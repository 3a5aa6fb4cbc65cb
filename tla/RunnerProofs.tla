----------------------------- MODULE RunnerProofs -----------------------------
(***************************************************************************)
(* What the runner of a test is told by the service.  The callback of an   *)
(* execution, for any clients, requests and timeouts: one of those that    *)
(* want to complete it wins, and while it is open its timeouts are on      *)
(* their way.  And the history of an execution, for any operations and any *)
(* size of the pages: events are only added, the pages mislead nobody, and *)
(* the events tell the record.                                             *)
(***************************************************************************)
EXTENDS CloudRunner, ExecutionHistory, FiniteSetTheorems, WellFoundedInduction, TLAPS

\* A task is that of the request of a client, or of a timer.
Tasks == ({"request"} \X Clients) \cup ({"timeout"} \X Timeouts)

\* What a client asks has an answer.
ConnIsSound ==
  /\ DOMAIN conn = Clients
  /\ \A c \in Clients : /\ DOMAIN conn[c] = {"at", "work", "told"}
                        /\ "code" \in DOMAIN conn[c].work

\* A request is on one lane, that of its execution, and its thread waits for it.
OnOneLane ==
  /\ lanes \in [Arns -> Seq(Tasks)]
  /\ \A a \in Arns : \A i \in DOMAIN lanes[a] : \A c \in Clients :
       lanes[a][i] = <<"request", c>> =>
         /\ conn[c].at = "queued" /\ conn[c].work.arn = a
         /\ \A j \in DOMAIN lanes[a] : lanes[a][j] = <<"request", c>> => j = i

\* The request of c has completed the callback, and its client is not told yet.
Wins(c) == conn[c].at = "served" /\ Completes(conn[c].work) /\ conn[c].work.code = 200

OneWins ==
  /\ \A c \in Clients : Wins(c) =>
       /\ callback = conn[c].work.do /\ acked = <<>>
       /\ \A d \in Clients : Wins(d) => d = c
  /\ acked = <<>> \/ (acked = <<callback>> /\ callback \in {"SUCCEEDED", "FAILED"})

ApiInv == ConnIsSound /\ OnOneLane /\ OneWins /\ OpenCallbackIsTimed

-----------------------------------------------------------------------------
\* What a request asks for.

\* A set of numbers has a least one: how the first of the routes that match is found.
LEMMA SomeIsFirst ==
  ASSUME NEW S \in SUBSET Nat, S # {}
  PROVE  \E m \in S : \A n \in S : m <= n
<1> DEFINE R == {ss \in Nat \X Nat : ss[1] < ss[2]}
<1>1. IsWellFoundedOn(R, Nat)
  BY NatLessThanWellFounded DEF OpToRel
<1>2. \A n, m \in Nat : n < m => <<n, m>> \in R
  OBVIOUS
<1> HIDE DEF R
<1>3. PICK m \in S : \A n \in S : <<n, m>> \notin R
  BY <1>1, WFMin
<1>4. \A n \in S : ~(n < m) /\ n \in Nat /\ m \in Nat
  BY <1>2, <1>3
<1> QED
  BY <1>4

\* The routes of the server (DEFAULT_ROUTE_TYPES).
RouteTypes == {"StartExecution", "GetDurableExecution", "CheckpointDurableExecution",
  "StopDurableExecution", "GetDurableExecutionState", "GetDurableExecutionHistory",
  "ListDurableExecutions", "ListDurableExecutionsByFunction", "CallbackSuccess",
  "CallbackFailure", "CallbackHeartbeat", "Health", "UpdateLambdaEndpoint", "Metrics"}

\* A request is of one of the routes, or of none of them.
LEMMA RouteIsListed ==
  ASSUME NEW path, NEW method
  PROVE  FindRoute(path, method).type \in RouteTypes \cup {"Unknown"}
<1> DEFINE matches == {i \in DOMAIN DefaultRouteTypes : IsMatch(DefaultRouteTypes[i], path, method)}
           first == CHOOSE i \in matches : \A j \in matches : i <= j
<1>1. DOMAIN DefaultRouteTypes = 1 .. 14
  BY DEF DefaultRouteTypes
<1>2. \A i \in 1 .. 14 : DefaultRouteTypes[i].type \in RouteTypes
  <2> USE DEF DefaultRouteTypes, RouteTypes, Fixed, Pattern
  <2>1. /\ StartExecutionRoute.type \in RouteTypes /\ GetDurableExecutionRoute.type \in RouteTypes
        /\ CheckpointDurableExecutionRoute.type \in RouteTypes
        /\ StopDurableExecutionRoute.type \in RouteTypes
        /\ GetDurableExecutionStateRoute.type \in RouteTypes
        /\ GetDurableExecutionHistoryRoute.type \in RouteTypes
        /\ ListDurableExecutionsRoute.type \in RouteTypes
    BY DEF StartExecutionRoute, GetDurableExecutionRoute, CheckpointDurableExecutionRoute,
       StopDurableExecutionRoute, GetDurableExecutionStateRoute, GetDurableExecutionHistoryRoute,
       ListDurableExecutionsRoute
  <2>2. /\ ListDurableExecutionsByFunctionRoute.type \in RouteTypes
        /\ CallbackSuccessRoute.type \in RouteTypes /\ CallbackFailureRoute.type \in RouteTypes
        /\ CallbackHeartbeatRoute.type \in RouteTypes /\ HealthRoute.type \in RouteTypes
        /\ UpdateLambdaEndpointRoute.type \in RouteTypes /\ MetricsRoute.type \in RouteTypes
    BY DEF ListDurableExecutionsByFunctionRoute, CallbackSuccessRoute, CallbackFailureRoute,
       CallbackHeartbeatRoute, HealthRoute, UpdateLambdaEndpointRoute, MetricsRoute
  <2> HIDE DEF RouteTypes, Fixed, Pattern
  <2> QED
    BY <2>1, <2>2
<1>3. ASSUME matches # {} PROVE DefaultRouteTypes[first].type \in RouteTypes
  <2>1. matches \in SUBSET Nat
    BY <1>1
  <2>2. \E m \in matches : \A n \in matches : m <= n
    BY <1>3, <2>1, SomeIsFirst
  <2>3. first \in matches
    BY <2>2
  <2>4. matches \subseteq 1 .. 14
    BY <1>1
  <2> HIDE DEF first, matches
  <2>5. first \in 1 .. 14
    BY <2>3, <2>4
  <2> QED
    BY <1>2, <2>5
<1>4. Unknown.type = "Unknown"
  BY DEF Unknown
<1> QED
  BY <1>3, <1>4 DEF FindRoute

\* Whatever a request asks for, it is answered with some status.
LEMMA WorkIsAnswered ==
  ASSUME NEW r
  PROVE  "code" \in DOMAIN Work(r)
<1> DEFINE IsWork(w) == "code" \in DOMAIN w
<1>1. \A code : IsWork(Refuse(code))
  BY DEF Refuse
<1>2. \A what, arn : IsWork(AtOnce(what, arn)) /\ IsWork(OnLane(what, arn))
  BY <1>1 DEF AtOnce, OnLane
<1>3. \A w : IsWork(w) => IsWork(WithBody(r, w)) /\ IsWork(WithNumber(r, w))
  BY <1>1 DEF WithBody, WithNumber
<1>4. \A what, id : IsWork(OfCallback(what, id))
  BY <1>1, <1>2 DEF OfCallback
<1> HIDE DEF IsWork
<1>5. /\ IsWork(StartExecutionHandler(r)) /\ IsWork(CheckpointDurableExecutionHandler(r))
      /\ IsWork(GetDurableExecutionStateHandler(r))
  <2>1. \A what, arn, n : /\ IsWork([AtOnce(what, arn) EXCEPT !.code = n])
                          /\ IsWork([OnLane(what, arn) EXCEPT !.token = n])
    BY <1>2 DEF IsWork
  <2> QED
    BY <1>3, <2>1 DEF StartExecutionHandler, CheckpointDurableExecutionHandler,
       GetDurableExecutionStateHandler
<1>6. /\ IsWork(GetDurableExecutionHandler(r)) /\ IsWork(StopDurableExecutionHandler(r))
      /\ IsWork(GetDurableExecutionHistoryHandler(r)) /\ IsWork(ListDurableExecutionsHandler(r))
      /\ IsWork(ListDurableExecutionsByFunctionHandler(r)) /\ IsWork(HealthHandler(r))
      /\ IsWork(MetricsHandler(r)) /\ IsWork(UpdateLambdaEndpointHandler(r))
  BY <1>1, <1>2, <1>3 DEF GetDurableExecutionHandler, StopDurableExecutionHandler,
     GetDurableExecutionHistoryHandler, ListDurableExecutionsHandler,
     ListDurableExecutionsByFunctionHandler, HealthHandler, MetricsHandler,
     UpdateLambdaEndpointHandler
<1>7. /\ IsWork(SendDurableExecutionCallbackSuccessHandler(r))
      /\ IsWork(SendDurableExecutionCallbackFailureHandler(r))
      /\ IsWork(SendDurableExecutionCallbackHeartbeatHandler(r))
  BY <1>1, <1>4 DEF SendDurableExecutionCallbackSuccessHandler,
     SendDurableExecutionCallbackFailureHandler, SendDurableExecutionCallbackHeartbeatHandler
<1>8. FindRoute(r.path, r.method).type \in RouteTypes \cup {"Unknown"}
  BY RouteIsListed
<1>9. PICK type : type = FindRoute(r.path, r.method).type
  OBVIOUS
<1>10. ASSUME type \in RouteTypes
       PROVE  IsWork([StartExecution |-> StartExecutionHandler(r),
                      GetDurableExecution |-> GetDurableExecutionHandler(r),
                      CheckpointDurableExecution |-> CheckpointDurableExecutionHandler(r),
                      StopDurableExecution |-> StopDurableExecutionHandler(r),
                      GetDurableExecutionState |-> GetDurableExecutionStateHandler(r),
                      GetDurableExecutionHistory |-> GetDurableExecutionHistoryHandler(r),
                      ListDurableExecutions |-> ListDurableExecutionsHandler(r),
                      ListDurableExecutionsByFunction |-> ListDurableExecutionsByFunctionHandler(r),
                      CallbackSuccess |-> SendDurableExecutionCallbackSuccessHandler(r),
                      CallbackFailure |-> SendDurableExecutionCallbackFailureHandler(r),
                      CallbackHeartbeat |-> SendDurableExecutionCallbackHeartbeatHandler(r),
                      Health |-> HealthHandler(r),
                      UpdateLambdaEndpoint |-> UpdateLambdaEndpointHandler(r),
                      Metrics |-> MetricsHandler(r)][type])
  BY <1>5, <1>6, <1>7, <1>10 DEF RouteTypes
<1>11. IsWork(Work(r))
  BY <1>1, <1>8, <1>9, <1>10, Zenon DEF Work
<1> QED
  BY <1>11 DEF IsWork

-----------------------------------------------------------------------------
\* What the steps of the server and of its clients leave as it is.

\* The callback stays as it is, and so do its timeouts.
LEMMA TimeoutsStay ==
  ASSUME OpenCallbackIsTimed, callback' = callback, timers' = timers, lanes' = lanes,
         Closed => Closed'
  PROVE  OpenCallbackIsTimed'
  BY DEF OpenCallbackIsTimed

\* The connection of a client changes, which has not won.
LEMMA ConnMoves ==
  ASSUME ApiInv, NEW c \in Clients, NEW x, conn' = [conn EXCEPT ![c] = x],
         DOMAIN x = {"at", "work", "told"}, "code" \in DOMAIN x.work,
         ~(x.at = "served" /\ Completes(x.work) /\ x.work.code = 200)
  PROVE  /\ ConnIsSound'
         /\ conn[c].at # "queued" /\ lanes' = lanes => OnOneLane'
         /\ callback' = callback /\ acked' = acked => OneWins'
         /\ \A d \in Clients : Wins(d)' => Wins(d) /\ d # c /\ conn'[d] = conn[d]
<1>1. ConnIsSound /\ OnOneLane /\ OneWins
  BY DEF ApiInv
<1>2. conn'[c] = x /\ \A d \in Clients : d # c => conn'[d] = conn[d]
  BY <1>1 DEF ConnIsSound
<1>3. ConnIsSound'
  BY <1>1, <1>2 DEF ConnIsSound
<1>4. ASSUME conn[c].at # "queued", lanes' = lanes PROVE OnOneLane'
  BY <1>1, <1>2, <1>4 DEF OnOneLane
<1>5. \A d \in Clients : Wins(d)' => Wins(d) /\ d # c /\ conn'[d] = conn[d]
  BY <1>2 DEF Wins, Completes
<1>6. ASSUME callback' = callback, acked' = acked PROVE OneWins'
  BY <1>1, <1>5, <1>6 DEF OneWins
<1> QED
  BY <1>3, <1>4, <1>5, <1>6

\* A client asks.
LEMMA AskKeeps ==
  ASSUME ApiInv, NEW c \in Clients, NEW r, Ask(c, Work(r))
  PROVE  ApiInv'
<1>1. PICK x : x = [Idle EXCEPT !.at = "sent", !.work = Work(r)]
  OBVIOUS
<1>2. /\ DOMAIN x = {"at", "work", "told"} /\ x.work = Work(r) /\ x.at = "sent"
  BY <1>1 DEF Idle
<1>3. "code" \in DOMAIN x.work
  BY <1>2, WorkIsAnswered
<1>4. /\ conn' = [conn EXCEPT ![c] = x] /\ conn[c].at = "idle" /\ lanes' = lanes
      /\ acked' = acked /\ callback' = callback /\ timers' = timers /\ exec' = exec
  BY <1>1 DEF Ask, record
<1>5. ConnIsSound' /\ OnOneLane' /\ OneWins'
  BY <1>2, <1>3, <1>4, ConnMoves
<1>6. OpenCallbackIsTimed'
  BY <1>4, TimeoutsStay DEF ApiInv, Closed
<1> QED
  BY <1>5, <1>6 DEF ApiInv

\* A client has read its answer.
LEMMA ReadKeeps ==
  ASSUME ApiInv, NEW c \in Clients, Read(c)
  PROVE  ApiInv'
<1>1. /\ DOMAIN Idle = {"at", "work", "told"} /\ "code" \in DOMAIN Idle.work /\ Idle.at = "idle"
  BY DEF Idle, Refuse
<1>2. /\ conn' = [conn EXCEPT ![c] = Idle] /\ conn[c].at = "answered" /\ lanes' = lanes
      /\ acked' = acked /\ callback' = callback /\ timers' = timers /\ exec' = exec
  BY DEF Read, record
<1>3. ConnIsSound' /\ OnOneLane' /\ OneWins'
  BY <1>1, <1>2, ConnMoves
<1>4. OpenCallbackIsTimed'
  BY <1>2, TimeoutsStay DEF ApiInv, Closed
<1> QED
  BY <1>3, <1>4 DEF ApiInv

\* A task joins a lane.
Joins(a, task) == lanes' = [lanes EXCEPT ![a] = Append(@, task)]

\* What is on a lane keeps its place, and the new task is behind it.
LEMMA LaneGrows ==
  ASSUME OnOneLane, NEW a, NEW task \in Tasks, Joins(a, task)
  PROVE  /\ lanes' \in [Arns -> Seq(Tasks)]
         /\ \A b \in Arns : \A i \in DOMAIN lanes[b] :
              i \in DOMAIN lanes'[b] /\ lanes'[b][i] = lanes[b][i]
         /\ \A b \in Arns : \A i \in DOMAIN lanes'[b] :
              \/ i \in DOMAIN lanes[b] /\ lanes'[b][i] = lanes[b][i]
              \/ b = a /\ lanes'[b][i] = task /\ i = Len(lanes[b]) + 1
         /\ a \in Arns => \E i \in DOMAIN lanes'[a] : lanes'[a][i] = task
<1>1. lanes \in [Arns -> Seq(Tasks)]
  BY DEF OnOneLane
<1>2. ASSUME NEW b \in Arns
      PROVE  /\ lanes[b] \in Seq(Tasks) /\ Len(lanes[b]) \in Nat
             /\ DOMAIN lanes[b] = 1 .. Len(lanes[b])
             /\ lanes'[b] = IF b = a THEN Append(lanes[b], task) ELSE lanes[b]
  BY <1>1 DEF Joins
<1>3. ASSUME NEW b \in Arns
      PROVE  /\ Append(lanes[b], task) \in Seq(Tasks)
             /\ DOMAIN Append(lanes[b], task) = 1 .. Len(lanes[b]) + 1
             /\ Append(lanes[b], task)[Len(lanes[b]) + 1] = task
             /\ \A i \in 1 .. Len(lanes[b]) : Append(lanes[b], task)[i] = lanes[b][i]
  BY <1>2
<1>4. lanes' \in [Arns -> Seq(Tasks)]
  BY <1>1, <1>2, <1>3 DEF Joins
<1>5. ASSUME NEW b \in Arns
      PROVE  /\ \A i \in DOMAIN lanes[b] : i \in DOMAIN lanes'[b] /\ lanes'[b][i] = lanes[b][i]
             /\ \A i \in DOMAIN lanes'[b] :
                  \/ i \in DOMAIN lanes[b] /\ lanes'[b][i] = lanes[b][i]
                  \/ b = a /\ lanes'[b][i] = task /\ i = Len(lanes[b]) + 1
             /\ b = a => \E i \in DOMAIN lanes'[b] : lanes'[b][i] = task
  <2>1. CASE b = a
    <3>1. PICK s, n, q : s = lanes[b] /\ n = Len(s) /\ q = lanes'[b]
      OBVIOUS
    <3>2. /\ n \in Nat /\ DOMAIN s = 1 .. n /\ DOMAIN q = 1 .. n + 1 /\ q[n + 1] = task
          /\ \A i \in 1 .. n : q[i] = s[i]
      <4>1. /\ Len(lanes[b]) \in Nat /\ DOMAIN lanes[b] = 1 .. Len(lanes[b])
            /\ lanes'[b] = Append(lanes[b], task)
        BY <1>2, <2>1
      <4>2. q = Append(s, task) /\ n \in Nat /\ DOMAIN s = 1 .. n
        BY <3>1, <4>1
      <4>3. /\ DOMAIN Append(s, task) = 1 .. n + 1 /\ Append(s, task)[n + 1] = task
            /\ \A i \in 1 .. n : Append(s, task)[i] = s[i]
        BY <1>3, <3>1
      <4> QED
        BY <4>2, <4>3
    <3>3. /\ \A i \in 1 .. n + 1 : i \in 1 .. n \/ i = n + 1
          /\ n + 1 \in 1 .. n + 1 /\ 1 .. n \subseteq 1 .. n + 1
      BY <3>2
    <3>4. /\ \A i \in DOMAIN s : i \in DOMAIN q /\ q[i] = s[i]
          /\ \A i \in DOMAIN q : (i \in DOMAIN s /\ q[i] = s[i]) \/ (q[i] = task /\ i = n + 1)
          /\ \E i \in DOMAIN q : q[i] = task
      BY <3>2, <3>3
    <3> QED
      BY <2>1, <3>1, <3>4
  <2>2. CASE b # a
    BY <1>2, <2>2
  <2> QED
    BY <2>1, <2>2
<1> QED
  BY <1>4, <1>5

\* The first task of a lane is done.
Leaves(a) == lanes[a] # <<>> /\ lanes' = [lanes EXCEPT ![a] = Tail(@)]

\* What is left on the lane is one place nearer.
LEMMA LaneShrinks ==
  ASSUME OnOneLane, NEW a \in Arns, Leaves(a)
  PROVE  /\ lanes' \in [Arns -> Seq(Tasks)]
         /\ Head(lanes[a]) = lanes[a][1] /\ 1 \in DOMAIN lanes[a] /\ Head(lanes[a]) \in Tasks
         /\ \A b \in Arns : b # a => lanes'[b] = lanes[b]
         /\ \A i \in DOMAIN lanes'[a] : /\ i + 1 \in DOMAIN lanes[a] /\ i + 1 # 1
                                        /\ lanes'[a][i] = lanes[a][i + 1]
         /\ \A i \in DOMAIN lanes[a] :
              i # 1 => i - 1 \in DOMAIN lanes'[a] /\ lanes'[a][i - 1] = lanes[a][i]
         /\ DOMAIN lanes[a] \subseteq Nat /\ DOMAIN lanes'[a] \subseteq Nat
<1>1. /\ lanes \in [Arns -> Seq(Tasks)] /\ lanes[a] \in Seq(Tasks)
  BY DEF OnOneLane
<1>2. PICK s : s = lanes[a] /\ s \in Seq(Tasks) /\ s # <<>>
  BY <1>1 DEF Leaves
<1>3. /\ Tail(s) \in Seq(Tasks) /\ Head(s) = s[1] /\ Len(s) \in Nat /\ Len(s) >= 1
      /\ DOMAIN s = 1 .. Len(s) /\ Len(Tail(s)) = Len(s) - 1 /\ DOMAIN Tail(s) = 1 .. Len(s) - 1
      /\ \A i \in 1 .. Len(s) - 1 : Tail(s)[i] = s[i + 1]
  BY <1>2
<1>4. lanes'[a] = Tail(s) /\ \A b \in Arns : b # a => lanes'[b] = lanes[b]
  BY <1>1, <1>2 DEF Leaves
<1>5. 1 \in DOMAIN s /\ s[1] \in Tasks
  BY <1>2, <1>3
<1>6. lanes' \in [Arns -> Seq(Tasks)]
  BY <1>1, <1>2, <1>3 DEF Leaves
<1>7. \A i \in 1 .. Len(s) - 1 : i + 1 \in 1 .. Len(s) /\ i + 1 # 1 /\ Tail(s)[i] = s[i + 1]
  BY <1>3
<1>8. \A i \in 1 .. Len(s) : i # 1 => i - 1 \in 1 .. Len(s) - 1 /\ Tail(s)[i - 1] = s[i]
  <2>1. ASSUME NEW i \in 1 .. Len(s), i # 1
        PROVE  i - 1 \in 1 .. Len(s) - 1 /\ (i - 1) + 1 = i
    BY <1>3, <2>1
  <2> QED
    BY <1>3, <2>1
<1> QED
  BY <1>2, <1>3, <1>4, <1>5, <1>6, <1>7, <1>8

-----------------------------------------------------------------------------
\* The steps of the server.

\* A request whose answer is told is not at work any more.
LEMMA TellFacts ==
  ASSUME ConnIsSound, NEW c \in Clients, NEW code, NEW what, NEW x, x = Tell(c, code, what)
  PROVE  /\ DOMAIN x = {"at", "work", "told"} /\ "code" \in DOMAIN x.work
         /\ x.at = "served" /\ x.work.code = code
         /\ x.work.by = conn[c].work.by /\ x.work.do = conn[c].work.do
<1>1. PICK r, w, v : /\ r = conn[c] /\ w = r.work /\ v = [w EXCEPT !.code = code]
  OBVIOUS
<1>2. DOMAIN r = {"at", "work", "told"} /\ "code" \in DOMAIN w
  BY <1>1 DEF ConnIsSound
<1>3. DOMAIN v = DOMAIN w /\ v.code = code /\ v.by = w.by /\ v.do = w.do
  BY <1>1, <1>2
<1>4. x = [r EXCEPT !.at = "served", !.work = v, !.told = what]
  BY <1>1 DEF Tell
<1>5. DOMAIN x = {"at", "work", "told"} /\ x.at = "served" /\ x.work = v
  BY <1>2, <1>4
<1> QED
  BY <1>1, <1>2, <1>3, <1>5

\* The thread of a request serves it, or puts it on a lane.
LEMMA HandleKeeps ==
  ASSUME ApiInv, NEW c \in Clients, Handle(c)
  PROVE  ApiInv'
<1>0. conn[c].at = "sent"
  BY DEF Handle
<1>1. ConnIsSound /\ OnOneLane /\ OneWins /\ OpenCallbackIsTimed /\ conn[c].at = "sent"
  BY <1>0 DEF ApiInv
<1>2. CASE /\ conn[c].work.by \in {"refusal", "thread"}
           /\ \E code, what : conn' = [conn EXCEPT ![c] = Tell(c, code, what)]
           /\ lanes' = lanes /\ acked' = acked /\ callback' = callback /\ timers' = timers
           /\ exec' = exec \/ exec = "absent"
  <2>1. PICK code, what : conn' = [conn EXCEPT ![c] = Tell(c, code, what)]
    BY <1>2
  <2>2. PICK x : x = Tell(c, code, what)
    OBVIOUS
  <2>3. /\ DOMAIN x = {"at", "work", "told"} /\ "code" \in DOMAIN x.work
        /\ x.work.by # "lane"
    BY <1>1, <1>2, <2>2, TellFacts
  <2>4. ConnIsSound' /\ OnOneLane' /\ OneWins'
    BY <1>1, <1>2, <2>1, <2>2, <2>3, ConnMoves DEF Completes
  <2>5. Closed => Closed'
    BY <1>2 DEF Closed, Ended
  <2> QED
    BY <1>1, <1>2, <2>4, <2>5, TimeoutsStay DEF ApiInv
<1>3. CASE /\ conn[c].work.by = "lane"
           /\ lanes' = [lanes EXCEPT ![conn[c].work.arn] = Append(@, <<"request", c>>)]
           /\ conn' = [conn EXCEPT ![c].at = "queued"]
           /\ acked' = acked /\ callback' = callback /\ timers' = timers /\ exec' = exec
  <2>1. PICK x, task, a : /\ x = [conn[c] EXCEPT !.at = "queued"] /\ task = <<"request", c>>
                          /\ a = conn[c].work.arn
    OBVIOUS
  <2>2. /\ DOMAIN x = {"at", "work", "told"} /\ x.work = conn[c].work /\ x.at = "queued"
        /\ "code" \in DOMAIN x.work
    BY <1>1, <2>1 DEF ConnIsSound
  <2>3. conn' = [conn EXCEPT ![c] = x]
    BY <1>3, <2>1
  <2>4. ConnIsSound' /\ OneWins'
    BY <1>3, <2>2, <2>3, ConnMoves
  <2>5. OnOneLane /\ task \in Tasks /\ Joins(a, task)
    BY <1>1, <1>3, <2>1 DEF Tasks, Joins
  <2> HIDE DEF OnOneLane
  <2>6. /\ lanes' \in [Arns -> Seq(Tasks)]
        /\ \A b \in Arns : \A i \in DOMAIN lanes[b] :
             i \in DOMAIN lanes'[b] /\ lanes'[b][i] = lanes[b][i]
        /\ \A b \in Arns : \A i \in DOMAIN lanes'[b] :
             \/ i \in DOMAIN lanes[b] /\ lanes'[b][i] = lanes[b][i]
             \/ b = a /\ lanes'[b][i] = task /\ i = Len(lanes[b]) + 1
    BY <2>5, LaneGrows
  <2>7. conn'[c] = x /\ \A d \in Clients : d # c => conn'[d] = conn[d]
    BY <1>1, <2>3 DEF ConnIsSound
  <2>8. ASSUME NEW b \in Arns, NEW i \in DOMAIN lanes'[b], NEW d \in Clients,
               lanes'[b][i] = <<"request", d>>
        PROVE  /\ conn'[d].at = "queued" /\ conn'[d].work.arn = b
               /\ \A j \in DOMAIN lanes'[b] : lanes'[b][j] = <<"request", d>> => j = i
    <3>1. \A j \in DOMAIN lanes[b] : lanes[b][j] # <<"request", c>>
      BY <1>1 DEF OnOneLane
    <3>2. <<"request", c>> = <<"request", d>> => d = c
      OBVIOUS
    <3>3. CASE i \in DOMAIN lanes[b] /\ lanes'[b][i] = lanes[b][i]
      <4>1. /\ conn[d].at = "queued" /\ conn[d].work.arn = b
            /\ \A j \in DOMAIN lanes[b] : lanes[b][j] = <<"request", d>> => j = i
        BY <1>1, <2>8, <3>3 DEF OnOneLane
      <4>2. d # c
        BY <1>1, <4>1
      <4>3. ASSUME NEW j \in DOMAIN lanes'[b], lanes'[b][j] = <<"request", d>> PROVE j = i
        <5>1. lanes'[b][j] # task
          BY <2>1, <3>2, <4>2, <4>3
        <5>2. j \in DOMAIN lanes[b] /\ lanes'[b][j] = lanes[b][j]
          BY <2>6, <5>1
        <5> QED
          BY <4>1, <4>3, <5>2
      <4> QED
        BY <2>7, <4>1, <4>2, <4>3
    <3>4. CASE b = a /\ lanes'[b][i] = task /\ i = Len(lanes[b]) + 1
      <4>1. d = c
        BY <2>1, <2>8, <3>2, <3>4
      <4>2. ASSUME NEW j \in DOMAIN lanes'[b], lanes'[b][j] = <<"request", d>> PROVE j = i
        <5>1. ~(j \in DOMAIN lanes[b] /\ lanes'[b][j] = lanes[b][j])
          BY <3>1, <4>1, <4>2
        <5> QED
          BY <2>6, <3>4, <5>1
      <4> QED
        BY <2>1, <2>2, <2>7, <3>4, <4>1, <4>2
    <3> QED
      BY <2>6, <3>3, <3>4
  <2>9. OnOneLane'
    BY <2>6, <2>8 DEF OnOneLane
  <2>10. OpenCallbackIsTimed'
    <3>1. E \in Arns /\ (Closed' <=> Closed)
      BY <1>3 DEF Arns, Closed
    <3>2. \A i \in DOMAIN lanes[E] : i \in DOMAIN lanes'[E] /\ lanes'[E][i] = lanes[E][i]
      BY <2>6, <3>1
    <3>3. callback' = callback /\ timers' = timers
      BY <1>3
    <3> QED
      BY <1>1, <3>1, <3>2, <3>3 DEF OpenCallbackIsTimed
  <2> QED
    BY <2>4, <2>9, <2>10 DEF ApiInv
<1>4. CASE conn[c].work.by \in {"refusal", "thread"}
  <2>1. \E code, what : conn' = [conn EXCEPT ![c] = Tell(c, code, what)]
    BY <1>4 DEF Handle
  <2>2. lanes' = lanes /\ acked' = acked /\ callback' = callback /\ timers' = timers
    BY <1>4 DEF Handle, record
  <2>3. exec' = exec \/ exec = "absent"
    BY <1>4 DEF Handle, record, AtOnceEffect, Start
  <2> QED
    BY <1>2, <1>4, <2>1, <2>2, <2>3
<1>5. CASE conn[c].work.by = "lane"
  <2>1. /\ lanes' = [lanes EXCEPT ![conn[c].work.arn] = Append(@, <<"request", c>>)]
        /\ conn' = [conn EXCEPT ![c].at = "queued"]
        /\ acked' = acked /\ callback' = callback /\ timers' = timers /\ exec' = exec
    BY <1>5 DEF Handle, record
  <2> QED
    BY <1>3, <1>5, <2>1
<1> QED
  BY <1>4, <1>5 DEF Handle

\* A request that is served leaves its lane, and no other task is about it.
LEMMA ServedLeaves ==
  ASSUME OnOneLane, ConnIsSound, NEW a \in Arns, Leaves(a),
         \A d \in Clients : Head(lanes[a]) # <<"request", d>> => conn'[d] = conn[d]
  PROVE  OnOneLane'
<1>1. /\ lanes' \in [Arns -> Seq(Tasks)]
      /\ Head(lanes[a]) = lanes[a][1] /\ 1 \in DOMAIN lanes[a]
      /\ \A b \in Arns : b # a => lanes'[b] = lanes[b]
      /\ \A i \in DOMAIN lanes'[a] : /\ i + 1 \in DOMAIN lanes[a] /\ i + 1 # 1
                                     /\ lanes'[a][i] = lanes[a][i + 1]
      /\ DOMAIN lanes'[a] \subseteq Nat
  BY LaneShrinks
<1>2. ASSUME NEW b \in Arns, NEW i \in DOMAIN lanes'[b], NEW d \in Clients,
             lanes'[b][i] = <<"request", d>>
      PROVE  /\ conn'[d].at = "queued" /\ conn'[d].work.arn = b
             /\ \A j \in DOMAIN lanes'[b] : lanes'[b][j] = <<"request", d>> => j = i
  <2>1. PICK k \in DOMAIN lanes[b] : /\ lanes[b][k] = <<"request", d>>
                                     /\ b = a => k # 1
                                     /\ b # a => k = i
                                     /\ b = a => k = i + 1
    <3>1. CASE b = a
      BY <1>1, <1>2, <3>1
    <3>2. CASE b # a
      BY <1>1, <1>2, <3>2
    <3> QED
      BY <3>1, <3>2
  <2>2. /\ conn[d].at = "queued" /\ conn[d].work.arn = b
        /\ \A j \in DOMAIN lanes[b] : lanes[b][j] = <<"request", d>> => j = k
    BY <2>1 DEF OnOneLane
  <2>3. Head(lanes[a]) # <<"request", d>>
    <3>1. SUFFICES ASSUME lanes[a][1] = <<"request", d>> PROVE FALSE
      BY <1>1
    <3>2. conn[d].work.arn = a
      BY <1>1, <3>1 DEF OnOneLane
    <3> QED
      BY <1>1, <2>1, <2>2, <3>1, <3>2
  <2>4. ASSUME NEW j \in DOMAIN lanes'[b], lanes'[b][j] = <<"request", d>> PROVE j = i
    <3>1. CASE b = a
      <4>1. i \in Nat /\ j \in Nat /\ k = i + 1
        BY <1>1, <2>1, <3>1
      <4>2. j + 1 \in DOMAIN lanes[b] /\ lanes[b][j + 1] = <<"request", d>>
        BY <1>1, <2>4, <3>1
      <4>3. j + 1 = k
        BY <2>2, <4>2
      <4> QED
        BY <4>1, <4>3
    <3>2. CASE b # a
      BY <1>1, <2>1, <2>2, <2>4, <3>2
    <3> QED
      BY <3>1, <3>2
  <2> QED
    BY <2>2, <2>3, <2>4
<1> QED
  BY <1>1, <1>2 DEF OnOneLane

\* The lane serves the request at its head.
LEMMA RunRequestKeeps ==
  ASSUME ApiInv, NEW a \in Arns, RunRequest(a)
  PROVE  ApiInv'
<1>1. ConnIsSound /\ OnOneLane /\ OneWins /\ OpenCallbackIsTimed
  BY DEF ApiInv
<1>2. Leaves(a) /\ acked' = acked
  BY DEF RunRequest, Leaves
<1>3. /\ Head(lanes[a]) \in Tasks /\ Head(lanes[a])[1] = "request"
      /\ Head(lanes[a]) = lanes[a][1] /\ 1 \in DOMAIN lanes[a]
  BY <1>1, <1>2, LaneShrinks DEF RunRequest
<1>4. PICK c \in Clients : Head(lanes[a]) = <<"request", c>>
  BY <1>3 DEF Tasks
<1>5. PICK code, work : work = conn[c].work /\ code = TaskCode(work)
  OBVIOUS
<1>6. /\ \/ code = 200 /\ Effect(work)
         \/ code # 200 /\ UNCHANGED <<exec, callback, timers, token>>
      /\ conn' = [conn EXCEPT ![c] = Tell(c, code, "none")]
  <2>1. Head(lanes[a])[2] = c
    BY <1>4
  <2> QED
    BY <1>5, <2>1 DEF RunRequest
<1>7. PICK x : x = Tell(c, code, "none")
  OBVIOUS
<1>8. /\ DOMAIN x = {"at", "work", "told"} /\ "code" \in DOMAIN x.work
      /\ x.work.code = code /\ x.work.by = work.by /\ x.work.do = work.do
  BY <1>1, <1>5, <1>7, TellFacts
<1>9. conn'[c] = x /\ DOMAIN conn' = DOMAIN conn /\ \A d \in Clients : d # c => conn'[d] = conn[d]
  BY <1>1, <1>6, <1>7 DEF ConnIsSound
<1>10. ConnIsSound'
  BY <1>1, <1>8, <1>9 DEF ConnIsSound
<1>11. OnOneLane'
  <2>1. \A d \in Clients : Head(lanes[a]) # <<"request", d>> => conn'[d] = conn[d]
    BY <1>4, <1>9
  <2> QED
    BY <1>1, <1>2, <2>1, ServedLeaves
\* It changes the callback before there is a winner, or leaves it as it is.
<1>12. \/ callback' = callback /\ ~(Completes(x.work) /\ x.work.code = 200)
       \/ /\ callback \in {"absent", "STARTED"}
          /\ Completes(x.work) /\ x.work.code = 200 => callback' = x.work.do
          /\ callback' \in {"STARTED", "SUCCEEDED", "FAILED"}
  <2>1. CASE code # 200
    BY <1>6, <1>8, <2>1
  <2>2. CASE code = 200 /\ work.do = "checkpoint" /\ Checkpoint
    <3>1. callback = "absent"
      BY <1>5, <2>2 DEF TaskCode, NotFound, InvalidParameter
    <3> QED
      BY <1>8, <2>2, <3>1 DEF Checkpoint, Completes
  <2>3. CASE code = 200 /\ work.do \in {"SUCCEEDED", "FAILED"} /\ Complete(work.do)
    <3>1. callback = "STARTED"
      BY <1>5, <2>3 DEF TaskCode, NotFound, InvalidParameter, Open
    <3> QED
      BY <1>8, <2>3, <3>1 DEF Complete, Completes
  <2>4. CASE work.do \in {"stop", "heartbeat", "state"} /\ callback' = callback
    BY <1>8, <2>4 DEF Completes
  <2> QED
    BY <1>6, <2>1, <2>2, <2>3, <2>4 DEF Effect, Stop, Heartbeat
<1>13. OneWins'
  <2>1. CASE callback' = callback /\ ~(Completes(x.work) /\ x.work.code = 200)
    <3>1. \A d \in Clients : Wins(d)' => d # c /\ Wins(d) /\ conn'[d] = conn[d]
      BY <1>9, <2>1 DEF Wins
    <3> QED
      BY <1>1, <1>2, <2>1, <3>1 DEF OneWins
  <2>2. CASE /\ callback \in {"absent", "STARTED"}
             /\ Completes(x.work) /\ x.work.code = 200 => callback' = x.work.do
             /\ callback' \in {"STARTED", "SUCCEEDED", "FAILED"}
    <3>1. acked = <<>> /\ \A d \in Clients : ~Wins(d)
      BY <1>1, <2>2 DEF OneWins, Wins, Completes
    <3>2. \A d \in Clients : Wins(d)' => d = c
      BY <1>9, <3>1 DEF Wins
    <3>3. Wins(c)' => callback' = conn'[c].work.do
      BY <1>9, <2>2 DEF Wins
    <3> QED
      BY <1>2, <3>1, <3>2, <3>3 DEF OneWins
  <2> QED
    BY <1>12, <2>1, <2>2
\* What is on the lane of the execution and not a request stays there.
<1>14. OpenCallbackIsTimed'
  <2>1. ASSUME NEW t \in Timeouts, NEW i \in DOMAIN lanes[E], lanes[E][i] = <<"timeout", t>>
        PROVE  \E j \in DOMAIN lanes'[E] : lanes'[E][j] = <<"timeout", t>>
    <3>1. CASE a = E
      <4>1. i # 1
        BY <1>3, <2>1, <3>1
      <4>2. i - 1 \in DOMAIN lanes'[a] /\ lanes'[a][i - 1] = lanes[a][i]
        BY <1>1, <1>2, <2>1, <3>1, <4>1, LaneShrinks
      <4> QED
        BY <2>1, <3>1, <4>2
    <3>2. CASE a # E
      <4>1. lanes'[E] = lanes[E]
        BY <1>1, <1>2, <3>2, LaneShrinks DEF Arns
      <4> QED
        BY <2>1, <4>1
    <3> QED
      BY <3>1, <3>2
  <2>2. CASE /\ callback' = callback /\ exec' = exec
             /\ \A t \in Timeouts : t \in timers => t \in timers'
    <3>1. Closed' <=> Closed
      BY <2>2 DEF Closed
    <3> QED
      BY <1>1, <2>1, <2>2, <3>1 DEF OpenCallbackIsTimed
  <2>3. CASE callback' = callback /\ timers' = timers /\ exec' \in {exec, "STOPPED"}
    <3>1. Closed => Closed'
      BY <2>3 DEF Closed, Ended
    <3> QED
      BY <1>1, <2>1, <2>3, <3>1 DEF OpenCallbackIsTimed
  <2>4. CASE Checkpoint
    BY <2>4 DEF Checkpoint, OpenCallbackIsTimed
  <2>5. CASE work.do \in {"SUCCEEDED", "FAILED"} /\ Complete(work.do)
    BY <2>5 DEF Complete, OpenCallbackIsTimed
  <2>6. CASE Heartbeat
    BY <2>2, <2>6 DEF Heartbeat
  <2>7. CASE Stop
    BY <2>3, <2>7 DEF Stop
  <2>8. CASE UNCHANGED <<exec, callback, timers, token>>
    BY <2>2, <2>8
  <2> QED
    BY <1>6, <2>4, <2>5, <2>6, <2>7, <2>8 DEF Effect
<1> QED
  BY <1>10, <1>11, <1>13, <1>14 DEF ApiInv

\* The lane serves the timeout at its head: the callback times out if it is still open.
LEMMA RunTimeoutKeeps ==
  ASSUME ApiInv, RunTimeout
  PROVE  ApiInv'
<1>1. ConnIsSound /\ OnOneLane /\ OneWins /\ OpenCallbackIsTimed /\ E \in Arns
  BY DEF ApiInv, Arns
<1>2. /\ Leaves(E) /\ Head(lanes[E])[1] = "timeout" /\ conn' = conn /\ acked' = acked
      /\ timers' = timers /\ exec' = exec
      /\ \/ callback' = callback /\ (Closed \/ callback # "STARTED")
         \/ callback = "STARTED" /\ callback' = "TIMED_OUT"
  BY DEF RunTimeout, Leaves, TimesOut
<1>3. ConnIsSound'
  BY <1>1, <1>2 DEF ConnIsSound
<1>4. OnOneLane'
  <2>1. \A d \in Clients : conn'[d] = conn[d]
    BY <1>2
  <2> QED
    BY <1>1, <1>2, <2>1, ServedLeaves
<1>5. OneWins'
  <2>1. \A d \in Clients : Wins(d)' <=> Wins(d)
    BY <1>2 DEF Wins
  <2>2. CASE callback' = callback
    BY <1>1, <1>2, <2>1, <2>2 DEF OneWins
  <2>3. CASE callback = "STARTED"
    <3>1. acked = <<>> /\ \A d \in Clients : ~Wins(d)
      BY <1>1, <2>3 DEF OneWins, Wins, Completes
    <3> QED
      BY <1>2, <2>1, <3>1 DEF OneWins
  <2> QED
    BY <1>2, <2>2, <2>3
<1>6. OpenCallbackIsTimed'
  <2>1. Closed' <=> Closed
    BY <1>2 DEF Closed
  <2> QED
    BY <1>2, <2>1 DEF OpenCallbackIsTimed
<1> QED
  BY <1>3, <1>4, <1>5, <1>6 DEF ApiInv

\* The thread of a request goes on: the client of the winner is told.
LEMMA RespondKeeps ==
  ASSUME ApiInv, NEW c \in Clients, Respond(c)
  PROVE  ApiInv'
<1>1. ConnIsSound /\ OnOneLane /\ OneWins /\ OpenCallbackIsTimed
  BY DEF ApiInv
<1>2. PICK x : x = [conn[c] EXCEPT !.at = "answered"]
  OBVIOUS
<1>3. /\ DOMAIN x = {"at", "work", "told"} /\ "code" \in DOMAIN x.work /\ x.at = "answered"
  BY <1>1, <1>2 DEF ConnIsSound
<1>4. /\ conn' = [conn EXCEPT ![c] = x] /\ conn[c].at = "served" /\ lanes' = lanes
      /\ callback' = callback /\ timers' = timers /\ exec' = exec
  BY <1>2 DEF Respond, record
<1>5. /\ ConnIsSound' /\ OnOneLane'
      /\ acked' = acked => OneWins'
      /\ \A d \in Clients : Wins(d)' => Wins(d) /\ d # c
  BY <1>3, <1>4, ConnMoves
<1>6. OpenCallbackIsTimed'
  BY <1>1, <1>4, TimeoutsStay DEF Closed
<1>7. OneWins'
  <2>1. CASE acked' = acked
    BY <1>5, <2>1
  <2>2. CASE Wins(c) /\ acked' = Append(acked, conn[c].work.do)
    <3>1. /\ callback = conn[c].work.do /\ acked = <<>> /\ \A d \in Clients : Wins(d) => d = c
      BY <1>1, <2>2 DEF OneWins
    <3>2. callback \in {"SUCCEEDED", "FAILED"}
      BY <2>2, <3>1 DEF Wins, Completes
    <3>3. acked' = <<callback>>
      BY <2>2, <3>1
    <3> QED
      BY <1>4, <1>5, <3>1, <3>2, <3>3 DEF OneWins
  <2> QED
    BY <1>4, <2>1, <2>2 DEF Respond, Wins
<1> QED
  BY <1>5, <1>6, <1>7 DEF ApiInv

\* A timer is due, and its task joins the lane.
LEMMA TimerFiresKeeps ==
  ASSUME ApiInv, NEW t \in Timeouts, TimerFires(t)
  PROVE  ApiInv'
<1>1. ConnIsSound /\ OnOneLane /\ OneWins /\ OpenCallbackIsTimed /\ E \in Arns
  BY DEF ApiInv, Arns
<1>2. PICK task : task = <<"timeout", t>>
  OBVIOUS
<1>3. task \in Tasks /\ Joins(E, task)
  BY <1>2 DEF Tasks, TimerFires, Joins
<1>4. /\ conn' = conn /\ acked' = acked /\ callback' = callback /\ exec' = exec
      /\ timers' = timers \ {t}
  BY DEF TimerFires
<1>5. /\ lanes' \in [Arns -> Seq(Tasks)]
      /\ \A b \in Arns : \A i \in DOMAIN lanes[b] :
           i \in DOMAIN lanes'[b] /\ lanes'[b][i] = lanes[b][i]
      /\ \A b \in Arns : \A i \in DOMAIN lanes'[b] :
           \/ i \in DOMAIN lanes[b] /\ lanes'[b][i] = lanes[b][i]
           \/ b = E /\ lanes'[b][i] = task /\ i = Len(lanes[b]) + 1
      /\ \E i \in DOMAIN lanes'[E] : lanes'[E][i] = task
  BY <1>1, <1>3, LaneGrows
<1>6. ConnIsSound'
  BY <1>1, <1>4 DEF ConnIsSound
<1>7. OnOneLane'
  <2>1. ASSUME NEW b \in Arns, NEW i \in DOMAIN lanes'[b], NEW d \in Clients,
               lanes'[b][i] = <<"request", d>>
        PROVE  i \in DOMAIN lanes[b] /\ lanes[b][i] = <<"request", d>>
    <3>1. lanes'[b][i] # task
      BY <1>2, <2>1
    <3> QED
      BY <1>5, <2>1, <3>1
  <2>2. ASSUME NEW b \in Arns, NEW i \in DOMAIN lanes'[b], NEW d \in Clients,
               lanes'[b][i] = <<"request", d>>
        PROVE  /\ conn'[d].at = "queued" /\ conn'[d].work.arn = b
               /\ \A j \in DOMAIN lanes'[b] : lanes'[b][j] = <<"request", d>> => j = i
    <3>1. i \in DOMAIN lanes[b] /\ lanes[b][i] = <<"request", d>>
      BY <2>1, <2>2
    <3>2. /\ conn[d].at = "queued" /\ conn[d].work.arn = b
          /\ \A j \in DOMAIN lanes[b] : lanes[b][j] = <<"request", d>> => j = i
      BY <1>1, <3>1 DEF OnOneLane
    <3>3. \A j \in DOMAIN lanes'[b] : lanes'[b][j] = <<"request", d>> => j = i
      BY <2>1, <3>2
    <3> QED
      BY <1>4, <3>2, <3>3
  <2>3. lanes' \in [Arns -> Seq(Tasks)]
    BY <1>5
  <2> QED
    BY <2>2, <2>3 DEF OnOneLane
<1>8. OneWins'
  <2>1. \A d \in Clients : Wins(d)' <=> Wins(d)
    BY <1>4 DEF Wins
  <2> QED
    BY <1>1, <1>4, <2>1 DEF OneWins
<1>9. OpenCallbackIsTimed'
  <2>1. Closed' <=> Closed
    BY <1>4 DEF Closed
  <2>2. ASSUME NEW u \in Timeouts,
               u \in timers \/ \E i \in DOMAIN lanes[E] : lanes[E][i] = <<"timeout", u>>
        PROVE  u \in timers' \/ \E i \in DOMAIN lanes'[E] : lanes'[E][i] = <<"timeout", u>>
    <3>1. CASE u = t
      BY <1>2, <1>5, <3>1
    <3>2. CASE u # t /\ u \in timers
      BY <1>4, <3>2
    <3>3. CASE \E i \in DOMAIN lanes[E] : lanes[E][i] = <<"timeout", u>>
      BY <1>1, <1>5, <3>3
    <3> QED
      BY <2>2, <3>1, <3>2, <3>3
  <2> QED
    BY <1>1, <1>4, <2>1, <2>2 DEF OpenCallbackIsTimed
<1> QED
  BY <1>6, <1>7, <1>8, <1>9 DEF ApiInv

\* A step that is not about the callback, and does not open a closed execution.
LEMMA OthersKeep ==
  ASSUME ApiInv, conn' = conn, lanes' = lanes, acked' = acked, callback' = callback,
         timers' = timers, Closed => Closed'
  PROVE  ApiInv'
<1>1. ConnIsSound' /\ OnOneLane'
  BY DEF ApiInv, ConnIsSound, OnOneLane
<1>2. OneWins'
  <2>1. \A d \in Clients : Wins(d)' <=> Wins(d)
    BY DEF Wins
  <2> QED
    BY <2>1 DEF ApiInv, OneWins
<1>3. OpenCallbackIsTimed'
  BY TimeoutsStay DEF ApiInv
<1> QED
  BY <1>1, <1>2, <1>3 DEF ApiInv

\* At the start nothing is asked, queued or acknowledged.
LEMMA InitApi == Init => ApiInv
<1> SUFFICES ASSUME Init PROVE ApiInv
  OBVIOUS
<1>1. /\ lanes = [a \in Arns |-> <<>>] /\ conn = [c \in Clients |-> Idle]
      /\ acked = <<>> /\ callback = "absent"
  BY DEF Init, ApiInit
<1>2. DOMAIN Idle = {"at", "work", "told"} /\ "code" \in DOMAIN Idle.work /\ Idle.at = "idle"
  BY DEF Idle, Refuse
<1>3. ConnIsSound
  BY <1>1, <1>2 DEF ConnIsSound
<1>4. OnOneLane
  BY <1>1 DEF OnOneLane
<1>5. OneWins
  BY <1>1, <1>2 DEF OneWins, Wins
<1>6. OpenCallbackIsTimed
  BY <1>1 DEF OpenCallbackIsTimed
<1> QED
  BY <1>3, <1>4, <1>5, <1>6 DEF ApiInv

\* Every step keeps the invariant: those of the server, of its clients and of the timers.
LEMMA NextApi ==
  ASSUME ApiInv, [Next]_vars
  PROVE  ApiInv'
<1>0. Handler \in Clients /\ Runner \in Clients
  BY ApiAssumption, RunnerAssumption
<1>1. ASSUME NEW c \in Clients, Serve(c) PROVE ApiInv'
  BY <1>1, HandleKeeps, RespondKeeps DEF Serve
<1>2. ASSUME NEW a \in Arns, RunLane(a) PROVE ApiInv'
  BY <1>2, RunRequestKeeps, RunTimeoutKeeps DEF RunLane
<1>3. CASE Pool
  <2>1. /\ conn' = conn /\ lanes' = lanes /\ acked' = acked /\ callback' = callback
        /\ timers' = timers /\ exec' = exec
    BY <1>3 DEF Pool, TimerInvokes, Begin, record
  <2> QED
    BY <2>1, OthersKeep DEF Closed
<1>4. CASE OtherStep(Clients \ {Handler, Runner})
  <2>1. ASSUME NEW c \in Clients, SendStart(c) \/ \E r \in Requests : Send(c, r) PROVE ApiInv'
    <3>1. CASE SendStart(c)
      BY <3>1, AskKeeps DEF SendStart
    <3>2. ASSUME NEW r \in Requests, Send(c, r) PROVE ApiInv'
      <4>1. Ask(c, Work(r))
        BY <3>2 DEF Send, WorkOf
      <4> QED
        BY <4>1, AskKeeps
    <3> QED
      BY <2>1, <3>1, <3>2
  <2>2. ASSUME NEW c \in Clients, Read(c) PROVE ApiInv'
    BY <2>2, ReadKeeps
  <2>3. CASE HandlerSends
    BY <1>0, <2>3, AskKeeps DEF HandlerSends
  <2>4. CASE Finish
    <3>1. /\ conn' = conn /\ lanes' = lanes /\ acked' = acked /\ callback' = callback
          /\ timers' = timers /\ (Closed => exec' = exec)
      BY <2>4 DEF Finish
    <3> QED
      BY <3>1, OthersKeep DEF Closed
  <2>5. ASSUME NEW t \in Timeouts, TimerFires(t) PROVE ApiInv'
    BY <2>5, TimerFiresKeeps
  <2> QED
    BY <1>0, <1>4, <2>1, <2>2, <2>3, <2>4, <2>5 DEF OtherStep
<1>5. CASE UNCHANGED apiVars
  BY <1>5, OthersKeep DEF apiVars, record, Closed
<1>6. CASE RunnerStep
  BY <1>0, <1>5, <1>6, AskKeeps, ReadKeeps
     DEF RunnerStep, Invoke, Poll, GiveUp, Request, ReadAnswer, Asks
<1>7. CASE TimePasses \/ UNCHANGED vars
  BY <1>5, <1>7 DEF TimePasses, vars
<1>8. CASE ServerStep
  BY <1>1, <1>2, <1>3, <1>8 DEF ServerStep
<1> QED
  BY <1>4, <1>6, <1>7, <1>8 DEF Next

\* What the clients and the timers of the callback do, in whatever order: who is answered 200
\* has completed it, nobody else has, and nothing changes it any more (send_callback_success,
\* send_callback_failure, _on_callback_timeout).
THEOREM CallbackHasOneOutcome == Spec => []OneOutcome
<1>1. ApiInv => OneOutcome
  <2>1. SUFFICES ASSUME OneWins PROVE OneOutcome
    BY DEF ApiInv
  <2>2. CASE acked = <<>>
    BY <2>2 DEF OneOutcome
  <2>3. CASE acked = <<callback>>
    BY <2>3 DEF OneOutcome
  <2> QED
    BY <2>1, <2>2, <2>3 DEF OneWins
<1>2. ApiInv /\ [Next]_vars => ApiInv'
  BY NextApi
<1> QED
  BY <1>1, <1>2, InitApi, PTL DEF Spec

\* An open callback keeps the timeouts it was created with, whatever heartbeats arrive
\* (_reset_callback_heartbeat_timeout, _cleanup_callback_timeouts).
THEOREM CallbackKeepsTimeouts == Spec => []OpenCallbackIsTimed
<1>1. ApiInv => OpenCallbackIsTimed
  BY DEF ApiInv
<1>2. ApiInv /\ [Next]_vars => ApiInv'
  BY NextApi
<1> QED
  BY <1>1, <1>2, InitApi, PTL DEF Spec

-----------------------------------------------------------------------------
\* Sorting.  A set of events has an order when what Precedes compares tells them apart.

Comparable(e) == /\ e.ts \in Nat
                 /\ e.place[1] \in Nat /\ e.place[2] \in Nat /\ e.place[3] \in Nat

SamePlace(e, f) ==
  e.place[1] = f.place[1] /\ e.place[2] = f.place[2] /\ e.place[3] = f.place[3]

Ordered(Es) ==
  /\ IsFiniteSet(Es)
  /\ \A e \in Es : Comparable(e)
  /\ \A e, f \in Es : SamePlace(e, f) => e = f

\* The order is total, and strict.
LEMMA OrderFacts ==
  ASSUME NEW e, NEW f, NEW g, Comparable(e), Comparable(f), Comparable(g)
  PROVE  /\ ~Precedes(e, e)
         /\ ~(Precedes(e, f) /\ Precedes(f, e))
         /\ Precedes(e, f) /\ Precedes(f, g) => Precedes(e, g)
         /\ Precedes(e, f) \/ Precedes(f, e) \/ SamePlace(e, f)
BY DEF Comparable, Precedes, SamePlace

\* How many events come before one.
LEMMA BeforeFacts ==
  ASSUME NEW Es, Ordered(Es), NEW e \in Es
  PROVE  /\ IsFiniteSet(Before(Es, e)) /\ Before(Es, e) \subseteq Es
         /\ Cardinality(Before(Es, e)) \in Nat /\ Cardinality(Es) \in Nat
         /\ Cardinality(Before(Es, e)) < Cardinality(Es)
<1>1. IsFiniteSet(Es) /\ Comparable(e)
  BY DEF Ordered
<1>2. Before(Es, e) \in SUBSET Es /\ e \notin Before(Es, e)
  BY <1>1, OrderFacts DEF Before
<1>3. IsFiniteSet(Before(Es, e)) /\ Cardinality(Before(Es, e)) <= Cardinality(Es)
  BY <1>1, <1>2, FS_Subset
<1>4. Cardinality(Before(Es, e)) \in Nat /\ Cardinality(Es) \in Nat
  BY <1>1, <1>3, FS_CardinalityType
<1>5. Cardinality(Before(Es, e)) # Cardinality(Es)
  BY <1>1, <1>2, FS_Subset
<1> QED
  BY <1>2, <1>3, <1>4, <1>5

\* The position is a number from 1 to the number of events, and follows the order.
LEMMA PositionFacts ==
  ASSUME NEW Es, Ordered(Es), NEW e \in Es
  PROVE  /\ Position(Es, e) \in 1 .. Cardinality(Es)
         /\ \A f \in Es : Precedes(f, e) <=> Position(Es, f) < Position(Es, e)
         /\ \A f \in Es : Position(Es, f) = Position(Es, e) => f = e
<1>1. Position(Es, e) \in 1 .. Cardinality(Es) /\ Position(Es, e) \in Nat
  BY BeforeFacts DEF Position
<1>2. ASSUME NEW x \in Es, NEW y \in Es, Precedes(x, y)
      PROVE  Position(Es, x) < Position(Es, y)
  <2>1. Comparable(x) /\ Comparable(y)
    BY DEF Ordered
  <2>2. Before(Es, x) \in SUBSET Before(Es, y)
    BY <2>1, <1>2, OrderFacts DEF Before, Ordered
  <2>3. x \in Before(Es, y) /\ x \notin Before(Es, x)
    BY <2>1, <1>2, OrderFacts DEF Before
  <2>4. /\ IsFiniteSet(Before(Es, y))
        /\ Cardinality(Before(Es, x)) \in Nat /\ Cardinality(Before(Es, y)) \in Nat
    BY BeforeFacts
  <2>5. Cardinality(Before(Es, x)) <= Cardinality(Before(Es, y))
    BY <2>2, <2>4, FS_Subset
  <2>6. Cardinality(Before(Es, x)) # Cardinality(Before(Es, y))
    BY <2>2, <2>3, <2>4, FS_Subset
  <2> QED
    BY <2>4, <2>5, <2>6 DEF Position
<1>3. ASSUME NEW f \in Es
      PROVE  Position(Es, f) \in Nat /\ (Precedes(f, e) \/ Precedes(e, f) \/ f = e)
  <2>1. Position(Es, f) \in Nat
    BY BeforeFacts DEF Position
  <2>2. Comparable(e) /\ Comparable(f)
    BY DEF Ordered
  <2>3. Precedes(f, e) \/ Precedes(e, f) \/ SamePlace(f, e)
    BY <2>2, OrderFacts
  <2> QED
    BY <2>1, <2>3 DEF Ordered
<1>4. \A f \in Es : Precedes(f, e) <=> Position(Es, f) < Position(Es, e)
  BY <1>1, <1>2, <1>3
<1>5. \A f \in Es : Position(Es, f) = Position(Es, e) => f = e
  BY <1>1, <1>2, <1>3
<1> QED
  BY <1>1, <1>4, <1>5

\* Every number up to the number of events is the position of one.
LEMMA PositionsAreTaken ==
  ASSUME NEW Es, Ordered(Es), NEW i \in 1 .. Cardinality(Es)
  PROVE  \E e \in Es : Position(Es, e) = i
<1> DEFINE n == Cardinality(Es)
           f == [e \in Es |-> Position(Es, e)]
<1>1. IsFiniteSet(Es) /\ n \in Nat
  BY FS_CardinalityType DEF Ordered
<1>2. IsFiniteSet(1 .. n) /\ Cardinality(1 .. n) = n
  BY <1>1, FS_Interval
<1>3. \A e \in Es : f[e] = Position(Es, e) /\ f[e] \in 1 .. n
  BY PositionFacts
<1>4. \A x, y \in Es : f[x] = f[y] => x = y
  <2>1. SUFFICES ASSUME NEW x \in Es, NEW y \in Es, f[x] = f[y]
                 PROVE  x = y
    OBVIOUS
  <2>2. Position(Es, x) = Position(Es, y)
    BY <2>1
  <2> QED
    BY <2>2, PositionFacts
<1>5. f \in Injection(Es, 1 .. n)
  <2>1. f \in [Es -> 1 .. n] /\ DOMAIN f = Es
    BY <1>3
  <2> QED
    BY <2>1, <1>4 DEF Injection, IsInjective
<1>6. f \in Surjection(Es, 1 .. n)
  BY <1>1, <1>2, <1>5, FS_Injection
<1>7. \E e \in Es : f[e] = i
  BY <1>6 DEF Surjection
<1> QED
  BY <1>7

\* The sorted list: its events in their order, each once.
LEMMA SortedFacts ==
  ASSUME NEW Es, Ordered(Es)
  PROVE  /\ DOMAIN Sorted(Es) = 1 .. Cardinality(Es)
         /\ Cardinality(Es) \in Nat /\ Len(Sorted(Es)) = Cardinality(Es)
         /\ \A i \in 1 .. Cardinality(Es) : Sorted(Es)[i] \in Es /\ Position(Es, Sorted(Es)[i]) = i
         /\ \A e \in Es : Position(Es, e) \in 1 .. Cardinality(Es) /\ Sorted(Es)[Position(Es, e)] = e
<1> DEFINE n == Cardinality(Es)
           At(i) == CHOOSE e \in Es : Position(Es, e) = i
<1>1. n \in Nat
  BY FS_CardinalityType DEF Ordered
<1>2. Sorted(Es) = [i \in 1 .. n |-> At(i)]
  BY DEF Sorted
<1>3. DOMAIN Sorted(Es) = 1 .. n /\ \A i \in 1 .. n : Sorted(Es)[i] = At(i)
  BY <1>2
<1>4. \A i \in 1 .. n : At(i) \in Es /\ Position(Es, At(i)) = i
  BY PositionsAreTaken
<1>5. ASSUME NEW e \in Es
      PROVE  Position(Es, e) \in 1 .. n /\ Sorted(Es)[Position(Es, e)] = e
  <2>1. Position(Es, e) \in 1 .. n
    BY PositionFacts
  <2>2. At(Position(Es, e)) \in Es /\ Position(Es, At(Position(Es, e))) = Position(Es, e)
    BY <1>4, <2>1
  <2>3. At(Position(Es, e)) = e
    BY <2>2, PositionFacts
  <2> QED
    BY <2>1, <2>3, <1>3
<1>6. Len(Sorted(Es)) = n
  BY <1>1, <1>3
<1> QED
  BY <1>1, <1>3, <1>4, <1>5, <1>6

\* With more events, none moves down.
LEMMA PositionsGrow ==
  ASSUME NEW Es, NEW F, Ordered(Es), Ordered(F), Es \subseteq F, NEW e \in Es
  PROVE  Position(Es, e) <= Position(F, e) /\ Cardinality(Es) <= Cardinality(F)
<1>1. Before(Es, e) \in SUBSET Before(F, e) /\ Es \in SUBSET F
  BY DEF Before
<1>2. IsFiniteSet(Before(F, e)) /\ IsFiniteSet(F)
  BY BeforeFacts DEF Ordered
<1>3. Cardinality(Before(Es, e)) <= Cardinality(Before(F, e)) /\ Cardinality(Es) <= Cardinality(F)
  BY <1>1, <1>2, FS_Subset
<1>4. Cardinality(Before(Es, e)) \in Nat /\ Cardinality(Before(F, e)) \in Nat
  BY BeforeFacts
<1> QED
  BY <1>3, <1>4 DEF Position

-----------------------------------------------------------------------------
\* The types, and what is never later than now.

Statuses == {"absent", "STARTED", "PENDING", "READY"} \cup EndStatuses
Times == 0 .. NoTime
OperationRecord == [status : Statuses, start : Times, end : Times, err : BOOLEAN, by : Nat]
UpdateRecord ==
  [op : Ops, act : {"START", "RETRY", "SUCCEED", "FAIL"}, err : BOOLEAN, ts : 0 .. MaxTime]

HistoryTypes ==
  /\ clock \in 0 .. MaxTime
  /\ order \in Seq(All)
  /\ ops \in [All -> OperationRecord]
  /\ updates \in Seq(UpdateRecord)
  /\ completions \in Seq(0 .. MaxTime)
  /\ invocation \in [phase : {"none", "idle", "running", "ending"}, number : Nat, end : Times]

\* The types of the single parts of a record.
LEMMA TypesOfParts ==
  ASSUME HistoryTypes
  PROVE  /\ MaxTime \in Nat /\ NoTime \in Nat /\ clock \in Nat
         /\ \A k \in DOMAIN order : order[k] \in All /\ k \in Nat \ {0}
         /\ \A o \in All : ops[o] \in OperationRecord /\ ops[o].start \in Nat /\ ops[o].end \in Nat
         /\ \A i \in DOMAIN updates :
              updates[i] \in UpdateRecord /\ updates[i].ts \in Nat /\ i \in Nat \ {0}
         /\ \A n \in DOMAIN completions : completions[n] \in Nat /\ n \in Nat \ {0}
         /\ DOMAIN order = 1 .. Len(order) /\ Len(order) \in Nat
         /\ DOMAIN updates = 1 .. Len(updates) /\ Len(updates) \in Nat
         /\ DOMAIN completions = 1 .. Len(completions) /\ Len(completions) \in Nat
<1>1. MaxTime \in Nat /\ NoTime \in Nat /\ clock \in Nat
  BY HistoryAssumption DEF NoTime, HistoryTypes
<1>2. /\ DOMAIN order = 1 .. Len(order) /\ Len(order) \in Nat
      /\ \A k \in DOMAIN order : order[k] \in All
  BY DEF HistoryTypes
<1>3. /\ DOMAIN updates = 1 .. Len(updates) /\ Len(updates) \in Nat
      /\ \A i \in DOMAIN updates : updates[i] \in UpdateRecord
  BY DEF HistoryTypes
<1>4. /\ DOMAIN completions = 1 .. Len(completions) /\ Len(completions) \in Nat
      /\ \A n \in DOMAIN completions : completions[n] \in 0 .. MaxTime
  <2> DEFINE T == 0 .. MaxTime
  <2>1. completions \in Seq(T)
    BY DEF HistoryTypes
  <2> HIDE DEF T
  <2>2. /\ DOMAIN completions = 1 .. Len(completions) /\ Len(completions) \in Nat
        /\ \A n \in DOMAIN completions : completions[n] \in T
    BY <2>1
  <2> QED
    BY <2>2 DEF T
<1>5. \A o \in All : ops[o] \in OperationRecord
  BY DEF HistoryTypes
<1>6. \A r \in OperationRecord : r.start \in Nat /\ r.end \in Nat
  BY <1>1 DEF OperationRecord, Times
<1>7. \A u \in UpdateRecord : u.ts \in Nat
  BY <1>1 DEF UpdateRecord
<1> QED
  BY <1>1, <1>2, <1>3, <1>4, <1>5, <1>6, <1>7

-----------------------------------------------------------------------------
\* The events, and where each comes from.

\* What an event says.
LEMMA EventFields ==
  ASSUME NEW o, NEW what, NEW ts, NEW err, NEW attempt, NEW place
  PROVE  /\ Event(o, what, ts, err, attempt, place).kind = KindOf(o)
         /\ Event(o, what, ts, err, attempt, place).op = o
         /\ Event(o, what, ts, err, attempt, place).what = what
         /\ Event(o, what, ts, err, attempt, place).ts = ts
         /\ Event(o, what, ts, err, attempt, place).err = err
         /\ Event(o, what, ts, err, attempt, place).place = place
BY DEF Event

\* What the end of an invocation says.
LEMMA CompletionFields ==
  ASSUME NEW n
  PROVE  /\ InvocationCompleted(n).kind = "invocation"
         /\ InvocationCompleted(n).op = "none"
         /\ InvocationCompleted(n).ts = completions[n]
         /\ InvocationCompleted(n).place = <<0, n, 0>>
BY DEF InvocationCompleted

\* What the update of an index says, whichever event it makes.
LEMMA UpdateFields ==
  ASSUME NEW i
  PROVE  /\ UpdateEvent(i).kind = KindOf(updates[i].op)
         /\ UpdateEvent(i).op = updates[i].op
         /\ UpdateEvent(i).ts = updates[i].ts
         /\ UpdateEvent(i).place = <<2, i, 0>>
<1> DEFINE u == updates[i]
           p == <<2, i, 0>>
<1>1. \E what, err, attempt : UpdateEvent(i) = Event(u.op, what, u.ts, err, attempt, p)
  <2>1. CASE u.act = "START" /\ KindOf(u.op) = "invoke"
    <3>1. UpdateEvent(i) = Event(u.op, EventTypes[KindOf(u.op)].PENDING, u.ts, FALSE, 0, p)
      BY <2>1, Zenon DEF UpdateEvent, EventPending
    <3> QED
      BY <3>1, Zenon
  <2>2. CASE u.act = "START" /\ KindOf(u.op) # "invoke"
    <3>1. UpdateEvent(i) = Event(u.op, EventTypes[KindOf(u.op)].STARTED, u.ts, FALSE, 0, p)
      BY <2>2, Zenon DEF UpdateEvent, EventStarted
    <3> QED
      BY <3>1, Zenon
  <2>3. CASE u.act # "START"
    <3>1. \E status, attempt : UpdateEvent(i) = EventTerminated(u.op, status, u.ts, u.err, attempt, p)
      BY <2>3, Zenon DEF UpdateEvent
    <3> QED
      BY <3>1, Zenon DEF EventTerminated
  <2> QED
    BY <2>1, <2>2, <2>3
<1>2. PICK what, err, attempt : UpdateEvent(i) = Event(u.op, what, u.ts, err, attempt, p)
  BY <1>1, Zenon
<1> QED
  BY <1>2 DEF Event

Pending(k) == EventPending(order[k], ops[order[k]].start, <<1, k, 0>>)
Started(k) == EventStarted(order[k], ops[order[k]].start, <<1, k, 1>>)
EndOf(k, place) ==
  EventTerminated(order[k], ops[order[k]].status, ops[order[k]].end, ops[order[k]].err, 0, place)

\* What the events of a snapshot say.
LEMMA OperationFields ==
  ASSUME NEW k, NEW place
  PROVE  /\ Pending(k).kind = KindOf(order[k]) /\ Pending(k).op = order[k]
         /\ Pending(k).ts = ops[order[k]].start /\ Pending(k).place = <<1, k, 0>>
         /\ Started(k).kind = KindOf(order[k]) /\ Started(k).op = order[k]
         /\ Started(k).ts = ops[order[k]].start /\ Started(k).place = <<1, k, 1>>
         /\ EndOf(k, place).kind = KindOf(order[k]) /\ EndOf(k, place).op = order[k]
         /\ EndOf(k, place).ts = ops[order[k]].end /\ EndOf(k, place).place = place
<1> DEFINE o == order[k]
<1>1. \E what, err : Pending(k) = Event(o, what, ops[o].start, err, 0, <<1, k, 0>>)
  BY Zenon DEF Pending, EventPending
<1>2. \E what, err : Started(k) = Event(o, what, ops[o].start, err, 0, <<1, k, 1>>)
  BY Zenon DEF Started, EventStarted
<1>3. \E what, err : EndOf(k, place) = Event(o, what, ops[o].end, err, 0, place)
  BY Zenon DEF EndOf, EventTerminated
<1>4. Pending(k).kind = KindOf(o) /\ Pending(k).op = o
      /\ Pending(k).ts = ops[o].start /\ Pending(k).place = <<1, k, 0>>
  <2>1. PICK what, err : Pending(k) = Event(o, what, ops[o].start, err, 0, <<1, k, 0>>)
    BY <1>1, Zenon
  <2> QED
    BY <2>1 DEF Event
<1>5. Started(k).kind = KindOf(o) /\ Started(k).op = o
      /\ Started(k).ts = ops[o].start /\ Started(k).place = <<1, k, 1>>
  <2>1. PICK what, err : Started(k) = Event(o, what, ops[o].start, err, 0, <<1, k, 1>>)
    BY <1>2, Zenon
  <2> QED
    BY <2>1 DEF Event
<1>6. EndOf(k, place).kind = KindOf(o) /\ EndOf(k, place).op = o
      /\ EndOf(k, place).ts = ops[o].end /\ EndOf(k, place).place = place
  <2>1. PICK what, err : EndOf(k, place) = Event(o, what, ops[o].end, err, 0, place)
    BY <1>3, Zenon
  <2> QED
    BY <2>1 DEF Event
<1> QED
  BY <1>4, <1>5, <1>6, Zenon

\* Whose they are.
LEMMA SnapshotIsOf ==
  ASSUME NEW k, NEW e \in SnapshotEvents(k)
  PROVE  e.kind = KindOf(order[k]) /\ e.op = order[k]
<1>1. CASE e \in StartedEvent(order[k], <<1, k, 1>>)
  <2>1. PICK place, ts : e = EventStarted(order[k], ts, place)
    BY <1>1 DEF StartedEvent
  <2> QED
    BY <2>1 DEF EventStarted, Event
<1>2. CASE e \in EndedEvent(order[k], <<1, k, 2>>)
  <2>1. PICK status, place, ts, err : e = EventTerminated(order[k], status, ts, err, 0, place)
    BY <1>2 DEF EndedEvent
  <2> QED
    BY <2>1 DEF EventTerminated, Event
<1> QED
  BY <1>1, <1>2 DEF SnapshotEvents

\* The places of the list.
EventAt(p) ==
  IF p[1] = 0 THEN InvocationCompleted(p[2])
  ELSE IF p[1] = 2 THEN UpdateEvent(p[2])
  ELSE IF p[1] = 1 /\ p[3] = 0 THEN Pending(p[2])
  ELSE IF p[1] = 1 /\ p[3] = 1 THEN Started(p[2])
  ELSE EndOf(p[2], p)

\* The event e is that of the k-th operation, from its snapshot or of its end.
OfOperation(e, k) ==
  e \in {Pending(k), Started(k), EndOf(k, <<1, k, 2>>), EndOf(k, <<3, k, 0>>)}

\* Every event is of a completed invocation, of an update, or of an operation.
LEMMA SourcesOfEvents ==
  ASSUME NEW e \in Events
  PROVE  \/ \E n \in DOMAIN completions : e = InvocationCompleted(n)
         \/ \E i \in DOMAIN updates : e = UpdateEvent(i)
         \/ \E k \in DOMAIN order : OfOperation(e, k)
<1>1. \A k, place : EndedEvent(order[k], place) \subseteq {EndOf(k, place)}
  BY DEF EndedEvent, EndOf
<1>2. \A k : StartedEvent(order[k], <<1, k, 1>>) \subseteq {Started(k)}
  BY DEF StartedEvent, Started
<1>3. \A k : SnapshotEvents(k) \subseteq {Started(k), EndOf(k, <<1, k, 2>>)}
  BY <1>1, <1>2 DEF SnapshotEvents
<1>4. \A k : LegacyEvents(k) \subseteq {Pending(k), Started(k), EndOf(k, <<1, k, 2>>)}
  BY <1>3 DEF LegacyEvents, Pending
<1>5. \A k : EndedByItself(k) \subseteq {EndOf(k, <<3, k, 0>>)}
  BY <1>1 DEF EndedByItself
<1>6. e \in OperationEvents =>
        \/ \E i \in DOMAIN updates : e = UpdateEvent(i)
        \/ \E k \in DOMAIN order :
             e \in LegacyEvents(k) \/ e \in SnapshotEvents(k) \/ e \in EndedByItself(k)
  <2> DEFINE L == {LegacyEvents(k) : k \in DOMAIN order}
             U == {UpdateEvent(i) : i \in DOMAIN updates}
             B == {IF UpdatesOf(order[k]) = {} THEN SnapshotEvents(k) ELSE EndedByItself(k) :
                     k \in DOMAIN order}
  <2>1. OperationEvents = IF updates = <<>> THEN UNION L ELSE U \cup UNION B
    BY Zenon DEF OperationEvents
  <2>2. e \in UNION L => \E k \in DOMAIN order : e \in LegacyEvents(k)
    OBVIOUS
  <2>4. e \in UNION B => \E k \in DOMAIN order : e \in SnapshotEvents(k) \/ e \in EndedByItself(k)
    <3>1. ASSUME e \in UNION B
          PROVE  \E k \in DOMAIN order : e \in SnapshotEvents(k) \/ e \in EndedByItself(k)
      <4>1. PICK k \in DOMAIN order :
              e \in IF UpdatesOf(order[k]) = {} THEN SnapshotEvents(k) ELSE EndedByItself(k)
        BY <3>1
      <4>2. e \in SnapshotEvents(k) \/ e \in EndedByItself(k)
        BY <4>1, Zenon
      <4> QED
        BY <4>2
    <3> QED
      BY <3>1
  <2>5. e \in U => \E i \in DOMAIN updates : e = UpdateEvent(i)
    OBVIOUS
  <2> HIDE DEF L, U, B
  <2>6. e \in OperationEvents => e \in UNION L \/ e \in U \/ e \in UNION B
    BY <2>1
  <2> QED
    BY <2>6, <2>2, <2>4, <2>5, Zenon
<1>7. \A k : e \in LegacyEvents(k) \/ e \in SnapshotEvents(k) \/ e \in EndedByItself(k)
        => OfOperation(e, k)
  BY <1>3, <1>4, <1>5, Zenon DEF OfOperation
<1> QED
  BY <1>6, <1>7 DEF Events

\* An event is told by its place, which is one of the list.
LEMMA EventsInTheirPlaces ==
  ASSUME HistoryTypes, NEW e \in Events
  PROVE  /\ e = EventAt(e.place) /\ Comparable(e)
         /\ e.place[1] \in 0 .. 3 /\ e.place[3] \in 0 .. 2
         /\ e.place[2] \in 1 .. (Len(order) + Len(updates) + Len(completions))
<1>1. CASE \E n \in DOMAIN completions : e = InvocationCompleted(n)
  <2>1. PICK n \in DOMAIN completions : e = InvocationCompleted(n)
    BY <1>1
  <2>2. e.place = <<0, n, 0>> /\ e.ts = completions[n]
    BY <2>1, CompletionFields
  <2>3. EventAt(<<0, n, 0>>) = InvocationCompleted(n)
    BY DEF EventAt
  <2> QED
    BY <2>1, <2>2, <2>3, TypesOfParts DEF Comparable
<1>2. CASE \E i \in DOMAIN updates : e = UpdateEvent(i)
  <2>1. PICK i \in DOMAIN updates : e = UpdateEvent(i)
    BY <1>2
  <2>2. e.place = <<2, i, 0>> /\ e.ts = updates[i].ts
    BY <2>1, UpdateFields
  <2>3. EventAt(<<2, i, 0>>) = UpdateEvent(i)
    BY DEF EventAt
  <2> QED
    BY <2>1, <2>2, <2>3, TypesOfParts DEF Comparable
<1>3. CASE \E k \in DOMAIN order : OfOperation(e, k)
  <2>1. PICK k \in DOMAIN order : OfOperation(e, k)
    BY <1>3
  <2>2. \A p : EndOf(k, p).place = p /\ EndOf(k, p).ts = ops[order[k]].end
    BY OperationFields
  <2>3. /\ e.place \in {<<1, k, 0>>, <<1, k, 1>>, <<1, k, 2>>, <<3, k, 0>>}
        /\ e.ts \in {ops[order[k]].start, ops[order[k]].end}
    BY <2>1, <2>2, OperationFields DEF OfOperation
  <2>4. /\ EventAt(<<1, k, 0>>) = Pending(k)
        /\ EventAt(<<1, k, 1>>) = Started(k)
        /\ EventAt(<<1, k, 2>>) = EndOf(k, <<1, k, 2>>)
        /\ EventAt(<<3, k, 0>>) = EndOf(k, <<3, k, 0>>)
    BY DEF EventAt
  <2>5. e = EventAt(e.place)
    <3>1. /\ Pending(k).place = <<1, k, 0>> /\ Started(k).place = <<1, k, 1>>
          /\ EndOf(k, <<1, k, 2>>).place = <<1, k, 2>> /\ EndOf(k, <<3, k, 0>>).place = <<3, k, 0>>
      BY <2>2, OperationFields
    <3>2. /\ e = Pending(k) \/ e = Started(k) \/ e = EndOf(k, <<1, k, 2>>)
             \/ e = EndOf(k, <<3, k, 0>>)
      BY <2>1 DEF OfOperation
    <3> QED
      BY <3>1, <3>2, <2>4, Zenon
  <2>6. e.ts \in Nat
    BY <2>3, TypesOfParts
  <2>7. k \in 1 .. (Len(order) + Len(updates) + Len(completions)) /\ k \in Nat
    BY TypesOfParts
  <2> QED
    BY <2>3, <2>5, <2>6, <2>7 DEF Comparable
<1> QED
  BY <1>1, <1>2, <1>3, SourcesOfEvents

\* No two events share a place.
LEMMA PlacesTellApart ==
  ASSUME HistoryTypes, NEW e \in Events, NEW f \in Events, SamePlace(e, f)
  PROVE  e = f
<1>1. e = EventAt(e.place) /\ f = EventAt(f.place)
  BY EventsInTheirPlaces
<1>2. ASSUME NEW g \in Events
      PROVE  \E p1, p2, p3 : g.place = <<p1, p2, p3>>
  <2>1. CASE \E n \in DOMAIN completions : g = InvocationCompleted(n)
    BY <2>1, CompletionFields, Zenon
  <2>2. CASE \E i \in DOMAIN updates : g = UpdateEvent(i)
    BY <2>2, UpdateFields, Zenon
  <2>3. CASE \E k \in DOMAIN order : OfOperation(g, k)
    <3>1. PICK k \in DOMAIN order : OfOperation(g, k)
      BY <2>3
    <3>2. g.place \in {<<1, k, 0>>, <<1, k, 1>>, <<1, k, 2>>, <<3, k, 0>>}
      <4>1. /\ Pending(k).place = <<1, k, 0>> /\ Started(k).place = <<1, k, 1>>
            /\ EndOf(k, <<1, k, 2>>).place = <<1, k, 2>>
            /\ EndOf(k, <<3, k, 0>>).place = <<3, k, 0>>
        BY OperationFields
      <4>2. \/ g = Pending(k) \/ g = Started(k)
            \/ g = EndOf(k, <<1, k, 2>>) \/ g = EndOf(k, <<3, k, 0>>)
        BY <3>1, Zenon DEF OfOperation
      <4>3. CASE g = Pending(k)
        BY <4>1, <4>3
      <4>4. CASE g = Started(k)
        BY <4>1, <4>4
      <4>5. CASE g = EndOf(k, <<1, k, 2>>)
        BY <4>1, <4>5
      <4>6. CASE g = EndOf(k, <<3, k, 0>>)
        BY <4>1, <4>6
      <4> QED
        BY <4>2, <4>3, <4>4, <4>5, <4>6, Zenon
    <3> QED
      BY <3>2, Zenon
  <2> QED
    BY <2>1, <2>2, <2>3, SourcesOfEvents
<1>3. PICK p1, p2, p3 : e.place = <<p1, p2, p3>>
  BY <1>2, Zenon
<1>4. PICK q1, q2, q3 : f.place = <<q1, q2, q3>>
  BY <1>2, Zenon
<1>5. p1 = q1 /\ p2 = q2 /\ p3 = q3
  BY <1>3, <1>4 DEF SamePlace
<1>6. e.place = f.place
  BY <1>3, <1>4, <1>5
<1> QED
  BY <1>1, <1>6

\* The events of the record can be sorted.
LEMMA EventsAreOrdered ==
  ASSUME HistoryTypes
  PROVE  Ordered(Events)
<1> DEFINE m == Len(order) + Len(updates) + Len(completions)
           P == ((0 .. 3) \X (1 .. m)) \X (0 .. 2)
           f == [e \in Events |-> << <<e.place[1], e.place[2]>>, e.place[3]>>]
<1>1. IsFiniteSet(P)
  <2>1. m \in Nat
    BY TypesOfParts
  <2>2. IsFiniteSet(0 .. 3) /\ IsFiniteSet(1 .. m) /\ IsFiniteSet(0 .. 2)
    <3>1. 0 \in Int /\ 1 \in Int /\ 2 \in Int /\ 3 \in Int /\ m \in Int
      BY <2>1
    <3> HIDE DEF m
    <3> QED
      BY <3>1, FS_Interval, Zenon
  <2>3. IsFiniteSet((0 .. 3) \X (1 .. m))
    BY <2>2, FS_Product, Zenon
  <2> QED
    BY <2>2, <2>3, FS_Product, Zenon
<1>2. f \in [Events -> P] /\ DOMAIN f = Events
  BY EventsInTheirPlaces
<1>3. \A e, g \in Events : f[e] = f[g] => e = g
  <2>1. SUFFICES ASSUME NEW e \in Events, NEW g \in Events, f[e] = f[g]
                 PROVE  e = g
    OBVIOUS
  <2>2. SamePlace(e, g)
    BY <2>1 DEF SamePlace
  <2> QED
    BY <2>2, PlacesTellApart
<1>4. f \in Injection(Events, P)
  BY <1>2, <1>3 DEF Injection, IsInjective
<1>5. IsFiniteSet(Events)
  BY <1>1, <1>4, FS_Injection
<1> QED
  BY <1>5, EventsInTheirPlaces, PlacesTellApart DEF Ordered

-----------------------------------------------------------------------------
\* A reader.

\* What a page covers: forwards, all from its marker on up to the next one; backwards, all
\* below its marker down to the next one.
LEMMA PageFacts ==
  ASSUME NEW n \in Nat \ {0}, NEW backwards \in BOOLEAN, NEW marker \in 0 .. n
  PROVE  LET page == Page(n, backwards, marker)
             first == IF marker = 0 THEN 1 ELSE marker
             top == IF marker = 0 THEN n ELSE marker - 1
         IN /\ page.next \in 0 .. n
            /\ ~backwards => page.ids = first .. (IF page.next = 0 THEN n ELSE page.next - 1)
            /\ backwards => page.ids = (IF page.next = 0 THEN 1 ELSE page.next) .. top
            /\ backwards => page.next <= top
            /\ page.ids \subseteq 1 .. n
<1>1. MaxItems \in Nat \ {0}
  BY HistoryAssumption
<1>2. CASE backwards
  <2> DEFINE from == IF marker = 0 THEN n ELSE marker - 1
             upto == IF from > MaxItems THEN from - MaxItems + 1 ELSE 1
  <2>1. Page(n, backwards, marker) = [ids |-> upto .. from, next |-> IF upto > 1 THEN upto ELSE 0]
    BY <1>2 DEF Page
  <2>2. from \in 0 .. n /\ upto \in 1 .. n /\ (upto = 1 \/ upto <= from)
    BY <1>1
  <2> HIDE DEF from, upto
  <2>3. /\ Page(n, backwards, marker).ids = upto .. from
        /\ Page(n, backwards, marker).next = IF upto > 1 THEN upto ELSE 0
    BY <2>1
  <2>4. upto .. from \subseteq 1 .. n
    BY <2>2
  <2>5. upto = IF Page(n, backwards, marker).next = 0 THEN 1 ELSE Page(n, backwards, marker).next
    BY <2>2, <2>3
  <2>6. Page(n, backwards, marker).next \in 0 .. n
    BY <2>2, <2>3
  <2>7. Page(n, backwards, marker).next <= from
    BY <2>2, <2>3
  <2> QED
    BY <1>2, <2>3, <2>4, <2>5, <2>6, <2>7 DEF from
<1>3. CASE ~backwards
  <2> DEFINE from == IF marker = 0 THEN 1 ELSE marker
             upto == IF from + MaxItems - 1 < n THEN from + MaxItems - 1 ELSE n
  <2>1. Page(n, backwards, marker) = [ids |-> from .. upto, next |-> IF upto < n THEN upto + 1 ELSE 0]
    BY <1>3 DEF Page
  <2>2. from \in 1 .. n /\ upto \in 1 .. n
    BY <1>1
  <2> HIDE DEF from, upto
  <2>3. /\ Page(n, backwards, marker).ids = from .. upto
        /\ Page(n, backwards, marker).next = IF upto < n THEN upto + 1 ELSE 0
    BY <2>1
  <2>4. from .. upto \subseteq 1 .. n
    BY <2>2
  <2>5. upto = IF Page(n, backwards, marker).next = 0 THEN n
               ELSE Page(n, backwards, marker).next - 1
    BY <2>2, <2>3
  <2>6. Page(n, backwards, marker).next \in 0 .. n
    BY <2>2, <2>3
  <2> QED
    BY <1>3, <2>3, <2>4, <2>5, <2>6 DEF from
<1> QED
  BY <1>2, <1>3

\* What r expects or has read lies at its marker or above, among the events of Es.
Reads(Es, r, marker) ==
  /\ r.misled = FALSE /\ r.backwards \in BOOLEAN
  /\ marker \in 0 .. Cardinality(Es)
  /\ ~r.backwards => \A e \in r.left : e \in Es /\ marker <= Position(Es, e)
  /\ r.backwards => \A e \in r.got : e \in Es /\ marker # 0 /\ marker <= Position(Es, e)

ReaderInv ==
  /\ reader.misled = FALSE
  /\ reader.on => reader.marker # 0 /\ Reads(Events, reader, reader.marker)

\* The events at the numbers of an interval are those whose position is in it.
LEMMA EventsAt ==
  ASSUME NEW Es, Ordered(Es), NEW S \in SUBSET (1 .. Cardinality(Es))
  PROVE  \A e : e \in {Sorted(Es)[i] : i \in S} <=> e \in Es /\ Position(Es, e) \in S
<1>1. ASSUME NEW i \in S
      PROVE  Sorted(Es)[i] \in Es /\ Position(Es, Sorted(Es)[i]) = i
  BY SortedFacts
<1>2. ASSUME NEW e \in Es
      PROVE  Sorted(Es)[Position(Es, e)] = e
  BY SortedFacts
<1> QED
  BY <1>1, <1>2

\* A page misleads nobody, and leaves what is expected at its end.
LEMMA TakeIsSafe ==
  ASSUME HistoryTypes, NEW r, NEW marker, Reads(Events, r, marker), Events # {}
  PROVE  LET next == Take(r, marker)
         IN /\ next.misled = FALSE
            /\ next.on => next.marker # 0 /\ Reads(Events, next, next.marker)
<1> DEFINE n == Cardinality(Events)
           page == Page(n, r.backwards, marker)
           read == {History[i] : i \in page.ids}
           misled == \/ r.backwards /\ r.got \cap read # {}
                     \/ ~r.backwards /\ page.next = 0 /\ ~(r.left \subseteq read)
           next == Take(r, marker)
<1>1. Ordered(Events) /\ IsFiniteSet(Events)
  BY EventsAreOrdered DEF Ordered
<1>2. n \in Nat /\ n # 0 /\ Len(History) = n
  BY <1>1, FS_CardinalityType, FS_EmptySet, SortedFacts DEF History
<1>3. /\ r.misled = FALSE /\ r.backwards \in BOOLEAN /\ marker \in 0 .. n
      /\ ~r.backwards => \A e \in r.left : e \in Events /\ marker <= Position(Events, e)
      /\ r.backwards => \A e \in r.got : e \in Events /\ marker # 0 /\ marker <= Position(Events, e)
  BY DEF Reads
<1>4. /\ page.next \in 0 .. n /\ page.ids \subseteq 1 .. n
      /\ ~r.backwards => page.ids = (IF marker = 0 THEN 1 ELSE marker)
                                      .. (IF page.next = 0 THEN n ELSE page.next - 1)
      /\ r.backwards => page.ids = (IF page.next = 0 THEN 1 ELSE page.next)
                                     .. (IF marker = 0 THEN n ELSE marker - 1)
      /\ r.backwards => page.next <= (IF marker = 0 THEN n ELSE marker - 1)
  BY <1>2, <1>3, PageFacts
<1>5. \A e : e \in read <=> e \in Events /\ Position(Events, e) \in page.ids
  BY <1>1, <1>4, EventsAt DEF History
<1>6. \A e \in Events : Position(Events, e) \in 1 .. n
  BY <1>1, PositionFacts
<1>7. next = IF page.next = 0 THEN [NotReading EXCEPT !.misled = misled \/ r.misled]
             ELSE [on |-> TRUE, backwards |-> r.backwards, marker |-> page.next,
                   misled |-> misled \/ r.misled,
                   left |-> IF r.backwards THEN {} ELSE r.left \ read,
                   got |-> IF r.backwards THEN r.got \cup read ELSE {}]
  BY <1>2 DEF Take
<1> HIDE DEF page, read, n
<1>8. ~misled
  <2>1. CASE r.backwards
    <3>1. \A e \in r.got : Position(Events, e) \notin page.ids
      BY <1>2, <1>3, <1>4, <1>6, <2>1
    <3> QED
      BY <3>1, <1>5, <2>1
  <2>2. CASE ~r.backwards /\ page.next = 0
    <3>1. \A e \in r.left : e \in Events /\ Position(Events, e) \in page.ids
      BY <1>2, <1>3, <1>4, <1>6, <2>2
    <3> QED
      BY <3>1, <1>5, <2>2
  <2>3. CASE ~r.backwards /\ page.next # 0
    BY <2>3
  <2> QED
    BY <2>1, <2>2, <2>3
<1> HIDE DEF misled
<1>9. (misled \/ r.misled) = FALSE
  BY <1>3, <1>8
<1>10. CASE page.next = 0
  <2>1. next = [NotReading EXCEPT !.misled = FALSE]
    BY <1>7, <1>9, <1>10
  <2>2. next.misled = FALSE /\ next.on = FALSE
    BY <2>1 DEF NotReading
  <2> QED
    BY <2>2
<1>11. CASE page.next # 0 /\ ~r.backwards
  <2>1. /\ next.misled = FALSE /\ next.backwards = FALSE
        /\ next.marker = page.next /\ next.left = r.left \ read
    BY <1>3, <1>7, <1>9, <1>11
  <2>2. \A e \in next.left : e \in Events /\ page.next <= Position(Events, e)
    <3>1. SUFFICES ASSUME NEW e \in r.left, e \notin read
                   PROVE  e \in Events /\ page.next <= Position(Events, e)
      BY <2>1
    <3>2. e \in Events /\ marker <= Position(Events, e) /\ Position(Events, e) \in 1 .. n
      BY <1>3, <1>6, <1>11
    <3>3. Position(Events, e) \notin page.ids
      BY <1>5, <3>1, <3>2
    <3> QED
      BY <1>2, <1>3, <1>4, <1>11, <3>2, <3>3
  <2> QED
    BY <1>4, <1>11, <2>1, <2>2 DEF Reads, n
<1>12. CASE page.next # 0 /\ r.backwards
  <2>1. /\ next.misled = FALSE /\ next.backwards = TRUE
        /\ next.marker = page.next /\ next.got = r.got \cup read
    <3>1. r.backwards = TRUE
      BY <1>3, <1>12
    <3>2. next = [on |-> TRUE, backwards |-> TRUE, marker |-> page.next, misled |-> FALSE,
                  left |-> {}, got |-> r.got \cup read]
      BY <1>7, <1>9, <1>12, <3>1
    <3> QED
      BY <3>2
  <2>2. \A e \in next.got : e \in Events /\ page.next <= Position(Events, e)
    <3>1. \A e \in read : e \in Events /\ page.next <= Position(Events, e)
      BY <1>2, <1>3, <1>4, <1>5, <1>6, <1>12
    <3>2. \A e \in r.got : e \in Events /\ page.next <= Position(Events, e)
      <4>1. SUFFICES ASSUME NEW e \in r.got
                     PROVE  e \in Events /\ page.next <= Position(Events, e)
        OBVIOUS
      <4>2. e \in Events /\ marker # 0 /\ marker <= Position(Events, e) /\ Position(Events, e) \in 1 .. n
        BY <1>3, <1>6, <1>12
      <4>3. page.next <= marker
        BY <1>2, <1>3, <1>4, <1>12, <4>2
      <4> QED
        BY <1>2, <1>3, <1>4, <4>2, <4>3
    <3> QED
      BY <2>1, <3>1, <3>2
  <2> QED
    BY <1>4, <1>12, <2>1, <2>2 DEF Reads, n
<1> QED
  BY <1>10, <1>11, <1>12

\* A reader is as safe with more events.
LEMMA ReadsOfMore ==
  ASSUME NEW Es, NEW F, Ordered(Es), Ordered(F), Es \subseteq F,
         NEW r, NEW marker, Reads(Es, r, marker)
  PROVE  Reads(F, r, marker)
<1>1. Cardinality(Es) \in Nat /\ Cardinality(F) \in Nat
  BY FS_CardinalityType DEF Ordered
<1>2. marker \in 0 .. Cardinality(F)
  <2>1. CASE Es = {}
    BY <1>1, <2>1, FS_EmptySet DEF Reads
  <2>2. CASE Es # {}
    BY <1>1, <2>2, PositionsGrow DEF Reads
  <2> QED
    BY <2>1, <2>2
<1>3. ASSUME NEW e \in Es, marker <= Position(Es, e)
      PROVE  e \in F /\ marker <= Position(F, e)
  <2>1. Position(Es, e) <= Position(F, e)
    BY PositionsGrow
  <2>2. Position(Es, e) \in Nat /\ Position(F, e) \in Nat
    BY <1>1, PositionFacts
  <2>3. marker \in Nat
    BY <1>1 DEF Reads
  <2> QED
    BY <1>3, <2>1, <2>2, <2>3
<1> QED
  BY <1>2, <1>3 DEF Reads

-----------------------------------------------------------------------------
\* The record that an execution writes.

\* What has happened has happened by now, updates in their order.
NothingIsLater ==
  /\ \A i, j \in DOMAIN updates : i <= j => updates[i].ts <= updates[j].ts
  /\ \A i \in DOMAIN updates : updates[i].ts <= clock
  /\ \A n \in DOMAIN completions : completions[n] <= clock
  /\ invocation.phase = "ending" => invocation.end <= clock

\* Tries of an operation: its updates are in turns a start and what follows it.
UpTo(o, i) == {j \in UpdatesOf(o) : j <= i}
TriesAlternate ==
  \A i \in DOMAIN updates :
    (updates[i].act = "START") <=> (Cardinality(UpTo(updates[i].op, i)) % 2 = 1)

LastUpdate(o, i) == i \in UpdatesOf(o) /\ \A j \in UpdatesOf(o) : j <= i

\* An operation agrees with the last of its updates.
Running(o, i) == ops[o].status = "STARTED" /\ ops[o].end = NoTime /\ updates[i].act = "START"
Waiting(o, i) ==
  /\ ops[o].status \in {"PENDING", "READY"} /\ ops[o].end = NoTime
  /\ Kind[o] = "step" /\ updates[i].act = "RETRY"
Concluded(o, i) ==
  /\ Kind[o] \in {"step", "context"} /\ ops[o].end = updates[i].ts /\ updates[i].err = ops[o].err
  /\ \/ ops[o].status = "SUCCEEDED" /\ updates[i].act = "SUCCEED" /\ ops[o].err = FALSE
     \/ ops[o].status = "FAILED" /\ updates[i].act = "FAIL" /\ ops[o].err = TRUE
Completed(o, i) ==
  /\ updates[i].act = "START" /\ updates[i].ts <= ops[o].end /\ ops[o].end # NoTime
  /\ ops[o].err = (ops[o].status # "SUCCEEDED")
  /\ \/ Kind[o] = "wait" /\ ops[o].status = "SUCCEEDED"
     \/ Kind[o] = "callback" /\ ops[o].status \in {"SUCCEEDED", "FAILED", "TIMED_OUT"}

Agrees(o) ==
  \/ ops[o] = Absent /\ UpdatesOf(o) = {}
  \/ /\ ops[o].start # NoTime /\ Kind[o] # "invoke" /\ ops[o].by # 0
     /\ \E i \in DOMAIN updates :
          /\ LastUpdate(o, i)
          /\ Running(o, i) \/ Waiting(o, i) \/ Concluded(o, i) \/ Completed(o, i)

\* The invocation that created an operation: none was completed since.
MadeBy(o) ==
  /\ ops[o].by <= invocation.number
  /\ ops[o].by = invocation.number /\ invocation.phase \in {"running", "ending"} =>
       \A i \in UpdatesOf(o), n \in DOMAIN completions : completions[n] <= updates[i].ts

\* Each operation that exists has one place.
OrderIsRight ==
  /\ \E k \in DOMAIN order : order[k] = "execution"
  /\ \A k, l \in DOMAIN order : order[k] = order[l] => k = l
  /\ \A o \in Ops : (UpdatesOf(o) # {}) <=> \E k \in DOMAIN order : order[k] = o

ExecutionIsRight ==
  /\ ops["execution"].start = 0
  /\ \/ ops["execution"].status = "STARTED" /\ ops["execution"].end = NoTime
     \/ /\ ops["execution"].status \in {"SUCCEEDED", "FAILED", "TIMED_OUT", "STOPPED"}
        /\ ops["execution"].end # NoTime

Recorded ==
  /\ NothingIsLater /\ TriesAlternate /\ OrderIsRight /\ ExecutionIsRight
  /\ \A o \in Ops : Agrees(o) /\ MadeBy(o)
  /\ invocation.phase \in {"running", "ending"} => invocation.number # 0

\* The record that a test has set up by hand.
ByHand ==
  /\ updates = <<>> /\ completions = <<>>
  /\ \A o \in All : ops[o] \in SetUp(o)
  /\ \A k, l \in DOMAIN order : order[k] = order[l] => k = l
  /\ \A o \in All : \E k \in DOMAIN order : order[k] = o

RecordInv ==
  /\ HistoryTypes
  /\ invocation.phase = "none" => ByHand
  /\ invocation.phase # "none" => Recorded

\* Only tries have ends that are told by an update: those of steps and of child contexts.
UpdatesFit ==
  \A i \in DOMAIN updates :
    updates[i].act # "START" => Kind[updates[i].op] \in {"step", "context"}

HistoryInv == RecordInv /\ UpdatesFit /\ ReaderInv

\* The names that are not those of operations.
LEMMA Names == "execution" \notin Ops /\ "none" \notin Ops /\ "none" \notin All
BY HistoryAssumption DEF All

\* An operation that nothing is done to.
LEMMA AgreesStill ==
  ASSUME NEW o \in Ops, Agrees(o), ops'[o] = ops[o], UNCHANGED updates
  PROVE  Agrees(o)'
<1>1. UpdatesOf(o)' = UpdatesOf(o)
  BY DEF UpdatesOf
<1>2. \A i : LastUpdate(o, i)' <=> LastUpdate(o, i)
  BY <1>1 DEF LastUpdate
<1>3. \A i : /\ Running(o, i)' <=> Running(o, i)
             /\ Waiting(o, i)' <=> Waiting(o, i)
             /\ Concluded(o, i)' <=> Concluded(o, i)
             /\ Completed(o, i)' <=> Completed(o, i)
  BY DEF Running, Waiting, Concluded, Completed
<1>4. CASE ops[o] = Absent /\ UpdatesOf(o) = {}
  BY <1>4, <1>1 DEF Agrees
<1>5. CASE ~(ops[o] = Absent /\ UpdatesOf(o) = {})
  BY <1>2, <1>3, <1>5 DEF Agrees
<1> QED
  BY <1>4, <1>5

\* What depends only on the record stays when the record does.
LEMMA SameRecord ==
  ASSUME Recorded, UNCHANGED <<order, ops, updates>>
  PROVE  /\ TriesAlternate' /\ OrderIsRight' /\ ExecutionIsRight'
         /\ \A o \in Ops : Agrees(o)'
         /\ \A o \in Ops : UpdatesOf(o)' = UpdatesOf(o)
<1>1. \A o : UpdatesOf(o)' = UpdatesOf(o)
  BY DEF UpdatesOf
<1>2. \A o, i : UpTo(o, i)' = UpTo(o, i) /\ (LastUpdate(o, i)' <=> LastUpdate(o, i))
  BY <1>1 DEF UpTo, LastUpdate
<1>3. TriesAlternate'
  BY <1>2 DEF Recorded, TriesAlternate
<1>4. OrderIsRight'
  BY <1>1 DEF Recorded, OrderIsRight
<1>5. ExecutionIsRight'
  BY DEF Recorded, ExecutionIsRight
<1>6. \A o \in Ops : Agrees(o)'
  BY AgreesStill DEF Recorded
<1> QED
  BY <1>1, <1>3, <1>4, <1>5, <1>6

\* Who reads leaves the record alone.
LEMMA ReadingChangesNothing ==
  ASSUME (\E backwards \in BOOLEAN : StartReading(backwards)) \/ ReadOn
  PROVE  UNCHANGED <<clock, order, ops, updates, completions, invocation>>
BY Zenon DEF StartReading, ReadOn

\* The clock, the beginning of an invocation and its end leave the record alone.
LEMMA TimeSteps ==
  ASSUME RecordInv, Tick \/ BeginInvocation \/ EndInvocation \/ UNCHANGED historyVars
         \/ (\E backwards \in BOOLEAN : StartReading(backwards)) \/ ReadOn
  PROVE  RecordInv'
<1>1. /\ UNCHANGED <<order, ops, updates, completions>>
      /\ clock \in Nat /\ clock' \in 0 .. MaxTime /\ clock <= clock'
      /\ clock' # clock => UNCHANGED invocation
  <2>1. clock \in Nat /\ clock \in 0 .. MaxTime /\ MaxTime \in Nat
    BY TypesOfParts DEF RecordInv, HistoryTypes
  <2>2. CASE Tick
    BY <2>1, <2>2 DEF Tick
  <2>3. CASE BeginInvocation
    BY <2>1, <2>3 DEF BeginInvocation
  <2>4. CASE EndInvocation
    BY <2>1, <2>4 DEF EndInvocation
  <2>5. CASE UNCHANGED historyVars
    BY <2>1, <2>5 DEF historyVars
  <2>6. CASE \E backwards \in BOOLEAN : StartReading(backwards)
    BY <2>1, <2>6, ReadingChangesNothing
  <2>7. CASE ReadOn
    BY <2>1, <2>7, ReadingChangesNothing
  <2> QED
    BY <2>2, <2>3, <2>4, <2>5, <2>6, <2>7
<1>2. /\ invocation' \in [phase : {"none", "idle", "running", "ending"}, number : Nat, end : Times]
      /\ invocation'.phase = "none" <=> invocation.phase = "none"
      /\ \/ UNCHANGED invocation
         \/ invocation.phase = "idle" /\ invocation'.phase = "running"
            /\ invocation'.number = invocation.number + 1
         \/ invocation.phase = "running" /\ invocation'.phase = "ending"
            /\ invocation'.number = invocation.number /\ invocation'.end = clock
  <2>1. /\ invocation \in [phase : {"none", "idle", "running", "ending"}, number : Nat, end : Times]
        /\ clock \in Times /\ NoTime \in Times
    BY HistoryAssumption DEF RecordInv, HistoryTypes, Times, NoTime
  <2>2. CASE UNCHANGED invocation
    BY <2>1, <2>2
  <2>3. CASE BeginInvocation
    BY <2>1, <2>3 DEF BeginInvocation
  <2>4. CASE EndInvocation
    BY <2>1, <2>4 DEF EndInvocation
  <2> QED
    <3>1. BeginInvocation \/ EndInvocation \/ UNCHANGED invocation
      BY ReadingChangesNothing DEF Tick, historyVars
    <3> QED
      BY <2>2, <2>3, <2>4, <3>1
<1>3. HistoryTypes'
  BY <1>1, <1>2 DEF RecordInv, HistoryTypes
<1>4. CASE invocation.phase = "none"
  <2>1. ByHand'
    BY <1>1, <1>4 DEF RecordInv, ByHand, SetUp
  <2> QED
    BY <2>1, <1>2, <1>3, <1>4 DEF RecordInv
<1>5. CASE invocation.phase # "none"
  <2>1. Recorded
    BY <1>5 DEF RecordInv
  <2>2. /\ TriesAlternate' /\ OrderIsRight' /\ ExecutionIsRight'
        /\ \A o \in Ops : Agrees(o)'
        /\ \A o \in Ops : UpdatesOf(o)' = UpdatesOf(o)
    BY <2>1, <1>1, SameRecord
  <2>3. NothingIsLater'
    <3>1. /\ \A i \in DOMAIN updates : updates[i].ts \in Nat
          /\ \A n \in DOMAIN completions : completions[n] \in Nat
          /\ invocation.end \in Nat /\ clock' \in Nat
      BY <1>1, TypesOfParts DEF RecordInv, HistoryTypes, Times
    <3>2. /\ \A i \in DOMAIN updates : updates[i].ts <= clock
          /\ \A n \in DOMAIN completions : completions[n] <= clock
          /\ invocation.phase = "ending" => invocation.end <= clock
      BY <2>1 DEF Recorded, NothingIsLater
    <3>3. /\ \A i \in DOMAIN updates : updates[i].ts <= clock'
          /\ \A n \in DOMAIN completions : completions[n] <= clock'
      BY <1>1, <3>1, <3>2
    <3>4. invocation'.phase = "ending" => invocation'.end <= clock'
      BY <1>1, <1>2, <3>1, <3>2
    <3> QED
      BY <2>1, <1>1, <3>3, <3>4 DEF Recorded, NothingIsLater
  <2>4. \A o \in Ops : MadeBy(o)'
    <3>1. SUFFICES ASSUME NEW o \in Ops
                   PROVE  MadeBy(o)'
      OBVIOUS
    <3>2. MadeBy(o) /\ ops[o].by \in Nat /\ invocation.number \in Nat
      BY <2>1 DEF Recorded, RecordInv, HistoryTypes, OperationRecord, All
    <3> QED
      BY <3>2, <1>1, <1>2, <2>2 DEF MadeBy
  <2>5. invocation'.phase \in {"running", "ending"} => invocation'.number # 0
    BY <2>1, <1>2 DEF Recorded, RecordInv, HistoryTypes
  <2>6. Recorded'
    BY <2>2, <2>3, <2>4, <2>5 DEF Recorded
  <2> QED
    BY <2>6, <1>2, <1>3, <1>5 DEF RecordInv
<1> QED
  BY <1>4, <1>5

\* The end of an invocation is recorded: its time has passed.
LEMMA RecordCompletionStep ==
  ASSUME RecordInv, RecordCompletion
  PROVE  RecordInv'
<1>1. /\ invocation.phase = "ending" /\ UNCHANGED <<clock, order, ops, updates>>
      /\ completions' = Append(completions, invocation.end)
      /\ invocation' = [invocation EXCEPT !.phase = "idle", !.end = NoTime]
  BY DEF RecordCompletion
<1>2. Recorded /\ HistoryTypes
  BY <1>1 DEF RecordInv
<1>3. /\ MaxTime \in Nat /\ NoTime \in Nat /\ clock \in 0 .. MaxTime /\ NoTime \in Times
      /\ invocation \in [phase : {"none", "idle", "running", "ending"}, number : Nat, end : Times]
  BY <1>2, TypesOfParts DEF HistoryTypes, Times
<1>4. invocation.end \in 0 .. MaxTime /\ invocation.end <= clock
  <2>1. invocation.end <= clock /\ invocation.end \in 0 .. NoTime
    BY <1>1, <1>2, <1>3 DEF Recorded, NothingIsLater, Times
  <2> QED
    BY <2>1, <1>3
<1>5. /\ invocation' \in [phase : {"none", "idle", "running", "ending"}, number : Nat, end : Times]
      /\ invocation'.phase = "idle" /\ invocation'.number = invocation.number
  BY <1>1, <1>3
<1>6. /\ completions' \in Seq(0 .. MaxTime)
      /\ \A n \in DOMAIN completions' : completions'[n] <= clock
  <2> DEFINE T == 0 .. MaxTime
             e == invocation.end
  <2>1. completions \in Seq(T) /\ e \in T
    BY <1>2, <1>4 DEF HistoryTypes
  <2>2. \A n \in DOMAIN completions : completions[n] <= clock
    BY <1>2 DEF Recorded, NothingIsLater
  <2>3. completions' = Append(completions, e) /\ e <= clock
    BY <1>1, <1>4
  <2> HIDE DEF T, e
  <2>4. completions' \in Seq(T)
    BY <2>1, <2>3
  <2>5. \A n \in DOMAIN completions' : completions'[n] = e \/ (n \in DOMAIN completions /\ completions'[n] = completions[n])
    BY <2>1, <2>3
  <2> QED
    BY <2>2, <2>3, <2>4, <2>5 DEF T
<1>7. HistoryTypes'
  BY <1>1, <1>2, <1>5, <1>6 DEF HistoryTypes
<1>8. /\ TriesAlternate' /\ OrderIsRight' /\ ExecutionIsRight'
      /\ \A o \in Ops : Agrees(o)'
  BY <1>1, <1>2, SameRecord
<1>9. NothingIsLater'
  BY <1>1, <1>2, <1>5, <1>6 DEF Recorded, NothingIsLater
<1>10. \A o \in Ops : MadeBy(o)'
  BY <1>1, <1>2, <1>5 DEF Recorded, MadeBy
<1>11. Recorded'
  BY <1>5, <1>8, <1>9, <1>10 DEF Recorded
<1> QED
  BY <1>5, <1>7, <1>11 DEF RecordInv

\* An operation that ends.
Ends(f, g, o, status, end, err) ==
  g = [f EXCEPT ![o].status = status, ![o].end = end, ![o].err = err]

\* What an EXCEPT of status, end and error changes.
LEMMA EndOfOperation ==
  ASSUME NEW f \in [All -> OperationRecord], NEW o \in All, NEW status, NEW end, NEW err, NEW g,
         Ends(f, g, o, status, end, err)
  PROVE  /\ g[o] = [status |-> status, start |-> f[o].start, end |-> end, err |-> err, by |-> f[o].by]
         /\ \A p \in All : p # o => g[p] = f[p]
         /\ DOMAIN g = All /\ g = [p \in All |-> g[p]]
<1> DEFINE r == f[o]
           a == [r EXCEPT !.status = status]
           b == [a EXCEPT !.end = end]
           c == [b EXCEPT !.err = err]
<1>1. g = [f EXCEPT ![o] = c]
  BY DEF Ends
<1>2. r = [status |-> r.status, start |-> r.start, end |-> r.end, err |-> r.err, by |-> r.by]
  BY DEF OperationRecord
<1> HIDE DEF r
<1>3. a = [status |-> status, start |-> r.start, end |-> r.end, err |-> r.err, by |-> r.by]
  BY <1>2
<1> HIDE DEF a
<1>4. b = [status |-> status, start |-> r.start, end |-> end, err |-> r.err, by |-> r.by]
  BY <1>3
<1> HIDE DEF b
<1>5. c = [status |-> status, start |-> r.start, end |-> end, err |-> err, by |-> r.by]
  BY <1>4
<1> HIDE DEF c
<1> QED
  BY <1>1, <1>5 DEF r

\* The execution ends.
LEMMA EndExecutionStep ==
  ASSUME RecordInv, EndExecution
  PROVE  RecordInv'
<1>1. PICK status \in {"SUCCEEDED", "FAILED", "TIMED_OUT", "STOPPED"} :
        ops' = [ops EXCEPT !["execution"].status = status, !["execution"].end = clock,
                           !["execution"].err = status # "SUCCEEDED"]
  BY DEF EndExecution
<1>2. /\ invocation.phase # "none" /\ UNCHANGED <<clock, order, updates, completions, invocation>>
  BY DEF EndExecution
<1>3. Recorded /\ HistoryTypes
  BY <1>2 DEF RecordInv
<1>4. /\ MaxTime \in Nat /\ NoTime = MaxTime + 1 /\ clock \in 0 .. MaxTime /\ clock \in Times
      /\ "execution" \in All /\ ops \in [All -> OperationRecord]
  BY <1>3, TypesOfParts DEF HistoryTypes, Times, NoTime, All
<1>5. PICK e \in Times, y \in Nat : e = ops["execution"].start /\ y = ops["execution"].by
  BY <1>4 DEF OperationRecord
<1>6. /\ ops'["execution"] = [status |-> status, start |-> e, end |-> clock,
                              err |-> status # "SUCCEEDED", by |-> y]
      /\ \A o \in Ops : ops'[o] = ops[o]
      /\ DOMAIN ops' = All
  <2> DEFINE err == status # "SUCCEEDED"
  <2>1. Ends(ops, ops', "execution", status, clock, err)
    BY <1>1 DEF Ends
  <2> HIDE DEF err
  <2>2. /\ ops'["execution"] = [status |-> status, start |-> ops["execution"].start, end |-> clock,
                                err |-> err, by |-> ops["execution"].by]
        /\ \A p \in All : p # "execution" => ops'[p] = ops[p]
        /\ DOMAIN ops' = All
    BY <2>1, <1>4, EndOfOperation
  <2>3. \A o \in Ops : o \in All /\ o # "execution"
    BY Names DEF All
  <2> QED
    BY <2>2, <2>3, <1>5 DEF err
<1>7. ops' \in [All -> OperationRecord]
  <2>1. ops'["execution"] \in OperationRecord
    BY <1>4, <1>5, <1>6 DEF OperationRecord, Statuses, EndStatuses
  <2>2. \A o \in All : ops'[o] \in OperationRecord
    BY <2>1, <1>4, <1>6 DEF All
  <2>3. ops' = [o \in All |-> ops'[o]]
    BY <1>1, <1>4
  <2> QED
    BY <2>2, <2>3
<1>8. HistoryTypes'
  BY <1>2, <1>3, <1>7 DEF HistoryTypes
<1>9. \A o : UpdatesOf(o)' = UpdatesOf(o)
  BY <1>2 DEF UpdatesOf
<1>10. \A o, i : UpTo(o, i)' = UpTo(o, i) /\ (LastUpdate(o, i)' <=> LastUpdate(o, i))
  BY <1>9 DEF UpTo, LastUpdate
<1>11. NothingIsLater'
  BY <1>2, <1>3 DEF Recorded, NothingIsLater
<1>12. TriesAlternate'
  BY <1>2, <1>3, <1>10 DEF Recorded, TriesAlternate
<1>13. OrderIsRight'
  BY <1>2, <1>3, <1>9 DEF Recorded, OrderIsRight
<1>14. ExecutionIsRight'
  <2>1. ops["execution"].start = 0 /\ clock # NoTime
    BY <1>3, <1>4 DEF Recorded, ExecutionIsRight
  <2> QED
    BY <1>5, <1>6, <2>1 DEF ExecutionIsRight
<1>15. ASSUME NEW o \in Ops
       PROVE  Agrees(o)' /\ MadeBy(o)'
  <2>1. Agrees(o) /\ MadeBy(o) /\ ops'[o] = ops[o]
    BY <1>3, <1>6 DEF Recorded
  <2>2. Agrees(o)'
    BY <2>1, <1>2, AgreesStill
  <2>5. MadeBy(o)'
    BY <2>1, <1>2, <1>9 DEF MadeBy
  <2> QED
    BY <2>2, <2>5
<1>16. Recorded'
  BY <1>2, <1>3, <1>11, <1>12, <1>13, <1>14, <1>15 DEF Recorded
<1> QED
  BY <1>2, <1>8, <1>16 DEF RecordInv

\* The service completes an operation, or makes it ready for its next try.
LEMMA CompleteStep ==
  ASSUME RecordInv, NEW o \in Ops, CompleteByItself(o)
  PROVE  RecordInv'
<1>1. invocation.phase # "none" /\ UNCHANGED <<clock, order, updates, completions, invocation>>
  BY Zenon DEF CompleteByItself
<1>2. Recorded /\ HistoryTypes
  BY <1>1 DEF RecordInv
<1>3. /\ MaxTime \in Nat /\ NoTime = MaxTime + 1 /\ clock \in 0 .. MaxTime /\ clock \in Times
      /\ o \in All /\ o # "execution" /\ "execution" \in All /\ ops \in [All -> OperationRecord]
      /\ ops[o] \in OperationRecord
  BY <1>2, TypesOfParts, Names DEF HistoryTypes, Times, NoTime, All
<1>4. Agrees(o) /\ MadeBy(o)
  BY <1>2 DEF Recorded
<1>5. /\ ops' = [p \in All |-> ops'[p]] /\ \A p \in All : p # o => ops'[p] = ops[p]
      /\ ops'[o] \in OperationRecord /\ ops'[o].by = ops[o].by
      /\ Agrees(o)'
  <2>1. CASE ops[o].status = "STARTED" /\ Kind[o] \in {"wait", "callback"}
    <3>1. PICK status \in IF Kind[o] = "wait" THEN {"SUCCEEDED"} ELSE {"SUCCEEDED", "FAILED", "TIMED_OUT"} :
            ops' = [ops EXCEPT ![o].status = status, ![o].end = clock, ![o].err = status # "SUCCEEDED"]
      BY <2>1, Zenon DEF CompleteByItself
    <3> DEFINE err == status # "SUCCEEDED"
    <3>2. Ends(ops, ops', o, status, clock, err)
      BY <3>1 DEF Ends
    <3>3. err \in BOOLEAN /\ err = (status # "SUCCEEDED")
      OBVIOUS
    <3> HIDE DEF err
    <3>4. /\ ops'[o] = [status |-> status, start |-> ops[o].start, end |-> clock, err |-> err,
                        by |-> ops[o].by]
          /\ \A p \in All : p # o => ops'[p] = ops[p]
          /\ DOMAIN ops' = All /\ ops' = [p \in All |-> ops'[p]]
      BY <3>2, <1>3, EndOfOperation
    <3>5. ops[o].start \in Times /\ ops[o].by \in Nat /\ status \in Statuses
      BY <1>3, <3>1 DEF OperationRecord, Statuses, EndStatuses
    <3>6. ops'[o] \in OperationRecord /\ ops'[o].by = ops[o].by
      BY <3>3, <3>4, <3>5, <1>3 DEF OperationRecord
    <3>7. PICK i \in DOMAIN updates :
            /\ LastUpdate(o, i)
            /\ Running(o, i) \/ Waiting(o, i) \/ Concluded(o, i) \/ Completed(o, i)
      BY <1>4, <2>1 DEF Agrees, Absent
    <3>8. Running(o, i) /\ ops[o].start # NoTime /\ ops[o].by # 0
      BY <3>7, <1>4, <2>1 DEF Agrees, Absent, Waiting, Concluded, Completed
    <3>9. updates[i].ts <= clock /\ updates[i].ts \in Nat
      BY <1>2, TypesOfParts DEF Recorded, NothingIsLater
    <3>10. Completed(o, i)'
      <4>1. /\ ops'[o].status = status /\ ops'[o].end = clock /\ ops'[o].err = (status # "SUCCEEDED")
            /\ clock # NoTime
        BY <3>3, <3>4, <1>3
      <4> QED
        BY <4>1, <3>1, <3>8, <3>9, <1>1, <2>1 DEF Completed, Running
    <3>11. LastUpdate(o, i)' /\ i \in DOMAIN updates'
      BY <3>7, <1>1 DEF LastUpdate, UpdatesOf
    <3>12. ops'[o].start # NoTime /\ ops'[o].by # 0 /\ Kind[o] # "invoke"
      BY <3>4, <3>8, <2>1
    <3>13. Agrees(o)'
      BY <3>10, <3>11, <3>12 DEF Agrees
    <3> QED
      BY <3>4, <3>6, <3>13
  <2>2. CASE ops[o].status = "PENDING" /\ Kind[o] = "step"
    <3>1. ops' = [ops EXCEPT ![o].status = "READY"]
      BY <2>2 DEF CompleteByItself
    <3>2. ops'[o] = [status |-> "READY", start |-> ops[o].start, end |-> ops[o].end, err |-> ops[o].err,
                     by |-> ops[o].by]
      BY <3>1, <1>3 DEF OperationRecord
    <3>3. /\ \A p \in All : p # o => ops'[p] = ops[p]
          /\ ops' = [p \in All |-> ops'[p]]
      BY <3>1, <1>3
    <3>4. /\ ops[o].start \in Times /\ ops[o].end \in Times /\ ops[o].err \in BOOLEAN
          /\ ops[o].by \in Nat
      BY <1>3 DEF OperationRecord
    <3>5. ops'[o] \in OperationRecord /\ ops'[o].by = ops[o].by
      BY <3>2, <3>4 DEF OperationRecord, Statuses
    <3>6. PICK i \in DOMAIN updates :
            /\ LastUpdate(o, i)
            /\ Running(o, i) \/ Waiting(o, i) \/ Concluded(o, i) \/ Completed(o, i)
      BY <1>4, <2>2 DEF Agrees, Absent
    <3>7. Waiting(o, i) /\ ops[o].start # NoTime /\ ops[o].by # 0
      BY <3>6, <1>4, <2>2 DEF Agrees, Absent, Running, Concluded, Completed
    <3>8. Waiting(o, i)'
      BY <3>2, <3>7, <1>1 DEF Waiting
    <3>9. LastUpdate(o, i)' /\ i \in DOMAIN updates'
      BY <3>6, <1>1 DEF LastUpdate, UpdatesOf
    <3>10. ops'[o].start # NoTime /\ ops'[o].by # 0 /\ Kind[o] # "invoke"
      BY <3>2, <3>7, <2>2
    <3>11. Agrees(o)'
      BY <3>8, <3>9, <3>10 DEF Agrees
    <3> QED
      BY <3>3, <3>5, <3>11
  <2> QED
    BY <2>1, <2>2, Zenon DEF CompleteByItself
<1>6. ops' \in [All -> OperationRecord]
  <2>1. \A p \in All : ops'[p] \in OperationRecord
    BY <1>3, <1>5
  <2> QED
    BY <2>1, <1>5
<1>7. HistoryTypes'
  BY <1>1, <1>2, <1>6 DEF HistoryTypes
<1>8. \A p : UpdatesOf(p)' = UpdatesOf(p)
  BY <1>1 DEF UpdatesOf
<1>9. \A p, i : UpTo(p, i)' = UpTo(p, i)
  BY <1>8 DEF UpTo
<1>10. NothingIsLater' /\ TriesAlternate' /\ OrderIsRight'
  BY <1>1, <1>2, <1>8, <1>9 DEF Recorded, NothingIsLater, TriesAlternate, OrderIsRight
<1>11. ExecutionIsRight'
  BY <1>2, <1>3, <1>5 DEF Recorded, ExecutionIsRight
<1>12. ASSUME NEW p \in Ops
       PROVE  Agrees(p)' /\ MadeBy(p)'
  <2>1. Agrees(p) /\ MadeBy(p) /\ p \in All
    BY <1>2 DEF Recorded, All
  <2>2. Agrees(p)'
    BY <2>1, <1>1, <1>5, AgreesStill
  <2>3. ops'[p].by = ops[p].by
    BY <2>1, <1>5
  <2>4. MadeBy(p)'
    BY <2>1, <2>3, <1>1, <1>8 DEF MadeBy
  <2> QED
    BY <2>2, <2>4
<1>13. Recorded'
  BY <1>1, <1>2, <1>10, <1>11, <1>12 DEF Recorded
<1> QED
  BY <1>1, <1>7, <1>13 DEF RecordInv

\* The number of updates of an operation is odd just when the last of them is a start.
LEMMA Parity ==
  ASSUME RecordInv, Recorded, NEW o \in Ops
  PROVE  /\ IsFiniteSet(UpdatesOf(o)) /\ Cardinality(UpdatesOf(o)) \in Nat
         /\ UpdatesOf(o) = {} => Cardinality(UpdatesOf(o)) = 0
         /\ \A i \in DOMAIN updates : LastUpdate(o, i) =>
              /\ UpTo(o, i) = UpdatesOf(o)
              /\ (updates[i].act = "START") <=> (Cardinality(UpdatesOf(o)) % 2 = 1)
<1>1. DOMAIN updates = 1 .. Len(updates) /\ Len(updates) \in Nat
  BY TypesOfParts DEF RecordInv
<1>2. IsFiniteSet(UpdatesOf(o))
  <2>1. IsFiniteSet(1 .. Len(updates))
    BY <1>1, FS_Interval
  <2>2. UpdatesOf(o) \in SUBSET (1 .. Len(updates))
    BY <1>1 DEF UpdatesOf
  <2> QED
    BY <2>1, <2>2, FS_Subset
<1>3. Cardinality(UpdatesOf(o)) \in Nat
  BY <1>2, FS_CardinalityType
<1>4. UpdatesOf(o) = {} => Cardinality(UpdatesOf(o)) = 0
  BY FS_EmptySet
<1>5. ASSUME NEW i \in DOMAIN updates, LastUpdate(o, i)
      PROVE  /\ UpTo(o, i) = UpdatesOf(o)
             /\ (updates[i].act = "START") <=> (Cardinality(UpdatesOf(o)) % 2 = 1)
  <2>1. UpTo(o, i) = UpdatesOf(o) /\ updates[i].op = o
    BY <1>5 DEF UpTo, LastUpdate, UpdatesOf
  <2>2. (updates[i].act = "START") <=> (Cardinality(UpTo(updates[i].op, i)) % 2 = 1)
    BY DEF Recorded, TriesAlternate
  <2> QED
    BY <2>1, <2>2
<1> QED
  BY <1>2, <1>3, <1>4, <1>5

\* What the SDK may send, by the last update.
LEMMA ActionsFollow ==
  ASSUME RecordInv, Recorded, NEW o \in Ops, NEW act \in Actions(o)
  PROVE  /\ act = "START" =>
              /\ Cardinality(UpdatesOf(o)) % 2 = 0
              /\ ops[o].status = "absent" => ops[o] = Absent /\ UpdatesOf(o) = {}
         /\ act # "START" => Cardinality(UpdatesOf(o)) % 2 = 1
         /\ act \in {"START", "RETRY", "SUCCEED", "FAIL"}
         /\ act = "RETRY" => Kind[o] = "step"
         /\ act \in {"SUCCEED", "FAIL"} => Kind[o] \in {"step", "context"}
         /\ ops[o].status = "absent" => act = "START"
         /\ (ops[o].status = "absent") <=> (UpdatesOf(o) = {})
<1>1. \/ ops[o].status \in {"absent", "READY"} /\ act = "START"
      \/ /\ ops[o].status = "STARTED" /\ Kind[o] \in {"step", "context"}
         /\ act \in {"RETRY", "SUCCEED", "FAIL"} /\ (act = "RETRY" => Kind[o] = "step")
  BY DEF Actions
<1>2. Agrees(o)
  BY DEF Recorded
<1>3. /\ Cardinality(UpdatesOf(o)) \in Nat
      /\ UpdatesOf(o) = {} => Cardinality(UpdatesOf(o)) = 0
      /\ \A i \in DOMAIN updates : LastUpdate(o, i) =>
           ((updates[i].act = "START") <=> (Cardinality(UpdatesOf(o)) % 2 = 1))
  BY Parity
<1>4. CASE ops[o] = Absent /\ UpdatesOf(o) = {}
  <2>1. ops[o].status = "absent"
    BY <1>4 DEF Absent
  <2> QED
    BY <1>1, <1>3, <1>4, <2>1
<1>5. CASE ~(ops[o] = Absent /\ UpdatesOf(o) = {})
  <2>1. PICK i \in DOMAIN updates :
          /\ LastUpdate(o, i)
          /\ Running(o, i) \/ Waiting(o, i) \/ Concluded(o, i) \/ Completed(o, i)
    BY <1>2, <1>5 DEF Agrees
  <2>2. UpdatesOf(o) # {} /\ ops[o].status # "absent"
    BY <2>1 DEF LastUpdate, Running, Waiting, Concluded, Completed
  <2>3. CASE ops[o].status = "READY"
    <3>1. updates[i].act = "RETRY"
      BY <2>1, <2>3 DEF Running, Waiting, Concluded, Completed
    <3>2. Cardinality(UpdatesOf(o)) % 2 = 0
      BY <3>1, <2>1, <1>3
    <3> QED
      BY <1>1, <2>2, <2>3, <3>2
  <2>4. CASE ops[o].status = "STARTED"
    <3>1. updates[i].act = "START"
      BY <2>1, <2>4 DEF Running, Waiting, Concluded, Completed
    <3> QED
      BY <1>1, <1>3, <2>1, <2>2, <2>4, <3>1
  <2> QED
    BY <1>1, <2>2, <2>3, <2>4
<1> QED
  BY <1>4, <1>5

\* One more update u, of the operation o.
Told(o, act, err) ==
  LET u == [op |-> o, act |-> act, err |-> err, ts |-> clock]
      new == [status |-> StatusAfter[act],
              start |-> IF ops[o].start = NoTime THEN clock ELSE ops[o].start,
              end |-> IF act \in {"SUCCEED", "FAIL"} THEN clock ELSE NoTime,
              err |-> err, by |-> IF ops[o].by = 0 THEN invocation.number ELSE ops[o].by]
  IN /\ err => act \in {"RETRY", "FAIL"}
     /\ act = "FAIL" => err
     /\ updates' = Append(updates, u)
     /\ ops' = [ops EXCEPT ![o] = new]

\* An update, taken apart.
LEMMA UpdateIsTold ==
  ASSUME NEW o \in Ops, Update(o)
  PROVE  /\ invocation.phase \in {"running", "ending"} /\ Kind[o] # "invoke"
         /\ \E act \in Actions(o), err \in BOOLEAN : Told(o, act, err)
         /\ order' = IF ops[o].status = "absent" THEN Append(order, o) ELSE order
         /\ UNCHANGED <<clock, completions, invocation>>
BY Zenon DEF Update, Told

\* The list of updates with one more.
LEMMA MoreUpdates ==
  ASSUME RecordInv, NEW o \in Ops, NEW u \in UpdateRecord, u.op = o, updates' = Append(updates, u)
  PROVE  LET n == Len(updates) + 1
         IN /\ n \in Nat /\ updates' \in Seq(UpdateRecord) /\ Len(updates') = n
            /\ DOMAIN updates' = DOMAIN updates \cup {n} /\ n \notin DOMAIN updates
            /\ \A i \in DOMAIN updates : updates'[i] = updates[i] /\ i < n /\ i \in Nat
            /\ updates'[n] = u
            /\ UpdatesOf(o)' = UpdatesOf(o) \cup {n}
            /\ \A p : p # o => UpdatesOf(p)' = UpdatesOf(p)
            /\ \A p : UpdatesOf(p) \subseteq DOMAIN updates
<1> DEFINE n == Len(updates) + 1
<1>1. /\ updates \in Seq(UpdateRecord) /\ DOMAIN updates = 1 .. Len(updates) /\ Len(updates) \in Nat
  BY TypesOfParts DEF RecordInv, HistoryTypes
<1>2. /\ n \in Nat /\ updates' \in Seq(UpdateRecord) /\ Len(updates') = n
      /\ DOMAIN updates' = 1 .. n
      /\ \A i \in DOMAIN updates : updates'[i] = updates[i] /\ i < n /\ i \in Nat
      /\ updates'[n] = u
  BY <1>1
<1>3. DOMAIN updates' = DOMAIN updates \cup {n} /\ n \notin DOMAIN updates
  BY <1>1, <1>2
<1> HIDE DEF n
<1>4. UpdatesOf(o)' = UpdatesOf(o) \cup {n}
  BY <1>2, <1>3 DEF UpdatesOf
<1>5. \A p : p # o => UpdatesOf(p)' = UpdatesOf(p)
  BY <1>2, <1>3 DEF UpdatesOf
<1>6. \A p : UpdatesOf(p) \subseteq DOMAIN updates
  BY DEF UpdatesOf
<1> QED
  BY <1>2, <1>3, <1>4, <1>5, <1>6 DEF n

\* An update keeps the record right.
LEMMA UpdateStep ==
  ASSUME RecordInv, NEW o \in Ops, Update(o)
  PROVE  RecordInv'
<1>1. /\ invocation.phase \in {"running", "ending"} /\ Kind[o] # "invoke"
      /\ order' = IF ops[o].status = "absent" THEN Append(order, o) ELSE order
      /\ UNCHANGED <<clock, completions, invocation>>
  BY UpdateIsTold
<1>2. PICK act \in Actions(o), err \in BOOLEAN : Told(o, act, err)
  BY UpdateIsTold
<1>3. Recorded /\ HistoryTypes
  BY <1>1 DEF RecordInv
<1>4. /\ MaxTime \in Nat /\ NoTime = MaxTime + 1 /\ clock \in 0 .. MaxTime /\ clock \in Times
      /\ NoTime \in Times /\ clock # NoTime
      /\ o \in All /\ o # "execution" /\ "execution" \in All /\ ops \in [All -> OperationRecord]
      /\ ops[o] \in OperationRecord
      /\ invocation.number \in Nat /\ invocation.number # 0
  <2>1. /\ MaxTime \in Nat /\ clock \in 0 .. MaxTime /\ ops \in [All -> OperationRecord]
        /\ invocation.number \in Nat
    BY <1>3, TypesOfParts DEF HistoryTypes
  <2>2. o \in All /\ o # "execution" /\ "execution" \in All
    BY Names DEF All
  <2>3. invocation.number # 0
    BY <1>1, <1>3 DEF Recorded
  <2> QED
    BY <2>1, <2>2, <2>3 DEF Times, NoTime
<1>5. /\ act = "START" =>
           /\ Cardinality(UpdatesOf(o)) % 2 = 0
           /\ ops[o].status = "absent" => ops[o] = Absent /\ UpdatesOf(o) = {}
      /\ act # "START" => Cardinality(UpdatesOf(o)) % 2 = 1
      /\ act \in {"START", "RETRY", "SUCCEED", "FAIL"}
      /\ act = "RETRY" => Kind[o] = "step"
      /\ act \in {"SUCCEED", "FAIL"} => Kind[o] \in {"step", "context"}
      /\ ops[o].status = "absent" => act = "START"
      /\ (ops[o].status = "absent") <=> (UpdatesOf(o) = {})
  BY <1>3, ActionsFollow
<1> DEFINE u == [op |-> o, act |-> act, err |-> err, ts |-> clock]
           start == IF ops[o].start = NoTime THEN clock ELSE ops[o].start
           end == IF act \in {"SUCCEED", "FAIL"} THEN clock ELSE NoTime
           by == IF ops[o].by = 0 THEN invocation.number ELSE ops[o].by
<1>6. /\ u \in UpdateRecord /\ u.op = o /\ u.act = act /\ u.err = err /\ u.ts = clock
      /\ updates' = Append(updates, u)
  BY <1>2, <1>4, <1>5 DEF Told, UpdateRecord
<1>7. /\ start \in Times /\ start # NoTime /\ end \in Times /\ by \in Nat /\ by # 0
      /\ StatusAfter[act] \in Statuses
  <2>1. ops[o].start \in Times /\ ops[o].by \in Nat
    BY <1>4 DEF OperationRecord
  <2> QED
    BY <2>1, <1>4, <1>5 DEF StatusAfter, Statuses, EndStatuses
<1>8. /\ ops'[o] = [status |-> StatusAfter[act], start |-> start, end |-> end, err |-> err, by |-> by]
      /\ \A p \in All : p # o => ops'[p] = ops[p]
      /\ ops' = [p \in All |-> ops'[p]]
  <2> DEFINE new == [status |-> StatusAfter[act], start |-> start, end |-> end, err |-> err, by |-> by]
  <2>1. ops' = [ops EXCEPT ![o] = new]
    BY <1>2, Zenon DEF Told
  <2> HIDE DEF new
  <2>2. /\ ops'[o] = new /\ \A p \in All : p # o => ops'[p] = ops[p]
        /\ ops' = [p \in All |-> ops'[p]]
    BY <2>1, <1>4
  <2> QED
    BY <2>2 DEF new
<1>9. err => act \in {"RETRY", "FAIL"}
  BY <1>2 DEF Told
<1>10. act = "FAIL" => err
  BY <1>2 DEF Told
<1> HIDE DEF u, start, end, by
<1>10a. PICK n \in Nat : n = Len(updates) + 1
  BY <1>3, TypesOfParts
<1>11. /\ n \in Nat /\ updates' \in Seq(UpdateRecord) /\ Len(updates') = n
       /\ DOMAIN updates' = DOMAIN updates \cup {n} /\ n \notin DOMAIN updates
       /\ \A i \in DOMAIN updates : updates'[i] = updates[i] /\ i < n /\ i \in Nat
       /\ updates'[n] = u
       /\ UpdatesOf(o)' = UpdatesOf(o) \cup {n}
       /\ \A p : p # o => UpdatesOf(p)' = UpdatesOf(p)
       /\ \A p : UpdatesOf(p) \subseteq DOMAIN updates
  BY <1>6, <1>10a, MoreUpdates
<1>12. ops' \in [All -> OperationRecord]
  <2>1. ops'[o] \in OperationRecord
    BY <1>7, <1>8 DEF OperationRecord
  <2>2. \A p \in All : ops'[p] \in OperationRecord
    BY <2>1, <1>4, <1>8
  <2> QED
    BY <2>2, <1>8
<1>13. order' \in Seq(All)
  BY <1>1, <1>3, <1>4 DEF HistoryTypes
<1>14. HistoryTypes'
  BY <1>1, <1>3, <1>11, <1>12, <1>13 DEF HistoryTypes
<1>15. NothingIsLater'
  <2>1. /\ \A i, j \in DOMAIN updates : i <= j => updates[i].ts <= updates[j].ts
        /\ \A i \in DOMAIN updates : updates[i].ts <= clock
        /\ \A k \in DOMAIN completions : completions[k] <= clock
        /\ invocation.phase = "ending" => invocation.end <= clock
    BY <1>3 DEF Recorded, NothingIsLater
  <2>2. \A i \in DOMAIN updates' : updates'[i].ts <= clock
    BY <2>1, <1>4, <1>6, <1>11
  <2>3. ASSUME NEW i \in DOMAIN updates', NEW j \in DOMAIN updates', i <= j
        PROVE  updates'[i].ts <= updates'[j].ts
    <3>1. CASE j = n
      BY <3>1, <2>2, <1>6, <1>11
    <3>2. CASE j # n
      <4>1. j \in DOMAIN updates /\ i \in DOMAIN updates
        BY <3>2, <2>3, <1>11
      <4> QED
        BY <4>1, <2>1, <2>3, <1>11
    <3> QED
      BY <3>1, <3>2
  <2> QED
    BY <2>1, <2>2, <2>3, <1>1 DEF NothingIsLater
<1>16. TriesAlternate'
  <2>1. ASSUME NEW i \in DOMAIN updates'
        PROVE  (updates'[i].act = "START") <=> (Cardinality(UpTo(updates[i].op, i)') % 2 = 1)
    <3>1. CASE i # n
      <4>1. i \in DOMAIN updates /\ updates'[i] = updates[i]
        BY <3>1, <2>1, <1>11
      <4>2. UpTo(updates[i].op, i)' = UpTo(updates[i].op, i)
        <5>1. \A j \in UpdatesOf(updates[i].op)' : j <= i => j \in UpdatesOf(updates[i].op)
          BY <4>1, <1>11
        <5>2. \A j \in UpdatesOf(updates[i].op) : j \in UpdatesOf(updates[i].op)'
          BY <4>1, <1>11
        <5>3. updates'[i].op = updates[i].op
          BY <4>1
        <5> QED
          BY <5>1, <5>2, <5>3 DEF UpTo
      <4>3. (updates[i].act = "START") <=> (Cardinality(UpTo(updates[i].op, i)) % 2 = 1)
        BY <4>1, <1>3 DEF Recorded, TriesAlternate
      <4> QED
        BY <4>1, <4>2, <4>3
    <3>2. CASE i = n
      <4>1. updates'[i] = u /\ updates'[i].op = o /\ updates'[i].act = act
        BY <3>2, <1>6, <1>11
      <4>2. UpTo(updates[i].op, i)' = UpdatesOf(o) \cup {n}
        BY <4>1, <3>2, <1>11 DEF UpTo
      <4>3. /\ IsFiniteSet(UpdatesOf(o)) /\ Cardinality(UpdatesOf(o)) \in Nat /\ n \notin UpdatesOf(o)
        BY <1>3, <1>11, Parity
      <4>4. Cardinality(UpdatesOf(o) \cup {n}) = Cardinality(UpdatesOf(o)) + 1
        BY <4>3, FS_AddElement
      <4>5. (act = "START") <=> ((Cardinality(UpdatesOf(o)) + 1) % 2 = 1)
        BY <4>3, <1>5
      <4> QED
        BY <4>1, <4>2, <4>4, <4>5
    <3> QED
      BY <3>1, <3>2
  <2> QED
    BY <2>1 DEF TriesAlternate
<1>17. OrderIsRight'
  <2>1. /\ \E k \in DOMAIN order : order[k] = "execution"
        /\ \A k, l \in DOMAIN order : order[k] = order[l] => k = l
        /\ \A p \in Ops : (UpdatesOf(p) # {}) <=> \E k \in DOMAIN order : order[k] = p
    BY <1>3 DEF Recorded, OrderIsRight
  <2>2. UpdatesOf(o)' # {}
    BY <1>11
  <2>3. CASE ops[o].status # "absent"
    <3>1. order' = order /\ UpdatesOf(o) # {}
      BY <2>3, <1>1, <1>5
    <3>2. \A p \in Ops : (UpdatesOf(p)' # {}) <=> (UpdatesOf(p) # {})
      BY <2>2, <3>1, <1>11
    <3> QED
      BY <2>1, <3>1, <3>2 DEF OrderIsRight
  <2>4. CASE ops[o].status = "absent"
    <3>1. order' = Append(order, o) /\ UpdatesOf(o) = {}
      BY <2>4, <1>1, <1>5
    <3>2. /\ DOMAIN order' = DOMAIN order \cup {Len(order) + 1} /\ order'[Len(order) + 1] = o
          /\ \A k \in DOMAIN order : order'[k] = order[k] /\ order[k] # o
      <4>1. order \in Seq(All)
        BY <1>3 DEF HistoryTypes
      <4>2. \A k \in DOMAIN order : order[k] # o
        BY <2>1, <3>1
      <4>3. /\ DOMAIN order' = DOMAIN order \cup {Len(order) + 1} /\ order'[Len(order) + 1] = o
            /\ \A k \in DOMAIN order : order'[k] = order[k]
        BY <3>1, <4>1, <1>4
      <4> QED
        BY <4>2, <4>3
    <3>3. \A k, l \in DOMAIN order' : order'[k] = order'[l] => k = l
      BY <2>1, <3>2
    <3>4. \E k \in DOMAIN order' : order'[k] = "execution"
      BY <2>1, <3>2
    <3>5. ASSUME NEW p \in Ops
          PROVE  (UpdatesOf(p)' # {}) <=> \E k \in DOMAIN order' : order'[k] = p
      <4>1. CASE p = o
        BY <4>1, <2>2, <3>2
      <4>2. CASE p # o
        BY <4>2, <2>1, <3>2, <1>11
      <4> QED
        BY <4>1, <4>2
    <3> QED
      BY <3>3, <3>4, <3>5 DEF OrderIsRight
  <2> QED
    BY <2>3, <2>4
<1>18. ExecutionIsRight'
  BY <1>3, <1>4, <1>8 DEF Recorded, ExecutionIsRight
<1>19. Agrees(o)'
  <2>1. /\ ops'[o].status = StatusAfter[act] /\ ops'[o].start # NoTime /\ ops'[o].by # 0
        /\ ops'[o].end = end /\ ops'[o].err = err
    BY <1>7, <1>8
  <2>2. n \in DOMAIN updates' /\ updates'[n].act = act /\ updates'[n].ts = clock /\ updates'[n].err = err
    BY <1>6, <1>11
  <2>3. LastUpdate(o, n)'
    BY <1>11 DEF LastUpdate
  <2>4. CASE act = "START"
    <3>1. Running(o, n)'
      BY <2>1, <2>2, <2>4 DEF Running, StatusAfter, end
    <3> QED
      BY <2>1, <2>2, <2>3, <3>1, <1>1 DEF Agrees
  <2>5. CASE act = "RETRY"
    <3>1. Waiting(o, n)'
      BY <2>1, <2>2, <2>5, <1>5 DEF Waiting, StatusAfter, end
    <3> QED
      BY <2>1, <2>2, <2>3, <3>1, <1>1 DEF Agrees
  <2>6. CASE act = "SUCCEED"
    <3>1. Concluded(o, n)'
      <4>1. err = FALSE
        BY <1>9, <2>6
      <4> QED
        BY <2>1, <2>2, <2>6, <4>1, <1>5 DEF Concluded, StatusAfter, end
    <3> QED
      BY <2>1, <2>2, <2>3, <3>1, <1>1 DEF Agrees
  <2>7. CASE act = "FAIL"
    <3>1. Concluded(o, n)'
      <4>1. err = TRUE
        BY <1>10, <2>7
      <4> QED
        BY <2>1, <2>2, <2>7, <4>1, <1>5 DEF Concluded, StatusAfter, end
    <3> QED
      BY <2>1, <2>2, <2>3, <3>1, <1>1 DEF Agrees
  <2> QED
    BY <2>4, <2>5, <2>6, <2>7, <1>5
<1>20. MadeBy(o)'
  <2>1. MadeBy(o) /\ \A k \in DOMAIN completions : completions[k] <= clock
    BY <1>3 DEF Recorded, NothingIsLater
  <2>2. ops'[o].by = by
    BY <1>8
  <2>3. by <= invocation.number
    BY <2>1, <1>4 DEF MadeBy, by
  <2>4. ASSUME by = invocation.number, NEW i \in UpdatesOf(o)', NEW k \in DOMAIN completions
        PROVE  completions[k] <= updates'[i].ts
    <3>1. CASE i = n
      BY <3>1, <2>1, <1>6, <1>11
    <3>2. CASE i # n
      <4>1. i \in UpdatesOf(o) /\ updates'[i] = updates[i]
        BY <3>2, <2>4, <1>11
      <4>2. ops[o].by # 0
        <5>1. Agrees(o) /\ UpdatesOf(o) # {}
          BY <4>1, <1>3 DEF Recorded
        <5> QED
          BY <5>1 DEF Agrees
      <4>3. ops[o].by = invocation.number
        BY <4>2, <2>4 DEF by
      <4> QED
        BY <4>1, <4>3, <2>1, <1>1 DEF MadeBy
    <3> QED
      BY <3>1, <3>2
  <2> QED
    BY <2>2, <2>3, <2>4, <1>1 DEF MadeBy
<1>21. ASSUME NEW p \in Ops, p # o
       PROVE  Agrees(p)' /\ MadeBy(p)'
  <2>1. Agrees(p) /\ MadeBy(p) /\ ops'[p] = ops[p] /\ UpdatesOf(p)' = UpdatesOf(p)
    BY <1>3, <1>8, <1>11, <1>21 DEF Recorded, All
  <2>2. \A i \in UpdatesOf(p) : i \in DOMAIN updates /\ updates'[i] = updates[i]
    BY <1>11
  <2>3. MadeBy(p)'
    BY <2>1, <2>2, <1>1 DEF MadeBy
  <2>4. CASE ops[p] = Absent /\ UpdatesOf(p) = {}
    <3>1. Agrees(p)'
      BY <2>1, <2>4 DEF Agrees
    <3> QED
      BY <2>3, <3>1
  <2>5. CASE ~(ops[p] = Absent /\ UpdatesOf(p) = {})
    <3>1. PICK i \in DOMAIN updates :
            /\ LastUpdate(p, i)
            /\ Running(p, i) \/ Waiting(p, i) \/ Concluded(p, i) \/ Completed(p, i)
      BY <2>1, <2>5 DEF Agrees
    <3>2. ops[p].start # NoTime /\ Kind[p] # "invoke" /\ ops[p].by # 0
      BY <2>1, <2>5 DEF Agrees
    <3>3. updates'[i] = updates[i] /\ i \in DOMAIN updates'
      BY <1>11
    <3>4. LastUpdate(p, i)'
      BY <3>1, <2>1 DEF LastUpdate
    <3>5. Running(p, i)' \/ Waiting(p, i)' \/ Concluded(p, i)' \/ Completed(p, i)'
      BY <3>1, <3>3, <2>1 DEF Running, Waiting, Concluded, Completed
    <3>6. Agrees(p)'
      BY <3>2, <3>3, <3>4, <3>5, <2>1 DEF Agrees
    <3> QED
      BY <2>3, <3>6
  <2> QED
    BY <2>4, <2>5
<1>22. Recorded'
  <2>1. \A p \in Ops : Agrees(p)' /\ MadeBy(p)'
    BY <1>19, <1>20, <1>21
  <2> QED
    BY <2>1, <1>1, <1>3, <1>15, <1>16, <1>17, <1>18 DEF Recorded
<1> QED
  BY <1>1, <1>14, <1>22 DEF RecordInv

\* A list of all operations, each once.
LEMMA ListOfAll ==
  /\ SetToSeq(All) \in Seq(All) /\ IsInjective(SetToSeq(All))
  /\ \A o \in All : \E k \in DOMAIN SetToSeq(All) : SetToSeq(All)[k] = o
<1> DEFINE n == Cardinality(All)
           s == SetToSeq(All)
<1>1. IsFiniteSet(All)
  BY HistoryAssumption, FS_AddElement DEF All
<1>2. n \in Nat /\ ExistsBijection(1 .. n, All)
  BY <1>1, FS_CardinalityType
<1>3. \E f \in [1 .. n -> All] : IsInjective(f)
  BY <1>2 DEF ExistsBijection, Bijection, Injection
<1>4. s \in [1 .. n -> All] /\ IsInjective(s)
  BY <1>3 DEF SetToSeq
<1>5. IsFiniteSet(1 .. n) /\ Cardinality(1 .. n) = n
  BY <1>2, FS_Interval
<1> HIDE DEF s
<1>6. s \in Injection(1 .. n, All)
  BY <1>4 DEF Injection
<1>7. s \in Surjection(1 .. n, All)
  BY <1>1, <1>5, <1>6, FS_Injection
<1>8. \A o \in All : \E k \in DOMAIN s : s[k] = o
  BY <1>4, <1>7 DEF Surjection
<1>9. s \in Seq(All)
  BY <1>2, <1>4
<1> QED
  BY <1>4, <1>8, <1>9 DEF s

\* Every operation has a kind, whose statuses are those of the event types.
LEMMA KindsAreKnown ==
  ASSUME NEW o \in All
  PROVE  /\ KindOf(o) \in {"execution", "context", "wait", "step", "invoke", "callback"}
         /\ DOMAIN EventTypes[KindOf(o)] \subseteq Statuses
<1>1. KindOf(o) \in {"execution", "context", "wait", "step", "invoke", "callback"}
  BY HistoryAssumption DEF KindOf, All, Kinds
<1>2. /\ EventTypes["execution"] = ExecutionEvent /\ EventTypes["context"] = ContextEvent
      /\ EventTypes["wait"] = WaitEvent /\ EventTypes["step"] = StepEvent
      /\ EventTypes["invoke"] = ChainedInvokeEvent /\ EventTypes["callback"] = CallbackEvent
  BY DEF EventTypes
<1>3. /\ DOMAIN ExecutionEvent \subseteq Statuses /\ DOMAIN ContextEvent \subseteq Statuses
      /\ DOMAIN WaitEvent \subseteq Statuses /\ DOMAIN StepEvent \subseteq Statuses
      /\ DOMAIN ChainedInvokeEvent \subseteq Statuses /\ DOMAIN CallbackEvent \subseteq Statuses
  BY DEF Statuses, EndStatuses, ExecutionEvent, ContextEvent, WaitEvent, StepEvent,
    ChainedInvokeEvent, CallbackEvent
<1> QED
  BY <1>1, <1>2, <1>3

\* A launched execution, and a record set up by hand.
LEMMA InitialRecord ==
  ASSUME HistoryInit
  PROVE  RecordInv /\ reader = NotReading
<1>1. /\ clock = 0 /\ updates = <<>> /\ completions = <<>> /\ reader = NotReading
      /\ MaxTime \in Nat /\ NoTime = MaxTime + 1 /\ NoTime \in Times /\ 0 \in Times /\ 1 \in Times
      /\ 0 # NoTime
  BY HistoryAssumption DEF HistoryInit, NoTime, Times
<1>2. /\ updates \in Seq(UpdateRecord) /\ completions \in Seq(0 .. MaxTime) /\ clock \in 0 .. MaxTime
      /\ DOMAIN updates = {} /\ DOMAIN completions = {} /\ \A o : UpdatesOf(o) = {}
  BY <1>1 DEF UpdatesOf
<1>3. CASE /\ invocation = NoInvocation /\ order = <<"execution">>
           /\ ops = [o \in All |-> IF o = "execution" THEN Launched ELSE Absent]
  <2>1. /\ Launched.status = "STARTED" /\ Launched.start = 0 /\ Launched.end = NoTime
        /\ Launched \in OperationRecord /\ Absent \in OperationRecord
    <3> DEFINE r == Absent
               a == [r EXCEPT !.status = "STARTED"]
               b == [a EXCEPT !.start = 0]
    <3>1. "STARTED" \in Statuses /\ "absent" \in Statuses /\ 0 \in Nat
      BY DEF Statuses
    <3>2. r \in OperationRecord /\ r.end = NoTime
      BY <3>1, <1>1 DEF Absent, OperationRecord
    <3>3. Launched = b
      BY DEF Launched
    <3>4. r = [status |-> r.status, start |-> r.start, end |-> r.end, err |-> r.err, by |-> r.by]
      BY <3>2 DEF OperationRecord
    <3>5. r.end \in Times /\ r.err \in BOOLEAN /\ r.by \in Nat
      BY <3>2 DEF OperationRecord
    <3> HIDE DEF r
    <3>6. a = [status |-> "STARTED", start |-> r.start, end |-> r.end, err |-> r.err, by |-> r.by]
      BY <3>4
    <3> HIDE DEF a
    <3>7. b = [status |-> "STARTED", start |-> 0, end |-> r.end, err |-> r.err, by |-> r.by]
      BY <3>6
    <3> HIDE DEF b
    <3>8. b \in OperationRecord
      BY <3>1, <3>5, <3>7, <1>1 DEF OperationRecord
    <3> QED
      BY <3>2, <3>3, <3>7, <3>8 DEF r
  <2>2. /\ "execution" \in All /\ ops["execution"] = Launched /\ ops \in [All -> OperationRecord]
        /\ \A o \in Ops : ops[o] = Absent
    BY <1>3, <2>1, Names DEF All
  <2>3. /\ invocation = [phase |-> "idle", number |-> 0, end |-> NoTime]
        /\ invocation \in [phase : {"none", "idle", "running", "ending"}, number : Nat, end : Times]
    BY <1>1, <1>3 DEF NoInvocation
  <2>4. order \in Seq(All) /\ DOMAIN order = {1} /\ order[1] = "execution"
    BY <1>3, <2>2
  <2>5. HistoryTypes
    BY <1>2, <2>2, <2>3, <2>4 DEF HistoryTypes
  <2>6. NothingIsLater /\ TriesAlternate
    BY <1>2, <2>3 DEF NothingIsLater, TriesAlternate
  <2>7. OrderIsRight
    BY <1>2, <2>4, Names DEF OrderIsRight
  <2>8. ExecutionIsRight
    BY <2>1, <2>2 DEF ExecutionIsRight
  <2>9. \A o \in Ops : Agrees(o) /\ MadeBy(o)
    <3>1. \A o \in Ops : Agrees(o)
      BY <1>2, <2>2 DEF Agrees
    <3>2. invocation.number = 0 /\ invocation.phase = "idle" /\ Absent.by = 0
      BY <2>3 DEF Absent
    <3>3. \A o \in Ops : MadeBy(o)
      BY <2>2, <3>2 DEF MadeBy
    <3> QED
      BY <3>1, <3>3
  <2>10. Recorded
    BY <2>3, <2>6, <2>7, <2>8, <2>9 DEF Recorded
  <2> QED
    BY <1>1, <2>3, <2>5, <2>10 DEF RecordInv
<1>4. CASE /\ invocation = [NoInvocation EXCEPT !.phase = "none"] /\ order = SetToSeq(All)
           /\ ops \in [All -> UNION {SetUp(o) : o \in All}]
           /\ \A o \in All : ops[o] \in SetUp(o)
  <2>1. /\ invocation = [phase |-> "none", number |-> 0, end |-> NoTime]
        /\ invocation \in [phase : {"none", "idle", "running", "ending"}, number : Nat, end : Times]
    BY <1>1, <1>4 DEF NoInvocation
  <2>2. ASSUME NEW o \in All
        PROVE  ops[o] \in OperationRecord
    <3>1. ops[o] \in [status : DOMAIN EventTypes[KindOf(o)] \cup {"PENDING"}, start : {0, NoTime},
                      end : {1, NoTime}, err : BOOLEAN, by : {0}]
      BY <1>4 DEF SetUp
    <3>2. DOMAIN EventTypes[KindOf(o)] \cup {"PENDING"} \subseteq Statuses
      BY KindsAreKnown DEF Statuses
    <3> QED
      BY <3>1, <3>2, <1>1 DEF OperationRecord
  <2>3. ops \in [All -> OperationRecord]
    BY <1>4, <2>2
  <2>4. HistoryTypes
    BY <1>2, <1>4, <2>1, <2>3, ListOfAll DEF HistoryTypes
  <2>5. ByHand
    BY <1>1, <1>4, ListOfAll DEF ByHand, IsInjective
  <2> QED
    BY <1>1, <2>1, <2>4, <2>5 DEF RecordInv
<1> QED
  BY <1>3, <1>4 DEF HistoryInit

\* Every step keeps the record right.
LEMMA RecordStep ==
  ASSUME RecordInv, [HistoryNext]_historyVars
  PROVE  RecordInv'
<1>1. CASE Tick \/ BeginInvocation \/ EndInvocation \/ UNCHANGED historyVars
           \/ (\E backwards \in BOOLEAN : StartReading(backwards)) \/ ReadOn
  BY <1>1, TimeSteps
<1>2. CASE RecordCompletion
  BY <1>2, RecordCompletionStep
<1>3. CASE EndExecution
  BY <1>3, EndExecutionStep
<1>4. CASE \E o \in Ops : Update(o) \/ CompleteByItself(o)
  BY <1>4, UpdateStep, CompleteStep
<1> QED
  BY <1>1, <1>2, <1>3, <1>4 DEF HistoryNext

\* No step sends a try for a wait or a callback.
LEMMA UpdatesFitStep ==
  ASSUME RecordInv, UpdatesFit, [HistoryNext]_historyVars
  PROVE  UpdatesFit'
<1>1. CASE UNCHANGED updates
  BY <1>1 DEF UpdatesFit
<1>2. ASSUME NEW o \in Ops, Update(o)
      PROVE  UpdatesFit'
  <2>1. PICK act \in Actions(o), err \in BOOLEAN : Told(o, act, err)
    BY <1>2, UpdateIsTold
  <2>2. Recorded
    <3>1. invocation.phase \in {"running", "ending"}
      BY <1>2, UpdateIsTold
    <3> QED
      BY <3>1 DEF RecordInv
  <2>3. act # "START" => Kind[o] \in {"step", "context"}
    BY <2>2, ActionsFollow
  <2>4. \E u : updates' = Append(updates, u) /\ u.op = o /\ u.act = act
    BY <2>1 DEF Told
  <2>5. PICK u : updates' = Append(updates, u) /\ u.op = o /\ u.act = act
    BY <2>4
  <2>6. /\ DOMAIN updates' = DOMAIN updates \cup {Len(updates) + 1}
        /\ \A i \in DOMAIN updates : updates'[i] = updates[i]
        /\ updates'[Len(updates) + 1] = u
    <3>1. updates \in Seq(UpdateRecord)
      BY DEF RecordInv, HistoryTypes
    <3> QED
      BY <2>5, <3>1
  <2> QED
    BY <2>3, <2>5, <2>6 DEF UpdatesFit
<1> QED
  <2>1. Tick \/ BeginInvocation \/ EndInvocation \/ RecordCompletion \/ EndExecution \/ UNCHANGED historyVars
          => UNCHANGED updates
    BY DEF Tick, BeginInvocation, EndInvocation, RecordCompletion, EndExecution, historyVars
  <2>2. \A o \in Ops : CompleteByItself(o) => UNCHANGED updates
    BY Zenon DEF CompleteByItself
  <2>3. (\E backwards \in BOOLEAN : StartReading(backwards)) \/ ReadOn => UNCHANGED updates
    BY ReadingChangesNothing
  <2> QED
    BY <1>1, <1>2, <2>1, <2>2, <2>3, Zenon DEF HistoryNext
-----------------------------------------------------------------------------
\* The events of a record that an execution writes.

\* The service completed o by itself.
ByItself(o) == \E i \in DOMAIN updates : LastUpdate(o, i) /\ Completed(o, i)

\* An operation of a recorded execution is told by updates, and by its own end if it
\* completed by itself; the execution by its snapshot.
LEMMA EventsOfOrder ==
  ASSUME RecordInv, Recorded, NEW k \in DOMAIN order
  PROVE  /\ order[k] = "execution" => UpdatesOf(order[k]) = {} /\ ops[order[k]].status # "PENDING"
         /\ order[k] # "execution" =>
              /\ order[k] \in Ops /\ UpdatesOf(order[k]) # {} /\ updates # <<>>
              /\ EndedByItself(k) = IF ByItself(order[k]) THEN {EndOf(k, <<3, k, 0>>)} ELSE {}
<1> DEFINE o == order[k]
<1>1. o \in All
  BY TypesOfParts DEF RecordInv
<1>2. CASE o = "execution"
  <2>1. \A i \in DOMAIN updates : updates[i].op \in Ops
    BY TypesOfParts DEF RecordInv, UpdateRecord
  <2>2. UpdatesOf(o) = {}
    BY <2>1, <1>2, Names DEF UpdatesOf
  <2>3. ops[o].status # "PENDING"
    BY <1>2 DEF Recorded, ExecutionIsRight
  <2> QED
    BY <1>2, <2>2, <2>3
<1>3. CASE o # "execution"
  <2>1. o \in Ops /\ UpdatesOf(o) # {} /\ Agrees(o)
    BY <1>1, <1>3 DEF Recorded, OrderIsRight, All
  <2>2. updates # <<>>
    BY <2>1 DEF UpdatesOf
  <2>3. PICK i \in DOMAIN updates :
          /\ LastUpdate(o, i)
          /\ Running(o, i) \/ Waiting(o, i) \/ Concluded(o, i) \/ Completed(o, i)
    BY <2>1 DEF Agrees
  <2>4. \A j \in UpdatesOf(o) : (\A l \in UpdatesOf(o) : l <= j) => j = i
    <3>1. \A j \in UpdatesOf(o) : j \in Nat
      BY TypesOfParts DEF RecordInv, UpdatesOf
    <3> QED
      BY <2>3, <3>1 DEF LastUpdate
  <2> DEFINE Es == EndedEvent(o, <<3, k, 0>>)
  <2>5. EndedByItself(k) = IF updates[i].act \in {"SUCCEED", "FAIL"} THEN {} ELSE Es
    <3>1. (\E j \in UpdatesOf(o) : /\ \A l \in UpdatesOf(o) : l <= j
                                   /\ updates[j].act \in {"SUCCEED", "FAIL"})
            <=> updates[i].act \in {"SUCCEED", "FAIL"}
      BY <2>3, <2>4 DEF LastUpdate
    <3> QED
      BY <3>1 DEF EndedByItself
  <2>6. Es = IF ops[o].end # NoTime /\ ops[o].status \in EndStatuses
            THEN {EndOf(k, <<3, k, 0>>)} ELSE {}
    BY DEF EndedEvent, EndOf
  <2>7. ByItself(o) <=> Completed(o, i)
    BY <2>3, <2>4 DEF ByItself, LastUpdate
  <2> HIDE DEF Es
  <2>8. CASE Completed(o, i)
    <3>1. /\ updates[i].act = "START" /\ ops[o].end # NoTime
          /\ ops[o].status \in {"SUCCEEDED", "FAILED", "TIMED_OUT"}
      BY <2>8 DEF Completed
    <3>2. Es = {EndOf(k, <<3, k, 0>>)} /\ EndedByItself(k) = Es
      BY <2>5, <2>6, <3>1 DEF EndStatuses
    <3> QED
      BY <1>3, <2>1, <2>2, <2>7, <2>8, <3>2
  <2>9. CASE ~Completed(o, i)
    <3>1. \/ updates[i].act \in {"SUCCEED", "FAIL"}
          \/ ops[o].end = NoTime
      BY <2>3, <2>9 DEF Running, Waiting, Concluded
    <3>2. EndedByItself(k) = {}
      BY <2>5, <2>6, <3>1
    <3> QED
      BY <1>3, <2>1, <2>2, <2>7, <2>9, <3>2
  <2> QED
    BY <2>8, <2>9
<1> QED
  BY <1>2, <1>3

\* Where the events come from: the ends of the invocations, the updates, the execution and
\* what the service completed.
FromRecord(e) ==
  \/ \E n \in DOMAIN completions : e = InvocationCompleted(n)
  \/ \E i \in DOMAIN updates : e = UpdateEvent(i)
  \/ \E k \in DOMAIN order : order[k] = "execution" /\ e \in SnapshotEvents(k)
  \/ \E k \in DOMAIN order :
       order[k] \in Ops /\ ByItself(order[k]) /\ e = EndOf(k, <<3, k, 0>>)

\* So these are the events of a recorded execution.
LEMMA EventsOfRecord ==
  ASSUME RecordInv, Recorded, NEW e
  PROVE  e \in Events <=> FromRecord(e)
<1> DEFINE L == {LegacyEvents(k) : k \in DOMAIN order}
           U == {UpdateEvent(i) : i \in DOMAIN updates}
           B == {IF UpdatesOf(order[k]) = {} THEN SnapshotEvents(k) ELSE EndedByItself(k) :
                   k \in DOMAIN order}
           C == {InvocationCompleted(n) : n \in DOMAIN completions}
           Snap == \E k \in DOMAIN order : order[k] = "execution" /\ e \in SnapshotEvents(k)
           Own == \E k \in DOMAIN order :
                    order[k] \in Ops /\ ByItself(order[k]) /\ e = EndOf(k, <<3, k, 0>>)
<1>1. e \in Events <=> e \in C \/ e \in OperationEvents
  BY Zenon DEF Events
<1>2. OperationEvents = IF updates = <<>> THEN UNION L ELSE U \cup UNION B
  BY Zenon DEF OperationEvents
<1>3. e \in C <=> \E n \in DOMAIN completions : e = InvocationCompleted(n)
  OBVIOUS
<1>4. e \in U <=> \E i \in DOMAIN updates : e = UpdateEvent(i)
  OBVIOUS
<1>5. CASE updates = <<>>
  <2>1. \A k \in DOMAIN order : order[k] = "execution" /\ LegacyEvents(k) = SnapshotEvents(k)
    BY <1>5, EventsOfOrder DEF LegacyEvents
  <2>2. e \in UNION L <=> Snap
    <3>1. e \in UNION L <=> \E k \in DOMAIN order : e \in LegacyEvents(k)
      OBVIOUS
    <3> QED
      BY <2>1, <3>1
  <2>3. ~Own /\ U = {}
    <3>1. DOMAIN updates = {}
      BY <1>5
    <3>2. U = {}
      BY <3>1
    <3>3. ~Own
      BY <2>1, Names, Zenon
    <3> QED
      BY <3>2, <3>3
  <2> HIDE DEF L, U, B, C, Snap, Own
  <2>4. e \in OperationEvents <=> Snap
    BY <1>2, <1>5, <2>2
  <2> QED
    BY <1>1, <1>3, <1>4, <2>3, <2>4 DEF Snap, Own, FromRecord
<1>6. CASE updates # <<>>
  <2>1. ASSUME NEW k \in DOMAIN order
        PROVE  e \in (IF UpdatesOf(order[k]) = {} THEN SnapshotEvents(k) ELSE EndedByItself(k))
                 <=> \/ order[k] = "execution" /\ e \in SnapshotEvents(k)
                     \/ order[k] \in Ops /\ ByItself(order[k]) /\ e = EndOf(k, <<3, k, 0>>)
    <3>1. CASE order[k] = "execution"
      BY <3>1, EventsOfOrder, Names
    <3>2. CASE order[k] # "execution"
      BY <3>2, EventsOfOrder
    <3> QED
      BY <3>1, <3>2
  <2>2. e \in UNION B <=>
          \E k \in DOMAIN order :
            e \in (IF UpdatesOf(order[k]) = {} THEN SnapshotEvents(k) ELSE EndedByItself(k))
    OBVIOUS
  <2>3. e \in UNION B <=> Snap \/ Own
    BY <2>1, <2>2
  <2> HIDE DEF L, U, B, C, Snap, Own
  <2>4. e \in OperationEvents <=> e \in U \/ Snap \/ Own
    BY <1>2, <1>6, <2>3
  <2> QED
    BY <1>1, <1>3, <1>4, <2>4 DEF Snap, Own, FromRecord
<1> QED
  BY <1>5, <1>6


-----------------------------------------------------------------------------
\* Events are never taken back.

\* The same as a fact of a state,
LEMMA EventsNow == RecordInv /\ Recorded => \A e : e \in Events <=> FromRecord(e)
BY EventsOfRecord

\* and of the next one.
LEMMA EventsNext == (RecordInv /\ Recorded => \A e : e \in Events <=> FromRecord(e))'
BY EventsNow, PTL

\* The events can be sorted in a state,
LEMMA OrderedNow == HistoryTypes => Ordered(Events)
BY EventsAreOrdered

\* and in the next one.
LEMMA OrderedNext == (HistoryTypes => Ordered(Events))'
BY OrderedNow, PTL

\* The lists of the record only grow, and what ended by itself stays.
Grows ==
  /\ \A n \in DOMAIN completions : n \in DOMAIN completions' /\ completions'[n] = completions[n]
  /\ \A i \in DOMAIN updates : i \in DOMAIN updates' /\ updates'[i] = updates[i]
  /\ \A i \in DOMAIN updates' : (\E j \in DOMAIN updates : i <= j) => i \in DOMAIN updates
  /\ \A k \in DOMAIN order : k \in DOMAIN order' /\ order'[k] = order[k]
  /\ ops'["execution"].start = ops["execution"].start
  /\ ops["execution"].status # "STARTED" => ops'["execution"] = ops["execution"]
  /\ \A o \in Ops : ByItself(o) => ops'[o] = ops[o] /\ UpdatesOf(o)' = UpdatesOf(o)

\* An operation that completed by itself is not done anything to.
LEMMA NoMoreActions ==
  ASSUME RecordInv, Recorded, NEW o \in Ops, ByItself(o)
  PROVE  /\ Actions(o) = {} /\ ~CompleteByItself(o)
         /\ ops[o].status \in {"SUCCEEDED", "FAILED", "TIMED_OUT"} /\ ops[o].end # NoTime
<1>1. PICK i \in DOMAIN updates : Completed(o, i)
  BY DEF ByItself
<1>2. ops[o].status \in {"SUCCEEDED", "FAILED", "TIMED_OUT"} /\ ops[o].end # NoTime
  BY <1>1 DEF Completed
<1>3. Actions(o) = {}
  BY <1>2 DEF Actions
<1>4. ~CompleteByItself(o)
  <2>1. ops[o].status # "STARTED" /\ ops[o].status # "PENDING"
    BY <1>2
  <2> QED
    BY <2>1, Zenon DEF CompleteByItself
<1> QED
  BY <1>2, <1>3, <1>4

\* A step adds to the lists and leaves what ended.
LEMMA RecordGrows ==
  ASSUME RecordInv, Recorded, [HistoryNext]_historyVars
  PROVE  Grows
<1> USE DEF Grows
<1>1. HistoryTypes /\ \A i \in DOMAIN updates : i \in Nat
  BY TypesOfParts DEF RecordInv
<1>2. CASE UNCHANGED <<order, ops, updates, completions>>
  BY <1>2 DEF UpdatesOf
<1>3. CASE Tick \/ BeginInvocation \/ EndInvocation \/ UNCHANGED historyVars
           \/ (\E backwards \in BOOLEAN : StartReading(backwards)) \/ ReadOn
  <2>1. UNCHANGED <<order, ops, updates, completions>>
    BY <1>3, ReadingChangesNothing DEF Tick, BeginInvocation, EndInvocation, historyVars
  <2> QED
    BY <2>1, <1>2
<1>4. CASE RecordCompletion
  <2>1. completions' = Append(completions, invocation.end) /\ UNCHANGED <<order, ops, updates>>
    BY <1>4 DEF RecordCompletion
  <2>2. \A n \in DOMAIN completions : n \in DOMAIN completions' /\ completions'[n] = completions[n]
    <3>1. PICK x : x = invocation.end
      OBVIOUS
    <3>2. completions' = Append(completions, x) /\ DOMAIN completions = 1 .. Len(completions) /\ Len(completions) \in Nat
      BY <2>1, <3>1, <1>1, TypesOfParts
    <3> QED
      BY <3>2
  <2> QED
    BY <2>1, <2>2 DEF UpdatesOf
<1>5. CASE EndExecution
  <2>1. ops["execution"].status = "STARTED" /\ UNCHANGED <<order, updates, completions>>
    BY <1>5 DEF EndExecution, IsOpen
  <2>2. PICK status \in {"SUCCEEDED", "FAILED", "TIMED_OUT", "STOPPED"} :
          ops' = [ops EXCEPT !["execution"].status = status, !["execution"].end = clock,
                             !["execution"].err = status # "SUCCEEDED"]
    BY <1>5, Zenon DEF EndExecution
  <2> DEFINE err == status # "SUCCEEDED"
  <2>3. Ends(ops, ops', "execution", status, clock, err)
    BY <2>2 DEF Ends
  <2> HIDE DEF err
  <2>4. /\ ops'["execution"] = [status |-> status, start |-> ops["execution"].start, end |-> clock,
                                err |-> err, by |-> ops["execution"].by]
        /\ \A p \in All : p # "execution" => ops'[p] = ops[p]
    <3>1. ops \in [All -> OperationRecord] /\ "execution" \in All
      BY <1>1 DEF HistoryTypes, All
    <3> QED
      BY <2>3, <3>1, EndOfOperation
  <2>5. \A o \in Ops : ops'[o] = ops[o]
    BY <2>4, Names DEF All
  <2>6. ops'["execution"].start = ops["execution"].start
    BY <2>4
  <2> QED
    BY <2>1, <2>5, <2>6 DEF UpdatesOf
<1>6. ASSUME NEW o \in Ops, CompleteByItself(o)
      PROVE  Grows
  <2>1. UNCHANGED <<order, updates, completions>> /\ ~ByItself(o)
    BY <1>6, NoMoreActions, Zenon DEF CompleteByItself
  <2>2. \A p \in All : p # o => ops'[p] = ops[p]
    <3>1. \E r : ops' = [ops EXCEPT ![o] = r]
      BY <1>6, Zenon DEF CompleteByItself
    <3> QED
      BY <3>1, <1>1 DEF HistoryTypes
  <2>3. \A p \in Ops : ByItself(p) => ops'[p] = ops[p]
    BY <2>1, <2>2 DEF All
  <2>4. ops'["execution"] = ops["execution"]
    BY <2>2, Names DEF All
  <2> QED
    BY <2>1, <2>3, <2>4 DEF UpdatesOf
<1>7. ASSUME NEW o \in Ops, Update(o)
      PROVE  Grows
  <2>1. /\ order' = (IF ops[o].status = "absent" THEN Append(order, o) ELSE order)
        /\ UNCHANGED <<clock, completions, invocation>>
    BY <1>7, UpdateIsTold
  <2>2. PICK act \in Actions(o), err \in BOOLEAN : Told(o, act, err)
    BY <1>7, UpdateIsTold
  <2>3. ~ByItself(o)
    BY <2>2, NoMoreActions
  <2>4. \E u : updates' = Append(updates, u) /\ u.op = o
    BY <2>2 DEF Told
  <2>5. \A p \in All : p # o => ops'[p] = ops[p]
    <3>1. \E r : ops' = [ops EXCEPT ![o] = r]
      BY <2>2, Zenon DEF Told
    <3> QED
      BY <3>1, <1>1 DEF HistoryTypes
  <2>6. \A p \in Ops : ByItself(p) => ops'[p] = ops[p] /\ p # o
    BY <2>3, <2>5 DEF All
  <2>7. ops'["execution"] = ops["execution"]
    BY <2>5, Names DEF All
  <2>8. \A k \in DOMAIN order : k \in DOMAIN order' /\ order'[k] = order[k]
    <3>1. order \in Seq(All) /\ o \in All
      BY <1>1 DEF HistoryTypes, All
    <3> QED
      BY <3>1, <2>1
  <2>9. PICK u : updates' = Append(updates, u) /\ u.op = o
    BY <2>4
  <2>10. /\ DOMAIN updates = 1 .. Len(updates) /\ Len(updates) \in Nat
         /\ DOMAIN updates' = 1 .. (Len(updates) + 1)
         /\ \A i \in DOMAIN updates : updates'[i] = updates[i]
         /\ updates'[Len(updates) + 1] = u
    <3>1. updates \in Seq(UpdateRecord)
      BY <1>1 DEF HistoryTypes
    <3> QED
      BY <3>1, <2>9
  <2>11. \A p : p # o => UpdatesOf(p)' = UpdatesOf(p)
    BY <2>9, <2>10 DEF UpdatesOf
  <2>12. /\ \A i \in DOMAIN updates : i \in DOMAIN updates' /\ updates'[i] = updates[i]
         /\ \A i \in DOMAIN updates' : (\E j \in DOMAIN updates : i <= j) => i \in DOMAIN updates
    BY <2>10
  <2> QED
    BY <2>1, <2>6, <2>7, <2>8, <2>11, <2>12
<1> QED
  BY <1>3, <1>4, <1>5, <1>6, <1>7, Zenon DEF HistoryNext

\* The event of an update, without CASE.
StatusOf(u) ==
  IF u.act = "SUCCEED" THEN "SUCCEEDED" ELSE IF u.act = "FAIL" THEN "FAILED"
  ELSE IF u.err THEN "FAILED" ELSE "SUCCEEDED"

TryOf(i) == IF updates[i].act = "SUCCEED" \/ KindOf(updates[i].op) # "step" THEN 0 ELSE AttemptAt(i)

EventMade(u, attempt, i) ==
  IF u.act # "START"
  THEN EventTerminated(u.op, StatusOf(u), u.ts, u.err, attempt, <<2, i, 0>>)
  ELSE IF KindOf(u.op) = "invoke" THEN EventPending(u.op, u.ts, <<2, i, 0>>)
  ELSE EventStarted(u.op, u.ts, <<2, i, 0>>)

\* The event of an update depends on the update and on its number of tries,
LEMMA UpdateEventIs ==
  HistoryTypes =>
    \A i \in DOMAIN updates : \A u, attempt :
      u = updates[i] /\ attempt = TryOf(i) => UpdateEvent(i) = EventMade(u, attempt, i)
<1>1. SUFFICES ASSUME HistoryTypes, NEW i \in DOMAIN updates, NEW u, NEW attempt,
                      u = updates[i], attempt = TryOf(i)
               PROVE  UpdateEvent(i) = EventMade(u, attempt, i)
  OBVIOUS
<1>2. updates[i] \in UpdateRecord
  BY <1>1, TypesOfParts
<1>3. u.act \in {"START", "RETRY", "SUCCEED", "FAIL"} /\ u.err \in BOOLEAN
  BY <1>1, <1>2 DEF UpdateRecord
<1>4. CASE u.act = "START"
  BY <1>1, <1>4, Zenon DEF UpdateEvent, EventMade
<1>5. CASE u.act # "START"
  <2> DEFINE status == CASE updates[i].act = "SUCCEED" -> "SUCCEEDED"
                         [] updates[i].act = "FAIL" -> "FAILED"
                         [] updates[i].act = "RETRY" -> IF updates[i].err THEN "FAILED" ELSE "SUCCEEDED"
  <2>1. UpdateEvent(i) = EventTerminated(updates[i].op, status, updates[i].ts, updates[i].err,
                                         TryOf(i), <<2, i, 0>>)
    BY <1>1, <1>5, Zenon DEF UpdateEvent, TryOf
  <2>2. status = StatusOf(u)
    BY <1>1, <1>3, <1>5 DEF StatusOf
  <2> HIDE DEF status
  <2> QED
    BY <1>1, <1>5, <2>1, <2>2, Zenon DEF EventMade
<1> QED
  BY <1>4, <1>5

\* in the next state too.
LEMMA UpdateEventWillBe ==
  (HistoryTypes =>
    \A i \in DOMAIN updates : \A u, attempt :
      u = updates[i] /\ attempt = TryOf(i) => UpdateEvent(i) = EventMade(u, attempt, i))'
BY UpdateEventIs, PTL

\* The same record has the same events.
LEMMA EventsUnchanged ==
  ASSUME HistoryTypes, HistoryTypes', UNCHANGED <<order, ops, updates, completions>>
  PROVE  Events' = Events
<1>1. \A o : UpdatesOf(o)' = UpdatesOf(o)
  BY DEF UpdatesOf
<1>2. \A i : AttemptAt(i)' = AttemptAt(i)
  BY <1>1, Zenon DEF AttemptAt
<1>3. \A i \in DOMAIN updates : UpdateEvent(i)' = UpdateEvent(i)
  <2>1. \A i : TryOf(i)' = TryOf(i)
    BY <1>2, Zenon DEF TryOf
  <2> QED
    BY <2>1, UpdateEventIs, UpdateEventWillBe
<1>4. \A k, place : /\ StartedEvent(order[k], place)' = StartedEvent(order[k], place)
                    /\ EndedEvent(order[k], place)' = EndedEvent(order[k], place)
  BY Zenon DEF StartedEvent, EndedEvent, EventStarted, EventTerminated
<1>5. \A k : SnapshotEvents(k)' = SnapshotEvents(k)
  BY <1>4, Zenon DEF SnapshotEvents
<1>6. \A k : LegacyEvents(k)' = LegacyEvents(k)
  BY <1>5, Zenon DEF LegacyEvents, EventPending
<1>7. \A k : EndedByItself(k)' = EndedByItself(k)
  BY <1>1, <1>4, Zenon DEF EndedByItself
<1>8. OperationEvents' = OperationEvents
  <2> DEFINE U == {UpdateEvent(i) : i \in DOMAIN updates}
  <2>1. U' = U
    BY <1>3
  <2>2. UNION {LegacyEvents(k) : k \in DOMAIN order}' = UNION {LegacyEvents(k) : k \in DOMAIN order}
    BY <1>6, Zenon
  <2>3. \A k : (IF UpdatesOf(order[k]) = {} THEN SnapshotEvents(k) ELSE EndedByItself(k))'
              = IF UpdatesOf(order[k]) = {} THEN SnapshotEvents(k) ELSE EndedByItself(k)
    BY <1>1, <1>5, <1>7, Zenon
  <2> QED
    BY <2>1, <2>2, <2>3, Zenon DEF OperationEvents
<1>9. \A n : InvocationCompleted(n)' = InvocationCompleted(n)
  BY Zenon DEF InvocationCompleted
<1> QED
  BY <1>8, <1>9, Zenon DEF Events

\* A record set up by hand stays one.
LEMMA PhasesStay ==
  ASSUME RecordInv, [HistoryNext]_historyVars
  PROVE  invocation'.phase = "none" <=> invocation.phase = "none"
<1>0. invocation \in [phase : {"none", "idle", "running", "ending"}, number : Nat, end : Times]
  BY DEF RecordInv, HistoryTypes
<1>1. CASE BeginInvocation \/ EndInvocation \/ RecordCompletion
  <2>1. invocation.phase \in {"idle", "running", "ending"}
    BY <1>1 DEF BeginInvocation, EndInvocation, RecordCompletion
  <2>2. CASE BeginInvocation
    BY <1>0, <2>1, <2>2 DEF BeginInvocation
  <2>3. CASE EndInvocation
    BY <1>0, <2>1, <2>3 DEF EndInvocation
  <2>4. CASE RecordCompletion
    BY <1>0, <2>1, <2>4 DEF RecordCompletion
  <2> QED
    BY <1>1, <2>2, <2>3, <2>4
<1>2. CASE UNCHANGED invocation
  BY <1>2
<1> QED
  <2>1. \A o \in Ops : Update(o) \/ CompleteByItself(o) => UNCHANGED invocation
    BY Zenon DEF Update, CompleteByItself
  <2>2. Tick \/ EndExecution \/ UNCHANGED historyVars => UNCHANGED invocation
    BY DEF Tick, EndExecution, historyVars
  <2> QED
    BY <1>1, <1>2, <2>1, <2>2, ReadingChangesNothing, Zenon DEF HistoryNext

\* The event of an update is the same with more updates.
LEMMA UpdateEventStays ==
  ASSUME Grows, HistoryTypes, HistoryTypes', NEW i \in DOMAIN updates
  PROVE  UpdateEvent(i)' = UpdateEvent(i)
<1>1. updates'[i] = updates[i] /\ i \in Nat
  BY TypesOfParts DEF Grows
<1>2. AttemptAt(i)' = AttemptAt(i)
  <2> DEFINE S == {j \in UpdatesOf(updates[i].op) : j <= i /\ updates[j].act = "START"}
             T == {j \in DOMAIN updates : updates[j].op = updates[i].op /\ j <= i /\ updates[j].act = "START"}
             T2 == {j \in DOMAIN updates' : updates'[j].op = updates'[i].op /\ j <= i /\ updates'[j].act = "START"}
             S2 == {j \in UpdatesOf(updates[i].op)' : j <= i /\ updates'[j].act = "START"}
  <2>1. S = T /\ S2 = T2
    BY <1>1 DEF UpdatesOf
  <2>2. T = T2
    BY <1>1 DEF Grows
  <2>3. S2 = S
    BY <2>1, <2>2
  <2>4. AttemptAt(i) = IF S = {} THEN 1 ELSE Cardinality(S)
    BY Zenon DEF AttemptAt
  <2>5. AttemptAt(i)' = IF S2 = {} THEN 1 ELSE Cardinality(S2)
    BY <1>1, Zenon DEF AttemptAt
  <2> HIDE DEF S, T, S2, T2
  <2> QED
    BY <2>3, <2>4, <2>5, Zenon
<1>3. TryOf(i)' = TryOf(i)
  BY <1>1, <1>2, Zenon DEF TryOf
<1>4. i \in DOMAIN updates'
  BY DEF Grows
<1> QED
  BY <1>1, <1>3, <1>4, UpdateEventIs, UpdateEventWillBe

\* The events of the execution's own record stay.
LEMMA SnapshotStays ==
  ASSUME Grows, Recorded, NEW k \in DOMAIN order, order[k] = "execution"
  PROVE  SnapshotEvents(k) \subseteq SnapshotEvents(k)'
<1>1. order'[k] = "execution" /\ ops'["execution"].start = ops["execution"].start
  BY DEF Grows
<1>2. StartedEvent(order[k], <<1, k, 1>>)' = StartedEvent(order[k], <<1, k, 1>>)
  BY <1>1, Zenon DEF StartedEvent, EventStarted
<1>3. EndedEvent(order[k], <<1, k, 2>>) \subseteq EndedEvent(order[k], <<1, k, 2>>)'
  <2>1. CASE ops["execution"].status = "STARTED"
    <3>1. EndedEvent(order[k], <<1, k, 2>>) = {}
      BY <2>1 DEF EndedEvent, EndStatuses
    <3> QED
      BY <3>1
  <2>2. CASE ops["execution"].status # "STARTED"
    <3>1. ops'["execution"] = ops["execution"]
      BY <2>2 DEF Grows
    <3>2. EndedEvent(order[k], <<1, k, 2>>)' = EndedEvent(order[k], <<1, k, 2>>)
      BY <3>1, <1>1, Zenon DEF EndedEvent, EventTerminated
    <3> QED
      BY <3>2
  <2> QED
    BY <2>1, <2>2
<1> QED
  BY <1>2, <1>3 DEF SnapshotEvents

\* No step takes an event away.
LEMMA EventsGrow ==
  ASSUME RecordInv, [HistoryNext]_historyVars
  PROVE  Events \subseteq Events'
<1>1. RecordInv'
  BY RecordStep
<1>2. CASE invocation.phase = "none"
  <2>1. UNCHANGED <<order, ops, updates, completions>>
    <3>1. ~BeginInvocation /\ ~RecordCompletion /\ ~EndExecution
      BY <1>2 DEF BeginInvocation, RecordCompletion, EndExecution
    <3>2. \A o \in Ops : ~Update(o) /\ ~CompleteByItself(o)
      BY <1>2, Zenon DEF Update, CompleteByItself
    <3>3. Tick \/ EndInvocation \/ UNCHANGED historyVars
          \/ (\E backwards \in BOOLEAN : StartReading(backwards)) \/ ReadOn
      BY <3>1, <3>2, Zenon DEF HistoryNext
    <3> QED
      BY <3>3, ReadingChangesNothing DEF Tick, EndInvocation, historyVars
  <2>2. Events' = Events
    BY <2>1, <1>1, EventsUnchanged DEF RecordInv
  <2> QED
    BY <2>2
<1>3. CASE invocation.phase # "none"
  <2>1. Recorded /\ Grows
    BY <1>3, RecordGrows DEF RecordInv
  <2>2. Recorded'
    <3>1. invocation'.phase # "none"
      BY <1>3, PhasesStay
    <3> QED
      BY <3>1, <1>1 DEF RecordInv
  <2>3. ASSUME NEW n \in DOMAIN completions
        PROVE  n \in DOMAIN completions' /\ InvocationCompleted(n)' = InvocationCompleted(n)
    BY <2>1 DEF Grows, InvocationCompleted
  <2>4. ASSUME NEW i \in DOMAIN updates
        PROVE  i \in DOMAIN updates' /\ UpdateEvent(i)' = UpdateEvent(i)
    BY <2>1, <1>1, UpdateEventStays DEF Grows, RecordInv
  <2>5. ASSUME NEW k \in DOMAIN order, order[k] = "execution"
        PROVE  /\ k \in DOMAIN order' /\ order'[k] = "execution"
               /\ SnapshotEvents(k) \subseteq SnapshotEvents(k)'
    BY <2>1, <2>5, SnapshotStays DEF Grows
  <2>6. ASSUME NEW k \in DOMAIN order, order[k] \in Ops, ByItself(order[k])
        PROVE  /\ k \in DOMAIN order' /\ order'[k] \in Ops /\ ByItself(order[k])'
               /\ EndOf(k, <<3, k, 0>>)' = EndOf(k, <<3, k, 0>>)
    <3>1. PICK o \in Ops : o = order[k]
      BY <2>6
    <3>2. k \in DOMAIN order' /\ order'[k] = order[k]
      BY <2>1 DEF Grows
    <3>3. ops'[o] = ops[o] /\ UpdatesOf(o)' = UpdatesOf(o)
      BY <2>1, <2>6, <3>1 DEF Grows
    <3>4. ByItself(o)'
      <4>1. PICK i \in DOMAIN updates : LastUpdate(o, i) /\ Completed(o, i)
        BY <2>6, <3>1 DEF ByItself
      <4>2. i \in DOMAIN updates' /\ updates'[i] = updates[i]
        BY <2>1 DEF Grows
      <4>3. LastUpdate(o, i)'
        BY <4>1, <3>3 DEF LastUpdate
      <4>4. Completed(o, i)'
        BY <4>1, <4>2, <3>3 DEF Completed
      <4> QED
        BY <4>2, <4>3, <4>4 DEF ByItself
    <3>5. EndOf(k, <<3, k, 0>>)' = EndOf(k, <<3, k, 0>>)
      BY <3>1, <3>2, <3>3, Zenon DEF EndOf, EventTerminated, Event
    <3>6. order'[k] = o /\ ByItself(order[k])'
      BY <3>1, <3>2, <3>4
    <3> QED
      BY <3>2, <3>5, <3>6
  <2>7. \A e : FromRecord(e) => FromRecord(e)'
    <3>1. SUFFICES ASSUME NEW e, FromRecord(e)
                   PROVE  FromRecord(e)'
      OBVIOUS
    <3>2. CASE \E n \in DOMAIN completions : e = InvocationCompleted(n)
      BY <3>2, <2>3 DEF FromRecord
    <3>3. CASE \E i \in DOMAIN updates : e = UpdateEvent(i)
      BY <3>3, <2>4 DEF FromRecord
    <3>4. CASE \E k \in DOMAIN order : order[k] = "execution" /\ e \in SnapshotEvents(k)
      BY <3>4, <2>5 DEF FromRecord
    <3>5. CASE \E k \in DOMAIN order :
                 order[k] \in Ops /\ ByItself(order[k]) /\ e = EndOf(k, <<3, k, 0>>)
      BY <3>5, <2>6 DEF FromRecord
    <3> QED
      BY <3>1, <3>2, <3>3, <3>4, <3>5 DEF FromRecord
  <2>8. \A e : e \in Events <=> FromRecord(e)
    BY <2>1, EventsNow
  <2>9. \A e : e \in Events' <=> FromRecord(e)'
    BY <1>1, <2>2, EventsNext
  <2> QED
    BY <2>7, <2>8, <2>9
<1> QED
  BY <1>2, <1>3

-----------------------------------------------------------------------------
\* The inductive invariant, and the pages.

\* TakeIsSafe as a fact of a state.
LEMMA SafeReader ==
  HistoryTypes =>
    \A r, marker :
      Reads(Events, r, marker) /\ Events # {} =>
        LET next == Take(r, marker)
        IN /\ next.misled = FALSE
           /\ next.on => next.marker # 0 /\ Reads(Events, next, next.marker)
BY TakeIsSafe

\* A client that reads on takes the next page of the events as they are.
LEMMA ReaderStep ==
  ASSUME RecordInv, ReaderInv, [HistoryNext]_historyVars
  PROVE  ReaderInv'
<1>1. /\ RecordInv' /\ HistoryTypes /\ HistoryTypes' /\ Events \subseteq Events'
      /\ Ordered(Events) /\ Ordered(Events')
  <2>1. RecordInv' /\ Events \subseteq Events'
    BY RecordStep, EventsGrow
  <2>2. HistoryTypes /\ HistoryTypes'
    BY <2>1 DEF RecordInv
  <2> QED
    BY <2>1, <2>2, OrderedNow, OrderedNext
<1>2. IsFiniteSet(Events) /\ Cardinality(Events) \in Nat
  BY <1>1, FS_CardinalityType DEF Ordered
<1>3. CASE UNCHANGED reader
  <2>1. PICK r : r = reader /\ r = reader'
    BY <1>3
  <2>2. r.on => r.marker # 0 /\ Reads(Events, r, r.marker)
    BY <2>1 DEF ReaderInv
  <2>3. r.on => Reads(Events', r, r.marker)
    BY <1>1, <2>2, ReadsOfMore
  <2>4. r.misled = FALSE
    BY <2>1 DEF ReaderInv
  <2> QED
    BY <2>1, <2>2, <2>3, <2>4 DEF ReaderInv
<1>4. ASSUME NEW backwards \in BOOLEAN, StartReading(backwards)
      PROVE  ReaderInv'
  <2> DEFINE r == [NotReading EXCEPT !.backwards = backwards, !.left = IF backwards THEN {} ELSE Events]
  <2>1. Events # {} /\ reader' = Take(r, 0) /\ UNCHANGED <<clock, order, ops, updates, completions, invocation>>
    BY <1>4, Zenon DEF StartReading
  <2>2. /\ r.misled = FALSE /\ r.backwards = backwards /\ r.got = {}
        /\ r.left = IF backwards THEN {} ELSE Events
    BY DEF NotReading
  <2> HIDE DEF r
  <2>3. Reads(Events, r, 0)
    <3>1. 0 \in 0 .. Cardinality(Events)
      BY <1>2
    <3>2. \A e \in r.left : e \in Events /\ 0 <= Position(Events, e)
      <4>1. \A e \in Events : Position(Events, e) \in 1 .. Cardinality(Events)
        BY <1>1, PositionFacts
      <4> QED
        BY <1>2, <2>2, <4>1
    <3> QED
      BY <2>2, <3>1, <3>2 DEF Reads
  <2>4. PICK next : next = Take(r, 0)
    OBVIOUS
  <2>5. next.misled = FALSE /\ (next.on => next.marker # 0 /\ Reads(Events, next, next.marker))
    BY <1>1, <2>1, <2>3, <2>4, SafeReader
  <2>6. Events' = Events /\ reader' = next
    BY <1>1, <2>1, <2>4, EventsUnchanged
  <2> QED
    BY <2>5, <2>6 DEF ReaderInv
<1>5. CASE ReadOn
  <2>1. /\ reader.on /\ reader' = Take(reader, reader.marker)
        /\ UNCHANGED <<clock, order, ops, updates, completions, invocation>>
    BY <1>5 DEF ReadOn
  <2>2. reader.marker # 0 /\ Reads(Events, reader, reader.marker)
    BY <2>1 DEF ReaderInv
  <2>3. Events # {}
    BY <1>2, <2>2, FS_EmptySet DEF Reads
  <2>4. PICK next : next = Take(reader, reader.marker)
    OBVIOUS
  <2>5. next.misled = FALSE /\ (next.on => next.marker # 0 /\ Reads(Events, next, next.marker))
    BY <1>1, <2>2, <2>3, <2>4, SafeReader
  <2>6. Events' = Events /\ reader' = next
    BY <1>1, <2>1, <2>4, EventsUnchanged
  <2> QED
    BY <2>5, <2>6 DEF ReaderInv
<1> QED
  <2>1. Tick \/ BeginInvocation \/ EndInvocation \/ RecordCompletion \/ EndExecution => UNCHANGED reader
    BY DEF Tick, BeginInvocation, EndInvocation, RecordCompletion, EndExecution
  <2>2. \A o \in Ops : Update(o) \/ CompleteByItself(o) => UNCHANGED reader
    BY Zenon DEF Update, CompleteByItself
  <2>3. UNCHANGED historyVars => UNCHANGED reader
    BY DEF historyVars
  <2> QED
    BY <1>3, <1>4, <1>5, <2>1, <2>2, <2>3, Zenon DEF HistoryNext

\* The inductive invariant of the history: the record agrees with its updates, whatever the
\* execution, the service and its clock do at the same time, and what a reader still expects
\* lies above its marker (Execution, the operation processors, get_execution_history).
THEOREM HistoryInvHolds == HistorySpec => []HistoryInv
<1>1. HistoryInit => HistoryInv
  <2>1. SUFFICES ASSUME HistoryInit
                 PROVE  HistoryInv
    OBVIOUS
  <2>2. DOMAIN updates = {}
    BY <2>1 DEF HistoryInit
  <2>3. UpdatesFit
    BY <2>2 DEF UpdatesFit
  <2> QED
    BY <2>1, <2>3, InitialRecord DEF HistoryInv, ReaderInv, NotReading
<1>2. HistoryInv /\ [HistoryNext]_historyVars => HistoryInv'
  BY RecordStep, UpdatesFitStep, ReaderStep DEF HistoryInv
<1> QED
  BY <1>1, <1>2, PTL DEF HistorySpec

\* For any size of the pages and however the history grows between two of them, forwards
\* none of the events that were there is missed and backwards none is read twice: an event
\* that is recorded late moves the others up, never down (get_execution_history).
THEOREM PagesAreAlwaysSafe == HistorySpec => []PagesAreSafe
<1>1. HistoryInv => PagesAreSafe
  BY DEF HistoryInv, ReaderInv, PagesAreSafe
<1> QED
  BY <1>1, HistoryInvHolds, PTL

\* What was told once is told ever after: the history is derived from the record each time,
\* and no step makes an event disappear or say something else.
THEOREM EventsAreKept == HistorySpec => [][Events \subseteq Events']_historyVars
<1>1. HistoryInv /\ [HistoryNext]_historyVars => Events \subseteq Events'
  BY EventsGrow DEF HistoryInv
<1> QED
  BY <1>1, HistoryInvHolds, PTL DEF HistorySpec

-----------------------------------------------------------------------------
\* The callback to answer.

\* A set of numbers up to n has a greatest,
LEMMA SomeIsLast ==
  ASSUME NEW n \in Nat, NEW S \in SUBSET (1 .. n), S # {}
  PROVE  \E m \in S : \A i \in S : i <= m
<1> DEFINE T == {m \in Nat : \A i \in S : i <= m}
<1>1. n \in T
  OBVIOUS
<1>2. PICK m \in T : \A k \in T : m <= k
  <2>1. T \in SUBSET Nat /\ T # {}
    BY <1>1
  <2> HIDE DEF T
  <2> QED
    BY <2>1, SomeIsFirst
<1>3. m \in Nat /\ \A i \in S : i <= m
  OBVIOUS
<1>4. m \in S
  <2>1. SUFFICES ASSUME m \notin S
                 PROVE  FALSE
    OBVIOUS
  <2>2. \A i \in S : i <= m - 1 /\ i \in Nat /\ 1 <= i
    BY <1>3, <2>1
  <2>3. m - 1 \in Nat
    <3>1. PICK i \in S : TRUE
      OBVIOUS
    <3>2. i <= m - 1 /\ i \in Nat /\ 1 <= i
      BY <2>2
    <3> QED
      BY <1>3, <3>2
  <2>4. m - 1 \in T
    BY <2>2, <2>3
  <2> QED
    BY <1>2, <1>3, <2>4
<1> QED
  BY <1>3, <1>4

\* which is its Max, and its least is its Min.
LEMMA FirstAndLast ==
  ASSUME NEW n \in Nat, NEW S \in SUBSET (1 .. n), S # {}
  PROVE  /\ Min(S) \in S /\ \A i \in S : Min(S) <= i
         /\ Max(S) \in S /\ \A i \in S : i <= Max(S)
<1>1. \E m \in S : \A i \in S : m <= i
  <2>1. S \in SUBSET Nat
    OBVIOUS
  <2> QED
    BY <2>1, SomeIsFirst
<1>2. \E m \in S : \A i \in S : m >= i
  <2>1. PICK m \in S : \A i \in S : i <= m
    BY SomeIsLast
  <2>2. m \in Nat /\ \A i \in S : i \in Nat
    OBVIOUS
  <2> QED
    BY <2>1, <2>2
<1>3. Min(S) \in S /\ \A i \in S : Min(S) <= i
  BY <1>1, Zenon DEF Min
<1>4. Max(S) \in S /\ \A i \in S : Max(S) >= i
  BY <1>2, Zenon DEF Max
<1>5. \A i \in S : i <= Max(S)
  <2>1. PICK m \in S : m = Max(S)
    BY <1>4
  <2>2. m \in Nat /\ \A i \in S : i \in Nat /\ m >= i
    BY <1>4, <2>1
  <2>3. \A i \in S : i <= m
    BY <2>2
  <2> QED
    BY <2>1, <2>3
<1> QED
  BY <1>3, <1>4, <1>5

\* The callback that is given was started, and an invocation ended later in the list.
LEMMA CallbackWasStarted ==
  ASSUME NEW events, NEW n \in Nat, DOMAIN events = 1 .. n, Len(events) = n, NEW name,
         CallbackFrom(events, name) # "none"
  PROVE  \E i, j \in 1 .. n :
           /\ i < j /\ events[i].kind = "callback" /\ events[j].kind = "invocation"
           /\ events[i].op = CallbackFrom(events, name)
<1> DEFINE completed == {i \in DOMAIN events : events[i].kind = "callback" /\ events[i].what # "Started"}
           started == {i \in DOMAIN events : events[i].kind = "callback" /\ events[i].what = "Started"}
           named == {i \in started : events[i].op = name}
           active == {i \in started : i \notin completed /\ IsReady(events, i)}
<1>1. CallbackFrom(events, name) =
        IF name # "none"
        THEN IF named = {} \/ ~IsReady(events, Min(named)) THEN "none" ELSE events[Min(named)].op
        ELSE IF active = {} THEN "none" ELSE events[Max(active)].op
  BY Zenon DEF CallbackFrom
<1>2. /\ started \in SUBSET (1 .. n) /\ named \in SUBSET (1 .. n) /\ active \in SUBSET (1 .. n)
      /\ \A i \in started : events[i].kind = "callback"
      /\ named \subseteq started /\ active \subseteq started
      /\ \A i \in active : IsReady(events, i)
  OBVIOUS
<1> HIDE DEF completed, started, named, active
<1>3. \E i \in started : IsReady(events, i) /\ events[i].op = CallbackFrom(events, name)
  <2>1. CASE name # "none"
    <3>1. named # {} /\ IsReady(events, Min(named)) /\ CallbackFrom(events, name) = events[Min(named)].op
      BY <1>1, <2>1
    <3>2. Min(named) \in named
      BY <1>2, <3>1, FirstAndLast
    <3> QED
      BY <1>2, <3>1, <3>2
  <2>2. CASE name = "none"
    <3>1. active # {} /\ CallbackFrom(events, name) = events[Max(active)].op
      BY <1>1, <2>2
    <3>2. Max(active) \in active
      BY <1>2, <3>1, FirstAndLast
    <3> QED
      BY <1>2, <3>1, <3>2
  <2> QED
    BY <2>1, <2>2
<1>4. PICK i \in started : IsReady(events, i) /\ events[i].op = CallbackFrom(events, name)
  BY <1>3
<1>5. PICK j \in (i + 1) .. n : events[j].kind = "invocation"
  BY <1>4 DEF IsReady
<1>6. i \in 1 .. n /\ j \in 1 .. n /\ i < j
  BY <1>2, <1>5
<1> QED
  BY <1>2, <1>4, <1>5, <1>6

\* What the events of a record say, by where they come from.
LEMMA WhoseEvents ==
  ASSUME RecordInv, Recorded, NEW e \in Events
  PROVE  \/ \E n \in DOMAIN completions :
              e.kind = "invocation" /\ e.op = "none" /\ e.ts = completions[n] /\ e.place = <<0, n, 0>>
         \/ \E i \in DOMAIN updates : \E o \in Ops :
              /\ e = UpdateEvent(i) /\ updates[i].op = o
              /\ e.kind = KindOf(o) /\ e.op = o /\ e.ts = updates[i].ts /\ e.place = <<2, i, 0>>
         \/ \E k \in DOMAIN order :
              /\ order[k] = "execution" /\ e \in SnapshotEvents(k)
              /\ e.kind = "execution" /\ e.op = "execution"
         \/ \E k \in DOMAIN order : \E o \in Ops :
              /\ order[k] = o /\ ByItself(o) /\ e = EndOf(k, <<3, k, 0>>)
              /\ e.kind = KindOf(o) /\ e.op = o /\ e.ts = ops[o].end /\ e.place = <<3, k, 0>>
<1>1. FromRecord(e)
  BY EventsOfRecord
<1>2. CASE \E n \in DOMAIN completions : e = InvocationCompleted(n)
  BY <1>2, CompletionFields
<1>3. CASE \E i \in DOMAIN updates : e = UpdateEvent(i)
  <2>1. PICK i \in DOMAIN updates : e = UpdateEvent(i)
    BY <1>3
  <2>2. PICK o \in Ops : updates[i].op = o
    BY TypesOfParts DEF RecordInv, UpdateRecord
  <2>3. e.kind = KindOf(o) /\ e.op = o /\ e.ts = updates[i].ts /\ e.place = <<2, i, 0>>
    BY <2>1, <2>2, UpdateFields
  <2> QED
    BY <2>1, <2>2, <2>3, Zenon
<1>4. CASE \E k \in DOMAIN order : order[k] = "execution" /\ e \in SnapshotEvents(k)
  <2>1. PICK k \in DOMAIN order : order[k] = "execution" /\ e \in SnapshotEvents(k)
    BY <1>4
  <2>3. e.kind = KindOf(order[k]) /\ e.op = order[k]
    BY <2>1, SnapshotIsOf
  <2>4. e.kind = "execution" /\ e.op = "execution"
    BY <2>1, <2>3 DEF KindOf
  <2> QED
    BY <2>1, <2>4, Zenon
<1>5. CASE \E k \in DOMAIN order :
             order[k] \in Ops /\ ByItself(order[k]) /\ e = EndOf(k, <<3, k, 0>>)
  <2>1. PICK k \in DOMAIN order : order[k] \in Ops /\ ByItself(order[k]) /\ e = EndOf(k, <<3, k, 0>>)
    BY <1>5
  <2>2. PICK p : p = <<3, k, 0>>
    OBVIOUS
  <2>3. e.kind = KindOf(order[k]) /\ e.op = order[k] /\ e.ts = ops[order[k]].end /\ e.place = p
    BY <2>1, <2>2, OperationFields
  <2> QED
    BY <2>1, <2>2, <2>3, Zenon
<1> QED
  BY <1>1, <1>2, <1>3, <1>4, <1>5, Zenon DEF FromRecord

\* Whoever is given a callback while an invocation runs is given one of an earlier one: the
\* end of an invocation lies above its start in the history.
LEMMA CallbackInTime ==
  ASSUME RecordInv, NEW name, CallbackFrom(History, name) # "none", invocation.phase = "running"
  PROVE  ops[CallbackFrom(History, name)].by < invocation.number
<1> DEFINE c == CallbackFrom(History, name)
<1>1. Recorded /\ HistoryTypes
  BY DEF RecordInv
<1>2. Ordered(Events)
  BY <1>1, EventsAreOrdered
<1>3. /\ DOMAIN History = 1 .. Cardinality(Events) /\ Len(History) = Cardinality(Events)
      /\ Cardinality(Events) \in Nat
      /\ \A i \in 1 .. Cardinality(Events) : History[i] \in Events /\ Position(Events, History[i]) = i
  BY <1>2, SortedFacts DEF History
<1>4. PICK i, j \in 1 .. Cardinality(Events) :
        /\ i < j /\ History[i].kind = "callback" /\ History[j].kind = "invocation" /\ History[i].op = c
  BY <1>3, CallbackWasStarted
<1>5. PICK e \in Events : e = History[i]
  BY <1>3
<1>6. PICK f \in Events : f = History[j]
  BY <1>3
<1>7. e.kind = "callback" /\ e.op = c /\ f.kind = "invocation" /\ Comparable(e) /\ Comparable(f)
  BY <1>2, <1>4, <1>5, <1>6 DEF Ordered
<1>8. Precedes(e, f) /\ ~Precedes(f, e)
  <2>1. Position(Events, e) < Position(Events, f)
    BY <1>3, <1>4, <1>5, <1>6
  <2>2. Precedes(e, f)
    BY <1>2, <2>1, PositionFacts
  <2> QED
    BY <2>2, <1>7, OrderFacts
<1>9. PICK n \in DOMAIN completions : f.ts = completions[n] /\ f.place = <<0, n, 0>>
  <2>1. \A o \in All : KindOf(o) # "invocation"
    BY KindsAreKnown
  <2> QED
    BY <1>1, <1>7, <2>1, WhoseEvents DEF All
<1>10. c \in Ops /\ e.place[1] # 0
       /\ \E m \in UpdatesOf(c) : updates[m].ts <= e.ts /\ updates[m].ts \in Nat
  <2>1. CASE \E m \in DOMAIN updates : \E o \in Ops :
               /\ e = UpdateEvent(m) /\ updates[m].op = o
               /\ e.kind = KindOf(o) /\ e.op = o /\ e.ts = updates[m].ts /\ e.place = <<2, m, 0>>
    <3>1. PICK m \in DOMAIN updates : updates[m].op = c /\ c \in Ops /\ e.ts = updates[m].ts /\ e.place = <<2, m, 0>>
      BY <2>1, <1>7
    <3>2. m \in UpdatesOf(c) /\ updates[m].ts <= e.ts /\ updates[m].ts \in Nat
      BY <1>1, <3>1, TypesOfParts DEF UpdatesOf
    <3>3. e.place[1] = 2
      BY <3>1
    <3> QED
      BY <3>1, <3>2, <3>3
  <2>2. CASE \E k \in DOMAIN order : \E o \in Ops :
              /\ order[k] = o /\ ByItself(o) /\ e = EndOf(k, <<3, k, 0>>)
              /\ e.kind = KindOf(o) /\ e.op = o /\ e.ts = ops[o].end /\ e.place = <<3, k, 0>>
    <3>1. PICK k \in DOMAIN order : c \in Ops /\ ByItself(c) /\ e.ts = ops[c].end /\ e.place = <<3, k, 0>>
      BY <2>2, <1>7
    <3>2. PICK m \in DOMAIN updates : LastUpdate(c, m) /\ Completed(c, m)
      BY <3>1 DEF ByItself
    <3>3. m \in UpdatesOf(c) /\ updates[m].ts <= e.ts /\ updates[m].ts \in Nat
      BY <1>1, <3>1, <3>2, TypesOfParts DEF LastUpdate, Completed
    <3>4. e.place[1] = 3
      BY <3>1
    <3> QED
      BY <3>1, <3>3, <3>4
  <2> QED
    BY <1>1, <1>7, <2>1, <2>2, WhoseEvents
<1>11. PICK m \in UpdatesOf(c) : updates[m].ts <= e.ts /\ updates[m].ts \in Nat
  BY <1>10
<1>12. MadeBy(c) /\ ops[c].by \in Nat /\ invocation.number \in Nat
  <2>1. MadeBy(c)
    BY <1>1, <1>10 DEF Recorded
  <2>2. ops[c] \in OperationRecord
    BY <1>1, <1>10 DEF HistoryTypes, All
  <2> QED
    BY <1>1, <2>1, <2>2 DEF HistoryTypes, OperationRecord
<1>13. ops[c].by # invocation.number
  <2>1. SUFFICES ASSUME ops[c].by = invocation.number
                 PROVE  FALSE
    OBVIOUS
  <2>2. completions[n] <= updates[m].ts
    BY <1>12, <2>1 DEF MadeBy
  <2>3. f.ts <= e.ts /\ f.place[1] = 0
    BY <1>1, <1>7, <1>9, <1>11, <2>2, TypesOfParts DEF Comparable
  <2>4. Precedes(f, e)
    BY <1>7, <1>10, <2>3 DEF Precedes, Comparable
  <2> QED
    BY <1>8, <2>4
<1> QED
  BY <1>12, <1>13 DEF MadeBy

\* Whoever waits for a callback gets it only after the invocation that made it has ended,
\* although the end is recorded late, with an earlier time (_is_callback_ready_for_response,
\* _finish_invocation).
THEOREM CallbacksAreGivenInTime == HistorySpec => []CallbackIsGivenInTime
<1>1. HistoryInv => CallbackIsGivenInTime
  <2>1. SUFFICES ASSUME HistoryInv, NEW name \in Ops \cup {"none"}, CallbackFrom(History, name) # "none",
                        invocation.phase = "running"
                 PROVE  ops[CallbackFrom(History, name)].by < invocation.number
    BY DEF CallbackIsGivenInTime
  <2> QED
    BY <2>1, CallbackInTime DEF HistoryInv
<1> QED
  BY <1>1, HistoryInvHolds, PTL

-----------------------------------------------------------------------------
\* The events of one operation, in their order.

EventsOf(o) == {e \in Events : e.op = o}
Until(o, e) == {f \in EventsOf(o) : f = e \/ Precedes(f, e)}
IsLast(o, e) == e \in EventsOf(o) /\ \A f \in EventsOf(o) : f = e \/ Precedes(f, e)
Mine(o) == {i \in DOMAIN History : History[i].op = o}

\* Two sets with a bijection between them have as many members.
LEMMA SameNumber ==
  ASSUME NEW S, NEW T, IsFiniteSet(S), NEW f \in [S -> T],
         \A x, y \in S : f[x] = f[y] => x = y,
         \A t \in T : \E x \in S : f[x] = t
  PROVE  IsFiniteSet(T) /\ Cardinality(T) = Cardinality(S)
<1>1. f \in Bijection(S, T)
  BY DEF Bijection, Injection, Surjection, IsInjective
<1>2. ExistsBijection(S, T)
  BY <1>1 DEF ExistsBijection
<1> QED
  BY <1>2, FS_Bijection

\* The events of an operation and their numbers in the history.
LEMMA WhereMineAre ==
  ASSUME HistoryTypes, NEW o
  PROVE  /\ Cardinality(Events) \in Nat /\ Mine(o) \in SUBSET (1 .. Cardinality(Events))
         /\ \A i \in Mine(o) : History[i] \in EventsOf(o)
         /\ \A e \in EventsOf(o) : \E i \in Mine(o) : History[i] = e
         /\ \A i, j \in Mine(o) : j <= i <=> History[j] = History[i] \/ Precedes(History[j], History[i])
         /\ \A i, j \in Mine(o) : History[j] = History[i] => j = i
<1>1. Ordered(Events)
  BY EventsAreOrdered
<1>2. /\ DOMAIN History = 1 .. Cardinality(Events) /\ Cardinality(Events) \in Nat
      /\ \A i \in 1 .. Cardinality(Events) : History[i] \in Events /\ Position(Events, History[i]) = i
      /\ \A e \in Events : Position(Events, e) \in 1 .. Cardinality(Events)
                           /\ History[Position(Events, e)] = e
  BY <1>1, SortedFacts DEF History
<1>3. Mine(o) \in SUBSET (1 .. Cardinality(Events))
  BY <1>2 DEF Mine
<1>4. ASSUME NEW i \in Mine(o)
      PROVE  History[i] \in EventsOf(o) /\ History[i] \in Events /\ Position(Events, History[i]) = i
  BY <1>2 DEF Mine, EventsOf
<1>5. ASSUME NEW e \in EventsOf(o)
      PROVE  \E i \in Mine(o) : History[i] = e
  <2>1. e \in Events /\ e.op = o
    BY DEF EventsOf
  <2>2. PICK i \in 1 .. Cardinality(Events) : i = Position(Events, e)
    BY <1>2, <2>1
  <2>3. History[i] = e
    BY <1>2, <2>1, <2>2
  <2> QED
    BY <1>2, <2>1, <2>2, <2>3 DEF Mine
<1>6. ASSUME NEW i \in Mine(o), NEW j \in Mine(o)
      PROVE  /\ j <= i <=> History[j] = History[i] \/ Precedes(History[j], History[i])
             /\ History[j] = History[i] => j = i
  <2>1. PICK e \in Events : e = History[i] /\ Position(Events, e) = i
    BY <1>4
  <2>2. PICK f \in Events : f = History[j] /\ Position(Events, f) = j
    BY <1>4
  <2>3. i \in Nat /\ j \in Nat
    BY <1>2, <1>3
  <2>4. Precedes(f, e) <=> j < i
    BY <1>1, <2>1, <2>2, PositionFacts
  <2>5. e = f <=> i = j
    BY <2>1, <2>2
  <2> QED
    BY <2>1, <2>2, <2>3, <2>4, <2>5
<1> QED
  BY <1>2, <1>3, <1>4, <1>5, <1>6

\* Counting the events is counting their positions.
LEMMA CountedAlike ==
  ASSUME HistoryTypes, NEW o, NEW i \in Mine(o)
  PROVE  Cardinality({j \in Mine(o) : j <= i}) = Cardinality(Until(o, History[i]))
<1> DEFINE S == {j \in Mine(o) : j <= i}
           T == Until(o, History[i])
           f == [j \in S |-> History[j]]
<1>1. /\ Cardinality(Events) \in Nat /\ Mine(o) \in SUBSET (1 .. Cardinality(Events))
      /\ \A j \in Mine(o) : History[j] \in EventsOf(o)
      /\ \A e \in EventsOf(o) : \E j \in Mine(o) : History[j] = e
      /\ \A j \in Mine(o) : j <= i <=> History[j] = History[i] \/ Precedes(History[j], History[i])
      /\ \A j, l \in Mine(o) : History[j] = History[l] => j = l
  BY WhereMineAre
<1>2. IsFiniteSet(S)
  <2>1. IsFiniteSet(1 .. Cardinality(Events))
    BY <1>1, FS_Interval
  <2>2. S \in SUBSET (1 .. Cardinality(Events))
    BY <1>1
  <2> QED
    BY <2>1, <2>2, FS_Subset
<1>3. f \in [S -> T] /\ \A j \in S : f[j] = History[j]
  BY <1>1 DEF Until
<1>4. \A x, y \in S : f[x] = f[y] => x = y
  BY <1>1
<1>5. \A t \in T : \E x \in S : f[x] = t
  <2>1. SUFFICES ASSUME NEW t \in T
                 PROVE  \E x \in S : f[x] = t
    OBVIOUS
  <2>2. t \in EventsOf(o) /\ (t = History[i] \/ Precedes(t, History[i]))
    BY DEF Until
  <2>3. PICK j \in Mine(o) : History[j] = t
    BY <1>1, <2>2
  <2>4. j \in S
    BY <1>1, <2>2, <2>3
  <2> QED
    BY <1>3, <2>3, <2>4
<1> HIDE DEF S, T, f
<1>6. Cardinality(T) = Cardinality(S)
  BY <1>2, <1>3, <1>4, <1>5, SameNumber
<1> QED
  BY <1>6 DEF S, T

\* What is merged of the events of an operation, by the last of them.
LEMMA MergedOf ==
  ASSUME HistoryTypes, NEW o, o # "none", NEW e, IsLast(o, e)
  PROVE  LET told == EventsToOperations(History)
         IN /\ told[o].status = StatusTold[e.what]
            /\ e.what # "Started" => told[o].end = e.ts
            /\ told[o].err \in BOOLEAN
            /\ told[o].err <=> \E f \in EventsOf(o) : f.err /\ f.kind # "execution"
<1> DEFINE starts == {i \in Mine(o) : History[i].what = "Started"}
           tries == {i \in Mine(o) : History[i].attempt # 0}
           merged ==
             [status |-> StatusTold[History[Max(Mine(o))].what],
              start |-> History[IF starts = {} THEN Min(Mine(o)) ELSE Max(starts)].ts,
              end |-> IF Mine(o) = starts THEN NoTime ELSE History[Max(Mine(o) \ starts)].ts,
              err |-> \E i \in Mine(o) : History[i].err /\ History[i].kind # "execution",
              attempt |-> IF tries = {} THEN 0 ELSE History[Max(tries)].attempt]
<1>1. /\ Cardinality(Events) \in Nat /\ Mine(o) \in SUBSET (1 .. Cardinality(Events))
      /\ \A i \in Mine(o) : History[i] \in EventsOf(o)
      /\ \A f \in EventsOf(o) : \E i \in Mine(o) : History[i] = f
      /\ \A i, j \in Mine(o) : j <= i <=> History[j] = History[i] \/ Precedes(History[j], History[i])
      /\ \A i, j \in Mine(o) : History[j] = History[i] => j = i
  BY WhereMineAre
<1>2. PICK m \in Mine(o) : History[m] = e
  BY <1>1 DEF IsLast
<1>3. \A i \in Mine(o) : i <= m
  BY <1>1, <1>2 DEF IsLast
<1>4. ASSUME NEW S \in SUBSET Mine(o), m \in S
      PROVE  Max(S) = m
  <2>1. S \in SUBSET (1 .. Cardinality(Events)) /\ S # {}
    BY <1>1, <1>4
  <2>2. PICK x \in S : x = Max(S) /\ \A i \in S : i <= x
    BY <1>1, <2>1, FirstAndLast
  <2>3. x \in Nat /\ m \in Nat /\ x <= m /\ m <= x
    BY <1>1, <1>3, <1>4, <2>2
  <2> QED
    BY <2>2, <2>3
<1>5. EventsToOperations(History)[o] = merged
  <2>1. o \in {History[i].op : i \in DOMAIN History} \ {"none"}
    BY <1>2 DEF Mine
  <2> QED
    BY <2>1, Zenon DEF EventsToOperations, Mine
<1>6. merged.status = StatusTold[e.what]
  <2>1. Max(Mine(o)) = m
    BY <1>4
  <2>2. merged.status = StatusTold[History[Max(Mine(o))].what]
    BY Zenon
  <2> QED
    BY <1>2, <2>1, <2>2
<1>7. e.what # "Started" => merged.end = e.ts
  <2>1. SUFFICES ASSUME e.what # "Started"
                 PROVE  merged.end = e.ts
    OBVIOUS
  <2>2. m \in Mine(o) \ starts /\ Mine(o) # starts
    BY <1>2, <2>1
  <2>3. Max(Mine(o) \ starts) = m
    BY <1>4, <2>2
  <2>4. merged.end = IF Mine(o) = starts THEN NoTime ELSE History[Max(Mine(o) \ starts)].ts
    BY Zenon
  <2> HIDE DEF starts, merged
  <2> QED
    BY <1>2, <2>2, <2>3, <2>4
<1>8. /\ merged.err \in BOOLEAN
      /\ merged.err <=> \E f \in EventsOf(o) : f.err /\ f.kind # "execution"
  <2>1. merged.err = \E i \in Mine(o) : History[i].err /\ History[i].kind # "execution"
    BY Zenon
  <2>2. (\E i \in Mine(o) : History[i].err /\ History[i].kind # "execution")
           <=> \E f \in EventsOf(o) : f.err /\ f.kind # "execution"
    BY <1>1
  <2>3. merged.err \in BOOLEAN
    BY Zenon
  <2> HIDE DEF merged
  <2> QED
    BY <2>1, <2>2, <2>3, Zenon
<1> HIDE DEF merged
<1> QED
  BY <1>5, <1>6, <1>7, <1>8

-----------------------------------------------------------------------------
\* What the events tell of an operation.

TellsOf(o) ==
  /\ ~(KindOf(o) = "invoke" /\ ops[o].status = "PENDING") =>
       \A e \in EventsOf(o) : (e.what = "Started") <=> (Cardinality(Until(o, e)) % 2 = 1)
  /\ ops[o].status \in EndStatuses =>
       \E e \in EventsOf(o) :
         /\ IsLast(o, e) /\ e.what # "Started"
         /\ StatusTold[e.what] = ops[o].status /\ e.ts = ops[o].end
  /\ ops[o].status = "FAILED" /\ o # "execution" =>
       (ops[o].err <=> \E f \in EventsOf(o) : f.err /\ f.kind # "execution")
  /\ ops[o].status = "STARTED" => \E e \in EventsOf(o) : IsLast(o, e) /\ e.what = "Started"
  /\ ops[o].status = "absent" => EventsOf(o) = {}

\* The event types tell the statuses.
LEMMA WhatIsTold ==
  ASSUME NEW o \in All
  PROVE  /\ EventTypes[KindOf(o)].STARTED = "Started"
         /\ KindOf(o) = "invoke" => EventTypes[KindOf(o)].PENDING = "Started"
         /\ \A s \in EndStatuses \cap DOMAIN EventTypes[KindOf(o)] :
              /\ EventTypes[KindOf(o)][s] # "Started"
              /\ StatusTold[EventTypes[KindOf(o)][s]] = s
<1>1. KindOf(o) \in {"execution", "context", "wait", "step", "invoke", "callback"}
  BY KindsAreKnown
<1>2. /\ EventTypes["execution"] = ExecutionEvent /\ EventTypes["context"] = ContextEvent
      /\ EventTypes["wait"] = WaitEvent /\ EventTypes["step"] = StepEvent
      /\ EventTypes["invoke"] = ChainedInvokeEvent /\ EventTypes["callback"] = CallbackEvent
  BY DEF EventTypes
<1>3. /\ ExecutionEvent.STARTED = "Started" /\ ContextEvent.STARTED = "Started"
      /\ WaitEvent.STARTED = "Started" /\ StepEvent.STARTED = "Started"
      /\ ChainedInvokeEvent.STARTED = "Started" /\ CallbackEvent.STARTED = "Started"
      /\ ChainedInvokeEvent.PENDING = "Started"
  BY DEF ExecutionEvent, ContextEvent, WaitEvent, StepEvent, ChainedInvokeEvent, CallbackEvent
<1>4. ASSUME NEW F \in {ExecutionEvent, ContextEvent, WaitEvent, StepEvent, ChainedInvokeEvent, CallbackEvent},
             NEW s \in EndStatuses \cap DOMAIN F
      PROVE  F[s] # "Started" /\ StatusTold[F[s]] = s
  <2>1. CASE F = ExecutionEvent
    BY <2>1 DEF ExecutionEvent, StatusTold, EndStatuses
  <2>2. CASE F = ContextEvent
    BY <2>2 DEF ContextEvent, StatusTold, EndStatuses
  <2>3. CASE F = WaitEvent
    BY <2>3 DEF WaitEvent, StatusTold, EndStatuses
  <2>4. CASE F = StepEvent
    BY <2>4 DEF StepEvent, StatusTold, EndStatuses
  <2>5. CASE F = ChainedInvokeEvent
    BY <2>5 DEF ChainedInvokeEvent, StatusTold, EndStatuses
  <2>6. CASE F = CallbackEvent
    BY <2>6 DEF CallbackEvent, StatusTold, EndStatuses
  <2> QED
    BY <2>1, <2>2, <2>3, <2>4, <2>5, <2>6
<1>5. EventTypes[KindOf(o)] \in {ExecutionEvent, ContextEvent, WaitEvent, StepEvent, ChainedInvokeEvent, CallbackEvent}
  BY <1>1, <1>2
<1>6. EventTypes[KindOf(o)].STARTED = "Started"
  BY <1>3, <1>5
<1>7. KindOf(o) = "invoke" => EventTypes[KindOf(o)].PENDING = "Started"
  BY <1>2, <1>3
<1> QED
  BY <1>4, <1>5, <1>6, <1>7

\* Only the execution is of its kind.
LEMMA KindsOfOperations ==
  ASSUME NEW o \in All
  PROVE  KindOf(o) = "execution" <=> o = "execution"
BY HistoryAssumption, Names DEF KindOf, All, Kinds

\* What the events of a snapshot say.
LEMMA SnapshotFields ==
  ASSUME HistoryTypes, NEW k \in DOMAIN order, NEW o \in All, order[k] = o, NEW place
  PROVE  /\ Started(k).what = "Started" /\ Started(k).err = FALSE
         /\ EndOf(k, place).what = EventTypes[KindOf(o)][ops[o].status]
         /\ EndOf(k, place).err <=> ops[o].err /\ ops[o].status # "SUCCEEDED"
<1>1. Started(k) = Event(o, EventTypes[KindOf(o)].STARTED, ops[o].start, FALSE, 0, <<1, k, 1>>)
  BY Zenon DEF Started, EventStarted
<1> DEFINE failed == ops[o].err /\ ops[o].status # "SUCCEEDED"
<1>2. EndOf(k, place) = Event(o, EventTypes[KindOf(o)][ops[o].status], ops[o].end, failed, 0, place)
  BY Zenon DEF EndOf, EventTerminated
<1>3. Started(k).what = "Started" /\ Started(k).err = FALSE
  <2>1. PICK what, err : what = EventTypes[KindOf(o)].STARTED /\ err = FALSE
    OBVIOUS
  <2>2. PICK p : p = <<1, k, 1>>
    OBVIOUS
  <2>3. Started(k) = Event(o, what, ops[o].start, err, 0, p)
    BY <1>1, <2>1, <2>2, Zenon
  <2>4. Started(k).what = what /\ Started(k).err = err
    BY <2>3, EventFields
  <2>5. what = "Started"
    BY <2>1, WhatIsTold
  <2> QED
    BY <2>1, <2>4, <2>5
<1>4. EndOf(k, place).what = EventTypes[KindOf(o)][ops[o].status] /\ EndOf(k, place).err = failed
  <2>1. PICK what, err : what = EventTypes[KindOf(o)][ops[o].status] /\ err = failed
    OBVIOUS
  <2>3. EndOf(k, place) = Event(o, what, ops[o].end, err, 0, place)
    BY <1>2, <2>1, Zenon
  <2>4. EndOf(k, place).what = what /\ EndOf(k, place).err = err
    BY <2>3, EventFields
  <2> QED
    BY <2>1, <2>4, Zenon
<1> QED
  BY <1>3, <1>4, Zenon

\* An operation whose events are those of its snapshot.
LEMMA SnapshotTells ==
  ASSUME HistoryTypes, NEW k \in DOMAIN order, NEW o \in All, order[k] = o,
         ops[o].status \in {"STARTED", "PENDING"} \cup (EndStatuses \cap DOMAIN EventTypes[KindOf(o)]),
         ops[o].status = "STARTED" => EventsOf(o) = {Started(k)},
         ops[o].status \in EndStatuses => EventsOf(o) = {Started(k), EndOf(k, <<1, k, 2>>)},
         ops[o].status = "PENDING" /\ KindOf(o) # "invoke" => EventsOf(o) = {},
         ops[o].start <= ops[o].end
  PROVE  TellsOf(o)
<1>1. PICK a, b : a = Started(k) /\ b = EndOf(k, <<1, k, 2>>)
  OBVIOUS
<1>2. /\ a.what = "Started" /\ a.err = FALSE /\ b.what = EventTypes[KindOf(o)][ops[o].status]
      /\ b.err <=> ops[o].err /\ ops[o].status # "SUCCEEDED"
  BY <1>1, SnapshotFields
<1>3. /\ a.ts = ops[o].start /\ b.ts = ops[o].end /\ b.kind = KindOf(o)
      /\ a.place[1] = 1 /\ a.place[2] = k /\ a.place[3] = 1
      /\ b.place[1] = 1 /\ b.place[2] = k /\ b.place[3] = 2
      /\ k \in Nat /\ ops[o].start \in Nat /\ ops[o].end \in Nat
  <2>1. PICK p, q : p = <<1, k, 1>> /\ q = <<1, k, 2>>
    OBVIOUS
  <2>2. a.ts = ops[o].start /\ a.place = p
    BY <1>1, <2>1, OperationFields
  <2>3. b.ts = ops[o].end /\ b.kind = KindOf(o) /\ b.place = q
    BY <1>1, <2>1, OperationFields
  <2>4. k \in Nat /\ ops[o].start \in Nat /\ ops[o].end \in Nat
    BY TypesOfParts
  <2> QED
    BY <2>1, <2>2, <2>3, <2>4
<1>4. Precedes(a, b) /\ ~Precedes(b, a) /\ a # b
  <2>1. Comparable(a) /\ Comparable(b)
    BY <1>3 DEF Comparable
  <2>2. Precedes(a, b)
    BY <1>3 DEF Precedes
  <2>3. ~Precedes(b, a) /\ ~Precedes(a, a)
    BY <2>1, <2>2, OrderFacts
  <2>4. a # b
    BY <2>2, <2>3
  <2> QED
    BY <2>2, <2>3, <2>4
<1>5. CASE ops[o].status = "STARTED"
  <2>1. EventsOf(o) = {a}
    BY <1>1, <1>5
  <2>2. Until(o, a) = {a} /\ IsLast(o, a)
    BY <2>1 DEF Until, IsLast
  <2>3. Cardinality(Until(o, a)) % 2 = 1
    <3>1. Cardinality(Until(o, a)) = 1
      BY <2>2, FS_Singleton
    <3> QED
      BY <3>1
  <2>4. ops[o].status \notin EndStatuses
    BY <1>5 DEF EndStatuses
  <2> QED
    BY <1>2, <1>5, <2>1, <2>2, <2>3, <2>4 DEF TellsOf, EndStatuses
<1>6. CASE ops[o].status \in EndStatuses
  <2>1. EventsOf(o) = {a, b}
    BY <1>1, <1>6
  <2>2. Until(o, a) = {a} /\ Until(o, b) = {a} \cup {b} /\ IsLast(o, b)
    BY <2>1, <1>4 DEF Until, IsLast
  <2>3. Cardinality(Until(o, a)) = 1 /\ Cardinality(Until(o, b)) = 2
    <3>1. IsFiniteSet({a}) /\ Cardinality({a}) = 1 /\ b \notin {a}
      BY <1>4, FS_Singleton
    <3>2. Cardinality({a} \cup {b}) = Cardinality({a}) + 1
      BY <3>1, FS_AddElement
    <3> QED
      BY <2>2, <3>1, <3>2
  <2>4. b.what # "Started" /\ StatusTold[b.what] = ops[o].status
    <3>1. ops[o].status \in EndStatuses \cap DOMAIN EventTypes[KindOf(o)]
      BY <1>6 DEF EndStatuses
    <3> QED
      BY <1>2, <3>1, WhatIsTold
  <2>5. \A e \in EventsOf(o) : (e.what = "Started") <=> (Cardinality(Until(o, e)) % 2 = 1)
    BY <1>2, <2>1, <2>3, <2>4
  <2>6. ops[o].status = "FAILED" /\ o # "execution" =>
          (ops[o].err <=> \E f \in EventsOf(o) : f.err /\ f.kind # "execution")
    <3>1. SUFFICES ASSUME ops[o].status = "FAILED", o # "execution"
                   PROVE  ops[o].err <=> \E f \in EventsOf(o) : f.err /\ f.kind # "execution"
      OBVIOUS
    <3>2. KindOf(o) # "execution"
      BY <3>1, KindsOfOperations
    <3>3. b.err <=> ops[o].err
      BY <1>2, <3>1, Zenon
    <3>4. ~a.err /\ b.kind # "execution"
      BY <1>2, <1>3, <3>2
    <3> QED
      BY <2>1, <3>3, <3>4, Zenon
  <2>7. ops[o].status # "STARTED" /\ ops[o].status # "absent" /\ ops[o].status # "PENDING"
    BY <1>6 DEF EndStatuses
  <2> QED
    BY <1>3, <2>1, <2>2, <2>4, <2>5, <2>6, <2>7, Zenon DEF TellsOf
<1>7. CASE ops[o].status = "PENDING"
  <2>1. KindOf(o) # "invoke" => EventsOf(o) = {}
    BY <1>7
  <2> QED
    BY <1>7, <2>1 DEF TellsOf, EndStatuses
<1> QED
  BY <1>5, <1>6, <1>7

\* The record of an execution tells of the execution itself.
LEMMA ExecutionTells ==
  ASSUME RecordInv, Recorded
  PROVE  TellsOf("execution")
<1>1. HistoryTypes /\ OrderIsRight /\ ExecutionIsRight /\ "execution" \in All
  BY DEF RecordInv, Recorded, All
<1>2. PICK k \in DOMAIN order : order[k] = "execution" /\ \A l \in DOMAIN order : order[l] = "execution" => l = k
  BY <1>1 DEF OrderIsRight
<1>3. KindOf("execution") = "execution" /\ EventTypes["execution"] = ExecutionEvent
  BY DEF KindOf, EventTypes
<1>4. ASSUME NEW e
      PROVE  e \in EventsOf("execution") <=> e \in SnapshotEvents(k)
  <2>1. e \in SnapshotEvents(k) => e \in Events
    BY <1>2, EventsOfRecord DEF FromRecord
  <2>2. e \in SnapshotEvents(k) => e.op = "execution"
    BY <1>2, SnapshotIsOf
  <2>3. e \in Events /\ e.op = "execution" => e \in SnapshotEvents(k)
    BY <1>2, WhoseEvents, Names
  <2> QED
    BY <2>1, <2>2, <2>3 DEF EventsOf
<1>5. EventsOf("execution") = SnapshotEvents(k)
  <2>1. EventsOf("execution") \subseteq Events
    BY DEF EventsOf
  <2> QED
    BY <1>4
<1>6. ops["execution"].start # NoTime /\ ops["execution"].start = 0 /\ ops["execution"].end \in Nat
  BY <1>1, TypesOfParts, HistoryAssumption DEF ExecutionIsRight, NoTime
<1>7. SnapshotEvents(k) = {Started(k)} \cup
        IF ops["execution"].end # NoTime /\ ops["execution"].status \in EndStatuses
        THEN {EndOf(k, <<1, k, 2>>)} ELSE {}
  BY <1>2, <1>6, Zenon DEF SnapshotEvents, StartedEvent, EndedEvent, Started, EndOf
<1>8. ops["execution"].status = "STARTED" => EventsOf("execution") = {Started(k)}
  BY <1>5, <1>7 DEF EndStatuses
<1>9. ops["execution"].status \in EndStatuses =>
        EventsOf("execution") = {Started(k), EndOf(k, <<1, k, 2>>)}
  <2>1. ops["execution"].status \in EndStatuses => ops["execution"].end # NoTime
    BY <1>1 DEF ExecutionIsRight, EndStatuses
  <2> QED
    BY <1>5, <1>7, <2>1
<1>10. /\ ops["execution"].status \in {"STARTED", "PENDING"}
            \cup (EndStatuses \cap DOMAIN EventTypes[KindOf("execution")])
       /\ ops["execution"].status # "PENDING"
  <2>1. ops["execution"].status \in {"STARTED", "SUCCEEDED", "FAILED", "TIMED_OUT", "STOPPED"}
    BY <1>1 DEF ExecutionIsRight
  <2>2. DOMAIN ExecutionEvent = {"STARTED", "SUCCEEDED", "FAILED", "TIMED_OUT", "STOPPED"}
    BY DEF ExecutionEvent
  <2> QED
    BY <1>3, <2>1, <2>2 DEF EndStatuses
<1>11. ops["execution"].start <= ops["execution"].end
  BY <1>6
<1>12. PICK o \in All : o = "execution"
  BY <1>1
<1> QED
  BY <1>1, <1>2, <1>8, <1>9, <1>10, <1>11, <1>12, SnapshotTells

\* And so does what was set up by hand.
LEMMA ByHandTells ==
  ASSUME HistoryTypes, ByHand, NEW o \in All
  PROVE  TellsOf(o)
<1>1. PICK k \in DOMAIN order : order[k] = o
  BY DEF ByHand
<1>2. \A l \in DOMAIN order : order[l] = o => l = k
  BY <1>1 DEF ByHand
<1>3. updates = <<>> /\ DOMAIN completions = {} /\ DOMAIN updates = {} /\ ops[o] \in SetUp(o)
  BY DEF ByHand
<1>4. /\ ops[o].status \in DOMAIN EventTypes[KindOf(o)] \cup {"PENDING"}
      /\ ops[o].start \in {0, NoTime} /\ ops[o].end \in {1, NoTime}
      /\ ops[o].status \in EndStatuses <=> ops[o].end # NoTime
      /\ ops[o].start = NoTime => ops[o].status = "PENDING"
  BY <1>3 DEF SetUp
<1>5. MaxTime \in Nat /\ NoTime = MaxTime + 1 /\ 0 # NoTime
  BY HistoryAssumption DEF NoTime
<1>6. \A e : e \in Events <=> \E l \in DOMAIN order : e \in LegacyEvents(l)
  <2> DEFINE L == {LegacyEvents(l) : l \in DOMAIN order}
             C == {InvocationCompleted(n) : n \in DOMAIN completions}
  <2>1. OperationEvents = UNION L
    BY <1>3, Zenon DEF OperationEvents
  <2>2. C = {}
    BY <1>3
  <2>3. Events = C \cup OperationEvents
    BY Zenon DEF Events
  <2>4. \A e : e \in UNION L <=> \E l \in DOMAIN order : e \in LegacyEvents(l)
    OBVIOUS
  <2> HIDE DEF L, C
  <2> QED
    BY <2>1, <2>2, <2>3, <2>4
<1>7. \A l \in DOMAIN order : \A e \in LegacyEvents(l) : e.op = order[l]
  <2>1. SUFFICES ASSUME NEW l \in DOMAIN order, NEW e \in LegacyEvents(l)
                 PROVE  e.op = order[l]
    OBVIOUS
  <2>2. e = Pending(l) \/ e = Started(l) \/ e = EndOf(l, <<1, l, 2>>)
    BY <2>1 DEF LegacyEvents, SnapshotEvents, StartedEvent, EndedEvent, Started, EndOf, Pending
  <2>3. Pending(l).op = order[l] /\ Started(l).op = order[l]
    BY OperationFields
  <2>4. \A p : EndOf(l, p).op = order[l]
    BY OperationFields
  <2> QED
    BY <2>2, <2>3, <2>4
<1>8. EventsOf(o) = LegacyEvents(k)
  <2>1. \A e : e \in EventsOf(o) <=> e \in LegacyEvents(k)
    BY <1>1, <1>2, <1>6, <1>7 DEF EventsOf
  <2> QED
    BY <2>1
<1>9. ops[o].status # "PENDING" => LegacyEvents(k) = SnapshotEvents(k)
  BY <1>1, Zenon DEF LegacyEvents
<1>10. ops[o].status # "PENDING" => SnapshotEvents(k) = {Started(k)} \cup
        IF ops[o].end # NoTime /\ ops[o].status \in EndStatuses THEN {EndOf(k, <<1, k, 2>>)} ELSE {}
  BY <1>1, <1>4, Zenon DEF SnapshotEvents, StartedEvent, EndedEvent, Started, EndOf
<1>11. ops[o].status = "STARTED" => EventsOf(o) = {Started(k)}
  BY <1>8, <1>9, <1>10 DEF EndStatuses
<1>12. ops[o].status \in EndStatuses => EventsOf(o) = {Started(k), EndOf(k, <<1, k, 2>>)}
  <2>1. ops[o].status \in EndStatuses => ops[o].end # NoTime /\ ops[o].status # "PENDING"
    BY <1>4 DEF EndStatuses
  <2> QED
    BY <1>8, <1>9, <1>10, <2>1
<1>13. ops[o].status = "PENDING" /\ KindOf(o) # "invoke" => EventsOf(o) = {}
  BY <1>1, <1>8, Zenon DEF LegacyEvents
<1>14. ops[o].status \in {"STARTED", "PENDING"} \cup (EndStatuses \cap DOMAIN EventTypes[KindOf(o)])
  <2>1. /\ DOMAIN ExecutionEvent \subseteq {"STARTED"} \cup EndStatuses
        /\ DOMAIN ContextEvent \subseteq {"STARTED"} \cup EndStatuses
        /\ DOMAIN WaitEvent \subseteq {"STARTED"} \cup EndStatuses
        /\ DOMAIN StepEvent \subseteq {"STARTED"} \cup EndStatuses
        /\ DOMAIN ChainedInvokeEvent \subseteq {"PENDING", "STARTED"} \cup EndStatuses
        /\ DOMAIN CallbackEvent \subseteq {"STARTED"} \cup EndStatuses
    BY DEF EndStatuses, ExecutionEvent, ContextEvent, WaitEvent, StepEvent, ChainedInvokeEvent, CallbackEvent
  <2>2. DOMAIN EventTypes[KindOf(o)] \subseteq {"PENDING", "STARTED"} \cup EndStatuses
    <3>1. /\ EventTypes["execution"] = ExecutionEvent /\ EventTypes["context"] = ContextEvent
          /\ EventTypes["wait"] = WaitEvent /\ EventTypes["step"] = StepEvent
          /\ EventTypes["invoke"] = ChainedInvokeEvent /\ EventTypes["callback"] = CallbackEvent
      BY DEF EventTypes
    <3> QED
      BY <2>1, <3>1, KindsAreKnown
  <2> QED
    BY <1>4, <2>2
<1>15. CASE ops[o].start <= ops[o].end
  BY <1>1, <1>11, <1>12, <1>13, <1>14, <1>15, SnapshotTells
<1>16. CASE ~(ops[o].start <= ops[o].end)
  <2>1. ops[o].start = NoTime /\ ops[o].end # NoTime
    BY <1>4, <1>5, <1>16
  <2> QED
    BY <2>1, <1>4 DEF EndStatuses
<1> QED
  BY <1>15, <1>16

\* What the event of an update says.
LEMMA UpdateSays ==
  ASSUME HistoryTypes, UpdatesFit, NEW i \in DOMAIN updates, Kind[updates[i].op] # "invoke"
  PROVE  /\ (UpdateEvent(i).what = "Started") <=> (updates[i].act = "START")
         /\ updates[i].act = "SUCCEED" => StatusTold[UpdateEvent(i).what] = "SUCCEEDED"
         /\ updates[i].act = "FAIL" =>
              /\ StatusTold[UpdateEvent(i).what] = "FAILED"
              /\ UpdateEvent(i).err <=> updates[i].err
<1>1. PICK u, attempt : u = updates[i] /\ attempt = TryOf(i)
  OBVIOUS
<1>2. u \in UpdateRecord /\ UpdateEvent(i) = EventMade(u, attempt, i)
  BY <1>1, TypesOfParts, UpdateEventIs
<1>3. PICK o \in Ops : o = u.op
  BY <1>2 DEF UpdateRecord
<1>4. /\ o \in All /\ KindOf(o) = Kind[o] /\ KindOf(o) # "invoke"
      /\ u.act \in {"START", "RETRY", "SUCCEED", "FAIL"} /\ u.err \in BOOLEAN
  BY <1>1, <1>2, <1>3, Names DEF UpdateRecord, KindOf, All
<1>5. CASE u.act = "START"
  <2>1. UpdateEvent(i) = EventStarted(o, u.ts, <<2, i, 0>>)
    BY <1>2, <1>3, <1>4, <1>5, Zenon DEF EventMade
  <2>2. UpdateEvent(i).what = "Started"
    <3>1. PICK what, err, p : what = EventTypes[KindOf(o)].STARTED /\ err = FALSE /\ p = <<2, i, 0>>
      OBVIOUS
    <3>2. UpdateEvent(i) = Event(o, what, u.ts, err, 0, p)
      BY <2>1, <3>1, Zenon DEF EventStarted
    <3>3. UpdateEvent(i).what = what
      BY <3>2, EventFields
    <3> QED
      BY <1>4, <3>1, <3>3, WhatIsTold
  <2> QED
    BY <1>1, <1>5, <2>2
<1>6. CASE u.act # "START"
  <2>1. UpdateEvent(i) = EventTerminated(o, StatusOf(u), u.ts, u.err, attempt, <<2, i, 0>>)
    BY <1>2, <1>3, <1>6, Zenon DEF EventMade
  <2>2. PICK status : status = StatusOf(u)
    OBVIOUS
  <2>3. /\ status \in {"SUCCEEDED", "FAILED"}
        /\ u.act = "SUCCEED" => status = "SUCCEEDED"
        /\ u.act = "FAIL" => status = "FAILED"
    BY <1>4, <2>2 DEF StatusOf
  <2>4. KindOf(o) \in {"step", "context"}
    BY <1>1, <1>3, <1>4, <1>6 DEF UpdatesFit
  <2>5. status \in EndStatuses \cap DOMAIN EventTypes[KindOf(o)]
    <3>1. EventTypes["context"] = ContextEvent /\ EventTypes["step"] = StepEvent
      BY DEF EventTypes
    <3>2. {"SUCCEEDED", "FAILED"} \subseteq DOMAIN ContextEvent /\ {"SUCCEEDED", "FAILED"} \subseteq DOMAIN StepEvent
      BY DEF ContextEvent, StepEvent
    <3> QED
      BY <2>3, <2>4, <3>1, <3>2 DEF EndStatuses
  <2> DEFINE failed == u.err /\ status # "SUCCEEDED"
  <2>6. PICK what, err, p : what = EventTypes[KindOf(o)][status] /\ err = failed /\ p = <<2, i, 0>>
    OBVIOUS
  <2>7. UpdateEvent(i) = Event(o, what, u.ts, err, attempt, p)
    BY <2>1, <2>2, <2>6, Zenon DEF EventTerminated
  <2>8. UpdateEvent(i).what = what /\ UpdateEvent(i).err = err
    BY <2>7, EventFields
  <2>9. what # "Started" /\ StatusTold[what] = status
    BY <1>4, <2>5, <2>6, WhatIsTold
  <2>10. u.act = "FAIL" => (err <=> u.err)
    <3>1. u.act = "FAIL" => status # "SUCCEEDED"
      BY <2>3
    <3> QED
      BY <2>6, <3>1, Zenon
  <2> HIDE DEF failed
  <2>11. u.act = "FAIL" => (UpdateEvent(i).err <=> u.err)
    BY <2>8, <2>10, Zenon
  <2> QED
    BY <1>1, <1>6, <2>3, <2>8, <2>9, <2>11
<1> QED
  BY <1>5, <1>6

\* The updates of an operation and its own end, in their order.
LEMMA EventsOfOperation ==
  ASSUME RecordInv, Recorded, NEW o \in Ops, NEW k \in DOMAIN order, order[k] = o
  PROVE  LET made == {UpdateEvent(j) : j \in UpdatesOf(o)}
             w == EndOf(k, <<3, k, 0>>)
         IN /\ EventsOf(o) = made \cup (IF ByItself(o) THEN {w} ELSE {})
            /\ \A i, j \in UpdatesOf(o) :
                 /\ Precedes(UpdateEvent(j), UpdateEvent(i)) <=> j < i
                 /\ UpdateEvent(j) = UpdateEvent(i) <=> j = i
            /\ ByItself(o) => \A j \in UpdatesOf(o) :
                 /\ Precedes(UpdateEvent(j), w) /\ ~Precedes(w, UpdateEvent(j)) /\ w # UpdateEvent(j)
<1> DEFINE made == {UpdateEvent(j) : j \in UpdatesOf(o)}
           w == EndOf(k, <<3, k, 0>>)
<1>1. HistoryTypes /\ OrderIsRight /\ NothingIsLater
  BY DEF RecordInv, Recorded
<1>2. ASSUME NEW j \in UpdatesOf(o)
      PROVE  /\ j \in DOMAIN updates /\ updates[j].op = o /\ j \in Nat /\ updates[j].ts \in Nat
             /\ UpdateEvent(j).op = o /\ UpdateEvent(j).ts = updates[j].ts
             /\ UpdateEvent(j).place[1] = 2 /\ UpdateEvent(j).place[2] = j /\ UpdateEvent(j).place[3] = 0
             /\ Comparable(UpdateEvent(j))
  <2>1. j \in DOMAIN updates /\ updates[j].op = o /\ j \in Nat /\ updates[j].ts \in Nat
    BY <1>1, TypesOfParts DEF UpdatesOf
  <2>2. PICK p : p = <<2, j, 0>>
    OBVIOUS
  <2>3. UpdateEvent(j).op = o /\ UpdateEvent(j).ts = updates[j].ts /\ UpdateEvent(j).place = p
    BY <2>1, <2>2, UpdateFields
  <2> QED
    BY <2>1, <2>2, <2>3 DEF Comparable
<1>3. ASSUME NEW i \in UpdatesOf(o), NEW j \in UpdatesOf(o), j < i
      PROVE  Precedes(UpdateEvent(j), UpdateEvent(i))
  <2>1. updates[j].ts <= updates[i].ts
    BY <1>1, <1>2, <1>3 DEF NothingIsLater
  <2> QED
    BY <1>2, <1>3, <2>1 DEF Precedes
<1>4. ASSUME NEW i \in UpdatesOf(o), NEW j \in UpdatesOf(o)
      PROVE  /\ Precedes(UpdateEvent(j), UpdateEvent(i)) <=> j < i
             /\ UpdateEvent(j) = UpdateEvent(i) <=> j = i
  <2>1. PICK e, f : e = UpdateEvent(i) /\ f = UpdateEvent(j)
    OBVIOUS
  <2>2. Comparable(e) /\ Comparable(f) /\ e.place[2] = i /\ f.place[2] = j /\ i \in Nat /\ j \in Nat
    BY <1>2, <2>1
  <2>3. e = f <=> i = j
    BY <2>1, <2>2
  <2>4. (j < i => Precedes(f, e)) /\ (i < j => Precedes(e, f))
    BY <1>3, <2>1
  <2>5. ~Precedes(e, e) /\ ~(Precedes(e, f) /\ Precedes(f, e))
    BY <2>2, OrderFacts
  <2> QED
    BY <2>1, <2>2, <2>3, <2>4, <2>5
<1>5. w.op = o /\ w.ts = ops[o].end /\ w.place[1] = 3
  <2>1. PICK p : p = <<3, k, 0>>
    OBVIOUS
  <2>2. w.op = o /\ w.ts = ops[o].end /\ w.place = p
    BY <2>1, OperationFields
  <2> QED
    BY <2>1, <2>2
<1>6. ASSUME ByItself(o), NEW j \in UpdatesOf(o)
      PROVE  /\ Precedes(UpdateEvent(j), w) /\ ~Precedes(w, UpdateEvent(j)) /\ w # UpdateEvent(j)
  <2>1. PICK i \in DOMAIN updates : LastUpdate(o, i) /\ Completed(o, i)
    BY <1>6 DEF ByItself
  <2>2. updates[j].ts <= updates[i].ts /\ updates[i].ts <= ops[o].end
    BY <1>1, <1>2, <2>1 DEF NothingIsLater, LastUpdate, Completed
  <2>3. updates[i].ts \in Nat /\ ops[o].end \in Nat
    BY <1>1, TypesOfParts DEF All
  <2>4. PICK e : e = UpdateEvent(j)
    OBVIOUS
  <2>5. e.ts \in Nat /\ e.ts <= w.ts /\ w.ts \in Nat /\ e.place[1] = 2
    BY <1>2, <1>5, <2>2, <2>3, <2>4
  <2>6. Precedes(e, w) /\ ~Precedes(w, e)
    BY <1>5, <2>5 DEF Precedes
  <2>7. w # e
    BY <1>5, <2>5
  <2> QED
    BY <2>4, <2>6, <2>7
<1>7. ASSUME NEW e
      PROVE  e \in EventsOf(o) <=> e \in made \/ (ByItself(o) /\ e = w)
  <2>1. e \in EventsOf(o) => e \in made \/ (ByItself(o) /\ e = w)
    <3>1. SUFFICES ASSUME e \in Events, e.op = o
                   PROVE  e \in made \/ (ByItself(o) /\ e = w)
      BY DEF EventsOf
    <3>2. CASE \E i \in DOMAIN updates : \E p \in Ops :
              /\ e = UpdateEvent(i) /\ updates[i].op = p
              /\ e.kind = KindOf(p) /\ e.op = p /\ e.ts = updates[i].ts /\ e.place = <<2, i, 0>>
      <4>1. PICK i \in DOMAIN updates : e = UpdateEvent(i) /\ updates[i].op = o
        BY <3>1, <3>2
      <4>2. i \in UpdatesOf(o)
        BY <4>1 DEF UpdatesOf
      <4>3. e \in made
        BY <4>1, <4>2
      <4> QED
        BY <4>3
    <3>3. CASE \E l \in DOMAIN order : \E p \in Ops :
              /\ order[l] = p /\ ByItself(p) /\ e = EndOf(l, <<3, l, 0>>)
              /\ e.kind = KindOf(p) /\ e.op = p /\ e.ts = ops[p].end /\ e.place = <<3, l, 0>>
      <4>1. PICK l \in DOMAIN order : order[l] = o /\ ByItself(o) /\ e = EndOf(l, <<3, l, 0>>)
        BY <3>1, <3>3
      <4>2. l = k
        BY <1>1, <4>1 DEF OrderIsRight
      <4> QED
        BY <4>1, <4>2
    <3>4. o # "none" /\ o # "execution"
      BY Names
    <3> HIDE DEF made, w
    <3> QED
      BY <3>1, <3>2, <3>3, <3>4, WhoseEvents
  <2>2. ASSUME e \in made
        PROVE  e \in EventsOf(o)
    <3>1. PICK j \in UpdatesOf(o) : e = UpdateEvent(j)
      BY <2>2
    <3>2. j \in DOMAIN updates /\ e.op = o
      BY <1>2, <3>1
    <3>3. FromRecord(e)
      BY <3>1, <3>2 DEF FromRecord
    <3> QED
      BY <3>2, <3>3, EventsOfRecord DEF EventsOf
  <2>3. ASSUME ByItself(o), e = w
        PROVE  e \in EventsOf(o)
    <3>1. FromRecord(e)
      BY <2>3, Zenon DEF FromRecord
    <3> QED
      BY <1>5, <2>3, <3>1, EventsOfRecord DEF EventsOf
  <2> QED
    BY <2>1, <2>2, <2>3
<1> HIDE DEF made, w
<1>8. EventsOf(o) = made \cup (IF ByItself(o) THEN {w} ELSE {})
  <2>1. EventsOf(o) \subseteq Events
    BY DEF EventsOf
  <2>2. CASE ByItself(o)
    BY <1>7, <2>2
  <2>3. CASE ~ByItself(o)
    BY <1>7, <2>3
  <2> QED
    BY <2>2, <2>3
<1> QED
  BY <1>4, <1>6, <1>8 DEF made, w

\* How many events of an operation come up to one of its updates.
LEMMA UpdatesCounted ==
  ASSUME RecordInv, Recorded, NEW o \in Ops, NEW k \in DOMAIN order, order[k] = o, NEW i \in UpdatesOf(o)
  PROVE  /\ IsFiniteSet(UpTo(o, i))
         /\ Cardinality(Until(o, UpdateEvent(i))) = Cardinality(UpTo(o, i))
<1> DEFINE made == {UpdateEvent(j) : j \in UpdatesOf(o)}
           w == EndOf(k, <<3, k, 0>>)
           S == UpTo(o, i)
           T == Until(o, UpdateEvent(i))
           f == [j \in S |-> UpdateEvent(j)]
<1>1. /\ EventsOf(o) = made \cup (IF ByItself(o) THEN {w} ELSE {})
      /\ \A l, j \in UpdatesOf(o) :
           /\ Precedes(UpdateEvent(j), UpdateEvent(l)) <=> j < l
           /\ UpdateEvent(j) = UpdateEvent(l) <=> j = l
      /\ ByItself(o) => \A j \in UpdatesOf(o) :
           /\ Precedes(UpdateEvent(j), w) /\ ~Precedes(w, UpdateEvent(j)) /\ w # UpdateEvent(j)
  BY EventsOfOperation
<1>2. IsFiniteSet(S) /\ S \subseteq UpdatesOf(o) /\ \A j \in UpdatesOf(o) : j \in Nat
  <2>1. IsFiniteSet(UpdatesOf(o)) /\ \A j \in UpdatesOf(o) : j \in Nat
    BY Parity, TypesOfParts DEF RecordInv, UpdatesOf
  <2>2. S \in SUBSET UpdatesOf(o)
    BY DEF UpTo
  <2> QED
    BY <2>1, <2>2, FS_Subset
<1>3. \A j \in UpdatesOf(o) : UpdateEvent(j) \in EventsOf(o)
  BY <1>1
<1>4. f \in [S -> T] /\ \A j \in S : f[j] = UpdateEvent(j)
  <2>1. ASSUME NEW j \in S
        PROVE  UpdateEvent(j) \in T
    <3>1. j \in UpdatesOf(o) /\ (j < i \/ j = i)
      BY <1>2 DEF UpTo
    <3>2. UpdateEvent(j) = UpdateEvent(i) \/ Precedes(UpdateEvent(j), UpdateEvent(i))
      BY <1>1, <3>1
    <3> QED
      BY <1>3, <3>1, <3>2 DEF Until
  <2> QED
    BY <2>1
<1>5. \A x, y \in S : f[x] = f[y] => x = y
  BY <1>1, <1>2, <1>4
<1>6. \A t \in T : \E x \in S : f[x] = t
  <2>1. SUFFICES ASSUME NEW t \in T
                 PROVE  \E x \in S : f[x] = t
    OBVIOUS
  <2>2. t \in EventsOf(o) /\ (t = UpdateEvent(i) \/ Precedes(t, UpdateEvent(i)))
    BY DEF Until
  <2>3. t \in made
    BY <1>1, <2>2
  <2>4. PICK j \in UpdatesOf(o) : t = UpdateEvent(j)
    BY <2>3
  <2>5. j \in S
    BY <1>1, <1>2, <2>2, <2>4 DEF UpTo
  <2> QED
    BY <1>4, <2>4, <2>5
<1> HIDE DEF S, T, f
<1>7. Cardinality(T) = Cardinality(S)
  BY <1>2, <1>4, <1>5, <1>6, SameNumber
<1> QED
  BY <1>2, <1>7 DEF S, T

\* What the updates and the service did to an operation is told.
LEMMA OperationTells ==
  ASSUME RecordInv, Recorded, UpdatesFit, NEW o \in Ops
  PROVE  TellsOf(o)
<1>1. HistoryTypes /\ OrderIsRight /\ Agrees(o) /\ o \in All /\ KindOf(o) = Kind[o]
  BY Names DEF RecordInv, Recorded, KindOf, All
<1>2. CASE UpdatesOf(o) = {}
  <2>1. ops[o].status = "absent"
    BY <1>1, <1>2 DEF Agrees, Absent, LastUpdate
  <2>2. EventsOf(o) = {}
    <3>1. SUFFICES ASSUME NEW e \in Events, e.op = o
                   PROVE  FALSE
      BY DEF EventsOf
    <3>2. \A i \in DOMAIN updates : updates[i].op # o
      BY <1>2 DEF UpdatesOf
    <3>3. ~ByItself(o)
      BY <1>2 DEF ByItself, LastUpdate
    <3>4. o # "none" /\ o # "execution"
      BY Names
    <3> QED
      BY <3>1, <3>2, <3>3, <3>4, WhoseEvents
  <2> QED
    BY <2>1, <2>2 DEF TellsOf, EndStatuses
<1>3. CASE UpdatesOf(o) # {}
  <2>1. PICK k \in DOMAIN order : order[k] = o
    BY <1>1, <1>3 DEF OrderIsRight
  <2>2. PICK i \in DOMAIN updates :
          /\ LastUpdate(o, i)
          /\ Running(o, i) \/ Waiting(o, i) \/ Concluded(o, i) \/ Completed(o, i)
    BY <1>1, <1>3 DEF Agrees
  <2>3. Kind[o] # "invoke" /\ i \in UpdatesOf(o)
    BY <1>1, <1>3, <2>2 DEF Agrees, LastUpdate
  <2>4. PICK w : w = EndOf(k, <<3, k, 0>>)
    OBVIOUS
  <2>5. /\ EventsOf(o) = {UpdateEvent(j) : j \in UpdatesOf(o)} \cup (IF ByItself(o) THEN {w} ELSE {})
        /\ \A l, j \in UpdatesOf(o) :
             /\ Precedes(UpdateEvent(j), UpdateEvent(l)) <=> j < l
             /\ UpdateEvent(j) = UpdateEvent(l) <=> j = l
        /\ ByItself(o) => \A j \in UpdatesOf(o) :
             /\ Precedes(UpdateEvent(j), w) /\ ~Precedes(w, UpdateEvent(j)) /\ w # UpdateEvent(j)
    BY <2>1, <2>4, EventsOfOperation
  <2>6. ByItself(o) <=> Completed(o, i)
    <3>1. ASSUME ByItself(o)
          PROVE  Completed(o, i)
      <4>1. PICK j \in DOMAIN updates : LastUpdate(o, j) /\ Completed(o, j)
        BY <3>1 DEF ByItself
      <4>2. j <= i /\ i <= j /\ i \in Nat /\ j \in Nat
        BY <1>1, <2>2, <4>1, TypesOfParts DEF LastUpdate
      <4>3. j = i
        BY <4>2
      <4> QED
        BY <4>1, <4>3
    <3> QED
      BY <2>2, <3>1 DEF ByItself
  <2>7. ASSUME NEW j \in UpdatesOf(o)
        PROVE  /\ j \in DOMAIN updates /\ updates[j].op = o /\ j \in Nat /\ j <= i /\ UpdateEvent(j) \in EventsOf(o)
               /\ (UpdateEvent(j).what = "Started") <=> (updates[j].act = "START")
               /\ (UpdateEvent(j).what = "Started") <=> (Cardinality(Until(o, UpdateEvent(j))) % 2 = 1)
    <3>1. j \in DOMAIN updates /\ updates[j].op = o /\ j \in Nat
      BY <1>1, TypesOfParts DEF UpdatesOf
    <3>2. (UpdateEvent(j).what = "Started") <=> (updates[j].act = "START")
      BY <1>1, <2>3, <3>1, UpdateSays
    <3>3. (updates[j].act = "START") <=> (Cardinality(UpTo(o, j)) % 2 = 1)
      BY <3>1 DEF Recorded, TriesAlternate
    <3>4. Cardinality(Until(o, UpdateEvent(j))) = Cardinality(UpTo(o, j))
      BY <2>1, UpdatesCounted
    <3>5. j <= i
      BY <2>2 DEF LastUpdate
    <3> QED
      BY <2>5, <3>1, <3>2, <3>3, <3>4, <3>5
  <2>8. CASE ~Completed(o, i)
    <3>1. PICK e : e = UpdateEvent(i)
      OBVIOUS
    <3>2. EventsOf(o) = {UpdateEvent(j) : j \in UpdatesOf(o)}
      BY <2>5, <2>6, <2>8
    <3>3. IsLast(o, e)
      <4>1. ASSUME NEW f \in EventsOf(o)
            PROVE  f = e \/ Precedes(f, e)
        <5>1. PICK j \in UpdatesOf(o) : f = UpdateEvent(j)
          BY <3>2
        <5>2. j < i \/ j = i
          BY <2>2, <2>3, <2>7
        <5> QED
          BY <2>3, <2>5, <3>1, <5>1, <5>2
      <4> QED
        BY <2>3, <2>7, <3>1, <4>1 DEF IsLast
    <3>4. \A f \in EventsOf(o) : (f.what = "Started") <=> (Cardinality(Until(o, f)) % 2 = 1)
      BY <2>7, <3>2
    <3>5. e \in EventsOf(o) /\ e.ts = updates[i].ts /\ e.kind # "execution"
          /\ (e.what = "Started" <=> updates[i].act = "START")
      <4>1. e.ts = updates[i].ts /\ e.kind = KindOf(o)
        BY <2>3, <2>7, <3>1, UpdateFields
      <4>2. KindOf(o) # "execution"
        BY <1>1, Names, KindsOfOperations
      <4> QED
        BY <2>3, <2>7, <3>1, <4>1, <4>2
    <3>6. /\ updates[i].act = "SUCCEED" => StatusTold[e.what] = "SUCCEEDED"
          /\ updates[i].act = "FAIL" => StatusTold[e.what] = "FAILED" /\ (e.err <=> updates[i].err)
      BY <1>1, <2>3, <2>7, <3>1, UpdateSays
    <3>7. CASE Concluded(o, i)
      <4>1. /\ StatusTold[e.what] = ops[o].status /\ e.ts = ops[o].end /\ e.what # "Started"
            /\ ops[o].status \in {"SUCCEEDED", "FAILED"}
        BY <3>5, <3>6, <3>7 DEF Concluded
      <4>2. ops[o].status = "FAILED" => ops[o].err /\ e.err
        BY <3>6, <3>7 DEF Concluded
      <4> QED
        BY <3>3, <3>4, <3>5, <4>1, <4>2 DEF TellsOf
    <3>8. CASE Running(o, i)
      <4>1. ops[o].status = "STARTED" /\ e.what = "Started"
        BY <3>5, <3>8 DEF Running
      <4> QED
        BY <3>3, <3>4, <3>5, <4>1 DEF TellsOf, EndStatuses
    <3>9. CASE Waiting(o, i)
      <4>1. ops[o].status \in {"PENDING", "READY"}
        BY <3>9 DEF Waiting
      <4> QED
        BY <3>4, <4>1 DEF TellsOf, EndStatuses
    <3> QED
      BY <2>2, <2>8, <3>7, <3>8, <3>9
  <2>9. CASE Completed(o, i)
    <3>1. EventsOf(o) = {UpdateEvent(j) : j \in UpdatesOf(o)} \cup {w} /\ w \in EventsOf(o)
      BY <2>5, <2>6, <2>9
    <3>2. /\ updates[i].act = "START" /\ ops[o].err = (ops[o].status # "SUCCEEDED")
          /\ \/ Kind[o] = "wait" /\ ops[o].status = "SUCCEEDED"
             \/ Kind[o] = "callback" /\ ops[o].status \in {"SUCCEEDED", "FAILED", "TIMED_OUT"}
      BY <2>9 DEF Completed
    <3>3. IsLast(o, w)
      BY <2>5, <2>6, <2>9, <3>1 DEF IsLast
    <3>4. /\ w.what = EventTypes[KindOf(o)][ops[o].status]
          /\ w.err <=> ops[o].err /\ ops[o].status # "SUCCEEDED"
      BY <1>1, <2>1, <2>4, SnapshotFields
    <3>5. ops[o].status \in EndStatuses \cap DOMAIN EventTypes[KindOf(o)]
      <4>1. EventTypes["wait"] = WaitEvent /\ EventTypes["callback"] = CallbackEvent
        BY DEF EventTypes
      <4>2. /\ "SUCCEEDED" \in DOMAIN WaitEvent
            /\ {"SUCCEEDED", "FAILED", "TIMED_OUT"} \subseteq DOMAIN CallbackEvent
        BY DEF WaitEvent, CallbackEvent
      <4> QED
        BY <1>1, <3>2, <4>1, <4>2 DEF EndStatuses
    <3>6. w.what # "Started" /\ StatusTold[w.what] = ops[o].status
      BY <1>1, <3>4, <3>5, WhatIsTold
    <3>7. w.ts = ops[o].end /\ w.kind = KindOf(o) /\ w.kind # "execution"
      <4>1. PICK p : p = <<3, k, 0>>
        OBVIOUS
      <4>2. w.ts = ops[o].end /\ w.kind = KindOf(o)
        BY <2>1, <2>4, <4>1, OperationFields
      <4> QED
        BY <1>1, <4>2, Names, KindsOfOperations
    <3>8. Cardinality(Until(o, w)) % 2 = 0
      <4>1. Until(o, w) = EventsOf(o)
        BY <3>3 DEF Until, IsLast
      <4>2. /\ IsFiniteSet(UpTo(o, i)) /\ Cardinality(UpTo(o, i)) % 2 = 1
            /\ Cardinality(Until(o, UpdateEvent(i))) = Cardinality(UpTo(o, i))
        <5>1. (updates[i].act = "START") <=> (Cardinality(UpTo(o, i)) % 2 = 1)
          BY <2>3, <2>7 DEF Recorded, TriesAlternate
        <5> QED
          BY <2>1, <2>3, <3>2, <5>1, UpdatesCounted
      <4>3. Until(o, UpdateEvent(i)) = {UpdateEvent(j) : j \in UpdatesOf(o)}
        <5>1. \A j \in UpdatesOf(o) : UpdateEvent(j) = UpdateEvent(i) \/ Precedes(UpdateEvent(j), UpdateEvent(i))
          <6>1. \A j \in UpdatesOf(o) : j < i \/ j = i
            BY <2>3, <2>7
          <6> QED
            BY <2>3, <2>5, <6>1
        <5>2. w # UpdateEvent(i) /\ ~Precedes(w, UpdateEvent(i))
          BY <2>3, <2>5, <2>6, <2>9
        <5> QED
          BY <3>1, <5>1, <5>2 DEF Until
      <4>4. PICK U : U = {UpdateEvent(j) : j \in UpdatesOf(o)}
        OBVIOUS
      <4>5. IsFiniteSet(Until(o, w)) /\ Until(o, w) = U \cup {w} /\ w \notin U
        <5>1. IsFiniteSet(Events)
          BY <1>1, EventsAreOrdered DEF Ordered
        <5>2. EventsOf(o) \in SUBSET Events
          BY DEF EventsOf
        <5>3. w \notin U
          BY <2>5, <2>6, <2>9, <4>4
        <5> QED
          BY <3>1, <4>1, <4>4, <5>1, <5>2, <5>3, FS_Subset
      <4>6. IsFiniteSet(U)
        BY <4>5, FS_Subset
      <4>7. Cardinality(Until(o, w)) = Cardinality(U) + 1 /\ Cardinality(U) \in Nat
        BY <4>5, <4>6, FS_AddElement, FS_CardinalityType
      <4>8. Cardinality(U) % 2 = 1
        BY <4>2, <4>3, <4>4
      <4> QED
        BY <4>7, <4>8
    <3>9. \A f \in EventsOf(o) : (f.what = "Started") <=> (Cardinality(Until(o, f)) % 2 = 1)
      <4>1. SUFFICES ASSUME NEW f \in EventsOf(o)
                     PROVE  (f.what = "Started") <=> (Cardinality(Until(o, f)) % 2 = 1)
        OBVIOUS
      <4>2. CASE f = w
        BY <3>6, <3>8, <4>2
      <4>3. CASE f # w
        <5>1. PICK j \in UpdatesOf(o) : f = UpdateEvent(j)
          BY <3>1, <4>3
        <5> QED
          BY <2>7, <5>1
      <4> QED
        BY <4>2, <4>3
    <3>10. ops[o].status = "FAILED" => (ops[o].err <=> \E f \in EventsOf(o) : f.err /\ f.kind # "execution")
      <4>1. SUFFICES ASSUME ops[o].status = "FAILED"
                     PROVE  ops[o].err /\ w.err
        BY <3>1, <3>7
      <4>2. ops[o].err
        BY <3>2, <4>1
      <4> QED
        BY <3>4, <4>1, <4>2, Zenon
    <3>11. ops[o].status \in EndStatuses /\ ops[o].status # "STARTED" /\ ops[o].status # "absent"
      BY <3>2 DEF EndStatuses
    <3> QED
      BY <3>1, <3>3, <3>6, <3>7, <3>9, <3>10, <3>11, Zenon DEF TellsOf
  <2> QED
    BY <2>8, <2>9
<1> QED
  BY <1>2, <1>3

\* Every operation is told right, whichever way the record was made.
LEMMA AllIsTold ==
  ASSUME RecordInv, UpdatesFit, NEW o \in All
  PROVE  TellsOf(o)
<1>1. CASE invocation.phase = "none"
  BY <1>1, ByHandTells DEF RecordInv
<1>2. CASE invocation.phase # "none"
  <2>1. Recorded
    BY <1>2 DEF RecordInv
  <2> QED
    BY <2>1, ExecutionTells, OperationTells DEF All
<1> QED
  BY <1>1, <1>2

\* Whoever reads the history is told the record.
LEMMA RecordIsTold ==
  ASSUME HistoryTypes, \A o \in All : TellsOf(o)
  PROVE  HistoryTellsTheRecord
<1>1. ASSUME NEW o \in All, ~(KindOf(o) = "invoke" /\ ops[o].status = "PENDING"), NEW i \in Mine(o)
      PROVE  (History[i].what = "Started") <=> (Cardinality({j \in Mine(o) : j <= i}) % 2 = 1)
  <2>1. History[i] \in EventsOf(o)
    BY WhereMineAre
  <2>2. (History[i].what = "Started") <=> (Cardinality(Until(o, History[i])) % 2 = 1)
    BY <1>1, <2>1 DEF TellsOf
  <2> QED
    BY <2>2, CountedAlike
<1>2. StartsAndEndsAlternate(History)
  BY <1>1, Zenon DEF StartsAndEndsAlternate, Mine
<1>3. ASSUME NEW o \in All
      PROVE  LET told == EventsToOperations(History)
             IN /\ ops[o].status \in EndStatuses =>
                     /\ told[o].status = ops[o].status /\ told[o].end = ops[o].end
                     /\ ops[o].status = "FAILED" /\ o # "execution" => told[o].err = ops[o].err
                /\ ops[o].status = "STARTED" => told[o].status = "STARTED"
                /\ ops[o].status = "absent" => o \notin DOMAIN told
  <2> DEFINE told == EventsToOperations(History)
  <2>1. TellsOf(o) /\ o # "none" /\ ops[o] \in OperationRecord
    BY Names DEF HistoryTypes
  <2>2. ASSUME ops[o].status \in EndStatuses
        PROVE  /\ told[o].status = ops[o].status /\ told[o].end = ops[o].end
               /\ ops[o].status = "FAILED" /\ o # "execution" => told[o].err = ops[o].err
    <3>1. PICK e \in EventsOf(o) :
            /\ IsLast(o, e) /\ e.what # "Started"
            /\ StatusTold[e.what] = ops[o].status /\ e.ts = ops[o].end
      BY <2>1, <2>2 DEF TellsOf
    <3>2. /\ told[o].status = StatusTold[e.what] /\ told[o].end = e.ts
          /\ told[o].err \in BOOLEAN
          /\ told[o].err <=> \E f \in EventsOf(o) : f.err /\ f.kind # "execution"
      BY <2>1, <3>1, MergedOf
    <3>3. ops[o].status = "FAILED" /\ o # "execution" =>
            (ops[o].err <=> \E f \in EventsOf(o) : f.err /\ f.kind # "execution")
      BY <2>1 DEF TellsOf
    <3>4. ops[o].err \in BOOLEAN
      BY <2>1 DEF OperationRecord
    <3> HIDE DEF told
    <3>5. ops[o].status = "FAILED" /\ o # "execution" => told[o].err = ops[o].err
      BY <3>2, <3>3, <3>4
    <3> QED
      BY <3>1, <3>2, <3>5
  <2>3. ASSUME ops[o].status = "STARTED"
        PROVE  told[o].status = "STARTED"
    <3>1. PICK e \in EventsOf(o) : IsLast(o, e) /\ e.what = "Started"
      BY <2>1, <2>3 DEF TellsOf
    <3>2. told[o].status = StatusTold[e.what]
      BY <2>1, <3>1, MergedOf
    <3> QED
      BY <3>1, <3>2 DEF StatusTold
  <2>4. ASSUME ops[o].status = "absent"
        PROVE  o \notin DOMAIN told
    <3>1. EventsOf(o) = {}
      BY <2>1, <2>4 DEF TellsOf
    <3>2. DOMAIN told = {History[i].op : i \in DOMAIN History} \ {"none"}
      BY Zenon DEF EventsToOperations
    <3>3. \A i \in DOMAIN History : History[i].op # o
      BY <3>1, WhereMineAre DEF Mine
    <3> QED
      BY <3>2, <3>3
  <2> QED
    BY <2>2, <2>3, <2>4
<1> QED
  BY <1>2, <1>3, Zenon DEF HistoryTellsTheRecord

\* The events tell the record: starts and ends alternate, and events_to_operations rebuilds
\* the outcome, the end and the error of every operation, for any operations, any updates
\* with any equal times, and any record a test sets up by hand.
THEOREM HistoryAlwaysTellsTheRecord == HistorySpec => []HistoryTellsTheRecord
<1>1. HistoryInv => HistoryTellsTheRecord
  <2>1. SUFFICES ASSUME HistoryInv
                 PROVE  HistoryTellsTheRecord
    OBVIOUS
  <2>2. RecordInv /\ UpdatesFit /\ HistoryTypes
    BY <2>1 DEF HistoryInv, RecordInv
  <2>3. \A o \in All : TellsOf(o)
    BY <2>2, AllIsTold
  <2> QED
    BY <2>2, <2>3, RecordIsTold
<1> QED
  BY <1>1, HistoryInvHolds, PTL
=============================================================================
