------------------------------ MODULE LocalApi ------------------------------
(***************************************************************************)
(* The HTTP interface of the local runner: a thread per request parses the *)
(* path into a route, the handler of the route checks the request, and the *)
(* executor serves it, at once or on the lane of the execution; the answer *)
(* is a status code.  Here is one execution with one callback, which       *)
(* clients and its own timers want to complete at the same time.           *)
(***************************************************************************)
EXTENDS Naturals, Sequences, FiniteSets

CONSTANTS
  Clients,      \* programs that send requests
  Handler,      \* the client that runs the function: it sends the checkpoints
  Requests,     \* what the other clients send
  MaxRequests,  \* how many of them
  Timeouts      \* the timeouts the callback is created with

ASSUME ApiAssumption ==
  /\ Handler \in Clients
  /\ MaxRequests \in Nat
  /\ Timeouts \subseteq {"main", "beat"}

-----------------------------------------------------------------------------
\* Routes.  A path is its decoded segments, and whether it is just that: a
\* route without captures is compared with the raw path.

Version == "2025-12-01"

Fixed(type, method, name) ==
  [type |-> type, method |-> method, raw |-> TRUE, pattern |-> <<name>>, bytes |-> FALSE]
Pattern(type, method, pattern) ==
  [type |-> type, method |-> method, raw |-> FALSE, pattern |-> <<Version>> \o pattern,
   bytes |-> type \in {"CallbackSuccess", "CallbackFailure"}]

StartExecutionRoute == Fixed("StartExecution", "POST", "start-durable-execution")
GetDurableExecutionRoute ==
  Pattern("GetDurableExecution", "GET", <<"durable-executions", "*">>)
CheckpointDurableExecutionRoute ==
  Pattern("CheckpointDurableExecution", "POST", <<"durable-executions", "*", "checkpoint">>)
StopDurableExecutionRoute ==
  Pattern("StopDurableExecution", "POST", <<"durable-executions", "*", "stop">>)
GetDurableExecutionStateRoute ==
  Pattern("GetDurableExecutionState", "GET", <<"durable-executions", "*", "state">>)
GetDurableExecutionHistoryRoute ==
  Pattern("GetDurableExecutionHistory", "GET", <<"durable-executions", "*", "history">>)
ListDurableExecutionsRoute ==
  Pattern("ListDurableExecutions", "GET", <<"durable-executions">>)
ListDurableExecutionsByFunctionRoute ==
  Pattern("ListDurableExecutionsByFunction", "GET", <<"functions", "*", "durable-executions">>)
CallbackSuccessRoute ==
  Pattern("CallbackSuccess", "POST", <<"durable-execution-callbacks", "*", "succeed">>)
CallbackFailureRoute ==
  Pattern("CallbackFailure", "POST", <<"durable-execution-callbacks", "*", "fail">>)
CallbackHeartbeatRoute ==
  Pattern("CallbackHeartbeat", "POST", <<"durable-execution-callbacks", "*", "heartbeat">>)
HealthRoute == Fixed("Health", "GET", "health")
UpdateLambdaEndpointRoute == Fixed("UpdateLambdaEndpoint", "PUT", "lambda-endpoint")
MetricsRoute == Fixed("Metrics", "GET", "metrics")

DefaultRouteTypes ==
  << StartExecutionRoute, GetDurableExecutionRoute, CheckpointDurableExecutionRoute,
     StopDurableExecutionRoute, GetDurableExecutionStateRoute,
     GetDurableExecutionHistoryRoute, ListDurableExecutionsRoute,
     ListDurableExecutionsByFunctionRoute, CallbackSuccessRoute, CallbackFailureRoute,
     CallbackHeartbeatRoute, HealthRoute, UpdateLambdaEndpointRoute, MetricsRoute >>

MatchesPattern(path, pattern) ==
  /\ Len(path.segments) = Len(pattern)
  /\ \A i \in DOMAIN pattern : pattern[i] \in {"*", path.segments[i]}

IsMatch(route, path, method) ==
  /\ method = route.method
  /\ IF route.raw THEN path.plain /\ path.segments = route.pattern
                  ELSE MatchesPattern(path, route.pattern)

Unknown == [type |-> "Unknown"]

\* The first of the list that matches.
FindRoute(path, method) ==
  LET matches == {i \in DOMAIN DefaultRouteTypes : IsMatch(DefaultRouteTypes[i], path, method)}
  IN IF matches = {} THEN Unknown
     ELSE DefaultRouteTypes[CHOOSE i \in matches : \A j \in matches : i <= j]

-----------------------------------------------------------------------------
\* Handlers.  Each refuses the request, or asks something of the executor: at
\* once in its own thread, or as a task on the lane of an execution.

E == "execution"

\* Callback ids and the execution each belongs to; no other string is one.
CallbackArn == [callback |-> E, strangerOfE |-> E, callbackOfAnother |-> "another"]

InvalidParameter == 400
NotFound == 404
ServiceError == 500

Refuse(code) == [by |-> "refusal", do |-> "nothing", arn |-> "none", id |-> "none",
                 token |-> 0, code |-> code]
AtOnce(what, arn) == [Refuse(200) EXCEPT !.by = "thread", !.do = what, !.arn = arn]
OnLane(what, arn) == [AtOnce(what, arn) EXCEPT !.by = "lane"]

Captured(r) == IF Len(r.path.segments) < 3 THEN "none" ELSE r.path.segments[3]

\* A query parameter that is a number: int() of anything else is a ValueError.
WithNumber(r, work) == IF r.query = "good" THEN work ELSE Refuse(InvalidParameter)
\* _parse_json_body and the required fields: an empty body is a missing one.
WithBody(r, work) == IF r.body = "good" THEN work ELSE Refuse(InvalidParameter)

StartExecutionHandler(r) == WithBody(r, [AtOnce("start", E) EXCEPT !.code = 201])
GetDurableExecutionHandler(r) == AtOnce("details", Captured(r))
CheckpointDurableExecutionHandler(r) ==
  WithBody(r, [OnLane("checkpoint", Captured(r)) EXCEPT !.token = r.token])
StopDurableExecutionHandler(r) == OnLane("stop", Captured(r))
GetDurableExecutionStateHandler(r) ==
  WithNumber(r, [OnLane("state", Captured(r)) EXCEPT !.token = r.token])
GetDurableExecutionHistoryHandler(r) == WithNumber(r, AtOnce("history", Captured(r)))
ListDurableExecutionsHandler(r) == WithNumber(r, AtOnce("list", "none"))
ListDurableExecutionsByFunctionHandler(r) ==
  IF Captured(r) = "blank" THEN Refuse(InvalidParameter)
  ELSE WithNumber(r, AtOnce("list", "none"))
HealthHandler(r) == AtOnce("health", "none")
MetricsHandler(r) == AtOnce("metrics", "none")
UpdateLambdaEndpointHandler(r) == WithBody(r, AtOnce("endpoint", "none"))

\* send_callback_*: whatever fails, an id that is none included, is told as NotFound.
OfCallback(what, id) ==
  IF id \in DOMAIN CallbackArn THEN [OnLane(what, CallbackArn[id]) EXCEPT !.id = id]
  ELSE Refuse(NotFound)

\* The result is decoded in the task; bytes that are no text leave the callback as it is.
SendDurableExecutionCallbackSuccessHandler(r) ==
  OfCallback(IF r.body = "malformed" THEN "undecodable" ELSE "SUCCEEDED", Captured(r))
SendDurableExecutionCallbackFailureHandler(r) ==
  IF r.body = "malformed" THEN Refuse(InvalidParameter)
  ELSE OfCallback("FAILED", Captured(r))
SendDurableExecutionCallbackHeartbeatHandler(r) == OfCallback("heartbeat", Captured(r))

\* _handle_request: an unknown route is no API exception, hence a service error; a
\* body is JSON unless the route takes bytes or the method is GET.
Work(r) ==
  LET route == FindRoute(r.path, r.method) IN
  IF route.type = "Unknown" THEN Refuse(ServiceError)
  ELSE IF ~route.bytes /\ r.method # "GET" /\ r.body = "malformed" THEN Refuse(InvalidParameter)
  ELSE [StartExecution |-> StartExecutionHandler(r),
        GetDurableExecution |-> GetDurableExecutionHandler(r),
        CheckpointDurableExecution |-> CheckpointDurableExecutionHandler(r),
        StopDurableExecution |-> StopDurableExecutionHandler(r),
        GetDurableExecutionState |-> GetDurableExecutionStateHandler(r),
        GetDurableExecutionHistory |-> GetDurableExecutionHistoryHandler(r),
        ListDurableExecutions |-> ListDurableExecutionsHandler(r),
        ListDurableExecutionsByFunction |-> ListDurableExecutionsByFunctionHandler(r),
        CallbackSuccess |-> SendDurableExecutionCallbackSuccessHandler(r),
        CallbackFailure |-> SendDurableExecutionCallbackFailureHandler(r),
        CallbackHeartbeat |-> SendDurableExecutionCallbackHeartbeatHandler(r),
        Health |-> HealthHandler(r),
        UpdateLambdaEndpoint |-> UpdateLambdaEndpointHandler(r),
        Metrics |-> MetricsHandler(r)][route.type]

-----------------------------------------------------------------------------
VARIABLES
  exec,      \* status of the execution
  callback,  \* status of its callback
  settled,   \* the invocation that created the callback has ended
  timers,    \* the timers of the callback that are armed
  lanes,     \* per execution, the tasks on its lane
  pool,      \* what the scheduler's one thread does
  calls,     \* invocations requested
  handed,    \* the callback as the last invocation was told of it
  token,     \* the token of the next checkpoint
  endpoint,  \* where the invoker finds the function
  conn,      \* per client: what its request asks for, and the answer
  sent,      \* requests sent by clients other than the handler
  acked      \* history: the completions of the callback answered with 200

record == <<exec, callback, settled, timers, handed, token, endpoint>>
apiVars == <<record, lanes, pool, calls, conn, sent, acked>>

Arns == {E, "another"}
Ended == {"SUCCEEDED", "FAILED", "TIMED_OUT"}
Closed == exec \in Ended \cup {"STOPPED"}
NoRequest == [method |-> "GET", path |-> [plain |-> TRUE, segments |-> <<>>],
              body |-> "lacking", query |-> "good", token |-> 0]
Idle == [at |-> "idle", work |-> Refuse(0), told |-> "none"]

\* What becomes of each request, which the state has no part in.
WorkOf == [r \in Requests |-> Work(r)]

ApiInit ==
  /\ exec = "absent" /\ callback = "absent" /\ settled = FALSE
  /\ timers = {} /\ calls = 0 /\ handed = "absent" /\ token = 0
  /\ lanes = [a \in Arns |-> <<>>]
  /\ pool = "free" /\ endpoint = "configured"
  /\ conn = [c \in Clients |-> Idle]
  /\ sent = 0 /\ acked = <<>>

\* What the thread of a request, or a lane, finds out: the answer's code and content.
Tell(c, code, what) ==
  [conn[c] EXCEPT !.at = "served", !.work.code = code, !.told = what]

-----------------------------------------------------------------------------
\* A request arrives.

Ask(c, work) ==
  /\ conn[c].at = "idle"
  /\ conn' = [conn EXCEPT ![c] = [Idle EXCEPT !.at = "sent", !.work = work]]
  /\ UNCHANGED <<record, lanes, pool, calls, acked>>

Send(c, r) == sent < MaxRequests /\ sent' = sent + 1 /\ Ask(c, WorkOf[r])

\* The request that starts the execution, or another one, is not counted.
SendStart(c) ==
  /\ exec = "absent" /\ sent' = sent
  /\ Ask(c, Work([NoRequest EXCEPT !.method = "POST", !.body = "good",
              !.path.segments = StartExecutionRoute.pattern]))

\* The function, when invoked, creates the callback, or reads the state again.
HandlerSends ==
  /\ pool = "invocation"
  /\ \E route \in {CheckpointDurableExecutionRoute, GetDurableExecutionStateRoute} :
       /\ (route = CheckpointDurableExecutionRoute) = (callback = "absent")
       /\ Ask(Handler, Work([NoRequest EXCEPT !.method = route.method, !.body = "good",
                 !.token = token, !.path.segments = [route.pattern EXCEPT ![3] = E]]))
  /\ UNCHANGED sent

\* What a thread does at once.  An execution started later is another one, not shown here.
Start ==
  /\ exec' = IF exec = "absent" THEN "RUNNING" ELSE exec
  /\ calls' = IF exec = "absent" THEN calls + 1 ELSE calls
  /\ UNCHANGED endpoint

AtOnceEffect(what) ==
  \/ what = "start" /\ Start
  \/ what = "endpoint" /\ endpoint' = "updated" /\ UNCHANGED <<exec, calls>>
  \/ what \notin {"start", "endpoint"} /\ UNCHANGED <<exec, calls, endpoint>>

Code(work) ==
  IF work.do \in {"details", "history"} /\ (work.arn # E \/ exec = "absent")
  THEN NotFound ELSE work.code

Handle(c) ==
  /\ conn[c].at = "sent"
  /\ LET work == conn[c].work IN
     \/ /\ work.by = "refusal"
        /\ conn' = [conn EXCEPT ![c] = Tell(c, work.code, "none")]
        /\ UNCHANGED <<record, lanes, calls>>
     \/ /\ work.by = "thread"
        /\ AtOnceEffect(work.do)
        /\ conn' = [conn EXCEPT ![c] = Tell(c, Code(work),
                      IF Code(work) = NotFound THEN "none"
                      ELSE IF work.do = "history" /\ settled THEN "callbackId" ELSE exec)]
        /\ UNCHANGED <<callback, settled, timers, handed, token, lanes>>
     \/ /\ work.by = "lane"
        /\ lanes' = [lanes EXCEPT ![work.arn] = Append(@, <<"request", c>>)]
        /\ conn' = [conn EXCEPT ![c].at = "queued"]
        /\ UNCHANGED <<record, calls>>
  /\ UNCHANGED <<pool, sent, acked>>

-----------------------------------------------------------------------------
\* Tasks on the lane.

Known(work) == work.arn = E /\ exec # "absent"
TokenHolds(work) == pool = "invocation" /\ ~Closed /\ work.token = token

\* find_callback_operation, and the status it must have.
Open(work) == work.id = "callback" /\ callback = "STARTED"

\* The checkpoint creates the callback; on_callback_created arms its timers.
Checkpoint ==
  /\ callback' = "STARTED" /\ timers' = Timeouts /\ token' = token + 1
  /\ UNCHANGED exec

Stop ==
  /\ exec' = IF Closed THEN exec ELSE "STOPPED"
  /\ UNCHANGED <<callback, timers, token>>

\* complete_callback_*, then _cleanup_callback_timeouts.
Complete(outcome) ==
  /\ callback' = outcome /\ timers' = {}
  /\ UNCHANGED <<exec, token>>

\* Mutant: the fresh timer is forgotten.
HeartbeatOnlyCancels == timers' = timers \ {"beat"} /\ UNCHANGED <<exec, callback, token>>

\* _reset_callback_heartbeat_timeout: cancel the timer, arm one as the callback's options say.
Heartbeat ==
  /\ timers' = (timers \ {"beat"}) \cup (Timeouts \cap {"beat"})
  /\ UNCHANGED <<exec, callback, token>>

\* The answer to a task, which changes the record only if it is good.
TaskCode(work) ==
  IF ~Known(work) THEN NotFound
  ELSE IF work.do \in {"checkpoint", "state"}
  THEN IF TokenHolds(work) /\ (work.do = "checkpoint" => callback = "absent")
       THEN 200 ELSE InvalidParameter
  ELSE IF work.do = "stop" \/ (work.do # "undecodable" /\ Open(work)) THEN 200 ELSE NotFound

Effect(work) ==
  \/ work.do = "checkpoint" /\ Checkpoint
  \/ work.do = "stop" /\ Stop
  \/ work.do \in {"SUCCEEDED", "FAILED"} /\ Complete(work.do)
  \/ work.do = "heartbeat" /\ Heartbeat
  \/ work.do = "state" /\ UNCHANGED <<exec, callback, timers, token>>

RunRequest(a) ==
  /\ lanes[a] # <<>> /\ Head(lanes[a])[1] = "request"
  /\ LET c == Head(lanes[a])[2]
         code == TaskCode(conn[c].work)
     IN /\ \/ code = 200 /\ Effect(conn[c].work)
           \/ code # 200 /\ UNCHANGED <<exec, callback, timers, token>>
        /\ conn' = [conn EXCEPT ![c] = Tell(c, code, "none")]
  /\ lanes' = [lanes EXCEPT ![a] = Tail(@)]
  /\ UNCHANGED <<settled, handed, endpoint, pool, calls, sent, acked>>

\* The thread goes on after its task: a completion requests an invocation before it is answered.
Completes(work) == work.do \in {"SUCCEEDED", "FAILED"} /\ work.by = "lane"

Respond(c) ==
  /\ conn[c].at = "served"
  /\ IF Completes(conn[c].work) /\ conn[c].work.code = 200
     THEN acked' = Append(acked, conn[c].work.do) /\ calls' = calls + 1
     ELSE UNCHANGED <<acked, calls>>
  /\ conn' = [conn EXCEPT ![c].at = "answered"]
  /\ UNCHANGED <<record, lanes, pool, sent>>

Read(c) ==
  /\ conn[c].at = "answered"
  /\ conn' = [conn EXCEPT ![c] = Idle]
  /\ UNCHANGED <<record, lanes, pool, calls, sent, acked>>

-----------------------------------------------------------------------------
\* The scheduler's thread: the timers of the callback, and the invocations.

\* A timer is due: its handler puts a task on the lane and waits for it.
TimerFires(timer) ==
  /\ timer \in timers /\ pool = "free"
  /\ timers' = timers \ {timer} /\ pool' = "timer"
  /\ lanes' = [lanes EXCEPT ![E] = Append(@, <<"timeout", timer>>)]
  /\ UNCHANGED <<exec, callback, settled, handed, token, endpoint, calls, conn, sent, acked>>

\* Mutant: the timeout does not look at what became of the callback.
TimesOutAnything == TRUE

TimesOut == callback = "STARTED"

\* _apply_callback_timeout; the other timer stays armed.  If it raises no invocation follows.
RunTimeout ==
  /\ lanes[E] # <<>> /\ Head(lanes[E])[1] = "timeout"
  /\ lanes' = [lanes EXCEPT ![E] = Tail(@)]
  /\ \/ Closed /\ pool' = "timerDone" /\ UNCHANGED callback
     \/ ~Closed /\ TimesOut /\ callback' = "TIMED_OUT" /\ pool' = "timerDone"
     \/ ~Closed /\ ~TimesOut /\ pool' = "free" /\ UNCHANGED callback
  /\ UNCHANGED <<exec, settled, timers, handed, token, endpoint, calls, conn, sent, acked>>

TimerInvokes ==
  /\ pool = "timerDone" /\ pool' = "free" /\ calls' = calls + 1
  /\ UNCHANGED <<record, lanes, conn, sent, acked>>

\* _begin_invocation, if the execution is open.
Begin ==
  /\ calls > 0 /\ pool = "free"
  /\ calls' = calls - 1
  /\ IF Closed THEN UNCHANGED <<handed, token, pool>>
     ELSE pool' = "invocation" /\ handed' = callback /\ token' = token + 1
  /\ UNCHANGED <<exec, callback, settled, timers, endpoint, lanes, conn, sent, acked>>

\* The function waits for the callback, or ends as its outcome says; its answer to an
\* execution that is closed is ignored.
Finish ==
  /\ pool = "invocation" /\ conn[Handler].at = "idle"
  /\ callback # "absent" \/ Closed
  /\ pool' = "free" /\ settled' = (callback # "absent")
  /\ exec' = IF Closed \/ handed \notin Ended THEN exec
             ELSE IF handed = "SUCCEEDED" THEN "SUCCEEDED" ELSE "FAILED"
  /\ UNCHANGED <<callback, timers, handed, token, endpoint, lanes, calls, conn, sent, acked>>

Serve(c) == Handle(c) \/ Respond(c)
RunLane(a) == RunRequest(a) \/ (a = E /\ RunTimeout)
Pool == TimerInvokes \/ Begin

ServerStep == (\E c \in Clients : Serve(c)) \/ (\E a \in Arns : RunLane(a)) \/ Pool

\* Steps of the function, of its timers and of other clients.
OtherStep(others) ==
  \/ \E c \in others : SendStart(c) \/ \E r \in Requests : Send(c, r)
  \/ \E c \in others \cup {Handler} : Read(c)
  \/ HandlerSends \/ Finish
  \/ \E t \in Timeouts : TimerFires(t)

\* The threads of the server, of the lane and of the pool go on; clients read their answers.
ApiFairness ==
  /\ \A c \in Clients : WF_apiVars(Serve(c))
  /\ \A a \in Arns : WF_apiVars(RunLane(a))
  /\ WF_apiVars(Pool)
  /\ WF_apiVars(Read(Handler)) /\ WF_apiVars(HandlerSends) /\ SF_apiVars(Finish)

-----------------------------------------------------------------------------
\* Properties.

\* Of the clients that complete the callback and its timers one wins, and who is answered
\* 200 has won: the callback has that outcome, and keeps it (send_callback_success,
\* send_callback_failure, _on_callback_timeout).
OneOutcome ==
  /\ Len(acked) <= 1
  /\ \A i \in DOMAIN acked : callback = acked[i]

\* An open callback keeps each of its timeouts, armed or under way, whatever heartbeats
\* arrive (_reset_callback_heartbeat_timeout): it cannot wait for ever.
OpenCallbackIsTimed ==
  callback = "STARTED" /\ ~Closed =>
    \A t \in Timeouts :
      t \in timers \/ \E i \in DOMAIN lanes[E] : lanes[E][i] = <<"timeout", t>>

=============================================================================
