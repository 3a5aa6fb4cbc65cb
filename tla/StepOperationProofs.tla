-------------------------- MODULE StepOperationProofs --------------------------
(***************************************************************************)
(* For every number of attempts, every set of results and every pattern of *)
(* deaths: the attempts of an AT_MOST_ONCE step run at most once, those of *)
(* an AT_LEAST_ONCE step at least once, and what the handler is given is   *)
(* what the service keeps.  One invariant, StepInv, carries all of them.   *)
(***************************************************************************)
EXTENDS StepOperation, SequenceTheorems, TLAPS

USE DEF AtMostOnce, Semantics

\* The call waits for the update that ends its attempt.
Closing == pc \in {"succeeding", "failing", "retrying"}

Closes(p) ==
  IF p = "succeeding" THEN "SUCCEED" ELSE IF p = "failing" THEN "FAIL" ELSE "RETRY"

StartOnTheWay == queue # <<>> /\ queue[1].action = "START"

\* What may be on its way to the service, by where the call is.
OnTheWay ==
  /\ pc \in {"down", "check", "suspended", "returned"} => queue = <<>>
  /\ pc \in {"starting", "body", "fatal"} =>
       queue = <<>> \/ (Len(queue) = 1 /\ queue[1].action = "START")
  /\ Closing =>
       /\ Len(queue) <= 2
       /\ Len(queue) = 2 => queue[1].action = "START"
       /\ queue # <<>> => queue[Len(queue)] = Update(Closes(pc), payload)
  /\ StartOnTheWay => op.status \in {"none", "READY"} /\ (AtMostOnce => pc = "starting")

\* The service's operation when everything on its way has not arrived, or has.
Acting ==
  /\ pc = "starting" => AtMostOnce /\ (queue = <<>> => op.status = "STARTED")
  /\ pc = "body" => taken = op.attempt /\ (queue = <<>> => op.status = "STARTED")
  /\ Closing /\ queue # <<>> =>
       taken = op.attempt /\ (queue[1].action # "START" => op.status = "STARTED")
  /\ Closing /\ queue = <<>> =>
       /\ pc = "succeeding" => op.status = "SUCCEEDED" /\ op.payload = payload
       /\ pc = "failing" => op.status = "FAILED" /\ op.payload = payload
       /\ pc = "retrying" => op.status \in {"PENDING", "READY"}
  /\ pc = "retrying" => taken + 1 < MaxAttempts
  /\ op.status \notin Terminal => op.attempt < MaxAttempts

\* The SDK's view misses at most that the time of a retry has come.
Viewed ==
  pc # "down" => view = op \/ (view.status = "PENDING" /\ op.status = "READY")

\* The outcomes given, and that nothing is done once there is one.
Outcome ==
  /\ GivenIsDurable
  /\ given # {} => op.status \in Terminal /\ pc \in {"down", "check", "returned", "fatal"}

\* AT_MOST_ONCE: the current attempt has run only if it is STARTED and no run is ahead.
RunsAtMost ==
  AtMostOnce =>
    /\ \A a \in Attempts : runs[a] <= 1
    /\ \A a \in Attempts : a > op.attempt + 1 => runs[a] = 0
    /\ op.status # "STARTED" \/ pc \in {"starting", "body"} =>
         \A a \in Attempts : a = op.attempt + 1 => runs[a] = 0

\* AT_LEAST_ONCE: an attempt that is being closed has run.
RunsAtLeast ==
  ~AtMostOnce =>
    /\ \A a \in 1 .. op.attempt : runs[a] >= 1
    /\ Closing /\ queue # <<>> => runs[taken + 1] >= 1

StepInv ==
  TypeOK /\ OnTheWay /\ Acting /\ Viewed /\ Outcome /\ RunsAtMost /\ RunsAtLeast

Updates == [action : {"START", "RETRY", "SUCCEED", "FAIL"}, payload : Payloads]

-----------------------------------------------------------------------------
(* Sequences *)

LEMMA TailFacts ==
  ASSUME NEW S, NEW s \in Seq(S), s # <<>>
  PROVE  /\ Tail(s) \in Seq(S) /\ Len(Tail(s)) = Len(s) - 1 /\ Head(s) = s[1]
         /\ Len(s) \in Nat /\ Len(s) >= 1
         /\ \A i \in 1 .. Len(s) - 1 : Tail(s)[i] = s[i + 1]
OBVIOUS

LEMMA HeadFacts ==
  ASSUME NEW S, NEW s \in Seq(S), s # <<>>
  PROVE  /\ Head(s) \in S
         /\ (Len(s) = 1) <=> (Tail(s) = <<>>)
         /\ Len(s) = 2 => Len(Tail(s)) = 1 /\ Tail(s)[1] = s[2]
<1>1. Len(s) \in Nat /\ Len(s) >= 1
  BY TailFacts
<1>2. Head(s) = s[1] /\ s[1] \in S
  BY <1>1
<1>3. Tail(s) \in Seq(S) /\ Len(Tail(s)) = Len(s) - 1
  BY TailFacts
<1>4. Tail(s) # <<>> => Len(Tail(s)) \in Nat \ {0}
  BY <1>3, EmptySeq
<1>5. Tail(s) = <<>> => Len(Tail(s)) = 0
  BY EmptySeq
<1>6. (Len(s) = 1) <=> (Tail(s) = <<>>)
  BY <1>1, <1>3, <1>4, <1>5
<1>7. Len(s) = 2 => Len(Tail(s)) = 1 /\ Tail(s)[1] = s[2]
  <2> SUFFICES ASSUME Len(s) = 2 PROVE Len(Tail(s)) = 1 /\ Tail(s)[1] = s[2]
    OBVIOUS
  <2>1. \A i \in 1 .. Len(Tail(s)) : Tail(s)[i] = s[i + 1]
    BY TailFacts
  <2>2. Len(Tail(s)) = 1 /\ 1 \in 1 .. Len(Tail(s)) /\ 1 + 1 = 2
    BY <1>3
  <2> QED
    BY <2>1, <2>2, Zenon
<1> QED
  BY <1>2, <1>6, <1>7

LEMMA AppendFacts ==
  ASSUME NEW S, NEW s \in Seq(S), NEW e \in S
  PROVE  /\ Append(s, e) \in Seq(S) /\ Len(Append(s, e)) = Len(s) + 1 /\ Len(s) \in Nat
         /\ Append(s, e) # <<>> /\ Append(s, e)[Len(s) + 1] = e
         /\ \A i \in 1 .. Len(s) : Append(s, e)[i] = s[i]
         /\ (s = <<>>) <=> (Len(s) = 0)
OBVIOUS

-----------------------------------------------------------------------------
(* The invariant holds at first and is kept by every step *)

LEMMA InitStep == Init => StepInv
<1> SUFFICES ASSUME Init PROVE StepInv
  OBVIOUS
<1> USE StepAssumption
<1>1. TypeOK
  <2>1. queue \in Seq(Updates)
    BY DEF Init
  <2>2. op \in Operation /\ view \in Operation
    BY DEF Init, NotFound, Operation, Payloads
  <2> QED
    BY <2>1, <2>2 DEF Init, TypeOK, Updates, Payloads, Attempts
<1>2. OnTheWay /\ Viewed /\ Outcome
  BY DEF Init, OnTheWay, StartOnTheWay, Closing, Viewed, Outcome, GivenIsDurable
<1>3. Acting
  BY DEF Init, Acting, Closing, NotFound
<1>4. RunsAtMost
  BY DEF Init, RunsAtMost
<1>5. RunsAtLeast
  BY DEF Init, RunsAtLeast, Closing, NotFound
<1> QED
  BY <1>1, <1>2, <1>3, <1>4, <1>5 DEF StepInv

\* The time of a retry comes: nothing is on its way, for the retry was waited for.
LEMMA FireStep == StepInv /\ Fire => StepInv'
<1> SUFFICES ASSUME StepInv, Fire PROVE StepInv'
  OBVIOUS
<1> USE StepAssumption
<1>1. /\ op.status = "PENDING" /\ op \in Operation
      /\ op' = [op EXCEPT !.status = "READY"]
      /\ UNCHANGED <<semantics, view, queue, pc, taken, payload, crashes, runs, given>>
  BY DEF Fire, StepInv, TypeOK
<1>2. /\ op'.status = "READY" /\ op'.attempt = op.attempt /\ op'.payload = op.payload
      /\ op' \in Operation
  BY <1>1 DEF Operation
<1>3. TypeOK'
  BY <1>1, <1>2 DEF StepInv, TypeOK
<1>4. OnTheWay' /\ Outcome'
  BY <1>1, <1>2 DEF StepInv, OnTheWay, StartOnTheWay, Closing, Outcome, GivenIsDurable, Terminal
<1>5. Acting' /\ Viewed'
  BY <1>1, <1>2 DEF StepInv, Acting, OnTheWay, StartOnTheWay, Closing, Terminal, Viewed
<1>6. RunsAtMost' /\ RunsAtLeast'
  BY <1>1, <1>2 DEF StepInv, RunsAtMost, RunsAtLeast, Closing
<1> QED
  BY <1>3, <1>4, <1>5, <1>6 DEF StepInv

\* The service takes an update: a START when the step is not running, or the update that
\* closes the attempt acted upon, which is the one running.
LEMMA Service ==
  ASSUME StepInv, queue # <<>>, op' = Applied(op, Head(queue))
  PROVE  /\ op' \in Operation /\ Tail(queue) \in Seq(Updates)
         /\ \/ /\ Head(queue).action = "START" /\ StartOnTheWay
               /\ op.status \in {"none", "READY"}
               /\ op'.status = "STARTED" /\ op'.attempt = op.attempt
            \/ /\ ~StartOnTheWay /\ Closing /\ Tail(queue) = <<>>
               /\ op.status = "STARTED" /\ taken = op.attempt
               /\ op'.attempt = op.attempt + 1 /\ op'.payload = payload
               /\ op'.status = CASE pc = "succeeding" -> "SUCCEEDED"
                                 [] pc = "failing" -> "FAILED" [] pc = "retrying" -> "PENDING"
<1> USE StepAssumption
<1> DEFINE h == Head(queue)
<1>1. queue \in Seq(Updates) /\ op \in Operation
  BY DEF StepInv, TypeOK, Updates
<1>2. /\ h \in Updates /\ h = queue[1] /\ Tail(queue) \in Seq(Updates)
      /\ Len(queue) \in Nat /\ Len(queue) >= 1
  BY <1>1, TailFacts, HeadFacts
<1>3. /\ op'.status = StatusAfter(h.action) /\ op'.payload = h.payload
      /\ op'.attempt = (IF h.action = "START" THEN op.attempt ELSE op.attempt + 1)
      /\ op' = [status |-> op'.status, attempt |-> op'.attempt, payload |-> op'.payload]
  BY DEF Applied
<1>4. op.attempt \in 0 .. MaxAttempts /\ h.payload \in Payloads
  BY <1>1, <1>2 DEF Operation, Updates
<1>5. CASE h.action = "START"
  <2>1. StartOnTheWay /\ op.status \in {"none", "READY"}
    BY <1>2, <1>5 DEF StepInv, OnTheWay, StartOnTheWay
  <2>2. op'.status = "STARTED" /\ op'.attempt = op.attempt
    BY <1>3, <1>5 DEF StatusAfter
  <2>3. op' \in Operation
    BY <1>3, <1>4, <2>2 DEF Operation
  <2> QED
    BY <1>2, <1>5, <2>1, <2>2, <2>3
<1>6. CASE h.action # "START"
  <2>1. ~StartOnTheWay
    BY <1>2, <1>6 DEF StartOnTheWay
  <2>2. Closing
    BY <1>2, <1>6 DEF StepInv, OnTheWay, TypeOK, Closing
  <2>3. Len(queue) = 1
    <3>1. Len(queue) <= 2 /\ Len(queue) # 2
      BY <1>2, <1>6, <2>2 DEF StepInv, OnTheWay, Closing
    <3>2. Len(queue) \in Nat /\ Len(queue) >= 1
      BY <1>2
    <3>3. \A n \in Nat : n >= 1 /\ n <= 2 /\ n # 2 => n = 1
      OBVIOUS
    <3> QED
      BY <3>1, <3>2, <3>3
  <2>4. Tail(queue) = <<>>
    BY <1>1, <2>3, HeadFacts
  <2>5. h = Update(Closes(pc), payload)
    BY <1>2, <2>2, <2>3 DEF StepInv, OnTheWay
  <2>6. op.status = "STARTED" /\ taken = op.attempt
    BY <1>2, <1>6, <2>2 DEF StepInv, Acting
  <2>7. op.attempt < MaxAttempts
    BY <2>6 DEF StepInv, Acting, Terminal
  <2>8. op'.attempt = op.attempt + 1 /\ op'.payload = payload
    BY <1>3, <1>6, <2>5 DEF Update
  <2>9. op'.status = CASE pc = "succeeding" -> "SUCCEEDED"
                       [] pc = "failing" -> "FAILED" [] pc = "retrying" -> "PENDING"
    BY <1>3, <2>2, <2>5 DEF Update, Closes, StatusAfter, Closing
  <2>10. op' \in Operation
    BY <1>3, <1>4, <2>2, <2>7, <2>8, <2>9 DEF Operation, Closing, Terminal
  <2> QED
    BY <1>2, <2>1, <2>2, <2>4, <2>6, <2>8, <2>9, <2>10
<1> QED
  BY <1>5, <1>6

\* What the attempts made become when the service takes an update.
LEMMA ServiceRuns ==
  ASSUME StepInv, queue # <<>>, op' = Applied(op, Head(queue)), runs' = runs
  PROVE  /\ AtMostOnce =>
              /\ \A a \in Attempts : a > op'.attempt + 1 => runs[a] = 0
              /\ op'.status = "STARTED" => pc = "starting"
              /\ op'.status # "STARTED" \/ pc = "starting" =>
                   \A a \in Attempts : a = op'.attempt + 1 => runs[a] = 0
         /\ ~AtMostOnce => \A a \in 1 .. op'.attempt : runs[a] >= 1
<1> USE StepAssumption
<1>1. op.attempt \in Nat /\ op' \in Operation /\ op'.attempt \in Nat
  BY Service DEF StepInv, TypeOK, Operation
<1>2. CASE StartOnTheWay
  <2>1. op.status # "STARTED" /\ op'.attempt = op.attempt
    BY <1>2, Service
  <2>2. AtMostOnce => pc = "starting"
    BY <1>2 DEF StepInv, OnTheWay
  <2> QED
    BY <1>1, <2>1, <2>2 DEF StepInv, RunsAtMost, RunsAtLeast
<1>3. CASE ~StartOnTheWay
  <2>1. /\ Closing /\ op.status = "STARTED" /\ taken = op.attempt
        /\ op'.attempt = op.attempt + 1 /\ op'.status # "STARTED"
    BY <1>3, Service DEF Closing
  <2>2. \A a \in Attempts : a > op'.attempt => a > op.attempt + 1 /\ a # op.attempt + 1
    BY <1>1, <2>1 DEF Attempts
  <2>3. AtMostOnce => \A a \in Attempts : a > op.attempt + 1 => runs[a] = 0
    BY DEF StepInv, RunsAtMost
  <2>4. AtMostOnce => \A a \in Attempts : a > op'.attempt => runs[a] = 0
    BY <1>1, <2>1, <2>3 DEF Attempts
  <2>5. \A a \in Attempts : a >= op'.attempt + 1 => a > op'.attempt
    BY <1>1 DEF Attempts
  <2>6. ~AtMostOnce => \A a \in 1 .. op'.attempt : runs[a] >= 1
    <3>1. ~AtMostOnce => (\A a \in 1 .. op.attempt : runs[a] >= 1) /\ runs[op.attempt + 1] >= 1
      BY <2>1 DEF StepInv, RunsAtLeast
    <3>2. \A a \in 1 .. op'.attempt : a \in 1 .. op.attempt \/ a = op.attempt + 1
      BY <1>1, <2>1
    <3> QED
      BY <3>1, <3>2
  <2>7. AtMostOnce => \A a \in Attempts : a = op'.attempt + 1 => runs[a] = 0
    BY <1>1, <2>4 DEF Attempts
  <2>8. AtMostOnce => \A a \in Attempts : a > op'.attempt + 1 => runs[a] = 0
    BY <1>1, <2>4 DEF Attempts
  <2> QED
    BY <2>1, <2>6, <2>7, <2>8
<1> QED
  BY <1>2, <1>3

\* The pipeline: what is acted upon keeps matching what is on its way.
LEMMA SendStep == StepInv /\ Send => StepInv'
<1> SUFFICES ASSUME StepInv, Send PROVE StepInv'
  OBVIOUS
<1> USE StepAssumption
<1>1. /\ queue # <<>> /\ op' = Applied(op, Head(queue)) /\ queue' = Tail(queue) /\ view' = op'
      /\ UNCHANGED <<semantics, pc, taken, payload, crashes, runs, given>>
  BY DEF Send
<1>2. queue \in Seq(Updates)
  BY DEF StepInv, TypeOK, Updates
<1>3. TypeOK'
  BY <1>1, Service DEF StepInv, TypeOK, Updates
<1>4. Viewed'
  BY <1>1 DEF Viewed
<1>5. Outcome'
  <2>1. op.status \in {"none", "READY", "STARTED"}
    BY <1>1, Service
  <2> QED
    BY <1>1, <2>1 DEF StepInv, Outcome, GivenIsDurable, Terminal
<1>6. OnTheWay' /\ Acting'
  <2>1. CASE StartOnTheWay
    <3>1. op'.status = "STARTED" /\ op'.attempt = op.attempt
      BY <1>1, <2>1, Service
    <3>2. CASE Tail(queue) = <<>>
      <4>1. Len(queue) = 1
        BY <1>1, <1>2, <3>2, HeadFacts
      <4>2. ~Closing
        BY <1>1, <2>1, <4>1 DEF StepInv, OnTheWay, StartOnTheWay, Closing, Closes, Update
      <4>3. OnTheWay'
        BY <1>1, <3>2, <4>2 DEF OnTheWay, StartOnTheWay, Closing
      <4>4. op.attempt < MaxAttempts
        BY <1>1, <2>1 DEF StepInv, OnTheWay, Acting, Terminal
      <4>5. Acting'
        BY <1>1, <3>1, <3>2, <4>2, <4>4 DEF StepInv, Acting, Closing
      <4> QED
        BY <4>3, <4>5
    <3>3. CASE Tail(queue) # <<>>
      <4>1. Len(queue) \in Nat /\ Len(queue) # 1 /\ Len(queue) >= 1
        BY <1>1, <1>2, <3>3, TailFacts, HeadFacts
      <4>2. Closing
        BY <1>1, <4>1 DEF StepInv, OnTheWay, TypeOK, Closing
      <4>3. Len(queue) <= 2
        BY <4>2 DEF StepInv, OnTheWay
      <4>4. Len(queue) = 2
        <5>1. \A n \in Nat : n >= 1 /\ n <= 2 /\ n # 1 => n = 2
          OBVIOUS
        <5> QED
          BY <4>1, <4>3, <5>1
      <4>5. Len(queue') = 1 /\ queue'[1] = queue[2]
        BY <1>1, <1>2, <4>4, HeadFacts
      <4>6. queue[2] = Update(Closes(pc), payload)
        BY <1>1, <4>2, <4>4 DEF StepInv, OnTheWay
      <4>7. queue'[1].action # "START"
        BY <4>5, <4>6 DEF Update, Closes
      <4>8. OnTheWay'
        <5>1. queue' # <<>> /\ queue'[Len(queue')] = Update(Closes(pc'), payload')
          BY <1>1, <3>3, <4>5, <4>6
        <5>2. Len(queue') <= 2 /\ Len(queue') # 2
          BY <4>5
        <5>3. pc' = pc /\ op' = op'
          BY <1>1
        <5>4. ~StartOnTheWay'
          BY <4>7 DEF StartOnTheWay
        <5> QED
          BY <4>2, <5>1, <5>2, <5>3, <5>4 DEF OnTheWay, Closing
      <4>9. taken = op.attempt /\ op.attempt < MaxAttempts
        BY <1>1, <2>1, <4>2 DEF StepInv, OnTheWay, Acting, Terminal
      <4>10. Acting'
        BY <1>1, <3>1, <3>3, <4>2, <4>9 DEF StepInv, Acting, Closing
      <4> QED
        BY <4>8, <4>10
    <3> QED
      BY <3>2, <3>3
  <2>2. CASE ~StartOnTheWay
    <3>1. /\ Closing /\ queue' = <<>> /\ taken = op.attempt
          /\ op'.attempt = op.attempt + 1 /\ op'.payload = payload
          /\ op'.status = CASE pc = "succeeding" -> "SUCCEEDED"
                            [] pc = "failing" -> "FAILED" [] pc = "retrying" -> "PENDING"
      BY <1>1, <2>2, Service DEF Closing
    <3>2. OnTheWay'
      <4>1. Len(queue') = 0
        BY <3>1, EmptySeq
      <4>2. Len(queue') <= 2 /\ Len(queue') # 2
        BY <4>1
      <4>3. ~StartOnTheWay'
        BY <3>1 DEF StartOnTheWay
      <4> QED
        BY <1>1, <3>1, <4>2, <4>3 DEF OnTheWay, Closing
    <3>3. op'.status \notin Terminal => pc = "retrying"
      BY <3>1 DEF Closing, Terminal
    <3>4. Acting'
      BY <1>1, <3>1, <3>3 DEF StepInv, Acting, Closing
    <3> QED
      BY <3>2, <3>4
  <2> QED
    BY <2>1, <2>2
<1>7. RunsAtMost'
  <2>1. AtMostOnce => \A a \in Attempts : runs[a] <= 1
    BY DEF StepInv, RunsAtMost
  <2>2. AtMostOnce => (pc = "body" => op.status = "STARTED" /\ queue = <<>>)
    BY DEF StepInv, OnTheWay, Acting, StartOnTheWay
  <2>3. AtMostOnce => pc # "body"
    BY <1>1, <2>2
  <2>4. AtMostOnce =>
          /\ \A a \in Attempts : a > op'.attempt + 1 => runs[a] = 0
          /\ op'.status # "STARTED" \/ pc = "starting" =>
               \A a \in Attempts : a = op'.attempt + 1 => runs[a] = 0
    <3>1. runs' = runs /\ queue # <<>> /\ op' = Applied(op, Head(queue))
      BY <1>1
    <3> QED
      BY <3>1, ServiceRuns
  <2> QED
    BY <1>1, <2>1, <2>3, <2>4 DEF RunsAtMost
<1>8. RunsAtLeast'
  BY <1>1, ServiceRuns DEF StepInv, RunsAtLeast, Closing
<1> QED
  BY <1>3, <1>4, <1>5, <1>6, <1>7, <1>8 DEF StepInv

\* A death empties the pipeline; of what was in it the service has at most the first update.
LEMMA DeathStep == StepInv /\ (LoseAnswer \/ Crash) => StepInv'
<1> SUFFICES ASSUME StepInv, LoseAnswer \/ Crash PROVE StepInv'
  OBVIOUS
<1> USE StepAssumption
<1>1. /\ pc \notin {"down", "fatal"} /\ crashes < MaxCrashes /\ crashes' = crashes + 1
      /\ pc' = "down" /\ queue' = <<>> /\ UNCHANGED <<semantics, view, taken, payload, runs, given>>
  BY DEF LoseAnswer, Crash, Dies
<1>2. op' \in Operation
  BY Service DEF LoseAnswer, Crash, StepInv, TypeOK
<1>3. queue' \in Seq(Updates)
  BY <1>1, EmptySeq
<1>4. TypeOK'
  BY <1>1, <1>2, <1>3 DEF StepInv, TypeOK, Updates
<1>5. OnTheWay' /\ Viewed' /\ ~Closing'
  BY <1>1 DEF OnTheWay, StartOnTheWay, Closing, Viewed
<1>6. CASE Crash
  <2>1. op' = op
    BY <1>6 DEF Crash
  <2>2. Acting' /\ Outcome'
    BY <1>1, <1>5, <2>1 DEF StepInv, Acting, Outcome, GivenIsDurable, Closing
  <2>3. RunsAtMost' /\ RunsAtLeast'
    BY <1>1, <1>5, <2>1 DEF StepInv, RunsAtMost, RunsAtLeast
  <2> QED
    BY <1>4, <1>5, <2>2, <2>3 DEF StepInv
<1>7. CASE LoseAnswer
  <2>1. queue # <<>> /\ op' = Applied(op, Head(queue)) /\ runs' = runs
    BY <1>1, <1>7 DEF LoseAnswer
  <2>2. Outcome'
    <3>1. op.status \in {"none", "READY", "STARTED"}
      BY <2>1, Service
    <3>2. given = {}
      BY <3>1 DEF StepInv, Outcome, Terminal
    <3> QED
      BY <1>1, <3>2 DEF Outcome, GivenIsDurable
  <2>3. Acting'
    <3>1. op'.status \notin Terminal => op'.attempt < MaxAttempts
      <4>1. op.status \in {"none", "READY", "STARTED"} => op.attempt < MaxAttempts
        BY DEF StepInv, Acting, Terminal
      <4>2. op'.status = "PENDING" => pc = "retrying" /\ taken + 1 < MaxAttempts
        BY <2>1, Service DEF StepInv, Acting, Closing
      <4>3. /\ op'.status \notin Terminal => op'.status \in {"STARTED", "PENDING"}
            /\ op'.status = "STARTED" =>
                 op.status \in {"none", "READY"} /\ op'.attempt = op.attempt
            /\ op'.status = "PENDING" => op'.attempt = taken + 1
        BY <2>1, Service DEF Closing, Terminal
      <4> QED
        BY <4>1, <4>2, <4>3
    <3> QED
      BY <1>1, <1>5, <3>1 DEF Acting
  <2>4. RunsAtMost' /\ RunsAtLeast'
    <3>1. AtMostOnce => \A a \in Attempts : runs[a] <= 1
      BY DEF StepInv, RunsAtMost
    <3> QED
      BY <1>1, <1>5, <2>1, <3>1, ServiceRuns DEF RunsAtMost, RunsAtLeast
  <2> QED
    BY <1>4, <1>5, <2>2, <2>3, <2>4 DEF StepInv
<1> QED
  BY <1>6, <1>7

\* Steps that only move the call, or read the service's state again.
LEMMA MoveStep ==
  StepInv /\ (Invoke \/ RetryIsPending \/ Retry \/ Suspend \/ ResumeInPlace) => StepInv'
<1> SUFFICES ASSUME StepInv, Invoke \/ RetryIsPending \/ Retry \/ Suspend \/ ResumeInPlace
             PROVE  StepInv'
  OBVIOUS
<1> USE StepAssumption
<1>1. /\ UNCHANGED <<semantics, op, queue, taken, payload, crashes, runs, given>>
      /\ pc' \in {"check", "suspended", "down"} /\ (view' = view \/ view' = op)
      /\ pc \in {"down", "check", "retrying", "suspended"} /\ (pc = "down" => view' = op)
      /\ pc' = "suspended" => pc \in {"check", "retrying"}
  BY DEF Invoke, RetryIsPending, Retry, Suspend, ResumeInPlace
<1>2. queue = <<>>
  BY DEF StepInv, OnTheWay, Invoke, RetryIsPending, Retry, Suspend, ResumeInPlace
<1>3. TypeOK'
  BY <1>1 DEF StepInv, TypeOK
<1>4. OnTheWay' /\ ~Closing'
  BY <1>1, <1>2 DEF OnTheWay, StartOnTheWay, Closing
<1>5. Acting' /\ Viewed'
  BY <1>1, <1>4 DEF StepInv, Acting, Viewed
<1>6. Outcome'
  <2>1. given # {} => pc' \in {"check", "down"}
    BY DEF StepInv, Outcome, Viewed, Terminal,
           Invoke, RetryIsPending, Retry, Suspend, ResumeInPlace
  <2> QED
    BY <1>1, <2>1 DEF StepInv, Outcome, GivenIsDurable
<1>7. RunsAtMost' /\ RunsAtLeast'
  BY <1>1, <1>2, <1>4 DEF StepInv, RunsAtMost, RunsAtLeast
<1> QED
  BY <1>3, <1>4, <1>5, <1>6, <1>7 DEF StepInv

\* The steps that give the handler an outcome.
LEMMA OutcomeStep == StepInv /\ (ReplayResult \/ ReplayError \/ Succeed \/ Fail) => StepInv'
<1> SUFFICES ASSUME StepInv, ReplayResult \/ ReplayError \/ Succeed \/ Fail PROVE StepInv'
  OBVIOUS
<1> USE StepAssumption
<1>1. /\ UNCHANGED <<semantics, op, view, queue, taken, payload, crashes, runs>>
      /\ pc' = "returned" /\ pc # "down"
  BY DEF ReplayResult, ReplayError, Succeed, Fail
<1>2. queue = <<>>
  BY DEF StepInv, OnTheWay, ReplayResult, ReplayError, Succeed, Fail
<1>3. PICK g : /\ given' = given \cup {g} /\ g.what = op.payload
               /\ op.status = (IF g.how = "returns" THEN "SUCCEEDED" ELSE "FAILED")
               /\ g \in [how : {"returns", "CallableRuntimeError", "StepInterruptedError"},
                         what : Payloads]
  <2> DEFINE Given(g) == /\ given' = given \cup {g} /\ g.what = op.payload
                         /\ op.status = (IF g.how = "returns" THEN "SUCCEEDED" ELSE "FAILED")
                         /\ g \in [how : {"returns", "CallableRuntimeError", "StepInterruptedError"},
                                   what : Payloads]
  <2>1. op.payload \in Payloads
    BY DEF StepInv, TypeOK, Operation
  <2>2. CASE ReplayResult
    <3>1. Given(Returns(op.payload))
      BY <2>1, <2>2 DEF ReplayResult, Returns, StepInv, Viewed
    <3> QED
      BY <3>1
  <2>3. CASE ReplayError
    <3>1. Given(Raises("CallableRuntimeError", op.payload))
      BY <2>1, <2>3 DEF ReplayError, Raises, StepInv, Viewed
    <3> QED
      BY <3>1
  <2>4. CASE Succeed
    <3>1. Given(Returns(op.payload))
      BY <2>1, <2>4 DEF Succeed, Returns, StepInv, Acting, Closing
    <3> QED
      BY <3>1
  <2>5. CASE Fail
    <3>1. PICK e \in {"StepInterruptedError", "CallableRuntimeError"} :
            given' = given \cup {Raises(e, op.payload)}
      BY <2>5 DEF Fail, StepInv, Acting, Closing
    <3>2. Given(Raises(e, op.payload))
      BY <2>1, <2>5, <3>1 DEF Fail, Raises, StepInv, Acting, Closing
    <3> QED
      BY <3>2
  <2> QED
    BY <2>2, <2>3, <2>4, <2>5
<1>4. TypeOK'
  BY <1>1, <1>3 DEF StepInv, TypeOK
<1>5. OnTheWay' /\ ~Closing' /\ Viewed'
  BY <1>1, <1>2 DEF StepInv, OnTheWay, StartOnTheWay, Closing, Viewed
<1>6. Acting'
  BY <1>1, <1>5 DEF StepInv, Acting
<1>7. Outcome'
  BY <1>1, <1>3 DEF StepInv, Outcome, GivenIsDurable, Terminal
<1>8. RunsAtMost' /\ RunsAtLeast'
  BY <1>1, <1>2, <1>5 DEF StepInv, RunsAtMost, RunsAtLeast
<1> QED
  BY <1>4, <1>5, <1>6, <1>7, <1>8 DEF StepInv

\* Before a run: a step found STARTED, and a step that sends its START.
LEMMA StartStep == StepInv /\ (RunAgain \/ Start \/ Started) => StepInv'
<1> SUFFICES ASSUME StepInv, RunAgain \/ Start \/ Started PROVE StepInv'
  OBVIOUS
<1> USE StepAssumption
<1>1. /\ UNCHANGED <<semantics, op, view, payload, crashes, runs, given>> /\ queue = <<>>
      /\ pc \in {"check", "starting"} /\ pc' \in {"starting", "body"}
      /\ pc' = "starting" => AtMostOnce
      /\ view = op \/ (view.status = "PENDING" /\ op.status = "READY")
  BY DEF RunAgain, Start, NotStarted, Started, StepInv, OnTheWay, Viewed
<1>2. op \in Operation /\ op.attempt \in 0 .. MaxAttempts /\ op.attempt \in Nat
  BY DEF StepInv, TypeOK, Operation
<1>3. view = op /\ op.status \in {"none", "READY", "STARTED"}
  BY <1>1 DEF RunAgain, Start, NotStarted, Started
<1>4. op.attempt < MaxAttempts
  BY <1>3 DEF StepInv, Acting, Terminal
<1>5. pc' = "body" => taken' = op.attempt
  BY <1>1, <1>3 DEF RunAgain, Start, Started
<1>6. taken' \in 0 .. MaxAttempts - 1
  BY <1>2, <1>3, <1>4 DEF RunAgain, Start, Started, StepInv, TypeOK
<1>7. \/ /\ queue' = <<>> /\ op.status = "STARTED" /\ pc' = "body"
      \/ /\ queue' = <<Update("START", None)>> /\ op.status \in {"none", "READY"}
         /\ AtMostOnce => pc' = "starting"
  <2>1. queue' = queue \/ queue' = Append(queue, Update("START", None))
    BY DEF RunAgain, Start, Started
  <2>2. Append(<<>>, Update("START", None)) = <<Update("START", None)>>
    OBVIOUS
  <2> QED
    BY <1>1, <1>3, <2>2 DEF RunAgain, Start, NotStarted, Started
<1>8. Update("START", None) \in Updates
  BY DEF Update, Updates, Payloads
<1>9. queue' \in Seq(Updates)
  <2>1. queue \in Seq(Updates) /\ Append(queue, Update("START", None)) \in Seq(Updates)
    BY <1>8, AppendFacts DEF StepInv, TypeOK, Updates
  <2> QED
    BY <2>1 DEF RunAgain, Start, Started
<1>10. given = {}
  BY <1>3 DEF StepInv, Outcome, Terminal
<1>11. TypeOK'
  BY <1>1, <1>6, <1>9 DEF StepInv, TypeOK, Updates
<1>12. OnTheWay'
  <2>1. CASE queue' = <<>>
    BY <1>1, <2>1 DEF OnTheWay, StartOnTheWay, Closing
  <2>2. CASE queue' = <<Update("START", None)>>
    <3>1. queue'[1].action = "START" /\ Len(queue') = 1
      BY <2>2 DEF Update
    <3> QED
      BY <1>1, <1>7, <2>2, <3>1 DEF OnTheWay, StartOnTheWay, Closing
  <2> QED
    BY <1>7, <2>1, <2>2
<1>13. Acting' /\ Viewed' /\ Outcome'
  BY <1>1, <1>3, <1>4, <1>5, <1>7, <1>10
  DEF Acting, Viewed, Outcome, GivenIsDurable, Closing
<1>14. RunsAtMost' /\ RunsAtLeast'
  <2>1. AtMostOnce /\ op.status = "STARTED" => pc = "starting"
    BY <1>1, <1>3, <1>7 DEF RunAgain, Start, NotStarted, Started
  <2> QED
    BY <1>1, <2>1 DEF StepInv, RunsAtMost, RunsAtLeast, Closing
<1> QED
  BY <1>11, <1>12, <1>13, <1>14 DEF StepInv

\* A run of the function counts for the attempt that is acted upon, which is the current one.
LEMMA RunFacts ==
  ASSUME StepInv, pc = "body", Ran
  PROVE  /\ runs' \in [Attempts -> Nat] /\ taken + 1 \in Attempts /\ taken = op.attempt
         /\ runs'[taken + 1] >= 1
         /\ \A a \in Attempts : runs'[a] >= runs[a]
         /\ AtMostOnce => /\ queue = <<>> /\ op.status = "STARTED"
                          /\ \A a \in Attempts : runs'[a] <= 1
                          /\ \A a \in Attempts : a > op.attempt + 1 => runs'[a] = 0
<1> USE StepAssumption
<1>1. /\ runs \in [Attempts -> Nat] /\ taken \in 0 .. MaxAttempts - 1 /\ taken = op.attempt
      /\ runs' = [runs EXCEPT ![taken + 1] = @ + 1]
  BY DEF StepInv, TypeOK, Acting, Ran
<1>2. taken + 1 \in Attempts
  BY <1>1 DEF Attempts
<1>3. /\ runs' \in [Attempts -> Nat]
      /\ runs'[taken + 1] = runs[taken + 1] + 1
      /\ \A a \in Attempts : a # taken + 1 => runs'[a] = runs[a]
  BY <1>1, <1>2
<1>4. \A a \in Attempts : runs[a] \in Nat
  BY <1>1
<1>5. AtMostOnce => queue = <<>> /\ op.status = "STARTED"
  BY DEF StepInv, OnTheWay, Acting, StartOnTheWay
<1>6. AtMostOnce => /\ runs[taken + 1] = 0
                    /\ \A a \in Attempts : runs[a] <= 1
                    /\ \A a \in Attempts : a > op.attempt + 1 => runs[a] = 0
  BY <1>1, <1>2 DEF StepInv, RunsAtMost
<1>7. \A a \in Attempts : a > op.attempt + 1 => a # taken + 1
  BY <1>1 DEF Attempts
<1>8. AtMostOnce => /\ \A a \in Attempts : runs'[a] <= 1
                    /\ \A a \in Attempts : a > op.attempt + 1 => runs'[a] = 0
  BY <1>3, <1>6, <1>7
<1> QED
  BY <1>1, <1>2, <1>3, <1>4, <1>5, <1>8

\* The execution fails although the step's result is durable.
LEMMA ReadBackStep == StepInv /\ ReadBackFails => StepInv'
<1> SUFFICES ASSUME StepInv, ReadBackFails PROVE StepInv'
  OBVIOUS
<1> USE StepAssumption
<1>1. /\ pc \in {"succeeding", "check"} /\ pc' = "fatal"
      /\ UNCHANGED <<semantics, op, view, queue, taken, payload, crashes, runs, given>>
  BY DEF ReadBackFails
<1>2. queue = <<>> /\ op.status = "SUCCEEDED"
  BY DEF ReadBackFails, StepInv, OnTheWay, Acting, Closing, Viewed
<1>3. TypeOK'
  BY <1>1 DEF StepInv, TypeOK
<1>4. OnTheWay' /\ Acting' /\ Viewed' /\ Outcome'
  BY <1>1, <1>2 DEF StepInv, OnTheWay, StartOnTheWay, Acting, Closing, Viewed, Outcome,
                    GivenIsDurable, Terminal
<1>5. RunsAtMost' /\ RunsAtLeast'
  BY <1>1, <1>2 DEF StepInv, RunsAtMost, RunsAtLeast, Closing
<1> QED
  BY <1>3, <1>4, <1>5 DEF StepInv

LEMMA FatalStep == StepInv /\ RunIsFatal => StepInv'
<1> SUFFICES ASSUME StepInv, RunIsFatal PROVE StepInv'
  OBVIOUS
<1> USE StepAssumption
<1>1. /\ pc = "body" /\ pc' = "fatal" /\ Ran
      /\ UNCHANGED <<semantics, op, view, queue, taken, payload, crashes, given>>
  BY DEF RunIsFatal
<1>2. TypeOK'
  BY <1>1, RunFacts DEF StepInv, TypeOK
<1>3. OnTheWay' /\ Acting'
  BY <1>1, RunFacts DEF StepInv, OnTheWay, StartOnTheWay, Acting, Closing
<1>4. Viewed' /\ Outcome'
  BY <1>1 DEF StepInv, Viewed, Outcome, GivenIsDurable
<1>5. RunsAtMost'
  BY <1>1, RunFacts DEF RunsAtMost
<1>6. RunsAtLeast'
  <2>1. op.attempt \in 0 .. MaxAttempts
    BY DEF StepInv, TypeOK, Operation
  <2>2. \A a \in 1 .. op.attempt : a \in Attempts
    BY <2>1 DEF Attempts
  <2>3. \A a \in Attempts : runs[a] \in Nat /\ runs'[a] \in Nat /\ runs'[a] >= runs[a]
    BY <1>1, RunFacts DEF StepInv, TypeOK
  <2> QED
    BY <1>1, <2>2, <2>3 DEF StepInv, RunsAtLeast, Closing
<1> QED
  BY <1>2, <1>3, <1>4, <1>5, <1>6 DEF StepInv

\* The update that closes an attempt is queued: after a run, or for an interrupted attempt.
LEMMA CloseStep == StepInv /\ (Interrupted \/ RunSucceeds \/ RunRaises) => StepInv'
<1> SUFFICES ASSUME StepInv, Interrupted \/ RunSucceeds \/ RunRaises PROVE StepInv'
  OBVIOUS
<1> USE StepAssumption
<1>1. /\ UNCHANGED <<semantics, op, view, crashes, given>>
      /\ \/ pc = "body" /\ Ran /\ taken' = taken
         \/ /\ pc = "check" /\ view.status = "STARTED" /\ AtMostOnce
            /\ taken' = view.attempt /\ runs' = runs
  BY DEF Interrupted, RunSucceeds, RunRaises
<1>2. op \in Operation /\ op.attempt \in 0 .. MaxAttempts
  BY DEF StepInv, TypeOK, Operation
<1>3. taken' = op.attempt
  BY <1>1 DEF StepInv, Viewed, Acting
<1>4. /\ queue = <<>> => op.status = "STARTED"
      /\ queue = <<>> \/ (pc = "body" /\ Len(queue) = 1 /\ queue[1].action = "START")
  BY <1>1 DEF StepInv, OnTheWay, Viewed, Acting
<1>5. op.status \notin Terminal /\ op.attempt < MaxAttempts
  BY <1>4 DEF StepInv, Acting, OnTheWay, StartOnTheWay, Terminal
<1>6. given = {}
  BY <1>5 DEF StepInv, Outcome
<1>7. /\ pc' \in {"succeeding", "failing", "retrying"} /\ payload' \in Payloads
      /\ queue' = Append(queue, Update(Closes(pc'), payload'))
      /\ pc' = "retrying" => taken' + 1 < MaxAttempts
  <2>1. CASE Interrupted
    BY <2>1, <1>1 DEF Interrupted, Handle, Closes, Payloads, Errors
  <2>2. CASE RunRaises
    BY <2>2, <1>1 DEF RunRaises, Handle, Closes, Payloads, Errors
  <2>3. CASE RunSucceeds
    BY <2>3 DEF RunSucceeds, Closes, Payloads
  <2> QED
    BY <2>1, <2>2, <2>3
<1> DEFINE u == Update(Closes(pc'), payload')
<1>8. u \in Updates /\ u.action # "START"
  BY <1>7 DEF Update, Updates, Closes
<1>9. queue \in Seq(Updates)
  BY DEF StepInv, TypeOK, Updates
<1>10. /\ queue' \in Seq(Updates) /\ Len(queue') = Len(queue) + 1 /\ queue' # <<>>
       /\ queue'[Len(queue')] = u /\ Len(queue) \in Nat /\ (queue = <<>> <=> Len(queue) = 0)
       /\ \A i \in 1 .. Len(queue) : queue'[i] = queue[i]
  BY <1>7, <1>8, <1>9, AppendFacts
<1> HIDE DEF u
<1>11. \/ queue = <<>> /\ Len(queue') = 1 /\ queue'[1] = u
       \/ pc = "body" /\ Len(queue') = 2 /\ queue'[1] = queue[1] /\ queue[1].action = "START"
  BY <1>4, <1>10
<1>12. TypeOK'
  <2>1. taken' \in 0 .. MaxAttempts - 1
    BY <1>2, <1>3, <1>5
  <2>2. runs' \in [Attempts -> Nat]
    BY <1>1, RunFacts DEF StepInv, TypeOK
  <2> QED
    BY <1>1, <1>7, <1>10, <2>1, <2>2 DEF StepInv, TypeOK, Updates
<1>13. StartOnTheWay' <=> queue # <<>>
  BY <1>8, <1>10, <1>11 DEF StartOnTheWay
<1>14. queue # <<>> => op.status \in {"none", "READY"} /\ ~AtMostOnce
  BY <1>4 DEF StepInv, OnTheWay, StartOnTheWay
<1>15. OnTheWay'
  <2>1. /\ Len(queue') <= 2 /\ queue'[Len(queue')] = u
        /\ Len(queue') = 2 => queue'[1].action = "START"
    BY <1>10, <1>11
  <2> QED
    BY <1>1, <1>7, <1>13, <1>14, <2>1 DEF OnTheWay, Closing, u
<1>16. Acting'
  <2>1. queue'[1].action # "START" => op.status = "STARTED"
    BY <1>4, <1>11
  <2> QED
    BY <1>1, <1>3, <1>5, <1>7, <1>10, <2>1 DEF Acting, Closing
<1>17. Viewed' /\ Outcome'
  BY <1>1, <1>6 DEF StepInv, Viewed, Outcome, GivenIsDurable
<1>18. RunsAtMost'
  <2> SUFFICES ASSUME AtMostOnce
               PROVE  /\ \A a \in Attempts : runs'[a] <= 1
                      /\ \A a \in Attempts : a > op.attempt + 1 => runs'[a] = 0
                      /\ op.status = "STARTED"
    BY <1>1, <1>7 DEF RunsAtMost
  <2>1. CASE pc = "body" /\ Ran
    BY <2>1, RunFacts
  <2>2. CASE runs' = runs
    BY <1>4, <1>14, <2>2 DEF StepInv, RunsAtMost
  <2> QED
    BY <1>1, <2>1, <2>2
<1>19. RunsAtLeast'
  <2> SUFFICES ASSUME ~AtMostOnce
               PROVE  /\ \A a \in 1 .. op.attempt : runs'[a] >= 1
                      /\ runs'[taken' + 1] >= 1
    BY <1>1 DEF RunsAtLeast
  <2>1. pc = "body" /\ Ran /\ taken' = taken
    BY <1>1
  <2>2. \A a \in 1 .. op.attempt : a \in Attempts
    BY <1>2 DEF Attempts
  <2>3. \A a \in Attempts : runs[a] \in Nat /\ runs'[a] \in Nat /\ runs'[a] >= runs[a]
    BY <2>1, RunFacts DEF StepInv, TypeOK
  <2>4. \A a \in 1 .. op.attempt : runs[a] >= 1
    BY DEF StepInv, RunsAtLeast
  <2> QED
    BY <2>1, <2>2, <2>3, <2>4, RunFacts
<1> QED
  BY <1>12, <1>15, <1>16, <1>17, <1>18, <1>19 DEF StepInv

LEMMA Invariance == Spec => []StepInv
<1>1. StepInv /\ UNCHANGED vars => StepInv'
  BY DEF vars, StepInv, TypeOK, OnTheWay, StartOnTheWay, Acting, Closing, Viewed, Outcome,
         GivenIsDurable, RunsAtMost, RunsAtLeast
<1>2. StepInv /\ [Next]_vars => StepInv'
  BY <1>1, FireStep, SendStep, DeathStep, MoveStep, OutcomeStep, StartStep, FatalStep,
     ReadBackStep, CloseStep DEF Next, Call
<1> QED
  BY InitStep, <1>2, PTL DEF Spec

-----------------------------------------------------------------------------
(* The theorems *)

\* The types hold; in particular no step is attempted more often than its strategy allows.
THEOREM StepTypeCorrect == Spec => []TypeOK
<1>1. StepInv => TypeOK
  BY DEF StepInv
<1> QED
  BY Invariance, <1>1, PTL

\* No attempt of an AT_MOST_ONCE_PER_RETRY step runs the function twice.
THEOREM RunsOnceAtMost == Spec => []AtMostOncePerAttempt
<1>1. StepInv => AtMostOncePerAttempt
  BY DEF StepInv, RunsAtMost, AtMostOncePerAttempt
<1> QED
  BY Invariance, <1>1, PTL

\* Every attempt the service has counted of an AT_LEAST_ONCE_PER_RETRY step has run.
THEOREM RunsOnceAtLeast == Spec => []AtLeastOncePerAttempt
<1>1. StepInv => AtLeastOncePerAttempt
  BY DEF StepInv, RunsAtLeast, AtLeastOncePerAttempt
<1> QED
  BY Invariance, <1>1, PTL

\* The handler is given nothing that the service does not keep.
THEOREM GivenOutcomesAreDurable == Spec => []GivenIsDurable
<1>1. StepInv => GivenIsDurable
  BY DEF StepInv, Outcome
<1> QED
  BY Invariance, <1>1, PTL

\* The service refuses no update of a step.
THEOREM UpdatesAreAccepted == Spec => []NoUpdateRefused
<1>1. StepInv => NoUpdateRefused
  <2> SUFFICES ASSUME StepInv, queue # <<>> PROVE Accepts(op, Head(queue))
    BY DEF NoUpdateRefused
  <2>1. queue \in Seq(Updates)
    BY DEF StepInv, TypeOK, Updates
  <2>2. Head(queue) \in Updates /\ Head(queue) = queue[1]
    BY <2>1, TailFacts, HeadFacts
  <2>3. CASE StartOnTheWay
    BY <2>2, <2>3 DEF StepInv, OnTheWay, StartOnTheWay, Accepts
  <2>4. CASE ~StartOnTheWay
    <3>1. Closing
      BY <2>4 DEF StepInv, TypeOK, OnTheWay, StartOnTheWay, Closing
    <3>2. op.status = "STARTED" /\ queue[1].action # "START"
      BY <2>4, <3>1 DEF StepInv, Acting, StartOnTheWay
    <3> QED
      BY <2>2, <3>2 DEF Accepts, Updates
  <2> QED
    BY <2>3, <2>4
<1> QED
  BY Invariance, <1>1, PTL

\* After a synchronous START the status that is read again is STARTED.
THEOREM StartIsAlwaysSeen == Spec => []StartIsSeen
<1>1. StepInv => StartIsSeen
  BY DEF StepInv, Acting, Viewed, StartIsSeen
<1> QED
  BY Invariance, <1>1, PTL

\* No replay runs the function again once the handler has an outcome.
THEOREM OutcomeIsFinal == Spec => NoRunAfterOutcome
<1>1. StepInv /\ [Next]_vars => [given # {} => runs' = runs]_vars
  <2> SUFFICES ASSUME StepInv, Next, given # {} PROVE runs' = runs
    OBVIOUS
  <2>1. pc # "body"
    BY DEF StepInv, Outcome
  <2> QED
    BY <2>1 DEF Next, Call, Fire, Send, LoseAnswer, Crash, Dies, Invoke, ReplayResult,
                ReplayError, RetryIsPending, Interrupted, RunAgain, Start, Started,
                RunSucceeds, RunRaises, RunIsFatal, Succeed, ReadBackFails, Fail, Retry,
                Suspend, ResumeInPlace
<1> QED
  BY Invariance, <1>1, PTL DEF Spec, NoRunAfterOutcome
=============================================================================
