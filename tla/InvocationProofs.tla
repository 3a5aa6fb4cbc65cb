-------------------------- MODULE InvocationProofs --------------------------
(***************************************************************************)
(* The two ends of an invocation.  What the answer of the handler stands   *)
(* for, for any errors of the service and any number of invocations and    *)
(* batches; and what the local executor promises about invocations, for    *)
(* every handler, invoker and number of disturbances: at most one of them  *)
(* is in flight, and only the last one begun gets a checkpoint accepted.   *)
(***************************************************************************)
EXTENDS InvocationHandler, LocalExecutor, TLAPS

-----------------------------------------------------------------------------
\* The invocation handler.

\* An error of the checkpoint thread is one of the service, and ends the thread.
FailureEnds ==
  /\ cause \in ApiErrors \cup {None}
  /\ failed \in [call : Calls, error : ApiErrors] \cup {None}
  /\ failed # None => bg = "ended"
  /\ bg # "sending" => flight = None

\* The verdict is only under way while it is waited for.
VerdictAwaited ==
  /\ phase = "saving" => verdict \in {"SUCCEED", "FAIL"}
  /\ flight = "verdict" => phase = "saving"
  /\ phase \in {"fetching", "running", "saving"} => answer = None

\* The plugins know of every invocation that has got past its state.
HooksFollow ==
  /\ phase = "fetching" => hooks = "none" /\ bg = "off"
  /\ phase \in {"running", "saving", "closing", "joining"} => hooks = "started"
  /\ phase = "leaving" =>
       \/ hooks = "started" /\ bg = "ended"
       \/ hooks = "none" /\ bg = "off"
  /\ phase = "answered" => bg \in {"ended", "off"}

HandlerInv ==
  FailureEnds /\ VerdictAwaited /\ HooksFollow
  /\ AnswerIsBacked /\ RetryableErrorsAreRaised /\ StartsHaveEnds

-----------------------------------------------------------------------------
\* The answer to a service error fits it.
LEMMA ApiAnswers ==
  ASSUME NEW e
  PROVE  /\ IsRetryable(e) => ApiAnswer(e).status = "RAISED"
         /\ ApiAnswer(e).body = "error"
BY DEF ApiAnswer, Raised, Failed

\* An answer that leaves the wrapper, or its with statement, and what it must be.
LEMMA Leaving ==
  ASSUME HandlerInv, NEW a, NEW e \in ApiErrors \cup {None},
         Leave(a, e) \/ LeaveEarly(a, e),
         phase \in {"fetching", "running", "saving"}, Leave(a, e) => phase # "fetching",
         LeaveEarly(a, e) => phase = "fetching",
         flight # "verdict",
         a.body = "empty" => /\ a.status = "SUCCEEDED" => record = "SUCCEED"
                             /\ a.status = "FAILED" => record = "FAIL",
         e # None /\ IsRetryable(e) => a.status = "RAISED"
  PROVE  HandlerInv'
<1> USE DEF HandlerInv, Leave, LeaveEarly, threadVars, serviceVars
<1>1. FailureEnds'
  BY DEF FailureEnds
<1>2. VerdictAwaited'
  BY DEF VerdictAwaited
<1>3. HooksFollow'
  BY DEF HooksFollow
<1>4. AnswerIsBacked'
  BY DEF AnswerIsBacked
<1>5. RetryableErrorsAreRaised'
  BY DEF RetryableErrorsAreRaised, IsRetryable, Category, StaleToken
<1>6. StartsHaveEnds'
  BY DEF StartsHaveEnds
<1> QED
  BY <1>1, <1>2, <1>3, <1>4, <1>5, <1>6

\* A checkpoint of the EXECUTION that is begun.
LEMMA Saving ==
  ASSUME HandlerInv, phase = "running", NEW update \in {"SUCCEED", "FAIL"}, Save(update)
  PROVE  HandlerInv'
<1> USE DEF HandlerInv, Save, threadVars, serviceVars
<1>1. FailureEnds'
  BY DEF FailureEnds
<1>2. VerdictAwaited'
  BY DEF VerdictAwaited
<1>3. HooksFollow'
  BY DEF HooksFollow
<1>4. answer' = None /\ cause' = cause /\ phase' = "saving"
  BY DEF VerdictAwaited
<1>5. AnswerIsBacked' /\ RetryableErrorsAreRaised' /\ StartsHaveEnds'
  BY <1>4 DEF AnswerIsBacked, RetryableErrorsAreRaised, StartsHaveEnds
<1> QED
  BY <1>1, <1>2, <1>3, <1>5

\* A step of the checkpoint thread that tells the service nothing but its batch.
LEMMA Sending ==
  ASSUME HandlerInv, bg = "sending", Apply \/ UNCHANGED serviceVars, flight' = None,
         UNCHANGED <<phase, answer, cause, verdict, stopped, hooks>>,
         \/ bg' = "collecting" /\ failed' = failed
         \/ bg' = "ended" /\ failed' \in [call : Calls, error : ApiErrors]
  PROVE  HandlerInv'
<1> USE DEF HandlerInv
<1>1. failed = None /\ phase \notin {"fetching", "leaving", "answered"}
  BY DEF FailureEnds, HooksFollow
<1>2. FailureEnds'
  BY <1>1 DEF FailureEnds
<1>3. VerdictAwaited'
  BY HandlerAssumption DEF VerdictAwaited
<1>4. HooksFollow' /\ StartsHaveEnds'
  BY <1>1 DEF HooksFollow, StartsHaveEnds
<1>5. AnswerIsBacked'
  <2>1. CASE answer = None
    BY <2>1 DEF AnswerIsBacked
  <2>2. CASE answer # None
    <3>1. flight # "verdict"
      BY <2>2 DEF VerdictAwaited
    <3>2. record' = record
      BY <3>1 DEF Apply, serviceVars
    <3> QED
      BY <3>2 DEF AnswerIsBacked
  <2> QED
    BY <2>1, <2>2
<1>6. RetryableErrorsAreRaised'
  BY DEF RetryableErrorsAreRaised
<1> QED
  BY <1>2, <1>3, <1>4, <1>5, <1>6

\* The invariant holds of every step.
LEMMA Invariance ==
  ASSUME HandlerInv, [HandlerNext]_handlerVars
  PROVE  HandlerInv'
<1> USE DEF HandlerInv
<1>1. CASE Invoke
  <2> USE <1>1 DEF Invoke
  <2>1. FailureEnds' /\ VerdictAwaited' /\ HooksFollow'
    BY HandlerAssumption DEF FailureEnds, VerdictAwaited, HooksFollow
  <2>2. AnswerIsBacked' /\ RetryableErrorsAreRaised' /\ StartsHaveEnds'
    BY DEF AnswerIsBacked, RetryableErrorsAreRaised, StartsHaveEnds
  <2> QED
    BY <2>1, <2>2
<1>2. CASE BadInput
  <2>1. phase = "fetching" /\ LeaveEarly(Raised, None) /\ flight # "verdict"
    BY <1>2 DEF BadInput, VerdictAwaited
  <2>2. Raised.body = "error"
    BY DEF Raised
  <2> QED
    BY <2>1, <2>2, Leaving DEF Leave, LeaveEarly
<1>3. CASE FetchFails
  <2>1. PICK e \in ApiErrors : LeaveEarly(ApiAnswer(e), e)
    BY <1>3 DEF FetchFails
  <2>2. phase = "fetching" /\ flight # "verdict"
    BY <1>3 DEF FetchFails, VerdictAwaited
  <2> QED
    BY <2>1, <2>2, ApiAnswers, Leaving DEF Leave, LeaveEarly
<1>4. CASE Start
  <2> USE <1>4 DEF Start, serviceVars
  <2>1. FailureEnds' /\ VerdictAwaited' /\ HooksFollow'
    BY HandlerAssumption DEF FailureEnds, VerdictAwaited, HooksFollow
  <2>2. AnswerIsBacked' /\ RetryableErrorsAreRaised' /\ StartsHaveEnds'
    BY DEF AnswerIsBacked, RetryableErrorsAreRaised, StartsHaveEnds
  <2> QED
    BY <2>1, <2>2
<1>5. CASE UserEnds
  <2>1. phase = "running" /\ flight # "verdict"
    BY <1>5 DEF UserEnds, VerdictAwaited
  <2>2. CASE \E ending \in Endings : Clause(ending)
    <3>1. PICK ending \in Endings : Clause(ending)
      BY <2>2
    <3>2. CASE ending = "largeResult" \/ ending = "largeError"
      <4>1. Save("SUCCEED") \/ Save("FAIL")
        BY <3>1, <3>2 DEF Clause
      <4> QED
        BY <2>1, <4>1, Saving
    <3>3. CASE ending \in Endings \ {"largeResult", "largeError"}
      <4> DEFINE Pending == [status |-> "PENDING", body |-> "empty"]
      <4>1. \E a \in {Succeeded("full"), Pending, Failed, Raised, Interrupted} : Leave(a, None)
        BY <3>1, <3>3 DEF Clause, Endings
      <4>2. PICK a \in {Succeeded("full"), Pending, Failed, Raised, Interrupted} :
              Leave(a, None)
        BY <4>1
      <4>3. a.body = "empty" => a.status = "PENDING"
        BY <4>2 DEF Succeeded, Failed, Raised, Interrupted
      <4> QED
        BY <2>1, <4>2, <4>3, Leaving DEF Leave, LeaveEarly
    <3> QED
      BY <3>1, <3>2, <3>3
  <2>3. CASE \E e \in ApiErrors : Leave(ApiAnswer(e), e)
    BY <2>1, <2>3, ApiAnswers, Leaving DEF Leave, LeaveEarly
  <2>4. CASE failed # None /\ Leave(ApiAnswer(failed.error), failed.error)
    <3>1. failed.error \in ApiErrors
      BY <2>4 DEF FailureEnds
    <3> QED
      BY <2>1, <2>4, <3>1, ApiAnswers, Leaving DEF Leave, LeaveEarly
  <2> QED
    BY <1>5, <2>2, <2>3, <2>4 DEF UserEnds
<1>6. CASE Saved
  <2> DEFINE a == IF verdict = "SUCCEED" THEN Succeeded("empty")
                  ELSE [status |-> "FAILED", body |-> "empty"]
  <2>1. /\ phase = "saving" /\ flight # "verdict" /\ record = verdict
        /\ verdict \in {"SUCCEED", "FAIL"} /\ Leave(a, None)
    BY <1>6, HandlerAssumption DEF Saved, VerdictAwaited
  <2>2. /\ a.status = "SUCCEEDED" => record = "SUCCEED"
        /\ a.status = "FAILED" => record = "FAIL"
    BY <2>1 DEF Succeeded
  <2> QED
    BY <2>1, <2>2, Leaving DEF Leave, LeaveEarly
<1>7. CASE SaveFailed
  <2> DEFINE a == IF verdict = "FAIL" /\ failed.call = "page" THEN Raised
                  ELSE ApiAnswer(failed.error)
  <2>1. /\ phase = "saving" /\ failed # None /\ Leave(a, failed.error)
        /\ failed.error \in ApiErrors
    BY <1>7 DEF SaveFailed, FailureEnds
  <2>2. flight # "verdict"
    BY <2>1, HandlerAssumption DEF FailureEnds
  <2>3. a.body # "empty" /\ (IsRetryable(failed.error) => a.status = "RAISED")
    BY ApiAnswers DEF Raised
  <2> QED
    BY <2>1, <2>2, <2>3, Leaving DEF Leave, LeaveEarly
<1>8. CASE CloseState \/ JoinThreads
  <2> USE <1>8 DEF CloseState, JoinThreads, threadVars, serviceVars
  <2>1. FailureEnds' /\ VerdictAwaited' /\ HooksFollow'
    BY DEF FailureEnds, VerdictAwaited, HooksFollow
  <2>2. AnswerIsBacked' /\ RetryableErrorsAreRaised' /\ StartsHaveEnds'
    BY DEF AnswerIsBacked, RetryableErrorsAreRaised, StartsHaveEnds
  <2> QED
    BY <2>1, <2>2
<1>9. CASE Answer
  <2> USE <1>9 DEF Answer, threadVars, serviceVars
  <2>1. FailureEnds' /\ VerdictAwaited' /\ HooksFollow'
    BY DEF FailureEnds, VerdictAwaited, HooksFollow
  <2>2. AnswerIsBacked' /\ RetryableErrorsAreRaised'
    BY DEF AnswerIsBacked, RetryableErrorsAreRaised
  <2>3. StartsHaveEnds'
    BY DEF StartsHaveEnds, HooksFollow
  <2> QED
    BY <2>1, <2>2, <2>3
<1>10. CASE Collect \/ BackgroundStops
  <2> USE <1>10 DEF Collect, BackgroundStops, serviceVars
  <2>1. FailureEnds' /\ VerdictAwaited' /\ HooksFollow'
    BY DEF FailureEnds, VerdictAwaited, HooksFollow
  <2>2. AnswerIsBacked' /\ RetryableErrorsAreRaised' /\ StartsHaveEnds'
    BY DEF AnswerIsBacked, RetryableErrorsAreRaised, StartsHaveEnds, HooksFollow
  <2> QED
    BY <2>1, <2>2
<1>11. CASE BatchDone
  BY <1>11, Sending DEF BatchDone
<1>12. CASE BatchFails
  <2>1. failed' \in [call : Calls, error : ApiErrors] /\ (Apply \/ UNCHANGED serviceVars)
    BY <1>12 DEF BatchFails, Calls
  <2> QED
    BY <1>12, <2>1, Sending DEF BatchFails
<1>13. CASE Reinvoke \/ UNCHANGED handlerVars
  <2> USE <1>13 DEF Reinvoke, handlerVars, threadVars, serviceVars
  <2>1. FailureEnds' /\ VerdictAwaited' /\ HooksFollow'
    BY DEF FailureEnds, VerdictAwaited, HooksFollow
  <2>2. AnswerIsBacked' /\ RetryableErrorsAreRaised' /\ StartsHaveEnds'
    BY DEF AnswerIsBacked, RetryableErrorsAreRaised, StartsHaveEnds
  <2> QED
    BY <2>1, <2>2
<1> QED
  BY <1>1, <1>2, <1>3, <1>4, <1>5, <1>6, <1>7, <1>8, <1>9, <1>10, <1>11, <1>12, <1>13
  DEF HandlerNext, Wrapper, Background

LEMMA AlwaysHandlerInv == HandlerSpec => []HandlerInv
<1>1. HandlerInit => HandlerInv
  BY HandlerAssumption DEF HandlerInit, HandlerInv, FailureEnds, VerdictAwaited, HooksFollow,
     AnswerIsBacked, RetryableErrorsAreRaised, StartsHaveEnds
<1> QED
  BY <1>1, Invariance, PTL DEF HandlerSpec

-----------------------------------------------------------------------------
\* An answer without a body is only given once the service holds the verdict it stands for,
\* whatever batches and failures came between (execution.py, the two large payloads).
THEOREM BodilessAnswersAreSaved == HandlerSpec => []AnswerIsBacked
<1>1. HandlerInv => AnswerIsBacked
  BY DEF HandlerInv
<1> QED
  BY <1>1, AlwaysHandlerInv, PTL

\* No throttled call, stale token or fault of the service ends an execution, whether it is met
\* before the threads start, by the function, or by the checkpoint thread (execution.py).
THEOREM RetryableErrorsLeave == HandlerSpec => []RetryableErrorsAreRaised
<1>1. HandlerInv => RetryableErrorsAreRaised
  BY DEF HandlerInv
<1> QED
  BY <1>1, AlwaysHandlerInv, PTL

\* The plugins that were told of a start are told of the end, unless what leaves the wrapper
\* is no Exception (handle_durable_output).
THEOREM PluginsSeeTheEnd == HandlerSpec => []StartsHaveEnds
<1>1. HandlerInv => StartsHaveEnds
  BY DEF HandlerInv
<1> QED
  BY <1>1, AlwaysHandlerInv, PTL

-----------------------------------------------------------------------------
\* The local executor.

\* An invocation that is not over is the last one begun.
OnlyLastIsLive == \A i \in DOMAIN handlers : handlers[i].call # "over" => i = Len(handlers)

\* The gate of an open execution is free only when no invocation is in flight.  Of a
\* closed one this does not hold: its worker is gone, and the gate with it.
GateGuards ==
  ~Closed /\ gate = "PRE_INVOKE" => \A i \in DOMAIN handlers : handlers[i].call = "over"

GateInv == TypeOK /\ OnlyLastIsLive /\ GateGuards

\* The types that the steps below need of the record of the handlers.
LEMMA GoneIsHandler == Gone \in HandlerType
  BY DEF Gone, HandlerType

LEMMA SeqOfHandler ==
  ASSUME NEW h \in HandlerType, NEW n \in Nat
  PROVE  [h EXCEPT !.seq = n] \in HandlerType /\ [h EXCEPT !.seq = n].call = h.call
  BY DEF HandlerType

LEMMA FailedIsHandler ==
  ASSUME NEW h \in HandlerType, NEW reply \in {"error", "not found"},
         NEW proc \in {h.proc, "ended"}, NEW g,
         g = [h EXCEPT !.answer = reply, !.call = "answered", !.proc = proc]
  PROVE  g \in HandlerType /\ g.call = "answered" /\ g.seq = h.seq
  BY DEF HandlerType

LEMMA OverIsHandler ==
  ASSUME NEW h \in HandlerType, NEW g, g = [h EXCEPT !.call = "over", !.answer = "none"]
  PROVE  g \in HandlerType /\ g.call = "over" /\ g.seq = h.seq
  BY DEF HandlerType

LEMMA EndsIsHandler ==
  ASSUME NEW h \in HandlerType, NEW reply \in {"error", "PENDING", "SUCCEEDED", "FAILED"}
  PROVE  /\ Ends(h, reply) \in HandlerType
         /\ Ends(h, reply).call # "over" => h.call # "over"
         /\ Ends(h, reply).seq \in {h.seq, Gone.seq}
  BY GoneIsHandler DEF Ends, HandlerType, Gone

\* A step that changes one invocation, and does not bring it back to life, leaves the
\* others as they are and the last one the only one that may be live.
LEMMA OneChanges ==
  ASSUME GateInv, NEW i \in DOMAIN handlers, NEW h \in HandlerType,
         h.call # "over" => handlers[i].call # "over",
         handlers' = [handlers EXCEPT ![i] = h]
  PROVE  /\ handlers' \in Seq(HandlerType)
         /\ DOMAIN handlers' = DOMAIN handlers /\ Len(handlers') = Len(handlers)
         /\ \A j \in DOMAIN handlers : handlers'[j] = IF j = i THEN h ELSE handlers[j]
         /\ OnlyLastIsLive'
         /\ (\A j \in DOMAIN handlers : handlers[j].call = "over")
              => \A j \in DOMAIN handlers' : handlers'[j].call = "over"
<1>1. handlers \in Seq(HandlerType)
  BY DEF GateInv, TypeOK
<1>2. /\ handlers' \in Seq(HandlerType)
      /\ DOMAIN handlers' = DOMAIN handlers /\ Len(handlers') = Len(handlers)
  BY <1>1
<1>3. \A j \in DOMAIN handlers : handlers'[j] = IF j = i THEN h ELSE handlers[j]
  BY <1>1
<1>4. OnlyLastIsLive'
  BY <1>2, <1>3 DEF OnlyLastIsLive, GateInv
<1> QED
  BY <1>2, <1>3, <1>4

-----------------------------------------------------------------------------
\* The steps, one lemma for each that is more than a line.

LEMMA BeginKeeps ==
  ASSUME GateInv, ExecutorAssumption, Begin
  PROVE  GateInv'
<1>1. CASE /\ exec' = exec \/ exec' = [exec EXCEPT !.needs = TRUE]
           /\ UNCHANGED <<told, gate, handlers>>
  <2>1. exec' \in ExecType /\ exec'.status = exec.status /\ exec'.fails = exec.fails
    BY <1>1 DEF GateInv, TypeOK, ExecType
  <2>2. invokes' \in Nat
    BY DEF Begin, GateInv, TypeOK
  <2>3. TypeOK'
    BY <1>1, <2>1, <2>2 DEF GateInv, TypeOK, Begin, Closed
  <2> QED
    BY <1>1, <2>1, <2>3 DEF GateInv, GateGuards, OnlyLastIsLive, Closed
<1>2. CASE ~Closed /\ MayClaim /\ gate' = "INVOKING" /\ UNCHANGED exec
           /\ handlers' = Append(handlers, NewHandler) /\ told' = ops
  <2>1. NewHandler \in HandlerType
    BY DEF NewHandler, HandlerType, GateInv, TypeOK, ExecType
  <2>2. handlers \in Seq(HandlerType) /\ Len(handlers) \in Nat
    BY DEF GateInv, TypeOK
  <2>3. /\ handlers' \in Seq(HandlerType) /\ Len(handlers') = Len(handlers) + 1
        /\ \A j \in DOMAIN handlers : handlers'[j] = handlers[j]
    BY <1>2, <2>1, <2>2
  <2>4. TypeOK'
    BY <1>2, <2>3 DEF GateInv, TypeOK, Begin, Closed
  <2>5. \A j \in DOMAIN handlers : handlers[j].call = "over"
    BY <1>2 DEF GateInv, GateGuards, MayClaim
  <2>6. OnlyLastIsLive'
    <3> SUFFICES ASSUME NEW j \in DOMAIN handlers', handlers'[j].call # "over"
                 PROVE  j = Len(handlers')
      BY DEF OnlyLastIsLive
    <3> QED
      BY <2>2, <2>3, <2>5
  <2>7. GateGuards'
    BY <1>2 DEF GateGuards
  <2> QED
    BY <2>4, <2>6, <2>7 DEF GateInv
<1> QED
  BY <1>1, <1>2 DEF Begin

\* The steps of a call and of a process that change no more than its invocation.
LEMMA CallStepKeeps ==
  ASSUME GateInv, ExecutorAssumption, NEW i \in DOMAIN handlers,
         Call(i) \/ TimesOut(i) \/ CallFails(i) \/ Refused(i) \/ Returns(i)
  PROVE  GateInv' /\ handlers'[i].seq \in {handlers[i].seq, Gone.seq}
         /\ \A j \in DOMAIN handlers \ {i} : handlers'[j] = handlers[j]
<1>1. handlers[i] \in HandlerType /\ handlers \in Seq(HandlerType)
  BY DEF GateInv, TypeOK
<1>2. PICK h \in HandlerType : /\ handlers' = [handlers EXCEPT ![i] = h]
                               /\ h.call # "over" => handlers[i].call # "over"
                               /\ h.seq \in {handlers[i].seq, Gone.seq}
  <2>1. CASE Call(i)
    <3>1. handlers' = [handlers EXCEPT ![i] = [handlers[i] EXCEPT !.call = "calling",
                                                                  !.proc = "running"]]
      BY <1>1, <2>1 DEF Call
    <3> QED
      BY <1>1, <2>1, <3>1 DEF Call, HandlerType
  <2>2. CASE TimesOut(i)
    <3>1. PICK call \in {handlers[i].call, "answered"} :
            handlers' = [handlers EXCEPT ![i] = [handlers[i] EXCEPT !.answer = "timeout",
                                                                    !.call = call]]
      BY <1>1, <2>2 DEF TimesOut
    <3> QED
      BY <1>1, <2>2, <3>1 DEF TimesOut, HandlerType
  <2>3. CASE CallFails(i)
    <3>1. PICK reply \in {"error", "not found"}, proc \in {handlers[i].proc, "ended"} :
            handlers' = [handlers EXCEPT ![i] = [handlers[i] EXCEPT !.answer = reply,
                                                   !.call = "answered", !.proc = proc]]
      BY <1>1, <2>3 DEF CallFails
    <3> QED
      <4>1. handlers[i].call = "calling"
        BY <2>3 DEF CallFails
      <4>2. PICK g \in HandlerType : /\ g.call = "answered" /\ g.seq = handlers[i].seq
              /\ g = [handlers[i] EXCEPT !.answer = reply, !.call = "answered", !.proc = proc]
        BY <1>1, FailedIsHandler
      <4> QED
        BY <3>1, <4>1, <4>2
  <2>4. CASE Refused(i)
    BY <1>1, <2>4, EndsIsHandler DEF Refused
  <2>5. CASE Returns(i)
    BY <1>1, <2>5, EndsIsHandler DEF Returns
  <2> QED
    BY <2>1, <2>2, <2>3, <2>4, <2>5
<1>3. UNCHANGED <<told, exec, ops, timers, gate, wake, invokes, limit, event>>
  BY DEF Call, TimesOut, CallFails, Refused, Returns
<1>4. /\ handlers' \in Seq(HandlerType) /\ OnlyLastIsLive'
      /\ \A j \in DOMAIN handlers : handlers'[j] = IF j = i THEN h ELSE handlers[j]
      /\ (\A j \in DOMAIN handlers : handlers[j].call = "over")
           => \A j \in DOMAIN handlers' : handlers'[j].call = "over"
  BY <1>2, OneChanges
<1>5. TypeOK'
  BY <1>3, <1>4 DEF GateInv, TypeOK, Closed
<1>6. GateGuards'
  BY <1>3, <1>4 DEF GateInv, GateGuards, Closed
<1> QED
  BY <1>2, <1>4, <1>5, <1>6 DEF GateInv

\* Retry keeps the types, the budget of an open execution and the status of a closed one.
LEMMA RetryKeeps ==
  ASSUME TypeOK, ExecutorAssumption, Retry
  PROVE  /\ exec' \in ExecType /\ (~Closed' => exec'.fails < MaxFailed)
         /\ invokes' \in Nat /\ event' \in {"unset", "set", "error"}
         /\ limit' \in {"none", "armed", "taken"}
         /\ Closed => exec'.status = exec.status
<1>1. /\ exec \in ExecType /\ invokes \in Nat /\ limit \in {"none", "armed", "taken"}
      /\ event \in {"unset", "set", "error"} /\ MaxFailed \in Nat
  BY DEF TypeOK, ExecutorAssumption
<1>2. exec' = [exec EXCEPT !.fails = exec.fails + 1,
                 !.status = IF exec.fails + 1 >= MaxFailed /\ ~Closed THEN "FAILED"
                            ELSE exec.status]
  BY <1>1 DEF Retry
<1>3. exec' \in ExecType /\ (Closed => exec'.status = exec.status)
  <2>1. PICK status \in Closes \cup {"RUNNING"} :
          /\ Closed => status = exec.status
          /\ exec' = [exec EXCEPT !.fails = exec.fails + 1, !.status = status]
    BY <1>1, <1>2 DEF ExecType, Closes, Ended
  <2>2. exec.fails + 1 \in Nat
    BY <1>1 DEF ExecType
  <2> QED
    BY <1>1, <2>1, <2>2 DEF ExecType
<1>4. ~Closed' => exec'.fails < MaxFailed
  BY <1>1, <1>2 DEF ExecType, Closed, Closes, Ended
<1>5. /\ invokes' \in Nat /\ event' \in {"unset", "set", "error"}
      /\ limit' \in {"none", "armed", "taken"}
  BY <1>1 DEF Retry, LimitOff
<1> QED
  BY <1>3, <1>4, <1>5

LEMMA ConcludeKeeps ==
  ASSUME TypeOK, ExecutorAssumption, NEW reply \in {"SUCCEEDED", "FAILED"}, Conclude(reply)
  PROVE  /\ exec' \in ExecType /\ (~Closed' => exec'.fails < MaxFailed)
         /\ invokes' \in Nat /\ event' \in {"unset", "set", "error"}
         /\ limit' \in {"none", "armed", "taken"} /\ wake' = "none"
  BY DEF TypeOK, ExecutorAssumption, ExecType, Conclude, LimitOff, Closed, Closes, Ended

LEMMA SuspendKeeps ==
  ASSUME TypeOK, ExecutorAssumption, Suspend
  PROVE  /\ exec' \in ExecType /\ (~Closed' => exec'.fails < MaxFailed)
         /\ exec'.status = exec.status
         /\ invokes' \in Nat /\ event' \in {"unset", "set", "error"}
         /\ limit' \in {"none", "armed", "taken"}
         /\ wake' \in {"none", "armed", "fired", "idle"}
<1>1. exec' = [exec EXCEPT !.fails = 0, !.needs = FALSE] /\ 0 < MaxFailed
  BY DEF Suspend, ExecutorAssumption
<1>2. exec' \in ExecType /\ exec'.status = exec.status /\ exec'.fails = 0
  BY <1>1 DEF TypeOK, ExecType
<1>3. /\ invokes' \in Nat /\ wake' \in {"none", "armed", "fired", "idle"}
      /\ limit' = limit /\ event' = event
  BY DEF Suspend, TypeOK, Rearmed
<1> QED
  BY <1>1, <1>2, <1>3 DEF TypeOK

LEMMA FinishKeeps ==
  ASSUME GateInv, ExecutorAssumption, NEW i \in DOMAIN handlers, Finish(i)
  PROVE  /\ GateInv'
         /\ handlers'[i].seq \in {handlers[i].seq, Gone.seq}
         /\ \A j \in DOMAIN handlers \ {i} : handlers'[j] = handlers[j]
         /\ Closed => exec'.status = exec.status
<1>1. handlers[i] \in HandlerType /\ handlers \in Seq(HandlerType)
  BY DEF GateInv, TypeOK
<1>2. handlers[i].call = "answered" /\ gate' = "PRE_INVOKE"
      /\ UNCHANGED <<told, ops, timers, disturbed>>
  BY DEF Finish
<1>3. PICK h \in HandlerType : /\ handlers' = [handlers EXCEPT ![i] = h]
                               /\ h.call = "over"
                               /\ h.seq \in {handlers[i].seq, Gone.seq}
  <2>1. CASE handlers[i].proc = "running"
    <3>1. handlers' = [handlers EXCEPT ![i] = [handlers[i] EXCEPT !.call = "over",
                                                                  !.answer = "none"]]
      BY <1>1, <2>1 DEF Finish
    <3> QED
      BY <1>1, <3>1, OverIsHandler
  <2>2. CASE handlers[i].proc # "running"
    <3>1. handlers' = [handlers EXCEPT ![i] = Gone]
      BY <1>1, <2>2 DEF Finish
    <3> QED
      BY <3>1, GoneIsHandler DEF Gone
  <2> QED
    BY <2>1, <2>2
<1>4. /\ handlers' \in Seq(HandlerType) /\ OnlyLastIsLive'
      /\ DOMAIN handlers' = DOMAIN handlers
      /\ \A j \in DOMAIN handlers : handlers'[j] = IF j = i THEN h ELSE handlers[j]
  BY <1>3, OneChanges
<1>5. /\ exec' \in ExecType /\ (~Closed' => exec'.fails < MaxFailed)
      /\ invokes' \in Nat /\ event' \in {"unset", "set", "error"}
      /\ limit' \in {"none", "armed", "taken"}
      /\ wake' \in {"none", "armed", "fired", "idle"}
      /\ Closed => exec'.status = exec.status
  <2>1. CASE handlers[i].answer \in {"PENDING", "SUCCEEDED", "FAILED"} /\ ~Closed
             /\ Applied(handlers[i].answer)
    BY <2>1, RetryKeeps, ConcludeKeeps, SuspendKeeps DEF Applied, GateInv, TypeOK
  <2>2. CASE Closed /\ UNCHANGED <<exec, wake, invokes, event, limit>>
    BY <2>2 DEF GateInv, TypeOK, Closed
  <2>3. CASE Retry /\ UNCHANGED wake
    BY <2>3, RetryKeeps DEF GateInv, TypeOK
  <2>4. CASE Closed /\ event' = "error" /\ UNCHANGED <<exec, limit, wake, invokes>>
    BY <2>4 DEF GateInv, TypeOK, Closed
  <2>5. CASE /\ ~Closed /\ Close("FAILED") /\ event' = "set" /\ limit' = LimitOff
             /\ UNCHANGED <<wake, invokes>>
    BY <2>5 DEF GateInv, TypeOK, Close, LimitOff, ExecType, Closed, Closes, Ended
  <2> QED
    BY <2>1, <2>2, <2>3, <2>4, <2>5 DEF Finish
<1>6. TypeOK'
  BY <1>2, <1>4, <1>5 DEF Finish, GateInv, TypeOK
<1>7. \A j \in DOMAIN handlers' : handlers'[j].call = "over"
  BY <1>2, <1>3, <1>4 DEF GateInv, OnlyLastIsLive
<1>8. GateGuards'
  BY <1>7 DEF GateGuards
<1> QED
  BY <1>3, <1>4, <1>5, <1>6, <1>8 DEF GateInv

\* A checkpoint is accepted from the last invocation only, while the execution is open.
LEMMA CheckpointKeeps ==
  ASSUME GateInv, ExecutorAssumption, NEW i \in DOMAIN handlers,
         Checkpoint(i) \/ Refresh(i) \/ CheckpointResult(i)
  PROVE  /\ GateInv' /\ i = Len(handlers) /\ ~Closed
         /\ \A j \in DOMAIN handlers \ {i} : handlers'[j] = handlers[j]
<1>1. handlers[i] \in HandlerType /\ handlers \in Seq(HandlerType) /\ exec \in ExecType
  BY DEF GateInv, TypeOK
<1>2. i = Len(handlers) /\ ~Closed
  BY DEF Checkpoint, Refresh, CheckpointResult, Accepted, TokenHolds
<1>3. PICK h \in HandlerType : /\ handlers' = [handlers EXCEPT ![i] = h]
                               /\ h.call # "over" => handlers[i].call # "over"
  <2>1. CASE Checkpoint(i) \/ Refresh(i)
    <3>1. handlers' = [handlers EXCEPT ![i] = [handlers[i] EXCEPT !.seq = exec.seq + 1]]
      BY <1>1, <2>1 DEF Checkpoint, Refresh
    <3> QED
      <4>1. exec.seq + 1 \in Nat
        BY <1>1 DEF ExecType
      <4>2. PICK g \in HandlerType : /\ g.call = handlers[i].call
                                     /\ g = [handlers[i] EXCEPT !.seq = exec.seq + 1]
        BY <1>1, <4>1, SeqOfHandler
      <4> QED
        BY <3>1, <4>2
  <2>2. CASE CheckpointResult(i)
    BY <1>1, <2>2, EndsIsHandler DEF CheckpointResult
  <2> QED
    BY <2>1, <2>2
<1>4. /\ handlers' \in Seq(HandlerType) /\ OnlyLastIsLive'
      /\ \A j \in DOMAIN handlers : handlers'[j] = IF j = i THEN h ELSE handlers[j]
      /\ (\A j \in DOMAIN handlers : handlers[j].call = "over")
           => \A j \in DOMAIN handlers' : handlers'[j].call = "over"
  BY <1>3, OneChanges
<1>5. PICK found \in [Ops -> Statuses], status \in {exec.status, "SUCCEEDED"} :
        /\ ops' = found /\ told' = found
        /\ exec' = [exec EXCEPT !.status = status, !.seq = @ + 1]
        /\ wake' = IF Web THEN Rearmed(found, status) ELSE wake
  <2>1. CASE Checkpoint(i)
    <3>1. PICK o \in Startable :
            /\ Accepted(i, [ops EXCEPT ![o] = NextStatus(o)], exec.status)
      BY <2>1 DEF Checkpoint
    <3>2. NextStatus(o) \in Statuses
      BY DEF NextStatus, Statuses, Ended
    <3>3. [ops EXCEPT ![o] = NextStatus(o)] \in [Ops -> Statuses]
      BY <3>2 DEF GateInv, TypeOK
    <3> QED
      BY <3>1, <3>3 DEF Accepted
  <2>2. CASE Refresh(i)
    BY <2>2 DEF Refresh, Accepted, GateInv, TypeOK
  <2>3. CASE CheckpointResult(i)
    BY <2>3 DEF CheckpointResult, Accepted, GateInv, TypeOK
  <2> QED
    BY <2>1, <2>2, <2>3
<1>6. exec' \in ExecType /\ (~Closed' => exec'.fails < MaxFailed)
  <2>1. PICK next \in Closes \cup {"RUNNING"} :
          /\ next \in {exec.status, "SUCCEEDED"}
          /\ exec' = [exec EXCEPT !.status = next, !.seq = exec.seq + 1]
    BY <1>1, <1>5 DEF ExecType, Closes, Ended
  <2>2. exec.seq + 1 \in Nat
    BY <1>1 DEF ExecType
  <2>3. exec' \in ExecType /\ exec'.fails = exec.fails
    BY <1>1, <2>1, <2>2 DEF ExecType
  <2> QED
    BY <1>2, <2>3 DEF GateInv, TypeOK
<1>7. wake' \in {"none", "armed", "fired", "idle"}
  BY <1>5 DEF Rearmed, GateInv, TypeOK
<1>8. timers' \in [Ops -> SUBSET {"main", "beat"}]
  <2>1. CASE Checkpoint(i)
    <3>1. PICK o \in Startable : timers' = [timers EXCEPT ![o] = ArmedTimers(o)]
      BY <2>1 DEF Checkpoint
    <3>2. ArmedTimers(o) \in SUBSET {"main", "beat"}
      BY DEF ArmedTimers
    <3> QED
      BY <3>1, <3>2 DEF GateInv, TypeOK
  <2> QED
    BY <2>1 DEF Refresh, CheckpointResult, GateInv, TypeOK
<1>9. TypeOK'
  BY <1>4, <1>5, <1>6, <1>7, <1>8
     DEF Checkpoint, Refresh, CheckpointResult, GateInv, TypeOK, LimitOff, GateAfter
<1>10. GateGuards'
  <2>1. CASE CheckpointResult(i)
    <3>1. exec'.status = "SUCCEEDED"
      BY <1>1, <2>1 DEF CheckpointResult, Accepted, ExecType
    <3> QED
      BY <3>1 DEF GateGuards, Closed, Closes, Ended
  <2>2. CASE Checkpoint(i) \/ Refresh(i)
    BY <1>2, <1>4, <2>2 DEF Checkpoint, Refresh, GateInv, GateGuards
  <2> QED
    BY <2>1, <2>2
<1> QED
  BY <1>2, <1>4, <1>9, <1>10 DEF GateInv

\* The steps that touch no invocation; two of them close the execution.
LEMMA ElsewhereKeeps ==
  ASSUME GateInv, ExecutorAssumption,
         \/ FireDue \/ WakeResumes \/ LimitReached \/ ApplyTimeout \/ StopExecution
         \/ \E o \in Ops : \/ CompleteCallback(o) \/ Heartbeat(o)
                           \/ \E timer \in {"main", "beat"} : CallbackTimer(o, timer)
         \/ UNCHANGED vars
  PROVE  /\ GateInv' /\ handlers' = handlers
         /\ Closed /\ limit # "taken" => exec'.status = exec.status
<1>1. /\ handlers' = handlers
      /\ \/ exec' = exec /\ gate' = gate
         \/ limit = "taken" /\ exec' = [exec EXCEPT !.status = "TIMED_OUT"]
         \/ ~Closed /\ exec' = [exec EXCEPT !.status = "STOPPED"]
  BY DEF FireDue, WakeResumes, LimitReached, ApplyTimeout, StopExecution, CompleteCallback,
         Heartbeat, CallbackTimer, Close, vars
<1>2. /\ exec' \in ExecType /\ (~Closed' => exec'.fails < MaxFailed)
      /\ Closed /\ limit # "taken" => exec'.status = exec.status
      /\ ~Closed' => ~Closed /\ gate' = gate
  BY <1>1 DEF GateInv, TypeOK, ExecType, Closed, Closes, Ended
<1>3. ops' \in [Ops -> Statuses] /\ timers' \in [Ops -> SUBSET {"main", "beat"}]
  <2>1. CASE FireDue
    BY <2>1 DEF FireDue, GateInv, TypeOK, Statuses, Ended
  <2>2. CASE \E o \in Ops : CompleteCallback(o)
    BY <2>2 DEF CompleteCallback, GateInv, TypeOK, Statuses, Ended
  <2>3. CASE \E o \in Ops : Heartbeat(o)
    BY <2>3 DEF Heartbeat, GateInv, TypeOK
  <2>4. CASE \E o \in Ops : \E timer \in {"main", "beat"} : CallbackTimer(o, timer)
    BY <2>4 DEF CallbackTimer, GateInv, TypeOK, Statuses, Ended
  <2> QED
    BY <2>1, <2>2, <2>3, <2>4
       DEF WakeResumes, LimitReached, ApplyTimeout, StopExecution, vars, GateInv, TypeOK
<1>4. /\ told' = told /\ gate' \in {"PRE_INVOKE", "INVOKING"}
      /\ wake' \in {"none", "armed", "fired", "idle"} /\ invokes' \in Nat
      /\ limit' \in {"none", "armed", "taken"} /\ event' \in {"unset", "set", "error"}
  BY DEF GateInv, TypeOK, FireDue, WakeResumes, LimitReached, ApplyTimeout, StopExecution,
         CompleteCallback, Heartbeat, CallbackTimer, vars, Rearmed, GateAfter, LimitOff
<1>5. TypeOK'
  BY <1>1, <1>2, <1>3, <1>4 DEF GateInv, TypeOK
<1> QED
  BY <1>1, <1>2, <1>5 DEF GateInv, OnlyLastIsLive, GateGuards

-----------------------------------------------------------------------------

\* Every step keeps the invariant, and does to the record what RecordIsGuarded says.
LEMMA StepKeepsGateInv ==
  ASSUME GateInv, ExecutorAssumption, [Next]_vars
  PROVE  /\ GateInv'
         /\ \A i \in 1 .. Len(handlers) - 1 : handlers'[i].seq \in {handlers[i].seq, Gone.seq}
         /\ Closed /\ limit # "taken" => exec'.status = exec.status
<1>1. handlers \in Seq(HandlerType) /\ 1 .. Len(handlers) - 1 \subseteq DOMAIN handlers
  BY DEF GateInv, TypeOK
<1>2. CASE Begin
  <2>1. \A i \in DOMAIN handlers : handlers'[i] = handlers[i]
    BY <1>1, <1>2 DEF Begin
  <2>2. exec'.status = exec.status
    BY <1>2 DEF Begin, GateInv, TypeOK, ExecType
  <2> QED
    BY <1>1, <1>2, <2>1, <2>2, BeginKeeps
<1>3. CASE \E i \in DOMAIN handlers : Call(i) \/ TimesOut(i) \/ CallFails(i) \/ Refused(i)
                                      \/ Returns(i)
  <2>1. exec' = exec
    BY <1>3 DEF Call, TimesOut, CallFails, Refused, Returns
  <2> QED
    BY <1>1, <1>3, <2>1, CallStepKeeps
<1>4. CASE \E i \in DOMAIN handlers : Finish(i)
  BY <1>1, <1>4, FinishKeeps
<1>5. CASE \E i \in DOMAIN handlers : Checkpoint(i) \/ Refresh(i) \/ CheckpointResult(i)
  <2>1. PICK i \in DOMAIN handlers : Checkpoint(i) \/ Refresh(i) \/ CheckpointResult(i)
    BY <1>5
  <2>2. /\ GateInv' /\ i = Len(handlers) /\ ~Closed
        /\ \A j \in DOMAIN handlers \ {i} : handlers'[j] = handlers[j]
    BY <2>1, CheckpointKeeps
  <2>3. Len(handlers) \in Nat
    BY <1>1
  <2> QED
    BY <1>1, <2>2, <2>3
<1>6. CASE \/ FireDue \/ WakeResumes \/ LimitReached \/ ApplyTimeout \/ StopExecution
           \/ \E o \in Ops : \/ CompleteCallback(o) \/ Heartbeat(o)
                             \/ \E timer \in {"main", "beat"} : CallbackTimer(o, timer)
           \/ UNCHANGED vars
  BY <1>1, <1>6, ElsewhereKeeps
<1> QED
  BY <1>2, <1>3, <1>4, <1>5, <1>6 DEF Next, HandlerStep

LEMMA InitGateInv == ASSUME ExecutorAssumption, Init PROVE GateInv
<1>1. TypeOK
  BY DEF ExecutorAssumption, Init, TypeOK, ExecType, HandlerType, Statuses, Ended, Closes, Closed
<1> QED
  BY <1>1 DEF Init, GateInv, OnlyLastIsLive, GateGuards

LEMMA GateInvAlways == Spec => []GateInv
<1>1. Init => GateInv
  BY InitGateInv, ExecutorAssumption
<1>2. GateInv /\ [Next]_vars => GateInv'
  BY StepKeepsGateInv, ExecutorAssumption
<1> QED
  BY <1>1, <1>2, PTL DEF Spec

\* The executor never has two invocations of its execution in flight, however wake-ups,
\* callback timers, HTTP calls, retries and the loss of its worker fall together: the
\* gate of _begin_invocation is enough, because whatever frees it either ends the last
\* invocation or closes the execution, for which nothing begins again.
THEOREM InvocationsAreSerial == Spec => []OneInvocation
<1>1. GateInv => OneInvocation
  BY DEF GateInv, OnlyLastIsLive, OneInvocation
<1> QED
  BY <1>1, GateInvAlways, PTL

\* A process that lost its invocation writes nothing more into the record, and only an
\* execution timeout that was under way changes how an execution was closed.
THEOREM LatestInvocationWrites == Spec => RecordIsGuarded
<1>1. GateInv /\ [Next]_vars =>
        [/\ \A i \in 1 .. Len(handlers) - 1 : handlers'[i].seq \in {handlers[i].seq, Gone.seq}
         /\ Closed /\ limit # "taken" => exec'.status = exec.status]_vars
  BY StepKeepsGateInv, ExecutorAssumption
<1> QED
  BY <1>1, GateInvAlways, PTL DEF Spec, RecordIsGuarded
=============================================================================
