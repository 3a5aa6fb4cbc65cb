---------------------------- MODULE LocalExecutor ----------------------------
(***************************************************************************)
(* The local executor: it invokes the handler of one execution, applies    *)
(* what the handler checkpoints, completes waits, retries and callbacks,   *)
(* and invokes the handler again until the execution is closed.            *)
(*                                                                         *)
(* Every change of the record is a task on the lane of the execution and   *)
(* so an atomic action.  What calls for a task runs on the one thread of   *)
(* the scheduler's pool, which a running invocation occupies; only the     *)
(* wake-up timer, the handler's checkpoints and the HTTP threads reach the *)
(* lane without it.                                                        *)
(***************************************************************************)
EXTENDS Naturals, Sequences, FiniteSets

CONSTANTS
  Ops,            \* the operations of the handler
  Kind,           \* "wait", "step" or "callback", for each operation
  After,          \* the operations that the handler completes before it starts one
  Timeouts,       \* the callbacks with a timeout
  Beats,          \* the callbacks with a heartbeat timeout
  MaxFailed,      \* MAX_CONSECUTIVE_FAILED_ATTEMPTS
  Web,            \* TRUE: checkpoints come over HTTP; FALSE: in process
  MayStop,        \* whether a user may stop the execution
  Limited,        \* whether the execution has a timeout
  MaxDisturb,     \* bound: failed or timed out calls, the stop and the execution timeout
  MaxInvokes      \* bound: scheduled invocations with which a heartbeat may come

ASSUME ExecutorAssumption ==
  /\ Kind \in [Ops -> {"wait", "step", "callback"}]
  /\ After \in [Ops -> SUBSET Ops]
  /\ Timeouts \cup Beats \subseteq {o \in Ops : Kind[o] = "callback"}
  /\ MaxFailed \in Nat \ {0} /\ MaxDisturb \in Nat /\ MaxInvokes \in Nat
  /\ {Web, MayStop, Limited} \subseteq BOOLEAN

VARIABLES
  exec,        \* close status, failed attempts, needs_reinvoke, token sequence
  ops,         \* the status of each operation in the record
  told,        \* the statuses the last invocation has been told (handler_seen_seq)
  timers,      \* the armed timers of each callback
  gate,        \* the InvocationState of the execution's worker
  wake,        \* _pending_wakeup: the timer and how far its coroutine is
  invokes,     \* invoke() coroutines scheduled and not begun
  handlers,    \* the invocations begun so far
  limit,       \* _execution_timeout
  event,       \* the completion event of the execution
  disturbed    \* disturbances so far

vars == <<exec, ops, told, timers, gate, wake, invokes, handlers, limit, event, disturbed>>

Ended == {"SUCCEEDED", "FAILED", "TIMED_OUT"}
Closes == Ended \cup {"STOPPED"}
Closed == exec.status \in Closes

Init ==
  /\ exec = [status |-> "RUNNING", fails |-> 0, needs |-> FALSE, seq |-> 0]
  /\ ops = [o \in Ops |-> "absent"]
  /\ told = ops
  /\ timers = [o \in Ops |-> {}]
  /\ gate = "PRE_INVOKE"
  /\ wake = "none"
  /\ invokes = 1
  /\ handlers = <<>>
  /\ limit = IF Limited THEN "armed" ELSE "none"
  /\ event = "unset"
  /\ disturbed = 0

-----------------------------------------------------------------------------
\* Helpers.

\* The status in which an operation waits for the service (has_pending_operations).
Waiting(o) == IF Kind[o] = "step" THEN "PENDING" ELSE "STARTED"
PendingOps(record) == {o \in Ops : record[o] = Waiting(o)}

\* Mutant: the retries of steps are not looked at.
TimedWaits(record) == {o \in PendingOps(record) : Kind[o] = "wait"}

\* The sources of _earliest_pending_timestamp: callbacks have their own timers.
Timed(record) == {o \in PendingOps(record) : Kind[o] # "callback"}

\* _schedule_earliest_pending: whatever was armed or under way is cancelled.
Rearmed(record, status) ==
  IF status \in Closes \/ Timed(record) = {} THEN "none" ELSE "armed"

\* A worker whose execution is closed is gone after the task: its gate with it.
GateAfter(state, status) == IF status \in Closes THEN "PRE_INVOKE" ELSE state

\* The pool's thread is taken by a handler, or by the execution timeout.
PoolIsFree ==
  /\ \A i \in DOMAIN handlers : handlers[i].call # "calling"
  /\ limit # "taken"

\* _complete_events also cancels the execution timeout, unless it has started.
LimitOff == IF limit = "armed" THEN "none" ELSE limit

\* complete_success, complete_fail, complete_stopped, complete_timeout.
Close(status) == exec' = [exec EXCEPT !.status = status]

\* _retry_invocation: the budget, then another invoke or a failed execution.
\* A failure of a closed execution raises, which reaches its waiters.
Retry ==
  LET fails == exec.fails + 1
      spent == fails >= MaxFailed
  IN /\ exec' = [exec EXCEPT !.fails = fails,
                   !.status = IF spent /\ ~Closed THEN "FAILED" ELSE @]
     /\ invokes' = IF spent THEN invokes ELSE invokes + 1
     /\ event' = IF ~spent THEN event ELSE IF Closed THEN "error" ELSE "set"
     /\ limit' = IF spent /\ ~Closed THEN LimitOff ELSE limit

-----------------------------------------------------------------------------
\* The invocation of the handler.

NewHandler == [call |-> "queued", answer |-> "none", proc |-> "none",
               seq |-> exec.seq]

\* An invocation of which nothing is left.
Gone == [call |-> "over", answer |-> "none", proc |-> "ended", seq |-> 0]

\* Mutant: the gate is not looked at.
MayClaimAlways == TRUE

MayClaim == gate = "PRE_INVOKE"

\* _begin_invocation: claim the gate, or leave the intent to the invocation in flight.
Begin ==
  /\ invokes > 0 /\ PoolIsFree
  /\ invokes' = invokes - 1
  /\ \/ Closed /\ UNCHANGED <<exec, told, gate, handlers>>
     \/ /\ ~Closed /\ ~MayClaim
        /\ exec' = [exec EXCEPT !.needs = TRUE]
        /\ UNCHANGED <<told, gate, handlers>>
     \/ /\ ~Closed /\ MayClaim
        /\ gate' = "INVOKING"
        /\ handlers' = Append(handlers, NewHandler) /\ told' = ops
        /\ UNCHANGED exec
  /\ UNCHANGED <<ops, timers, wake, limit, event, disturbed>>

\* The pool runs the invoker: the handler's process starts.
Call(i) ==
  /\ handlers[i].call = "queued" /\ PoolIsFree
  /\ handlers' = [handlers EXCEPT ![i].call = "calling", ![i].proc = "running"]
  /\ UNCHANGED <<told, exec, ops, timers, gate, wake, invokes, limit, event, disturbed>>

\* The process of an invocation ends with an answer, which its invoker returns
\* unless the call was given up; a call that timed out frees the pool only now.
Ends(h, answer) ==
  IF h.call = "over" THEN Gone
  ELSE [h EXCEPT !.proc = "ended",
                 !.call = IF @ = "calling" THEN "answered" ELSE @,
                 !.answer = IF @ = "none" THEN answer ELSE @]

\* wait_for gives up: a call not yet started never starts.
TimesOut(i) ==
  /\ handlers[i].call \in {"queued", "calling"} /\ handlers[i].answer = "none"
  /\ disturbed < MaxDisturb
  /\ disturbed' = disturbed + 1
  /\ handlers' = [handlers EXCEPT ![i].answer = "timeout",
                    ![i].call = IF @ = "queued" THEN "answered" ELSE @]
  /\ UNCHANGED <<told, exec, ops, timers, gate, wake, invokes, limit, event>>

\* The invoker raises: the function is gone, or its answer is lost, while a
\* process behind HTTP may go on.
CallFails(i) ==
  /\ handlers[i].call = "calling" /\ handlers[i].answer = "none"
  /\ disturbed < MaxDisturb
  /\ disturbed' = disturbed + 1
  /\ \E answer \in {"error", "not found"} :
       handlers' = [handlers EXCEPT ![i].answer = answer, ![i].call = "answered",
                      ![i].proc = IF Web /\ answer = "error" THEN @ ELSE "ended"]
  /\ UNCHANGED <<told, exec, ops, timers, gate, wake, invokes, limit, event>>

\* Mutant: a trigger that came during the invocation is forgotten.
SuspendForgetful ==
  /\ exec' = [exec EXCEPT !.fails = 0, !.needs = FALSE]
  /\ wake' = Rearmed(ops, exec.status)
  /\ UNCHANGED <<invokes, event, limit>>

\* The handler waits for the service: a deferred trigger invokes it again at once.
Suspend ==
  /\ exec' = [exec EXCEPT !.fails = 0, !.needs = FALSE]
  /\ IF exec.needs
     THEN invokes' = invokes + 1 /\ UNCHANGED wake
     ELSE wake' = Rearmed(ops, exec.status) /\ UNCHANGED invokes
  /\ UNCHANGED <<event, limit>>

\* _complete_workflow.
Conclude(answer) ==
  /\ exec' = [exec EXCEPT !.status = answer, !.fails = 0]
  /\ event' = "set" /\ limit' = LimitOff /\ wake' = "none"
  /\ UNCHANGED invokes

\* What the answer does to an open execution: PENDING needs a pending operation.
Applied(answer) ==
  \/ answer \in {"SUCCEEDED", "FAILED"} /\ Conclude(answer)
  \/ answer = "PENDING" /\ PendingOps(ops) # {} /\ Suspend
  \/ answer = "PENDING" /\ PendingOps(ops) = {} /\ Retry /\ UNCHANGED wake

\* _finish_invocation, _retry_after_timeout, _retry_after_error and
\* _fail_invocation_not_found release the gate and say what comes next.
Finish(i) ==
  /\ handlers[i].call = "answered" /\ PoolIsFree
  /\ LET answer == handlers[i].answer IN
     \/ answer \in {"PENDING", "SUCCEEDED", "FAILED"} /\ ~Closed /\ Applied(answer)
     \/ /\ answer \in {"PENDING", "SUCCEEDED", "FAILED"} /\ Closed
        /\ UNCHANGED <<exec, wake, invokes, event, limit>>
     \/ answer \in {"timeout", "error"} /\ Retry /\ UNCHANGED wake
     \/ /\ answer = "not found"
        /\ IF Closed THEN event' = "error" /\ UNCHANGED <<exec, limit>>
                     ELSE Close("FAILED") /\ event' = "set" /\ limit' = LimitOff
        /\ UNCHANGED <<wake, invokes>>
  /\ gate' = "PRE_INVOKE"
  /\ handlers' = [handlers EXCEPT ![i] = IF @.proc = "running"
                    THEN [@ EXCEPT !.call = "over", !.answer = "none"] ELSE Gone]
  /\ UNCHANGED <<told, ops, timers, disturbed>>

-----------------------------------------------------------------------------
\* The process of an invocation.  The last one acts on what it was told.

Running(i) == handlers[i].proc = "running"

\* The operations that it can start, or run, next.
Startable ==
  {o \in Ops : /\ told[o] \in {"absent", "READY"}
               /\ \A p \in After[o] : told[p] \in Ended}

\* The status that its next update gives an operation: a first attempt of a step
\* is retried.
NextStatus(o) ==
  IF Kind[o] = "step" THEN IF told[o] = "READY" THEN "SUCCEEDED" ELSE "PENDING"
  ELSE "STARTED"

\* _schedule_callback_timeouts.
ArmedTimers(o) ==
  (IF o \in Timeouts THEN {"main"} ELSE {}) \cup (IF o \in Beats THEN {"beat"} ELSE {})

\* Mutant: the identity of the invocation is not compared.
TokenHoldsAnyone(i) == ~Closed /\ handlers[i].seq = exec.seq

\* The gate (over HTTP only) and _is_current_token.
TokenHolds(i) ==
  /\ ~Closed /\ handlers[i].seq = exec.seq
  /\ i = Len(handlers)
  /\ Web => gate = "INVOKING"

\* A checkpoint is applied: the caller learns all that it had not seen, and over
\* HTTP the wake-up is armed anew.
Accepted(i, record, status) ==
  /\ Running(i) /\ TokenHolds(i)
  /\ ops' = record /\ told' = record
  /\ exec' = [exec EXCEPT !.status = status, !.seq = @ + 1]
  /\ wake' = IF Web THEN Rearmed(record, status) ELSE wake

\* One with an update; a callback gets its timers.
Checkpoint(i) ==
  /\ \E o \in Startable :
       /\ Accepted(i, [ops EXCEPT ![o] = NextStatus(o)], exec.status)
       /\ timers' = [timers EXCEPT ![o] = ArmedTimers(o)]
  /\ handlers' = [handlers EXCEPT ![i].seq = exec.seq + 1]
  /\ UNCHANGED <<gate, invokes, limit, event, disturbed>>

\* One without, which a branch sends to see whether what it waits for is over.
Refresh(i) ==
  /\ told # ops
  /\ Accepted(i, ops, exec.status)
  /\ handlers' = [handlers EXCEPT ![i].seq = exec.seq + 1]
  /\ UNCHANGED <<timers, gate, invokes, limit, event, disturbed>>

\* The handler's result goes in a checkpoint of its own: the Completed effect
\* closes the execution before the handler returns.
CheckpointResult(i) ==
  /\ \A o \in Ops : told[o] \in Ended
  /\ Accepted(i, ops, "SUCCEEDED")
  /\ handlers' = [handlers EXCEPT ![i] = Ends(@, "SUCCEEDED")]
  /\ event' = "set" /\ limit' = LimitOff
  /\ gate' = GateAfter(gate, "SUCCEEDED")
  /\ UNCHANGED <<timers, invokes, disturbed>>

\* A checkpoint that is refused ends the invocation with an error.
Refused(i) ==
  /\ Running(i) /\ ~TokenHolds(i)
  /\ handlers' = [handlers EXCEPT ![i] = Ends(@, "error")]
  /\ UNCHANGED <<told, exec, ops, timers, gate, wake, invokes, limit, event, disturbed>>

\* The handler has nothing left to do: it is done, or waits for the service.
Returns(i) ==
  /\ Running(i) /\ i = Len(handlers) /\ Startable = {}
  /\ \E answer \in {"PENDING", "SUCCEEDED", "FAILED"} :
       /\ answer = "PENDING" => \E o \in Ops : told[o] \notin Ended
       /\ answer = "SUCCEEDED" => \A o \in Ops : told[o] \in Ended
       /\ handlers' = [handlers EXCEPT ![i] = Ends(@, answer)]
  /\ UNCHANGED <<told, exec, ops, timers, gate, wake, invokes, limit, event, disturbed>>

-----------------------------------------------------------------------------
\* Timers and HTTP calls.

\* _fire_due_operations: whichever waits and retries are due by now.
FireDue ==
  /\ wake = "armed"
  /\ \E due \in SUBSET Timed(ops) :
       /\ due = {} => Closed \/ Timed(ops) = {}
       /\ ops' = [o \in Ops |-> IF o \notin due \/ Closed THEN ops[o]
                                ELSE IF Kind[o] = "step" THEN "READY" ELSE "SUCCEEDED"]
       /\ wake' = IF due = {} \/ Closed THEN "idle" ELSE "fired"
  /\ UNCHANGED <<told, exec, timers, gate, invokes, handlers, limit, event, disturbed>>

\* fire_due goes on: it invokes if something completed, and arms the next wake-up.
WakeResumes ==
  /\ wake \in {"fired", "idle"}
  /\ invokes' = IF wake = "fired" THEN invokes + 1 ELSE invokes
  /\ wake' = Rearmed(ops, exec.status)
  /\ UNCHANGED <<told, exec, ops, timers, gate, handlers, limit, event, disturbed>>

\* send_callback_success and send_callback_failure, whose outcomes are not told
\* apart here: both timers are cancelled.
CompleteCallback(o) ==
  /\ Kind[o] = "callback" /\ ops[o] = "STARTED"
  /\ ops' = [ops EXCEPT ![o] = "SUCCEEDED"]
  /\ timers' = [timers EXCEPT ![o] = {}]
  /\ invokes' = invokes + 1
  /\ UNCHANGED <<told, exec, gate, wake, handlers, limit, event, disturbed>>

\* send_callback_heartbeat arms the heartbeat timer anew.
Heartbeat(o) ==
  /\ o \in Beats /\ ops[o] = "STARTED" /\ invokes < MaxInvokes
  /\ timers' = [timers EXCEPT ![o] = @ \cup {"beat"}]
  /\ UNCHANGED <<told, exec, ops, gate, wake, invokes, handlers, limit, event, disturbed>>

\* A timer of a callback fires.  One that finds its callback complete raises, which
\* is logged; one that finds the execution closed still invokes.
CallbackTimer(o, timer) ==
  /\ timer \in timers[o] /\ PoolIsFree
  /\ timers' = [timers EXCEPT ![o] = @ \ {timer}]
  /\ \/ ~Closed /\ ops[o] = "STARTED"
        /\ ops' = [ops EXCEPT ![o] = "TIMED_OUT"] /\ invokes' = invokes + 1
     \/ Closed /\ invokes' = invokes + 1 /\ UNCHANGED ops
     \/ ~Closed /\ ops[o] # "STARTED" /\ UNCHANGED <<ops, invokes>>
  /\ UNCHANGED <<told, exec, gate, wake, handlers, limit, event, disturbed>>

\* The execution timeout takes the pool's thread and asks for the lane ...
LimitReached ==
  /\ limit = "armed" /\ PoolIsFree /\ disturbed < MaxDisturb
  /\ limit' = "taken" /\ disturbed' = disturbed + 1
  /\ UNCHANGED <<told, exec, ops, timers, gate, wake, invokes, handlers, event>>

\* ... where _apply_timeout closes the execution, whatever its status.
ApplyTimeout ==
  /\ limit = "taken"
  /\ Close("TIMED_OUT")
  /\ limit' = "none" /\ event' = IF event = "error" THEN event ELSE "set"
  /\ gate' = GateAfter(gate, "TIMED_OUT")
  /\ UNCHANGED <<told, ops, timers, wake, invokes, handlers, disturbed>>

\* _apply_stop: a user stops an open execution.
StopExecution ==
  /\ MayStop /\ ~Closed /\ disturbed < MaxDisturb
  /\ Close("STOPPED") /\ disturbed' = disturbed + 1
  /\ event' = "set" /\ limit' = LimitOff
  /\ gate' = GateAfter(gate, "STOPPED")
  /\ UNCHANGED <<told, ops, timers, wake, invokes, handlers>>

-----------------------------------------------------------------------------
HandlerStep(i) ==
  Checkpoint(i) \/ Refresh(i) \/ CheckpointResult(i) \/ Refused(i) \/ Returns(i)

Next ==
  \/ Begin \/ FireDue \/ WakeResumes \/ LimitReached \/ ApplyTimeout \/ StopExecution
  \/ \E i \in DOMAIN handlers :
       Call(i) \/ TimesOut(i) \/ CallFails(i) \/ Finish(i) \/ HandlerStep(i)
  \/ \E o \in Ops : CompleteCallback(o) \/ Heartbeat(o)
                    \/ \E timer \in {"main", "beat"} : CallbackTimer(o, timer)

\* The pool serves its queue in order, so what waits for its thread gets it
\* (strong fairness); processes end, the loop runs, timers fire.
Fairness ==
  /\ SF_vars(Begin) /\ WF_vars(FireDue) /\ WF_vars(WakeResumes) /\ WF_vars(ApplyTimeout)
  /\ SF_vars(\E i \in DOMAIN handlers : Call(i))
  /\ SF_vars(\E i \in DOMAIN handlers : Finish(i))
  /\ WF_vars(\E i \in DOMAIN handlers : HandlerStep(i))
  /\ \A o \in Ops : SF_vars(CallbackTimer(o, "main"))

Spec == Init /\ [][Next]_vars /\ Fairness

-----------------------------------------------------------------------------
\* Properties.

Statuses == {"absent", "STARTED", "PENDING", "READY"} \cup Ended
ExecType == [status : Closes \cup {"RUNNING"}, fails : Nat, needs : BOOLEAN, seq : Nat]
HandlerType ==
  [call : {"queued", "calling", "answered", "over"},
   answer : {"none", "timeout", "error", "not found", "PENDING", "SUCCEEDED", "FAILED"},
   proc : {"none", "running", "ended"}, seq : Nat]

\* The variables hold what the executor expects of them, and the failed attempts
\* stay within their budget as long as the execution is open.
TypeOK ==
  /\ exec \in ExecType /\ (~Closed => exec.fails < MaxFailed)
  /\ ops \in [Ops -> Statuses] /\ told \in [Ops -> Statuses]
  /\ timers \in [Ops -> SUBSET {"main", "beat"}]
  /\ gate \in {"PRE_INVOKE", "INVOKING"}
  /\ wake \in {"none", "armed", "fired", "idle"}
  /\ invokes \in Nat
  /\ handlers \in Seq(HandlerType)
  /\ limit \in {"none", "armed", "taken"}
  /\ event \in {"unset", "set", "error"}

\* "At most one handler invocation per execution in flight" (executor.py:1362-1363),
\* although any timer and any HTTP call may ask for one at any time, and the worker
\* that holds the gate may be replaced.
OneInvocation ==
  \A i, j \in DOMAIN handlers :
    handlers[i].call # "over" /\ handlers[j].call # "over" => i = j

\* Only the last invocation begun gets a checkpoint accepted: the process of an
\* invocation whose call failed or timed out writes nothing once another has begun
\* (execution.py:161-168).  And the status with which an execution was closed stays, unless
\* the execution timeout was under way by then: it looks at nothing (executor.py:1709).
RecordIsGuarded ==
  [][/\ \A i \in 1 .. Len(handlers) - 1 : handlers'[i].seq \in {handlers[i].seq, Gone.seq}
     /\ Closed /\ limit # "taken" => exec'.status = exec.status]_vars

\* "The terminal state is authoritative" (executor.py:1397-1399), also against a timeout
\* that finds the execution closed: the code overwrites it, see LX_Limit.cfg.
ClosedOnce == [][Closed => exec'.status = exec.status]_vars

\* The execution ends and releases who waits for it, unless a callback without a
\* timeout is never completed: no wake-up, callback or deferred invocation is lost,
\* whatever comes during an invocation or fails.
Concludes ==
  \/ <>(event # "unset")
  \/ <>[](\E o \in Ops : Kind[o] = "callback" /\ "main" \notin timers[o] /\ ops[o] = "STARTED")

\* What the service completes reaches a handler even if nothing else ever happens:
\* _fire_due_operations "returns True if at least one operation completed (so the
\* caller re-invokes the handler)" (executor.py:1028-1029), and a trigger that comes
\* during an invocation is deferred (executor.py:1353-1355).
OutcomesReachHandler == \A o \in Ops : ops[o] \in Ended \cup {"READY"} ~> Closed \/ told[o] = ops[o]

=============================================================================
