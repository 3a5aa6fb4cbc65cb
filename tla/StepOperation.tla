---------------------------- MODULE StepOperation ----------------------------
(***************************************************************************)
(* One step (operation/step.py, operation/base.py) over all invocations of *)
(* its execution: the SDK decides from the checkpointed operation whether  *)
(* to run the step's function, the checkpoint pipeline carries its updates *)
(* to the service, and an invocation may end between any two of these      *)
(* steps, taking what is not yet sent with it.                             *)
(*                                                                         *)
(* The service's side of a step is the one of the testing package          *)
(* (checkpoint/processors/step.py, checkpoint/validators/operations/       *)
(* step.py, execution.py).  The pipeline promises what CheckpointLog says: *)
(* updates arrive in order, and a synchronous call returns after its own   *)
(* has been applied and merged.                                            *)
(***************************************************************************)
EXTENDS Naturals, Sequences, FiniteSets

CONSTANTS
  MaxAttempts,   \* of the retry strategy
  Results,       \* what the step's function may return
  None,
  MaxCrashes     \* bound: invocations that die

Errors == {"boom", "interrupted"}
Semantics == {"AT_MOST_ONCE_PER_RETRY", "AT_LEAST_ONCE_PER_RETRY"}

ASSUME StepAssumption ==
  /\ MaxAttempts \in Nat \ {0} /\ MaxCrashes \in Nat
  /\ None \notin Results /\ None \notin Errors /\ Results \cap Errors = {}

VARIABLES
  semantics, \* StepConfig.step_semantics, the same in every invocation
  op,        \* the operation at the service
  view,      \* the operation in ExecutionState._operations
  queue,     \* updates on their way to the service
  pc,        \* where the call of the step is
  taken,     \* the attempts of the checkpointed_result that is acted upon
  payload,   \* the result or error the function has ended with
  crashes,
  \* history
  runs,      \* how often the function has been run for each attempt
  given      \* what the step has returned to, or raised in, the handler

vars == <<semantics, op, view, queue, pc, taken, payload, crashes, runs, given>>

AtMostOnce == semantics = "AT_MOST_ONCE_PER_RETRY"

Attempts  == 1 .. MaxAttempts
Payloads  == Results \cup Errors \cup {None}
Terminal  == {"SUCCEEDED", "FAILED"}
NotFound  == [status |-> "none", attempt |-> 0, payload |-> None]

Update(action, p) == [action |-> action, payload |-> p]

\* Outcomes of the call, as the handler sees them.
Returns(p) == [how |-> "returns", what |-> p]
Raises(error, p) == [how |-> error, what |-> p]

Init ==
  /\ semantics \in Semantics
  /\ op = NotFound /\ view = NotFound /\ queue = <<>>
  /\ pc = "down" /\ taken = 0 /\ payload = None
  /\ crashes = 0
  /\ runs = [a \in Attempts |-> 0] /\ given = {}

-----------------------------------------------------------------------------
(* The service *)

\* StepOperationValidator.validate: a first update of any kind is accepted.
Accepts(o, u) ==
  \/ o.status = "none"
  \/ u.action = "START" /\ o.status = "READY"
  \/ u.action \in {"RETRY", "SUCCEED", "FAIL"} /\ o.status \in {"STARTED", "READY"}

\* StepProcessor.process: all but START count an attempt.
StatusAfter(action) ==
  CASE action = "START" -> "STARTED" [] action = "RETRY" -> "PENDING"
    [] action = "SUCCEED" -> "SUCCEEDED" [] action = "FAIL" -> "FAILED"

Applied(o, u) ==
  [status  |-> StatusAfter(u.action),
   attempt |-> IF u.action = "START" THEN o.attempt ELSE o.attempt + 1,
   payload |-> u.payload]

\* complete_retry: the time of the next attempt has come.
Fire ==
  /\ op.status = "PENDING"
  /\ op' = [op EXCEPT !.status = "READY"]
  /\ UNCHANGED <<semantics, view, queue, pc, taken, payload, crashes, runs, given>>

-----------------------------------------------------------------------------
(* The checkpoint pipeline *)

Send ==
  /\ queue # <<>> /\ Accepts(op, Head(queue))
  /\ op' = Applied(op, Head(queue))
  /\ view' = op'
  /\ queue' = Tail(queue)
  /\ UNCHANGED <<semantics, pc, taken, payload, crashes, runs, given>>

\* The end of an invocation that does not come from the handler.
Dies ==
  /\ pc \notin {"down", "fatal"} /\ crashes < MaxCrashes
  /\ crashes' = crashes + 1
  /\ pc' = "down" /\ queue' = <<>>
  /\ UNCHANGED <<semantics, view, taken, payload, runs, given>>

\* The service applies the update but its answer is lost, and the invocation with it.
LoseAnswer ==
  /\ queue # <<>> /\ Accepts(op, Head(queue))
  /\ op' = Applied(op, Head(queue))
  /\ Dies

Crash == Dies /\ UNCHANGED op

-----------------------------------------------------------------------------
(* check_result_status *)

\* A new invocation starts from the service's state.
Invoke ==
  /\ pc = "down"
  /\ pc' = "check" /\ view' = op
  /\ UNCHANGED <<semantics, op, queue, taken, payload, crashes, runs, given>>

ReplayResult ==
  /\ pc = "check" /\ view.status = "SUCCEEDED"
  /\ given' = given \cup {Returns(view.payload)}
  /\ pc' = "returned"
  /\ UNCHANGED <<semantics, op, view, queue, taken, payload, crashes, runs>>

\* raise_callable_error.
ReplayError ==
  /\ pc = "check" /\ view.status = "FAILED"
  /\ given' = given \cup {Raises("CallableRuntimeError", view.payload)}
  /\ pc' = "returned"
  /\ UNCHANGED <<semantics, op, view, queue, taken, payload, crashes, runs>>

RetryIsPending ==
  /\ pc = "check" /\ view.status = "PENDING"
  /\ pc' = "suspended"
  /\ UNCHANGED <<semantics, op, view, queue, taken, payload, crashes, runs, given>>

\* retry_handler, up to its checkpoint: the strategy is asked with the attempts made; it may
\* also refuse to retry an error.
Handle(error, attempt) ==
  /\ payload' = error
  /\ \/ /\ attempt + 1 < MaxAttempts
        /\ queue' = Append(queue, Update("RETRY", error)) /\ pc' = "retrying"
     \/ queue' = Append(queue, Update("FAIL", error)) /\ pc' = "failing"

\* An AT_MOST_ONCE step found STARTED has been interrupted: it does not run again.
Interrupted ==
  /\ pc = "check" /\ view.status = "STARTED" /\ AtMostOnce
  /\ taken' = view.attempt
  /\ Handle("interrupted", view.attempt)
  /\ UNCHANGED <<semantics, op, view, crashes, runs, given>>

\* Mutant: a step found STARTED sends its START again.
RunAgainRestarts ==
  /\ pc = "check" /\ view.status = "STARTED" /\ ~AtMostOnce
  /\ queue' = Append(queue, Update("START", None))
  /\ taken' = view.attempt /\ pc' = "body"
  /\ UNCHANGED <<semantics, op, view, payload, crashes, runs, given>>

\* An AT_LEAST_ONCE step found STARTED runs again, as the same attempt.
RunAgain ==
  /\ pc = "check" /\ view.status = "STARTED" /\ ~AtMostOnce
  /\ taken' = view.attempt /\ pc' = "body"
  /\ UNCHANGED <<semantics, op, view, queue, payload, crashes, runs, given>>

NotStarted == pc = "check" /\ view.status \in {"none", "READY"}

\* Mutant: an AT_MOST_ONCE step does not wait for its START either.
StartUnawaited ==
  /\ NotStarted
  /\ queue' = Append(queue, Update("START", None))
  /\ taken' = view.attempt /\ pc' = "body"
  /\ UNCHANGED <<semantics, op, view, payload, crashes, runs, given>>

\* AT_MOST_ONCE waits for its START, AT_LEAST_ONCE does not.
Start ==
  /\ NotStarted
  /\ queue' = Append(queue, Update("START", None))
  /\ IF AtMostOnce THEN pc' = "starting" /\ UNCHANGED taken
     ELSE pc' = "body" /\ taken' = view.attempt
  /\ UNCHANGED <<semantics, op, view, payload, crashes, runs, given>>

\* The START has been acknowledged; the status is read again.
Started ==
  /\ pc = "starting" /\ queue = <<>> /\ view.status = "STARTED"
  /\ taken' = view.attempt /\ pc' = "body"
  /\ UNCHANGED <<semantics, op, view, queue, payload, crashes, runs, given>>

-----------------------------------------------------------------------------
(* execute *)

Ran == runs' = [runs EXCEPT ![taken + 1] = @ + 1]

RunSucceeds ==
  /\ pc = "body" /\ Ran
  /\ \E r \in Results :
       /\ queue' = Append(queue, Update("SUCCEED", r)) /\ payload' = r
  /\ pc' = "succeeding"
  /\ UNCHANGED <<semantics, op, view, taken, crashes, given>>

RunRaises ==
  /\ pc = "body" /\ Ran
  /\ Handle("boom", taken)
  /\ UNCHANGED <<semantics, op, view, taken, crashes, given>>

\* An ExecutionError, a failed serialisation among them, ends the whole execution.
RunIsFatal ==
  /\ pc = "body" /\ Ran
  /\ pc' = "fatal"
  /\ UNCHANGED <<semantics, op, view, queue, taken, payload, crashes, given>>

\* Mutant: the result is returned before it is durable.
SucceedUnawaited ==
  /\ pc = "succeeding"
  /\ given' = given \cup {Returns(payload)}
  /\ pc' = "returned"
  /\ UNCHANGED <<semantics, op, view, queue, taken, payload, crashes, runs>>

\* The synchronous SUCCEED has returned: the round-tripped result.
Succeed ==
  /\ pc = "succeeding" /\ queue = <<>>
  /\ given' = given \cup {Returns(payload)}
  /\ pc' = "returned"
  /\ UNCHANGED <<semantics, op, view, queue, taken, payload, crashes, runs>>

\* The stored result cannot be deserialised, by the invocation that stored it or by a replay:
\* an ExecutionError.
ReadBackFails ==
  /\ \/ pc = "succeeding" /\ queue = <<>>
     \/ pc = "check" /\ view.status = "SUCCEEDED"
  /\ pc' = "fatal"
  /\ UNCHANGED <<semantics, op, view, queue, taken, payload, crashes, runs, given>>

\* The synchronous FAIL has returned: a StepInterruptedError is raised as it is.
Fail ==
  /\ pc = "failing" /\ queue = <<>>
  /\ given' = given \cup {Raises(IF payload = "interrupted" THEN "StepInterruptedError"
                                 ELSE "CallableRuntimeError", payload)}
  /\ pc' = "returned"
  /\ UNCHANGED <<semantics, op, view, queue, taken, payload, crashes, runs>>

\* The synchronous RETRY has returned.
Retry ==
  /\ pc = "retrying" /\ queue = <<>>
  /\ pc' = "suspended"
  /\ UNCHANGED <<semantics, op, view, queue, taken, payload, crashes, runs, given>>

\* The suspension reaches the handler: the invocation ends.
Suspend ==
  /\ pc = "suspended" /\ pc' = "down"
  /\ UNCHANGED <<semantics, op, view, queue, taken, payload, crashes, runs, given>>

\* The suspension ends in a branch of a map or parallel that has other work: the branch is
\* resubmitted after an empty checkpoint has brought the service's state.
ResumeInPlace ==
  /\ pc = "suspended" /\ pc' = "check" /\ view' = op
  /\ UNCHANGED <<semantics, op, queue, taken, payload, crashes, runs, given>>

-----------------------------------------------------------------------------

Call ==
  \/ ReplayResult \/ ReplayError \/ RetryIsPending \/ Interrupted \/ RunAgain
  \/ Start \/ Started \/ RunSucceeds \/ RunRaises \/ RunIsFatal
  \/ Succeed \/ ReadBackFails \/ Fail \/ Retry \/ Suspend \/ ResumeInPlace

Next == Fire \/ Send \/ LoseAnswer \/ Crash \/ Invoke \/ Call

Spec == Init /\ [][Next]_vars

\* The service fires timers and invokes, the pipeline sends, the function ends.
FairSpec ==
  Spec /\ WF_vars(Fire) /\ WF_vars(Send) /\ WF_vars(Invoke) /\ WF_vars(Call)

-----------------------------------------------------------------------------
(* Properties *)

Operation ==
  [status : {"none", "STARTED", "PENDING", "READY"} \cup Terminal,
   attempt : 0 .. MaxAttempts, payload : Payloads]

TypeOK ==
  /\ semantics \in Semantics
  /\ op \in Operation /\ view \in Operation
  /\ queue \in Seq([action : {"START", "RETRY", "SUCCEED", "FAIL"}, payload : Payloads])
  /\ pc \in {"down", "check", "starting", "body", "succeeding", "failing", "retrying",
             "suspended", "returned", "fatal"}
  /\ taken \in 0 .. MaxAttempts - 1 /\ payload \in Payloads
  /\ crashes \in 0 .. MaxCrashes
  /\ runs \in [Attempts -> Nat]
  /\ given \subseteq [how : {"returns", "CallableRuntimeError", "StepInterruptedError"},
                      what : Payloads]

\* AT_MOST_ONCE_PER_RETRY: whenever invocations die, and whether or not the service has seen
\* what they sent last, no attempt runs the step's function twice (check_result_status).
AtMostOncePerAttempt == AtMostOnce => \A a \in Attempts : runs[a] <= 1

\* AT_LEAST_ONCE_PER_RETRY: no attempt is counted that has not run the function: a crash
\* costs no attempt.
AtLeastOncePerAttempt == ~AtMostOnce => \A a \in 1 .. op.attempt : runs[a] >= 1

\* What the handler has been given, in any invocation, is what the service keeps: "the step
\* result is durable and won't be lost if Lambda terminates" (step.py 245).
GivenIsDurable ==
  \A g \in given : /\ op.payload = g.what
                   /\ op.status = IF g.how = "returns" THEN "SUCCEEDED" ELSE "FAILED"

\* Once the handler has an outcome the function never runs again, in no later replay.
NoRunAfterOutcome == [][given # {} => runs' = runs]_vars

\* The SDK sends no update that the service refuses, whatever the service has and has not
\* seen of an earlier invocation: the refusal would fail the whole execution.
NoUpdateRefused == queue # <<>> => Accepts(op, Head(queue))

\* "This should never happen - defensive check" (step.py 182): the status read after a
\* synchronous START is STARTED.
StartIsSeen == pc = "starting" /\ queue = <<>> => view.status = "STARTED"

\* A step ends, by a result, an error or the failure of its execution, if invocations do not
\* die for ever: no retry and no suspension is forgotten.
StepConcludes == <>(given # {} \/ pc = "fatal")

\* "Have to throw the exact same error on replay as the checkpointed failure" (step.py 117):
\* all invocations see the same outcome.
SameOutcomeOnReplay == \A g1, g2 \in given : g1 = g2
=============================================================================
