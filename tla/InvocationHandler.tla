--------------------------- MODULE InvocationHandler ---------------------------
(***************************************************************************)
(* durable_execution (execution.py): one invocation reads the execution's  *)
(* state, runs the user's function in one thread and the checkpoint loop   *)
(* in another, and turns the way the function ended into the answer of the *)
(* invocation; the service retries an invocation that raises and resumes   *)
(* one that is pending.  A result or an error too large for the answer is  *)
(* checkpointed as an update of the EXECUTION first.                       *)
(***************************************************************************)
EXTENDS Naturals

CONSTANTS
  None,
  ApiErrors,       \* errors of the service calls: [code, http, staleToken]
  MaxInvocations,  \* bound: invocations of the execution
  MaxBatches       \* bound: batches of the user's own checkpoints in an invocation

Calls == {"checkpoint", "page"}
Answers ==
  [status : {"SUCCEEDED", "FAILED", "PENDING", "RAISED"}, body : {"full", "empty", "error", "interrupt"}]

ASSUME HandlerAssumption ==
  /\ MaxInvocations \in Nat /\ MaxBatches \in Nat
  /\ None \notin ApiErrors \cup [call : Calls, error : ApiErrors] \cup Answers
  /\ None \notin {"SUCCEED", "FAIL", "user", "verdict"}

VARIABLES
  phase,        \* where the wrapper is
  answer,       \* what it answers: [status, body], or None
  cause,        \* the service error that decided the answer, None if it was another
  bg,           \* the checkpoint thread: off, collecting, sending, ended
  flight,       \* what the batch it sends holds: user, verdict, None
  verdict,      \* the update of the EXECUTION being saved: SUCCEED, FAIL, None
  failed,       \* _checkpointing_failed: [call, error] of the source, None
  stopped,      \* _checkpointing_stopped
  hooks,        \* what the plugins were told: none, started, or the status of the end
  record,       \* the service: how the EXECUTION was completed by an update, None
  batches,      \* the service: batches applied in this invocation
  invocations   \* invocations so far

threadVars  == <<bg, flight, failed, stopped>>
serviceVars == <<record, batches>>
handlerVars == <<phase, answer, cause, verdict, threadVars, hooks, serviceVars, invocations>>

-----------------------------------------------------------------------------
(* The classes of errors *)

NonRetryableCodes ==
  {"KMSAccessDeniedException", "KMSDisabledException", "KMSInvalidStateException",
   "KMSNotFoundException"}

StaleToken(e) == e.code = "InvalidParameterValueException" /\ e.staleToken

\* _classify_error_category: EXECUTION, or INVOCATION, which is retried.
Category(e) ==
  IF \/ e.code \in NonRetryableCodes
     \/ e.http \in 400 .. 499 /\ e.http # 429 /\ ~StaleToken(e)
  THEN "EXECUTION" ELSE "INVOCATION"

IsRetryable(e) == Category(e) = "INVOCATION"

\* The ways in which the user's function ends, the errors of service calls apart: a result, an
\* error of the user or of the SDK, a suspension, or a BaseException such as SystemExit.
Endings ==
  {"result", "largeResult", "unserializable", "suspended", "error", "largeError",
   "executionError", "interruptedStep", "exit"}

-----------------------------------------------------------------------------

HandlerInit ==
  /\ phase = "idle" /\ answer = None /\ cause = None /\ verdict = None
  /\ bg = "off" /\ flight = None /\ failed = None /\ stopped = FALSE
  /\ hooks = "none" /\ record = None /\ batches = 0 /\ invocations = 0

Invoke ==
  /\ phase = "idle" /\ invocations < MaxInvocations
  /\ invocations' = invocations + 1
  /\ phase' = "fetching"
  /\ answer' = None /\ cause' = None /\ verdict' = None
  /\ bg' = "off" /\ flight' = None /\ failed' = None /\ stopped' = FALSE
  /\ hooks' = "none" /\ batches' = 0
  /\ UNCHANGED record

Raised == [status |-> "RAISED", body |-> "error"]
Failed == [status |-> "FAILED", body |-> "error"]
\* What leaves the wrapper is no Exception.
Interrupted == [status |-> "RAISED", body |-> "interrupt"]

\* A retryable error is raised, for Lambda to retry; any other is the end of the execution.
ApiAnswer(e) == IF IsRetryable(e) THEN Raised ELSE Failed

\* Before the threads are started the answer leaves the wrapper at once.
LeaveEarly(a, e) ==
  /\ phase' = "leaving" /\ answer' = a /\ cause' = e
  /\ UNCHANGED <<verdict, threadVars, hooks, serviceVars, invocations>>

\* A malformed payload, or an input that is not JSON.
BadInput == phase = "fetching" /\ LeaveEarly(Raised, None)

FetchFails == phase = "fetching" /\ \E e \in ApiErrors : LeaveEarly(ApiAnswer(e), e)

\* The state is complete: the plugins are told, and the two threads are started.
Start ==
  /\ phase = "fetching"
  /\ phase' = "running" /\ hooks' = "started" /\ bg' = "collecting"
  /\ UNCHANGED <<answer, cause, verdict, flight, failed, stopped, serviceVars, invocations>>

-----------------------------------------------------------------------------
(* The end of the user's function *)

\* The body of the with statement is left with answer a.
Leave(a, e) ==
  /\ phase' = "closing" /\ answer' = a /\ cause' = e
  /\ UNCHANGED <<verdict, threadVars, hooks, serviceVars, invocations>>

\* A checkpoint of the EXECUTION that the wrapper waits for.
Save(update) ==
  /\ phase' = "saving" /\ verdict' = update
  /\ UNCHANGED <<answer, cause, threadVars, hooks, serviceVars, invocations>>

Succeeded(body) == [status |-> "SUCCEEDED", body |-> body]

\* The clauses of the try statement, for what is not an error of the service.
Clause(ending) ==
  CASE ending = "result" -> Leave(Succeeded("full"), None)
    [] ending = "largeResult" -> Save("SUCCEED")
    [] ending = "largeError" -> Save("FAIL")
    [] ending = "suspended" -> Leave([status |-> "PENDING", body |-> "empty"], None)
    [] ending \in {"unserializable", "error", "executionError"} -> Leave(Failed, None)
    [] ending = "interruptedStep" -> Leave(Raised, None)
    [] ending = "exit" -> Leave(Interrupted, None)

\* Mutant: the failure of the checkpoint thread fails the execution, whatever the error.
UserEndsUnclassified ==
  /\ phase = "running"
  /\ \/ \E ending \in Endings : Clause(ending)
     \/ failed # None /\ Leave(Failed, failed.error)

\* The function ends, in any of its ways or with a service error of its own; or a synchronous
\* checkpoint of it has met the failure of the checkpoint thread, and BackgroundThreadError
\* has gone through it.
UserEnds ==
  /\ phase = "running"
  /\ \/ \E ending \in Endings : Clause(ending)
     \/ \E e \in ApiErrors : Leave(ApiAnswer(e), e)
     \/ failed # None /\ Leave(ApiAnswer(failed.error), failed.error)

\* Mutant: the result is not waited for (is_sync=False).
SavedUnawaited ==
  /\ phase = "saving" /\ failed = None
  /\ Leave(IF verdict = "SUCCEED" THEN Succeeded("empty")
           ELSE [status |-> "FAILED", body |-> "empty"], None)

\* The checkpoint of the verdict returns, and the answer goes without a body.
Saved ==
  /\ phase = "saving" /\ flight = None /\ record = verdict /\ failed = None
  /\ Leave(IF verdict = "SUCCEED" THEN Succeeded("empty")
           ELSE [status |-> "FAILED", body |-> "empty"], None)

\* It fails, or the thread had failed before.  BackgroundThreadError of a large result has a
\* clause of its own; of a large error create_checkpoint_sync raises the source, and only a
\* CheckpointError is looked at: an error of the page fetch is raised, retryable or not.
SaveFailed ==
  /\ phase = "saving" /\ failed # None
  /\ Leave(IF verdict = "FAIL" /\ failed.call = "page" THEN Raised ELSE ApiAnswer(failed.error),
           failed.error)

-----------------------------------------------------------------------------
(* The checkpoint thread *)

\* A batch of the user's updates, which may be asynchronous and outlast the function, or one
\* with the verdict.
Collect ==
  /\ bg = "collecting" /\ ~stopped
  /\ bg' = "sending"
  /\ \/ phase \in {"running", "saving", "closing"} /\ batches < MaxBatches /\ flight' = "user"
     \/ phase = "saving" /\ record = None /\ flight' = "verdict"
  /\ UNCHANGED <<phase, answer, cause, verdict, failed, stopped, hooks, serviceVars, invocations>>

Apply ==
  /\ batches' = batches + 1
  /\ record' = IF flight = "verdict" THEN verdict ELSE record

BatchDone ==
  /\ bg = "sending"
  /\ Apply
  /\ bg' = "collecting" /\ flight' = None
  /\ UNCHANGED <<phase, answer, cause, verdict, failed, stopped, hooks, invocations>>

\* The call fails, the batch being applied or not; or a page of its reply cannot be fetched.
BatchFails ==
  /\ bg = "sending"
  /\ \E e \in ApiErrors :
       \/ failed' = [call |-> "checkpoint", error |-> e] /\ (Apply \/ UNCHANGED serviceVars)
       \/ failed' = [call |-> "page", error |-> e] /\ Apply
  /\ bg' = "ended" /\ flight' = None
  /\ UNCHANGED <<phase, answer, cause, verdict, stopped, hooks, invocations>>

BackgroundStops ==
  /\ bg = "collecting" /\ stopped
  /\ bg' = "ended"
  /\ UNCHANGED <<phase, answer, cause, verdict, flight, failed, stopped, hooks, serviceVars,
                 invocations>>

-----------------------------------------------------------------------------
(* The way out *)

\* Mutant: the pool is shut down around the state, which is closed only afterwards.
CloseAfterPool ==
  /\ phase = "closing" /\ phase' = "joining"
  /\ UNCHANGED <<answer, cause, verdict, threadVars, hooks, serviceVars, invocations>>

\* contextlib.closing: stop_checkpointing, before the pool's own exit.
CloseState ==
  /\ phase = "closing" /\ phase' = "joining"
  /\ stopped' = TRUE
  /\ UNCHANGED <<answer, cause, verdict, bg, flight, failed, hooks, serviceVars, invocations>>

\* The pool waits for its two threads.
JoinThreads ==
  /\ phase = "joining" /\ bg = "ended" /\ phase' = "leaving"
  /\ UNCHANGED <<answer, cause, verdict, threadVars, hooks, serviceVars, invocations>>

\* What on_invocation_end is told of an answer.
Told(a) == IF a.status = "RAISED" THEN "RETRY" ELSE a.status

\* Mutant: the end is told only of an answer that is returned.
AnswerToldOnReturn ==
  /\ phase = "leaving" /\ phase' = "answered"
  /\ hooks' = IF hooks = "started" /\ answer.status # "RAISED" THEN Told(answer) ELSE hooks
  /\ UNCHANGED <<answer, cause, verdict, threadVars, serviceVars, invocations>>

\* handle_durable_output: the plugins that were told of the start are told of the end, unless
\* what leaves is no Exception.
Answer ==
  /\ phase = "leaving" /\ phase' = "answered"
  /\ hooks' = IF hooks = "started" /\ answer # Interrupted THEN Told(answer) ELSE hooks
  /\ UNCHANGED <<answer, cause, verdict, threadVars, serviceVars, invocations>>

\* The service: a pending execution is resumed, a raised invocation is retried, unless an
\* update has completed the EXECUTION.
Reinvoke ==
  /\ phase = "answered"
  /\ answer.status \in {"PENDING", "RAISED"} /\ record = None
  /\ phase' = "idle"
  /\ UNCHANGED <<answer, cause, verdict, threadVars, hooks, serviceVars, invocations>>

Wrapper ==
  \/ BadInput \/ FetchFails \/ Start \/ UserEnds \/ Saved \/ SaveFailed
  \/ CloseState \/ JoinThreads \/ Answer

Background == Collect \/ BatchDone \/ BatchFails \/ BackgroundStops

HandlerNext == Invoke \/ Wrapper \/ Background \/ Reinvoke

HandlerSpec == HandlerInit /\ [][HandlerNext]_handlerVars

\* Both threads run, and the user's function ends.
FairSpec == HandlerSpec /\ WF_handlerVars(Wrapper) /\ WF_handlerVars(Background)

-----------------------------------------------------------------------------
(* Properties *)

\* An answer without a body stands for a verdict the service has: "Must ensure the result is
\* persisted before returning to Lambda" (execution.py 347, 447), whatever batch of the user's
\* own was in flight, and whatever failed.
AnswerIsBacked ==
  answer # None /\ answer.body = "empty" =>
    /\ answer.status = "SUCCEEDED" => record = "SUCCEED"
    /\ answer.status = "FAILED" => record = "FAIL"

\* A throttled call, a stale token or a fault of the service never ends an execution, on
\* whichever of the paths it comes to light ("5xx, network errors -> INVOCATION",
\* exceptions.py 173; "Terminate Lambda immediately and have it be retried").
RetryableErrorsAreRaised ==
  answer # None /\ cause # None /\ IsRetryable(cause) => answer.status = "RAISED"

\* "Non-retryable Durable API errors ... will never succeed on retry - fail the execution
\* immediately" (execution.py 245, 372, 403).
NonRetryableErrorsEnd ==
  answer # None /\ cause # None /\ ~IsRetryable(cause) => answer.status = "FAILED"

\* The plugins that saw an invocation start see it end, with the status it has; what is no
\* Exception escapes them (handle_durable_output, on_invocation_end).
StartsHaveEnds ==
  phase = "answered" =>
    \/ hooks = Told(answer)
    \/ hooks = "started" /\ answer = Interrupted
    \/ hooks = "none" /\ bg = "off"

\* Every invocation answers: the checkpoint thread is stopped before the pool waits for it,
\* and a verdict is waited for no longer than the thread lives.
InvocationsAnswer == phase = "fetching" ~> phase = "answered"
=============================================================================
