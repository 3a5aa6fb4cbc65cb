# TLA+ models and proofs of the durable execution SDK for Python

The SDK lets a Lambda handler survive the end of its invocation: each operation of the
handler (a step, a wait, a map ...) is recorded by a checkpoint, and a later invocation
replays the handler against the record. The SDK does this with several threads that share
state without one common lock, against a service that may refuse, lose an answer or invoke
again. The modules here model those parts, TLC checks them on small instances, and TLAPS
proves what matters most for every value of the constants.

Paths below are relative to `packages/aws-durable-execution-sdk-python/src/aws_durable_execution_sdk_python/`
(the SDK) and, after "testing:", to
`packages/aws-durable-execution-sdk-python-testing/src/aws_durable_execution_sdk_python_testing/`
(a local implementation of the service).

## 1. Inventory

### The SDK

| Part | State | Operations | Works with | What makes it hard | What makes it correct |
|---|---|---|---|---|---|
| Checkpoint pipeline (`state.py`) | `_checkpoint_queue`, `_overflow_queue`, `_operations`, `_parent_to_children`, `_parent_done`, `_checkpointing_stopped`, `_checkpointing_failed`; the loop's batch and token | `create_checkpoint`, `checkpoint_batches_forever`, `_collect_checkpoint_batch`, `_mark_orphans`, `stop_checkpointing` | every thread of user code calls it; it calls the service | callers and the background thread interleave between the lock, the failure test and the put; a batch may fail in three places; two queues and two limits | a returned synchronous call is durable and merged; the order of the queue is the order of the service; nobody blocked is forgotten; descendants of a finished context are cut |
| `CompletionEvent` (`threading.py`) | set or not, its error | `set`, `wait` | pipeline and its callers | set by one thread, awaited by another | woken once, by the outcome of its own batch |
| `OrderedLock`, `OrderedCounter` (`threading.py`) | the line of Events, `_is_broken`, `_exception`; the counter | `acquire`, `release`, `reset`, the context manager; `increment` | numbering of a context's operations | the line is handed on outside the lock; a body may raise | one body at a time, in arrival order; the n-th caller draws n; nobody in the line is left |
| Completion policy and counters (`config.py`, `concurrency/models.py`) | success and failure counts | `should_continue`, `is_complete`, `should_complete`; `BatchResult.from_items` | executor, `map`, `parallel` | one rule is read in two places, while branches run and afterwards from the items | both readings agree |
| Concurrent executor (`concurrency/executor.py`) | per branch `_status`, `_result`, `_future`; counters, `_completion_event`, `_suspend_exception`; the timer's heap | `execute`, `submit_task`, `_on_task_complete`, `should_execution_suspend`, the timer, `_create_result`, `replay` | a pool, the timer thread, child contexts | three kinds of thread write and read the statuses one by one | the parent always leaves; no branch twice at a time; the result meets the criteria; no suspension past an active branch |
| Step (`operation/step.py`, `base.py`) | the operation's checkpoint | check, execute, retry handler | pipeline, service, retry strategy | an invocation may die anywhere; answers are lost | at most, or at least, one run per attempt; what was given is durable; replays agree |
| Child context (`operation/child.py`) | its checkpoint, `ReplayChildren` | check, execute | executor, pipeline | large results are replayed by running the child again | its outcome is durable before its parent sees it |
| Wait, invoke, callback, wait_for_condition (`operation/*.py`) | the operation's checkpoint; the polled state | check, execute, suspend | pipeline, service | completed by the service while the invocation runs or is gone | exactly one outcome, and the suspended execution is resumed |
| Durable context (`context.py`) | the counter, REPLAY or NEW | one method per operation | all operations | the status is peeked before the operation draws its number | the same ids in every replay |
| Invocation handler (`execution.py`) | the user's thread and the checkpoint thread | `durable_execution` | pipeline, context | an exception of either thread must become the right status or a retry | no invocation reports success that is not durable |
| Suspension and errors (`suspend.py`, `exceptions.py`) | - | the exception classes | everywhere | `except Exception` does not see suspensions, orphans and pipeline failures | each class reaches the handler that is meant for it |
| Retries and waits (`retries.py`, `waits.py`) | - | delays and decisions | step, wait_for_condition | floats, limits | bounded attempts and delays |
| Models, serialisation, plugins, logging | - | conversions, notifications | - | - | - |

### The testing package

| Part | State | Operations | Works with | What makes it hard | What makes it correct |
|---|---|---|---|---|---|
| Local executor (`testing:executor.py`) | the execution's status, `_pending_wakeup`, the callback timers, `_execution_timeout`, the completion events | begin, run and finish an invocation; fire due operations; retries; callbacks, heartbeats, stop, time-outs | scheduler, worker, invoker, store | a trigger during an invocation leaves a flag; a timed-out invocation keeps running; timers race with completions; one pool thread for everything that blocks | one invocation at a time; only the last one writes; no trigger is lost |
| Worker lanes (`testing:worker/*`) | one FIFO thread per execution, the registry | `submit` with eviction, teardown, `stop`, `shutdown` | every operation of the executor goes through them | a finished worker is removed while another is registered | all work of an open execution runs in one lane; whoever submits is answered |
| Execution record (`testing:execution.py`) | operations, updates, `handler_seen_seq`, token sequence, result | complete a wait, a retry, a callback, the execution; the delta for a caller | executor, checkpoint service, history | several completions of one operation | one outcome; every change is told once |
| Checkpoint service (`testing:checkpoint/*`) | `last_checkpoint`, the record | validate, process, apply effects, page the state | the SDK's pipeline is its client | repeated, late and lost calls; completions between pages | applied once, under the current token; no change is hidden from the caller |
| History (`testing:execution.py`, `model.py`, `runner.py`, `observer.py`) | none of its own: it is derived from the record on each request | `get_execution_history`, `events_to_operations`, the search for a callback to answer | test runners read it | three sources of events with equal times; recorded late; pages read while it grows | the events tell each operation's tries in order and its outcome |
| Scheduler (`testing:scheduler.py`) | an event loop thread, one pool thread | delayed calls, events | executor | one blocking worker | what is scheduled runs or is cancelled |
| Web server (`testing:web/*`) | a thread per connection | routes, handlers, error answers | executor, by calls at once or on the lane | requests of clients race with timers and with each other | the answer says what happened |
| Runners (`testing:runner.py`) | where a test is, its deadline | run, wait for a callback, complete it, wait for the result | web server or the in-process executor | polling against a deadline | the test ends, with what the execution ended with |
| Stores, clients, command line | files, requests | I/O | - | - | - |

The OpenTelemetry plugin and the examples observe or use the SDK and hold none of this state.

## 2. Modules

| Module | What it is | Code |
|---|---|---|
| `CheckpointLog` | abstract specification: what the pipeline promises its callers | - |
| `CheckpointBatcher` | the pipeline with its callers, its background thread and the service | `state.py`, `threading.py` |
| `CheckpointBatcherProofs` | its theorems | |
| `MCCheckpointBatcher` | programs of calls for TLC | |
| `OrderedLock` / `OrderedCounter` | the lock; the counter built on it (EXTENDS it) | `threading.py`, `context.py` |
| `CompletionPolicy` | the completion rule as operators, used by the two below | `config.py`, `concurrency/models.py` |
| `CompletionTally` | the rule read by the counters and from the items, side by side | `concurrency/models.py` |
| `PrimitivesProofs` | theorems about the lock, the counter, the tally and the worker lanes | |
| `MCPrimitives` | one specification for TLC whose behaviours are about the counter, the lock or the tally, chosen in the initial state | |
| `ConcurrentExecutor`, `ConcurrentExecutorProofs`, `MCConcurrentExecutor` | one map or parallel with its parent, pool, callbacks and timer | `concurrency/executor.py`, `concurrency/models.py`, `operation/child.py` |
| `StepOperation`, `StepOperationProofs` | one step over all invocations of its execution, with the service's side of it | `operation/step.py`, `operation/base.py`, testing: `checkpoint/processors/step.py`, `checkpoint/validators/operations/step.py`, `execution.py` |
| `DurableContext`, `DurableContextProofs`, `MCDurableContext` | a handler's contexts and the operations it calls on them, over all invocations | `context.py`, `operation/{wait,invoke,callback,wait_for_condition,child}.py`, `state.py`, testing: `execution.py`, processors |
| `InvocationHandler`, `MCInvocationHandler` | one invocation from its input to its answer, with its two threads | `execution.py`, `exceptions.py`, `state.py`, `plugin.py` |
| `CheckpointService`, `CheckpointServiceProofs`, `MCCheckpointService` | the record, the calls that read it page by page and write it, the service's own completions | testing: `checkpoint/*`, `execution.py`, `executor.py` |
| `LocalExecutor`, `MCLocalExecutor` | the invocations of one execution and everything that calls for one | testing: `executor.py`, `execution.py`, `invoker.py`, `scheduler.py` |
| `InvocationProofs` | theorems about the two ends of an invocation, the handler and the local executor | |
| `WorkerLanes`, `MCWorkerLanes` | the registry, workers and lanes that serialise the tasks of an execution | testing: `worker/*`, `executor.py` |
| `LocalApi` | the web server: routes, handlers, answers, and the executor's tasks behind them | testing: `web/*`, `executor.py` |
| `CloudRunner`, `MCCloudRunner` | a test runner as a client of `LocalApi` (EXTENDS it) | testing: `runner.py`, SDK: `lambda_service.py` |
| `ExecutionHistory`, `MCExecutionHistory` | the events derived from the record, their pages and what readers make of them | testing: `executor.py`, `model.py`, `observer.py`, `runner.py`, `execution.py` |
| `RunnerProofs` | theorems about what a runner is told: by the local API, and by the history | |

`PROJECT.json` maps every definition to its lines. Modules that are not composed by EXTENDS meet
at a contract: `CheckpointBatcher` implements `CheckpointLog`, and `StepOperation` and
`DurableContext` use the pipeline as `CheckpointLog` promises it; `DurableContext` takes
replies that hide nothing, which is what `CheckpointService` shows; `LocalExecutor` takes
tasks of an open execution to be atomic, which is what `WorkerLanes` shows; `LocalApi` keeps of
the executor what one callback and one invocation need.

### How the models correspond to the code

**CheckpointBatcher.** A call of `create_checkpoint` is its place `<<t, i>>` in the program of
thread `t`; the record there has the operation, its parent, whether it ends a context,
whether the caller waits, its size, and the calls it must come after. `Admit` and
`RejectOrphan` are the block under `_parent_done_lock` (register the link, mark the
descendants, test), `TestFailed` the test of `_checkpointing_failed` after the lock is
released, `Enqueue` the put, `Wake` the return of `completion_event.wait()`. The background
thread is a program counter `bg`: the overflow queue first (`TakeOverflow`), then the first
operation with its 100 ms polls (`PollStop`, `TakeFirst`, `GetTimeout`), then the window
(`WindowOpen`, `TakeAdditional`, `WindowClosed`: the deadline may pass at any time), the
service call (`SendOk`, `SendFails`), the merge (`Merge`, `MergeFails`) and the waking of
callers one event at a time (`Signal`, `WakeBatch`, `WakeOverflow`, `WakeQueue`,
`SetFailed`). `Accept` is the service: it takes a batch only under the token it issued last.
`admitted` and `enqueued` are history. Left out: payloads other than their size, the initial
paging of the state, plugin notifications.

**OrderedLock, OrderedCounter.** An Event of the line is the number of the `acquire` that made
it, so that a caller keeps its own Event after it has left the line. `Acquire` is the block
under the internal lock, `Proceed` the return of `wait()` with the test of `_is_broken`,
`Exit`, `Break` and `LeaveBroken` the three parts of `__exit__`, `Reset` `reset()`. The counter's
increment is a read and a write of their own inside the body.

**CompletionPolicy.** `ShouldContinue`, `IsComplete`, `ShouldComplete` are the methods of
`ExecutionCounters`, `Reason` is `_get_completion_reason`. Percentages are compared as products
of integers, where the code divides floats (see the hazards in `PROJECT.json`).

**ConcurrentExecutor.** A future is `<<b, k>>`, the k-th submission of branch `b`. Every write
that another thread may see is a step: `submit_task` is `PoolSubmit`, `MarkRunning`, `Hook` (which
runs the callback inline when the task is already done), a run of a branch is `StartTask`,
`Conclude` (its checkpoint first) and `FinishTask`; `_on_task_complete` writes the status, stores
the result, counts, schedules, tests the criteria and scans the statuses one by one, then
decides; the timer pops and resets the due branches in one step (it holds its lock), writes an
empty checkpoint, and submits them; the parent waits for the event, cancels, stops the timer,
shuts the pool down and reads the branches one by one. A worker whose callback lets a
`BaseException` out is dead and is not replaced. What the code of a branch does is reduced to
how it ends: a result, an error, a suspension, a timed suspension, a failure of the pipeline,
or as an orphan. `over` is history for one property.

**StepOperation.** `op` is the operation at the service, `view` the copy in `_operations`, `queue`
the updates on their way. The pipeline is used by its contract (`CheckpointLog`): updates
arrive in order and a synchronous call returns once its own is applied and merged. An
invocation may end between any two steps (`Crash`), also with an update applied and its
answer lost (`LoseAnswer`). `ResumeInPlace` is the resubmission of a suspended branch of a map
or parallel. The semantics of the step is chosen in the initial state.

**WorkerLanes.** One execution, its callers and the workers created for it. `GetOrCreate` is the
registry under its lock, `Accept` and `Refuse` `lane.submit` under the stop lock, `Evict` the
retry of `submit()` with its `MaxAttempts`. The lane's thread takes a task (`TakeTask`), runs it
(`Execute`), reloads the execution (`Reload`), tears itself down in two steps (`TearDownLane`,
`LeaveRegistry`) and answers (`Answer`), or meets the sentinel (`TakeStop`). `ShutDown` empties
the registry and `StopTaken` stops what it held, worker by worker.

**LocalExecutor.** A task on the lane is one action, since lanes do not overlap before the
execution is complete. `gate` is the worker's `InvocationState`, `exec.needs` `needs_reinvoke`, `exec.seq`
the token sequence, `told` what `handler_seen_seq` stands for. `Begin`, `Call` and `Finish` are the
parts of an invocation around its invoker; `TimesOut` and `CallFails` are what may happen to the
call, while the process of the handler may go on behind HTTP (`proc`). `Checkpoint`, `Refresh`,
`CheckpointResult`, `Refused` and `Returns` are the handler's process. `FireDue` and `WakeResumes`
are the two halves of the wake-up coroutine, `CallbackTimer`, `Heartbeat` and `CompleteCallback`
the callbacks, `LimitReached` and `ApplyTimeout` the execution timeout, `StopExecution` a user's
stop. `PoolIsFree` is the scheduler's one pool thread, which a running invocation occupies.

**CheckpointService.** `record` is the Execution, `last` the idempotency record, `clients` the
invocations, each with the view it has built from pages and replies, `wire` the requests under
way. `IsValid` is `CheckpointValidator` with the permitted transitions of each type, `Upserts` and
`Committed` the processors, applied update by update, so that a batch that raises half way leaves
its first half in the record. `ServeCached`, `ServeRefused` and `ServeCheckpoint` are the three
ends of a request, `FetchPage` the paging of the state, `Resend` a repeated request, `Complete`
the service's own completions.

**DurableContext.** The handler is a program: for each context a sequence of instructions, and
the errors that its code catches, by class. What an operation gives the code is how it ends, by a
return or by an error of some class, and a payload; an error that is not caught ends the context.
`stack` holds the contexts whose code is running. `Call` draws the number and looks ahead (`Before`,
`After`: `_replay_aware`), then `Wait`, `ChainedInvoke`, `CreateCallback`, `ReadResult`,
`BeginCheck`, `Check`, `EnterChild`, `LeaveChild`, `CloseChild`, `FailChild` are the operations; one that
has to wait for the service leaves all contexts (`Suspend`). `Send` is the pipeline, `Complete` the
service, `Crash` the death of an invocation between any two steps. `reached`, `given` and `polls`
are history.

**InvocationHandler.** `phase` is where the wrapper is, `bg` the checkpoint thread. `UserEnds`
has every way in which the user's function may end and the `except` clause each meets (`Clause`);
`Save`, `Saved` and `SaveFailed` are the checkpoint of a result or an error too large for the answer;
`CloseState` and `JoinThreads` the exits of the context managers, in their order; `Answer` what
the plugins are told and Lambda gets. A service error is a record of code, HTTP status and whether
it names a stale token, which is all `_classify_error_category` looks at.

**LocalApi, CloudRunner.** A request is a method, a path of decoded segments, a body and a query,
each good, lacking or malformed; `FindRoute` goes through the routes in their order and `Work` is
the handler: the refusal, or what is asked of the executor, at once or on the lane. A connection
is asking, served and answered in steps of its own, so clients, timers and the function interleave
between an effect and its answer. The runner is a client with a deadline: it polls for its callback,
completes it, polls for the end.

**ExecutionHistory.** `UpdateEvent`, `EndedByItself` and `InvocationCompleted` are the three
sources of events. The code appends events to a list and sorts it by time; here `Events` is a set in
which each event carries its `place` in that list (the part, the index in the part, the number among
the events that are appended for this index), `Precedes` is what the stable sort compares, and
`Sorted` is the list after it, whose positions are the ids of `from_event_with_id`. `Page` is the
paging in both directions, `EventsToOperations` the reader of `observer.py`, `CallbackFrom` the search
for a callback to answer. The numbers of events are not kept in them, since each request gives new ones.
Records that a test sets up without updates are initial states (`SetUp`, `LegacyEvents`).

## 3. What the runs check

Every run has bounded inputs; where threads end, deadlock checking is off, and each such
configuration says why.

| Run (configuration) | Instance and bounds | Shows |
|---|---|---|
| `batcher_fanout` (`CB_FanOut`) | 3 threads, 6 calls, one of them below a branch that was begun in an earlier invocation; limits 3 operations and 3 bytes, all three failures | `AcknowledgedIsDurable`, `RegisteredDescendantsAreCut`, that the pipeline implements `CheckpointLog`; liveness `BlockedCallersAreServed`, `BlockedAtFailureAreWoken` |
| `primitives` (`PR_Primitives`) | 3 threads, 7 calls of `acquire`, lock or counter; or every configuration with small limits, up to 4 branches | `NumbersFollowArrival`, `ReasonExplainsStop`; liveness `CallersAreAnswered` |
| `executor` (`CE_Race`) | 2 branches, 2 workers, `first_successful`; a branch succeeds, fails, is suspended, or suspends itself once for a time; the refresh before a resubmission may fail, an enclosing context may complete | `ResultMeetsCriteria`, `BranchesAreTracked`, `OutcomesAreDurable`; liveness `ParentLeavesUndisturbed` |
| `executor_background_error` (`CE_Background`) | the same with branches that may end by `BackgroundThreadError` | `ParentLeaves` is violated: see below |
| `step` (`ST_Step`) | 3 attempts, 5 deaths, 2 results, both semantics | `AtMostOncePerAttempt`, `GivenIsDurable`, `NoUpdateRefused`; liveness `StepConcludes` |
| `lanes` (`WL_Lanes`) | 3 callers with 4 tasks, one of which completes the execution and one raises; up to 4 workers; a shutdown | `SerialUntilComplete`; liveness `SubmittersAreAnswered` |
| `local_executor` (`LX_Executor`) | a step that is retried, then two callbacks, one with a timeout and a heartbeat; a stop, an execution timeout or a failed call; 2 failed attempts close the execution | `OneInvocation`, `RecordIsGuarded`; liveness `Concludes`, `OutcomesReachHandler` |
| `checkpoint_service` (`CK_Service`) | a context, a step in it, a wait and a callback; pages of one operation, batches of up to two, 2 invocations, 2 calls, one lost or repeated | `NothingHidden`, `AppliedOnce`, `FinalStays` |
| `context` (`DC_Context`) | four handlers, each catching any set of the errors, but above a large child not telling the two of a failed check apart; 3 polls, 4 deaths | `OutcomesAgree`, `NothingRefused`, `NewCodeIsNew`, `PollsContinue`; liveness `Concludes` |
| `invocation` (`IH_Handler`) | one error of each class the classification tells apart; 4 invocations of 2 batches | `AnswerIsBacked`, `RetryableErrorsAreRaised`, `StartsHaveEnds`; liveness `InvocationsAnswer` |
| `history` (`EH_History`) | a step, a callback, a chained invoke; 3 updates, 2 invocations, two instants, pages of four events | `HistoryTellsTheRecord`, `PagesAreSafe`, `CallbackIsGivenInTime` |
| `api` (`CR_Api`) | the function, a test and another client that sends any of 25 good and bad requests; both timeouts of the callback | `OneOutcome`, `OpenCallbackIsTimed`; liveness `TestEnds` |

Why the bounds are enough for what they show. Batching: three operations are the least for a
batch to fill, overflow and be followed by another; sizes 1 and 2 against limits 3 and 2 make
every comparison go both ways; each failure may hit any batch. Nesting: the tree P, C, g has a
descendant that is not a child, and D, a branch begun earlier, one whose link nobody has registered.
Lock: three callers are a holder, a successor and one behind it,
and the tickets let each come back after a break and a reset. Executor: the races are between a
callback and the callback of another branch, the timer or the parent, so two branches suffice.
Step: three attempts are a first, a middle and a last one. Lanes: three callers are one whose
task completes the execution, one that holds the stopped worker and one that creates the next.
Local executor: with two callbacks one completes while an invocation that was begun for the other
is under way, which is the deferred trigger; the safety properties are proved for any number of
disturbances. Checkpoint service: a repeated call and
a new one by the next invocation are the two that can meet; pages of one operation make every
list longer than a page. Context: each operation occurs with one before and one behind it, in the
root and in a child, and children are nested twice. History: two instants make every order and
every tie of times. Api: the timers, the test and one stranger are already four that race for one callback.

Bounds that cut off behaviours, each a guard in its module: `MaxTickets` (calls of `acquire`),
`MaxResumes` (timed suspensions of a branch), `MaxCrashes` (deaths of invocations),
`MaxBranches`, `MaxDisturb` (failed calls, the stop and the execution timeout), `MaxInvokes`
(scheduled invocations beside which a heartbeat comes), `MaxPolls` (checks of a condition),
`MaxBatch`, `MaxCalls`, `MaxLost` (updates of a call, calls, and requests repeated or invocations
given up), `MaxInvocations`, `MaxBatches`, `MaxTime` (the clock), `MaxUpdates`, and `MaxRequests`
(requests other than those of the function and the test). `MaxOps`, `MaxBytes`, `MaxAttempts`,
`MaxFailed`, `MaxItems`, `PageItems` and `MaxWorkers` are limits of the code. The pipeline needs no
bound: programs are finite, and each call is queued once.

### Fairness

- `CheckpointBatcher!FairSpec`: each thread, the stop and the background thread run on. User
  code between two calls ends, and the service answers every call, if with an error. A lost
  *request* is a timeout of the client and so an error as well.
- `MCPrimitives!EitherSpec`: a thread whose Event is set runs on, and a body ends. Nobody
  needs to come, to break the lock, or to reset it.
- `ConcurrentExecutor!FairSpec`: one weak fairness for all threads. With `MaxResumes` every
  behaviour of the module is finite, so it says that the system does not stop while a thread
  can run. It says nothing of the ancestor that may complete.
- `StepOperation!FairSpec`, `DurableContext!FairSpec`: the service ends waits, fires retries and
  invokes again, callbacks and invoked functions answer or time out, the pipeline sends, the
  function runs on. Deaths are finitely many (`MaxCrashes`), without which nothing need ever end.
- `InvocationHandler!FairSpec`: the wrapper and the checkpoint thread run, the function ends.
- `WorkerLanes!Fairness`: each caller and each lane runs, and a shutdown once begun goes on.
- `LocalExecutor!Fairness`: the handler's process ends, the event loop runs, a wake-up that is armed
  fires, a timeout that has begun is applied. What needs the scheduler's pool thread (`Begin`,
  `Call`, `Finish`, the main timer of a callback) has strong fairness: the pool serves its queue in
  order, so whatever waits for the thread gets it although others take it in between. Nobody has to
  complete a callback, to stop the execution or to disturb it.
- `LocalApi!ApiFairness` and `CloudRunner!Spec`: threads, lanes and the pool run, the function reads
  its answers and ends; the test goes on and its time passes. No other client has to do anything.

### What the code does not do as its comments say

`executor_background_error` is a standing run that TLC refutes: a branch that ends by
`BackgroundThreadError` leaves its callback without a decision, and `execute()` waits for ever;
`PROJECT.json` quotes the comment.

The following configurations are kept for reading. TLC shows a counterexample in each of them, and in
`DC_Claims` one of each claim, with `-continue`.

| Configuration | Claim | What happens |
|---|---|---|
| `CB_FailureRace` | `FailureReachesEveryCaller` | a caller between the test of `_checkpointing_failed` and the put is missed by the failure path, and waits for ever |
| `CB_OversizeStarves` | `BlockedCallersAreServed` | an update larger than the byte limit that reaches the overflow queue is put back for ever |
| `CE_TornResult` | `ResultIsBuilt` (`executor.py` 404) | a result read between the status of a branch and its value ends the batch with `InvalidStateError` |
| `ST_Interrupted` | `SameOutcomeOnReplay` | an interrupted step raises one error when found and another in replays |
| `DC_Claims` | `GivenTheSame` (`wait_for_condition.py` 283) | a check that fails raises its own error the first time and `CallableRuntimeError` in replays |
| `DC_Claims` | `PollStateIsDurable` (`wait_for_condition.py` 256-259) | a death between START and RETRY makes the next check begin with the initial state |
| `DC_Claims` | `ReplayLasts` (`context.py` 455) | a callback still pending makes the context NEW while what follows it has ended |
| `IH_LargeError` | `NonRetryableErrorsEnd` (`execution.py` 245) | the source of a failure met while a large error is checkpointed is raised whatever its category |
| `LX_LostWakeup` | `OutcomesReachHandler` (testing: `executor.py` 1028, 1353) | a wait that completes while its handler suspends beside a callback is neither deferred nor announced |
| `LX_Limit` | `ClosedOnce` (testing: `executor.py` 1397-1399) | `_apply_timeout` (1709) overwrites the terminal status of an execution that closed meanwhile |
| `CK_News` | `SuspendedChangesAreAnnounced` (`state.py` 464) | only waits and retries are noted as updated, callbacks are not |
| `EH_Callback` | `OnlyOpenCallbacksAreGiven` (testing: `runner.py`) | a callback that has ended is handed out when it is asked for by name |
| `CR_Stopped` | `TimeoutMeansRunning` (testing: `runner.py`) | STOPPED is no status the runner ends at, so a stopped execution is reported as a timeout |

Other places where the modules follow the code against a comment, a doc or an expectation:

- Pipeline. A context STARTed by an earlier invocation sends no START again (`operation/child.py`,
  `check_result_status`), so in the resumed invocation its link to its parent is missing from
  `_parent_to_children`, and what is below it passes after an enclosing context has ended, against
  the comment at `state.py` 540; `RegisteredDescendantsAreCut` speaks of what the links known at the
  end of a context put below it. The
  orphan test and the put are in different critical sections (`state.py` 547), so
  an update can follow the completion of its context; a descendant that first checkpoints after
  that completion is in no set the test looks at; branches left by an early completion stay
  blocked when the loop stops (811); an update that does not fit alone changes the order (840).
- Executor. A failed refresh is a `BaseException` and ends the timer thread (`executor.py` 247); an
  orphan of a further ancestor leaves its parent waiting (371); the scan of statuses is torn by a
  resubmission (121); criteria met between a status and its count lose to a suspension; a replay
  differs from the result when a branch ended after the result was read, or has no checkpoint of its
  own. Without a tolerance the first failure stops a batch (`config.py` 130). A lock that
  broke with callers in the line cannot be reset (`threading.py` 159).
- Handler. An error larger than the limit of the answer is returned without a look at its size where
  the function raised `ExecutionError` (`execution.py` 417-422); a FAILED answer can
  contradict a SUCCEED that the service applied and whose reply was lost.
- Context. A virtual child made while replaying can make its parent NEW (`context.py` 526-531). A
  check of `wait_for_condition` that fails raises its own exception when it runs (285) and
  `CallableRuntimeError` when it is replayed (112-113), so a handler that catches one of them and not
  the other goes another way in a replay. What it is given from there on differs, and where this happens
  in a child with a large result it may fail where it had succeeded, and send a FAIL for a SUCCEEDED
  context, which the service refuses. `OutcomesAgree` and `NothingRefused` are therefore about the
  handlers that treat the two alike (`ErrorsAlike`), and `OutcomesAgree` leaves open which of the two
  classes it is; of the class of any other error it demands that it is the same. Not modelled are the
  attributes of an error other than its payload, and that an `InvocationError` of a child is raised
  again as it is (`child.py` 257-262).
- Local executor. `_execution_timeout` is one field of the executor, shared by all executions (186,
  1645); a valid PENDING counts as a failed attempt when its operation completed before the answer
  was looked at (1418); a late failure of an invocation sets the error of an event that was set;
  a heartbeat is answered 200 while the task of a timer that has fired is queued behind it; a callback
  can be completed after its execution closed; a completion is answered 404 although it was
  applied, if the invocation it asks for cannot be scheduled, and one by bytes that are no text is
  answered 404 and leaves the callback open. An invocation's
  timeout takes effect only when the handler's thread ends (`scheduler.py` 71).
- Lanes. Once the execution is complete, two lanes may overlap, and a lane created by a submission
  after completion is kept until the next task (`execution_worker.py` 32-34).
- Checkpoint service. CHAINED_INVOKE has validators and no processor, so a batch with one raises after
  earlier updates were applied (`transformer.py` 118).
- Web. The conflict answer 409 is unreachable, since the executor turns every failure of a
  callback call into 404; an unknown route is answered 500
  (`docs/error-responses.md` 268 says 404).
- History. `from_event_with_id` drops the details of a completed invocation; the reader knows no
  event for a stopped chained invoke; a step between two tries is told as ended; reverse
  paging can miss, and forward paging repeat, an event below an invocation's end that is recorded late.

## 4. What is proved

For every value of the constants that satisfies the modules' `ASSUME`s.

- **Pipeline** (`CheckpointBatcherProofs`). `TypeCorrect`: types, `InsideACall` (a thread that is
  inside `create_checkpoint` is at a call of its program) and that the loop holds a non-empty batch
  where it takes its head. `AcknowledgedAreDurable`: the invariant is `AckInv`, which adds to the
  property that every event set to ok, and every call still to be signalled, is in the log and
  merged: the property speaks of calls that have returned and is not inductive without the events
  that let them return. `SentInQueueOrder`: `InLine` says that log, batch, overflow and queue, one
  after the other, are the calls as they were enqueued, as long as batches are collected and sent
  (after a failure nothing is sent any more), that the overflow queue holds at most one call, and
  that it is empty whenever the main queue is read. It assumes `NoOversize`, that no update alone
  exceeds the limit: without it the theorem is false, because what does not fit is put back at the
  tail.
  `PipelineIsALog` is the refinement of `CheckpointLog`, under the same assumption: each step maps to
  a step or a stutter. Beside `OrderInv` it needs `OnceInv`: a call is queued once and is in one
  place at a time, whoever waits has an event that is unset, events are set for queued calls only,
  and a pipeline that has failed has no thread that would set one again.
  `RegisteredAreCut` assumes nothing of the program, and holds of resumed branches too: `CutInv` says
  that `children` has the links of all calls that have passed, that `parentDone` has whatever the
  links known when a context ended put below it, and that nothing of it has passed since. Both sets
  only grow. What is below a context by links that were not known then is in no set the code looks at,
  and the property does not speak of it.
- **Lock and counter** (`PrimitivesProofs`). `LockTypeCorrect`, `BodiesExclude`, `FirstComeFirstServed`,
  `BrokenStaysShut`, from `LockInv`: the line is increasing, at most its head is let in while the lock
  is whole, a ticket belongs to one thread, and whoever was let in came before everybody in the
  line. `NumbersInOrder`: `CountInv` adds that the line lacks only those who have drawn, so that the
  number read in the body is the ticket's, and that it is written before the line moves on.
- **Completion** (`PrimitivesProofs`). `CountsStayInRange` and `ReasonsAreRight`: the latter for
  configurations with a tolerance or without criteria, the ones for which the two readings of the
  rule agree.
- **Executor** (`ConcurrentExecutorProofs`). Any number of branches, workers and resumptions, and any
  criteria. `Tracked` ties the places a branch is in (pool, a worker, the timer's heap, a callback)
  to its status and says that it is in one of them; `BranchesStayTracked` adds `Scans`, what a scan
  of the statuses has passed over. `OutcomesAreKept`: `Durable` has the checkpoint behind every outcome
  of the last submission and the status behind every item; it assumes `~Flat`, since branches of a
  flat batch have no checkpoints of their own. `ResultRestsOnItems`: the decision is made from the
  counters and the result from the items, read one by one and later; `Decisions` names the sets of
  branches that were counted when the decision was made, and says that they meet the criteria and
  that each of them is in the items read so far as it was counted. That more outcomes do not undo
  `should_complete` is what makes it hold.
- **Step** (`StepOperationProofs`). From `StepInv`, an invariant of what may be in `queue` at each
  place of the call, how far `view` may lag behind `op`, and how often each attempt has run:
  `StepTypeCorrect`, `RunsOnceAtMost`, `RunsOnceAtLeast`, `GivenOutcomesAreDurable`,
  `UpdatesAreAccepted`, `StartIsAlwaysSeen`, `OutcomeIsFinal`. Together they say that the SDK and the
  service agree on a step wherever invocations die.
- **Contexts** (`DurableContextProofs`). Any program that `ProgramAssumption` admits (a child context
  has code, a result is read of a callback created before it), any nesting, any number of deaths; the
  program treats the two errors of a failed check alike (`ErrorsAlike`, see section 3): without this
  the theorems are false where `DC_Claims` says so.
  The invariant `Inv` has these parts: `Shape` and `Parents`, how the running contexts hang together
  and whom their operations report to; `OpsFit`, every operation is that of its place in the program;
  `Seen`, an invocation knows the operations as they are but for what the service alone completes;
  `Acceptable`, `Origin` and `Open`, that each update in the queue is taken when its turn comes, whose it is,
  and that the contexts whose code runs are started or about to be; `GivenInOrder`, `FramesRan`,
  `ChildrenRan`, that code gets to a line by what the lines before it were given, in some invocation,
  and ends by an error only if its line may raise it; `Agree`, what two invocations may be given at
  one point (the same payload, and both a return or both an error); and `SomeLogs`. The last is the heart of `OutcomesAgree`, which is not inductive: a child with a
  large result is given what its code makes of what *it* is given, in this invocation and in an
  earlier one. `SomeLogs` says that one function `L` from contexts and lines to logs fits everything
  given in any invocation and every running context, and that behind each thing given stands what
  cannot change any more: a terminal operation, the created callback, or the log of a context that
  has run to its end. `InvocationsAgree` and `UpdatesAreTaken` follow, the former with the class of the error, which the kind
  of the operation determines unless it is a condition; `ContextsAreSound` is the
  invariant itself.
  `NewCodeReplaysNot` adds `ReachInv`, on the points of the program that the code has passed: what
  has an operation was called in some invocation, and the lines before it were passed; a context
  that still replays is at a point passed before and has an operation after it; a context that meets
  an operation it does not know replays no more. The property alone says nothing of the operations
  that `_replay_aware` looks at. `PollsGoOn` adds `PollInv`: a condition that is PENDING or READY has
  the state of as many checks as it has attempts, a RETRY in the queue that of one more, and only
  the condition under the running check is STARTED. Both hold while no invocation has died, as the
  properties say, and are proved for handlers that treat the two errors alike; the run checks the
  properties for the others too.
- **Local executor** (`InvocationProofs`). `InvocationsAreSerial` and `LatestInvocationWrites`, from
  `GateInv`: only the last invocation can be other than over, and while the execution is open a free
  gate means that none is in flight. It is not so of a closed execution, whose worker, with its
  gate, is gone while a late invocation runs on.
- **Checkpoint service** (`CheckpointServiceProofs`). `RepeatsAreAppliedOnce`,
  `ChangesReachTheInvocation` and `FinalOperationsStay`, for any operations, batches and pages of any
  size, and any requests lost, late or repeated, in process and over HTTP, with client tokens and
  without. The invariant is `ServiceInv`. `SpentTokens` is why nothing is applied twice: a request
  carries a token that the record has had, and no longer has once the request was applied, so that a
  copy is either the last call, and answered from `last`, or refused. `Awaited` is why nothing is
  hidden: a request in flight whose token is still good belongs to an invocation that waits for
  it or has given up, so the delta of a checkpoint, after which the watermark moves, goes to somebody
  who reads it. `GoesOn` is what a batch does to the record, also one that raises half-way: the list
  of operations grows at its end only, and what changes is touched with a number above the counter
  as it was. It is shown update by update (`UpsertsKeep`), by a least counterexample over the stages
  of the batch (`StageByStage`). `PageFacts` says that a page leaves unknown only what is on later
  pages. `ServiceTypeCorrect` is the type invariant, which no run checks on its own.
- **Lanes** (`PrimitivesProofs`). `OpenExecutionIsSerial`, from `LanesInv`: types, that a caller which
  asks for a lane has a task and an attempt left, and `OneLane`, which holds until the execution is
  complete or the runner closes: no lane is stopped, so nobody is refused and nobody evicts, whoever
  holds a worker holds the registered one, and no other has work. The property speaks of running
  tasks only and says nothing of the queues they come from. `LanesTypeCorrect` is its first part.
- **Local API** (`RunnerProofs`). `CallbackHasOneOutcome` and `CallbackKeepsTimeouts`, for any
  clients, requests and timeouts, from `ApiInv`. `OneOutcome` speaks of the clients that were told and
  says nothing of those that are about to be: `OneWins` adds that of the requests served with a 200
  for completing the callback, and not told yet, there is at most one, and that nobody was told
  before it. `OnOneLane` is what makes a request be served once: it is on one lane, that of its
  execution, in one place, and its thread waits. `OpenCallbackIsTimed` is inductive with these.
- **Handler** (`InvocationProofs`). `BodilessAnswersAreSaved`, `RetryableErrorsLeave` and
  `PluginsSeeTheEnd`, from `HandlerInv`: a failure ends the checkpoint thread, so nothing is in flight
  when it is met; a verdict is in flight only while it is waited for and while nothing is answered
  yet, so no batch changes what an answer stands for; and the plugins know of the invocation in
  every phase behind its start. Errors are any set of records; only that `None` is none of them, and
  no answer, is assumed.
- **History** (`RunnerProofs`). `HistoryAlwaysTellsTheRecord`, `CallbacksAreGivenInTime`,
  `PagesAreAlwaysSafe` and `EventsAreKept`, for any operations of any kinds, any number of updates and
  invocations, any times and any size of the pages, and for every record that a test sets up by hand.
  All of them rest on `HistoryInvHolds`, whose `HistoryInv` has three parts.
  `RecordInv` says what a record is that an execution has written. The times of the updates never
  go back and nothing is later than the clock (`NothingIsLater`); the updates of an operation are in turns
  a start and an end of a try (`TriesAlternate`); an operation agrees with its last update,
  or has ended by itself since (`Agrees`); `OrderIsRight` gives each operation one place. `MadeBy`
  says that while the invocation that created an operation runs no invocation recorded as completed
  is later than its updates: this is what `_is_callback_ready_for_response` relies on when it
  concludes from an end behind the callback's start that the invocation is over. `UpdatesFit` says that
  only steps and contexts send an update that ends a try. `ReaderInv` says that what a client still
  expects, or has read, lies at its marker or above.
  The argument about the order has three parts. `PlacesTellApart` and `EventsAreOrdered`: no two events
  of a record share a place, so the sort is total and `SortedFacts` gives every event one position,
  which is the number of those before it and one. `EventsGrow`: no step takes an event away or changes
  what it says; so a position can only rise (`PositionsGrow`), which is why a marker misleads nobody
  although the end of an invocation is inserted below events already read. `ByItself`: an operation
  whose end no update tells is not touched again, so its end stays last. `HistoryTellsTheRecord` then
  follows operation by operation (`TellsOf`), by counting the events of an operation up to each.

These properties of the runs are stated by theorems: `AcknowledgedIsDurable`,
`RegisteredDescendantsAreCut`, `ImplementsLog`, `NumbersFollowArrival`, `ReasonExplainsStop`,
`BranchesAreTracked`, `OutcomesAreDurable`, `ResultMeetsCriteria`, `AtMostOncePerAttempt`,
`GivenIsDurable`, `NoUpdateRefused`, `OutcomesAgree`, `NothingRefused`, `NewCodeIsNew`,
`PollsContinue`, `OneInvocation`, `RecordIsGuarded`, `NothingHidden`, `AppliedOnce`, `FinalStays`,
`SerialUntilComplete`, `AnswerIsBacked`, `RetryableErrorsAreRaised`, `StartsHaveEnds`, `OneOutcome`,
`OpenCallbackIsTimed`, `HistoryTellsTheRecord`, `PagesAreSafe` and `CallbackIsGivenInTime`: every
safety property of a passing run. The other proved invariants (types, `SentInOrder`, those of the lock,
`CountsInRange`, `AtLeastOncePerAttempt`, `StartIsSeen`, `NoRunAfterOutcome`, the inductive
invariants) were checked by TLC before they were proved and are in no standing run.

Only model-checked: the liveness properties, since fairness and ENABLED are outside the prover's
reach.

## 5. Plan

Done: pipeline, lock and counter, completion rule, executor, step; worker lanes, local executor,
checkpoint service, contexts and their operations, invocation handler, web server, cloud runner,
history; the proofs of section 4. Left, in the order of what would hurt most if it were wrong:

1. The pipeline composed with the checkpoint service in one module, in place of the contract.
2. The requests of `LocalApi` composed with the gate and the timers of `LocalExecutor`, which now
   each leave the other out.

## 6. What is not modelled, and why

- Conversions, models, logging, preview and serialisation: data without control. That
  a stored result may fail to be read back is a step of `StepOperation`.
- Files and SQL: a store is the variable that holds the execution. The command line, the start and
  stop of the server: process control around what is modelled.
- Notifications of single operations to plugins, and the OpenTelemetry plugin: they observe the
  execution and change none of it.
- Item batching and summaries of `map` and `parallel`: they change the shape of items, not when
  they run.
- Delays, jitter and wait strategies: time is a step that may happen at any moment, and a strategy a
  choice between going on and stopping.
- Floating-point rounding of percentages: outside TLA+'s arithmetic.
- In `LocalApi`: the parsing of a request is merged with its arrival, since nothing it reads can
  change; a timer's firing with its submission to the lane; execution timeouts and repeated
  checkpoints are left to `LocalExecutor` and `CheckpointService`.
- The examples.
