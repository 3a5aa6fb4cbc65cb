-------------------------- MODULE ConcurrentExecutor --------------------------
(***************************************************************************)
(* One map or parallel (concurrency/executor.py, concurrency/models.py):   *)
(* the thread that calls execute() submits a task per branch to a thread   *)
(* pool and waits; the done-callback of each task records the outcome and  *)
(* decides whether the batch completes or suspends; a timer thread         *)
(* resubmits the branches whose timed suspension is over.                  *)
(*                                                                         *)
(* Branch statuses, counters and the suspend decision are read and written *)
(* by these threads with no common lock, so the steps below are as small   *)
(* as the reads and writes of the code.  A future is <<b, k>>, the k-th    *)
(* submission of branch b.                                                 *)
(***************************************************************************)
EXTENDS CompletionPolicy, Integers, Sequences, FiniteSets

CONSTANTS
  N,             \* number of branches
  MaxWorkers,    \* max_concurrency, or the number of branches
  Config,        \* CompletionConfig
  Outcomes,      \* how the branches' runs may end: the alternatives, each by branch
  MaxResumes,    \* bound: timed suspensions of each branch
  RefreshFails,  \* the checkpoint before a resubmission may fail
  Flat,          \* NestingType.FLAT: branches have no checkpoint of their own
  AncestorEnds   \* a CONTEXT above this one may complete while it runs

\* "suspended" and "timed" are SuspendExecution and TimedSuspendExecution; "background" is
\* the BackgroundThreadError of a failed checkpoint pipeline, a BaseException.
OutcomeKinds == {"ok", "fail", "suspended", "timed", "background"}

ASSUME ExecutorAssumption ==
  /\ N \in Nat \ {0} /\ MaxWorkers \in Nat \ {0} /\ MaxResumes \in Nat
  /\ IsConfig(Config)
  /\ Outcomes \subseteq [1 .. N -> SUBSET OutcomeKinds]
  /\ RefreshFails \in BOOLEAN /\ Flat \in BOOLEAN /\ AncestorEnds \in BOOLEAN

Branches   == 1 .. N
Futures    == Branches \X (1 .. MaxResumes + 1)
Submitters == {"parent", "timer"}

VARIABLES
  \* ExecutableWithState
  status,        \* _status
  filled,        \* _result or _error has been stored
  \* the branches' futures, and what their code does
  submits,       \* how often a branch has been submitted
  task, outcome,
  hooked,        \* add_done_callback has been called
  saved,         \* the branch's own SUCCEED or FAIL checkpoint
  \* the done-callbacks, _on_task_complete
  cb, cbBy, scanAt, scanFound,
  \* the pool
  pool, poolDown, deadWorkers,
  \* shared by the callbacks
  succ, fails,   \* ExecutionCounters
  event,         \* _completion_event
  suspendExc,    \* _suspend_exception is set
  \* the timer
  heap, timer, timerStop,
  \* submit_task, run by the parent and by the timer
  todo, step,
  \* the parent
  parent, readAt, items,
  ancestorDone,
  \* history: the branches that have been able to make progress ever since the scan of
  \* each callback began
  over

branchVars == <<status, filled>>
taskVars   == <<submits, task, outcome, hooked, saved>>
cbVars     == <<cb, cbBy, scanAt, scanFound>>
poolVars   == <<pool, poolDown, deadWorkers>>
sharedVars == <<succ, fails, event, suspendExc>>
timerVars  == <<heap, timer, timerStop>>
submitVars == <<todo, step>>
parentVars == <<parent, readAt, items, ancestorDone>>
vars == <<branchVars, taskVars, cbVars, poolVars, sharedVars, timerVars, submitVars, parentVars,
          over>>

\* execute(), up to the first call of submit_task.
Init ==
  /\ status = [b \in Branches |-> "pending"] /\ filled = [b \in Branches |-> FALSE]
  /\ submits = [b \in Branches |-> 0] /\ saved = [b \in Branches |-> "none"]
  /\ task = [f \in Futures |-> "none"] /\ outcome = [f \in Futures |-> "none"]
  /\ hooked = [f \in Futures |-> FALSE]
  /\ cb = [f \in Futures |-> "none"] /\ cbBy = [f \in Futures |-> "worker"]
  /\ scanAt = [f \in Futures |-> 1] /\ scanFound = [f \in Futures |-> FALSE]
  /\ pool = <<>> /\ poolDown = FALSE /\ deadWorkers = 0
  /\ succ = 0 /\ fails = 0 /\ event = FALSE /\ suspendExc = FALSE
  /\ heap = {} /\ timer = "polling" /\ timerStop = FALSE
  /\ todo = [s \in Submitters |-> IF s = "parent" THEN [i \in Branches |-> i] ELSE <<>>]
  /\ step = [s \in Submitters |-> "submit"]
  /\ parent = "submitting" /\ readAt = 1 /\ items = [b \in Branches |-> "none"]
  /\ ancestorDone = FALSE
  /\ over = [f \in Futures |-> {}]

-----------------------------------------------------------------------------
(* submit_task *)

Submitting(s, at) ==
  /\ todo[s] # <<>> /\ step[s] = at
  /\ s = "parent" => parent = "submitting"
  /\ s = "timer" => timer = "submitting"

\* The future being submitted, from PoolSubmit on.
Submitted(s) == <<Head(todo[s]), submits[Head(todo[s])]>>

PoolSubmit(s) ==
  /\ Submitting(s, "submit") /\ ~poolDown
  /\ LET b == Head(todo[s])
         f == <<b, submits[b] + 1>>
     IN /\ submits' = [submits EXCEPT ![b] = @ + 1]
        /\ task' = [task EXCEPT ![f] = "queued"]
        /\ pool' = Append(pool, f)
  /\ step' = [step EXCEPT ![s] = "run"]
  /\ UNCHANGED <<branchVars, outcome, hooked, saved, cbVars, poolDown, deadWorkers, sharedVars,
                 timerVars, todo, parentVars>>

\* submit() raises after the pool's shutdown, which ends the timer thread.
PoolRefuses ==
  /\ Submitting("timer", "submit") /\ poolDown
  /\ timer' = "dead" /\ todo' = [todo EXCEPT !["timer"] = <<>>]
  /\ UNCHANGED <<branchVars, taskVars, cbVars, poolVars, sharedVars, heap, timerStop, step,
                 parentVars>>

\* exe_state.run(future): the task may be running, or over, already.
MarkRunning(s) ==
  /\ Submitting(s, "run")
  /\ status[Head(todo[s])] = "pending"
  /\ status' = [status EXCEPT ![Head(todo[s])] = "running"]
  /\ step' = [step EXCEPT ![s] = "hook"]
  /\ UNCHANGED <<filled, taskVars, cbVars, poolVars, sharedVars, timerVars, todo, parentVars>>

NextBranch(s) ==
  /\ todo' = [todo EXCEPT ![s] = Tail(@)]
  /\ step' = [step EXCEPT ![s] = "submit"]

\* Mutant: a future that is done by then gets no callback any more.
HookMissed(s) ==
  /\ Submitting(s, "hook")
  /\ hooked' = [hooked EXCEPT ![Submitted(s)] = TRUE]
  /\ NextBranch(s)
  /\ UNCHANGED <<branchVars, submits, task, outcome, saved, cbVars, poolVars, sharedVars,
                 timerVars, parentVars>>

\* future.add_done_callback: of a future that is done it runs the callback at once, in the
\* thread that submits.
Hook(s) ==
  /\ Submitting(s, "hook")
  /\ LET f == Submitted(s) IN
       /\ hooked' = [hooked EXCEPT ![f] = TRUE]
       /\ \/ /\ task[f] \in {"done", "cancelled"}
             /\ cb' = [cb EXCEPT ![f] = "mark"]
             /\ cbBy' = [cbBy EXCEPT ![f] = s]
             /\ step' = [step EXCEPT ![s] = "inline"]
             /\ UNCHANGED todo
          \/ /\ task[f] \notin {"done", "cancelled"}
             /\ NextBranch(s)
             /\ UNCHANGED <<cb, cbBy>>
  /\ UNCHANGED <<branchVars, submits, task, outcome, saved, scanAt, scanFound, poolVars,
                 sharedVars, timerVars, parentVars>>

\* The callback run inline has returned; the timer may have resubmitted the branch meanwhile.
AfterInline(s) ==
  /\ Submitting(s, "inline")
  /\ \A f \in Futures : cbBy[f] = s => cb[f] = "ended"
  /\ NextBranch(s)
  /\ UNCHANGED <<branchVars, taskVars, cbVars, poolVars, sharedVars, timerVars, parentVars>>

-----------------------------------------------------------------------------
(* The pool's workers and the branches' code *)

BusyWorkers ==
  {f \in Futures : \/ task[f] \in {"running", "concluded"}
                   \/ cb[f] \notin {"none", "ended"} /\ cbBy[f] = "worker"}

\* A worker that an error has ended is not replaced.  A future that was cancelled in the queue
\* is dropped.
StartTask ==
  /\ pool # <<>>
  /\ Cardinality(BusyWorkers) + deadWorkers < MaxWorkers
  /\ pool' = Tail(pool)
  /\ task' = IF task[Head(pool)] = "queued" THEN [task EXCEPT ![Head(pool)] = "running"] ELSE task
  /\ UNCHANGED <<branchVars, submits, outcome, hooked, saved, cbVars, poolDown, deadWorkers,
                 sharedVars, timerVars, submitVars, parentVars>>

\* How the code of a branch may end.  Once a CONTEXT above it has completed its checkpoints
\* may be rejected, which raises OrphanedChildException.
MayEnd(f, o) ==
  IF o = "orphaned" THEN ancestorDone \/ parent = "closed"
  ELSE /\ o = "timed" => f[2] <= MaxResumes
       /\ \E kinds \in Outcomes :
            /\ o \in kinds[f[1]]
            /\ \A g \in Futures : outcome[g] \in {"none", "orphaned"} \cup kinds[g[1]]

\* Mutant: the branch does not wait for its own completion to be stored.
ConcludeUnsaved(f, o) ==
  /\ task[f] = "running" /\ MayEnd(f, o)
  /\ outcome' = [outcome EXCEPT ![f] = o]
  /\ task' = [task EXCEPT ![f] = "concluded"]
  /\ UNCHANGED <<branchVars, submits, hooked, cbVars, poolVars, sharedVars, timerVars,
                 submitVars, parentVars, saved>>

\* The branch's code has ended: child_handler has stored its result or its error, waiting
\* for the checkpoint, unless the branch is virtual.
Conclude(f, o) ==
  /\ task[f] = "running" /\ MayEnd(f, o)
  /\ outcome' = [outcome EXCEPT ![f] = o]
  /\ task' = [task EXCEPT ![f] = "concluded"]
  /\ saved' = IF ~Flat /\ o \in {"ok", "fail"} THEN [saved EXCEPT ![f[1]] = o] ELSE saved
  /\ UNCHANGED <<branchVars, submits, hooked, cbVars, poolVars, sharedVars, timerVars,
                 submitVars, parentVars>>

\* The worker sets the future's result, and goes on to the callback if there is one.
FinishTask(f) ==
  /\ task[f] = "concluded"
  /\ task' = [task EXCEPT ![f] = "done"]
  /\ cb' = IF hooked[f] THEN [cb EXCEPT ![f] = "mark"] ELSE cb
  /\ UNCHANGED <<branchVars, submits, outcome, hooked, saved, cbBy, scanAt, scanFound, poolVars,
                 sharedVars, timerVars, submitVars, parentVars>>

-----------------------------------------------------------------------------
(* The done-callback: _on_task_complete *)

CbGoto(f, from, to) == cb[f] = from /\ cb' = [cb EXCEPT ![f] = to]

\* The state transition of the outcome: its first write, _status.
Mark(f) ==
  /\ task[f] = "done"
  /\ \/ /\ outcome[f] \in {"ok", "fail"} /\ CbGoto(f, "mark", "store")
        /\ status' = [status EXCEPT ![f[1]] = IF outcome[f] = "ok" THEN "completed" ELSE "failed"]
     \/ /\ outcome[f] = "timed" /\ CbGoto(f, "mark", "schedule")
        /\ status' = [status EXCEPT ![f[1]] = "timed"]
     \/ /\ outcome[f] = "suspended" /\ CbGoto(f, "mark", "check")
        /\ status' = [status EXCEPT ![f[1]] = "suspended"]
     \/ /\ outcome[f] = "orphaned" /\ CbGoto(f, "mark", "ended")
        /\ UNCHANGED status
  /\ UNCHANGED <<filled, taskVars, cbBy, scanAt, scanFound, poolVars, sharedVars, timerVars,
                 submitVars, parentVars>>

\* future.cancelled(): back to SUSPENDED, with no further decision.
MarkCancelled(f) ==
  /\ task[f] = "cancelled" /\ CbGoto(f, "mark", "ended")
  /\ status' = [status EXCEPT ![f[1]] = "suspended"]
  /\ UNCHANGED <<filled, taskVars, cbBy, scanAt, scanFound, poolVars, sharedVars, timerVars,
                 submitVars, parentVars>>

\* BackgroundThreadError is no Exception: neither the callback nor concurrent.futures
\* catches it, and it leaves the thread that runs the callback: the worker or the timer
\* ends, the parent leaves submit_task.
Escape(f) ==
  /\ task[f] = "done" /\ outcome[f] = "background" /\ CbGoto(f, "mark", "ended")
  /\ deadWorkers' = IF cbBy[f] = "worker" THEN deadWorkers + 1 ELSE deadWorkers
  /\ timer' = IF cbBy[f] = "timer" THEN "dead" ELSE timer
  /\ parent' = IF cbBy[f] = "parent" THEN "failing" ELSE parent
  /\ UNCHANGED <<branchVars, taskVars, cbBy, scanAt, scanFound, pool, poolDown, sharedVars, heap,
                 timerStop, submitVars, readAt, items, ancestorDone>>

\* _result and _is_result_set, or _error.
Store(f) ==
  /\ CbGoto(f, "store", "count")
  /\ filled' = [filled EXCEPT ![f[1]] = TRUE]
  /\ UNCHANGED <<status, taskVars, cbBy, scanAt, scanFound, poolVars, sharedVars, timerVars,
                 submitVars, parentVars>>

\* complete_task() or fail_task().
Count(f) ==
  /\ CbGoto(f, "count", "check")
  /\ succ' = IF outcome[f] = "ok" THEN succ + 1 ELSE succ
  /\ fails' = IF outcome[f] = "fail" THEN fails + 1 ELSE fails
  /\ UNCHANGED <<branchVars, taskVars, cbBy, scanAt, scanFound, poolVars, event, suspendExc,
                 timerVars, submitVars, parentVars>>

\* scheduler.schedule_resume.
Schedule(f) ==
  /\ CbGoto(f, "schedule", "check")
  /\ heap' = heap \cup {f[1]}
  /\ UNCHANGED <<branchVars, taskVars, cbBy, scanAt, scanFound, poolVars, sharedVars, timer,
                 timerStop, submitVars, parentVars>>

\* counters.should_complete(); if not, should_execution_suspend() begins.
Check(f) ==
  /\ cb[f] = "check"
  /\ IF ShouldComplete(Config, N, succ, fails)
     THEN /\ event' = TRUE
          /\ cb' = [cb EXCEPT ![f] = "ended"]
     ELSE /\ cb' = [cb EXCEPT ![f] = "scan"]
          /\ UNCHANGED event
  /\ UNCHANGED <<branchVars, taskVars, cbBy, scanAt, scanFound, poolVars, succ, fails, suspendExc,
                 timerVars, submitVars, parentVars>>

\* One iteration of should_execution_suspend: a branch that can make progress ends it.
Scan(f) ==
  /\ cb[f] = "scan" /\ scanAt[f] <= N
  /\ LET s == status[scanAt[f]] IN
       IF s \in {"pending", "running"}
       THEN cb' = [cb EXCEPT ![f] = "ended"] /\ UNCHANGED <<scanAt, scanFound>>
       ELSE /\ scanFound' = [scanFound EXCEPT ![f] = @ \/ s \in {"timed", "suspended"}]
            /\ scanAt' = [scanAt EXCEPT ![f] = @ + 1]
            /\ UNCHANGED cb
  /\ UNCHANGED <<branchVars, taskVars, cbBy, poolVars, sharedVars, timerVars, submitVars,
                 parentVars>>

\* The scan is over: suspend if it has seen a suspended branch.
Decide(f) ==
  /\ CbGoto(f, "scan", "ended") /\ scanAt[f] > N
  /\ suspendExc' = (suspendExc \/ scanFound[f])
  /\ event' = (event \/ scanFound[f])
  /\ UNCHANGED <<branchVars, taskVars, cbBy, scanAt, scanFound, poolVars, succ, fails, timerVars,
                 submitVars, parentVars>>

\* Mutant: the counters are updated before the state.
CountEarly(f) ==
  /\ CbGoto(f, "mark", "store") /\ task[f] = "done" /\ outcome[f] \in {"ok", "fail"}
  /\ succ' = IF outcome[f] = "ok" THEN succ + 1 ELSE succ
  /\ fails' = IF outcome[f] = "fail" THEN fails + 1 ELSE fails
  /\ UNCHANGED <<branchVars, taskVars, cbBy, scanAt, scanFound, poolVars, event, suspendExc,
                 timerVars, submitVars, parentVars>>
MarkLate(f) ==
  /\ CbGoto(f, "store", "check")
  /\ status' = [status EXCEPT ![f[1]] = IF outcome[f] = "ok" THEN "completed" ELSE "failed"]
  /\ filled' = [filled EXCEPT ![f[1]] = TRUE]
  /\ UNCHANGED <<taskVars, cbBy, scanAt, scanFound, poolVars, sharedVars, timerVars, submitVars,
                 parentVars>>
CallbackCountsFirst(f) ==
  \/ CountEarly(f) \/ MarkLate(f) \/ MarkCancelled(f) \/ Escape(f)
  \/ outcome[f] \notin {"ok", "fail"} /\ Mark(f)
  \/ Schedule(f) \/ Check(f) \/ Scan(f) \/ Decide(f)

Callback(f) ==
  \/ Mark(f) \/ MarkCancelled(f) \/ Escape(f) \/ Store(f) \/ Count(f)
  \/ Schedule(f) \/ Check(f) \/ Scan(f) \/ Decide(f)

-----------------------------------------------------------------------------
(* The timer thread: _timer_loop and the resubmitter *)

TimerGoto(from, to) == timer = from /\ timer' = to

\* A pass of the loop: the top of the heap is due.
Looks ==
  /\ ~timerStop /\ heap # {}
  /\ TimerGoto("polling", "popping")
  /\ UNCHANGED <<branchVars, taskVars, cbVars, poolVars, sharedVars, heap, timerStop, submitVars,
                 parentVars>>

Resubmit(due) ==
  \E order \in [1 .. Cardinality(due) -> due] :
    /\ \A b \in due : \E i \in DOMAIN order : order[i] = b
    /\ todo' = [todo EXCEPT !["timer"] = order]

\* Mutant: the popped branches become pending only when they are submitted.
PopDueOnly ==
  /\ TimerGoto("popping", "refreshing")
  /\ \E due \in SUBSET heap \ {{}} : heap' = heap \ due /\ Resubmit(due)
  /\ UNCHANGED <<branchVars, taskVars, cbVars, poolVars, sharedVars, timerStop, step, parentVars>>

\* Every resume that is due is popped and made pending under the timer's lock; the times
\* are arbitrary, and with them the order.
PopDue ==
  /\ TimerGoto("popping", "refreshing")
  /\ \E due \in SUBSET heap \ {{}} :
       /\ heap' = heap \ due
       /\ status' = [b \in Branches |-> IF b \in due THEN "pending" ELSE status[b]]
       /\ Resubmit(due)
  /\ UNCHANGED <<filled, taskVars, cbVars, poolVars, sharedVars, timerStop, step, parentVars>>

\* shutdown() has cleared the heap in between.
PopNothing ==
  /\ heap = {} /\ TimerGoto("popping", "polling")
  /\ UNCHANGED <<branchVars, taskVars, cbVars, poolVars, sharedVars, heap, timerStop, submitVars,
                 parentVars>>

\* The resubmitter's create_checkpoint() returns: the branches see fresh state.
Refreshed ==
  /\ TimerGoto("refreshing", "submitting")
  /\ UNCHANGED <<branchVars, taskVars, cbVars, poolVars, sharedVars, heap, timerStop, submitVars,
                 parentVars>>

\* It raises BackgroundThreadError, the only error it can raise, which is no Exception: the
\* handler of the resubmitter does not see it, and the timer thread ends.
RefreshEscapes ==
  /\ RefreshFails /\ TimerGoto("refreshing", "dead")
  /\ todo' = [todo EXCEPT !["timer"] = <<>>]
  /\ UNCHANGED <<branchVars, taskVars, cbVars, poolVars, sharedVars, heap, timerStop, step,
                 parentVars>>

Resubmitted ==
  /\ todo["timer"] = <<>> /\ TimerGoto("submitting", "polling")
  /\ UNCHANGED <<branchVars, taskVars, cbVars, poolVars, sharedVars, heap, timerStop, submitVars,
                 parentVars>>

TimerEnds ==
  /\ timerStop /\ TimerGoto("polling", "dead")
  /\ UNCHANGED <<branchVars, taskVars, cbVars, poolVars, sharedVars, heap, timerStop, submitVars,
                 parentVars>>

-----------------------------------------------------------------------------
(* The thread that called execute() *)

ParentGoto(from, to) == parent = from /\ parent' = to

WaitForEvent ==
  /\ todo["parent"] = <<>>
  /\ ParentGoto("submitting", "waiting")
  /\ UNCHANGED <<branchVars, taskVars, cbVars, poolVars, sharedVars, timerVars, submitVars, readAt,
                 items, ancestorDone>>

\* Future.cancel() of tasks that have not started, each with its callback, if it has one yet.
CancelTasks(cancelled) ==
  LET told == {f \in cancelled : hooked[f]} IN
    /\ task' = [f \in Futures |-> IF f \in cancelled THEN "cancelled" ELSE task[f]]
    /\ cb' = [f \in Futures |-> IF f \in told THEN "ended" ELSE cb[f]]
    /\ status' = [b \in Branches |-> IF \E f \in told : f[1] = b THEN "suspended" ELSE status[b]]

\* The event is set: of the futures first submitted, those that have not started are
\* cancelled.
CancelPending ==
  /\ event
  /\ ParentGoto("waiting", "deciding")
  /\ CancelTasks({f \in Futures : task[f] = "queued" /\ f[2] = 1})
  /\ UNCHANGED <<filled, submits, outcome, hooked, saved, cbBy, scanAt, scanFound, poolVars,
                 sharedVars, timerVars, submitVars, readAt, items, ancestorDone>>

\* `if self._suspend_exception: raise`; leaving the `with` stops the timer.
StopTimer ==
  /\ parent \in {"deciding", "failing"}
  /\ parent' = CASE parent = "failing" -> "stoppingFailed"
                 [] parent = "deciding" /\ suspendExc -> "stoppingSuspended"
                 [] OTHER -> "stopping"
  /\ timerStop' = TRUE
  /\ UNCHANGED <<branchVars, taskVars, cbVars, poolVars, sharedVars, heap, timer, submitVars,
                 readAt, items, ancestorDone>>

\* join(timeout=1.0) returns, whether the timer thread has ended or not; the heap is
\* cleared, and the pool shut down, its queue cancelled.
ShutDown ==
  /\ \/ ParentGoto("stopping", "reading")
     \/ ParentGoto("stoppingSuspended", "suspended")
     \/ ParentGoto("stoppingFailed", "raised")
  /\ heap' = {} /\ poolDown' = TRUE /\ pool' = <<>>
  /\ CancelTasks({f \in Futures : task[f] = "queued"})
  /\ UNCHANGED <<filled, submits, outcome, hooked, saved, cbBy, scanAt, scanFound, deadWorkers,
                 sharedVars, timer, timerStop, submitVars, readAt, items, ancestorDone>>

ItemOf(s) == IF s = "completed" THEN "ok" ELSE IF s = "failed" THEN "fail" ELSE "started"

\* _create_result reads the branches one by one.
ReadItem ==
  /\ parent = "reading" /\ readAt <= N
  /\ status[readAt] \in {"completed", "failed"} => filled[readAt]
  /\ items' = [items EXCEPT ![readAt] = ItemOf(status[readAt])]
  /\ readAt' = readAt + 1
  /\ UNCHANGED <<branchVars, taskVars, cbVars, poolVars, sharedVars, timerVars, submitVars,
                 parent, ancestorDone>>

\* The result of a COMPLETED branch, or the error of a FAILED one, is not stored yet: the
\* accessor raises InvalidStateError.
ReadTorn ==
  /\ readAt <= N
  /\ status[readAt] \in {"completed", "failed"} /\ ~filled[readAt]
  /\ ParentGoto("reading", "invalidState")
  /\ UNCHANGED <<branchVars, taskVars, cbVars, poolVars, sharedVars, timerVars, submitVars, readAt,
                 items, ancestorDone>>

\* execute() returns the BatchResult; its CONTEXT completes.
Close ==
  /\ readAt > N /\ ~ancestorDone
  /\ ParentGoto("reading", "closed")
  /\ UNCHANGED <<branchVars, taskVars, cbVars, poolVars, sharedVars, timerVars, submitVars, readAt,
                 items, ancestorDone>>

\* The CONTEXT of an enclosing map or parallel completes early.
AncestorCompletes ==
  /\ AncestorEnds /\ ~ancestorDone
  /\ parent \in {"submitting", "waiting"}
  /\ ancestorDone' = TRUE
  /\ UNCHANGED <<branchVars, taskVars, cbVars, poolVars, sharedVars, timerVars, submitVars, parent,
                 readAt, items>>

-----------------------------------------------------------------------------

Submit(s) == PoolSubmit(s) \/ MarkRunning(s) \/ Hook(s) \/ AfterInline(s)

Branch(f) == (\E o \in OutcomeKinds \cup {"orphaned"} : Conclude(f, o)) \/ FinishTask(f)

Timer ==
  Looks \/ PopDue \/ PopNothing \/ Refreshed \/ RefreshEscapes \/ Resubmitted \/ TimerEnds
  \/ PoolRefuses

Parent == WaitForEvent \/ CancelPending \/ StopTimer \/ ShutDown \/ ReadItem \/ ReadTorn \/ Close

Threads ==
  \/ StartTask \/ Timer \/ Parent
  \/ \E s \in Submitters : Submit(s)
  \/ \E f \in Futures : Branch(f) \/ Callback(f)

\* Branches that can make progress: waiting for their turn, running, or on their way from the
\* heap back to the pool.
Active ==
  {b \in Branches : \/ status[b] \in {"pending", "running"}
                    \/ \E i \in 1 .. Len(todo["timer"]) :
                         todo["timer"][i] = b /\ (i = 1 => step["timer"] = "submit")}

Observe ==
  over' = [f \in Futures |-> IF cb'[f] # "scan" THEN {}
                             ELSE IF cb[f] = "scan" THEN over[f] \cap Active'
                             ELSE Active']

Next == (Threads \/ AncestorCompletes) /\ Observe

Spec == Init /\ [][Next]_vars

\* Threads that can run do, the branches' code ends, and time passes.  Each thread takes
\* finitely many steps, so that fairness toward all of them together is fairness toward each.
FairSpec == Spec /\ WF_vars(Threads /\ Observe)

-----------------------------------------------------------------------------
(* Properties *)

Running(f) == task[f] \in {"queued", "running", "concluded"}
Over == {"suspended", "raised", "closed", "invalidState"}
\* The scan of the callback of f has decided to suspend.
AboutToSuspend(f) == cb[f] = "scan" /\ scanAt[f] > N /\ scanFound[f]
Ended(kind) == Cardinality({b \in Branches : items[b] = kind})

TypeOK ==
  /\ status \in [Branches -> {"pending", "running", "completed", "failed", "timed", "suspended"}]
  /\ submits \in [Branches -> 0 .. MaxResumes + 1]
  /\ task \in [Futures -> {"none", "queued", "running", "concluded", "done", "cancelled"}]
  /\ cb \in [Futures -> {"none", "mark", "store", "count", "schedule", "check", "scan", "ended"}]
  /\ heap \subseteq Branches
  /\ succ + fails <= N
  /\ deadWorkers <= MaxWorkers

\* The result a map or parallel returns meets the criteria that ended it: what the counters
\* saw before the event was set is in the items read after it, although branches complete
\* all the while (_on_task_complete against _create_result).
ResultMeetsCriteria ==
  parent = "closed" => ShouldComplete(Config, N, Ended("ok"), Ended("fail"))

\* What replay() makes of a branch when the batch was too large to be stored.
ReplayItem(b) == IF saved[b] = "none" THEN "started" ELSE saved[b]

\* The outcome of a branch that takes part in the decision, or in the result, is durable: a
\* replay cannot run it again ("Must ensure the child context result is persisted before
\* returning to the parent", operation/child.py 227), and finds each item that had ended as it
\* was in the result, although other branches go on after that.
OutcomesAreDurable ==
  \A b \in Branches :
    /\ status[b] = "completed" => saved[b] = "ok"
    /\ status[b] = "failed" => saved[b] = "fail"
    /\ parent = "closed" /\ items[b] # "started" => ReplayItem(b) = items[b]

\* A branch is never run twice at a time, and is not scheduled for a resume while it runs,
\* whatever the timer, the pool and the callbacks of its earlier runs are doing: a second run
\* would execute its steps under the same operation ids.  And the batch does not suspend past
\* a branch that has been able to make progress during the whole scan, one on its way from
\* the timer's heap to the pool included (submit_task, should_execution_suspend, _timer_loop).
BranchesAreTracked ==
  \A f \in Futures :
    /\ Running(f) => f[1] \notin heap /\ \A g \in Futures : Running(g) /\ f[1] = g[1] => f = g
    /\ AboutToSuspend(f) => over[f] = {}

\* execute() comes to an end when the code of its branches does, by a result, by an error
\* or by a suspension: no decision is lost between callbacks that run at the same time.
\* After a checkpoint failure: "record the error and wake the parent to re-raise it"
\* (executor.py 247), "a system-level error that should terminate execution immediately"
\* (exceptions.py 302-303).
ParentLeaves == <>(parent \in Over)

\* The same, of a run that no failed refresh and no ancestor's end disturbs.
ParentLeavesUndisturbed == ParentLeaves \/ <>(ancestorDone \/ (timer = "dead" /\ ~timerStop))

\* "We tag each branch based on its observed value at the time of completion of the parent"
\* (executor.py 404): a branch that completes at that time is tagged like any other.
ResultIsBuilt == parent # "invalidState"

=============================================================================
