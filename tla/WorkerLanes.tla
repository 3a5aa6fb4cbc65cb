----------------------------- MODULE WorkerLanes -----------------------------
(***************************************************************************)
(* The per-execution workers of the local runner: one worker per execution *)
(* runs the tasks of that execution on its own lane, a FIFO queue drained  *)
(* by one thread.  The registry hands out the worker, and a worker whose   *)
(* execution has completed stops its lane and leaves the registry.  Here   *)
(* is one execution, which shares neither lane nor worker with another.    *)
(***************************************************************************)
EXTENDS Naturals, Sequences, FiniteSets

CONSTANTS
  Callers,      \* threads that submit tasks: handlers, timers, HTTP threads
  Program,      \* the tasks of each caller, submitted one after the other
  Workers,      \* the workers that may be created, 1 .. n
  MaxAttempts,  \* _MAX_SUBMIT_ATTEMPTS
  MayShutDown   \* whether the runner may close

\* What the callable of a task does: it works, completes the execution, or
\* raises (a raising task leaves the worker as it is).
Kinds == {"work", "finish", "raise"}

ASSUME LanesAssumption ==
  /\ Workers \subseteq Nat \ {0}
  /\ MaxAttempts \in Nat \ {0}
  /\ Program \in [Callers -> Seq(Kinds)]
  /\ MayShutDown \in BOOLEAN

NoWorker == 0
Stop == <<"stop">>                     \* the _Stop sentinel
Task(c, n) == <<"task", c, n>>
Tasks == {Task(c, n) : c \in Callers, n \in UNION {DOMAIN Program[d] : d \in Callers}}
KindOf(t) == Program[t[2]][t[3]]

VARIABLES
  mapped,    \* the registry's entry of the execution: a worker, or NoWorker
  queue,     \* the queue of each worker's lane
  stopped,   \* _stopped of each lane
  created,   \* the workers created so far
  thread,    \* what the thread of each lane does: its step and its task
  caller,    \* what each caller does: its step, task, worker and attempts
  complete,  \* the execution is terminal in the store
  closing,   \* the workers that shutdown() has taken and not stopped yet
  down       \* shutdown() has been called

vars == <<mapped, queue, stopped, created, thread, caller, complete, closing, down>>

Idle == [at |-> "idle", task |-> Stop]

Init ==
  /\ mapped = NoWorker
  /\ queue = [w \in Workers |-> <<>>]
  /\ stopped = [w \in Workers |-> FALSE]
  /\ created = {}
  /\ thread = [w \in Workers |-> Idle]
  /\ caller = [c \in Callers |-> [at |-> "ready", n |-> 1, w |-> NoWorker, tries |-> 0]]
  /\ complete = FALSE
  /\ closing = {}
  /\ down = FALSE

-----------------------------------------------------------------------------
\* The registry and the callers.

HasTask(c) == caller[c].n \in DOMAIN Program[c]

\* get_or_create, under the registry's lock: the mapped worker, or a new one.
GetOrCreate(c) ==
  /\ caller[c].at = "ready" /\ HasTask(c)
  /\ \E w \in Workers :
       /\ IF mapped # NoWorker
          THEN w = mapped /\ UNCHANGED <<mapped, created>>
          ELSE /\ w = Cardinality(created) + 1
               /\ created' = created \cup {w}
               /\ mapped' = w
       /\ caller' = [caller EXCEPT ![c].at = "handed", ![c].w = w]
  /\ UNCHANGED <<queue, stopped, thread, complete, closing, down>>

\* lane.submit accepts, under the lane's stop lock.
Accept(c) ==
  /\ caller[c].at = "handed" /\ ~stopped[caller[c].w]
  /\ queue' = [queue EXCEPT ![caller[c].w] = Append(@, Task(c, caller[c].n))]
  /\ caller' = [caller EXCEPT ![c].at = "waiting"]
  /\ UNCHANGED <<mapped, stopped, created, thread, complete, closing, down>>

\* lane.submit raises because the lane is stopped.
Refuse(c) ==
  /\ caller[c].at = "handed" /\ stopped[caller[c].w]
  /\ caller' = [caller EXCEPT ![c].at = "refused"]
  /\ UNCHANGED <<mapped, queue, stopped, created, thread, complete, closing, down>>

\* _evict_if_current, then another pass of submit(), or its RuntimeError.
Evict(c) ==
  /\ caller[c].at = "refused"
  /\ mapped' = IF mapped = caller[c].w THEN NoWorker ELSE mapped
  /\ LET tries == caller[c].tries + 1
     IN caller' = [caller EXCEPT ![c] =
          [at |-> IF tries < MaxAttempts THEN "ready" ELSE "gave up",
           n |-> @.n, w |-> NoWorker, tries |-> tries]]
  /\ UNCHANGED <<queue, stopped, created, thread, complete, closing, down>>

\* shutdown() empties the registry under its lock ...
ShutDown ==
  /\ MayShutDown /\ ~down
  /\ down' = TRUE
  /\ closing' = {mapped} \ {NoWorker}
  /\ mapped' = NoWorker
  /\ UNCHANGED <<queue, stopped, created, thread, caller, complete>>

\* Mutant: what is queued is dropped.
StopLaneAtOnce(w) ==
  /\ stopped' = [stopped EXCEPT ![w] = TRUE]
  /\ queue' = [queue EXCEPT ![w] = <<Stop>>]

\* lane.stop: once, put the sentinel behind what is queued.
StopLane(w) ==
  /\ stopped' = [stopped EXCEPT ![w] = TRUE]
  /\ queue' = IF stopped[w] THEN queue ELSE [queue EXCEPT ![w] = Append(@, Stop)]

\* ... and then stops the lanes of the workers it took out.
StopTaken(w) ==
  /\ w \in closing
  /\ closing' = closing \ {w}
  /\ StopLane(w)
  /\ UNCHANGED <<mapped, created, thread, caller, complete, down>>

-----------------------------------------------------------------------------
\* The thread of a lane.

\* queue.get() returns a task, which starts.
TakeTask(w) ==
  /\ thread[w].at = "idle" /\ queue[w] # <<>> /\ Head(queue[w]) # Stop
  /\ queue' = [queue EXCEPT ![w] = Tail(@)]
  /\ thread' = [thread EXCEPT ![w] = [at |-> "task", task |-> Head(queue[w])]]
  /\ UNCHANGED <<mapped, stopped, created, caller, complete, closing, down>>

\* queue.get() returns the sentinel: the thread ends.
TakeStop(w) ==
  /\ thread[w].at = "idle" /\ queue[w] # <<>> /\ Head(queue[w]) = Stop
  /\ queue' = [queue EXCEPT ![w] = Tail(@)]
  /\ thread' = [thread EXCEPT ![w].at = "ended"]
  /\ UNCHANGED <<mapped, stopped, created, caller, complete, closing, down>>

\* The callable runs and its effect reaches the store, or it raises.
Execute(w) ==
  /\ thread[w].at = "task"
  /\ complete' = (complete \/ KindOf(thread[w].task) = "finish")
  /\ thread' = [thread EXCEPT ![w].at =
       IF KindOf(thread[w].task) = "raise" THEN "answer" ELSE "reload"]
  /\ UNCHANGED <<mapped, queue, stopped, created, caller, closing, down>>

\* Mutant: the worker tears itself down after any task.
ReloadAlways(w) ==
  /\ thread[w].at = "reload"
  /\ thread' = [thread EXCEPT ![w].at = "teardown"]
  /\ UNCHANGED <<mapped, queue, stopped, created, caller, complete, closing, down>>

\* _status_after: a terminal execution makes the worker tear itself down.
Reload(w) ==
  /\ thread[w].at = "reload"
  /\ thread' = [thread EXCEPT ![w].at = IF complete THEN "teardown" ELSE "answer"]
  /\ UNCHANGED <<mapped, queue, stopped, created, caller, complete, closing, down>>

\* _teardown, first half: the lane refuses from now on.
TearDownLane(w) ==
  /\ thread[w].at = "teardown"
  /\ StopLane(w)
  /\ thread' = [thread EXCEPT ![w].at = "leave"]
  /\ UNCHANGED <<mapped, created, caller, complete, closing, down>>

\* _teardown, second half: remove() drops whichever worker is mapped.
LeaveRegistry(w) ==
  /\ thread[w].at = "leave"
  /\ mapped' = NoWorker
  /\ thread' = [thread EXCEPT ![w].at = "answer"]
  /\ UNCHANGED <<queue, stopped, created, caller, complete, closing, down>>

\* The future gets its result and its caller goes on with its next task.
Answer(w) ==
  /\ thread[w].at = "answer"
  /\ thread' = [thread EXCEPT ![w] = Idle]
  /\ caller' = [caller EXCEPT ![thread[w].task[2]] =
       [at |-> "ready", n |-> @.n + 1, w |-> NoWorker, tries |-> 0]]
  /\ UNCHANGED <<mapped, queue, stopped, created, complete, closing, down>>

-----------------------------------------------------------------------------
CallerStep(c) == GetOrCreate(c) \/ Accept(c) \/ Refuse(c) \/ Evict(c)

LaneStep(w) ==
  \/ TakeTask(w) \/ TakeStop(w) \/ Execute(w) \/ Reload(w)
  \/ TearDownLane(w) \/ LeaveRegistry(w) \/ Answer(w)

Next ==
  \/ \E c \in Callers : CallerStep(c)
  \/ \E w \in Workers : LaneStep(w) \/ StopTaken(w)
  \/ ShutDown

\* A thread that can run runs: each caller, each lane, and shutdown() once begun.
Fairness ==
  /\ \A c \in Callers : WF_vars(CallerStep(c))
  /\ \A w \in Workers : WF_vars(LaneStep(w)) /\ WF_vars(StopTaken(w))

Spec == Init /\ [][Next]_vars /\ Fairness

-----------------------------------------------------------------------------
\* Properties.

ThreadSteps == {"idle", "task", "reload", "teardown", "leave", "answer", "ended"}
CallerSteps == {"ready", "handed", "waiting", "refused", "gave up"}

\* The variables hold what the threads expect of them.
TypeOK ==
  /\ mapped \in created \cup {NoWorker}
  /\ created \in SUBSET Workers /\ closing \in SUBSET created
  /\ queue \in [Workers -> Seq(Tasks \cup {Stop})]
  /\ stopped \in [Workers -> BOOLEAN]
  /\ thread \in [Workers -> [at : ThreadSteps, task : Tasks \cup {Stop}]]
  /\ caller \in [Callers -> [at : CallerSteps, n : Nat,
                             w : created \cup {NoWorker}, tries : 0 .. MaxAttempts]]
  /\ complete \in BOOLEAN /\ down \in BOOLEAN

Busy(w) == thread[w].at \in ThreadSteps \ {"idle", "ended"}

\* While the execution is not complete and the runner is open, its tasks never
\* overlap (execution_worker.py:29-31): the worker that runs one, or has one
\* queued, is the mapped one.  Eviction, removal and re-creation must not split
\* the execution over two lanes.
SerialUntilComplete ==
  ~complete /\ ~down =>
    \A w \in Workers : Busy(w) \/ queue[w] # <<>> => w = mapped

\* Whoever submits a task is answered or told that no lane was to be had: what a
\* lane accepted before it was stopped is still run (lane.py:99-103), also when
\* the runner closes meanwhile.
SubmittersAreAnswered ==
  \A c \in Callers : caller[c].at # "ready" ~> caller[c].at \in {"ready", "gave up"}

=============================================================================
