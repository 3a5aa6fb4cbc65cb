------------------------- MODULE CheckpointBatcher -------------------------
(***************************************************************************)
(* The checkpoint pipeline of the SDK core (state.py, threading.py):       *)
(* user-code threads call ExecutionState.create_checkpoint, which records  *)
(* parent/child links, rejects orphans, and puts the update on             *)
(* _checkpoint_queue; one background thread (checkpoint_batches_forever)   *)
(* collects batches, sends them to the service under the current token,    *)
(* merges the operations that come back, and wakes the callers that wait.  *)
(*                                                                         *)
(* A call is identified by its place <<t, i>> in the program of thread t:  *)
(* Program[t] is the sequence of create_checkpoint calls the code running  *)
(* on t would make if none of them raised.  Payloads are abstracted to     *)
(* their serialized size.                                                  *)
(***************************************************************************)
EXTENDS Integers, Sequences

CONSTANTS
  Threads,       \* threads running user code
  Handler,       \* the thread of the user's handler; its end stops the pipeline
  Program,       \* [Threads -> sequence of call records]
  Ops,           \* operation ids
  None,          \* no operation (an empty checkpoint), no parent, no call
  MaxOps,        \* CheckpointBatcherConfig.max_batch_operations
  MaxBytes,      \* CheckpointBatcherConfig.max_batch_size_bytes
  Failures       \* ways in which a batch may fail: subset of FailureKinds

FailureKinds == {"refused", "replyLost", "pageFetch"}

\* `ends` is true of a SUCCEED or FAIL of a CONTEXT operation; `after` holds the calls of
\* other threads that have returned before this one is made: the one that precedes the
\* submission of a branch, or those of the branches a parent waits for.
IsCallRecord(r) ==
  /\ r.op \in Ops \cup {None} /\ r.parent \in Ops \cup {None}
  /\ r.ends \in BOOLEAN /\ (r.ends => r.op # None) /\ r.sync \in BOOLEAN
  /\ r.size \in Nat
  /\ r.after \subseteq (Threads \X (Nat \ {0}))

ASSUME ConstantsAssumption ==
  /\ Handler \in Threads
  /\ None \notin Ops
  /\ MaxOps \in Nat \ {0}
  /\ MaxBytes \in Nat
  /\ Failures \subseteq FailureKinds

ASSUME ProgramAssumption ==
  /\ DOMAIN Program = Threads
  /\ \A t \in Threads : /\ Len(Program[t]) \in Nat
                        /\ DOMAIN Program[t] = 1 .. Len(Program[t])
                        /\ \A i \in 1 .. Len(Program[t]) : IsCallRecord(Program[t][i])

Calls == UNION {{t} \X (1 .. Len(Program[t])) : t \in Threads}

Call(c)    == Program[c[1]][c[2]]
IsEmpty(c) == Call(c).op = None
SizeOf(c)  == IF IsEmpty(c) THEN 0 ELSE Call(c).size

VARIABLES
  \* callers
  pc,            \* where each thread is inside create_checkpoint
  at,            \* index of the call each thread makes or will make next
  event,         \* CompletionEvent of each call
  \* shared state of ExecutionState
  children,      \* _parent_to_children, as a set of <<parent, child>>
  parentDone,    \* _parent_done
  queue,         \* _checkpoint_queue
  overflow,      \* _overflow_queue
  stopped,       \* _checkpointing_stopped
  failed,        \* _checkpointing_failed
  known,         \* calls whose effect _operations reflects
  \* locals of the background thread
  bg,            \* where it is in its loop
  batch, count, size, hasEmpty,
  token,         \* current_checkpoint_token
  \* the durable execution service
  log,           \* the calls of the batches it accepted, in order
  issued,        \* the last checkpoint token it issued
  \* history
  admitted,      \* calls in the order they passed the orphan test
  enqueued       \* calls in the order they were put on _checkpoint_queue

callerVars  == <<pc, at>>
parentVars  == <<children, parentDone, admitted>>
batchVars   == <<batch, count, size, hasEmpty>>
serviceVars == <<log, issued>>
vars == <<pc, at, event, children, parentDone, queue, overflow, stopped, failed, known,
          bg, batch, count, size, hasEmpty, token, log, issued, admitted, enqueued>>

RangeOf(s) == {s[i] : i \in 1 .. Len(s)}

Init ==
  /\ pc = [t \in Threads |-> "idle"]
  /\ at = [t \in Threads |-> 1]
  /\ event = [c \in Calls |-> "unset"]
  /\ children = {} /\ parentDone = {}
  /\ queue = <<>> /\ overflow = <<>>
  /\ stopped = FALSE /\ failed = FALSE
  /\ known = {}
  /\ bg = "top"
  /\ batch = <<>> /\ count = 0 /\ size = 0 /\ hasEmpty = FALSE
  /\ token = 0 /\ issued = 0
  /\ log = <<>>
  /\ admitted = <<>> /\ enqueued = <<>>

-----------------------------------------------------------------------------
(* The callers: create_checkpoint *)

Current(t) == <<t, at[t]>>
Finished(t) == pc[t] = "idle" /\ at[t] > Len(Program[t])

AtCall(t) ==
  /\ pc[t] = "idle" /\ at[t] <= Len(Program[t])
  /\ \A c \in Call(Current(t)).after : at[c[1]] > c[2]

\* _mark_orphans: everything below x in the links recorded so far, x excluded.
Descendants(links, x) ==
  {y \in Ops \ {x} :
     \A S \in SUBSET Ops :
       (x \in S /\ \A e \in links : e[1] \in S => e[2] \in S) => y \in S}

\* The links and the orphans after t's call has registered, under _parent_done_lock.
LinksAfter(c) ==
  IF IsEmpty(c) \/ Call(c).parent = None
  THEN children
  ELSE children \cup {<<Call(c).parent, Call(c).op>>}

\* Mutant: only the direct children are marked.
DirectOrphansAfter(c) ==
  IF ~IsEmpty(c) /\ Call(c).ends
  THEN parentDone \cup {y \in Ops : <<Call(c).op, y>> \in LinksAfter(c)}
  ELSE parentDone

OrphansAfter(c) ==
  IF ~IsEmpty(c) /\ Call(c).ends
  THEN parentDone \cup Descendants(LinksAfter(c), Call(c).op)
  ELSE parentDone

Register(c) ==
  /\ children' = LinksAfter(c)
  /\ parentDone' = OrphansAfter(c)
  /\ UNCHANGED <<at, event, queue, overflow, stopped, failed, known, bg, batchVars, token,
                 serviceVars, enqueued>>

Admit(t) ==
  /\ AtCall(t)
  /\ Call(Current(t)).op \notin OrphansAfter(Current(t))
  /\ Register(Current(t))
  /\ pc' = [pc EXCEPT ![t] = "admitted"]
  /\ admitted' = Append(admitted, Current(t))

\* OrphanedChildException: the thread's user code is unwound.
RejectOrphan(t) ==
  /\ AtCall(t)
  /\ Call(Current(t)).op \in OrphansAfter(Current(t))
  /\ Register(Current(t))
  /\ pc' = [pc EXCEPT ![t] = "orphaned"]
  /\ UNCHANGED admitted

\* _checkpointing_failed is tested after the lock is released, and before the put.
TestFailed(t) ==
  /\ pc[t] = "admitted"
  /\ pc' = [pc EXCEPT ![t] = IF failed THEN "raised" ELSE "enqueue"]
  /\ UNCHANGED <<at, event, parentVars, queue, overflow, stopped, failed, known, bg,
                 batchVars, token, serviceVars, enqueued>>

Enqueue(t) ==
  /\ pc[t] = "enqueue"
  /\ queue' = Append(queue, Current(t))
  /\ enqueued' = Append(enqueued, Current(t))
  /\ IF Call(Current(t)).sync
     THEN pc' = [pc EXCEPT ![t] = "blocked"] /\ UNCHANGED at
     ELSE pc' = [pc EXCEPT ![t] = "idle"] /\ at' = [at EXCEPT ![t] = @ + 1]
  /\ UNCHANGED <<event, parentVars, overflow, stopped, failed, known, bg, batchVars, token,
                 serviceVars>>

\* completion_event.wait() returns, or raises the BackgroundThreadError set on it.
Wake(t) ==
  /\ pc[t] = "blocked"
  /\ \/ /\ event[Current(t)] = "ok"
        /\ pc' = [pc EXCEPT ![t] = "idle"]
        /\ at' = [at EXCEPT ![t] = @ + 1]
     \/ /\ event[Current(t)] = "error"
        /\ pc' = [pc EXCEPT ![t] = "raised"]
        /\ UNCHANGED at
  /\ UNCHANGED <<event, parentVars, queue, overflow, stopped, failed, known, bg, batchVars,
                 token, serviceVars, enqueued>>

\* The handler returned or raised: closing(execution_state) calls stop_checkpointing.
StopCheckpointing ==
  /\ Finished(Handler) \/ pc[Handler] \in {"raised", "orphaned"}
  /\ ~stopped
  /\ stopped' = TRUE
  /\ UNCHANGED <<callerVars, event, parentVars, queue, overflow, failed, known, bg, batchVars,
                 token, serviceVars, enqueued>>

Caller(t) == Admit(t) \/ RejectOrphan(t) \/ TestFailed(t) \/ Enqueue(t) \/ Wake(t)

-----------------------------------------------------------------------------
(* The background thread: checkpoint_batches_forever, _collect_checkpoint_batch *)

Goto(from, to) == bg = from /\ bg' = to

\* while not _checkpointing_stopped.is_set(): a new batch, or the end of the thread.
LoopTop ==
  /\ bg = "top"
  /\ bg' = IF stopped THEN "exited" ELSE "overflow"
  /\ batch' = <<>> /\ count' = 0 /\ size' = 0 /\ hasEmpty' = FALSE
  /\ UNCHANGED <<callerVars, event, parentVars, queue, overflow, stopped, failed, known, token,
                 serviceVars, enqueued>>

Fits(c) == size + SizeOf(c) <= MaxBytes

\* Empty checkpoints after the first do not count toward the operation limit.
AddToBatch(c) ==
  /\ batch' = Append(batch, c)
  /\ size' = size + SizeOf(c)
  /\ count' = IF IsEmpty(c) /\ hasEmpty THEN count ELSE count + 1
  /\ hasEmpty' = (hasEmpty \/ IsEmpty(c))

\* _overflow_queue is drained first; what does not fit is put back, at the tail.
TakeOverflow ==
  /\ bg = "overflow"
  /\ count < MaxOps /\ overflow # <<>>
  /\ \/ /\ Fits(Head(overflow))
        /\ AddToBatch(Head(overflow))
        /\ overflow' = Tail(overflow)
        /\ UNCHANGED bg
     \/ /\ ~Fits(Head(overflow))
        /\ overflow' = Append(Tail(overflow), Head(overflow))
        /\ bg' = IF batch = <<>> THEN "poll" ELSE "window"
        /\ UNCHANGED batchVars
  /\ UNCHANGED <<callerVars, event, parentVars, queue, stopped, failed, known, token,
                 serviceVars, enqueued>>

OverflowDrained ==
  /\ bg = "overflow"
  /\ count >= MaxOps \/ overflow = <<>>
  /\ bg' = IF batch = <<>> THEN "poll" ELSE "window"
  /\ UNCHANGED <<callerVars, event, parentVars, queue, overflow, stopped, failed, known,
                 batchVars, token, serviceVars, enqueued>>

\* The first operation: the stop signal is tested before each 100 ms get.
PollStop ==
  /\ bg = "poll"
  /\ bg' = IF stopped THEN "top" ELSE "first"
  /\ UNCHANGED <<callerVars, event, parentVars, queue, overflow, stopped, failed, known,
                 batchVars, token, serviceVars, enqueued>>

\* The first operation is taken whatever its size.
TakeFirst ==
  /\ Goto("first", "window")
  /\ queue # <<>>
  /\ AddToBatch(Head(queue))
  /\ queue' = Tail(queue)
  /\ UNCHANGED <<callerVars, event, parentVars, overflow, stopped, failed, known, token,
                 serviceVars, enqueued>>

GetTimeout ==
  /\ Goto("first", "poll")
  /\ queue = <<>>
  /\ UNCHANGED <<callerVars, event, parentVars, queue, overflow, stopped, failed, known,
                 batchVars, token, serviceVars, enqueued>>

\* The batching window: its loop condition, the deadline being free to pass at any time.
WindowOpen ==
  /\ Goto("window", "additional")
  /\ count < MaxOps /\ ~stopped
  /\ UNCHANGED <<callerVars, event, parentVars, queue, overflow, stopped, failed, known,
                 batchVars, token, serviceVars, enqueued>>

\* Mutant: a batch without updates is taken for an empty batch, and nothing is sent.
WindowClosedOnUpdates ==
  /\ bg \in {"window", "additional"}
  /\ bg = "additional" => queue = <<>>
  /\ bg' = IF \A c \in RangeOf(batch) : IsEmpty(c) THEN "top" ELSE "send"
  /\ UNCHANGED <<callerVars, event, parentVars, queue, overflow, stopped, failed, known,
                 batchVars, token, serviceVars, enqueued>>

WindowClosed ==
  /\ bg \in {"window", "additional"}
  /\ bg = "additional" => queue = <<>>
  /\ bg' = "send"
  /\ UNCHANGED <<callerVars, event, parentVars, queue, overflow, stopped, failed, known,
                 batchVars, token, serviceVars, enqueued>>

TakeAdditional ==
  /\ bg = "additional"
  /\ queue # <<>>
  /\ queue' = Tail(queue)
  /\ \/ /\ IsEmpty(Head(queue)) \/ Fits(Head(queue))
        /\ AddToBatch(Head(queue))
        /\ bg' = "window"
        /\ UNCHANGED overflow
     \/ /\ ~IsEmpty(Head(queue)) /\ ~Fits(Head(queue))
        /\ overflow' = Append(overflow, Head(queue))
        /\ bg' = "send"
        /\ UNCHANGED batchVars
  /\ UNCHANGED <<callerVars, event, parentVars, stopped, failed, known, token, serviceVars,
                 enqueued>>

-----------------------------------------------------------------------------
(* The service call and its outcomes *)

Accept ==
  /\ token = issued
  /\ log' = log \o batch
  /\ issued' = issued + 1

\* Mutant: the waiters are signalled before the operations are merged.
SendUnmerged ==
  /\ Goto("send", "signal")
  /\ Accept
  /\ token' = issued'
  /\ UNCHANGED <<callerVars, event, parentVars, queue, overflow, stopped, failed, known,
                 batchVars, enqueued>>

SendOk ==
  /\ Goto("send", "merge")
  /\ Accept
  /\ token' = issued'
  /\ UNCHANGED <<callerVars, event, parentVars, queue, overflow, stopped, failed, known,
                 batchVars, enqueued>>

\* service_client.checkpoint raises: the batch was refused, or applied and the reply lost.
SendFails ==
  /\ Goto("send", "wakeBatch")
  /\ \/ /\ "refused" \in Failures \/ token # issued
        /\ UNCHANGED serviceVars
     \/ "replyLost" \in Failures /\ Accept
  /\ UNCHANGED <<callerVars, event, parentVars, queue, overflow, stopped, failed, known,
                 batchVars, token, enqueued>>

\* fetch_paginated_operations: the operations reach _operations before any waiter is woken.
Merge ==
  /\ Goto("merge", "signal")
  /\ known' = known \cup RangeOf(batch)
  /\ UNCHANGED <<callerVars, event, parentVars, queue, overflow, stopped, failed, batchVars,
                 token, serviceVars, enqueued>>

\* A page cannot be fetched: the pages before it are kept, and the error is raised.
MergeFails ==
  /\ Goto("merge", "wakeBatch")
  /\ "pageFetch" \in Failures
  /\ \E part \in SUBSET RangeOf(batch) : known' = known \cup part
  /\ UNCHANGED <<callerVars, event, parentVars, queue, overflow, stopped, failed, batchVars,
                 token, serviceVars, enqueued>>

-----------------------------------------------------------------------------
(* Waking the callers *)

SetEvent(c, result) ==
  event' = IF Call(c).sync THEN [event EXCEPT ![c] = result] ELSE event

Signal ==
  /\ bg = "signal"
  /\ SetEvent(Head(batch), "ok")
  /\ batch' = Tail(batch)
  /\ bg' = IF Len(batch) = 1 THEN "top" ELSE "signal"
  /\ UNCHANGED <<callerVars, parentVars, queue, overflow, stopped, failed, known, count, size,
                 hasEmpty, token, serviceVars, enqueued>>

WakeBatch ==
  /\ bg = "wakeBatch"
  /\ SetEvent(Head(batch), "error")
  /\ batch' = Tail(batch)
  /\ bg' = IF Len(batch) = 1 THEN "wakeOverflow" ELSE "wakeBatch"
  /\ UNCHANGED <<callerVars, parentVars, queue, overflow, stopped, failed, known, count, size,
                 hasEmpty, token, serviceVars, enqueued>>

\* Mutant: the overflow queue is not drained when a batch fails.
WakeOverflowSkipped ==
  /\ bg = "wakeOverflow" /\ bg' = "wakeQueue"
  /\ UNCHANGED <<callerVars, event, parentVars, queue, overflow, stopped, failed, known,
                 batchVars, token, serviceVars, enqueued>>

WakeOverflow ==
  /\ bg = "wakeOverflow"
  /\ \/ /\ overflow = <<>> /\ bg' = "wakeQueue"
        /\ UNCHANGED <<event, overflow>>
     \/ /\ overflow # <<>> /\ UNCHANGED bg
        /\ SetEvent(Head(overflow), "error")
        /\ overflow' = Tail(overflow)
  /\ UNCHANGED <<callerVars, parentVars, queue, stopped, failed, known, batchVars, token,
                 serviceVars, enqueued>>

WakeQueue ==
  /\ bg = "wakeQueue"
  /\ \/ /\ queue = <<>> /\ bg' = "setFailed"
        /\ UNCHANGED <<event, queue>>
     \/ /\ queue # <<>> /\ UNCHANGED bg
        /\ SetEvent(Head(queue), "error")
        /\ queue' = Tail(queue)
  /\ UNCHANGED <<callerVars, parentVars, overflow, stopped, failed, known, batchVars, token,
                 serviceVars, enqueued>>

\* Mutant: the loop goes on after the failure (no break).
SetFailedGoesOn ==
  /\ Goto("setFailed", "top")
  /\ failed' = TRUE
  /\ UNCHANGED <<callerVars, event, parentVars, queue, overflow, stopped, known, batchVars,
                 token, serviceVars, enqueued>>

\* The failure event is set last, and the thread ends.
SetFailed ==
  /\ Goto("setFailed", "exited")
  /\ failed' = TRUE
  /\ UNCHANGED <<callerVars, event, parentVars, queue, overflow, stopped, known, batchVars,
                 token, serviceVars, enqueued>>

Background ==
  \/ LoopTop \/ TakeOverflow \/ OverflowDrained \/ PollStop \/ TakeFirst \/ GetTimeout
  \/ WindowOpen \/ WindowClosed \/ TakeAdditional
  \/ SendOk \/ SendFails \/ Merge \/ MergeFails
  \/ Signal \/ WakeBatch \/ WakeOverflow \/ WakeQueue \/ SetFailed

Next == (\E t \in Threads : Caller(t)) \/ StopCheckpointing \/ Background

Spec == Init /\ [][Next]_vars

\* Every thread keeps running: user code between two calls terminates, the service answers.
FairSpec ==
  /\ Spec
  /\ \A t \in Threads : WF_vars(Caller(t))
  /\ WF_vars(StopCheckpointing)
  /\ WF_vars(Background)

-----------------------------------------------------------------------------
(* Properties *)

BgPhases ==
  {"top", "overflow", "poll", "first", "window", "additional", "send", "merge", "signal",
   "wakeBatch", "wakeOverflow", "wakeQueue", "setFailed", "exited"}

\* Phases in which the code relies on the batch not being empty.
HoldsBatch == {"window", "additional", "send", "merge", "signal", "wakeBatch"}

\* Every variable has its type, and the background thread never sends or signals an
\* empty batch (the `if batch:` of checkpoint_batches_forever, state.py 713).
TypeOK ==
  /\ pc \in [Threads -> {"idle", "admitted", "enqueue", "blocked", "raised", "orphaned"}]
  /\ at \in [Threads -> Nat \ {0}]
  /\ event \in [Calls -> {"unset", "ok", "error"}]
  /\ children \subseteq (Ops \X Ops) /\ parentDone \subseteq Ops
  /\ queue \in Seq(Calls) /\ overflow \in Seq(Calls) /\ batch \in Seq(Calls)
  /\ stopped \in BOOLEAN /\ failed \in BOOLEAN /\ hasEmpty \in BOOLEAN
  /\ known \subseteq Calls
  /\ bg \in BgPhases /\ (bg \in HoldsBatch => batch # <<>>)
  /\ count \in Nat /\ size \in Nat /\ token \in Nat /\ issued \in Nat
  /\ log \in Seq(Calls) /\ admitted \in Seq(Calls) /\ enqueued \in Seq(Calls)

\* A synchronous create_checkpoint returns only after the service has accepted the update
\* and the operations it answered with are in _operations ("before unblocking sync
\* waiters", state.py 747): whatever the caller reads next reflects its own checkpoint.
AcknowledgedIsDurable ==
  \A c \in Calls :
    Call(c).sync /\ at[c[1]] > c[2] => c \in RangeOf(log) /\ c \in known

\* The service receives the calls in the order they were put on the queue, none skipped:
\* batching, the overflow queue and the limits never let a later update overtake an
\* earlier one ("FIFO order preserved", state.py 840).
SentInOrder ==
  /\ Len(log) <= Len(enqueued)
  /\ \A i \in 1 .. Len(log) : log[i] = enqueued[i]

\* The links that calls admitted up to the i-th have registered.
HasLink(c) == ~IsEmpty(c) /\ Call(c).parent # None
Link(c) == <<Call(c).parent, Call(c).op>>
LinksUpTo(i) == {Link(c) : c \in {d \in RangeOf(SubSeq(admitted, 1, i)) : HasLink(d)}}

\* Once a CONTEXT's completion has gone through the lock, no operation that was then known to
\* be below it, at any depth, is let through again.  Known are the links that this invocation
\* has registered: a context begun in an earlier one sends no START and has none, and what is
\* below it, like what begins after the completion, still passes.
RegisteredDescendantsAreCut ==
  \A i, j \in 1 .. Len(admitted) :
    i < j /\ Call(admitted[i]).ends =>
      Call(admitted[j]).op \notin Descendants(LinksUpTo(i), Call(admitted[i]).op)

\* While the background thread is alive, every caller blocked in completion_event.wait()
\* is eventually woken: neither the limits nor the overflow queue nor the coalescing of
\* empty checkpoints can starve it.
BlockedCallersAreServed ==
  \A t \in Threads : pc[t] = "blocked" ~> (pc[t] # "blocked" \/ bg = "exited")

\* When a batch fails, every caller that is blocked at that moment is woken, wherever its
\* call is: in the failed batch, in the overflow queue or in the main queue.
BlockedAtFailureAreWoken ==
  \A t \in Threads : (bg = "wakeBatch" /\ pc[t] = "blocked") ~> pc[t] # "blocked"

\* The pipeline implements the durable log it is meant to be.
DurableLog ==
  INSTANCE CheckpointLog WITH
    submitted <- enqueued,
    durable   <- log,
    acked     <- {c \in Calls : event[c] = "ok"},
    refused   <- {c \in Calls : event[c] = "error"},
    broken    <- failed \/ bg \in {"wakeBatch", "wakeOverflow", "wakeQueue", "setFailed"}

ImplementsLog == DurableLog!LogSpec

-----------------------------------------------------------------------------
(* Claims of the source's comments that the code does not keep *)

\* state.py 767 and 798: a failure wakes all blocked threads, and later attempts fail
\* immediately.  So no caller past the orphan test may be left waiting by a failure.
FailureReachesEveryCaller ==
  \A t \in Threads : (failed /\ pc[t] = "blocked") ~> pc[t] # "blocked"

=============================================================================
