----------------------- MODULE CheckpointBatcherProofs -----------------------
(***************************************************************************)
(* Machine-checked proofs about the checkpoint pipeline, for any number of *)
(* threads and operations, any programs and any limits.                    *)
(***************************************************************************)
EXTENDS CheckpointBatcher, SequenceTheorems, TLAPS

-----------------------------------------------------------------------------
(* Facts about the constants and about sequences *)

\* A call is a pair of a thread and a place in its program, and has the fields of a record.
LEMMA CallFacts ==
  ASSUME NEW c \in Calls
  PROVE  /\ c = <<c[1], c[2]>> /\ c[1] \in Threads
         /\ c[2] \in 1 .. Len(Program[c[1]]) /\ c[2] \in Nat \ {0}
         /\ Call(c).op \in Ops \cup {None} /\ Call(c).parent \in Ops \cup {None}
         /\ Call(c).sync \in BOOLEAN /\ Call(c).size \in Nat
         /\ SizeOf(c) \in Nat
  BY ProgramAssumption DEF Calls, Call, IsCallRecord, SizeOf, IsEmpty

LEMMA PlaceIsCall ==
  ASSUME NEW t \in Threads, NEW i \in Nat \ {0}, i <= Len(Program[t])
  PROVE  <<t, i>> \in Calls
  BY ProgramAssumption DEF Calls

\* Appending at the end of the second part is appending to the whole.
LEMMA ConcatAppend ==
  ASSUME NEW S, NEW s \in Seq(S), NEW q \in Seq(S), NEW x \in S
  PROVE  s \o Append(q, x) = Append(s \o q, x)
<1>1. /\ s \o q \in Seq(S) /\ Append(q, x) \in Seq(S) /\ <<x>> \in Seq(S)
  BY ConcatProperties
<1>2. Append(q, x) = q \o <<x>> /\ Append(s \o q, x) = (s \o q) \o <<x>>
  BY <1>1, AppendIsConcat
<1>3. QED  BY <1>1, <1>2, ConcatAssociative

\* Moving the head of the second part to the end of the first leaves the whole unchanged.
LEMMA MoveHead ==
  ASSUME NEW S, NEW s \in Seq(S), NEW q \in Seq(S), q # <<>>
  PROVE  Append(s, Head(q)) \o Tail(q) = s \o q
<1>1. /\ Head(q) \in S /\ Tail(q) \in Seq(S) /\ <<Head(q)>> \in Seq(S)
  BY HeadTailProperties
<1>2. q = <<Head(q)>> \o Tail(q)
  BY <1>1, SMT
<1>3. Append(s, Head(q)) = s \o <<Head(q)>>
  BY <1>1, AppendIsConcat
<1>4. QED  BY <1>1, <1>2, <1>3, ConcatAssociative

\* The members of a sequence after appending, concatenating and taking the tail.
LEMMA Members ==
  ASSUME NEW S, NEW s \in Seq(S), NEW q \in Seq(S), NEW x \in S
  PROVE  /\ RangeOf(Append(s, x)) = RangeOf(s) \cup {x}
         /\ RangeOf(s \o q) = RangeOf(s) \cup RangeOf(q)
         /\ s # <<>> => RangeOf(Tail(s)) \subseteq RangeOf(s) /\ Head(s) \in RangeOf(s)
         /\ RangeOf(s) \subseteq S
<1>1. RangeOf(Append(s, x)) = RangeOf(s) \cup {x}
  BY AppendProperties, SMT DEF RangeOf
<1>2. RangeOf(s \o q) = RangeOf(s) \cup RangeOf(q)
  <2>1. RangeOf(s \o q) \subseteq RangeOf(s) \cup RangeOf(q)
    BY ConcatProperties DEF RangeOf
  <2>2. RangeOf(s) \subseteq RangeOf(s \o q)
    BY ConcatProperties DEF RangeOf
  <2>3. ASSUME NEW j \in 1 .. Len(q)
        PROVE  q[j] \in RangeOf(s \o q)
    <3>1. /\ Len(s) + j \in 1 .. Len(s \o q)
          /\ (s \o q)[Len(s) + j] = q[j]
      BY ConcatProperties, LenProperties
    <3>2. QED  BY <3>1 DEF RangeOf
  <2>4. QED  BY <2>1, <2>2, <2>3 DEF RangeOf
<1>3. s # <<>> => RangeOf(Tail(s)) \subseteq RangeOf(s) /\ Head(s) \in RangeOf(s)
  BY HeadTailProperties, SMT DEF RangeOf
<1>4. RangeOf(s) \subseteq S
  BY ElementOfSeq DEF RangeOf
<1>5. QED  BY <1>1, <1>2, <1>3, <1>4

-----------------------------------------------------------------------------
(* Type correctness *)

\* A thread inside create_checkpoint is at one of its calls.
InsideACall ==
  \A t \in Threads : pc[t] \in {"admitted", "enqueue", "blocked"} => at[t] <= Len(Program[t])

LEMMA CurrentIsCall ==
  ASSUME TypeOK, InsideACall, NEW t \in Threads,
         pc[t] \in {"admitted", "enqueue", "blocked"} \/ at[t] <= Len(Program[t])
  PROVE  Current(t) \in Calls
  BY PlaceIsCall DEF TypeOK, InsideACall, Current

LEMMA InitTypes == Init => TypeOK /\ InsideACall
<1>1. <<>> \in Seq(Calls)
  BY EmptySeq
<1>2. ASSUME Init PROVE TypeOK
  <2>1. /\ queue = <<>> /\ overflow = <<>> /\ batch = <<>> /\ log = <<>>
        /\ admitted = <<>> /\ enqueued = <<>>
    BY <1>2 DEF Init
  <2>2. /\ pc \in [Threads -> {"idle"}] /\ at \in [Threads -> {1}]
        /\ event \in [Calls -> {"unset"}]
    BY <1>2 DEF Init
  <2>3. /\ children = {} /\ parentDone = {} /\ known = {} /\ stopped = FALSE /\ failed = FALSE
        /\ hasEmpty = FALSE /\ bg = "top" /\ count = 0 /\ size = 0 /\ token = 0 /\ issued = 0
    BY <1>2 DEF Init
  <2>4. /\ pc \in [Threads -> {"idle", "admitted", "enqueue", "blocked", "raised", "orphaned"}]
        /\ at \in [Threads -> Nat \ {0}]
        /\ event \in [Calls -> {"unset", "ok", "error"}]
    BY <2>2
  <2>5. QED
    BY <1>1, <2>1, <2>3, <2>4 DEF TypeOK, BgPhases, HoldsBatch
<1>3. QED
  BY <1>2 DEF Init, InsideACall

LEMMA CallerKeepsTypes ==
  ASSUME TypeOK, InsideACall, NEW t \in Threads, Caller(t)
  PROVE  TypeOK' /\ InsideACall'
<1> USE DEF vars, callerVars, parentVars, batchVars, serviceVars
<1>1. CASE Admit(t) \/ RejectOrphan(t)
  <2> DEFINE c == Current(t)
  <2>1. AtCall(t) /\ Register(c)
    BY <1>1 DEF Admit, RejectOrphan
  <2>2. c \in Calls /\ at[t] <= Len(Program[t])
    BY <2>1, CurrentIsCall DEF AtCall
  <2>3. LinksAfter(c) \subseteq (Ops \X Ops)
    <3>1. Call(c).op \in Ops \cup {None} /\ Call(c).parent \in Ops \cup {None}
      BY <2>2, CallFacts
    <3>2. ~IsEmpty(c) /\ Call(c).parent # None => <<Call(c).parent, Call(c).op>> \in Ops \X Ops
      BY <3>1 DEF IsEmpty
    <3>3. QED
      BY <3>2 DEF LinksAfter, TypeOK
  <2>4. OrphansAfter(c) \subseteq Ops
    BY <2>2, CallFacts DEF OrphansAfter, Descendants, IsEmpty, TypeOK
  <2>5. admitted' \in Seq(Calls)
    <3>1. admitted \in Seq(Calls)
      BY DEF TypeOK
    <3>2. Append(admitted, c) \in Seq(Calls)
      BY <2>2, <3>1, AppendProperties
    <3>3. QED
      BY <1>1, <3>1, <3>2 DEF Admit, RejectOrphan
  <2>6. pc' \in [Threads -> {"idle", "admitted", "enqueue", "blocked", "raised", "orphaned"}]
    BY <1>1 DEF Admit, RejectOrphan, TypeOK
  <2>7. InsideACall'
    BY <1>1, <2>1, <2>2 DEF Admit, RejectOrphan, Register, InsideACall, TypeOK
  <2>8. QED
    BY <2>1, <2>3, <2>4, <2>5, <2>6, <2>7 DEF Register, TypeOK
<1>2. CASE TestFailed(t)
  BY <1>2 DEF TestFailed, TypeOK, InsideACall
<1>3. CASE Enqueue(t)
  <2>1. Current(t) \in Calls
    BY <1>3, CurrentIsCall DEF Enqueue
  <2>2. queue' \in Seq(Calls) /\ enqueued' \in Seq(Calls)
    BY <1>3, <2>1, AppendProperties DEF Enqueue, TypeOK
  <2>3. /\ pc' \in [Threads -> {"idle", "admitted", "enqueue", "blocked", "raised", "orphaned"}]
        /\ at' \in [Threads -> Nat \ {0}]
        /\ InsideACall'
    <3>1. pc \in [Threads -> {"idle", "admitted", "enqueue", "blocked", "raised", "orphaned"}]
          /\ at \in [Threads -> Nat \ {0}]
      BY DEF TypeOK
    <3>2. \/ pc' = [pc EXCEPT ![t] = "blocked"] /\ at' = at
          \/ pc' = [pc EXCEPT ![t] = "idle"] /\ at' = [at EXCEPT ![t] = @ + 1]
      BY <1>3 DEF Enqueue
    <3>3. pc[t] = "enqueue"
      BY <1>3 DEF Enqueue
    <3>4. QED
      BY <3>1, <3>2, <3>3 DEF InsideACall
  <2>4. QED
    BY <1>3, <2>2, <2>3 DEF Enqueue, TypeOK
<1>4. CASE Wake(t)
  <2>1. /\ pc \in [Threads -> {"idle", "admitted", "enqueue", "blocked", "raised", "orphaned"}]
        /\ at \in [Threads -> Nat \ {0}]
    BY DEF TypeOK
  <2>2. \/ /\ pc' = [pc EXCEPT ![t] = "idle"]
           /\ at' = [at EXCEPT ![t] = @ + 1]
        \/ /\ pc' = [pc EXCEPT ![t] = "raised"]
           /\ at' = at
    BY <1>4 DEF Wake
  <2>3. /\ pc' \in [Threads -> {"idle", "admitted", "enqueue", "blocked", "raised", "orphaned"}]
        /\ at' \in [Threads -> Nat \ {0}]
        /\ InsideACall'
    BY <2>1, <2>2 DEF InsideACall
  <2>4. QED
    BY <1>4, <2>3 DEF Wake, TypeOK
<1>5. QED
  BY <1>1, <1>2, <1>3, <1>4 DEF Caller

LEMMA BackgroundKeepsTypes ==
  ASSUME TypeOK, InsideACall, Background
  PROVE  TypeOK' /\ InsideACall'
<1> USE DEF callerVars, parentVars, batchVars, serviceVars, BgPhases, HoldsBatch
<1>0. InsideACall'
  BY DEF InsideACall, Background, LoopTop, TakeOverflow, OverflowDrained, PollStop, TakeFirst,
         GetTimeout, WindowOpen, WindowClosed, TakeAdditional, SendOk, SendFails, Merge,
         MergeFails, Signal, WakeBatch, WakeOverflow, WakeQueue, SetFailed
<1>1. ASSUME NEW c \in Calls, AddToBatch(c)
      PROVE  /\ batch' \in Seq(Calls) /\ batch' # <<>>
             /\ count' \in Nat /\ size' \in Nat /\ hasEmpty' \in BOOLEAN
  <2>1. batch \in Seq(Calls) /\ SizeOf(c) \in Nat
    BY CallFacts DEF TypeOK
  <2>2. Append(batch, c) \in Seq(Calls) /\ Append(batch, c) # <<>>
    BY <2>1, AppendProperties
  <2>3. IsEmpty(c) \in BOOLEAN /\ hasEmpty \in BOOLEAN /\ count \in Nat /\ size \in Nat
    BY DEF IsEmpty, TypeOK
  <2>4. QED
    BY <1>1, <2>1, <2>2, <2>3 DEF AddToBatch
<1>2. CASE LoopTop
  <2>1. <<>> \in Seq(Calls)
    BY EmptySeq
  <2>2. QED
    BY <1>0, <1>2, <2>1 DEF LoopTop, TypeOK
<1>3. CASE TakeOverflow
  <2>1. /\ Head(overflow) \in Calls /\ Tail(overflow) \in Seq(Calls)
        /\ Append(Tail(overflow), Head(overflow)) \in Seq(Calls)
    BY <1>3, HeadTailProperties, AppendProperties DEF TakeOverflow, TypeOK
  <2>2. QED
    BY <1>0, <1>1, <1>3, <2>1 DEF TakeOverflow, TypeOK
<1>4. CASE OverflowDrained \/ PollStop \/ GetTimeout \/ WindowOpen \/ WindowClosed
  BY <1>0, <1>4 DEF OverflowDrained, PollStop, GetTimeout, WindowOpen, WindowClosed, Goto, TypeOK
<1>5. CASE TakeFirst
  <2>1. Head(queue) \in Calls /\ Tail(queue) \in Seq(Calls)
    BY <1>5, HeadTailProperties DEF TakeFirst, TypeOK
  <2>2. QED
    BY <1>0, <1>1, <1>5, <2>1 DEF TakeFirst, Goto, TypeOK
<1>6. CASE TakeAdditional
  <2>1. /\ Head(queue) \in Calls /\ Tail(queue) \in Seq(Calls)
        /\ Append(overflow, Head(queue)) \in Seq(Calls)
    BY <1>6, HeadTailProperties, AppendProperties DEF TakeAdditional, TypeOK
  <2>2. QED
    BY <1>0, <1>1, <1>6, <2>1 DEF TakeAdditional, TypeOK
<1>7. CASE SendOk \/ SendFails
  <2>1. log' \in Seq(Calls) /\ issued' \in Nat /\ token' \in Nat
    <3>1. log \in Seq(Calls) /\ log \o batch \in Seq(Calls)
      BY ConcatProperties DEF TypeOK
    <3>2. issued \in Nat /\ token \in Nat
      BY DEF TypeOK
    <3>3. log' \in {log, log \o batch}
      BY <1>7 DEF SendOk, SendFails, Accept
    <3>4. issued' \in {issued, issued + 1} /\ token' \in {token, issued'}
      BY <1>7 DEF SendOk, SendFails, Accept
    <3>5. log' \in Seq(Calls)
      BY <3>1, <3>3, Zenon
    <3>6. issued' \in Nat /\ token' \in Nat
      BY <3>2, <3>4
    <3>7. QED
      BY <3>5, <3>6
  <2>2. QED
    BY <1>0, <1>7, <2>1 DEF SendOk, SendFails, Goto, TypeOK
<1>8. CASE Merge \/ MergeFails
  <2>1. known' \subseteq Calls
    BY <1>8, ElementOfSeq DEF Merge, MergeFails, RangeOf, TypeOK
  <2>2. QED
    BY <1>0, <1>8, <2>1 DEF Merge, MergeFails, Goto, TypeOK
<1>9. ASSUME NEW c \in Calls, NEW r \in {"ok", "error"}, SetEvent(c, r)
      PROVE  event' \in [Calls -> {"unset", "ok", "error"}]
  BY <1>9 DEF SetEvent, TypeOK
<1>10. CASE Signal \/ WakeBatch
  <2>1. /\ Head(batch) \in Calls /\ Tail(batch) \in Seq(Calls)
        /\ Len(batch) # 1 => Tail(batch) # <<>>
    <3>1. batch \in Seq(Calls) /\ batch # <<>>
      BY <1>10 DEF Signal, WakeBatch, TypeOK
    <3>2. Head(batch) \in Calls /\ Tail(batch) \in Seq(Calls)
      BY <3>1, HeadTailProperties
    <3>3. Len(Tail(batch)) = Len(batch) - 1 /\ Len(batch) \in Nat
      BY <3>1, HeadTailProperties, LenProperties
    <3>4. ASSUME Tail(batch) = <<>> PROVE Len(batch) = 1
      <4>1. Len(Tail(batch)) = 0
        BY <3>4, EmptySeq
      <4>2. QED
        BY <3>3, <4>1
    <3>5. QED
      BY <3>2, <3>4
  <2>2. event' \in [Calls -> {"unset", "ok", "error"}]
    BY <1>9, <1>10, <2>1 DEF Signal, WakeBatch
  <2>3. QED
    BY <1>0, <1>10, <2>1, <2>2 DEF Signal, WakeBatch, TypeOK
<1>11. CASE WakeOverflow \/ WakeQueue
  <2>1. /\ overflow # <<>> => Head(overflow) \in Calls /\ Tail(overflow) \in Seq(Calls)
        /\ queue # <<>> => Head(queue) \in Calls /\ Tail(queue) \in Seq(Calls)
    BY HeadTailProperties DEF TypeOK
  <2>2. /\ event' \in [Calls -> {"unset", "ok", "error"}]
        /\ overflow' \in Seq(Calls) /\ queue' \in Seq(Calls)
    BY <1>9, <1>11, <2>1 DEF WakeOverflow, WakeQueue, TypeOK
  <2>3. QED
    BY <1>0, <1>11, <2>2 DEF WakeOverflow, WakeQueue, TypeOK
<1>12. CASE SetFailed
  BY <1>0, <1>12 DEF SetFailed, Goto, TypeOK
<1>13. QED
  BY <1>2, <1>3, <1>4, <1>5, <1>6, <1>7, <1>8, <1>10, <1>11, <1>12 DEF Background

\* Every reachable state is well typed, and no empty batch is ever sent or signalled.
THEOREM TypeCorrect == Spec => [](TypeOK /\ InsideACall)
<1>1. ASSUME TypeOK, InsideACall, [Next]_vars
      PROVE  TypeOK' /\ InsideACall'
  <2>1. CASE \E t \in Threads : Caller(t)
    BY <1>1, <2>1, CallerKeepsTypes
  <2>2. CASE StopCheckpointing
    BY <1>1, <2>2 DEF StopCheckpointing, TypeOK, InsideACall, callerVars, parentVars, batchVars,
                      serviceVars
  <2>3. CASE Background
    BY <1>1, <2>3, BackgroundKeepsTypes
  <2>4. CASE UNCHANGED vars
    BY <1>1, <2>4 DEF vars, TypeOK, InsideACall
  <2>5. QED
    BY <1>1, <2>1, <2>2, <2>3, <2>4 DEF Next
<1>2. QED
  BY <1>1, InitTypes, PTL DEF Spec

-----------------------------------------------------------------------------
(* Acknowledged calls are durable *)

\* AcknowledgedIsDurable is not inductive: it also takes that only durable and merged calls
\* are signalled, and that a batch is signalled only after it was accepted and merged.
SignalledAreDurable ==
  /\ \A c \in Calls : event[c] = "ok" => c \in RangeOf(log) /\ c \in known
  /\ bg \in {"merge", "signal"} => RangeOf(batch) \subseteq RangeOf(log)
  /\ bg = "signal" => RangeOf(batch) \subseteq known

AckInv == SignalledAreDurable /\ AcknowledgedIsDurable

\* A call of t that has returned in this step had returned before, or is the current one.
LEMMA ReturnedOrCurrent ==
  ASSUME TypeOK, NEW t \in Threads, at' = [at EXCEPT ![t] = @ + 1],
         NEW c \in Calls, at'[c[1]] > c[2]
  PROVE  at[c[1]] > c[2] \/ c = Current(t)
<1>1. /\ c = <<c[1], c[2]>> /\ c[1] \in Threads /\ c[2] \in Nat
  BY CallFacts
<1>2. at \in [Threads -> Nat \ {0}]
  BY DEF TypeOK
<1>3. CASE c[1] = t
  <2>1. at[t] + 1 > c[2] /\ at[t] \in Nat
    BY <1>1, <1>2, <1>3
  <2>2. at[t] > c[2] \/ c[2] = at[t]
    BY <1>1, <2>1
  <2>3. QED
    BY <1>1, <1>3, <2>2 DEF Current
<1>4. CASE c[1] # t
  BY <1>1, <1>2, <1>4
<1>5. QED
  BY <1>3, <1>4

LEMMA CallerKeepsAck ==
  ASSUME TypeOK, InsideACall, AckInv, NEW t \in Threads, Caller(t)
  PROVE  AckInv'
<1> USE DEF callerVars, parentVars, batchVars, serviceVars
<1>1. UNCHANGED <<event, log, known, bg, batch>>
  BY DEF Caller, Admit, RejectOrphan, Register, TestFailed, Enqueue, Wake
<1>0. RangeOf(log') = RangeOf(log) /\ RangeOf(batch') = RangeOf(batch)
  BY <1>1
<1>2. SignalledAreDurable'
  BY <1>0, <1>1 DEF AckInv, SignalledAreDurable
<1>3. CASE UNCHANGED at
  BY <1>0, <1>1, <1>2, <1>3 DEF AckInv, AcknowledgedIsDurable
<1>4. CASE Enqueue(t) /\ ~Call(Current(t)).sync
  <2>1. ASSUME NEW c \in Calls, Call(c).sync, at'[c[1]] > c[2]
        PROVE  at[c[1]] > c[2]
    <3>1. at' = [at EXCEPT ![t] = @ + 1]
      BY <1>4 DEF Enqueue
    <3>2. QED
      BY <1>4, <2>1, <3>1, ReturnedOrCurrent
  <2>2. QED
    BY <1>0, <1>1, <1>2, <2>1 DEF AckInv, AcknowledgedIsDurable
<1>5. CASE Wake(t) /\ event[Current(t)] = "ok" /\ at' = [at EXCEPT ![t] = @ + 1]
  <2>1. Current(t) \in RangeOf(log) /\ Current(t) \in known
    <3>1. Current(t) \in Calls
      BY <1>5, CurrentIsCall DEF Wake
    <3>2. QED
      BY <1>5, <3>1 DEF AckInv, SignalledAreDurable
  <2>2. ASSUME NEW c \in Calls, Call(c).sync, at'[c[1]] > c[2]
        PROVE  c \in RangeOf(log) /\ c \in known
    BY <1>5, <2>1, <2>2, ReturnedOrCurrent DEF AckInv, AcknowledgedIsDurable
  <2>3. QED
    BY <1>0, <1>1, <1>2, <2>2 DEF AckInv, AcknowledgedIsDurable
<1>6. QED
  BY <1>2, <1>3, <1>4, <1>5 DEF AckInv, Caller, Admit, RejectOrphan, Register, TestFailed,
     Enqueue, Wake

LEMMA BackgroundKeepsAck ==
  ASSUME TypeOK, InsideACall, AckInv, Background
  PROVE  AckInv'
<1> USE DEF callerVars, parentVars, batchVars, serviceVars, Goto
<1>0. log \in Seq(Calls) /\ batch \in Seq(Calls) /\ (bg \in HoldsBatch => batch # <<>>)
  BY DEF TypeOK
<1>1. RangeOf(log \o batch) = RangeOf(log) \cup RangeOf(batch)
  <2>1. CASE Calls = {}
    BY <1>0, <2>1, Members, EmptySeq, SMT DEF RangeOf
  <2>2. CASE Calls # {}
    BY <1>0, <2>2, Members
  <2>3. QED
    BY <2>1, <2>2
<1>2. UNCHANGED at /\ log' \in {log, log \o batch} /\ known \subseteq known'
  BY DEF Background, LoopTop, TakeOverflow, OverflowDrained, PollStop, TakeFirst,
         GetTimeout, WindowOpen, WindowClosed, TakeAdditional, SendOk, SendFails, Accept, Merge,
         MergeFails, Signal, WakeBatch, WakeOverflow, WakeQueue, SetFailed
<1>3. RangeOf(log) \subseteq RangeOf(log')
  BY <1>1, <1>2
<1>4. AcknowledgedIsDurable'
  BY <1>2, <1>3 DEF AckInv, AcknowledgedIsDurable, Call
<1>5. CASE SendOk
  <2>1. bg' = "merge" /\ log' = log \o batch /\ UNCHANGED <<event, batch, known>>
    BY <1>5 DEF SendOk, Accept
  <2>2. RangeOf(batch') \subseteq RangeOf(log')
    BY <1>1, <2>1
  <2>3. QED
    BY <1>3, <1>4, <2>1, <2>2 DEF AckInv, SignalledAreDurable
<1>6. CASE Merge
  <2>1. bg = "merge" /\ bg' = "signal" /\ UNCHANGED <<event, batch, log>>
        /\ known' = known \cup RangeOf(batch)
    BY <1>6 DEF Merge
  <2>2. RangeOf(batch') = RangeOf(batch) /\ RangeOf(log') = RangeOf(log)
    BY <2>1
  <2>3. QED
    BY <1>2, <1>4, <2>1, <2>2 DEF AckInv, SignalledAreDurable
<1>7. CASE Signal
  <2>1. bg = "signal" /\ batch # <<>> /\ batch' = Tail(batch) /\ bg' \in {"top", "signal"}
        /\ SetEvent(Head(batch), "ok") /\ UNCHANGED <<log, known>>
    BY <1>0, <1>7 DEF Signal, HoldsBatch
  <2>2. RangeOf(batch') \subseteq RangeOf(batch) /\ Head(batch) \in RangeOf(batch)
    <3>1. Head(batch) \in Calls
      BY <1>0, <2>1, HeadTailProperties
    <3>2. QED
      BY <1>0, <2>1, <3>1, Members
  <2>3. Head(batch) \in RangeOf(log) /\ Head(batch) \in known
    BY <2>1, <2>2 DEF AckInv, SignalledAreDurable
  <2>4. ASSUME NEW c \in Calls, event'[c] = "ok"
        PROVE  event[c] = "ok" \/ c = Head(batch)
    BY <2>1, <2>4 DEF SetEvent, TypeOK
  <2>5. RangeOf(log') = RangeOf(log)
    BY <2>1
  <2>6. QED
    BY <1>4, <2>1, <2>2, <2>3, <2>4, <2>5 DEF AckInv, SignalledAreDurable
<1>8. CASE WakeBatch \/ WakeOverflow \/ WakeQueue
  <2>1. bg' \notin {"merge", "signal"}
    BY <1>8 DEF WakeBatch, WakeOverflow, WakeQueue
  <2>2. \A c \in Calls : event'[c] = "ok" => event[c] = "ok"
    BY <1>8 DEF WakeBatch, WakeOverflow, WakeQueue, SetEvent, TypeOK
  <2>3. QED
    BY <1>2, <1>3, <1>4, <2>1, <2>2 DEF AckInv, SignalledAreDurable
<1>9. CASE UNCHANGED event /\ bg' \notin {"merge", "signal"}
  BY <1>2, <1>3, <1>4, <1>9 DEF AckInv, SignalledAreDurable
<1>10. QED
  BY <1>5, <1>6, <1>7, <1>8, <1>9
     DEF Background, LoopTop, TakeOverflow, OverflowDrained, PollStop, TakeFirst,
         GetTimeout, WindowOpen, WindowClosed, TakeAdditional, SendFails, MergeFails, SetFailed

LEMMA AckAlways == Spec => []AckInv
<1>1. Init => AckInv
  <2>1. ASSUME Init PROVE AckInv
    <3>1. /\ \A c \in Calls : event[c] = "unset"
          /\ \A t \in Threads : at[t] = 1
          /\ bg = "top"
      BY <2>1 DEF Init
    <3>2. ASSUME NEW c \in Calls PROVE ~(at[c[1]] > c[2])
      BY <3>1, CallFacts
    <3>3. QED
      BY <3>1, <3>2 DEF AckInv, SignalledAreDurable, AcknowledgedIsDurable
  <2>2. QED
    BY <2>1
<1>2. ASSUME TypeOK, InsideACall, AckInv, [Next]_vars
      PROVE  AckInv'
  <2>1. CASE \E t \in Threads : Caller(t)
    BY <1>2, <2>1, CallerKeepsAck
  <2>2. CASE Background
    BY <1>2, <2>2, BackgroundKeepsAck
  <2>3. CASE StopCheckpointing \/ UNCHANGED vars
    <3>1. UNCHANGED <<at, event, log, known, bg, batch>>
      BY <2>3 DEF StopCheckpointing, vars, callerVars, serviceVars, batchVars
    <3>2. QED
      BY <1>2, <3>1 DEF AckInv, SignalledAreDurable, AcknowledgedIsDurable, RangeOf, Call
  <2>4. QED
    BY <1>2, <2>1, <2>2, <2>3 DEF Next
<1>3. QED
  BY <1>1, <1>2, TypeCorrect, PTL DEF Spec

\* Whatever the programs, the limits and the failures, a synchronous checkpoint returns to
\* its caller only when the service holds it and _operations reflects it.
THEOREM AcknowledgedAreDurable == Spec => []AcknowledgedIsDurable
<1>1. AckInv => AcknowledgedIsDurable
  BY DEF AckInv
<1>2. QED
  BY <1>1, AckAlways, PTL

-----------------------------------------------------------------------------
(* The service receives the calls in the order of the queue *)

\* No single update is larger than a batch may be.  Without it the put-back at the tail of
\* the overflow queue lets later calls overtake (README.md, section 3).
NoOversize == \A c \in Calls : SizeOf(c) <= MaxBytes

Collecting == {"top", "overflow", "poll", "first", "window", "additional", "send"}

\* What was put on the queue is, in order: what the service holds, the batch being built,
\* the overflow queue and the queue.  It takes that the overflow queue holds at most one
\* call, that it is empty before the main queue is read, and that the size of an empty
\* batch is 0, so that what waits in the overflow queue always fits.
InLine ==
  /\ bg \in Collecting => enqueued = (log \o (batch \o overflow)) \o queue
  /\ bg \in {"merge", "signal"} => enqueued = (log \o overflow) \o queue
  /\ bg \in {"top", "poll", "first"} => batch = <<>>
  /\ bg \in {"poll", "first", "window", "additional"} => overflow = <<>>
  /\ bg = "overflow" => overflow = <<>> \/ (batch = <<>> /\ size = 0 /\ count = 0)
  /\ overflow # <<>> => Tail(overflow) = <<>>

OrderInv == InLine /\ SentInOrder

LEMMA CallerKeepsOrder ==
  ASSUME TypeOK, InsideACall, OrderInv, NEW t \in Threads, Caller(t)
  PROVE  OrderInv'
<1> USE DEF callerVars, parentVars, batchVars, serviceVars
<1>1. UNCHANGED <<log, bg, batch, overflow, size, count>>
  BY DEF Caller, Admit, RejectOrphan, Register, TestFailed, Enqueue, Wake
<1>2. CASE UNCHANGED <<enqueued, queue>>
  BY <1>1, <1>2 DEF OrderInv, InLine, SentInOrder
<1>3. CASE Enqueue(t)
  <2> DEFINE c == Current(t)
  <2>1. c \in Calls
    BY <1>3, CurrentIsCall DEF Enqueue
  <2>2. enqueued' = Append(enqueued, c) /\ queue' = Append(queue, c)
    BY <1>3 DEF Enqueue
  <2>3. /\ enqueued \in Seq(Calls) /\ queue \in Seq(Calls) /\ log \in Seq(Calls)
        /\ log \o (batch \o overflow) \in Seq(Calls) /\ log \o overflow \in Seq(Calls)
    BY ConcatProperties DEF TypeOK
  <2>4. /\ (log \o (batch \o overflow)) \o queue' = Append((log \o (batch \o overflow)) \o queue, c)
        /\ (log \o overflow) \o queue' = Append((log \o overflow) \o queue, c)
    <3>1. \A s \in Seq(Calls) : s \o Append(queue, c) = Append(s \o queue, c)
      BY <2>1, <2>3, ConcatAppend
    <3>2. QED
      BY <2>2, <2>3, <3>1
  <2>5. InLine'
    BY <1>1, <2>2, <2>4 DEF OrderInv, InLine
  <2>6. SentInOrder'
    <3>1. /\ Len(enqueued') = Len(enqueued) + 1 /\ Len(enqueued) \in Nat /\ Len(log) \in Nat
          /\ \A i \in 1 .. Len(enqueued) : enqueued'[i] = enqueued[i]
      BY <2>1, <2>2, <2>3, AppendProperties, LenProperties
    <3>2. QED
      BY <1>1, <3>1 DEF OrderInv, SentInOrder
  <2>7. QED
    BY <2>5, <2>6 DEF OrderInv
<1>4. QED
  BY <1>2, <1>3 DEF Caller, Admit, RejectOrphan, Register, TestFailed, Wake

LEMMA BackgroundKeepsOrder ==
  ASSUME NoOversize, TypeOK, InsideACall, OrderInv, Background
  PROVE  OrderInv'
<1> USE DEF callerVars, parentVars, batchVars, serviceVars, Goto, Collecting
<1>0. /\ enqueued \in Seq(Calls) /\ queue \in Seq(Calls) /\ log \in Seq(Calls)
      /\ batch \in Seq(Calls) /\ overflow \in Seq(Calls) /\ <<>> \in Seq(Calls)
      /\ log \o batch \in Seq(Calls) /\ batch \o overflow \in Seq(Calls)
  BY ConcatProperties, EmptySeq DEF TypeOK
<1>1. UNCHANGED enqueued
  BY DEF Background, LoopTop, TakeOverflow, OverflowDrained, PollStop, TakeFirst,
         GetTimeout, WindowOpen, WindowClosed, TakeAdditional, SendOk, SendFails, Merge,
         MergeFails, Signal, WakeBatch, WakeOverflow, WakeQueue, SetFailed
<1>2. ASSUME UNCHANGED log PROVE SentInOrder'
  BY <1>1, <1>2 DEF OrderInv, SentInOrder
<1>3. CASE LoopTop
  <2>1. /\ bg = "top" /\ bg' \in {"exited", "overflow"} /\ batch' = <<>> /\ size' = 0 /\ count' = 0
        /\ UNCHANGED <<log, overflow, queue>>
    BY <1>3 DEF LoopTop
  <2>2. batch = <<>>
    BY <2>1 DEF OrderInv, InLine
  <2>3. InLine'
    BY <1>1, <2>1, <2>2 DEF OrderInv, InLine
  <2>4. QED
    BY <1>2, <2>1, <2>3 DEF OrderInv
<1>4. CASE TakeOverflow
  <2>1. /\ bg = "overflow" /\ overflow # <<>> /\ UNCHANGED <<log, queue>>
    BY <1>4 DEF TakeOverflow
  <2>2. batch = <<>> /\ size = 0 /\ Tail(overflow) = <<>>
    BY <2>1 DEF OrderInv, InLine
  <2>3. Head(overflow) \in Calls
    BY <1>0, <2>1, HeadTailProperties
  <2>4. Fits(Head(overflow))
    <3>1. SizeOf(Head(overflow)) \in Nat /\ SizeOf(Head(overflow)) <= MaxBytes
      BY <2>3, CallFacts DEF NoOversize
    <3>2. QED
      BY <2>2, <3>1, ConstantsAssumption DEF Fits
  <2>5. /\ batch' = Append(batch, Head(overflow)) /\ overflow' = Tail(overflow) /\ bg' = bg
    BY <1>4, <2>4 DEF TakeOverflow, AddToBatch
  <2>6. batch' \o overflow' = batch \o overflow
    BY <1>0, <2>1, <2>5, MoveHead
  <2>7. InLine'
    BY <1>1, <2>1, <2>2, <2>5, <2>6 DEF OrderInv, InLine
  <2>8. QED
    BY <1>2, <2>1, <2>7 DEF OrderInv
<1>5. CASE OverflowDrained
  <2>1. /\ bg = "overflow" /\ bg' = IF batch = <<>> THEN "poll" ELSE "window"
        /\ count >= MaxOps \/ overflow = <<>>
        /\ UNCHANGED <<log, batch, overflow, queue>>
    BY <1>5 DEF OverflowDrained
  <2>2. overflow = <<>>
    <3>1. CASE overflow # <<>>
      <4>1. count = 0
        BY <2>1, <3>1 DEF OrderInv, InLine
      <4>2. QED
        BY <2>1, <3>1, <4>1, ConstantsAssumption
    <3>2. QED
      BY <3>1
  <2>3. InLine'
    BY <1>1, <2>1, <2>2 DEF OrderInv, InLine
  <2>4. QED
    BY <1>2, <2>1, <2>3 DEF OrderInv
<1>6. CASE PollStop \/ GetTimeout \/ WindowOpen \/ WindowClosed
  <2>1. /\ UNCHANGED <<log, batch, overflow, queue>>
        /\ \/ bg \in {"poll", "first"} /\ bg' \in {"top", "first", "poll"}
           \/ bg \in {"window", "additional"} /\ bg' \in {"additional", "send"}
    BY <1>6 DEF PollStop, GetTimeout, WindowOpen, WindowClosed
  <2>2. InLine'
    BY <1>1, <2>1 DEF OrderInv, InLine
  <2>3. QED
    BY <1>2, <2>1, <2>2 DEF OrderInv
\* The head of the queue goes to the end of the batch, or to the overflow queue.
<1>7. CASE TakeFirst \/ TakeAdditional
  <2>1. /\ bg \in {"first", "additional"} /\ queue # <<>> /\ queue' = Tail(queue)
        /\ overflow = <<>> /\ UNCHANGED log
    BY <1>7 DEF TakeFirst, TakeAdditional, OrderInv, InLine
  <2>2. /\ Head(queue) \in Calls /\ Tail(queue) \in Seq(Calls)
        /\ Append(batch, Head(queue)) \in Seq(Calls)
    BY <1>0, <2>1, HeadTailProperties, AppendProperties
  <2>3. batch \o overflow = batch
    BY <1>0, <2>1, ConcatEmptySeq
  <2>4. \/ /\ batch' = Append(batch, Head(queue)) /\ overflow' = <<>> /\ bg' = "window"
        \/ /\ batch' = batch /\ overflow' = Append(<<>>, Head(queue)) /\ bg' = "send"
    BY <1>7, <2>1 DEF TakeFirst, TakeAdditional, AddToBatch
  <2>5. batch' \o overflow' = Append(batch, Head(queue))
    <3>1. Append(batch, Head(queue)) \o <<>> = Append(batch, Head(queue))
      BY <2>2, ConcatEmptySeq
    <3>2. batch \o Append(<<>>, Head(queue)) = Append(batch \o <<>>, Head(queue))
      BY <1>0, <2>2, ConcatAppend
    <3>3. batch \o <<>> = batch
      BY <2>1, <2>3
    <3>4. QED
      BY <2>4, <3>1, <3>2, <3>3
  <2>6. (log \o Append(batch, Head(queue))) \o Tail(queue) = (log \o batch) \o queue
    <3>1. log \o Append(batch, Head(queue)) = Append(log \o batch, Head(queue))
      BY <1>0, <2>2, ConcatAppend
    <3>2. Append(log \o batch, Head(queue)) \o Tail(queue) = (log \o batch) \o queue
      BY <1>0, <2>1, MoveHead
    <3>3. QED
      BY <3>1, <3>2
  <2>7. overflow' # <<>> => Tail(overflow') = <<>>
    BY <2>2, <2>4, EmptySeq, HeadTailAppend
  <2>8. enqueued = (log \o batch) \o queue
    BY <2>1, <2>3 DEF OrderInv, InLine
  <2>9. InLine'
    BY <1>1, <2>1, <2>4, <2>5, <2>6, <2>7, <2>8 DEF InLine
  <2>10. QED
    BY <1>2, <2>1, <2>9 DEF OrderInv
<1>8. CASE SendOk \/ SendFails
  <2>1. /\ bg = "send" /\ bg' \in {"merge", "wakeBatch"} /\ UNCHANGED <<overflow, queue>>
        /\ \/ log' = log \o batch
           \/ bg' = "wakeBatch" /\ UNCHANGED log
    BY <1>8 DEF SendOk, SendFails, Accept
  <2>2. enqueued = ((log \o batch) \o overflow) \o queue
    BY <1>0, <2>1, ConcatAssociative DEF OrderInv, InLine
  <2>3. InLine'
    BY <1>1, <2>1, <2>2 DEF OrderInv, InLine
  <2>4. enqueued = (log \o batch) \o (overflow \o queue) /\ overflow \o queue \in Seq(Calls)
    <3>1. overflow \o queue \in Seq(Calls)
      BY <1>0, ConcatProperties
    <3>2. ((log \o batch) \o overflow) \o queue = (log \o batch) \o (overflow \o queue)
      BY <1>0, ConcatAssociative
    <3>3. QED
      BY <2>2, <3>1, <3>2
  <2>5. CASE log' = log \o batch
    <3>1. enqueued' = log' \o (overflow \o queue) /\ log' \in Seq(Calls)
      BY <1>0, <1>1, <2>4, <2>5
    <3>2. SentInOrder'
      BY <2>4, <3>1, ConcatProperties, LenProperties DEF SentInOrder
    <3>3. QED
      BY <2>3, <3>2 DEF OrderInv
  <2>6. QED
    BY <1>2, <2>1, <2>3, <2>5 DEF OrderInv
<1>9. CASE Merge
  <2>1. bg = "merge" /\ bg' = "signal" /\ UNCHANGED <<log, overflow, queue>>
    BY <1>9 DEF Merge
  <2>2. InLine'
    BY <1>1, <2>1 DEF OrderInv, InLine
  <2>3. QED
    BY <1>2, <2>1, <2>2 DEF OrderInv
<1>10. CASE Signal
  <2>1. /\ bg = "signal" /\ batch # <<>> /\ batch' = Tail(batch)
        /\ bg' = IF Len(batch) = 1 THEN "top" ELSE "signal"
        /\ UNCHANGED <<log, overflow, queue>>
    BY <1>10 DEF Signal, TypeOK, HoldsBatch
  <2>2. Len(batch) = 1 => Tail(batch) = <<>>
    BY <1>0, <2>1, HeadTailProperties, EmptySeq
  <2>3. <<>> \o overflow = overflow
    BY <1>0, ConcatEmptySeq
  <2>4. InLine'
    BY <1>1, <2>1, <2>2, <2>3 DEF OrderInv, InLine
  <2>5. QED
    BY <1>2, <2>1, <2>4 DEF OrderInv
<1>11. CASE MergeFails \/ WakeBatch \/ WakeOverflow \/ WakeQueue \/ SetFailed
  <2>1. /\ bg' \in {"wakeBatch", "wakeOverflow", "wakeQueue", "setFailed", "exited"}
        /\ UNCHANGED log
        /\ overflow' = overflow \/ (overflow # <<>> /\ overflow' = Tail(overflow))
    BY <1>11 DEF MergeFails, WakeBatch, WakeOverflow, WakeQueue, SetFailed
  <2>2. overflow' # <<>> => Tail(overflow') = <<>>
    BY <2>1 DEF OrderInv, InLine
  <2>3. InLine'
    BY <2>1, <2>2 DEF InLine
  <2>4. QED
    BY <1>2, <2>1, <2>3 DEF OrderInv
<1>12. QED
  BY <1>3, <1>4, <1>5, <1>6, <1>7, <1>8, <1>9, <1>10, <1>11 DEF Background

\* When no update exceeds the batch size, the service receives the calls of all threads in
\* the order they were queued, with none skipped, whatever fails and whenever it stops.
THEOREM SentInQueueOrder ==
  ASSUME NoOversize
  PROVE  Spec => []SentInOrder
<1>1. Init => OrderInv
  <2>1. ASSUME Init PROVE OrderInv
    <3>1. /\ enqueued = <<>> /\ log = <<>> /\ batch = <<>> /\ overflow = <<>> /\ queue = <<>>
          /\ bg = "top"
      BY <2>1 DEF Init
    <3>2. <<>> \in Seq(Calls) /\ <<>> \o <<>> = <<>> /\ Len(<<>>) = 0
      BY EmptySeq, ConcatEmptySeq
    <3>3. InLine
      BY <3>1, <3>2 DEF InLine
    <3>4. SentInOrder
      BY <3>1, <3>2 DEF SentInOrder
    <3>5. QED
      BY <3>3, <3>4 DEF OrderInv
  <2>2. QED
    BY <2>1
<1>2. ASSUME TypeOK, InsideACall, OrderInv, [Next]_vars
      PROVE  OrderInv'
  <2>1. CASE \E t \in Threads : Caller(t)
    BY <1>2, <2>1, CallerKeepsOrder
  <2>2. CASE Background
    BY <1>2, <2>2, BackgroundKeepsOrder
  <2>3. CASE StopCheckpointing \/ UNCHANGED vars
    <3>1. UNCHANGED <<enqueued, queue, log, bg, batch, overflow, size, count>>
      BY <2>3 DEF StopCheckpointing, vars, callerVars, serviceVars, batchVars
    <3>2. QED
      BY <1>2, <3>1 DEF OrderInv, InLine, SentInOrder
  <2>4. QED
    BY <1>2, <2>1, <2>2, <2>3 DEF Next
<1>3. OrderInv => SentInOrder
  BY DEF OrderInv
<1>4. QED
  BY <1>1, <1>2, <1>3, TypeCorrect, PTL DEF Spec


-----------------------------------------------------------------------------
(* A call is queued once, and told once *)

Distinct(s) == \A i, j \in 1 .. Len(s) : s[i] = s[j] => i = j

\* The thread of call c has gone on behind it, or stands in it at one of the places pcs.
Beyond(c, pcs) == at[c[1]] > c[2] \/ (at[c[1]] = c[2] /\ pc[c[1]] \in pcs)

\* What the pipeline has taken and has not dealt with.
Waiting == RangeOf(batch) \cup RangeOf(overflow) \cup RangeOf(queue)

Apart ==
  /\ RangeOf(batch) \cap RangeOf(overflow) = {}
  /\ RangeOf(batch) \cap RangeOf(queue) = {}
  /\ RangeOf(overflow) \cap RangeOf(queue) = {}

\* A call is queued once and is then in one place at a time, until its caller is told.
OnceInv ==
  /\ Distinct(enqueued)
  /\ \A c \in RangeOf(enqueued) : Beyond(c, {"blocked", "raised"})
  /\ Distinct(batch) /\ Distinct(overflow) /\ Distinct(queue) /\ Apart
  /\ Waiting \subseteq RangeOf(enqueued)
  /\ \A c \in Waiting : event[c] = "unset"
  /\ \A c \in Calls : event[c] # "unset" => c \in RangeOf(enqueued)
  /\ failed => bg = "exited"

LEMMA HeadLeaves ==
  ASSUME NEW S, NEW s \in Seq(S), s # <<>>, Distinct(s)
  PROVE  /\ Distinct(Tail(s))
         /\ RangeOf(s) = RangeOf(Tail(s)) \cup {Head(s)}
         /\ Head(s) \notin RangeOf(Tail(s))
<1>1. /\ Len(Tail(s)) = Len(s) - 1 /\ Len(s) \in Nat /\ Len(Tail(s)) \in Nat
      /\ \A i \in 1 .. Len(Tail(s)) : Tail(s)[i] = s[i + 1]
      /\ Head(s) = s[1] /\ 1 \in 1 .. Len(s)
  BY HeadTailProperties, LenProperties, EmptySeq
<1>2. Distinct(Tail(s))
  BY <1>1 DEF Distinct
<1>3. Head(s) \notin RangeOf(Tail(s))
  BY <1>1 DEF Distinct, RangeOf
<1>4. RangeOf(s) \subseteq RangeOf(Tail(s)) \cup {Head(s)}
  <2>1. ASSUME NEW i \in 1 .. Len(s), i # 1
        PROVE  s[i] \in RangeOf(Tail(s))
    <3>1. i - 1 \in 1 .. Len(Tail(s)) /\ Tail(s)[i - 1] = s[i]
      BY <1>1, <2>1
    <3>2. QED
      BY <3>1 DEF RangeOf
  <2>2. QED
    BY <1>1, <2>1 DEF RangeOf
<1>5. RangeOf(Tail(s)) \cup {Head(s)} \subseteq RangeOf(s)
  BY <1>1 DEF RangeOf
<1>6. QED
  BY <1>2, <1>3, <1>4, <1>5

LEMMA AppendNew ==
  ASSUME NEW S, NEW s \in Seq(S), NEW x \in S, x \notin RangeOf(s), Distinct(s)
  PROVE  Distinct(Append(s, x)) /\ RangeOf(Append(s, x)) = RangeOf(s) \cup {x}
<1>1. /\ Len(Append(s, x)) = Len(s) + 1 /\ Len(s) \in Nat
      /\ \A i \in 1 .. Len(s) : Append(s, x)[i] = s[i] /\ s[i] # x
      /\ Append(s, x)[Len(s) + 1] = x
  BY AppendProperties, LenProperties DEF RangeOf
<1>2. RangeOf(Append(s, x)) = RangeOf(s) \cup {x}
  BY Members
<1>3. ASSUME NEW i \in 1 .. Len(s) + 1, NEW j \in 1 .. Len(s) + 1,
             Append(s, x)[i] = Append(s, x)[j]
      PROVE  i = j
  <2>1. CASE i \in 1 .. Len(s) /\ j \in 1 .. Len(s)
    BY <1>1, <1>3, <2>1 DEF Distinct
  <2>2. CASE i \notin 1 .. Len(s) \/ j \notin 1 .. Len(s)
    <3>1. i = Len(s) + 1 \/ j = Len(s) + 1
      BY <1>1, <2>2
    <3>2. QED
      BY <1>1, <1>3, <3>1
  <2>3. QED
    BY <2>1, <2>2
<1>4. QED
  BY <1>1, <1>2, <1>3 DEF Distinct

LEMMA EmptyIsDistinct == Distinct(<<>>) /\ RangeOf(<<>>) = {}
  BY EmptySeq DEF Distinct, RangeOf

\* Once a thread is beyond a call it stays so.
LEMMA BeyondStays ==
  ASSUME TypeOK, InsideACall, NEW t \in Threads, Caller(t), NEW c \in Calls,
         Beyond(c, {"blocked", "raised"})
  PROVE  Beyond(c, {"blocked", "raised"})'
<1>1. c[1] \in Threads /\ c[2] \in Nat
  BY CallFacts
<1>2. pc \in [Threads -> {"idle", "admitted", "enqueue", "blocked", "raised", "orphaned"}]
      /\ at \in [Threads -> Nat \ {0}]
  BY DEF TypeOK
<1>3. CASE c[1] # t
  <2>1. at'[c[1]] = at[c[1]] /\ pc'[c[1]] = pc[c[1]]
    BY <1>1, <1>2, <1>3 DEF Caller, Admit, RejectOrphan, Register, TestFailed, Enqueue, Wake
  <2>2. QED
    BY <2>1 DEF Beyond
<1>4. CASE c[1] = t
  <2>1. at'[t] \in {at[t], at[t] + 1}
    BY <1>1, <1>2 DEF Caller, Admit, RejectOrphan, Register, TestFailed, Enqueue, Wake
  <2>2. at[t] = c[2] /\ pc[t] \in {"blocked", "raised"} =>
          at'[t] > c[2] \/ (at'[t] = c[2] /\ pc'[t] \in {"blocked", "raised"})
    BY <1>1, <1>2 DEF Caller, AtCall, Admit, RejectOrphan, TestFailed, Enqueue, Wake
  <2>3. at[t] \in Nat
    BY <1>1, <1>2
  <2>4. QED
    BY <1>1, <1>4, <2>1, <2>2, <2>3 DEF Beyond
<1>5. QED
  BY <1>3, <1>4

LEMMA CallerKeepsOnce ==
  ASSUME TypeOK, InsideACall, OnceInv, NEW t \in Threads, Caller(t)
  PROVE  OnceInv'
<1> USE DEF callerVars, parentVars, batchVars, serviceVars
<1>0. /\ enqueued \in Seq(Calls) /\ queue \in Seq(Calls)
      /\ RangeOf(enqueued) \subseteq Calls
  BY ElementOfSeq DEF TypeOK, RangeOf
<1>1. UNCHANGED <<event, bg, batch, overflow, failed>>
  BY DEF Caller, Admit, RejectOrphan, Register, TestFailed, Enqueue, Wake
<1>2. \A c \in RangeOf(enqueued) : Beyond(c, {"blocked", "raised"})'
  BY <1>0, BeyondStays DEF OnceInv
<1>3. CASE UNCHANGED <<enqueued, queue>>
  BY <1>1, <1>2, <1>3 DEF OnceInv, Waiting, Apart
<1>4. CASE Enqueue(t)
  <2>0. PICK c \in Calls : c = Current(t)
    BY <1>4, CurrentIsCall DEF Enqueue
  <2>1. c \in Calls /\ enqueued' = Append(enqueued, c) /\ queue' = Append(queue, c)
    BY <1>4, <2>0 DEF Enqueue
  <2>2. c \notin RangeOf(enqueued)
    <3>1. at[t] \in Nat /\ pc[t] = "enqueue" /\ c[1] = t /\ c[2] = at[t]
      BY <1>4, <2>0 DEF Enqueue, TypeOK, Current
    <3>2. ~Beyond(c, {"blocked", "raised"})
      BY <3>1 DEF Beyond
    <3>3. QED
      BY <3>2 DEF OnceInv
  <2>3. c \notin Waiting /\ event[c] = "unset"
    BY <2>1, <2>2 DEF OnceInv
  <2>4. Distinct(enqueued') /\ RangeOf(enqueued') = RangeOf(enqueued) \cup {c}
    BY <1>0, <2>1, <2>2, AppendNew DEF OnceInv
  <2>5. Distinct(queue') /\ RangeOf(queue') = RangeOf(queue) \cup {c}
    BY <1>0, <2>1, <2>3, AppendNew DEF OnceInv, Waiting
  <2>6. Beyond(c, {"blocked", "raised"})'
    <3>1. /\ c = <<t, at[t]>> /\ at[t] \in Nat
          /\ pc \in [Threads -> {"idle", "admitted", "enqueue", "blocked", "raised", "orphaned"}]
          /\ at \in [Threads -> Nat \ {0}]
      BY <2>0 DEF TypeOK, Current
    <3>2. \/ pc' = [pc EXCEPT ![t] = "blocked"] /\ at' = at
          \/ at' = [at EXCEPT ![t] = @ + 1]
      BY <1>4 DEF Enqueue
    <3>3. \/ pc'[t] = "blocked" /\ at'[t] = at[t]
          \/ at'[t] = at[t] + 1
      BY <3>1, <3>2
    <3>4. c[1] = t /\ c[2] = at[t]
      BY <3>1
    <3>5. QED
      BY <3>1, <3>3, <3>4 DEF Beyond
  <2>7. Apart'
    BY <1>1, <2>3, <2>5 DEF OnceInv, Apart, Waiting
  <2>8. Waiting' = Waiting \cup {c}
    BY <1>1, <2>5 DEF Waiting
  <2>9. Distinct(batch') /\ Distinct(overflow') /\ (failed' => bg' = "exited")
    BY <1>1 DEF OnceInv
  <2>10. \A d \in RangeOf(enqueued') : Beyond(d, {"blocked", "raised"})'
    BY <1>2, <2>4, <2>6
  <2>11. /\ Waiting' \subseteq RangeOf(enqueued')
         /\ \A d \in Waiting' : event'[d] = "unset"
         /\ \A d \in Calls : event'[d] # "unset" => d \in RangeOf(enqueued')
    BY <1>1, <2>3, <2>4, <2>8 DEF OnceInv
  <2>12. QED
    BY <2>4, <2>5, <2>7, <2>9, <2>10, <2>11 DEF OnceInv
<1>5. QED
  BY <1>3, <1>4 DEF Caller, Admit, RejectOrphan, Register, TestFailed, Wake

\* A step that takes the head of one of three places and appends it to another, or drops it,
\* leaves the places apart.
LEMMA BackgroundKeepsOnce ==
  ASSUME TypeOK, InsideACall, OnceInv, Background
  PROVE  OnceInv'
<1> USE DEF callerVars, parentVars, batchVars, serviceVars, Goto
<1>0. /\ batch \in Seq(Calls) /\ overflow \in Seq(Calls) /\ queue \in Seq(Calls)
      /\ Distinct(batch) /\ Distinct(overflow) /\ Distinct(queue) /\ Apart
  BY DEF TypeOK, OnceInv
<1>1. /\ UNCHANGED <<enqueued, at, pc>>
      /\ failed' => bg' = "exited"
  BY DEF Background, LoopTop, TakeOverflow, OverflowDrained, PollStop, TakeFirst,
         GetTimeout, WindowOpen, WindowClosed, TakeAdditional, SendOk, SendFails, Merge,
         MergeFails, Signal, WakeBatch, WakeOverflow, WakeQueue, SetFailed, OnceInv
<1>2. ASSUME UNCHANGED event, Waiting' \subseteq Waiting,
             Distinct(batch'), Distinct(overflow'), Distinct(queue'), Apart'
      PROVE  OnceInv'
  BY <1>1, <1>2 DEF OnceInv, Beyond
<1>3. CASE LoopTop
  <2>1. batch' = <<>> /\ UNCHANGED <<event, overflow, queue>>
    BY <1>3 DEF LoopTop
  <2>2. Distinct(batch') /\ RangeOf(batch') = {}
    BY <2>1, EmptyIsDistinct
  <2>3. Apart' /\ Waiting' \subseteq Waiting
    BY <1>0, <2>1, <2>2 DEF Apart, Waiting
  <2>4. QED
    BY <1>0, <1>2, <2>1, <2>2, <2>3
<1>4. CASE UNCHANGED <<event, batch, overflow, queue>>
  BY <1>0, <1>2, <1>4 DEF Apart, Waiting
<1>5. CASE TakeOverflow
  <2>1. overflow # <<>> /\ UNCHANGED <<event, queue>>
    BY <1>5 DEF TakeOverflow
  <2> DEFINE x == Head(overflow)
  <2>2. /\ x \in Calls /\ Tail(overflow) \in Seq(Calls) /\ Distinct(Tail(overflow))
        /\ RangeOf(overflow) = RangeOf(Tail(overflow)) \cup {x} /\ x \notin RangeOf(Tail(overflow))
    BY <1>0, <2>1, HeadLeaves, HeadTailProperties
  <2>3. CASE batch' = Append(batch, x) /\ overflow' = Tail(overflow)
    <3>1. x \notin RangeOf(batch)
      BY <1>0, <2>2 DEF Apart
    <3>2. Distinct(batch') /\ RangeOf(batch') = RangeOf(batch) \cup {x}
      BY <1>0, <2>2, <2>3, <3>1, AppendNew
    <3>3. Apart' /\ Waiting' \subseteq Waiting
      BY <1>0, <2>1, <2>2, <2>3, <3>2 DEF Apart, Waiting
    <3>4. QED
      BY <1>0, <1>2, <2>1, <2>2, <2>3, <3>2, <3>3
  <2>4. CASE batch' = batch /\ overflow' = Append(Tail(overflow), x)
    <3>1. Distinct(overflow') /\ RangeOf(overflow') = RangeOf(overflow)
      <4>1. PICK rest \in Seq(Calls) : rest = Tail(overflow)
        BY <2>2
      <4>2. Distinct(rest) /\ x \notin RangeOf(rest)
        BY <2>2, <4>1
      <4>3. Distinct(Append(rest, x)) /\ RangeOf(Append(rest, x)) = RangeOf(rest) \cup {x}
        BY <2>2, <4>2, AppendNew
      <4>4. QED
        BY <2>2, <2>4, <4>1, <4>3
    <3>2. Apart' /\ Waiting' \subseteq Waiting
      BY <1>0, <2>1, <2>4, <3>1 DEF Apart, Waiting
    <3>3. QED
      BY <1>0, <1>2, <2>1, <2>4, <3>1, <3>2
  <2>5. QED
    BY <1>5, <2>3, <2>4 DEF TakeOverflow, AddToBatch
<1>6. CASE TakeFirst \/ TakeAdditional
  <2>1. queue # <<>> /\ queue' = Tail(queue) /\ UNCHANGED event
    BY <1>6 DEF TakeFirst, TakeAdditional
  <2> DEFINE x == Head(queue)
  <2>2. /\ x \in Calls /\ Distinct(queue')
        /\ RangeOf(queue) = RangeOf(queue') \cup {x} /\ x \notin RangeOf(queue')
    BY <1>0, <2>1, HeadLeaves, HeadTailProperties
  <2>3. x \notin RangeOf(batch) /\ x \notin RangeOf(overflow)
    BY <1>0, <2>2 DEF Apart
  <2>4. CASE batch' = Append(batch, x) /\ overflow' = overflow
    <3>1. Distinct(batch') /\ RangeOf(batch') = RangeOf(batch) \cup {x}
      BY <1>0, <2>2, <2>3, <2>4, AppendNew
    <3>2. Apart' /\ Waiting' \subseteq Waiting
      BY <1>0, <2>2, <2>3, <2>4, <3>1 DEF Apart, Waiting
    <3>3. QED
      BY <1>0, <1>2, <2>1, <2>2, <2>4, <3>1, <3>2
  <2>5. CASE batch' = batch /\ overflow' = Append(overflow, x)
    <3>1. Distinct(overflow') /\ RangeOf(overflow') = RangeOf(overflow) \cup {x}
      BY <1>0, <2>2, <2>3, <2>5, AppendNew
    <3>2. Apart' /\ Waiting' \subseteq Waiting
      BY <1>0, <2>2, <2>3, <2>5, <3>1 DEF Apart, Waiting
    <3>3. QED
      BY <1>0, <1>2, <2>1, <2>2, <2>5, <3>1, <3>2
  <2>6. QED
    BY <1>6, <2>4, <2>5 DEF TakeFirst, TakeAdditional, AddToBatch
\* A call that is told leaves its place.
<1>7. ASSUME NEW x \in Waiting, NEW r, SetEvent(x, r), Waiting' \subseteq Waiting \ {x},
             Distinct(batch'), Distinct(overflow'), Distinct(queue'), Apart'
      PROVE  OnceInv'
  <2>1. x \in RangeOf(enqueued)
    BY <1>7 DEF OnceInv
  <2>2. \A c \in Calls : c # x => event'[c] = event[c]
    BY <1>7 DEF SetEvent, TypeOK
  <2>3. Waiting \subseteq Calls
    BY <1>0, ElementOfSeq DEF Waiting, RangeOf
  <2>4. /\ Waiting' \subseteq RangeOf(enqueued')
        /\ \A c \in Waiting' : event'[c] = "unset"
        /\ \A c \in Calls : event'[c] # "unset" => c \in RangeOf(enqueued')
    BY <1>1, <1>7, <2>1, <2>2, <2>3 DEF OnceInv
  <2>5. QED
    BY <1>1, <1>7, <2>4 DEF OnceInv, Beyond
<1>8. CASE Signal \/ WakeBatch
  <2>1. /\ batch # <<>> /\ batch' = Tail(batch) /\ UNCHANGED <<overflow, queue>>
        /\ \E r \in {"ok", "error"} : SetEvent(Head(batch), r)
    BY <1>8 DEF Signal, WakeBatch, TypeOK, HoldsBatch
  <2>2. /\ Distinct(batch') /\ RangeOf(batch) = RangeOf(batch') \cup {Head(batch)}
        /\ Head(batch) \notin RangeOf(batch')
    BY <1>0, <2>1, HeadLeaves
  <2>3. Head(batch) \in Waiting /\ Waiting' \subseteq Waiting \ {Head(batch)} /\ Apart'
    BY <1>0, <2>1, <2>2 DEF Waiting, Apart
  <2>4. QED
    BY <1>0, <1>7, <2>1, <2>2, <2>3
<1>9. CASE WakeOverflow /\ overflow # <<>>
  <2>1. /\ overflow' = Tail(overflow) /\ UNCHANGED <<batch, queue>>
        /\ SetEvent(Head(overflow), "error")
    BY <1>9 DEF WakeOverflow
  <2>2. /\ Distinct(overflow') /\ RangeOf(overflow) = RangeOf(overflow') \cup {Head(overflow)}
        /\ Head(overflow) \notin RangeOf(overflow')
    BY <1>0, <1>9, <2>1, HeadLeaves
  <2>3. Head(overflow) \in Waiting /\ Waiting' \subseteq Waiting \ {Head(overflow)} /\ Apart'
    BY <1>0, <2>1, <2>2 DEF Waiting, Apart
  <2>4. QED
    BY <1>0, <1>7, <2>1, <2>2, <2>3
<1>10. CASE WakeQueue /\ queue # <<>>
  <2>1. queue' = Tail(queue) /\ UNCHANGED <<batch, overflow>> /\ SetEvent(Head(queue), "error")
    BY <1>10 DEF WakeQueue
  <2>2. /\ Distinct(queue') /\ RangeOf(queue) = RangeOf(queue') \cup {Head(queue)}
        /\ Head(queue) \notin RangeOf(queue')
    BY <1>0, <1>10, <2>1, HeadLeaves
  <2>3. Head(queue) \in Waiting /\ Waiting' \subseteq Waiting \ {Head(queue)} /\ Apart'
    BY <1>0, <2>1, <2>2 DEF Waiting, Apart
  <2>4. QED
    BY <1>0, <1>7, <2>1, <2>2, <2>3
<1>11. QED
  BY <1>3, <1>4, <1>5, <1>6, <1>8, <1>9, <1>10
     DEF Background, OverflowDrained, PollStop, GetTimeout, WindowOpen, WindowClosed,
         SendOk, SendFails, Merge, MergeFails, WakeOverflow, WakeQueue, SetFailed

-----------------------------------------------------------------------------
(* The pipeline implements the durable log *)

\* The abstract variables of the instance DurableLog.
Acked == {c \in Calls : event[c] = "ok"}
Refused == {c \in Calls : event[c] = "error"}
Broken == failed \/ bg \in {"wakeBatch", "wakeOverflow", "wakeQueue", "setFailed"}

\* What the service holds is a beginning of what was queued.
LEMMA Beginning ==
  ASSUME NEW S, NEW s \in Seq(S), NEW q \in Seq(S), Len(s) <= Len(q),
         \A i \in 1 .. Len(s) : s[i] = q[i]
  PROVE  s = SubSeq(q, 1, Len(s))
<1>1. Len(s) \in Nat /\ Len(q) \in Nat /\ \A i \in 1 .. Len(s) : q[i] \in S
  BY LenProperties, ElementOfSeq
<1>2. /\ SubSeq(q, 1, Len(s)) \in Seq(S)
      /\ Len(SubSeq(q, 1, Len(s))) = Len(s)
      /\ \A i \in 1 .. Len(s) : SubSeq(q, 1, Len(s))[i] = q[i]
  BY <1>1, SubSeqProperties
<1>3. QED
  BY <1>1, <1>2, SeqEqual

LEMMA LogStarts == Init => DurableLog!LogInit
<1>1. ASSUME Init PROVE DurableLog!LogInit
  <2>1. /\ enqueued = <<>> /\ log = <<>> /\ failed = FALSE /\ bg = "top"
        /\ \A c \in Calls : event[c] = "unset"
    BY <1>1 DEF Init
  <2>2. Acked = {} /\ Refused = {} /\ Broken = FALSE
    BY <2>1 DEF Acked, Refused, Broken
  <2>3. QED
    BY <2>1, <2>2 DEF DurableLog!LogInit, Acked, Refused, Broken
<1>2. QED
  BY <1>1

\* One event is set: the abstract log acknowledges or refuses the call, if its caller waits.
LEMMA EventSet ==
  ASSUME TypeOK, NEW c \in Calls, event[c] = "unset", NEW r \in {"ok", "error"}, SetEvent(c, r)
  PROVE  \/ UNCHANGED <<Acked, Refused>>
         \/ r = "ok" /\ Acked' = Acked \cup {c} /\ Refused' = Refused
         \/ r = "error" /\ Acked' = Acked /\ Refused' = Refused \cup {c}
<1>1. event' = event \/ event' = [event EXCEPT ![c] = r]
  BY DEF SetEvent
<1>2. event \in [Calls -> {"unset", "ok", "error"}]
  BY DEF TypeOK
<1>3. CASE event' = event
  BY <1>3 DEF Acked, Refused
<1>4. CASE event' = [event EXCEPT ![c] = r]
  <2>1. \A d \in Calls : event'[d] = IF d = c THEN r ELSE event[d]
    BY <1>2, <1>4
  <2>2. r = "ok" => Acked' = Acked \cup {c} /\ Refused' = Refused
    BY <2>1 DEF Acked, Refused
  <2>3. r = "error" => Acked' = Acked /\ Refused' = Refused \cup {c}
    BY <2>1 DEF Acked, Refused
  <2>4. QED
    BY <2>2, <2>3
<1>5. QED
  BY <1>1, <1>3, <1>4

LEMMA CallerRefines ==
  ASSUME TypeOK, InsideACall, OnceInv, NEW t \in Threads, Caller(t)
  PROVE  \/ \E c \in Calls : DurableLog!Submit(c)
         \/ UNCHANGED DurableLog!logVars
<1> USE DEF callerVars, parentVars, batchVars, serviceVars
<1>1. UNCHANGED <<event, bg, log, failed>>
  BY DEF Caller, Admit, RejectOrphan, Register, TestFailed, Enqueue, Wake
<1>2. UNCHANGED <<Acked, Refused, Broken>>
  BY <1>1 DEF Acked, Refused, Broken
<1>3. CASE Enqueue(t)
  <2>1. PICK c \in Calls : c = Current(t)
    BY <1>3, CurrentIsCall DEF Enqueue
  <2>2. enqueued' = Append(enqueued, c)
    BY <1>3, <2>1 DEF Enqueue
  <2>3. ~Beyond(c, {"blocked", "raised"})
    BY <1>3, <2>1 DEF Enqueue, TypeOK, Current, Beyond
  <2>4. c \notin RangeOf(enqueued)
    BY <2>3 DEF OnceInv
  <2>5. DurableLog!Submit(c)
    BY <1>1, <1>2, <2>2, <2>4
       DEF DurableLog!Submit, DurableLog!Members, RangeOf, Acked, Refused, Broken
  <2>6. QED
    BY <2>5
<1>4. CASE UNCHANGED enqueued
  BY <1>1, <1>2, <1>4 DEF DurableLog!logVars, Acked, Refused, Broken
<1>5. QED
  BY <1>3, <1>4 DEF Caller, Admit, RejectOrphan, Register, TestFailed, Wake

LEMMA BackgroundRefines ==
  ASSUME TypeOK, InsideACall, AckInv, OnceInv, SentInOrder, TypeOK', SentInOrder', Background
  PROVE  \/ DurableLog!Persist \/ DurableLog!Break
         \/ \E c \in Calls : DurableLog!Acknowledge(c) \/ DurableLog!Refuse(c)
         \/ UNCHANGED DurableLog!logVars
<1> USE DEF callerVars, parentVars, batchVars, serviceVars, Goto
<1>0. /\ enqueued \in Seq(Calls) /\ log \in Seq(Calls) /\ batch \in Seq(Calls)
      /\ log' \in Seq(Calls) /\ log \o batch \in Seq(Calls)
      /\ Len(log \o batch) = Len(log) + Len(batch)
      /\ Len(log) \in Nat /\ Len(batch) \in Nat /\ Len(enqueued) \in Nat
      /\ bg \in HoldsBatch => batch # <<>> /\ Len(batch) > 0
  BY ConcatProperties, LenProperties, EmptySeq DEF TypeOK
<1>1. UNCHANGED enqueued
  BY DEF Background, LoopTop, TakeOverflow, OverflowDrained, PollStop, TakeFirst,
         GetTimeout, WindowOpen, WindowClosed, TakeAdditional, SendOk, SendFails, Merge,
         MergeFails, Signal, WakeBatch, WakeOverflow, WakeQueue, SetFailed
<1>2. log' = SubSeq(enqueued, 1, Len(log')) /\ Len(log') <= Len(enqueued)
  BY <1>0, <1>1, Beginning DEF SentInOrder
<1>3. failed => bg = "exited"
  BY DEF OnceInv
<1>4. UNCHANGED event => UNCHANGED <<Acked, Refused>>
  BY DEF Acked, Refused
<1>5. CASE SendOk
  <2>1. /\ bg = "send" /\ bg' = "merge" /\ log' = log \o batch /\ UNCHANGED <<event, failed>>
    BY <1>5 DEF SendOk, Accept
  <2>2. ~Broken /\ ~Broken'
    BY <1>3, <2>1 DEF Broken
  <2>3. Len(log') \in Len(log) + 1 .. Len(enqueued)
    BY <1>0, <1>2, <2>1 DEF HoldsBatch
  <2>4. DurableLog!Persist
    BY <1>1, <1>2, <1>4, <2>1, <2>2, <2>3 DEF DurableLog!Persist, Acked, Refused, Broken
  <2>5. QED
    BY <2>4
<1>6. CASE SendFails \/ MergeFails
  <2>1. /\ bg \in {"send", "merge"} /\ bg' = "wakeBatch" /\ log' \in {log, log \o batch}
        /\ UNCHANGED <<event, failed>>
    BY <1>6 DEF SendFails, MergeFails, Accept
  <2>2. ~Broken /\ Broken'
    BY <1>3, <2>1 DEF Broken
  <2>3. Len(log') \in Len(log) .. Len(enqueued)
    <3>1. Len(log') = Len(log) \/ Len(log') = Len(log) + Len(batch)
      BY <1>0, <2>1
    <3>2. Len(log) \in Nat /\ Len(batch) \in Nat /\ Len(enqueued) \in Nat
      BY <1>0
    <3>3. Len(log') <= Len(enqueued)
      BY <1>2
    <3>4. QED
      BY <3>1, <3>2, <3>3
  <2>4. DurableLog!Break
    BY <1>1, <1>2, <1>4, <2>1, <2>2, <2>3 DEF DurableLog!Break, Acked, Refused, Broken
  <2>5. QED
    BY <2>4
<1>7. CASE Signal
  <2>1. PICK c \in Calls : c = Head(batch)
    BY <1>0, <1>7, HeadTailProperties DEF Signal, HoldsBatch
  <2>2. /\ bg = "signal" /\ bg' \in {"top", "signal"} /\ SetEvent(c, "ok")
        /\ UNCHANGED <<log, failed>>
    BY <1>7, <2>1 DEF Signal
  <2>3. c \in RangeOf(batch)
    BY <1>0, <2>1, <2>2, Members DEF HoldsBatch
  <2>4. event[c] = "unset" /\ c \in RangeOf(log)
    BY <2>2, <2>3 DEF OnceInv, Waiting, AckInv, SignalledAreDurable
  <2>5. UNCHANGED Broken
    BY <2>2 DEF Broken
  <2>6. UNCHANGED <<Acked, Refused>> \/ (Acked' = Acked \cup {c} /\ Refused' = Refused)
    BY <2>2, <2>4, EventSet
  <2>7. CASE UNCHANGED <<Acked, Refused>>
    BY <1>1, <2>2, <2>5, <2>7 DEF DurableLog!logVars, Acked, Refused, Broken
  <2>8. CASE Acked' = Acked \cup {c} /\ Refused' = Refused
    <3>1. c \notin Refused
      BY <2>4 DEF Refused
    <3>2. DurableLog!Acknowledge(c)
      BY <1>1, <2>2, <2>4, <2>5, <2>8, <3>1
         DEF DurableLog!Acknowledge, DurableLog!Members, RangeOf, Acked, Refused, Broken
    <3>3. QED
      BY <3>2
  <2>9. QED
    BY <2>6, <2>7, <2>8
\* Whoever is woken by a failure waits in one of the three places.
<1>8. ASSUME NEW c \in Waiting, SetEvent(c, "error"), Broken, Broken', UNCHANGED log
      PROVE  \/ \E d \in Calls : DurableLog!Refuse(d)
             \/ UNCHANGED DurableLog!logVars
  <2>1. /\ c \in RangeOf(enqueued) /\ event[c] = "unset" /\ c \in Calls
    BY <1>0, ElementOfSeq DEF OnceInv, RangeOf
  <2>2. UNCHANGED <<Acked, Refused>> \/ (Acked' = Acked /\ Refused' = Refused \cup {c})
    BY <1>8, <2>1, EventSet
  <2>3. CASE UNCHANGED <<Acked, Refused>>
    BY <1>1, <1>8, <2>3 DEF DurableLog!logVars, Acked, Refused, Broken
  <2>4. CASE Acked' = Acked /\ Refused' = Refused \cup {c}
    <3>1. c \notin Acked
      BY <2>1 DEF Acked
    <3>2. DurableLog!Refuse(c)
      BY <1>1, <1>8, <2>1, <2>4, <3>1
         DEF DurableLog!Refuse, DurableLog!Members, RangeOf, Acked, Refused, Broken
    <3>3. QED
      BY <2>1, <3>2
  <2>5. QED
    BY <2>2, <2>3, <2>4
<1>9. CASE WakeBatch
  <2>1. bg = "wakeBatch" /\ bg' \in {"wakeOverflow", "wakeBatch"} /\ UNCHANGED <<log, failed>>
        /\ SetEvent(Head(batch), "error")
    BY <1>9 DEF WakeBatch
  <2>2. Head(batch) \in Waiting /\ Broken /\ Broken'
    BY <1>0, <2>1, HeadTailProperties, Members DEF HoldsBatch, Waiting, Broken
  <2>3. QED
    BY <1>8, <2>1, <2>2
<1>10. CASE (WakeOverflow /\ overflow # <<>>) \/ (WakeQueue /\ queue # <<>>)
  <2>1. PICK s \in {overflow, queue} : s # <<>> /\ SetEvent(Head(s), "error")
    BY <1>10 DEF WakeOverflow, WakeQueue
  <2>2. Head(s) \in Waiting
    BY <2>1, HeadTailProperties, Members DEF TypeOK, Waiting
  <2>3. Broken /\ Broken' /\ UNCHANGED log
    BY <1>10 DEF WakeOverflow, WakeQueue, Broken
  <2>4. QED
    BY <1>8, <2>1, <2>2, <2>3
<1>11. CASE UNCHANGED <<event, log, Broken>>
  BY <1>1, <1>4, <1>11 DEF DurableLog!logVars, Acked, Refused, Broken
<1>12. CASE LoopTop \/ TakeOverflow \/ OverflowDrained \/ PollStop \/ TakeFirst \/ GetTimeout
              \/ WindowOpen \/ WindowClosed \/ TakeAdditional \/ Merge \/ SetFailed
              \/ (WakeOverflow /\ overflow = <<>>) \/ (WakeQueue /\ queue = <<>>)
  <2>1. UNCHANGED <<event, log>>
    BY <1>12 DEF LoopTop, TakeOverflow, OverflowDrained, PollStop, TakeFirst, GetTimeout,
       WindowOpen, WindowClosed, TakeAdditional, Merge, SetFailed, WakeOverflow, WakeQueue
  <2>2. UNCHANGED Broken
    BY <1>12 DEF LoopTop, TakeOverflow, OverflowDrained, PollStop, TakeFirst, GetTimeout,
       WindowOpen, WindowClosed, TakeAdditional, Merge, SetFailed, WakeOverflow, WakeQueue, Broken
  <2>3. QED
    BY <1>11, <2>1, <2>2
<1>13. QED
  BY <1>5, <1>6, <1>7, <1>9, <1>10, <1>12 DEF Background

LEMMA OnceAlways == Spec => []OnceInv
<1>1. Init => OnceInv
  <2>1. ASSUME Init PROVE OnceInv
    <3>1. /\ enqueued = <<>> /\ batch = <<>> /\ overflow = <<>> /\ queue = <<>> /\ failed = FALSE
          /\ \A c \in Calls : event[c] = "unset"
      BY <2>1 DEF Init
    <3>2. QED
      BY <3>1, EmptyIsDistinct DEF OnceInv, Waiting, Apart
  <2>2. QED
    BY <2>1
<1>2. ASSUME TypeOK, InsideACall, OnceInv, [Next]_vars
      PROVE  OnceInv'
  <2>1. CASE \E t \in Threads : Caller(t)
    BY <1>2, <2>1, CallerKeepsOnce
  <2>2. CASE Background
    BY <1>2, <2>2, BackgroundKeepsOnce
  <2>3. CASE StopCheckpointing \/ UNCHANGED vars
    <3>1. UNCHANGED <<at, pc, event, bg, failed, enqueued, batch, overflow, queue>>
      BY <2>3 DEF StopCheckpointing, vars, callerVars, serviceVars, batchVars
    <3>2. UNCHANGED <<Waiting, Apart>> /\ \A c \in Calls : Beyond(c, {"blocked", "raised"}) =>
                                                        Beyond(c, {"blocked", "raised"})'
      BY <3>1 DEF Waiting, Apart, Beyond
    <3>3. RangeOf(enqueued) \subseteq Calls
      BY <1>2, ElementOfSeq DEF TypeOK, RangeOf
    <3>4. QED
      BY <1>2, <3>1, <3>2, <3>3 DEF OnceInv
  <2>4. QED
    BY <1>2, <2>1, <2>2, <2>3 DEF Next
<1>3. QED
  BY <1>1, <1>2, TypeCorrect, PTL DEF Spec

\* The pipeline is a durable log: batches, limits, the overflow queue, the waking of callers
\* one by one and every failure are steps of CheckpointLog, or none that it tells apart.
THEOREM PipelineIsALog ==
  ASSUME NoOversize
  PROVE  Spec => ImplementsLog
<1>1. Init => DurableLog!LogInit
  BY LogStarts
<1>2. ASSUME TypeOK, TypeOK', InsideACall, AckInv, OnceInv, SentInOrder, SentInOrder', [Next]_vars
      PROVE  [DurableLog!LogNext]_(DurableLog!logVars)
  <2>1. CASE \E t \in Threads : Caller(t)
    BY <1>2, <2>1, CallerRefines DEF DurableLog!LogNext
  <2>2. CASE Background
    BY <1>2, <2>2, BackgroundRefines DEF DurableLog!LogNext
  <2>3. CASE StopCheckpointing \/ UNCHANGED vars
    <3>1. UNCHANGED <<enqueued, log, event, bg, failed>>
      BY <2>3 DEF StopCheckpointing, vars, serviceVars
    <3>2. QED
      BY <3>1 DEF DurableLog!logVars
  <2>4. QED
    BY <1>2, <2>1, <2>2, <2>3 DEF Next
<1>3. QED
  BY <1>1, <1>2, TypeCorrect, AckAlways, OnceAlways, SentInQueueOrder, PTL
     DEF Spec, ImplementsLog, DurableLog!LogSpec

-----------------------------------------------------------------------------
(* What is below a completed context is cut off *)

\* The links of the calls that have passed are known; what was below a context by the links
\* known when it ended is marked, and has not passed since.
CutInv ==
  /\ LinksUpTo(Len(admitted)) \subseteq children
  /\ \A i \in 1 .. Len(admitted) : \A links, c :
       links = LinksUpTo(i) /\ c = admitted[i] /\ Call(c).ends =>
         /\ Descendants(links, Call(c).op) \subseteq parentDone
         /\ \A j \in i + 1 .. Len(admitted) : \A d :
              d = admitted[j] => Call(d).op \notin Descendants(links, Call(c).op)

\* With more links more is below.
LEMMA MoreLinks ==
  ASSUME NEW few, NEW many, few \subseteq many, NEW x
  PROVE  Descendants(few, x) \subseteq Descendants(many, x)
  BY DEF Descendants

\* The links up to a place do not change when calls pass after it.
LEMMA LinksStay ==
  ASSUME NEW s \in Seq(Calls), NEW c \in Calls, NEW i \in 0 .. Len(s)
  PROVE  RangeOf(SubSeq(Append(s, c), 1, i)) = RangeOf(SubSeq(s, 1, i))
<1>1. Len(s) \in Nat /\ Len(Append(s, c)) = Len(s) + 1
      /\ \A k \in 1 .. Len(s) : Append(s, c)[k] = s[k]
  BY LenProperties, AppendProperties
<1>2. /\ Len(SubSeq(s, 1, i)) = i /\ Len(SubSeq(Append(s, c), 1, i)) = i
      /\ \A k \in 1 .. i : SubSeq(s, 1, i)[k] = s[k]
      /\ \A k \in 1 .. i : SubSeq(Append(s, c), 1, i)[k] = Append(s, c)[k]
  BY <1>1
<1>3. \A k \in 1 .. i : SubSeq(Append(s, c), 1, i)[k] = SubSeq(s, 1, i)[k]
  BY <1>1, <1>2
<1>4. QED
  BY <1>2, <1>3 DEF RangeOf

LEMMA AdmitKeepsCut ==
  ASSUME TypeOK, InsideACall, CutInv, NEW t \in Threads, Admit(t)
  PROVE  CutInv'
<1>1. /\ admitted \in Seq(Calls) /\ Len(admitted) \in Nat
      /\ \A i \in 1 .. Len(admitted) : admitted[i] \in Calls
  BY LenProperties, ElementOfSeq DEF TypeOK
<1>2. PICK c \in Calls : c = Current(t)
  BY CurrentIsCall DEF Admit, AtCall
<1>3. /\ admitted' = Append(admitted, c) /\ Call(c).op \notin OrphansAfter(c)
      /\ parentDone' = OrphansAfter(c) /\ children' = LinksAfter(c)
  BY <1>2 DEF Admit, Register
<1>4. PICK n \in Nat : n = Len(admitted)
  BY <1>1
<1>5. /\ Len(admitted') = n + 1 /\ admitted'[n + 1] = c
      /\ \A i \in 1 .. n : admitted'[i] = admitted[i]
  BY <1>1, <1>3, <1>4, AppendProperties
<1>6. parentDone \subseteq parentDone'
  BY <1>3 DEF OrphansAfter
<1>7. \A i \in 0 .. n : LinksUpTo(i)' = LinksUpTo(i)
  BY <1>1, <1>3, <1>4, LinksStay DEF LinksUpTo, HasLink, Link, Call, IsEmpty
<1>8. LinksUpTo(n + 1)' \subseteq children'
  <2>1. admitted' \in Seq(Calls) /\ SubSeq(admitted', 1, n + 1) = admitted'
    BY <1>1, <1>3, <1>5, AppendProperties
  <2>2. RangeOf(admitted') = RangeOf(admitted) \cup {c}
    BY <1>4, <1>5 DEF RangeOf
  <2>3. SubSeq(admitted, 1, n) = admitted
    BY <1>1, <1>4
  <2>4. \A d \in RangeOf(admitted) : HasLink(d) => Link(d) \in children
    BY <1>4, <2>3 DEF CutInv, LinksUpTo
  <2>5. children \subseteq children' /\ (HasLink(c) => Link(c) \in children')
    BY <1>3 DEF LinksAfter, HasLink, Link
  <2>6. \A d \in RangeOf(admitted') : HasLink(d) => Link(d) \in children'
    BY <2>2, <2>4, <2>5
  <2>7. QED
    BY <2>1, <2>6 DEF LinksUpTo, HasLink, Link, Call, IsEmpty
<1>9. ASSUME NEW i \in 1 .. n, NEW b, b = admitted[i], Call(b).ends
      PROVE  /\ Descendants(LinksUpTo(i), Call(b).op) \subseteq parentDone'
             /\ \A j \in i + 1 .. n + 1 :
                  Call(admitted'[j]).op \notin Descendants(LinksUpTo(i), Call(b).op)
  <2>1. Descendants(LinksUpTo(i), Call(b).op) \subseteq parentDone
    BY <1>4, <1>9 DEF CutInv
  <2>2. ASSUME NEW j \in i + 1 .. n + 1
        PROVE  Call(admitted'[j]).op \notin Descendants(LinksUpTo(i), Call(b).op)
    <3>1. CASE j = n + 1
      BY <1>3, <1>5, <1>6, <2>1, <3>1
    <3>2. CASE j # n + 1
      <4>1. j \in i + 1 .. n /\ j \in 1 .. n
        BY <3>2
      <4>2. QED
        BY <1>4, <1>5, <1>9, <4>1 DEF CutInv
    <3>3. QED
      BY <3>1, <3>2
  <2>3. QED
    BY <1>6, <2>1, <2>2
\* A context that ends marks what is below it by all the links known.
<1>10. ASSUME Call(c).ends, NEW links, links = LinksUpTo(n + 1)'
       PROVE  Descendants(links, Call(c).op) \subseteq parentDone'
  <2>1. ~IsEmpty(c)
    BY <1>10, CallFacts, ProgramAssumption DEF IsCallRecord, Call, IsEmpty
  <2>2. QED
    BY <1>3, <1>8, <1>10, <2>1, MoreLinks DEF OrphansAfter
<1>11. ASSUME NEW i \in 1 .. n + 1, NEW links, NEW b,
              links = LinksUpTo(i)', b = admitted'[i], Call(b).ends
       PROVE  /\ Descendants(links, Call(b).op) \subseteq parentDone'
              /\ \A j \in i + 1 .. n + 1 : \A d :
                   d = admitted'[j] => Call(d).op \notin Descendants(links, Call(b).op)
  <2>1. CASE i = n + 1
    <3>1. i + 1 .. n + 1 = {}
      BY <2>1
    <3>2. QED
      BY <1>5, <1>10, <1>11, <2>1, <3>1
  <2>2. CASE i \in 1 .. n
    BY <1>5, <1>7, <1>9, <1>11, <2>2
  <2>3. QED
    BY <2>1, <2>2
<1>12. QED
  BY <1>5, <1>8, <1>11 DEF CutInv, Call

\* Once the completion of a context has gone through the lock, no operation that the links of
\* this invocation put below it is let through again.
THEOREM RegisteredAreCut == Spec => []RegisteredDescendantsAreCut
<1>1. Init => CutInv
  BY EmptySeq DEF Init, CutInv, LinksUpTo, RangeOf
<1>2. ASSUME TypeOK, InsideACall, CutInv, [Next]_vars
      PROVE  CutInv'
  <2>1. CASE \E t \in Threads : Admit(t)
    BY <1>2, <2>1, AdmitKeepsCut
  <2>2. CASE \E t \in Threads : RejectOrphan(t)
    <3>1. /\ UNCHANGED admitted /\ children \subseteq children'
          /\ parentDone \subseteq parentDone'
      BY <2>2 DEF RejectOrphan, Register, LinksAfter, OrphansAfter
    <3>2. \A i : LinksUpTo(i)' = LinksUpTo(i)
      BY <3>1 DEF LinksUpTo, HasLink, Link, Call, IsEmpty
    <3>3. QED
      BY <1>2, <3>1, <3>2 DEF CutInv
  <2>3. CASE UNCHANGED <<children, parentDone, admitted>>
    <3>1. \A i : LinksUpTo(i)' = LinksUpTo(i)
      BY <2>3 DEF LinksUpTo, HasLink, Link, Call, IsEmpty
    <3>2. QED
      BY <1>2, <2>3, <3>1 DEF CutInv
  <2>4. QED
    BY <1>2, <2>1, <2>2, <2>3 DEF Next, Caller, TestFailed, Enqueue, Wake, Background, LoopTop,
       TakeOverflow, OverflowDrained, PollStop, TakeFirst, GetTimeout, WindowOpen, WindowClosed,
       TakeAdditional, SendOk, SendFails, Merge, MergeFails, Signal, WakeBatch, WakeOverflow,
       WakeQueue, SetFailed, StopCheckpointing, vars, callerVars, parentVars
<1>3. TypeOK /\ CutInv => RegisteredDescendantsAreCut
  <2>1. TypeOK => Len(admitted) \in Nat
    BY LenProperties DEF TypeOK
  <2>2. ASSUME Len(admitted) \in Nat, NEW i \in 1 .. Len(admitted), NEW j \in 1 .. Len(admitted),
               i < j
        PROVE  j \in i + 1 .. Len(admitted)
    BY <2>2
  <2>3. QED
    BY <2>1, <2>2 DEF CutInv, RegisteredDescendantsAreCut
<1>4. QED
  BY <1>1, <1>2, <1>3, TypeCorrect, PTL DEF Spec

=============================================================================
