----------------------- MODULE CheckpointServiceProofs -----------------------
(***************************************************************************)
(* The checkpoint service, for any operations with any kinds and parents,  *)
(* any number of invocations and calls, batches and pages of any size, and *)
(* any number of requests that are lost, late or repeated.                 *)
(***************************************************************************)
EXTENDS CheckpointService, WellFoundedInduction, TLAPS

Statuses == {"absent", "STARTED", "PENDING", "READY"} \cup Terminal

Records ==
  [status : [Ops -> Statuses], order : Seq(Ops), touched : [Ops -> Nat], counter : Nat,
   seen : Nat, token : Nat, inv : Nat, closed : BOOLEAN, updated : SUBSET Ops]

\* The counter is behind no operation and the watermark not before the counter; what the
\* record knows of an operation is in its list.
IsSound(rec) ==
  /\ rec \in Records
  /\ rec.seen <= rec.counter /\ \A o \in Ops : rec.touched[o] <= rec.counter
  /\ \A o \in Ops : rec.status[o] # "absent" \/ rec.touched[o] > 0 => IsListed(rec, o)

Requests == [inv : Nat, token : Nat, call : Nat, batch : Seq(Updates), copy : Nat]

News == [op : Ops, status : Statuses]

Clients ==
  [phase : {"paging", "idle", "calling", "over"}, view : [Ops -> Statuses], next : Nat,
   token : Nat, request : Requests, news : SUBSET Ops]

\* The variables have their types, and the current invocation is the last one.
ServiceTypes ==
  /\ gate \in {"PRE_INVOKE", "INVOKING"}
  /\ clients \in Seq(Clients) /\ record.inv = Len(clients)
  /\ gate = "INVOKING" => clients # <<>>
  /\ wire \in SUBSET Requests /\ calls \in Nat /\ applied \in Seq(Nat)
  /\ last \in [call : Nat, inv : Nat, token : Nat, out : Nat, delta : SUBSET News]

HasApplied(call) == \E i \in DOMAIN applied : applied[i] = call

\* A request was sent with a token the record had, which it has no more if it was applied.
IsOfThePast(r) ==
  /\ r.inv \in DOMAIN clients /\ r.call \in 1 .. calls /\ r.token <= record.token
  /\ HasApplied(r.call) => r.token < record.token

SpentTokens ==
  /\ \A i \in DOMAIN applied : applied[i] <= calls
  /\ \A r \in wire : IsOfThePast(r)
  /\ \A i \in DOMAIN clients :
       /\ clients[i].token <= record.token
       /\ clients[i].phase = "calling" => IsOfThePast(clients[i].request)
                                          /\ clients[i].request.inv = i
  /\ last.call # 0 => HasApplied(last.call)
  /\ last.out <= record.token

\* Whoever can still write waits for the answer.
IsAwaited(r) ==
  \/ r.token < record.token \/ clients[r.inv].phase = "over"
  \/ clients[r.inv].phase = "calling" /\ clients[r.inv].request.call = r.call

Awaited == \A r \in wire : IsAwaited(r)

ServiceInv ==
  IsSound(record) /\ ServiceTypes /\ SpentTokens /\ Awaited /\ AppliedOnce /\ NothingHidden

-----------------------------------------------------------------------------
\* A batch is applied update by update.

\* A set of numbers has a least one.
LEMMA SomeIsFirst ==
  ASSUME NEW S \in SUBSET Nat, S # {}
  PROVE  \E m \in S : \A n \in S : m <= n
<1> DEFINE R == {ss \in Nat \X Nat : ss[1] < ss[2]}
<1>1. IsWellFoundedOn(R, Nat)
  BY NatLessThanWellFounded DEF OpToRel
<1>2. \A n, m \in Nat : n < m => <<n, m>> \in R
  OBVIOUS
<1> HIDE DEF R
<1>3. PICK m \in S : \A n \in S : <<n, m>> \notin R
  BY <1>1, WFMin
<1>4. \A n \in S : ~(n < m) /\ n \in Nat /\ m \in Nat
  BY <1>2, <1>3
<1> QED
  BY <1>4

\* What holds before the first update, and after one if it holds before it, holds throughout.
LEMMA StageByStage ==
  ASSUME NEW n \in Nat, NEW S \in SUBSET (0 .. n), 0 \in S,
         \A i \in 1 .. n : i - 1 \in S => i \in S
  PROVE  S = 0 .. n
<1> SUFFICES ASSUME (0 .. n) \ S # {} PROVE FALSE
  OBVIOUS
<1>1. PICK T : T = (0 .. n) \ S
  OBVIOUS
<1>2. T \in SUBSET Nat /\ T # {}
  BY <1>1
<1>3. PICK m \in T : \A k \in T : m <= k
  BY <1>2, SomeIsFirst
<1>4. m \in 0 .. n /\ m # 0 /\ m \notin S
  BY <1>1, <1>3
<1>5. m \in 1 .. n /\ m - 1 \in 0 .. n
  BY <1>4
<1>6. m - 1 \in S
  BY <1>1, <1>3, <1>5
<1> QED
  BY <1>4, <1>5, <1>6

\* The record is processed update by update.
LEMMA StagesFollow ==
  ASSUME NEW rec, NEW batch, NEW n \in Nat
  PROVE  /\ Stages(rec, batch, n)[0] = rec
         /\ \A i \in 1 .. n :
              Stages(rec, batch, n)[i] = Process(Stages(rec, batch, n)[i - 1], batch[i])
<1> DEFINE Follows(g, m) ==
      g = [i \in 0 .. m |-> IF i = 0 THEN rec ELSE Process(g[i - 1], batch[i])]
    exist == {m \in 0 .. n : \E g : Follows(g, m)}
<1>1. 0 \in exist
  <2>1. PICK g : g = [i \in 0 .. 0 |-> rec]
    OBVIOUS
  <2>2. Follows(g, 0)
    BY <2>1
  <2> QED
    BY <2>2
<1>2. ASSUME NEW m \in 1 .. n, m - 1 \in exist PROVE m \in exist
  <2>1. PICK g : Follows(g, m - 1)
    BY <1>2
  <2>2. PICK h : h = [i \in 0 .. m |-> IF i = m THEN Process(g[m - 1], batch[m]) ELSE g[i]]
    OBVIOUS
  <2>3. ASSUME NEW i \in 0 .. m
        PROVE  h[i] = IF i = 0 THEN rec ELSE Process(h[i - 1], batch[i])
    <3>1. CASE i = 0
      BY <2>1, <2>2, <3>1
    <3>2. CASE i = m
      <4>1. i - 1 \in 0 .. m /\ i - 1 # m /\ i # 0
        BY <3>2
      <4> QED
        BY <2>2, <3>2, <4>1
    <3>3. CASE i # 0 /\ i # m
      <4>1. i \in 0 .. m - 1 /\ i - 1 \in 0 .. m /\ i - 1 # m
        BY <3>3
      <4>2. g[i] = Process(g[i - 1], batch[i])
        BY <2>1, <3>3, <4>1
      <4>3. h[i] = g[i] /\ h[i - 1] = g[i - 1]
        BY <2>2, <3>3, <4>1
      <4> QED
        BY <3>3, <4>2, <4>3
    <3> QED
      BY <3>1, <3>2, <3>3
  <2>4. h = [i \in 0 .. m |-> h[i]]
    BY <2>2
  <2>5. Follows(h, m)
    BY <2>3, <2>4
  <2> QED
    BY <2>5
<1>3. exist \in SUBSET (0 .. n)
  OBVIOUS
<1>4. n \in exist
  <2> HIDE DEF exist
  <2>1. exist = 0 .. n
    BY <1>1, <1>2, <1>3, StageByStage
  <2> QED
    BY <2>1
<1>5. Follows(Stages(rec, batch, n), n)
  BY <1>4 DEF Stages
<1>6. PICK st : st = Stages(rec, batch, n)
  OBVIOUS
<1>7. \A i \in 0 .. n : st[i] = IF i = 0 THEN rec ELSE Process(st[i - 1], batch[i])
  BY <1>5, <1>6
<1> QED
  BY <1>6, <1>7

\* How many updates are processed, and that they have processors.
LEMMA ProcessedFacts ==
  ASSUME NEW batch \in Seq(Updates)
  PROVE  /\ Processed(batch) \in 0 .. Len(batch)
         /\ \A i \in 1 .. Processed(batch) : batch[i] \in Updates /\ i \notin Unprocessed(batch)
<1>1. Len(batch) \in Nat /\ DOMAIN batch = 1 .. Len(batch)
  OBVIOUS
<1>2. PICK raises : raises = Unprocessed(batch)
  OBVIOUS
<1>3. raises \in SUBSET (1 .. Len(batch))
  BY <1>1, <1>2 DEF Unprocessed
<1>4. CASE raises = {}
  BY <1>1, <1>2, <1>4 DEF Processed
<1>5. CASE raises # {}
  <2>1. PICK first : first = CHOOSE i \in raises : \A j \in raises : i <= j
    OBVIOUS
  <2>2. first \in raises /\ \A j \in raises : first <= j
    <3>1. raises \in SUBSET Nat
      BY <1>3
    <3>2. \E i \in raises : \A j \in raises : i <= j
      BY <1>5, <3>1, SomeIsFirst
    <3> QED
      BY <2>1, <3>2
  <2>3. Processed(batch) = first - 1
    BY <1>2, <1>5, <2>1 DEF Processed
  <2> QED
    BY <1>1, <1>2, <1>3, <2>2, <2>3
<1> QED
  BY <1>4, <1>5

\* What an update leaves of an operation is a status.
LEMMA StatusOfUpdate ==
  ASSUME NEW u \in Updates, u.op # "execution", Kind[u.op] \in DOMAIN Processors
  PROVE  u.op \in Ops /\ Processors[Kind[u.op]][u.act] \in Statuses
<1>1. PICK o \in Ops : u.op = o /\ u.act \in DOMAIN Accepted[Kind[o]]
  <2>1. u \notin [op : {"execution"}, act : {"SUCCEED", "FAIL"}]
    OBVIOUS
  <2>2. PICK o \in Ops : u \in [op : {o}, act : DOMAIN Accepted[Kind[o]]]
    BY <2>1 DEF Updates
  <2> QED
    BY <2>2
<1>2. CASE Kind[o] = "step"
  BY <1>1, <1>2 DEF Accepted, StepTransitions, Processors, StepProcessor, Statuses, Terminal
<1>3. CASE Kind[o] = "context"
  BY <1>1, <1>3 DEF Accepted, ContextTransitions, Processors, ContextProcessor, Statuses, Terminal
<1>4. CASE Kind[o] = "wait"
  BY <1>1, <1>4 DEF Accepted, WaitTransitions, Processors, WaitProcessor, Statuses, Terminal
<1>5. CASE Kind[o] = "callback"
  BY <1>1, <1>5 DEF Accepted, CallbackTransitions, Processors, CallbackProcessor, Statuses
<1>6. Kind[o] \in {"step", "wait", "callback", "context"}
  BY <1>1 DEF Processors
<1> QED
  BY <1>1, <1>2, <1>3, <1>4, <1>5, <1>6

\* The record goes on from one to the other: its list grows at its end, and what changes is
\* touched.
GoesOn(old, new) ==
  /\ new.seen = old.seen /\ new.token = old.token /\ new.inv = old.inv
  /\ new.closed = old.closed
  /\ new.counter >= old.counter
  /\ \A i \in DOMAIN old.order : i \in DOMAIN new.order /\ new.order[i] = old.order[i]
  /\ \A o \in Ops : \/ new.status[o] = old.status[o] /\ new.touched[o] = old.touched[o]
                    \/ new.touched[o] > old.counter

\* What goes on twice goes on.
LEMMA GoesOnAndOn ==
  ASSUME NEW r1, NEW r2, NEW r3, IsSound(r1), IsSound(r2), IsSound(r3),
         GoesOn(r1, r2), GoesOn(r2, r3)
  PROVE  GoesOn(r1, r3)
<1>1. /\ r1.counter \in Nat /\ r2.counter \in Nat /\ r3.counter \in Nat
      /\ \A o \in Ops : r1.touched[o] \in Nat /\ r2.touched[o] \in Nat /\ r3.touched[o] \in Nat
  BY DEF IsSound, Records
<1> QED
  BY <1>1 DEF GoesOn

\* touch_operation on an operation of the list.
LEMMA TouchKeeps ==
  ASSUME NEW rec, IsSound(rec), NEW o \in Ops, NEW status \in Statuses, IsListed(rec, o)
  PROVE  /\ IsSound(Touch(rec, o, status)) /\ GoesOn(rec, Touch(rec, o, status))
         /\ Touch(rec, o, status).updated = rec.updated
         /\ Touch(rec, o, status).order = rec.order
         /\ \A p \in Ops : p # o => Touch(rec, o, status).status[p] = rec.status[p]
<1>1. PICK new : new = Touch(rec, o, status)
  OBVIOUS
<1>2. rec \in Records
  BY DEF IsSound
<1>3. /\ new \in Records
      /\ new.status = [rec.status EXCEPT ![o] = status] /\ new.counter = rec.counter + 1
      /\ new.touched = [rec.touched EXCEPT ![o] = rec.counter + 1]
      /\ new.order = rec.order /\ new.seen = rec.seen /\ new.token = rec.token
      /\ new.inv = rec.inv /\ new.closed = rec.closed /\ new.updated = rec.updated
  <2>1. PICK s, t, n : /\ s = [rec.status EXCEPT ![o] = status] /\ n = rec.counter + 1
                       /\ t = [rec.touched EXCEPT ![o] = n]
    OBVIOUS
  <2>2. s \in [Ops -> Statuses] /\ t \in [Ops -> Nat] /\ n \in Nat
    BY <1>2, <2>1 DEF Records
  <2>3. new = [rec EXCEPT !.status = s, !.counter = n, !.touched = t]
    BY <1>1, <1>2, <2>1 DEF Touch, Records
  <2> QED
    BY <1>2, <2>1, <2>2, <2>3 DEF Records
<1>4. /\ rec.counter \in Nat /\ rec.seen \in Nat
      /\ \A p \in Ops : rec.touched[p] \in Nat
      /\ rec.status \in [Ops -> Statuses] /\ rec.touched \in [Ops -> Nat]
  BY <1>2 DEF Records
<1>5. IsSound(new)
  <2>1. \A p \in Ops : IsListed(rec, p) <=> IsListed(new, p)
    BY <1>3 DEF IsListed
  <2>2. new.seen <= new.counter /\ \A p \in Ops : new.touched[p] <= new.counter
    BY <1>3, <1>4 DEF IsSound
  <2>3. \A p \in Ops : new.status[p] # "absent" \/ new.touched[p] > 0 => IsListed(new, p)
    BY <1>3, <1>4, <2>1 DEF IsSound
  <2> QED
    BY <1>3, <2>2, <2>3 DEF IsSound
<1>6. GoesOn(rec, new)
  <2>1. \A p \in Ops : \/ new.status[p] = rec.status[p] /\ new.touched[p] = rec.touched[p]
                       \/ new.touched[p] > rec.counter
    BY <1>3, <1>4
  <2> QED
    BY <1>3, <1>4, <2>1 DEF GoesOn
<1>7. \A p \in Ops : p # o => new.status[p] = rec.status[p]
  BY <1>3, <1>4
<1> QED
  BY <1>1, <1>3, <1>5, <1>6, <1>7

\* One update: the record stays sound and goes on, and only its operation changes.
LEMMA ProcessKeeps ==
  ASSUME NEW rec, IsSound(rec), NEW u \in Updates,
         u.op = "execution" \/ Kind[u.op] \in DOMAIN Processors
  PROVE  /\ IsSound(Process(rec, u)) /\ GoesOn(rec, Process(rec, u))
         /\ Process(rec, u).updated = rec.updated
         /\ \A o \in Ops : (u.op = o => u.op = "execution")
                             => Process(rec, u).status[o] = rec.status[o]
<1>1. CASE u.op = "execution"
  <2>1. Process(rec, u) = rec
    BY <1>1 DEF Process
  <2>2. rec.counter \in Nat
    BY DEF IsSound, Records
  <2> QED
    BY <2>1, <2>2 DEF GoesOn
<1>2. CASE u.op # "execution"
  <2>1. PICK o, status : o = u.op /\ status = Processors[Kind[u.op]][u.act]
    OBVIOUS
  <2>2. o \in Ops /\ status \in Statuses
    BY <1>2, <2>1, StatusOfUpdate
  <2>3. PICK mid : mid = [rec EXCEPT !.order = IF IsListed(rec, o) THEN @ ELSE Append(@, o)]
    OBVIOUS
  <2>4. Process(rec, u) = Touch(mid, o, status)
    BY <1>2, <2>1, <2>3 DEF Process
  <2>5. rec \in Records /\ rec.order \in Seq(Ops)
    BY DEF IsSound, Records
  <2>6. /\ Append(rec.order, o) \in Seq(Ops) /\ DOMAIN rec.order = 1 .. Len(rec.order)
        /\ DOMAIN Append(rec.order, o) = 1 .. Len(rec.order) + 1 /\ Len(rec.order) \in Nat
        /\ Append(rec.order, o)[Len(rec.order) + 1] = o
        /\ \A i \in 1 .. Len(rec.order) : Append(rec.order, o)[i] = rec.order[i]
    BY <2>2, <2>5
  <2>7. /\ mid.order = IF IsListed(rec, o) THEN rec.order ELSE Append(rec.order, o)
        /\ mid \in Records /\ mid.status = rec.status /\ mid.touched = rec.touched
        /\ mid.counter = rec.counter /\ mid.seen = rec.seen /\ mid.token = rec.token
        /\ mid.inv = rec.inv /\ mid.closed = rec.closed /\ mid.updated = rec.updated
    BY <2>3, <2>5, <2>6 DEF Records
  <2>8. \A i \in DOMAIN rec.order : i \in DOMAIN mid.order /\ mid.order[i] = rec.order[i]
    BY <2>6, <2>7
  <2>9. IsListed(mid, o) /\ \A p \in Ops : IsListed(rec, p) => IsListed(mid, p)
    <3>1. \A p \in Ops : IsListed(rec, p) => IsListed(mid, p)
      BY <2>8 DEF IsListed
    <3>2. CASE ~IsListed(rec, o)
      <4>1. Len(rec.order) + 1 \in DOMAIN mid.order /\ mid.order[Len(rec.order) + 1] = o
        BY <2>6, <2>7, <3>2
      <4> QED
        BY <3>1, <4>1 DEF IsListed
    <3> QED
      BY <2>2, <3>1, <3>2
  <2>10. IsSound(mid)
    BY <2>7, <2>9 DEF IsSound
  <2>11. GoesOn(rec, mid)
    <3>1. rec.counter \in Nat
      BY <2>5 DEF Records
    <3> QED
      BY <2>7, <2>8, <3>1 DEF GoesOn
  <2>12. PICK new : new = Touch(mid, o, status)
    OBVIOUS
  <2>13. /\ IsSound(new) /\ GoesOn(mid, new) /\ new.updated = mid.updated
         /\ \A p \in Ops : p # o => new.status[p] = mid.status[p]
    BY <2>2, <2>9, <2>10, <2>12, TouchKeeps
  <2>14. GoesOn(rec, new)
    BY <2>10, <2>11, <2>13, GoesOnAndOn
  <2> QED
    BY <1>2, <2>1, <2>4, <2>7, <2>12, <2>13, <2>14
<1> QED
  BY <1>1, <1>2

\* apply_updates: the record stays sound and goes on, and what no update is about is kept.
LEMMA UpsertsKeep ==
  ASSUME NEW rec, IsSound(rec), NEW batch \in Seq(Updates)
  PROVE  /\ IsSound(Upserts(rec, batch)) /\ GoesOn(rec, Upserts(rec, batch))
         /\ Upserts(rec, batch).updated = rec.updated
         /\ \A o \in Ops :
              (\A i \in DOMAIN batch : batch[i].op = o => batch[i].op = "execution")
                => Upserts(rec, batch).status[o] = rec.status[o]
<1> DEFINE Good(new) ==
      /\ IsSound(new) /\ GoesOn(rec, new) /\ new.updated = rec.updated
      /\ \A o \in Ops :
           (\A i \in DOMAIN batch : batch[i].op = o => batch[i].op = "execution")
             => new.status[o] = rec.status[o]
<1>1. PICK n : n = Processed(batch)
  OBVIOUS
<1>2. /\ n \in Nat /\ n <= Len(batch) /\ Len(batch) \in Nat /\ DOMAIN batch = 1 .. Len(batch)
      /\ \A i \in 1 .. n : batch[i] \in Updates /\ i \notin Unprocessed(batch)
  BY <1>1, ProcessedFacts
<1>3. PICK st : st = Stages(rec, batch, n)
  OBVIOUS
<1>4. st[0] = rec /\ \A i \in 1 .. n : st[i] = Process(st[i - 1], batch[i])
  BY <1>2, <1>3, StagesFollow
<1>5. PICK S : S = {i \in 0 .. n : Good(st[i])}
  OBVIOUS
<1>6. 0 \in S
  <2>1. GoesOn(rec, rec)
    <3>1. rec.counter \in Nat
      BY DEF IsSound, Records
    <3> QED
      BY <3>1 DEF GoesOn
  <2>2. Good(st[0])
    BY <1>4, <2>1
  <2> QED
    BY <1>2, <1>5, <2>2
<1>7. ASSUME NEW i \in 1 .. n, i - 1 \in S PROVE i \in S
  <2>1. PICK prev, u : prev = st[i - 1] /\ u = batch[i]
    OBVIOUS
  <2>2. Good(prev)
    BY <1>5, <1>7, <2>1
  <2>3. /\ u \in Updates /\ i \in DOMAIN batch
        /\ u.op = "execution" \/ Kind[u.op] \in DOMAIN Processors
    BY <1>2, <2>1 DEF Unprocessed
  <2>4. PICK new : new = Process(prev, u)
    OBVIOUS
  <2>5. /\ IsSound(new) /\ GoesOn(prev, new) /\ new.updated = prev.updated
        /\ \A o \in Ops : (u.op = o => u.op = "execution") => new.status[o] = prev.status[o]
    BY <2>2, <2>3, <2>4, ProcessKeeps
  <2>6. GoesOn(rec, new)
    BY <2>2, <2>5, GoesOnAndOn
  <2>7. \A o \in Ops :
          (\A k \in DOMAIN batch : batch[k].op = o => batch[k].op = "execution")
            => new.status[o] = rec.status[o]
    BY <2>1, <2>2, <2>3, <2>5
  <2>8. Good(new)
    BY <2>2, <2>5, <2>6, <2>7
  <2>9. st[i] = new
    BY <1>4, <2>1, <2>4
  <2>10. Good(st[i]) /\ i \in 0 .. n
    BY <1>2, <2>8, <2>9
  <2> QED
    BY <1>5, <2>10
<1>8. S = 0 .. n
  <2>1. S \in SUBSET (0 .. n)
    BY <1>5
  <2> QED
    BY <1>2, <1>6, <1>7, <2>1, StageByStage
<1>9. n \in S
  BY <1>2, <1>8
<1>10. Good(st[n]) /\ st[n] = Upserts(rec, batch)
  BY <1>1, <1>3, <1>5, <1>9 DEF Upserts
<1> QED
  BY <1>10

\* CheckpointCore.apply: the token advances and the watermark is the counter.
LEMMA CommittedFacts ==
  ASSUME NEW rec, IsSound(rec), NEW batch \in Seq(Updates), NEW done, done = Upserts(rec, batch)
  PROVE  /\ IsSound(Committed(rec, batch))
         /\ Committed(rec, batch).token = rec.token + 1 /\ Committed(rec, batch).inv = rec.inv
         /\ Committed(rec, batch).seen = done.counter
         /\ Committed(rec, batch).status = done.status
         /\ Committed(rec, batch).touched = done.touched
         /\ Committed(rec, batch).order = done.order
<1>1. IsSound(done) /\ GoesOn(rec, done)
  BY UpsertsKeep
<1>2. PICK ends \in BOOLEAN : ends = \E i \in DOMAIN batch : batch[i].op = "execution"
  OBVIOUS
<1>3. PICK new : new = Committed(rec, batch)
  OBVIOUS
<1>4. new = [done EXCEPT !.token = rec.token + 1, !.seen = done.counter, !.closed = ends]
  BY <1>2, <1>3 DEF Committed, AdvanceToken
<1>5. done \in Records /\ rec.token \in Nat /\ done.counter \in Nat
  BY <1>1 DEF IsSound, Records
<1>6. /\ new \in Records /\ new.token = rec.token + 1 /\ new.seen = done.counter
      /\ new.inv = done.inv /\ new.status = done.status /\ new.touched = done.touched
      /\ new.order = done.order /\ new.counter = done.counter
  <2>1. PICK t, k : t = rec.token + 1 /\ k = done.counter
    OBVIOUS
  <2>2. t \in Nat /\ k \in Nat
    BY <1>5, <2>1
  <2>3. new = [done EXCEPT !.token = t, !.seen = k, !.closed = ends]
    BY <1>4, <2>1
  <2>4. new \in Records
    BY <1>5, <2>2, <2>3 DEF Records
  <2>5. /\ new.token = t /\ new.seen = k /\ new.inv = done.inv /\ new.status = done.status
        /\ new.touched = done.touched /\ new.order = done.order /\ new.counter = done.counter
    BY <1>5, <2>3 DEF Records
  <2> QED
    BY <2>1, <2>4, <2>5
<1>7. \A o \in Ops : IsListed(done, o) <=> IsListed(new, o)
  BY <1>6 DEF IsListed
<1>8. IsSound(new)
  BY <1>1, <1>5, <1>6, <1>7 DEF IsSound
<1> QED
  BY <1>1, <1>3, <1>6, <1>8 DEF GoesOn

-----------------------------------------------------------------------------
\* What an invocation is told.

\* What is told of a record has its type.
LEMMA ToldTypes ==
  ASSUME NEW rec \in Records, NEW ids \in SUBSET Ops
  PROVE  Told(rec, ids) \in SUBSET News
<1>1. \A o \in ids : rec.status[o] \in Statuses
  BY DEF Records
<1> QED
  BY <1>1 DEF Told, News

\* The invocation knows afterwards what it is told, and the rest as before.
LEMMA MergeTold ==
  ASSUME NEW rec, NEW ids, NEW view, NEW o \in Ops
  PROVE  Merge(view, Told(rec, ids))[o] = IF o \in ids THEN rec.status[o] ELSE view[o]
<1>1. PICK news : news = {d \in Told(rec, ids) : d.op = o}
  OBVIOUS
<1>2. Merge(view, Told(rec, ids))[o] =
        IF news = {} THEN view[o] ELSE (CHOOSE d \in news : TRUE).status
  BY <1>1 DEF Merge
<1>3. CASE o \in ids
  <2>1. PICK d : d = [op |-> o, status |-> rec.status[o]]
    OBVIOUS
  <2>2. news = {d}
    BY <1>1, <1>3, <2>1 DEF Told
  <2>3. (CHOOSE e \in news : TRUE) = d
    BY <2>2
  <2> QED
    BY <1>2, <1>3, <2>1, <2>2, <2>3
<1>4. CASE o \notin ids
  <2>1. news = {}
    BY <1>1, <1>4 DEF Told
  <2> QED
    BY <1>2, <1>4, <2>1
<1> QED
  BY <1>3, <1>4

\* What an invocation knows keeps its type.
LEMMA MergeTypes ==
  ASSUME NEW view \in [Ops -> Statuses], NEW delta \in SUBSET News
  PROVE  Merge(view, delta) \in [Ops -> Statuses]
<1>1. ASSUME NEW o \in Ops
      PROVE  (LET news == {d \in delta : d.op = o}
              IN IF news = {} THEN view[o] ELSE (CHOOSE d \in news : TRUE).status) \in Statuses
  <2>1. PICK news : news = {d \in delta : d.op = o}
    OBVIOUS
  <2>2. ASSUME news # {} PROVE (CHOOSE d \in news : TRUE) \in News
    <3>1. (CHOOSE d \in news : TRUE) \in news
      BY <2>2
    <3> QED
      BY <2>1, <3>1
  <2>3. \A d \in News : d.status \in Statuses
    BY DEF News
  <2> QED
    BY <2>1, <2>2, <2>3
<1> QED
  BY <1>1 DEF Merge

\* With a page the invocation knows all but what is on the pages behind it.
PageTells(rec, from, page, view, new) ==
  /\ page.next \in Nat /\ page.ops \in SUBSET News /\ new \in [Ops -> Statuses]
  /\ \A o \in Ops : new[o] = rec.status[o] \/ new[o] = view[o]
  /\ \A i \in from + 1 .. Len(rec.order) :
       \/ new[rec.order[i]] = rec.status[rec.order[i]]
       \/ page.next # 0 /\ i \in page.next + 1 .. Len(rec.order)

\* A page, followed by what is merged from it.
LEMMA PageFacts ==
  ASSUME NEW rec \in Records, NEW from \in Nat, NEW page, page = Page(rec, from),
         NEW view \in [Ops -> Statuses], NEW new, new = Merge(view, page.ops)
  PROVE  PageTells(rec, from, page, view, new)
<1>1. PageItems \in Nat \ {0}
  BY ServiceAssumption
<1>2. PICK len, upto : /\ len = Len(rec.order)
                       /\ upto = IF len < from + PageItems THEN len ELSE from + PageItems
  OBVIOUS
<1>3. /\ rec.order \in Seq(Ops) /\ len \in Nat /\ DOMAIN rec.order = 1 .. len
      /\ \A i \in 1 .. len : rec.order[i] \in Ops
  BY <1>2 DEF Records
<1>4. upto \in Nat /\ upto <= len /\ (upto # len => upto = from + PageItems /\ upto # 0)
  BY <1>1, <1>2, <1>3
<1>5. PICK ids : ids = {rec.order[i] : i \in (from + 1) .. upto}
  OBVIOUS
<1>6. ids \in SUBSET Ops
  <2>1. \A i \in (from + 1) .. upto : i \in 1 .. len
    BY <1>3, <1>4
  <2> QED
    BY <1>3, <1>5, <2>1
<1>7. page = [ops |-> Told(rec, ids), next |-> IF upto = len THEN 0 ELSE upto]
  BY <1>2, <1>5 DEF Page
<1>8. page.ops = Told(rec, ids) /\ page.next = IF upto = len THEN 0 ELSE upto
  BY <1>7
<1>9. page.ops \in SUBSET News /\ page.next \in Nat
  BY <1>4, <1>6, <1>8, ToldTypes
<1>10. new \in [Ops -> Statuses]
  BY <1>9, MergeTypes
<1>11. \A o \in Ops : new[o] = IF o \in ids THEN rec.status[o] ELSE view[o]
  BY <1>8, MergeTold
<1>12. ASSUME NEW i \in from + 1 .. len
       PROVE  \/ new[rec.order[i]] = rec.status[rec.order[i]]
              \/ page.next # 0 /\ i \in page.next + 1 .. len
  <2>1. i \in Nat /\ i \in 1 .. len
    BY <1>3
  <2>2. CASE i <= upto
    <3>1. rec.order[i] \in ids /\ rec.order[i] \in Ops
      BY <1>3, <1>4, <1>5, <2>1, <2>2
    <3> QED
      BY <1>11, <3>1
  <2>3. CASE i > upto
    <3>1. upto # len /\ i \in upto + 1 .. len
      BY <1>4, <2>1, <2>3
    <3> QED
      BY <1>4, <1>8, <3>1
  <2> QED
    BY <1>4, <2>1, <2>2, <2>3
<1> QED
  BY <1>2, <1>9, <1>10, <1>11, <1>12 DEF PageTells

-----------------------------------------------------------------------------
\* What a step leaves as it is.

\* A client changes.
Becomes(i, c) == clients' = [clients EXCEPT ![i] = c]

\* The others, and how many there are, stay.
LEMMA ClientChanges ==
  ASSUME clients \in Seq(Clients), NEW i \in DOMAIN clients, NEW c \in Clients, Becomes(i, c)
  PROVE  /\ clients' \in Seq(Clients) /\ Len(clients') = Len(clients)
         /\ Len(clients) \in Nat /\ Len(clients) # 0
         /\ DOMAIN clients = 1 .. Len(clients) /\ DOMAIN clients' = DOMAIN clients
         /\ clients'[i] = c /\ \A k \in DOMAIN clients : k # i => clients'[k] = clients[k]
<1>1. PICK s : s = clients /\ s \in Seq(Clients)
  OBVIOUS
<1>2. PICK t : t = [s EXCEPT ![i] = c]
  OBVIOUS
<1>3. clients' = t
  BY <1>1, <1>2 DEF Becomes
<1>4. /\ Len(s) \in Nat /\ DOMAIN s = 1 .. Len(s) /\ i \in DOMAIN s
      /\ t \in Seq(Clients) /\ Len(t) = Len(s) /\ DOMAIN t = DOMAIN s
      /\ t[i] = c /\ \A k \in DOMAIN s : k # i => t[k] = s[k]
  BY <1>1, <1>2
<1> QED
  BY <1>1, <1>3, <1>4

\* The last of the clients is the one that runs.
LEMMA LastOfClients ==
  ASSUME ServiceTypes, clients # <<>>
  PROVE  /\ Len(clients) \in DOMAIN clients /\ Len(clients) \in Nat
         /\ DOMAIN clients = 1 .. Len(clients)
  BY DEF ServiceTypes

\* Nobody is told anything, or an invocation is over: what the record goes on to is touched.
LEMMA NothingGetsHidden ==
  ASSUME IsSound(record), IsSound(record'), GoesOn(record, record'), ServiceTypes, NothingHidden,
         last' = last, gate' = gate, Len(clients') = Len(clients),
         clients # <<>> => \/ clients'[Len(clients)] = clients[Len(clients)]
                           \/ clients'[Len(clients)].phase = "over"
  PROVE  NothingHidden'
<1> SUFFICES ASSUME gate' = "INVOKING", NEW o \in Ops,
                    clients'[Len(clients)].phase # "over"
             PROVE  \/ Known'[o] = record'.status[o]
                    \/ record'.touched[o] > record'.seen
                    \/ /\ clients'[Len(clients')].phase = "paging"
                       /\ \E i \in (clients'[Len(clients')].next + 1) .. Len(record'.order) :
                            record'.order[i] = o
  BY DEF NothingHidden
<1>1. clients # <<>>
  BY DEF ServiceTypes
<1>2. PICK c : c = clients[Len(clients)] /\ c = clients'[Len(clients')]
  BY <1>1
<1>3. \/ Known[o] = record.status[o]
      \/ record.touched[o] > record.seen
      \/ c.phase = "paging" /\ \E i \in (c.next + 1) .. Len(record.order) : record.order[i] = o
  BY <1>2 DEF NothingHidden
<1>4. Known'[o] = Known[o]
  BY <1>2 DEF Known
<1>5. /\ record.seen \in Nat /\ record.counter \in Nat /\ record.touched[o] \in Nat
      /\ record'.touched[o] \in Nat /\ record.seen <= record.counter
      /\ record'.seen = record.seen
  BY DEF IsSound, Records, GoesOn
<1>6. CASE record'.touched[o] > record.counter
  BY <1>5, <1>6
<1>7. CASE record'.status[o] = record.status[o] /\ record'.touched[o] = record.touched[o]
  <2>1. ASSUME NEW i \in (c.next + 1) .. Len(record.order), record.order[i] = o, c.next \in Nat
        PROVE  i \in (c.next + 1) .. Len(record'.order) /\ record'.order[i] = o
    <3>1. /\ Len(record.order) \in Nat /\ Len(record'.order) \in Nat
          /\ DOMAIN record.order = 1 .. Len(record.order)
          /\ DOMAIN record'.order = 1 .. Len(record'.order)
      BY DEF IsSound, Records
    <3>2. i \in DOMAIN record.order
      BY <2>1, <3>1
    <3>3. i \in DOMAIN record'.order /\ record'.order[i] = record.order[i]
      BY <3>2 DEF GoesOn
    <3> QED
      BY <2>1, <3>1, <3>3
  <2>2. c.next \in Nat
    <3>1. Len(clients) \in DOMAIN clients /\ clients \in Seq(Clients)
      BY <1>1, LastOfClients DEF ServiceTypes
    <3>2. c \in Clients
      <4>1. \A i \in DOMAIN clients : clients[i] \in Clients
        BY <3>1
      <4> QED
        BY <1>2, <3>1, <4>1
    <3> QED
      BY <3>2 DEF Clients
  <2> QED
    BY <1>2, <1>3, <1>4, <1>5, <1>7, <2>1, <2>2
<1> QED
  BY <1>6, <1>7 DEF GoesOn

\* What was sent is of the past as long as the token stays.
LEMMA PastStays ==
  ASSUME NEW r, IsOfThePast(r), DOMAIN clients \subseteq DOMAIN clients', calls \in Nat,
         calls' \in {calls, calls + 1}, record'.token = record.token, applied' = applied
  PROVE  IsOfThePast(r)'
<1>1. r.call \in 1 .. calls'
  BY DEF IsOfThePast
<1>2. HasApplied(r.call)' => HasApplied(r.call)
  BY DEF HasApplied
<1> QED
  BY <1>1, <1>2 DEF IsOfThePast

\* Nothing is applied: the tokens are what they were.
LEMMA TokensStay ==
  ASSUME ServiceTypes, SpentTokens, record'.token = record.token, applied' = applied,
         last' = last, calls' \in {calls, calls + 1}, DOMAIN clients \subseteq DOMAIN clients',
         \A r \in wire' : r \in wire \/ IsOfThePast(r)',
         \A i \in DOMAIN clients' :
           \/ /\ i \in DOMAIN clients /\ clients'[i].token <= record.token
              /\ clients'[i].phase = "calling" =>
                   clients[i].phase = "calling" /\ clients'[i].request = clients[i].request
           \/ /\ clients'[i].token <= record.token
              /\ clients'[i].phase = "calling" =>
                   \E r : r = clients'[i].request /\ IsOfThePast(r)' /\ r.inv = i
  PROVE  SpentTokens'
<1>1. calls \in Nat /\ applied \in Seq(Nat)
  BY DEF ServiceTypes
<1>2. \A r : IsOfThePast(r) => IsOfThePast(r)'
  BY <1>1, PastStays
<1>3. \A i \in DOMAIN applied' : applied'[i] <= calls'
  <2>1. \A i \in DOMAIN applied : applied[i] \in Nat /\ applied[i] <= calls
    BY <1>1 DEF SpentTokens
  <2> QED
    BY <1>1, <2>1
<1>4. \A r \in wire' : IsOfThePast(r)'
  BY <1>2 DEF SpentTokens
<1>5. ASSUME NEW i \in DOMAIN clients'
      PROVE  /\ clients'[i].token <= record'.token
             /\ clients'[i].phase = "calling" =>
                  \E r : r = clients'[i].request /\ IsOfThePast(r)' /\ r.inv = i
  BY <1>2, <1>5 DEF SpentTokens
<1>6. \A i \in DOMAIN clients' : clients'[i].phase = "calling" =>
        IsOfThePast(clients[i].request)' /\ clients'[i].request.inv = i
  BY <1>5 DEF IsOfThePast, HasApplied
<1>7. (last.call # 0 => HasApplied(last.call))' /\ last'.out <= record'.token
  BY DEF SpentTokens, HasApplied
<1> QED
  BY <1>3, <1>4, <1>5, <1>6, <1>7 DEF SpentTokens

\* What waits for its answer goes on to, unless its token is spent or its client gives up.
LEMMA AwaitedStays ==
  ASSUME ServiceTypes, SpentTokens, Awaited, record'.token = record.token,
         \A r \in wire' : r \in wire \/ IsAwaited(r)',
         \A i \in DOMAIN clients :
           \/ clients'[i].phase = "over"
           \/ clients'[i].phase = clients[i].phase /\ clients'[i].request = clients[i].request
           \/ clients[i].phase \in {"paging", "idle"}
           \/ clients[i].phase = "calling" /\ HasApplied(clients[i].request.call)
  PROVE  Awaited'
<1>1. ASSUME NEW r \in wire, IsAwaited(r) PROVE IsAwaited(r)'
  <2>1. r.inv \in DOMAIN clients /\ (HasApplied(r.call) => r.token < record.token)
    BY DEF SpentTokens, IsOfThePast
  <2>2. CASE r.token < record.token \/ clients[r.inv].phase = "over"
    BY <2>1, <2>2 DEF IsAwaited
  <2>3. CASE clients[r.inv].phase = "calling" /\ clients[r.inv].request.call = r.call
    <3>1. CASE HasApplied(clients[r.inv].request.call)
      BY <2>1, <2>3, <3>1 DEF IsAwaited
    <3>2. CASE ~HasApplied(clients[r.inv].request.call)
      BY <2>1, <2>3, <3>2 DEF IsAwaited
    <3> QED
      BY <3>1, <3>2
  <2> QED
    BY <1>1, <2>2, <2>3 DEF IsAwaited
<1> QED
  BY <1>1 DEF Awaited

\* A request, with its type, that waits or that its client sent.
LEMMA RequestTypes ==
  ASSUME ServiceTypes
  PROVE  /\ \A r \in wire : r \in Requests
         /\ \A i \in DOMAIN clients : clients[i] \in Clients /\ clients[i].request \in Requests
<1>1. PICK s : s = clients /\ s \in Seq(Clients)
  BY DEF ServiceTypes
<1>2. \A i \in DOMAIN s : s[i] \in Clients
  BY <1>1
<1>3. \A c \in Clients : c.request \in Requests
  BY DEF Clients
<1> QED
  BY <1>1, <1>2, <1>3 DEF ServiceTypes

\* An invocation begins: it is told the first page.
LEMMA BeginKeeps ==
  ASSUME ServiceInv, Begin
  PROVE  ServiceInv'
<1>1. IsSound(record) /\ ServiceTypes /\ SpentTokens /\ Awaited /\ AppliedOnce
  BY DEF ServiceInv
<1>2. PICK page, absent, view : /\ page = Page(record, 0) /\ absent = [o \in Ops |-> "absent"]
                                /\ view = Merge(absent, page.ops)
  OBVIOUS
<1>3. absent \in [Ops -> Statuses] /\ record \in Records
  BY <1>1, <1>2 DEF Statuses, IsSound
<1>4. /\ page.next \in Nat /\ view \in [Ops -> Statuses]
      /\ \A o \in Ops : view[o] = record.status[o] \/ view[o] = absent[o]
      /\ \A i \in 1 .. Len(record.order) :
           \/ view[record.order[i]] = record.status[record.order[i]]
           \/ page.next # 0 /\ i \in page.next + 1 .. Len(record.order)
  <2>1. PageTells(record, 0, page, absent, view)
    BY <1>2, <1>3, PageFacts
  <2>2. 0 + 1 = 1
    OBVIOUS
  <2> QED
    BY <2>1, <2>2 DEF PageTells
<1>5. PICK c : c = [phase |-> IF page.next = 0 THEN "idle" ELSE "paging", view |-> view,
                    next |-> page.next, token |-> record.token, request |-> NoRequest,
                    news |-> record.updated]
  OBVIOUS
<1>6. NoRequest \in Requests
  <2>1. <<>> \in Seq(Updates)
    OBVIOUS
  <2> QED
    BY <2>1 DEF NoRequest, Request, Requests
<1>7. c \in Clients /\ record.token \in Nat
  BY <1>3, <1>4, <1>5, <1>6 DEF Clients, Records
<1>8. /\ clients' = Append(clients, c) /\ record' = [record EXCEPT !.inv = record.inv + 1]
      /\ gate' = "INVOKING"
      /\ last' = last /\ wire' = wire /\ calls' = calls /\ applied' = applied
  BY <1>2, <1>5 DEF Begin
<1>9. PICK s, n : s = clients /\ n = Len(s)
  OBVIOUS
<1>10. /\ n \in Nat /\ DOMAIN clients = 1 .. n /\ DOMAIN clients' = 1 .. n + 1
       /\ clients' \in Seq(Clients) /\ Len(clients') = n + 1 /\ clients'[n + 1] = c
       /\ \A i \in 1 .. n : clients'[i] = clients[i]
  <2>1. s \in Seq(Clients)
    BY <1>1, <1>9 DEF ServiceTypes
  <2>2. /\ n \in Nat /\ DOMAIN s = 1 .. n /\ DOMAIN Append(s, c) = 1 .. n + 1
        /\ Append(s, c) \in Seq(Clients) /\ Len(Append(s, c)) = n + 1 /\ Append(s, c)[n + 1] = c
        /\ \A i \in 1 .. n : Append(s, c)[i] = s[i]
    BY <1>7, <1>9, <2>1
  <2> QED
    BY <1>8, <1>9, <2>2
<1>11. /\ record' \in Records /\ record'.inv = n + 1 /\ record'.token = record.token
       /\ record'.status = record.status /\ record'.order = record.order
       /\ record'.touched = record.touched /\ record'.seen = record.seen
       /\ record'.counter = record.counter
  <2>1. record.inv = n /\ n + 1 \in Nat
    BY <1>1, <1>9, <1>10 DEF ServiceTypes
  <2> QED
    BY <1>3, <1>8, <2>1 DEF Records
<1>12. IsSound(record')
  <2>1. \A o \in Ops : IsListed(record, o) <=> IsListed(record', o)
    BY <1>11 DEF IsListed
  <2> QED
    BY <1>1, <1>11, <2>1 DEF IsSound
<1>13. ServiceTypes'
  <2>1. clients' # <<>>
    BY <1>10
  <2> QED
    BY <1>1, <1>8, <1>10, <1>11, <2>1 DEF ServiceTypes
<1>14. c.phase # "calling" /\ c.token = record.token /\ c.view = view
       /\ (page.next # 0 => c.phase = "paging" /\ c.next = page.next)
  BY <1>5
<1>15. SpentTokens'
  <2>1. ASSUME NEW i \in DOMAIN clients'
        PROVE  \/ /\ i \in DOMAIN clients /\ clients'[i].token <= record.token
                  /\ clients'[i].phase = "calling" =>
                       clients[i].phase = "calling" /\ clients'[i].request = clients[i].request
               \/ /\ clients'[i].token <= record.token
                  /\ clients'[i].phase = "calling" =>
                       \E r : r = clients'[i].request /\ IsOfThePast(r)' /\ r.inv = i
    <3>1. CASE i \in 1 .. n
      BY <1>1, <1>10, <3>1 DEF SpentTokens
    <3>2. CASE i = n + 1
      BY <1>7, <1>10, <1>14, <3>2
    <3> QED
      BY <1>10, <3>1, <3>2
  <2>2. DOMAIN clients \subseteq DOMAIN clients'
    BY <1>10
  <2> QED
    BY <1>1, <1>8, <1>11, <2>1, <2>2, TokensStay
<1>16. Awaited'
  BY <1>1, <1>8, <1>10, <1>11, AwaitedStays
<1>17. NothingHidden'
  <2> SUFFICES ASSUME NEW o \in Ops
               PROVE  \/ Known'[o] = record'.status[o]
                      \/ c.phase = "paging" /\ \E i \in (c.next + 1) .. Len(record'.order) :
                                                  record'.order[i] = o
    BY <1>10 DEF NothingHidden
  <2>1. Known'[o] = view[o]
    BY <1>10, <1>14 DEF Known
  <2>2. CASE IsListed(record, o)
    <3>1. PICK i \in DOMAIN record.order : record.order[i] = o
      BY <2>2 DEF IsListed
    <3>2. i \in 1 .. Len(record.order)
      BY <1>3, <3>1 DEF Records
    <3> QED
      BY <1>4, <1>11, <1>14, <2>1, <3>1, <3>2
  <2>3. CASE ~IsListed(record, o)
    BY <1>1, <1>2, <1>4, <1>11, <2>1, <2>3 DEF IsSound
  <2> QED
    BY <2>2, <2>3
<1>18. AppliedOnce'
  BY <1>1, <1>8 DEF AppliedOnce
<1> QED
  BY <1>12, <1>13, <1>15, <1>16, <1>17, <1>18 DEF ServiceInv

\* A step of one client, with the record and what was applied as they are.
LEMMA ClientKeeps ==
  ASSUME ServiceInv, NEW i \in DOMAIN clients, NEW c \in Clients, Becomes(i, c),
         record' = record, last' = last, gate' = gate, applied' = applied,
         calls' \in {calls, calls + 1}, wire' \in SUBSET Requests,
         c.token <= record.token,
         c.phase = "calling" => \E r : r = c.request /\ IsOfThePast(r)' /\ r.inv = i,
         \A r \in wire' : r \in wire \/ (IsOfThePast(r)' /\ IsAwaited(r)'),
         \/ c.phase = "over"
         \/ c.phase = clients[i].phase /\ c.request = clients[i].request
         \/ clients[i].phase \in {"paging", "idle"}
         \/ clients[i].phase = "calling" /\ HasApplied(clients[i].request.call),
         i = Len(clients) /\ gate = "INVOKING" => NothingHidden'
  PROVE  ServiceInv'
<1>1. IsSound(record) /\ ServiceTypes /\ SpentTokens /\ Awaited /\ AppliedOnce /\ NothingHidden
  BY DEF ServiceInv
<1>2. clients \in Seq(Clients) /\ calls \in Nat
  BY <1>1 DEF ServiceTypes
<1>3. /\ clients' \in Seq(Clients) /\ Len(clients') = Len(clients)
      /\ Len(clients) \in Nat /\ Len(clients) # 0
      /\ DOMAIN clients = 1 .. Len(clients) /\ DOMAIN clients' = DOMAIN clients
      /\ clients'[i] = c /\ \A k \in DOMAIN clients : k # i => clients'[k] = clients[k]
  BY <1>2, ClientChanges
<1>4. ServiceTypes'
  <2>1. clients' # <<>>
    BY <1>3
  <2> QED
    BY <1>1, <1>2, <1>3, <2>1 DEF ServiceTypes
<1>5. SpentTokens'
  <2>1. ASSUME NEW k \in DOMAIN clients'
        PROVE  \/ /\ k \in DOMAIN clients /\ clients'[k].token <= record.token
                  /\ clients'[k].phase = "calling" =>
                       clients[k].phase = "calling" /\ clients'[k].request = clients[k].request
               \/ /\ clients'[k].token <= record.token
                  /\ clients'[k].phase = "calling" =>
                       \E r : r = clients'[k].request /\ IsOfThePast(r)' /\ r.inv = k
    <3>1. CASE k = i
      BY <1>3, <3>1
    <3>2. CASE k # i
      BY <1>1, <1>3, <3>2 DEF SpentTokens
    <3> QED
      BY <3>1, <3>2
  <2> QED
    BY <1>1, <1>3, <2>1, TokensStay
<1>6. Awaited'
  BY <1>1, <1>3, AwaitedStays
<1>7. NothingHidden'
  <2>1. CASE i = Len(clients)
    <3>1. CASE gate # "INVOKING"
      BY <3>1 DEF NothingHidden
    <3> QED
      BY <2>1, <3>1
  <2>2. CASE i # Len(clients)
    <3>1. GoesOn(record, record')
      <4>1. record.counter \in Nat
        BY <1>1 DEF IsSound, Records
      <4> QED
        BY <4>1 DEF GoesOn
    <3>2. clients'[Len(clients)] = clients[Len(clients)]
      BY <1>3, <2>2
    <3> QED
      BY <1>1, <1>3, <3>1, <3>2, NothingGetsHidden
  <2> QED
    BY <2>1, <2>2
<1>8. AppliedOnce' /\ IsSound(record')
  BY <1>1 DEF AppliedOnce
<1> QED
  BY <1>4, <1>5, <1>6, <1>7, <1>8 DEF ServiceInv

\* An invocation gives up what it does.
LEMMA FailedBecomes ==
  ASSUME ServiceTypes, NEW i \in DOMAIN clients, clients' = Failed(i)
  PROVE  \E c \in Clients : /\ Becomes(i, c) /\ c.phase = "over"
                            /\ c.token = clients[i].token
<1>1. PICK s, b : s = clients /\ b = s[i]
  OBVIOUS
<1>2. s \in Seq(Clients) /\ b \in Clients /\ i \in DOMAIN s
  BY <1>1 DEF ServiceTypes
<1>3. PICK c : c = [b EXCEPT !.phase = "over"]
  OBVIOUS
<1>4. c \in Clients /\ c.phase = "over" /\ c.token = b.token
  BY <1>2, <1>3 DEF Clients
<1>5. [s EXCEPT ![i].phase = "over"] = [s EXCEPT ![i] = c]
  BY <1>1, <1>2, <1>3
<1> QED
  BY <1>1, <1>4, <1>5 DEF Failed, Becomes

\* An invocation reads its next page, or is refused it.
LEMMA FetchKeeps ==
  ASSUME ServiceInv, NEW i \in DOMAIN clients, FetchPage(i)
  PROVE  ServiceInv'
<1>1. /\ IsSound(record) /\ ServiceTypes /\ SpentTokens /\ NothingHidden
      /\ record \in Records
  BY DEF ServiceInv, IsSound
<1>2. PICK s, b : s = clients /\ b = s[i]
  OBVIOUS
<1>3. s \in Seq(Clients) /\ b \in Clients /\ i \in DOMAIN s /\ b.phase = "paging"
  BY <1>1, <1>2, RequestTypes DEF ServiceTypes, FetchPage
<1>4. /\ record' = record /\ last' = last /\ gate' = gate /\ wire' = wire /\ calls' = calls
      /\ applied' = applied
  BY DEF FetchPage
<1>5. b.token \in Nat /\ b.token <= record.token /\ wire \in SUBSET Requests
  BY <1>1, <1>2, <1>3 DEF SpentTokens, ServiceTypes, Clients
<1>6. CASE clients' = Failed(i)
  <2>1. PICK c \in Clients : Becomes(i, c) /\ c.phase = "over" /\ c.token = b.token
    BY <1>1, <1>2, <1>6, FailedBecomes
  <2>2. i = Len(clients) /\ gate = "INVOKING" => NothingHidden'
    <3>1. clients'[i] = c /\ Len(clients') = Len(clients)
      BY <1>2, <1>3, <2>1, ClientChanges
    <3> QED
      BY <2>1, <3>1 DEF NothingHidden
  <2>3. c.token <= record.token /\ c.phase # "calling"
    BY <1>5, <2>1
  <2> QED
    BY <1>2, <1>3, <1>4, <1>5, <2>1, <2>2, <2>3, ClientKeeps
<1>7. CASE clients' # Failed(i)
  <2>1. PICK page : page = IF Web THEN Page(record, clients[i].next)
                           ELSE [ops |-> Told(record, {o \in Ops : IsListed(record, o)}),
                                 next |-> 0]
    OBVIOUS
  <2>2. PICK view, phase : /\ view = Merge(b.view, page.ops)
                           /\ phase = IF page.next = 0 THEN "idle" ELSE "paging"
    OBVIOUS
  <2>3. b.view \in [Ops -> Statuses] /\ b.next \in Nat
    BY <1>3 DEF Clients
  <2>4. PageTells(record, b.next, page, b.view, view)
    <3>1. CASE Web
      BY <1>1, <1>2, <2>1, <2>2, <2>3, <3>1, PageFacts
    <3>2. CASE ~Web
      <4>1. PICK ids : ids = {o \in Ops : IsListed(record, o)}
        OBVIOUS
      <4>2. page.ops = Told(record, ids) /\ page.next = 0
        <5>1. page = [ops |-> Told(record, ids), next |-> 0]
          BY <2>1, <3>2, <4>1
        <5> QED
          BY <5>1
      <4>3. page.ops \in SUBSET News
        BY <1>1, <4>1, <4>2, ToldTypes
      <4>4. view \in [Ops -> Statuses]
        BY <2>2, <2>3, <4>3, MergeTypes
      <4>5. \A o \in Ops : view[o] = IF o \in ids THEN record.status[o] ELSE b.view[o]
        BY <2>2, <4>2, MergeTold
      <4>6. \A k \in b.next + 1 .. Len(record.order) : record.order[k] \in ids
        <5>1. /\ record.order \in Seq(Ops) /\ DOMAIN record.order = 1 .. Len(record.order)
              /\ Len(record.order) \in Nat
          BY <1>1 DEF Records
        <5>2. \A k \in b.next + 1 .. Len(record.order) : k \in DOMAIN record.order
          BY <2>3, <5>1
        <5> QED
          BY <4>1, <5>1, <5>2 DEF IsListed
      <4>7. \A k \in b.next + 1 .. Len(record.order) :
              view[record.order[k]] = record.status[record.order[k]]
        BY <4>1, <4>5, <4>6
      <4> QED
        BY <4>1, <4>2, <4>3, <4>4, <4>5, <4>7 DEF PageTells
    <3> QED
      BY <3>1, <3>2
  <2>5. PICK c : c = [b EXCEPT !.view = view, !.next = page.next, !.phase = phase]
    OBVIOUS
  <2>6. /\ c \in Clients /\ c.view = view /\ c.next = page.next /\ c.phase = phase
        /\ c.token = b.token /\ phase \in {"idle", "paging"} /\ page.next \in Nat
    <3>1. page.next \in Nat /\ view \in [Ops -> Statuses] /\ phase \in {"idle", "paging"}
      BY <2>2, <2>4 DEF PageTells
    <3> QED
      BY <1>3, <2>5, <3>1 DEF Clients
  <2>7. Becomes(i, c)
    <3>1. clients' = [clients EXCEPT ![i].view = Merge(@, page.ops), ![i].next = page.next,
                        ![i].phase = IF page.next = 0 THEN "idle" ELSE "paging"]
      BY <1>7, <2>1 DEF FetchPage
    <3>2. clients' = [s EXCEPT ![i] = c]
      BY <1>2, <1>3, <2>2, <2>5, <3>1
    <3> QED
      BY <1>2, <3>2 DEF Becomes
  <2>8. i = Len(clients) /\ gate = "INVOKING" => NothingHidden'
    <3> SUFFICES ASSUME i = Len(clients), gate = "INVOKING", NEW o \in Ops
                 PROVE  \/ Known'[o] = record.status[o]
                        \/ record.touched[o] > record.seen
                        \/ c.phase = "paging" /\ \E k \in (c.next + 1) .. Len(record.order) :
                                                    record.order[k] = o
      <4>1. clients'[i] = c /\ Len(clients') = Len(clients)
        BY <1>2, <1>3, <2>6, <2>7, ClientChanges
      <4> QED
        BY <1>4, <4>1 DEF NothingHidden
    <3>1. clients'[i] = c /\ Len(clients') = Len(clients)
      BY <1>2, <1>3, <2>6, <2>7, ClientChanges
    <3>2. Known'[o] = view[o] /\ Known[o] = b.view[o]
      BY <1>2, <1>3, <1>4, <2>6, <3>1 DEF Known
    <3>3. \/ b.view[o] = record.status[o] \/ record.touched[o] > record.seen
          \/ \E k \in (b.next + 1) .. Len(record.order) : record.order[k] = o
      BY <1>1, <1>2, <1>3, <3>2 DEF NothingHidden
    <3>4. CASE b.view[o] = record.status[o]
      BY <2>4, <3>2, <3>4 DEF PageTells
    <3>5. CASE \E k \in (b.next + 1) .. Len(record.order) : record.order[k] = o
      <4>1. PICK k \in (b.next + 1) .. Len(record.order) : record.order[k] = o
        BY <3>5
      <4>2. \/ view[o] = record.status[o]
            \/ page.next # 0 /\ k \in page.next + 1 .. Len(record.order)
        BY <2>4, <4>1 DEF PageTells
      <4> QED
        BY <2>2, <2>6, <3>2, <4>1, <4>2
    <3> QED
      BY <3>3, <3>4, <3>5
  <2> QED
    BY <1>2, <1>3, <1>4, <1>5, <2>6, <2>7, <2>8, ClientKeeps
<1> QED
  BY <1>6, <1>7

\* An invocation sends a batch.
LEMMA SendKeeps ==
  ASSUME ServiceInv, NEW i \in DOMAIN clients, NEW batch \in Batches, Send(i, batch)
  PROVE  ServiceInv'
<1>1. /\ IsSound(record) /\ ServiceTypes /\ SpentTokens /\ NothingHidden
      /\ record.token \in Nat
  BY DEF ServiceInv, IsSound, Records
<1>2. PICK s, b : s = clients /\ b = s[i]
  OBVIOUS
<1>3. /\ s \in Seq(Clients) /\ b \in Clients /\ i \in DOMAIN s /\ b.phase = "idle"
      /\ b.token \in Nat /\ i \in Nat
  <2>1. s \in Seq(Clients) /\ b \in Clients /\ i \in DOMAIN s /\ b.phase = "idle"
    BY <1>1, <1>2, RequestTypes DEF ServiceTypes, Send
  <2> QED
    BY <2>1 DEF Clients
<1>4. batch \in Seq(Updates)
  <2>1. PICK n \in 0 .. MaxBatch : batch \in [1 .. n -> Updates]
    BY DEF Batches
  <2>2. n \in Nat
    BY <2>1, ServiceAssumption
  <2> QED
    BY <2>1, <2>2
<1>5. calls \in Nat /\ b.token <= record.token /\ wire \in SUBSET Requests
  BY <1>1, <1>2, <1>3 DEF SpentTokens, ServiceTypes
<1>6. PICK call, r : /\ call = calls + 1
                     /\ r = [inv |-> i, token |-> b.token, call |-> call, batch |-> batch,
                             copy |-> 1]
  OBVIOUS
<1>7. /\ r \in Requests /\ r.inv = i /\ r.token = b.token /\ r.call = call /\ call \in Nat
  <2>1. call \in Nat
    BY <1>5, <1>6
  <2> QED
    BY <1>3, <1>4, <1>6, <2>1 DEF Requests
<1>8. /\ record' = record /\ last' = last /\ gate' = gate /\ applied' = applied
      /\ calls' = calls + 1 /\ wire' = wire \cup {r}
      /\ clients' = [clients EXCEPT ![i].phase = "calling", ![i].request = r]
  BY <1>2, <1>6 DEF Send, Request
<1>9. PICK c : c = [b EXCEPT !.phase = "calling", !.request = r]
  OBVIOUS
<1>10. /\ c \in Clients /\ c.phase = "calling" /\ c.request = r /\ c.token = b.token
       /\ c.view = b.view
  BY <1>3, <1>7, <1>9 DEF Clients
<1>11. Becomes(i, c)
  <2>1. clients' = [s EXCEPT ![i] = c]
    BY <1>2, <1>3, <1>8, <1>9
  <2> QED
    BY <1>2, <2>1 DEF Becomes
<1>12. clients'[i] = c /\ Len(clients') = Len(clients) /\ DOMAIN clients' = DOMAIN clients
  BY <1>2, <1>3, <1>10, <1>11, ClientChanges
<1>13. IsOfThePast(r)' /\ IsAwaited(r)'
  <2>1. ~HasApplied(call)'
    <3>1. \A k \in DOMAIN applied : applied[k] \in Nat /\ applied[k] <= calls
      BY <1>1 DEF SpentTokens, ServiceTypes
    <3>2. \A k \in DOMAIN applied : applied[k] # call
      BY <1>5, <1>6, <3>1
    <3> QED
      BY <1>8, <3>2 DEF HasApplied
  <2>2. r.call \in 1 .. calls'
    BY <1>5, <1>6, <1>7, <1>8
  <2> QED
    BY <1>3, <1>5, <1>7, <1>8, <1>10, <1>12, <2>1, <2>2 DEF IsOfThePast, IsAwaited
<1>14. last.call # call
  <2>1. last.call # 0 => last.call <= calls
    <3>1. \A k \in DOMAIN applied : applied[k] <= calls
      BY <1>1 DEF SpentTokens
    <3> QED
      BY <1>1, <3>1 DEF SpentTokens, HasApplied
  <2> QED
    BY <1>5, <1>6, <2>1
<1>15. i = Len(clients) /\ gate = "INVOKING" => NothingHidden'
  <2> SUFFICES ASSUME i = Len(clients), gate = "INVOKING", NEW o \in Ops
               PROVE  Known'[o] = record.status[o] \/ record.touched[o] > record.seen
    BY <1>8 DEF NothingHidden
  <2>1. Known'[o] = b.view[o] /\ Known[o] = b.view[o]
    BY <1>2, <1>3, <1>7, <1>8, <1>10, <1>12, <1>14 DEF Known
  <2> QED
    BY <1>1, <1>2, <1>3, <2>1 DEF NothingHidden
<1>16. \A q \in wire' : q \in wire \/ (IsOfThePast(q)' /\ IsAwaited(q)')
  BY <1>8, <1>13
<1>17. wire' \in SUBSET Requests /\ calls' \in {calls, calls + 1}
  BY <1>5, <1>7, <1>8
<1> QED
  BY <1>2, <1>3, <1>5, <1>7, <1>8, <1>10, <1>11, <1>13, <1>15, <1>16, <1>17, ClientKeeps

\* The request of an invocation that waits is sent once more.
LEMMA ResendKeeps ==
  ASSUME ServiceInv, NEW i \in DOMAIN clients, Resend(i)
  PROVE  ServiceInv'
<1>1. /\ IsSound(record) /\ ServiceTypes /\ SpentTokens /\ NothingHidden
      /\ record.token \in Nat
  BY DEF ServiceInv, IsSound, Records
<1>2. PICK s, b : s = clients /\ b = s[i]
  OBVIOUS
<1>3. s \in Seq(Clients) /\ b \in Clients /\ i \in DOMAIN s /\ b.phase = "calling"
  BY <1>1, <1>2, RequestTypes DEF ServiceTypes, Resend
<1>4. /\ record' = record /\ last' = last /\ gate' = gate /\ applied' = applied
      /\ calls' = calls /\ clients' = clients
      /\ wire' = wire \cup {[b.request EXCEPT !.copy = 2]}
  BY <1>2 DEF Resend
<1>5. PICK r : r = [b.request EXCEPT !.copy = 2]
  OBVIOUS
<1>6. /\ r \in Requests /\ r.inv = b.request.inv /\ r.token = b.request.token
      /\ r.call = b.request.call
  <2>1. b.request \in Requests
    BY <1>3 DEF Clients
  <2> QED
    BY <1>5, <2>1 DEF Requests
<1>7. IsOfThePast(b.request) /\ b.request.inv = i /\ b.token <= record.token
  BY <1>1, <1>2, <1>3 DEF SpentTokens
<1>8. IsOfThePast(r)'
  <2>1. IsOfThePast(r)
    BY <1>6, <1>7 DEF IsOfThePast
  <2> QED
    BY <1>4, <2>1 DEF IsOfThePast, HasApplied
<1>9. IsAwaited(r)'
  BY <1>2, <1>3, <1>4, <1>6, <1>7 DEF IsAwaited
<1>10. Becomes(i, b)
  <2>1. s = [s EXCEPT ![i] = b]
    BY <1>2, <1>3
  <2> QED
    BY <1>2, <1>4, <2>1 DEF Becomes
<1>11. IsOfThePast(b.request)'
  BY <1>4, <1>7 DEF IsOfThePast, HasApplied
<1>12. NothingHidden'
  <2>1. Known' = Known
    BY <1>4 DEF Known
  <2> QED
    BY <1>1, <1>4, <2>1 DEF NothingHidden
<1>13. \A q \in wire' : q \in wire \/ (IsOfThePast(q)' /\ IsAwaited(q)')
  BY <1>4, <1>5, <1>8, <1>9
<1>14. wire' \in SUBSET Requests
  BY <1>1, <1>4, <1>5, <1>6 DEF ServiceTypes
<1> QED
  BY <1>2, <1>3, <1>4, <1>7, <1>10, <1>11, <1>12, <1>13, <1>14, ClientKeeps

\* The reply of the last checkpoint is served once more.
LEMMA CachedKeeps ==
  ASSUME ServiceInv, NEW r \in wire, ServeCached(r)
  PROVE  ServiceInv'
<1>1. /\ IsSound(record) /\ ServiceTypes /\ SpentTokens /\ NothingHidden
      /\ record.token \in Nat
  BY DEF ServiceInv, IsSound, Records
<1>2. PICK s, b, i : s = clients /\ i = r.inv /\ b = s[i]
  OBVIOUS
<1>3. IsOfThePast(r) /\ r.call # 0 /\ last.call = r.call
  <2>1. IsOfThePast(r) /\ calls \in Nat
    BY <1>1 DEF SpentTokens, ServiceTypes
  <2> QED
    BY <2>1 DEF IsOfThePast, ServeCached, IsCached
<1>4. s \in Seq(Clients) /\ b \in Clients /\ i \in DOMAIN clients /\ i \in DOMAIN s
  BY <1>1, <1>2, <1>3, RequestTypes DEF ServiceTypes, IsOfThePast
<1>5. /\ record' = record /\ last' = last /\ gate' = gate /\ applied' = applied
      /\ calls' = calls /\ wire' = wire \ {r} /\ wire' \in SUBSET Requests
  BY <1>1 DEF ServeCached, ServiceTypes
<1>6. \A q \in wire' : q \in wire
  BY <1>5
<1>7. b.token <= record.token
  BY <1>1, <1>2, <1>4 DEF SpentTokens
<1>8. CASE clients' = clients
  <2>1. Becomes(i, b)
    <3>1. s = [s EXCEPT ![i] = b]
      BY <1>2, <1>4
    <3> QED
      BY <1>2, <1>8, <3>1 DEF Becomes
  <2>2. b.phase = "calling" => \E q : q = b.request /\ IsOfThePast(q)' /\ q.inv = i
    <3> SUFFICES ASSUME b.phase = "calling" PROVE IsOfThePast(b.request)' /\ b.request.inv = i
      OBVIOUS
    <3>1. IsOfThePast(b.request) /\ b.request.inv = i
      BY <1>1, <1>2, <1>4 DEF SpentTokens
    <3> QED
      BY <1>5, <1>8, <3>1 DEF IsOfThePast, HasApplied
  <2>3. NothingHidden'
    <3>1. Known' = Known
      BY <1>5, <1>8 DEF Known
    <3> QED
      BY <1>1, <1>5, <1>8, <3>1 DEF NothingHidden
  <2> QED
    BY <1>2, <1>4, <1>5, <1>6, <1>7, <2>1, <2>2, <2>3, ClientKeeps
<1>9. CASE clients' # clients
  <2>1. PICK view, out : view = Merge(b.view, last.delta) /\ out = last.out
    OBVIOUS
  <2>2. /\ b.phase = "calling" /\ b.request.call = r.call
        /\ clients' = [clients EXCEPT ![i].phase = "idle", ![i].token = out,
                         ![i].view = Merge(@, last.delta)]
    BY <1>2, <1>9, <2>1 DEF ServeCached, Reply, AwaitsReply, ReplayDelta
  <2>3. view \in [Ops -> Statuses] /\ out \in Nat /\ out <= record.token
    <3>1. b.view \in [Ops -> Statuses] /\ last.delta \in SUBSET News
      BY <1>1, <1>4 DEF Clients, ServiceTypes
    <3>2. view \in [Ops -> Statuses]
      BY <2>1, <3>1, MergeTypes
    <3> QED
      BY <1>1, <2>1, <3>2 DEF ServiceTypes, SpentTokens
  <2>4. PICK c : c = [b EXCEPT !.phase = "idle", !.token = out, !.view = view]
    OBVIOUS
  <2>5. c \in Clients /\ c.phase = "idle" /\ c.token = out /\ c.view = view
    BY <1>4, <2>3, <2>4 DEF Clients
  <2>6. Becomes(i, c)
    <3>1. clients' = [s EXCEPT ![i] = c]
      BY <1>2, <1>4, <2>1, <2>2, <2>4
    <3> QED
      BY <1>2, <3>1 DEF Becomes
  <2>7. c.token <= record.token /\ c.phase # "calling"
    BY <2>3, <2>5
  <2>8. i = Len(clients) /\ gate = "INVOKING" => NothingHidden'
    <3> SUFFICES ASSUME i = Len(clients), gate = "INVOKING", NEW o \in Ops
                 PROVE  Known'[o] = record.status[o] \/ record.touched[o] > record.seen
      BY <1>5 DEF NothingHidden
    <3>1. clients'[i] = c /\ Len(clients') = Len(clients)
      BY <1>2, <1>4, <2>5, <2>6, ClientChanges
    <3>2. Known'[o] = view[o]
      BY <2>5, <3>1 DEF Known
    <3>3. Known[o] = view[o]
      BY <1>2, <1>3, <2>1, <2>2 DEF Known
    <3> QED
      BY <1>1, <1>2, <2>2, <3>2, <3>3 DEF NothingHidden
  <2>9. clients[i].phase = "calling" /\ HasApplied(clients[i].request.call)
    BY <1>1, <1>2, <1>3, <2>2 DEF SpentTokens
  <2> QED
    BY <1>2, <1>4, <1>5, <1>6, <2>5, <2>6, <2>7, <2>8, <2>9, ClientKeeps
<1> QED
  BY <1>8, <1>9

\* At most one invocation changes, which is over then.
LEMMA FailureChanges ==
  ASSUME ServiceTypes, clients' = clients \/ \E i \in DOMAIN clients : clients' = Failed(i)
  PROVE  /\ clients' \in Seq(Clients) /\ Len(clients') = Len(clients)
         /\ DOMAIN clients' = DOMAIN clients
         /\ \A i \in DOMAIN clients :
              \/ clients'[i] = clients[i]
              \/ clients'[i].phase = "over" /\ clients'[i].token = clients[i].token
<1>1. PICK s : s = clients
  OBVIOUS
<1>2. s \in Seq(Clients) /\ clients \in Seq(Clients)
  BY <1>1 DEF ServiceTypes
<1>3. CASE clients' = clients
  BY <1>1, <1>2, <1>3
<1>4. CASE \E i \in DOMAIN clients : clients' = Failed(i)
  <2>1. PICK i \in DOMAIN clients : clients' = Failed(i)
    BY <1>4
  <2>2. PICK c \in Clients : Becomes(i, c) /\ c.phase = "over" /\ c.token = clients[i].token
    BY <2>1, FailedBecomes
  <2>3. /\ clients' \in Seq(Clients) /\ Len(clients') = Len(clients)
        /\ DOMAIN clients' = DOMAIN clients
        /\ clients'[i] = c /\ \A k \in DOMAIN clients : k # i => clients'[k] = clients[k]
    BY <1>2, <2>2, ClientChanges
  <2> QED
    BY <2>2, <2>3
<1> QED
  BY <1>3, <1>4

\* The record goes on, and at most one invocation changes, which is over then.
LEMMA RecordKeeps ==
  ASSUME ServiceInv, IsSound(record'), GoesOn(record, record'),
         last' = last, gate' = gate, applied' = applied, calls' = calls,
         wire' \in SUBSET wire,
         \/ clients' = clients
         \/ \E i \in DOMAIN clients : clients' = Failed(i)
  PROVE  ServiceInv'
<1>1. IsSound(record) /\ ServiceTypes /\ SpentTokens /\ Awaited /\ AppliedOnce /\ NothingHidden
  BY DEF ServiceInv
<1>2. /\ clients' \in Seq(Clients) /\ Len(clients') = Len(clients)
      /\ DOMAIN clients' = DOMAIN clients
      /\ \A i \in DOMAIN clients :
           \/ clients'[i] = clients[i]
           \/ clients'[i].phase = "over" /\ clients'[i].token = clients[i].token
  BY <1>1, FailureChanges
<1>3. record'.token = record.token /\ record'.inv = record.inv
  BY DEF GoesOn
<1>4. ServiceTypes'
  <2>1. clients # <<>> => clients' # <<>>
    <3>1. Len(<<>>) = 0
      OBVIOUS
    <3>2. clients # <<>> => Len(clients) # 0
      <4>1. clients # <<>> => Len(clients) \in DOMAIN clients /\ DOMAIN clients = 1 .. Len(clients)
        BY <1>1, LastOfClients
      <4> QED
        BY <4>1
    <3> QED
      BY <1>2, <3>1, <3>2
  <2>2. gate' = "INVOKING" => clients' # <<>>
    BY <1>1, <2>1 DEF ServiceTypes
  <2> QED
    BY <1>1, <1>2, <1>3, <2>2 DEF ServiceTypes
<1>5. SpentTokens'
  <2>1. ASSUME NEW k \in DOMAIN clients'
        PROVE  /\ k \in DOMAIN clients /\ clients'[k].token <= record.token
               /\ clients'[k].phase = "calling" =>
                    clients[k].phase = "calling" /\ clients'[k].request = clients[k].request
    BY <1>1, <1>2 DEF SpentTokens
  <2>2. \A r \in wire' : r \in wire
    OBVIOUS
  <2> QED
    BY <1>1, <1>2, <1>3, <2>1, <2>2, TokensStay
<1>6. Awaited'
  <2>1. \A r \in wire' : r \in wire
    OBVIOUS
  <2> QED
    BY <1>1, <1>2, <1>3, <2>1, AwaitedStays
<1>7. NothingHidden'
  <2>1. clients # <<>> => Len(clients) \in DOMAIN clients
    BY <1>1, LastOfClients
  <2> QED
    BY <1>1, <1>2, <2>1, NothingGetsHidden
<1> QED
  BY <1>1, <1>4, <1>5, <1>6, <1>7 DEF ServiceInv, AppliedOnce

\* A request is refused; what was applied before a missing processor raised stays.
LEMMA RefusedKeeps ==
  ASSUME ServiceInv, NEW r \in wire, ServeRefused(r)
  PROVE  ServiceInv'
<1>1. IsSound(record) /\ ServiceTypes /\ SpentTokens
  BY DEF ServiceInv
<1>2. r.batch \in Seq(Updates) /\ r.inv \in DOMAIN clients
  BY <1>1, RequestTypes DEF Requests, SpentTokens, IsOfThePast
<1>3. IsSound(record') /\ GoesOn(record, record')
  <2>1. CASE Admitted(r)
    <3>1. record' = Upserts(record, r.batch)
      BY <2>1 DEF ServeRefused
    <3>2. PICK rec, batch : rec = record /\ batch = r.batch
      OBVIOUS
    <3> QED
      BY <1>1, <1>2, <3>1, <3>2, UpsertsKeep
  <2>2. CASE ~Admitted(r)
    <3>1. record' = record
      BY <2>2 DEF ServeRefused
    <3>2. record.counter \in Nat
      BY <1>1 DEF IsSound, Records
    <3> QED
      BY <1>1, <3>1, <3>2 DEF GoesOn
  <2> QED
    BY <2>1, <2>2
<1>4. clients' = clients \/ \E i \in DOMAIN clients : clients' = Failed(i)
  BY <1>2 DEF ServeRefused
<1>5. /\ last' = last /\ gate' = gate /\ applied' = applied /\ calls' = calls
      /\ wire' \in SUBSET wire
  BY DEF ServeRefused
<1> QED
  BY <1>3, <1>4, <1>5, RecordKeeps

\* A checkpoint: every token is spent, and what changed is in the reply.
LEMMA CheckpointKeeps ==
  ASSUME ServiceInv, NEW r \in wire, ServeCheckpoint(r)
  PROVE  ServiceInv'
<1>1. /\ IsSound(record) /\ ServiceTypes /\ SpentTokens /\ Awaited /\ AppliedOnce
      /\ NothingHidden /\ record \in Records /\ record.token \in Nat
  BY DEF ServiceInv, IsSound, Records
<1>2. PICK s, b, i : s = clients /\ i = r.inv /\ b = s[i]
  OBVIOUS
<1>3. /\ IsOfThePast(r) /\ r \in Requests /\ r.token = record.token /\ r.inv = record.inv
      /\ r.call \in Nat /\ r.batch \in Seq(Updates) /\ r.token \in Nat /\ r.inv \in Nat
  BY <1>1, RequestTypes DEF SpentTokens, ServeCheckpoint, Admitted, MayWrite, Requests
<1>4. /\ s \in Seq(Clients) /\ b \in Clients /\ i \in DOMAIN s /\ i = Len(s)
      /\ DOMAIN s = 1 .. Len(s) /\ Len(s) \in Nat
  BY <1>1, <1>2, <1>3, RequestTypes DEF ServiceTypes, IsOfThePast
<1>5. ~HasApplied(r.call) /\ r.call \in 1 .. calls /\ calls \in Nat
  BY <1>1, <1>3 DEF IsOfThePast, ServiceTypes
<1>6. PICK done, new, out, batch : /\ batch = r.batch /\ done = Upserts(record, batch)
                                   /\ new = Committed(record, batch) /\ out = record.token + 1
  OBVIOUS
<1>7. /\ IsSound(done) /\ GoesOn(record, done)
      /\ IsSound(new) /\ new.token = out /\ new.inv = record.inv /\ new.seen = done.counter
      /\ new.status = done.status /\ new.touched = done.touched /\ new.order = done.order
      /\ out \in Nat /\ record' = new
  <2>1. IsSound(done) /\ GoesOn(record, done)
    BY <1>1, <1>3, <1>6, UpsertsKeep
  <2>2. /\ IsSound(new) /\ new.token = out /\ new.inv = record.inv
        /\ new.seen = done.counter /\ new.status = done.status /\ new.touched = done.touched
        /\ new.order = done.order
    BY <1>1, <1>3, <1>6, <2>1, CommittedFacts
  <2> QED
    BY <1>1, <1>6, <2>1, <2>2 DEF ServeCheckpoint
<1>8. PICK ids : ids = {o \in Ops : IsListed(done, o) /\ done.touched[o] > done.seen}
  OBVIOUS
<1>9. PICK delta : delta = Told(done, ids)
  OBVIOUS
<1>10. delta \in SUBSET News
  BY <1>7, <1>8, <1>9, ToldTypes DEF IsSound
<1>11. /\ last' = [call |-> r.call, inv |-> r.inv, token |-> r.token, out |-> out,
                   delta |-> delta]
       /\ gate' = gate /\ calls' = calls /\ wire' = wire \ {r}
       /\ applied' = Append(applied, r.call)
  BY <1>6, <1>7, <1>8, <1>9 DEF ServeCheckpoint, Unseen
<1>12. PICK view : view = Merge(b.view, delta)
  OBVIOUS
<1>13. view \in [Ops -> Statuses]
  BY <1>4, <1>10, <1>12, MergeTypes DEF Clients
<1>14. PICK c : c = [b EXCEPT !.phase = "idle", !.token = out, !.view = view]
  OBVIOUS
<1>15. c \in Clients /\ c.phase = "idle" /\ c.token = out /\ c.view = view
  BY <1>4, <1>7, <1>13, <1>14 DEF Clients
<1>16. \/ clients' = clients
       \/ b.phase = "calling" /\ b.request.call = r.call /\ Becomes(i, c)
  <2>1. Reply(r, last'.out, last'.delta)
    BY DEF ServeCheckpoint
  <2>2. last'.out = out /\ last'.delta = delta
    BY <1>11
  <2>3. ASSUME clients' # clients
        PROVE  /\ b.phase = "calling" /\ b.request.call = r.call
               /\ clients' = [clients EXCEPT ![i].phase = "idle", ![i].token = out,
                                ![i].view = Merge(@, delta)]
    BY <1>2, <2>1, <2>2, <2>3 DEF Reply, AwaitsReply
  <2>4. ASSUME clients' # clients PROVE Becomes(i, c)
    <3>1. clients' = [s EXCEPT ![i] = c]
      BY <1>2, <1>4, <1>12, <1>14, <2>3, <2>4
    <3> QED
      BY <1>2, <3>1 DEF Becomes
  <2> QED
    BY <2>3, <2>4
<1>17. /\ clients' \in Seq(Clients) /\ Len(clients') = Len(clients) /\ clients' # <<>>
       /\ DOMAIN clients' = DOMAIN clients /\ DOMAIN clients = 1 .. Len(clients)
       /\ \A k \in DOMAIN clients : \/ clients'[k] = clients[k]
                                    \/ k = i /\ clients'[k] = c
  <2>1. CASE clients' = clients
    BY <1>2, <1>4, <2>1
  <2>2. CASE Becomes(i, c)
    <3>1. /\ clients' \in Seq(Clients) /\ Len(clients') = Len(clients) /\ Len(clients) # 0
          /\ DOMAIN clients' = DOMAIN clients
          /\ clients'[i] = c /\ \A k \in DOMAIN clients : k # i => clients'[k] = clients[k]
      BY <1>2, <1>4, <1>15, <2>2, ClientChanges
    <3> QED
      BY <1>2, <1>4, <3>1
  <2> QED
    BY <1>16, <2>1, <2>2
<1>18. /\ applied' \in Seq(Nat) /\ DOMAIN applied' = 1 .. Len(applied) + 1
       /\ Len(applied) \in Nat /\ DOMAIN applied = 1 .. Len(applied)
       /\ applied'[Len(applied) + 1] = r.call
       /\ \A k \in DOMAIN applied : applied'[k] = applied[k]
  <2>1. PICK h, n : h = applied /\ n = r.call
    OBVIOUS
  <2>2. h \in Seq(Nat) /\ n \in Nat
    BY <1>1, <1>3, <2>1 DEF ServiceTypes
  <2>3. /\ Append(h, n) \in Seq(Nat) /\ DOMAIN Append(h, n) = 1 .. Len(h) + 1
        /\ Len(h) \in Nat /\ DOMAIN h = 1 .. Len(h) /\ Append(h, n)[Len(h) + 1] = n
        /\ \A k \in DOMAIN h : Append(h, n)[k] = h[k]
    BY <2>2
  <2> QED
    BY <1>11, <2>1, <2>3
<1>19. ServiceTypes'
  <2>1. last' \in [call : Nat, inv : Nat, token : Nat, out : Nat, delta : SUBSET News]
    BY <1>3, <1>7, <1>10, <1>11
  <2>2. record'.inv = Len(clients')
    BY <1>1, <1>7, <1>17 DEF ServiceTypes
  <2> QED
    BY <1>1, <1>11, <1>17, <1>18, <2>1, <2>2 DEF ServiceTypes
<1>20. ASSUME NEW q \in Requests, IsOfThePast(q)
       PROVE  IsOfThePast(q)' /\ q.token < record'.token
  <2>1. q.token <= record.token /\ record'.token = record.token + 1 /\ q.token \in Nat
    BY <1>6, <1>7, <1>20 DEF IsOfThePast, Requests
  <2>2. q.token < record'.token
    BY <1>1, <2>1
  <2>3. q.inv \in DOMAIN clients' /\ q.call \in 1 .. calls'
    BY <1>11, <1>17, <1>20 DEF IsOfThePast
  <2> QED
    BY <1>1, <1>7, <2>1, <2>2, <2>3 DEF IsOfThePast
<1>21. SpentTokens'
  <2>1. \A k \in DOMAIN applied' : applied'[k] <= calls'
    <3>1. \A k \in DOMAIN applied : applied[k] <= calls
      BY <1>1 DEF SpentTokens
    <3>2. \A k \in DOMAIN applied' : k \in DOMAIN applied \/ k = Len(applied) + 1
      BY <1>18
    <3> QED
      BY <1>3, <1>5, <1>11, <1>18, <3>1, <3>2
  <2>2. \A q \in wire' : IsOfThePast(q)'
    BY <1>1, <1>11, <1>20, RequestTypes DEF SpentTokens
  <2>3. ASSUME NEW k \in DOMAIN clients'
        PROVE  /\ clients'[k].token <= record'.token
               /\ clients'[k].phase = "calling" => IsOfThePast(clients[k].request)'
                                                  /\ clients'[k].request.inv = k
    <3>1. CASE clients'[k] = c
      BY <1>7, <1>15, <3>1
    <3>2. CASE clients'[k] = clients[k]
      <4>1. /\ clients[k].token <= record.token /\ clients[k].token \in Nat
            /\ clients[k].request \in Requests
            /\ clients[k].phase = "calling" => IsOfThePast(clients[k].request)
                                               /\ clients[k].request.inv = k
        BY <1>1, <1>17, RequestTypes DEF SpentTokens, Clients
      <4>2. clients'[k].token <= record'.token
        BY <1>1, <1>6, <1>7, <3>2, <4>1
      <4>3. PICK q : q = clients[k].request
        OBVIOUS
      <4>4. clients'[k].phase = "calling" => IsOfThePast(q)' /\ clients'[k].request.inv = k
        BY <1>20, <3>2, <4>1, <4>3
      <4>5. IsOfThePast(q)' => IsOfThePast(clients[k].request)'
        BY <3>2, <4>3 DEF IsOfThePast, HasApplied
      <4> QED
        BY <4>2, <4>4, <4>5
    <3> QED
      BY <1>17, <3>1, <3>2
  <2>4. last'.call # 0 => HasApplied(last.call)'
    BY <1>11, <1>18 DEF HasApplied
  <2>5. last'.out <= record'.token
    BY <1>7, <1>11
  <2> QED
    BY <2>1, <2>2, <2>3, <2>4, <2>5 DEF SpentTokens
<1>22. Awaited'
  BY <1>1, <1>11, <1>20, RequestTypes DEF SpentTokens, Awaited, IsAwaited
<1>23. AppliedOnce'
  <2>1. \A k \in DOMAIN applied : applied[k] # r.call
    BY <1>5 DEF HasApplied
  <2>2. \A k \in DOMAIN applied' : k \in DOMAIN applied \/ k = Len(applied) + 1
    BY <1>18
  <2> QED
    BY <1>1, <1>18, <2>1, <2>2 DEF AppliedOnce
<1>24. NothingHidden'
  <2> SUFFICES ASSUME gate = "INVOKING", NEW o \in Ops, clients'[Len(clients)].phase # "over"
               PROVE  Known'[o] = record'.status[o]
    BY <1>11, <1>17 DEF NothingHidden
  <2>1. b.phase = "calling" /\ b.request.call = r.call
    <3>1. IsAwaited(r)
      BY <1>1 DEF Awaited
    <3> QED
      BY <1>1, <1>2, <1>3, <1>4, <1>16, <3>1 DEF IsAwaited
  <2>2. last.call # r.call
    BY <1>1, <1>5 DEF SpentTokens
  <2>3. b.view[o] = record.status[o] \/ record.touched[o] > record.seen
    <3>1. Known[o] = b.view[o]
      BY <1>2, <1>4, <2>1, <2>2 DEF Known
    <3> QED
      BY <1>1, <1>2, <1>4, <2>1, <3>1 DEF NothingHidden
  <2>4. Known'[o] = view[o]
    <3>1. CASE clients' = clients
      BY <1>2, <1>4, <1>11, <1>12, <2>1, <3>1 DEF Known
    <3>2. CASE Becomes(i, c)
      <4>1. clients'[Len(clients')] = c
        BY <1>2, <1>4, <1>15, <3>2, ClientChanges
      <4> QED
        BY <1>15, <4>1 DEF Known
    <3> QED
      BY <1>16, <3>1, <3>2
  <2>5. view[o] = IF o \in ids THEN done.status[o] ELSE b.view[o]
    BY <1>9, <1>12, MergeTold
  <2>6. ASSUME o \notin ids PROVE b.view[o] = done.status[o]
    <3>1. ~IsListed(done, o) \/ ~(done.touched[o] > done.seen)
      BY <1>8, <2>6
    <3>2. /\ done.touched[o] \in Nat /\ record.touched[o] \in Nat /\ record.counter \in Nat
          /\ record.seen \in Nat /\ record.seen <= record.counter /\ done.seen = record.seen
      BY <1>1, <1>7 DEF IsSound, Records, GoesOn
    <3>3. ~(done.touched[o] > record.seen)
      BY <1>7, <3>1, <3>2 DEF IsSound
    <3>4. done.status[o] = record.status[o] /\ done.touched[o] = record.touched[o]
      BY <1>7, <3>2, <3>3 DEF GoesOn
    <3> QED
      BY <2>3, <3>2, <3>3, <3>4
  <2> QED
    BY <1>7, <2>4, <2>5, <2>6
<1> QED
  BY <1>7, <1>19, <1>21, <1>22, <1>23, <1>24 DEF ServiceInv

\* The invocation ends or is given up: what it was told of is noted anew.
LEMMA FinishKeeps ==
  ASSUME ServiceInv, Finish
  PROVE  ServiceInv'
<1>1. /\ IsSound(record) /\ ServiceTypes /\ SpentTokens /\ Awaited /\ AppliedOnce
      /\ NothingHidden /\ record \in Records
  BY DEF ServiceInv, IsSound
<1>2. PICK new : new = [record EXCEPT !.updated = {}]
  OBVIOUS
<1>3. /\ record' = new /\ gate = "INVOKING" /\ gate' = "PRE_INVOKE" /\ last' = last
      /\ wire' = wire /\ calls' = calls /\ applied' = applied
  BY <1>2 DEF Finish
<1>4. /\ new \in Records /\ new.status = record.status /\ new.order = record.order
      /\ new.touched = record.touched /\ new.counter = record.counter
      /\ new.seen = record.seen /\ new.token = record.token /\ new.inv = record.inv
      /\ new.closed = record.closed
  BY <1>1, <1>2 DEF Records
<1>5. IsSound(new)
  <2>1. \A o \in Ops : IsListed(record, o) <=> IsListed(new, o)
    BY <1>4 DEF IsListed
  <2> QED
    BY <1>1, <1>4, <2>1 DEF IsSound
<1>6. clients' = clients \/ \E i \in DOMAIN clients : clients' = Failed(i)
  <2>1. Len(clients) \in DOMAIN clients
    BY <1>1, <1>3, LastOfClients DEF ServiceTypes
  <2> QED
    BY <2>1 DEF Finish
<1>7. /\ clients' \in Seq(Clients) /\ Len(clients') = Len(clients)
      /\ DOMAIN clients' = DOMAIN clients
      /\ \A i \in DOMAIN clients :
           \/ clients'[i] = clients[i]
           \/ clients'[i].phase = "over" /\ clients'[i].token = clients[i].token
  BY <1>1, <1>6, FailureChanges
<1>8. ServiceTypes'
  BY <1>1, <1>3, <1>4, <1>7 DEF ServiceTypes
<1>9. SpentTokens'
  <2>1. ASSUME NEW k \in DOMAIN clients'
        PROVE  /\ k \in DOMAIN clients /\ clients'[k].token <= record.token
               /\ clients'[k].phase = "calling" =>
                    clients[k].phase = "calling" /\ clients'[k].request = clients[k].request
    BY <1>1, <1>7 DEF SpentTokens
  <2> QED
    BY <1>1, <1>3, <1>4, <1>7, <2>1, TokensStay
<1>10. Awaited'
  BY <1>1, <1>3, <1>4, <1>7, AwaitedStays
<1>11. NothingHidden' /\ AppliedOnce'
  BY <1>1, <1>3 DEF NothingHidden, AppliedOnce
<1> QED
  BY <1>3, <1>5, <1>8, <1>9, <1>10, <1>11 DEF ServiceInv

\* The service completes an operation.
LEMMA CompleteKeeps ==
  ASSUME ServiceInv, NEW o \in Ops, Complete(o)
  PROVE  ServiceInv'
<1>1. IsSound(record) /\ ServiceTypes
  BY DEF ServiceInv
<1>2. PICK status \in Outcomes(o) :
        record' = [Touch(record, o, status) EXCEPT
                     !.updated = IF Kind[o] = "callback" THEN @ ELSE @ \cup {o}]
  BY DEF Complete
<1>3. status \in Statuses /\ record.status[o] \in {"STARTED", "PENDING"}
  BY <1>2 DEF Outcomes, Statuses, Terminal
<1>4. IsListed(record, o)
  BY <1>1, <1>3 DEF IsSound
<1>5. PICK mid, updated : /\ mid = Touch(record, o, status)
                          /\ updated = IF Kind[o] = "callback" THEN mid.updated
                                       ELSE mid.updated \cup {o}
  OBVIOUS
<1>6. IsSound(mid) /\ GoesOn(record, mid)
  BY <1>1, <1>3, <1>4, <1>5, TouchKeeps
<1>7. record' = [mid EXCEPT !.updated = updated]
  BY <1>2, <1>5
<1>8. mid \in Records /\ updated \in SUBSET Ops
  BY <1>5, <1>6 DEF IsSound, Records
<1>9. /\ record' \in Records /\ record'.status = mid.status /\ record'.order = mid.order
      /\ record'.touched = mid.touched /\ record'.counter = mid.counter
      /\ record'.seen = mid.seen /\ record'.token = mid.token /\ record'.inv = mid.inv
      /\ record'.closed = mid.closed
  BY <1>7, <1>8 DEF Records
<1>10. IsSound(record')
  <2>1. \A p \in Ops : IsListed(mid, p) <=> IsListed(record', p)
    BY <1>9 DEF IsListed
  <2> QED
    BY <1>6, <1>9, <2>1 DEF IsSound
<1>11. GoesOn(record, record')
  BY <1>6, <1>9 DEF GoesOn
<1>12. /\ last' = last /\ gate' = gate /\ applied' = applied /\ calls' = calls
       /\ wire' \in SUBSET wire /\ clients' = clients
  BY DEF Complete
<1> QED
  BY <1>10, <1>11, <1>12, RecordKeeps

-----------------------------------------------------------------------------
\* The invariant, and what follows.

\* The invariant holds of a new execution.
LEMMA InitService ==
  ASSUME Init
  PROVE  ServiceInv
<1>1. record \in Records
  <2>1. PICK st, tc : st = [o \in Ops |-> "absent"] /\ tc = [o \in Ops |-> 0]
    OBVIOUS
  <2>2. st \in [Ops -> Statuses] /\ tc \in [Ops -> Nat]
    BY <2>1 DEF Statuses
  <2>3. record = [status |-> st, order |-> <<>>, touched |-> tc, counter |-> 0, seen |-> 0,
                  token |-> 0, inv |-> 0, closed |-> FALSE, updated |-> {}]
    BY <2>1 DEF Init
  <2>4. <<>> \in Seq(Ops)
    OBVIOUS
  <2> QED
    BY <2>2, <2>3, <2>4 DEF Records
<1>2. /\ record.status = [o \in Ops |-> "absent"] /\ record.touched = [o \in Ops |-> 0]
      /\ record.counter = 0 /\ record.seen = 0 /\ record.token = 0 /\ record.inv = 0
  BY DEF Init
<1>3. IsSound(record)
  BY <1>1, <1>2 DEF IsSound
<1>4. /\ last = [call |-> 0, inv |-> 0, token |-> 0, out |-> 0, delta |-> {}]
      /\ gate = "PRE_INVOKE" /\ clients = <<>> /\ wire = {} /\ calls = 0 /\ applied = <<>>
  BY DEF Init
<1>5. ServiceTypes
  <2>1. last \in [call : Nat, inv : Nat, token : Nat, out : Nat, delta : SUBSET News]
    BY <1>4
  <2>2. clients \in Seq(Clients) /\ applied \in Seq(Nat) /\ Len(clients) = 0
    BY <1>4
  <2> QED
    BY <1>2, <1>4, <2>1, <2>2 DEF ServiceTypes
<1>6. SpentTokens
  <2>1. DOMAIN applied = {} /\ DOMAIN clients = {} /\ last.call = 0 /\ last.out = 0
    BY <1>4
  <2> QED
    BY <1>2, <1>4, <2>1 DEF SpentTokens
<1>7. Awaited /\ AppliedOnce /\ NothingHidden
  <2>1. DOMAIN applied = {}
    BY <1>4
  <2> QED
    BY <1>4, <2>1 DEF Awaited, AppliedOnce, NothingHidden
<1> QED
  BY <1>3, <1>5, <1>6, <1>7 DEF ServiceInv

\* The invariant is kept by every step.
LEMMA NextService ==
  ASSUME ServiceInv, [Next]_vars
  PROVE  ServiceInv'
<1>1. CASE Begin
  BY <1>1, BeginKeeps
<1>2. CASE Finish
  BY <1>2, FinishKeeps
<1>3. CASE ClientStep
  <2>1. PICK i \in DOMAIN clients :
          FetchPage(i) \/ Resend(i) \/ \E batch \in Batches : Send(i, batch)
    BY <1>3 DEF ClientStep
  <2> QED
    BY <2>1, FetchKeeps, ResendKeeps, SendKeeps
<1>4. CASE ServiceStep
  <2>1. PICK r \in wire : ServeCached(r) \/ ServeRefused(r) \/ ServeCheckpoint(r)
    BY <1>4 DEF ServiceStep
  <2> QED
    BY <2>1, CachedKeeps, RefusedKeeps, CheckpointKeeps
<1>5. CASE \E o \in Ops : Complete(o)
  BY <1>5, CompleteKeeps
<1>6. CASE UNCHANGED vars
  <2>1. Known' = Known
    BY <1>6 DEF vars, Known
  <2> QED
    BY <1>6, <2>1 DEF vars, ServiceInv, ServiceTypes, SpentTokens, IsOfThePast, HasApplied,
                      Awaited, IsAwaited, AppliedOnce, NothingHidden
<1> QED
  BY <1>1, <1>2, <1>3, <1>4, <1>5, <1>6 DEF Next

\* The invariant holds in every state.
LEMMA ServiceInvHolds == Spec => []ServiceInv
<1>1. Init => ServiceInv
  BY InitService
<1>2. ServiceInv /\ [Next]_vars => ServiceInv'
  BY NextService
<1> QED
  BY <1>1, <1>2, PTL DEF Spec

\* What the record, the gate and the invocations hold has its type.
THEOREM ServiceTypeCorrect == Spec => []TypeOK
<1>1. ASSUME ServiceInv PROVE TypeOK
  <2>1. IsSound(record) /\ ServiceTypes /\ record \in Records
    BY <1>1 DEF ServiceInv, IsSound
  <2>2. record.touched \in [Ops -> 0 .. record.counter] /\ record.seen \in 0 .. record.counter
    BY <2>1 DEF IsSound, Records
  <2>3. \A i \in DOMAIN clients : clients[i] \in Clients
    BY <2>1, RequestTypes
  <2>4. \A i \in DOMAIN clients : clients[i].phase \in {"paging", "idle", "calling", "over"}
    BY <2>3 DEF Clients
  <2> QED
    BY <2>1, <2>2, <2>4 DEF TypeOK, ServiceTypes, Records, Statuses
<1> QED
  BY <1>1, ServiceInvHolds, PTL

\* However often a request is sent, and however late it arrives, its updates are applied at most
\* once (core.py:52-75).
THEOREM RepeatsAreAppliedOnce == Spec => []AppliedOnce
<1>1. ServiceInv => AppliedOnce
  BY DEF ServiceInv
<1> QED
  BY <1>1, ServiceInvHolds, PTL

\* Every change of the record that the running invocation does not know of yet reaches it: on a
\* page still to fetch, or with its next reply (execution.py:659-681).
THEOREM ChangesReachTheInvocation == Spec => []NothingHidden
<1>1. ServiceInv => NothingHidden
  BY DEF ServiceInv
<1> QED
  BY <1>1, ServiceInvHolds, PTL

\* No action of any type is accepted from a terminal status.
LEMMA TerminalIsNotAccepted ==
  ASSUME NEW kind \in Kinds, NEW act \in DOMAIN Accepted[kind], NEW status \in Terminal
  PROVE  status \notin Accepted[kind][act]
<1>1. CASE kind = "step"
  BY <1>1 DEF Accepted, StepTransitions, Terminal
<1>2. CASE kind = "context"
  BY <1>2 DEF Accepted, ContextTransitions, Terminal
<1>3. CASE kind = "wait"
  BY <1>3 DEF Accepted, WaitTransitions, Terminal
<1>4. CASE kind = "invoke"
  BY <1>4 DEF Accepted, InvokeTransitions, Terminal
<1>5. CASE kind = "callback"
  BY <1>5 DEF Accepted, CallbackTransitions, Terminal
<1> QED
  BY <1>1, <1>2, <1>3, <1>4, <1>5 DEF Kinds

\* An operation that has ended is changed by no update that the validators let through, and by
\* no completion of the service.
LEMMA FinalStaysByStep ==
  ASSUME ServiceInv, [Next]_vars, NEW o \in Ops, record.status[o] \in Terminal
  PROVE  record'.status[o] = record.status[o]
<1>1. /\ IsSound(record) /\ ServiceTypes /\ record \in Records
  BY DEF ServiceInv, IsSound
<1>2. ASSUME NEW r \in wire, Admitted(r)
      PROVE  Upserts(record, r.batch).status[o] = record.status[o]
  <2>1. PICK batch : batch = r.batch
    OBVIOUS
  <2>2. batch \in Seq(Updates)
    BY <1>1, <2>1, RequestTypes DEF Requests
  <2>3. ASSUME NEW i \in DOMAIN batch, batch[i].op = o, batch[i].op # "execution"
        PROVE  FALSE
    <3>1. record.status[o] \in Accepted[Kind[o]][batch[i].act]
      BY <1>2, <2>1, <2>3 DEF Admitted, IsValid
    <3>2. batch[i] \in Updates
      BY <2>2, <2>3
    <3>3. batch[i].act \in DOMAIN Accepted[Kind[o]]
      <4>1. batch[i] \notin [op : {"execution"}, act : {"SUCCEED", "FAIL"}]
        BY <2>3
      <4>2. PICK p \in Ops : batch[i] \in [op : {p}, act : DOMAIN Accepted[Kind[p]]]
        BY <3>2, <4>1 DEF Updates
      <4> QED
        BY <2>3, <4>2
    <3>4. Kind[o] \in Kinds
      BY ServiceAssumption
    <3> QED
      BY <3>1, <3>3, <3>4, TerminalIsNotAccepted
  <2> QED
    BY <1>1, <2>1, <2>2, <2>3, UpsertsKeep
<1>3. CASE Begin
  BY <1>1, <1>3 DEF Begin, Records
<1>4. CASE Finish
  BY <1>1, <1>4 DEF Finish, Records
<1>5. CASE ClientStep
  <2>1. record' = record
    <3>1. PICK i \in DOMAIN clients :
            FetchPage(i) \/ Resend(i) \/ \E batch \in Batches : Send(i, batch)
      BY <1>5 DEF ClientStep
    <3>2. CASE FetchPage(i)
      BY <3>2 DEF FetchPage
    <3>3. CASE Resend(i)
      BY <3>3 DEF Resend
    <3>4. CASE \E batch \in Batches : Send(i, batch)
      BY <3>4 DEF Send
    <3> QED
      BY <3>1, <3>2, <3>3, <3>4
  <2> QED
    BY <2>1
<1>6. CASE ServiceStep
  <2>1. PICK r \in wire : ServeCached(r) \/ ServeRefused(r) \/ ServeCheckpoint(r)
    BY <1>6 DEF ServiceStep
  <2>2. CASE ServeCached(r)
    BY <2>2 DEF ServeCached
  <2>3. CASE ServeRefused(r)
    BY <1>2, <2>3 DEF ServeRefused
  <2>4. CASE ServeCheckpoint(r)
    <3>1. record' = Committed(record, r.batch) /\ Admitted(r)
      BY <2>4 DEF ServeCheckpoint
    <3>2. r.batch \in Seq(Updates)
      BY <1>1, RequestTypes DEF Requests
    <3>3. PICK batch, done : batch = r.batch /\ done = Upserts(record, batch)
      OBVIOUS
    <3>4. Committed(record, batch).status = done.status
      BY <1>1, <3>2, <3>3, CommittedFacts
    <3> QED
      BY <1>2, <3>1, <3>3, <3>4
  <2> QED
    BY <2>1, <2>2, <2>3, <2>4
<1>7. CASE \E p \in Ops : Complete(p)
  <2>1. PICK p \in Ops : Complete(p)
    BY <1>7
  <2>2. PICK status \in Outcomes(p) :
          record' = [Touch(record, p, status) EXCEPT
                       !.updated = IF Kind[p] = "callback" THEN @ ELSE @ \cup {p}]
    BY <2>1 DEF Complete
  <2>3. status \in Statuses /\ record.status[p] \in {"STARTED", "PENDING"}
    BY <2>2 DEF Outcomes, Statuses, Terminal
  <2>4. IsListed(record, p) /\ p # o
    BY <1>1, <2>3 DEF IsSound, Terminal
  <2>5. PICK mid : mid = Touch(record, p, status)
    OBVIOUS
  <2>6. IsSound(mid) /\ mid.status[o] = record.status[o]
    BY <1>1, <2>3, <2>4, <2>5, TouchKeeps
  <2> QED
    BY <2>2, <2>5, <2>6 DEF IsSound, Records
<1>8. CASE UNCHANGED vars
  BY <1>8 DEF vars
<1> QED
  BY <1>3, <1>4, <1>5, <1>6, <1>7, <1>8 DEF Next

\* An operation that has ended keeps its status, whatever batch, retry or completion comes
\* afterwards (checkpoint/validators).
THEOREM FinalOperationsStay == Spec => FinalStays
<1>1. ServiceInv /\ [Next]_vars =>
        [\A o \in Ops : record.status[o] \in Terminal => record'.status[o] = record.status[o]]_vars
  BY FinalStaysByStep
<1> QED
  BY <1>1, ServiceInvHolds, PTL DEF Spec, FinalStays

=============================================================================
