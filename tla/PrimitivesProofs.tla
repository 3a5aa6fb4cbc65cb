--------------------------- MODULE PrimitivesProofs ---------------------------
(***************************************************************************)
(* What threads lock, count, tally and queue with: the ordered lock and    *)
(* counter for every set of threads and any number of acquires, breaks and *)
(* resets; the tally of a batch for every completion configuration and     *)
(* number of branches; and the worker lanes of the local runner for any    *)
(* callers, tasks, workers and limit of attempts.                          *)
(***************************************************************************)
EXTENDS OrderedCounter, CompletionTally, WorkerLanes, Integers, TLAPS

-----------------------------------------------------------------------------
(* OrderedLock: mutual exclusion and first-come-first-served order *)

\* The line holds the Events in ticket order, and every waiting caller is in it.
Line ==
  /\ \A i, j \in 1 .. Len(waiters) : i < j => waiters[i] < waiters[j]
  /\ \A t \in Threads : pc[t] = "waiting" => \E i \in 1 .. Len(waiters) : waiters[i] = ticket[t]

\* No two threads in the lock have the same Event.
Distinct ==
  \A t, u \in Threads :
    pc[t] # "outside" /\ pc[u] # "outside" /\ ticket[t] = ticket[u] => t = u

\* Only the head of the line has been let in, unless the lock broke, and then nobody is in.
OneLetIn ==
  /\ ~broken => \A i \in 2 .. Len(waiters) : waiters[i] \notin set
  /\ broken => \A t \in Threads : pc[t] # "holding"

\* Those let in came before all that are in the line and have not been.
GrantedFirst ==
  /\ \A i \in 1 .. Len(granted) : \A j \in 1 .. Len(waiters) : granted[i] <= waiters[j]
  /\ \A t \in Threads : pc[t] = "waiting" => \A i \in 1 .. Len(granted) : granted[i] # ticket[t]

LockInv == LockTypeOK /\ Line /\ Distinct /\ OneLetIn /\ GrantedFirst /\ GrantedInArrivalOrder

\* What popleft does to the line: every Event but the head stays, one place nearer.
LEMMA TailFacts ==
  ASSUME NEW S, NEW s \in Seq(S), s # <<>>
  PROVE  /\ Tail(s) \in Seq(S) /\ Len(Tail(s)) = Len(s) - 1 /\ Head(s) = s[1] /\ Len(s) >= 1
         /\ Len(s) \in Nat
         /\ \A i \in 1 .. Len(s) - 1 : Tail(s)[i] = s[i + 1]
OBVIOUS

LEMMA AppendFacts ==
  ASSUME NEW S, NEW s \in Seq(S), NEW e \in S
  PROVE  /\ Append(s, e) \in Seq(S) /\ Len(Append(s, e)) = Len(s) + 1 /\ Len(s) \in Nat
         /\ \A i \in 1 .. Len(s) : Append(s, e)[i] = s[i]
         /\ Append(s, e)[Len(s) + 1] = e
OBVIOUS

LEMMA WiderRange ==
  ASSUME NEW n \in Nat, NEW s \in Seq(1 .. n)
  PROVE  s \in Seq(1 .. n + 1)
<1>1. 1 .. n \subseteq 1 .. n + 1
  OBVIOUS
<1> QED
  BY <1>1

\* A caller in the body has the head of the line, so at most one is.
LEMMA ExclusionFromLine == LockInv => MutualExclusion
  BY DEF LockInv, LockTypeOK, Distinct, MutualExclusion

LEMMA InitLock == LockInit => LockInv
<1> SUFFICES ASSUME LockInit PROVE LockInv
  OBVIOUS
<1>1. waiters = <<>> /\ granted = <<>> /\ Len(waiters) = 0 /\ Len(granted) = 0
  BY DEF LockInit
<1>2. waiters \in Seq(1 .. tickets) /\ granted \in Seq(1 .. tickets)
  <2>1. <<>> \in Seq(1 .. tickets)
    OBVIOUS
  <2> QED
    BY <2>1, <1>1
<1>3. LockTypeOK
  <2>1. /\ pc \in [Threads -> {"outside", "waiting", "holding", "leaving"}]
        /\ tickets \in Nat /\ set \subseteq 1 .. tickets /\ broken \in BOOLEAN
    BY DEF LockInit
  <2>3. ticket \in [Threads -> 0 .. tickets]
    <3>1. 0 \in 0 .. tickets
      BY DEF LockInit
    <3> QED
      BY <3>1 DEF LockInit
  <2>2. \A t \in Threads : pc[t] = "outside"
    BY DEF LockInit
  <2> QED
    BY <1>2, <2>1, <2>2, <2>3 DEF LockTypeOK
<1> QED
  BY <1>1, <1>3
     DEF LockInit, LockInv, Line, Distinct, OneLetIn, GrantedFirst, GrantedInArrivalOrder

LEMMA AcquireKeeps ==
  ASSUME LockInv, NEW t \in Threads, Acquire(t)
  PROVE  LockInv'
<1> USE DEF LockInv
<1>1. /\ tickets \in Nat /\ tickets' = tickets + 1 /\ tickets' \in Nat
      /\ waiters' = Append(waiters, tickets') /\ waiters \in Seq(1 .. tickets)
      /\ granted' = granted /\ broken' = broken /\ ~broken
      /\ pc' = [pc EXCEPT ![t] = "waiting"] /\ ticket' = [ticket EXCEPT ![t] = tickets']
      /\ pc[t] = "outside"
  BY DEF Acquire, LockTypeOK
<1>2. waiters \in Seq(1 .. tickets') /\ granted \in Seq(1 .. tickets')
  BY <1>1, WiderRange DEF LockTypeOK
<1>3. tickets' \in 1 .. tickets'
  BY <1>1
<1>4. /\ waiters' \in Seq(1 .. tickets') /\ Len(waiters') = Len(waiters) + 1
      /\ Len(waiters) \in Nat
      /\ \A i \in 1 .. Len(waiters) : waiters'[i] = waiters[i]
      /\ waiters'[Len(waiters) + 1] = tickets'
  BY <1>1, <1>2, <1>3, AppendFacts
<1>5. \A i \in 1 .. Len(waiters) : waiters[i] \in 1 .. tickets
  BY <1>1
<1>6. \A i \in 1 .. Len(granted) : granted[i] \in 1 .. tickets
  BY DEF LockTypeOK
<1>7. Head(waiters') = IF waiters = <<>> THEN tickets' ELSE Head(waiters)
  BY <1>1, <1>4
<1>8. LockTypeOK'
  <2>1. pc' \in [Threads -> {"outside", "waiting", "holding", "leaving"}]
    BY <1>1 DEF LockTypeOK
  <2>2. ticket' \in [Threads -> 0 .. tickets']
    BY <1>1 DEF LockTypeOK
  <2>3. set' \subseteq 1 .. tickets'
    BY <1>1 DEF Acquire, LockTypeOK
  <2>4. \A u \in Threads : pc'[u] \in {"holding", "leaving"}
                             => waiters' # <<>> /\ Head(waiters') = ticket'[u]
    <3> SUFFICES ASSUME NEW u \in Threads, pc'[u] \in {"holding", "leaving"}
                 PROVE  waiters' # <<>> /\ Head(waiters') = ticket'[u]
      OBVIOUS
    <3>1. u # t /\ pc[u] \in {"holding", "leaving"} /\ ticket'[u] = ticket[u]
      BY <1>1 DEF LockTypeOK
    <3>2. waiters # <<>> /\ Head(waiters) = ticket[u]
      BY <3>1 DEF LockTypeOK
    <3> QED
      BY <3>1, <3>2, <1>4, <1>7
  <2>5. granted' \in Seq(1 .. tickets') /\ broken' \in BOOLEAN
    BY <1>1, <1>2 DEF LockTypeOK
  <2> QED
    BY <2>1, <2>2, <2>3, <2>4, <2>5, <1>1, <1>4 DEF LockTypeOK
<1>9. Line'
  <2>1. \A i, j \in 1 .. Len(waiters') : i < j => waiters'[i] < waiters'[j]
    <3> SUFFICES ASSUME NEW i \in 1 .. Len(waiters'), NEW j \in 1 .. Len(waiters'), i < j
                 PROVE  waiters'[i] < waiters'[j]
      OBVIOUS
    <3>1. CASE j \in 1 .. Len(waiters)
      BY <3>1, <1>4, <1>5 DEF Line
    <3>2. CASE j = Len(waiters) + 1
      BY <3>2, <1>1, <1>4, <1>5
    <3> QED
      BY <3>1, <3>2, <1>4
  <2>2. ASSUME NEW u \in Threads, pc'[u] = "waiting"
        PROVE  \E i \in 1 .. Len(waiters') : waiters'[i] = ticket'[u]
    <3>1. CASE u = t
      <4>1. ticket'[t] = tickets'
        BY <1>1 DEF LockTypeOK
      <4>2. Len(waiters) + 1 \in 1 .. Len(waiters')
        BY <1>4
      <4> QED
        BY <3>1, <4>1, <4>2, <1>4
    <3>2. CASE u # t
      <4>1. PICK i \in 1 .. Len(waiters) : waiters[i] = ticket[u]
        BY <3>2, <2>2, <1>1 DEF Line, LockTypeOK
      <4> QED
        BY <4>1, <3>2, <1>1, <1>4 DEF LockTypeOK
    <3> QED
      BY <3>1, <3>2
  <2> QED
    BY <2>1, <2>2 DEF Line
<1>10. Distinct'
  <2> SUFFICES ASSUME NEW u \in Threads, NEW v \in Threads, pc'[u] # "outside",
                      pc'[v] # "outside", ticket'[u] = ticket'[v]
               PROVE  u = v
    BY DEF Distinct
  <2>1. \A w \in Threads : w # t => ticket'[w] = ticket[w] /\ ticket[w] <= tickets
                                    /\ pc'[w] = pc[w] /\ ticket[w] \in Nat
    BY <1>1 DEF LockTypeOK
  <2>2. ticket'[t] = tickets + 1
    BY <1>1 DEF LockTypeOK
  <2>3. CASE u = t \/ v = t
    BY <2>1, <2>2, <2>3, <1>1
  <2>4. CASE u # t /\ v # t
    BY <2>1, <2>4 DEF Distinct
  <2> QED
    BY <2>3, <2>4
<1>11. OneLetIn'
  <2>1. ASSUME NEW i \in 2 .. Len(waiters')
        PROVE  waiters'[i] \notin set'
    <3>1. waiters # <<>>
      BY <1>4
    <3>2. set' = set
      BY <3>1 DEF Acquire
    <3>3. CASE i \in 2 .. Len(waiters)
      BY <3>2, <3>3, <1>1, <1>4 DEF OneLetIn
    <3>4. CASE i = Len(waiters) + 1
      BY <3>2, <3>4, <1>1, <1>4 DEF LockTypeOK
    <3> QED
      BY <3>3, <3>4, <1>4
  <2> QED
    BY <2>1, <1>1 DEF OneLetIn
<1>12. GrantedFirst'
  <2>1. ASSUME NEW i \in 1 .. Len(granted), NEW j \in 1 .. Len(waiters')
        PROVE  granted[i] <= waiters'[j]
    <3>1. CASE j \in 1 .. Len(waiters)
      BY <3>1, <1>4 DEF GrantedFirst
    <3>2. CASE j = Len(waiters) + 1
      BY <3>2, <1>1, <1>4, <1>6
    <3> QED
      BY <3>1, <3>2, <1>4
  <2>2. ASSUME NEW u \in Threads, pc'[u] = "waiting", NEW i \in 1 .. Len(granted)
        PROVE  granted[i] # ticket'[u]
    <3>1. CASE u = t
      BY <3>1, <1>1, <1>6 DEF LockTypeOK
    <3>2. CASE u # t
      BY <2>2, <3>2, <1>1 DEF GrantedFirst, LockTypeOK
    <3> QED
      BY <3>1, <3>2
  <2> QED
    BY <2>1, <2>2, <1>1 DEF GrantedFirst
<1>13. GrantedInArrivalOrder'
  BY <1>1 DEF GrantedInArrivalOrder
<1> QED
  BY <1>8, <1>9, <1>10, <1>11, <1>12, <1>13

LEMMA ProceedKeeps ==
  ASSUME LockInv, NEW t \in Threads, Proceed(t)
  PROVE  LockInv'
<1> USE DEF LockInv
<1>1. /\ pc[t] = "waiting" /\ ticket[t] \in set
      /\ ticket' = ticket /\ tickets' = tickets /\ waiters' = waiters /\ set' = set
      /\ broken' = broken
  BY DEF Proceed
<1>2. PICK k \in 1 .. Len(waiters) : waiters[k] = ticket[t]
  BY <1>1 DEF Line
<1>3. /\ waiters \in Seq(1 .. tickets) /\ Len(waiters) \in Nat /\ tickets \in Nat
      /\ granted \in Seq(1 .. tickets) /\ Len(granted) \in Nat
      /\ \A i \in 1 .. Len(waiters) : waiters[i] \in 1 .. tickets
      /\ \A i \in 1 .. Len(granted) : granted[i] \in 1 .. tickets
  BY DEF LockTypeOK
<1>6. /\ Len(waiters) \in Nat /\ Len(granted) \in Nat
      /\ \A i \in 1 .. Len(waiters) : waiters[i] \in Nat
      /\ \A i \in 1 .. Len(granted) : granted[i] \in Nat
  BY <1>3
<1>4. CASE broken
  <2>1. pc' = [pc EXCEPT ![t] = "outside"] /\ granted' = granted
    BY <1>4 DEF Proceed
  <2>2. \A u \in Threads : pc'[u] # "outside" => u # t /\ pc'[u] = pc[u]
    BY <2>1 DEF LockTypeOK
  <2>3. LockTypeOK'
    BY <1>1, <2>1, <2>2 DEF LockTypeOK
  <2>4. Line'
    BY <1>1, <2>2 DEF Line
  <2>5. Distinct'
    BY <1>1, <2>2 DEF Distinct
  <2>6. OneLetIn'
    BY <1>1, <1>4, <2>2 DEF OneLetIn
  <2>7. GrantedFirst' /\ GrantedInArrivalOrder'
    BY <1>1, <2>1, <2>2 DEF GrantedFirst, GrantedInArrivalOrder
  <2> QED
    BY <2>3, <2>4, <2>5, <2>6, <2>7
<1>5. CASE ~broken
  <2>1. pc' = [pc EXCEPT ![t] = "holding"] /\ granted' = Append(granted, ticket[t])
    BY <1>5 DEF Proceed
  <2>2. k = 1
    BY <1>1, <1>2, <1>3, <1>5 DEF OneLetIn
  <2>3. waiters # <<>> /\ Head(waiters) = ticket[t] /\ waiters[1] = ticket[t]
        /\ ticket[t] \in 1 .. tickets
    BY <1>2, <1>3, <2>2
  <2>4. /\ granted' \in Seq(1 .. tickets) /\ Len(granted') = Len(granted) + 1
        /\ \A i \in 1 .. Len(granted) : granted'[i] = granted[i]
        /\ granted'[Len(granted) + 1] = ticket[t]
    BY <1>3, <2>1, <2>3, AppendFacts
  <2>13. /\ Len(granted') = Len(granted) + 1
         /\ \A i \in 1 .. Len(granted) : granted'[i] = granted[i]
         /\ granted'[Len(granted) + 1] = ticket[t]
    BY <2>4
  <2>5. \A u \in Threads : u # t => pc'[u] = pc[u]
    BY <2>1 DEF LockTypeOK
  <2>6. pc'[t] = "holding"
    BY <2>1 DEF LockTypeOK
  <2>7. LockTypeOK'
    <3>1. \A u \in Threads : pc'[u] \in {"holding", "leaving"}
                               => waiters # <<>> /\ Head(waiters) = ticket[u]
      BY <2>3, <2>5 DEF LockTypeOK
    <3> QED
      BY <1>1, <2>1, <2>4, <3>1 DEF LockTypeOK
  <2>8. Line'
    BY <1>1, <2>5, <2>6 DEF Line
  <2>9. Distinct'
    BY <1>1, <2>5, <2>6 DEF Distinct
  <2>10. OneLetIn'
    BY <1>1, <1>5 DEF OneLetIn
  <2>11. GrantedFirst'
    <3>1. ASSUME NEW i \in 1 .. Len(granted'), NEW j \in 1 .. Len(waiters)
          PROVE  granted'[i] <= waiters[j]
      <4>1. CASE i \in 1 .. Len(granted)
        BY <4>1, <2>4 DEF GrantedFirst
      <4>2. CASE i = Len(granted) + 1
        <5>1. granted'[i] = waiters[1]
          BY <4>2, <2>3, <2>4
        <5>2. 1 \in 1 .. Len(waiters) /\ waiters[1] \in Nat /\ waiters[j] \in Nat
          BY <1>6
        <5>3. j = 1 \/ 1 < j
          BY <1>6
        <5> QED
          BY <5>1, <5>2, <5>3 DEF Line
      <4> QED
        BY <4>1, <4>2, <1>3, <2>4
    <3>2. ASSUME NEW u \in Threads, pc'[u] = "waiting", NEW i \in 1 .. Len(granted')
          PROVE  granted'[i] # ticket[u]
      <4>1. u # t /\ pc[u] = "waiting"
        BY <3>2, <2>5, <2>6
      <4>2. CASE i \in 1 .. Len(granted)
        BY <4>1, <4>2, <2>4 DEF GrantedFirst
      <4>3. CASE i = Len(granted) + 1
        BY <4>1, <4>3, <2>4, <1>1 DEF Distinct
      <4> QED
        BY <4>2, <4>3, <1>3, <2>4
    <3> QED
      BY <3>1, <3>2, <1>1 DEF GrantedFirst
  <2>12. GrantedInArrivalOrder'
    <3> SUFFICES ASSUME NEW i \in 1 .. Len(granted'), NEW j \in 1 .. Len(granted'), i < j
                 PROVE  granted'[i] < granted'[j]
      BY DEF GrantedInArrivalOrder
    <3>1. CASE j \in 1 .. Len(granted)
      BY <3>1, <1>6, <2>13 DEF GrantedInArrivalOrder
    <3>2. CASE j = Len(granted) + 1
      <4>1. i \in 1 .. Len(granted)
        BY <3>2, <1>6, <2>13
      <4>2. granted[i] <= ticket[t] /\ granted[i] # ticket[t]
        BY <4>1, <1>1, <1>2 DEF GrantedFirst
      <4>3. granted[i] \in Nat /\ ticket[t] \in Nat
        BY <4>1, <1>3, <2>3
      <4> QED
        BY <4>1, <4>2, <4>3, <3>2, <2>4
    <3>3. Len(granted) \in Nat /\ Len(granted') = Len(granted) + 1
      BY <1>6, <2>13
    <3>4. j \in 1 .. Len(granted) \/ j = Len(granted) + 1
      BY <3>3
    <3> QED
      BY <3>1, <3>2, <3>4
  <2> QED
    BY <2>7, <2>8, <2>9, <2>10, <2>11, <2>12
<1> QED
  BY <1>4, <1>5

\* A thread with the head of the line takes it out and leaves the lock.
LEMMA LeavingKeeps ==
  ASSUME LockInv, NEW t \in Threads, pc[t] \in {"holding", "leaving"}, Release,
         pc' = [pc EXCEPT ![t] = "outside"],
         UNCHANGED <<ticket, tickets, broken, granted>>
  PROVE  LockInv'
<1> USE DEF LockInv
<1>1. waiters # <<>> /\ Head(waiters) = ticket[t] /\ waiters \in Seq(1 .. tickets)
      /\ tickets \in Nat
  BY DEF LockTypeOK
<1>2. /\ waiters' = Tail(waiters) /\ waiters' \in Seq(1 .. tickets)
      /\ Len(waiters') = Len(waiters) - 1 /\ Len(waiters) \in Nat /\ Len(waiters) >= 1
      /\ \A i \in 1 .. Len(waiters) - 1 : waiters'[i] = waiters[i + 1]
      /\ waiters[1] = ticket[t]
  BY <1>1, TailFacts DEF Release
<1>3. \A i \in 1 .. Len(waiters) : waiters[i] \in 1 .. tickets
  BY <1>1
<1>4. \A u \in Threads : pc'[u] # "outside" => u # t /\ pc'[u] = pc[u]
  BY DEF LockTypeOK
<1>5. \A u \in Threads : pc'[u] \notin {"holding", "leaving"}
  <2> SUFFICES ASSUME NEW u \in Threads, pc'[u] \in {"holding", "leaving"} PROVE FALSE
    OBVIOUS
  <2>1. u # t /\ pc[u] \in {"holding", "leaving"}
    BY <1>4
  <2>2. ticket[u] = ticket[t]
    BY <2>1, <1>1 DEF LockTypeOK
  <2> QED
    BY <2>1, <2>2 DEF Distinct
<1>6. LockTypeOK'
  <2>1. set' \subseteq 1 .. tickets
    <3>1. CASE waiters' = <<>>
      BY <3>1 DEF Release, LockTypeOK
    <3>2. CASE waiters' # <<>>
      <4>1. Head(waiters') \in 1 .. tickets
        <5>1. Head(waiters') = waiters'[1] /\ Len(waiters') >= 1
          BY <1>2, <3>2, TailFacts
        <5>2. waiters'[1] = waiters[2] /\ 2 \in 1 .. Len(waiters)
          BY <5>1, <1>2
        <5> QED
          BY <5>1, <5>2, <1>3
      <4> QED
        BY <4>1 DEF Release, LockTypeOK
    <3> QED
      BY <3>1, <3>2
  <2> QED
    BY <2>1, <1>2, <1>5 DEF LockTypeOK
<1>7. Line'
  <2>1. \A i, j \in 1 .. Len(waiters') : i < j => waiters'[i] < waiters'[j]
    BY <1>2, <1>3 DEF Line
  <2>2. ASSUME NEW u \in Threads, pc'[u] = "waiting"
        PROVE  \E i \in 1 .. Len(waiters') : waiters'[i] = ticket[u]
    <3>1. u # t /\ pc[u] = "waiting"
      BY <2>2, <1>4
    <3>2. PICK i \in 1 .. Len(waiters) : waiters[i] = ticket[u]
      BY <3>1 DEF Line
    <3>3. i # 1
      BY <3>1, <3>2, <1>2 DEF Distinct
    <3>4. i - 1 \in 1 .. Len(waiters') /\ waiters'[i - 1] = waiters[i]
      BY <3>3, <1>2
    <3> QED
      BY <3>2, <3>4
  <2> QED
    BY <2>1, <2>2 DEF Line
<1>8. Distinct'
  BY <1>4 DEF Distinct
<1>9. OneLetIn'
  <2>1. ASSUME ~broken, NEW i \in 2 .. Len(waiters')
        PROVE  waiters'[i] \notin set'
    <3>1. /\ i + 1 \in 2 .. Len(waiters) /\ waiters'[i] = waiters[i + 1]
          /\ i \in Nat /\ 1 \in 1 .. Len(waiters') /\ i \in 1 .. Len(waiters')
      BY <2>1, <1>2
    <3>2. waiters[i + 1] \notin set
      BY <2>1, <3>1 DEF OneLetIn
    <3>3. waiters' # <<>> /\ Head(waiters') = waiters'[1]
      BY <3>1, <1>2
    <3>4. waiters'[1] < waiters'[i]
      BY <3>1, <2>1, <1>7 DEF Line
    <3>5. waiters'[1] # waiters'[i]
      BY <3>1, <3>4, <1>2, <1>3
    <3>6. set' = set \cup {Head(waiters')}
      BY <2>1, <3>3 DEF Release
    <3> QED
      BY <3>1, <3>2, <3>3, <3>5, <3>6
  <2> QED
    BY <2>1, <1>5 DEF OneLetIn
<1>10. GrantedFirst' /\ GrantedInArrivalOrder'
  <2>1. \A i \in 1 .. Len(granted) : \A j \in 1 .. Len(waiters') : granted[i] <= waiters'[j]
    BY <1>2 DEF GrantedFirst
  <2> QED
    BY <2>1, <1>4 DEF GrantedFirst, GrantedInArrivalOrder
<1> QED
  BY <1>6, <1>7, <1>8, <1>9, <1>10

LEMMA BreakKeeps ==
  ASSUME LockInv, NEW t \in Threads, Break(t)
  PROVE  LockInv'
<1> USE DEF LockInv
<1>1. /\ pc[t] = "holding" /\ broken' /\ pc' = [pc EXCEPT ![t] = "leaving"]
      /\ UNCHANGED <<ticket, tickets, waiters, granted>>
  BY DEF Break
<1>2. pc'[t] = "leaving" /\ \A u \in Threads : u # t => pc'[u] = pc[u]
  BY <1>1 DEF LockTypeOK
<1>3. \A i \in 1 .. Len(waiters) : waiters[i] \in 1 .. tickets
  BY DEF LockTypeOK
<1>4. set' \subseteq 1 .. tickets /\ broken' \in BOOLEAN
  BY <1>3 DEF Break, LockTypeOK
<1>5. \A u \in Threads : pc'[u] \in {"holding", "leaving"}
                           => waiters # <<>> /\ Head(waiters) = ticket[u]
  BY <1>1, <1>2 DEF LockTypeOK
<1>6. pc' \in [Threads -> {"outside", "waiting", "holding", "leaving"}]
  BY <1>1 DEF LockTypeOK
<1>7. LockTypeOK'
  BY <1>1, <1>4, <1>5, <1>6 DEF LockTypeOK
<1>8. Line' /\ GrantedFirst' /\ GrantedInArrivalOrder'
  BY <1>1, <1>2 DEF Line, GrantedFirst, GrantedInArrivalOrder
<1>9. Distinct'
  BY <1>1, <1>2 DEF Distinct
<1>10. OneLetIn'
  BY <1>1, <1>2, ExclusionFromLine DEF OneLetIn, MutualExclusion
<1> QED
  BY <1>7, <1>8, <1>9, <1>10

LEMMA StepKeeps == LockInv /\ [LockNext]_lockVars => LockInv'
<1> SUFFICES ASSUME LockInv, [LockNext]_lockVars PROVE LockInv'
  OBVIOUS
<1>1. ASSUME NEW t \in Threads, Acquire(t) PROVE LockInv'
  BY <1>1, AcquireKeeps
<1>2. ASSUME NEW t \in Threads, Proceed(t) PROVE LockInv'
  BY <1>2, ProceedKeeps
<1>3. ASSUME NEW t \in Threads, Exit(t) PROVE LockInv'
  BY <1>3, LeavingKeeps DEF Exit
<1>4. ASSUME NEW t \in Threads, Break(t) PROVE LockInv'
  BY <1>4, BreakKeeps
<1>5. ASSUME NEW t \in Threads, LeaveBroken(t) PROVE LockInv'
  BY <1>5, LeavingKeeps DEF LeaveBroken
<1>6. CASE Reset
  <2>1. waiters = <<>> /\ Len(waiters) = 0 /\ broken' = FALSE
        /\ UNCHANGED <<pc, ticket, tickets, waiters, set, granted>>
    BY <1>6 DEF Reset
  <2>2. LockTypeOK'
    BY <2>1 DEF LockInv, LockTypeOK
  <2>3. Line' /\ Distinct' /\ OneLetIn'
    BY <2>1 DEF LockInv, Line, Distinct, OneLetIn
  <2>4. GrantedFirst' /\ GrantedInArrivalOrder'
    BY <2>1 DEF LockInv, GrantedFirst, GrantedInArrivalOrder
  <2> QED
    BY <2>2, <2>3, <2>4 DEF LockInv
<1>7. CASE UNCHANGED lockVars
  BY <1>7
     DEF lockVars, LockInv, LockTypeOK, Line, Distinct, OneLetIn, GrantedFirst, GrantedInArrivalOrder
<1> QED
  BY <1>1, <1>2, <1>3, <1>4, <1>5, <1>6, <1>7 DEF LockNext, LockStep

\* The inductive invariant, of which the theorems below are parts.
LEMMA Invariance == LockSpec => []LockInv
  BY InitLock, StepKeeps, PTL DEF LockSpec

\* The types hold, and release always drops the Event of the thread that calls it
\* (the popleft at threading.py 138).
THEOREM LockTypeCorrect == LockSpec => []LockTypeOK
<1>1. LockInv => LockTypeOK
  BY DEF LockInv
<1> QED
  BY <1>1, Invariance, PTL

\* The bodies of `with` statements on one OrderedLock exclude each other, before and after
\* breaks and resets (acquire, release and __exit__).
THEOREM BodiesExclude == LockSpec => []MutualExclusion
  BY ExclusionFromLine, Invariance, PTL

\* Callers enter the body in the order in which they joined the line in acquire.
THEOREM FirstComeFirstServed == LockSpec => []GrantedInArrivalOrder
<1>1. LockInv => GrantedInArrivalOrder
  BY DEF LockInv
<1> QED
  BY <1>1, Invariance, PTL

\* Nobody enters a broken lock until it is reset: the test of _is_broken in acquire, which
\* is made without _lock, misses no break.
THEOREM BrokenStaysShut == LockSpec => NoEntryWhenBroken
<1>1. [LockNext]_lockVars => (broken => granted' = granted)
  BY DEF LockNext, LockStep, lockVars, Acquire, Proceed, Exit, Break, LeaveBroken, Reset
<1> QED
  BY <1>1, PTL DEF LockSpec, NoEntryWhenBroken

-----------------------------------------------------------------------------
(* OrderedCounter: the three steps of an increment are kept together *)

\* Callers that have come and gone, whose Events are the first ones: no body raises, so each
\* Event leaves the line in its turn.
Gone == tickets - Len(waiters)

CounterTypes ==
  /\ at \in [Threads -> {"load", "store", "read", "return"}]
  /\ loaded \in [Threads -> Nat] /\ counter \in Nat /\ drawn \in Seq(Nat \X Nat)

\* The lock is whole, and the line has the latest Events, one after the other.
WholeLine ==
  /\ ~broken /\ \A t \in Threads : pc[t] # "leaving"
  /\ \A i \in 1 .. Len(waiters) : waiters[i] = Gone + i

\* Only the holder is inside an increment; what it has loaded is what is stored.
Increment ==
  /\ \A t \in Threads : pc[t] # "holding" => at[t] = "load"
  /\ (\A t \in Threads : pc[t] # "holding") => counter = Gone /\ Len(drawn) = Gone
  /\ \A t \in Threads : pc[t] = "holding" =>
       /\ at[t] = "store" => loaded[t] = Gone
       /\ counter = IF at[t] \in {"load", "store"} THEN Gone ELSE Gone + 1
       /\ Len(drawn) = IF at[t] = "return" THEN Gone + 1 ELSE Gone

CountInv == LockInv /\ CounterTypes /\ WholeLine /\ Increment /\ NumbersFollowArrival

LEMMA GoneFacts ==
  ASSUME CountInv
  PROVE  /\ Len(waiters) \in Nat /\ tickets \in Nat /\ Gone \in Int
         /\ \A t \in Threads : pc[t] = "holding" =>
              /\ waiters # <<>> /\ ticket[t] = Gone + 1
              /\ \A u \in Threads : pc[u] = "holding" => u = t
<1> USE DEF CountInv, LockInv
<1>1. Len(waiters) \in Nat /\ tickets \in Nat /\ Gone \in Int
  BY DEF LockTypeOK, Gone
<1>2. ASSUME NEW t \in Threads, pc[t] = "holding"
      PROVE  waiters # <<>> /\ ticket[t] = Gone + 1
  <2>1. waiters # <<>> /\ Head(waiters) = ticket[t] /\ waiters \in Seq(1 .. tickets)
    BY <1>2 DEF LockTypeOK
  <2>2. Len(waiters) >= 1 /\ Head(waiters) = waiters[1]
    BY <2>1, TailFacts
  <2> QED
    BY <1>1, <2>1, <2>2 DEF WholeLine
<1> QED
  BY <1>1, <1>2, ExclusionFromLine DEF MutualExclusion

LEMMA InitCounter == CounterInit => CountInv
<1> SUFFICES ASSUME CounterInit PROVE CountInv
  OBVIOUS
<1>1. LockInv
  BY InitLock DEF CounterInit
<1>2. waiters = <<>> /\ Len(waiters) = 0 /\ tickets = 0 /\ drawn = <<>> /\ Len(drawn) = 0
  BY DEF CounterInit, LockInit
<1>3. CounterTypes
  <2>1. drawn \in Seq(Nat \X Nat)
    BY <1>2
  <2> QED
    BY <2>1 DEF CounterInit, CounterTypes
<1>4. WholeLine /\ Increment
  <2>0. ~broken /\ \A t \in Threads : pc[t] = "outside" /\ at[t] = "load"
    BY DEF CounterInit, LockInit
  <2>1. counter = 0 /\ Gone = 0
    <3>1. counter = 0
      BY DEF CounterInit
    <3>2. Gone = 0 - 0
      BY <1>2 DEF Gone
    <3> QED
      BY <3>1, <3>2
  <2>2. WholeLine
    BY <1>2, <2>0, <2>1 DEF WholeLine
  <2>3. Increment
    BY <1>2, <2>0, <2>1 DEF Increment
  <2> QED
    BY <2>2, <2>3
<1>5. NumbersFollowArrival
  BY <1>2 DEF NumbersFollowArrival
<1> QED
  BY <1>1, <1>3, <1>4, <1>5 DEF CountInv

LEMMA EnterKeeps ==
  ASSUME CountInv, NEW t \in Threads, Enter(t)
  PROVE  CountInv'
<1> USE DEF CountInv
<1>1. LockInv'
  BY AcquireKeeps, ProceedKeeps DEF Enter
<1>2. UNCHANGED counterVars /\ CounterTypes' /\ NumbersFollowArrival'
  BY DEF Enter, counterVars, CounterTypes, NumbersFollowArrival
<1>3. CASE Acquire(t)
  <2>1. /\ tickets' = tickets + 1 /\ waiters' = Append(waiters, tickets + 1)
        /\ broken' = broken /\ pc' = [pc EXCEPT ![t] = "waiting"] /\ pc[t] = "outside"
        /\ pc \in [Threads -> {"outside", "waiting", "holding", "leaving"}]
    BY <1>3 DEF Acquire, LockInv, LockTypeOK
  <2>2. waiters \in Seq(1 .. tickets') /\ tickets' \in 1 .. tickets' /\ tickets \in Nat
    BY <2>1, WiderRange DEF LockInv, LockTypeOK
  <2>3. /\ Len(waiters') = Len(waiters) + 1 /\ Len(waiters) \in Nat
        /\ \A i \in 1 .. Len(waiters) : waiters'[i] = waiters[i]
        /\ waiters'[Len(waiters) + 1] = tickets + 1
    BY <2>1, <2>2, AppendFacts
  <2>4. Gone' = Gone
    BY <2>1, <2>2, <2>3 DEF Gone
  <2>5. WholeLine'
    <3>1. \A i \in 1 .. Len(waiters') : waiters'[i] = Gone + i
      <4> SUFFICES ASSUME NEW i \in 1 .. Len(waiters') PROVE waiters'[i] = Gone + i
        OBVIOUS
      <4>1. CASE i \in 1 .. Len(waiters)
        BY <4>1, <2>3 DEF WholeLine
      <4>2. CASE i = Len(waiters) + 1
        BY <4>2, <2>2, <2>3 DEF Gone
      <4> QED
        BY <4>1, <4>2, <2>3
    <3> QED
      BY <3>1, <2>1, <2>4 DEF WholeLine
  <2>6. Increment'
    BY <1>2, <2>1, <2>4 DEF Increment, counterVars
  <2> QED
    BY <1>1, <1>2, <2>5, <2>6
<1>4. CASE Proceed(t)
  <2>1. /\ pc' = [pc EXCEPT ![t] = "holding"] /\ pc[t] = "waiting"
        /\ UNCHANGED <<tickets, waiters, broken>>
        /\ pc \in [Threads -> {"outside", "waiting", "holding", "leaving"}]
    BY <1>4 DEF Proceed, WholeLine, LockInv, LockTypeOK
  <2>2. Gone' = Gone
    BY <2>1 DEF Gone
  <2>3. WholeLine'
    BY <2>1, <2>2 DEF WholeLine
  <2>4. \A u \in Threads : pc[u] # "holding"
    <3> SUFFICES ASSUME NEW u \in Threads, pc[u] = "holding" PROVE FALSE
      OBVIOUS
    <3>1. pc'[u] = "holding" /\ pc'[t] = "holding" /\ u # t
      BY <2>1
    <3> QED
      BY <3>1, <1>1 DEF LockInv, LockTypeOK, Distinct
  <2>5. Increment'
    BY <1>2, <2>1, <2>2, <2>4 DEF Increment, counterVars
  <2> QED
    BY <1>1, <1>2, <2>3, <2>5
<1> QED
  BY <1>3, <1>4 DEF Enter

\* The three steps of the body leave the lock alone.
LEMMA BodyKeeps ==
  ASSUME CountInv, NEW t \in Threads, Load(t) \/ Store(t) \/ Read(t)
  PROVE  CountInv'
<1> USE DEF CountInv
<1>1. UNCHANGED lockVars /\ pc[t] = "holding" /\ at[t] \in {"load", "store", "read"}
  BY DEF Load, Store, Read
<1>2. LockInv'
  BY <1>1, StepKeeps
<1>3. Gone' = Gone /\ WholeLine'
  BY <1>1 DEF lockVars, Gone, WholeLine
<1>4. /\ ticket[t] = Gone + 1 /\ Gone \in Int
      /\ \A u \in Threads : pc[u] = "holding" => u = t
  BY <1>1, GoneFacts
<1>5. CASE Load(t) \/ Store(t)
  <2>1. /\ drawn' = drawn /\ CounterTypes' /\ NumbersFollowArrival'
        /\ \A u \in Threads : u # t => at'[u] = at[u]
    <3>1. drawn' = drawn /\ CounterTypes'
      BY <1>5 DEF Load, Store, CounterTypes
    <3>2. \A u \in Threads : u # t => at'[u] = at[u]
      BY <1>5 DEF Load, Store, CounterTypes
    <3> QED
      BY <3>1, <3>2 DEF NumbersFollowArrival
  <2>2. counter = Gone /\ Len(drawn) = Gone
    BY <1>1, <1>5 DEF Load, Store, Increment
  <2>3. \/ at'[t] = "store" /\ loaded'[t] = Gone /\ counter' = Gone
        \/ at'[t] = "read" /\ counter' = Gone + 1
    BY <1>1, <1>5, <2>2 DEF Load, Store, Increment, CounterTypes
  <2>4. pc' = pc /\ Gone' = Gone /\ Len(drawn') = Gone
    BY <1>1, <1>3, <2>1, <2>2 DEF lockVars
  <2>5. Increment'
    <3>1. \A u \in Threads : pc[u] # "holding" => at'[u] = "load"
      BY <1>1, <2>1 DEF Increment
    <3>2. ~\A u \in Threads : pc'[u] # "holding"
      BY <1>1, <2>4
    <3>3. \A u \in Threads : pc'[u] = "holding" => u = t
      BY <1>4, <2>4
    <3> QED
      BY <2>3, <2>4, <3>1, <3>2, <3>3 DEF Increment
  <2> QED
    BY <1>2, <1>3, <2>1, <2>5
<1>6. CASE Read(t)
  <2>1. /\ drawn' = Append(drawn, <<ticket[t], counter>>) /\ at[t] = "read"
        /\ at' = [at EXCEPT ![t] = "return"] /\ UNCHANGED <<loaded, counter>>
    BY <1>6 DEF Read
  <2>2. counter = Gone + 1 /\ Len(drawn) = Gone /\ counter \in Nat
    BY <1>1, <2>1 DEF Increment, CounterTypes
  <2>3. <<ticket[t], counter>> \in Nat \X Nat
    BY <1>4, <2>2
  <2>4. /\ drawn' \in Seq(Nat \X Nat) /\ Len(drawn') = Len(drawn) + 1
        /\ \A i \in 1 .. Len(drawn) : drawn'[i] = drawn[i]
        /\ drawn'[Len(drawn) + 1] = <<ticket[t], counter>>
    BY <2>1, <2>3, AppendFacts DEF CounterTypes
  <2>5. CounterTypes'
    BY <2>1, <2>4 DEF CounterTypes
  <2>6. Increment'
    BY <1>1, <1>3, <1>4, <2>1, <2>2, <2>4 DEF Increment, CounterTypes, lockVars
  <2>7. NumbersFollowArrival'
    <3> SUFFICES ASSUME NEW i \in 1 .. Len(drawn') PROVE drawn'[i] = <<i, i>>
      BY DEF NumbersFollowArrival
    <3>1. CASE i \in 1 .. Len(drawn)
      BY <3>1, <2>4 DEF NumbersFollowArrival
    <3>2. CASE i = Len(drawn) + 1
      BY <3>2, <1>4, <2>2, <2>4
    <3> QED
      BY <3>1, <3>2, <1>4, <2>2, <2>4
  <2> QED
    BY <1>2, <1>3, <2>5, <2>6, <2>7
<1> QED
  BY <1>5, <1>6

LEMMA ReturnKeeps ==
  ASSUME CountInv, NEW t \in Threads, Return(t)
  PROVE  CountInv'
<1> USE DEF CountInv
<1>1. LockInv'
  BY StepKeeps DEF Return, LockNext, LockStep
<1>2. /\ at[t] = "return" /\ pc[t] = "holding" /\ waiters # <<>> /\ waiters' = Tail(waiters)
      /\ pc' = [pc EXCEPT ![t] = "outside"] /\ at' = [at EXCEPT ![t] = "load"]
      /\ UNCHANGED <<tickets, broken, loaded, counter, drawn>>
      /\ pc \in [Threads -> {"outside", "waiting", "holding", "leaving"}]
  BY DEF Return, Exit, Release, LockInv, LockTypeOK
<1>3. /\ Len(waiters') = Len(waiters) - 1 /\ Len(waiters) \in Nat
      /\ \A i \in 1 .. Len(waiters) - 1 : waiters'[i] = waiters[i + 1]
  BY <1>2, TailFacts DEF LockInv, LockTypeOK
<1>4. Gone' = Gone + 1 /\ Gone \in Int /\ tickets \in Nat
  BY <1>2, <1>3, GoneFacts DEF Gone
<1>5. \A u \in Threads : pc'[u] # "holding"
  BY <1>2, GoneFacts
<1>6. WholeLine'
  BY <1>2, <1>3, <1>4 DEF WholeLine
<1>7. counter = Gone + 1 /\ Len(drawn) = Gone + 1
  BY <1>2 DEF Increment
<1>8. Increment'
  <2>1. \A u \in Threads : at'[u] = "load"
    BY <1>2, GoneFacts DEF Increment, CounterTypes
  <2> QED
    BY <1>2, <1>4, <1>5, <1>7, <2>1 DEF Increment
<1>9. CounterTypes' /\ NumbersFollowArrival'
  BY <1>2 DEF CounterTypes, NumbersFollowArrival
<1> QED
  BY <1>1, <1>6, <1>8, <1>9

\* The n-th caller of increment gets n, whatever the threads and however they interleave
\* (OrderedCounter.increment: `with self._lock` around load, store and read).
THEOREM NumbersInOrder == CounterSpec => []NumbersFollowArrival
<1>1. CountInv /\ [CounterNext]_allVars => CountInv'
  <2> SUFFICES ASSUME CountInv, [CounterNext]_allVars PROVE CountInv'
    OBVIOUS
  <2>1. CASE CounterNext
    BY <2>1, EnterKeeps, BodyKeeps, ReturnKeeps DEF CounterNext
  <2>2. CASE UNCHANGED allVars
    <3>1. UNCHANGED lockVars /\ UNCHANGED counterVars
      BY <2>2 DEF allVars
    <3>2. LockInv'
      BY <3>1, StepKeeps DEF CountInv
    <3> QED
      BY <3>1, <3>2 DEF lockVars, counterVars, CountInv, CounterTypes, WholeLine, Increment, Gone,
                        NumbersFollowArrival
  <2> QED
    BY <2>1, <2>2
<1>2. CountInv => NumbersFollowArrival
  BY DEF CountInv
<1> QED
  BY <1>1, <1>2, InitCounter, PTL DEF CounterSpec

-----------------------------------------------------------------------------
(* CompletionTally: the two readings of a CompletionConfig agree *)

TallyTypes == config \in Configs /\ CountsInRange

LEMMA ConfigFields ==
  ASSUME NEW cfg \in Configs
  PROVE  /\ cfg.min = None \/ cfg.min \in Nat
         /\ None \notin Nat
  BY ConfigsAssumption, NoneAssumption DEF IsConfig

\* The counts stay in range: a batch that is not stopped has a branch left.
LEMMA CountsInductive == TallySpec => []TallyTypes
<1>1. TallyInit => TallyTypes
  BY ConfigsAssumption DEF TallyInit, TallyTypes, CountsInRange
<1>2. TallyTypes /\ [TallyNext]_tallyVars => TallyTypes'
  <2> SUFFICES ASSUME TallyTypes, [TallyNext]_tallyVars PROVE TallyTypes'
    OBVIOUS
  <2>1. CASE ~Stopped /\ TallyNext
    <3>1. successes + failures # total
      BY <2>1 DEF Stopped, ShouldComplete, IsComplete
    <3> QED
      BY <3>1, <2>1 DEF TallyNext, CompleteTask, FailTask, TallyTypes, CountsInRange
  <2>2. CASE UNCHANGED tallyVars
    BY <2>2 DEF tallyVars, TallyTypes, CountsInRange
  <2> QED
    BY <2>1, <2>2 DEF TallyNext, CompleteTask, FailTask
<1> QED
  BY <1>1, <1>2, PTL DEF TallySpec

\* The number of completed branches never exceeds their total (complete_task, fail_task).
THEOREM CountsStayInRange == TallySpec => []CountsInRange
<1>1. TallyTypes => CountsInRange
  BY DEF TallyTypes
<1> QED
  BY <1>1, CountsInductive, PTL

\* What _get_completion_reason infers from the items is why should_complete stopped.
LEMMA ReasonAgrees == TallyTypes => ReasonExplainsStop
<1> SUFFICES ASSUME TallyTypes, Stopped, HasTolerance(config) \/ ~HasCriteria(config)
             PROVE  CASE StoppedBecause = "FAILURE_TOLERANCE_EXCEEDED" ->
                           ~ShouldContinue(config, total, failures)
                      [] StoppedBecause = "ALL_COMPLETED" -> successes + failures = total
                      [] StoppedBecause = "MIN_SUCCESSFUL_REACHED" ->
                           successes >= MinNeeded(config, total)
  BY DEF ReasonExplainsStop
<1>1. ToleranceExceeded(config, total, failures) <=> ~ShouldContinue(config, total, failures)
  <2>1. failures \in Nat
    BY DEF TallyTypes, CountsInRange
  <2>2. failures > 0 <=> ~(failures = 0)
    BY <2>1
  <2>3. HasTolerance(config) => HasCriteria(config)
    BY DEF HasCriteria
  <2> QED
    BY <2>2, <2>3 DEF ToleranceExceeded, ShouldContinue
<1>2. /\ successes \in Nat /\ failures \in Nat /\ total \in Nat
      /\ successes + failures <= total
      /\ config.min = None \/ config.min \in Nat
      /\ None \notin Nat
  BY ConfigFields DEF TallyTypes, CountsInRange
<1>3. CASE ToleranceExceeded(config, total, failures)
  <2>1. StoppedBecause = "FAILURE_TOLERANCE_EXCEEDED"
    BY <1>3 DEF StoppedBecause, Reason
  <2> QED
    BY <2>1, <1>1, <1>3
<1>4. CASE ~ToleranceExceeded(config, total, failures)
  <2>1. IsComplete(config, total, successes, failures)
    BY <1>1, <1>4 DEF Stopped, ShouldComplete
  <2>2. CASE successes + failures = total
    <3>1. StoppedBecause = "ALL_COMPLETED"
      BY <1>4, <2>2 DEF StoppedBecause, Reason
    <3> QED
      BY <3>1, <2>2
  <2>3. CASE successes + failures # total
    <3>1. successes >= MinNeeded(config, total)
      BY <2>1, <2>3 DEF IsComplete
    <3>2. config.min # None /\ successes >= config.min
      <4>1. CASE config.min = None
        BY <4>1, <3>1, <2>3, <1>2 DEF MinNeeded
      <4>2. CASE config.min # None
        BY <4>2, <3>1, <1>2 DEF MinNeeded
      <4> QED
        BY <4>1, <4>2
    <3>3. StoppedBecause = "MIN_SUCCESSFUL_REACHED"
      BY <1>4, <2>3, <3>2 DEF StoppedBecause, Reason
    <3> QED
      BY <3>1, <3>3
  <2> QED
    BY <2>2, <2>3
<1> QED
  BY <1>3, <1>4

\* Both readings of the configuration agree at every stop, whatever the configuration
\* (ExecutionCounters.should_complete and BatchResult._get_completion_reason).
THEOREM ReasonsAreRight == TallySpec => []ReasonExplainsStop
  BY ReasonAgrees, CountsInductive, PTL

-----------------------------------------------------------------------------
(* WorkerLanes: the tasks of an open execution run in one lane *)

\* Before the execution is complete and the runner closed nothing stops a lane: nobody is
\* refused, so nobody evicts, and whoever holds a worker holds the mapped one.
OneLane ==
  /\ closing = {}
  /\ \A w \in Workers : ~stopped[w] /\ thread[w].at \notin {"teardown", "leave"}
  /\ \A c \in Callers : /\ caller[c].at # "refused"
                        /\ caller[c].at = "handed" =>
                             caller[c].w \in Workers /\ caller[c].w = mapped
  /\ \A w \in Workers : Busy(w) \/ queue[w] # <<>> => w = mapped

\* A caller that asks for a lane has a task for it and an attempt left.
Asking ==
  \A c \in Callers :
    /\ caller[c].at = "handed" => HasTask(c)
    /\ caller[c].at \in {"ready", "handed", "refused"} => caller[c].tries < MaxAttempts

LanesInv == TypeOK /\ Asking /\ (~complete /\ ~down => OneLane)

-----------------------------------------------------------------------------
\* NoWorker is none of the workers, and there are attempts.
LEMMA Basics == NoWorker \notin Workers /\ MaxAttempts \in Nat \ {0}
BY LanesAssumption DEF NoWorker

\* A caller's task is one of the tasks.
LEMMA TasksOfCallers ==
  ASSUME NEW c \in Callers, NEW n \in DOMAIN Program[c]
  PROVE  Task(c, n) \in Tasks
<1>1. n \in UNION {DOMAIN Program[d] : d \in Callers}
  OBVIOUS
<1> QED
  BY <1>1 DEF Tasks, Task

\* A queue stays one, whatever is put behind one of them.
LEMMA AppendTypes ==
  ASSUME NEW S, NEW q \in [Workers -> Seq(S)], NEW e \in S, NEW w
  PROVE  [q EXCEPT ![w] = Append(@, e)] \in [Workers -> Seq(S)]
<1>1. CASE w \in Workers
  <2>1. Append(q[w], e) \in Seq(S)
    BY <1>1
  <2> QED
    BY <1>1, <2>1
<1>2. CASE w \notin Workers
  BY <1>2
<1> QED
  BY <1>1, <1>2

LEMMA InitLanes == Init => LanesInv
<1> SUFFICES ASSUME Init PROVE LanesInv
  OBVIOUS
<1> USE Basics DEF Init
<1>1. TypeOK
  <2>1. queue \in [Workers -> Seq(Tasks \cup {Stop})]
    BY DEF Init
  <2>2. thread \in [Workers -> [at : ThreadSteps, task : Tasks \cup {Stop}]]
    BY DEF Idle, ThreadSteps
  <2>3. caller \in [Callers -> [at : CallerSteps, n : Nat,
                               w : created \cup {NoWorker}, tries : 0 .. MaxAttempts]]
    BY DEF CallerSteps
  <2> QED
    BY <2>1, <2>2, <2>3 DEF TypeOK
<1>2. Asking
  BY DEF Asking
<1>3. OneLane
  BY DEF OneLane, Busy, Idle
<1> QED
  BY <1>1, <1>2, <1>3 DEF LanesInv

-----------------------------------------------------------------------------
\* The types are kept.

LEMMA CallerTypes ==
  ASSUME LanesInv, NEW c \in Callers, CallerStep(c)
  PROVE  TypeOK' /\ Asking'
<1> USE Basics
<1>0. TypeOK /\ Asking
  BY DEF LanesInv
<1>1. CASE GetOrCreate(c)
  <2>1. PICK w \in Workers :
          /\ IF mapped # NoWorker THEN w = mapped /\ UNCHANGED <<mapped, created>>
             ELSE created' = created \cup {w} /\ mapped' = w
          /\ caller' = [caller EXCEPT ![c].at = "handed", ![c].w = w]
    BY <1>1 DEF GetOrCreate
  <2>2. w \in created' /\ created \subseteq created' /\ created' \subseteq Workers
        /\ mapped' \in created' \cup {NoWorker}
    <3>1. mapped \in created \cup {NoWorker} /\ created \subseteq Workers
      BY <1>0 DEF TypeOK
    <3>2. CASE mapped # NoWorker
      BY <2>1, <3>1, <3>2
    <3>3. CASE mapped = NoWorker
      BY <2>1, <3>1, <3>3
    <3> QED
      BY <3>2, <3>3
  <2>3. caller' \in [Callers -> [at : CallerSteps, n : Nat,
                                w : created' \cup {NoWorker}, tries : 0 .. MaxAttempts]]
    BY <1>0, <2>1, <2>2 DEF TypeOK, CallerSteps
  <2>4. TypeOK'
    BY <1>0, <1>1, <2>2, <2>3 DEF GetOrCreate, TypeOK
  <2>5. Asking'
    BY <1>0, <1>1, <2>1 DEF GetOrCreate, TypeOK, Asking, HasTask
  <2> QED
    BY <2>4, <2>5
<1>2. CASE Accept(c)
  <2>1. Task(c, caller[c].n) \in Tasks \cup {Stop}
    BY <1>0, <1>2, TasksOfCallers DEF Accept, Asking, HasTask
  <2>2. queue' \in [Workers -> Seq(Tasks \cup {Stop})]
    BY <1>0, <1>2, <2>1, AppendTypes DEF Accept, TypeOK
  <2>3. TypeOK'
    BY <1>0, <1>2, <2>2 DEF Accept, TypeOK, CallerSteps
  <2>4. Asking'
    BY <1>0, <1>2 DEF Accept, TypeOK, Asking, HasTask
  <2> QED
    BY <2>3, <2>4
<1>3. CASE Refuse(c)
  <2>1. TypeOK'
    BY <1>0, <1>3 DEF Refuse, TypeOK, CallerSteps
  <2>2. Asking'
    BY <1>0, <1>3 DEF Refuse, TypeOK, Asking, HasTask
  <2> QED
    BY <2>1, <2>2
<1>4. CASE Evict(c)
  <2>1. caller[c].n \in Nat /\ caller[c].tries + 1 \in 0 .. MaxAttempts
    <3>1. caller[c].n \in Nat /\ caller[c].tries \in 0 .. MaxAttempts
      BY <1>0 DEF TypeOK
    <3>2. caller[c].tries < MaxAttempts
      BY <1>0, <1>4 DEF Evict, Asking
    <3> QED
      BY <3>1, <3>2
  <2>2. caller' \in [Callers -> [at : CallerSteps, n : Nat,
                                w : created \cup {NoWorker}, tries : 0 .. MaxAttempts]]
    BY <1>0, <1>4, <2>1 DEF Evict, TypeOK, CallerSteps
  <2>3. TypeOK'
    BY <1>0, <1>4, <2>2 DEF Evict, TypeOK
  <2>4. Asking'
    BY <1>0, <1>4 DEF Evict, TypeOK, Asking, HasTask
  <2> QED
    BY <2>3, <2>4
<1> QED
  BY <1>1, <1>2, <1>3, <1>4 DEF CallerStep

LEMMA StopLaneTypes ==
  ASSUME TypeOK, NEW w \in Workers, StopLane(w)
  PROVE  queue' \in [Workers -> Seq(Tasks \cup {Stop})] /\ stopped' \in [Workers -> BOOLEAN]
<1>1. queue' \in [Workers -> Seq(Tasks \cup {Stop})]
  BY AppendTypes DEF StopLane, TypeOK
<1>2. stopped' \in [Workers -> BOOLEAN]
  BY DEF StopLane, TypeOK
<1> QED
  BY <1>1, <1>2

LEMMA LaneTypes ==
  ASSUME LanesInv, NEW w \in Workers, LaneStep(w)
  PROVE  TypeOK' /\ Asking'
<1> USE Basics
<1>0. TypeOK /\ Asking
  BY DEF LanesInv
<1>1. CASE TakeTask(w)
  <2>1. Head(queue[w]) \in Tasks \cup {Stop} /\ Tail(queue[w]) \in Seq(Tasks \cup {Stop})
    BY <1>0, <1>1 DEF TypeOK, TakeTask
  <2>2. TypeOK'
    BY <1>0, <1>1, <2>1 DEF TypeOK, TakeTask, ThreadSteps
  <2>3. Asking'
    BY <1>0, <1>1 DEF TakeTask, Asking, HasTask
  <2> QED
    BY <2>2, <2>3
<1>2. CASE TakeStop(w)
  <2>1. Tail(queue[w]) \in Seq(Tasks \cup {Stop})
    BY <1>0, <1>2 DEF TypeOK, TakeStop
  <2>2. TypeOK'
    BY <1>0, <1>2, <2>1 DEF TypeOK, TakeStop, ThreadSteps
  <2>3. Asking'
    BY <1>0, <1>2 DEF TakeStop, Asking, HasTask
  <2> QED
    BY <2>2, <2>3
<1>3. CASE Execute(w)
  <2>1. complete' \in BOOLEAN
    BY <1>3 DEF Execute
  <2>2. thread' \in [Workers -> [at : ThreadSteps, task : Tasks \cup {Stop}]]
    BY <1>0, <1>3 DEF Execute, TypeOK, ThreadSteps
  <2>3. TypeOK'
    BY <1>0, <1>3, <2>1, <2>2 DEF Execute, TypeOK
  <2>4. Asking'
    BY <1>0, <1>3 DEF Execute, Asking, HasTask
  <2> QED
    BY <2>3, <2>4
<1>4. CASE Reload(w)
  BY <1>0, <1>4 DEF Reload, TypeOK, ThreadSteps, Asking, HasTask
<1>5. CASE TearDownLane(w)
  <2>1. TypeOK'
    BY <1>0, <1>5, StopLaneTypes DEF TearDownLane, TypeOK, ThreadSteps
  <2>2. Asking'
    BY <1>0, <1>5 DEF TearDownLane, Asking, HasTask
  <2> QED
    BY <2>1, <2>2
<1>6. CASE LeaveRegistry(w)
  BY <1>0, <1>6 DEF LeaveRegistry, TypeOK, ThreadSteps, Asking, HasTask
<1>7. CASE Answer(w)
  <2> DEFINE d == thread[w].task[2]
  <2>1. caller' = [caller EXCEPT ![d] =
          [at |-> "ready", n |-> @.n + 1, w |-> NoWorker, tries |-> 0]]
    BY <1>7 DEF Answer
  <2> HIDE DEF d
  <2>2. caller' \in [Callers -> [at : CallerSteps, n : Nat,
                                w : created \cup {NoWorker}, tries : 0 .. MaxAttempts]]
    <3>1. CASE d \in Callers
      <4>1. caller[d].n + 1 \in Nat
        BY <1>0, <3>1 DEF TypeOK
      <4>2. [at |-> "ready", n |-> caller[d].n + 1, w |-> NoWorker, tries |-> 0]
              \in [at : CallerSteps, n : Nat, w : created \cup {NoWorker}, tries : 0 .. MaxAttempts]
        BY <4>1 DEF CallerSteps
      <4> QED
        BY <1>0, <2>1, <3>1, <4>2 DEF TypeOK
    <3>2. CASE d \notin Callers
      BY <1>0, <2>1, <3>2 DEF TypeOK
    <3> QED
      BY <3>1, <3>2
  <2>3. thread' \in [Workers -> [at : ThreadSteps, task : Tasks \cup {Stop}]]
    BY <1>0, <1>7 DEF Answer, TypeOK, ThreadSteps, Idle
  <2>4. TypeOK'
    BY <1>0, <1>7, <2>2, <2>3 DEF Answer, TypeOK
  <2>5. Asking'
    BY <1>0, <2>1 DEF TypeOK, Asking, HasTask
  <2> QED
    BY <2>4, <2>5
<1> QED
  BY <1>1, <1>2, <1>3, <1>4, <1>5, <1>6, <1>7 DEF LaneStep

LEMMA OtherTypes ==
  ASSUME LanesInv, ShutDown \/ \E w \in Workers : StopTaken(w)
  PROVE  TypeOK' /\ Asking'
<1> USE Basics
<1>0. TypeOK /\ Asking
  BY DEF LanesInv
<1>1. CASE ShutDown
  BY <1>0, <1>1 DEF ShutDown, TypeOK, Asking, HasTask
<1>2. ASSUME NEW w \in Workers, StopTaken(w)
      PROVE  TypeOK' /\ Asking'
  <2>1. TypeOK'
    BY <1>0, <1>2, StopLaneTypes DEF StopTaken, TypeOK
  <2>2. Asking'
    BY <1>0, <1>2 DEF StopTaken, Asking, HasTask
  <2> QED
    BY <2>1, <2>2
<1> QED
  BY <1>1, <1>2

-----------------------------------------------------------------------------
\* No step before the completion and the shutdown gives a second lane work.

LEMMA CallersKeepOneLane ==
  ASSUME TypeOK, OneLane, NEW c \in Callers, CallerStep(c)
  PROVE  OneLane'
<1> USE Basics
<1>1. CASE GetOrCreate(c)
  BY <1>1 DEF GetOrCreate, TypeOK, OneLane, Busy
<1>2. CASE Accept(c)
  BY <1>2 DEF Accept, TypeOK, OneLane, Busy
<1>3. CASE Refuse(c)
  BY <1>3 DEF Refuse, OneLane
<1>4. CASE Evict(c)
  BY <1>4 DEF Evict, OneLane
<1> QED
  BY <1>1, <1>2, <1>3, <1>4 DEF CallerStep

LEMMA LanesKeepOneLane ==
  ASSUME TypeOK, OneLane, ~complete', NEW w \in Workers, LaneStep(w)
  PROVE  OneLane'
<1> USE Basics
<1>1. CASE TakeTask(w)
  BY <1>1 DEF TakeTask, TypeOK, OneLane, Busy
<1>2. CASE TakeStop(w)
  BY <1>2 DEF TakeStop, TypeOK, OneLane, Busy
<1>3. CASE Execute(w)
  BY <1>3 DEF Execute, TypeOK, OneLane, Busy, ThreadSteps
<1>4. CASE Reload(w)
  BY <1>4 DEF Reload, TypeOK, OneLane, Busy, ThreadSteps
<1>5. CASE TearDownLane(w) \/ LeaveRegistry(w)
  BY <1>5 DEF TearDownLane, LeaveRegistry, OneLane
<1>6. CASE Answer(w)
  BY <1>6 DEF Answer, TypeOK, OneLane, Busy, Idle
<1> QED
  BY <1>1, <1>2, <1>3, <1>4, <1>5, <1>6 DEF LaneStep

-----------------------------------------------------------------------------
LEMMA LanesInvariance == Spec => []LanesInv
<1>1. Init => LanesInv
  BY InitLanes
<1>2. LanesInv /\ [Next]_vars => LanesInv'
  <2> SUFFICES ASSUME LanesInv, [Next]_vars PROVE LanesInv'
    OBVIOUS
  <2>1. TypeOK' /\ Asking'
    <3>1. CASE UNCHANGED vars
      BY <3>1 DEF vars, LanesInv, TypeOK, Asking, HasTask
    <3>2. CASE Next
      BY <3>2, CallerTypes, LaneTypes, OtherTypes DEF Next
    <3> QED
      BY <3>1, <3>2
  <2>2. ASSUME ~complete', ~down' PROVE OneLane'
    <3>1. CASE UNCHANGED vars
      BY <2>2, <3>1 DEF vars, LanesInv, OneLane, Busy
    <3>2. ASSUME NEW c \in Callers, CallerStep(c) PROVE OneLane'
      BY <2>2, <3>2, CallersKeepOneLane
        DEF LanesInv, CallerStep, GetOrCreate, Accept, Refuse, Evict
    <3>3. ASSUME NEW w \in Workers, LaneStep(w) PROVE OneLane'
      <4>1. ~complete /\ ~down
        <5>1. down' = down
          BY <3>3 DEF LaneStep, TakeTask, TakeStop, Execute, Reload, TearDownLane,
                      LeaveRegistry, Answer
        <5>2. CASE Execute(w)
          <6>1. complete' = (complete \/ KindOf(thread[w].task) = "finish")
            BY <5>2 DEF Execute
          <6>2. ~complete
            BY <2>2, <6>1, Zenon
          <6> QED
            BY <2>2, <5>1, <6>2
        <5>3. CASE ~Execute(w)
          <6>1. complete' = complete
            BY <3>3, <5>3 DEF LaneStep, TakeTask, TakeStop, Reload, TearDownLane,
                              LeaveRegistry, Answer
          <6> QED
            BY <2>2, <5>1, <6>1
        <5> QED
          BY <5>2, <5>3
      <4> QED
        BY <2>2, <3>3, <4>1, LanesKeepOneLane DEF LanesInv
    <3>4. ASSUME NEW w \in Workers, StopTaken(w) PROVE OneLane'
      BY <2>2, <3>4 DEF StopTaken, LanesInv, OneLane
    <3>5. CASE ShutDown
      BY <2>2, <3>5 DEF ShutDown
    <3> QED
      BY <3>1, <3>2, <3>3, <3>4, <3>5 DEF Next
  <2> QED
    BY <2>1, <2>2 DEF LanesInv
<1> QED
  BY <1>1, <1>2, PTL DEF Spec

\* The registry, the lanes and the callers always have the values they are meant to have.
THEOREM LanesTypeCorrect == Spec => []TypeOK
<1>1. LanesInv => TypeOK
  BY DEF LanesInv
<1> QED
  BY LanesInvariance, <1>1, PTL

\* Until the execution is complete or the runner closes, no two lanes have work of it,
\* however often callers are handed workers.
THEOREM OpenExecutionIsSerial == Spec => []SerialUntilComplete
<1>1. LanesInv => SerialUntilComplete
  BY DEF LanesInv, OneLane, SerialUntilComplete
<1> QED
  BY LanesInvariance, <1>1, PTL

=============================================================================
