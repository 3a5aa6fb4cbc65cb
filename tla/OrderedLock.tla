----------------------------- MODULE OrderedLock -----------------------------
(***************************************************************************)
(* OrderedLock (threading.py): a lock used as a context manager that       *)
(* admits its callers in the order in which they called acquire.  A body   *)
(* that raises breaks the lock: every caller in the line, and every later  *)
(* one, gets an OrderedLockError.                                          *)
(*                                                                         *)
(* The Event an acquire creates is identified by its ticket: the number of *)
(* Events that had been appended to _waiters before it, plus one.          *)
(***************************************************************************)
EXTENDS Naturals, Sequences

CONSTANTS
  Threads,       \* threads that use the lock
  MaxTickets     \* bound: Events created in all

ASSUME TicketsAssumption == MaxTickets \in Nat

VARIABLES
  pc,            \* where each thread is: outside, waiting, holding, leaving
  ticket,        \* the Event of each thread's last acquire
  tickets,       \* Events created so far
  waiters,       \* _waiters
  set,           \* the Events that are set
  broken,        \* _is_broken
  granted        \* history: the Events whose acquire returned, in that order

lockVars == <<pc, ticket, tickets, waiters, set, broken, granted>>

LockInit ==
  /\ pc = [t \in Threads |-> "outside"]
  /\ ticket = [t \in Threads |-> 0]
  /\ tickets = 0
  /\ waiters = <<>> /\ set = {}
  /\ broken = FALSE
  /\ granted = <<>>

\* Mutant: an Event is set at once whoever is in the line.
AcquireAtOnce(t) ==
  /\ pc[t] = "outside" /\ ~broken /\ tickets < MaxTickets
  /\ pc' = [pc EXCEPT ![t] = "waiting"]
  /\ tickets' = tickets + 1
  /\ ticket' = [ticket EXCEPT ![t] = tickets']
  /\ waiters' = Append(waiters, tickets')
  /\ set' = set \cup {tickets'}
  /\ UNCHANGED <<broken, granted>>

\* The caller joins the line; the first in it need not wait.  An acquire of a broken lock
\* raises and changes nothing.
Acquire(t) ==
  /\ pc[t] = "outside" /\ ~broken /\ tickets < MaxTickets
  /\ pc' = [pc EXCEPT ![t] = "waiting"]
  /\ tickets' = tickets + 1
  /\ ticket' = [ticket EXCEPT ![t] = tickets']
  /\ waiters' = Append(waiters, tickets')
  /\ set' = IF waiters = <<>> THEN set \cup {tickets'} ELSE set
  /\ UNCHANGED <<broken, granted>>

\* event.wait() has returned, and _is_broken is read without _lock: the caller enters, or
\* raises and leaves its Event in the line.
Proceed(t) ==
  /\ pc[t] = "waiting" /\ ticket[t] \in set
  /\ IF broken
     THEN pc' = [pc EXCEPT ![t] = "outside"] /\ UNCHANGED granted
     ELSE pc' = [pc EXCEPT ![t] = "holding"] /\ granted' = Append(granted, ticket[t])
  /\ UNCHANGED <<ticket, tickets, waiters, set, broken>>

\* release(): the head of the line is dropped, whoever it is, and the next let in.
Release ==
  /\ waiters' = Tail(waiters)
  /\ set' = IF waiters' # <<>> /\ ~broken THEN set \cup {Head(waiters')} ELSE set

\* The body returned.
Exit(t) ==
  /\ pc[t] = "holding" /\ waiters # <<>>
  /\ Release
  /\ pc' = [pc EXCEPT ![t] = "outside"]
  /\ UNCHANGED <<ticket, tickets, broken, granted>>

\* Mutant: the callers in the line are not woken.
BreakSilently(t) ==
  /\ pc[t] = "holding"
  /\ broken' = TRUE
  /\ pc' = [pc EXCEPT ![t] = "leaving"]
  /\ UNCHANGED <<ticket, tickets, waiters, set, granted>>

\* The body raised: the lock is broken under _lock, which is then let go before release()
\* takes it again.
Break(t) ==
  /\ pc[t] = "holding"
  /\ broken' = TRUE
  /\ set' = set \cup {waiters[i] : i \in 1 .. Len(waiters)}
  /\ pc' = [pc EXCEPT ![t] = "leaving"]
  /\ UNCHANGED <<ticket, tickets, waiters, granted>>

LeaveBroken(t) ==
  /\ pc[t] = "leaving" /\ waiters # <<>>
  /\ Release
  /\ pc' = [pc EXCEPT ![t] = "outside"]
  /\ UNCHANGED <<ticket, tickets, broken, granted>>

\* reset(): raises, and changes nothing, while there are Events in the line.
Reset ==
  /\ broken /\ waiters = <<>>
  /\ broken' = FALSE
  /\ UNCHANGED <<pc, ticket, tickets, waiters, set, granted>>

LockStep(t) == Acquire(t) \/ Proceed(t) \/ Exit(t) \/ Break(t) \/ LeaveBroken(t)

LockNext == Reset \/ \E t \in Threads : LockStep(t)

LockSpec == LockInit /\ [][LockNext]_lockVars

-----------------------------------------------------------------------------

\* Every variable has its type, and a thread inside the body or on its way out of it has
\* the head of the line (so the popleft of release drops its own Event).
LockTypeOK ==
  /\ pc \in [Threads -> {"outside", "waiting", "holding", "leaving"}]
  /\ ticket \in [Threads -> 0 .. tickets]
  /\ tickets \in Nat
  /\ waiters \in Seq(1 .. tickets) /\ set \subseteq 1 .. tickets
  /\ broken \in BOOLEAN
  /\ granted \in Seq(1 .. tickets)
  /\ \A t \in Threads :
       pc[t] \in {"holding", "leaving"} => waiters # <<>> /\ Head(waiters) = ticket[t]

\* Two bodies never run at the same time.
MutualExclusion ==
  \A t, u \in Threads : pc[t] = "holding" /\ pc[u] = "holding" => t = u

\* Callers enter in the order in which they called acquire ("the order in which callers
\* will acquire the lock is the order of invocation", threading.py 90-91).
GrantedInArrivalOrder ==
  \A i, j \in 1 .. Len(granted) : i < j => granted[i] < granted[j]

\* Nobody enters a broken lock, neither the callers in the line when it broke nor those
\* that raced with the break ("no subsequent lock attempts can succeed", 94-95).
NoEntryWhenBroken == [][broken => granted' = granted]_lockVars

\* Every caller in the line enters or is told: no wake-up is lost, also when a body raises
\* ("those callers will receive a OrderedLockError", 98-99).
CallersAreAnswered == \A t \in Threads : pc[t] = "waiting" ~> pc[t] # "waiting"

=============================================================================
