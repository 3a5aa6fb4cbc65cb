---------------------------- MODULE OrderedCounter ----------------------------
(***************************************************************************)
(* OrderedCounter.increment (threading.py), from which DurableContext      *)
(* takes the numbers of its operation ids (_create_step_id, context.py):   *)
(* the body of the OrderedLock loads the counter, stores it and reads it   *)
(* back for the caller, three steps that only the lock keeps together.     *)
(***************************************************************************)
EXTENDS OrderedLock

VARIABLES
  at,            \* the next step of each thread's increment
  loaded,        \* what it loaded
  counter,       \* _counter
  drawn          \* history: <<Event of the caller, number it got>> in the order of return

counterVars == <<at, loaded, counter, drawn>>
allVars == <<lockVars, counterVars>>

CounterInit ==
  /\ LockInit
  /\ at = [t \in Threads |-> "load"]
  /\ loaded = [t \in Threads |-> 0]
  /\ counter = 0
  /\ drawn = <<>>

Load(t) ==
  /\ pc[t] = "holding" /\ at[t] = "load"
  /\ loaded' = [loaded EXCEPT ![t] = counter]
  /\ at' = [at EXCEPT ![t] = "store"]
  /\ UNCHANGED <<lockVars, counter, drawn>>

Store(t) ==
  /\ pc[t] = "holding" /\ at[t] = "store"
  /\ counter' = loaded[t] + 1
  /\ at' = [at EXCEPT ![t] = "read"]
  /\ UNCHANGED <<lockVars, loaded, drawn>>

Read(t) ==
  /\ pc[t] = "holding" /\ at[t] = "read"
  /\ drawn' = Append(drawn, <<ticket[t], counter>>)
  /\ at' = [at EXCEPT ![t] = "return"]
  /\ UNCHANGED <<lockVars, loaded, counter>>

Return(t) ==
  /\ at[t] = "return"
  /\ Exit(t)
  /\ at' = [at EXCEPT ![t] = "load"]
  /\ UNCHANGED <<loaded, counter, drawn>>

Enter(t) == (Acquire(t) \/ Proceed(t)) /\ UNCHANGED counterVars

\* The body does not raise, so the lock never breaks.
CounterNext == \E t \in Threads : Enter(t) \/ Load(t) \/ Store(t) \/ Read(t) \/ Return(t)

CounterSpec == CounterInit /\ [][CounterNext]_allVars

-----------------------------------------------------------------------------

\* The n-th caller gets n: no number is lost, given twice or given out of turn, so the ids
\* of a context's operations follow the order in which its code asked for them ("Generate a
\* thread-safe step id, incrementing in order of invocation", context.py 444).
NumbersFollowArrival == \A i \in 1 .. Len(drawn) : drawn[i] = <<i, i>>
=============================================================================
