----------------------------- MODULE MCPrimitives -----------------------------
(***************************************************************************)
(* What the threads of an invocation count and lock with.  A behaviour is  *)
(* about one of three: the increments of an OrderedCounter, whose body     *)
(* cannot raise; an OrderedLock whose bodies may raise, with a reset of    *)
(* the broken lock; or the tally of a batch, for every configuration with  *)
(* small counts and round percentages.                                     *)
(***************************************************************************)
EXTENDS OrderedCounter, CompletionTally

CONSTANTS a, b, c

SmallConfigs ==
  [min : 0 .. 3 \cup {None}, count : 0 .. 2 \cup {None}, pct : {0, 25, 50, 100, None}]

NoLimits == [min |-> None, count |-> None, pct |-> None]

ByCounter == at \in [Threads -> {"load", "store", "read", "return"}]
ByOthers  == at = [t \in Threads |-> "other"]
ByTally   == at = [t \in Threads |-> "tally"]

OtherCounterInit == loaded = [t \in Threads |-> 0] /\ counter = 0 /\ drawn = <<>>
OtherTallyInit == config = NoLimits /\ total = 1 /\ successes = 0 /\ failures = 0

EitherInit ==
  \/ CounterInit /\ OtherTallyInit
  \/ /\ LockInit /\ OtherCounterInit
     /\ (ByOthers /\ OtherTallyInit) \/ (ByTally /\ TallyInit)

LockingNext ==
  /\ \/ ByCounter /\ CounterNext
     \/ ByOthers /\ LockNext /\ UNCHANGED counterVars
  /\ UNCHANGED tallyVars

BatchNext == ByTally /\ TallyNext /\ UNCHANGED allVars

EitherNext == LockingNext \/ BatchNext

eitherVars == <<allVars, tallyVars>>

\* A thread inside acquire or the body runs on; whether it calls acquire is its own affair,
\* and so is whether its body raises.
EitherSpec ==
  /\ EitherInit /\ [][EitherNext]_eitherVars
  /\ \A t \in Threads :
       /\ WF_eitherVars(Proceed(t) /\ UNCHANGED <<counterVars, tallyVars>>)
       /\ WF_eitherVars(ByOthers /\ (Exit(t) \/ LeaveBroken(t))
                          /\ UNCHANGED <<counterVars, tallyVars>>)
       /\ WF_eitherVars((Load(t) \/ Store(t) \/ Read(t) \/ Return(t)) /\ UNCHANGED tallyVars)
=============================================================================
