--------------------------- MODULE CompletionTally ---------------------------
(***************************************************************************)
(* A batch whose branches complete one by one, each seen at once: the two  *)
(* readings of a CompletionConfig, by the counters while it runs and from  *)
(* the items afterwards, side by side.                                     *)
(***************************************************************************)
EXTENDS CompletionPolicy

CONSTANTS
  Configs,       \* the configurations considered
  MaxBranches    \* bound: branches of a batch

ASSUME ConfigsAssumption ==
  /\ \A cfg \in Configs : IsConfig(cfg)
  /\ MaxBranches \in Nat

VARIABLES config, total, successes, failures

tallyVars == <<config, total, successes, failures>>

TallyInit ==
  /\ config \in Configs
  /\ total \in 1 .. MaxBranches
  /\ successes = 0 /\ failures = 0

Stopped == ShouldComplete(config, total, successes, failures)

StoppedBecause == Reason(config, total, successes, failures)

CompleteTask ==
  /\ ~Stopped
  /\ successes' = successes + 1
  /\ UNCHANGED <<config, total, failures>>

FailTask ==
  /\ ~Stopped
  /\ failures' = failures + 1
  /\ UNCHANGED <<config, total, successes>>

TallyNext == CompleteTask \/ FailTask

TallySpec == TallyInit /\ [][TallyNext]_tallyVars

-----------------------------------------------------------------------------

\* The counts never exceed the branches: a batch stops at the latest with its last branch.
CountsInRange ==
  /\ successes \in Nat /\ failures \in Nat /\ total \in Nat
  /\ successes + failures <= total

\* Where the failures are bounded by a tolerance, or no criterion is set, the reason the
\* items give for a stop is the one for which the counters stopped (_get_completion_reason
\* against should_continue and is_complete).  With a minimum alone it is not: a first
\* failure stops the batch and the reason is the default, ALL_COMPLETED (models.py 132).
ReasonExplainsStop ==
  (HasTolerance(config) \/ ~HasCriteria(config)) /\ Stopped =>
    CASE StoppedBecause = "FAILURE_TOLERANCE_EXCEEDED" ->
           ~ShouldContinue(config, total, failures)
      [] StoppedBecause = "ALL_COMPLETED" ->
           successes + failures = total
      [] StoppedBecause = "MIN_SUCCESSFUL_REACHED" ->
           successes >= MinNeeded(config, total)

=============================================================================
