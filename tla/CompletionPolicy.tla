--------------------------- MODULE CompletionPolicy ---------------------------
(***************************************************************************)
(* When a map or parallel stops, and what it says about why it stopped.    *)
(* The first is decided by ExecutionCounters while branches complete, the  *)
(* second is inferred afterwards by BatchResult._get_completion_reason     *)
(* from the items alone (concurrency/models.py): two readings of the same  *)
(* CompletionConfig (config.py).                                           *)
(*                                                                         *)
(* A configuration is [min, count, pct]; n is the number of branches, s    *)
(* and f of those that have succeeded and failed.                          *)
(***************************************************************************)
EXTENDS Naturals

CONSTANT None    \* a criterion that is not set

IsConfig(cfg) ==
  /\ cfg.min \in Nat \cup {None} /\ cfg.count \in Nat \cup {None}
  /\ cfg.pct \in 0 .. 100 \cup {None}

ASSUME NoneAssumption == None \notin Nat

\* A minimum of zero counts as not set: `min_successful or len(executables)`.
MinNeeded(cfg, n) == IF cfg.min \in {None, 0} THEN n ELSE cfg.min

HasTolerance(cfg) == cfg.count # None \/ cfg.pct # None
HasCriteria(cfg)  == cfg.min # None \/ HasTolerance(cfg)

\* The percentage is compared as f * 100 > pct * n; the code divides floats.
Exceeds(cfg, n, f) ==
  \/ cfg.count # None /\ f > cfg.count
  \/ cfg.pct # None /\ n > 0 /\ f * 100 > cfg.pct * n

\* Mutant: one failure more than the tolerated number is let pass.
ContinuePastLimit(cfg, n, f) ==
  IF HasTolerance(cfg) THEN f = 0 \/ ~Exceeds(cfg, n, f - 1) ELSE f = 0

\* Without any tolerance the first failure stops the batch.
ShouldContinue(cfg, n, f) ==
  IF HasTolerance(cfg) THEN ~Exceeds(cfg, n, f) ELSE f = 0

IsComplete(cfg, n, s, f) == s + f = n \/ s >= MinNeeded(cfg, n)

ShouldComplete(cfg, n, s, f) == IsComplete(cfg, n, s, f) \/ ~ShouldContinue(cfg, n, f)

\* The tolerance as the reason reads it: fail-fast only without any criterion at all.
ToleranceExceeded(cfg, n, f) ==
  IF HasCriteria(cfg) THEN Exceeds(cfg, n, f) ELSE f > 0

Reason(cfg, n, s, f) ==
  IF ToleranceExceeded(cfg, n, f) THEN "FAILURE_TOLERANCE_EXCEEDED"
  ELSE IF s + f = n THEN "ALL_COMPLETED"
  ELSE IF cfg.min # None /\ s >= cfg.min THEN "MIN_SUCCESSFUL_REACHED"
  ELSE "ALL_COMPLETED"
=============================================================================
