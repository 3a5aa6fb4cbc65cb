SPECIFICATION Spec
CONSTANTS
  Ops <- BranchOps
  Kind <- BranchKind
  After <- BranchAfter
  Timeouts = {}
  Beats = {"one"}
  MaxFailed = 2
  Web = TRUE
  MayStop = FALSE
  Limited = FALSE
  MaxDisturb = 0
  MaxInvokes = 1
PROPERTY OutcomesReachHandler
\* A closed execution with nothing scheduled is at rest.
CHECK_DEADLOCK FALSE
