SPECIFICATION Spec
CONSTANTS
  Ops <- BranchOps
  Kind <- BranchKind
  After <- BranchAfter
  Timeouts = {}
  Beats = {"one"}
  MaxFailed = 2
  Web = TRUE
  MayStop = TRUE
  Limited = TRUE
  MaxDisturb = 2
  MaxInvokes = 1
PROPERTY ClosedOnce
\* A closed execution with nothing scheduled is at rest.
CHECK_DEADLOCK FALSE
