SPECIFICATION Spec
CONSTANTS
  Ops <- MCOps
  Kind <- MCKind
  After <- MCAfter
  Timeouts = {"one"}
  Beats = {"one"}
  MaxFailed = 2
  Web = TRUE
  MayStop = TRUE
  Limited = TRUE
  MaxDisturb = 1
  MaxInvokes = 1
INVARIANT OneInvocation
PROPERTIES RecordIsGuarded Concludes OutcomesReachHandler
\* A closed execution with nothing scheduled is at rest.
CHECK_DEADLOCK FALSE
