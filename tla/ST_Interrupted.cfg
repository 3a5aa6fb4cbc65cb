SPECIFICATION Spec
CONSTANTS
  MaxAttempts = 2
  Results = {"r1", "r2"}
  None = None
  MaxCrashes = 2
INVARIANT SameOutcomeOnReplay
\* Nothing more happens once the step has returned.
CHECK_DEADLOCK FALSE
