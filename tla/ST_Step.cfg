SPECIFICATION FairSpec
CONSTANTS
  None = None
  MaxAttempts = 3
  Results = {"r1", "r2"}
  MaxCrashes = 5
INVARIANTS AtMostOncePerAttempt GivenIsDurable NoUpdateRefused
PROPERTY StepConcludes
\* Nothing more happens once the step has returned.
CHECK_DEADLOCK FALSE
