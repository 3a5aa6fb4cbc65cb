SPECIFICATION Spec
CONSTANTS
  Ops <- MCOps
  Kind <- MCKind
  Parent <- MCParent
  PageItems = 1
  Web = TRUE
  ClientTokens = TRUE
  MaxBatch = 2
  MaxInvocations = 2
  MaxCalls = 2
  MaxLost = 1
INVARIANTS NothingHidden AppliedOnce
PROPERTY FinalStays
\* A closed execution, or one with its bounds spent, is at rest.
CHECK_DEADLOCK FALSE
