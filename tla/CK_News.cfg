SPECIFICATION Spec
CONSTANTS
  Ops <- CallOps
  Kind <- CallKind
  Parent <- CallParent
  PageItems = 1
  Web = TRUE
  ClientTokens = TRUE
  MaxBatch = 2
  MaxInvocations = 2
  MaxCalls = 2
  MaxLost = 1
PROPERTY SuspendedChangesAreAnnounced
\* A closed execution, or one with its bounds spent, is at rest.
CHECK_DEADLOCK FALSE
