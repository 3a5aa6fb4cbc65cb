SPECIFICATION HistorySpec
CONSTANTS
  Ops <- MCOps
  Kind <- MCKind
  MaxItems = 4
  MaxTime = 1
  MaxUpdates = 3
  MaxInvocations = 2
INVARIANTS HistoryTellsTheRecord PagesAreSafe CallbackIsGivenInTime
\* A closed execution whose time and bounds are spent is at rest.
CHECK_DEADLOCK FALSE
