SPECIFICATION Spec
CONSTANTS
  Clients <- MCClients
  Handler = "function"
  Runner = "test"
  Requests <- MCRequests
  MaxRequests = 1
  Timeouts = {"main", "beat"}
INVARIANTS OneOutcome OpenCallbackIsTimed
PROPERTY TestEnds
\* The test and the clients stop when they have had enough.
CHECK_DEADLOCK FALSE
