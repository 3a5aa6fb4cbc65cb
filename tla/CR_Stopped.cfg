SPECIFICATION Spec
CONSTANTS
  Clients <- MCClients
  Handler = "function"
  Runner = "test"
  Requests <- MCRequests
  MaxRequests = 1
  Timeouts = {"main", "beat"}
INVARIANT TimeoutMeansRunning
CHECK_DEADLOCK FALSE
