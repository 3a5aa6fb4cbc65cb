SPECIFICATION EitherSpec
CONSTANTS
  a = a  b = b  c = c
  None = None
  Threads = {a, b, c}
  MaxTickets = 7
  Configs <- SmallConfigs
  MaxBranches = 4
INVARIANTS NumbersFollowArrival ReasonExplainsStop
PROPERTY CallersAreAnswered
\* The bound on tickets ends a run, and so do a lock that stays broken and a batch's end.
CHECK_DEADLOCK FALSE
