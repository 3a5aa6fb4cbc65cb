SPECIFICATION Spec
CONSTANTS
  Callers <- MCCallers
  Program <- MCProgram
  Workers <- MCWorkers
  MaxAttempts = 5
  MayShutDown = TRUE
INVARIANT SerialUntilComplete
PROPERTY SubmittersAreAnswered
\* The callers' programs are finite, so the system stops.
CHECK_DEADLOCK FALSE
