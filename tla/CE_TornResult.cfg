SPECIFICATION Spec
CONSTANTS
  None = None
  N = 2
  MaxWorkers = 2
  Config <- FirstSuccessful
  Outcomes <- OkOnly
  MaxResumes = 0
  RefreshFails = FALSE
  Flat = FALSE
  AncestorEnds = FALSE
INVARIANT ResultIsBuilt
\* The threads end.
CHECK_DEADLOCK FALSE
