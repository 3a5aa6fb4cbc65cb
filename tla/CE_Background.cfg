SPECIFICATION FairSpec
CONSTANTS
  None = None
  N = 2
  MaxWorkers = 2
  Config <- AnyMayFail
  Outcomes <- OkOrBackground
  MaxResumes = 0
  RefreshFails = FALSE
  Flat = FALSE
  AncestorEnds = FALSE
PROPERTY ParentLeaves
\* The threads end.
CHECK_DEADLOCK FALSE
