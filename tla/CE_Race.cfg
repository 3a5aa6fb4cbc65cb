SPECIFICATION FairSpec
CONSTANTS
  None = None
  N = 2
  MaxWorkers = 2
  Config <- FirstSuccessful
  Outcomes <- Mixed
  MaxResumes = 1
  RefreshFails = TRUE
  Flat = FALSE
  AncestorEnds = TRUE
INVARIANTS ResultMeetsCriteria BranchesAreTracked OutcomesAreDurable
PROPERTY ParentLeavesUndisturbed
\* The threads end.
CHECK_DEADLOCK FALSE
