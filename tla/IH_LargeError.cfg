SPECIFICATION FairSpec
CONSTANTS
  None = None
  ApiErrors <- ServiceErrors
  MaxInvocations = 2
  MaxBatches = 2
INVARIANT NonRetryableErrorsEnd
\* The execution ends.
CHECK_DEADLOCK FALSE
