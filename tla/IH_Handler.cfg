SPECIFICATION FairSpec
CONSTANTS
  None = None
  ApiErrors <- ServiceErrors
  MaxInvocations = 4
  MaxBatches = 2
INVARIANTS AnswerIsBacked RetryableErrorsAreRaised StartsHaveEnds
PROPERTY InvocationsAnswer
\* The execution ends.
CHECK_DEADLOCK FALSE
