SPECIFICATION FairSpec
CONSTANTS
  Programs <- MCPrograms
  MaxPolls = 3
  MaxCrashes = 4
INVARIANTS OutcomesAgree NothingRefused NewCodeIsNew PollsContinue
PROPERTY Concludes
\* The handler ends.
CHECK_DEADLOCK FALSE
