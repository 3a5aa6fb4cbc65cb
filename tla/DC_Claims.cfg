SPECIFICATION Spec
CONSTANTS
  Programs <- ClaimPrograms
  MaxPolls = 2
  MaxCrashes = 1
\* None of them holds: with -continue TLC shows a behaviour for each.
INVARIANTS GivenTheSame PollStateIsDurable ReplayLasts
\* The handler ends.
CHECK_DEADLOCK FALSE
