SPECIFICATION FairSpec
CONSTANTS
  NumCountries = 2
  Timeout = 30
  Durations = {0, 30}
  Hints = {0, 60, 61}
  LeaseTTL = 300
INVARIANT
  FullRetryBudget
CHECK_DEADLOCK FALSE
