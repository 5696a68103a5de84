SPECIFICATION StagingSpec
CONSTANTS
  Passes = {p1}
  Clicks = {k1}
  MaxGeneration = 1
INVARIANT RetriedHasCopy
CHECK_DEADLOCK FALSE
