SPECIFICATION FairSpec
CONSTANTS
  MaxList = 2
  MaxFaults = 2
  RetryDelay = 2
  AllocMayFail = FALSE
CHECK_DEADLOCK FALSE
PROPERTIES
  CallsReturn
