SPECIFICATION FairSpec
CONSTANTS
  MaxList = 2
  MaxFaults = 2
  RetryDelay = 2
  AllocMayFail = TRUE
CHECK_DEADLOCK FALSE
INVARIANTS
  TypeOK
  NoLostRequest
  Attentive
  CloseApartFromWget
  ManagerHasArcus
PROPERTIES
  ListFollowed
  ExpiredReplaced
  OnlyCloseHangs
