SPECIFICATION FairSpec
CONSTANTS
  Threads = {t1, t2}
  Solo = t1
  MayFail = TRUE
  MaxVersion = 2
INVARIANTS
  IInv
  CaughtUp
  KverTellsList
PROPERTIES
  Follows
CHECK_DEADLOCK FALSE
