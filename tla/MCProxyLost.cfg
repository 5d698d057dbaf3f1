SPECIFICATION Spec
CONSTANTS
  Threads = {t1, t2}
  Solo = t1
  MayFail = FALSE
  MaxVersion = 2
INVARIANT PoolCaughtUp
CHECK_DEADLOCK FALSE
