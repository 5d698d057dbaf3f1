SPECIFICATION FairSpec
CONSTANTS
  Threads = {t1, t2}
  Members = {m1, m2}
  NoMember = NoMember
  Lists = {"none", "A"}
  NoServers = "none"
  Flags = {"f"}
  ArcusFlags = {"f"}
  MaxArg = 1
  Initial = 1
  OwnsMaster = FALSE
  AllocMayFail = FALSE
  BehaviorMayFail = TRUE
  MayDestroy = FALSE
  MaxVersion = 2
  MaxKetamaVersion = 3
CHECK_DEADLOCK FALSE
PROPERTY BehaviorSetReturns
