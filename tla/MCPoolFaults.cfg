SPECIFICATION FairSpec
CONSTANTS
  Threads = {t1}
  Members = {m1, m2}
  NoMember = NoMember
  Lists = {"none", "A"}
  NoServers = "none"
  Flags = {"f"}
  ArcusFlags = {"f"}
  MaxArg = 1
  Initial = 1
  OwnsMaster = FALSE
  AllocMayFail = TRUE
  BehaviorMayFail = TRUE
  MayDestroy = TRUE
  MaxVersion = 1
  MaxKetamaVersion = 2
CHECK_DEADLOCK FALSE
INVARIANT IInv
PROPERTIES
  UpdateTerminates
  OnlyLeakBlocks
