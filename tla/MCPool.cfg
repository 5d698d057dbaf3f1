SPECIFICATION Spec
CONSTANTS
  Threads = {t1, t2}
  Members = {m1, m2, m3}
  NoMember = NoMember
  Lists = {"none", "A"}
  NoServers = "none"
  Flags = {"f"}
  ArcusFlags = {"f"}
  MaxArg = 2
  Initial = 1
  OwnsMaster = FALSE
  AllocMayFail = FALSE
  BehaviorMayFail = FALSE
  MayDestroy = FALSE
  MaxVersion = 2
  MaxKetamaVersion = 3
CHECK_DEADLOCK FALSE
SYMMETRY MembersAndThreads
INVARIANTS
  TypeOK
  SizeAccounting
  Exclusive
  NoLostWakeup
  WaitersCounted
  LockDiscipline
  TailPointer
  FreshIdle
  ListVersionFaithful
  SettingsVersionFaithful
PROPERTIES
  BorrowedUntouched
  FetchedIsCurrent
