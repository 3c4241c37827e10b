CONSTANTS
  RPC = {r1}
  Op = {o1, o2}
  Key = {k1}
  None = None
  NoKey = NoKey
  Requests <- Upgrades
  Faults = {"save", "bootid"}
  activeRecordLimit = 0
  maxConcurrentRequests = 2
  sweeperTTL = 0
  MaxTime = 1
  MaxCrashes = 2
  ClockMayJump = FALSE
SPECIFICATION FairRecoverySpec
INVARIANTS
  ActiveOperationDurable
  UpgradeProtectedAcrossRestart
PROPERTIES
  LockEventuallyReleased
  OrphanReconciled
CHECK_DEADLOCK FALSE
