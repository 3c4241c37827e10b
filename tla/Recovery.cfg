CONSTANTS
  RPC = {r1, r2}
  Op = {o1, o2}
  Key = {k1}
  None = None
  NoKey = NoKey
  Requests <- Upgrades
  Faults = {"save", "delete"}
  activeRecordLimit = 1
  maxConcurrentRequests = 2
  sweeperTTL = 1
  MaxTime = 1
  MaxCrashes = 2
  ClockMayJump = FALSE
SPECIFICATION RecoverySpec
SYMMETRY Symmetry
INVARIANTS
  UpgradeProtectedAcrossRestart
  NoHolderFromEarlierBoot
CHECK_DEADLOCK FALSE
