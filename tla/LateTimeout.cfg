CONSTANTS
  RPC = {r1}
  Op = {o1}
  Key = {k1}
  None = None
  NoKey = NoKey
  Requests <- AnyRequest
  Faults = {}
  activeRecordLimit = 0
  maxConcurrentRequests = 1
SPECIFICATION Spec
PROPERTY AcceptedUpgradeNotTimedOut
CHECK_DEADLOCK FALSE
