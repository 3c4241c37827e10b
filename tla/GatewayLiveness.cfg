CONSTANTS
  Op = {o1, o2}
  RPC = {r1, r2}
  None = None
  Faults = {"save"}
  activeRecordLimit = 10
  k1 = k1
  k2 = k2
  Key = {k1, k2}
  NoKey = NoKey
  Requests <- Mixed
  maxConcurrentRequests = 2
  dispatchCapacity = 1
  resultCapacity = 1
  MaxResults = 1
SPECIFICATION FairGatewaySpec
PROPERTIES
  EveryRequestAnswered
  ImplementsReservation
CHECK_DEADLOCK FALSE
