CONSTANTS
  Message <- OnePerPriority
  capacity = 2
  emergencyCap = 3
  BurstLimit = 10
  MaxP0 = 13
  Payload = {t1, t2, t3}
  Nil = Nil
  ringCapacity = 3
  Flusher = {f1, f2, f3}
  MaxReports = 5
  ResultPayload = {p1, p2}
  queueCapacity = 5
  upperPercent = 80
  lowerPercent = 50
SPECIFICATION QueuesSpec
INVARIANTS
  QueuesTypeOK
  BurstBounded
  YieldRotates
  RingInv
  NewestReportKept
  CommittedInOrder
PROPERTIES
  RingIsQueue
  FlipsAcrossBand
