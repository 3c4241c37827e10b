CONSTANTS
  RPC = {r1, r2, r3}
  Op = {o1, o2}
  Key = {k1, k2}
  None = None
  NoKey = NoKey
  Requests <- CloudRequests
  Faults = {"save"}
  activeRecordLimit = 0
  maxConcurrentRequests = 2
SPECIFICATION Spec
SYMMETRY Symmetry
INVARIANTS
  InFlightHasDeadline
  StateLockConsistent
  StateChangeExclusion
  DeduplicationConsistent
  ExactlyOneResponse
  BufferedReplyHasConsumer
PROPERTIES
  FirstEventWins
CHECK_DEADLOCK FALSE
