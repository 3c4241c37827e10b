CONSTANTS
  None = None
  Message <- EventsAndResponse
  capacity = 2
  emergencyCap = 2
  BurstLimit = 1
  MaxSessions = 3
  Unstable = {1, 2}
  PumpsOutlive = FALSE
SPECIFICATION FairWSSpec
INVARIANT LowerPriorityRetained
PROPERTY LowerPriorityDelivered
CHECK_DEADLOCK FALSE
