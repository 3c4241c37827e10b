CONSTANTS
  None = None
  Message <- ResponsesAndEvents
  capacity = 2
  emergencyCap = 2
  BurstLimit = 1
  MaxSessions = 3
  Unstable = {1, 2, 3}
  PumpsOutlive = TRUE
SPECIFICATION WSSpec
INVARIANTS
  ResponseOnOwnSession
  OnlyStaleResponsesDropped
PROPERTIES
  SuccessfulWriteIsFinal
CHECK_DEADLOCK FALSE
