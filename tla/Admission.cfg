CONSTANTS
  MaxSize = 3
  LimitValue = {1, 2}
  Frame <- CloudFrames
  Envelope <- DeviceEnvelopes
SPECIFICATION AdmissionSpec
INVARIANTS
  LimitsNested
  ContentWithinLimit
  AdmittedIsDispatchable
  AnsweredOnce
  NotificationInert
  ResponsesWellFormed
  StatusTruthful
  ReportedUpgradeRetained
