\* Two live tests in a row.
SPECIFICATION TestSpec
CONSTANTS
  LineQueueDepth = 2
  TransmitDepth = 2
  RequestedTypes <- NoTypes
  MaxRequests = 0
  MaxOnWire = 2
  TestOrders <- LiveThenLive
  HostBuffer = 2
  OperatorMayCancel = FALSE
  DeviceMayStall = FALSE
INVARIANT AnswerReachesPrompt
