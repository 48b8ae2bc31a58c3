\* A live test on a board that answers in time.
SPECIFICATION TestSpec
CONSTANTS
  LineQueueDepth = 2
  TransmitDepth = 2
  RequestedTypes <- NoTypes
  MaxRequests = 0
  MaxOnWire = 2
  TestOrders <- OnlyBarometer
  HostBuffer = 2
  OperatorMayCancel = FALSE
  DeviceMayStall = FALSE
INVARIANT DecisionRecorded
