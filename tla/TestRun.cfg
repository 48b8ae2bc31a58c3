\* Two tests in a row with handlers of every kind, cancellation and missed
\* deadlines.
SPECIFICATION FairTestSpec
CONSTANTS
  LineQueueDepth = 2
  TransmitDepth = 2
  RequestedTypes <- NoTypes
  MaxRequests = 0
  MaxOnWire = 2
  TestOrders <- EveryHandler
  HostBuffer = 2
  OperatorMayCancel = TRUE
  DeviceMayStall = TRUE
INVARIANTS
  CleanStart
  PassedMeansHealthy
  CancelledMeansOff
PROPERTY RunEnds
