\* Three requests of every kind, for every component behaviour and for a type
\* the registry does not know.
SPECIFICATION FairSpec
CONSTANTS
  LineQueueDepth = 2
  TransmitDepth = 2
  RequestedTypes <- EveryBehaviour
  MaxRequests = 3
  MaxOnWire = 2
INVARIANTS
  NoMessageDropped
  OnlyActiveComponentOn
  HostCanFollow
  AnswersInOrder
PROPERTY EveryRequestAnswered
