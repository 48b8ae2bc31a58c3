\* A ring of 3 usable slots in front of lines of 2 to 5 bytes.
SPECIFICATION FairSpec
CONSTANTS
  RingCapacity = 4
  LineQueueDepth = 2
  MaxLineLength = 2
  HostLines = 3
  HostLengths <- MixedLengths
INVARIANTS
  PendingMeansFull
  BytesInOrder
  LinesAreCounted
  DamageIsCounted
  DamageIsLocal
PROPERTY EveryLineDelivered
