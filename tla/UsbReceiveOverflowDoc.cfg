\* The ring of UsbReceive.cfg against the promise of the README.
SPECIFICATION Spec
CONSTANTS
  RingCapacity = 4
  LineQueueDepth = 2
  MaxLineLength = 2
  HostLines = 3
  HostLengths <- MixedLengths
INVARIANT OverflowedLinesDiscarded
