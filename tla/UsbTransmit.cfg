\* The code's two slots, four lines and two bus resets.
SPECIFICATION FairSpec
CONSTANTS
  TransmitDepth = 2
  MaxLines = 4
  MaxResets = 2
INVARIANTS
  StoredUntilComplete
  NoLineLost
  InOrderFewRepeats
PROPERTIES
  ImplementsService
  LinesReachHost
