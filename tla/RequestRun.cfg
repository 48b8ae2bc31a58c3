SPECIFICATION Spec
CONSTANTS
  MaxUint32 = 5
  MaxUint8 = 3
  Requests <- TesterRequests
  StrangePairs <- Odd
  MaxEdits = 2
  MaxCuts = 2
INVARIANTS
  AcceptedAsMeant
  ReadsInitialised
