SPECIFICATION FairSpec
CONSTANTS
  BlockCount = 2
  Kinds <- AllKinds
  Faults = TRUE
  StablePolls = 3
  MaxTests = 2
  MaxMoves = 3
INVARIANTS
  PassedMeansStored
  OneCardThroughout
  InsertionIsStable
  FailureIsNamed
  ProtocolFollowed
PROPERTIES
  ImplementsLifecycle
  TestEnds
\* Between two tests the firmware waits for a request, and the number of tests
\* is bounded.
CHECK_DEADLOCK FALSE
