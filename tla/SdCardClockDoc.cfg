SPECIFICATION Spec
CONSTANTS
  BlockCount = 1
  Kinds <- Families
  Faults = FALSE
  StablePolls = 3
  MaxTests = 2
  MaxMoves = 3
INVARIANTS
  InitializesSlowly
\* Between two tests the firmware waits for a request, and the number of tests
\* is bounded.
CHECK_DEADLOCK FALSE
