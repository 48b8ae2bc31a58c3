SPECIFICATION BoardSpec
CONSTANTS
  TestCount = 2
  NoFile = NoFile
  Partial = Partial
  Boards = {a, b}
  Nobody = Nobody
INVARIANTS
  PassedMeansAllPassed
  TerminalAgrees
  EndedRunIsDecided
  ExitCodeIsTrue
  ReportIsOfFlashedBoard
PROPERTIES
  ImplementsReportFile
\* A run is over when the process has ended.
CHECK_DEADLOCK FALSE
