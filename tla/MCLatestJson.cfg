SPECIFICATION SessionSpec
CONSTANTS
  MaxSubmit = 3
  MaxReads = 3
  TailLost = FALSE
INVARIANTS
  OutputWhole
  EndsClean
  ExitsHonestly
  RootInHistory
PROPERTIES
  SessionEnds
  IsLatestValue
CHECK_DEADLOCK FALSE
