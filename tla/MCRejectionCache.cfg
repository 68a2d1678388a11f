SPECIFICATION TrialsSpec
CONSTANTS
  Strategies = {one, two}
  Size = 5
  WordBits = 2
  PageWords = 2
  PageCost = 2
  Limit = 5
  TrialCount = 2
  MaxScore = 2
INVARIANTS
  BudgetKept
  ScanExact
  ReturnsBest
CHECK_DEADLOCK FALSE
SYMMETRY Symmetry
