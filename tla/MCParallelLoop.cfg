SPECIFICATION PixelSpec
CONSTANTS
  Size = 3
  MaxCount = 4
  MaxRuns = 2
  Masks <- MCMasks
  Breadth <- MCBreadth
  Height <- MCHeight
  Estimate <- MCEstimate
  Cost <- MCCost
  Budget = 4
  WordBits = 3
  Widest = 4
  Grid = 3
INVARIANTS
  Barrier
  ExactlyOnce
  PixelsWhole
  RowsExact
PROPERTIES
  LoopEnds
CHECK_DEADLOCK FALSE
