SPECIFICATION Spec
CONSTANTS
  Parts = {bracket, plate, ring}
  Stock = 2
  Pulsed = FALSE
INVARIANTS
  Conserved
  RasterComplete
  CompletedHonestly
PROPERTIES
  RefillGrows
  TrialReturns
CHECK_DEADLOCK FALSE
