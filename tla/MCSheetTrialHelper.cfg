SPECIFICATION Spec
CONSTANTS
  Parts = {bracket, plate, ring}
  Stock = 1
  Pulsed = TRUE
INVARIANTS
  Conserved
CHECK_DEADLOCK FALSE
