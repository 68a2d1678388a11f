SPECIFICATION Spec
CONSTANTS
  Producers = {grid, helper}
  MaxSubmit = 4
INVARIANTS
  NothingLost
PROPERTIES
  IsLatestValue
CHECK_DEADLOCK FALSE
