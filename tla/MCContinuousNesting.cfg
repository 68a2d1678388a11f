SPECIFICATION Spec
CONSTANTS
  Helpers = {helper}
  Parts = 1
  Wastes = {0, 1}
  MaxSubmit = 3
INVARIANTS
  IncumbentSound
  ReturnsHonestly
PROPERTIES
  RunEnds
CHECK_DEADLOCK FALSE
