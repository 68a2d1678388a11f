SPECIFICATION Spec
CONSTANTS
  Users = {0, 1, 2}
  Stocks = {near, far}
  Masks = {m}
  Capacity = 2
  MaxToggles = 1
  MaxFilters = 3
INVARIANTS
  FlagsTrue
  ResidencyBounded
  LeaseMovesOn
CHECK_DEADLOCK FALSE
