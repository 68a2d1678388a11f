SPECIFICATION SearchSpec
CONSTANTS
  Problems <- MCProblems
  Flows = {"automatic", "left"}
  Brokers = {TRUE, FALSE}
  Threads = 2
  FirstBatch = 2
  MaxBatch = 4
INVARIANTS
  FramesSound
  MasksDisjoint
  BestValid
  Complete
PROPERTIES
  Terminates
CHECK_DEADLOCK FALSE
