SPECIFICATION SearchSpec
CONSTANTS
  Problems <- LooseProblems
  Flows = {"bottom", "top", "right"}
  Brokers = {FALSE}
  Threads = 2
  FirstBatch = 2
  MaxBatch = 4
INVARIANTS
  MasksDisjoint
CHECK_DEADLOCK FALSE
