SPECIFICATION Spec
CONSTANTS
  Instances = 2
  BatchSize = 3
  IndexSize = 9
  WORD = 1024
  MaxBatch = 5
INVARIANTS NextSignalled
CHECK_DEADLOCK FALSE
