SPECIFICATION FairSpec
CONSTANTS
  Instances = 3
  BatchSize = 3
  IndexSize = 7
  WORD = 64
  MaxBatch = 6
INVARIANTS TypeOK WorkerTokens HeapNonEmpty
PROPERTIES ExecutedUnlessStray
CHECK_DEADLOCK FALSE
