SPECIFICATION FairSpec
CONSTANTS
  NODE_CNT = 4
  Instance = 2
  Faulty = {3}
  CRASH_VIEW = 1
  MaxView = 8
  Ahead = 0
INVARIANTS CommitLocked Agreement NoOrphan
PROPERTIES AllExecuted
CHECK_DEADLOCK FALSE
