SPECIFICATION FairSpec
CONSTANTS
  NODE_CNT = 3
  Instance = 1
  Faulty = {}
  CRASH_VIEW = 0
  MaxView = 4
  Ahead = 5
INVARIANTS TypeOK LinearChain
PROPERTIES AllExecuted
CHECK_DEADLOCK FALSE
