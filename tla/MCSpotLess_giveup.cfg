SPECIFICATION FairSpec
CONSTANTS
  NODE_CNT = 4
  Instance = 2
  Faulty = {3}
  CRASH_VIEW = 0
  MaxView = 8
  Ahead = 1
INVARIANTS ViewQuorum GenericAccepted
PROPERTIES AllExecuted ReplicatedLog
CHECK_DEADLOCK FALSE
