SPECIFICATION FairSpec
CONSTANTS
  NODE_CNT = 4
  BATCH_SIZE = 2
  MAX_TXN_IN_FLIGHT = 7
  MESSAGE_PER_BUFFER = 2
  Silent = {0}
  MaxBatch = 6
INVARIANTS TypeOK InRound InFlight
PROPERTIES AllSent
CHECK_DEADLOCK FALSE
