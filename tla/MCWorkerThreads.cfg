SPECIFICATION Spec
CONSTANTS
  NODE_CNT = 3
  MULTI_INSTANCES = 2
  MULTI_THREADS = 2
  g_node_id = 1
  Input = {1}
  Voter <- OneSpare
  MaxView = 2
  MaxBatches = 2
INVARIANTS TypeOK SendingTokens TokenFindsMessage GenericStays GenericOfView OwnVoteFirst
PROPERTY Advances
CHECK_DEADLOCK FALSE
