SPECIFICATION FairSpec
CONSTANTS
  Replica = {0, 1}
  Client = 2
  SEND_THREAD_CNT = 2
  MESSAGE_PER_BUFFER = 3
  AtOnce = {1, 2}
  Early = {0}
  Worker = {w1}
  Input = {0}
  thread <- OneThread
INVARIANTS TypeOK KeysBeforeStart
PROPERTIES Starts
CHECK_DEADLOCK FALSE
