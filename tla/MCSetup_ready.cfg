SPECIFICATION Spec
CONSTANTS
  Replica = {0, 1}
  Client = 2
  SEND_THREAD_CNT = 2
  MESSAGE_PER_BUFFER = 3
  AtOnce = {0, 1, 2}
  Early = {}
  Worker = {w1, w2}
  Input = {0, 1}
  thread <- OwnThread
INVARIANTS KeysBeforeStart
CHECK_DEADLOCK FALSE
