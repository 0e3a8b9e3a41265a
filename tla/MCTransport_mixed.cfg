SPECIFICATION Spec
CONSTANTS
  BATCH_SIZE = 2
  Garbage = Garbage
  NODE_CNT = 4
  CLIENT_NODE_CNT = 1
  REM_THREAD_CNT = 3
  SEND_THREAD_CNT = 4
  CLIENT_THREAD_CNT = 1
  CLIENT_REM_THREAD_CNT = 12
  CLIENT_SEND_THREAD_CNT = 1
  TPORT_WINDOW = 20000
  MSG_SIZE_MAX = 700
  Receiver = {1, 3, 4}
  Kinds <- Mixed
  MaxInFlight = 2
INVARIANTS TypeOK RoundTrip Validates InBounds
PROPERTY Polled
CHECK_DEADLOCK FALSE
