SPECIFICATION Spec
CONSTANTS
  Producer = {p1, p2}
  Replica = {1, 2}
  Client = 3
  SEND_THREAD_CNT = 2
  MESSAGE_PER_BUFFER = 2
  MaxMsg = 3
INVARIANTS InOrder OnlyUnforcedWait
SYMMETRY Symmetry
CHECK_DEADLOCK FALSE
