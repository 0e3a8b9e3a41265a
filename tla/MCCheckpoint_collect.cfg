SPECIFICATION FairSpec
CONSTANTS
  Interval = 4
  Keep = 2
  Back = 1
  MaxChkpt = 4
INVARIANTS TypeOK Collected StillOwned
PROPERTIES AllCollected
CHECK_DEADLOCK FALSE
