CONSTANTS
  MaxNumberOfThred = 2
  MaxConn = 3
  MaxFd = 2
  Parts = 2
  Stalled <- None
  Silent <- None
  SpuriousWakeups = FALSE
SPECIFICATION FairSpec
CHECK_DEADLOCK FALSE
PROPERTIES
  QueuedIsAssigned
