CONSTANTS
  MaxNumberOfThred = 2
  MaxConn = 2
  MaxFd = 2
  Parts = 2
  Stalled <- First
  Silent <- Second
  SpuriousWakeups = TRUE
SPECIFICATION Spec
CHECK_DEADLOCK FALSE
INVARIANTS
  MutexDiscipline
  IsFreeIsTrue
