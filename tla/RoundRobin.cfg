CONSTANTS
  MAX_THREAD_COUNT = 2
  MaxConn = 4
  MaxFd = 3
  MaxSpurious = 1
  Stalled <- TheFirst
SPECIFICATION FairSpec
CHECK_DEADLOCK FALSE
INVARIANTS
  TypeOK
  AnswersNeverGoBack
  EachItsOwn
  OpenUntilItsWorkerEnds
PROPERTY
  WaitingWorkerServes
