CONSTANTS
  MaxNumberOfThred = 2
  MaxConn = 4
  MaxFd = 2
  Parts = 2
  Stalled <- Fourth
  Silent <- Second
  SpuriousWakeups = FALSE
SPECIFICATION FairSpec
CHECK_DEADLOCK FALSE
INVARIANTS
  TypeOK
  NoUninitialisedSocket
  OneDescriptorPerConnection
  HandledInOrder
PROPERTIES
  BossReturns
  WorkerReturns
