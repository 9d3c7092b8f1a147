CONSTANTS
  MaxThreads = 3
  MaxRequests = 2
  MaxFd = 2
  MaxPaired = 2
  ServerWorkers = 2
  ServerFds = 2
  MaxSpurious = 1
SPECIFICATION SpecPair
CHECK_DEADLOCK FALSE
INVARIANTS
  OwnAnswersInOrder
  OwnDescriptor
PROPERTIES
  ServerKeepsContract
  OnlyAcceptEndsServer
  ClientReturns
