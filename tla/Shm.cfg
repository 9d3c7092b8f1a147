CONSTANTS
  Leaves <- TheSecond
  Requests <- ThreeRequests
  UnknownHost <- TheThird
  Fd <- FdOfThree
  Keyings <- Both
  MaxSegments = 3
  Workers = 2
SPECIFICATION FairSpec
CHECK_DEADLOCK FALSE
INVARIANTS
  WholeIfSignalled
  LeakNeedsFailure
  SegmentStays
  
PROPERTIES
  HandlerReturns
