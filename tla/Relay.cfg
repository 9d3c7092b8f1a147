CONSTANTS
  Total = 8
  ServerLength = 4
  RelayLength = 3
  ClientLength = 2
SPECIFICATION FairRelaySpec
CHECK_DEADLOCK FALSE
INVARIANTS
    NothingLost
  PrintedInOrder
PROPERTY
  ClientReturns
