CONSTANTS
  Size = 8
  MaxConn = 2
  Inputs <- MCInputs
  KeyWords <- MCKeyWords
SPECIFICATION FairSpec
CHECK_DEADLOCK FALSE
INVARIANT
  AnsweredAsAsked
PROPERTIES
  NeverGivesUp
  BlankLineIsSeen
