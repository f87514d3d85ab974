CONSTANTS
  BaseTimeUnit = 4
  TimeEpsilon = 1
  WrfDt = 10
  MaxCalls = 4
  Problems <- MCOneDeck
SPECIFICATION WrfSpec
INVARIANT UnconvergedStateIsLast
CHECK_DEADLOCK FALSE
