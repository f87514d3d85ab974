CONSTANTS
  BaseTimeUnit = 4
  TimeEpsilon = 1
  WrfDt = 10
  MaxCalls = 4
  Problems <- MCShortLog
SPECIFICATION WrfSpec
INVARIANT LogWithinArray
CHECK_DEADLOCK FALSE
