CONSTANTS
  BaseTimeUnit = 4
  TimeEpsilon = 1
  WrfDt = 10
  MaxCalls = 4
  Problems <- MCProblems
SPECIFICATION WrfSpec
INVARIANT InStepWithWrf
CHECK_DEADLOCK FALSE
