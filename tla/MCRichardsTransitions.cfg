CONSTANTS
  BaseTimeUnit = 4
  TimeEpsilon = 1
  Problems <- MCWellsAndBC
SPECIFICATION Spec
PROPERTY StepsEndAtTransitions
CHECK_DEADLOCK FALSE
