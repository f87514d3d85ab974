CONSTANTS
  BaseTimeUnit = 4
  TimeEpsilon = 1
  Problems <- MCSubsurfaceOnly
SPECIFICATION Spec
INVARIANT NoStepWithoutState
CHECK_DEADLOCK FALSE
