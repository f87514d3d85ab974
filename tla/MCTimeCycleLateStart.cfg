CONSTANTS
  BaseTimeUnit = 2
  TimeEpsilon = 1
  Horizon = 24
  Runs <- MCLateStart
SPECIFICATION Spec
INVARIANT IntervalMatchesTimeline
CHECK_DEADLOCK FALSE
