CONSTANTS
  BaseTimeUnit = 2
  TimeEpsilon = 1
  Horizon = 24
  Runs <- MCRuns
SPECIFICATION Spec
INVARIANTS IntervalMatchesTimeline NextTransitionIsFirstChange
CHECK_DEADLOCK FALSE
