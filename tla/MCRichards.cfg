CONSTANTS
  BaseTimeUnit = 4
  TimeEpsilon = 1
  Problems <- MCProblems
SPECIFICATION Spec
INVARIANTS
  TypeOK
  NeverPastStop
  SolveFromConvergedState
  UnconvergedStateIsLast
  LsmNotOverstepped
  NoDumpMissed
  DumpsOnIntervalOrAtStop
  FilesAndLogAgree
  SumsCoverRun
  LogWithinArray
  ForcingInStep
  EndsForAReason
PROPERTIES
  RetriesShrink
  ImplementsClock
CHECK_DEADLOCK FALSE
