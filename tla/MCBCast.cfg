CONSTANTS
  N = 6
  Sources <- MCSources
SPECIFICATION Spec
INVARIANT EachGetsItsBroadcast
PROPERTY AllBroadcastsEnd
CHECK_DEADLOCK FALSE
