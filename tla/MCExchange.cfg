CONSTANTS
  Ranks <- MCRanks
  Recvs <- MCRecvs
  Vectors = {"x", "y"}
  Program <- MCProgram
SPECIFICATION Spec
INVARIANT OneMessagePerNeighbour
PROPERTIES
  AllUpdatesEnd
  ImplementsGhostUpdate
CHECK_DEADLOCK FALSE
