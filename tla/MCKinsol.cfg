SPECIFICATION Spec
CONSTANTS
  Decks <- MCDecks
  MXNBCF = 1
  MaxLong = 2
  MaxTrials = 3
  MaxRetries = 2
INVARIANTS
  TypeOK
  AcceptedForAReason
  FluxesOfReturnedPressure
  LinearSystemCurrent
  MaxIterWithPC
  OutputsOfThisSolve
