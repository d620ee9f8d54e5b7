SPECIFICATION FairSpec
CONSTANTS
  Horizons    = 1
  Deployed    <- OnlyFirst
  Requests    = {q}
  MaxVersions = 2
  MaxMoves    = 1
  MaxFaults   = 0
  MaxStops    = 0
PROPERTY ServesProduction
