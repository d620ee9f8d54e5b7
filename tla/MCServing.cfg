SPECIFICATION FairSpec
CONSTANTS
  Horizons    = 2
  Deployed    <- OnlySecond
  Requests    = {q}
  MaxVersions = 3
  MaxMoves    = 1
  MaxFaults   = 1
  MaxStops    = 1
INVARIANTS
  LogNotAhead
  AvailableAfterStart
  IndInv
PROPERTY FollowsPromotions
