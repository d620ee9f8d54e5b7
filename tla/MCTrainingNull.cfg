SPECIFICATION Spec
CONSTANTS
  Cycles      = {c}
  Horizons    = 1
  Errors      = {98, 100}
  Threshold   = 2
  Tries       = 1
  Overlap     = FALSE
  Meddling    = FALSE
  NullAnchors = TRUE
  MaxFaults   = 0
  MaxCrashes  = 0
  MaxMoves    = 0
SYMMETRY Interchangeable
CHECK_DEADLOCK FALSE
INVARIANT PromotedBeatBaseline
