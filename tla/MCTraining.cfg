SPECIFICATION Spec
CONSTANTS
  Cycles      = {c, d}
  Horizons    = 2
  Errors      = {98, 100}
  Threshold   = 2
  Tries       = 2
  Overlap     = FALSE
  Meddling    = FALSE
  NullAnchors = FALSE
  MaxFaults   = 1
  MaxCrashes  = 2
  MaxMoves    = 1
SYMMETRY Interchangeable
CHECK_DEADLOCK FALSE
INVARIANTS
  AliasesInStep
  AuditComplete
  IndInv
PROPERTY BeatsPredecessor
