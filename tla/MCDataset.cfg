SPECIFICATION Spec
CONSTANTS
  Locations = 2
  Values    = {1, 2}
  Null      = Null
  Horizon   = 2
  Tolerance = 1
  TestSize  = 50
  MaxTime   = 4
  MaxWrites = 4
INVARIANTS
  LabelAhead
  OneRowPerSlot
  TrainsOnPast
  IndInv
PROPERTY CurrentIsAnchor
