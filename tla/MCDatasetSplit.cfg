SPECIFICATION Spec
CONSTANTS
  Locations = 1
  Values    = {1}
  Null      = Null
  Horizon   = 2
  Tolerance = 1
  TestSize  = 50
  MaxTime   = 4
  MaxWrites = 4
INVARIANT NeverTrainsOnLater
