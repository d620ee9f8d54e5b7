SPECIFICATION MCSpec
CONSTANTS
  Values          = {v}
  Null            = Null
  Absent          = Absent
  Lags            = {1, 2}
  Windows         = {1, 2}
  LookbackSetting = 1
  Builders        = {b}
  MaxTime         = 4
  MaxLate         = 1
  MaxKills        = 1
  HistoryLimit    = 3
  Hours           = {0, 1, 3, 7}
  Pressures       = {995, 997, 1000, 1001}
  Concentrations  = {0, 17, 75, 349}
INVARIANTS
  NoLeak
  IndInv
  GridAgrees
  StormSignal
  ScoreIsAverage
PROPERTIES
  RerunKeeps
  CatchesUp
