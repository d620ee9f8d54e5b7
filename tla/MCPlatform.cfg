SPECIFICATION FairPlatformSpec
CONSTANTS
  Ls           = {1, 2}
  Measurements <- SoundAndBroken
  Deployments  <- EachAlone
  OldestAge    = 5
  Threshold    = 1
  MaxTries     = 2
  MaxElapsed   = 1
  MaxLag       = 0
  MaxReadings  = 2
  MaxSwitches  = 1
  MaxAborts    = 1
  Horizons     = 2
  ModelSets    <- FirstOnly
  Lookback     = 2
  MaxOutages   = 1
  MaxLost      = 1
  MaxChoices   = 2
INVARIANTS
  PlatformTypeOK
  AlertsMatchRecord
  ExitHonest
  IndInv
  PageInOrder
  AnswersInOrder
PROPERTIES
  ImplementsLog
  OutageKeepsAlerting
  PageRecovers
