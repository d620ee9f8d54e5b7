SPECIFICATION FairSpec
CONSTANTS
  Locations   = {1}
  LocationIds = {1, 2}
  Times       = {t1}
  Values      = {v1}
  Tasks       = {p, q}
  Retries     = 1
  MaxAttempts = 1
  MaxKills    = 1
PROPERTY EveryTaskFinishes
