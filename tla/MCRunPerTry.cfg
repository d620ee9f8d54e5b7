SPECIFICATION Spec
CONSTANTS
  Locations   = {1}
  LocationIds = {1, 2}
  Times       = {t1}
  Values      = {v1}
  Tasks       = {p}
  Retries     = 1
  MaxAttempts = 2
  MaxKills    = 0
INVARIANT OneRunPerTry
