SPECIFICATION Spec
CONSTANTS
  Locations   = {1}
  LocationIds = {1, 2}
  Times       = {t1, t2}
  Values      = {v1}
  Tasks       = {p, q}
  Retries     = 1
  MaxAttempts = 2
  MaxKills    = 1
SYMMETRY Interchangeable
INVARIANTS
  ObservationProvenance
  AuditTrail
  NoLostObservation
  ExitCodeHonest
  IndInv
  PollBudget
  AllMetered
PROPERTIES
  AppendOnly
  EveryStepCounts
  ImplementsStore
