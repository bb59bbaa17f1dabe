\* One run of the task chain, a rollback and two reloads, with failing calls and a restart.
SPECIFICATION Spec
CONSTANTS
  Metrics <- MCMetrics
  GatesConfig <- MCGates
  TargetStages = {"prod"}
  Faults = TRUE
  MaxVersions = 2
  MaxChains = 1
  MaxRollbacks = 1
  None = None
  Requests = {r1, r2}
  Predictions = {p}
  MaxRestarts = 1
CONSTRAINT FewEvents
CHECK_DEADLOCK FALSE
INVARIANTS
  TypeOK
  ServedWasProd
  PredictionIsOneVersion
  ReloadedWasSwapped
PROPERTIES
  AliasesSpec
  ReloadIsAudited
