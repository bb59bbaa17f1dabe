\* One reload of a registered bundle, whose connection may break.
SPECIFICATION Spec
CONSTANTS
  Metrics <- MCMetrics
  GatesConfig <- MCGates
  TargetStages = {"prod"}
  Faults = TRUE
  MaxVersions = 2
  MaxChains = 0
  MaxRollbacks = 1
  None = None
  Requests = {r1}
  Predictions = {}
  MaxRestarts = 1
CHECK_DEADLOCK FALSE
INVARIANT AcceptedReloadsAreAudited
