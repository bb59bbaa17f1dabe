\* A drift-correction scenario: observations arrive and are revised; one poll fails.
SPECIFICATION FairSpec
CONSTANTS
  MaxPredictions = 1
  MaxDrifts = 2
  Kinds = {"drift_correction"}
  MinNatural = 1
  RoiWindow = 2
  MaxFailures = 1
  MaxOverwrites = 0
  None = None
INVARIANTS
  EvidenceLaunchesOnce
PROPERTIES
  DecisionsAreFinal
  LatestDriftIsConsumed
