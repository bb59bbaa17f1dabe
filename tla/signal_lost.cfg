\* A poll that fails after it journaled a positive decision.
SPECIFICATION FairSpec
CONSTANTS
  MaxPredictions = 1
  MaxDrifts = 0
  Kinds = {"natural"}
  MinNatural = 1
  RoiWindow = 2
  MaxFailures = 1
  MaxOverwrites = 0
  None = None
PROPERTIES
  PositiveDecisionsLaunch
