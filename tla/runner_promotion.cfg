\* One run of any kind, or two that share something; calls to MLflow fail, runs are killed.
SPECIFICATION Spec
CONSTANTS
  Checkpoints <- MCCheckpoints
  Images <- MCImages
  Score <- MCScore
  None = None
  Reference <- MCReference
  Epochs = 3
  Patience = 1
  Stable = "stable"
  Selection <- MCSelection
  Anchors <- MCAnchors
  ExcludedSplits = {"calibration_set_v001", "validation_set_v001", "incident"}
  Options <- MCOptions
  Faults = {"abort", "assets", "mlflow", "alias"}
  MaxRuns = 2
ACTION_CONSTRAINT SecondRunReadsTheFirst
CHECK_DEADLOCK FALSE
INVARIANTS
  TypeOK
  PiecesCountedOnce
  CyclesAreEarned
  GateJudgesTheFiles
  CandidatesAreBest
  RegisteredArePublished
  RuntimeIsJournaled
PROPERTIES
  AliasImproves
