\* One correction run, which selects a classification checkpoint on its own manifest.
SPECIFICATION Spec
CONSTANTS
  Checkpoints <- MCCheckpoints
  Images <- MCImages
  Score <- MCScore
  None = None
  Reference <- MCReference
  Epochs = 3
  Patience = 1
  Stable = "stable"
  Selection <- MCSelection
  Anchors <- MCAnchors
  ExcludedSplits = {"calibration_set_v001", "validation_set_v001", "incident"}
  Options <- CorrectionOptions
  Faults = {}
  MaxRuns = 1
CHECK_DEADLOCK FALSE
INVARIANT RegistryHoldsTheJudged
