\* The dataset scripts over fourteen pieces, in any order, with kills between two files and half way through one.
SPECIFICATION Spec
CONSTANTS
  None = None
  Torn = Torn
  Pieces <- MCPieces
  ClassOf <- MCClassOf
  KindOf <- MCKindOf
  ImagesOf <- MCImagesOf
  GroupOf <- MCGroupOf
  SplitOf <- MCSplitOf
  Labels <- MCLabels
  Natural <- MCNatural
  Reserves <- MCReserves
  DefectTargets <- MCDefectTargets
  Totals = {2, 5, 20}
  MinimalCounts <- MCMinimalCounts
  PlanArgs <- MCPlanArgs
  Observed = {2, 3, 5}
  MaxBuilds = 3
CHECK_DEADLOCK FALSE
INVARIANTS PanelsHeldOut PanelIsRepresentative PlanCarriesDrift
