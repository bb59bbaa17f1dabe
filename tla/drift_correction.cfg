\* An observation, its correction, one run started by hand and the demo, with one fault.
SPECIFICATION Spec
CONSTANTS
  Runs = {"correction", "manual"}
  None = None
  StableRows = 8
  P4Rows = 11
  WindowSize = 5
  MinWindowEvents = 3
  ConfirmWindows = 2
  ObservationArgs <- MCArgs
  MaxCycles <- MCCycles
  Epochs = 2
  DualPromotion <- MCDual
  Outcomes <- MCOutcomes
  MaxFaults = 1
CHECK_DEADLOCK FALSE
INVARIANTS TypeOK CountedOnce UndisturbedRunIsShown ConfirmedByEvidence
PROPERTY CorrectionEnds
