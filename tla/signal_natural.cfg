\* A natural scenario: pieces are judged while the collector reads; one poll fails.
SPECIFICATION FairSpec
CONSTANTS
  MaxPredictions = 3
  MaxDrifts = 0
  Kinds = {"natural"}
  MinNatural = 2
  RoiWindow = 2
  MaxFailures = 1
  MaxOverwrites = 1
  None = None
INVARIANTS
  TypeOK
  PiecesAreConsumedOnce
  ConsumedWereEligible
PROPERTIES
  EnoughPiecesAreConsumed
