\* Two handlers in flight on one prediction, every fault, both backends.
SPECIFICATION Spec
CONSTANTS
  Threads = {t1, t2}
  Predictions = {p1}
  Identities = {i1, i2}
  Decisions = {"Vert"}
  Statuses = {"defaut_confirme"}
  Backends = {"postgres", "memory"}
  Faults = {"unreachable", "lost_reply", "restart"}
  None = None
SYMMETRY Symmetry
INVARIANTS
  TypeOK
  ClosureAgreement
  StoresBehindTables
  AnswersAreDurable
  LateFeedbackRejected
  EarlierHumanIsLogged
  EscapesAreRaised
PROPERTIES
  RowsOnlyClose
