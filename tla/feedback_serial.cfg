\* One handler at a time beside one reader of the history, both backends, every fault.
SPECIFICATION HSpec
CONSTANTS
  Threads = {t1}
  Predictions = {p1}
  Identities = {i1}
  Decisions = {"Vert"}
  Statuses = {"defaut_confirme", "faux_negatif", "roi_fail"}
  Backends = {"postgres", "memory"}
  Faults = {"unreachable", "lost_reply", "restart"}
  None = None
INVARIANTS
  ClosedOnlyOnce
  HistoryIsCurrent
PROPERTIES
  RefinesLedger
