\* Two overlapping oracle feedbacks, no fault at all.
SPECIFICATION Spec
CONSTANTS
  Threads = {t1, t2}
  Predictions = {p1}
  Identities = {i1}
  Decisions = {"Vert"}
  Statuses = {"faux_positif"}
  Backends = {"postgres"}
  Faults = {}
  None = None
INVARIANTS
  ClosedOnlyOnce
