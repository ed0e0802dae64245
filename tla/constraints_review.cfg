SPECIFICATION Spec
CONSTANTS
  c1 = c1
  c2 = c2
  c3 = c3
  c4 = c4
  d1 = d1
  d2 = d2
  k1 = k1
  k2 = k2
  a1 = a1
  a2 = a2
  a3 = a3
  a4 = a4
  None = None
  Ids = {c1, c2, c3, c4}
  Existing = {c1}
  Docs = {d1, d2}
  Keys = {k1, k2}
  Attempts = {a1, a2, a3, a4}
  Requests <- Both
  MaxFailures = 1
  MaxRestarts = 1
INVARIANTS TypeOK VersionCountsChanges OneVerificationPerReview ReplayIsTheAnswer
PROPERTIES HandledAlone
CONSTRAINT OneScenario
CHECK_DEADLOCK FALSE
SYMMETRY MCSymmetry
