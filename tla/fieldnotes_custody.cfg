SPECIFICATION Spec
CONSTANTS
  t1 = t1
  t2 = t2
  x = x
  y = y
  Notes <- MCNotes
  n1 = n1
  n2 = n2
  k1 = k1
  Texts = {x, y}
  SpareKeys = {k1}
  Tabs = {t1, t2}
  MaxRequests = 3
  MaxVersion = 2
INVARIANTS TypeOK NoNoteLost RecordedOnce ReceiptsBacked ConflictTold
PROPERTIES PromiseKept
CHECK_DEADLOCK FALSE
CONSTRAINT OneScenario
SYMMETRY MCSymmetry
