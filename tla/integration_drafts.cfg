SPECIFICATION MCSpec
CONSTANTS
  None = None
  Requirements = {r1, r2}
  Allocations = {a1}
  Designs = {d1}
  Legacy = {r2}
  Established = {r1, r2}
  Clients = {c1, c2}
  MaxCommands = 4
  t1 = t1  t2 = t2  t3 = t3
  Tasks = {t1, t2, t3}
  Plans = {m1}
  Planners = {n1}
  MaxDependencies = 3
  MaxChanges = 6
  MaxCandidates = 1
  e1 = e1  e2 = e2  e3 = e3
  Documents = {e1, e2, e3}
  Questions = {q1}
  Series = {s1, s2}
  Codes = {v1, v2}
  LegacyNumbers = {1, 2, 3}
  MaxAnswers = 2
  x1 = x1  x2 = x2  y1 = y1  y2 = y2  tag = tag
  Resources = {x1, x2}
  Kind <- MCKind
  Total <- MCTotal
  Assets = {y1, y2}
  TagOf <- MCTag
  j1 = j1  j2 = j2
  Projects = {j1, j2}
  Moments = {1, 2, 3}
  MaxReservations = 2
  MaxHolds = 2
  MaxAllocations = 2
  MaxMovements = 2
  Unreadable = Unreadable
  i1 = i1  i2 = i2
  Instances = {i1, i2}
  h1 = h1  h2 = h2  h3 = h3
  Requests = {h1, h2, h3}
  k1 = k1  k2 = k2
  Keys = {k1, k2}
  b1 = b1  b2 = b2
  Payloads = {b1, b2}
  Units <- MCUnits
  Firm = {b2}
  Capacity = 2
  SharedDrafts = {demand, scenario}
  Named = {scenario}
  w1 = w1  w2 = w2  w3 = w3
  Saves = {w1, w2, w3}
  MaxRestarts = 1
  Vendors = {g1, g2}
  Seeded = {g1}
  z1 = z1
  Banks = {z1, z2}
  VendorStatuses = {"under_review", "approved", "blacklisted"}
  People = {u1, u2}
  f1 = f1
  Contracts = {f1}
  Ceiling <- MCCeiling
  o1 = o1  o2 = o2
  Orders = {o1, o2}
  Amounts <- MCAmounts
  l1 = l1  l2 = l2
  Lines = {l1, l2}
  Ordered <- MCOrdered
  Deliveries <- MCDeliveries
  ReleaseKeys = {kA}
  MaxBankChanges = 2
  MaxCleared = 1
  ApprovalIds = {q2}
  Sample = q3
  Targets = {v3, v4}
  SampleTarget = v3
  Costly = {v4}
  Staff = {u1, u2}
  Approvers = {u1, u2}
  Unlimited = {u1}
  MaxAsked = 2
  MaxEnds = 1
CONSTRAINT DraftsScenario
INVARIANTS AcceptedSaveKept
CHECK_DEADLOCK FALSE
