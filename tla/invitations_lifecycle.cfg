SPECIFICATION Spec
CONSTANTS
  A = A
  B = B
  ann = ann
  bob = bob
  cat = cat
  pw1 = pw1
  pw2 = pw2
  s1 = s1
  s2 = s2
  k1 = k1
  k2 = k2
  k3 = k3
  k4 = k4
  w1 = w1
  w2 = w2
  NoAccount = NoAccount
  Orgs <- MCOrgs
  People <- MCPeople
  Rank <- MCRank
  AdminOf <- BothAdmin
  Global = {}
  InitialMember <- BothMember
  InitialSecret <- MCSecret
  Passwords = {pw1, pw2}
  Slots = {s1, s2}
  Keys = {k1, k2, k3, k4}
  Commands <- BothCommands
  Workers = {w1, w2}
  MaxAttempts = 4
INVARIANTS TypeOK OneOpenInvitation
PROPERTIES JoinUnderAuthority OneOutcome ExactlyOnce OwnerConsents
CONSTRAINT OneScenario
CHECK_DEADLOCK FALSE
SYMMETRY MCSymmetry
