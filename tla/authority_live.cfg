SPECIFICATION FairSpec
CONSTANTS
  ann = ann
  bob = bob
  cara = cara
  dan = dan
  ta = ta
  tb = tb
  tc = tc
  tc2 = tc2
  p = p
  q = q
  g1 = g1
  g2 = g2
  g3 = g3
  k1 = k1
  k2 = k2
  k3 = k3
  k4 = k4
  w1 = w1
  w2 = w2
  Members <- MCMembers
  Audience <- MCAudience
  SuperUsers = {}
  InitialRole <- MCRole
  InitiallyRevoked = {dan}
  Tokens <- OneEach
  Owner <- OwnerOfEach
  InitialTokens = {ta, tb, tc}
  Projects = {p, q}
  InitialProjects = {p}
  Grants <- MCGrants
  InitialGrant <- MCGrant
  Keys = {k1, k2, k3, k4}
  Commands <- Everything
  Workers = {w1, w2}
  MaxAttempts = 2
PROPERTIES AttemptsEnd
CHECK_DEADLOCK FALSE
