CONSTANTS
  a1 = a1
  a2 = a2
  a3 = a3
  b1 = b1
  b2 = b2
  c1 = c1
  sa = sa
  sb = sb
  sc = sc
  Requests = {a1, a2, a3, b1, b2, c1}
  Sessions = {sa, sb, sc}
  SessionOf <- MCSessionOf
  GlobalCap = 3
  PerSessionCap = 2
  VMs = {v1, v2, v3}
  Releasers = {b1, b2}
  PoolCap = 2
  NoVM = NoVM
  Clients = {w1, w2, w3}
  MaxShells = 3
  None = None
  Files = {f, g}
  Turns = {t}
  MaxVersion = 3
  MaxDocs = 3
  Overlap = FALSE
  ListFails = FALSE
SPECIFICATION MCSpec
INVARIANTS
  GateKept
  
  HoldsExact
PROPERTIES
  FifoWithSkip
  WaitersAdmitted
  ReleaseKeepsCap
  ReleaseSettles
  IdleRule
  OwnWorkOnly
  NoSilentLoss
CHECK_DEADLOCK FALSE
