\* A reuse check of one id against an eviction for another.
CONSTANTS
  c1 = c1
  c2 = c2
  x = x
  y = y
  z = z
  Ids = {x, y}
  Callers = {c1, c2}
  MayAcquire <- OwnId
  FreshCallers = {}
  Keys = {k1, k2, k3}
  NoKey = NoKey
  NoId = NoId
  VMs = {v1, v2}
  NoVM = NoVM
  Releasers <- MCReleasers
  PoolCap = 1
  MaxAttachments = 1
  Deaths = FALSE
  Shutdowns = FALSE
SPECIFICATION TableSpec
INVARIANTS
  HeldIsStored
CHECK_DEADLOCK FALSE
