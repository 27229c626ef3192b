\* Two callers with an id in common and one of their own, against a cap of one.
CONSTANTS
  c1 = c1
  c2 = c2
  x = x
  y = y
  z = z
  Ids = {x, y, z}
  Callers = {c1, c2}
  MayAcquire <- SharedId
  FreshCallers = {c1}
  Keys = {k1, k2, k3}
  NoKey = NoKey
  NoId = NoId
  VMs = {v1, v2, v3}
  NoVM = NoVM
  Releasers <- MCReleasers
  PoolCap = 1
  MaxAttachments = 1
  Deaths = TRUE
  Shutdowns = TRUE
SPECIFICATION TableSpec
INVARIANTS
  TableKept
SYMMETRY Symmetric
CHECK_DEADLOCK FALSE
