\* A caller of one id and a caller of two others: evictions, deaths, recycling.
CONSTANTS
  c1 = c1
  c2 = c2
  x = x
  y = y
  z = z
  Ids = {x, y, z}
  Callers = {c1, c2}
  MayAcquire <- OwnId
  FreshCallers = {}
  Keys = {k1, k2, k3}
  NoKey = NoKey
  NoId = NoId
  VMs = {v1, v2}
  NoVM = NoVM
  Releasers <- MCReleasers
  PoolCap = 1
  MaxAttachments = 1
  Deaths = TRUE
  Shutdowns = FALSE
SPECIFICATION TableSpec

  
PROPERTIES
  AcquireSettles
CHECK_DEADLOCK FALSE
