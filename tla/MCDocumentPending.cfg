\* Uploads, edits of flags and ingests in any order, while every call succeeds.
CONSTANTS
  d1 = d1
  Docs = {d1}
  Jobs = {1, 2, 3}
  Outages = FALSE
SPECIFICATION StoreSpec
INVARIANTS
  PendingIsIngested
CHECK_DEADLOCK FALSE
