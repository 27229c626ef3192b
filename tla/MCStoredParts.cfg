\* A user who waits for each answer, with restarts and lost writes; nothing to summarize.
CONSTANTS
  t1 = t1
  t2 = t2
  t3 = t3
  Turns = {t1, t2, t3}
  TurnAgents = {a1}
  NoRow = NoRow
  NoBlob = NoBlob
  Overlap = FALSE
  Compactions = FALSE
  Edits = FALSE
  Deletions = TRUE
  Crashes = TRUE
  d1 = d1
  Docs = {d1}
  Jobs = {1, 2, 3}
  Outages = FALSE
  Processes = {p1, p2}
  Rows = {r1, r2}
  Columns = {f1, f2}
  DataKeys = {e1, e2}
  NoDataKey = NoDataKey
  Unsealed = Unsealed
  Absent = Absent
  BatchSize = 2
  Truncates = FALSE
  MaxWrites = 1
SPECIFICATION MCSpec
INVARIANTS
  ApprovedOnce
  Findable
  KeyOpensAll
  BackfillKeepsData
PROPERTIES
  LogAppendOnly
  RunningSettles
CHECK_DEADLOCK FALSE
