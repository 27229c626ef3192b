\* A user who waits for each answer, with tool results to summarize.
CONSTANTS
  t1 = t1
  t2 = t2
  t3 = t3
  Turns = {t1, t2, t3}
  TurnAgents = {a1}
  NoRow = NoRow
  NoBlob = NoBlob
  Overlap = FALSE
  Compactions = TRUE
  Edits = FALSE
  Deletions = FALSE
  Crashes = FALSE
SPECIFICATION TurnsSpec
PROPERTIES
  LogAppendOnly
SYMMETRY TurnSymmetry
CHECK_DEADLOCK FALSE
