\* Turns of two tabs that overlap, and whatever else they may race with.
CONSTANTS
  t1 = t1
  t2 = t2
  t3 = t3
  Turns = {t1, t2}
  TurnAgents = {a1, a2}
  NoRow = NoRow
  NoBlob = NoBlob
  Overlap = TRUE
  Compactions = TRUE
  Edits = TRUE
  Deletions = TRUE
  Crashes = FALSE
  Calls = {k1, k2, k3, k4}
  Agents = {a1, a2}
  Nothing = Nothing
  Operations = {1, 2}
  Conns = {1, 2, 3, 4}
  PoolSize = 1
  Chats = {"a", "b"}
  Posts = {1, 2}
  Loads = {1}
  Cap = 2
  SlowTiers = FALSE
  SlowLoads = FALSE
  MaxEvents = 2
  MaxBeats = 1
  Rosters <- MCRosters
  Snippets <- MCSnippets
  MaxSnippets = 3
  Words <- MCWords
  Separators <- MCSeparators
  Most = 4
  Numerals <- MCNumerals
  Particles = {"van"}
  Short = {"bo"}
SPECIFICATION MCSpec
INVARIANTS
  RunningHasTurn
  DegradedNeverCached
  FlagHasConsumer
  PoolHonest
  
  TranscriptFaithful
  RoundTrips
PROPERTIES
  RowKept
SYMMETRY TurnSymmetry
CHECK_DEADLOCK FALSE
