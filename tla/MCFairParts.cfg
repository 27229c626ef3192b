CONSTANTS
  Top <- MCTop
  Kind <- MCKind
  Children <- MCChildren
  RouteNames = {"web", "guard", "gone"}
  Live = {"router", "routes", "synth"}
  Commit <- MCCommit
  Severity <- MCSeverity
  MayThrow = {"loop", "left", "judge"}
  Responders = {"judge"}
  Stamps <- MCStamps
  MaxTurns = 2
  Routines = {1}
  Ticks = {t1, t2}
  Hooks = {h}
  t1 = t1
  t2 = t2
  h = h
  Interval = 2
  MaxPerEvent = 1
  MaxClock = 5
  MaxEdits = 2
  MaxFailures = 1
SPECIFICATION MCSpec
INVARIANTS
  EventsFaithful
  TurnIsItsOwn
  RunsSpaced
PROPERTIES
  TurnSettles
  RunsNotTakenBack
  DueRoutineRuns
CHECK_DEADLOCK FALSE
