\* One routine whose owner edits its schedule between the ticks.
CONSTANTS
  Routines = {1}
  Ticks = {t1, t2}
  Hooks = {h}
  t1 = t1
  t2 = t2
  h = h
  Interval = 2
  MaxPerEvent = 1
  MaxClock = 5
  MaxEdits = 2
  MaxFailures = 1
SPECIFICATION RoutinesSpec
INVARIANTS
  EditStartsNow
CHECK_DEADLOCK FALSE
