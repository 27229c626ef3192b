CONSTANTS
  Budget = 3
  MaxBatch = 3
  MaxParallel = 2
  Cadence = 2
  TierTurns = {1, 2}
  MaxAttempts = 2
  MaxFlips = 1
  MaxStarts = 1
  RacingFlips = FALSE
  LongTools = FALSE
  Conversations = {1}
  Actions = {2}
SPECIFICATION MCSpec
INVARIANTS
  EndsHonestly
  ChoiceSticks
  ColdStartsOnce
  
PROPERTIES
  KeepsContract
  WakeSettles
  
CHECK_DEADLOCK FALSE
