SPECIFICATION Spec
CONSTANTS
  h1 = h1
  h2 = h2
  q1 = q1
  q2 = q2
  None = None
  Handlers <- TwoSlots
  Spawns <- TwoSpawns
  MaxTurns = 2
  Compacts = FALSE
  Switches = TRUE
  MaxDeaths = 1
INVARIANTS
  AskingIsParked
  
  DrainedWhenOver
CHECK_DEADLOCK FALSE
