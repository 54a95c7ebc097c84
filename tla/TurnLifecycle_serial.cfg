SPECIFICATION FairSpec
CONSTANTS
  h1 = h1
  h2 = h2
  q1 = q1
  q2 = q2
  None = None
  Handlers <- OneSlot
  Spawns <- TwoSpawns
  MaxTurns = 3
  Compacts = TRUE
  Switches = FALSE
  MaxDeaths = 1
INVARIANTS
  
  OneTurnAtATime
PROPERTIES
  ImplementsTurns
  TurnEnds
CHECK_DEADLOCK FALSE
