SPECIFICATION Spec
CONSTANTS
  h1 = h1
  h2 = h2
  q1 = q1
  q2 = q2
  None = None
  Handlers <- OneSlot
  Spawns <- TwoSpawns
  MaxTurns = 2
  Compacts = FALSE
  Switches = FALSE
  MaxDeaths = 1
PROPERTY NoOpOnlyWhenLive
CHECK_DEADLOCK FALSE
