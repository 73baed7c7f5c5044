SPECIFICATION Spec
CONSTANTS
  BallsPerPlayer = 1
  RollLimit = 4
  FallLimit = 0
  Sinkable = {1}
  ShotLimit = 2
  Cheats = TRUE
  Quits = TRUE
INVARIANT TypeOK
INVARIANT OneTurn
PROPERTY PlaysInTurns
CHECK_DEADLOCK FALSE
