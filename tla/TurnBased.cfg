SPECIFICATION Spec
CONSTANTS
  BallsPerPlayer = 1
  RollLimit = 4
  FallLimit = 3
  Sinkable = {1, 2, 3}
  ShotLimit = 2
  Cheats = FALSE
  Quits = FALSE
PROPERTY TurnBased
