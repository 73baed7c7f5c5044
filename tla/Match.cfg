SPECIFICATION FairSpec
CONSTANTS
  BallsPerPlayer = 1
  RollLimit = 3
  FallLimit = 2
  Sinkable = {1, 3}
  ShotLimit = 2
  Cheats = FALSE
  Quits = TRUE
INVARIANTS SameTable VerdictsAgree
PROPERTIES TurnEnds GameIsSettled
CHECK_DEADLOCK FALSE
