SPECIFICATION Spec
CONSTANTS
  Conn = {c1, c2, c3}
  Port = {c1, c2, c3}
  NoName = NoName
  NoPort = NoPort
  LobbyCount = 2
  BallsPerPlayer = 1
  RollLimit = 2
  FallLimit = 1
  Sinkable = {1}
  NewcomerLimit = 1
  QuitLimit = 1
  PlayLimit = 5
  EnterLimit = 2
  ShotLimit = 2
SYMMETRY Symmetry
CONSTRAINT Patient
INVARIANTS TypeOK NoCrossing NoOrphanGame OneTable WaiterHasSeat MatchedPromptly IdentificationNeverInterrupts
PROPERTIES AlternatingShots
CHECK_DEADLOCK FALSE
