CONSTANTS
  Conn = {c1, c2}
  Port = {c1, c2}
  PortOf <- MCPortOf
  NoName = NoName
  NoPort = NoPort
  Null = Null
  Dead = Dead
  LobbyCount = 1
  ClientPackets = {"joinLobby", "newTurn", "cueBallVelocity", "clientIdentification", "endGame"}
  UpCap = 1
  Fragments = TRUE
  Resets = TRUE
  KeepsPeerName = TRUE
  Databases = {TRUE, FALSE}
  DepthLimit = 2
SPECIFICATION Spec
SYMMETRY Symmetry
INVARIANTS OneWinner Orderly
PROPERTY HandlersAreAtomic
CHECK_DEADLOCK FALSE
