CONSTANTS
  Conn = {c1, c2}
  Port = {c1, c2}
  PortOf <- MCPortOf
  NoName = NoName
  NoPort = NoPort
  Null = Null
  Dead = Dead
  LobbyCount = 1
  ClientPackets = {"joinLobby", "endGame"}
  UpCap = 1
  Fragments = FALSE
  Resets = TRUE
  KeepsPeerName = TRUE
  Databases = {FALSE}
  DepthLimit = 2
SPECIFICATION Spec
SYMMETRY Symmetry
INVARIANTS OneDisconnection
CHECK_DEADLOCK FALSE
