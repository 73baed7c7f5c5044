CONSTANTS
  Conn = {c1, c2}
  Port = {c1, c2}
  PortOf <- MCPortOf
  NoName = NoName
  NoPort = NoPort
  Null = Null
  Dead = Dead
  LobbyCount = 2
  ClientPackets = {"joinLobby", "endGame"}
  UpCap = 1
  Fragments = FALSE
  Resets = TRUE
  KeepsPeerName = FALSE
  Databases = {FALSE}
  DepthLimit = 2
SPECIFICATION FairSpec
PROPERTIES VerdictBeforeClear DepartedIsDropped
CHECK_DEADLOCK FALSE
