CONSTANTS
  Conn = {c1, c2, c3}
  Port = {c1, c2, c3}
  PortOf <- MCPortOf
  NoName = NoName
  NoPort = NoPort
  Null = Null
  Dead = Dead
  LobbyCount = 1
  ClientPackets = {"joinLobby", "clientIdentification", "endGame"}
  UpCap = 1
  Fragments = FALSE
  Resets = FALSE
  KeepsPeerName = TRUE
  Databases = {FALSE}
  DepthLimit = 2
SPECIFICATION Spec
SYMMETRY Symmetry
INVARIANTS TypeOK SeatOrder FaultNeedsDeparture OneWinner
PROPERTIES VerdictBeforeClear
CHECK_DEADLOCK FALSE
