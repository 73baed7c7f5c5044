------------------------------- MODULE Server -------------------------------
(* The class Server: its lobbies, and what each of its handlers does.  Every *)
(* SendPacket inside a handler may find the receiver disconnected and call   *)
(* OnClientDisconnection before it returns, so a handler is not one step: it *)
(* is the list of calls it has still to make, which GameServer executes one  *)
(* by one.  A call whose argument the code computes before the first of them *)
(* carries its value; one that reads the lobby when its turn comes carries   *)
(* the lobby's index.                                                        *)
EXTENDS Lobby, Sequences

CONSTANTS LobbyCount      \* kStartLobbyCount

ASSUME LobbyCountAssumption == LobbyCount \in Nat \ {0}

VARIABLES lobbies,                 \* lobbies_
          is_database_connected    \* is_database_connected_

LobbyIds == 1..LobbyCount

Verdicts == {"endGameWon", "endGameLost"}
ServerPackets == Verdicts \cup
  {"joinLobby", "startGame0", "startGame1", "newTurn", "cueBallVelocity",
   "clientIdentification", "eloUpdated"}

(* The calls a handler makes.                                                *)
Send(type, port) == [op |-> "send", type |-> type, port |-> port]
SendToSeat(type, k, s) == [op |-> "sendToSeat", type |-> type, lobby |-> k, seat |-> s]
UpdatePlayerElo(port) == [op |-> "updatePlayerElo", port |-> port]
IdentifyClient(port) == [op |-> "identifyClient", port |-> port]
StartIfComplete(k) == [op |-> "startIfComplete", lobby |-> k]
ClearLobby(k) == [op |-> "clearLobby", lobby |-> k]

ServerCalls ==
  [op : {"send"}, type : ServerPackets, port : Port \cup {NoPort}]
    \cup [op : {"sendToSeat"}, type : ServerPackets, lobby : LobbyIds, seat : Seats]
    \cup [op : {"updatePlayerElo", "identifyClient"}, port : Port \cup {NoPort}]
    \cup [op : {"startIfComplete", "clearLobby"}, lobby : LobbyIds]

ServerTypeOK ==
  /\ lobbies \in [LobbyIds -> Lobby]
  /\ is_database_connected \in BOOLEAN

-----------------------------------------------------------------------------

(* Wrong on purpose: any lobby that is not complete.                         *)
IsOpen(k) == ~IsComplete(lobbies[k])

(* find_if over lobbies_: the first lobby that is not complete.              *)
IsFirstOpen(k) ==
  ~IsComplete(lobbies[k]) /\ \A j \in LobbyIds : j < k => IsComplete(lobbies[j])

(* FindClientOpponentInLobbies stops at the first lobby with the port in it, *)
(* even when nobody sits opposite.                                           *)
IsFirstWith(k, port) ==
  IsSeated(lobbies[k], port) /\ \A j \in LobbyIds : j < k => ~IsSeated(lobbies[j], port)

FindClientOpponentInLobbies(port) ==
  IF \E k \in LobbyIds : IsFirstWith(k, port)
  THEN Opposite(lobbies[CHOOSE k \in LobbyIds : IsFirstWith(k, port)], port).port
  ELSE NoPort

(* The loops of kEndGame and OnClientDisconnection go on past a lobby where  *)
(* nobody sits opposite.                                                     *)
HasOpponent(k, port) == Opposite(lobbies[k], port).port # NoPort

IsFirstGameOf(k, port) ==
  HasOpponent(k, port) /\ \A j \in LobbyIds : j < k => ~HasOpponent(j, port)

OnNewTurn(port) ==
  LET other == FindClientOpponentInLobbies(port) IN
  IF other = NoPort THEN <<>> ELSE <<Send("newTurn", other)>>

(* Wrong on purpose: the shot is forwarded without a look at the answer.     *)
OnCueBallVelocityUnchecked(port) ==
  <<Send("cueBallVelocity", FindClientOpponentInLobbies(port)),
    Send("cueBallVelocity", port)>>

OnCueBallVelocity(port) ==
  LET other == FindClientOpponentInLobbies(port) IN
  IF other = NoPort THEN <<>>
  ELSE <<Send("cueBallVelocity", other), Send("cueBallVelocity", port)>>

(* Wrong on purpose: the lobby is cleared before the verdicts are sent, so   *)
(* the loser, looked up in it, is not told.                                  *)
OnEndGameClearFirst(port) ==
  IF \E k \in LobbyIds : IsFirstGameOf(k, port)
  THEN <<Send("endGameWon", port),
         ClearLobby(CHOOSE k \in LobbyIds : IsFirstGameOf(k, port))>>
  ELSE <<>>

(* Wrong on purpose: both packets of kEndGame say true.                      *)
OnEndGameBothWin(port) ==
  IF \E k \in LobbyIds : IsFirstGameOf(k, port)
  THEN LET k == CHOOSE k \in LobbyIds : IsFirstGameOf(k, port) IN
       <<Send("endGameWon", port),
         Send("endGameWon", Opposite(lobbies[k], port).port), ClearLobby(k)>>
  ELSE <<>>

(* The sender of kEndGame is the winner.                                     *)
OnEndGame(port) ==
  IF \E k \in LobbyIds : IsFirstGameOf(k, port)
  THEN LET k == CHOOSE k \in LobbyIds : IsFirstGameOf(k, port)
           other == Opposite(lobbies[k], port).port
       IN <<UpdatePlayerElo(port), UpdatePlayerElo(other),
            Send("endGameWon", port), Send("endGameLost", other), ClearLobby(k)>>
  ELSE <<>>

(* Wrong on purpose: the one who stays is not told.                          *)
OnClientDisconnectionSilent(port) ==
  IF \E k \in LobbyIds : IsFirstGameOf(k, port)
  THEN <<UpdatePlayerElo(port),
         ClearLobby(CHOOSE k \in LobbyIds : IsFirstGameOf(k, port))>>
  ELSE <<>>

OnClientDisconnection(port) ==
  IF \E k \in LobbyIds : IsFirstGameOf(k, port)
  THEN LET k == CHOOSE k \in LobbyIds : IsFirstGameOf(k, port)
           winner == Opposite(lobbies[k], port).port
       IN <<Send("endGameWon", winner), UpdatePlayerElo(port),
            UpdatePlayerElo(winner), ClearLobby(k)>>
  ELSE <<>>

(* Wrong on purpose: the game starts whoever is there.                       *)
StartGameUnchecked(k) ==
  <<SendToSeat("startGame0", k, 1), SendToSeat("startGame1", k, 2),
    SendToSeat("newTurn", k, 1)>>

(* The rest of AddClientToLobby, once the joiner has been told.              *)
StartGame(k) ==
  IF IsComplete(lobbies[k])
  THEN <<SendToSeat("startGame0", k, 1), SendToSeat("startGame1", k, 2),
         SendToSeat("newTurn", k, 1)>>
  ELSE <<>>
=============================================================================
