----------------------------- MODULE PoolSystem -----------------------------
(* The whole system over several games: ClientApplication and Game in every  *)
(* client, the lobbies and handlers of Server, and the packets between them. *)
(* Here a handler of the server runs to its end in one step, and every       *)
(* packet arrives: GameServer looks into the handler and at broken           *)
(* connections.  What a shot does is open on each table, so the tables may   *)
(* differ; Match looks at that.                                              *)
EXTENDS Server, ClientApplication

CONSTANTS NewcomerLimit, \* bound: the clients that have not entered a name yet
          QuitLimit,    \* bound: the clients whose window is closed
          PlayLimit,    \* bound: the clicks on Play, all clients together
          EnterLimit,   \* bound: a newcomer's names without an answer
          ShotLimit     \* bound: the shots, all clients together

(* A client is known by its port.                                            *)
ASSUME PoolAssumption ==
  /\ Port = Conn
  /\ NewcomerLimit \in Nat /\ QuitLimit \in Nat
  /\ PlayLimit \in Nat /\ EnterLimit \in Nat /\ ShotLimit \in Nat

VARIABLES client,     \* each client's application
          up,         \* the packets from each client to the server
          down,       \* the packets from the server to each client
          gone,       \* the clients whose socket the server has dropped
          alive,      \* the server process has not ended
          plays, shots,   \* what is used of the bounds
          games,      \* history: the games started
          number,     \* history: the game each lobby is for, 0 if none
          shooter,    \* history: who shot last in each lobby, as the server saw
          hasty,      \* history: Play clicked with an answer or a seat to come
          crossed,    \* history: a packet of one game met another
          reopened    \* history: a lobby was cleared below a player who waits

vars == <<lobbies, is_database_connected, client, up, down, gone, alive, plays,
          shots, games, number, shooter, hasty, crossed, reopened>>
serverVars == <<lobbies, is_database_connected, gone, alive, games, number,
                shooter, reopened>>

(* of is the game a packet is about, which the code does not send.           *)
Packet(type, of) == [type |-> type, of |-> of]
Starts == [p \in Player |-> IF p = 0 THEN "startGame0" ELSE "startGame1"]
ClientTypes == {"joinLobby", "newTurn", "cueBallVelocity", "clientIdentification",
                "endGame", "closed"}
GameNumbers == Nat
Nobody == NoName

TypeOK ==
  /\ ServerTypeOK
  /\ client \in [Conn -> Client]
  /\ up \in [Conn -> Seq([type : ClientTypes, of : GameNumbers])]
  /\ down \in [Conn -> Seq([type : ServerPackets, of : GameNumbers])]
  /\ gone \subseteq Conn
  /\ plays \in 0..PlayLimit /\ shots \in 0..ShotLimit
  /\ games \in GameNumbers
  /\ number \in [LobbyIds -> GameNumbers]
  /\ shooter \in [LobbyIds -> Conn \cup {Nobody}]
  /\ {alive, hasty, crossed, reopened} \subseteq BOOLEAN

Init ==
  /\ lobbies = [k \in LobbyIds |-> EmptyLobby]
  /\ is_database_connected = FALSE
  /\ client \in [Conn -> {NewClient, MenuClient}]
  /\ Cardinality({c \in Conn : client[c] = NewClient}) <= NewcomerLimit
  /\ up = [c \in Conn |-> <<>>] /\ down = [c \in Conn |-> <<>>]
  /\ gone = {} /\ alive = TRUE
  /\ plays = 0 /\ shots = 0 /\ games = 0
  /\ number = [k \in LobbyIds |-> 0]
  /\ shooter = [k \in LobbyIds |-> Nobody]
  /\ hasty = FALSE /\ crossed = FALSE /\ reopened = FALSE

-----------------------------------------------------------------------------
(* The clients.                                                              *)

(* The rest of a frame of client c, which is app once the packet is handled. *)
Frame(c, app) ==
  \/ /\ ~InGame(app) \/ app.game.is_game_finished
     /\ client' = [client EXCEPT ![c] = app]
     /\ UNCHANGED <<up, shots>>
  \/ /\ InGame(app) /\ ~app.game.is_game_finished
     /\ \E frame \in {UpdateGame(app.game, mouse, app.player_index) : mouse \in Mouse} :
          /\ client' = [client EXCEPT ![c] = [app EXCEPT !.game = frame.game]]
          /\ frame.shoots => shots < ShotLimit
          /\ shots' = IF frame.shoots THEN shots + 1 ELSE shots
          /\ up' = [up EXCEPT ![c] =
                      @ \o Sends(frame, Packet("endGame", app.match),
                                 Packet("cueBallVelocity", app.match),
                                 Packet("newTurn", app.match))]

(* PollNetworkEvents, the packet being for the screen.                       *)
ReceiveForScreen(c, packet) ==
  /\ \/ packet.type = "joinLobby" /\ Frame(c, OnJoinLobby(client[c]))
     \/ packet.type = "clientIdentification" /\ Frame(c, OnIdentification(client[c]))
     \/ \E p \in Player :
          packet.type = Starts[p] /\ Frame(c, OnStartGame(client[c], p, packet.of))
  /\ UNCHANGED crossed

(* The game gets its packets only while it is played.                        *)
ReceiveForGame(c, packet) ==
  LET app == client[c] IN
  /\ packet.type \in {"newTurn", "cueBallVelocity"} \cup Verdicts
  /\ crossed' = (crossed \/ (InGame(app) /\ packet.of # app.match))
  /\ \/ ~InGame(app) /\ Frame(c, app)
     \/ /\ InGame(app) /\ packet.type = "cueBallVelocity"
        /\ \E roll \in RollsOn([app.game EXCEPT !.rolling = <<>>]) :
             Frame(c, [app EXCEPT !.game = OnShot(@, roll)])
     \/ /\ InGame(app) /\ packet.type = "newTurn"
        /\ Frame(c, [app EXCEPT !.game = OnSignal(@, "newTurn")])
     \/ /\ InGame(app) /\ packet.type \in Verdicts
        /\ Frame(c, [app EXCEPT !.game =
                       OnSignal(@, IF packet.type = "endGameWon" THEN "won" ELSE "lost")])

FrameReceive(c) ==
  /\ client[c].open
  /\ down[c] # <<>>
  /\ ReceiveForScreen(c, Head(down[c])) \/ ReceiveForGame(c, Head(down[c]))
  /\ down' = [down EXCEPT ![c] = Tail(@)]
  /\ UNCHANGED <<serverVars, plays, hasty>>

FrameIdle(c) ==
  /\ client[c].open
  /\ Frame(c, client[c])
  /\ UNCHANGED <<serverVars, down, plays, hasty, crossed>>

(* The packets of a type that are under way from c or back to it.            *)
Unanswered(c, type) ==
  Cardinality({n \in DOMAIN up[c] : up[c][n].type = type})
    + Cardinality({n \in DOMAIN down[c] : down[c][n].type = type})
HasSeat(c) == \E k \in LobbyIds : IsSeated(lobbies[k], c)

(* Wrong on purpose: the text field listens on every screen.                 *)
IdentifyAnywhere(c) ==
  /\ client[c].open
  /\ Unanswered(c, "clientIdentification") < EnterLimit
  /\ up' = [up EXCEPT ![c] = Append(@, Packet("clientIdentification", 0))]
  /\ UNCHANGED <<serverVars, client, down, plays, shots, hasty, crossed>>

(* Enter in the text field of the first screen sends the name, each time.    *)
Identify(c) ==
  /\ client[c].open /\ ~client[c].identified
  /\ Unanswered(c, "clientIdentification") < EnterLimit
  /\ up' = [up EXCEPT ![c] = Append(@, Packet("clientIdentification", 0))]
  /\ UNCHANGED <<serverVars, client, down, plays, shots, hasty, crossed>>

(* The button Play.  It stays until the server answers, and a menu put up in *)
(* between takes a mouse still held down for another click.                  *)
Play(c) ==
  /\ client[c].open /\ ~InGame(client[c]) /\ client[c].gui = "menu"
  /\ plays < PlayLimit
  /\ plays' = plays + 1
  /\ hasty' = (hasty \/ Unanswered(c, "joinLobby") > 0 \/ HasSeat(c))
  /\ up' = [up EXCEPT ![c] = Append(@, Packet("joinLobby", 0))]
  /\ UNCHANGED <<serverVars, client, down, shots, crossed>>

(* Wrong on purpose: the world is not given up.                              *)
AfterLeavingKeepsWorld(app) ==
  [app EXCEPT !.game = Deinit(@), !.gui = IF @ = "none" THEN "menu" ELSE @]

(* The screen behind a game is empty, unless a packet put one over the game; *)
(* an empty one becomes the menu in the next frame.                          *)
AfterLeaving(app) ==
  [app EXCEPT !.game = Deinit(@), !.tables = 0,
              !.gui = IF @ = "none" THEN "menu" ELSE @]

(* The button of a finished game.                                            *)
LeaveGame(c) ==
  /\ client[c].open /\ InGame(client[c]) /\ client[c].game.is_game_finished
  /\ client' = [client EXCEPT ![c] = AfterLeaving(@)]
  /\ UNCHANGED <<serverVars, up, down, plays, shots, hasty, crossed>>

CloseWindow(c) ==
  /\ client[c].open
  /\ Cardinality({d \in Conn : ~client[d].open}) < QuitLimit
  /\ client' = [client EXCEPT ![c].open = FALSE]
  /\ up' = [up EXCEPT ![c] = Append(@, Packet("closed", 0))]
  /\ UNCHANGED <<serverVars, down, plays, shots, hasty, crossed>>

-----------------------------------------------------------------------------
(* The server: one packet of client c, with every call its handler makes.    *)
(* Offline a rating of 0 is sent for each UpdatePlayerElo, which no client   *)
(* acts on; it still needs a socket.                                         *)

(* The port a call needs a socket for.                                       *)
PortOfCall(call, table) ==
  IF call.op = "sendToSeat" THEN table[call.lobby][call.seat].port
  ELSE IF call.op = "clearLobby" THEN NoPort ELSE call.port

(* The first call for a port without a socket ends the process.              *)
Reaches(calls, table, n) ==
  /\ n \in DOMAIN calls
  /\ \A m \in 1..n : PortOfCall(calls[m], table) \notin gone

SendsTo(q, calls, table, n) ==
  /\ Reaches(calls, table, n)
  /\ calls[n].op \in {"send", "sendToSeat"} /\ PortOfCall(calls[n], table) = q

PacketOf(call, of) ==
  Packet(call.type, IF call.type \in {"joinLobby", "clientIdentification"} THEN 0 ELSE of)

(* The packets a client gets of a handler, none of which makes more than     *)
(* five calls.                                                               *)
PacketsFor(q, calls, table, of) ==
  LET Nth(n) == When(SendsTo(q, calls, table, n), PacketOf(calls[n], of)) IN
  Nth(1) \o Nth(2) \o Nth(3) \o Nth(4) \o Nth(5)

Run(calls, table, of) ==
  /\ down' = [q \in Conn |-> IF client[q].open
                             THEN down[q] \o PacketsFor(q, calls, table, of)
                             ELSE <<>>]
  /\ alive' = \A n \in DOMAIN calls : Reaches(calls, table, n)

Cleared(calls) == {k \in LobbyIds : \E n \in DOMAIN calls : calls[n] = ClearLobby(k)}
IsWaiting(k) == ~IsComplete(lobbies[k]) /\ \E c \in Conn : IsSeated(lobbies[k], c)

(* A handler that ends the game of the lobbies it clears; of is their game.  *)
RunEnding(calls, of) ==
  /\ Run(calls, lobbies, of)
  /\ lobbies' = [k \in LobbyIds |-> IF k \in Cleared(calls) THEN EmptyLobby ELSE lobbies[k]]
  /\ number' = [k \in LobbyIds |-> IF k \in Cleared(calls) THEN 0 ELSE number[k]]
  /\ shooter' = [k \in LobbyIds |-> IF k \in Cleared(calls) THEN Nobody ELSE shooter[k]]
  /\ reopened' = (reopened \/ \E k \in Cleared(calls), j \in LobbyIds : j > k /\ IsWaiting(j))
  /\ UNCHANGED games

NumberOfEnding(calls) ==
  IF Cleared(calls) = {} THEN 0 ELSE number[CHOOSE k \in Cleared(calls) : TRUE]

OnJoinPacket(c) ==
  \/ \E k \in LobbyIds :
       /\ IsFirstOpen(k)
       /\ lobbies' = [lobbies EXCEPT ![k] = AddClient(@, [username |-> c, port |-> c])]
       /\ games' = IF IsComplete(lobbies'[k]) THEN games + 1 ELSE games
       /\ number' = [number EXCEPT ![k] = IF IsComplete(lobbies'[k]) THEN games' ELSE 0]
       /\ Run(<<Send("joinLobby", c)>> \o StartGame(k)', lobbies', games')
       /\ UNCHANGED <<shooter, reopened>>
  \/ /\ \A k \in LobbyIds : IsComplete(lobbies[k])
     /\ alive' = FALSE
     /\ UNCHANGED <<lobbies, down, games, number, shooter, reopened>>

OnShotPacket(c, packet) ==
  /\ Run(OnCueBallVelocity(c), lobbies, packet.of)
  /\ shooter' = [k \in LobbyIds |-> IF IsFirstWith(k, c) THEN c ELSE shooter[k]]
  /\ UNCHANGED <<lobbies, games, number, reopened>>

Serve(c) ==
  LET packet == Head(up[c]) IN
  /\ alive
  /\ up[c] # <<>>
  /\ up' = [up EXCEPT ![c] = Tail(@)]
  /\ gone' = IF packet.type = "closed" THEN gone \cup {c} ELSE gone
  /\ crossed' = (crossed \/ \E k \in Cleared(OnEndGame(c)) :
                              packet.type = "endGame" /\ packet.of # number[k])
  /\ \/ packet.type = "joinLobby" /\ OnJoinPacket(c)
     \/ packet.type = "cueBallVelocity" /\ OnShotPacket(c, packet)
     \/ /\ packet.type = "newTurn"
        /\ Run(OnNewTurn(c), lobbies, packet.of)
        /\ UNCHANGED <<lobbies, games, number, shooter, reopened>>
     \/ /\ packet.type = "clientIdentification"
        /\ Run(<<Send("clientIdentification", c)>>, lobbies, 0)
        /\ UNCHANGED <<lobbies, games, number, shooter, reopened>>
     \/ /\ packet.type = "endGame"
        /\ RunEnding(OnEndGame(c), NumberOfEnding(OnEndGame(c)))
     \/ /\ packet.type = "closed"
        /\ RunEnding(OnClientDisconnection(c), NumberOfEnding(OnClientDisconnection(c)))
  /\ UNCHANGED <<is_database_connected, client, plays, shots, hasty>>

-----------------------------------------------------------------------------

Next ==
  \E c \in Conn :
    \/ FrameReceive(c) \/ FrameIdle(c) \/ Identify(c) \/ Play(c)
    \/ LeaveGame(c) \/ CloseWindow(c) \/ Serve(c)

Spec == Init /\ [][Next]_vars
-----------------------------------------------------------------------------

(* Safety.  A player is hasty who clicks Play before the last click is       *)
(* answered, or before the server has heard of the end of the last game.     *)

(* Games do not meet: a packet of one game never reaches a client that plays *)
(* another, nor a claim another game's lobby, although no packet says which  *)
(* game it is about.  A lobby is left with its game, and queues keep order.  *)
NoCrossing == crossed => hasty

(* InitGame never runs on a world that is in use: a client leaves the game,  *)
(* and gives up its world, before the server can start it another one.       *)
OneTable == ~hasty => \A c \in Conn : client[c].tables <= 1

(* A game that goes on for a client goes on in the server, or its end is     *)
(* under way: nobody is left at a table the server knows nothing of.         *)
EndsIn(queue) == \E n \in DOMAIN queue : queue[n].type \in Verdicts
NoOrphanGame ==
  ~hasty => \A c \in Conn :
    client[c].open /\ InGame(client[c]) /\ ~client[c].game.is_game_finished =>
      EndsIn(down[c]) \/ \E k \in LobbyIds : /\ IsSeated(lobbies[k], c)
                                            /\ number[k] = client[c].match

(* The screen of a player who waits has no button: it is shown to nobody who *)
(* has no seat and no start to come, and not over a game.                    *)
StartsIn(queue) == \E n \in DOMAIN queue, p \in Player : queue[n].type = Starts[p]
WaiterHasSeat ==
  ~hasty => \A c \in Conn :
    client[c].open /\ client[c].gui = "lobby" =>
      ~InGame(client[c]) /\ (StartsIn(down[c]) \/ HasSeat(c))

(* Two who wait meet.  The exception is a lobby freed below one where        *)
(* somebody waits already: it is filled first, and both wait.                *)
MatchedPromptly ==
  ~reopened => \A j, k \in LobbyIds : IsWaiting(j) /\ IsWaiting(k) => j = k

(* The answer to a second Enter never takes a player out of a game.          *)
IdentificationNeverInterrupts ==
  \A c \in Conn : InGame(client[c]) =>
    \A n \in DOMAIN down[c] : down[c][n].type # "clientIdentification"

(* The shots of a game alternate as the server sees them: a cue still drawn  *)
(* when the last game ended never shoots out of turn in the next.            *)
ServesShot(c, k) ==
  /\ up[c] # <<>> /\ Head(up[c]).type = "cueBallVelocity"
  /\ up'[c] = Tail(up[c])
  /\ IsFirstWith(k, c)
AlternatingShots ==
  [][\A c \in Conn, k \in LobbyIds :
       ServesShot(c, k) /\ ~hasty => shooter[k] # c]_vars
=============================================================================
