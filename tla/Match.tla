------------------------------- MODULE Match -------------------------------
(* One game of two clients: the class Game on either side, each simulating   *)
(* the table on its own, and the packets between them, which the server      *)
(* forwards.  A client runs one frame after the other: it handles at most    *)
(* one packet, lets the world simulate one step, looks at the mouse, at the  *)
(* balls and at the score.                                                   *)
(*                                                                           *)
(* Two clients that apply the same shot to the same table at rest see the    *)
(* same; the packet carries what they will see.  A shot applied to a table   *)
(* in motion is another one on each client.                                  *)
EXTENDS Game

CONSTANTS ShotLimit,        \* bound: the shots of a game
          Cheats,           \* TRUE: players may press W
          Quits             \* TRUE: players may close the window

ASSUME MatchAssumption ==
  ShotLimit \in Nat /\ Cheats \in BOOLEAN /\ Quits \in BOOLEAN

VARIABLES game,         \* each client's game
          up,           \* the packets from each client to the server
          down,         \* the packets from the server to each client
          open,         \* each client's window is open
          lobby_open,   \* the server still has the two in a lobby
          diverged,     \* history: a shot met a table in motion, or W was used
          early,        \* history: the turn passed to a table in motion
          shots         \* the shots so far

vars == <<game, up, down, open, lobby_open, diverged, early, shots>>

Signals == [type : {"startGame", "newTurn", "won", "lost", "endGame", "closed"}]
Shots == [type : {"cueBallVelocity"}, roll : Rolls]
Packets == Signals \cup Shots
Signal(type) == [type |-> type]
CueBallVelocity(roll) == [type |-> "cueBallVelocity", roll |-> roll]
-----------------------------------------------------------------------------

(* The lobby is complete: Server::AddClientToLobby has sent its packets.     *)
Init ==
  /\ game = [p \in Player |-> NewGame(p)]
  /\ up = [p \in Player |-> <<>>]
  /\ down = [p \in Player |-> IF p = 0
                              THEN <<Signal("startGame"), Signal("newTurn")>>
                              ELSE <<Signal("startGame")>>]
  /\ open = [p \in Player |-> TRUE]
  /\ lobby_open = TRUE
  /\ diverged = FALSE /\ early = FALSE
  /\ shots = 0

(* The common roll a shot carries; none is common once the tables differ.    *)
CommonRolls(g) == IF diverged THEN {<<{}>>} ELSE RollsOn(g)

-----------------------------------------------------------------------------
(* A frame of client p, g being its game once the packet is handled.         *)

Update(p, g) ==
  \/ /\ ~g.playing \/ g.is_game_finished
     /\ game' = [game EXCEPT ![p] = g]
     /\ UNCHANGED <<up, shots>>
  \/ /\ g.playing /\ ~g.is_game_finished
     /\ \E frame \in {UpdateGame(g, mouse, p) : mouse \in Mouse} :
          /\ game' = [game EXCEPT ![p] = frame.game]
          /\ frame.shoots => shots < ShotLimit
          /\ shots' = IF frame.shoots THEN shots + 1 ELSE shots
          /\ \E roll \in IF frame.shoots THEN CommonRolls(frame.game) ELSE {<<>>} :
               up' = [up EXCEPT ![p] =
                        @ \o Sends(frame, Signal("endGame"),
                                   CueBallVelocity(roll), Signal("newTurn"))]

(* PollNetworkEvents has a packet for the game, or for the menu behind it.   *)
ReceiveSignal(p) ==
  LET g == game[p]
      type == Head(down[p]).type IN
  /\ down[p] # <<>> /\ Head(down[p]) \in Signals
  /\ \/ type = "startGame" /\ Update(p, InitGame(g))
     \/ type # "startGame" /\ g.playing /\ Update(p, OnSignal(g, type))
     \/ type # "startGame" /\ ~g.playing /\ Update(p, g)
  /\ early' = (early \/ (type = "newTurn" /\ g.playing /\ MustUpdatePhysics(g)))
  /\ UNCHANGED diverged

ReceiveShot(p) ==
  LET g == game[p]
      shot == Head(down[p]) IN
  /\ down[p] # <<>> /\ Head(down[p]) \in Shots
  /\ \/ /\ g.playing
        /\ diverged' = (diverged \/ MustUpdatePhysics(g))
        /\ \E roll \in IF diverged' THEN RollsOn([g EXCEPT !.rolling = <<>>])
                                     ELSE {shot.roll} :
             Update(p, OnShot(g, roll))
     \/ /\ ~g.playing
        /\ Update(p, g)
        /\ UNCHANGED diverged
  /\ UNCHANGED early

FrameReceive(p) ==
  /\ open[p]
  /\ ReceiveSignal(p) \/ ReceiveShot(p)
  /\ down' = [down EXCEPT ![p] = Tail(@)]
  /\ UNCHANGED <<open, lobby_open>>

(* Nothing has arrived yet, and the frame goes on without it.                *)
FrameIdle(p) ==
  /\ open[p]
  /\ Update(p, game[p])
  /\ UNCHANGED <<down, open, lobby_open, diverged, early>>

(* The W key.  Bound: no more of it once it has taken the black ball.        *)
PressW(p) ==
  LET g == game[p]
      ball == BallOfW(g) IN
  /\ Cheats /\ open[p] /\ g.playing
  /\ g.next_w # Black + 2 \/ Black \notin g.fallen
  /\ game' = [game EXCEPT ![p] = AfterW(g, ball)]
  /\ up' = [up EXCEPT ![p] = @ \o When(ball = Black, Signal("endGame"))]
  /\ diverged' = TRUE
  /\ UNCHANGED <<down, open, lobby_open, early, shots>>

(* The button of the finished game.                                          *)
LeaveGame(p) ==
  /\ open[p] /\ game[p].playing /\ game[p].is_game_finished
  /\ game' = [game EXCEPT ![p] = Deinit(@)]
  /\ UNCHANGED <<up, down, open, lobby_open, diverged, early, shots>>

CloseWindow(p) ==
  /\ Quits /\ open[p]
  /\ open' = [open EXCEPT ![p] = FALSE]
  /\ up' = [up EXCEPT ![p] = Append(@, Signal("closed"))]
  /\ UNCHANGED <<game, down, lobby_open, diverged, early, shots>>

-----------------------------------------------------------------------------
(* The server, as far as the two see it: one packet of p, to the end.        *)

(* Wrong on purpose: the sender gets nothing back.                           *)
DeliverToOther(toSender, toOther, p) ==
  down' = [down EXCEPT ![Other(p)] = @ \o toOther]

Deliver(toSender, toOther, p) ==
  down' = [q \in Player |-> down[q] \o IF q = p THEN toSender ELSE toOther]

Serve(p) ==
  LET packet == Head(up[p])
      closing == packet.type \in {"endGame", "closed"} IN
  /\ up[p] # <<>>
  /\ up' = [up EXCEPT ![p] = Tail(@)]
  /\ lobby_open' = (lobby_open /\ ~closing)
  /\ \/ ~lobby_open /\ UNCHANGED down
     \/ /\ lobby_open
        /\ \/ packet.type = "newTurn" /\ Deliver(<<>>, <<packet>>, p)
           \/ packet.type = "cueBallVelocity" /\ Deliver(<<packet>>, <<packet>>, p)
           \/ /\ packet.type = "endGame"
              /\ Deliver(<<Signal("won")>>, <<Signal("lost")>>, p)
           \/ packet.type = "closed" /\ Deliver(<<>>, <<Signal("won")>>, p)
  /\ UNCHANGED <<game, open, diverged, early, shots>>

-----------------------------------------------------------------------------

Next ==
  \E p \in Player :
    \/ FrameReceive(p) \/ FrameIdle(p) \/ PressW(p) \/ LeaveGame(p)
    \/ CloseWindow(p) \/ Serve(p)

(* The loops of the clients and the server go on and packets arrive; a       *)
(* player need not shoot, nor a table at rest do anything.                   *)
FrameRolling(p) == MustUpdatePhysics(game[p]) /\ FrameIdle(p)
Fairness ==
  \A p \in Player : /\ WF_vars(FrameReceive(p)) /\ WF_vars(FrameRolling(p))
                    /\ WF_vars(Serve(p))

Spec == Init /\ [][Next]_vars
FairSpec == Spec /\ Fairness
-----------------------------------------------------------------------------

TypeOK ==
  /\ game \in [Player -> Game]
  /\ up \in [Player -> Seq(Packets)] /\ down \in [Player -> Seq(Packets)]
  /\ open \in [Player -> BOOLEAN]
  /\ lobby_open \in BOOLEAN /\ diverged \in BOOLEAN /\ early \in BOOLEAN
  /\ shots \in 0..ShotLimit

(* Where the turn is: a game's flag, or a kNewTurn under way.                *)
NewTurnsIn(queue) == {n \in DOMAIN queue : queue[n] = Signal("newTurn")}
TurnTokens ==
  {<<"game", p, 0>> : p \in {q \in Player : game[q].is_player_turn}}
    \cup UNION {{<<"up", p, n>> : n \in NewTurnsIn(up[p])}
                  \cup {<<"down", p, n>> : n \in NewTurnsIn(down[p])} : p \in Player}

(* The turn of TurnGame: a kNewTurn is with the one it is under way to.      *)
HolderOf(token) == IF token[1] = "up" THEN Other(token[2]) ELSE token[2]
Holder == IF TurnTokens = {} THEN 2 ELSE HolderOf(CHOOSE t \in TurnTokens : TRUE)
Turns == INSTANCE TurnGame WITH
           holder <- Holder,
           played <- \E p \in Player : game[p].is_player_turn /\ game[p].has_played

(* Two clients, four queues and the server between them play a game of       *)
(* turns: has_played and the turn flag on either side, with the packets      *)
(* under way, never allow a second shot in a turn, a turn that returns to    *)
(* the one who played it, or one that appears after it was lost.             *)
PlaysInTurns == Turns!Spec

Joining(p) == \E n \in DOMAIN down[p] : down[p][n] = Signal("startGame")
InGame(p) == game[p].playing \/ Joining(p)
InPlay == lobby_open /\ \A p \in Player : open[p] /\ InGame(p)

(* The turn is never with both players, nor with one of them and under way   *)
(* to the other, however far apart their tables are, and it is not lost      *)
(* while both are in the game: the flag is cleared where kNewTurn is sent.   *)
OneTurn ==
  /\ \A t, u \in TurnTokens : t = u
  /\ InPlay => TurnTokens # {}

(* As long as no shot ever met a table in motion, the two clients lose the   *)
(* same balls, even if kNewTurn did: what has fallen, will fall and is under *)
(* way adds up to the same on both sides, because the server sends a shot    *)
(* back to the one who played it too and neither simulates it before.        *)
ShotFalls(queue) ==
  UNION {Falling(queue[n].roll) : n \in {m \in DOMAIN queue : queue[m] \in Shots}}
Fate(p) ==
  game[p].fallen \cup Falling(game[p].rolling) \cup ShotFalls(down[p])
SameTable == ~diverged /\ (\A p \in Player : InGame(p)) => Fate(0) = Fate(1)

(* Each client judges the black ball on its own, by its own turn flag and    *)
(* scores; still, as long as kNewTurn never reached a table in motion and    *)
(* nobody cheats, two finished games show one victory and one defeat, and    *)
(* nobody else claims.                                                       *)
Playing == {p \in Player : game[p].playing}
VerdictsAgree ==
  ~early /\ ~diverged =>
    /\ ~(game[0].has_win /\ game[1].has_win)
    /\ Playing = Player /\ (\A p \in Player : game[p].is_game_finished)
         => game[0].has_win # game[1].has_win

(* A player who has shot gets to the end of the turn or of the game: the     *)
(* shot comes back, however early the turn was passed on.                    *)
TurnEnds ==
  \A p \in Player : game[p].has_played
                       ~> ~game[p].has_played \/ game[p].is_game_finished \/ ~open[p]

(* A game that ends on one table ends in the server too, so that the lobby   *)
(* is free again, unless kNewTurn has met a table in motion or somebody      *)
(* cheats: then both may have lost and nobody claims.                        *)
GameIsSettled ==
  \A p \in Player : game[p].is_game_finished ~> ~lobby_open \/ early \/ diverged
=============================================================================
