-------------------------------- MODULE Game --------------------------------
(* The class Game of a client: what a packet, a step of the world, the mouse *)
(* and the scores do to one player's game.  Match and PoolSystem run it.     *)
(*                                                                           *)
(* What the physics does to a shot is left open: which balls fall in which   *)
(* step, until the balls are at rest.                                        *)
EXTENDS Naturals, Sequences, FiniteSets

CONSTANTS BallsPerPlayer,   \* 7 in the code
          RollLimit,        \* bound: the steps a shot takes
          FallLimit,        \* bound: the balls that fall in a shot
          Sinkable          \* bound: the balls that may fall

ASSUME GameAssumption ==
  /\ BallsPerPlayer \in Nat \ {0} /\ RollLimit \in Nat \ {0}
  /\ FallLimit \in Nat /\ Sinkable \subseteq Nat

Player == 0..1
Other(p) == 1 - p

(* Ball 0 is the cue ball, which never leaves the table.                     *)
Black == 1
Balls == 1..(2 * BallsPerPlayer + 1)
BallsOf(p) == {b \in Balls \ {Black} : b % 2 = p}

(* The steps of a roll, each with the balls that fall in it.                 *)
Rolls == Seq(SUBSET Balls)
Falling(roll) == UNION {roll[n] : n \in DOMAIN roll}

Game == [playing : BOOLEAN,             \* ClientAppState::kInGame
         is_player_turn : BOOLEAN, has_played : BOOLEAN, is_charging : BOOLEAN,
         is_game_finished : BOOLEAN, has_win : BOOLEAN,
         score : Nat, opponent_score : Nat,
         fallen : SUBSET Balls,         \* the balls whose collider is disabled
         rolling : Rolls,               \* what the world has still to simulate
         next_w : Nat]                  \* idx of the W key

(* must_update_physics_: from the shot's packet until the balls are at rest. *)
MustUpdatePhysics(g) == g.rolling # <<>>

(* A game as the program starts it, but for the static of the W key.         *)
NewGame(p) ==
  [playing |-> FALSE, is_player_turn |-> FALSE, has_played |-> FALSE,
   is_charging |-> FALSE, is_game_finished |-> FALSE, has_win |-> FALSE,
   score |-> 0, opponent_score |-> 0, fallen |-> {}, rolling |-> <<>>,
   next_w |-> 2 + p]

(* InitGame keeps every flag as it is.  All balls are on the table: those it *)
(* creates take the slots of disabled colliders first, should the world be   *)
(* in use already.                                                           *)
InitGame(g) == [g EXCEPT !.playing = TRUE, !.fallen = {}]

(* The balls are back at rest; the physics are still to be updated if they   *)
(* were, and a cue that was drawn is still drawn.                            *)
Deinit(g) ==
  [g EXCEPT !.playing = FALSE, !.is_player_turn = FALSE, !.has_played = FALSE,
            !.has_win = FALSE, !.is_game_finished = FALSE, !.fallen = {},
            !.rolling = IF MustUpdatePhysics(g) THEN <<{}>> ELSE <<>>]

(* The rolls a shot may lead to on a table; fallsIn[b] is the step in which  *)
(* ball b falls, and it does not fall if there is no such step.              *)
BallsLeft(g) == Balls \ (g.fallen \cup Falling(g.rolling))
Plans(g) ==
  {fallsIn \in [BallsLeft(g) \cap Sinkable -> 0..RollLimit] :
     Cardinality({b \in DOMAIN fallsIn : fallsIn[b] # 0}) <= FallLimit}
RollOf(fallsIn, n) == [m \in 1..n |-> {b \in DOMAIN fallsIn : fallsIn[b] = m}]
RollsOn(g) == {RollOf(fallsIn, n) : fallsIn \in Plans(g), n \in 1..RollLimit}

-----------------------------------------------------------------------------

(* OnPacketReceived, for a packet other than a shot.                         *)
OnSignal(g, type) ==
  IF type = "newTurn" THEN [g EXCEPT !.is_player_turn = TRUE]
  ELSE IF type \in {"won", "lost"} /\ ~g.is_game_finished
  THEN [g EXCEPT !.has_win = (type = "won"), !.is_game_finished = TRUE]
  ELSE g

(* KCueBallVelocity sets the velocity of the cue ball, whatever it has.      *)
OnShot(g, roll) == [g EXCEPT !.rolling = roll]

(* Wrong on purpose: whoever is not at the turn claims the game.             *)
ClaimsGameUnchecked(g) ==
  (g.is_player_turn /\ g.score = BallsPerPlayer) \/ ~g.is_player_turn

(* Wrong on purpose: only the player at the turn looks at the black ball.    *)
ClaimsGameAtTurn(g) == g.is_player_turn /\ g.score = BallsPerPlayer

(* OnTriggerEnter on the black ball: who claims the game.  The score is that *)
(* of the frame before: a ball that falls in this step does not count.       *)
ClaimsGame(g) ==
  \/ g.is_player_turn /\ g.score = BallsPerPlayer
  \/ ~g.is_player_turn /\ g.opponent_score # BallsPerPlayer

Falls(g, ball) == MustUpdatePhysics(g) /\ ball \in Head(g.rolling) \ g.fallen

WorldUpdate(g) ==
  IF ~MustUpdatePhysics(g) THEN g
  ELSE LET h == [g EXCEPT !.fallen = @ \cup Head(g.rolling),
                          !.rolling = Tail(@)] IN
       IF ~Falls(g, Black) THEN h
       ELSE [h EXCEPT !.is_game_finished = TRUE,
                      !.has_win = @ \/ ClaimsGame(g),
                      !.score = IF g.is_player_turn /\ ClaimsGame(g)
                                THEN @ + 1 ELSE @]

(* The mouse in a frame: pressed on the cue ball just now, released since    *)
(* its last press, or neither.                                               *)
Mouse == {"justPressed", "released", "idle"}
MayAim(g) == g.is_player_turn /\ ~g.has_played
Shoots(g, mouse) == MayAim(g) /\ g.is_charging /\ mouse = "released"

(* Wrong on purpose: a player may shoot again before the turn ends.          *)
HandlePlayerTurnAgain(g, mouse) ==
  IF Shoots(g, mouse) THEN [g EXCEPT !.is_charging = FALSE]
  ELSE IF MayAim(g) /\ mouse = "justPressed" THEN [g EXCEPT !.is_charging = TRUE]
  ELSE g

HandlePlayerTurn(g, mouse) ==
  IF Shoots(g, mouse) THEN [g EXCEPT !.is_charging = FALSE, !.has_played = TRUE]
  ELSE IF MayAim(g) /\ mouse = "justPressed" THEN [g EXCEPT !.is_charging = TRUE]
  ELSE g

(* g is the game after the world's step, moved whether there was one.        *)
EndsTurn(g, moved) ==
  moved /\ ~MustUpdatePhysics(g) /\ g.is_player_turn /\ g.has_played

(* Wrong on purpose: the turn is passed on and kept.                         *)
CheckEndTurnKeepsTurn(g, moved) ==
  IF EndsTurn(g, moved) THEN [g EXCEPT !.has_played = FALSE] ELSE g

(* Wrong on purpose: the shot is not forgotten with the turn.                *)
CheckEndTurnStaysPlayed(g, moved) ==
  IF EndsTurn(g, moved) THEN [g EXCEPT !.is_player_turn = FALSE] ELSE g

CheckEndTurnCondition(g, moved) ==
  IF EndsTurn(g, moved)
  THEN [g EXCEPT !.is_player_turn = FALSE, !.has_played = FALSE] ELSE g

UpdateScores(g, p) ==
  IF g.is_game_finished THEN g
  ELSE [g EXCEPT !.score = Cardinality(g.fallen \cap BallsOf(p)),
                 !.opponent_score = Cardinality(g.fallen \cap BallsOf(Other(p)))]

(* Update of a game that is not finished, p being player_index_: the game    *)
(* after it, and what it sent.  The game may become finished in the world's  *)
(* step; the mouse and the end of the turn are still looked at in that frame.*)
UpdateGame(g, mouse, p) ==
  LET h == WorldUpdate(g)
      turn == HandlePlayerTurn(h, mouse)
      moved == MustUpdatePhysics(g)
  IN [game |-> UpdateScores(CheckEndTurnCondition(turn, moved), p),
      claims |-> Falls(g, Black) /\ ClaimsGame(g),
      shoots |-> Shoots(h, mouse),
      passes |-> EndsTurn(turn, moved)]

(* The packets of that frame, in the order in which it sends them.           *)
When(condition, packet) == IF condition THEN <<packet>> ELSE <<>>
Sends(frame, endGame, shot, newTurn) ==
  When(frame.claims, endGame) \o When(frame.shoots, shot)
    \o When(frame.passes, newTurn)

(* The W key takes the balls of a colour off the player's own table, then    *)
(* the black one and the game.                                               *)

(* Wrong on purpose: the key counts past the last ball.                      *)
BallOfWUnchecked(g) == g.next_w

BallOfW(g) == IF g.next_w \in Balls THEN g.next_w ELSE Black

AfterW(g, ball) ==
  [g EXCEPT !.fallen = @ \cup {ball}, !.next_w = ball + 2,
            !.has_win = @ \/ ball = Black,
            !.is_game_finished = @ \/ ball = Black]
=============================================================================
