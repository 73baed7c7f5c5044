----------------------------- MODULE GameProofs -----------------------------
(* Lemmas about the operators of Game, for the modules that run it: what a   *)
(* packet, a frame and a roll keep, and what they change.                    *)
EXTENDS Game, TLAPS, FiniteSetTheorems, SequenceTheorems

-----------------------------------------------------------------------------
LEMMA BallsFinite == \A S \in SUBSET Balls : IsFiniteSet(S) /\ Cardinality(S) \in Nat
<1>1. IsFiniteSet(Balls)
  BY FS_Interval, GameAssumption DEF Balls
<1>. QED
  BY <1>1, FS_Subset, FS_CardinalityType

LEMMA BlackIsBall == Black \in Balls
BY GameAssumption DEF Black, Balls

LEMMA NewGameType == \A p \in Player : NewGame(p) \in Game
<1>1. <<>> \in Rolls
  BY DEF Rolls
<1>. QED
  BY <1>1 DEF NewGame, Game, Player

LEMMA InitGameType == \A g \in Game : InitGame(g) \in Game
BY DEF InitGame, Game

LEMMA DeinitType == \A g \in Game : Deinit(g) \in Game
<1>1. <<>> \in Rolls /\ <<{}>> \in Rolls
  BY DEF Rolls
<1>. QED
  BY <1>1 DEF Deinit, Game

LEMMA OnSignalType ==
  ASSUME NEW g \in Game, NEW type
  PROVE  OnSignal(g, type) \in Game
BY DEF OnSignal, Game

LEMMA OnShotType == \A g \in Game, roll \in Rolls : OnShot(g, roll) \in Game
BY DEF OnShot, Game

LEMMA AfterWType ==
  ASSUME NEW g \in Game
  PROVE  /\ BallOfW(g) \in Balls
         /\ AfterW(g, BallOfW(g)) \in Game
<1>1. BallOfW(g) \in Balls
  BY BlackIsBall DEF BallOfW
<1>2. BallOfW(g) + 2 \in Nat
  BY <1>1 DEF Balls
<1>3. \A b \in BOOLEAN : (b \/ BallOfW(g) = Black) \in BOOLEAN
  OBVIOUS
<1>. QED
  BY <1>1, <1>2, <1>3 DEF AfterW, Game

LEMMA RollsOnType ==
  ASSUME NEW g \in Game, NEW roll \in RollsOn(g)
  PROVE  roll \in Rolls
<1>1. PICK fallsIn \in Plans(g), n \in 1..RollLimit : roll = RollOf(fallsIn, n)
  BY SMT DEF RollsOn
<1>2. n \in Nat
  BY GameAssumption
<1>3. DOMAIN fallsIn \subseteq Balls
  BY DEF Plans, BallsLeft
<1>. QED
  BY <1>1, <1>2, <1>3, IsASeq DEF Rolls, RollOf

(* A step of the world.  Nothing of the turn changes in it.                  *)
LEMMA WorldUpdateFacts ==
  ASSUME NEW g \in Game
  PROVE  /\ WorldUpdate(g) \in Game
         /\ \A f \in {"playing", "is_player_turn", "has_played", "is_charging",
                      "opponent_score", "next_w"} : WorldUpdate(g)[f] = g[f]
         /\ WorldUpdate(g).fallen
              = IF MustUpdatePhysics(g) THEN g.fallen \cup Head(g.rolling) ELSE g.fallen
         /\ WorldUpdate(g).rolling
              = IF MustUpdatePhysics(g) THEN Tail(g.rolling) ELSE <<>>
         /\ WorldUpdate(g).is_game_finished = (g.is_game_finished \/ Falls(g, Black))
         /\ WorldUpdate(g).has_win
              = (g.has_win \/ (Falls(g, Black) /\ ClaimsGame(g)))
         /\ ~Falls(g, Black) => WorldUpdate(g).score = g.score
<1>1. ClaimsGame(g) \in BOOLEAN /\ Falls(g, Black) \in BOOLEAN
  BY DEF ClaimsGame, Falls
<1>2. CASE ~MustUpdatePhysics(g)
  BY <1>2 DEF WorldUpdate, MustUpdatePhysics, Falls, Game
<1>3. CASE MustUpdatePhysics(g)
  <2>. DEFINE h == [g EXCEPT !.fallen = @ \cup Head(g.rolling),
                            !.rolling = Tail(@)]
  <2>1. g.rolling \in Rolls /\ g.rolling # <<>>
    BY <1>3 DEF Game, MustUpdatePhysics
  <2>2. Head(g.rolling) \in SUBSET Balls /\ Tail(g.rolling) \in Rolls
    BY <2>1, HeadTailProperties DEF Rolls
  <2>3. h \in Game /\ g.fallen \cup Head(g.rolling) \in SUBSET Balls
    BY <2>2 DEF Game
  <2>4. CASE ~Falls(g, Black)
    BY <1>3, <2>2, <2>3, <2>4 DEF WorldUpdate, Game
  <2>5. CASE Falls(g, Black)
    <3>. DEFINE won == h.has_win \/ ClaimsGame(g)
                score == IF g.is_player_turn /\ ClaimsGame(g) THEN h.score + 1 ELSE h.score
    <3>1. WorldUpdate(g) = [h EXCEPT !.is_game_finished = TRUE, !.has_win = won,
                                     !.score = score]
      BY <1>3, <2>5 DEF WorldUpdate
    <3>2. score \in Nat
      BY <2>3 DEF Game
    <3>3. won \in BOOLEAN /\ won = (g.has_win \/ ClaimsGame(g))
      BY <1>1, <2>2 DEF Game
    <3>4. /\ h.fallen = g.fallen \cup Head(g.rolling) /\ h.rolling = Tail(g.rolling)
          /\ \A f \in {"playing", "is_player_turn", "has_played", "is_charging",
                       "opponent_score", "next_w"} : h[f] = g[f]
      BY <2>2 DEF Game
    <3>. HIDE DEF h, won, score
    <3>5. WorldUpdate(g) \in Game
      BY <2>3, <3>1, <3>2, <3>3 DEF Game
    <3>6. /\ WorldUpdate(g).fallen = h.fallen /\ WorldUpdate(g).rolling = h.rolling
          /\ WorldUpdate(g).is_game_finished = TRUE /\ WorldUpdate(g).has_win = won
          /\ \A f \in {"playing", "is_player_turn", "has_played", "is_charging",
                       "opponent_score", "next_w"} : WorldUpdate(g)[f] = h[f]
      BY <2>3, <3>1 DEF Game
    <3>. QED
      BY <1>3, <2>5, <3>3, <3>4, <3>5, <3>6
  <2>. QED
    BY <2>4, <2>5
<1>. QED
  BY <1>2, <1>3

LEMMA HandlePlayerTurnFacts ==
  ASSUME NEW g \in Game, NEW mouse \in Mouse
  PROVE  /\ HandlePlayerTurn(g, mouse) \in Game
         /\ \A f \in {"playing", "is_player_turn", "score", "opponent_score", "fallen",
                      "rolling", "is_game_finished", "has_win", "next_w"} :
              HandlePlayerTurn(g, mouse)[f] = g[f]
         /\ HandlePlayerTurn(g, mouse).has_played = (g.has_played \/ Shoots(g, mouse))
BY DEF HandlePlayerTurn, Game, Shoots, MayAim

LEMMA CheckEndTurnConditionFacts ==
  ASSUME NEW g \in Game, NEW moved \in BOOLEAN
  PROVE  /\ CheckEndTurnCondition(g, moved) \in Game
         /\ \A f \in {"playing", "is_charging", "score", "opponent_score", "fallen",
                      "rolling", "is_game_finished", "has_win", "next_w"} :
              CheckEndTurnCondition(g, moved)[f] = g[f]
         /\ CheckEndTurnCondition(g, moved).is_player_turn
              = (g.is_player_turn /\ ~EndsTurn(g, moved))
         /\ CheckEndTurnCondition(g, moved).has_played
              = (g.has_played /\ ~EndsTurn(g, moved))
BY DEF CheckEndTurnCondition, Game, EndsTurn

LEMMA UpdateScoresFacts ==
  ASSUME NEW g \in Game, NEW p \in Player
  PROVE  /\ UpdateScores(g, p) \in Game
         /\ \A f \in {"playing", "is_player_turn", "has_played", "is_charging", "fallen",
                      "rolling", "is_game_finished", "has_win", "next_w"} :
              UpdateScores(g, p)[f] = g[f]
         /\ ~g.is_game_finished =>
              /\ UpdateScores(g, p).score = Cardinality(g.fallen \cap BallsOf(p))
              /\ UpdateScores(g, p).opponent_score
                   = Cardinality(g.fallen \cap BallsOf(Other(p)))
<1>1. \A q : Cardinality(g.fallen \cap BallsOf(q)) \in Nat
  BY BallsFinite DEF Game
<1>. QED
  BY <1>1 DEF UpdateScores, Game

(* A frame of a game: the world's step decides on the table and the verdict, *)
(* the mouse and the table at rest on the turn.                              *)
TableAfter(g, frame) ==
  /\ frame.game.fallen = WorldUpdate(g).fallen
  /\ frame.game.rolling = WorldUpdate(g).rolling
  /\ frame.game.is_game_finished = WorldUpdate(g).is_game_finished
  /\ frame.game.has_win = WorldUpdate(g).has_win
  /\ frame.claims <=> Falls(g, Black) /\ ClaimsGame(g)
TurnAfter(g, mouse, frame) ==
  /\ frame.shoots <=> MayAim(g) /\ g.is_charging /\ mouse = "released"
  /\ frame.passes <=> /\ MustUpdatePhysics(g) /\ frame.game.rolling = <<>>
                      /\ g.is_player_turn /\ (g.has_played \/ frame.shoots)
  /\ frame.game.is_player_turn <=> g.is_player_turn /\ ~frame.passes
  /\ frame.game.has_played <=> (g.has_played \/ frame.shoots) /\ ~frame.passes
ScoresAfter(p, frame) ==
  ~frame.game.is_game_finished =>
    /\ frame.game.score = Cardinality(frame.game.fallen \cap BallsOf(p))
    /\ frame.game.opponent_score = Cardinality(frame.game.fallen \cap BallsOf(Other(p)))

LEMMA UpdateGameFacts ==
  ASSUME NEW g \in Game, NEW mouse \in Mouse, NEW p \in Player,
         NEW frame, frame = UpdateGame(g, mouse, p)
  PROVE  /\ frame.game \in Game /\ {frame.claims, frame.shoots, frame.passes} \subseteq BOOLEAN
         /\ frame.game.playing = g.playing
         /\ TableAfter(g, frame) /\ TurnAfter(g, mouse, frame) /\ ScoresAfter(p, frame)
<1>. DEFINE h == WorldUpdate(g)
            turn == HandlePlayerTurn(h, mouse)
            moved == MustUpdatePhysics(g)
            rest == CheckEndTurnCondition(turn, moved)
<1>1. /\ frame.game = UpdateScores(rest, p)
      /\ frame.claims = (Falls(g, Black) /\ ClaimsGame(g))
      /\ frame.shoots = Shoots(h, mouse)
      /\ frame.passes = EndsTurn(turn, moved)
  BY DEF UpdateGame
<1>2. /\ h \in Game
      /\ \A f \in {"playing", "is_player_turn", "has_played", "is_charging"} : h[f] = g[f]
  BY WorldUpdateFacts
<1>3. /\ turn \in Game
      /\ \A f \in {"playing", "is_player_turn", "fallen", "rolling", "is_game_finished",
                   "has_win", "next_w"} : turn[f] = h[f]
      /\ turn.has_played = (h.has_played \/ Shoots(h, mouse))
  BY <1>2, HandlePlayerTurnFacts
<1>4. moved \in BOOLEAN
  BY DEF MustUpdatePhysics
<1>5. /\ rest \in Game
      /\ \A f \in {"playing", "fallen", "rolling", "is_game_finished", "has_win",
                   "next_w"} : rest[f] = turn[f]
      /\ rest.is_player_turn = (turn.is_player_turn /\ ~EndsTurn(turn, moved))
      /\ rest.has_played = (turn.has_played /\ ~EndsTurn(turn, moved))
  BY <1>3, <1>4, CheckEndTurnConditionFacts
<1>6. /\ frame.game \in Game
      /\ \A f \in {"playing", "is_player_turn", "has_played", "fallen", "rolling",
                   "is_game_finished", "has_win", "next_w"} : frame.game[f] = rest[f]
      /\ ~rest.is_game_finished =>
           /\ frame.game.score = Cardinality(rest.fallen \cap BallsOf(p))
           /\ frame.game.opponent_score
                = Cardinality(rest.fallen \cap BallsOf(Other(p)))
  <2>. DEFINE scored == UpdateScores(rest, p)
  <2>1. /\ scored \in Game
        /\ \A f \in {"playing", "is_player_turn", "has_played", "is_charging", "fallen",
                     "rolling", "is_game_finished", "has_win", "next_w"} :
             scored[f] = rest[f]
        /\ ~rest.is_game_finished =>
             /\ scored.score = Cardinality(rest.fallen \cap BallsOf(p))
             /\ scored.opponent_score = Cardinality(rest.fallen \cap BallsOf(Other(p)))
    <3>. HIDE DEF rest
    <3>. QED
      BY <1>5, UpdateScoresFacts
  <2>. HIDE DEF scored
  <2>2. frame.game = scored
    BY <1>1 DEF scored
  <2>. QED
    BY <2>1, <2>2
<1>. HIDE DEF h, turn, moved, rest
<1>7. TurnAfter(g, mouse, frame)
  <2>1. frame.shoots <=> MayAim(g) /\ g.is_charging /\ mouse = "released"
    BY <1>1, <1>2 DEF Shoots, MayAim
  <2>2. frame.passes <=> /\ MustUpdatePhysics(g) /\ frame.game.rolling = <<>>
                         /\ g.is_player_turn /\ (g.has_played \/ frame.shoots)
    BY <1>1, <1>2, <1>3, <1>5, <1>6 DEF EndsTurn, MustUpdatePhysics, moved
  <2>3. frame.game.is_player_turn <=> g.is_player_turn /\ ~frame.passes
    BY <1>1, <1>2, <1>3, <1>5, <1>6
  <2>4. frame.game.has_played <=> (g.has_played \/ frame.shoots) /\ ~frame.passes
    BY <1>1, <1>2, <1>3, <1>5, <1>6
  <2>. QED
    BY <2>1, <2>2, <2>3, <2>4 DEF TurnAfter
<1>8. TableAfter(g, frame) /\ frame.game.playing = g.playing
  BY <1>1, <1>2, <1>3, <1>5, <1>6 DEF h, TableAfter
<1>9. ScoresAfter(p, frame)
  BY <1>6 DEF ScoresAfter
<1>10. {frame.claims, frame.shoots, frame.passes} \subseteq BOOLEAN
  BY <1>1, <1>2, <1>3 DEF Shoots, EndsTurn, Falls, ClaimsGame
<1>. QED
  BY <1>6, <1>7, <1>8, <1>9, <1>10

-----------------------------------------------------------------------------
=============================================================================
