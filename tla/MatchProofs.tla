----------------------------- MODULE MatchProofs -----------------------------
(* Theorems about Match: types, the turn, and what the two tables share.     *)
EXTENDS Match, GameProofs

-----------------------------------------------------------------------------
(* Types.                                                                    *)

LEMMA PacketTypes ==
  /\ \A type \in {"startGame", "newTurn", "won", "lost", "endGame", "closed"} :
        Signal(type) \in Signals
  /\ \A roll \in Rolls : CueBallVelocity(roll) \in Shots
  /\ Signals \subseteq Packets /\ Shots \subseteq Packets
BY DEF Signal, CueBallVelocity, Signals, Shots, Packets

LEMMA SendsType ==
  ASSUME NEW frame, NEW roll \in Rolls
  PROVE  Sends(frame, Signal("endGame"), CueBallVelocity(roll), Signal("newTurn"))
           \in Seq(Packets)
<1>1. /\ Signal("endGame") \in Packets /\ Signal("newTurn") \in Packets
      /\ CueBallVelocity(roll) \in Packets
  BY PacketTypes
<1>2. /\ When(frame.claims, Signal("endGame")) \in Seq(Packets)
      /\ When(frame.shoots, CueBallVelocity(roll)) \in Seq(Packets)
      /\ When(frame.passes, Signal("newTurn")) \in Seq(Packets)
  BY <1>1 DEF When
<1>. QED
  BY <1>2, ConcatProperties DEF Sends

(* What a frame sends, in the order in which the server gets it.             *)
Sent(frame, roll) ==
  Sends(frame, Signal("endGame"), CueBallVelocity(roll), Signal("newTurn"))

(* A frame of a game in which nothing happens, and one of a game under way.  *)
Still(p, g) ==
  /\ ~g.playing \/ g.is_game_finished
  /\ game'[p] = g /\ up'[p] = up[p] /\ shots' = shots
Frame(p, g, frame, roll) ==
  /\ g.playing /\ ~g.is_game_finished
  /\ game'[p] = frame.game /\ up'[p] = up[p] \o Sent(frame, roll)
  /\ shots' = (IF frame.shoots THEN shots + 1 ELSE shots)
  /\ frame.shoots => shots < ShotLimit
  /\ frame.shoots => roll \in CommonRolls(frame.game)

LEMMA CommonRollsType == \A g \in Game : CommonRolls(g) \subseteq Rolls
<1>1. <<{}>> \in Rolls
  BY DEF Rolls
<1>. QED
  BY <1>1, RollsOnType DEF CommonRolls

LEMMA UpdateCases ==
  ASSUME TypeOK, NEW p \in Player, NEW g \in Game, Update(p, g)
  PROVE  /\ game' \in [Player -> Game] /\ up' \in [Player -> Seq(Packets)]
         /\ shots' \in 0..ShotLimit
         /\ game'[Other(p)] = game[Other(p)] /\ up'[Other(p)] = up[Other(p)]
         /\ \/ Still(p, g)
            \/ \E mouse \in Mouse, roll \in Rolls :
                 Frame(p, g, UpdateGame(g, mouse, p), roll)
<1>. Other(p) \in Player /\ Other(p) # p
  BY DEF Other, Player
<1>1. CASE ~g.playing \/ g.is_game_finished
  <2>1. game' = [game EXCEPT ![p] = g] /\ UNCHANGED <<up, shots>>
    BY <1>1 DEF Update
  <2>. QED
    BY <1>1, <2>1 DEF TypeOK, Still
<1>2. CASE g.playing /\ ~g.is_game_finished
  <2>1. PICK mouse \in Mouse :
          LET frame == UpdateGame(g, mouse, p) IN
          /\ game' = [game EXCEPT ![p] = frame.game]
          /\ frame.shoots => shots < ShotLimit
          /\ shots' = (IF frame.shoots THEN shots + 1 ELSE shots)
          /\ \E roll \in IF frame.shoots THEN CommonRolls(frame.game) ELSE {<<>>} :
               up' = [up EXCEPT ![p] = @ \o Sent(frame, roll)]
    BY <1>2 DEF Update, Sent
  <2>. DEFINE frame == UpdateGame(g, mouse, p)
  <2>2. frame.game \in Game
    BY UpdateGameFacts
  <2>. HIDE DEF frame
  <2>3. PICK roll \in IF frame.shoots THEN CommonRolls(frame.game) ELSE {<<>>} :
          up' = [up EXCEPT ![p] = @ \o Sent(frame, roll)]
    BY <2>1 DEF frame
  <2>4. roll \in Rolls /\ (frame.shoots => roll \in CommonRolls(frame.game))
    <3>1. <<>> \in Rolls
      BY DEF Rolls
    <3>. QED
      BY <3>1, <2>2, <2>3, CommonRollsType
  <2>5. up[p] \o Sent(frame, roll) \in Seq(Packets)
    BY <2>4, SendsType, ConcatProperties DEF TypeOK, Sent
  <2>6. /\ game' = [game EXCEPT ![p] = frame.game]
        /\ up' = [up EXCEPT ![p] = up[p] \o Sent(frame, roll)]
        /\ frame.shoots => shots < ShotLimit
        /\ shots' = (IF frame.shoots THEN shots + 1 ELSE shots)
    BY <2>1, <2>3 DEF frame
  <2>7. Frame(p, g, frame, roll)
    BY <1>2, <2>4, <2>6 DEF Frame, TypeOK
  <2>8. shots' \in 0..ShotLimit
    BY <2>6, MatchAssumption DEF TypeOK
  <2>9. \E m \in Mouse, r \in Rolls : Frame(p, g, UpdateGame(g, m, p), r)
    BY <2>4, <2>7 DEF frame
  <2>. QED
    BY <2>2, <2>5, <2>6, <2>8, <2>9 DEF TypeOK
<1>. QED
  BY <1>1, <1>2

(* The game of p once a packet is handled.                                   *)
Handled(p, packet, g) ==
  \/ packet = Signal("startGame") /\ g = InitGame(game[p])
  \/ /\ packet \in Signals \ {Signal("startGame")} /\ game[p].playing
     /\ g = OnSignal(game[p], packet.type)
  \/ /\ packet \in Shots /\ game[p].playing
     /\ \E roll \in Rolls :
          g = OnShot(game[p], roll) /\ (diverged' \/ roll = packet.roll)
  \/ packet # Signal("startGame") /\ ~game[p].playing /\ g = game[p]

LEMMA SignalOrShot ==
  /\ \A packet \in Packets : packet \in Signals \/ packet \in Shots
  /\ \A packet \in Signals : packet = Signal(packet.type) /\ packet \notin Shots
  /\ \A packet \in Shots : packet.roll \in Rolls /\ packet.type = "cueBallVelocity"
  /\ \A packet \in Signals : packet.type \in
       {"startGame", "newTurn", "won", "lost", "endGame", "closed"}
  /\ \A type : Signal(type).type = type /\ \A roll : Signal(type) # CueBallVelocity(roll)
BY DEF Packets, Signals, Shots, Signal, CueBallVelocity

LEMMA HeadOfPackets ==
  ASSUME NEW queue \in Seq(Packets), queue # <<>>
  PROVE  Head(queue) \in Packets /\ Tail(queue) \in Seq(Packets)
BY HeadTailProperties

LEMMA ReceiveCases ==
  ASSUME TypeOK, NEW p \in Player, FrameReceive(p)
  PROVE  /\ down[p] # <<>> /\ open[p]
         /\ \E g \in Game : Update(p, g) /\ Handled(p, Head(down[p]), g)
         /\ down' = [down EXCEPT ![p] = Tail(@)]
         /\ UNCHANGED <<open, lobby_open>>
         /\ diverged' = (diverged \/ (/\ Head(down[p]) \in Shots /\ game[p].playing
                                      /\ MustUpdatePhysics(game[p])))
         /\ early' = (early \/ (/\ Head(down[p]) = Signal("newTurn") /\ game[p].playing
                                /\ MustUpdatePhysics(game[p])))
<1>. DEFINE packet == Head(down[p])
<1>1. /\ down[p] # <<>> /\ open[p]
      /\ down' = [down EXCEPT ![p] = Tail(@)] /\ UNCHANGED <<open, lobby_open>>
      /\ ReceiveSignal(p) \/ ReceiveShot(p)
  BY DEF FrameReceive, ReceiveSignal, ReceiveShot
<1>2. packet \in Packets /\ game[p] \in Game /\ {diverged, early} \subseteq BOOLEAN
  BY <1>1, HeadOfPackets DEF TypeOK
<1>3. ASSUME ReceiveSignal(p)
      PROVE  /\ \E g \in Game : Update(p, g) /\ Handled(p, packet, g)
             /\ packet \in Signals /\ diverged' = diverged
             /\ early' = (early \/ (/\ packet = Signal("newTurn") /\ game[p].playing
                                    /\ MustUpdatePhysics(game[p])))
  <2>1. /\ packet \in Signals /\ packet = Signal(packet.type) /\ diverged' = diverged
        /\ early' = (early \/ (/\ packet.type = "newTurn" /\ game[p].playing
                               /\ MustUpdatePhysics(game[p])))
    BY <1>3, SignalOrShot DEF ReceiveSignal
  <2>2. \E g \in Game : Update(p, g) /\ Handled(p, packet, g)
    <3>1. CASE packet.type = "startGame" /\ Update(p, InitGame(game[p]))
      BY <1>2, <2>1, <3>1, InitGameType DEF Handled
    <3>2. CASE /\ packet.type # "startGame" /\ game[p].playing
               /\ Update(p, OnSignal(game[p], packet.type))
      <4>1. packet \in Signals \ {Signal("startGame")}
        BY <2>1, <3>2, SignalOrShot
      <4>2. OnSignal(game[p], packet.type) \in Game
        BY <1>2, OnSignalType
      <4>. QED
        BY <3>2, <4>1, <4>2 DEF Handled
    <3>3. CASE packet.type # "startGame" /\ ~game[p].playing /\ Update(p, game[p])
      BY <1>2, <2>1, <3>3, SignalOrShot DEF Handled
    <3>. QED
      BY <1>3, <3>1, <3>2, <3>3 DEF ReceiveSignal
  <2>3. (packet.type = "newTurn") = (packet = Signal("newTurn"))
    BY <2>1, SignalOrShot
  <2>. QED
    BY <2>1, <2>2, <2>3
<1>4. ASSUME ReceiveShot(p)
      PROVE  /\ \E g \in Game : Update(p, g) /\ Handled(p, packet, g)
             /\ packet \in Shots /\ early' = early
             /\ diverged' = (diverged \/ (game[p].playing /\ MustUpdatePhysics(game[p])))
  <2>1. packet \in Shots /\ packet.roll \in Rolls /\ early' = early
    BY <1>4, SignalOrShot DEF ReceiveShot
  <2>2. CASE game[p].playing
    <3>1. [game[p] EXCEPT !.rolling = <<>>] \in Game
      <4>1. <<>> \in Rolls
        BY DEF Rolls
      <4>. QED
        BY <1>2, <4>1 DEF Game
    <3>2. /\ diverged' = (diverged \/ MustUpdatePhysics(game[p]))
          /\ \E roll \in IF diverged' THEN RollsOn([game[p] EXCEPT !.rolling = <<>>])
                                      ELSE {packet.roll} : Update(p, OnShot(game[p], roll))
      BY <1>4, <2>2 DEF ReceiveShot
    <3>3. PICK roll \in IF diverged' THEN RollsOn([game[p] EXCEPT !.rolling = <<>>])
                                   ELSE {packet.roll} : Update(p, OnShot(game[p], roll))
      BY <3>2
    <3>4. roll \in Rolls /\ (diverged' \/ roll = packet.roll)
      BY <2>1, <3>1, <3>3, RollsOnType
    <3>5. OnShot(game[p], roll) \in Game
      BY <1>2, <3>4, OnShotType
    <3>6. Handled(p, packet, OnShot(game[p], roll))
      BY <2>1, <2>2, <3>4 DEF Handled
    <3>. QED
      BY <2>1, <2>2, <3>2, <3>3, <3>5, <3>6
  <2>3. CASE ~game[p].playing
    <3>1. Update(p, game[p]) /\ diverged' = diverged
      BY <1>4, <2>3 DEF ReceiveShot
    <3>2. packet # Signal("startGame")
      BY <2>1, SignalOrShot
    <3>3. Handled(p, packet, game[p])
      BY <2>3, <3>2 DEF Handled
    <3>. QED
      BY <1>2, <2>1, <2>3, <3>1, <3>3
  <2>. QED
    BY <2>2, <2>3
<1>5. packet \in Shots => packet \notin Signals /\ packet # Signal("newTurn")
  BY SignalOrShot, PacketTypes
<1>. HIDE DEF packet
<1>6. /\ \E g \in Game : Update(p, g) /\ Handled(p, packet, g)
      /\ diverged' = (diverged \/ (/\ packet \in Shots /\ game[p].playing
                                   /\ MustUpdatePhysics(game[p])))
      /\ early' = (early \/ (/\ packet = Signal("newTurn") /\ game[p].playing
                             /\ MustUpdatePhysics(game[p])))
  <2>1. CASE ReceiveSignal(p)
    BY <1>2, <1>3, <1>5, <2>1
  <2>2. CASE ReceiveShot(p)
    BY <1>2, <1>4, <1>5, <2>2
  <2>. QED
    BY <1>1, <2>1, <2>2
<1>. QED
  BY <1>1, <1>6 DEF packet

(* What the server makes of a packet while it has the two in a lobby.        *)
Relayed(packet, toSender, toOther) ==
  \/ packet = Signal("newTurn") /\ toSender = <<>> /\ toOther = <<packet>>
  \/ packet \in Shots /\ toSender = <<packet>> /\ toOther = <<packet>>
  \/ /\ packet = Signal("endGame")
     /\ toSender = <<Signal("won")>> /\ toOther = <<Signal("lost")>>
  \/ packet = Signal("closed") /\ toSender = <<>> /\ toOther = <<Signal("won")>>

LEMMA ServeCases ==
  ASSUME TypeOK, NEW p \in Player, Serve(p)
  PROVE  /\ up[p] # <<>> /\ up' = [up EXCEPT ![p] = Tail(@)]
         /\ UNCHANGED <<game, open, diverged, early, shots>>
         /\ lobby_open' = (lobby_open /\ Head(up[p]).type \notin {"endGame", "closed"})
         /\ down' \in [Player -> Seq(Packets)]
         /\ \/ ~lobby_open /\ UNCHANGED down
            \/ /\ lobby_open
               /\ \E toSender, toOther \in Seq(Packets) :
                    /\ Relayed(Head(up[p]), toSender, toOther)
                    /\ down'[p] = down[p] \o toSender
                    /\ down'[Other(p)] = down[Other(p)] \o toOther
<1>. DEFINE packet == Head(up[p])
<1>1. /\ up[p] # <<>> /\ up' = [up EXCEPT ![p] = Tail(@)]
      /\ UNCHANGED <<game, open, diverged, early, shots>>
      /\ lobby_open' = (lobby_open /\ packet.type \notin {"endGame", "closed"})
  BY DEF Serve, TypeOK
<1>2. packet \in Packets
  BY <1>1, HeadOfPackets DEF TypeOK
<1>3. CASE ~lobby_open
  BY <1>1, <1>3 DEF Serve, TypeOK
<1>4. CASE lobby_open
  <2>1. ASSUME NEW toSender \in Seq(Packets), NEW toOther \in Seq(Packets),
               Relayed(packet, toSender, toOther), Deliver(toSender, toOther, p)
        PROVE  /\ down' \in [Player -> Seq(Packets)]
               /\ \E s, o \in Seq(Packets) :
                    /\ Relayed(packet, s, o)
                    /\ down'[p] = down[p] \o s /\ down'[Other(p)] = down[Other(p)] \o o
    <3>1. Other(p) \in Player /\ Other(p) # p
      BY DEF Other, Player
    <3>2. \A q \in Player : down[q] \o (IF q = p THEN toSender ELSE toOther) \in Seq(Packets)
      BY ConcatProperties DEF TypeOK
    <3>. QED
      BY <2>1, <3>1, <3>2 DEF Deliver
  <2>2. /\ <<>> \in Seq(Packets) /\ <<packet>> \in Seq(Packets)
        /\ <<Signal("won")>> \in Seq(Packets) /\ <<Signal("lost")>> \in Seq(Packets)
    BY <1>2, PacketTypes
  <2>3. packet \in Signals => packet = Signal(packet.type)
    BY SignalOrShot
  <2>4. packet.type = "cueBallVelocity" => packet \in Shots
    BY <1>2, SignalOrShot
  <2>5. packet.type # "cueBallVelocity" => packet \in Signals
    BY <1>2, SignalOrShot
  <2>. HIDE DEF packet
  <2>6. \E toSender, toOther \in Seq(Packets) :
          Relayed(packet, toSender, toOther) /\ Deliver(toSender, toOther, p)
    <3>1. CASE packet.type = "newTurn" /\ Deliver(<<>>, <<packet>>, p)
      BY <2>2, <2>3, <2>5, <3>1 DEF Relayed
    <3>2. CASE packet.type = "cueBallVelocity" /\ Deliver(<<packet>>, <<packet>>, p)
      BY <2>2, <2>4, <3>2 DEF Relayed
    <3>3. CASE /\ packet.type = "endGame"
               /\ Deliver(<<Signal("won")>>, <<Signal("lost")>>, p)
      BY <2>2, <2>3, <2>5, <3>3 DEF Relayed
    <3>4. CASE packet.type = "closed" /\ Deliver(<<>>, <<Signal("won")>>, p)
      BY <2>2, <2>3, <2>5, <3>4 DEF Relayed
    <3>. QED
      BY <1>4, <3>1, <3>2, <3>3, <3>4 DEF Serve, packet
  <2>7. /\ down' \in [Player -> Seq(Packets)]
        /\ \E s, o \in Seq(Packets) :
              /\ Relayed(packet, s, o)
              /\ down'[p] = down[p] \o s /\ down'[Other(p)] = down[Other(p)] \o o
    BY <2>1, <2>6
  <2>. QED
    BY <1>1, <1>4, <2>7 DEF packet
<1>. QED
  BY <1>3, <1>4

(* Every variable keeps its type: the queues hold packets the handlers know, *)
(* and no shot is taken beyond the bound.                                    *)
THEOREM TypeCorrect == Spec => []TypeOK
<1>1. Init => TypeOK
  <2>. SUFFICES ASSUME Init PROVE TypeOK
    OBVIOUS
  <2>1. game \in [Player -> Game]
    BY NewGameType DEF Init
  <2>2. up \in [Player -> Seq(Packets)]
    BY DEF Init
  <2>3. down \in [Player -> Seq(Packets)]
    <3>1. Signal("startGame") \in Packets /\ Signal("newTurn") \in Packets
      BY PacketTypes
    <3>. QED
      BY <3>1 DEF Init
  <2>4. shots \in 0..ShotLimit
    BY MatchAssumption DEF Init
  <2>5. open \in [Player -> BOOLEAN]
    BY DEF Init
  <2>6. lobby_open \in BOOLEAN /\ diverged \in BOOLEAN /\ early \in BOOLEAN
    BY DEF Init
  <2>. QED
    BY <2>1, <2>2, <2>3, <2>4, <2>5, <2>6 DEF TypeOK
<1>2. TypeOK /\ [Next]_vars => TypeOK'
  <2>. SUFFICES ASSUME TypeOK, [Next]_vars PROVE TypeOK'
    OBVIOUS
  <2>1. ASSUME NEW p \in Player, FrameReceive(p) PROVE TypeOK'
    <3>1. PICK g \in Game : Update(p, g)
      BY <2>1, ReceiveCases
    <3>2. /\ game' \in [Player -> Game] /\ up' \in [Player -> Seq(Packets)]
          /\ shots' \in 0..ShotLimit
      BY <3>1, UpdateCases
    <3>3. /\ down[p] # <<>> /\ down' = [down EXCEPT ![p] = Tail(@)]
          /\ UNCHANGED <<open, lobby_open>> /\ {diverged', early'} \subseteq BOOLEAN
      BY <2>1, ReceiveCases DEF TypeOK
    <3>4. down' \in [Player -> Seq(Packets)]
      BY <3>3, HeadOfPackets DEF TypeOK
    <3>. QED
      BY <3>2, <3>3, <3>4 DEF TypeOK
  <2>2. ASSUME NEW p \in Player, FrameIdle(p) PROVE TypeOK'
    <3>1. game[p] \in Game /\ Update(p, game[p])
      BY <2>2 DEF TypeOK, FrameIdle
    <3>2. /\ game' \in [Player -> Game] /\ up' \in [Player -> Seq(Packets)]
          /\ shots' \in 0..ShotLimit
      BY <3>1, UpdateCases
    <3>. QED
      BY <2>2, <3>2 DEF TypeOK, FrameIdle
  <2>3. ASSUME NEW p \in Player, PressW(p) PROVE TypeOK'
    <3>1. AfterW(game[p], BallOfW(game[p])) \in Game
      BY AfterWType DEF TypeOK
    <3>2. up[p] \o When(BallOfW(game[p]) = Black, Signal("endGame")) \in Seq(Packets)
      BY PacketTypes, ConcatProperties DEF When, TypeOK
    <3>. QED
      BY <2>3, <3>1, <3>2 DEF PressW, TypeOK
  <2>4. ASSUME NEW p \in Player, LeaveGame(p) PROVE TypeOK'
    BY <2>4, DeinitType DEF LeaveGame, TypeOK
  <2>5. ASSUME NEW p \in Player, CloseWindow(p) PROVE TypeOK'
    BY <2>5, PacketTypes DEF CloseWindow, TypeOK
  <2>6. ASSUME NEW p \in Player, Serve(p) PROVE TypeOK'
    <3>1. up[p] # <<>> /\ up' = [up EXCEPT ![p] = Tail(@)]
      BY <2>6, ServeCases
    <3>2. up' \in [Player -> Seq(Packets)]
      BY <3>1, HeadOfPackets DEF TypeOK
    <3>3. /\ UNCHANGED <<game, open, diverged, early, shots>>
          /\ down' \in [Player -> Seq(Packets)] /\ lobby_open' \in BOOLEAN
      BY <2>6, ServeCases
    <3>. QED
      BY <3>2, <3>3 DEF TypeOK
  <2>7. CASE UNCHANGED vars
    BY <2>7 DEF vars, TypeOK
  <2>. QED
    BY <2>1, <2>2, <2>3, <2>4, <2>5, <2>6, <2>7 DEF Next
<1>. QED
  BY <1>1, <1>2, PTL DEF Spec

-----------------------------------------------------------------------------
(* The turn: where a kNewTurn may be, and who is to get it.                  *)

HasTurn(p) == game[p].is_player_turn
TurnIn(queue) == NewTurnsIn(queue) # {}
OneTurnIn(queue) == \A m, n \in NewTurnsIn(queue) : m = n

Due(p) == HasTurn(p) \/ TurnIn(down[p]) \/ TurnIn(up[Other(p)])

(* A client that has not joined yet has the game the program starts with.    *)
JoinsFirst(p) ==
  \A n \in DOMAIN down[p] :
    down[p][n] = Signal("startGame") => n = 1 /\ game[p] = NewGame(p)

OnePlace(p) ==
  /\ HasTurn(p) => ~TurnIn(down[p]) /\ ~TurnIn(up[Other(p)])
  /\ TurnIn(down[p]) => ~TurnIn(up[Other(p)])

TurnInv ==
  /\ \A p \in Player : /\ OneTurnIn(up[p]) /\ OneTurnIn(down[p])
                       /\ OnePlace(p) /\ JoinsFirst(p)
                       /\ game[p].has_played => HasTurn(p)
                       /\ HasTurn(p) => game[p].playing
  /\ ~(Due(0) /\ Due(1))
  /\ InPlay => Due(0) \/ Due(1)

LEMMA TurnsInTail ==
  ASSUME NEW queue \in Seq(Packets), queue # <<>>, OneTurnIn(queue)
  PROVE  /\ OneTurnIn(Tail(queue))
         /\ Head(queue) = Signal("newTurn") => TurnIn(queue) /\ ~TurnIn(Tail(queue))
         /\ Head(queue) # Signal("newTurn") => (TurnIn(Tail(queue)) <=> TurnIn(queue))
<1>1. /\ Len(queue) \in Nat \ {0} /\ DOMAIN queue = 1..Len(queue)
      /\ DOMAIN Tail(queue) = 1..(Len(queue) - 1)
      /\ \A n \in 1..(Len(queue) - 1) : Tail(queue)[n] = queue[n + 1]
      /\ Head(queue) = queue[1]
  BY HeadTailProperties, LenProperties, EmptySeq
<1>2. \A n : n \in NewTurnsIn(Tail(queue)) => n \in Nat /\ n + 1 \in NewTurnsIn(queue)
  BY <1>1 DEF NewTurnsIn
<1>3. \A n \in NewTurnsIn(queue) : n = 1 \/ n - 1 \in NewTurnsIn(Tail(queue))
  BY <1>1 DEF NewTurnsIn
<1>4. \A n \in NewTurnsIn(queue) : n \in Nat
  BY <1>1 DEF NewTurnsIn
<1>5. 1 \in NewTurnsIn(queue) <=> Head(queue) = Signal("newTurn")
  BY <1>1 DEF NewTurnsIn
<1>6. OneTurnIn(Tail(queue))
  BY <1>2 DEF OneTurnIn
<1>7. Head(queue) = Signal("newTurn") => ~TurnIn(Tail(queue))
  <2>1. \A n \in Nat : n + 1 = 1 => n = 0
    OBVIOUS
  <2>2. 0 \notin NewTurnsIn(Tail(queue))
    BY <1>1 DEF NewTurnsIn
  <2>. QED
    BY <1>2, <1>5, <2>1, <2>2 DEF TurnIn, OneTurnIn
<1>8. Head(queue) # Signal("newTurn") => (TurnIn(Tail(queue)) <=> TurnIn(queue))
  BY <1>2, <1>3, <1>5 DEF TurnIn
<1>. QED
  BY <1>5, <1>6, <1>7, <1>8 DEF TurnIn

LEMMA TurnsInConcat ==
  ASSUME NEW s \in Seq(Packets), NEW t \in Seq(Packets)
  PROVE  /\ TurnIn(s \o t) <=> TurnIn(s) \/ TurnIn(t)
         /\ OneTurnIn(s) /\ OneTurnIn(t) /\ ~(TurnIn(s) /\ TurnIn(t)) => OneTurnIn(s \o t)
<1>1. /\ s \o t \in Seq(Packets) /\ Len(s \o t) = Len(s) + Len(t)
      /\ Len(s) \in Nat /\ Len(t) \in Nat
      /\ DOMAIN s = 1..Len(s) /\ DOMAIN t = 1..Len(t) /\ DOMAIN (s \o t) = 1..Len(s \o t)
      /\ \A n \in 1..Len(s) + Len(t) :
           (s \o t)[n] = IF n <= Len(s) THEN s[n] ELSE t[n - Len(s)]
  BY ConcatProperties, LenProperties
<1>2. \A n \in NewTurnsIn(s \o t) :
        n \in Nat /\ (n \in NewTurnsIn(s) \/ n - Len(s) \in NewTurnsIn(t))
  BY <1>1 DEF NewTurnsIn
<1>3. \A n \in NewTurnsIn(s) : n \in NewTurnsIn(s \o t)
  BY <1>1 DEF NewTurnsIn
<1>4. \A n \in NewTurnsIn(t) : n + Len(s) \in NewTurnsIn(s \o t)
  BY <1>1 DEF NewTurnsIn
<1>5. \A m, n \in Nat : m - Len(s) = n - Len(s) => m = n
  BY <1>1
<1>. QED
  BY <1>2, <1>3, <1>4, <1>5 DEF TurnIn, OneTurnIn

LEMMA TurnsInOne ==
  ASSUME NEW packet
  PROVE  /\ ~TurnIn(<<>>) /\ OneTurnIn(<<>>) /\ OneTurnIn(<<packet>>)
         /\ TurnIn(<<packet>>) <=> packet = Signal("newTurn")
BY DEF TurnIn, OneTurnIn, NewTurnsIn

LEMMA TurnsInSent ==
  ASSUME NEW frame, NEW roll \in Rolls
  PROVE  /\ Sent(frame, roll) \in Seq(Packets)
         /\ TurnIn(Sent(frame, roll)) <=> frame.passes
         /\ OneTurnIn(Sent(frame, roll))
<1>. DEFINE a == When(frame.claims, Signal("endGame"))
            b == When(frame.shoots, CueBallVelocity(roll))
            c == When(frame.passes, Signal("newTurn"))
<1>1. /\ Signal("endGame") \in Packets /\ Signal("newTurn") \in Packets
      /\ CueBallVelocity(roll) \in Packets
      /\ Signal("endGame") # Signal("newTurn") /\ CueBallVelocity(roll) # Signal("newTurn")
  BY PacketTypes, SignalOrShot
<1>2. a \in Seq(Packets) /\ ~TurnIn(a) /\ OneTurnIn(a)
  BY <1>1, TurnsInOne DEF When
<1>3. b \in Seq(Packets) /\ ~TurnIn(b) /\ OneTurnIn(b)
  BY <1>1, TurnsInOne DEF When
<1>4. c \in Seq(Packets) /\ (TurnIn(c) <=> frame.passes) /\ OneTurnIn(c)
  BY <1>1, TurnsInOne DEF When
<1>5. Sent(frame, roll) = (a \o b) \o c
  BY DEF Sent, Sends
<1>. HIDE DEF a, b, c
<1>6. a \o b \in Seq(Packets) /\ ~TurnIn(a \o b) /\ OneTurnIn(a \o b)
  BY <1>2, <1>3, TurnsInConcat, ConcatProperties
<1>7. /\ (a \o b) \o c \in Seq(Packets) /\ OneTurnIn((a \o b) \o c)
      /\ TurnIn((a \o b) \o c) <=> TurnIn(c)
  BY <1>4, <1>6, TurnsInConcat, ConcatProperties
<1>. QED
  BY <1>4, <1>5, <1>7

(* What a frame does to the turn, once a packet is handled.                  *)
FrameTurns(p, g, shoots, passes) ==
  /\ shoots => g.is_player_turn /\ ~g.has_played
  /\ passes => g.is_player_turn /\ (g.has_played \/ shoots)
  /\ game'[p].is_player_turn <=> g.is_player_turn /\ ~passes
  /\ game'[p].has_played <=> (g.has_played \/ shoots) /\ ~passes
  /\ game'[p].playing <=> g.playing
  /\ TurnIn(up'[p]) <=> TurnIn(up[p]) \/ passes
  /\ OneTurnIn(up[p]) /\ ~(TurnIn(up[p]) /\ passes) => OneTurnIn(up'[p])
  /\ shots' = (IF shoots THEN shots + 1 ELSE shots)

LEMMA FrameOfTurn ==
  ASSUME TypeOK, NEW p \in Player, NEW g \in Game, Update(p, g)
  PROVE  \E shoots, passes \in BOOLEAN : FrameTurns(p, g, shoots, passes)
<1>1. CASE Still(p, g)
  <2>1. FrameTurns(p, g, FALSE, FALSE)
    BY <1>1 DEF Still, FrameTurns, Game
  <2>. QED
    BY <2>1
<1>2. ASSUME NEW mouse \in Mouse, NEW roll \in Rolls,
             Frame(p, g, UpdateGame(g, mouse, p), roll)
      PROVE  \E shoots, passes \in BOOLEAN : FrameTurns(p, g, shoots, passes)
  <2>0. PICK frame : frame = UpdateGame(g, mouse, p)
    OBVIOUS
  <2>1. /\ frame.game \in Game /\ {frame.claims, frame.shoots, frame.passes} \subseteq BOOLEAN
        /\ frame.game.playing = g.playing /\ TurnAfter(g, mouse, frame)
    BY <2>0, UpdateGameFacts
  <2>3. /\ Sent(frame, roll) \in Seq(Packets) /\ OneTurnIn(Sent(frame, roll))
        /\ TurnIn(Sent(frame, roll)) <=> frame.passes
    BY TurnsInSent
  <2>4. /\ game'[p] = frame.game /\ up'[p] = up[p] \o Sent(frame, roll)
        /\ shots' = (IF frame.shoots THEN shots + 1 ELSE shots)
    BY <1>2, <2>0 DEF Frame
  <2>5. /\ TurnIn(up'[p]) <=> TurnIn(up[p]) \/ frame.passes
        /\ OneTurnIn(up[p]) /\ ~(TurnIn(up[p]) /\ frame.passes) => OneTurnIn(up'[p])
    BY <2>3, <2>4, TurnsInConcat DEF TypeOK
  <2>6. frame.shoots \in BOOLEAN /\ frame.passes \in BOOLEAN
    BY <2>1
  <2>7. FrameTurns(p, g, frame.shoots, frame.passes)
    BY <2>1, <2>4, <2>5 DEF FrameTurns, TurnAfter, MayAim
  <2>. QED
    BY <2>6, <2>7
<1>. QED
  BY <1>1, <1>2, UpdateCases

LEMMA NotJoining ==
  ASSUME TypeOK, TurnInv, NEW p \in Player
  PROVE  /\ Joining(p) => game[p] = NewGame(p) /\ ~game[p].playing
         /\ down[p] # <<>> =>
              \A n \in DOMAIN Tail(down[p]) : Tail(down[p])[n] # Signal("startGame")
         /\ down[p] # <<>> /\ Head(down[p]) # Signal("startGame") => ~Joining(p)
<1>1. Joining(p) => game[p] = NewGame(p) /\ ~game[p].playing
  <2>1. JoinsFirst(p) /\ ~NewGame(p).playing
    BY DEF TurnInv, NewGame
  <2>. QED
    BY <2>1 DEF JoinsFirst, Joining
<1>2. ASSUME down[p] # <<>>
      PROVE  /\ \A n \in DOMAIN Tail(down[p]) : Tail(down[p])[n] # Signal("startGame")
             /\ Head(down[p]) # Signal("startGame") => ~Joining(p)
  <2>1. /\ Len(down[p]) \in Nat \ {0} /\ DOMAIN down[p] = 1..Len(down[p])
        /\ DOMAIN Tail(down[p]) = 1..(Len(down[p]) - 1)
        /\ \A n \in 1..(Len(down[p]) - 1) : Tail(down[p])[n] = down[p][n + 1]
        /\ Head(down[p]) = down[p][1]
    BY <1>2, HeadTailProperties, LenProperties, EmptySeq DEF TypeOK
  <2>2. \A n \in DOMAIN down[p] : down[p][n] = Signal("startGame") => n = 1
    BY DEF TurnInv, JoinsFirst
  <2>. QED
    BY <2>1, <2>2 DEF Joining
<1>. QED
  BY <1>1, <1>2

LEMMA HandledTurn ==
  ASSUME TypeOK, TurnInv, NEW p \in Player, down[p] # <<>>,
         NEW g \in Game, Handled(p, Head(down[p]), g)
  PROVE  /\ g.playing = (game[p].playing \/ Head(down[p]) = Signal("startGame"))
         /\ g.has_played = game[p].has_played
         /\ g.is_player_turn = (game[p].is_player_turn
                                \/ (Head(down[p]) = Signal("newTurn") /\ game[p].playing))
<1>. DEFINE packet == Head(down[p])
<1>0. game[p] \in Game /\ Signal("newTurn") # Signal("startGame")
  BY SignalOrShot DEF TypeOK
<1>1. CASE packet = Signal("startGame") /\ g = InitGame(game[p])
  BY <1>0, <1>1 DEF InitGame, Game
<1>2. CASE /\ packet \in Signals \ {Signal("startGame")} /\ game[p].playing
           /\ g = OnSignal(game[p], packet.type)
  <2>1. packet = Signal(packet.type)
    BY <1>2, SignalOrShot
  <2>2. (packet.type = "newTurn") <=> (packet = Signal("newTurn"))
    BY <2>1, SignalOrShot
  <2>. HIDE DEF packet
  <2>3. /\ g.playing = game[p].playing /\ g.has_played = game[p].has_played
        /\ g.is_player_turn = (game[p].is_player_turn \/ packet.type = "newTurn")
    BY <1>0, <1>2 DEF OnSignal, Game
  <2>. QED
    BY <1>2, <2>2, <2>3 DEF packet
<1>3. CASE /\ packet \in Shots /\ game[p].playing
           /\ \E roll \in Rolls : g = OnShot(game[p], roll)
  <2>1. packet # Signal("newTurn")
    BY <1>3, PacketTypes, SignalOrShot
  <2>. QED
    BY <1>0, <1>3, <2>1 DEF OnShot, Game
<1>4. CASE packet # Signal("startGame") /\ ~game[p].playing /\ g = game[p]
  BY <1>0, <1>4 DEF Game
<1>. QED
  BY <1>1, <1>2, <1>3, <1>4 DEF Handled

LEMMA DueIsToken ==
  ASSUME NEW p \in Player, Due(p)
  PROVE  TurnTokens # {}
<1>1. CASE HasTurn(p)
  <2>1. <<"game", p, 0>> \in TurnTokens
    BY <1>1 DEF TurnTokens, HasTurn
  <2>. QED
    BY <2>1
<1>2. CASE TurnIn(down[p])
  <2>1. PICK n : n \in NewTurnsIn(down[p])
    BY <1>2 DEF TurnIn
  <2>2. <<"down", p, n>> \in TurnTokens
    BY <2>1 DEF TurnTokens
  <2>. QED
    BY <2>2
<1>3. CASE TurnIn(up[Other(p)])
  <2>1. PICK n : n \in NewTurnsIn(up[Other(p)])
    BY <1>3 DEF TurnIn
  <2>2. Other(p) \in Player
    BY DEF Player, Other
  <2>3. <<"up", Other(p), n>> \in TurnTokens
    BY <2>1, <2>2 DEF TurnTokens
  <2>. QED
    BY <2>3
<1>. QED
  BY <1>1, <1>2, <1>3 DEF Due

(* TurnGame's holder is the one the turn is due to.                          *)
LEMMA HolderIsDue ==
  TurnInv => Holder \in {0, 1, 2} /\ \A p \in Player : Holder = p <=> Due(p)
<1>. SUFFICES ASSUME TurnInv
              PROVE  Holder \in {0, 1, 2} /\ \A p \in Player : Holder = p <=> Due(p)
  OBVIOUS
<1>1. Player = {0, 1} /\ \A p \in Player : Other(p) \in Player /\ Other(Other(p)) = p
  BY DEF Player, Other
<1>2. \A t \in TurnTokens : HolderOf(t) \in Player /\ Due(HolderOf(t))
  <2>. SUFFICES ASSUME NEW t \in TurnTokens
                PROVE  HolderOf(t) \in Player /\ Due(HolderOf(t))
    OBVIOUS
  <2>1. CASE \E p \in Player : t = <<"game", p, 0>> /\ game[p].is_player_turn
    BY <2>1 DEF HolderOf, Due, HasTurn
  <2>2. CASE \E p \in Player : \E n \in NewTurnsIn(up[p]) : t = <<"up", p, n>>
    BY <1>1, <2>2 DEF HolderOf, Due, TurnIn
  <2>3. CASE \E p \in Player : \E n \in NewTurnsIn(down[p]) : t = <<"down", p, n>>
    BY <2>3 DEF HolderOf, Due, TurnIn
  <2>. QED
    BY <2>1, <2>2, <2>3 DEF TurnTokens
<1>3. \A p \in Player : Due(p) => TurnTokens # {}
  BY DueIsToken
<1>4. CASE TurnTokens = {}
  BY <1>1, <1>3, <1>4 DEF Holder
<1>5. CASE TurnTokens # {}
  <2>1. \E t \in TurnTokens : Holder = HolderOf(t)
    BY <1>5 DEF Holder
  <2>2. Holder \in Player /\ Due(Holder)
    BY <1>2, <2>1
  <2>3. ~(Due(0) /\ Due(1))
    BY DEF TurnInv
  <2>. QED
    BY <1>1, <2>2, <2>3
<1>. QED
  BY <1>4, <1>5

LEMMA HolderIsDueNext ==
  ASSUME TurnInv'
  PROVE  Holder' \in {0, 1, 2} /\ \A p \in Player : Holder' = p <=> Due(p)'
<1>1. (TurnInv => Holder \in {0, 1, 2} /\ \A p \in Player : Holder = p <=> Due(p))'
  BY HolderIsDue, PTL
<1>. QED
  BY <1>1

(* A step of TurnGame, told by what the turn is due to and who has shot.     *)
SameTurn ==
  (\A p \in Player : /\ Due(p)' <=> Due(p)
                     /\ game'[p].has_played <=> game[p].has_played) /\ shots' = shots
ShootsAt(p) ==
  /\ Due(p) /\ ~game[p].has_played /\ shots' = shots + 1
  /\ Due(p)' /\ game'[p].has_played
PassesOn(p) ==
  /\ Due(p) /\ game[p].has_played /\ shots' = shots
  /\ Due(Other(p))' /\ \A r \in Player : ~game'[r].has_played
ShootsAndPasses(p) ==
  /\ Due(p) /\ ~game[p].has_played /\ shots' = shots + 1
  /\ Due(Other(p))' /\ \A r \in Player : ~game'[r].has_played
LosesTurn(p) ==
  /\ Due(p) /\ ~Due(p)' /\ ~Due(Other(p))' /\ shots' = shots
TurnStep ==
  SameTurn \/ \E p \in Player :
                 ShootsAt(p) \/ PassesOn(p) \/ ShootsAndPasses(p) \/ LosesTurn(p)

LEMMA TurnStepIsNext ==
  ASSUME TypeOK, TypeOK', TurnInv, TurnInv', TurnStep
  PROVE  [Turns!Next]_(Turns!vars)
<1>. DEFINE played == \E p \in Player : game[p].is_player_turn /\ game[p].has_played
<1>1. Player = {0, 1} /\ \A p \in Player : Other(p) = 1 - p
  BY DEF Player, Other
<1>2. \A p \in Player : game[p].has_played => Due(p)
  BY DEF TurnInv, Due
<1>3. \A p \in Player : game'[p].has_played => Due(p)'
  BY DEF TurnInv, Due
<1>4. ~(Due(0) /\ Due(1)) /\ ~(Due(0)' /\ Due(1)')
  BY DEF TurnInv
<1>5. played <=> \E p \in Player : game[p].has_played
  BY DEF TurnInv, HasTurn
<1>6. played' <=> \E p \in Player : game'[p].has_played
  BY DEF TurnInv, HasTurn
<1>7. Holder \in {0, 1, 2} /\ \A p \in Player : Holder = p <=> Due(p)
  BY HolderIsDue
<1>8. Holder' \in {0, 1, 2} /\ \A p \in Player : Holder' = p <=> Due(p)'
  BY HolderIsDueNext
<1>9. played \in BOOLEAN /\ played' \in BOOLEAN
  OBVIOUS
<1>. HIDE DEF played
<1>10. CASE SameTurn
  <2>1. Holder' = Holder /\ shots' = shots
    BY <1>1, <1>7, <1>8, <1>10 DEF SameTurn
  <2>2. played' = played
    BY <1>5, <1>6, <1>9, <1>10 DEF SameTurn
  <2>. QED
    BY <2>1, <2>2 DEF Turns!vars, played
<1>11. ASSUME NEW p \in Player, ShootsAt(p) PROVE Turns!Next
  <2>1. Holder = p /\ Holder' = p /\ Holder # 2
    BY <1>1, <1>7, <1>8, <1>11 DEF ShootsAt
  <2>2. ~played /\ played'
    BY <1>1, <1>2, <1>4, <1>5, <1>6, <1>11 DEF ShootsAt
  <2>3. Turns!Shoot
    BY <1>9, <1>11, <2>1, <2>2 DEF ShootsAt, Turns!Shoot, Turns!MayShoot, Turns!Nobody, played
  <2>. QED
    BY <2>3 DEF Turns!Next
<1>12. ASSUME NEW p \in Player, PassesOn(p) PROVE Turns!Next
  <2>1. Holder = p /\ Holder' = 1 - p /\ Holder # 2
    BY <1>1, <1>7, <1>8, <1>12 DEF PassesOn
  <2>2. played /\ ~played'
    BY <1>1, <1>2, <1>3, <1>4, <1>5, <1>6, <1>12 DEF PassesOn
  <2>3. Turns!Pass
    BY <1>9, <1>12, <2>1, <2>2 DEF PassesOn, Turns!Pass, Turns!Opponent, Turns!Nobody, played
  <2>. QED
    BY <2>3 DEF Turns!Next
<1>13. ASSUME NEW p \in Player, ShootsAndPasses(p) PROVE Turns!Next
  <2>1. Holder = p /\ Holder' = 1 - p /\ Holder # 2
    BY <1>1, <1>7, <1>8, <1>13 DEF ShootsAndPasses
  <2>2. ~played /\ ~played'
    BY <1>1, <1>2, <1>3, <1>4, <1>5, <1>6, <1>13 DEF ShootsAndPasses
  <2>3. Turns!ShootAndPass
    BY <1>9, <1>13, <2>1, <2>2
       DEF ShootsAndPasses, Turns!ShootAndPass, Turns!MayShoot, Turns!Opponent, Turns!Nobody,
           played
  <2>. QED
    BY <2>3 DEF Turns!Next
<1>14. ASSUME NEW p \in Player, LosesTurn(p) PROVE Turns!Next
  <2>1. Holder # 2 /\ Holder' = 2
    BY <1>1, <1>7, <1>8, <1>14 DEF LosesTurn
  <2>2. ~played'
    BY <1>1, <1>3, <1>6, <1>14 DEF LosesTurn
  <2>3. Turns!Lose
    BY <1>9, <1>14, <2>1, <2>2 DEF LosesTurn, Turns!Lose, Turns!Nobody, played
  <2>. QED
    BY <2>3 DEF Turns!Next
<1>. QED
  BY <1>10, <1>11, <1>12, <1>13, <1>14 DEF TurnStep

(* A frame, whether it took up a kNewTurn, lost one or handled none.         *)
LEMMA FrameKeepsTurn ==
  ASSUME TypeOK, TurnInv, NEW p \in Player, NEW g \in Game, Update(p, g),
         NEW took \in BOOLEAN, NEW lost \in BOOLEAN,
         UNCHANGED <<open, lobby_open>>, down'[Other(p)] = down[Other(p)],
         g.has_played <=> game[p].has_played,
         g.is_player_turn <=> game[p].is_player_turn \/ took,
         g.is_player_turn => g.playing,
         took \/ lost => TurnIn(down[p]), ~(took /\ lost),
         TurnIn(down'[p]) <=> TurnIn(down[p]) /\ ~took /\ ~lost,
         OneTurnIn(down'[p]), JoinsFirst(p)', InPlay' => InPlay /\ ~lost
  PROVE  TurnInv' /\ TurnStep
<1>. DEFINE q == Other(p)
<1>1. /\ q \in Player /\ Other(q) = p
      /\ (p = 0 /\ q = 1) \/ (p = 1 /\ q = 0)
      /\ \A r \in Player : r = p \/ r = q
  BY DEF Player, Other
<1>2. PICK shoots \in BOOLEAN, passes \in BOOLEAN : FrameTurns(p, g, shoots, passes)
  BY FrameOfTurn
<1>3. game'[q] = game[q] /\ up'[q] = up[q]
  BY UpdateCases
<1>. HIDE DEF q
<1>4. /\ HasTurn(q)' <=> HasTurn(q)
      /\ TurnIn(up[q])' <=> TurnIn(up[q])
      /\ TurnIn(down[q])' <=> TurnIn(down[q])
  BY <1>3 DEF HasTurn, q
<1>5. /\ HasTurn(p)' <=> (HasTurn(p) \/ took) /\ ~passes
      /\ TurnIn(up[p])' <=> TurnIn(up[p]) \/ passes
      /\ TurnIn(down[p])' <=> TurnIn(down[p]) /\ ~took /\ ~lost
      /\ passes => HasTurn(p) \/ took
      /\ shoots => HasTurn(p) \/ took
  BY <1>2 DEF HasTurn, FrameTurns
<1>6. /\ game'[p].has_played <=> (game[p].has_played \/ shoots) /\ ~passes
      /\ game'[p].playing <=> g.playing
      /\ shoots => ~game[p].has_played
      /\ passes => game[p].has_played \/ shoots
  BY <1>2 DEF FrameTurns
<1>7. /\ Due(p) <=> HasTurn(p) \/ TurnIn(down[p]) \/ TurnIn(up[q])
      /\ Due(q) <=> HasTurn(q) \/ TurnIn(down[q]) \/ TurnIn(up[p])
      /\ Due(p)' <=> HasTurn(p)' \/ TurnIn(down[p])' \/ TurnIn(up[q])'
      /\ Due(q)' <=> HasTurn(q)' \/ TurnIn(down[q])' \/ TurnIn(up[p])'
  BY <1>1 DEF Due, q
<1>8. /\ HasTurn(p) => ~TurnIn(down[p]) /\ ~TurnIn(up[q])
      /\ TurnIn(down[p]) => ~TurnIn(up[q])
      /\ HasTurn(q) => ~TurnIn(down[q]) /\ ~TurnIn(up[p])
      /\ TurnIn(down[q]) => ~TurnIn(up[p])
      /\ ~(Due(p) /\ Due(q))
      /\ game[p].has_played => HasTurn(p)
      /\ game[q].has_played => HasTurn(q)
  BY <1>1 DEF TurnInv, OnePlace, q
<1>9. OneTurnIn(up[p])' /\ OneTurnIn(up[q])' /\ OneTurnIn(down[p])' /\ OneTurnIn(down[q])'
  <2>1. OneTurnIn(up[p]) /\ OneTurnIn(up[q]) /\ OneTurnIn(down[q])
    BY <1>1 DEF TurnInv
  <2>2. ~(TurnIn(up[p]) /\ passes)
    BY <1>5, <1>7, <1>8
  <2>. QED
    BY <1>2, <1>3, <2>1, <2>2 DEF FrameTurns, q
<1>10. OnePlace(p)' /\ OnePlace(q)' /\ ~(Due(0) /\ Due(1))'
  <2>1. /\ HasTurn(p)' => ~TurnIn(down[p])' /\ ~TurnIn(up[q])'
        /\ TurnIn(down[p])' => ~TurnIn(up[q])'
        /\ HasTurn(q)' => ~TurnIn(down[q])' /\ ~TurnIn(up[p])'
        /\ TurnIn(down[q])' => ~TurnIn(up[p])'
    BY <1>4, <1>5, <1>7, <1>8
  <2>2. ~(Due(p)' /\ Due(q)')
    BY <1>4, <1>5, <1>7, <1>8
  <2>. QED
    BY <1>1, <2>1, <2>2 DEF OnePlace, q
<1>11. JoinsFirst(q)'
  <2>1. JoinsFirst(q)
    BY <1>1 DEF TurnInv
  <2>. QED
    BY <1>3, <2>1 DEF JoinsFirst, q
<1>12. /\ game'[p].has_played => HasTurn(p)'
       /\ game'[q].has_played => HasTurn(q)'
       /\ HasTurn(p)' => game'[p].playing
       /\ HasTurn(q)' => game'[q].playing
  <2>1. HasTurn(q) => game[q].playing
    BY <1>1 DEF TurnInv
  <2>2. HasTurn(p)' => g.playing
    BY <1>5 DEF HasTurn
  <2>. QED
    BY <1>3, <1>4, <1>5, <1>6, <1>8, <2>1, <2>2
<1>13. InPlay' => Due(0)' \/ Due(1)'
  <2>1. InPlay => Due(p) \/ Due(q)
    BY <1>1 DEF TurnInv
  <2>2. (Due(p) \/ Due(q)) /\ ~lost => Due(p)' \/ Due(q)'
    BY <1>4, <1>5, <1>7
  <2>. QED
    BY <1>1, <2>1, <2>2
<1>14. TurnInv'
  <2>1. \A r \in Player : /\ OneTurnIn(up[r])' /\ OneTurnIn(down[r])'
                          /\ OnePlace(r)' /\ JoinsFirst(r)'
                          /\ game'[r].has_played => HasTurn(r)'
                          /\ HasTurn(r)' => game'[r].playing
    BY <1>1, <1>9, <1>10, <1>11, <1>12
  <2>. QED
    BY <1>10, <1>13, <2>1 DEF TurnInv
<1>15. TurnStep
  <2>1. shots' = (IF shoots THEN shots + 1 ELSE shots)
    BY <1>2 DEF FrameTurns
  <2>2. CASE ~shoots /\ ~passes /\ ~lost
    BY <1>1, <1>3, <1>4, <1>5, <1>6, <1>7, <2>1, <2>2 DEF TurnStep, SameTurn
  <2>3. CASE shoots /\ ~passes /\ ~lost
    <3>1. ShootsAt(p)
      BY <1>4, <1>5, <1>6, <1>7, <2>1, <2>3 DEF ShootsAt
    <3>. QED
      BY <3>1 DEF TurnStep
  <2>4. CASE ~shoots /\ passes /\ ~lost
    <3>1. PassesOn(p)
      BY <1>1, <1>3, <1>4, <1>5, <1>6, <1>7, <1>8, <2>1, <2>4 DEF PassesOn, q
    <3>. QED
      BY <3>1 DEF TurnStep
  <2>5. CASE shoots /\ passes /\ ~lost
    <3>1. ShootsAndPasses(p)
      BY <1>1, <1>3, <1>4, <1>5, <1>6, <1>7, <1>8, <2>1, <2>5 DEF ShootsAndPasses, q
    <3>. QED
      BY <3>1 DEF TurnStep
  <2>6. CASE lost
    <3>1. ~shoots /\ ~passes
      BY <1>5, <1>8, <2>6
    <3>2. LosesTurn(p)
      BY <1>4, <1>5, <1>7, <1>8, <2>1, <2>6, <3>1 DEF LosesTurn, q
    <3>. QED
      BY <3>2 DEF TurnStep
  <2>. QED
    BY <2>2, <2>3, <2>4, <2>5, <2>6
<1>. QED
  BY <1>14, <1>15

LEMMA ReceiveKeepsTurn ==
  ASSUME TypeOK, TurnInv, NEW p \in Player, FrameReceive(p)
  PROVE  TurnInv' /\ TurnStep
<1>. DEFINE packet == Head(down[p])
            took == packet = Signal("newTurn") /\ game[p].playing
            lost == packet = Signal("newTurn") /\ ~game[p].playing
<1>1. /\ down[p] # <<>> /\ down' = [down EXCEPT ![p] = Tail(@)]
      /\ UNCHANGED <<open, lobby_open>>
      /\ \E g \in Game : Update(p, g) /\ Handled(p, packet, g)
  BY ReceiveCases
<1>2. PICK g \in Game : Update(p, g) /\ Handled(p, packet, g)
  BY <1>1
<1>3. /\ g.playing = (game[p].playing \/ packet = Signal("startGame"))
      /\ g.has_played = game[p].has_played
      /\ g.is_player_turn = (game[p].is_player_turn \/ took)
  BY <1>1, <1>2, HandledTurn
<1>4. down'[p] = Tail(down[p]) /\ down'[Other(p)] = down[Other(p)] /\ Other(p) \in Player
  BY <1>1 DEF TypeOK, Player, Other
<1>5. down[p] \in Seq(Packets) /\ OneTurnIn(down[p]) /\ (HasTurn(p) => game[p].playing)
  BY DEF TypeOK, TurnInv
<1>6. /\ OneTurnIn(down'[p])
      /\ packet = Signal("newTurn") => TurnIn(down[p]) /\ ~TurnIn(down'[p])
      /\ packet # Signal("newTurn") => (TurnIn(down'[p]) <=> TurnIn(down[p]))
  BY <1>1, <1>4, <1>5, TurnsInTail
<1>7. /\ \A n \in DOMAIN down'[p] : down'[p][n] # Signal("startGame")
      /\ packet # Signal("startGame") => ~Joining(p)
  BY <1>1, <1>4, NotJoining
<1>8. JoinsFirst(p)' /\ ~Joining(p)'
  BY <1>7 DEF JoinsFirst, Joining
<1>9. game'[p].playing <=> g.playing
  BY <1>2, FrameOfTurn DEF FrameTurns
<1>10. game'[Other(p)] = game[Other(p)]
  BY <1>2, UpdateCases
<1>. HIDE DEF packet
<1>11. packet = Signal("startGame") => Joining(p)
  <2>1. 1 \in DOMAIN down[p] /\ Head(down[p]) = down[p][1]
    BY <1>1, <1>5, HeadTailProperties, LenProperties, EmptySeq
  <2>. QED
    BY <2>1 DEF Joining, packet
<1>12. InPlay' => InPlay /\ ~lost
  <2>1. \A r \in Player : r = p \/ r = Other(p)
    BY DEF Player, Other
  <2>2. Joining(Other(p))' = Joining(Other(p))
    BY <1>4 DEF Joining
  <2>3. game'[p].playing => game[p].playing \/ Joining(p)
    BY <1>3, <1>9, <1>11
  <2>4. InPlay' => game'[p].playing
    BY <1>8 DEF InPlay, InGame
  <2>5. packet = Signal("newTurn") => packet # Signal("startGame")
    BY SignalOrShot
  <2>6. InPlay' => ~lost
    BY <1>3, <1>9, <2>4, <2>5
  <2>7. InPlay' => InPlay
    BY <1>1, <1>4, <1>10, <2>1, <2>2, <2>3, <2>4 DEF InPlay, InGame
  <2>. QED
    BY <2>6, <2>7
<1>13. /\ took \in BOOLEAN /\ lost \in BOOLEAN /\ ~(took /\ lost)
       /\ took \/ lost => TurnIn(down[p])
       /\ TurnIn(down'[p]) <=> TurnIn(down[p]) /\ ~took /\ ~lost
  BY <1>6 DEF packet
<1>14. g.is_player_turn => g.playing
  BY <1>3, <1>5 DEF HasTurn
<1>. HIDE DEF took, lost
<1>15. /\ g.has_played <=> game[p].has_played
       /\ g.is_player_turn <=> game[p].is_player_turn \/ took
  BY <1>3
<1>. QED
  BY <1>1, <1>2, <1>4, <1>6, <1>8, <1>12, <1>13, <1>14, <1>15, FrameKeepsTurn

LEMMA IdleKeepsTurn ==
  ASSUME TypeOK, TurnInv, NEW p \in Player, FrameIdle(p)
  PROVE  TurnInv' /\ TurnStep
<1>1. /\ game[p] \in Game /\ Update(p, game[p])
      /\ UNCHANGED <<down, open, lobby_open>>
  BY DEF FrameIdle, TypeOK
<1>2. OneTurnIn(down[p]) /\ JoinsFirst(p) /\ (HasTurn(p) => game[p].playing)
  BY DEF TurnInv
<1>3. game'[p].playing <=> game[p].playing
  BY <1>1, FrameOfTurn DEF FrameTurns
<1>4. game'[Other(p)] = game[Other(p)]
  BY <1>1, UpdateCases
<1>5. ~game[p].playing => game'[p] = game[p]
  BY <1>1, UpdateCases DEF Still, Frame
<1>6. JoinsFirst(p)'
  <2>1. Joining(p) => ~game[p].playing
    BY NotJoining
  <2>2. CASE Joining(p)
    BY <1>1, <1>2, <1>5, <2>1, <2>2 DEF JoinsFirst
  <2>3. CASE ~Joining(p)
    BY <1>1, <2>3 DEF JoinsFirst, Joining
  <2>. QED
    BY <2>2, <2>3
<1>7. InPlay' => InPlay
  <2>1. \A r \in Player : r = p \/ r = Other(p)
    BY DEF Player, Other
  <2>2. \A r \in Player : game'[r].playing <=> game[r].playing
    BY <1>3, <1>4, <2>1
  <2>. QED
    BY <1>1, <2>2 DEF InPlay, InGame, Joining
<1>8. down'[Other(p)] = down[Other(p)] /\ down'[p] = down[p]
  BY <1>1
<1>. QED
  BY <1>1, <1>2, <1>6, <1>7, <1>8, FrameKeepsTurn DEF HasTurn

(* The steps of a client outside of a frame send no kNewTurn, and the turn   *)
(* stays where it is unless the one who holds it leaves.                     *)
LEMMA QuietKeepsTurn ==
  ASSUME TypeOK, TurnInv, NEW p \in Player, NEW left \in BOOLEAN,
         UNCHANGED <<down, lobby_open, shots>>,
         game'[Other(p)] = game[Other(p)], up'[Other(p)] = up[Other(p)],
         game'[p].has_played <=> game[p].has_played /\ ~left,
         HasTurn(p)' <=> HasTurn(p) /\ ~left,
         HasTurn(p)' => game'[p].playing,
         TurnIn(up'[p]) <=> TurnIn(up[p]), OneTurnIn(up'[p]),
         JoinsFirst(p)', InPlay' => InPlay /\ ~left
  PROVE  TurnInv' /\ TurnStep
<1>. DEFINE q == Other(p)
<1>1. /\ q \in Player /\ Other(q) = p
      /\ (p = 0 /\ q = 1) \/ (p = 1 /\ q = 0)
      /\ \A r \in Player : r = p \/ r = q
  BY DEF Player, Other
<1>2. game'[q] = game[q] /\ up'[q] = up[q] /\ down'[p] = down[p] /\ down'[q] = down[q]
  OBVIOUS
<1>. HIDE DEF q
<1>3. /\ HasTurn(q)' <=> HasTurn(q)
      /\ \A r \in Player : /\ TurnIn(up[r])' <=> TurnIn(up[r])
                           /\ TurnIn(down[r])' <=> TurnIn(down[r])
  BY <1>1, <1>2 DEF HasTurn
<1>4. /\ Due(p) <=> HasTurn(p) \/ TurnIn(down[p]) \/ TurnIn(up[q])
      /\ Due(q) <=> HasTurn(q) \/ TurnIn(down[q]) \/ TurnIn(up[p])
      /\ Due(p)' <=> HasTurn(p)' \/ TurnIn(down[p])' \/ TurnIn(up[q])'
      /\ Due(q)' <=> HasTurn(q)' \/ TurnIn(down[q])' \/ TurnIn(up[p])'
  BY <1>1 DEF Due, q
<1>5. /\ OnePlace(p) /\ OnePlace(q) /\ ~(Due(p) /\ Due(q)) /\ JoinsFirst(q)
      /\ \A r \in Player : /\ OneTurnIn(up[r]) /\ OneTurnIn(down[r])
                           /\ game[r].has_played => HasTurn(r)
                           /\ HasTurn(r) => game[r].playing
  BY <1>1 DEF TurnInv
<1>6. /\ OnePlace(p)' /\ OnePlace(q)' /\ ~(Due(p)' /\ Due(q)')
      /\ Due(q)' <=> Due(q)
      /\ HasTurn(p) => ~TurnIn(down[p]) /\ ~TurnIn(up[q])
  BY <1>1, <1>3, <1>4, <1>5 DEF OnePlace, q
<1>7. \A r \in Player : OneTurnIn(up[r])' /\ OneTurnIn(down[r])'
  BY <1>1, <1>2, <1>5
<1>8. JoinsFirst(q)'
  BY <1>2, <1>5 DEF JoinsFirst
<1>9. \A r \in Player : /\ game'[r].has_played => HasTurn(r)'
                        /\ HasTurn(r)' => game'[r].playing
  BY <1>1, <1>2, <1>3, <1>5
<1>10. InPlay' => Due(0)' \/ Due(1)'
  <2>1. InPlay => Due(p) \/ Due(q)
    BY <1>1 DEF TurnInv
  <2>2. ~left => (Due(p)' <=> Due(p))
    BY <1>1, <1>3, <1>4
  <2>. QED
    BY <1>1, <1>6, <2>1, <2>2
<1>11. TurnInv'
  <2>1. ~(Due(0)' /\ Due(1)')
    BY <1>1, <1>6
  <2>2. \A r \in Player : OnePlace(r)' /\ JoinsFirst(r)'
    BY <1>1, <1>6, <1>8
  <2>. QED
    BY <1>7, <1>9, <1>10, <2>1, <2>2 DEF TurnInv
<1>12. CASE left /\ HasTurn(p)
  <2>1. LosesTurn(p)
    BY <1>1, <1>3, <1>4, <1>5, <1>6, <1>12 DEF LosesTurn, q
  <2>. QED
    BY <1>11, <2>1 DEF TurnStep
<1>13. CASE ~(left /\ HasTurn(p))
  <2>1. Due(p)' <=> Due(p)
    BY <1>1, <1>3, <1>4, <1>13
  <2>2. \A r \in Player : game'[r].has_played <=> game[r].has_played
    BY <1>1, <1>2, <1>5, <1>13
  <2>3. SameTurn
    BY <1>1, <1>6, <2>1, <2>2 DEF SameTurn
  <2>. QED
    BY <1>11, <2>3 DEF TurnStep
<1>. QED
  BY <1>12, <1>13

LEMMA PlayingHasJoined ==
  ASSUME TypeOK, TurnInv, NEW p \in Player, game[p].playing, down' = down
  PROVE  JoinsFirst(p)' /\ ~Joining(p)'
<1>1. ~Joining(p)
  BY NotJoining
<1>. QED
  BY <1>1 DEF JoinsFirst, Joining

LEMMA PressWKeepsTurn ==
  ASSUME TypeOK, TurnInv, NEW p \in Player, PressW(p)
  PROVE  TurnInv' /\ TurnStep
<1>. DEFINE ball == BallOfW(game[p])
            sent == When(ball = Black, Signal("endGame"))
<1>1. /\ game[p] \in Game /\ up[p] \in Seq(Packets) /\ Other(p) \in Player
      /\ Other(p) # p
  BY DEF TypeOK, Player, Other
<1>2. /\ UNCHANGED <<down, open, lobby_open, shots>> /\ game[p].playing
      /\ game' = [game EXCEPT ![p] = AfterW(game[p], ball)]
      /\ up' = [up EXCEPT ![p] = up[p] \o sent]
  BY DEF PressW
<1>3. /\ game'[p] = AfterW(game[p], ball) /\ game'[Other(p)] = game[Other(p)]
      /\ up'[p] = up[p] \o sent /\ up'[Other(p)] = up[Other(p)]
  BY <1>1, <1>2 DEF TypeOK
<1>4. /\ game'[p].playing = game[p].playing
      /\ game'[p].has_played = game[p].has_played
      /\ game'[p].is_player_turn = game[p].is_player_turn
  BY <1>1, <1>3 DEF AfterW, Game
<1>5. sent \in Seq(Packets) /\ ~TurnIn(sent) /\ OneTurnIn(sent)
  BY PacketTypes, SignalOrShot, TurnsInOne DEF When
<1>. HIDE DEF ball, sent
<1>6. (TurnIn(up'[p]) <=> TurnIn(up[p])) /\ OneTurnIn(up'[p])
  <2>1. OneTurnIn(up[p])
    BY DEF TurnInv
  <2>. QED
    BY <1>1, <1>3, <1>5, <2>1, TurnsInConcat
<1>7. JoinsFirst(p)'
  BY <1>2, PlayingHasJoined
<1>8. InPlay' => InPlay
  <2>1. \A r \in Player : r = p \/ r = Other(p)
    BY DEF Player, Other
  <2>. QED
    BY <1>2, <1>3, <1>4, <2>1 DEF InPlay, InGame, Joining
<1>9. /\ game'[p].has_played <=> game[p].has_played /\ ~FALSE
      /\ HasTurn(p)' <=> HasTurn(p) /\ ~FALSE
      /\ HasTurn(p)' => game'[p].playing
  BY <1>2, <1>4 DEF HasTurn
<1>. QED
  BY <1>2, <1>3, <1>6, <1>7, <1>8, <1>9, QuietKeepsTurn

LEMMA LeaveKeepsTurn ==
  ASSUME TypeOK, TurnInv, NEW p \in Player, LeaveGame(p)
  PROVE  TurnInv' /\ TurnStep
<1>1. /\ game[p] \in Game /\ Other(p) \in Player /\ Other(p) # p
      /\ OneTurnIn(up[p]) /\ (game[p].has_played => HasTurn(p))
  BY DEF TypeOK, TurnInv, Player, Other
<1>2. /\ UNCHANGED <<up, down, open, lobby_open, shots>> /\ game[p].playing
      /\ game' = [game EXCEPT ![p] = Deinit(game[p])]
  BY DEF LeaveGame
<1>3. game'[p] = Deinit(game[p]) /\ game'[Other(p)] = game[Other(p)]
  BY <1>1, <1>2 DEF TypeOK
<1>4. ~game'[p].playing /\ ~game'[p].has_played /\ ~game'[p].is_player_turn
  BY <1>1, <1>3 DEF Deinit, Game
<1>5. JoinsFirst(p)' /\ ~Joining(p)'
  BY <1>2, PlayingHasJoined
<1>6. ~InPlay'
  BY <1>4, <1>5 DEF InPlay, InGame
<1>. QED
  BY <1>1, <1>2, <1>3, <1>4, <1>5, <1>6, QuietKeepsTurn DEF HasTurn

LEMMA CloseKeepsTurn ==
  ASSUME TypeOK, TurnInv, NEW p \in Player, CloseWindow(p)
  PROVE  TurnInv' /\ TurnStep
<1>1. /\ up[p] \in Seq(Packets) /\ Other(p) \in Player /\ Other(p) # p
      /\ OneTurnIn(up[p]) /\ JoinsFirst(p) /\ (HasTurn(p) => game[p].playing)
  BY DEF TypeOK, TurnInv, Player, Other
<1>2. /\ UNCHANGED <<game, down, lobby_open, shots>>
      /\ open' = [open EXCEPT ![p] = FALSE]
      /\ up' = [up EXCEPT ![p] = Append(up[p], Signal("closed"))]
  BY DEF CloseWindow
<1>. DEFINE sent == <<Signal("closed")>>
<1>3. up'[p] = up[p] \o sent /\ up'[Other(p)] = up[Other(p)]
  BY <1>1, <1>2, PacketTypes, AppendIsConcat DEF TypeOK
<1>4. sent \in Seq(Packets) /\ ~TurnIn(sent) /\ OneTurnIn(sent)
  BY PacketTypes, SignalOrShot, TurnsInOne
<1>. HIDE DEF sent
<1>5. (TurnIn(up'[p]) <=> TurnIn(up[p])) /\ OneTurnIn(up'[p])
  BY <1>1, <1>3, <1>4, TurnsInConcat
<1>6. ~InPlay'
  BY <1>2 DEF InPlay, TypeOK
<1>7. JoinsFirst(p)' /\ (HasTurn(p)' <=> HasTurn(p)) /\ (HasTurn(p)' => game'[p].playing)
  BY <1>1, <1>2 DEF JoinsFirst, HasTurn
<1>. QED
  BY <1>2, <1>3, <1>5, <1>6, <1>7, QuietKeepsTurn

(* The server appends to the queues of the clients, and never a kStartGame.  *)
LEMMA ServeAppends ==
  ASSUME TypeOK, NEW p \in Player, Serve(p), NEW r \in Player
  PROVE  \E added \in Seq(Packets) :
           /\ down'[r] = down[r] \o added
           /\ \A n \in DOMAIN added : added[n] # Signal("startGame")
<1>1. CASE ~lobby_open /\ UNCHANGED down
  <2>1. /\ down'[r] = down[r] \o <<>> /\ <<>> \in Seq(Packets)
        /\ \A n \in DOMAIN <<>> : <<>>[n] # Signal("startGame")
    BY <1>1, ConcatEmptySeq DEF TypeOK
  <2>. QED
    BY <2>1, Zenon
<1>2. ASSUME NEW toSender \in Seq(Packets), NEW toOther \in Seq(Packets),
             Relayed(Head(up[p]), toSender, toOther),
             down'[p] = down[p] \o toSender, down'[Other(p)] = down[Other(p)] \o toOther
      PROVE  \E added \in Seq(Packets) :
               /\ down'[r] = down[r] \o added
               /\ \A n \in DOMAIN added : added[n] # Signal("startGame")
  <2>1. r = p \/ r = Other(p)
    BY DEF Player, Other
  <2>2. /\ Signal("startGame") # Signal("newTurn") /\ Signal("startGame") # Signal("won")
        /\ Signal("startGame") # Signal("lost") /\ Signal("startGame") \notin Shots
    BY SignalOrShot, PacketTypes
  <2>3. /\ \A n \in DOMAIN toSender : toSender[n] # Signal("startGame")
        /\ \A n \in DOMAIN toOther : toOther[n] # Signal("startGame")
    BY <1>2, <2>2 DEF Relayed
  <2>. QED
    BY <1>2, <2>1, <2>3
<1>. QED
  BY <1>1, <1>2, ServeCases

LEMMA JoinsFirstKept ==
  ASSUME TypeOK, NEW r \in Player, game' = game, JoinsFirst(r), NEW added \in Seq(Packets),
         down'[r] = down[r] \o added, \A n \in DOMAIN added : added[n] # Signal("startGame")
  PROVE  JoinsFirst(r)' /\ (Joining(r)' => Joining(r))
<1>1. /\ down[r] \in Seq(Packets) /\ Len(down'[r]) = Len(down[r]) + Len(added)
      /\ Len(down[r]) \in Nat /\ Len(added) \in Nat
      /\ DOMAIN down[r] = 1..Len(down[r]) /\ DOMAIN added = 1..Len(added)
      /\ DOMAIN down'[r] = 1..Len(down'[r])
      /\ \A n \in 1..Len(down[r]) + Len(added) :
           down'[r][n] = IF n <= Len(down[r]) THEN down[r][n] ELSE added[n - Len(down[r])]
  BY ConcatProperties, LenProperties DEF TypeOK
<1>2. \A n \in DOMAIN down'[r] : down'[r][n] = Signal("startGame") =>
        n \in DOMAIN down[r] /\ down[r][n] = Signal("startGame")
  BY <1>1
<1>. QED
  BY <1>2 DEF JoinsFirst, Joining

LEMMA ServeKeepsTurn ==
  ASSUME TypeOK, TurnInv, NEW p \in Player, Serve(p)
  PROVE  TurnInv' /\ TurnStep
<1>. DEFINE q == Other(p)
            packet == Head(up[p])
            was == packet = Signal("newTurn")
<1>1. /\ q \in Player /\ Other(q) = p /\ q # p
      /\ (p = 0 /\ q = 1) \/ (p = 1 /\ q = 0)
      /\ \A r \in Player : r = p \/ r = q
  BY DEF Player, Other
<1>2. /\ up[p] # <<>> /\ up'[p] = Tail(up[p]) /\ up'[q] = up[q]
      /\ UNCHANGED <<game, open, shots>> /\ (lobby_open' => lobby_open)
  BY <1>1, ServeCases DEF TypeOK
<1>3. /\ OnePlace(p) /\ OnePlace(q) /\ ~(Due(p) /\ Due(q))
      /\ \A r \in Player : /\ OneTurnIn(up[r]) /\ OneTurnIn(down[r]) /\ JoinsFirst(r)
                           /\ game[r].has_played => HasTurn(r)
                           /\ HasTurn(r) => game[r].playing
  BY <1>1 DEF TurnInv
<1>4. /\ OneTurnIn(up'[p]) /\ (was => TurnIn(up[p]))
      /\ TurnIn(up'[p]) <=> TurnIn(up[p]) /\ ~was
  BY <1>2, <1>3, TurnsInTail DEF TypeOK
<1>. HIDE DEF q
<1>5. /\ Due(p) <=> HasTurn(p) \/ TurnIn(down[p]) \/ TurnIn(up[q])
      /\ Due(q) <=> HasTurn(q) \/ TurnIn(down[q]) \/ TurnIn(up[p])
      /\ Due(p)' <=> HasTurn(p)' \/ TurnIn(down[p])' \/ TurnIn(up[q])'
      /\ Due(q)' <=> HasTurn(q)' \/ TurnIn(down[q])' \/ TurnIn(up[p])'
  BY <1>1 DEF Due, q
<1>6. /\ OneTurnIn(down'[p]) /\ OneTurnIn(down'[q])
      /\ TurnIn(down'[p]) <=> TurnIn(down[p])
      /\ TurnIn(down'[q]) <=> TurnIn(down[q]) \/ (was /\ lobby_open)
  <2>1. CASE ~lobby_open /\ UNCHANGED down
    BY <1>1, <1>3, <2>1
  <2>2. ASSUME lobby_open, NEW toSender \in Seq(Packets), NEW toOther \in Seq(Packets),
               Relayed(packet, toSender, toOther),
               down'[p] = down[p] \o toSender, down'[q] = down[q] \o toOther
        PROVE  /\ OneTurnIn(down'[p]) /\ OneTurnIn(down'[q])
               /\ TurnIn(down'[p]) <=> TurnIn(down[p])
               /\ TurnIn(down'[q]) <=> TurnIn(down[q]) \/ (was /\ lobby_open)
    <3>1. /\ ~TurnIn(toSender) /\ OneTurnIn(toSender) /\ OneTurnIn(toOther)
          /\ TurnIn(toOther) <=> was
      <4>1. /\ Signal("newTurn") # Signal("won") /\ Signal("newTurn") # Signal("lost")
            /\ Signal("newTurn") # Signal("endGame") /\ Signal("newTurn") # Signal("closed")
            /\ Signal("newTurn") \notin Shots
        BY SignalOrShot, PacketTypes
      <4>. HIDE DEF packet
      <4>. QED
        BY <2>2, <4>1, TurnsInOne DEF Relayed
    <3>2. down[p] \in Seq(Packets) /\ down[q] \in Seq(Packets)
      BY <1>1 DEF TypeOK
    <3>3. ~(TurnIn(down[q]) /\ was)
      BY <1>1, <1>3, <1>4 DEF OnePlace
    <3>. QED
      BY <1>1, <1>3, <2>2, <3>1, <3>2, <3>3, TurnsInConcat
  <2>. QED
    BY <2>1, <2>2, ServeCases DEF q
<1>. HIDE DEF was
<1>7. \A r \in Player : JoinsFirst(r)' /\ (Joining(r)' => Joining(r))
  BY <1>2, <1>3, ServeAppends, JoinsFirstKept
<1>8. \A r \in Player : HasTurn(r)' <=> HasTurn(r)
  BY <1>2 DEF HasTurn
<1>9. /\ OnePlace(p)' /\ OnePlace(q)' /\ ~(Due(p)' /\ Due(q)')
      /\ Due(p)' <=> Due(p)
      /\ ~was \/ lobby_open => (Due(q)' <=> Due(q))
  <2>1. /\ HasTurn(p) => ~TurnIn(down[p]) /\ ~TurnIn(up[q])
        /\ TurnIn(down[p]) => ~TurnIn(up[q])
        /\ HasTurn(q) => ~TurnIn(down[q]) /\ ~TurnIn(up[p])
        /\ TurnIn(down[q]) => ~TurnIn(up[p])
    BY <1>1, <1>3 DEF OnePlace, q
  <2>2. /\ HasTurn(p)' <=> HasTurn(p)
        /\ HasTurn(q)' <=> HasTurn(q)
        /\ TurnIn(up[q])' <=> TurnIn(up[q])
        /\ TurnIn(up[p])' <=> TurnIn(up[p]) /\ ~was
        /\ TurnIn(down[p])' <=> TurnIn(down[p])
        /\ TurnIn(down[q])' <=> TurnIn(down[q]) \/ (was /\ lobby_open)
    BY <1>1, <1>2, <1>4, <1>6, <1>8
  <2>3. /\ HasTurn(p)' => ~TurnIn(down[p])' /\ ~TurnIn(up[q])'
        /\ TurnIn(down[p])' => ~TurnIn(up[q])'
        /\ HasTurn(q)' => ~TurnIn(down[q])' /\ ~TurnIn(up[p])'
        /\ TurnIn(down[q])' => ~TurnIn(up[p])'
    BY <1>4, <2>1, <2>2
  <2>4. OnePlace(p)' /\ OnePlace(q)'
    BY <1>1, <2>3 DEF OnePlace, q
  <2>. QED
    BY <1>3, <1>4, <1>5, <2>2, <2>4
<1>10. InPlay' => InPlay /\ (~was \/ lobby_open)
  BY <1>2, <1>7 DEF InPlay, InGame
<1>11. TurnInv'
  <2>1. ~(Due(0)' /\ Due(1)')
    BY <1>1, <1>9
  <2>2. \A r \in Player : /\ OneTurnIn(up[r])' /\ OneTurnIn(down[r])'
                          /\ OnePlace(r)' /\ JoinsFirst(r)'
                          /\ game'[r].has_played => HasTurn(r)'
                          /\ HasTurn(r)' => game'[r].playing
    BY <1>1, <1>2, <1>3, <1>4, <1>6, <1>7, <1>8, <1>9
  <2>3. InPlay' => Due(0)' \/ Due(1)'
    BY <1>1, <1>9, <1>10 DEF TurnInv
  <2>. QED
    BY <2>1, <2>2, <2>3 DEF TurnInv
<1>12. CASE was /\ ~lobby_open
  <2>1. LosesTurn(q)
    BY <1>1, <1>2, <1>3, <1>4, <1>5, <1>6, <1>8, <1>9, <1>12 DEF LosesTurn, OnePlace
  <2>. QED
    BY <1>1, <1>11, <2>1 DEF TurnStep
<1>13. CASE ~was \/ lobby_open
  <2>1. SameTurn
    BY <1>1, <1>2, <1>9, <1>13 DEF SameTurn
  <2>. QED
    BY <1>11, <2>1 DEF TurnStep
<1>. QED
  BY <1>12, <1>13

LEMMA TurnInit == Init => TurnInv
<1>. SUFFICES ASSUME Init PROVE TurnInv
  OBVIOUS
<1>1. /\ Player = {0, 1} /\ Other(0) = 1 /\ Other(1) = 0
      /\ down[0] = <<Signal("startGame"), Signal("newTurn")>>
      /\ down[1] = <<Signal("startGame")>>
      /\ up[0] = <<>> /\ up[1] = <<>> /\ game[0] = NewGame(0) /\ game[1] = NewGame(1)
  BY DEF Init, Player, Other
<1>2. Signal("startGame") # Signal("newTurn")
  BY SignalOrShot
<1>3. ~HasTurn(0) /\ ~HasTurn(1) /\ ~game[0].has_played /\ ~game[1].has_played
  BY <1>1 DEF HasTurn, NewGame
<1>4. /\ NewTurnsIn(down[0]) = {2} /\ NewTurnsIn(down[1]) = {}
      /\ NewTurnsIn(up[0]) = {} /\ NewTurnsIn(up[1]) = {}
  BY <1>1, <1>2 DEF NewTurnsIn
<1>5. /\ TurnIn(down[0]) /\ ~TurnIn(down[1]) /\ ~TurnIn(up[0]) /\ ~TurnIn(up[1])
      /\ \A p \in Player : OneTurnIn(up[p]) /\ OneTurnIn(down[p])
  BY <1>1, <1>4 DEF TurnIn, OneTurnIn
<1>6. JoinsFirst(0) /\ JoinsFirst(1)
  BY <1>1, <1>2 DEF JoinsFirst
<1>7. Due(0) /\ ~Due(1) /\ OnePlace(0) /\ OnePlace(1)
  BY <1>1, <1>3, <1>5 DEF Due, OnePlace
<1>. QED
  BY <1>1, <1>3, <1>5, <1>6, <1>7 DEF TurnInv

LEMMA TurnNext ==
  TypeOK /\ TurnInv /\ [Next]_vars => TurnInv' /\ TurnStep
<1>. SUFFICES ASSUME TypeOK, TurnInv, [Next]_vars PROVE TurnInv' /\ TurnStep
  OBVIOUS
<1>1. CASE Next
  <2>1. PICK p \in Player :
          \/ FrameReceive(p) \/ FrameIdle(p) \/ PressW(p) \/ LeaveGame(p)
          \/ CloseWindow(p) \/ Serve(p)
    BY <1>1 DEF Next
  <2>. QED
    BY <2>1, ReceiveKeepsTurn, IdleKeepsTurn, PressWKeepsTurn, LeaveKeepsTurn,
       CloseKeepsTurn, ServeKeepsTurn
<1>2. CASE UNCHANGED vars
  <2>1. \A p \in Player : Due(p)' <=> Due(p)
    BY <1>2 DEF vars, Due, HasTurn, TurnIn, NewTurnsIn
  <2>2. SameTurn
    BY <1>2, <2>1 DEF vars, SameTurn
  <2>3. TurnInv'
    BY <1>2 DEF vars, TurnInv, Due, HasTurn, TurnIn, OneTurnIn, NewTurnsIn, OnePlace,
                JoinsFirst, InPlay, InGame, Joining
  <2>. QED
    BY <2>2, <2>3 DEF TurnStep
<1>. QED
  BY <1>1, <1>2

LEMMA TurnInvariant == Spec => []TurnInv
<1>. QED
  BY TypeCorrect, TurnInit, TurnNext, PTL DEF Spec

LEMMA InvIsOneTurn == TurnInv => OneTurn
<1>. SUFFICES ASSUME TurnInv PROVE OneTurn
  OBVIOUS
<1>1. Player = {0, 1} /\ Other(0) = 1 /\ Other(1) = 0
  BY DEF Player, Other
<1>2. ASSUME NEW t \in TurnTokens
      PROVE  \E p \in Player :
               \/ HasTurn(p) /\ t = <<"game", p, 0>>
               \/ TurnIn(up[p]) /\ \E n \in NewTurnsIn(up[p]) : t = <<"up", p, n>>
               \/ TurnIn(down[p]) /\ \E n \in NewTurnsIn(down[p]) : t = <<"down", p, n>>
  <2>1. CASE \E p \in Player : t = <<"game", p, 0>> /\ game[p].is_player_turn
    BY <2>1 DEF HasTurn
  <2>2. CASE \E p \in Player : \E n \in NewTurnsIn(up[p]) : t = <<"up", p, n>>
    BY <2>2 DEF TurnIn
  <2>3. CASE \E p \in Player : \E n \in NewTurnsIn(down[p]) : t = <<"down", p, n>>
    BY <2>3 DEF TurnIn
  <2>. QED
    BY <1>2, <2>1, <2>2, <2>3 DEF TurnTokens
<1>3. \A p \in Player :
        /\ HasTurn(p) => ~TurnIn(down[p]) /\ ~TurnIn(up[Other(p)])
        /\ TurnIn(down[p]) => ~TurnIn(up[Other(p)])
  BY DEF TurnInv, OnePlace
<1>4. /\ ~(Due(0) /\ Due(1))
      /\ Due(0) <=> HasTurn(0) \/ TurnIn(down[0]) \/ TurnIn(up[1])
      /\ Due(1) <=> HasTurn(1) \/ TurnIn(down[1]) \/ TurnIn(up[0])
  BY <1>1 DEF TurnInv, Due
<1>5. \A p \in Player : /\ \A m, n \in NewTurnsIn(up[p]) : m = n
                        /\ \A m, n \in NewTurnsIn(down[p]) : m = n
  BY DEF TurnInv, OneTurnIn
<1>6. ASSUME NEW t \in TurnTokens, NEW u \in TurnTokens PROVE t = u
  BY <1>1, <1>2, <1>3, <1>4, <1>5
<1>7. InPlay => TurnTokens # {}
  <2>1. \A p \in Player : Due(p) => TurnTokens # {}
    BY DueIsToken
  <2>. QED
    BY <1>1, <2>1 DEF TurnInv
<1>. QED
  BY <1>6, <1>7 DEF OneTurn

(* The turn is at one place: with one player, or under way to one, and not   *)
(* lost while both are in the game, whatever the tables do and whoever plays *)
(* on a stale one.                                                           *)
THEOREM TurnIsAtOnePlace == Spec => []OneTurn
<1>. QED
  BY TurnInvariant, InvIsOneTurn, PTL

LEMMA TurnsInit == Init => Turns!Init
<1>. SUFFICES ASSUME Init PROVE Turns!Init
  OBVIOUS
<1>1. TurnInv
  BY TurnInit
<1>2. Player = {0, 1} /\ Other(0) = 1
  BY DEF Player, Other
<1>3. 2 \in NewTurnsIn(down[0])
  BY <1>2, SignalOrShot DEF Init, NewTurnsIn
<1>4. Holder = 0
  BY <1>1, <1>2, <1>3, HolderIsDue DEF Due, TurnIn
<1>5. (\E p \in Player : game[p].is_player_turn /\ game[p].has_played) = FALSE
  BY DEF Init, NewGame
<1>. QED
  BY <1>4, <1>5 DEF Turns!Init, Init

(* Match implements TurnGame: two clients, their queues and the server play  *)
(* one game of turns.  Each step shoots, passes the turn on, does both in a  *)
(* frame, loses the turn for good, or leaves it alone.                       *)
THEOREM MatchPlaysInTurns == Spec => PlaysInTurns
<1>1. TypeOK /\ TypeOK' /\ TurnInv /\ TurnInv' /\ [Next]_vars => [Turns!Next]_(Turns!vars)
  BY TurnNext, TurnStepIsNext
<1>2. Init => Turns!Init
  BY TurnsInit
<1>. QED
  BY <1>1, <1>2, TypeCorrect, TurnInvariant, PTL DEF Spec, PlaysInTurns, Turns!Spec

-----------------------------------------------------------------------------
(* What a roll and a queue of shots make fall.                               *)

LEMMA FallingHeadTail ==
  ASSUME NEW roll \in Rolls, roll # <<>>
  PROVE  Falling(roll) = Head(roll) \cup Falling(Tail(roll))
<1>1. /\ Len(roll) \in Nat \ {0} /\ DOMAIN roll = 1..Len(roll)
      /\ DOMAIN Tail(roll) = 1..(Len(roll) - 1)
      /\ \A n \in 1..(Len(roll) - 1) : Tail(roll)[n] = roll[n + 1]
      /\ Head(roll) = roll[1]
  BY HeadTailProperties, LenProperties, EmptySeq DEF Rolls
<1>2. ASSUME NEW b \in Falling(roll) PROVE b \in Head(roll) \cup Falling(Tail(roll))
  <2>1. PICK n \in DOMAIN roll : b \in roll[n]
    BY DEF Falling
  <2>2. CASE n = 1
    BY <1>1, <2>1, <2>2
  <2>3. CASE n # 1
    <3>1. n - 1 \in 1..(Len(roll) - 1) /\ (n - 1) + 1 = n
      BY <1>1, <2>3
    <3>. QED
      BY <1>1, <2>1, <3>1 DEF Falling
  <2>. QED
    BY <2>2, <2>3
<1>3. ASSUME NEW b \in Head(roll) \cup Falling(Tail(roll)) PROVE b \in Falling(roll)
  <2>1. CASE b \in Head(roll)
    BY <1>1, <2>1 DEF Falling
  <2>2. CASE b \in Falling(Tail(roll))
    <3>1. PICK n \in DOMAIN Tail(roll) : b \in Tail(roll)[n]
      BY <2>2 DEF Falling
    <3>2. n + 1 \in DOMAIN roll /\ b \in roll[n + 1]
      BY <1>1, <3>1
    <3>. QED
      BY <3>2 DEF Falling
  <2>. QED
    BY <1>3, <2>1, <2>2
<1>. QED
  BY <1>2, <1>3

LEMMA FallingEmpty == Falling(<<>>) = {}
BY DEF Falling

LEMMA ShotFallsTail ==
  ASSUME NEW queue \in Seq(Packets), queue # <<>>
  PROVE  ShotFalls(queue)
           = (IF Head(queue) \in Shots THEN Falling(Head(queue).roll) ELSE {})
               \cup ShotFalls(Tail(queue))
<1>. DEFINE first == IF Head(queue) \in Shots THEN Falling(Head(queue).roll) ELSE {}
<1>1. /\ Len(queue) \in Nat \ {0} /\ DOMAIN queue = 1..Len(queue)
      /\ DOMAIN Tail(queue) = 1..(Len(queue) - 1)
      /\ \A n \in 1..(Len(queue) - 1) : Tail(queue)[n] = queue[n + 1]
      /\ Head(queue) = queue[1]
  BY HeadTailProperties, LenProperties, EmptySeq
<1>2. ASSUME NEW b \in ShotFalls(queue) PROVE b \in first \cup ShotFalls(Tail(queue))
  <2>1. PICK n \in DOMAIN queue : queue[n] \in Shots /\ b \in Falling(queue[n].roll)
    BY DEF ShotFalls
  <2>2. CASE n = 1
    BY <1>1, <2>1, <2>2
  <2>3. CASE n # 1
    <3>1. n - 1 \in DOMAIN Tail(queue) /\ Tail(queue)[n - 1] = queue[n]
      BY <1>1, <2>3
    <3>. QED
      BY <2>1, <3>1 DEF ShotFalls
  <2>. QED
    BY <2>2, <2>3
<1>3. ASSUME NEW b \in first \cup ShotFalls(Tail(queue)) PROVE b \in ShotFalls(queue)
  <2>1. CASE b \in first
    BY <1>1, <2>1 DEF ShotFalls
  <2>2. CASE b \in ShotFalls(Tail(queue))
    <3>1. PICK n \in DOMAIN Tail(queue) :
            Tail(queue)[n] \in Shots /\ b \in Falling(Tail(queue)[n].roll)
      BY <2>2 DEF ShotFalls
    <3>2. n + 1 \in DOMAIN queue /\ queue[n + 1] = Tail(queue)[n]
      BY <1>1, <3>1
    <3>. QED
      BY <3>1, <3>2 DEF ShotFalls
  <2>. QED
    BY <1>3, <2>1, <2>2
<1>. QED
  BY <1>2, <1>3

LEMMA ShotFallsConcat ==
  ASSUME NEW s \in Seq(Packets), NEW t \in Seq(Packets)
  PROVE  ShotFalls(s \o t) = ShotFalls(s) \cup ShotFalls(t)
<1>1. /\ Len(s) \in Nat /\ Len(t) \in Nat
      /\ DOMAIN s = 1..Len(s) /\ DOMAIN t = 1..Len(t)
      /\ DOMAIN (s \o t) = 1..(Len(s) + Len(t))
      /\ \A n \in 1..Len(s) + Len(t) :
           (s \o t)[n] = IF n <= Len(s) THEN s[n] ELSE t[n - Len(s)]
  BY ConcatProperties, LenProperties
<1>2. ASSUME NEW b \in ShotFalls(s \o t) PROVE b \in ShotFalls(s) \cup ShotFalls(t)
  <2>1. PICK n \in DOMAIN (s \o t) : (s \o t)[n] \in Shots /\ b \in Falling((s \o t)[n].roll)
    BY DEF ShotFalls
  <2>2. CASE n <= Len(s)
    <3>1. n \in DOMAIN s /\ (s \o t)[n] = s[n]
      BY <1>1, <2>2
    <3>. QED
      BY <2>1, <3>1 DEF ShotFalls
  <2>3. CASE ~(n <= Len(s))
    <3>1. n - Len(s) \in DOMAIN t /\ (s \o t)[n] = t[n - Len(s)]
      BY <1>1, <2>3
    <3>. QED
      BY <2>1, <3>1 DEF ShotFalls
  <2>. QED
    BY <2>2, <2>3
<1>3. ASSUME NEW b \in ShotFalls(s) PROVE b \in ShotFalls(s \o t)
  <2>1. PICK n \in DOMAIN s : s[n] \in Shots /\ b \in Falling(s[n].roll)
    BY <1>3 DEF ShotFalls
  <2>2. n \in DOMAIN (s \o t) /\ (s \o t)[n] = s[n]
    BY <1>1
  <2>. QED
    BY <2>1, <2>2 DEF ShotFalls
<1>4. ASSUME NEW b \in ShotFalls(t) PROVE b \in ShotFalls(s \o t)
  <2>1. PICK n \in DOMAIN t : t[n] \in Shots /\ b \in Falling(t[n].roll)
    BY <1>4 DEF ShotFalls
  <2>2. n + Len(s) \in DOMAIN (s \o t) /\ (s \o t)[n + Len(s)] = t[n]
    BY <1>1
  <2>. QED
    BY <2>1, <2>2 DEF ShotFalls
<1>. QED
  BY <1>2, <1>3, <1>4

-----------------------------------------------------------------------------
(* What is to become of a table: no step changes it, except for a shot that  *)
(* meets a table in motion and for the W key.                                *)

TableFate(g) == g.fallen \cup Falling(g.rolling)

LEMMA FrameFate ==
  ASSUME TypeOK, NEW p \in Player, NEW g \in Game, Update(p, g)
  PROVE  TableFate(game'[p]) = TableFate(g)
<1>1. CASE Still(p, g)
  BY <1>1 DEF Still
<1>2. ASSUME NEW mouse \in Mouse, NEW roll \in Rolls,
             Frame(p, g, UpdateGame(g, mouse, p), roll)
      PROVE  TableFate(game'[p]) = TableFate(g)
  <2>1. PICK frame : frame = UpdateGame(g, mouse, p)
    OBVIOUS
  <2>2. TableAfter(g, frame)
    BY <2>1, UpdateGameFacts
  <2>3. game'[p].fallen = WorldUpdate(g).fallen /\ game'[p].rolling = WorldUpdate(g).rolling
    BY <1>2, <2>1, <2>2 DEF Frame, TableAfter
  <2>4. /\ WorldUpdate(g).fallen
             = IF MustUpdatePhysics(g) THEN g.fallen \cup Head(g.rolling) ELSE g.fallen
        /\ WorldUpdate(g).rolling
             = IF MustUpdatePhysics(g) THEN Tail(g.rolling) ELSE <<>>
    BY WorldUpdateFacts
  <2>5. g.rolling # <<>> => Falling(g.rolling) = Head(g.rolling) \cup Falling(Tail(g.rolling))
    BY FallingHeadTail DEF Game
  <2>. QED
    BY <2>3, <2>4, <2>5 DEF TableFate, MustUpdatePhysics
<1>. QED
  BY <1>1, <1>2, UpdateCases

LEMMA HandledFate ==
  ASSUME TypeOK, TurnInv, NEW p \in Player, down[p] # <<>>,
         NEW g \in Game, Handled(p, Head(down[p]), g), g.playing, ~diverged',
         Head(down[p]) \in Shots /\ game[p].playing => ~MustUpdatePhysics(game[p])
  PROVE  TableFate(g) \cup ShotFalls(Tail(down[p])) = Fate(p)
<1>. DEFINE packet == Head(down[p])
<1>1. game[p] \in Game /\ down[p] \in Seq(Packets) /\ packet \in Packets
  BY HeadOfPackets DEF TypeOK
<1>2. ShotFalls(down[p]) = (IF packet \in Shots THEN Falling(packet.roll) ELSE {})
                             \cup ShotFalls(Tail(down[p]))
  BY <1>1, ShotFallsTail
<1>3. Fate(p) = TableFate(game[p]) \cup ShotFalls(down[p])
  BY DEF Fate, TableFate
<1>. HIDE DEF packet
<1>4. packet = Signal("startGame") => packet \notin Shots
  BY SignalOrShot, PacketTypes
<1>5. CASE packet = Signal("startGame") /\ g = InitGame(game[p])
  <2>1. game[p] = NewGame(p)
    <3>1. 1 \in DOMAIN down[p] /\ Head(down[p]) = down[p][1]
      BY <1>1, HeadTailProperties, LenProperties, EmptySeq
    <3>2. Joining(p)
      BY <1>5, <3>1 DEF Joining, packet
    <3>. QED
      BY <3>2, NotJoining
  <2>2. /\ game[p].fallen = {} /\ game[p].rolling = <<>>
        /\ g.fallen = {} /\ g.rolling = game[p].rolling
    BY <1>1, <1>5, <2>1 DEF NewGame, InitGame, Game
  <2>. QED
    BY <1>2, <1>3, <1>4, <1>5, <2>2 DEF TableFate
<1>6. CASE /\ packet \in Signals \ {Signal("startGame")} /\ game[p].playing
           /\ g = OnSignal(game[p], packet.type)
  <2>1. g.fallen = game[p].fallen /\ g.rolling = game[p].rolling
    BY <1>1, <1>6 DEF OnSignal, Game
  <2>2. packet \notin Shots
    BY <1>6, SignalOrShot
  <2>. QED
    BY <1>2, <1>3, <2>1, <2>2 DEF TableFate
<1>7. CASE /\ packet \in Shots /\ game[p].playing
           /\ \E roll \in Rolls :
                g = OnShot(game[p], roll) /\ (diverged' \/ roll = packet.roll)
  <2>1. g = OnShot(game[p], packet.roll) /\ packet.roll \in Rolls
    BY <1>7
  <2>2. g.fallen = game[p].fallen /\ g.rolling = packet.roll /\ game[p].rolling = <<>>
    BY <1>1, <1>7, <2>1 DEF OnShot, Game, MustUpdatePhysics, packet
  <2>. QED
    BY <1>2, <1>3, <1>7, <2>2, FallingEmpty DEF TableFate
<1>8. CASE packet # Signal("startGame") /\ ~game[p].playing /\ g = game[p]
  BY <1>8
<1>. QED
  BY <1>5, <1>6, <1>7, <1>8 DEF Handled, packet

LEMMA FateIs ==
  \A p \in Player : Fate(p) = TableFate(game[p]) \cup ShotFalls(down[p])
BY DEF Fate, TableFate

LEMMA ReceiveKeepsFate ==
  ASSUME TypeOK, TurnInv, NEW p \in Player, FrameReceive(p), InGame(p)', ~diverged'
  PROVE  InGame(p) /\ ~diverged /\ Fate(p)' = Fate(p)
<1>. DEFINE packet == Head(down[p])
<1>1. /\ down[p] # <<>> /\ down' = [down EXCEPT ![p] = Tail(@)]
      /\ \E g \in Game : Update(p, g) /\ Handled(p, packet, g)
      /\ diverged' = (diverged \/ (/\ packet \in Shots /\ game[p].playing
                                   /\ MustUpdatePhysics(game[p])))
  BY ReceiveCases
<1>2. PICK g \in Game : Update(p, g) /\ Handled(p, packet, g)
  BY <1>1
<1>3. down'[p] = Tail(down[p]) /\ down[p] \in Seq(Packets)
  BY <1>1 DEF TypeOK
<1>4. ~Joining(p)'
  BY <1>1, <1>3, NotJoining DEF Joining
<1>5. g.playing = (game[p].playing \/ packet = Signal("startGame"))
  BY <1>1, <1>2, HandledTurn
<1>6. game'[p].playing <=> g.playing
  BY <1>2, FrameOfTurn DEF FrameTurns
<1>7. g.playing
  BY <1>4, <1>6 DEF InGame
<1>8. ~diverged /\ (packet \in Shots /\ game[p].playing => ~MustUpdatePhysics(game[p]))
  BY <1>1
<1>9. TableFate(g) \cup ShotFalls(Tail(down[p])) = Fate(p)
  BY <1>1, <1>2, <1>7, <1>8, HandledFate
<1>10. TableFate(game'[p]) = TableFate(g)
  BY <1>2, FrameFate
<1>11. InGame(p)
  <2>1. 1 \in DOMAIN down[p] /\ Head(down[p]) = down[p][1]
    BY <1>1, <1>3, HeadTailProperties, LenProperties, EmptySeq
  <2>. QED
    BY <1>5, <1>7, <2>1 DEF InGame, Joining
<1>12. Fate(p)' = TableFate(game'[p]) \cup ShotFalls(down'[p])
  BY DEF Fate, TableFate
<1>. QED
  BY <1>3, <1>8, <1>9, <1>10, <1>11, <1>12

LEMMA IdleKeepsFate ==
  ASSUME TypeOK, NEW p \in Player, FrameIdle(p)
  PROVE  (InGame(p)' => InGame(p)) /\ Fate(p)' = Fate(p)
<1>1. game[p] \in Game /\ Update(p, game[p]) /\ down' = down
  BY DEF FrameIdle, TypeOK
<1>2. game'[p].playing <=> game[p].playing
  BY <1>1, FrameOfTurn DEF FrameTurns
<1>3. TableFate(game'[p]) = TableFate(game[p])
  BY <1>1, FrameFate
<1>. QED
  BY <1>1, <1>2, <1>3 DEF InGame, Joining, Fate, TableFate

(* The server sends the same shots to both.                                  *)
LEMMA ServeKeepsFates ==
  ASSUME TypeOK, TurnInv, NEW p \in Player, Serve(p)
  PROVE  \E falls : \A r \in Player :
           Fate(r)' = Fate(r) \cup falls /\ (InGame(r)' => InGame(r))
<1>1. UNCHANGED <<game, diverged>> /\ Other(p) \in Player
  BY ServeCases DEF Player, Other
<1>2. \A r \in Player : InGame(r)' => InGame(r)
  <2>1. \A r \in Player : Joining(r)' => Joining(r)
    BY <1>1, ServeAppends, JoinsFirstKept DEF TurnInv
  <2>. QED
    BY <1>1, <2>1 DEF InGame
<1>3. CASE ~lobby_open /\ UNCHANGED down
  <2>1. \A r \in Player : Fate(r)' = Fate(r) \cup {}
    BY <1>1, <1>3 DEF Fate
  <2>. QED
    BY <1>2, <2>1
<1>4. ASSUME NEW toSender \in Seq(Packets), NEW toOther \in Seq(Packets),
             Relayed(Head(up[p]), toSender, toOther),
             down'[p] = down[p] \o toSender, down'[Other(p)] = down[Other(p)] \o toOther
      PROVE  \E falls : \A r \in Player : Fate(r)' = Fate(r) \cup falls
  <2>1. ShotFalls(toSender) = ShotFalls(toOther)
    <3>1. \A type : Signal(type) \notin Shots
      BY DEF Signal, Shots
    <3>. QED
      BY <1>4, <3>1 DEF Relayed, ShotFalls
  <2>2. \A r \in Player : r = p \/ r = Other(p)
    BY DEF Player, Other
  <2>3. \A r \in Player : ShotFalls(down'[r]) = ShotFalls(down[r]) \cup ShotFalls(toOther)
    <3>. SUFFICES ASSUME NEW r \in Player
                  PROVE  ShotFalls(down'[r]) = ShotFalls(down[r]) \cup ShotFalls(toOther)
      OBVIOUS
    <3>1. down[r] \in Seq(Packets)
      BY DEF TypeOK
    <3>2. /\ ShotFalls(down[r] \o toSender) = ShotFalls(down[r]) \cup ShotFalls(toSender)
          /\ ShotFalls(down[r] \o toOther) = ShotFalls(down[r]) \cup ShotFalls(toOther)
      BY <3>1, ShotFallsConcat
    <3>. QED
      BY <1>4, <2>1, <2>2, <3>2
  <2>4. \A r \in Player : Fate(r)' = Fate(r) \cup ShotFalls(toOther)
    BY <1>1, <2>3 DEF Fate
  <2>. QED
    BY <2>4
<1>. QED
  BY <1>2, <1>3, <1>4, ServeCases

LEMMA SameTableNext ==
  TypeOK /\ TurnInv /\ SameTable /\ [Next]_vars => SameTable'
<1>. SUFFICES ASSUME TypeOK, TurnInv, SameTable, [Next]_vars, ~diverged',
                     \A p \in Player : InGame(p)'
              PROVE  (Fate(0) = Fate(1))'
  BY DEF SameTable
<1>1. Player = {0, 1}
  BY DEF Player
<1>2. \A p, r \in Player : r = p \/ r = Other(p)
  BY DEF Player, Other
<1>3. ASSUME NEW p \in Player, Fate(p)' = Fate(p), InGame(p), ~diverged,
             game'[Other(p)] = game[Other(p)], down'[Other(p)] = down[Other(p)]
      PROVE  (Fate(0) = Fate(1))'
  <2>1. Fate(Other(p))' = Fate(Other(p)) /\ InGame(Other(p))
    BY <1>1, <1>3 DEF Fate, InGame, Joining, Other
  <2>. QED
    BY <1>1, <1>2, <1>3, <2>1 DEF SameTable
<1>4. ASSUME NEW p \in Player, FrameReceive(p) PROVE (Fate(0) = Fate(1))'
  <2>1. InGame(p) /\ ~diverged /\ Fate(p)' = Fate(p)
    BY <1>4, ReceiveKeepsFate
  <2>2. game'[Other(p)] = game[Other(p)] /\ down'[Other(p)] = down[Other(p)]
    <3>1. Other(p) \in Player /\ Other(p) # p
      BY DEF Player, Other
    <3>. QED
      BY <1>4, <3>1, ReceiveCases, UpdateCases DEF TypeOK
  <2>. QED
    BY <1>3, <2>1, <2>2
<1>5. ASSUME NEW p \in Player, FrameIdle(p) PROVE (Fate(0) = Fate(1))'
  <2>1. /\ game[p] \in Game /\ Update(p, game[p])
        /\ UNCHANGED <<down, diverged>>
    BY <1>5 DEF FrameIdle, TypeOK
  <2>. QED
    BY <1>3, <1>5, <2>1, IdleKeepsFate, UpdateCases
<1>6. ASSUME NEW p \in Player, PressW(p) PROVE (Fate(0) = Fate(1))'
  BY <1>6 DEF PressW
<1>7. ASSUME NEW p \in Player, LeaveGame(p) PROVE (Fate(0) = Fate(1))'
  <2>1. ~game'[p].playing /\ down' = down /\ game[p].playing
    BY <1>7 DEF LeaveGame, TypeOK, Deinit, Game
  <2>2. ~Joining(p)'
    BY <2>1, PlayingHasJoined
  <2>. QED
    BY <2>1, <2>2 DEF InGame
<1>8. ASSUME NEW p \in Player, CloseWindow(p) PROVE (Fate(0) = Fate(1))'
  BY <1>8 DEF CloseWindow, SameTable, Fate, InGame, Joining
<1>9. ASSUME NEW p \in Player, Serve(p) PROVE (Fate(0) = Fate(1))'
  <2>1. PICK falls : \A r \in Player :
          Fate(r)' = Fate(r) \cup falls /\ (InGame(r)' => InGame(r))
    BY <1>9, ServeKeepsFates
  <2>2. ~diverged
    BY <1>9, ServeCases
  <2>. QED
    BY <1>1, <2>1, <2>2 DEF SameTable
<1>10. CASE UNCHANGED vars
  BY <1>10 DEF vars, SameTable, Fate, InGame, Joining
<1>. QED
  BY <1>4, <1>5, <1>6, <1>7, <1>8, <1>9, <1>10 DEF Next

(* Each client simulates the table alone; as long as no shot met a table in  *)
(* motion, the same balls are lost on both in the end.                       *)
THEOREM TablesAgree == Spec => []SameTable
<1>1. Init => SameTable
  <2>. SUFFICES ASSUME Init PROVE Fate(0) = Fate(1)
    BY DEF SameTable
  <2>1. \A p \in Player : ShotFalls(down[p]) = {}
    <3>1. \A type : Signal(type) \notin Shots
      BY DEF Signal, Shots
    <3>. QED
      BY <3>1 DEF Init, ShotFalls
  <2>. QED
    BY <2>1 DEF Init, NewGame, Fate, Player
<1>. QED
  BY <1>1, SameTableNext, TypeCorrect, TurnInvariant, PTL DEF Spec

-----------------------------------------------------------------------------
=============================================================================
