----------------------------- MODULE PoolProofs -----------------------------
(* Theorems about PoolSystem: types, and what holds of the clients, lobbies  *)
(* and packets over several games.                                           *)
EXTENDS PoolSystem, GameProofs, FiniteSetTheorems, WellFoundedInduction

-----------------------------------------------------------------------------
(* A frame of a client changes its game only, and what it sends is about it. *)

ClientPackets == [type : ClientTypes, of : GameNumbers]
PacketsOfServer == [type : ServerPackets, of : GameNumbers]
GamePackets(match) == [type : {"endGame", "cueBallVelocity", "newTurn"}, of : {match}]

LEMMA SendsPackets ==
  ASSUME NEW frame, NEW match
  PROVE  Sends(frame, Packet("endGame", match), Packet("cueBallVelocity", match),
               Packet("newTurn", match)) \in Seq(GamePackets(match))
<1>1. \A type \in {"endGame", "cueBallVelocity", "newTurn"} :
        Packet(type, match) \in GamePackets(match)
  BY DEF Packet, GamePackets
<1>2. /\ When(frame.claims, Packet("endGame", match)) \in Seq(GamePackets(match))
      /\ When(frame.shoots, Packet("cueBallVelocity", match)) \in Seq(GamePackets(match))
      /\ When(frame.passes, Packet("newTurn", match)) \in Seq(GamePackets(match))
  BY <1>1 DEF When
<1>. QED
  BY <1>2, ConcatProperties DEF Sends

(* The parts of a client that a frame leaves alone.                          *)
SameScreen(app, before) ==
  /\ app.open = before.open /\ app.identified = before.identified
  /\ app.gui = before.gui /\ app.player_index = before.player_index
  /\ app.tables = before.tables /\ app.match = before.match
  /\ InGame(app) = InGame(before)

LEMMA WithGame ==
  ASSUME NEW app \in Client, NEW g \in Game
  PROVE  /\ [app EXCEPT !.game = g] \in Client
         /\ [app EXCEPT !.game = g].game = g
         /\ g.playing = app.game.playing => SameScreen([app EXCEPT !.game = g], app)
BY DEF Client, SameScreen, InGame

(* The frame of a game under way: what it does to the turn, and its packets. *)
PlaysOn(app, after, sent) ==
  \E mouse \in Mouse : \E frame :
    /\ {frame.claims, frame.shoots, frame.passes} \subseteq BOOLEAN
    /\ TurnAfter(app.game, mouse, frame) /\ after.game = frame.game
    /\ sent = Sends(frame, Packet("endGame", app.match),
                    Packet("cueBallVelocity", app.match), Packet("newTurn", app.match))

(* What c is after a frame, and what it has sent.                            *)
FrameEffect(c, app, after, sent) ==
  /\ after \in Client /\ SameScreen(after, app)
  /\ client' = [client EXCEPT ![c] = after]
  /\ sent \in Seq(GamePackets(app.match))
  /\ up' = [up EXCEPT ![c] = @ \o sent]
  /\ shots' \in 0..ShotLimit
  /\ app.game.is_game_finished => after = app
  /\ ~InGame(app) \/ app.game.is_game_finished => after = app /\ sent = <<>>
  /\ InGame(app) /\ ~app.game.is_game_finished => PlaysOn(app, after, sent)

LEMMA FrameEffects ==
  ASSUME TypeOK, NEW c \in Conn, NEW app \in Client, Frame(c, app)
  PROVE  \E after, sent : FrameEffect(c, app, after, sent)
<1>1. CASE ~InGame(app) \/ app.game.is_game_finished
  <2>1. client' = [client EXCEPT ![c] = app] /\ up' = up /\ shots' = shots
    BY <1>1 DEF Frame, InGame
  <2>2. up' = [up EXCEPT ![c] = @ \o <<>>]
    <3>1. up[c] \o <<>> = up[c]
      BY ConcatEmptySeq DEF TypeOK
    <3>. QED
      BY <2>1, <3>1 DEF TypeOK
  <2>3. FrameEffect(c, app, app, <<>>)
    <3>1. <<>> \in Seq(GamePackets(app.match)) /\ SameScreen(app, app)
      BY DEF SameScreen
    <3>2. shots' \in 0..ShotLimit
      BY <2>1 DEF TypeOK
    <3>. QED
      BY <1>1, <2>1, <2>2, <3>1, <3>2 DEF FrameEffect
  <2>. QED
    BY <2>3
<1>2. CASE InGame(app) /\ ~app.game.is_game_finished
  <2>1. PICK mouse \in Mouse :
          LET frame == UpdateGame(app.game, mouse, app.player_index) IN
          /\ client' = [client EXCEPT ![c] = [app EXCEPT !.game = frame.game]]
          /\ frame.shoots => shots < ShotLimit
          /\ shots' = IF frame.shoots THEN shots + 1 ELSE shots
          /\ up' = [up EXCEPT ![c] =
                      @ \o Sends(frame, Packet("endGame", app.match),
                                 Packet("cueBallVelocity", app.match),
                                 Packet("newTurn", app.match))]
    BY <1>2 DEF Frame
  <2>. DEFINE frame == UpdateGame(app.game, mouse, app.player_index)
              sent == Sends(frame, Packet("endGame", app.match),
                            Packet("cueBallVelocity", app.match),
                            Packet("newTurn", app.match))
  <2>2. /\ frame.game \in Game /\ frame.game.playing = app.game.playing
        /\ {frame.claims, frame.shoots, frame.passes} \subseteq BOOLEAN
        /\ TurnAfter(app.game, mouse, frame)
    BY UpdateGameFacts DEF Client
  <2>3. shots' \in 0..ShotLimit
    BY <2>1, PoolAssumption DEF TypeOK
  <2>4. sent \in Seq(GamePackets(app.match))
    BY SendsPackets
  <2>5. /\ [app EXCEPT !.game = frame.game] \in Client
        /\ SameScreen([app EXCEPT !.game = frame.game], app)
    BY <2>2, WithGame
  <2>6. /\ client' = [client EXCEPT ![c] = [app EXCEPT !.game = frame.game]]
        /\ up' = [up EXCEPT ![c] = @ \o sent]
    BY <2>1
  <2>. DEFINE after == [app EXCEPT !.game = frame.game]
  <2>8. PlaysOn(app, after, sent)
    <3>1. sent = Sends(frame, Packet("endGame", app.match),
                       Packet("cueBallVelocity", app.match), Packet("newTurn", app.match))
      OBVIOUS
    <3>. HIDE DEF frame, sent
    <3>2. after.game = frame.game
      BY <2>2, WithGame
    <3>. HIDE DEF after
    <3>. QED
      BY <2>2, <3>1, <3>2 DEF PlaysOn
  <2>. HIDE DEF frame, sent
  <2>7. FrameEffect(c, app, after, sent)
    BY <1>2, <2>3, <2>4, <2>5, <2>6, <2>8 DEF FrameEffect
  <2>. QED
    BY <2>7
<1>. QED
  BY <1>1, <1>2

-----------------------------------------------------------------------------
(* The steps of the clients.                                                 *)

(* A packet of the game gives the turn, and nothing else takes it.           *)
TurnReceived(before, packet, app) ==
  /\ app.game.has_played = before.game.has_played
  /\ app.game.is_player_turn <=>
       before.game.is_player_turn \/ (InGame(before) /\ packet.type = "newTurn")

(* What a packet makes of a client, before the rest of the frame.            *)
Handles(before, packet, app) ==
  \/ packet.type = "joinLobby" /\ app = OnJoinLobby(before)
  \/ packet.type = "clientIdentification" /\ app = OnIdentification(before)
  \/ \E p \in Player : packet.type = Starts[p] /\ app = OnStartGame(before, p, packet.of)
  \/ /\ packet.type \in {"newTurn", "cueBallVelocity"} \cup Verdicts
     /\ SameScreen(app, before)
     /\ before.game.is_game_finished => app.game.is_game_finished
     /\ InGame(before) /\ packet.type \in Verdicts => app.game.is_game_finished
     /\ TurnReceived(before, packet, app)

LEMMA HeadAndTail ==
  ASSUME NEW S, NEW queue \in Seq(S), queue # <<>>
  PROVE  /\ 1 \in DOMAIN queue /\ Head(queue) = queue[1] /\ Head(queue) \in S
         /\ Tail(queue) \in Seq(S) /\ Len(queue) \in Nat \ {0}
         /\ DOMAIN queue = 1..Len(queue) /\ DOMAIN Tail(queue) = 1..(Len(queue) - 1)
         /\ \A n \in DOMAIN Tail(queue) : Tail(queue)[n] = queue[n + 1]
BY HeadTailProperties, LenProperties, EmptySeq

LEMMA ReceiveEffects ==
  ASSUME TypeOK, NEW c \in Conn, FrameReceive(c)
  PROVE  /\ client[c].open /\ down[c] # <<>>
         /\ down' = [down EXCEPT ![c] = Tail(@)]
         /\ UNCHANGED <<serverVars, plays, hasty>>
         /\ crossed' \in BOOLEAN
         /\ crossed' => crossed \/ /\ InGame(client[c])
                                   /\ Head(down[c]).of # client[c].match
                                   /\ Head(down[c]).type \in
                                        {"newTurn", "cueBallVelocity"} \cup Verdicts
         /\ \E app \in Client : /\ Handles(client[c], Head(down[c]), app)
                               /\ \E after, sent : FrameEffect(c, app, after, sent)
<1>. DEFINE packet == Head(down[c])
<1>1. /\ client[c].open /\ down[c] # <<>>
      /\ down' = [down EXCEPT ![c] = Tail(@)]
      /\ UNCHANGED <<serverVars, plays, hasty>>
      /\ ReceiveForScreen(c, packet) \/ ReceiveForGame(c, packet)
  BY DEF FrameReceive
<1>2. client[c] \in Client /\ packet \in PacketsOfServer
  <2>1. client[c] \in Client /\ down[c] \in Seq(PacketsOfServer)
    BY DEF TypeOK, PacketsOfServer
  <2>. QED
    BY <1>1, <2>1, HeadAndTail
<1>. HIDE DEF packet
<1>3. ASSUME NEW app \in Client, Handles(client[c], packet, app), Frame(c, app)
      PROVE  \E after, sent : FrameEffect(c, app, after, sent)
  BY <1>3, FrameEffects
<1>4. CASE ReceiveForScreen(c, packet)
  <2>1. crossed' = crossed
    BY <1>4 DEF ReceiveForScreen
  <2>2. \E app \in Client : Handles(client[c], packet, app) /\ Frame(c, app)
    <3>1. /\ OnJoinLobby(client[c]) \in Client
          /\ OnIdentification(client[c]) \in Client
          /\ \A p \in Player : OnStartGame(client[c], p, packet.of) \in Client
      <4>1. OnJoinLobby(client[c]) \in Client
        BY <1>2 DEF OnJoinLobby, Client, Screens
      <4>2. OnIdentification(client[c]) \in Client
        BY <1>2 DEF OnIdentification, Client, Screens, Game
      <4>3. ASSUME NEW p \in Player PROVE OnStartGame(client[c], p, packet.of) \in Client
        <5>1. InitGame(client[c].game) \in Game
          BY <1>2, InitGameType DEF Client
        <5>2. client[c].tables + 1 \in Nat /\ packet.of \in Nat
          BY <1>2 DEF Client, PacketsOfServer, GameNumbers
        <5>. QED
          BY <1>2, <5>1, <5>2 DEF OnStartGame, Client, Screens
      <4>. QED
        BY <4>1, <4>2, <4>3
    <3>2. CASE packet.type = "joinLobby" /\ Frame(c, OnJoinLobby(client[c]))
      BY <3>1, <3>2 DEF Handles
    <3>3. CASE packet.type = "clientIdentification" /\ Frame(c, OnIdentification(client[c]))
      BY <3>1, <3>3 DEF Handles
    <3>4. ASSUME NEW p \in Player, packet.type = Starts[p],
                 Frame(c, OnStartGame(client[c], p, packet.of))
          PROVE  \E app \in Client : Handles(client[c], packet, app) /\ Frame(c, app)
      BY <3>1, <3>4 DEF Handles
    <3>. QED
      BY <1>4, <3>2, <3>3, <3>4 DEF ReceiveForScreen
  <2>. QED
    BY <1>1, <1>3, <2>1, <2>2 DEF TypeOK, packet
<1>5. CASE ReceiveForGame(c, packet)
  <2>. DEFINE app == client[c]
  <2>1. /\ packet.type \in {"newTurn", "cueBallVelocity"} \cup Verdicts
        /\ crossed' = (crossed \/ (InGame(app) /\ packet.of # app.match))
    BY <1>5 DEF ReceiveForGame
  <2>2. crossed' \in BOOLEAN
    BY <2>1 DEF TypeOK
  <2>3. \E with \in Client : Handles(client[c], packet, with) /\ Frame(c, with)
    <3>1. app.game \in Game /\ SameScreen(app, app)
      BY <1>2 DEF Client, SameScreen
    <3>2. CASE ~InGame(app) /\ Frame(c, app)
      <4>1. TurnReceived(app, packet, app)
        BY <3>2 DEF TurnReceived
      <4>. QED
        BY <1>2, <2>1, <3>1, <3>2, <4>1 DEF Handles
    <3>3. ASSUME NEW g \in Game, Frame(c, [app EXCEPT !.game = g]),
                 g.playing = app.game.playing, InGame(app),
                 app.game.is_game_finished => g.is_game_finished,
                 packet.type \in Verdicts => g.is_game_finished,
                 g.has_played = app.game.has_played,
                 g.is_player_turn <=> app.game.is_player_turn \/ packet.type = "newTurn"
          PROVE  \E with \in Client : Handles(client[c], packet, with) /\ Frame(c, with)
      <4>1. /\ [app EXCEPT !.game = g] \in Client
            /\ [app EXCEPT !.game = g].game = g
            /\ SameScreen([app EXCEPT !.game = g], app)
        BY <1>2, <3>3, WithGame
      <4>2. TurnReceived(app, packet, [app EXCEPT !.game = g])
        BY <3>3, <4>1 DEF TurnReceived
      <4>. QED
        BY <2>1, <3>3, <4>1, <4>2 DEF Handles
    <3>4. ASSUME packet.type = "cueBallVelocity", InGame(app),
                 NEW roll \in RollsOn([app.game EXCEPT !.rolling = <<>>]),
                 Frame(c, [app EXCEPT !.game = OnShot(@, roll)])
          PROVE  \E with \in Client : Handles(client[c], packet, with) /\ Frame(c, with)
      <4>1. [app.game EXCEPT !.rolling = <<>>] \in Game
        <5>1. <<>> \in Rolls
          BY DEF Rolls
        <5>. QED
          BY <3>1, <5>1 DEF Game
      <4>2. roll \in Rolls
        BY <4>1, RollsOnType
      <4>3. OnShot(app.game, roll) \in Game
        BY <3>1, <4>2, OnShotType
      <4>4. /\ OnShot(app.game, roll).playing = app.game.playing
            /\ OnShot(app.game, roll).is_game_finished = app.game.is_game_finished
            /\ OnShot(app.game, roll).has_played = app.game.has_played
            /\ OnShot(app.game, roll).is_player_turn = app.game.is_player_turn
        BY <3>1 DEF OnShot, Game
      <4>5. packet.type \notin Verdicts
        BY <3>4 DEF Verdicts
      <4>6. Frame(c, [app EXCEPT !.game = OnShot(app.game, roll)])
        BY <3>4
      <4>. QED
        BY <3>3, <3>4, <4>3, <4>4, <4>5, <4>6
    <3>5. ASSUME NEW type, Frame(c, [app EXCEPT !.game = OnSignal(@, type)]), InGame(app),
                 packet.type \in Verdicts => type \in {"won", "lost"},
                 type = "newTurn" <=> packet.type = "newTurn"
          PROVE  \E with \in Client : Handles(client[c], packet, with) /\ Frame(c, with)
      <4>1. OnSignal(app.game, type) \in Game
        BY <3>1, OnSignalType
      <4>2. OnSignal(app.game, type).playing = app.game.playing
        BY <3>1 DEF OnSignal, Game
      <4>3. /\ packet.type \in Verdicts => OnSignal(app.game, type).is_game_finished
            /\ app.game.is_game_finished => OnSignal(app.game, type).is_game_finished
        BY <3>1, <3>5 DEF OnSignal, Game
      <4>5. /\ OnSignal(app.game, type).has_played = app.game.has_played
            /\ OnSignal(app.game, type).is_player_turn <=>
                 app.game.is_player_turn \/ packet.type = "newTurn"
        BY <3>1, <3>5 DEF OnSignal, Game
      <4>4. Frame(c, [app EXCEPT !.game = OnSignal(app.game, type)])
        BY <3>5
      <4>. QED
        BY <3>3, <3>5, <4>1, <4>2, <4>3, <4>4, <4>5
    <3>6. CASE /\ InGame(app) /\ packet.type = "newTurn"
               /\ Frame(c, [app EXCEPT !.game = OnSignal(@, "newTurn")])
      BY <3>5, <3>6 DEF Verdicts
    <3>7. CASE /\ InGame(app) /\ packet.type \in Verdicts
               /\ Frame(c, [app EXCEPT !.game =
                       OnSignal(@, IF packet.type = "endGameWon" THEN "won" ELSE "lost")])
      BY <3>5, <3>7 DEF Verdicts
    <3>. QED
      BY <1>5, <3>2, <3>4, <3>6, <3>7 DEF ReceiveForGame
  <2>. QED
    BY <1>1, <1>3, <2>1, <2>2, <2>3 DEF packet
<1>. QED
  BY <1>1, <1>4, <1>5

-----------------------------------------------------------------------------
(* The steps of the server.  What a client gets of a handler are the packets *)
(* of the calls that reach it, in their order.                               *)

(* The sequence lists the calls up to the i-th that count, as packets.       *)
Lists(queue, counts, packets, i, from) ==
  /\ from \in [DOMAIN queue -> 1..i]
  /\ \A m, n \in DOMAIN queue : m < n => from[m] < from[n]
  /\ \A n \in DOMAIN queue : counts[from[n]] /\ queue[n] = packets[from[n]]
  /\ \A j \in 1..i : counts[j] => \E n \in DOMAIN queue : from[n] = j

LEMMA ListsNext ==
  ASSUME NEW S, NEW queue \in Seq(S), NEW counts, NEW packets, NEW i \in Nat, NEW from,
         Lists(queue, counts, packets, i, from),
         counts[i + 1] \in BOOLEAN, counts[i + 1] => packets[i + 1] \in S
  PROVE  /\ queue \o When(counts[i + 1], packets[i + 1]) \in Seq(S)
         /\ \E to : Lists(queue \o When(counts[i + 1], packets[i + 1]), counts, packets,
                          i + 1, to)
<1>1. CASE ~counts[i + 1]
  <2>1. queue \o When(counts[i + 1], packets[i + 1]) = queue
    BY <1>1, ConcatEmptySeq DEF When
  <2>2. Lists(queue, counts, packets, i + 1, from)
    BY <1>1 DEF Lists
  <2>. QED
    BY <2>1, <2>2
<1>2. CASE counts[i + 1]
  <2>. DEFINE longer == Append(queue, packets[i + 1])
              to == [n \in DOMAIN longer |-> IF n \in DOMAIN queue THEN from[n] ELSE i + 1]
  <2>1. queue \o When(counts[i + 1], packets[i + 1]) = longer
    BY <1>2, AppendIsConcat DEF When
  <2>2. /\ longer \in Seq(S) /\ Len(queue) \in Nat
        /\ DOMAIN queue = 1..Len(queue) /\ DOMAIN longer = 1..(Len(queue) + 1)
        /\ \A n \in DOMAIN queue : longer[n] = queue[n]
        /\ longer[Len(queue) + 1] = packets[i + 1]
    BY <1>2, AppendProperties, LenProperties
  <2>. HIDE DEF longer
  <2>3. /\ \A n \in DOMAIN queue : to[n] = from[n] /\ from[n] \in 1..i
        /\ to[Len(queue) + 1] = i + 1
    BY <2>2 DEF Lists
  <2>4. to \in [DOMAIN longer -> 1..(i + 1)]
    BY <2>2 DEF Lists
  <2>. HIDE DEF to
  <2>5. Lists(longer, counts, packets, i + 1, to)
    <3>1. ASSUME NEW m \in DOMAIN longer, NEW n \in DOMAIN longer, m < n
          PROVE  to[m] < to[n]
      BY <2>2, <2>3, <3>1 DEF Lists
    <3>2. ASSUME NEW n \in DOMAIN longer
          PROVE  counts[to[n]] /\ longer[n] = packets[to[n]]
      BY <1>2, <2>2, <2>3 DEF Lists
    <3>3. ASSUME NEW j \in 1..(i + 1), counts[j] PROVE \E n \in DOMAIN longer : to[n] = j
      <4>1. CASE j = i + 1
        BY <2>2, <2>3, <4>1
      <4>2. CASE j \in 1..i
        <5>1. PICK n \in DOMAIN queue : from[n] = j
          BY <3>3, <4>2 DEF Lists
        <5>. QED
          BY <2>2, <2>3, <5>1
      <4>. QED
        BY <4>1, <4>2
    <3>. QED
      BY <2>4, <3>1, <3>2, <3>3 DEF Lists
  <2>. QED
    BY <2>1, <2>2, <2>5
<1>. QED
  BY <1>1, <1>2

(* What a client gets of a handler that makes these calls.                   *)
Gets(q, calls, table, of, queue) ==
  /\ queue \in Seq(PacketsOfServer)
  /\ \E from : Lists(queue, [i \in 1..5 |-> SendsTo(q, calls, table, i)],
                     [i \in 1..5 |-> PacketOf(calls[i], of)], 5, from)

LEMMA GetsPackets ==
  ASSUME NEW q, NEW calls, NEW table, NEW of \in Nat,
         \A i \in DOMAIN calls :
           calls[i].op \in {"send", "sendToSeat"} => calls[i].type \in ServerPackets
  PROVE  Gets(q, calls, table, of, PacketsFor(q, calls, table, of))
<1>. DEFINE counts == [i \in 1..5 |-> SendsTo(q, calls, table, i)]
            packets == [i \in 1..5 |-> PacketOf(calls[i], of)]
            Nth(i) == When(counts[i], packets[i])
<1>1. ASSUME NEW i \in 1..5
      PROVE  /\ counts[i] \in BOOLEAN
             /\ counts[i] => packets[i] \in PacketsOfServer
  BY DEF SendsTo, Reaches, PacketOf, Packet, PacketsOfServer, GameNumbers
<1>2. PacketsFor(q, calls, table, of) = Nth(1) \o Nth(2) \o Nth(3) \o Nth(4) \o Nth(5)
  BY DEF PacketsFor
<1>. HIDE DEF counts, packets
<1>3. <<>> \in Seq(PacketsOfServer) /\ \E from : Lists(<<>>, counts, packets, 0, from)
  <2>1. Lists(<<>>, counts, packets, 0, <<>>)
    BY DEF Lists
  <2>. QED
    BY <2>1
<1>4. /\ Nth(1) \in Seq(PacketsOfServer)
      /\ \E from : Lists(Nth(1), counts, packets, 1, from)
  <2>1. /\ <<>> \o Nth(1) \in Seq(PacketsOfServer)
        /\ \E from : Lists(<<>> \o Nth(1), counts, packets, 0 + 1, from)
    <3>. DEFINE none == <<>>
    <3>1. counts[0 + 1] \in BOOLEAN /\ (counts[0 + 1] => packets[0 + 1] \in PacketsOfServer)
      BY <1>1
    <3>2. none \in Seq(PacketsOfServer) /\ \E from : Lists(none, counts, packets, 0, from)
      BY <1>3
    <3>. HIDE DEF none
    <3>3. /\ none \o When(counts[0 + 1], packets[0 + 1]) \in Seq(PacketsOfServer)
          /\ \E from : Lists(none \o When(counts[0 + 1], packets[0 + 1]), counts, packets,
                            0 + 1, from)
      BY <3>1, <3>2, ListsNext
    <3>. QED
      BY <3>3 DEF none
  <2>2. Nth(1) \in Seq(PacketsOfServer)
    BY <1>1 DEF When
  <2>3. <<>> \o Nth(1) = Nth(1)
    BY <2>2, ConcatEmptySeq
  <2>. QED
    BY <2>1, <2>2, <2>3
<1>. DEFINE n1 == Nth(1)
            n2 == n1 \o Nth(2)
            n3 == n2 \o Nth(3)
            n4 == n3 \o Nth(4)
            n5 == n4 \o Nth(5)
<1>5. n2 \in Seq(PacketsOfServer) /\ \E from : Lists(n2, counts, packets, 1 + 1, from)
  <2>. HIDE DEF n1
  <2>. QED
    BY <1>1, <1>4, ListsNext DEF n1
<1>6. n3 \in Seq(PacketsOfServer) /\ \E from : Lists(n3, counts, packets, 2 + 1, from)
  <2>. HIDE DEF n2
  <2>. QED
    BY <1>1, <1>5, ListsNext
<1>7. n4 \in Seq(PacketsOfServer) /\ \E from : Lists(n4, counts, packets, 3 + 1, from)
  <2>. HIDE DEF n3
  <2>. QED
    BY <1>1, <1>6, ListsNext
<1>8. n5 \in Seq(PacketsOfServer) /\ \E from : Lists(n5, counts, packets, 4 + 1, from)
  <2>. HIDE DEF n4
  <2>. QED
    BY <1>1, <1>7, ListsNext
<1>9. PacketsFor(q, calls, table, of) = n5
  BY <1>2
<1>. HIDE DEF n5
<1>. QED
  BY <1>8, <1>9 DEF Gets, counts, packets

LEMMA GetsOnly ==
  ASSUME NEW q, NEW calls, NEW table, NEW of, NEW queue, Gets(q, calls, table, of, queue)
  PROVE  /\ queue \in Seq(PacketsOfServer)
         /\ \A n \in DOMAIN queue : \E i \in DOMAIN calls :
               SendsTo(q, calls, table, i) /\ queue[n] = PacketOf(calls[i], of)
         /\ \A i \in 1..5 : SendsTo(q, calls, table, i) =>
               \E n \in DOMAIN queue : queue[n] = PacketOf(calls[i], of)
<1>. DEFINE counts == [i \in 1..5 |-> SendsTo(q, calls, table, i)]
            packets == [i \in 1..5 |-> PacketOf(calls[i], of)]
<1>1. PICK from : Lists(queue, counts, packets, 5, from)
  BY DEF Gets
<1>2. \A i \in 1..5 : counts[i] = SendsTo(q, calls, table, i)
                        /\ packets[i] = PacketOf(calls[i], of)
  OBVIOUS
<1>. HIDE DEF counts, packets
<1>3. ASSUME NEW n \in DOMAIN queue
      PROVE  \E i \in DOMAIN calls :
               SendsTo(q, calls, table, i) /\ queue[n] = PacketOf(calls[i], of)
  <2>1. from[n] \in 1..5 /\ counts[from[n]] /\ queue[n] = packets[from[n]]
    BY <1>1 DEF Lists
  <2>. QED
    BY <1>2, <2>1 DEF SendsTo, Reaches
<1>4. ASSUME NEW i \in 1..5, SendsTo(q, calls, table, i)
      PROVE  \E n \in DOMAIN queue : queue[n] = PacketOf(calls[i], of)
  <2>1. PICK n \in DOMAIN queue : from[n] = i
    BY <1>1, <1>2, <1>4 DEF Lists
  <2>. QED
    BY <1>1, <1>2, <2>1 DEF Lists
<1>. QED
  BY <1>3, <1>4 DEF Gets

LEMMA GetsInOrder ==
  ASSUME NEW q, NEW calls, NEW table, NEW of, NEW queue, Gets(q, calls, table, of, queue)
  PROVE  \E from :
           /\ \A m, n \in DOMAIN queue : m < n => from[m] < from[n]
           /\ \A n \in DOMAIN queue : /\ from[n] \in DOMAIN calls \cap 1..5
                                      /\ SendsTo(q, calls, table, from[n])
                                      /\ queue[n] = PacketOf(calls[from[n]], of)
<1>. DEFINE counts == [i \in 1..5 |-> SendsTo(q, calls, table, i)]
            packets == [i \in 1..5 |-> PacketOf(calls[i], of)]
<1>1. PICK from : Lists(queue, counts, packets, 5, from)
  BY DEF Gets
<1>2. \A i \in 1..5 : counts[i] = SendsTo(q, calls, table, i)
                        /\ packets[i] = PacketOf(calls[i], of)
  OBVIOUS
<1>. HIDE DEF counts, packets
<1>3. ASSUME NEW n \in DOMAIN queue
      PROVE  /\ from[n] \in DOMAIN calls \cap 1..5
             /\ SendsTo(q, calls, table, from[n])
             /\ queue[n] = PacketOf(calls[from[n]], of)
  <2>1. from[n] \in 1..5 /\ counts[from[n]] /\ queue[n] = packets[from[n]]
    BY <1>1 DEF Lists
  <2>. QED
    BY <1>2, <2>1 DEF SendsTo, Reaches
<1>4. \A m, n \in DOMAIN queue : m < n => from[m] < from[n]
  BY <1>1 DEF Lists
<1>. QED
  BY <1>3, <1>4

LEMMA SeatTypes ==
  ASSUME TypeOK, NEW k \in LobbyIds
  PROVE  /\ \A s \in Seats : lobbies[k][s].port \in Conn \cup {NoPort}
         /\ NoPort \notin Conn /\ lobbies[k] \in Lobby
         /\ IsComplete(lobbies[k]) <=> lobbies[k][1].port # NoPort /\ lobbies[k][2].port # NoPort
         /\ \A c : IsSeated(lobbies[k], c) <=>
                     lobbies[k][1].port = c \/ lobbies[k][2].port = c
<1>1. NoPort \notin Conn /\ Port = Conn
  BY NoPortAssumption, PoolAssumption
<1>2. lobbies[k] \in Lobby
  BY DEF TypeOK, ServerTypeOK
<1>3. \A s \in Seats : lobbies[k][s].port \in Conn \cup {NoPort}
  BY <1>1, <1>2 DEF Lobby, ClientData
<1>. QED
  BY <1>1, <1>2, <1>3 DEF IsComplete, IsSeated, Seats

(* Who sits opposite is somebody in a complete lobby.                        *)
LEMMA OppositeSits ==
  ASSUME TypeOK, NEW c \in Conn, NEW k \in LobbyIds,
         Opposite(lobbies[k], c).port # NoPort
  PROVE  /\ IsSeated(lobbies[k], c) /\ IsComplete(lobbies[k])
         /\ Opposite(lobbies[k], c).port \in Conn
         /\ IsSeated(lobbies[k], Opposite(lobbies[k], c).port)
         /\ \A q : IsSeated(lobbies[k], q) => q = c \/ q = Opposite(lobbies[k], c).port
<1>. DEFINE first == lobbies[k][1].port
            second == lobbies[k][2].port
<1>1. /\ first \in Conn \cup {NoPort} /\ second \in Conn \cup {NoPort}
      /\ IsComplete(lobbies[k]) <=> first # NoPort /\ second # NoPort
      /\ \A q : IsSeated(lobbies[k], q) <=> first = q \/ second = q
      /\ NoPort \notin Conn
  <2>1. 1 \in Seats /\ 2 \in Seats
    BY DEF Seats
  <2>. QED
    BY <2>1, SeatTypes
<1>2. Opposite(lobbies[k], c).port
        = IF first = c THEN second ELSE IF second = c THEN first ELSE NoPort
  BY DEF Opposite, NoClient
<1>. HIDE DEF first, second
<1>. QED
  BY <1>1, <1>2

LEMMA OpponentSits ==
  ASSUME TypeOK, NEW c \in Conn, FindClientOpponentInLobbies(c) # NoPort
  PROVE  \E k \in LobbyIds :
           /\ IsSeated(lobbies[k], c) /\ IsSeated(lobbies[k], FindClientOpponentInLobbies(c))
           /\ IsComplete(lobbies[k])
<1>. DEFINE k == CHOOSE k \in LobbyIds : IsFirstWith(k, c)
<1>1. \E j \in LobbyIds : IsFirstWith(j, c)
  BY DEF FindClientOpponentInLobbies
<1>2. k \in LobbyIds /\ FindClientOpponentInLobbies(c) = Opposite(lobbies[k], c).port
  BY <1>1 DEF FindClientOpponentInLobbies
<1>. HIDE DEF k
<1>. QED
  BY <1>2, OppositeSits

Delivered(got) ==
  down' = [q \in Conn |-> IF client[q].open THEN down[q] \o got[q] ELSE <<>>]
Quiet ==
  UNCHANGED <<lobbies, games, number, reopened>>

(* A shot is noted, the turn goes to the opponent once, if there is one.     *)
TurnRelayed(c, packet, got) ==
  /\ shooter' = IF packet.type = "newTurn" THEN shooter
                ELSE [k \in LobbyIds |-> IF IsFirstWith(k, c) THEN c ELSE shooter[k]]
  /\ \A q \in Conn : \A m, n \in DOMAIN got[q] : got[q][n].type = "newTurn" =>
       packet.type = "newTurn" /\ q = FindClientOpponentInLobbies(c) /\ m = n

(* A packet of the game goes to the players of the sender's table.           *)
Relays(c, packet, got) ==
  /\ packet.type \in {"newTurn", "cueBallVelocity"} /\ Quiet
  /\ shooter' \in [LobbyIds -> Conn \cup {Nobody}] /\ TurnRelayed(c, packet, got)
  /\ \A q \in Conn : \A n \in DOMAIN got[q] :
        /\ got[q][n].type \in {"newTurn", "cueBallVelocity"} /\ got[q][n].of = packet.of
        /\ \E k \in LobbyIds : /\ IsSeated(lobbies[k], c) /\ IsSeated(lobbies[k], q)
                               /\ IsComplete(lobbies[k])

LEMMA RelayEffects ==
  ASSUME TypeOK, NEW c \in Conn, NEW packet \in ClientPackets, NEW calls,
         \/ packet.type = "newTurn" /\ calls = OnNewTurn(c) /\ shooter' = shooter
         \/ packet.type = "cueBallVelocity" /\ calls = OnCueBallVelocity(c)
              /\ shooter' = [k \in LobbyIds |-> IF IsFirstWith(k, c) THEN c ELSE shooter[k]],
         Run(calls, lobbies, packet.of), Quiet
  PROVE  \E got \in [Conn -> Seq(PacketsOfServer)] :
           Delivered(got) /\ Relays(c, packet, got)
<1>. DEFINE other == FindClientOpponentInLobbies(c)
            got == [q \in Conn |-> PacketsFor(q, calls, lobbies, packet.of)]
<1>1. ASSUME NEW i \in DOMAIN calls
      PROVE  /\ calls[i].op = "send" /\ calls[i].type \in {"newTurn", "cueBallVelocity"}
             /\ calls[i].port \in {c, other} /\ other # NoPort
  BY DEF OnNewTurn, OnCueBallVelocity, Send
<1>2. packet.of \in Nat
  BY DEF ClientPackets, GameNumbers
<1>3. \A i \in DOMAIN calls :
        calls[i].op \in {"send", "sendToSeat"} => calls[i].type \in ServerPackets
  BY <1>1 DEF ServerPackets
<1>4. ASSUME NEW q \in Conn PROVE Gets(q, calls, lobbies, packet.of, got[q])
  BY <1>2, <1>3, GetsPackets
<1>5. Delivered(got)
  BY DEF Run, Delivered
<1>. HIDE DEF got
<1>6. got \in [Conn -> Seq(PacketsOfServer)]
  <2>1. got = [q \in Conn |-> got[q]]
    BY DEF got
  <2>2. \A q \in Conn : got[q] \in Seq(PacketsOfServer)
    BY <1>4, GetsOnly
  <2>. QED
    BY <2>1, <2>2
<1>7. ASSUME NEW q \in Conn, NEW n \in DOMAIN got[q]
      PROVE  /\ got[q][n].type \in {"newTurn", "cueBallVelocity"}
             /\ got[q][n].of = packet.of
             /\ \E k \in LobbyIds : /\ IsSeated(lobbies[k], c) /\ IsSeated(lobbies[k], q)
                                    /\ IsComplete(lobbies[k])
  <2>1. PICK i \in DOMAIN calls :
          SendsTo(q, calls, lobbies, i) /\ got[q][n] = PacketOf(calls[i], packet.of)
    BY <1>4, GetsOnly
  <2>2. q \in {c, other} /\ other # NoPort
    BY <1>1, <2>1 DEF SendsTo, PortOfCall
  <2>. QED
    BY <1>1, <2>1, <2>2, OpponentSits DEF PacketOf, Packet
<1>8. shooter' \in [LobbyIds -> Conn \cup {Nobody}]
  BY DEF TypeOK
<1>9. packet.type \in {"newTurn", "cueBallVelocity"}
  OBVIOUS
<1>10. TurnRelayed(c, packet, got)
  <2>1. ASSUME NEW q \in Conn, NEW m \in DOMAIN got[q], NEW n \in DOMAIN got[q],
               got[q][n].type = "newTurn"
        PROVE  packet.type = "newTurn" /\ q = other /\ m = n
    <3>1. PICK from :
            /\ \A i, j \in DOMAIN got[q] : i < j => from[i] < from[j]
            /\ \A i \in DOMAIN got[q] : /\ from[i] \in DOMAIN calls \cap 1..5
                                        /\ SendsTo(q, calls, lobbies, from[i])
                                        /\ got[q][i] = PacketOf(calls[from[i]], packet.of)
      BY <1>4, GetsInOrder
    <3>2. calls[from[n]].type = "newTurn"
      <4>1. \A call : PacketOf(call, packet.of).type = call.type
        BY DEF PacketOf, Packet
      <4>2. got[q][n] = PacketOf(calls[from[n]], packet.of)
        BY <3>1
      <4>. QED
        BY <2>1, <4>1, <4>2
    <3>3. packet.type = "newTurn" /\ calls = <<Send("newTurn", other)>>
      BY <3>1, <3>2 DEF OnNewTurn, OnCueBallVelocity, Send
    <3>4. from[m] = 1 /\ from[n] = 1 /\ calls[1] = Send("newTurn", other)
      BY <3>1, <3>3
    <3>5. q = other
      BY <3>1, <3>4 DEF SendsTo, PortOfCall, Send
    <3>6. m \in Nat /\ n \in Nat
      <4>1. got[q] \in Seq(PacketsOfServer)
        BY <1>6
      <4>. QED
        BY <4>1, LenProperties
    <3>7. ~(m < n) /\ ~(n < m)
      BY <3>1, <3>4
    <3>. QED
      BY <3>3, <3>5, <3>6, <3>7
  <2>2. shooter' = IF packet.type = "newTurn" THEN shooter
                   ELSE [k \in LobbyIds |-> IF IsFirstWith(k, c) THEN c ELSE shooter[k]]
    OBVIOUS
  <2>. QED
    BY <2>1, <2>2 DEF TurnRelayed
<1>. QED
  BY <1>5, <1>6, <1>7, <1>8, <1>9, <1>10 DEF Relays

(* A name is answered.                                                       *)
Identifies(c, packet, got) ==
  /\ packet.type = "clientIdentification" /\ Quiet /\ shooter' = shooter
  /\ \A q \in Conn : \A n \in DOMAIN got[q] :
        got[q][n].type = "clientIdentification" /\ q = c

LEMMA IdentifyEffects ==
  ASSUME NEW c \in Conn, NEW packet, packet.type = "clientIdentification",
         Run(<<Send("clientIdentification", c)>>, lobbies, 0), Quiet, shooter' = shooter
  PROVE  \E got \in [Conn -> Seq(PacketsOfServer)] :
           Delivered(got) /\ Identifies(c, packet, got)
<1>. DEFINE calls == <<Send("clientIdentification", c)>>
            got == [q \in Conn |-> PacketsFor(q, calls, lobbies, 0)]
<1>1. ASSUME NEW i \in DOMAIN calls
      PROVE  /\ calls[i].op = "send" /\ calls[i].type = "clientIdentification"
             /\ calls[i].port = c
  BY DEF Send
<1>2. Delivered(got)
  BY DEF Run, Delivered
<1>. HIDE DEF calls
<1>3. \A i \in DOMAIN calls :
        calls[i].op \in {"send", "sendToSeat"} => calls[i].type \in ServerPackets
  BY <1>1 DEF ServerPackets
<1>4. ASSUME NEW q \in Conn PROVE Gets(q, calls, lobbies, 0, got[q])
  BY <1>3, GetsPackets
<1>. HIDE DEF got
<1>5. got \in [Conn -> Seq(PacketsOfServer)]
  <2>1. got = [q \in Conn |-> got[q]]
    BY DEF got
  <2>2. \A q \in Conn : got[q] \in Seq(PacketsOfServer)
    BY <1>4, GetsOnly
  <2>. QED
    BY <2>1, <2>2
<1>6. ASSUME NEW q \in Conn, NEW n \in DOMAIN got[q]
      PROVE  got[q][n].type = "clientIdentification" /\ q = c
  <2>1. PICK i \in DOMAIN calls :
          SendsTo(q, calls, lobbies, i) /\ got[q][n] = PacketOf(calls[i], 0)
    BY <1>4, GetsOnly
  <2>. QED
    BY <1>1, <2>1 DEF SendsTo, PortOfCall, PacketOf, Packet
<1>. QED
  BY <1>2, <1>5, <1>6 DEF Identifies

LEMMA SmallestOf ==
  ASSUME NEW S \in SUBSET Nat, S # {}
  PROVE  \E j \in S : \A i \in S : j <= i
<1>. DEFINE R == OpToRel(<, Nat)
<1>1. IsWellFoundedOn(R, Nat)
  BY NatLessThanWellFounded
<1>2. \A i, j \in Nat : <<i, j>> \in R <=> i < j
  BY DEF OpToRel
<1>. HIDE DEF R
<1>3. PICK j \in S : \A i \in S : <<i, j>> \notin R
  BY <1>1, WFMin
<1>4. ASSUME NEW i \in S PROVE j <= i
  <2>1. ~(i < j) /\ i \in Nat /\ j \in Nat
    BY <1>2, <1>3
  <2>. QED
    BY <2>1
<1>. QED
  BY <1>4

(* A game that ends frees its lobby; both players are told of it, but for    *)
(* one whose socket is gone.                                                 *)
EndsGame(c, packet, k, got) ==
  /\ packet.type \in {"endGame", "closed"}
  /\ IsSeated(lobbies[k], c) /\ IsComplete(lobbies[k])
  /\ lobbies' = [lobbies EXCEPT ![k] = EmptyLobby]
  /\ number' = [number EXCEPT ![k] = 0] /\ shooter' = [shooter EXCEPT ![k] = Nobody]
  /\ reopened' = (reopened \/ \E j \in LobbyIds : j > k /\ IsWaiting(j))
  /\ games' = games
  /\ \A q \in Conn : \A n \in DOMAIN got[q] :
        /\ got[q][n].type \in Verdicts /\ got[q][n].of = number[k]
        /\ IsSeated(lobbies[k], q)
  /\ (\A q \in gone : ~IsSeated(lobbies[k], q)) =>
        \A q \in Conn :
          IsSeated(lobbies[k], q) /\ (q # c \/ packet.type = "endGame") => EndsIn(got[q])
EndsNothing(c, packet, got) ==
  /\ packet.type \in {"endGame", "closed"} /\ Quiet /\ shooter' = shooter
  /\ \A k \in LobbyIds : IsComplete(lobbies[k]) => ~IsSeated(lobbies[k], c)
  /\ \A q \in Conn : got[q] = <<>>

(* The calls of the handler of the end of a game that k is the lobby of.     *)
EndCalls(c, packet, k, other) ==
  IF packet.type = "endGame"
  THEN <<UpdatePlayerElo(c), UpdatePlayerElo(other), Send("endGameWon", c),
         Send("endGameLost", other), ClearLobby(k)>>
  ELSE <<Send("endGameWon", other), UpdatePlayerElo(c), UpdatePlayerElo(other),
         ClearLobby(k)>>

LEMMA EndHandlers ==
  ASSUME TypeOK, NEW c \in Conn, NEW packet, NEW calls,
         \/ packet.type = "endGame" /\ calls = OnEndGame(c)
         \/ packet.type = "closed" /\ calls = OnClientDisconnection(c)
  PROVE  \/ /\ \A k \in LobbyIds : ~HasOpponent(k, c)
            /\ calls = <<>>
         \/ \E k \in LobbyIds :
              /\ HasOpponent(k, c)
              /\ calls = EndCalls(c, packet, k, Opposite(lobbies[k], c).port)
              /\ packet.type = "endGame" => IsFirstGameOf(k, c)
<1>1. CASE \E k \in LobbyIds : IsFirstGameOf(k, c)
  <2>. DEFINE k == CHOOSE k \in LobbyIds : IsFirstGameOf(k, c)
  <2>1. k \in LobbyIds /\ IsFirstGameOf(k, c)
    BY <1>1
  <2>2. calls = EndCalls(c, packet, k, Opposite(lobbies[k], c).port)
    BY <1>1 DEF OnEndGame, OnClientDisconnection, EndCalls
  <2>. HIDE DEF k
  <2>. QED
    BY <2>1, <2>2 DEF IsFirstGameOf
<1>2. CASE ~\E k \in LobbyIds : IsFirstGameOf(k, c)
  <2>1. calls = <<>>
    BY <1>2 DEF OnEndGame, OnClientDisconnection
  <2>2. ASSUME NEW k \in LobbyIds, HasOpponent(k, c) PROVE FALSE
    <3>. DEFINE with == {j \in LobbyIds : HasOpponent(j, c)}
    <3>1. with \subseteq Nat /\ with # {}
      BY <2>2 DEF LobbyIds
    <3>2. PICK j \in with : \A i \in with : j <= i
      <4>. HIDE DEF with
      <4>. QED
        BY <3>1, SmallestOf
    <3>3. IsFirstGameOf(j, c)
      BY <3>2 DEF IsFirstGameOf, LobbyIds
    <3>. QED
      BY <1>2, <3>3
  <2>. QED
    BY <2>1, <2>2
<1>. QED
  BY <1>1, <1>2

LEMMA ClearsOne ==
  ASSUME NEW c, NEW other, NEW packet, NEW k \in LobbyIds
  PROVE  Cleared(EndCalls(c, packet, k, other)) = {k}
<1>. DEFINE calls == EndCalls(c, packet, k, other)
<1>1. \E n \in DOMAIN calls : calls[n] = ClearLobby(k)
  <2>1. CASE packet.type = "endGame"
    <3>1. 5 \in DOMAIN calls /\ calls[5] = ClearLobby(k)
      BY <2>1 DEF EndCalls
    <3>. QED
      BY <3>1
  <2>2. CASE packet.type # "endGame"
    <3>1. 4 \in DOMAIN calls /\ calls[4] = ClearLobby(k)
      BY <2>2 DEF EndCalls
    <3>. QED
      BY <3>1
  <2>. QED
    BY <2>1, <2>2
<1>2. ASSUME NEW j \in LobbyIds, NEW n \in DOMAIN calls, calls[n] = ClearLobby(j)
      PROVE  j = k
  <2>1. calls[n].op = "clearLobby" /\ calls[n].lobby = j
    BY <1>2 DEF ClearLobby
  <2>2. calls[n].op = "clearLobby" => calls[n] = ClearLobby(k)
    BY <1>2 DEF EndCalls, UpdatePlayerElo, Send
  <2>. QED
    BY <2>1, <2>2 DEF ClearLobby
<1>. QED
  BY <1>1, <1>2 DEF Cleared

LEMMA EndEffects ==
  ASSUME TypeOK, NEW c \in Conn, NEW packet \in ClientPackets, NEW calls,
         \/ packet.type = "endGame" /\ calls = OnEndGame(c)
         \/ packet.type = "closed" /\ calls = OnClientDisconnection(c),
         RunEnding(calls, NumberOfEnding(calls))
  PROVE  \E got \in [Conn -> Seq(PacketsOfServer)] :
           /\ Delivered(got)
           /\ EndsNothing(c, packet, got) \/ \E k \in LobbyIds : EndsGame(c, packet, k, got)
<1>0. /\ lobbies \in [LobbyIds -> Lobby] /\ number \in [LobbyIds -> Nat]
      /\ shooter \in [LobbyIds -> Conn \cup {Nobody}] /\ packet.type \in {"endGame", "closed"}
  BY DEF TypeOK, ServerTypeOK, GameNumbers
<1>1. CASE /\ \A k \in LobbyIds : ~HasOpponent(k, c)
           /\ calls = <<>>
  <2>. DEFINE got == [q \in Conn |-> <<>>]
  <2>1. Cleared(calls) = {}
    BY <1>1 DEF Cleared
  <2>2. \A q : PacketsFor(q, calls, lobbies, NumberOfEnding(calls)) = <<>>
    <3>1. \A q, i : When(SendsTo(q, calls, lobbies, i),
                         PacketOf(calls[i], NumberOfEnding(calls))) = <<>>
      BY <1>1 DEF SendsTo, Reaches, When
    <3>2. <<>> \o <<>> = <<>>
      BY ConcatEmptySeq
    <3>. QED
      BY <3>1, <3>2 DEF PacketsFor
  <2>3. Delivered(got)
    <3>1. down' = [q \in Conn |->
                     IF client[q].open
                     THEN down[q] \o PacketsFor(q, calls, lobbies, NumberOfEnding(calls))
                     ELSE <<>>]
      BY DEF RunEnding, Run
    <3>. QED
      BY <2>2, <3>1 DEF Delivered
  <2>4. Quiet /\ shooter' = shooter
    <3>1. lobbies' = [k \in LobbyIds |-> lobbies[k]]
      BY <2>1 DEF RunEnding
    <3>2. number' = [k \in LobbyIds |-> number[k]]
      BY <2>1 DEF RunEnding
    <3>3. shooter' = [k \in LobbyIds |-> shooter[k]]
      BY <2>1 DEF RunEnding
    <3>4. games' = games /\ reopened' = (reopened \/ FALSE)
      BY <2>1 DEF RunEnding
    <3>5. reopened' = reopened
      BY <3>4 DEF TypeOK
    <3>. QED
      BY <1>0, <3>1, <3>2, <3>3, <3>4, <3>5 DEF Quiet
  <2>5. ASSUME NEW k \in LobbyIds, IsComplete(lobbies[k]), IsSeated(lobbies[k], c)
        PROVE  FALSE
    <3>1. Opposite(lobbies[k], c).port # NoPort
      BY <2>5, SeatTypes DEF Opposite
    <3>. QED
      BY <1>1, <3>1 DEF HasOpponent
  <2>6. got \in [Conn -> Seq(PacketsOfServer)]
    OBVIOUS
  <2>7. EndsNothing(c, packet, got)
    BY <1>0, <2>4, <2>5 DEF EndsNothing
  <2>. HIDE DEF got
  <2>. QED
    BY <2>3, <2>6, <2>7
<1>2. ASSUME NEW k \in LobbyIds, HasOpponent(k, c),
             calls = EndCalls(c, packet, k, Opposite(lobbies[k], c).port)
      PROVE  \E got \in [Conn -> Seq(PacketsOfServer)] :
               Delivered(got) /\ EndsGame(c, packet, k, got)
  <2>. DEFINE other == Opposite(lobbies[k], c).port
              of == number[k]
              got == [q \in Conn |-> PacketsFor(q, calls, lobbies, of)]
  <2>1. Cleared(calls) = {k}
    BY <1>2, ClearsOne
  <2>2. NumberOfEnding(calls) = of /\ of \in Nat
    BY <1>0, <2>1 DEF NumberOfEnding
  <2>3. /\ lobbies' = [lobbies EXCEPT ![k] = EmptyLobby]
        /\ number' = [number EXCEPT ![k] = 0] /\ shooter' = [shooter EXCEPT ![k] = Nobody]
        /\ games' = games
        /\ reopened' = (reopened \/ \E j \in LobbyIds : j > k /\ IsWaiting(j))
    <3>1. lobbies' = [j \in LobbyIds |-> IF j \in {k} THEN EmptyLobby ELSE lobbies[j]]
      BY <2>1 DEF RunEnding
    <3>2. number' = [j \in LobbyIds |-> IF j \in {k} THEN 0 ELSE number[j]]
      BY <2>1 DEF RunEnding
    <3>3. shooter' = [j \in LobbyIds |-> IF j \in {k} THEN Nobody ELSE shooter[j]]
      BY <2>1 DEF RunEnding
    <3>4. /\ games' = games
          /\ reopened' = (reopened \/ \E i \in {k}, j \in LobbyIds : j > i /\ IsWaiting(j))
      BY <2>1 DEF RunEnding
    <3>5. lobbies' = [lobbies EXCEPT ![k] = EmptyLobby]
      BY <1>0, <3>1
    <3>6. number' = [number EXCEPT ![k] = 0]
      BY <1>0, <3>2
    <3>7. shooter' = [shooter EXCEPT ![k] = Nobody]
      BY <1>0, <3>3
    <3>. QED
      BY <3>4, <3>5, <3>6, <3>7
  <2>4. Delivered(got)
    BY <2>2 DEF RunEnding, Run, Delivered
  <2>5. /\ other \in Conn /\ IsSeated(lobbies[k], c) /\ IsComplete(lobbies[k])
        /\ IsSeated(lobbies[k], other)
        /\ \A q : IsSeated(lobbies[k], q) => q = c \/ q = other
    BY <1>2, OppositeSits DEF HasOpponent
  <2>6. ASSUME NEW i \in DOMAIN calls, calls[i].op \in {"send", "sendToSeat"}
        PROVE  calls[i].op = "send" /\ calls[i].type \in Verdicts /\ calls[i].port \in {c, other}
    BY <1>2, <2>6 DEF EndCalls, Send, UpdatePlayerElo, ClearLobby, Verdicts
  <2>. HIDE DEF got, of
  <2>7. ASSUME NEW q \in Conn PROVE Gets(q, calls, lobbies, of, got[q])
    <3>1. \A i \in DOMAIN calls :
            calls[i].op \in {"send", "sendToSeat"} => calls[i].type \in ServerPackets
      BY <2>6 DEF ServerPackets
    <3>. QED
      BY <2>2, <3>1, GetsPackets DEF got
  <2>8. got \in [Conn -> Seq(PacketsOfServer)]
    <3>1. got = [q \in Conn |-> got[q]]
      BY DEF got
    <3>2. \A q \in Conn : got[q] \in Seq(PacketsOfServer)
      BY <2>7, GetsOnly
    <3>. QED
      BY <3>1, <3>2
  <2>9. ASSUME NEW q \in Conn, NEW n \in DOMAIN got[q]
        PROVE  got[q][n].type \in Verdicts /\ got[q][n].of = of /\ IsSeated(lobbies[k], q)
    <3>1. PICK i \in DOMAIN calls :
            SendsTo(q, calls, lobbies, i) /\ got[q][n] = PacketOf(calls[i], of)
      BY <2>7, GetsOnly
    <3>2. calls[i].op = "send" /\ calls[i].type \in Verdicts /\ q \in {c, other}
      BY <2>6, <3>1 DEF SendsTo, PortOfCall
    <3>. QED
      BY <2>5, <3>1, <3>2 DEF PacketOf, Packet, Verdicts
  <2>10. ASSUME \A q \in gone : ~IsSeated(lobbies[k], q), NEW q \in Conn,
                IsSeated(lobbies[k], q), q # c \/ packet.type = "endGame"
         PROVE  EndsIn(got[q])
    <3>1. c \notin gone /\ other \notin gone /\ NoPort \notin gone
      <4>1. gone \subseteq Conn
        BY DEF TypeOK
      <4>. QED
        BY <2>5, <2>10, <4>1, SeatTypes
    <3>2. \A i \in DOMAIN calls : PortOfCall(calls[i], lobbies) \notin gone
      <4>. HIDE DEF other
      <4>1. \A i \in DOMAIN calls : PortOfCall(calls[i], lobbies) \in {c, other, NoPort}
        <5>1. calls = EndCalls(c, packet, k, other)
          BY <1>2 DEF other
        <5>2. \A i \in DOMAIN calls :
                \/ calls[i].op \in {"send", "updatePlayerElo"} /\ calls[i].port \in {c, other}
                \/ calls[i].op = "clearLobby"
          BY <5>1 DEF EndCalls, Send, UpdatePlayerElo, ClearLobby
        <5>. QED
          BY <5>2 DEF PortOfCall
      <4>. QED
        BY <3>1, <4>1
    <3>3. \E i \in 1..4 : /\ i \in DOMAIN calls /\ 1..i \subseteq DOMAIN calls
                          /\ calls[i].op = "send" /\ calls[i].type \in Verdicts
                          /\ calls[i].port = q
      <4>. HIDE DEF other
      <4>1. CASE packet.type = "endGame" /\ q = c
        <5>1. /\ 3 \in DOMAIN calls /\ 1..3 \subseteq DOMAIN calls
              /\ calls[3].op = "send" /\ calls[3].type \in Verdicts /\ calls[3].port = q
          BY <1>2, <4>1 DEF EndCalls, Send, Verdicts
        <5>. QED
          BY <5>1
      <4>2. CASE packet.type = "endGame" /\ q = other
        <5>1. /\ 4 \in DOMAIN calls /\ 1..4 \subseteq DOMAIN calls
              /\ calls[4].op = "send" /\ calls[4].type \in Verdicts /\ calls[4].port = q
          BY <1>2, <4>2 DEF EndCalls, Send, Verdicts, other
        <5>. QED
          BY <5>1
      <4>3. CASE packet.type # "endGame" /\ q = other
        <5>1. /\ 1 \in DOMAIN calls /\ 1..1 \subseteq DOMAIN calls
              /\ calls[1].op = "send" /\ calls[1].type \in Verdicts /\ calls[1].port = q
          BY <1>2, <4>3 DEF EndCalls, Send, Verdicts, other
        <5>. QED
          BY <5>1
      <4>. QED
        BY <2>5, <2>10, <4>1, <4>2, <4>3
    <3>4. PICK i \in 1..4 : /\ i \in DOMAIN calls /\ 1..i \subseteq DOMAIN calls
                            /\ calls[i].op = "send" /\ calls[i].type \in Verdicts
                            /\ calls[i].port = q
      BY <3>3
    <3>5. SendsTo(q, calls, lobbies, i)
      BY <3>2, <3>4 DEF SendsTo, Reaches, PortOfCall
    <3>6. PICK n \in DOMAIN got[q] : got[q][n] = PacketOf(calls[i], of)
      BY <2>7, <3>5, GetsOnly
    <3>. QED
      BY <3>4, <3>6 DEF PacketOf, Packet, EndsIn
  <2>11. EndsGame(c, packet, k, got)
    BY <1>0, <2>3, <2>5, <2>9, <2>10 DEF EndsGame, of
  <2>. QED
    BY <2>4, <2>8, <2>11
<1>. QED
  BY <1>1, <1>2, EndHandlers

(* A player takes the free seat of the first lobby that has one; a game      *)
(* starts if that was the last.                                              *)
JoinIn(queue) == \E n \in DOMAIN queue : queue[n].type = "joinLobby"
IsStart(packet) == \E p \in Player : packet.type = Starts[p]

(* The turn goes to the player in the first seat, once.                      *)
TurnGiven(first, q, queue) ==
  \A m, n \in DOMAIN queue : queue[n].type = "newTurn" =>
    q = first /\ (queue[m].type = "newTurn" => m = n)

Joins(c, packet, k, s, got) ==
  /\ packet.type = "joinLobby" /\ IsFirstOpen(k) /\ lobbies[k][s].port = NoPort
  /\ lobbies' = [lobbies EXCEPT ![k] = [@ EXCEPT ![s] = [username |-> c, port |-> c]]]
  /\ games' \in Nat /\ games' = IF IsComplete(lobbies'[k]) THEN games + 1 ELSE games
  /\ \A q \in Conn : TurnGiven(lobbies'[k][1].port, q, got[q])
  /\ number' = [number EXCEPT ![k] = IF IsComplete(lobbies'[k]) THEN games' ELSE 0]
  /\ shooter' = shooter /\ reopened' = reopened
  /\ \A q \in Conn : \A n \in DOMAIN got[q] :
       \/ got[q][n].type = "joinLobby" /\ q = c
       \/ /\ IsStart(got[q][n]) \/ got[q][n].type = "newTurn"
          /\ IsSeated(lobbies'[k], q) /\ IsComplete(lobbies'[k])
          /\ got[q][n].of = number'[k]
  /\ \A q \in Conn : \A m, n \in DOMAIN got[q] : IsStart(got[q][n]) =>
       /\ got[q][m].type = "joinLobby" => m < n
       /\ IsStart(got[q][m]) /\ lobbies'[k][1].port # lobbies'[k][2].port => m = n
  /\ c \notin gone => JoinIn(got[c])
  /\ alive' => /\ c \notin gone
               /\ IsComplete(lobbies'[k]) => \A q \in Conn :
                    IsSeated(lobbies'[k], q) => q \notin gone /\ StartsIn(got[q])

LEMMA FreeSeat ==
  ASSUME TypeOK, NEW c \in Conn, NEW k \in LobbyIds, ~IsComplete(lobbies[k])
  PROVE  \E s \in Seats :
           /\ lobbies[k][s].port = NoPort
           /\ AddClient(lobbies[k], [username |-> c, port |-> c])
                = [lobbies[k] EXCEPT ![s] = [username |-> c, port |-> c]]
<1>1. lobbies[k][1].port = NoPort \/ lobbies[k][2].port = NoPort
  BY SeatTypes
<1>2. 1 \in Seats /\ 2 \in Seats
  BY DEF Seats
<1>. QED
  BY <1>1, <1>2 DEF AddClient

LEMMA OneAndMore ==
  ASSUME NEW a, NEW b, NEW c, NEW d, NEW whole, whole = <<a>> \o <<b, c, d>>
  PROVE  /\ DOMAIN whole = 1..4
         /\ whole[1] = a /\ whole[2] = b /\ whole[3] = c /\ whole[4] = d
<1>. DEFINE S == {a, b, c, d}
            more == <<b, c, d>>
            one == <<a>>
<1>1. /\ one \in Seq(S) /\ more \in Seq(S) /\ Len(one) = 1 /\ Len(more) = 3
      /\ one[1] = a /\ more[1] = b /\ more[2] = c /\ more[3] = d
  OBVIOUS
<1>2. whole = one \o more
  OBVIOUS
<1>. HIDE DEF one, more, S
<1>3. /\ whole \in Seq(S) /\ Len(whole) = 4
      /\ \A i \in 1..4 : whole[i] = IF i <= 1 THEN one[i] ELSE more[i - 1]
  <2>1. /\ one \o more \in Seq(S)
        /\ Len(one \o more) = Len(one) + Len(more)
        /\ \A i \in 1..(Len(one) + Len(more)) : (one \o more)[i]
              = IF i <= Len(one) THEN one[i] ELSE more[i - Len(one)]
    BY <1>1, ConcatProperties
  <2>2. whole \in Seq(S) /\ Len(whole) = Len(one) + Len(more)
    BY <1>2, <2>1
  <2>3. \A i \in 1..(Len(one) + Len(more)) : whole[i]
              = IF i <= Len(one) THEN one[i] ELSE more[i - Len(one)]
    BY <1>2, <2>1
  <2>. HIDE <1>2
  <2>. QED
    BY <1>1, <2>2, <2>3
<1>4. whole[1] = a /\ whole[2] = b /\ whole[3] = c /\ whole[4] = d
  BY <1>1, <1>3
<1>5. DOMAIN whole = 1..4
  BY <1>3, LenProperties
<1>. QED
  BY <1>4, <1>5

LEMMA JoinCalls ==
  ASSUME NEW c, NEW k,
         NEW calls, calls = <<Send("joinLobby", c)>> \o StartGame(k)'
  PROVE  /\ 1 \in DOMAIN calls /\ calls[1] = Send("joinLobby", c)
         /\ ~IsComplete(lobbies'[k]) => DOMAIN calls = 1..1
         /\ IsComplete(lobbies'[k]) =>
              /\ DOMAIN calls = 1..4
              /\ calls[2] = SendToSeat("startGame0", k, 1)
              /\ calls[3] = SendToSeat("startGame1", k, 2)
              /\ calls[4] = SendToSeat("newTurn", k, 1)
<1>1. CASE ~IsComplete(lobbies'[k])
  <2>1. calls = <<Send("joinLobby", c)>> \o <<>>
    BY <1>1 DEF StartGame
  <2>2. calls = <<Send("joinLobby", c)>>
    <3>. DEFINE first == Send("joinLobby", c)
    <3>1. calls = <<first>> \o <<>>
      BY <2>1
    <3>. HIDE DEF first
    <3>3. <<first>> \in Seq({first})
      OBVIOUS
    <3>2. calls = <<first>>
      BY <3>1, <3>3, ConcatEmptySeq
    <3>. QED
      BY <3>2 DEF first
  <2>. QED
    BY <1>1, <2>2
<1>2. CASE IsComplete(lobbies'[k])
  <2>1. calls = <<Send("joinLobby", c)>>
                  \o <<SendToSeat("startGame0", k, 1), SendToSeat("startGame1", k, 2),
                       SendToSeat("newTurn", k, 1)>>
    BY <1>2 DEF StartGame
  <2>2. /\ DOMAIN calls = 1..4 /\ calls[1] = Send("joinLobby", c)
        /\ calls[2] = SendToSeat("startGame0", k, 1)
        /\ calls[3] = SendToSeat("startGame1", k, 2)
        /\ calls[4] = SendToSeat("newTurn", k, 1)
    <3>. DEFINE first == Send("joinLobby", c)
                second == SendToSeat("startGame0", k, 1)
                third == SendToSeat("startGame1", k, 2)
                fourth == SendToSeat("newTurn", k, 1)
    <3>1. calls = <<first>> \o <<second, third, fourth>>
      BY <2>1
    <3>. HIDE DEF first, second, third, fourth
    <3>2. ASSUME NEW whole, whole = <<first>> \o <<second, third, fourth>>
          PROVE  /\ DOMAIN whole = 1..4 /\ whole[1] = first /\ whole[2] = second
                 /\ whole[3] = third /\ whole[4] = fourth
      BY <3>2, OneAndMore
    <3>3. /\ DOMAIN calls = 1..4 /\ calls[1] = first /\ calls[2] = second
          /\ calls[3] = third /\ calls[4] = fourth
      BY <3>1, <3>2
    <3>. QED
      BY <3>3 DEF first, second, third, fourth
  <2>. QED
    BY <1>2, <2>2
<1>. QED
  BY <1>1, <1>2

(* The calls of a join for c: the answer, and if the lobby is full then, the *)
(* start for the player in each seat and the turn for the first.             *)
JoinCallsFor(c, calls, table, full, first, second) ==
  /\ 1 \in DOMAIN calls /\ PortOfCall(calls[1], table) = c
  /\ calls[1].op = "send" /\ calls[1].type = "joinLobby"
  /\ ~full => DOMAIN calls = 1..1
  /\ full =>
       /\ DOMAIN calls = 1..4
       /\ PortOfCall(calls[2], table) = first /\ calls[2].op = "sendToSeat"
       /\ PortOfCall(calls[3], table) = second /\ calls[3].op = "sendToSeat"
       /\ PortOfCall(calls[4], table) = first /\ calls[4].op = "sendToSeat"
       /\ calls[2].type = "startGame0" /\ calls[3].type = "startGame1"
       /\ calls[4].type = "newTurn"

LEMMA StartPackets ==
  \A packet : IsStart(packet) <=> packet.type \in {"startGame0", "startGame1"}
<1>1. \A type : (\E p \in Player : type = Starts[p]) <=> type \in {"startGame0", "startGame1"}
  BY DEF Starts, Player
<1>. QED
  BY <1>1 DEF IsStart

(* What a player gets of a join for c.                                       *)
JoinGot(q, c, calls, table, full, first, second, of, queue) ==
  /\ \A n \in DOMAIN queue :
       \/ queue[n].type = "joinLobby" /\ q = c
       \/ /\ IsStart(queue[n]) \/ queue[n].type = "newTurn"
          /\ full /\ q \in {first, second} /\ queue[n].of = of
  /\ \A m, n \in DOMAIN queue : IsStart(queue[n]) =>
       /\ queue[m].type = "joinLobby" => m < n
       /\ IsStart(queue[m]) /\ first # second => m = n
  /\ TurnGiven(first, q, queue)
  /\ q = c /\ c \notin gone => JoinIn(queue)
  /\ (\A i \in DOMAIN calls : Reaches(calls, table, i)) =>
       /\ c \notin gone
       /\ full /\ q \in {first, second} => q \notin gone /\ StartsIn(queue)

LEMMA JoinGets ==
  ASSUME NEW c, NEW calls, NEW table, NEW full \in BOOLEAN, NEW first, NEW second,
         JoinCallsFor(c, calls, table, full, first, second),
         NEW of, NEW q, NEW queue, Gets(q, calls, table, of, queue)
  PROVE  JoinGot(q, c, calls, table, full, first, second, of, queue)
(* What comes of the i-th call.                                              *)
<1>1. ASSUME NEW i \in DOMAIN calls, SendsTo(q, calls, table, i)
      PROVE  \/ i = 1 /\ q = c /\ PacketOf(calls[i], of).type = "joinLobby"
             \/ /\ full /\ PacketOf(calls[i], of).of = of
                /\ \/ i = 2 /\ q = first /\ PacketOf(calls[i], of).type = "startGame0"
                   \/ i = 3 /\ q = second /\ PacketOf(calls[i], of).type = "startGame1"
                   \/ i = 4 /\ q = first /\ PacketOf(calls[i], of).type = "newTurn"
  <2>1. PortOfCall(calls[i], table) = q
    BY <1>1 DEF SendsTo
  <2>2. CASE i = 1
    BY <2>1, <2>2 DEF PacketOf, Packet, JoinCallsFor
  <2>3. CASE i # 1
    <3>1. full /\ i \in {2, 3, 4}
      BY <2>3 DEF JoinCallsFor
    <3>. QED
      BY <2>1, <3>1 DEF PacketOf, Packet, JoinCallsFor
  <2>. QED
    BY <2>2, <2>3
<1>2. PICK from :
         /\ \A i, j \in DOMAIN queue : i < j => from[i] < from[j]
         /\ \A i \in DOMAIN queue : /\ from[i] \in DOMAIN calls \cap 1..5
                                    /\ SendsTo(q, calls, table, from[i])
                                    /\ queue[i] = PacketOf(calls[from[i]], of)
  BY GetsInOrder
<1>3. /\ queue \in Seq(PacketsOfServer)
      /\ \A i \in 1..5 : SendsTo(q, calls, table, i) =>
            \E n \in DOMAIN queue : queue[n] = PacketOf(calls[i], of)
  BY GetsOnly
<1>4. ASSUME NEW n \in DOMAIN queue
      PROVE  \/ queue[n].type = "joinLobby" /\ q = c
             \/ /\ IsStart(queue[n]) \/ queue[n].type = "newTurn"
                /\ full /\ q \in {first, second} /\ queue[n].of = of
  BY <1>1, <1>2, StartPackets
<1>5. ASSUME NEW m \in DOMAIN queue, NEW n \in DOMAIN queue, IsStart(queue[n])
      PROVE  /\ queue[m].type = "joinLobby" => m < n
             /\ IsStart(queue[m]) /\ first # second => m = n
  <2>1. m \in Nat /\ n \in Nat /\ from[m] \in 1..5 /\ from[n] \in 1..5
    BY <1>2, <1>3, LenProperties
  <2>2. m < n \/ m = n \/ n < m
    BY <2>1
  <2>3. /\ from[m] < from[n] => m < n
        /\ from[m] = from[n] => m = n
    BY <1>2, <2>1, <2>2
  <2>4. from[n] \in {2, 3} /\ (from[n] = 2 => q = first) /\ (from[n] = 3 => q = second)
    BY <1>1, <1>2, <1>5, StartPackets
  <2>5. queue[m].type = "joinLobby" => from[m] = 1
    BY <1>1, <1>2
  <2>6. IsStart(queue[m]) =>
          from[m] \in {2, 3} /\ (from[m] = 2 => q = first) /\ (from[m] = 3 => q = second)
    BY <1>1, <1>2, StartPackets
  <2>. QED
    BY <2>3, <2>4, <2>5, <2>6
<1>6. ASSUME q = c, c \notin gone PROVE JoinIn(queue)
  <2>1. SendsTo(c, calls, table, 1)
    BY <1>6 DEF SendsTo, Reaches, JoinCallsFor
  <2>2. PICK n \in DOMAIN queue : queue[n] = PacketOf(calls[1], of)
    BY <1>3, <1>6, <2>1
  <2>. QED
    BY <2>2 DEF PacketOf, Packet, JoinIn, JoinCallsFor
<1>7. ASSUME \A i \in DOMAIN calls : Reaches(calls, table, i)
      PROVE  /\ c \notin gone
             /\ full /\ q \in {first, second} => q \notin gone /\ StartsIn(queue)
  <2>1. c \notin gone
    BY <1>7 DEF Reaches, JoinCallsFor
  <2>2. ASSUME full, q \in {first, second} PROVE q \notin gone /\ StartsIn(queue)
    <3>1. PICK i \in {2, 3} : PortOfCall(calls[i], table) = q
      BY <2>2 DEF JoinCallsFor
    <3>2. i \in DOMAIN calls /\ calls[i].op = "sendToSeat"
          /\ calls[i].type \in {"startGame0", "startGame1"}
      BY <2>2, <3>1 DEF JoinCallsFor
    <3>3. Reaches(calls, table, i) /\ i \in 1..i /\ i \in 1..5
      BY <1>7, <3>2
    <3>4. SendsTo(q, calls, table, i) /\ q \notin gone
      BY <3>1, <3>2, <3>3 DEF SendsTo, Reaches
    <3>5. PICK n \in DOMAIN queue : queue[n] = PacketOf(calls[i], of)
      BY <1>3, <3>3, <3>4
    <3>6. IsStart(queue[n])
      BY <3>2, <3>5, StartPackets DEF PacketOf, Packet
    <3>. QED
      BY <3>4, <3>6 DEF IsStart, StartsIn
  <2>. QED
    BY <2>1, <2>2
<1>8. TurnGiven(first, q, queue)
  <2>. SUFFICES ASSUME NEW m \in DOMAIN queue, NEW n \in DOMAIN queue,
                       queue[n].type = "newTurn"
                PROVE  q = first /\ (queue[m].type = "newTurn" => m = n)
    BY DEF TurnGiven
  <2>1. m \in Nat /\ n \in Nat /\ from[m] \in 1..5 /\ from[n] \in 1..5
    BY <1>2, <1>3, LenProperties
  <2>2. m < n \/ m = n \/ n < m
    BY <2>1
  <2>3. from[m] = from[n] => m = n
    BY <1>2, <2>1, <2>2
  <2>4. from[n] = 4 /\ q = first
    BY <1>1, <1>2
  <2>5. queue[m].type = "newTurn" => from[m] = 4
    BY <1>1, <1>2
  <2>. QED
    BY <2>3, <2>4, <2>5
<1>. QED
  BY <1>4, <1>5, <1>6, <1>7, <1>8 DEF JoinGot

LEMMA JoinCallsRead ==
  ASSUME NEW c, NEW k, NEW calls, NEW table, NEW full \in BOOLEAN,
         1 \in DOMAIN calls, calls[1] = Send("joinLobby", c),
         ~full => DOMAIN calls = 1..1,
         full => /\ DOMAIN calls = 1..4
                 /\ calls[2] = SendToSeat("startGame0", k, 1)
                 /\ calls[3] = SendToSeat("startGame1", k, 2)
                 /\ calls[4] = SendToSeat("newTurn", k, 1)
  PROVE  JoinCallsFor(c, calls, table, full, table[k][1].port, table[k][2].port)
<1>1. /\ PortOfCall(calls[1], table) = c
      /\ calls[1].op = "send" /\ calls[1].type = "joinLobby"
  BY DEF Send, PortOfCall
<1>2. ASSUME NEW n, NEW type, NEW s, calls[n] = SendToSeat(type, k, s)
      PROVE  /\ PortOfCall(calls[n], table) = table[k][s].port
             /\ calls[n].op = "sendToSeat" /\ calls[n].type = type
  BY <1>2 DEF SendToSeat, PortOfCall
<1>3. ASSUME full
      PROVE  /\ PortOfCall(calls[2], table) = table[k][1].port /\ calls[2].op = "sendToSeat"
             /\ PortOfCall(calls[3], table) = table[k][2].port /\ calls[3].op = "sendToSeat"
             /\ PortOfCall(calls[4], table) = table[k][1].port /\ calls[4].op = "sendToSeat"
             /\ calls[2].type = "startGame0" /\ calls[3].type = "startGame1"
             /\ calls[4].type = "newTurn"
  <2>1. /\ calls[2] = SendToSeat("startGame0", k, 1)
        /\ calls[3] = SendToSeat("startGame1", k, 2)
        /\ calls[4] = SendToSeat("newTurn", k, 1)
    BY <1>3
  <2>2. /\ PortOfCall(calls[2], table) = table[k][1].port
        /\ calls[2].op = "sendToSeat" /\ calls[2].type = "startGame0"
    BY <2>1, <1>2
  <2>3. /\ PortOfCall(calls[3], table) = table[k][2].port
        /\ calls[3].op = "sendToSeat" /\ calls[3].type = "startGame1"
    BY <2>1, <1>2
  <2>4. /\ PortOfCall(calls[4], table) = table[k][1].port
        /\ calls[4].op = "sendToSeat" /\ calls[4].type = "newTurn"
    BY <2>1, <1>2
  <2>. QED
    BY <2>2, <2>3, <2>4
<1>. QED
  BY <1>1, <1>3 DEF JoinCallsFor

LEMMA JoinEffects ==
  ASSUME TypeOK, games' \in Nat, NEW c \in Conn, NEW packet, packet.type = "joinLobby",
         NEW k \in LobbyIds, IsFirstOpen(k),
         games' = IF IsComplete(lobbies'[k]) THEN games + 1 ELSE games,
         lobbies' = [lobbies EXCEPT ![k] = AddClient(@, [username |-> c, port |-> c])],
         number' = [number EXCEPT ![k] = IF IsComplete(lobbies'[k]) THEN games' ELSE 0],
         Run(<<Send("joinLobby", c)>> \o StartGame(k)', lobbies', games'),
         UNCHANGED <<shooter, reopened>>
  PROVE  \E got \in [Conn -> Seq(PacketsOfServer)] :
           Delivered(got) /\ \E s \in Seats : Joins(c, packet, k, s, got)
<1>. SUFFICES ASSUME NEW table, table = lobbies', NEW of, of = games',
                     NEW calls, calls = <<Send("joinLobby", c)>> \o StartGame(k)'
              PROVE  \E got \in [Conn -> Seq(PacketsOfServer)] :
                       Delivered(got) /\ \E s \in Seats : Joins(c, packet, k, s, got)
  OBVIOUS
<1>. DEFINE got == [q \in Conn |-> PacketsFor(q, calls, table, of)]
            full == IsComplete(table[k])
            first == table[k][1].port
            second == table[k][2].port
<1>1. Delivered(got) /\ (alive' => \A i \in DOMAIN calls : Reaches(calls, table, i))
  BY DEF Run, Delivered
<1>2. JoinCallsFor(c, calls, table, full, first, second)
  <2>1. /\ 1 \in DOMAIN calls /\ calls[1] = Send("joinLobby", c)
        /\ ~full => DOMAIN calls = 1..1
        /\ full => /\ DOMAIN calls = 1..4
                   /\ calls[2] = SendToSeat("startGame0", k, 1)
                   /\ calls[3] = SendToSeat("startGame1", k, 2)
                   /\ calls[4] = SendToSeat("newTurn", k, 1)
    BY JoinCalls
  <2>2. full \in BOOLEAN
    BY DEF IsComplete
  <2>. HIDE DEF full
  <2>. QED
    BY <2>1, <2>2, JoinCallsRead
<1>3. /\ \A q : IsSeated(table[k], q) <=> first = q \/ second = q
      /\ full \in BOOLEAN
  BY DEF IsComplete, IsSeated, Seats
<1>4. of \in Nat
  OBVIOUS
<1>. HIDE DEF got, first, second, full
<1>5. ASSUME NEW q \in Conn PROVE Gets(q, calls, table, of, got[q])
  <2>1. \A i \in DOMAIN calls :
          calls[i].op \in {"send", "sendToSeat"} => calls[i].type \in ServerPackets
    <3>1. {"joinLobby", "startGame0", "startGame1", "newTurn"} \subseteq ServerPackets
      BY DEF ServerPackets
    <3>2. \A i \in DOMAIN calls : i = 1 \/ (i \in 1..4 /\ full)
      BY <1>2, <1>3 DEF JoinCallsFor
    <3>. QED
      BY <1>2, <3>1, <3>2 DEF JoinCallsFor
  <2>. QED
    BY <1>4, <2>1, GetsPackets DEF got
<1>6. got \in [Conn -> Seq(PacketsOfServer)]
  <2>1. got = [q \in Conn |-> got[q]]
    BY DEF got
  <2>2. \A q \in Conn : got[q] \in Seq(PacketsOfServer)
    BY <1>5, GetsOnly
  <2>. QED
    BY <2>1, <2>2
<1>7. ASSUME NEW q \in Conn
      PROVE  JoinGot(q, c, calls, table, full, first, second, of, got[q])
  BY <1>2, <1>3, <1>5, JoinGets
<1>8. PICK s \in Seats :
        /\ lobbies[k][s].port = NoPort
        /\ AddClient(lobbies[k], [username |-> c, port |-> c])
             = [lobbies[k] EXCEPT ![s] = [username |-> c, port |-> c]]
  BY FreeSeat DEF IsFirstOpen
<1>9. lobbies' = [lobbies EXCEPT ![k] = [@ EXCEPT ![s] = [username |-> c, port |-> c]]]
  BY <1>8
<1>10. number'[k] = IF full THEN of ELSE 0
  BY DEF TypeOK, full
<1>11. /\ (IsComplete(lobbies'[k]) <=> full) /\ lobbies'[k][1].port = first
       /\ lobbies'[k][2].port = second
       /\ \A q : IsSeated(lobbies'[k], q) <=> q \in {first, second}
  BY <1>3 DEF full, first, second
<1>12. Joins(c, packet, k, s, got)
  <2>1. \A q \in Conn : \A n \in DOMAIN got[q] :
          \/ got[q][n].type = "joinLobby" /\ q = c
          \/ /\ IsStart(got[q][n]) \/ got[q][n].type = "newTurn"
             /\ IsSeated(lobbies'[k], q) /\ IsComplete(lobbies'[k])
             /\ got[q][n].of = number'[k]
    BY <1>7, <1>10, <1>11 DEF JoinGot
  <2>2. \A q \in Conn : \A m, n \in DOMAIN got[q] : IsStart(got[q][n]) =>
          /\ got[q][m].type = "joinLobby" => m < n
          /\ IsStart(got[q][m]) /\ lobbies'[k][1].port # lobbies'[k][2].port => m = n
    BY <1>7, <1>11 DEF JoinGot
  <2>3. c \notin gone => JoinIn(got[c])
    BY <1>7 DEF JoinGot
  <2>4. alive' => /\ c \notin gone
                  /\ IsComplete(lobbies'[k]) => \A q \in Conn :
                       IsSeated(lobbies'[k], q) => q \notin gone /\ StartsIn(got[q])
    BY <1>1, <1>7, <1>11 DEF JoinGot
  <2>5. /\ games' \in Nat
        /\ number' = [number EXCEPT ![k] = IF IsComplete(lobbies'[k]) THEN games' ELSE 0]
    BY <1>4
  <2>6. \A q \in Conn : TurnGiven(lobbies'[k][1].port, q, got[q])
    BY <1>7, <1>11 DEF JoinGot
  <2>. QED
    BY <1>8, <1>9, <2>1, <2>2, <2>3, <2>4, <2>5, <2>6 DEF Joins
<1>. QED
  BY <1>1, <1>6, <1>12

(* What a step of the server does with a packet of c.                        *)
Served(c, packet, got) ==
  \/ Relays(c, packet, got) \/ Identifies(c, packet, got) \/ EndsNothing(c, packet, got)
  \/ \E k \in LobbyIds : EndsGame(c, packet, k, got)
  \/ \E k \in LobbyIds, s \in Seats : Joins(c, packet, k, s, got)

(* The process ends: nobody finds a seat.                                    *)
Overflows(packet) ==
  /\ packet.type = "joinLobby" /\ \A k \in LobbyIds : IsComplete(lobbies[k])
  /\ alive' = FALSE /\ down' = down /\ Quiet /\ shooter' = shooter

LEMMA ServeEffects ==
  ASSUME TypeOK, NEW c \in Conn, Serve(c)
  PROVE  /\ alive /\ up[c] # <<>> /\ alive' \in BOOLEAN
         /\ up' = [up EXCEPT ![c] = Tail(@)]
         /\ gone' = IF Head(up[c]).type = "closed" THEN gone \cup {c} ELSE gone
         /\ UNCHANGED <<is_database_connected, client, plays, shots, hasty>>
         /\ \/ Overflows(Head(up[c]))
            \/ \E got \in [Conn -> Seq(PacketsOfServer)] :
                 Delivered(got) /\ Served(c, Head(up[c]), got)
<1>. SUFFICES ASSUME NEW packet, packet = Head(up[c])
              PROVE  /\ alive /\ up[c] # <<>> /\ alive' \in BOOLEAN
                     /\ up' = [up EXCEPT ![c] = Tail(@)]
                     /\ gone' = IF packet.type = "closed" THEN gone \cup {c} ELSE gone
                     /\ UNCHANGED <<is_database_connected, client, plays, shots, hasty>>
                     /\ \/ Overflows(packet)
                        \/ \E got \in [Conn -> Seq(PacketsOfServer)] :
                             Delivered(got) /\ Served(c, packet, got)
  OBVIOUS
<1>1. /\ alive /\ up[c] # <<>>
      /\ up' = [up EXCEPT ![c] = Tail(@)]
      /\ gone' = IF packet.type = "closed" THEN gone \cup {c} ELSE gone
      /\ UNCHANGED <<is_database_connected, client, plays, shots, hasty>>
      /\ \/ packet.type = "joinLobby" /\ OnJoinPacket(c)
         \/ packet.type = "cueBallVelocity" /\ OnShotPacket(c, packet)
         \/ /\ packet.type = "newTurn" /\ Quiet /\ shooter' = shooter
            /\ Run(OnNewTurn(c), lobbies, packet.of)
         \/ /\ packet.type = "clientIdentification" /\ Quiet /\ shooter' = shooter
            /\ Run(<<Send("clientIdentification", c)>>, lobbies, 0)
         \/ /\ packet.type = "endGame"
            /\ RunEnding(OnEndGame(c), NumberOfEnding(OnEndGame(c)))
         \/ /\ packet.type = "closed"
            /\ RunEnding(OnClientDisconnection(c), NumberOfEnding(OnClientDisconnection(c)))
  BY DEF Serve, Quiet
<1>2. packet \in ClientPackets
  <2>1. up[c] \in Seq(ClientPackets)
    BY DEF TypeOK, ClientPackets
  <2>. QED
    BY <1>1, <2>1, HeadAndTail
<1>3. ASSUME NEW calls, NEW table, NEW of, Run(calls, table, of) PROVE alive' \in BOOLEAN
  BY <1>3 DEF Run
<1>4. ASSUME packet.type = "joinLobby", OnJoinPacket(c)
      PROVE  /\ alive' \in BOOLEAN
             /\ \/ Overflows(packet)
                \/ \E got \in [Conn -> Seq(PacketsOfServer)] :
                     Delivered(got) /\ Served(c, packet, got)
  <2>1. CASE /\ \A k \in LobbyIds : IsComplete(lobbies[k])
             /\ alive' = FALSE
             /\ UNCHANGED <<lobbies, down, games, number, shooter, reopened>>
    BY <1>4, <2>1 DEF Overflows, Quiet
  <2>2. ASSUME NEW k \in LobbyIds, IsFirstOpen(k),
               lobbies' = [lobbies EXCEPT ![k] = AddClient(@, [username |-> c, port |-> c])],
               games' = IF IsComplete(lobbies'[k]) THEN games + 1 ELSE games,
               number' = [number EXCEPT ![k] = IF IsComplete(lobbies'[k]) THEN games' ELSE 0],
               Run(<<Send("joinLobby", c)>> \o StartGame(k)', lobbies', games'),
               UNCHANGED <<shooter, reopened>>
        PROVE  /\ alive' \in BOOLEAN
               /\ \E got \in [Conn -> Seq(PacketsOfServer)] :
                    Delivered(got) /\ Served(c, packet, got)
    <3>1. games' \in Nat
      <4>1. games \in Nat
        BY DEF TypeOK, GameNumbers
      <4>. QED
        BY <2>2, <4>1
    <3>2. \E got \in [Conn -> Seq(PacketsOfServer)] :
            Delivered(got) /\ \E s \in Seats : Joins(c, packet, k, s, got)
      BY <1>4, <2>2, <3>1, JoinEffects
    <3>3. alive' \in BOOLEAN
      BY <2>2 DEF Run
    <3>. QED
      BY <3>2, <3>3 DEF Served
  <2>. QED
    BY <1>4, <2>1, <2>2 DEF OnJoinPacket
<1>5. ASSUME packet.type = "cueBallVelocity", OnShotPacket(c, packet)
      PROVE  /\ alive' \in BOOLEAN
             /\ \E got \in [Conn -> Seq(PacketsOfServer)] :
                  Delivered(got) /\ Served(c, packet, got)
  <2>1. /\ Run(OnCueBallVelocity(c), lobbies, packet.of) /\ Quiet
        /\ shooter' = [k \in LobbyIds |-> IF IsFirstWith(k, c) THEN c ELSE shooter[k]]
    BY <1>5 DEF OnShotPacket, Quiet
  <2>2. \E got \in [Conn -> Seq(PacketsOfServer)] : Delivered(got) /\ Relays(c, packet, got)
    BY <1>2, <1>5, <2>1, RelayEffects
  <2>. QED
    BY <1>3, <2>1, <2>2 DEF Served
<1>6. ASSUME packet.type = "newTurn", Quiet, shooter' = shooter,
             Run(OnNewTurn(c), lobbies, packet.of)
      PROVE  /\ alive' \in BOOLEAN
             /\ \E got \in [Conn -> Seq(PacketsOfServer)] :
                  Delivered(got) /\ Served(c, packet, got)
  <2>1. \E got \in [Conn -> Seq(PacketsOfServer)] : Delivered(got) /\ Relays(c, packet, got)
    BY <1>2, <1>6, RelayEffects
  <2>. QED
    BY <1>3, <1>6, <2>1 DEF Served
<1>7. ASSUME packet.type = "clientIdentification", Quiet, shooter' = shooter,
             Run(<<Send("clientIdentification", c)>>, lobbies, 0)
      PROVE  /\ alive' \in BOOLEAN
             /\ \E got \in [Conn -> Seq(PacketsOfServer)] :
                  Delivered(got) /\ Served(c, packet, got)
  <2>1. \E got \in [Conn -> Seq(PacketsOfServer)] :
          Delivered(got) /\ Identifies(c, packet, got)
    BY <1>7, IdentifyEffects
  <2>. QED
    BY <1>3, <1>7, <2>1 DEF Served
<1>8. ASSUME NEW calls, RunEnding(calls, NumberOfEnding(calls)),
             \/ packet.type = "endGame" /\ calls = OnEndGame(c)
             \/ packet.type = "closed" /\ calls = OnClientDisconnection(c)
      PROVE  /\ alive' \in BOOLEAN
             /\ \E got \in [Conn -> Seq(PacketsOfServer)] :
                  Delivered(got) /\ Served(c, packet, got)
  <2>1. \E got \in [Conn -> Seq(PacketsOfServer)] :
          /\ Delivered(got)
          /\ EndsNothing(c, packet, got) \/ \E k \in LobbyIds : EndsGame(c, packet, k, got)
    BY <1>2, <1>8, EndEffects
  <2>2. alive' \in BOOLEAN
    BY <1>8 DEF RunEnding, Run
  <2>. QED
    BY <2>1, <2>2 DEF Served
<1>. QED
  BY <1>1, <1>4, <1>5, <1>6, <1>7, <1>8

-----------------------------------------------------------------------------
(* Types.                                                                    *)

LEMMA FrameTypes ==
  ASSUME TypeOK, NEW c \in Conn, NEW app \in Client, NEW after, NEW sent,
         FrameEffect(c, app, after, sent)
  PROVE  /\ client' \in [Conn -> Client] /\ up' \in [Conn -> Seq(ClientPackets)]
         /\ shots' \in 0..ShotLimit /\ sent \in Seq(ClientPackets)
<1>1. GamePackets(app.match) \subseteq ClientPackets
  BY DEF GamePackets, ClientPackets, Client, ClientTypes, GameNumbers
<1>2. sent \in Seq(ClientPackets) /\ up[c] \in Seq(ClientPackets)
  <2>1. sent \in Seq(GamePackets(app.match)) /\ up[c] \in Seq(ClientPackets)
    BY DEF FrameEffect, TypeOK, ClientPackets
  <2>2. /\ sent \in [1..Len(sent) -> GamePackets(app.match)] /\ Len(sent) \in Nat
    BY <2>1, LenProperties, ElementOfSeq
  <2>3. sent \in [1..Len(sent) -> ClientPackets]
    BY <1>1, <2>2
  <2>. QED
    BY <2>1, <2>2, <2>3, SeqDef
<1>3. up[c] \o sent \in Seq(ClientPackets)
  BY <1>2, ConcatProperties
<1>4. up' \in [Conn -> Seq(ClientPackets)]
  BY <1>3 DEF FrameEffect, TypeOK, ClientPackets
<1>5. client' \in [Conn -> Client]
  BY DEF FrameEffect, TypeOK
<1>. QED
  BY <1>2, <1>4, <1>5 DEF FrameEffect

LEMMA ServedTypes ==
  ASSUME TypeOK, NEW c \in Conn, NEW packet, NEW got \in [Conn -> Seq(PacketsOfServer)],
         Served(c, packet, got), Delivered(got)
  PROVE  /\ lobbies' \in [LobbyIds -> Lobby] /\ down' \in [Conn -> Seq(PacketsOfServer)]
         /\ games' \in GameNumbers /\ number' \in [LobbyIds -> GameNumbers]
         /\ shooter' \in [LobbyIds -> Conn \cup {Nobody}] /\ reopened' \in BOOLEAN
<1>1. down' \in [Conn -> Seq(PacketsOfServer)]
  <2>1. \A q \in Conn : down[q] \in Seq(PacketsOfServer)
    BY DEF TypeOK, PacketsOfServer
  <2>2. \A q \in Conn : down[q] \o got[q] \in Seq(PacketsOfServer)
    BY <2>1, ConcatProperties
  <2>3. <<>> \in Seq(PacketsOfServer)
    OBVIOUS
  <2>. QED
    BY <2>1, <2>2, <2>3 DEF Delivered
<1>2. /\ lobbies \in [LobbyIds -> Lobby] /\ games \in Nat /\ number \in [LobbyIds -> Nat]
      /\ shooter \in [LobbyIds -> Conn \cup {Nobody}] /\ reopened \in BOOLEAN
      /\ GameNumbers = Nat
  BY DEF TypeOK, ServerTypeOK, GameNumbers
<1>3. CASE Relays(c, packet, got) \/ Identifies(c, packet, got) \/ EndsNothing(c, packet, got)
  BY <1>1, <1>2, <1>3 DEF Relays, Identifies, EndsNothing, Quiet
<1>4. ASSUME NEW k \in LobbyIds, EndsGame(c, packet, k, got)
      PROVE  /\ lobbies' \in [LobbyIds -> Lobby] /\ games' \in Nat
             /\ number' \in [LobbyIds -> Nat]
             /\ shooter' \in [LobbyIds -> Conn \cup {Nobody}] /\ reopened' \in BOOLEAN
  <2>1. EmptyLobby \in Lobby
    BY DEF EmptyLobby, Lobby, ClientData, NoClient
  <2>. QED
    BY <1>2, <1>4, <2>1 DEF EndsGame
<1>5. ASSUME NEW k \in LobbyIds, NEW s \in Seats, Joins(c, packet, k, s, got)
      PROVE  /\ lobbies' \in [LobbyIds -> Lobby] /\ games' \in Nat
             /\ number' \in [LobbyIds -> Nat]
             /\ shooter' \in [LobbyIds -> Conn \cup {Nobody}] /\ reopened' \in BOOLEAN
  <2>1. [username |-> c, port |-> c] \in ClientData
    BY PoolAssumption DEF ClientData
  <2>2. [lobbies[k] EXCEPT ![s] = [username |-> c, port |-> c]] \in Lobby
    BY <1>2, <2>1 DEF Lobby
  <2>. QED
    BY <1>2, <1>5, <2>2 DEF Joins
<1>. QED
  BY <1>1, <1>2, <1>3, <1>4, <1>5 DEF Served

LEMMA TypesStart ==
  Init => TypeOK
<1>. SUFFICES ASSUME Init PROVE TypeOK
  OBVIOUS
<1>1. EmptyLobby \in Lobby
  BY DEF EmptyLobby, Lobby, ClientData, NoClient
<1>2. NewClient \in Client /\ MenuClient \in Client
  <2>1. 0 \in Player
    BY DEF Player
  <2>2. NewGame(0) \in Game
    BY <2>1, NewGameType
  <2>3. NewClient \in Client
    BY <2>1, <2>2 DEF NewClient, Client, Screens
  <2>. QED
    BY <2>3 DEF MenuClient, Client, Screens
<1>3. client \in [Conn -> Client]
  <2>1. client \in [Conn -> {NewClient, MenuClient}]
    BY DEF Init
  <2>. HIDE DEF Init
  <2>. QED
    BY <1>2, <2>1
<1>4. ServerTypeOK
  BY <1>1 DEF Init, ServerTypeOK
<1>5. /\ up \in [Conn -> Seq([type : ClientTypes, of : GameNumbers])]
      /\ down \in [Conn -> Seq([type : ServerPackets, of : GameNumbers])]
  BY DEF Init
<1>6. /\ gone \subseteq Conn /\ games \in GameNumbers
      /\ plays \in 0..PlayLimit /\ shots \in 0..ShotLimit
      /\ number \in [LobbyIds -> GameNumbers]
      /\ shooter \in [LobbyIds -> Conn \cup {Nobody}]
      /\ {alive, hasty, crossed, reopened} \subseteq BOOLEAN
  <2>1. gone \subseteq Conn /\ {alive, hasty, crossed, reopened} \subseteq BOOLEAN
    BY DEF Init
  <2>2. /\ number \in [LobbyIds -> GameNumbers] /\ games \in GameNumbers
        /\ shooter \in [LobbyIds -> Conn \cup {Nobody}]
    BY DEF Init, GameNumbers
  <2>3. plays \in 0..PlayLimit /\ shots \in 0..ShotLimit
    BY PoolAssumption DEF Init
  <2>. QED
    BY <2>1, <2>2, <2>3
<1>. QED
  BY <1>3, <1>4, <1>5, <1>6 DEF TypeOK

(* A client appends one packet.                                              *)
LEMMA AppendTypes ==
  ASSUME TypeOK, NEW c \in Conn, NEW type \in ClientTypes,
         up' = [up EXCEPT ![c] = Append(@, Packet(type, 0))]
  PROVE  up' \in [Conn -> Seq(ClientPackets)]
<1>1. Packet(type, 0) \in ClientPackets
  BY DEF Packet, ClientPackets, GameNumbers
<1>2. Append(up[c], Packet(type, 0)) \in Seq(ClientPackets)
  <2>1. up[c] \in Seq(ClientPackets)
    BY DEF TypeOK, ClientPackets
  <2>. QED
    BY <1>1, <2>1, AppendProperties
<1>. QED
  BY <1>2 DEF TypeOK, ClientPackets

LEMMA TypesStep ==
  TypeOK /\ [Next]_vars => TypeOK'
<1>. SUFFICES ASSUME TypeOK, [Next]_vars PROVE TypeOK'
  OBVIOUS
<1>1. ASSUME NEW c \in Conn, FrameReceive(c) PROVE TypeOK'
  <2>1. /\ down' = [down EXCEPT ![c] = Tail(@)] /\ down[c] # <<>>
        /\ UNCHANGED <<serverVars, plays, hasty>> /\ crossed' \in BOOLEAN
        /\ \E app \in Client : \E after, sent : FrameEffect(c, app, after, sent)
    BY <1>1, ReceiveEffects
  <2>2. client' \in [Conn -> Client] /\ up' \in [Conn -> Seq(ClientPackets)]
          /\ shots' \in 0..ShotLimit
    BY <2>1, FrameTypes
  <2>3. down' \in [Conn -> Seq(PacketsOfServer)]
    <3>1. down \in [Conn -> Seq(PacketsOfServer)]
      BY DEF TypeOK, PacketsOfServer
    <3>2. Tail(down[c]) \in Seq(PacketsOfServer)
      BY <2>1, <3>1, HeadAndTail
    <3>. QED
      BY <2>1, <3>1, <3>2
  <2>. QED
    BY <2>1, <2>2, <2>3
    DEF TypeOK, ServerTypeOK, serverVars, ClientPackets, PacketsOfServer
<1>2. ASSUME NEW c \in Conn, FrameIdle(c) PROVE TypeOK'
  <2>1. /\ UNCHANGED <<serverVars, down, plays, hasty, crossed>>
        /\ \E after, sent : FrameEffect(c, client[c], after, sent)
    BY <1>2, FrameEffects DEF FrameIdle, TypeOK
  <2>2. client' \in [Conn -> Client] /\ up' \in [Conn -> Seq(ClientPackets)]
          /\ shots' \in 0..ShotLimit
    BY <2>1, FrameTypes DEF TypeOK
  <2>. QED
    BY <2>1, <2>2 DEF TypeOK, ServerTypeOK, serverVars, ClientPackets
<1>3. ASSUME NEW c \in Conn, Identify(c) PROVE TypeOK'
  <2>1. up' \in [Conn -> Seq(ClientPackets)]
    BY <1>3, AppendTypes DEF Identify, ClientTypes
  <2>. QED
    BY <1>3, <2>1 DEF Identify, TypeOK, ServerTypeOK, serverVars, ClientPackets
<1>4. ASSUME NEW c \in Conn, Play(c) PROVE TypeOK'
  <2>1. up' \in [Conn -> Seq(ClientPackets)]
    BY <1>4, AppendTypes DEF Play, ClientTypes
  <2>2. plays' \in 0..PlayLimit
    BY <1>4, PoolAssumption DEF Play, TypeOK
  <2>3. hasty' \in BOOLEAN
    BY <1>4 DEF Play, TypeOK
  <2>. QED
    BY <1>4, <2>1, <2>2, <2>3 DEF Play, TypeOK, ServerTypeOK, serverVars, ClientPackets
<1>5. ASSUME NEW c \in Conn, LeaveGame(c) PROVE TypeOK'
  <2>1. AfterLeaving(client[c]) \in Client
    <3>1. client[c] \in Client
      BY DEF TypeOK
    <3>2. Deinit(client[c].game) \in Game
      BY <3>1, DeinitType DEF Client
    <3>. QED
      BY <3>1, <3>2 DEF AfterLeaving, Client, Screens
  <2>2. client' \in [Conn -> Client]
    BY <1>5, <2>1 DEF LeaveGame, TypeOK
  <2>. QED
    BY <1>5, <2>2 DEF LeaveGame, TypeOK, ServerTypeOK, serverVars
<1>6. ASSUME NEW c \in Conn, CloseWindow(c) PROVE TypeOK'
  <2>1. up' \in [Conn -> Seq(ClientPackets)]
    BY <1>6, AppendTypes DEF CloseWindow, ClientTypes
  <2>2. [client[c] EXCEPT !.open = FALSE] \in Client
    BY DEF TypeOK, Client
  <2>3. client' \in [Conn -> Client]
    BY <1>6, <2>2 DEF CloseWindow, TypeOK
  <2>. QED
    BY <1>6, <2>1, <2>3 DEF CloseWindow, TypeOK, ServerTypeOK, serverVars, ClientPackets
<1>7. ASSUME NEW c \in Conn, Serve(c) PROVE TypeOK'
  <2>1. /\ up[c] # <<>> /\ alive' \in BOOLEAN
        /\ up' = [up EXCEPT ![c] = Tail(@)]
        /\ gone' = IF Head(up[c]).type = "closed" THEN gone \cup {c} ELSE gone
        /\ UNCHANGED <<is_database_connected, client, plays, shots, hasty>>
        /\ \/ Overflows(Head(up[c]))
           \/ \E got \in [Conn -> Seq(PacketsOfServer)] :
                Delivered(got) /\ Served(c, Head(up[c]), got)
    BY <1>7, ServeEffects
  <2>2. /\ lobbies' \in [LobbyIds -> Lobby] /\ down' \in [Conn -> Seq(PacketsOfServer)]
        /\ games' \in GameNumbers /\ number' \in [LobbyIds -> GameNumbers]
        /\ shooter' \in [LobbyIds -> Conn \cup {Nobody}] /\ reopened' \in BOOLEAN
    <3>1. CASE Overflows(Head(up[c]))
      BY <3>1 DEF Overflows, Quiet, TypeOK, ServerTypeOK, PacketsOfServer
    <3>. QED
      BY <2>1, <3>1, ServedTypes
  <2>3. up' \in [Conn -> Seq(ClientPackets)]
    <3>1. up \in [Conn -> Seq(ClientPackets)]
      BY DEF TypeOK, ClientPackets
    <3>2. Tail(up[c]) \in Seq(ClientPackets)
      BY <2>1, <3>1, HeadAndTail
    <3>. QED
      BY <2>1, <3>1, <3>2
  <2>4. crossed' \in BOOLEAN
    BY <1>7 DEF Serve, TypeOK
  <2>5. gone' \subseteq Conn
    BY <2>1 DEF TypeOK
  <2>. QED
    BY <2>1, <2>2, <2>3, <2>4, <2>5
    DEF TypeOK, ServerTypeOK, ClientPackets, PacketsOfServer
<1>8. CASE UNCHANGED vars
  BY <1>8 DEF vars, TypeOK, ServerTypeOK
<1>. QED
  BY <1>1, <1>2, <1>3, <1>4, <1>5, <1>6, <1>7, <1>8 DEF Next

(* The variables keep their types: the queues hold packets of the right      *)
(* kinds, and every seat a client or nobody.                                 *)
THEOREM TypeCorrect == Spec => []TypeOK
<1>. QED
  BY TypesStart, TypesStep, PTL DEF Spec

-----------------------------------------------------------------------------
(* Packets by what they are, and by the game they are about.                 *)

Typed(types) == [type : types, of : GameNumbers]
Of(types, g) == [type : types, of : {g}]
NotOf(types, g) == [type : types, of : GameNumbers \ {g}]

StartTypes == {"startGame0", "startGame1"}
GameTypes == {"newTurn", "cueBallVelocity", "endGame"} \cup Verdicts
JoinPackets == Typed({"joinLobby"})
NamePackets == Typed({"clientIdentification"})

(* What a queue holds, and in which order.                                   *)
Has(queue, P) == \E n \in DOMAIN queue : queue[n] \in P
Once(queue, P) == \A m, n \in DOMAIN queue : queue[m] \in P /\ queue[n] \in P => m = n
Precedes(queue, P, Q) ==
  \A m, n \in DOMAIN queue : queue[m] \in P /\ queue[n] \in Q => m < n

LEMMA Classes ==
  ASSUME NEW packet \in ClientPackets \cup PacketsOfServer, NEW types, NEW g
  PROVE  /\ packet \in Typed(types) <=> packet.type \in types
         /\ packet \in Of(types, g) <=> packet.type \in types /\ packet.of = g
         /\ packet \in NotOf(types, g) <=> packet.type \in types /\ packet.of # g
<1>1. /\ packet = [type |-> packet.type, of |-> packet.of] /\ packet.of \in GameNumbers
  BY DEF ClientPackets, PacketsOfServer
<1>. QED
  BY <1>1 DEF Typed, Of, NotOf

LEMMA EmptyOf ==
  \A P, Q : ~Has(<<>>, P) /\ Once(<<>>, P) /\ Precedes(<<>>, P, Q)
BY DEF Has, Once, Precedes

LEMMA TailOf ==
  ASSUME NEW S, NEW queue \in Seq(S), queue # <<>>, NEW P, NEW Q
  PROVE  /\ Has(queue, P) <=> Head(queue) \in P \/ Has(Tail(queue), P)
         /\ Once(queue, P) <=>
              Once(Tail(queue), P) /\ ~(Head(queue) \in P /\ Has(Tail(queue), P))
         /\ Precedes(queue, P, Q) <=>
              /\ Precedes(Tail(queue), P, Q)
              /\ ~(Head(queue) \in Q /\ (Head(queue) \in P \/ Has(Tail(queue), P)))
<1>. DEFINE rest == Tail(queue)
            len == Len(queue)
<1>1. /\ Head(queue) = queue[1] /\ len \in Nat /\ len # 0
      /\ DOMAIN queue = 1..len /\ DOMAIN rest = 1..(len - 1)
      /\ \A n \in DOMAIN rest : rest[n] = queue[n + 1]
  BY HeadAndTail
<1>. HIDE DEF rest, len
<1>2. /\ 1 \in DOMAIN queue
      /\ \A n \in DOMAIN rest : n \in Nat /\ n + 1 \in DOMAIN queue /\ n # 0
      /\ \A n \in DOMAIN queue :
            n = 1 \/ (n \in Nat /\ n > 1 /\ n - 1 \in DOMAIN rest /\ rest[n - 1] = queue[n])
  BY <1>1
<1>3. Has(queue, P) <=> queue[1] \in P \/ Has(rest, P)
  BY <1>1, <1>2 DEF Has
<1>4. Once(queue, P) <=> Once(rest, P) /\ ~(queue[1] \in P /\ Has(rest, P))
  <2>1. ASSUME Once(queue, P) PROVE Once(rest, P) /\ ~(queue[1] \in P /\ Has(rest, P))
    <3>1. ASSUME NEW m \in DOMAIN rest, NEW n \in DOMAIN rest, rest[m] \in P, rest[n] \in P
          PROVE  m = n
      <4>1. m + 1 = n + 1
        BY <1>1, <1>2, <2>1, <3>1 DEF Once
      <4>. QED
        BY <1>2, <4>1
    <3>2. ASSUME queue[1] \in P, NEW n \in DOMAIN rest, rest[n] \in P PROVE FALSE
      <4>1. n + 1 = 1
        BY <1>1, <1>2, <2>1, <3>2 DEF Once
      <4>. QED
        BY <1>2, <4>1
    <3>. QED
      BY <3>1, <3>2 DEF Once, Has
  <2>2. ASSUME Once(rest, P), ~(queue[1] \in P /\ Has(rest, P)) PROVE Once(queue, P)
    <3>. SUFFICES ASSUME NEW m \in DOMAIN queue, NEW n \in DOMAIN queue,
                         queue[m] \in P, queue[n] \in P
                  PROVE  m = n
      BY DEF Once
    <3>1. CASE m = 1 \/ n = 1
      BY <1>2, <2>2, <3>1 DEF Has
    <3>2. CASE m # 1 /\ n # 1
      <4>1. m - 1 = n - 1
        BY <1>2, <2>2, <3>2 DEF Once
      <4>. QED
        BY <1>2, <3>2, <4>1
    <3>. QED
      BY <3>1, <3>2
  <2>. QED
    BY <2>1, <2>2
<1>5. Precedes(queue, P, Q) <=>
        Precedes(rest, P, Q) /\ ~(queue[1] \in Q /\ (queue[1] \in P \/ Has(rest, P)))
  <2>1. ASSUME Precedes(queue, P, Q)
        PROVE  /\ Precedes(rest, P, Q)
               /\ ~(queue[1] \in Q /\ (queue[1] \in P \/ Has(rest, P)))
    <3>1. ASSUME NEW m \in DOMAIN rest, NEW n \in DOMAIN rest, rest[m] \in P, rest[n] \in Q
          PROVE  m < n
      <4>1. m + 1 < n + 1
        BY <1>1, <1>2, <2>1, <3>1 DEF Precedes
      <4>. QED
        BY <1>2, <4>1
    <3>2. ASSUME queue[1] \in Q, NEW n \in DOMAIN rest, rest[n] \in P PROVE FALSE
      <4>1. n + 1 < 1
        BY <1>1, <1>2, <2>1, <3>2 DEF Precedes
      <4>. QED
        BY <1>2, <4>1
    <3>3. ~(queue[1] \in Q /\ queue[1] \in P)
      BY <1>2, <2>1 DEF Precedes
    <3>. QED
      BY <3>1, <3>2, <3>3 DEF Precedes, Has
  <2>2. ASSUME Precedes(rest, P, Q), ~(queue[1] \in Q /\ (queue[1] \in P \/ Has(rest, P)))
        PROVE  Precedes(queue, P, Q)
    <3>. SUFFICES ASSUME NEW m \in DOMAIN queue, NEW n \in DOMAIN queue,
                         queue[m] \in P, queue[n] \in Q
                  PROVE  m < n
      BY DEF Precedes
    <3>1. n # 1
      BY <1>2, <2>2 DEF Has
    <3>2. CASE m = 1
      BY <1>2, <3>1, <3>2
    <3>3. CASE m # 1
      <4>1. m - 1 < n - 1
        BY <1>2, <2>2, <3>1, <3>3 DEF Precedes
      <4>. QED
        BY <1>2, <3>1, <3>3, <4>1
    <3>. QED
      BY <3>2, <3>3
  <2>. QED
    BY <2>1, <2>2
<1>. QED
  BY <1>1, <1>3, <1>4, <1>5 DEF rest

LEMMA ConcatOf ==
  ASSUME NEW S, NEW a \in Seq(S), NEW b \in Seq(S), NEW P, NEW Q
  PROVE  /\ Has(a \o b, P) <=> Has(a, P) \/ Has(b, P)
         /\ Once(a \o b, P) <=> Once(a, P) /\ Once(b, P) /\ ~(Has(a, P) /\ Has(b, P))
         /\ Precedes(a \o b, P, Q) <=>
              Precedes(a, P, Q) /\ Precedes(b, P, Q) /\ ~(Has(a, Q) /\ Has(b, P))
<1>. DEFINE whole == a \o b
            k == Len(a)
<1>1. /\ k \in Nat /\ Len(b) \in Nat /\ DOMAIN a = 1..k /\ DOMAIN b = 1..Len(b)
      /\ whole \in Seq(S) /\ Len(whole) = k + Len(b)
      /\ \A n \in 1..(k + Len(b)) : whole[n] = IF n <= k THEN a[n] ELSE b[n - k]
  BY LenProperties, ConcatProperties
<1>2. DOMAIN whole = 1..(k + Len(b))
  BY <1>1, LenProperties
<1>. HIDE DEF whole, k
<1>3. /\ \A n \in DOMAIN a : n \in DOMAIN whole /\ whole[n] = a[n] /\ n \in Nat /\ n <= k
      /\ \A n \in DOMAIN b :
            n \in Nat /\ n > 0 /\ n + k \in DOMAIN whole /\ whole[n + k] = b[n]
      /\ \A n \in DOMAIN whole :
            \/ n \in DOMAIN a
            \/ n \in Nat /\ n > k /\ n - k \in DOMAIN b /\ b[n - k] = whole[n]
  BY <1>1, <1>2
<1>4. Has(whole, P) <=> Has(a, P) \/ Has(b, P)
  BY <1>3 DEF Has
<1>5. Once(whole, P) <=> Once(a, P) /\ Once(b, P) /\ ~(Has(a, P) /\ Has(b, P))
  <2>1. ASSUME Once(whole, P)
        PROVE  Once(a, P) /\ Once(b, P) /\ ~(Has(a, P) /\ Has(b, P))
    <3>1. Once(a, P)
      BY <1>3, <2>1 DEF Once
    <3>2. ASSUME NEW m \in DOMAIN b, NEW n \in DOMAIN b, b[m] \in P, b[n] \in P
          PROVE  m = n
      <4>1. m + k = n + k
        BY <1>3, <2>1, <3>2 DEF Once
      <4>. QED
        BY <1>1, <1>3, <4>1
    <3>3. ASSUME NEW m \in DOMAIN a, NEW n \in DOMAIN b, a[m] \in P, b[n] \in P
          PROVE  FALSE
      <4>1. m = n + k
        BY <1>3, <2>1, <3>3 DEF Once
      <4>. QED
        BY <1>1, <1>3, <4>1
    <3>. QED
      BY <3>1, <3>2, <3>3 DEF Once, Has
  <2>2. ASSUME Once(a, P), Once(b, P), ~(Has(a, P) /\ Has(b, P)) PROVE Once(whole, P)
    <3>. SUFFICES ASSUME NEW m \in DOMAIN whole, NEW n \in DOMAIN whole,
                         whole[m] \in P, whole[n] \in P
                  PROVE  m = n
      BY DEF Once
    <3>1. CASE m \in DOMAIN a /\ n \in DOMAIN a
      BY <1>3, <2>2, <3>1 DEF Once
    <3>2. CASE m \notin DOMAIN a /\ n \notin DOMAIN a
      <4>1. m - k = n - k
        BY <1>3, <2>2, <3>2 DEF Once
      <4>. QED
        BY <1>1, <1>3, <3>2, <4>1
    <3>3. ASSUME NEW i \in DOMAIN a, NEW j \in DOMAIN whole \ DOMAIN a,
                 whole[i] \in P, whole[j] \in P
          PROVE  FALSE
      BY <1>3, <2>2, <3>3 DEF Has
    <3>. QED
      BY <3>1, <3>2, <3>3
  <2>. QED
    BY <2>1, <2>2
<1>6. Precedes(whole, P, Q) <=>
        Precedes(a, P, Q) /\ Precedes(b, P, Q) /\ ~(Has(a, Q) /\ Has(b, P))
  <2>1. ASSUME Precedes(whole, P, Q)
        PROVE  Precedes(a, P, Q) /\ Precedes(b, P, Q) /\ ~(Has(a, Q) /\ Has(b, P))
    <3>1. Precedes(a, P, Q)
      BY <1>3, <2>1 DEF Precedes
    <3>2. ASSUME NEW m \in DOMAIN b, NEW n \in DOMAIN b, b[m] \in P, b[n] \in Q
          PROVE  m < n
      <4>1. m + k < n + k
        BY <1>3, <2>1, <3>2 DEF Precedes
      <4>. QED
        BY <1>1, <1>3, <4>1
    <3>3. ASSUME NEW m \in DOMAIN a, NEW n \in DOMAIN b, a[m] \in Q, b[n] \in P
          PROVE  FALSE
      <4>1. n + k < m
        BY <1>3, <2>1, <3>3 DEF Precedes
      <4>. QED
        BY <1>1, <1>3, <4>1
    <3>. QED
      BY <3>1, <3>2, <3>3 DEF Precedes, Has
  <2>2. ASSUME Precedes(a, P, Q), Precedes(b, P, Q), ~(Has(a, Q) /\ Has(b, P))
        PROVE  Precedes(whole, P, Q)
    <3>. SUFFICES ASSUME NEW m \in DOMAIN whole, NEW n \in DOMAIN whole,
                         whole[m] \in P, whole[n] \in Q
                  PROVE  m < n
      BY DEF Precedes
    <3>1. CASE m \in DOMAIN a /\ n \in DOMAIN a
      BY <1>3, <2>2, <3>1 DEF Precedes
    <3>2. CASE m \notin DOMAIN a /\ n \notin DOMAIN a
      <4>1. m - k < n - k
        BY <1>3, <2>2, <3>2 DEF Precedes
      <4>. QED
        BY <1>1, <1>3, <3>2, <4>1
    <3>3. CASE m \in DOMAIN a /\ n \notin DOMAIN a
      BY <1>1, <1>3, <3>3
    <3>4. CASE m \notin DOMAIN a /\ n \in DOMAIN a
      BY <1>3, <2>2, <3>4 DEF Has
    <3>. QED
      BY <3>1, <3>2, <3>3, <3>4
  <2>. QED
    BY <2>1, <2>2
<1>. QED
  BY <1>4, <1>5, <1>6 DEF whole

LEMMA AppendOf ==
  ASSUME NEW S, NEW queue \in Seq(S), NEW packet \in S, NEW P, NEW Q
  PROVE  /\ Has(Append(queue, packet), P) <=> Has(queue, P) \/ packet \in P
         /\ Once(Append(queue, packet), P) <=>
              Once(queue, P) /\ ~(Has(queue, P) /\ packet \in P)
         /\ Precedes(Append(queue, packet), P, Q) <=>
              /\ Precedes(queue, P, Q) /\ ~(packet \in P /\ packet \in Q)
              /\ ~(Has(queue, Q) /\ packet \in P)
<1>. DEFINE one == <<packet>>
<1>1. one \in Seq(S) /\ Append(queue, packet) = queue \o one
  BY AppendIsConcat
<1>2. /\ Has(one, P) <=> packet \in P
      /\ Once(one, P)
      /\ Precedes(one, P, Q) <=> ~(packet \in P /\ packet \in Q)
  <2>1. DOMAIN one = {1} /\ one[1] = packet
    OBVIOUS
  <2>. HIDE DEF one
  <2>. QED
    BY <2>1 DEF Has, Once, Precedes
<1>. HIDE DEF one
<1>. QED
  BY <1>1, <1>2, ConcatOf

(* What a client's queue becomes when the server sends to it.                *)
Delivery(open, queue, more) == IF open THEN queue \o more ELSE <<>>

LEMMA DeliveryOf ==
  ASSUME NEW S, NEW queue \in Seq(S), NEW more \in Seq(S), NEW open \in BOOLEAN,
         NEW P, NEW Q
  PROVE  /\ Has(Delivery(open, queue, more), P) <=> open /\ (Has(queue, P) \/ Has(more, P))
         /\ Once(Delivery(open, queue, more), P) <=>
              \/ ~open
              \/ Once(queue, P) /\ Once(more, P) /\ ~(Has(queue, P) /\ Has(more, P))
         /\ Precedes(Delivery(open, queue, more), P, Q) <=>
              \/ ~open
              \/ /\ Precedes(queue, P, Q) /\ Precedes(more, P, Q)
                 /\ ~(Has(queue, Q) /\ Has(more, P))
<1>1. CASE open
  <2>1. Delivery(open, queue, more) = queue \o more
    BY <1>1 DEF Delivery
  <2>2. /\ Has(queue \o more, P) <=> Has(queue, P) \/ Has(more, P)
        /\ Once(queue \o more, P) <=>
             Once(queue, P) /\ Once(more, P) /\ ~(Has(queue, P) /\ Has(more, P))
        /\ Precedes(queue \o more, P, Q) <=>
             /\ Precedes(queue, P, Q) /\ Precedes(more, P, Q)
             /\ ~(Has(queue, Q) /\ Has(more, P))
    BY ConcatOf
  <2>. DEFINE whole == queue \o more
  <2>3. /\ Has(whole, P) <=> Has(queue, P) \/ Has(more, P)
        /\ Once(whole, P) <=>
             Once(queue, P) /\ Once(more, P) /\ ~(Has(queue, P) /\ Has(more, P))
        /\ Precedes(whole, P, Q) <=>
             /\ Precedes(queue, P, Q) /\ Precedes(more, P, Q)
             /\ ~(Has(queue, Q) /\ Has(more, P))
    BY <2>2
  <2>4. Delivery(open, queue, more) = whole
    BY <2>1
  <2>. HIDE DEF whole
  <2>. QED
    BY <1>1, <2>3, <2>4
<1>2. CASE ~open
  <2>1. Delivery(open, queue, more) = <<>>
    BY <1>2 DEF Delivery
  <2>2. /\ ~Has(Delivery(open, queue, more), P) /\ Once(Delivery(open, queue, more), P)
        /\ Precedes(Delivery(open, queue, more), P, Q)
    BY <2>1, EmptyOf
  <2>. QED
    BY <1>2, <2>2
<1>. QED
  BY <1>1, <1>2

(* A queue without packets of a class.                                       *)
LEMMA Without ==
  ASSUME NEW queue, NEW P, ~Has(queue, P), NEW Q
  PROVE  Once(queue, P) /\ Precedes(queue, P, Q) /\ Precedes(queue, Q, P)
BY DEF Has, Once, Precedes

LEMMA WithoutTypes ==
  ASSUME NEW queue \in Seq(ClientPackets \cup PacketsOfServer), NEW types, NEW others,
         \A n \in DOMAIN queue : queue[n].type \in types, others \cap types = {}
  PROVE  ~Has(queue, Typed(others))
<1>1. \A n \in DOMAIN queue : queue[n] \in ClientPackets \cup PacketsOfServer
  BY LenProperties, ElementOfSeq
<1>. QED
  BY <1>1, Classes DEF Has

LEMMA EitherQueue ==
  /\ \A queue \in Seq(ClientPackets) : queue \in Seq(ClientPackets \cup PacketsOfServer)
  /\ \A queue \in Seq(PacketsOfServer) : queue \in Seq(ClientPackets \cup PacketsOfServer)
  /\ \A app \in Client : \A queue \in Seq(GamePackets(app.match)) :
        queue \in Seq(ClientPackets)
<1>1. ASSUME NEW S, NEW T, S \subseteq T, NEW queue \in Seq(S) PROVE queue \in Seq(T)
  <2>1. queue \in [1..Len(queue) -> S] /\ Len(queue) \in Nat
    BY LenProperties, ElementOfSeq
  <2>2. queue \in [1..Len(queue) -> T]
    BY <1>1, <2>1
  <2>. QED
    BY <2>1, <2>2, SeqDef
<1>2. \A app \in Client : GamePackets(app.match) \subseteq ClientPackets
  BY DEF GamePackets, ClientPackets, Client, ClientTypes, GameNumbers
<1>. QED
  BY <1>1, <1>2

(* A frame sends packets of the game only.                                   *)
LEMMA SentClasses ==
  ASSUME NEW app \in Client, NEW sent \in Seq(GamePackets(app.match))
  PROVE  /\ sent \in Seq(ClientPackets)
         /\ ~Has(sent, JoinPackets) /\ ~Has(sent, NamePackets)
         /\ ~Has(sent, Typed({"closed"}))
         /\ ~Has(sent, NotOf(GameTypes, app.match))
<1>1. sent \in Seq(ClientPackets) /\ sent \in Seq(ClientPackets \cup PacketsOfServer)
  BY EitherQueue
<1>2. \A n \in DOMAIN sent : sent[n] \in GamePackets(app.match) /\ sent[n] \in ClientPackets
  BY <1>1, LenProperties, ElementOfSeq
<1>3. \A n \in DOMAIN sent : /\ sent[n].type \in {"endGame", "cueBallVelocity", "newTurn"}
                             /\ sent[n].of = app.match
  BY <1>2 DEF GamePackets
<1>4. \A others : others \cap {"endGame", "cueBallVelocity", "newTurn"} = {} =>
                    ~Has(sent, Typed(others))
  BY <1>1, <1>3, WithoutTypes
<1>5. ~Has(sent, NotOf(GameTypes, app.match))
  BY <1>2, <1>3, Classes DEF Has
<1>. QED
  BY <1>1, <1>4, <1>5 DEF JoinPackets, NamePackets

-----------------------------------------------------------------------------
(* What the steps do to the queues and the seats.                            *)

LEMMA EmptyLobbies ==
  ASSUME TypeOK
  PROVE  /\ \A c \in Conn : ~IsSeated(EmptyLobby, c)
         /\ ~IsComplete(EmptyLobby)
<1>1. \A s \in Seats : EmptyLobby[s].port = NoPort
  BY DEF EmptyLobby, NoClient
<1>2. NoPort \notin Conn
  BY NoPortAssumption, PoolAssumption
<1>. QED
  BY <1>1, <1>2 DEF IsSeated, IsComplete, Seats

(* Who sits where after a handler.                                           *)
LEMMA SeatedAfterEnd ==
  ASSUME TypeOK, NEW c \in Conn, NEW packet, NEW k \in LobbyIds, NEW got,
         EndsGame(c, packet, k, got), NEW q \in Conn, NEW j \in LobbyIds
  PROVE  IsSeated(lobbies'[j], q) <=> j # k /\ IsSeated(lobbies[j], q)
<1>1. lobbies' = [lobbies EXCEPT ![k] = EmptyLobby] /\ lobbies \in [LobbyIds -> Lobby]
  BY DEF EndsGame, TypeOK, ServerTypeOK
<1>2. lobbies'[j] = IF j = k THEN EmptyLobby ELSE lobbies[j]
  BY <1>1
<1>. QED
  BY <1>2, EmptyLobbies

LEMMA SeatedAfterJoin ==
  ASSUME TypeOK, NEW c \in Conn, NEW packet, NEW k \in LobbyIds, NEW s \in Seats, NEW got,
         Joins(c, packet, k, s, got), NEW q \in Conn, NEW j \in LobbyIds
  PROVE  /\ IsSeated(lobbies'[j], q) <=> IsSeated(lobbies[j], q) \/ (j = k /\ q = c)
         /\ \A t \in Seats : lobbies'[j][t].port = q <=>
               lobbies[j][t].port = q \/ (j = k /\ t = s /\ q = c)
<1>1. /\ lobbies' = [lobbies EXCEPT ![k] = [@ EXCEPT ![s] = [username |-> c, port |-> c]]]
      /\ lobbies \in [LobbyIds -> Lobby] /\ lobbies[k][s].port = NoPort
      /\ NoPort \notin Conn
  BY NoPortAssumption, PoolAssumption DEF Joins, TypeOK, ServerTypeOK
<1>2. \A t \in Seats : lobbies'[j][t] =
         IF j = k /\ t = s THEN [username |-> c, port |-> c] ELSE lobbies[j][t]
  BY <1>1 DEF Lobby
<1>3. \A t \in Seats : lobbies'[j][t].port =
         IF j = k /\ t = s THEN c ELSE lobbies[j][t].port
  BY <1>2
<1>4. \A t \in Seats : lobbies'[j][t].port = q <=>
         lobbies[j][t].port = q \/ (j = k /\ t = s /\ q = c)
  BY <1>1, <1>3
<1>. QED
  BY <1>4 DEF IsSeated

LEMMA GotClasses ==
  ASSUME NEW c, NEW packet, NEW got \in [Conn -> Seq(PacketsOfServer)], NEW q \in Conn
  PROVE  /\ Relays(c, packet, got) \/ EndsNothing(c, packet, got)
              \/ (\E k \in LobbyIds : EndsGame(c, packet, k, got)) =>
              /\ ~Has(got[q], NamePackets) /\ ~Has(got[q], JoinPackets)
              /\ ~Has(got[q], Typed(StartTypes))
         /\ Identifies(c, packet, got) =>
              /\ Has(got[q], NamePackets) => q = c
              /\ ~Has(got[q], JoinPackets) /\ ~Has(got[q], Typed(StartTypes))
              /\ ~Has(got[q], Typed(GameTypes))
         /\ \A k \in LobbyIds, s \in Seats : Joins(c, packet, k, s, got) =>
              /\ ~Has(got[q], NamePackets)
              /\ Has(got[q], JoinPackets) => q = c
              /\ Has(got[q], Typed(StartTypes)) \/ Has(got[q], Typed(GameTypes)) =>
                   IsSeated(lobbies'[k], q) /\ IsComplete(lobbies'[k])
<1>. DEFINE queue == got[q]
<1>1. queue \in Seq(ClientPackets \cup PacketsOfServer)
  BY EitherQueue
<1>2. \A n \in DOMAIN queue : queue[n] \in ClientPackets \cup PacketsOfServer
  BY <1>1, LenProperties, ElementOfSeq
<1>3. \A n \in DOMAIN queue : \A types :
        queue[n] \in Typed(types) <=> queue[n].type \in types
  BY <1>2, Classes
<1>4. ASSUME NEW types, \A n \in DOMAIN queue : queue[n].type \in types,
             NEW others, others \cap types = {}
      PROVE  ~Has(queue, Typed(others))
  BY <1>1, <1>4, WithoutTypes
<1>5. ASSUME Relays(c, packet, got) \/ EndsNothing(c, packet, got)
               \/ (\E k \in LobbyIds : EndsGame(c, packet, k, got))
      PROVE  /\ ~Has(queue, NamePackets) /\ ~Has(queue, JoinPackets)
             /\ ~Has(queue, Typed(StartTypes))
  <2>1. \A n \in DOMAIN queue : queue[n].type \in GameTypes
    <3>1. CASE EndsNothing(c, packet, got)
      BY <3>1 DEF EndsNothing
    <3>2. CASE Relays(c, packet, got)
      BY <3>2 DEF Relays, GameTypes
    <3>3. CASE \E k \in LobbyIds : EndsGame(c, packet, k, got)
      BY <3>3 DEF EndsGame, GameTypes
    <3>. QED
      BY <1>5, <3>1, <3>2, <3>3
  <2>2. \A others : others \cap GameTypes = {} => ~Has(queue, Typed(others))
    BY <1>4, <2>1
  <2>. QED
    BY <2>2 DEF JoinPackets, NamePackets, StartTypes, GameTypes, Verdicts
<1>6. ASSUME Identifies(c, packet, got)
      PROVE  /\ Has(queue, NamePackets) => q = c
             /\ ~Has(queue, JoinPackets) /\ ~Has(queue, Typed(StartTypes))
             /\ ~Has(queue, Typed(GameTypes))
  <2>1. \A n \in DOMAIN queue : queue[n].type \in {"clientIdentification"} /\ q = c
    BY <1>6 DEF Identifies
  <2>2. \A others : others \cap {"clientIdentification"} = {} => ~Has(queue, Typed(others))
    BY <1>4, <2>1
  <2>3. Has(queue, NamePackets) => q = c
    BY <2>1 DEF Has
  <2>. QED
    BY <2>2, <2>3 DEF JoinPackets, StartTypes, GameTypes, Verdicts
<1>7. ASSUME NEW k \in LobbyIds, NEW s \in Seats, Joins(c, packet, k, s, got)
      PROVE  /\ ~Has(queue, NamePackets) /\ (Has(queue, JoinPackets) => q = c)
             /\ Has(queue, Typed(StartTypes)) \/ Has(queue, Typed(GameTypes)) =>
                  IsSeated(lobbies'[k], q) /\ IsComplete(lobbies'[k])
  <2>1. \A n \in DOMAIN queue :
          \/ queue[n].type = "joinLobby" /\ q = c
          \/ /\ queue[n].type \in StartTypes \cup {"newTurn"}
             /\ IsSeated(lobbies'[k], q) /\ IsComplete(lobbies'[k])
    BY <1>7, StartPackets DEF Joins, StartTypes
  <2>2. ~Has(queue, NamePackets)
    <3>1. \A n \in DOMAIN queue :
            queue[n].type \in {"joinLobby", "newTurn", "startGame0", "startGame1"}
      BY <2>1 DEF StartTypes
    <3>2. \A others : others \cap {"joinLobby", "newTurn", "startGame0", "startGame1"} = {}
                        => ~Has(queue, Typed(others))
      BY <1>4, <3>1
    <3>. QED
      BY <3>2 DEF NamePackets
  <2>3. Has(queue, JoinPackets) => q = c
    BY <1>3, <2>1 DEF Has, JoinPackets, StartTypes
  <2>4. Has(queue, Typed(StartTypes)) \/ Has(queue, Typed(GameTypes)) =>
          IsSeated(lobbies'[k], q) /\ IsComplete(lobbies'[k])
    BY <1>3, <2>1 DEF Has, StartTypes, GameTypes, Verdicts
  <2>. QED
    BY <2>2, <2>3, <2>4
<1>. QED
  BY <1>5, <1>6, <1>7

LEMMA QueueTypes ==
  ASSUME TypeOK, NEW c \in Conn
  PROVE  /\ client[c] \in Client /\ client[c].open \in BOOLEAN
         /\ up[c] \in Seq(ClientPackets) /\ down[c] \in Seq(PacketsOfServer)
BY DEF TypeOK, ClientPackets, PacketsOfServer, Client

(* A step of client c leaves the others and the server alone.                *)
OnlyClient(c) ==
  /\ \A q \in Conn : q # c => /\ client'[q] = client[q]
                             /\ up'[q] = up[q] /\ down'[q] = down[q]
  /\ lobbies' = lobbies /\ number' = number /\ gone' = gone /\ alive' = alive
  /\ shooter' = shooter /\ games' = games

LEMMA ClientSteps ==
  ASSUME TypeOK, NEW c \in Conn
  PROVE  /\ FrameReceive(c) =>
              /\ OnlyClient(c) /\ client[c].open /\ down[c] # <<>>
              /\ down'[c] = Tail(down[c]) /\ hasty' = hasty
              /\ \E app \in Client :
                   /\ Handles(client[c], Head(down[c]), app)
                   /\ \E after, sent : /\ FrameEffect(c, app, after, sent)
                                       /\ client'[c] = after /\ up'[c] = up[c] \o sent
         /\ FrameIdle(c) =>
              /\ OnlyClient(c) /\ client[c].open /\ down'[c] = down[c]
              /\ hasty' = hasty /\ crossed' = crossed
              /\ \E after, sent : /\ FrameEffect(c, client[c], after, sent)
                                  /\ client'[c] = after /\ up'[c] = up[c] \o sent
         /\ Identify(c) =>
              /\ OnlyClient(c) /\ client'[c] = client[c] /\ ~client[c].identified
              /\ down'[c] = down[c] /\ hasty' = hasty /\ crossed' = crossed
              /\ up'[c] = Append(up[c], Packet("clientIdentification", 0))
         /\ Play(c) =>
              /\ OnlyClient(c) /\ client'[c] = client[c] /\ client[c].open
              /\ ~InGame(client[c]) /\ client[c].gui = "menu"
              /\ hasty' = (hasty \/ Unanswered(c, "joinLobby") > 0 \/ HasSeat(c))
              /\ down'[c] = down[c] /\ crossed' = crossed
              /\ up'[c] = Append(up[c], Packet("joinLobby", 0))
         /\ LeaveGame(c) =>
              /\ OnlyClient(c) /\ client'[c] = AfterLeaving(client[c]) /\ InGame(client[c])
              /\ up'[c] = up[c] /\ down'[c] = down[c]
              /\ hasty' = hasty /\ crossed' = crossed
         /\ CloseWindow(c) =>
              /\ OnlyClient(c) /\ client'[c] = [client[c] EXCEPT !.open = FALSE]
              /\ down'[c] = down[c] /\ hasty' = hasty /\ crossed' = crossed
              /\ up'[c] = Append(up[c], Packet("closed", 0))
<1>1. /\ client \in [Conn -> Client] /\ up \in [Conn -> Seq(ClientPackets)]
      /\ down \in [Conn -> Seq(PacketsOfServer)]
  BY DEF TypeOK, ClientPackets, PacketsOfServer
<1>2. ASSUME NEW app, NEW after, NEW sent, FrameEffect(c, app, after, sent)
      PROVE  /\ \A q \in Conn : q # c => client'[q] = client[q] /\ up'[q] = up[q]
             /\ client'[c] = after /\ up'[c] = up[c] \o sent
  BY <1>1, <1>2 DEF FrameEffect
<1>3. ASSUME FrameReceive(c)
      PROVE  /\ OnlyClient(c) /\ client[c].open /\ down[c] # <<>>
             /\ down'[c] = Tail(down[c]) /\ hasty' = hasty
             /\ \E app \in Client :
                  /\ Handles(client[c], Head(down[c]), app)
                  /\ \E after, sent : /\ FrameEffect(c, app, after, sent)
                                      /\ client'[c] = after /\ up'[c] = up[c] \o sent
  <2>1. /\ client[c].open /\ down[c] # <<>>
        /\ down' = [down EXCEPT ![c] = Tail(@)]
        /\ UNCHANGED <<serverVars, plays, hasty>>
        /\ \E app \in Client : /\ Handles(client[c], Head(down[c]), app)
                               /\ \E after, sent : FrameEffect(c, app, after, sent)
    BY <1>3, ReceiveEffects
  <2>2. \A q \in Conn : down'[q] = IF q = c THEN Tail(down[c]) ELSE down[q]
    BY <1>1, <2>1
  <2>. QED
    BY <1>2, <2>1, <2>2 DEF OnlyClient, serverVars
<1>4. ASSUME FrameIdle(c)
      PROVE  /\ OnlyClient(c) /\ client[c].open /\ down'[c] = down[c]
             /\ hasty' = hasty /\ crossed' = crossed
             /\ \E after, sent : /\ FrameEffect(c, client[c], after, sent)
                                 /\ client'[c] = after /\ up'[c] = up[c] \o sent
  <2>1. /\ client[c].open
        /\ UNCHANGED <<serverVars, down, plays, hasty, crossed>>
        /\ \E after, sent : FrameEffect(c, client[c], after, sent)
    BY <1>1, <1>4, FrameEffects DEF FrameIdle
  <2>. QED
    BY <1>2, <2>1 DEF OnlyClient, serverVars
<1>5. ASSUME NEW packet, up' = [up EXCEPT ![c] = Append(@, packet)]
      PROVE  /\ up'[c] = Append(up[c], packet)
             /\ \A q \in Conn : q # c => up'[q] = up[q]
  BY <1>1, <1>5
<1>6. Identify(c) =>
        /\ OnlyClient(c) /\ client'[c] = client[c] /\ ~client[c].identified
        /\ down'[c] = down[c] /\ hasty' = hasty /\ crossed' = crossed
        /\ up'[c] = Append(up[c], Packet("clientIdentification", 0))
  BY <1>5 DEF Identify, OnlyClient, serverVars
<1>7. Play(c) =>
        /\ OnlyClient(c) /\ client'[c] = client[c] /\ client[c].open
        /\ ~InGame(client[c]) /\ client[c].gui = "menu"
        /\ hasty' = (hasty \/ Unanswered(c, "joinLobby") > 0 \/ HasSeat(c))
        /\ down'[c] = down[c] /\ crossed' = crossed
        /\ up'[c] = Append(up[c], Packet("joinLobby", 0))
  BY <1>5 DEF Play, OnlyClient, serverVars
<1>8. LeaveGame(c) =>
        /\ OnlyClient(c) /\ client'[c] = AfterLeaving(client[c]) /\ InGame(client[c])
        /\ up'[c] = up[c] /\ down'[c] = down[c]
        /\ hasty' = hasty /\ crossed' = crossed
  BY <1>1 DEF LeaveGame, OnlyClient, serverVars
<1>9. CloseWindow(c) =>
        /\ OnlyClient(c) /\ client'[c] = [client[c] EXCEPT !.open = FALSE]
        /\ down'[c] = down[c] /\ hasty' = hasty /\ crossed' = crossed
        /\ up'[c] = Append(up[c], Packet("closed", 0))
  <2>1. ASSUME CloseWindow(c)
        PROVE  \A q \in Conn : client'[q] =
                 IF q = c THEN [client[c] EXCEPT !.open = FALSE] ELSE client[q]
    BY <1>1, <2>1 DEF CloseWindow
  <2>. QED
    BY <1>5, <2>1 DEF CloseWindow, OnlyClient, serverVars
<1>. QED
  BY <1>3, <1>4, <1>6, <1>7, <1>8, <1>9

-----------------------------------------------------------------------------
(* Names.  The answers to them come before what only an identified player    *)
(* gets: a queue keeps its order on either side of the server.  In the       *)
(* second part the server has heard a Play that is not settled yet.          *)

Named(app, sent, got, seated) ==
  /\ app.gui = "menu" \/ Has(sent, JoinPackets) => app.identified
  /\ \/ seated \/ Has(got, JoinPackets) \/ Has(got, Typed(StartTypes))
     \/ app.gui = "lobby" \/ InGame(app)
     => app.identified /\ ~Has(sent, NamePackets)
  /\ app.gui = "lobby" \/ InGame(app) => ~Has(got, NamePackets)
  /\ Precedes(sent, NamePackets, JoinPackets)
  /\ Precedes(got, NamePackets, JoinPackets)
  /\ Precedes(got, NamePackets, Typed(StartTypes))

NameInv == \A c \in Conn : Named(client[c], up[c], down[c], HasSeat(c))

LEMMA NamedReceives ==
  ASSUME NEW app \in Client, NEW sent, NEW got \in Seq(PacketsOfServer), got # <<>>,
         NEW seated, Named(app, sent, got, seated), NEW after, Handles(app, Head(got), after)
  PROVE  Named(after, sent, Tail(got), seated)
<1>. DEFINE packet == Head(got)
            rest == Tail(got)
<1>1. packet \in PacketsOfServer
  BY HeadAndTail
<1>2. \A types : packet \in Typed(types) <=> packet.type \in types
  BY <1>1, Classes
<1>3. /\ \A P : Has(got, P) <=> packet \in P \/ Has(rest, P)
      /\ \A P, Q : Precedes(got, P, Q) =>
            Precedes(rest, P, Q) /\ (packet \in Q => ~Has(rest, P))
  BY TailOf
<1>. HIDE DEF packet, rest
<1>4. CASE packet.type = "joinLobby" /\ after = OnJoinLobby(app)
  <2>1. /\ after.identified = app.identified /\ after.gui = "lobby"
        /\ InGame(after) = InGame(app)
    BY <1>4 DEF OnJoinLobby, InGame, Client
  <2>2. packet \in JoinPackets
    BY <1>2, <1>4 DEF JoinPackets
  <2>. QED
    BY <1>3, <2>1, <2>2 DEF Named, rest
<1>5. CASE packet.type = "clientIdentification" /\ after = OnIdentification(app)
  <2>1. after.identified /\ after.gui = "menu" /\ ~InGame(after)
    BY <1>5 DEF OnIdentification, InGame, Client, Game
  <2>. QED
    BY <1>3, <2>1 DEF Named, rest
<1>6. ASSUME NEW p \in Player, packet.type = Starts[p],
             after = OnStartGame(app, p, packet.of)
      PROVE  Named(after, sent, rest, seated)
  <2>1. after.identified = app.identified /\ after.gui = "none"
    BY <1>6 DEF OnStartGame, Client
  <2>2. packet \in Typed(StartTypes)
    BY <1>2, <1>6 DEF StartTypes, Starts, Player
  <2>. QED
    BY <1>3, <2>1, <2>2 DEF Named, rest
<1>7. CASE SameScreen(after, app)
  BY <1>3, <1>7 DEF Named, SameScreen, rest
<1>. QED
  BY <1>4, <1>5, <1>6, <1>7 DEF Handles, packet, rest

LEMMA NamedFrame ==
  ASSUME NEW app \in Client, NEW sent \in Seq(ClientPackets), NEW got, NEW seated,
         Named(app, sent, got, seated), NEW after, SameScreen(after, app),
         NEW more \in Seq(GamePackets(app.match))
  PROVE  Named(after, sent \o more, got, seated)
<1>1. /\ more \in Seq(ClientPackets)
      /\ ~Has(more, JoinPackets) /\ ~Has(more, NamePackets)
  BY SentClasses
<1>2. \A P, Q : /\ Has(sent \o more, P) <=> Has(sent, P) \/ Has(more, P)
                /\ Precedes(sent \o more, P, Q) <=>
                     /\ Precedes(sent, P, Q) /\ Precedes(more, P, Q)
                     /\ ~(Has(sent, Q) /\ Has(more, P))
  BY <1>1, ConcatOf
<1>3. Precedes(more, NamePackets, JoinPackets)
  BY <1>1, Without
<1>. DEFINE all == sent \o more
<1>4. /\ Has(all, JoinPackets) <=> Has(sent, JoinPackets)
      /\ Has(all, NamePackets) <=> Has(sent, NamePackets)
      /\ Precedes(sent, NamePackets, JoinPackets) => Precedes(all, NamePackets, JoinPackets)
  BY <1>1, <1>2, <1>3
<1>. HIDE DEF all
<1>5. Named(after, all, got, seated)
  BY <1>4 DEF Named, SameScreen
<1>. QED
  BY <1>5 DEF all

LEMMA NamedTail ==
  ASSUME NEW app, NEW sent \in Seq(ClientPackets), sent # <<>>, NEW got, NEW seated,
         Named(app, sent, got, seated)
  PROVE  Named(app, Tail(sent), got, seated)
<1>1. /\ \A P : Has(Tail(sent), P) => Has(sent, P)
      /\ \A P, Q : Precedes(sent, P, Q) => Precedes(Tail(sent), P, Q)
  BY TailOf
<1>. QED
  BY <1>1 DEF Named

LEMMA NamedGets ==
  ASSUME NEW app \in Client, NEW sent, NEW got \in Seq(PacketsOfServer),
         NEW more \in Seq(PacketsOfServer), NEW seated, NEW now,
         Named(app, sent, got, seated), ~Has(more, NamePackets),
         now \/ Has(more, JoinPackets) \/ Has(more, Typed(StartTypes))
           => seated \/ (app.identified /\ ~Has(sent, NamePackets))
  PROVE  Named(app, sent, Delivery(app.open, got, more), now)
<1>. DEFINE all == Delivery(app.open, got, more)
<1>1. app.open \in BOOLEAN
  BY DEF Client
<1>2. \A P, Q : /\ Has(all, P) => Has(got, P) \/ Has(more, P)
                /\ /\ Precedes(got, P, Q) /\ Precedes(more, P, Q)
                   /\ ~(Has(got, Q) /\ Has(more, P))
                   => Precedes(all, P, Q)
  BY <1>1, DeliveryOf
<1>. HIDE DEF all
<1>3. \A Q : Precedes(more, NamePackets, Q)
  BY Without
<1>. QED
  BY <1>2, <1>3 DEF Named, all

LEMMA NamedAnswers ==
  ASSUME NEW app \in Client, NEW sent, NEW got \in Seq(PacketsOfServer),
         NEW more \in Seq(PacketsOfServer), NEW seated,
         Named(app, sent, got, seated),
         ~Has(more, JoinPackets), ~Has(more, Typed(StartTypes)),
         \/ ~Has(more, NamePackets)
         \/ ~(\/ seated \/ Has(got, JoinPackets) \/ Has(got, Typed(StartTypes))
              \/ app.gui = "lobby" \/ InGame(app))
  PROVE  Named(app, sent, Delivery(app.open, got, more), seated)
<1>. DEFINE all == Delivery(app.open, got, more)
<1>1. app.open \in BOOLEAN
  BY DEF Client
<1>2. \A P, Q : /\ Has(all, P) => Has(got, P) \/ Has(more, P)
                /\ /\ Precedes(got, P, Q) /\ Precedes(more, P, Q)
                   /\ ~(Has(got, Q) /\ Has(more, P))
                   => Precedes(all, P, Q)
  BY <1>1, DeliveryOf
<1>. HIDE DEF all
<1>3. \A P : Precedes(more, P, JoinPackets) /\ Precedes(more, P, Typed(StartTypes))
  BY Without
<1>. QED
  BY <1>2, <1>3 DEF Named, all

LEMMA NamesServed ==
  ASSUME TypeOK, NameInv, NEW c \in Conn, up[c] # <<>>, up' = [up EXCEPT ![c] = Tail(@)],
         client' = client, NEW got \in [Conn -> Seq(PacketsOfServer)], Delivered(got),
         Served(c, Head(up[c]), got), NEW q \in Conn
  PROVE  Named(client'[q], up'[q], down'[q], HasSeat(q)')
<1>. DEFINE app == client[q]
            sent == up[q]
            queue == down[q]
            packet == Head(up[c])
            rest == up'[q]
<1>1. /\ app \in Client /\ sent \in Seq(ClientPackets) /\ queue \in Seq(PacketsOfServer)
      /\ got[q] \in Seq(PacketsOfServer) /\ packet \in ClientPackets
  <2>1. /\ app \in Client /\ sent \in Seq(ClientPackets) /\ queue \in Seq(PacketsOfServer)
        /\ up[c] \in Seq(ClientPackets)
    BY QueueTypes
  <2>. QED
    BY <2>1, HeadAndTail
<1>2. down'[q] = Delivery(app.open, queue, got[q]) /\ client'[q] = app
  BY DEF Delivered, Delivery
<1>3. Named(app, sent, queue, HasSeat(q))
  BY DEF NameInv
<1>4. rest = IF q = c THEN Tail(up[c]) ELSE sent
  <2>1. up \in [Conn -> Seq(ClientPackets)]
    BY DEF TypeOK, ClientPackets
  <2>. QED
    BY <2>1
<1>5. packet \in Typed({packet.type}) /\ q = c => Has(sent, Typed({packet.type}))
  <2>1. packet \in Typed({packet.type})
    BY <1>1, Classes
  <2>2. ASSUME q = c PROVE Has(sent, Typed({packet.type}))
    <3>1. sent # <<>> /\ Head(sent) = packet
      BY <2>2
    <3>. HIDE DEF sent, packet
    <3>. QED
      BY <1>1, <2>1, <3>1, TailOf
  <2>. QED
    BY <2>1, <2>2
<1>. HIDE DEF app, sent, queue, packet, rest
<1>6. Named(app, rest, queue, HasSeat(q))
  <2>1. CASE q = c
    <3>1. sent # <<>> /\ rest = Tail(sent)
      BY <1>4, <2>1 DEF sent
    <3>. QED
      BY <1>1, <1>3, <3>1, NamedTail
  <2>2. CASE q # c
    BY <1>3, <1>4, <2>2
  <2>. QED
    BY <2>1, <2>2
<1>7. CASE \/ Relays(c, packet, got) \/ EndsNothing(c, packet, got)
           \/ \E k \in LobbyIds : EndsGame(c, packet, k, got)
  <2>1. /\ ~Has(got[q], NamePackets) /\ ~Has(got[q], JoinPackets)
        /\ ~Has(got[q], Typed(StartTypes))
    BY <1>7, GotClasses
  <2>2. HasSeat(q)' => HasSeat(q)
    <3>1. CASE Relays(c, packet, got) \/ EndsNothing(c, packet, got)
      BY <3>1 DEF Relays, EndsNothing, Quiet, HasSeat
    <3>2. CASE \E k \in LobbyIds : EndsGame(c, packet, k, got)
      BY <3>2, SeatedAfterEnd DEF HasSeat
    <3>. QED
      BY <1>7, <3>1, <3>2
  <2>3. Named(app, rest, Delivery(app.open, queue, got[q]), HasSeat(q)')
    BY <1>1, <1>6, <2>1, <2>2, NamedGets
  <2>. QED
    BY <1>2, <2>3 DEF rest
<1>8. CASE Identifies(c, packet, got)
  <2>1. /\ Has(got[q], NamePackets) => q = c
        /\ ~Has(got[q], JoinPackets) /\ ~Has(got[q], Typed(StartTypes))
    BY <1>8, GotClasses
  <2>2. HasSeat(q)' <=> HasSeat(q)
    BY <1>8 DEF Identifies, Quiet, HasSeat
  <2>3. q = c => Has(sent, NamePackets)
    BY <1>5, <1>8, <1>1, Classes DEF Identifies, NamePackets
  <2>4. q = c => ~(\/ HasSeat(q) \/ Has(queue, JoinPackets) \/ Has(queue, Typed(StartTypes))
                   \/ app.gui = "lobby" \/ InGame(app))
    BY <1>3, <2>3 DEF Named
  <2>5. Named(app, rest, Delivery(app.open, queue, got[q]), HasSeat(q))
    BY <1>1, <1>6, <2>1, <2>4, NamedAnswers
  <2>6. Named(app, rest, Delivery(app.open, queue, got[q]), HasSeat(q)')
    BY <2>2, <2>5 DEF Named
  <2>. QED
    BY <1>2, <2>6 DEF rest
<1>9. ASSUME NEW k \in LobbyIds, NEW s \in Seats, Joins(c, packet, k, s, got)
      PROVE  Named(client'[q], up'[q], down'[q], HasSeat(q)')
  <2>1. /\ ~Has(got[q], NamePackets)
        /\ Has(got[q], JoinPackets) => q = c
        /\ Has(got[q], Typed(StartTypes)) => IsSeated(lobbies'[k], q)
    BY <1>9, GotClasses
  <2>2. \A j \in LobbyIds : IsSeated(lobbies'[j], q) => q = c \/ HasSeat(q)
    BY <1>9, SeatedAfterJoin DEF HasSeat
  <2>3. HasSeat(q)' => q = c \/ HasSeat(q)
    BY <2>2 DEF HasSeat
  <2>4. q = c => app.identified /\ ~Has(rest, NamePackets)
    <3>. SUFFICES ASSUME q = c PROVE app.identified /\ ~Has(rest, NamePackets)
      OBVIOUS
    <3>1. Has(sent, JoinPackets)
      BY <1>5, <1>9, <1>1, Classes DEF Joins, JoinPackets
    <3>2. app.identified /\ Precedes(sent, NamePackets, JoinPackets)
      BY <1>3, <3>1 DEF Named
    <3>3. sent # <<>> /\ rest = Tail(sent) /\ Head(sent) = packet
      BY <1>4 DEF sent, packet
    <3>4. packet \in JoinPackets
      BY <1>9, <1>1, Classes DEF Joins, JoinPackets
    <3>5. Precedes(sent, NamePackets, JoinPackets)
            => ~(Head(sent) \in JoinPackets /\ Has(Tail(sent), NamePackets))
      BY <1>1, <3>3, TailOf
    <3>. QED
      BY <3>2, <3>3, <3>4, <3>5
  <2>5. Named(app, rest, Delivery(app.open, queue, got[q]), HasSeat(q)')
    BY <1>1, <1>6, <2>1, <2>2, <2>3, <2>4, NamedGets
  <2>. QED
    BY <1>2, <2>5 DEF rest
<1>. QED
  BY <1>7, <1>8, <1>9 DEF Served, packet

(* What one more packet of a client does, which may close its window.        *)
SameButOpen(app, before) ==
  /\ app.identified = before.identified /\ app.gui = before.gui
  /\ InGame(app) = InGame(before)
LEMMA NamedAppends ==
  ASSUME NEW app, NEW sent \in Seq(ClientPackets), NEW got, NEW seated, NEW type,
         NEW after, Named(app, sent, got, seated), SameButOpen(after, app),
         \/ type = "closed"
         \/ type = "clientIdentification" /\ ~app.identified
         \/ type = "joinLobby" /\ app.gui = "menu"
  PROVE  Named(after, Append(sent, Packet(type, 0)), got, seated)
<1>. DEFINE all == Append(sent, Packet(type, 0))
            packet == Packet(type, 0)
<1>1. packet \in ClientPackets /\ packet.type = type
  BY DEF Packet, ClientPackets, ClientTypes, GameNumbers
<1>. HIDE DEF packet
<1>2. \A P, Q : /\ Has(all, P) <=> Has(sent, P) \/ packet \in P
                /\ Precedes(all, P, Q) <=>
                     /\ Precedes(sent, P, Q) /\ ~(packet \in P /\ packet \in Q)
                     /\ ~(Has(sent, Q) /\ packet \in P)
  BY <1>1, AppendOf DEF packet
<1>. HIDE DEF all
<1>3. /\ packet \in NamePackets <=> type = "clientIdentification"
      /\ packet \in JoinPackets <=> type = "joinLobby"
  <2>1. \A types : packet \in Typed(types) <=> packet.type \in types
    BY <1>1, Classes
  <2>. QED
    BY <1>1, <2>1 DEF NamePackets, JoinPackets
<1>4. Named(after, all, got, seated)
  BY <1>2, <1>3 DEF Named, SameButOpen
<1>. QED
  BY <1>4 DEF all, packet

LEMMA NamesStep ==
  TypeOK /\ NameInv /\ [Next]_vars => NameInv'
<1>. SUFFICES ASSUME TypeOK, NameInv, [Next]_vars PROVE NameInv'
  OBVIOUS
<1>1. ASSUME NEW c \in Conn, OnlyClient(c),
             Named(client'[c], up'[c], down'[c], HasSeat(c))
      PROVE  NameInv'
  <2>1. ASSUME NEW q \in Conn PROVE Named(client'[q], up'[q], down'[q], HasSeat(q)')
    <3>1. HasSeat(q)' <=> HasSeat(q)
      BY <1>1 DEF OnlyClient, HasSeat
    <3>2. Named(client'[q], up'[q], down'[q], HasSeat(q))
      BY <1>1 DEF OnlyClient, NameInv
    <3>. QED
      BY <3>1, <3>2 DEF Named
  <2>. QED
    BY <2>1 DEF NameInv
<1>2. ASSUME NEW c \in Conn
      PROVE  /\ Named(client[c], up[c], down[c], HasSeat(c))
             /\ client[c] \in Client /\ up[c] \in Seq(ClientPackets)
             /\ down[c] \in Seq(PacketsOfServer)
  BY QueueTypes DEF NameInv
<1>3. ASSUME NEW c \in Conn, FrameReceive(c) PROVE NameInv'
  <2>1. PICK app \in Client : /\ Handles(client[c], Head(down[c]), app)
                              /\ \E after, sent : /\ FrameEffect(c, app, after, sent)
                                                  /\ client'[c] = after
                                                  /\ up'[c] = up[c] \o sent
    BY <1>3, ClientSteps
  <2>2. PICK after, sent : /\ FrameEffect(c, app, after, sent)
                           /\ client'[c] = after /\ up'[c] = up[c] \o sent
    BY <2>1
  <2>3. OnlyClient(c) /\ down[c] # <<>> /\ down'[c] = Tail(down[c])
    BY <1>3, ClientSteps
  <2>4. Named(app, up[c], Tail(down[c]), HasSeat(c))
    BY <1>2, <2>1, <2>3, NamedReceives
  <2>5. SameScreen(after, app) /\ sent \in Seq(GamePackets(app.match))
    BY <2>2 DEF FrameEffect
  <2>6. Named(after, up[c] \o sent, Tail(down[c]), HasSeat(c))
    BY <1>2, <2>4, <2>5, NamedFrame
  <2>. QED
    BY <1>1, <2>2, <2>3, <2>6
<1>4. ASSUME NEW c \in Conn, FrameIdle(c) PROVE NameInv'
  <2>1. PICK after, sent : /\ FrameEffect(c, client[c], after, sent)
                           /\ client'[c] = after /\ up'[c] = up[c] \o sent
    BY <1>4, ClientSteps
  <2>2. OnlyClient(c) /\ down'[c] = down[c]
    BY <1>4, ClientSteps
  <2>3. SameScreen(after, client[c]) /\ sent \in Seq(GamePackets(client[c].match))
    BY <2>1 DEF FrameEffect
  <2>4. Named(after, up[c] \o sent, down[c], HasSeat(c))
    BY <1>2, <2>3, NamedFrame
  <2>. QED
    BY <1>1, <2>1, <2>2, <2>4
<1>5. ASSUME NEW c \in Conn, Identify(c) \/ Play(c) \/ CloseWindow(c) PROVE NameInv'
  <2>1. PICK type : /\ up'[c] = Append(up[c], Packet(type, 0))
                    /\ \/ type = "closed"
                       \/ type = "clientIdentification" /\ ~client[c].identified
                       \/ type = "joinLobby" /\ client[c].gui = "menu"
    BY <1>5, ClientSteps
  <2>2. /\ OnlyClient(c) /\ down'[c] = down[c]
        /\ client'[c] \in {client[c], [client[c] EXCEPT !.open = FALSE]}
    BY <1>5, ClientSteps
  <2>3. SameButOpen(client'[c], client[c])
    BY <1>2, <2>2 DEF SameButOpen, Client, InGame
  <2>4. Named(client'[c], Append(up[c], Packet(type, 0)), down[c], HasSeat(c))
    BY <1>2, <2>1, <2>3, NamedAppends
  <2>. QED
    BY <1>1, <2>1, <2>2, <2>4
<1>6. ASSUME NEW c \in Conn, LeaveGame(c) PROVE NameInv'
  <2>1. /\ OnlyClient(c) /\ client'[c] = AfterLeaving(client[c]) /\ InGame(client[c])
        /\ up'[c] = up[c] /\ down'[c] = down[c]
    BY <1>6, ClientSteps
  <2>2. /\ AfterLeaving(client[c]).identified = client[c].identified
        /\ ~InGame(AfterLeaving(client[c]))
        /\ AfterLeaving(client[c]).gui = "lobby" => client[c].gui = "lobby"
    BY <1>2 DEF AfterLeaving, Client, InGame, Deinit, Game
  <2>3. Named(AfterLeaving(client[c]), up[c], down[c], HasSeat(c))
    BY <1>2, <2>1, <2>2 DEF Named
  <2>. QED
    BY <1>1, <2>1, <2>3
<1>7. ASSUME NEW c \in Conn, Serve(c) PROVE NameInv'
  <2>1. /\ up[c] # <<>> /\ up' = [up EXCEPT ![c] = Tail(@)] /\ client' = client
        /\ \/ Overflows(Head(up[c]))
           \/ \E got \in [Conn -> Seq(PacketsOfServer)] :
                Delivered(got) /\ Served(c, Head(up[c]), got)
    BY <1>7, ServeEffects
  <2>2. CASE Overflows(Head(up[c]))
    <3>1. ASSUME NEW q \in Conn PROVE Named(client'[q], up'[q], down'[q], HasSeat(q)')
      <4>1. down'[q] = down[q] /\ client'[q] = client[q] /\ (HasSeat(q)' <=> HasSeat(q))
        BY <2>1, <2>2 DEF Overflows, Quiet, HasSeat
      <4>2. up'[q] = IF q = c THEN Tail(up[c]) ELSE up[q]
        BY <2>1 DEF TypeOK
      <4>3. Named(client[q], up'[q], down[q], HasSeat(q))
        BY <1>2, <2>1, <4>2, NamedTail
      <4>. QED
        BY <4>1, <4>3 DEF Named
    <3>. QED
      BY <3>1 DEF NameInv
  <2>3. ASSUME NEW got \in [Conn -> Seq(PacketsOfServer)], Delivered(got),
               Served(c, Head(up[c]), got)
        PROVE  NameInv'
    <3>1. \A q \in Conn : Named(client'[q], up'[q], down'[q], HasSeat(q)')
      BY <2>1, <2>3, NamesServed
    <3>. QED
      BY <3>1 DEF NameInv
  <2>. QED
    BY <2>1, <2>2, <2>3
<1>8. CASE UNCHANGED vars
  BY <1>8 DEF vars, NameInv, HasSeat
<1>. QED
  BY <1>3, <1>4, <1>5, <1>6, <1>7, <1>8 DEF Next

LEMMA NamesStart ==
  Init => NameInv
<1>. SUFFICES ASSUME Init, NEW c \in Conn
              PROVE  Named(client[c], up[c], down[c], HasSeat(c))
  BY DEF NameInv
<1>1. up[c] = <<>> /\ down[c] = <<>>
  BY DEF Init
<1>2. ~HasSeat(c)
  BY EmptyLobbies, TypesStart DEF Init, HasSeat
<1>3. client[c] \in {NewClient, MenuClient}
  BY DEF Init
<1>4. /\ client[c].gui = "menu" => client[c].identified
      /\ client[c].gui # "lobby" /\ ~InGame(client[c])
  <2>1. NewClient.game.playing = FALSE /\ NewClient.gui = "identification"
    BY DEF NewClient, NewGame
  <2>2. MenuClient.game = NewClient.game /\ MenuClient.gui = "menu" /\ MenuClient.identified
    BY DEF MenuClient, NewClient
  <2>. QED
    BY <1>3, <2>1, <2>2 DEF InGame
<1>. QED
  BY <1>1, <1>2, <1>4, EmptyOf DEF Named

(* A player is never taken out of a game by the answer to a second name: the *)
(* client shows the text field until the first answer, and the answer to a   *)
(* name is before what the server does with a Play of the menu behind it.    *)
THEOREM NamesComeFirst == Spec => []IdentificationNeverInterrupts
<1>1. TypeOK /\ NameInv => IdentificationNeverInterrupts
  <2>. SUFFICES ASSUME TypeOK, NameInv, NEW c \in Conn, InGame(client[c]),
                       NEW n \in DOMAIN down[c], down[c][n].type = "clientIdentification"
                PROVE  FALSE
    BY DEF IdentificationNeverInterrupts
  <2>1. ~Has(down[c], NamePackets)
    BY DEF NameInv, Named
  <2>2. down[c][n] \in PacketsOfServer
    BY QueueTypes, LenProperties, ElementOfSeq
  <2>. QED
    BY <2>1, <2>2, Classes DEF Has, NamePackets
<1>. QED
  BY <1>1, TypeCorrect, NamesStart, NamesStep, PTL DEF Spec

-----------------------------------------------------------------------------
(* Waiting lobbies.                                                          *)

FilledInOrder ==
  ~reopened => \A j, k \in LobbyIds : j < k /\ IsWaiting(k) => IsComplete(lobbies[j])

LEMMA FilledStep ==
  ASSUME TypeOK, FilledInOrder, NEW c \in Conn, NEW packet, NEW got,
         Served(c, packet, got)
  PROVE  FilledInOrder'
<1>. SUFFICES ASSUME ~reopened', NEW i \in LobbyIds, NEW l \in LobbyIds, i < l,
                     IsWaiting(l)'
              PROVE  IsComplete(lobbies'[i])
  BY DEF FilledInOrder
<1>1. /\ lobbies \in [LobbyIds -> Lobby] /\ i # l
      /\ ~(i < i) /\ (l < i => FALSE)
  BY DEF TypeOK, ServerTypeOK, LobbyIds
<1>2. ASSUME ~reopened, IsWaiting(l) PROVE IsComplete(lobbies[i])
  BY <1>2 DEF FilledInOrder
<1>3. CASE Relays(c, packet, got) \/ Identifies(c, packet, got) \/ EndsNothing(c, packet, got)
  <2>1. lobbies' = lobbies /\ reopened' = reopened
    BY <1>3 DEF Relays, Identifies, EndsNothing, Quiet
  <2>. QED
    BY <1>2, <2>1 DEF IsWaiting
<1>4. ASSUME NEW k \in LobbyIds, EndsGame(c, packet, k, got) PROVE IsComplete(lobbies'[i])
  <2>1. /\ lobbies' = [lobbies EXCEPT ![k] = EmptyLobby] /\ ~reopened
        /\ \A j \in LobbyIds : j > k => ~IsWaiting(j)
    BY <1>4 DEF EndsGame
  <2>2. l # k
    <3>1. lobbies'[k] = EmptyLobby
      BY <1>1, <2>1
    <3>. QED
      BY <3>1, EmptyLobbies DEF IsWaiting
  <2>3. IsWaiting(l) /\ i # k
    <3>1. lobbies'[l] = lobbies[l]
      BY <1>1, <2>1, <2>2
    <3>2. IsWaiting(l)
      BY <3>1 DEF IsWaiting
    <3>3. i = k => l > k
      BY DEF LobbyIds
    <3>. QED
      BY <2>1, <3>2, <3>3
  <2>4. lobbies'[i] = lobbies[i]
    BY <1>1, <2>1, <2>3
  <2>. QED
    BY <1>2, <2>1, <2>3, <2>4
<1>5. ASSUME NEW k \in LobbyIds, NEW s \in Seats, Joins(c, packet, k, s, got)
      PROVE  IsComplete(lobbies'[i])
  <2>1. /\ \A j \in LobbyIds : j # k => lobbies'[j] = lobbies[j]
        /\ reopened' = reopened /\ ~IsComplete(lobbies[k])
        /\ \A j \in LobbyIds : j < k => IsComplete(lobbies[j])
    BY <1>1, <1>5 DEF Joins, IsFirstOpen
  <2>2. CASE l = k
    BY <1>1, <2>1, <2>2
  <2>3. CASE l # k
    <3>1. IsWaiting(l)
      BY <2>1, <2>3 DEF IsWaiting
    <3>2. IsComplete(lobbies[i])
      BY <1>2, <2>1, <3>1
    <3>. QED
      BY <2>1, <3>2
  <2>. QED
    BY <2>2, <2>3
<1>. QED
  BY <1>3, <1>4, <1>5 DEF Served

LEMMA FilledNext ==
  TypeOK /\ FilledInOrder /\ [Next]_vars => FilledInOrder'
<1>. SUFFICES ASSUME TypeOK, FilledInOrder, [Next]_vars PROVE FilledInOrder'
  OBVIOUS
<1>1. ASSUME lobbies' = lobbies, reopened' = reopened PROVE FilledInOrder'
  BY <1>1 DEF FilledInOrder, IsWaiting
<1>2. ASSUME NEW c \in Conn, Serve(c) PROVE FilledInOrder'
  <2>1. CASE Overflows(Head(up[c]))
    BY <1>1, <2>1 DEF Overflows, Quiet
  <2>. QED
    BY <1>2, <2>1, ServeEffects, FilledStep
<1>3. CASE UNCHANGED vars
  BY <1>1, <1>3 DEF vars
<1>. QED
  BY <1>1, <1>2, <1>3 DEF Next, FrameReceive, FrameIdle, Identify, Play, LeaveGame,
                          CloseWindow, serverVars

LEMMA FilledStart ==
  Init => FilledInOrder
<1>. SUFFICES ASSUME Init, NEW k \in LobbyIds, IsWaiting(k) PROVE FALSE
  BY DEF FilledInOrder
<1>1. lobbies[k] = EmptyLobby
  BY DEF Init
<1>. QED
  BY <1>1, EmptyLobbies, TypesStart DEF IsWaiting

(* Two who wait are in one lobby, as long as no lobby was freed below one    *)
(* where somebody waits: find_if in AddClientToLobby takes the first lobby   *)
(* that is not complete, so the lobbies below a waiting one are all full.    *)
THEOREM WhoWaitsIsMatched == Spec => []MatchedPromptly
<1>1. TypeOK /\ FilledInOrder => MatchedPromptly
  <2>. SUFFICES ASSUME FilledInOrder, ~reopened, NEW j \in LobbyIds, NEW k \in LobbyIds,
                       IsWaiting(j), IsWaiting(k)
                PROVE  j = k
    BY DEF MatchedPromptly
  <2>1. ~(j < k) /\ ~(k < j)
    BY DEF FilledInOrder, IsWaiting
  <2>. QED
    BY <2>1 DEF LobbyIds
<1>. QED
  BY <1>1, TypeCorrect, FilledStart, FilledNext, PTL DEF Spec

-----------------------------------------------------------------------------
(* Clients that are never hasty.                                             *)

(* What a player sits at: whether the lobby is full, and the game it is for. *)
SeatsIn(table, numbers, c) ==
  {[full |-> IsComplete(table[k]), of |-> numbers[k]] :
     k \in {k \in LobbyIds : IsSeated(table[k], c)}}
OneSeatIn(table, c) ==
  \A j, k \in LobbyIds, s, t \in Seats :
    table[j][s].port = c /\ table[k][t].port = c => j = k /\ s = t

SeatsOf(c) == SeatsIn(lobbies, number, c)
OneSeat(c) == OneSeatIn(lobbies, c)

(* What a player has sent or is about to get since sitting there is about    *)
(* the lobby's game.                                                         *)
AtTable(app, sent, got, dropped, live, seat) ==
  /\ Has(sent, Typed(GameTypes)) => seat.full /\ ~Has(sent, NotOf(GameTypes, seat.of))
  /\ InGame(app) => seat.full /\ app.match = seat.of
  /\ Has(got, Typed(StartTypes)) => seat.full /\ ~Has(got, NotOf(StartTypes, seat.of))
  /\ app.open /\ ~seat.full => Has(got, JoinPackets) \/ app.gui = "lobby"
  /\ live /\ seat.full => ~dropped

(* Who has asked for a seat has none, and sends nothing more.                *)
Asks(app, sent, got, seats) ==
  /\ Has(sent, JoinPackets) =>
        seats = {} /\ ~Has(got, Typed(StartTypes)) /\ ~InGame(app)
  /\ Once(sent, JoinPackets)
  /\ Precedes(sent, Typed(ClientTypes \ {"closed", "joinLobby"}), JoinPackets)

(* The answer, the start of a game and the packets of that game come in      *)
(* order, and the last game is over before the start.                        *)
InOrder(app, got) ==
  /\ Has(got, Typed(StartTypes)) => ~InGame(app)
  /\ Once(got, Typed(StartTypes)) /\ Precedes(got, JoinPackets, Typed(StartTypes))
  /\ \A g \in GameNumbers : Precedes(got, NotOf(GameTypes, g), Of(StartTypes, g))
  /\ InGame(app) => ~Has(got, NotOf(GameTypes, app.match))

(* Who waits has a seat or a start to come.                                  *)
Waits(app, got, live, seats) ==
  app.open =>
    /\ Has(got, JoinPackets) \/ app.gui = "lobby" =>
         /\ ~InGame(app)
         /\ Has(got, Typed(StartTypes)) \/ \E seat \in seats : ~seat.full \/ ~live
    /\ Has(got, Typed(StartTypes)) => Has(got, JoinPackets) \/ app.gui = "lobby"

(* A game under way has its lobby, or its verdict is under way.              *)
HasTable(seats, g) == \E seat \in seats : seat.of = g
Ends(app, got, seats) ==
  app.open =>
    /\ \A g \in GameNumbers : Has(got, Of(StartTypes, g)) =>
         ~Precedes(got, Typed(Verdicts), Of(StartTypes, g)) \/ HasTable(seats, g)
    /\ InGame(app) /\ ~app.game.is_game_finished =>
         Has(got, Typed(Verdicts)) \/ HasTable(seats, app.match)

Leaves(app, sent, dropped) ==
  /\ dropped \/ Has(sent, Typed({"closed"})) => ~app.open
  /\ app.tables = IF InGame(app) THEN 1 ELSE 0

Patient(app, sent, got, dropped, live, seats) ==
  /\ \A seat \in seats : AtTable(app, sent, got, dropped, live, seat)
  /\ Asks(app, sent, got, seats) /\ InOrder(app, got) /\ Waits(app, got, live, seats)
  /\ Ends(app, got, seats) /\ Leaves(app, sent, dropped)

PatientNow ==
  \A c \in Conn :
    OneSeat(c) /\ Patient(client[c], up[c], down[c], c \in gone, alive, SeatsOf(c))
PatientInv == ~hasty => ~crossed /\ PatientNow

-----------------------------------------------------------------------------
(* Patient clients: the steps of the client.                                 *)

(* What the frame sends is about the game the client plays.                  *)
LEMMA PatientFrame ==
  ASSUME NEW app \in Client, NEW sent \in Seq(ClientPackets), NEW got, NEW dropped,
         NEW live, NEW seats, Patient(app, sent, got, dropped, live, seats),
         NEW after, SameScreen(after, app),
         app.game.is_game_finished => after.game.is_game_finished,
         NEW more \in Seq(GamePackets(app.match)), ~InGame(app) => more = <<>>
  PROVE  Patient(after, sent \o more, got, dropped, live, seats)
<1>. DEFINE all == sent \o more
            other == Typed(ClientTypes \ {"closed", "joinLobby"})
<1>1. /\ more \in Seq(ClientPackets)
      /\ ~Has(more, JoinPackets) /\ ~Has(more, Typed({"closed"}))
      /\ ~Has(more, NotOf(GameTypes, app.match))
  BY SentClasses
<1>2. \A P : ~InGame(app) => ~Has(more, P)
  BY EmptyOf
<1>3. \A P, Q : /\ Has(all, P) <=> Has(sent, P) \/ Has(more, P)
                /\ Once(all, P) <=>
                     Once(sent, P) /\ Once(more, P) /\ ~(Has(sent, P) /\ Has(more, P))
                /\ Precedes(all, P, Q) <=>
                     /\ Precedes(sent, P, Q) /\ Precedes(more, P, Q)
                     /\ ~(Has(sent, Q) /\ Has(more, P))
  BY <1>1, ConcatOf
<1>4. Once(more, JoinPackets) /\ Precedes(more, other, JoinPackets)
  BY <1>1, Without
<1>. HIDE DEF all, other
<1>5. /\ \A P : Has(all, P) => Has(sent, P) \/ InGame(app)
      /\ Has(all, JoinPackets) <=> Has(sent, JoinPackets)
      /\ Has(all, Typed({"closed"})) <=> Has(sent, Typed({"closed"}))
      /\ Has(all, NotOf(GameTypes, app.match)) => Has(sent, NotOf(GameTypes, app.match))
      /\ ~InGame(app) => \A P : Has(all, P) => Has(sent, P)
  BY <1>1, <1>2, <1>3
<1>6. ASSUME NEW seat \in seats PROVE AtTable(after, all, got, dropped, live, seat)
  <2>1. AtTable(app, sent, got, dropped, live, seat)
    BY DEF Patient
  <2>2. Has(all, Typed(GameTypes)) => seat.full /\ ~Has(all, NotOf(GameTypes, seat.of))
    <3>1. Has(sent, NotOf(GameTypes, seat.of)) => Has(sent, Typed(GameTypes))
      BY DEF Has, NotOf, Typed
    <3>2. CASE InGame(app)
      <4>1. seat.full /\ app.match = seat.of /\ ~Has(sent, NotOf(GameTypes, seat.of))
        BY <2>1, <3>1, <3>2 DEF AtTable
      <4>2. ~Has(all, NotOf(GameTypes, app.match))
        BY <1>5, <4>1
      <4>. QED
        BY <4>1, <4>2
    <3>3. CASE ~InGame(app)
      <4>1. \A P : Has(all, P) => Has(sent, P)
        BY <1>5, <3>3
      <4>2. Has(sent, Typed(GameTypes)) => seat.full /\ ~Has(sent, NotOf(GameTypes, seat.of))
        BY <2>1 DEF AtTable
      <4>. QED
        BY <4>1, <4>2
    <3>. QED
      BY <3>2, <3>3
  <2>. QED
    BY <2>1, <2>2 DEF AtTable, SameScreen
<1>7. Asks(after, all, got, seats)
  <2>1. Asks(app, sent, got, seats)
    BY DEF Patient
  <2>2. Once(all, JoinPackets)
    BY <1>1, <1>3, <1>4, <2>1 DEF Asks
  <2>3. Precedes(all, other, JoinPackets)
    BY <1>2, <1>3, <1>4, <2>1 DEF Asks, other
  <2>. QED
    BY <1>5, <2>1, <2>2, <2>3 DEF Asks, SameScreen, other
<1>8. InOrder(after, got) /\ Waits(after, got, live, seats) /\ Ends(after, got, seats)
  BY DEF Patient, InOrder, Waits, Ends, SameScreen
<1>9. Leaves(after, all, dropped)
  BY <1>5 DEF Patient, Leaves, SameScreen
<1>10. Patient(after, all, got, dropped, live, seats)
  BY <1>6, <1>7, <1>8, <1>9 DEF Patient
<1>. QED
  BY <1>10 DEF all

LEMMA PatientReceives ==
  ASSUME NEW app \in Client, app.open, NEW sent, NEW got \in Seq(PacketsOfServer),
         got # <<>>, NEW dropped, NEW live, NEW seats,
         Patient(app, sent, got, dropped, live, seats),
         NEW seated, Named(app, sent, got, seated),
         NEW after, Handles(app, Head(got), after)
  PROVE  Patient(after, sent, Tail(got), dropped, live, seats)
<1>. DEFINE packet == Head(got)
            rest == Tail(got)
<1>1. packet \in PacketsOfServer /\ packet.of \in GameNumbers
  <2>1. packet \in PacketsOfServer
    BY HeadAndTail
  <2>. QED
    BY <2>1 DEF PacketsOfServer
<1>2. /\ \A types : packet \in Typed(types) <=> packet.type \in types
      /\ \A types, g : /\ packet \in Of(types, g) <=> packet.type \in types /\ packet.of = g
                       /\ packet \in NotOf(types, g) <=>
                            packet.type \in types /\ packet.of # g
  BY <1>1, Classes
<1>3. /\ \A P : Has(got, P) <=> packet \in P \/ Has(rest, P)
      /\ \A P : Once(got, P) => Once(rest, P) /\ ~(packet \in P /\ Has(rest, P))
      /\ \A P, Q : Precedes(got, P, Q) <=>
            /\ Precedes(rest, P, Q)
            /\ ~(packet \in Q /\ (packet \in P \/ Has(rest, P)))
  BY TailOf
<1>4. /\ \A seat \in seats : AtTable(app, sent, got, dropped, live, seat)
      /\ Asks(app, sent, got, seats) /\ InOrder(app, got) /\ Waits(app, got, live, seats)
      /\ Ends(app, got, seats) /\ Leaves(app, sent, dropped)
  BY DEF Patient
<1>. HIDE DEF packet, rest
<1>5. SUFFICES /\ \A seat \in seats : AtTable(after, sent, rest, dropped, live, seat)
               /\ Asks(after, sent, rest, seats) /\ InOrder(after, rest)
               /\ Waits(after, rest, live, seats) /\ Ends(after, rest, seats)
               /\ Leaves(after, sent, dropped)
  BY DEF Patient, rest
(* The tail, when the packet does not start a game.                          *)
<1>6. ASSUME packet.type \notin StartTypes
      PROVE  /\ Has(rest, Typed(StartTypes)) <=> Has(got, Typed(StartTypes))
             /\ \A g \in GameNumbers :
                  /\ Has(rest, Of(StartTypes, g)) <=> Has(got, Of(StartTypes, g))
                  /\ Has(rest, NotOf(StartTypes, g)) <=> Has(got, NotOf(StartTypes, g))
                  /\ Precedes(rest, Typed(Verdicts), Of(StartTypes, g)) <=>
                       Precedes(got, Typed(Verdicts), Of(StartTypes, g))
  BY <1>2, <1>3, <1>6
<1>7. /\ \A P : Has(rest, P) => Has(got, P)
      /\ Once(rest, Typed(StartTypes)) /\ Precedes(rest, JoinPackets, Typed(StartTypes))
      /\ \A g \in GameNumbers : Precedes(rest, NotOf(GameTypes, g), Of(StartTypes, g))
  BY <1>3, <1>4 DEF InOrder
<1>8. CASE packet.type = "joinLobby" /\ after = OnJoinLobby(app)
  <2>1. /\ after.open = app.open /\ after.gui = "lobby" /\ after.tables = app.tables
        /\ after.match = app.match /\ after.game = app.game
        /\ (InGame(after) <=> InGame(app))
    BY <1>8 DEF OnJoinLobby, InGame, Client
  <2>2. ~InGame(app)
    BY <1>2, <1>3, <1>4, <1>8 DEF Waits, JoinPackets
  <2>3. packet.type \notin StartTypes
    BY <1>8 DEF StartTypes
  <2>4. \A seat \in seats : AtTable(after, sent, rest, dropped, live, seat)
    BY <1>4, <1>7, <2>1, <2>2 DEF AtTable
  <2>5. Asks(after, sent, rest, seats) /\ InOrder(after, rest)
    BY <1>4, <1>7, <2>1, <2>2 DEF Asks, InOrder
  <2>6. Waits(after, rest, live, seats)
    BY <1>2, <1>3, <1>4, <1>6, <1>8, <2>1, <2>2, <2>3 DEF Waits, JoinPackets
  <2>7. Ends(after, rest, seats) /\ Leaves(after, sent, dropped)
    BY <1>4, <1>6, <2>1, <2>2, <2>3 DEF Ends, Leaves
  <2>. QED
    BY <2>4, <2>5, <2>6, <2>7
<1>9. CASE packet.type = "clientIdentification" /\ after = OnIdentification(app)
  <2>1. ~InGame(app) /\ app.gui # "lobby"
    BY <1>2, <1>3, <1>9 DEF Named, NamePackets
  <2>2. /\ after.open = app.open /\ after.gui = "menu" /\ after.tables = app.tables
        /\ ~InGame(after)
    BY <1>9 DEF OnIdentification, InGame, Client, Game
  <2>3. packet.type \notin StartTypes /\ packet.type \notin {"joinLobby"}
    BY <1>9 DEF StartTypes
  <2>4. Has(rest, JoinPackets) <=> Has(got, JoinPackets)
    BY <1>2, <1>3, <2>3 DEF JoinPackets
  <2>5. \A seat \in seats : AtTable(after, sent, rest, dropped, live, seat)
    BY <1>4, <1>7, <2>1, <2>2, <2>4 DEF AtTable
  <2>6. Asks(after, sent, rest, seats) /\ InOrder(after, rest)
    BY <1>4, <1>7, <2>1, <2>2 DEF Asks, InOrder
  <2>7. Waits(after, rest, live, seats)
    BY <1>4, <1>6, <2>1, <2>2, <2>3, <2>4 DEF Waits
  <2>8. Ends(after, rest, seats) /\ Leaves(after, sent, dropped)
    BY <1>4, <1>6, <2>1, <2>2, <2>3 DEF Ends, Leaves
  <2>. QED
    BY <2>5, <2>6, <2>7, <2>8
<1>10. ASSUME NEW p \in Player, packet.type = Starts[p],
              after = OnStartGame(app, p, packet.of)
       PROVE  /\ \A seat \in seats : AtTable(after, sent, rest, dropped, live, seat)
              /\ Asks(after, sent, rest, seats) /\ InOrder(after, rest)
              /\ Waits(after, rest, live, seats) /\ Ends(after, rest, seats)
              /\ Leaves(after, sent, dropped)
  <2>1. /\ after.open = app.open /\ after.gui = "none" /\ after.tables = app.tables + 1
        /\ after.match = packet.of /\ InGame(after)
    BY <1>10 DEF OnStartGame, InitGame, InGame, Client, Game
  <2>2. packet.type \in StartTypes /\ packet.type \notin Verdicts
    BY <1>10 DEF StartTypes, Starts, Player, Verdicts
  <2>3. /\ packet \in Typed(StartTypes) /\ packet \in Of(StartTypes, packet.of)
        /\ packet \notin Typed(Verdicts)
        /\ \A g \in GameNumbers : g # packet.of => packet \in NotOf(StartTypes, g)
    BY <1>2, <2>2
  <2>4. ~InGame(app) /\ ~Has(sent, JoinPackets)
    BY <1>3, <1>4, <2>3 DEF InOrder, Asks
  <2>5. ~Has(rest, Typed(StartTypes)) /\ ~Has(rest, JoinPackets)
    BY <1>3, <1>4, <2>3 DEF InOrder
  <2>6. ~Has(rest, NotOf(GameTypes, packet.of))
    BY <1>1, <1>3, <1>4, <2>3 DEF InOrder
  <2>7. \A seat \in seats : seat.full /\ packet.of = seat.of
    <3>1. ASSUME NEW seat \in seats PROVE seat.full /\ ~Has(got, NotOf(StartTypes, seat.of))
      BY <1>3, <1>4, <2>3 DEF AtTable
    <3>. QED
      BY <1>2, <1>3, <2>2, <3>1
  <2>8. \A seat \in seats : AtTable(after, sent, rest, dropped, live, seat)
    BY <1>4, <2>1, <2>5, <2>7 DEF AtTable
  <2>9. Asks(after, sent, rest, seats) /\ InOrder(after, rest)
    BY <1>4, <1>7, <2>1, <2>4, <2>5, <2>6 DEF Asks, InOrder
  <2>10. Waits(after, rest, live, seats)
    BY <2>1, <2>5 DEF Waits
  <2>11. Ends(after, rest, seats)
    <3>1. \A g \in GameNumbers : ~Has(rest, Of(StartTypes, g))
      BY <2>5 DEF Has, Of, Typed
    <3>2. \/ ~Precedes(got, Typed(Verdicts), Of(StartTypes, packet.of))
          \/ HasTable(seats, packet.of)
      BY <1>1, <1>3, <1>4, <2>3 DEF Ends
    <3>3. Precedes(rest, Typed(Verdicts), Of(StartTypes, packet.of))
      BY <1>1, <3>1, Without
    <3>4. Has(rest, Typed(Verdicts)) \/ HasTable(seats, packet.of)
      BY <1>3, <2>3, <3>2, <3>3
    <3>. QED
      BY <2>1, <3>1, <3>4 DEF Ends
  <2>12. Leaves(after, sent, dropped)
    <3>1. app.tables = 0
      BY <1>4, <2>4 DEF Leaves
    <3>. QED
      BY <1>4, <2>1, <3>1 DEF Leaves
  <2>. QED
    BY <2>8, <2>9, <2>10, <2>11, <2>12
<1>11. CASE /\ packet.type \in {"newTurn", "cueBallVelocity"} \cup Verdicts
            /\ SameScreen(after, app)
            /\ app.game.is_game_finished => after.game.is_game_finished
            /\ InGame(app) /\ packet.type \in Verdicts => after.game.is_game_finished
  <2>1. packet.type \notin StartTypes /\ packet.type \notin {"joinLobby"}
    BY <1>11 DEF StartTypes, Verdicts
  <2>2. Has(rest, JoinPackets) <=> Has(got, JoinPackets)
    BY <1>2, <1>3, <2>1 DEF JoinPackets
  <2>3. \A seat \in seats : AtTable(after, sent, rest, dropped, live, seat)
    BY <1>4, <1>7, <1>11, <2>2 DEF AtTable, SameScreen
  <2>4. Asks(after, sent, rest, seats) /\ InOrder(after, rest)
    BY <1>4, <1>7, <1>11 DEF Asks, InOrder, SameScreen
  <2>5. Waits(after, rest, live, seats)
    BY <1>4, <1>6, <1>11, <2>1, <2>2 DEF Waits, SameScreen
  <2>6. Ends(after, rest, seats)
    <3>1. \A g \in GameNumbers : Has(rest, Of(StartTypes, g)) /\ app.open =>
            \/ ~Precedes(rest, Typed(Verdicts), Of(StartTypes, g))
            \/ HasTable(seats, g)
      BY <1>4, <1>6, <2>1 DEF Ends
    <3>2. InGame(app) /\ ~after.game.is_game_finished /\ app.open =>
            Has(rest, Typed(Verdicts)) \/ HasTable(seats, app.match)
      BY <1>2, <1>3, <1>4, <1>11 DEF Ends
    <3>. QED
      BY <1>11, <3>1, <3>2 DEF Ends, SameScreen
  <2>7. Leaves(after, sent, dropped)
    BY <1>4, <1>11 DEF Leaves, SameScreen
  <2>. QED
    BY <2>3, <2>4, <2>5, <2>6, <2>7
<1>. QED
  BY <1>8, <1>9, <1>10, <1>11 DEF Handles, packet

(* A client that sends a name, a Play or the end of its connection.          *)
LEMMA PatientSends ==
  ASSUME NEW app, NEW sent \in Seq(ClientPackets), NEW got, NEW dropped, NEW live,
         NEW seats, Patient(app, sent, got, dropped, live, seats), NEW after,
         SameButOpen(after, app), after.open => app.open, after.tables = app.tables,
         after.match = app.match, after.game = app.game, NEW type,
         \/ type = "clientIdentification" /\ after.open = app.open /\ ~Has(sent, JoinPackets)
         \/ /\ type = "joinLobby" /\ after.open = app.open /\ ~Has(sent, JoinPackets)
            /\ seats = {} /\ ~Has(got, Typed(StartTypes)) /\ ~InGame(app)
         \/ type = "closed" /\ ~after.open
  PROVE  Patient(after, Append(sent, Packet(type, 0)), got, dropped, live, seats)
<1>. DEFINE packet == Packet(type, 0)
            all == Append(sent, packet)
            other == Typed(ClientTypes \ {"closed", "joinLobby"})
<1>1. packet \in ClientPackets /\ packet.type = type
  BY DEF Packet, ClientPackets, ClientTypes, GameNumbers
<1>. HIDE DEF packet
<1>2. \A P, Q : /\ Has(all, P) <=> Has(sent, P) \/ packet \in P
                /\ Once(all, P) <=> Once(sent, P) /\ ~(Has(sent, P) /\ packet \in P)
                /\ Precedes(all, P, Q) <=>
                     /\ Precedes(sent, P, Q) /\ ~(packet \in P /\ packet \in Q)
                     /\ ~(Has(sent, Q) /\ packet \in P)
  BY <1>1, AppendOf
<1>3. /\ \A types : packet \in Typed(types) <=> type \in types
      /\ \A types, g : packet \in NotOf(types, g) => type \in types
  BY <1>1, Classes
<1>. HIDE DEF all, other
<1>4. /\ packet \in JoinPackets <=> type = "joinLobby"
      /\ packet \in Typed({"closed"}) <=> type = "closed"
      /\ packet \notin Typed(GameTypes) /\ \A g : packet \notin NotOf(GameTypes, g)
      /\ packet \in other => type # "closed" /\ type # "joinLobby"
  <2>1. type \notin GameTypes
    BY DEF GameTypes, Verdicts
  <2>. QED
    BY <1>3, <2>1 DEF JoinPackets, other
<1>5. ASSUME NEW seat \in seats PROVE AtTable(after, all, got, dropped, live, seat)
  <2>1. AtTable(app, sent, got, dropped, live, seat)
    BY DEF Patient
  <2>. QED
    BY <1>2, <1>4, <2>1 DEF AtTable, SameButOpen
<1>6. Asks(after, all, got, seats)
  <2>1. Asks(app, sent, got, seats)
    BY DEF Patient
  <2>2. Once(all, JoinPackets) /\ Precedes(all, other, JoinPackets)
    BY <1>2, <1>4, <2>1 DEF Asks, other
  <2>. QED
    BY <1>2, <1>4, <2>1, <2>2 DEF Asks, SameButOpen, other
<1>7. InOrder(after, got) /\ Waits(after, got, live, seats) /\ Ends(after, got, seats)
  BY DEF Patient, InOrder, Waits, Ends, SameButOpen
<1>8. Leaves(after, all, dropped)
  BY <1>2, <1>4 DEF Patient, Leaves, SameButOpen
<1>9. Patient(after, all, got, dropped, live, seats)
  BY <1>5, <1>6, <1>7, <1>8 DEF Patient
<1>. QED
  BY <1>9 DEF all, packet

LEMMA PatientLeaves ==
  ASSUME NEW app \in Client, InGame(app), NEW sent, NEW got, NEW dropped, NEW live,
         NEW seats, Patient(app, sent, got, dropped, live, seats)
  PROVE  Patient(AfterLeaving(app), sent, got, dropped, live, seats)
<1>. DEFINE after == AfterLeaving(app)
<1>1. /\ after.open = app.open /\ after.tables = 0 /\ ~InGame(after)
      /\ after.gui = IF app.gui = "none" THEN "menu" ELSE app.gui
  BY DEF AfterLeaving, Client, InGame, Deinit, Game
<1>. HIDE DEF after
<1>2. /\ \A seat \in seats : AtTable(app, sent, got, dropped, live, seat)
      /\ Asks(app, sent, got, seats) /\ InOrder(app, got) /\ Waits(app, got, live, seats)
      /\ Ends(app, got, seats) /\ Leaves(app, sent, dropped)
  BY DEF Patient
<1>3. ~Has(got, Typed(StartTypes))
  BY <1>2 DEF InOrder
<1>4. \A g \in GameNumbers : ~Has(got, Of(StartTypes, g))
  BY <1>3 DEF Has, Of, Typed
<1>5. \A seat \in seats : AtTable(after, sent, got, dropped, live, seat)
  BY <1>1, <1>2 DEF AtTable
<1>6. Asks(after, sent, got, seats) /\ InOrder(after, got) /\ Leaves(after, sent, dropped)
  BY <1>1, <1>2 DEF Asks, InOrder, Leaves
<1>7. Waits(after, got, live, seats) /\ Ends(after, got, seats)
  BY <1>1, <1>2, <1>3, <1>4 DEF Waits, Ends
<1>. QED
  BY <1>5, <1>6, <1>7 DEF Patient, after

-----------------------------------------------------------------------------
(* Patient clients: the steps of the server.                                 *)

LEMMA PatientTail ==
  ASSUME NEW app, NEW sent \in Seq(ClientPackets), sent # <<>>, NEW got, NEW dropped,
         NEW live, NEW seats, Patient(app, sent, got, dropped, live, seats)
  PROVE  Patient(app, Tail(sent), got, dropped, live, seats)
<1>. DEFINE rest == Tail(sent)
<1>1. /\ \A P : Has(rest, P) => Has(sent, P)
      /\ \A P : Once(sent, P) => Once(rest, P)
      /\ \A P, Q : Precedes(sent, P, Q) => Precedes(rest, P, Q)
  BY TailOf
<1>. HIDE DEF rest
<1>2. \A seat \in seats : AtTable(app, rest, got, dropped, live, seat)
  BY <1>1 DEF Patient, AtTable
<1>3. Asks(app, rest, got, seats) /\ Leaves(app, rest, dropped)
  BY <1>1 DEF Patient, Asks, Leaves
<1>. QED
  BY <1>2, <1>3 DEF Patient, rest

LEMMA PatientDrops ==
  ASSUME NEW app, ~app.open, NEW sent, NEW got, NEW dropped, NEW live, NEW seats,
         Patient(app, sent, got, dropped, live, seats),
         \A seat \in seats : ~(live /\ seat.full)
  PROVE  Patient(app, sent, got, TRUE, live, seats)
<1>1. \A seat \in seats : AtTable(app, sent, got, TRUE, live, seat)
  BY DEF Patient, AtTable
<1>. QED
  BY <1>1 DEF Patient, Leaves

LEMMA PatientDies ==
  ASSUME NEW app, NEW sent, NEW got, NEW dropped, NEW live, NEW seats, NEW lives,
         lives => live, Patient(app, sent, got, dropped, live, seats)
  PROVE  Patient(app, sent, got, dropped, lives, seats)
<1>1. \A seat \in seats : AtTable(app, sent, got, dropped, lives, seat)
  BY DEF Patient, AtTable
<1>2. Waits(app, got, lives, seats)
  BY DEF Patient, Waits
<1>. QED
  BY <1>1, <1>2 DEF Patient

(* Answers to names, and packets of the game a player sits at.               *)
LEMMA PatientGets ==
  ASSUME NEW app \in Client, NEW sent, NEW got \in Seq(PacketsOfServer), NEW dropped,
         NEW live, NEW seats, Patient(app, sent, got, dropped, live, seats),
         NEW more \in Seq(PacketsOfServer),
         ~Has(more, JoinPackets), ~Has(more, Typed(StartTypes)),
         Has(more, Typed(GameTypes)) => \E seat \in seats :
            seat.full /\ ~Has(more, NotOf(GameTypes, seat.of))
  PROVE  Patient(app, sent, Delivery(app.open, got, more), dropped, live, seats)
<1>. DEFINE all == Delivery(app.open, got, more)
<1>1. app.open \in BOOLEAN
  BY DEF Client
<1>2. /\ \A P : Has(all, P) <=> app.open /\ (Has(got, P) \/ Has(more, P))
      /\ \A P : Once(all, P) <=>
           ~app.open \/ (Once(got, P) /\ Once(more, P) /\ ~(Has(got, P) /\ Has(more, P)))
      /\ \A P, Q : Precedes(all, P, Q) <=>
           \/ ~app.open
           \/ Precedes(got, P, Q) /\ Precedes(more, P, Q) /\ ~(Has(got, Q) /\ Has(more, P))
  BY <1>1, DeliveryOf
<1>. HIDE DEF all
<1>3. /\ \A seat \in seats : AtTable(app, sent, got, dropped, live, seat)
      /\ Asks(app, sent, got, seats) /\ InOrder(app, got) /\ Waits(app, got, live, seats)
      /\ Ends(app, got, seats) /\ Leaves(app, sent, dropped)
  BY DEF Patient
<1>4. /\ \A g : ~Has(more, Of(StartTypes, g)) /\ ~Has(more, NotOf(StartTypes, g))
      /\ \A g : Has(more, NotOf(GameTypes, g)) => Has(more, Typed(GameTypes))
  <2>1. \A n \in DOMAIN more : more[n] \in PacketsOfServer
    BY LenProperties, ElementOfSeq
  <2>. QED
    BY <2>1, Classes DEF Has
<1>5. /\ Once(more, Typed(StartTypes)) /\ Precedes(more, JoinPackets, Typed(StartTypes))
      /\ \A P, g : Precedes(more, P, Of(StartTypes, g))
  BY <1>4, Without
<1>6. \A seat \in seats : AtTable(app, sent, all, dropped, live, seat)
  BY <1>2, <1>3, <1>4 DEF AtTable
<1>7. Asks(app, sent, all, seats)
  BY <1>2, <1>3 DEF Asks
<1>8. InOrder(app, all)
  <2>1. ASSUME NEW g \in GameNumbers, Has(got, Of(StartTypes, g)), Has(more, NotOf(GameTypes, g))
        PROVE  FALSE
    <3>1. PICK seat \in seats : seat.full /\ ~Has(more, NotOf(GameTypes, seat.of))
      BY <1>4, <2>1
    <3>2. Has(got, Typed(StartTypes)) /\ (g # seat.of => Has(got, NotOf(StartTypes, seat.of)))
      BY <2>1 DEF Has, Of, Typed, NotOf
    <3>3. g = seat.of
      BY <1>3, <3>2 DEF AtTable
    <3>. QED
      BY <2>1, <3>1, <3>3
  <2>2. \A g \in GameNumbers : Precedes(all, NotOf(GameTypes, g), Of(StartTypes, g))
    BY <1>2, <1>3, <1>5, <2>1 DEF InOrder
  <2>3. InGame(app) => ~Has(more, NotOf(GameTypes, app.match))
    BY <1>3, <1>4 DEF AtTable
  <2>4. InGame(app) => ~Has(all, NotOf(GameTypes, app.match))
    BY <1>2, <1>3, <2>3 DEF InOrder
  <2>5. /\ Has(all, Typed(StartTypes)) => ~InGame(app)
        /\ Once(all, Typed(StartTypes)) /\ Precedes(all, JoinPackets, Typed(StartTypes))
    BY <1>2, <1>3, <1>5 DEF InOrder
  <2>. QED
    BY <2>2, <2>4, <2>5 DEF InOrder
<1>9. Waits(app, all, live, seats)
  BY <1>2, <1>3 DEF Waits
<1>10. Ends(app, all, seats)
  BY <1>2, <1>3, <1>4 DEF Ends
<1>. QED
  BY <1>3, <1>6, <1>7, <1>8, <1>9, <1>10 DEF Patient, all

(* The game is over: the seat is free, and the verdict is under way.         *)
LEMMA PatientEnds ==
  ASSUME NEW app \in Client, NEW sent, NEW got \in Seq(PacketsOfServer), NEW dropped,
         NEW live, live, NEW seats, Patient(app, sent, got, dropped, live, seats),
         NEW seat \in seats, seats = {seat}, seat.full,
         NEW more \in Seq(PacketsOfServer),
         ~Has(more, JoinPackets), ~Has(more, Typed(StartTypes)),
         ~Has(more, NotOf(GameTypes, seat.of)),
         app.open => Has(more, Typed(Verdicts)),
         NEW lives
  PROVE  Patient(app, sent, Delivery(app.open, got, more), dropped, lives, {})
<1>. DEFINE all == Delivery(app.open, got, more)
<1>1. Patient(app, sent, all, dropped, live, seats)
  BY PatientGets
<1>2. app.open \in BOOLEAN
  BY DEF Client
<1>3. /\ \A P : Has(all, P) <=> app.open /\ (Has(got, P) \/ Has(more, P))
      /\ \A P, Q : Precedes(all, P, Q) <=>
           \/ ~app.open
           \/ Precedes(got, P, Q) /\ Precedes(more, P, Q) /\ ~(Has(got, Q) /\ Has(more, P))
  BY <1>2, DeliveryOf
<1>. HIDE DEF all
<1>4. /\ Asks(app, sent, all, {}) /\ InOrder(app, all) /\ Leaves(app, sent, dropped)
      /\ \A s \in {} : AtTable(app, sent, all, dropped, lives, s)
  BY <1>1 DEF Patient, Asks
<1>5. Waits(app, all, lives, {})
  BY <1>1 DEF Patient, Waits
<1>6. Ends(app, all, {})
  <2>1. \A g : ~Has(more, Of(StartTypes, g))
    BY DEF Has, Of, Typed, PacketsOfServer, GameNumbers
  <2>. QED
    BY <1>3, <2>1 DEF Ends
<1>. QED
  BY <1>4, <1>5, <1>6 DEF Patient, all

(* What a join brings a player of the lobby, which is for the game of if it  *)
(* is full: the start if the process lives, and the packets of that game.    *)
JoinMore(more, full, of, dropped, lives) ==
  /\ Has(more, Typed(StartTypes)) \/ Has(more, Typed(GameTypes)) => full
  /\ ~Has(more, NotOf(StartTypes, of)) /\ ~Has(more, NotOf(GameTypes, of))
  /\ Once(more, Typed(StartTypes)) /\ Precedes(more, JoinPackets, Typed(StartTypes))
  /\ lives => ~dropped /\ (full => Has(more, Typed(StartTypes)))

(* The one who joins.                                                        *)
LEMMA PatientJoins ==
  ASSUME NEW app \in Client, NEW sent, NEW got \in Seq(PacketsOfServer), NEW dropped,
         NEW live, Patient(app, sent, got, dropped, live, {}),
         ~Has(sent, JoinPackets), ~Has(sent, Typed(GameTypes)), ~InGame(app),
         ~Has(got, Typed(StartTypes)),
         NEW more \in Seq(PacketsOfServer), NEW full \in BOOLEAN, NEW of, NEW lives,
         JoinMore(more, full, of, dropped, lives), ~dropped => Has(more, JoinPackets)
  PROVE  Patient(app, sent, Delivery(app.open, got, more), dropped, lives,
                 {[full |-> full, of |-> of]})
<1>. DEFINE all == Delivery(app.open, got, more)
            seat == [full |-> full, of |-> of]
            starts == Typed(StartTypes)
<1>1. app.open \in BOOLEAN /\ seat.full = full /\ seat.of = of
  BY DEF Client
<1>2. /\ \A P : Has(all, P) <=> app.open /\ (Has(got, P) \/ Has(more, P))
      /\ \A P : Once(all, P) <=>
           ~app.open \/ (Once(got, P) /\ Once(more, P) /\ ~(Has(got, P) /\ Has(more, P)))
      /\ \A P, Q : Precedes(all, P, Q) <=>
           \/ ~app.open
           \/ Precedes(got, P, Q) /\ Precedes(more, P, Q) /\ ~(Has(got, Q) /\ Has(more, P))
  BY <1>1, DeliveryOf
<1>. HIDE DEF all, seat
<1>3. /\ Asks(app, sent, got, {}) /\ InOrder(app, got) /\ Waits(app, got, live, {})
      /\ Ends(app, got, {}) /\ Leaves(app, sent, dropped)
  BY DEF Patient
<1>4. \A g : /\ Has(got, Of(StartTypes, g)) => Has(got, starts)
             /\ Has(more, Of(StartTypes, g)) => Has(more, starts)
             /\ Has(got, NotOf(StartTypes, g)) => Has(got, starts)
             /\ Has(more, NotOf(GameTypes, g)) => Has(more, Typed(GameTypes))
  <2>1. \A n \in DOMAIN more : more[n] \in PacketsOfServer
    BY LenProperties, ElementOfSeq
  <2>2. \A n \in DOMAIN got : got[n] \in PacketsOfServer
    BY LenProperties, ElementOfSeq
  <2>. QED
    BY <2>1, <2>2, Classes DEF Has
<1>5. /\ Has(all, starts) <=> app.open /\ Has(more, starts)
      /\ Has(all, starts) => full
      /\ ~Has(all, NotOf(StartTypes, of))
      /\ Once(all, starts) /\ Precedes(all, JoinPackets, starts)
      /\ lives => ~dropped /\ (full /\ app.open => Has(all, starts))
      /\ ~dropped /\ app.open => Has(all, JoinPackets)
  <2>1. Once(got, starts) /\ Precedes(got, JoinPackets, starts)
    BY <1>3 DEF InOrder
  <2>2. ~Has(got, starts)
    OBVIOUS
  <2>. HIDE DEF starts
  <2>. QED
    BY <1>2, <1>4, <2>1, <2>2 DEF JoinMore, starts
<1>6. \A g \in GameNumbers : Precedes(all, NotOf(GameTypes, g), Of(StartTypes, g))
  <2>. SUFFICES ASSUME NEW g \in GameNumbers
                PROVE  Precedes(all, NotOf(GameTypes, g), Of(StartTypes, g))
    OBVIOUS
  <2>1. /\ ~Has(got, Of(StartTypes, g))
        /\ Precedes(got, NotOf(GameTypes, g), Of(StartTypes, g))
    BY <1>3, <1>4 DEF InOrder
  <2>2. CASE g = of
    <3>1. Precedes(more, NotOf(GameTypes, g), Of(StartTypes, g))
      BY <2>2, Without DEF JoinMore
    <3>. QED
      BY <1>2, <2>1, <3>1
  <2>3. CASE g # of
    <3>1. ~Has(more, Of(StartTypes, g))
      <4>1. Has(more, Of(StartTypes, g)) => Has(more, NotOf(StartTypes, of))
        BY <2>3 DEF Has, Of, NotOf
      <4>. QED
        BY <4>1 DEF JoinMore
    <3>2. Precedes(more, NotOf(GameTypes, g), Of(StartTypes, g))
      BY <3>1, Without
    <3>. QED
      BY <1>2, <2>1, <3>2
  <2>. QED
    BY <2>2, <2>3
<1>7. \A s \in {seat} : AtTable(app, sent, all, dropped, lives, s)
  <2>1. dropped => ~app.open
    BY <1>3 DEF Leaves
  <2>. QED
    BY <1>1, <1>5, <2>1 DEF AtTable
<1>8. Asks(app, sent, all, {seat}) /\ InOrder(app, all)
  BY <1>3, <1>5, <1>6 DEF Asks, InOrder
<1>9. Waits(app, all, lives, {seat})
  <2>1. dropped => ~app.open
    BY <1>3 DEF Leaves
  <2>. QED
    BY <1>1, <1>5, <2>1 DEF Waits
<1>10. Ends(app, all, {seat})
  <2>1. ASSUME NEW g \in GameNumbers, Has(all, Of(StartTypes, g)) PROVE g = of
    <3>1. Has(all, Of(StartTypes, g)) /\ g # of => Has(all, NotOf(StartTypes, of))
      BY DEF Has, Of, NotOf
    <3>. QED
      BY <1>5, <2>1, <3>1
  <2>. QED
    BY <1>1, <2>1 DEF Ends, HasTable
<1>. QED
  BY <1>3, <1>7, <1>8, <1>9, <1>10 DEF Patient, all, seat

(* The one who waits in that lobby.                                          *)
LEMMA PatientMeets ==
  ASSUME NEW app \in Client, NEW sent, NEW got \in Seq(PacketsOfServer), NEW dropped,
         NEW live, NEW old, ~old.full, Patient(app, sent, got, dropped, live, {old}),
         NEW more \in Seq(PacketsOfServer), NEW of, NEW lives,
         JoinMore(more, TRUE, of, dropped, lives), ~Has(more, JoinPackets)
  PROVE  Patient(app, sent, Delivery(app.open, got, more), dropped, lives,
                 {[full |-> TRUE, of |-> of]})
<1>. DEFINE all == Delivery(app.open, got, more)
            seat == [full |-> TRUE, of |-> of]
            starts == Typed(StartTypes)
<1>1. app.open \in BOOLEAN /\ seat.full /\ seat.of = of
  BY DEF Client
<1>2. /\ \A P : Has(all, P) <=> app.open /\ (Has(got, P) \/ Has(more, P))
      /\ \A P : Once(all, P) <=>
           ~app.open \/ (Once(got, P) /\ Once(more, P) /\ ~(Has(got, P) /\ Has(more, P)))
      /\ \A P, Q : Precedes(all, P, Q) <=>
           \/ ~app.open
           \/ Precedes(got, P, Q) /\ Precedes(more, P, Q) /\ ~(Has(got, Q) /\ Has(more, P))
  BY <1>1, DeliveryOf
<1>. HIDE DEF all, seat
<1>3. /\ Asks(app, sent, got, {old}) /\ InOrder(app, got) /\ Waits(app, got, live, {old})
      /\ Ends(app, got, {old}) /\ Leaves(app, sent, dropped)
      /\ AtTable(app, sent, got, dropped, live, old)
  BY DEF Patient
<1>4. /\ ~Has(sent, JoinPackets) /\ ~Has(sent, Typed(GameTypes)) /\ ~InGame(app)
      /\ ~Has(got, starts)
      /\ app.open => Has(got, JoinPackets) \/ app.gui = "lobby"
  BY <1>3 DEF Asks, AtTable
<1>5. \A g : /\ Has(got, Of(StartTypes, g)) => Has(got, starts)
             /\ Has(got, NotOf(StartTypes, g)) => Has(got, starts)
             /\ Has(more, NotOf(GameTypes, g)) => Has(more, Typed(GameTypes))
  <2>1. \A n \in DOMAIN more : more[n] \in PacketsOfServer
    BY LenProperties, ElementOfSeq
  <2>2. \A n \in DOMAIN got : got[n] \in PacketsOfServer
    BY LenProperties, ElementOfSeq
  <2>. QED
    BY <2>1, <2>2, Classes DEF Has
<1>6. /\ ~Has(all, NotOf(StartTypes, of))
      /\ Once(all, starts) /\ Precedes(all, JoinPackets, starts)
      /\ lives => ~dropped /\ (app.open => Has(all, starts))
      /\ Has(all, JoinPackets) <=> app.open /\ Has(got, JoinPackets)
  <2>1. Once(got, starts) /\ Precedes(got, JoinPackets, starts)
    BY <1>3 DEF InOrder
  <2>. HIDE DEF starts
  <2>. QED
    BY <1>2, <1>4, <1>5, <2>1 DEF JoinMore, starts
<1>7. \A g \in GameNumbers : Precedes(all, NotOf(GameTypes, g), Of(StartTypes, g))
  <2>. SUFFICES ASSUME NEW g \in GameNumbers
                PROVE  Precedes(all, NotOf(GameTypes, g), Of(StartTypes, g))
    OBVIOUS
  <2>1. /\ ~Has(got, Of(StartTypes, g))
        /\ Precedes(got, NotOf(GameTypes, g), Of(StartTypes, g))
    BY <1>3, <1>4, <1>5 DEF InOrder
  <2>2. CASE g = of
    <3>1. Precedes(more, NotOf(GameTypes, g), Of(StartTypes, g))
      BY <2>2, Without DEF JoinMore
    <3>. QED
      BY <1>2, <2>1, <3>1
  <2>3. CASE g # of
    <3>1. ~Has(more, Of(StartTypes, g))
      <4>1. Has(more, Of(StartTypes, g)) => Has(more, NotOf(StartTypes, of))
        BY <2>3 DEF Has, Of, NotOf
      <4>. QED
        BY <4>1 DEF JoinMore
    <3>2. Precedes(more, NotOf(GameTypes, g), Of(StartTypes, g))
      BY <3>1, Without
    <3>. QED
      BY <1>2, <2>1, <3>2
  <2>. QED
    BY <2>2, <2>3
<1>8. \A s \in {seat} : AtTable(app, sent, all, dropped, lives, s)
  BY <1>1, <1>4, <1>6 DEF AtTable
<1>9. Asks(app, sent, all, {seat}) /\ InOrder(app, all)
  BY <1>3, <1>4, <1>6, <1>7 DEF Asks, InOrder
<1>10. Waits(app, all, lives, {seat})
  BY <1>1, <1>2, <1>4, <1>6 DEF Waits
<1>11. Ends(app, all, {seat})
  <2>1. ASSUME NEW g \in GameNumbers, Has(all, Of(StartTypes, g)) PROVE g = of
    <3>1. Has(all, Of(StartTypes, g)) /\ g # of => Has(all, NotOf(StartTypes, of))
      BY DEF Has, Of, NotOf
    <3>. QED
      BY <1>6, <2>1, <3>1
  <2>. QED
    BY <1>1, <1>4, <2>1 DEF Ends, HasTable
<1>. QED
  BY <1>3, <1>8, <1>9, <1>10, <1>11 DEF Patient, all, seat

(* What a player sits at, after each handler.                                *)
LEMMA SeatsRead ==
  ASSUME NEW table, NEW numbers, NEW c
  PROVE  /\ SeatsIn(table, numbers, c) = {} <=> \A k \in LobbyIds : ~IsSeated(table[k], c)
         /\ \A seat \in SeatsIn(table, numbers, c) : \E k \in LobbyIds :
              /\ IsSeated(table[k], c)
              /\ seat = [full |-> IsComplete(table[k]), of |-> numbers[k]]
         /\ \A k \in LobbyIds : OneSeatIn(table, c) /\ IsSeated(table[k], c) =>
              SeatsIn(table, numbers, c) = {[full |-> IsComplete(table[k]), of |-> numbers[k]]}
<1>. DEFINE Seat(k) == [full |-> IsComplete(table[k]), of |-> numbers[k]]
<1>1. \A seat : seat \in SeatsIn(table, numbers, c) <=>
        \E k \in LobbyIds : IsSeated(table[k], c) /\ seat = Seat(k)
  BY DEF SeatsIn
<1>2. \A j, k \in LobbyIds : OneSeatIn(table, c) /\ IsSeated(table[j], c)
                              /\ IsSeated(table[k], c) => j = k
  BY DEF OneSeatIn, IsSeated
<1>. HIDE DEF Seat
<1>3. \A k \in LobbyIds : OneSeatIn(table, c) /\ IsSeated(table[k], c) =>
        SeatsIn(table, numbers, c) = {Seat(k)}
  BY <1>1, <1>2
<1>4. SeatsIn(table, numbers, c) = {} <=> \A k \in LobbyIds : ~IsSeated(table[k], c)
  BY <1>1
<1>. QED
  BY <1>1, <1>3, <1>4 DEF Seat

LEMMA SameSeats ==
  ASSUME NEW table, NEW numbers, NEW later, NEW after, NEW c,
         \A k \in LobbyIds : IsSeated(later[k], c) <=> IsSeated(table[k], c),
         \A k \in LobbyIds : IsSeated(table[k], c) =>
           later[k] = table[k] /\ after[k] = numbers[k]
  PROVE  SeatsIn(later, after, c) = SeatsIn(table, numbers, c)
<1>1. \A k \in LobbyIds : IsSeated(table[k], c) =>
        IsComplete(later[k]) = IsComplete(table[k]) /\ after[k] = numbers[k]
  OBVIOUS
<1>. QED
  BY <1>1 DEF SeatsIn

LEMMA SeatsAfterEnd ==
  ASSUME TypeOK, NEW c \in Conn, NEW packet, NEW k \in LobbyIds, NEW got,
         EndsGame(c, packet, k, got), NEW q \in Conn, OneSeat(q)
  PROVE  /\ OneSeat(q)'
         /\ IsSeated(lobbies[k], q) => SeatsOf(q)' = {}
         /\ ~IsSeated(lobbies[k], q) => SeatsOf(q)' = SeatsOf(q)
<1>1. /\ \A j \in LobbyIds : lobbies'[j] = IF j = k THEN EmptyLobby ELSE lobbies[j]
      /\ \A j \in LobbyIds : j # k => number'[j] = number[j]
  BY DEF EndsGame, TypeOK, ServerTypeOK
<1>2. \A j \in LobbyIds : IsSeated(lobbies'[j], q) <=> j # k /\ IsSeated(lobbies[j], q)
  BY SeatedAfterEnd
<1>3. OneSeatIn(lobbies', q)
  BY <1>1, <1>2 DEF OneSeat, OneSeatIn, IsSeated
<1>4. ASSUME IsSeated(lobbies[k], q) PROVE SeatsIn(lobbies', number', q) = {}
  <2>1. \A j \in LobbyIds : ~IsSeated(lobbies'[j], q)
    BY <1>2, <1>4 DEF OneSeat, OneSeatIn, IsSeated
  <2>. QED
    BY <2>1, SeatsRead
<1>5. ASSUME ~IsSeated(lobbies[k], q)
      PROVE  SeatsIn(lobbies', number', q) = SeatsIn(lobbies, number, q)
  <2>1. /\ \A j \in LobbyIds : IsSeated(lobbies'[j], q) <=> IsSeated(lobbies[j], q)
        /\ \A j \in LobbyIds : IsSeated(lobbies[j], q) =>
             lobbies'[j] = lobbies[j] /\ number'[j] = number[j]
    BY <1>1, <1>2, <1>5
  <2>. QED
    BY <2>1, SameSeats
<1>. QED
  BY <1>3, <1>4, <1>5 DEF OneSeat, SeatsOf

LEMMA SeatsAfterJoin ==
  ASSUME TypeOK, NEW c \in Conn, NEW packet, NEW k \in LobbyIds, NEW s \in Seats, NEW got,
         Joins(c, packet, k, s, got), NEW q \in Conn, OneSeat(q), q = c => SeatsOf(q) = {}
  PROVE  /\ OneSeat(q)'
         /\ q = c => SeatsOf(q)' = {[full |-> IsComplete(lobbies'[k]), of |-> number'[k]]}
         /\ q # c /\ IsSeated(lobbies[k], q) =>
              /\ SeatsOf(q) = {[full |-> FALSE, of |-> number[k]]}
              /\ IsComplete(lobbies'[k])
              /\ SeatsOf(q)' = {[full |-> TRUE, of |-> number'[k]]}
         /\ q # c /\ ~IsSeated(lobbies[k], q) => SeatsOf(q)' = SeatsOf(q)
<1>1. /\ \A j \in LobbyIds : j # k => lobbies'[j] = lobbies[j] /\ number'[j] = number[j]
      /\ lobbies[k][s].port = NoPort /\ ~IsComplete(lobbies[k])
      /\ \A t \in Seats : t # s => lobbies'[k][t] = lobbies[k][t]
      /\ lobbies'[k][s].port = c
  BY DEF Joins, IsFirstOpen, TypeOK, ServerTypeOK, Lobby
<1>2. \A j \in LobbyIds :
        /\ IsSeated(lobbies'[j], q) <=> IsSeated(lobbies[j], q) \/ (j = k /\ q = c)
        /\ \A t \in Seats : lobbies'[j][t].port = q <=>
              lobbies[j][t].port = q \/ (j = k /\ t = s /\ q = c)
  BY SeatedAfterJoin
<1>3. q = c => \A j \in LobbyIds : \A t \in Seats : lobbies[j][t].port # q
  <2>1. q = c => \A j \in LobbyIds : ~IsSeated(lobbies[j], q)
    BY SeatsRead DEF SeatsOf
  <2>. QED
    BY <2>1 DEF IsSeated
<1>4. OneSeatIn(lobbies', q)
  BY <1>2, <1>3 DEF OneSeat, OneSeatIn
<1>5. q = c => SeatsIn(lobbies', number', q)
                 = {[full |-> IsComplete(lobbies'[k]), of |-> number'[k]]}
  BY <1>2, <1>4, SeatsRead
<1>6. ASSUME q # c, IsSeated(lobbies[k], q)
      PROVE  /\ SeatsIn(lobbies, number, q) = {[full |-> FALSE, of |-> number[k]]}
             /\ IsComplete(lobbies'[k])
             /\ SeatsIn(lobbies', number', q) = {[full |-> TRUE, of |-> number'[k]]}
  <2>1. IsComplete(lobbies[k]) = FALSE
    BY <1>1 DEF IsComplete
  <2>2. \A t \in Seats : lobbies'[k][t].port # NoPort
    BY <1>1, <1>6, NoPortAssumption, PoolAssumption DEF IsSeated, Seats
  <2>3. IsComplete(lobbies'[k]) = TRUE
    BY <2>2 DEF IsComplete
  <2>4. IsSeated(lobbies'[k], q)
    BY <1>2, <1>6
  <2>5. /\ SeatsIn(lobbies, number, q) = {[full |-> IsComplete(lobbies[k]), of |-> number[k]]}
        /\ SeatsIn(lobbies', number', q)
             = {[full |-> IsComplete(lobbies'[k]), of |-> number'[k]]}
    BY <1>4, <1>6, <2>4, SeatsRead DEF OneSeat
  <2>. QED
    BY <2>1, <2>3, <2>5
<1>7. ASSUME q # c, ~IsSeated(lobbies[k], q)
      PROVE  SeatsIn(lobbies', number', q) = SeatsIn(lobbies, number, q)
  <2>1. /\ \A j \in LobbyIds : IsSeated(lobbies'[j], q) <=> IsSeated(lobbies[j], q)
        /\ \A j \in LobbyIds : IsSeated(lobbies[j], q) =>
             lobbies'[j] = lobbies[j] /\ number'[j] = number[j]
    BY <1>1, <1>2, <1>7
  <2>. QED
    BY <2>1, SameSeats
<1>. QED
  BY <1>4, <1>5, <1>6, <1>7 DEF OneSeat, SeatsOf

(* A packet of a game is served at the table it is about.                    *)
LEMMA ServedAtTable ==
  ASSUME TypeOK, PatientNow, NEW c \in Conn, up[c] # <<>>
  PROVE  /\ Head(up[c]) \in ClientPackets
         /\ \A P : Head(up[c]) \in P => Has(up[c], P)
         /\ \A k \in LobbyIds :
              Head(up[c]).type \in GameTypes /\ IsSeated(lobbies[k], c) =>
                IsComplete(lobbies[k]) /\ Head(up[c]).of = number[k]
<1>. DEFINE packet == Head(up[c])
<1>1. up[c] \in Seq(ClientPackets)
  BY QueueTypes
<1>2. packet \in ClientPackets
  BY <1>1, HeadAndTail
<1>3. \A P : packet \in P => Has(up[c], P)
  BY <1>1, TailOf
<1>. HIDE DEF packet
<1>4. ASSUME NEW k \in LobbyIds, packet.type \in GameTypes, IsSeated(lobbies[k], c)
      PROVE  IsComplete(lobbies[k]) /\ packet.of = number[k]
  <2>. DEFINE seat == [full |-> IsComplete(lobbies[k]), of |-> number[k]]
  <2>1. SeatsOf(c) = {seat}
    BY <1>4, SeatsRead DEF PatientNow, OneSeat, SeatsOf
  <2>2. \A s \in SeatsOf(c) : AtTable(client[c], up[c], down[c], c \in gone, alive, s)
    BY DEF PatientNow, Patient
  <2>3. AtTable(client[c], up[c], down[c], c \in gone, alive, seat)
    BY <2>1, <2>2
  <2>4. /\ seat.full <=> IsComplete(lobbies[k])
        /\ seat.of = number[k]
    OBVIOUS
  <2>. HIDE DEF seat
  <2>5. packet \in Typed(GameTypes)
    BY <1>2, <1>4, Classes
  <2>6. seat.full /\ ~Has(up[c], NotOf(GameTypes, seat.of))
    BY <1>3, <2>3, <2>5 DEF AtTable
  <2>7. packet \notin NotOf(GameTypes, seat.of)
    BY <1>3, <2>6
  <2>. QED
    BY <1>2, <1>4, <2>4, <2>6, <2>7, Classes
<1>. QED
  BY <1>2, <1>3, <1>4 DEF packet

LEMMA PatientRelays ==
  ASSUME TypeOK, PatientNow, NEW c \in Conn, up[c] # <<>>,
         NEW got \in [Conn -> Seq(PacketsOfServer)], NEW q \in Conn,
         Relays(c, Head(up[c]), got)
  PROVE  Patient(client[q], up[q], Delivery(client[q].open, down[q], got[q]),
                 q \in gone, alive, SeatsOf(q))
<1>. DEFINE packet == Head(up[c])
            more == got[q]
<1>1. /\ client[q] \in Client /\ down[q] \in Seq(PacketsOfServer)
      /\ more \in Seq(PacketsOfServer)
  BY QueueTypes
<1>2. Patient(client[q], up[q], down[q], q \in gone, alive, SeatsOf(q)) /\ OneSeat(q)
  BY DEF PatientNow
<1>3. ~Has(more, JoinPackets) /\ ~Has(more, Typed(StartTypes))
  BY GotClasses
<1>4. ASSUME Has(more, Typed(GameTypes))
      PROVE  \E seat \in SeatsOf(q) : seat.full /\ ~Has(more, NotOf(GameTypes, seat.of))
  <2>1. packet.type \in GameTypes
    BY DEF Relays, GameTypes
  <2>2. \A n \in DOMAIN more : more[n].of = packet.of
    BY DEF Relays
  <2>3. PICK k \in LobbyIds : /\ IsSeated(lobbies[k], c) /\ IsSeated(lobbies[k], q)
                             /\ IsComplete(lobbies[k])
    BY <1>4 DEF Relays, Has
  <2>. DEFINE seat == [full |-> IsComplete(lobbies[k]), of |-> number[k]]
  <2>4. seat \in SeatsOf(q)
    <3>1. SeatsOf(q) = {seat}
      BY <1>2, <2>3, SeatsRead DEF OneSeat, SeatsOf
    <3>. QED
      BY <3>1
  <2>5. packet.of = number[k]
    BY <2>1, <2>3, ServedAtTable
  <2>6. ~Has(more, NotOf(GameTypes, number[k]))
    <3>1. \A n \in DOMAIN more : more[n] \in PacketsOfServer
      BY <1>1, LenProperties, ElementOfSeq
    <3>. QED
      BY <2>2, <2>5, <3>1, Classes DEF Has
  <2>7. seat.full /\ seat.of = number[k]
    BY <2>3
  <2>. HIDE DEF seat
  <2>. QED
    BY <2>4, <2>6, <2>7
<1>. HIDE DEF more
<1>. QED
  BY <1>1, <1>2, <1>3, <1>4, PatientGets DEF more

(* A handler that sends no packets of a game.                                *)
LEMMA PatientAnswers ==
  ASSUME TypeOK, PatientNow, NEW c \in Conn, NEW packet,
         NEW got \in [Conn -> Seq(PacketsOfServer)], NEW q \in Conn,
         Identifies(c, packet, got) \/ EndsNothing(c, packet, got)
  PROVE  Patient(client[q], up[q], Delivery(client[q].open, down[q], got[q]),
                 q \in gone, alive, SeatsOf(q))
<1>1. /\ client[q] \in Client /\ down[q] \in Seq(PacketsOfServer)
      /\ got[q] \in Seq(PacketsOfServer)
  BY QueueTypes
<1>2. Patient(client[q], up[q], down[q], q \in gone, alive, SeatsOf(q))
  BY DEF PatientNow
<1>3. /\ ~Has(got[q], JoinPackets) /\ ~Has(got[q], Typed(StartTypes))
      /\ ~Has(got[q], Typed(GameTypes))
  BY GotClasses, EmptyOf DEF EndsNothing
<1>. QED
  BY <1>1, <1>2, <1>3, PatientGets

(* The end of a game: who sits at that table, and everybody else.            *)
LEMMA PatientHearsEnd ==
  ASSUME TypeOK, PatientNow, alive, NEW c \in Conn, up[c] # <<>>,
         NEW k \in LobbyIds, NEW got \in [Conn -> Seq(PacketsOfServer)], NEW q \in Conn,
         EndsGame(c, Head(up[c]), k, got), NEW lives, lives => alive
  PROVE  Patient(client[q], up[q], Delivery(client[q].open, down[q], got[q]),
                 q \in gone, lives, SeatsOf(q)')
<1>. DEFINE packet == Head(up[c])
            more == got[q]
            seat == [full |-> IsComplete(lobbies[k]), of |-> number[k]]
<1>1. /\ client[q] \in Client /\ down[q] \in Seq(PacketsOfServer)
      /\ more \in Seq(PacketsOfServer)
  BY QueueTypes
<1>2. Patient(client[q], up[q], down[q], q \in gone, alive, SeatsOf(q)) /\ OneSeat(q)
  BY DEF PatientNow
<1>3. ~Has(more, JoinPackets) /\ ~Has(more, Typed(StartTypes))
  BY GotClasses
<1>4. \A n \in DOMAIN more : more[n] \in PacketsOfServer
  BY <1>1, LenProperties, ElementOfSeq
<1>5. CASE IsSeated(lobbies[k], q)
  <2>1. SeatsOf(q) = {seat}
    BY <1>2, <1>5, SeatsRead DEF OneSeat, SeatsOf
  <2>2. seat.full /\ seat.of = number[k]
    BY DEF EndsGame
  <2>3. SeatsOf(q)' = {}
    BY <1>2, <1>5, SeatsAfterEnd
  <2>4. ~Has(more, NotOf(GameTypes, number[k]))
    <3>1. \A n \in DOMAIN more : more[n].of = number[k]
      BY DEF EndsGame
    <3>. QED
      BY <1>4, <3>1, Classes DEF Has
  <2>5. client[q].open => Has(more, Typed(Verdicts))
    <3>1. ASSUME NEW p \in gone, IsSeated(lobbies[k], p) PROVE FALSE
      <4>. DEFINE its == [full |-> IsComplete(lobbies[k]), of |-> number[k]]
      <4>1. p \in Conn
        BY <3>1 DEF TypeOK
      <4>2. /\ OneSeat(p)
            /\ \A s \in SeatsOf(p) : AtTable(client[p], up[p], down[p], p \in gone, alive, s)
        BY <4>1 DEF PatientNow, Patient
      <4>3. SeatsOf(p) = {its}
        BY <3>1, <4>2, SeatsRead DEF OneSeat, SeatsOf
      <4>4. AtTable(client[p], up[p], down[p], p \in gone, alive, its) /\ its.full
        BY <4>2, <4>3, <2>2
      <4>. QED
        BY <3>1, <4>4 DEF AtTable
    <3>2. client[q].open => q # c \/ packet.type = "endGame"
      <4>1. packet.type \in {"endGame", "closed"}
        BY DEF EndsGame
      <4>2. packet.type = "closed" => Has(up[c], Typed({"closed"}))
        BY ServedAtTable, Classes
      <4>3. Leaves(client[c], up[c], c \in gone)
        BY DEF PatientNow, Patient
      <4>. QED
        BY <4>1, <4>2, <4>3 DEF Leaves
    <3>3. client[q].open => EndsIn(more)
      BY <1>5, <3>1, <3>2 DEF EndsGame
    <3>. QED
      BY <1>4, <3>3, Classes DEF EndsIn, Has
  <2>. HIDE DEF seat, more
  <2>. QED
    BY <1>1, <1>2, <1>3, <2>1, <2>2, <2>3, <2>4, <2>5, PatientEnds DEF more
<1>6. CASE ~IsSeated(lobbies[k], q)
  <2>1. ~Has(more, Typed(GameTypes))
    BY <1>6 DEF EndsGame, Has
  <2>. HIDE DEF more
  <2>2. Patient(client[q], up[q], Delivery(client[q].open, down[q], more),
                q \in gone, alive, SeatsOf(q))
    BY <1>1, <1>2, <1>3, <2>1, PatientGets
  <2>3. SeatsOf(q)' = SeatsOf(q)
    BY <1>2, <1>6, SeatsAfterEnd
  <2>. QED
    BY <2>2, <2>3, PatientDies DEF more
<1>. QED
  BY <1>5, <1>6

(* What a join brings, from the handler's effects.                           *)
LEMMA JoinBrings ==
  ASSUME TypeOK, NEW c \in Conn, NEW packet, SeatsOf(c) = {},
         NEW k \in LobbyIds, NEW s \in Seats, NEW got \in [Conn -> Seq(PacketsOfServer)],
         Joins(c, packet, k, s, got), NEW q \in Conn, alive' \in BOOLEAN,
         IsSeated(lobbies'[k], q)
  PROVE  /\ JoinMore(got[q], IsComplete(lobbies'[k]), number'[k], q \in gone, alive')
         /\ q = c /\ q \notin gone => Has(got[q], JoinPackets)
         /\ q # c => ~Has(got[q], JoinPackets)
<1>. DEFINE more == got[q]
            full == IsComplete(lobbies'[k])
            of == number'[k]
<1>1. \A n \in DOMAIN more : more[n] \in PacketsOfServer
  BY LenProperties, ElementOfSeq
<1>2. \A n \in DOMAIN more :
        /\ more[n] \in JoinPackets <=> more[n].type = "joinLobby"
        /\ more[n] \in Typed(StartTypes) <=> IsStart(more[n])
        /\ more[n] \in NotOf(StartTypes, of) <=> IsStart(more[n]) /\ more[n].of # of
        /\ more[n] \in NotOf(GameTypes, of) <=> more[n].type \in GameTypes /\ more[n].of # of
  <2>. SUFFICES ASSUME NEW n \in DOMAIN more, NEW one, one = more[n]
                PROVE  /\ one \in JoinPackets <=> one.type = "joinLobby"
                       /\ one \in Typed(StartTypes) <=> IsStart(one)
                       /\ one \in NotOf(StartTypes, of) <=>
                            IsStart(one) /\ one.of # of
                       /\ one \in NotOf(GameTypes, of) <=>
                            one.type \in GameTypes /\ one.of # of
    OBVIOUS
  <2>1. one \in ClientPackets \cup PacketsOfServer
    BY <1>1
  <2>2. IsStart(one) <=> one.type \in StartTypes
    BY StartPackets DEF StartTypes
  <2>3. /\ \A types : one \in Typed(types) <=> one.type \in types
        /\ \A types : one \in NotOf(types, of) <=> one.type \in types /\ one.of # of
    BY <2>1, Classes
  <2>4. one \in JoinPackets <=> one.type = "joinLobby"
    BY <2>3 DEF JoinPackets
  <2>. QED
    BY <2>2, <2>3, <2>4
<1>3. \A n \in DOMAIN more :
        \/ more[n].type = "joinLobby" /\ q = c
        \/ (IsStart(more[n]) \/ more[n].type = "newTurn") /\ full /\ more[n].of = of
  BY DEF Joins
<1>4. \A n \in DOMAIN more : more[n].type = "joinLobby" =>
        ~IsStart(more[n]) /\ more[n].type \notin GameTypes /\ q = c
  BY <1>3, StartPackets DEF GameTypes, Verdicts
<1>5. lobbies'[k][1].port # lobbies'[k][2].port
  <2>1. \A t \in Seats : lobbies[k][t].port # c
    <3>1. ~IsSeated(lobbies[k], c)
      BY SeatsRead DEF SeatsOf
    <3>. QED
      BY <3>1 DEF IsSeated
  <2>2. \A t \in Seats : lobbies'[k][t].port = c <=> t = s
    <3>1. \A t \in Seats : lobbies'[k][t].port = c <=> lobbies[k][t].port = c \/ t = s
      BY SeatedAfterJoin
    <3>. QED
      BY <2>1, <3>1
  <2>. QED
    BY <2>2 DEF Seats
<1>6. Has(more, Typed(StartTypes)) \/ Has(more, Typed(GameTypes)) => full
  BY GotClasses
<1>7. ~Has(more, NotOf(StartTypes, of)) /\ ~Has(more, NotOf(GameTypes, of))
  BY <1>2, <1>3, <1>4 DEF Has
<1>8. Once(more, Typed(StartTypes)) /\ Precedes(more, JoinPackets, Typed(StartTypes))
  <2>1. \A m, n \in DOMAIN more : IsStart(more[n]) =>
          /\ more[m].type = "joinLobby" => m < n
          /\ IsStart(more[m]) => m = n
    BY <1>5 DEF Joins
  <2>. QED
    BY <1>2, <2>1 DEF Once, Precedes
<1>9. q = c \/ full
  <2>1. q # c => IsSeated(lobbies[k], q)
    BY SeatedAfterJoin
  <2>2. IsFirstOpen(k) /\ lobbies[k][s].port = NoPort
    BY DEF Joins
  <2>3. q # c => \A t \in Seats : lobbies'[k][t].port # NoPort
    <3>1. lobbies'[k][s].port = c /\ \A t \in Seats : t # s => lobbies'[k][t] = lobbies[k][t]
      BY DEF Joins, TypeOK, ServerTypeOK, Lobby
    <3>. QED
      BY <2>1, <2>2, <3>1, NoPortAssumption, PoolAssumption DEF IsSeated, Seats
  <2>. QED
    BY <2>3 DEF IsComplete
<1>10. alive' => q \notin gone /\ (full => Has(more, Typed(StartTypes)))
  <2>1. alive' => c \notin gone /\ (full => q \notin gone /\ StartsIn(more))
    BY DEF Joins
  <2>2. StartsIn(more) => Has(more, Typed(StartTypes))
    BY <1>2 DEF StartsIn, IsStart, Has
  <2>. QED
    BY <1>9, <2>1, <2>2
<1>11. q = c /\ q \notin gone => Has(more, JoinPackets)
  BY <1>2 DEF Joins, JoinIn, Has
<1>12. q # c => ~Has(more, JoinPackets)
  BY <1>2, <1>4 DEF Has
<1>. QED
  BY <1>6, <1>7, <1>8, <1>10, <1>11, <1>12 DEF JoinMore

LEMMA PatientHearsJoin ==
  ASSUME TypeOK, PatientNow, alive, NEW c \in Conn, up[c] # <<>>, alive' \in BOOLEAN,
         NEW k \in LobbyIds, NEW s \in Seats, NEW got \in [Conn -> Seq(PacketsOfServer)],
         NEW q \in Conn, Joins(c, Head(up[c]), k, s, got),
         NEW sent, sent = IF q = c THEN Tail(up[c]) ELSE up[q]
  PROVE  /\ OneSeat(q)'
         /\ Patient(client[q], sent, Delivery(client[q].open, down[q], got[q]),
                    q \in gone, alive', SeatsOf(q)')
<1>. DEFINE more == got[q]
            full == IsComplete(lobbies'[k])
            of == number'[k]
<1>1. /\ client[q] \in Client /\ down[q] \in Seq(PacketsOfServer)
      /\ more \in Seq(PacketsOfServer) /\ up[q] \in Seq(ClientPackets)
  BY QueueTypes
<1>2. Patient(client[q], up[q], down[q], q \in gone, alive, SeatsOf(q)) /\ OneSeat(q)
  BY DEF PatientNow
<1>3. /\ Has(up[c], JoinPackets) /\ Head(up[c]) \in JoinPackets
      /\ Head(up[c]) \in ClientPackets
  BY ServedAtTable, Classes DEF Joins, JoinPackets
<1>4. Asks(client[c], up[c], down[c], SeatsOf(c))
  BY DEF PatientNow, Patient
<1>5. SeatsOf(c) = {} /\ ~Has(down[c], Typed(StartTypes)) /\ ~InGame(client[c])
  BY <1>3, <1>4 DEF Asks
<1>6. OneSeat(q)'
  BY <1>2, <1>5, SeatsAfterJoin
<1>7. IsSeated(lobbies'[k], q) =>
        /\ JoinMore(more, full, of, q \in gone, alive')
        /\ q = c /\ q \notin gone => Has(more, JoinPackets)
        /\ q # c => ~Has(more, JoinPackets)
  BY <1>5, JoinBrings
<1>8. IsSeated(lobbies'[k], q) <=> IsSeated(lobbies[k], q) \/ q = c
  BY SeatedAfterJoin
<1>9. full \in BOOLEAN
  BY DEF IsComplete
<1>10. CASE q = c
  <2>1. SeatsOf(q)' = {[full |-> full, of |-> of]}
    BY <1>2, <1>5, <1>10, SeatsAfterJoin
  <2>2. Patient(client[q], sent, down[q], q \in gone, alive, {})
    BY <1>1, <1>2, <1>5, <1>10, PatientTail
  <2>3. ~Has(sent, JoinPackets) /\ ~Has(sent, Typed(GameTypes))
    <3>1. /\ Once(up[c], JoinPackets)
          /\ Precedes(up[c], Typed(ClientTypes \ {"closed", "joinLobby"}), JoinPackets)
      BY <1>4 DEF Asks
    <3>2. ~Has(sent, JoinPackets)
      BY <1>1, <1>3, <1>10, <3>1, TailOf
    <3>3. ~Has(sent, Typed(ClientTypes \ {"closed", "joinLobby"}))
      BY <1>1, <1>3, <1>10, <3>1, TailOf
    <3>4. sent \in Seq(ClientPackets)
      BY <1>1, <1>10, HeadAndTail
    <3>5. \A n \in DOMAIN sent : sent[n] \in ClientPackets
      BY <3>4, LenProperties, ElementOfSeq
    <3>6. \A n \in DOMAIN sent :
            /\ sent[n] \in Typed(GameTypes) => sent[n].type \in GameTypes
            /\ sent[n].type \in ClientTypes \ {"closed", "joinLobby"} =>
                 sent[n] \in Typed(ClientTypes \ {"closed", "joinLobby"})
            /\ sent[n].type \in ClientTypes
      <4>. SUFFICES ASSUME NEW n \in DOMAIN sent, NEW one, one = sent[n]
                    PROVE  /\ one \in Typed(GameTypes) => one.type \in GameTypes
                           /\ one.type \in ClientTypes \ {"closed", "joinLobby"} =>
                                one \in Typed(ClientTypes \ {"closed", "joinLobby"})
                           /\ one.type \in ClientTypes
        OBVIOUS
      <4>1. one \in ClientPackets
        BY <3>5
      <4>2. \A types : one \in Typed(types) <=> one.type \in types
        BY <4>1, Classes
      <4>. QED
        BY <4>1, <4>2 DEF ClientPackets
    <3>7. GameTypes \cap {"closed", "joinLobby"} = {}
      BY DEF GameTypes, Verdicts
    <3>8. ~Has(sent, Typed(GameTypes))
      BY <3>3, <3>6, <3>7 DEF Has
    <3>. QED
      BY <3>2, <3>8
  <2>4. /\ JoinMore(more, full, of, q \in gone, alive')
        /\ q \notin gone => Has(more, JoinPackets)
    BY <1>7, <1>8, <1>10
  <2>5. ~InGame(client[q]) /\ ~Has(down[q], Typed(StartTypes))
    BY <1>5, <1>10
  <2>. HIDE DEF more, full, of
  <2>6. Patient(client[q], sent, Delivery(client[q].open, down[q], more),
                q \in gone, alive', {[full |-> full, of |-> of]})
    BY <1>1, <1>9, <2>2, <2>3, <2>4, <2>5, PatientJoins
  <2>. QED
    BY <1>6, <2>1, <2>6 DEF more
<1>11. CASE q # c /\ IsSeated(lobbies[k], q)
  <2>. DEFINE old == [full |-> FALSE, of |-> number[k]]
  <2>1. /\ SeatsOf(q) = {old} /\ full
        /\ SeatsOf(q)' = {[full |-> TRUE, of |-> of]}
    BY <1>2, <1>11, SeatsAfterJoin
  <2>2. ~old.full
    OBVIOUS
  <2>3. JoinMore(more, TRUE, of, q \in gone, alive') /\ ~Has(more, JoinPackets)
    <3>1. JoinMore(more, full, of, q \in gone, alive') /\ ~Has(more, JoinPackets)
      BY <1>7, <1>8, <1>11
    <3>2. full = TRUE
      BY <1>9, <2>1
    <3>. HIDE DEF full
    <3>. QED
      BY <3>1, <3>2
  <2>4. Patient(client[q], up[q], down[q], q \in gone, alive, {old})
    BY <1>2, <2>1
  <2>. HIDE DEF more, of, old
  <2>5. Patient(client[q], up[q], Delivery(client[q].open, down[q], more),
                q \in gone, alive', {[full |-> TRUE, of |-> of]})
    BY <1>1, <2>2, <2>3, <2>4, PatientMeets
  <2>. QED
    BY <1>6, <1>11, <2>1, <2>5 DEF more
<1>12. CASE q # c /\ ~IsSeated(lobbies[k], q)
  <2>1. SeatsOf(q)' = SeatsOf(q)
    BY <1>2, <1>12, SeatsAfterJoin
  <2>2. /\ ~Has(more, JoinPackets) /\ ~Has(more, Typed(StartTypes))
        /\ ~Has(more, Typed(GameTypes))
    <3>1. /\ Has(more, JoinPackets) => q = c
          /\ Has(more, Typed(StartTypes)) \/ Has(more, Typed(GameTypes)) =>
               IsSeated(lobbies'[k], q) /\ IsComplete(lobbies'[k])
      BY GotClasses
    <3>. QED
      BY <1>8, <1>12, <3>1
  <2>. HIDE DEF more
  <2>3. Patient(client[q], up[q], Delivery(client[q].open, down[q], more),
                q \in gone, alive, SeatsOf(q))
    BY <1>1, <1>2, <2>2, PatientGets
  <2>. QED
    BY <1>6, <1>12, <2>1, <2>3, PatientDies DEF more
<1>. QED
  BY <1>10, <1>11, <1>12

(* A claim is served at the table it is about.                               *)
LEMMA ClaimsMeetTheirGame ==
  ASSUME TypeOK, PatientNow, ~crossed, NEW c \in Conn, Serve(c)
  PROVE  ~crossed'
<1>. DEFINE packet == Head(up[c])
            calls == OnEndGame(c)
<1>1. /\ up[c] # <<>>
      /\ crossed' = (crossed \/ \E k \in Cleared(calls) :
                                  packet.type = "endGame" /\ packet.of # number[k])
  BY DEF Serve
<1>2. ASSUME packet.type = "endGame", NEW k \in Cleared(calls) PROVE packet.of = number[k]
  <2>1. \/ calls = <<>>
        \/ \E j \in LobbyIds : /\ HasOpponent(j, c)
                               /\ calls = EndCalls(c, packet, j, Opposite(lobbies[j], c).port)
    BY <1>2, EndHandlers
  <2>2. calls # <<>>
    BY <1>2 DEF Cleared
  <2>3. PICK j \in LobbyIds : /\ HasOpponent(j, c)
                             /\ calls = EndCalls(c, packet, j, Opposite(lobbies[j], c).port)
    BY <2>1, <2>2
  <2>. HIDE DEF calls, packet
  <2>4. k = j
    BY <1>2, <2>3, ClearsOne
  <2>5. IsSeated(lobbies[k], c)
    BY <2>3, <2>4, OppositeSits DEF HasOpponent
  <2>6. packet.type \in GameTypes
    BY <1>2 DEF GameTypes
  <2>. QED
    BY <1>1, <2>3, <2>4, <2>5, <2>6, ServedAtTable DEF packet
<1>. HIDE DEF calls, packet
<1>. QED
  BY <1>1, <1>2

(* Everybody after a handler, the packet taken from its queue.               *)
LEMMA PatientServed ==
  ASSUME TypeOK, PatientNow, NEW c \in Conn, Serve(c), NEW q \in Conn,
         NEW sent, sent = IF q = c THEN Tail(up[c]) ELSE up[q]
  PROVE  /\ OneSeat(q)'
         /\ Patient(client[q], sent, down'[q], q \in gone, alive', SeatsOf(q)')
         /\ q = c /\ Head(up[c]).type = "closed" =>
              \A seat \in SeatsOf(q)' : ~seat.full
<1>. DEFINE packet == Head(up[c])
<1>1. /\ alive /\ up[c] # <<>> /\ alive' \in BOOLEAN
      /\ \/ Overflows(packet)
         \/ \E got \in [Conn -> Seq(PacketsOfServer)] :
              Delivered(got) /\ Served(c, packet, got)
  BY ServeEffects
<1>2. Patient(client[q], up[q], down[q], q \in gone, alive, SeatsOf(q)) /\ OneSeat(q)
  BY DEF PatientNow
<1>3. up[q] \in Seq(ClientPackets)
  BY QueueTypes
<1>4. ASSUME NEW queue, NEW seats, Patient(client[q], up[q], queue, q \in gone, alive, seats)
      PROVE  Patient(client[q], sent, queue, q \in gone, alive', seats)
  <2>1. Patient(client[q], sent, queue, q \in gone, alive, seats)
    <3>1. CASE q = c
      BY <1>1, <1>3, <1>4, <3>1, PatientTail
    <3>2. CASE q # c
      BY <1>4, <3>2
    <3>. QED
      BY <3>1, <3>2
  <2>. QED
    BY <1>1, <2>1, PatientDies
<1>5. ASSUME Quiet PROVE OneSeat(q)' /\ SeatsOf(q)' = SeatsOf(q)
  BY <1>2, <1>5 DEF Quiet, OneSeat, SeatsOf
<1>6. CASE Overflows(packet)
  <2>1. Quiet /\ down' = down /\ packet.type # "closed"
    BY <1>6 DEF Overflows
  <2>2. Patient(client[q], sent, down[q], q \in gone, alive', SeatsOf(q))
    BY <1>2, <1>4
  <2>. HIDE DEF packet
  <2>. QED
    BY <1>5, <2>1, <2>2 DEF packet
<1>7. ASSUME NEW got \in [Conn -> Seq(PacketsOfServer)], Delivered(got), Served(c, packet, got)
      PROVE  /\ OneSeat(q)'
             /\ Patient(client[q], sent, down'[q], q \in gone, alive', SeatsOf(q)')
             /\ q = c /\ packet.type = "closed" => \A seat \in SeatsOf(q)' : ~seat.full
  <2>. DEFINE queue == Delivery(client[q].open, down[q], got[q])
  <2>1. down'[q] = queue
    BY <1>7 DEF Delivered, Delivery
  <2>. HIDE DEF queue
  <2>2. CASE Relays(c, packet, got) \/ Identifies(c, packet, got)
    <3>1. Patient(client[q], up[q], queue, q \in gone, alive, SeatsOf(q))
      BY <1>1, <2>2, PatientRelays, PatientAnswers DEF queue
    <3>2. Quiet /\ packet.type # "closed"
      BY <2>2 DEF Relays, Identifies
    <3>. HIDE DEF packet
    <3>. QED
      BY <1>4, <1>5, <2>1, <3>1, <3>2
  <2>3. CASE EndsNothing(c, packet, got)
    <3>1. Patient(client[q], up[q], queue, q \in gone, alive, SeatsOf(q))
      BY <2>3, PatientAnswers DEF queue
    <3>2. Quiet /\ \A k \in LobbyIds : IsComplete(lobbies[k]) => ~IsSeated(lobbies[k], c)
      BY <2>3 DEF EndsNothing
    <3>3. q = c => \A seat \in SeatsOf(q) : ~seat.full
      BY <3>2, SeatsRead DEF SeatsOf
    <3>. HIDE DEF packet
    <3>. QED
      BY <1>4, <1>5, <2>1, <3>1, <3>2, <3>3
  <2>4. CASE \E k \in LobbyIds : EndsGame(c, packet, k, got)
    <3>1. PICK k \in LobbyIds : EndsGame(c, packet, k, got)
      BY <2>4
    <3>2. Patient(client[q], up[q], queue, q \in gone, alive, SeatsOf(q)')
      BY <1>1, <3>1, PatientHearsEnd DEF queue
    <3>3. OneSeat(q)' /\ (q = c => SeatsOf(q)' = {})
      BY <1>2, <3>1, SeatsAfterEnd DEF EndsGame
    <3>4. Patient(client[q], sent, queue, q \in gone, alive', SeatsOf(q)')
      <4>. DEFINE seats == SeatsOf(q)'
      <4>1. Patient(client[q], up[q], queue, q \in gone, alive, seats)
        BY <3>2
      <4>. HIDE DEF seats
      <4>2. Patient(client[q], sent, queue, q \in gone, alive', seats)
        BY <1>4, <4>1
      <4>. QED
        BY <4>2 DEF seats
    <3>. QED
      BY <2>1, <3>3, <3>4
  <2>5. CASE \E k \in LobbyIds, s \in Seats : Joins(c, packet, k, s, got)
    <3>1. PICK k \in LobbyIds, s \in Seats : Joins(c, packet, k, s, got)
      BY <2>5
    <3>2. /\ OneSeat(q)'
          /\ Patient(client[q], sent, queue, q \in gone, alive', SeatsOf(q)')
      BY <1>1, <3>1, PatientHearsJoin DEF queue
    <3>3. packet.type # "closed"
      BY <3>1 DEF Joins
    <3>. QED
      BY <2>1, <3>2, <3>3
  <2>. QED
    BY <1>7, <2>2, <2>3, <2>4, <2>5 DEF Served
<1>. HIDE DEF packet
<1>. QED
  BY <1>1, <1>6, <1>7 DEF packet

LEMMA PatientServes ==
  ASSUME TypeOK, PatientNow, ~crossed, NEW c \in Conn, Serve(c)
  PROVE  ~crossed' /\ PatientNow'
<1>1. /\ up[c] # <<>> /\ client' = client
      /\ up' = [up EXCEPT ![c] = Tail(@)]
      /\ gone' = IF Head(up[c]).type = "closed" THEN gone \cup {c} ELSE gone
  BY ServeEffects
<1>2. ASSUME NEW q \in Conn
      PROVE  OneSeat(q)' /\ Patient(client'[q], up'[q], down'[q], q \in gone', alive',
                                    SeatsOf(q)')
  <2>. DEFINE sent == IF q = c THEN Tail(up[c]) ELSE up[q]
              seats == SeatsOf(q)'
  <2>1. up'[q] = sent
    BY <1>1 DEF TypeOK
  <2>2. /\ OneSeat(q)'
        /\ Patient(client[q], sent, down'[q], q \in gone, alive', seats)
        /\ q = c /\ Head(up[c]).type = "closed" => \A seat \in seats : ~seat.full
    BY PatientServed
  <2>. HIDE DEF sent, seats
  <2>3. CASE q = c /\ Head(up[c]).type = "closed"
    <3>1. Has(up[c], Typed({"closed"}))
      BY <1>1, <2>3, ServedAtTable, Classes
    <3>2. ~client[q].open
      BY <2>3, <3>1 DEF PatientNow, Patient, Leaves
    <3>3. Patient(client[q], sent, down'[q], TRUE, alive', seats)
      BY <2>2, <2>3, <3>2, PatientDrops
    <3>4. (q \in gone') = TRUE
      BY <1>1, <2>3
    <3>. QED
      BY <1>1, <2>1, <2>2, <3>3, <3>4 DEF seats
  <2>4. CASE ~(q = c /\ Head(up[c]).type = "closed")
    <3>1. (q \in gone') = (q \in gone)
      BY <1>1, <2>4
    <3>. QED
      BY <1>1, <2>1, <2>2, <3>1 DEF seats
  <2>. QED
    BY <2>3, <2>4
<1>3. PatientNow'
  BY <1>2 DEF PatientNow
<1>. QED
  BY <1>3, ClaimsMeetTheirGame

(* Nothing unanswered is nothing under way.                                  *)
LEMMA NothingUnderWay ==
  ASSUME TypeOK, NEW c \in Conn, ~(Unanswered(c, "joinLobby") > 0)
  PROVE  ~Has(up[c], JoinPackets) /\ ~Has(down[c], JoinPackets)
<1>1. ASSUME NEW S, NEW queue \in Seq(S)
      PROVE  /\ Cardinality({n \in DOMAIN queue : queue[n].type = "joinLobby"}) \in Nat
             /\ Cardinality({n \in DOMAIN queue : queue[n].type = "joinLobby"}) = 0 =>
                  ~Has(queue, JoinPackets)
  <2>. DEFINE joins == {n \in DOMAIN queue : queue[n].type = "joinLobby"}
  <2>1. IsFiniteSet(joins)
    <3>1. joins \subseteq 1..Len(queue) /\ Len(queue) \in Nat
      BY LenProperties
    <3>2. IsFiniteSet(1..Len(queue))
      BY <3>1, FS_Interval
    <3>. QED
      BY <3>1, <3>2, FS_Subset
  <2>2. joins = {} => ~Has(queue, JoinPackets)
    BY DEF Has, JoinPackets, Typed
  <2>. HIDE DEF joins
  <2>3. Cardinality(joins) \in Nat /\ (Cardinality(joins) = 0 => joins = {})
    BY <2>1, FS_CardinalityType, FS_EmptySet
  <2>. QED
    BY <2>2, <2>3 DEF joins
<1>2. up[c] \in Seq(ClientPackets) /\ down[c] \in Seq(PacketsOfServer)
  BY QueueTypes
<1>. DEFINE asked == Cardinality({n \in DOMAIN up[c] : up[c][n].type = "joinLobby"})
            told == Cardinality({n \in DOMAIN down[c] : down[c][n].type = "joinLobby"})
<1>3. /\ asked \in Nat /\ (asked = 0 => ~Has(up[c], JoinPackets))
      /\ told \in Nat /\ (told = 0 => ~Has(down[c], JoinPackets))
  BY <1>1, <1>2
<1>4. Unanswered(c, "joinLobby") = asked + told
  BY DEF Unanswered
<1>. HIDE DEF asked, told
<1>. QED
  BY <1>3, <1>4

LEMMA PatientActs ==
  ASSUME TypeOK, NameInv, PatientNow, ~crossed, ~hasty', NEW c \in Conn,
         \/ FrameReceive(c) \/ FrameIdle(c) \/ Identify(c) \/ Play(c)
         \/ LeaveGame(c) \/ CloseWindow(c)
  PROVE  ~crossed' /\ PatientNow'
<1>. DEFINE app == client[c]
            dropped == c \in gone
            seats == SeatsOf(c)
<1>1. /\ app \in Client /\ up[c] \in Seq(ClientPackets)
      /\ down[c] \in Seq(PacketsOfServer)
      /\ Patient(app, up[c], down[c], dropped, alive, seats)
      /\ Named(app, up[c], down[c], HasSeat(c))
  BY QueueTypes DEF NameInv, PatientNow
<1>2. ASSUME OnlyClient(c), Patient(client'[c], up'[c], down'[c], dropped, alive, seats)
      PROVE  PatientNow'
  <2>1. ASSUME NEW q \in Conn
        PROVE  OneSeat(q)' /\ Patient(client'[q], up'[q], down'[q], q \in gone', alive',
                                      SeatsOf(q)')
    <3>1. /\ OneSeat(q)' /\ SeatsOf(q)' = SeatsOf(q)
          /\ gone' = gone /\ alive' = alive
      BY <1>2 DEF OnlyClient, OneSeat, SeatsOf, PatientNow
    <3>2. Patient(client'[q], up'[q], down'[q], q \in gone, alive, SeatsOf(q))
      BY <1>2 DEF OnlyClient, PatientNow
    <3>. QED
      BY <3>1, <3>2
  <2>. QED
    BY <2>1 DEF PatientNow
<1>3. CASE FrameReceive(c)
  <2>1. PICK before \in Client :
          /\ Handles(app, Head(down[c]), before)
          /\ \E after, sent : /\ FrameEffect(c, before, after, sent)
                              /\ client'[c] = after /\ up'[c] = up[c] \o sent
    BY <1>3, ClientSteps
  <2>2. PICK after, sent : /\ FrameEffect(c, before, after, sent)
                           /\ client'[c] = after /\ up'[c] = up[c] \o sent
    BY <2>1
  <2>3. OnlyClient(c) /\ app.open /\ down[c] # <<>> /\ down'[c] = Tail(down[c])
    BY <1>3, ClientSteps
  <2>4. ~crossed'
    <3>1. crossed' => /\ InGame(app) /\ Head(down[c]).of # app.match
                      /\ Head(down[c]).type \in {"newTurn", "cueBallVelocity"} \cup Verdicts
      BY <1>3, ReceiveEffects
    <3>2. InGame(app) => ~Has(down[c], NotOf(GameTypes, app.match))
      BY <1>1 DEF Patient, InOrder
    <3>3. InGame(app) => Head(down[c]) \notin NotOf(GameTypes, app.match)
      BY <1>1, <2>3, <3>2, TailOf
    <3>4. Head(down[c]) \in PacketsOfServer
      BY <1>1, <2>3, HeadAndTail
    <3>5. Head(down[c]) \in NotOf(GameTypes, app.match) <=>
            Head(down[c]).type \in GameTypes /\ Head(down[c]).of # app.match
      BY <3>4, Classes
    <3>. QED
      BY <3>1, <3>3, <3>5 DEF GameTypes
  <2>5. /\ SameScreen(after, before) /\ sent \in Seq(GamePackets(before.match))
        /\ before.game.is_game_finished => after.game.is_game_finished
        /\ ~InGame(before) => sent = <<>>
    BY <2>2 DEF FrameEffect
  <2>. HIDE DEF app, dropped, seats
  <2>6. Patient(before, up[c], Tail(down[c]), dropped, alive, seats)
    BY <1>1, <2>1, <2>3, PatientReceives
  <2>7. Patient(after, up[c] \o sent, Tail(down[c]), dropped, alive, seats)
    BY <1>1, <2>5, <2>6, PatientFrame
  <2>. QED
    BY <1>2, <2>2, <2>3, <2>4, <2>7
<1>4. CASE FrameIdle(c)
  <2>1. PICK after, sent : /\ FrameEffect(c, app, after, sent)
                           /\ client'[c] = after /\ up'[c] = up[c] \o sent
    BY <1>4, ClientSteps
  <2>2. OnlyClient(c) /\ down'[c] = down[c] /\ crossed' = crossed
    BY <1>4, ClientSteps
  <2>3. /\ SameScreen(after, app) /\ sent \in Seq(GamePackets(app.match))
        /\ app.game.is_game_finished => after.game.is_game_finished
        /\ ~InGame(app) => sent = <<>>
    BY <2>1 DEF FrameEffect
  <2>. HIDE DEF app, dropped, seats
  <2>4. Patient(after, up[c] \o sent, down[c], dropped, alive, seats)
    BY <1>1, <2>3, PatientFrame
  <2>. QED
    BY <1>2, <2>1, <2>2, <2>4
<1>5. CASE Identify(c)
  <2>1. /\ OnlyClient(c) /\ client'[c] = app /\ ~app.identified
        /\ down'[c] = down[c] /\ crossed' = crossed
        /\ up'[c] = Append(up[c], Packet("clientIdentification", 0))
    BY <1>5, ClientSteps
  <2>2. ~Has(up[c], JoinPackets)
    BY <1>1, <2>1 DEF Named
  <2>3. SameButOpen(app, app)
    BY DEF SameButOpen
  <2>. HIDE DEF app, dropped, seats
  <2>4. Patient(app, Append(up[c], Packet("clientIdentification", 0)), down[c], dropped,
                alive, seats)
    BY <1>1, <2>2, <2>3, PatientSends
  <2>. QED
    BY <1>2, <2>1, <2>4
<1>6. CASE Play(c)
  <2>1. /\ OnlyClient(c) /\ client'[c] = app /\ app.open
        /\ ~InGame(app) /\ app.gui = "menu"
        /\ hasty' = (hasty \/ Unanswered(c, "joinLobby") > 0 \/ HasSeat(c))
        /\ down'[c] = down[c] /\ crossed' = crossed
        /\ up'[c] = Append(up[c], Packet("joinLobby", 0))
    BY <1>6, ClientSteps
  <2>2. ~Has(up[c], JoinPackets) /\ ~Has(down[c], JoinPackets)
    BY <2>1, NothingUnderWay
  <2>3. seats = {}
    BY <2>1, SeatsRead DEF SeatsOf, HasSeat
  <2>4. ~Has(down[c], Typed(StartTypes))
    BY <1>1, <2>1, <2>2 DEF Patient, Waits
  <2>5. SameButOpen(app, app)
    BY DEF SameButOpen
  <2>. HIDE DEF app, dropped, seats
  <2>6. Patient(app, Append(up[c], Packet("joinLobby", 0)), down[c], dropped, alive, seats)
    BY <1>1, <2>1, <2>2, <2>3, <2>4, <2>5, PatientSends
  <2>. QED
    BY <1>2, <2>1, <2>6
<1>7. CASE LeaveGame(c)
  <2>1. /\ OnlyClient(c) /\ client'[c] = AfterLeaving(app) /\ InGame(app)
        /\ up'[c] = up[c] /\ down'[c] = down[c] /\ crossed' = crossed
    BY <1>7, ClientSteps
  <2>. HIDE DEF app, dropped, seats
  <2>2. Patient(AfterLeaving(app), up[c], down[c], dropped, alive, seats)
    BY <1>1, <2>1, PatientLeaves
  <2>. QED
    BY <1>2, <2>1, <2>2
<1>8. CASE CloseWindow(c)
  <2>1. /\ OnlyClient(c) /\ client'[c] = [app EXCEPT !.open = FALSE]
        /\ down'[c] = down[c] /\ crossed' = crossed
        /\ up'[c] = Append(up[c], Packet("closed", 0))
    BY <1>8, ClientSteps
  <2>. DEFINE after == [app EXCEPT !.open = FALSE]
  <2>2. /\ SameButOpen(after, app) /\ ~after.open /\ after.tables = app.tables
        /\ after.match = app.match /\ after.game = app.game
    BY <1>1 DEF SameButOpen, Client, InGame
  <2>3. client'[c] = after
    BY <2>1
  <2>. HIDE DEF app, dropped, seats, after
  <2>4. Patient(after, Append(up[c], Packet("closed", 0)), down[c], dropped, alive, seats)
    BY <1>1, <2>2, PatientSends
  <2>. QED
    BY <1>2, <2>1, <2>3, <2>4
<1>. QED
  BY <1>3, <1>4, <1>5, <1>6, <1>7, <1>8

LEMMA PatientStep ==
  TypeOK /\ NameInv /\ PatientInv /\ [Next]_vars => PatientInv'
<1>. SUFFICES ASSUME TypeOK, NameInv, PatientInv, [Next]_vars, ~hasty'
              PROVE  ~crossed' /\ PatientNow'
  BY DEF PatientInv
<1>1. hasty => hasty'
  <2>1. ASSUME NEW c \in Conn, Serve(c) PROVE hasty' = hasty
    BY <2>1, ServeEffects
  <2>2. ASSUME NEW c \in Conn,
               \/ FrameReceive(c) \/ FrameIdle(c) \/ Identify(c)
               \/ LeaveGame(c) \/ CloseWindow(c)
        PROVE  hasty' = hasty
    BY <2>2, ClientSteps
  <2>3. ASSUME NEW c \in Conn, Play(c) PROVE hasty => hasty'
    BY <2>3, ClientSteps
  <2>4. CASE UNCHANGED vars
    BY <2>4 DEF vars
  <2>. QED
    BY <2>1, <2>2, <2>3, <2>4 DEF Next
<1>2. PatientNow /\ ~crossed
  BY <1>1 DEF PatientInv
<1>3. ASSUME NEW c \in Conn, Serve(c) PROVE ~crossed' /\ PatientNow'
  BY <1>2, <1>3, PatientServes
<1>4. ASSUME NEW c \in Conn,
             \/ FrameReceive(c) \/ FrameIdle(c) \/ Identify(c) \/ Play(c)
             \/ LeaveGame(c) \/ CloseWindow(c)
      PROVE  ~crossed' /\ PatientNow'
  BY <1>2, <1>4, PatientActs
<1>5. CASE UNCHANGED vars
  BY <1>2, <1>5 DEF vars, PatientNow, OneSeat, SeatsOf
<1>. QED
  BY <1>3, <1>4, <1>5 DEF Next

LEMMA PatientStart ==
  Init => PatientInv
<1>. SUFFICES ASSUME Init, NEW c \in Conn
              PROVE  /\ ~crossed /\ OneSeat(c)
                     /\ Patient(client[c], up[c], down[c], c \in gone, alive, SeatsOf(c))
  BY DEF PatientInv, PatientNow, Init
<1>1. up[c] = <<>> /\ down[c] = <<>> /\ (c \in gone) = FALSE /\ ~crossed
  BY DEF Init
<1>2. \A k \in LobbyIds : ~IsSeated(lobbies[k], c)
  BY EmptyLobbies, TypesStart DEF Init
<1>3. SeatsOf(c) = {} /\ OneSeat(c)
  BY <1>2, SeatsRead DEF SeatsOf, OneSeat, OneSeatIn, IsSeated
<1>4. client[c].gui # "lobby" /\ ~InGame(client[c]) /\ client[c].tables = 0
  <2>1. client[c] \in {NewClient, MenuClient}
    BY DEF Init
  <2>2. /\ NewClient.game.playing = FALSE /\ NewClient.gui = "identification"
        /\ NewClient.tables = 0
    BY DEF NewClient, NewGame
  <2>3. /\ MenuClient.game = NewClient.game /\ MenuClient.gui = "menu"
        /\ MenuClient.tables = NewClient.tables
    BY DEF MenuClient, NewClient
  <2>. QED
    BY <2>1, <2>2, <2>3 DEF InGame
<1>. DEFINE app == client[c]
<1>. HIDE DEF app
<1>5. Asks(app, <<>>, <<>>, {}) /\ Waits(app, <<>>, alive, {}) /\ Leaves(app, <<>>, FALSE)
  BY <1>4, EmptyOf DEF Asks, Waits, Leaves, app
<1>6. InOrder(app, <<>>) /\ Ends(app, <<>>, {})
  BY <1>4, EmptyOf DEF InOrder, Ends, app
<1>7. Patient(app, <<>>, <<>>, FALSE, alive, {})
  BY <1>5, <1>6 DEF Patient
<1>. QED
  BY <1>1, <1>3, <1>7 DEF app

LEMMA PatientAlways == Spec => [](TypeOK /\ PatientInv)
<1>1. Init => NameInv /\ PatientInv
  BY NamesStart, PatientStart
<1>2. Spec => [](TypeOK /\ NameInv)
  BY <1>1, TypeCorrect, NamesStep, PTL DEF Spec
<1>. QED
  BY <1>1, <1>2, PatientStep, PTL DEF Spec

(* Games do not meet: with patient players no client is handed a packet of   *)
(* another game, and no claim ends one (PollNetworkEvents, kEndGame): each   *)
(* queue holds what is left of one game before the start of the next.        *)
THEOREM GamesDoNotMeet == Spec => []NoCrossing
<1>1. PatientInv => NoCrossing
  BY DEF PatientInv, NoCrossing
<1>. QED
  BY <1>1, PatientAlways, PTL

(* InitGame never runs on a world in use: a start comes only to a client     *)
(* that has left its last game (Game::InitGame, Game::Deinit).               *)
THEOREM OneTableAtATime == Spec => []OneTable
<1>1. PatientInv => OneTable
  <2>. SUFFICES ASSUME PatientInv, ~hasty, NEW c \in Conn PROVE client[c].tables <= 1
    BY DEF OneTable
  <2>1. client[c].tables = IF InGame(client[c]) THEN 1 ELSE 0
    BY DEF PatientInv, PatientNow, Patient, Leaves
  <2>. QED
    BY <2>1
<1>. QED
  BY <1>1, PatientAlways, PTL

(* Nobody plays on at a table the server has cleared without the verdict     *)
(* being on its way (kEndGame, OnClientDisconnection).                       *)
THEOREM GamesAreNotOrphaned == Spec => []NoOrphanGame
<1>1. TypeOK /\ PatientInv => NoOrphanGame
  <2>. SUFFICES ASSUME TypeOK, PatientInv, ~hasty, NEW c \in Conn, client[c].open,
                       InGame(client[c]), ~client[c].game.is_game_finished
                PROVE  EndsIn(down[c]) \/ \E k \in LobbyIds :
                         IsSeated(lobbies[k], c) /\ number[k] = client[c].match
    BY DEF NoOrphanGame
  <2>1. Has(down[c], Typed(Verdicts)) \/ HasTable(SeatsOf(c), client[c].match)
    BY DEF PatientInv, PatientNow, Patient, Ends
  <2>2. Has(down[c], Typed(Verdicts)) => EndsIn(down[c])
    BY DEF Has, Typed, EndsIn
  <2>3. ASSUME NEW seat \in SeatsOf(c)
        PROVE  \E k \in LobbyIds : IsSeated(lobbies[k], c) /\ number[k] = seat.of
    <3>1. PICK k \in LobbyIds : /\ IsSeated(lobbies[k], c)
                               /\ seat = [full |-> IsComplete(lobbies[k]), of |-> number[k]]
      BY SeatsRead DEF SeatsOf
    <3>. QED
      BY <3>1
  <2>. QED
    BY <2>1, <2>2, <2>3 DEF HasTable
<1>. QED
  BY <1>1, PatientAlways, PTL

(* The screen without a button is shown only to a player who has a seat or a *)
(* start to come, and never over a game (OnJoinLobby, OnStartGame).          *)
THEOREM WhoWaitsHasASeat == Spec => []WaiterHasSeat
<1>1. TypeOK /\ PatientInv => WaiterHasSeat
  <2>. SUFFICES ASSUME TypeOK, PatientInv, ~hasty, NEW c \in Conn, client[c].open,
                       client[c].gui = "lobby"
                PROVE  ~InGame(client[c]) /\ (StartsIn(down[c]) \/ HasSeat(c))
    BY DEF WaiterHasSeat
  <2>1. /\ ~InGame(client[c])
        /\ Has(down[c], Typed(StartTypes)) \/ SeatsOf(c) # {}
    BY DEF PatientInv, PatientNow, Patient, Waits
  <2>2. Has(down[c], Typed(StartTypes)) => StartsIn(down[c])
    <3>1. \A n \in DOMAIN down[c] : down[c][n] \in Typed(StartTypes) => IsStart(down[c][n])
      BY StartPackets DEF Typed, StartTypes
    <3>. QED
      BY <3>1 DEF Has, StartsIn, IsStart
  <2>3. SeatsOf(c) # {} => HasSeat(c)
    BY SeatsRead DEF SeatsOf, HasSeat
  <2>. QED
    BY <2>1, <2>2, <2>3
<1>. QED
  BY <1>1, PatientAlways, PTL

-----------------------------------------------------------------------------
(* The turn.  A game has one turn: a client holds it, or it is in a queue to *)
(* or from the server, or the shot played with it is still under way.        *)

Shot(g) == Of({"cueBallVelocity"}, g)
Turn(g) == Of({"newTurn"}, g)

LEMMA PacketClasses ==
  ASSUME NEW type \in ClientTypes, NEW m \in GameNumbers
  PROVE  /\ Packet(type, m) \in ClientPackets
         /\ \A types : Packet(type, m) \in Typed(types) <=> type \in types
         /\ \A types, g : Packet(type, m) \in Of(types, g) <=> type \in types /\ m = g
<1>1. /\ Packet(type, m) \in ClientPackets
      /\ Packet(type, m).type = type /\ Packet(type, m).of = m
  BY DEF Packet, ClientPackets
<1>. DEFINE packet == Packet(type, m)
<1>. HIDE DEF packet
<1>2. packet \in ClientPackets /\ packet.type = type /\ packet.of = m
  BY <1>1 DEF packet
<1>3. \A types : packet \in Typed(types) <=> type \in types
  BY <1>2, Classes
<1>4. \A types, g : packet \in Of(types, g) <=> type \in types /\ m = g
  BY <1>2, Classes
<1>. QED
  BY <1>2, <1>3, <1>4 DEF packet

LEMMA WhenOf ==
  ASSUME NEW S, NEW packet \in S, NEW condition \in BOOLEAN, NEW P, NEW Q
  PROVE  /\ When(condition, packet) \in Seq(S)
         /\ Has(When(condition, packet), P) <=> condition /\ packet \in P
         /\ Once(When(condition, packet), P)
         /\ Precedes(When(condition, packet), P, Q) <=>
              ~(condition /\ packet \in P /\ packet \in Q)
<1>. DEFINE queue == When(condition, packet)
<1>1. CASE condition
  <2>1. queue = <<packet>>
    BY <1>1 DEF When
  <2>2. queue \in Seq(S) /\ DOMAIN queue = {1} /\ queue[1] = packet
    BY <2>1
  <2>. HIDE DEF queue
  <2>3. /\ Has(queue, P) <=> packet \in P
        /\ Once(queue, P)
        /\ Precedes(queue, P, Q) <=> ~(packet \in P /\ packet \in Q)
    BY <2>2 DEF Has, Once, Precedes
  <2>. QED
    BY <1>1, <2>2, <2>3 DEF queue
<1>2. CASE ~condition
  <2>1. queue = <<>>
    BY <1>2 DEF When
  <2>2. queue \in Seq(S)
    BY <2>1
  <2>. QED
    BY <1>2, <2>1, <2>2, EmptyOf
<1>. QED
  BY <1>1, <1>2

(* A frame sends a shot for a turn not played, and the turn after the shot.  *)
TurnFrame(app, after, sent) ==
  /\ Once(sent, Shot(app.match)) /\ Once(sent, Turn(app.match))
  /\ Precedes(sent, Shot(app.match), Turn(app.match))
  /\ Has(sent, Shot(app.match)) => app.game.is_player_turn /\ ~app.game.has_played
  /\ Has(sent, Turn(app.match)) =>
       app.game.is_player_turn /\ (app.game.has_played \/ Has(sent, Shot(app.match)))
  /\ after.game.is_player_turn <=> app.game.is_player_turn /\ ~Has(sent, Turn(app.match))
  /\ after.game.has_played <=>
       (app.game.has_played \/ Has(sent, Shot(app.match))) /\ ~Has(sent, Turn(app.match))

LEMMA FrameTurns ==
  ASSUME NEW c, NEW app \in Client, NEW after, NEW sent, FrameEffect(c, app, after, sent)
  PROVE  TurnFrame(app, after, sent)
<1>1. CASE ~(InGame(app) /\ ~app.game.is_game_finished)
  <2>1. after = app /\ sent = <<>>
    BY <1>1 DEF FrameEffect
  <2>. QED
    BY <2>1, EmptyOf DEF TurnFrame
<1>2. CASE InGame(app) /\ ~app.game.is_game_finished
  <2>. DEFINE m == app.match
              end == Packet("endGame", m)
              shot == Packet("cueBallVelocity", m)
              turn == Packet("newTurn", m)
  <2>1. PlaysOn(app, after, sent)
    BY <1>2 DEF FrameEffect
  <2>2. PICK mouse \in Mouse : \E frame :
          /\ {frame.claims, frame.shoots, frame.passes} \subseteq BOOLEAN
          /\ TurnAfter(app.game, mouse, frame) /\ after.game = frame.game
          /\ sent = Sends(frame, end, shot, turn)
    BY <2>1 DEF PlaysOn
  <2>3. PICK frame :
          /\ {frame.claims, frame.shoots, frame.passes} \subseteq BOOLEAN
          /\ TurnAfter(app.game, mouse, frame) /\ after.game = frame.game
          /\ sent = Sends(frame, end, shot, turn)
    BY <2>2
  <2>4. m \in GameNumbers
    BY DEF Client, GameNumbers
  <2>5. /\ {end, shot, turn} \subseteq ClientPackets
        /\ end \notin Shot(m) /\ end \notin Turn(m) /\ shot \in Shot(m) /\ shot \notin Turn(m)
        /\ turn \in Turn(m) /\ turn \notin Shot(m)
    <3>. HIDE DEF m
    <3>1. {"endGame", "cueBallVelocity", "newTurn"} \subseteq ClientTypes
      BY DEF ClientTypes
    <3>. QED
      BY <2>4, <3>1, PacketClasses DEF Shot, Turn
  <2>. DEFINE a == When(frame.claims, end)
              b == When(frame.shoots, shot)
              d == When(frame.passes, turn)
              ab == a \o b
              abd == ab \o d
  <2>6. sent = abd
    BY <2>3 DEF Sends
  <2>. HIDE DEF end, shot, turn, m
  <2>7. /\ a \in Seq(ClientPackets) /\ b \in Seq(ClientPackets) /\ d \in Seq(ClientPackets)
        /\ ~Has(a, Shot(m)) /\ ~Has(a, Turn(m))
        /\ Has(b, Shot(m)) <=> frame.shoots
        /\ ~Has(b, Turn(m)) /\ Once(b, Shot(m))
        /\ Has(d, Turn(m)) <=> frame.passes
        /\ ~Has(d, Shot(m)) /\ Once(d, Turn(m))
    BY <2>3, <2>5, WhenOf
  <2>. HIDE DEF a, b, d
  <2>8. /\ ab \in Seq(ClientPackets) /\ ~Has(ab, Turn(m)) /\ Once(ab, Shot(m))
        /\ Has(ab, Shot(m)) <=> frame.shoots
    <3>1. ab \in Seq(ClientPackets)
      BY <2>7, ConcatProperties
    <3>2. \A P : /\ Has(ab, P) <=> Has(a, P) \/ Has(b, P)
                 /\ Once(ab, P) <=> Once(a, P) /\ Once(b, P) /\ ~(Has(a, P) /\ Has(b, P))
      BY <2>7, ConcatOf
    <3>3. Once(a, Shot(m))
      BY <2>7, Without
    <3>. HIDE DEF ab
    <3>. QED
      BY <2>7, <3>1, <3>2, <3>3
  <2>. HIDE DEF ab
  <2>9. /\ Has(abd, Shot(m)) <=> frame.shoots
        /\ Has(abd, Turn(m)) <=> frame.passes
        /\ Once(abd, Shot(m)) /\ Once(abd, Turn(m)) /\ Precedes(abd, Shot(m), Turn(m))
    <3>1. \A P, Q : /\ Has(abd, P) <=> Has(ab, P) \/ Has(d, P)
                    /\ Once(abd, P) <=>
                         Once(ab, P) /\ Once(d, P) /\ ~(Has(ab, P) /\ Has(d, P))
                    /\ Precedes(abd, P, Q) <=>
                         /\ Precedes(ab, P, Q) /\ Precedes(d, P, Q)
                         /\ ~(Has(ab, Q) /\ Has(d, P))
      BY <2>7, <2>8, ConcatOf
    <3>2. /\ Once(ab, Turn(m)) /\ Once(d, Shot(m))
          /\ Precedes(ab, Shot(m), Turn(m)) /\ Precedes(d, Shot(m), Turn(m))
      BY <2>7, <2>8, Without
    <3>. HIDE DEF abd
    <3>. QED
      BY <2>7, <2>8, <3>1, <3>2
  <2>. HIDE DEF abd
  <2>10. /\ Has(sent, Shot(m)) => app.game.is_player_turn /\ ~app.game.has_played
         /\ Has(sent, Turn(m)) =>
              app.game.is_player_turn /\ (app.game.has_played \/ Has(sent, Shot(m)))
         /\ after.game.is_player_turn <=> app.game.is_player_turn /\ ~Has(sent, Turn(m))
         /\ after.game.has_played <=>
              (app.game.has_played \/ Has(sent, Shot(m))) /\ ~Has(sent, Turn(m))
    BY <2>3, <2>6, <2>9 DEF TurnAfter, MayAim
  <2>. QED
    BY <2>6, <2>9, <2>10 DEF TurnFrame, m
<1>. QED
  BY <1>1, <1>2

(* The flags of the turn are cleared with the game (Deinit).                 *)
Flags(app) ==
  /\ ~InGame(app) => ~app.game.is_player_turn
  /\ app.game.has_played => app.game.is_player_turn
FlagsInv == \A c \in Conn : Flags(client[c])

LEMMA FlagsReceive ==
  ASSUME NEW app \in Client, Flags(app), NEW packet, NEW after, Handles(app, packet, after),
         InGame(app) => packet.type # "clientIdentification"
  PROVE  Flags(after)
<1>1. CASE packet.type = "joinLobby" /\ after = OnJoinLobby(app)
  <2>1. after.game = app.game
    BY <1>1 DEF OnJoinLobby, Client
  <2>. QED
    BY <2>1 DEF Flags, InGame
<1>2. CASE packet.type = "clientIdentification" /\ after = OnIdentification(app)
  <2>1. after.game = [app.game EXCEPT !.playing = FALSE]
    BY <1>2 DEF OnIdentification, Client
  <2>2. /\ after.game.is_player_turn = app.game.is_player_turn
        /\ after.game.has_played = app.game.has_played
    BY <2>1 DEF Client, Game
  <2>. QED
    BY <1>2, <2>2 DEF Flags
<1>3. ASSUME NEW p \in Player, after = OnStartGame(app, p, packet.of) PROVE Flags(after)
  <2>1. after.game = InitGame(app.game)
    BY <1>3 DEF OnStartGame, Client
  <2>2. /\ after.game.is_player_turn = app.game.is_player_turn
        /\ after.game.has_played = app.game.has_played /\ after.game.playing
    BY <2>1 DEF InitGame, Client, Game
  <2>. QED
    BY <2>2 DEF Flags, InGame
<1>4. CASE SameScreen(after, app) /\ TurnReceived(app, packet, after)
  BY <1>4 DEF SameScreen, TurnReceived, Flags
<1>. QED
  BY <1>1, <1>2, <1>3, <1>4 DEF Handles

LEMMA FlagsFrame ==
  ASSUME NEW app, Flags(app), NEW after, NEW sent, SameScreen(after, app),
         TurnFrame(app, after, sent)
  PROVE  Flags(after)
BY DEF Flags, SameScreen, TurnFrame

LEMMA FlagsOther ==
  ASSUME NEW app \in Client, Flags(app)
  PROVE  /\ Flags(AfterLeaving(app)) /\ ~AfterLeaving(app).game.is_player_turn
         /\ ~AfterLeaving(app).game.has_played
         /\ ~InGame(AfterLeaving(app)) /\ AfterLeaving(app).match = app.match
         /\ Flags([app EXCEPT !.open = FALSE])
         /\ [app EXCEPT !.open = FALSE].game = app.game
         /\ [app EXCEPT !.open = FALSE].match = app.match
<1>1. AfterLeaving(app).game = Deinit(app.game) /\ AfterLeaving(app).match = app.match
  BY DEF AfterLeaving, Client
<1>2. /\ ~Deinit(app.game).is_player_turn /\ ~Deinit(app.game).has_played
      /\ ~Deinit(app.game).playing
  BY DEF Deinit, Client, Game
<1>3. /\ [app EXCEPT !.open = FALSE].game = app.game
      /\ [app EXCEPT !.open = FALSE].match = app.match
  BY DEF Client
<1>. DEFINE left == AfterLeaving(app)
            closed == [app EXCEPT !.open = FALSE]
<1>. HIDE DEF left, closed
<1>4. Flags(left) /\ Flags(closed) /\ ~InGame(left)
  BY <1>1, <1>2, <1>3 DEF Flags, InGame, left, closed
<1>. QED
  BY <1>1, <1>2, <1>3, <1>4 DEF left, closed

(* The packet at the head of the queue of a client in a game.                *)
LEMMA NoNameInGame ==
  ASSUME NameInv, TypeOK, NEW c \in Conn, down[c] # <<>>
  PROVE  InGame(client[c]) => Head(down[c]).type # "clientIdentification"
<1>1. down[c] \in Seq(PacketsOfServer) /\ Head(down[c]) \in PacketsOfServer
  BY QueueTypes, HeadAndTail
<1>2. Head(down[c]) \in NamePackets => Has(down[c], NamePackets)
  BY <1>1, TailOf
<1>3. InGame(client[c]) => ~Has(down[c], NamePackets)
  BY DEF NameInv, Named
<1>. QED
  BY <1>1, <1>2, <1>3, Classes DEF NamePackets

LEMMA FlagsStep ==
  TypeOK /\ NameInv /\ FlagsInv /\ [Next]_vars => FlagsInv'
<1>. SUFFICES ASSUME TypeOK, NameInv, FlagsInv, [Next]_vars PROVE FlagsInv'
  OBVIOUS
<1>1. ASSUME NEW c \in Conn, OnlyClient(c), Flags(client'[c]) PROVE FlagsInv'
  BY <1>1 DEF OnlyClient, FlagsInv
<1>2. ASSUME NEW c \in Conn
      PROVE  Flags(client[c]) /\ client[c] \in Client /\ down[c] \in Seq(PacketsOfServer)
  BY QueueTypes DEF FlagsInv
<1>3. ASSUME NEW c \in Conn, FrameReceive(c) PROVE FlagsInv'
  <2>1. PICK app \in Client : /\ Handles(client[c], Head(down[c]), app)
                              /\ \E after, sent : /\ FrameEffect(c, app, after, sent)
                                                  /\ client'[c] = after
                                                  /\ up'[c] = up[c] \o sent
    BY <1>3, ClientSteps
  <2>2. PICK after, sent : FrameEffect(c, app, after, sent) /\ client'[c] = after
    BY <2>1
  <2>3. OnlyClient(c) /\ down[c] # <<>>
    BY <1>3, ClientSteps
  <2>4. Flags(app)
    BY <1>2, <2>1, <2>3, NoNameInGame, FlagsReceive
  <2>5. SameScreen(after, app) /\ TurnFrame(app, after, sent)
    BY <2>2, FrameTurns DEF FrameEffect
  <2>. QED
    BY <1>1, <2>2, <2>3, <2>4, <2>5, FlagsFrame
<1>4. ASSUME NEW c \in Conn, FrameIdle(c) PROVE FlagsInv'
  <2>1. PICK after, sent : FrameEffect(c, client[c], after, sent) /\ client'[c] = after
    BY <1>4, ClientSteps
  <2>2. SameScreen(after, client[c]) /\ TurnFrame(client[c], after, sent) /\ OnlyClient(c)
    BY <1>2, <1>4, <2>1, FrameTurns, ClientSteps DEF FrameEffect
  <2>. QED
    BY <1>1, <1>2, <2>1, <2>2, FlagsFrame
<1>5. ASSUME NEW c \in Conn, Identify(c) \/ Play(c) \/ LeaveGame(c) \/ CloseWindow(c)
      PROVE  FlagsInv'
  <2>1. /\ OnlyClient(c)
        /\ client'[c] \in {client[c], AfterLeaving(client[c]),
                           [client[c] EXCEPT !.open = FALSE]}
    BY <1>5, ClientSteps
  <2>2. Flags(client'[c])
    BY <1>2, <2>1, FlagsOther
  <2>. QED
    BY <1>1, <2>1, <2>2
<1>6. ASSUME NEW c \in Conn, Serve(c) PROVE FlagsInv'
  <2>1. client' = client
    BY <1>6, ServeEffects
  <2>. QED
    BY <2>1 DEF FlagsInv
<1>7. CASE UNCHANGED vars
  BY <1>7 DEF vars, FlagsInv
<1>. QED
  BY <1>3, <1>4, <1>5, <1>6, <1>7 DEF Next

(* Nothing is about a game that has not started: the counter is ahead of     *)
(* every packet, client and lobby.                                           *)
Later(n) == {packet \in Typed(GameTypes \cup StartTypes) : packet.of > n}
Fresh(app, sent, got, n) ==
  ~Has(sent, Later(n)) /\ ~Has(got, Later(n)) /\ app.match <= n
FreshInv ==
  /\ \A c \in Conn : Fresh(client[c], up[c], down[c], games)
  /\ \A k \in LobbyIds : number[k] <= games

LEMMA FreshReceives ==
  ASSUME NEW app \in Client, NEW sent, NEW got \in Seq(PacketsOfServer), got # <<>>,
         NEW n \in Nat, Fresh(app, sent, got, n), NEW after, Handles(app, Head(got), after)
  PROVE  Fresh(after, sent, Tail(got), n)
<1>. DEFINE packet == Head(got)
            rest == Tail(got)
<1>1. packet \in PacketsOfServer
  BY HeadAndTail
<1>2. ~Has(rest, Later(n)) /\ packet \notin Later(n)
  BY TailOf DEF Fresh
<1>. HIDE DEF packet, rest
<1>3. after.match <= n
  <2>1. ASSUME NEW p \in Player, packet.type = Starts[p],
               after = OnStartGame(app, p, packet.of)
        PROVE  after.match <= n
    <3>1. packet.type \in GameTypes \cup StartTypes
      BY <2>1 DEF Starts, Player, StartTypes
    <3>2. packet \in Typed(GameTypes \cup StartTypes)
      BY <1>1, <3>1, Classes
    <3>3. ~(packet.of > n)
      BY <1>2, <3>2 DEF Later
    <3>4. after.match = packet.of
      BY <2>1 DEF OnStartGame, Client
    <3>. QED
      BY <1>1, <3>3, <3>4 DEF PacketsOfServer, GameNumbers
  <2>2. CASE after \in {OnJoinLobby(app), OnIdentification(app)} \/ SameScreen(after, app)
    <3>1. after.match = app.match
      BY <2>2 DEF OnJoinLobby, OnIdentification, SameScreen, Client
    <3>. QED
      BY <3>1 DEF Fresh
  <2>. QED
    BY <2>1, <2>2 DEF Handles, packet
<1>. QED
  BY <1>2, <1>3 DEF Fresh, rest

LEMMA FreshFrame ==
  ASSUME NEW app \in Client, NEW sent \in Seq(ClientPackets), NEW got, NEW n \in Nat,
         Fresh(app, sent, got, n), NEW after, SameScreen(after, app),
         NEW more \in Seq(GamePackets(app.match))
  PROVE  Fresh(after, sent \o more, got, n)
<1>1. ~Has(more, Later(n))
  <2>1. \A m \in DOMAIN more : more[m] \in GamePackets(app.match)
    BY LenProperties, ElementOfSeq
  <2>2. \A m \in DOMAIN more : more[m].of = app.match
    BY <2>1 DEF GamePackets
  <2>3. app.match \in Nat /\ app.match <= n
    BY DEF Client, Fresh
  <2>. QED
    BY <2>2, <2>3 DEF Has, Later
<1>2. more \in Seq(ClientPackets)
  BY SentClasses
<1>3. ~Has(sent \o more, Later(n))
  BY <1>1, <1>2, ConcatOf DEF Fresh
<1>. QED
  BY <1>3 DEF Fresh, SameScreen

LEMMA FreshAppends ==
  ASSUME NEW app, NEW sent \in Seq(ClientPackets), NEW got, NEW n \in Nat,
         Fresh(app, sent, got, n), NEW type \in ClientTypes, NEW after,
         after.match = app.match
  PROVE  Fresh(after, Append(sent, Packet(type, 0)), got, n)
<1>1. Packet(type, 0) \in ClientPackets /\ Packet(type, 0).of = 0
  BY DEF Packet, ClientPackets, GameNumbers
<1>2. Packet(type, 0) \notin Later(n)
  BY <1>1 DEF Later
<1>3. ~Has(Append(sent, Packet(type, 0)), Later(n))
  BY <1>1, <1>2, AppendOf DEF Fresh
<1>. QED
  BY <1>3 DEF Fresh

(* What the server does to a client, with as many games or one more.         *)
LEMMA FreshGets ==
  ASSUME NEW app \in Client, NEW sent \in Seq(ClientPackets),
         NEW got \in Seq(PacketsOfServer), NEW more \in Seq(PacketsOfServer),
         NEW n \in Nat, NEW m \in Nat, n <= m, Fresh(app, sent, got, n),
         ~Has(more, Later(m)), NEW left, left = sent \/ (sent # <<>> /\ left = Tail(sent))
  PROVE  Fresh(app, left, Delivery(app.open, got, more), m)
<1>1. \A packet : packet \in Later(m) => packet \in Later(n)
  BY DEF Later, Typed, GameNumbers
<1>2. ~Has(sent, Later(m)) /\ ~Has(got, Later(m))
  BY <1>1 DEF Fresh, Has
<1>3. ~Has(left, Later(m))
  <2>1. sent # <<>> => (Has(Tail(sent), Later(m)) => Has(sent, Later(m)))
    BY TailOf
  <2>. QED
    BY <1>2, <2>1
<1>4. ~Has(Delivery(app.open, got, more), Later(m))
  <2>1. app.open \in BOOLEAN
    BY DEF Client
  <2>. QED
    BY <1>2, <2>1, DeliveryOf
<1>5. app.match <= m
  BY DEF Fresh, Client
<1>. QED
  BY <1>3, <1>4, <1>5 DEF Fresh

LEMMA FreshServed ==
  ASSUME TypeOK, FreshInv, NEW c \in Conn, up[c] # <<>>,
         NEW got \in [Conn -> Seq(PacketsOfServer)], Served(c, Head(up[c]), got)
  PROVE  /\ games' \in Nat /\ games <= games'
         /\ \A k \in LobbyIds : number'[k] <= games'
         /\ \A q \in Conn : ~Has(got[q], Later(games'))
<1>. DEFINE packet == Head(up[c])
<1>1. /\ games \in Nat /\ number \in [LobbyIds -> Nat]
      /\ \A k \in LobbyIds : number[k] <= games
  BY DEF TypeOK, FreshInv, GameNumbers
<1>2. /\ packet \in ClientPackets
      /\ packet.type \in GameTypes => packet.of <= games
  <2>1. up[c] \in Seq(ClientPackets) /\ packet \in ClientPackets
    BY QueueTypes, HeadAndTail
  <2>2. packet \notin Later(games)
    BY <2>1, TailOf DEF FreshInv, Fresh
  <2>3. packet.type \in GameTypes => packet \in Typed(GameTypes \cup StartTypes)
    BY <2>1, Classes
  <2>. QED
    BY <1>1, <2>1, <2>2, <2>3 DEF Later, ClientPackets, GameNumbers
<1>. HIDE DEF packet
<1>3. ASSUME NEW n \in Nat, NEW q \in Conn,
             \A m \in DOMAIN got[q] : got[q][m].type \in GameTypes \cup StartTypes
                                        => got[q][m].of <= n
      PROVE  ~Has(got[q], Later(n))
  <2>1. \A m \in DOMAIN got[q] : got[q][m] \in Later(n) =>
          /\ got[q][m].type \in GameTypes \cup StartTypes
          /\ got[q][m].of > n /\ got[q][m].of \in Nat
    BY DEF Later, Typed, GameNumbers
  <2>. QED
    BY <1>3, <2>1 DEF Has
<1>4. CASE Quiet /\ (\A q \in Conn : \A n \in DOMAIN got[q] :
                       got[q][n].type \in GameTypes \cup StartTypes => got[q][n].of <= games)
  BY <1>1, <1>3, <1>4 DEF Quiet
<1>5. CASE Relays(c, packet, got) \/ Identifies(c, packet, got) \/ EndsNothing(c, packet, got)
  <2>1. Quiet
    BY <1>5 DEF Relays, Identifies, EndsNothing
  <2>2. CASE Relays(c, packet, got)
    BY <1>2, <1>4, <2>1, <2>2 DEF Relays, GameTypes
  <2>3. CASE Identifies(c, packet, got)
    BY <1>4, <2>1, <2>3 DEF Identifies, GameTypes, StartTypes, Verdicts
  <2>4. CASE EndsNothing(c, packet, got)
    <3>1. \A q \in Conn : DOMAIN got[q] = {}
      BY <2>4 DEF EndsNothing
    <3>. QED
      BY <1>4, <2>1, <3>1
  <2>. QED
    BY <1>5, <2>2, <2>3, <2>4
<1>6. ASSUME NEW k \in LobbyIds, EndsGame(c, packet, k, got)
      PROVE  /\ games' \in Nat /\ games <= games'
             /\ \A j \in LobbyIds : number'[j] <= games'
             /\ \A q \in Conn : ~Has(got[q], Later(games'))
  <2>1. games' = games /\ \A j \in LobbyIds : number'[j] = IF j = k THEN 0 ELSE number[j]
    BY <1>1, <1>6 DEF EndsGame
  <2>2. \A q \in Conn : \A n \in DOMAIN got[q] : got[q][n].of = number[k]
    BY <1>6 DEF EndsGame
  <2>. QED
    BY <1>1, <1>3, <2>1, <2>2
<1>7. ASSUME NEW k \in LobbyIds, NEW s \in Seats, Joins(c, packet, k, s, got)
      PROVE  /\ games' \in Nat /\ games <= games'
             /\ \A j \in LobbyIds : number'[j] <= games'
             /\ \A q \in Conn : ~Has(got[q], Later(games'))
  <2>1. /\ games' \in Nat /\ games' = IF IsComplete(lobbies'[k]) THEN games + 1 ELSE games
        /\ number' = [number EXCEPT ![k] = IF IsComplete(lobbies'[k]) THEN games' ELSE 0]
    BY <1>7 DEF Joins
  <2>2. games <= games' /\ \A j \in LobbyIds : number'[j] <= games'
    BY <1>1, <2>1
  <2>3. ASSUME NEW q \in Conn, NEW n \in DOMAIN got[q],
               got[q][n].type \in GameTypes \cup StartTypes
        PROVE  got[q][n].of <= games'
    <3>1. got[q][n].of = number'[k]
      BY <1>7, <2>3 DEF Joins, GameTypes, StartTypes, Verdicts
    <3>. QED
      BY <2>2, <3>1
  <2>. QED
    BY <1>3, <2>1, <2>2, <2>3
<1>. QED
  BY <1>5, <1>6, <1>7 DEF Served, packet

LEMMA FreshStep ==
  TypeOK /\ FreshInv /\ [Next]_vars => FreshInv'
<1>. SUFFICES ASSUME TypeOK, FreshInv, [Next]_vars PROVE FreshInv'
  OBVIOUS
<1>1. ASSUME NEW c \in Conn, OnlyClient(c), Fresh(client'[c], up'[c], down'[c], games)
      PROVE  FreshInv'
  BY <1>1 DEF OnlyClient, FreshInv
<1>2. games \in Nat
  BY DEF TypeOK, GameNumbers
<1>3. ASSUME NEW c \in Conn
      PROVE  /\ Fresh(client[c], up[c], down[c], games) /\ client[c] \in Client
             /\ up[c] \in Seq(ClientPackets) /\ down[c] \in Seq(PacketsOfServer)
  BY QueueTypes DEF FreshInv
<1>4. ASSUME NEW c \in Conn, FrameReceive(c) PROVE FreshInv'
  <2>1. PICK app \in Client : /\ Handles(client[c], Head(down[c]), app)
                              /\ \E after, sent : /\ FrameEffect(c, app, after, sent)
                                                  /\ client'[c] = after
                                                  /\ up'[c] = up[c] \o sent
    BY <1>4, ClientSteps
  <2>2. PICK after, sent : /\ FrameEffect(c, app, after, sent)
                           /\ client'[c] = after /\ up'[c] = up[c] \o sent
    BY <2>1
  <2>3. OnlyClient(c) /\ down[c] # <<>> /\ down'[c] = Tail(down[c])
    BY <1>4, ClientSteps
  <2>4. Fresh(app, up[c], Tail(down[c]), games)
    BY <1>2, <1>3, <2>1, <2>3, FreshReceives
  <2>5. SameScreen(after, app) /\ sent \in Seq(GamePackets(app.match))
    BY <2>2 DEF FrameEffect
  <2>6. Fresh(after, up[c] \o sent, Tail(down[c]), games)
    BY <1>2, <1>3, <2>4, <2>5, FreshFrame
  <2>. QED
    BY <1>1, <2>2, <2>3, <2>6
<1>5. ASSUME NEW c \in Conn, FrameIdle(c) PROVE FreshInv'
  <2>1. PICK after, sent : /\ FrameEffect(c, client[c], after, sent)
                           /\ client'[c] = after /\ up'[c] = up[c] \o sent
    BY <1>5, ClientSteps
  <2>2. /\ OnlyClient(c) /\ down'[c] = down[c]
        /\ SameScreen(after, client[c]) /\ sent \in Seq(GamePackets(client[c].match))
    BY <1>5, <2>1, ClientSteps DEF FrameEffect
  <2>3. Fresh(after, up[c] \o sent, down[c], games)
    BY <1>2, <1>3, <2>2, FreshFrame
  <2>. QED
    BY <1>1, <2>1, <2>2, <2>3
<1>6. ASSUME NEW c \in Conn, Identify(c) \/ Play(c) \/ CloseWindow(c) PROVE FreshInv'
  <2>1. PICK type \in ClientTypes : up'[c] = Append(up[c], Packet(type, 0))
    BY <1>6, ClientSteps DEF ClientTypes
  <2>2. /\ OnlyClient(c) /\ down'[c] = down[c]
        /\ client'[c] \in {client[c], [client[c] EXCEPT !.open = FALSE]}
    BY <1>6, ClientSteps
  <2>3. client'[c].match = client[c].match
    BY <1>3, <2>2 DEF Client
  <2>4. Fresh(client'[c], Append(up[c], Packet(type, 0)), down[c], games)
    BY <1>2, <1>3, <2>3, FreshAppends
  <2>. QED
    BY <1>1, <2>1, <2>2, <2>4
<1>7. ASSUME NEW c \in Conn, LeaveGame(c) PROVE FreshInv'
  <2>1. /\ OnlyClient(c) /\ client'[c] = AfterLeaving(client[c])
        /\ up'[c] = up[c] /\ down'[c] = down[c]
    BY <1>7, ClientSteps
  <2>2. client'[c].match = client[c].match
    BY <1>3, <2>1 DEF AfterLeaving, Client
  <2>3. Fresh(client'[c], up[c], down[c], games)
    BY <1>3, <2>2 DEF Fresh
  <2>. QED
    BY <1>1, <2>1, <2>3
<1>8. ASSUME NEW c \in Conn, Serve(c) PROVE FreshInv'
  <2>1. /\ up[c] # <<>> /\ up' = [up EXCEPT ![c] = Tail(@)] /\ client' = client
        /\ \/ Overflows(Head(up[c]))
           \/ \E got \in [Conn -> Seq(PacketsOfServer)] :
                Delivered(got) /\ Served(c, Head(up[c]), got)
    BY <1>8, ServeEffects
  <2>2. \A q \in Conn : up'[q] = IF q = c THEN Tail(up[c]) ELSE up[q]
    BY <2>1 DEF TypeOK
  <2>3. CASE Overflows(Head(up[c]))
    <3>1. down' = down /\ games' = games /\ number' = number
      BY <2>3 DEF Overflows, Quiet
    <3>2. ASSUME NEW q \in Conn PROVE Fresh(client'[q], up'[q], down'[q], games')
      <4>1. up[c] \in Seq(ClientPackets) /\ ~Has(up[c], Later(games))
        BY <1>3 DEF Fresh
      <4>2. ~Has(Tail(up[c]), Later(games))
        BY <2>1, <4>1, TailOf
      <4>. QED
        BY <1>3, <2>1, <2>2, <3>1, <4>2 DEF Fresh
    <3>. QED
      BY <3>1, <3>2 DEF FreshInv
  <2>4. ASSUME NEW got \in [Conn -> Seq(PacketsOfServer)], Delivered(got),
               Served(c, Head(up[c]), got)
        PROVE  FreshInv'
    <3>1. /\ games' \in Nat /\ games <= games'
          /\ \A k \in LobbyIds : number'[k] <= games'
          /\ \A q \in Conn : ~Has(got[q], Later(games'))
      BY <2>1, <2>4, FreshServed
    <3>2. ASSUME NEW q \in Conn PROVE Fresh(client'[q], up'[q], down'[q], games')
      <4>1. down'[q] = Delivery(client[q].open, down[q], got[q])
        BY <2>4 DEF Delivered, Delivery
      <4>2. up'[q] = up[q] \/ (up[q] # <<>> /\ up'[q] = Tail(up[q]))
        BY <2>1, <2>2
      <4>3. Fresh(client[q], up'[q], Delivery(client[q].open, down[q], got[q]), games')
        BY <1>2, <1>3, <3>1, <4>2, FreshGets
      <4>. QED
        BY <2>1, <4>1, <4>3
    <3>. QED
      BY <3>1, <3>2 DEF FreshInv
  <2>. QED
    BY <2>1, <2>3, <2>4
<1>9. CASE UNCHANGED vars
  BY <1>9 DEF vars, FreshInv
<1>. QED
  BY <1>4, <1>5, <1>6, <1>7, <1>8, <1>9 DEF Next

(* A client at the table of game g.  It holds the turn, or the turn is under *)
(* way to it or from it, or its shot is: then it is engaged.  It may shoot   *)
(* if it was not the last to, and while its shot is not served it is not.    *)
Holds(app, g) == InGame(app) /\ app.match = g /\ app.game.is_player_turn
MayShoot(app, got, g) ==
  Has(got, Turn(g)) \/ (Holds(app, g) /\ ~app.game.has_played)
Engaged(app, sent, got, g) ==
  Holds(app, g) \/ Has(got, Turn(g)) \/ Has(sent, Turn(g)) \/ Has(sent, Shot(g))
Sided(app, sent, got, g, last) ==
  /\ Once(got, Turn(g)) /\ Once(sent, Turn(g)) /\ Once(sent, Shot(g))
  /\ Precedes(sent, Shot(g), Turn(g))
  /\ ~(Holds(app, g) /\ Has(got, Turn(g))) /\ ~(Holds(app, g) /\ Has(sent, Turn(g)))
  /\ ~(Has(got, Turn(g)) /\ Has(sent, Turn(g)))
  /\ MayShoot(app, got, g) => ~Has(sent, Shot(g))
  /\ MayShoot(app, got, g) \/ Has(sent, Shot(g)) => ~last
  /\ (Holds(app, g) /\ app.game.has_played) \/ Has(sent, Turn(g)) =>
       Has(sent, Shot(g)) \/ last

OnSide(q, g, who, apps, sents, gots) == Sided(apps[q], sents[q], gots[q], g, who = q)
Moves(q, g, apps, sents, gots) == Engaged(apps[q], sents[q], gots[q], g)

(* A step of which a client stays at the side of the table it was on.        *)
SideKept(app, sent, got, after, left, rest, g) ==
  /\ \A last \in BOOLEAN : Sided(app, sent, got, g, last) => Sided(after, left, rest, g, last)
  /\ (\E last \in BOOLEAN : Sided(app, sent, got, g, last)) =>
       (Engaged(after, left, rest, g) => Engaged(app, sent, got, g))

LEMMA SidedFrame ==
  ASSUME NEW app \in Client, NEW sent \in Seq(ClientPackets), NEW got, NEW g \in GameNumbers,
         NEW after, SameScreen(after, app), NEW more \in Seq(GamePackets(app.match)),
         TurnFrame(app, after, more), ~InGame(app) => more = <<>>
  PROVE  SideKept(app, sent, got, after, sent \o more, got, g)
<1>. DEFINE all == sent \o more
<1>1. more \in Seq(ClientPackets) /\ ~Has(more, NotOf(GameTypes, app.match))
  BY SentClasses
<1>2. \A P, Q : /\ Has(all, P) <=> Has(sent, P) \/ Has(more, P)
                /\ Once(all, P) <=>
                     Once(sent, P) /\ Once(more, P) /\ ~(Has(sent, P) /\ Has(more, P))
                /\ Precedes(all, P, Q) <=>
                     /\ Precedes(sent, P, Q) /\ Precedes(more, P, Q)
                     /\ ~(Has(sent, Q) /\ Has(more, P))
  BY <1>1, ConcatOf
<1>. HIDE DEF all
<1>3. CASE app.match # g \/ ~InGame(app)
  <2>1. ~Has(more, Turn(g)) /\ ~Has(more, Shot(g))
    <3>1. CASE ~InGame(app)
      BY <3>1, EmptyOf
    <3>2. CASE app.match # g
      <4>1. Turn(g) \subseteq NotOf(GameTypes, app.match)
              /\ Shot(g) \subseteq NotOf(GameTypes, app.match)
        BY <3>2 DEF Turn, Shot, Of, NotOf, GameTypes
      <4>. QED
        BY <1>1, <4>1 DEF Has
    <3>. QED
      BY <1>3, <3>1, <3>2
  <2>2. /\ Once(more, Turn(g)) /\ Once(more, Shot(g)) /\ Precedes(more, Shot(g), Turn(g))
    BY <2>1, Without
  <2>3. /\ Has(all, Turn(g)) <=> Has(sent, Turn(g))
        /\ Has(all, Shot(g)) <=> Has(sent, Shot(g))
        /\ Once(all, Turn(g)) <=> Once(sent, Turn(g))
        /\ Once(all, Shot(g)) <=> Once(sent, Shot(g))
        /\ Precedes(all, Shot(g), Turn(g)) <=> Precedes(sent, Shot(g), Turn(g))
    BY <1>2, <2>1, <2>2
  <2>4. ~Holds(app, g) /\ ~Holds(after, g)
    BY <1>3 DEF Holds, SameScreen
  <2>. QED
    BY <2>3, <2>4 DEF SideKept, Sided, Engaged, MayShoot, all
<1>4. CASE app.match = g /\ InGame(app)
  <2>1. /\ Holds(app, g) <=> app.game.is_player_turn
        /\ Holds(after, g) <=> after.game.is_player_turn
    BY <1>4 DEF Holds, SameScreen
  <2>2. /\ Once(more, Shot(g)) /\ Once(more, Turn(g)) /\ Precedes(more, Shot(g), Turn(g))
        /\ Has(more, Shot(g)) => Holds(app, g) /\ ~app.game.has_played
        /\ Has(more, Turn(g)) =>
             Holds(app, g) /\ (app.game.has_played \/ Has(more, Shot(g)))
        /\ Holds(after, g) <=> Holds(app, g) /\ ~Has(more, Turn(g))
        /\ after.game.has_played <=>
             (app.game.has_played \/ Has(more, Shot(g))) /\ ~Has(more, Turn(g))
    BY <1>4, <2>1 DEF TurnFrame
  <2>3. /\ Has(all, Turn(g)) <=> Has(sent, Turn(g)) \/ Has(more, Turn(g))
        /\ Has(all, Shot(g)) <=> Has(sent, Shot(g)) \/ Has(more, Shot(g))
        /\ Once(all, Turn(g)) <=>
             Once(sent, Turn(g)) /\ ~(Has(sent, Turn(g)) /\ Has(more, Turn(g)))
        /\ Once(all, Shot(g)) <=>
             Once(sent, Shot(g)) /\ ~(Has(sent, Shot(g)) /\ Has(more, Shot(g)))
        /\ Precedes(all, Shot(g), Turn(g)) <=>
             Precedes(sent, Shot(g), Turn(g)) /\ ~(Has(sent, Turn(g)) /\ Has(more, Shot(g)))
    BY <1>2, <2>2
  <2>4. ASSUME NEW last \in BOOLEAN, Sided(app, sent, got, g, last)
        PROVE  Sided(after, all, got, g, last)
    BY <2>2, <2>3, <2>4 DEF Sided, MayShoot
  <2>5. Engaged(after, all, got, g) => Engaged(app, sent, got, g)
    BY <2>2, <2>3 DEF Engaged
  <2>. QED
    BY <2>4, <2>5 DEF SideKept, all
<1>. QED
  BY <1>3, <1>4

(* A client comes to hold the turn of a game by its packet only.             *)
LEMMA HeldByPacket ==
  ASSUME NEW app \in Client, Flags(app), NEW packet \in PacketsOfServer, NEW g \in GameNumbers,
         NEW after, Handles(app, packet, after), Holds(after, g),
         InGame(app) => packet \notin NotOf(GameTypes, app.match),
         packet \in Typed(StartTypes) => ~InGame(app)
  PROVE  \/ Holds(app, g) /\ after.game.has_played = app.game.has_played
         \/ packet \in Turn(g) /\ ~after.game.has_played
<1>1. CASE packet.type = "joinLobby" /\ after = OnJoinLobby(app)
  <2>1. after.game = app.game /\ after.match = app.match
    BY <1>1 DEF OnJoinLobby, Client
  <2>. QED
    BY <2>1 DEF Holds, InGame
<1>2. CASE packet.type = "clientIdentification" /\ after = OnIdentification(app)
  <2>1. ~after.game.playing
    BY <1>2 DEF OnIdentification, Client, Game
  <2>. QED
    BY <2>1 DEF Holds, InGame
<1>3. ASSUME NEW p \in Player, packet.type = Starts[p], after = OnStartGame(app, p, packet.of)
      PROVE  FALSE
  <2>1. packet.type \in StartTypes
    BY <1>3 DEF Starts, Player, StartTypes
  <2>2. ~app.game.is_player_turn
    BY <2>1, Classes DEF Flags
  <2>3. after.game = InitGame(app.game)
    BY <1>3 DEF OnStartGame, Client
  <2>4. after.game.is_player_turn = app.game.is_player_turn
    BY <2>3 DEF InitGame, Client, Game
  <2>. QED
    BY <2>2, <2>4 DEF Holds
<1>4. CASE /\ packet.type \in {"newTurn", "cueBallVelocity"} \cup Verdicts
           /\ SameScreen(after, app) /\ TurnReceived(app, packet, after)
  <2>1. InGame(app) /\ app.match = g
    BY <1>4 DEF Holds, SameScreen
  <2>2. packet.of = g
    BY <1>4, <2>1, Classes DEF GameTypes
  <2>3. packet.type = "newTurn" => packet \in Turn(g)
    BY <2>2, Classes DEF Turn
  <2>. QED
    BY <1>4, <2>1, <2>3 DEF TurnReceived, Flags, Holds
<1>. QED
  BY <1>1, <1>2, <1>3, <1>4 DEF Handles

LEMMA SidedReceives ==
  ASSUME NEW app \in Client, Flags(app), NEW sent, NEW got \in Seq(PacketsOfServer),
         got # <<>>, InOrder(app, got), NEW g \in GameNumbers,
         NEW after, Handles(app, Head(got), after)
  PROVE  SideKept(app, sent, got, after, sent, Tail(got), g)
<1>. DEFINE packet == Head(got)
            rest == Tail(got)
<1>1. packet \in PacketsOfServer
  BY HeadAndTail
<1>2. \A P, Q : /\ Has(got, P) <=> packet \in P \/ Has(rest, P)
                /\ Once(got, P) <=> Once(rest, P) /\ ~(packet \in P /\ Has(rest, P))
  BY TailOf
<1>. HIDE DEF packet, rest
<1>3. /\ InGame(app) => packet \notin NotOf(GameTypes, app.match)
      /\ packet \in Typed(StartTypes) => ~InGame(app)
  BY <1>2 DEF InOrder
<1>4. Holds(after, g) =>
        \/ Holds(app, g) /\ after.game.has_played = app.game.has_played
        \/ packet \in Turn(g) /\ ~after.game.has_played
  BY <1>1, <1>3, HeldByPacket DEF packet
<1>5. /\ Has(got, Turn(g)) <=> packet \in Turn(g) \/ Has(rest, Turn(g))
      /\ Once(got, Turn(g)) <=>
           Once(rest, Turn(g)) /\ ~(packet \in Turn(g) /\ Has(rest, Turn(g)))
  BY <1>2
<1>6. ASSUME NEW last \in BOOLEAN, Sided(app, sent, got, g, last)
      PROVE  Sided(after, sent, rest, g, last)
  BY <1>4, <1>5, <1>6 DEF Sided, MayShoot
<1>7. Engaged(after, sent, rest, g) => Engaged(app, sent, got, g)
  BY <1>4, <1>5 DEF Engaged
<1>. QED
  BY <1>6, <1>7 DEF SideKept, rest

(* A client leaves a game, closes its window or sends what is no move.       *)
LEMMA SidedSheds ==
  ASSUME NEW app, NEW sent \in Seq(ClientPackets), NEW got, NEW g, NEW after,
         Holds(after, g) => Holds(app, g) /\ after.game.has_played = app.game.has_played,
         NEW left,
         left = sent \/ \E type \in ClientTypes \ {"newTurn", "cueBallVelocity"} :
                          left = Append(sent, Packet(type, 0))
  PROVE  SideKept(app, sent, got, after, left, got, g)
<1>1. /\ Has(left, Turn(g)) <=> Has(sent, Turn(g))
      /\ Has(left, Shot(g)) <=> Has(sent, Shot(g))
      /\ Once(left, Turn(g)) <=> Once(sent, Turn(g))
      /\ Once(left, Shot(g)) <=> Once(sent, Shot(g))
      /\ Precedes(left, Shot(g), Turn(g)) <=> Precedes(sent, Shot(g), Turn(g))
  <2>1. ASSUME NEW type \in ClientTypes \ {"newTurn", "cueBallVelocity"},
               left = Append(sent, Packet(type, 0))
        PROVE  /\ Has(left, Turn(g)) <=> Has(sent, Turn(g))
               /\ Has(left, Shot(g)) <=> Has(sent, Shot(g))
               /\ Once(left, Turn(g)) <=> Once(sent, Turn(g))
               /\ Once(left, Shot(g)) <=> Once(sent, Shot(g))
               /\ Precedes(left, Shot(g), Turn(g)) <=> Precedes(sent, Shot(g), Turn(g))
    <3>. DEFINE packet == Packet(type, 0)
    <3>1. 0 \in GameNumbers
      BY DEF GameNumbers
    <3>2. packet \in ClientPackets /\ packet \notin Turn(g) /\ packet \notin Shot(g)
      BY <3>1, PacketClasses DEF Turn, Shot
    <3>3. left = Append(sent, packet)
      BY <2>1
    <3>. HIDE DEF packet
    <3>4. \A P, Q : packet \notin P /\ packet \notin Q =>
            /\ Has(left, P) <=> Has(sent, P)
            /\ Once(left, P) <=> Once(sent, P)
            /\ Precedes(left, P, Q) <=> Precedes(sent, P, Q)
      BY <3>2, <3>3, AppendOf
    <3>. QED
      BY <3>2, <3>4
  <2>. QED
    BY <2>1
<1>2. ASSUME NEW last \in BOOLEAN, Sided(app, sent, got, g, last)
      PROVE  Sided(after, left, got, g, last)
  BY <1>1, <1>2 DEF Sided, MayShoot
<1>3. Engaged(after, left, got, g) => Engaged(app, sent, got, g)
  BY <1>1 DEF Engaged
<1>. QED
  BY <1>2, <1>3 DEF SideKept

(* The server takes a packet that is no move and sends no turn.              *)
LEMMA SidedWaits ==
  ASSUME NEW app \in Client, NEW sent \in Seq(ClientPackets),
         NEW got \in Seq(PacketsOfServer), NEW g \in GameNumbers, NEW left,
         \/ left = sent
         \/ /\ sent # <<>> /\ left = Tail(sent)
            /\ Head(sent) \notin Turn(g) /\ Head(sent) \notin Shot(g),
         NEW rest,
         rest = got \/ \E more \in Seq(PacketsOfServer) :
                         ~Has(more, Turn(g)) /\ rest = Delivery(app.open, got, more)
  PROVE  SideKept(app, sent, got, app, left, rest, g)
<1>1. app.open \in BOOLEAN
  BY DEF Client
<1>2. /\ Has(rest, Turn(g)) => Has(got, Turn(g))
      /\ Once(got, Turn(g)) => Once(rest, Turn(g))
  <2>1. ASSUME NEW more \in Seq(PacketsOfServer), ~Has(more, Turn(g)),
               rest = Delivery(app.open, got, more)
        PROVE  /\ Has(rest, Turn(g)) => Has(got, Turn(g))
               /\ Once(got, Turn(g)) => Once(rest, Turn(g))
    <3>1. Once(more, Turn(g))
      BY <2>1, Without
    <3>. QED
      BY <1>1, <2>1, <3>1, DeliveryOf
  <2>. QED
    BY <2>1
<1>3. /\ Has(left, Turn(g)) <=> Has(sent, Turn(g))
      /\ Has(left, Shot(g)) <=> Has(sent, Shot(g))
      /\ Once(left, Turn(g)) <=> Once(sent, Turn(g))
      /\ Once(left, Shot(g)) <=> Once(sent, Shot(g))
      /\ Precedes(left, Shot(g), Turn(g)) <=> Precedes(sent, Shot(g), Turn(g))
  <2>1. CASE left = sent
    BY <2>1
  <2>2. CASE /\ sent # <<>> /\ left = Tail(sent)
             /\ Head(sent) \notin Turn(g) /\ Head(sent) \notin Shot(g)
    <3>. DEFINE packet == Head(sent)
    <3>1. \A P, Q : packet \notin P /\ packet \notin Q =>
            /\ Has(left, P) <=> Has(sent, P)
            /\ Once(left, P) <=> Once(sent, P)
            /\ Precedes(left, P, Q) <=> Precedes(sent, P, Q)
      BY <2>2, TailOf
    <3>2. packet \notin Turn(g) /\ packet \notin Shot(g)
      BY <2>2
    <3>. HIDE DEF packet
    <3>. QED
      BY <3>1, <3>2
  <2>. QED
    BY <2>1, <2>2
<1>4. ASSUME NEW last \in BOOLEAN, Sided(app, sent, got, g, last)
      PROVE  Sided(app, left, rest, g, last)
  BY <1>2, <1>3, <1>4 DEF Sided, MayShoot
<1>5. Engaged(app, left, rest, g) => Engaged(app, sent, got, g)
  BY <1>2, <1>3 DEF Engaged
<1>. QED
  BY <1>4, <1>5 DEF SideKept

(* The server takes the turn from a client: it has shot, and waits now.      *)
LEMMA SidedPasses ==
  ASSUME NEW app \in Client, NEW sent \in Seq(ClientPackets), sent # <<>>, NEW got,
         NEW g \in GameNumbers, NEW last \in BOOLEAN, Sided(app, sent, got, g, last),
         Head(sent) \in Turn(g), NEW rest, rest = Tail(sent)
  PROVE  last = TRUE /\ Engaged(app, sent, got, g) /\ ~Engaged(app, rest, got, g)
<1>. DEFINE packet == Head(sent)
<1>1. packet \in Turn(g) /\ packet \notin Shot(g)
  BY DEF Turn, Shot, Of
<1>2. /\ Has(sent, Turn(g)) <=> packet \in Turn(g) \/ Has(rest, Turn(g))
      /\ Has(sent, Shot(g)) <=> packet \in Shot(g) \/ Has(rest, Shot(g))
      /\ Once(sent, Turn(g)) => ~(packet \in Turn(g) /\ Has(rest, Turn(g)))
      /\ Precedes(sent, Shot(g), Turn(g)) => ~(packet \in Turn(g) /\ Has(rest, Shot(g)))
  BY TailOf
<1>. HIDE DEF packet
<1>. QED
  BY <1>1, <1>2 DEF Sided, Engaged

(* The server takes a client's shot, which now was the last.                 *)
LEMMA SidedShoots ==
  ASSUME NEW app \in Client, NEW sent \in Seq(ClientPackets), sent # <<>>, NEW got,
         NEW g \in GameNumbers, NEW last \in BOOLEAN, Sided(app, sent, got, g, last),
         Head(sent) \in Shot(g), NEW rest, rest = Tail(sent)
  PROVE  /\ ~last /\ Engaged(app, sent, got, g)
         /\ Sided(app, rest, got, g, TRUE)
<1>. DEFINE packet == Head(sent)
<1>1. packet \in Shot(g) /\ packet \notin Turn(g)
  BY DEF Turn, Shot, Of
<1>2. /\ Has(sent, Turn(g)) <=> packet \in Turn(g) \/ Has(rest, Turn(g))
      /\ Has(sent, Shot(g)) <=> packet \in Shot(g) \/ Has(rest, Shot(g))
      /\ Once(sent, Turn(g)) => Once(rest, Turn(g))
      /\ Once(sent, Shot(g)) <=>
           Once(rest, Shot(g)) /\ ~(packet \in Shot(g) /\ Has(rest, Shot(g)))
      /\ Precedes(sent, Shot(g), Turn(g)) => Precedes(rest, Shot(g), Turn(g))
  BY TailOf
<1>. HIDE DEF packet
<1>. QED
  BY <1>1, <1>2 DEF Sided, Engaged, MayShoot

(* The same of a client among others.                                         *)
LEMMA PassesTurn ==
  ASSUME NEW q \in Conn, NEW g \in GameNumbers, NEW who, NEW apps, NEW sents, NEW gots,
         apps[q] \in Client, sents[q] \in Seq(ClientPackets), sents[q] # <<>>,
         OnSide(q, g, who, apps, sents, gots), Head(sents[q]) \in Turn(g), NEW left,
         left = Tail(sents[q])
  PROVE  /\ who = q /\ Moves(q, g, apps, sents, gots)
         /\ ~Engaged(apps[q], left, gots[q], g)
<1>. DEFINE last == who = q
<1>1. last \in BOOLEAN /\ Sided(apps[q], sents[q], gots[q], g, last)
  BY DEF OnSide
<1>. HIDE DEF last
<1>2. /\ last = TRUE /\ Engaged(apps[q], sents[q], gots[q], g)
      /\ ~Engaged(apps[q], left, gots[q], g)
  BY <1>1, SidedPasses
<1>. QED
  BY <1>2 DEF last, Moves

LEMMA ShootsBall ==
  ASSUME NEW q \in Conn, NEW g \in GameNumbers, NEW who, NEW apps, NEW sents, NEW gots,
         apps[q] \in Client, sents[q] \in Seq(ClientPackets), sents[q] # <<>>,
         OnSide(q, g, who, apps, sents, gots), Head(sents[q]) \in Shot(g), NEW left,
         left = Tail(sents[q])
  PROVE  /\ Moves(q, g, apps, sents, gots)
         /\ Sided(apps[q], left, gots[q], g, TRUE)
<1>. DEFINE last == who = q
<1>1. last \in BOOLEAN /\ Sided(apps[q], sents[q], gots[q], g, last)
  BY DEF OnSide
<1>. HIDE DEF last
<1>2. /\ Engaged(apps[q], sents[q], gots[q], g)
      /\ Sided(apps[q], left, gots[q], g, TRUE)
  BY <1>1, SidedShoots
<1>. QED
  BY <1>2 DEF Moves

(* Who is not engaged may be given the turn, unless the last shot was theirs.*)
LEMMA SidedTakesTurn ==
  ASSUME NEW app \in Client, NEW sent \in Seq(ClientPackets),
         NEW got \in Seq(PacketsOfServer), NEW more \in Seq(PacketsOfServer),
         NEW g \in GameNumbers, ~Engaged(app, sent, got, g), Once(more, Turn(g)),
         NEW last \in BOOLEAN, Has(more, Turn(g)) => ~last
  PROVE  /\ Sided(app, sent, Delivery(app.open, got, more), g, last)
         /\ Engaged(app, sent, Delivery(app.open, got, more), g) => Has(more, Turn(g))
<1>. DEFINE all == Delivery(app.open, got, more)
<1>1. app.open \in BOOLEAN
  BY DEF Client
<1>2. ~Has(got, Turn(g)) /\ Once(got, Turn(g))
  BY Without DEF Engaged
<1>3. (Has(all, Turn(g)) => Has(more, Turn(g))) /\ Once(all, Turn(g))
  BY <1>1, <1>2, DeliveryOf
<1>. HIDE DEF all
<1>4. /\ ~Has(sent, Turn(g)) /\ ~Has(sent, Shot(g)) /\ ~Holds(app, g)
      /\ Once(sent, Turn(g)) /\ Once(sent, Shot(g)) /\ Precedes(sent, Shot(g), Turn(g))
  BY Without DEF Engaged
<1>5. Sided(app, sent, all, g, last) /\ (Engaged(app, sent, all, g) => Has(more, Turn(g)))
  BY <1>3, <1>4 DEF Sided, Engaged, MayShoot
<1>. QED
  BY <1>5 DEF all

(* Nobody is engaged in a game that has not started.                         *)
LEMMA FreshTable ==
  ASSUME NEW app \in Client, NEW sent, NEW got, NEW n \in Nat, Fresh(app, sent, got, n),
         NEW g \in Nat, n < g
  PROVE  ~Engaged(app, sent, got, g)
<1>1. Turn(g) \subseteq Later(n) /\ Shot(g) \subseteq Later(n)
  BY DEF Turn, Shot, Of, Later, Typed, GameTypes, GameNumbers
<1>2. app.match # g
  BY DEF Fresh, Client
<1>. QED
  BY <1>1, <1>2 DEF Fresh, Has, Engaged, Holds

(* At a table of a game under way each client is on its side of the turn,    *)
(* and one at most is engaged; nobody has shot in a lobby without a game.    *)
AtTurn(lobby, g, who, apps, sents, gots) ==
  /\ IsComplete(lobby) =>
       /\ \A s \in Seats : OnSide(lobby[s].port, g, who, apps, sents, gots)
       /\ ~ \A s \in Seats : Moves(lobby[s].port, g, apps, sents, gots)
  /\ ~IsComplete(lobby) => who = Nobody
TurnsNow ==
  \A k \in LobbyIds : AtTurn(lobbies[k], number[k], shooter[k], client, up, down)
TurnsInv == ~hasty => TurnsNow

LEMMA FullLobby ==
  ASSUME TypeOK, NEW k \in LobbyIds, IsComplete(lobbies[k])
  PROVE  /\ lobbies[k][1].port \in Conn /\ lobbies[k][2].port \in Conn
         /\ IsSeated(lobbies[k], lobbies[k][1].port)
         /\ IsSeated(lobbies[k], lobbies[k][2].port)
<1>1. 1 \in Seats /\ 2 \in Seats
  BY DEF Seats
<1>. QED
  BY <1>1, SeatTypes DEF IsSeated

(* A table whose clients stay on their sides.                                *)
LEMMA TableKept ==
  ASSUME NEW lobby, NEW g, NEW who, NEW apps, NEW sents, NEW gots, NEW after, NEW left,
         NEW rest, AtTurn(lobby, g, who, apps, sents, gots),
         IsComplete(lobby) => \A s \in Seats : lobby[s].port \in Conn,
         \A q \in Conn : IsSeated(lobby, q) =>
           SideKept(apps[q], sents[q], gots[q], after[q], left[q], rest[q], g)
  PROVE  AtTurn(lobby, g, who, after, left, rest)
<1>1. CASE ~IsComplete(lobby)
  BY <1>1 DEF AtTurn
<1>2. CASE IsComplete(lobby)
  <2>1. ASSUME NEW q \in Conn, IsSeated(lobby, q)
        PROVE  /\ OnSide(q, g, who, apps, sents, gots) => OnSide(q, g, who, after, left, rest)
               /\ OnSide(q, g, who, apps, sents, gots) /\ Moves(q, g, after, left, rest)
                    => Moves(q, g, apps, sents, gots)
    <3>. DEFINE last == who = q
    <3>1. last \in BOOLEAN
      OBVIOUS
    <3>2. SideKept(apps[q], sents[q], gots[q], after[q], left[q], rest[q], g)
      BY <2>1
    <3>. HIDE DEF last
    <3>3. /\ Sided(apps[q], sents[q], gots[q], g, last)
               => Sided(after[q], left[q], rest[q], g, last)
          /\ Sided(apps[q], sents[q], gots[q], g, last)
               /\ Engaged(after[q], left[q], rest[q], g)
               => Engaged(apps[q], sents[q], gots[q], g)
      BY <3>1, <3>2 DEF SideKept
    <3>. QED
      BY <3>3 DEF OnSide, Moves, last
  <2>2. \A s \in Seats : lobby[s].port \in Conn /\ IsSeated(lobby, lobby[s].port)
    BY <1>2 DEF IsSeated
  <2>. QED
    BY <1>2, <2>1, <2>2 DEF AtTurn
<1>. QED
  BY <1>1, <1>2

(* A client that takes no part stays where it is.                            *)
LEMMA SideStays ==
  ASSUME NEW app, NEW sent, NEW got, NEW g
  PROVE  SideKept(app, sent, got, app, sent, got, g)
BY DEF SideKept

(* The steps of the clients.                                                 *)
LEMMA TurnsAct ==
  ASSUME TypeOK, NameInv, FlagsInv, PatientNow, TurnsNow, NEW c \in Conn,
         \/ FrameReceive(c) \/ FrameIdle(c) \/ Identify(c) \/ Play(c)
         \/ LeaveGame(c) \/ CloseWindow(c)
  PROVE  TurnsNow'
<1>. DEFINE app == client[c]
<1>1. /\ app \in Client /\ up[c] \in Seq(ClientPackets)
      /\ down[c] \in Seq(PacketsOfServer) /\ Flags(app) /\ InOrder(app, down[c])
  BY QueueTypes DEF FlagsInv, PatientNow, Patient
<1>2. \A k \in LobbyIds : number[k] \in GameNumbers
  BY DEF TypeOK
<1>3. ASSUME OnlyClient(c), \A g \in GameNumbers :
               SideKept(app, up[c], down[c], client'[c], up'[c], down'[c], g)
      PROVE  TurnsNow'
  <2>1. ASSUME NEW k \in LobbyIds
        PROVE  AtTurn(lobbies[k], number[k], shooter[k], client', up', down')
    <3>1. ASSUME NEW q \in Conn
          PROVE  SideKept(client[q], up[q], down[q], client'[q], up'[q], down'[q], number[k])
      <4>1. CASE q = c
        BY <1>2, <1>3, <4>1
      <4>2. CASE q # c
        BY <1>3, <4>2, SideStays DEF OnlyClient
      <4>. QED
        BY <4>1, <4>2
    <3>2. IsComplete(lobbies[k]) => \A s \in Seats : lobbies[k][s].port \in Conn
      BY FullLobby DEF Seats
    <3>3. AtTurn(lobbies[k], number[k], shooter[k], client, up, down)
      BY DEF TurnsNow
    <3>. QED
      BY <3>1, <3>2, <3>3, TableKept
  <2>. QED
    BY <1>3, <2>1 DEF TurnsNow, OnlyClient
<1>4. CASE FrameReceive(c)
  <2>1. PICK before \in Client :
          /\ Handles(app, Head(down[c]), before)
          /\ \E after, sent : /\ FrameEffect(c, before, after, sent)
                              /\ client'[c] = after /\ up'[c] = up[c] \o sent
    BY <1>4, ClientSteps
  <2>2. PICK after, sent : /\ FrameEffect(c, before, after, sent)
                           /\ client'[c] = after /\ up'[c] = up[c] \o sent
    BY <2>1
  <2>3. OnlyClient(c) /\ down[c] # <<>> /\ down'[c] = Tail(down[c])
    BY <1>4, ClientSteps
  <2>4. /\ SameScreen(after, before) /\ sent \in Seq(GamePackets(before.match))
        /\ ~InGame(before) => sent = <<>>
        /\ TurnFrame(before, after, sent)
    BY <2>2, FrameTurns DEF FrameEffect
  <2>. HIDE DEF app
  <2>5. ASSUME NEW g \in GameNumbers
        PROVE  SideKept(app, up[c], down[c], after, up[c] \o sent, Tail(down[c]), g)
    <3>1. SideKept(app, up[c], down[c], before, up[c], Tail(down[c]), g)
      BY <1>1, <2>1, <2>3, SidedReceives
    <3>2. SideKept(before, up[c], Tail(down[c]), after, up[c] \o sent, Tail(down[c]), g)
      BY <1>1, <2>4, SidedFrame
    <3>. QED
      BY <3>1, <3>2 DEF SideKept
  <2>. QED
    BY <1>3, <2>2, <2>3, <2>5
<1>5. CASE FrameIdle(c)
  <2>1. PICK after, sent : /\ FrameEffect(c, app, after, sent)
                           /\ client'[c] = after /\ up'[c] = up[c] \o sent
    BY <1>5, ClientSteps
  <2>2. /\ OnlyClient(c) /\ down'[c] = down[c]
        /\ SameScreen(after, app) /\ sent \in Seq(GamePackets(app.match))
        /\ ~InGame(app) => sent = <<>>
        /\ TurnFrame(app, after, sent)
    BY <1>1, <1>5, <2>1, FrameTurns, ClientSteps DEF FrameEffect
  <2>. HIDE DEF app
  <2>3. \A g \in GameNumbers :
          SideKept(app, up[c], down[c], after, up[c] \o sent, down[c], g)
    BY <1>1, <2>2, SidedFrame
  <2>. QED
    BY <1>3, <2>1, <2>2, <2>3
<1>6. CASE Identify(c) \/ Play(c) \/ LeaveGame(c) \/ CloseWindow(c)
  <2>1. /\ OnlyClient(c) /\ down'[c] = down[c]
        /\ client'[c] \in {app, AfterLeaving(app), [app EXCEPT !.open = FALSE]}
        /\ up'[c] = up[c] \/ \E type \in ClientTypes \ {"newTurn", "cueBallVelocity"} :
                               up'[c] = Append(up[c], Packet(type, 0))
    BY <1>6, ClientSteps DEF ClientTypes
  <2>2. ASSUME NEW g
        PROVE  Holds(client'[c], g) =>
                 Holds(app, g) /\ client'[c].game.has_played = app.game.has_played
    <3>1. ~Holds(AfterLeaving(app), g)
      BY <1>1, FlagsOther DEF Holds
    <3>2. /\ [app EXCEPT !.open = FALSE].game = app.game
          /\ [app EXCEPT !.open = FALSE].match = app.match
      BY <1>1, FlagsOther
    <3>. QED
      BY <2>1, <3>1, <3>2 DEF Holds, InGame
  <2>3. \A g : SideKept(app, up[c], down[c], client'[c], up'[c], down[c], g)
    BY <1>1, <2>1, <2>2, SidedSheds
  <2>. QED
    BY <1>3, <2>1, <2>3
<1>. QED
  BY <1>4, <1>5, <1>6

(* The two at a table.                                                       *)
LEMMA TwoAtTurn ==
  ASSUME NEW lobby, IsComplete(lobby), NEW c, NEW other,
         \/ lobby[1].port = c /\ lobby[2].port = other
         \/ lobby[2].port = c /\ lobby[1].port = other,
         NEW g, NEW who, NEW apps, NEW sents, NEW gots
  PROVE  AtTurn(lobby, g, who, apps, sents, gots) <=>
           /\ OnSide(c, g, who, apps, sents, gots) /\ OnSide(other, g, who, apps, sents, gots)
           /\ ~(Moves(c, g, apps, sents, gots) /\ Moves(other, g, apps, sents, gots))
<1>. DEFINE S(q) == OnSide(q, g, who, apps, sents, gots)
            E(q) == Moves(q, g, apps, sents, gots)
<1>1. AtTurn(lobby, g, who, apps, sents, gots) <=>
        (\A s \in Seats : S(lobby[s].port)) /\ ~ \A s \in Seats : E(lobby[s].port)
  BY DEF AtTurn
<1>. HIDE DEF S, E
<1>2. Seats = {1, 2}
  BY DEF Seats
<1>3. AtTurn(lobby, g, who, apps, sents, gots) <=> S(c) /\ S(other) /\ ~(E(c) /\ E(other))
  BY <1>1, <1>2
<1>. QED
  BY <1>3 DEF S, E

LEMMA TwoAtTable ==
  ASSUME TypeOK, NEW c \in Conn, OneSeat(c), NEW k \in LobbyIds, IsSeated(lobbies[k], c),
         IsComplete(lobbies[k])
  PROVE  \E other \in Conn :
           /\ other # c /\ IsSeated(lobbies[k], other)
           /\ \/ lobbies[k][1].port = c /\ lobbies[k][2].port = other
              \/ lobbies[k][2].port = c /\ lobbies[k][1].port = other
<1>. DEFINE first == lobbies[k][1].port
            second == lobbies[k][2].port
<1>1. first = c \/ second = c
  BY SeatTypes
<1>2. ~(first = c /\ second = c)
  <2>1. 1 \in Seats /\ 2 \in Seats
    BY DEF Seats
  <2>. QED
    BY <2>1 DEF OneSeat, OneSeatIn
<1>3. /\ first \in Conn /\ second \in Conn
      /\ IsSeated(lobbies[k], first) /\ IsSeated(lobbies[k], second)
  BY FullLobby
<1>. HIDE DEF first, second
<1>4. \E other \in Conn :
        /\ other # c /\ IsSeated(lobbies[k], other)
        /\ (first = c /\ second = other) \/ (second = c /\ first = other)
  BY <1>1, <1>2, <1>3
<1>. QED
  BY <1>4 DEF first, second

LEMMA OpponentDiffers ==
  ASSUME TypeOK, NEW c \in Conn, OneSeat(c)
  PROVE  FindClientOpponentInLobbies(c) # c
<1>. DEFINE k == CHOOSE k \in LobbyIds : IsFirstWith(k, c)
<1>1. CASE \E j \in LobbyIds : IsFirstWith(j, c)
  <2>1. k \in LobbyIds /\ FindClientOpponentInLobbies(c) = Opposite(lobbies[k], c).port
    BY <1>1 DEF FindClientOpponentInLobbies
  <2>. HIDE DEF k
  <2>2. ~(lobbies[k][1].port = c /\ lobbies[k][2].port = c)
    <3>1. 1 \in Seats /\ 2 \in Seats
      BY DEF Seats
    <3>. QED
      BY <2>1, <3>1 DEF OneSeat, OneSeatIn
  <2>3. NoPort # c
    BY NoPortAssumption, PoolAssumption
  <2>. QED
    BY <2>1, <2>2, <2>3 DEF Opposite, NoClient
<1>2. CASE ~ \E j \in LobbyIds : IsFirstWith(j, c)
  BY <1>2, NoPortAssumption, PoolAssumption DEF FindClientOpponentInLobbies
<1>. QED
  BY <1>1, <1>2

(* A handler that takes no move and sends no turn to a table.                *)
LEMMA TableWaits ==
  ASSUME TypeOK, TurnsNow, NEW c \in Conn, up[c] # <<>>, client' = client,
         up' = [up EXCEPT ![c] = Tail(@)], NEW k \in LobbyIds,
         IsSeated(lobbies[k], c) => /\ Head(up[c]) \notin Turn(number[k])
                                   /\ Head(up[c]) \notin Shot(number[k]),
         \A q \in Conn : IsSeated(lobbies[k], q) =>
           \/ down'[q] = down[q]
           \/ \E more \in Seq(PacketsOfServer) :
                /\ ~Has(more, Turn(number[k]))
                /\ down'[q] = Delivery(client[q].open, down[q], more)
  PROVE  AtTurn(lobbies[k], number[k], shooter[k], client', up', down')
<1>1. ASSUME NEW q \in Conn, IsSeated(lobbies[k], q)
      PROVE  SideKept(client[q], up[q], down[q], client'[q], up'[q], down'[q], number[k])
  <2>1. /\ client[q] \in Client /\ up[q] \in Seq(ClientPackets)
        /\ down[q] \in Seq(PacketsOfServer) /\ number[k] \in GameNumbers
    BY QueueTypes DEF TypeOK
  <2>2. up'[q] = IF q = c THEN Tail(up[c]) ELSE up[q]
    BY DEF TypeOK
  <2>3. \/ up'[q] = up[q]
        \/ /\ up[q] # <<>> /\ up'[q] = Tail(up[q])
           /\ Head(up[q]) \notin Turn(number[k]) /\ Head(up[q]) \notin Shot(number[k])
    BY <1>1, <2>2
  <2>. QED
    BY <1>1, <2>1, <2>3, SidedWaits
<1>2. IsComplete(lobbies[k]) => \A s \in Seats : lobbies[k][s].port \in Conn
  BY FullLobby DEF Seats
<1>3. AtTurn(lobbies[k], number[k], shooter[k], client, up, down)
  BY DEF TurnsNow
<1>. QED
  BY <1>1, <1>2, <1>3, TableKept

(* A move of a player at the table.                                          *)
LEMMA TableRelays ==
  ASSUME TypeOK, PatientNow, TurnsNow, NEW c \in Conn, up[c] # <<>>, client' = client,
         up' = [up EXCEPT ![c] = Tail(@)], NEW got \in [Conn -> Seq(PacketsOfServer)],
         Delivered(got), Relays(c, Head(up[c]), got),
         NEW k \in LobbyIds, IsSeated(lobbies[k], c)
  PROVE  AtTurn(lobbies[k], number[k], shooter'[k], client', up', down')
<1>. DEFINE packet == Head(up[c])
            g == number[k]
<1>1. packet \in ClientPackets /\ packet.type \in {"newTurn", "cueBallVelocity"}
  BY ServedAtTable DEF Relays
<1>2. IsComplete(lobbies[k]) /\ packet.of = g /\ g \in GameNumbers
  BY <1>1, ServedAtTable DEF GameTypes, TypeOK
<1>3. OneSeat(c)
  BY DEF PatientNow
<1>4. PICK other \in Conn :
        /\ other # c /\ IsSeated(lobbies[k], other)
        /\ \/ lobbies[k][1].port = c /\ lobbies[k][2].port = other
           \/ lobbies[k][2].port = c /\ lobbies[k][1].port = other
  BY <1>2, <1>3, TwoAtTable
<1>5. /\ OnSide(c, g, shooter[k], client, up, down)
      /\ OnSide(other, g, shooter[k], client, up, down)
      /\ ~(Moves(c, g, client, up, down) /\ Moves(other, g, client, up, down))
  <2>1. AtTurn(lobbies[k], g, shooter[k], client, up, down)
    BY DEF TurnsNow
  <2>. HIDE DEF g
  <2>. QED
    BY <1>2, <1>4, <2>1, TwoAtTurn
<1>6. /\ client[c] \in Client /\ client[other] \in Client
      /\ up[c] \in Seq(ClientPackets) /\ up[other] \in Seq(ClientPackets)
      /\ down[c] \in Seq(PacketsOfServer) /\ down[other] \in Seq(PacketsOfServer)
      /\ got[c] \in Seq(PacketsOfServer) /\ got[other] \in Seq(PacketsOfServer)
      /\ Tail(up[c]) \in Seq(ClientPackets) /\ up'[c] \in Seq(ClientPackets)
  <2>1. up[c] \in Seq(ClientPackets)
    BY QueueTypes
  <2>2. up'[c] = Tail(up[c])
    BY DEF TypeOK
  <2>. QED
    BY <2>1, <2>2, QueueTypes, HeadAndTail
<1>7. /\ up'[c] = Tail(up[c]) /\ up'[other] = up[other]
      /\ client'[c] = client[c] /\ client'[other] = client[other]
      /\ down'[c] = Delivery(client[c].open, down[c], got[c])
      /\ down'[other] = Delivery(client[other].open, down[other], got[other])
  BY <1>4 DEF TypeOK, Delivered, Delivery
<1>8. /\ ~Has(got[c], Turn(g))
      /\ Once(got[other], Turn(g))
      /\ packet.type # "newTurn" => ~Has(got[other], Turn(g))
  <2>1. \A q \in Conn : \A m, n \in DOMAIN got[q] : got[q][n].type = "newTurn" =>
          packet.type = "newTurn" /\ q = FindClientOpponentInLobbies(c) /\ m = n
    BY DEF Relays, TurnRelayed
  <2>2. \A other_packet \in Turn(g) : other_packet.type = "newTurn"
    BY DEF Turn, Of
  <2>3. FindClientOpponentInLobbies(c) # c
    BY <1>3, OpponentDiffers
  <2>. HIDE DEF packet, g
  <2>. QED
    BY <2>1, <2>2, <2>3 DEF Has, Once
<1>. HIDE DEF g
<1>9. CASE packet.type = "newTurn"
  <2>1. packet \in Turn(g)
    BY <1>1, <1>2, <1>9, Classes DEF Turn
  <2>2. /\ shooter[k] = c /\ Moves(c, g, client, up, down)
        /\ ~Engaged(client[c], up'[c], down[c], g)
    <3>1. /\ client[c] \in Client /\ up[c] \in Seq(ClientPackets) /\ g \in GameNumbers
          /\ Head(up[c]) \in Turn(g) /\ up'[c] = Tail(up[c])
          /\ OnSide(c, g, shooter[k], client, up, down)
      BY <1>2, <1>5, <1>6, <1>7, <2>1
    <3>. HIDE DEF packet
    <3>. QED
      BY <3>1, PassesTurn
  <2>3. shooter' = shooter
    BY <1>9 DEF Relays, TurnRelayed
  <2>4. OnSide(c, g, shooter'[k], client', up', down') /\ ~Moves(c, g, client', up', down')
    <3>. DEFINE last == shooter'[k] = c
                rest == Delivery(client[c].open, down[c], got[c])
    <3>1. last \in BOOLEAN
      OBVIOUS
    <3>2. Once(got[c], Turn(g)) /\ ~Has(got[c], Turn(g))
      BY <1>8, Without
    <3>. HIDE DEF last, packet
    <3>3. /\ Sided(client[c], up'[c], rest, g, last)
          /\ ~Engaged(client[c], up'[c], rest, g)
      <4>. DEFINE app == client[c]
                  sent == up'[c]
                  before == down[c]
                  more == got[c]
      <4>1. /\ app \in Client /\ sent \in Seq(ClientPackets)
            /\ before \in Seq(PacketsOfServer) /\ more \in Seq(PacketsOfServer)
            /\ g \in GameNumbers /\ ~Engaged(app, sent, before, g)
            /\ Once(more, Turn(g)) /\ ~Has(more, Turn(g))
        BY <1>2, <1>6, <2>2, <3>2
      <4>. HIDE DEF app, sent, before, more
      <4>2. /\ Sided(app, sent, Delivery(app.open, before, more), g, last)
            /\ Engaged(app, sent, Delivery(app.open, before, more), g)
                 => Has(more, Turn(g))
        BY <3>1, <4>1, SidedTakesTurn
      <4>. QED
        BY <4>1, <4>2 DEF app, sent, before, more
    <3>. QED
      BY <1>7, <3>3 DEF OnSide, Moves, last
  <2>5. OnSide(other, g, shooter'[k], client', up', down')
    <3>. DEFINE rest == Delivery(client[other].open, down[other], got[other])
    <3>1. (shooter'[k] = other) = FALSE
      BY <1>4, <2>2, <2>3
    <3>2. ~Engaged(client[other], up[other], down[other], g)
      BY <1>5, <2>2 DEF Moves
    <3>3. Sided(client[other], up[other], rest, g, FALSE)
      BY <1>2, <1>6, <1>8, <3>2, SidedTakesTurn
    <3>. QED
      BY <1>7, <3>1, <3>3 DEF OnSide
  <2>. QED
    BY <1>2, <1>4, <2>4, <2>5, TwoAtTurn DEF g
<1>10. CASE packet.type = "cueBallVelocity"
  <2>1. packet \in Shot(g)
    BY <1>1, <1>2, <1>10, Classes DEF Shot
  <2>2. /\ Moves(c, g, client, up, down)
        /\ Sided(client[c], up'[c], down[c], g, TRUE)
    BY <1>2, <1>5, <1>6, <1>7, <2>1, ShootsBall
  <2>3. shooter'[k] = c
    <3>1. IsFirstWith(k, c)
      <4>1. \A j \in LobbyIds : IsSeated(lobbies[j], c) => j = k
        BY <1>3 DEF OneSeat, OneSeatIn, IsSeated
      <4>2. \A j \in LobbyIds : j < k => j # k
        BY DEF LobbyIds
      <4>. QED
        BY <4>1, <4>2 DEF IsFirstWith
    <3>2. shooter' = [j \in LobbyIds |-> IF IsFirstWith(j, c) THEN c ELSE shooter[j]]
      BY <1>10 DEF Relays, TurnRelayed
    <3>. QED
      BY <3>1, <3>2
  <2>4. OnSide(c, g, shooter'[k], client', up', down')
    <3>. DEFINE rest == Delivery(client[c].open, down[c], got[c])
    <3>1. SideKept(client[c], up'[c], down[c], client[c], up'[c], rest, g)
      BY <1>2, <1>6, <1>8, SidedWaits
    <3>. HIDE DEF rest
    <3>2. Sided(client[c], up'[c], rest, g, TRUE)
      BY <2>2, <3>1 DEF SideKept
    <3>3. (shooter'[k] = c) = TRUE
      BY <2>3
    <3>. QED
      BY <1>7, <3>2, <3>3 DEF OnSide, rest
  <2>5. /\ OnSide(other, g, shooter'[k], client', up', down')
        /\ ~Moves(other, g, client', up', down')
    <3>. DEFINE rest == Delivery(client[other].open, down[other], got[other])
    <3>1. (shooter'[k] = other) = FALSE
      BY <1>4, <2>3
    <3>2. ~Engaged(client[other], up[other], down[other], g)
      BY <1>5, <2>2 DEF Moves
    <3>3. /\ Sided(client[other], up[other], rest, g, FALSE)
          /\ ~Engaged(client[other], up[other], rest, g)
      <4>1. ~Has(got[other], Turn(g))
        BY <1>8, <1>10
      <4>. QED
        BY <1>2, <1>6, <1>8, <3>2, <4>1, SidedTakesTurn
    <3>. QED
      BY <1>7, <3>1, <3>3 DEF OnSide, Moves
  <2>. QED
    BY <1>2, <1>4, <2>4, <2>5, TwoAtTurn DEF g
<1>. QED
  BY <1>1, <1>9, <1>10

(* The last seat of a lobby is taken: a game with a new number starts.       *)
LEMMA TableJoins ==
  ASSUME TypeOK, TypeOK', FreshInv, PatientNow', TurnsNow, NEW c \in Conn, up[c] # <<>>,
         client' = client, up' = [up EXCEPT ![c] = Tail(@)],
         NEW got \in [Conn -> Seq(PacketsOfServer)], Delivered(got),
         NEW k \in LobbyIds, NEW s \in Seats, Joins(c, Head(up[c]), k, s, got)
  PROVE  AtTurn(lobbies'[k], number'[k], shooter'[k], client', up', down')
<1>1. /\ games \in Nat /\ number \in [LobbyIds -> Nat]
      /\ ~IsComplete(lobbies[k]) /\ shooter' = shooter
      /\ games' = IF IsComplete(lobbies'[k]) THEN games + 1 ELSE games
      /\ number' = [number EXCEPT ![k] = IF IsComplete(lobbies'[k]) THEN games' ELSE 0]
  BY DEF Joins, IsFirstOpen, TypeOK, GameNumbers
<1>2. shooter'[k] = Nobody
  BY <1>1 DEF TurnsNow, AtTurn
<1>3. CASE ~IsComplete(lobbies'[k])
  BY <1>2, <1>3 DEF AtTurn
<1>4. CASE IsComplete(lobbies'[k])
  <2>. DEFINE g == number'[k]
              first == lobbies'[k][1].port
              second == lobbies'[k][2].port
  <2>1. g = games + 1 /\ g \in Nat /\ games < g /\ g \in GameNumbers
    BY <1>1, <1>4 DEF GameNumbers
  <2>2. /\ \A t \in Seats : lobbies'[k][t].port \in Conn \cup {NoPort}
        /\ first # NoPort /\ second # NoPort
    <3>1. /\ lobbies'[k] \in Lobby /\ Port = Conn
      BY PoolAssumption DEF TypeOK, ServerTypeOK
    <3>2. 1 \in Seats /\ 2 \in Seats
      BY DEF Seats
    <3>. QED
      BY <1>4, <3>1, <3>2 DEF Lobby, ClientData, IsComplete
  <2>3. first \in Conn /\ second \in Conn /\ 1 \in Seats /\ 2 \in Seats
    BY <2>2 DEF Seats
  <2>4. first # second
    <3>1. \A q \in Conn : OneSeatIn(lobbies', q)
      BY DEF PatientNow, OneSeat
    <3>. QED
      BY <2>3, <3>1 DEF OneSeatIn
  <2>5. \A q \in Conn : TurnGiven(first, q, got[q])
    BY DEF Joins
  <2>. HIDE DEF g, first, second
  <2>6. ASSUME NEW q \in Conn
        PROVE  /\ OnSide(q, g, shooter'[k], client', up', down')
               /\ Moves(q, g, client', up', down') => q = first
    <3>1. /\ client[q] \in Client /\ up[q] \in Seq(ClientPackets)
          /\ down[q] \in Seq(PacketsOfServer) /\ got[q] \in Seq(PacketsOfServer)
          /\ Fresh(client[q], up[q], down[q], games)
      BY QueueTypes DEF FreshInv
    <3>2. /\ up'[q] = up[q] \/ (up[q] # <<>> /\ up'[q] = Tail(up[q]))
          /\ client'[q] = client[q]
          /\ down'[q] = Delivery(client[q].open, down[q], got[q])
      BY DEF TypeOK, Delivered, Delivery
    <3>3. up'[q] \in Seq(ClientPackets)
      BY <3>1, <3>2, HeadAndTail
    <3>4. Fresh(client[q], up'[q], down[q], games)
      <4>1. ~Has(up'[q], Later(games))
        BY <3>1, <3>2, TailOf DEF Fresh
      <4>. QED
        BY <3>1, <4>1 DEF Fresh
    <3>5. ~Engaged(client[q], up'[q], down[q], g)
      BY <1>1, <2>1, <3>1, <3>4, FreshTable
    <3>6. Once(got[q], Turn(g)) /\ (Has(got[q], Turn(g)) => q = first)
      <4>1. \A packet \in Turn(g) : packet.type = "newTurn"
        BY DEF Turn, Of
      <4>. QED
        BY <2>5, <4>1 DEF TurnGiven, Once, Has
    <3>7. (shooter'[k] = q) = FALSE
      BY <1>2, NoNameAssumption DEF Nobody
    <3>. DEFINE rest == Delivery(client[q].open, down[q], got[q])
    <3>8. /\ Sided(client[q], up'[q], rest, g, FALSE)
          /\ Engaged(client[q], up'[q], rest, g) => Has(got[q], Turn(g))
      BY <2>1, <3>1, <3>3, <3>5, <3>6, SidedTakesTurn
    <3>. QED
      BY <3>2, <3>6, <3>7, <3>8 DEF OnSide, Moves
  <2>7. \/ lobbies'[k][1].port = first /\ lobbies'[k][2].port = second
        \/ lobbies'[k][2].port = first /\ lobbies'[k][1].port = second
    BY DEF first, second
  <2>8. AtTurn(lobbies'[k], g, shooter'[k], client', up', down')
    BY <1>4, <2>3, <2>4, <2>6, <2>7, TwoAtTurn
  <2>. QED
    BY <2>8 DEF g
<1>. QED
  BY <1>3, <1>4

(* A packet without a move brings no turn.                                   *)
LEMMA NoTurn ==
  ASSUME NEW queue, NEW g,
         \A n \in DOMAIN queue : queue[n].type # "newTurn" \/ queue[n].of # g
  PROVE  ~Has(queue, Turn(g))
BY DEF Has, Turn, Of

LEMMA TurnsServed ==
  ASSUME TypeOK, TypeOK', FreshInv, PatientNow, PatientNow', TurnsNow, NEW c \in Conn,
         up[c] # <<>>, client' = client, up' = [up EXCEPT ![c] = Tail(@)],
         NEW got \in [Conn -> Seq(PacketsOfServer)], Delivered(got),
         Served(c, Head(up[c]), got)
  PROVE  TurnsNow'
<1>. DEFINE packet == Head(up[c])
<1>1. packet \in ClientPackets
  BY ServedAtTable
<1>2. \A q \in Conn : /\ OneSeat(q) /\ OneSeat(q)'
                      /\ down'[q] = Delivery(client[q].open, down[q], got[q])
  BY DEF PatientNow, Delivered, Delivery
<1>3. packet.type \notin {"newTurn", "cueBallVelocity"} =>
        \A g : packet \notin Turn(g) /\ packet \notin Shot(g)
  BY <1>1, Classes DEF Turn, Shot
<1>. HIDE DEF packet
<1>4. ASSUME NEW k \in LobbyIds,
             IsSeated(lobbies[k], c) => packet.type \notin {"newTurn", "cueBallVelocity"},
             \A q \in Conn : IsSeated(lobbies[k], q) =>
               \A n \in DOMAIN got[q] : got[q][n].type # "newTurn"
                                          \/ got[q][n].of # number[k]
      PROVE  AtTurn(lobbies[k], number[k], shooter[k], client', up', down')
  <2>1. IsSeated(lobbies[k], c) => /\ packet \notin Turn(number[k])
                                  /\ packet \notin Shot(number[k])
    BY <1>3, <1>4
  <2>2. \A q \in Conn : IsSeated(lobbies[k], q) =>
          \E more \in Seq(PacketsOfServer) :
            /\ ~Has(more, Turn(number[k]))
            /\ down'[q] = Delivery(client[q].open, down[q], more)
    BY <1>2, <1>4, NoTurn
  <2>. QED
    BY <2>1, <2>2, TableWaits DEF packet
<1>5. CASE Relays(c, packet, got)
  <2>1. Quiet /\ packet.type \in {"newTurn", "cueBallVelocity"}
    BY <1>5 DEF Relays
  <2>2. ASSUME NEW k \in LobbyIds, IsSeated(lobbies[k], c)
        PROVE  AtTurn(lobbies[k], number[k], shooter'[k], client', up', down')
    BY <1>5, <2>2, TableRelays DEF packet
  <2>3. ASSUME NEW k \in LobbyIds, ~IsSeated(lobbies[k], c)
        PROVE  AtTurn(lobbies[k], number[k], shooter'[k], client', up', down')
    <3>1. shooter'[k] = shooter[k]
      BY <1>5, <2>3 DEF Relays, TurnRelayed, IsFirstWith
    <3>2. ASSUME NEW q \in Conn, IsSeated(lobbies[k], q) PROVE DOMAIN got[q] = {}
      <4>. SUFFICES ASSUME NEW n \in DOMAIN got[q] PROVE FALSE
        OBVIOUS
      <4>1. PICK j \in LobbyIds : IsSeated(lobbies[j], c) /\ IsSeated(lobbies[j], q)
        BY <1>5 DEF Relays
      <4>2. j = k
        BY <1>2, <3>2, <4>1 DEF OneSeat, OneSeatIn, IsSeated
      <4>. QED
        BY <2>3, <4>1, <4>2
    <3>3. AtTurn(lobbies[k], number[k], shooter[k], client', up', down')
      BY <1>4, <2>3, <3>2
    <3>. QED
      BY <3>1, <3>3
  <2>. QED
    BY <2>1, <2>2, <2>3 DEF TurnsNow, Quiet
<1>6. CASE Identifies(c, packet, got) \/ EndsNothing(c, packet, got)
  <2>1. /\ Quiet /\ shooter' = shooter
        /\ packet.type \notin {"newTurn", "cueBallVelocity"}
        /\ \A q \in Conn : \A n \in DOMAIN got[q] : got[q][n].type # "newTurn"
    <3>1. CASE Identifies(c, packet, got)
      BY <3>1 DEF Identifies
    <3>2. CASE EndsNothing(c, packet, got)
      BY <3>2 DEF EndsNothing
    <3>. QED
      BY <1>6, <3>1, <3>2
  <2>2. \A k \in LobbyIds : AtTurn(lobbies[k], number[k], shooter[k], client', up', down')
    BY <1>4, <2>1
  <2>. QED
    BY <2>1, <2>2 DEF TurnsNow, Quiet
<1>7. ASSUME NEW k \in LobbyIds, EndsGame(c, packet, k, got) PROVE TurnsNow'
  <2>1. /\ packet.type \notin {"newTurn", "cueBallVelocity"}
        /\ \A q \in Conn : \A n \in DOMAIN got[q] : got[q][n].type # "newTurn"
    BY <1>7 DEF EndsGame, Verdicts
  <2>2. \A j \in LobbyIds :
          /\ lobbies'[j] = IF j = k THEN EmptyLobby ELSE lobbies[j]
          /\ j # k => number'[j] = number[j]
          /\ shooter'[j] = IF j = k THEN Nobody ELSE shooter[j]
    BY <1>7 DEF EndsGame, TypeOK, ServerTypeOK
  <2>3. ASSUME NEW j \in LobbyIds
        PROVE  AtTurn(lobbies'[j], number'[j], shooter'[j], client', up', down')
    <3>1. CASE j = k
      BY <2>2, <3>1, EmptyLobbies DEF AtTurn
    <3>2. CASE j # k
      BY <1>4, <2>1, <2>2, <3>2
    <3>. QED
      BY <3>1, <3>2
  <2>. QED
    BY <2>3 DEF TurnsNow
<1>8. ASSUME NEW k \in LobbyIds, NEW s \in Seats, Joins(c, packet, k, s, got)
      PROVE  TurnsNow'
  <2>1. packet.type = "joinLobby" /\ shooter' = shooter
    BY <1>8 DEF Joins
  <2>2. \A j \in LobbyIds : j # k => lobbies'[j] = lobbies[j] /\ number'[j] = number[j]
    BY <1>8 DEF Joins, TypeOK, ServerTypeOK
  <2>3. AtTurn(lobbies'[k], number'[k], shooter'[k], client', up', down')
    BY <1>8, TableJoins DEF packet
  <2>4. ASSUME NEW j \in LobbyIds, j # k
        PROVE  AtTurn(lobbies'[j], number'[j], shooter'[j], client', up', down')
    <3>1. ASSUME NEW q \in Conn, IsSeated(lobbies[j], q), NEW n \in DOMAIN got[q]
          PROVE  got[q][n].type # "newTurn"
      <4>. SUFFICES ASSUME got[q][n].type = "newTurn" PROVE FALSE
        OBVIOUS
      <4>1. IsSeated(lobbies'[k], q) /\ IsSeated(lobbies'[j], q)
        BY <1>8, <2>2, <2>4, <3>1 DEF Joins
      <4>2. j = k
        BY <1>2, <4>1 DEF OneSeat, OneSeatIn, IsSeated
      <4>. QED
        BY <2>4, <4>2
    <3>2. AtTurn(lobbies[j], number[j], shooter[j], client', up', down')
      BY <1>4, <2>1, <3>1
    <3>. QED
      BY <2>1, <2>2, <2>4, <3>2
  <2>. QED
    BY <2>3, <2>4 DEF TurnsNow
<1>. QED
  BY <1>5, <1>6, <1>7, <1>8 DEF Served, packet

LEMMA TurnsStep ==
  TypeOK /\ TypeOK' /\ NameInv /\ PatientInv /\ PatientInv' /\ FlagsInv /\ FreshInv /\ TurnsInv
    /\ [Next]_vars => TurnsInv'
<1>. SUFFICES ASSUME TypeOK, TypeOK', NameInv, PatientInv, PatientInv', FlagsInv, FreshInv,
                     TurnsInv, [Next]_vars, ~hasty'
              PROVE  TurnsNow'
  BY DEF TurnsInv
<1>1. PatientNow' /\ (~hasty => TurnsNow /\ PatientNow)
  BY DEF PatientInv, TurnsInv
<1>2. ASSUME NEW c \in Conn,
             \/ FrameReceive(c) \/ FrameIdle(c) \/ Identify(c) \/ Play(c)
             \/ LeaveGame(c) \/ CloseWindow(c)
      PROVE  TurnsNow'
  <2>1. ~hasty
    BY <1>2, ClientSteps
  <2>. QED
    BY <1>1, <1>2, <2>1, TurnsAct
<1>3. ASSUME NEW c \in Conn, Serve(c) PROVE TurnsNow'
  <2>1. /\ up[c] # <<>> /\ up' = [up EXCEPT ![c] = Tail(@)] /\ client' = client
        /\ hasty' = hasty
        /\ \/ Overflows(Head(up[c]))
           \/ \E got \in [Conn -> Seq(PacketsOfServer)] :
                Delivered(got) /\ Served(c, Head(up[c]), got)
    BY <1>3, ServeEffects
  <2>2. TurnsNow /\ PatientNow
    BY <1>1, <2>1
  <2>3. CASE Overflows(Head(up[c]))
    <3>1. /\ Head(up[c]).type = "joinLobby" /\ down' = down /\ Quiet /\ shooter' = shooter
      BY <2>3 DEF Overflows
    <3>2. \A g : Head(up[c]) \notin Turn(g) /\ Head(up[c]) \notin Shot(g)
      BY <3>1 DEF Turn, Shot, Of
    <3>3. \A k \in LobbyIds :
            AtTurn(lobbies[k], number[k], shooter[k], client', up', down')
      BY <2>1, <2>2, <3>1, <3>2, TableWaits
    <3>. QED
      BY <3>1, <3>3 DEF TurnsNow, Quiet
  <2>. QED
    BY <1>1, <2>1, <2>2, <2>3, TurnsServed
<1>4. CASE UNCHANGED vars
  BY <1>1, <1>4 DEF vars, TurnsNow
<1>. QED
  BY <1>2, <1>3, <1>4 DEF Next

LEMMA TurnsStart ==
  Init => FlagsInv /\ FreshInv /\ TurnsInv
<1>. SUFFICES ASSUME Init PROVE FlagsInv /\ FreshInv /\ TurnsNow
  BY DEF TurnsInv
<1>1. ASSUME NEW c \in Conn
      PROVE  /\ up[c] = <<>> /\ down[c] = <<>> /\ ~InGame(client[c])
             /\ ~client[c].game.is_player_turn /\ ~client[c].game.has_played
             /\ client[c].match = 0
  <2>1. client[c] \in {NewClient, MenuClient}
    BY DEF Init
  <2>2. /\ ~NewClient.game.playing /\ ~NewClient.game.is_player_turn
        /\ ~NewClient.game.has_played /\ NewClient.match = 0
    BY DEF NewClient, NewGame
  <2>3. MenuClient.game = NewClient.game /\ MenuClient.match = NewClient.match
    BY DEF MenuClient, NewClient
  <2>. QED
    BY <2>1, <2>2, <2>3 DEF Init, InGame
<1>2. FlagsInv
  BY <1>1 DEF FlagsInv, Flags
<1>3. games = 0 /\ \A k \in LobbyIds : number[k] = 0
  BY DEF Init
<1>4. FreshInv
  BY <1>1, <1>3, EmptyOf DEF FreshInv, Fresh
<1>5. \A k \in LobbyIds : lobbies[k] = EmptyLobby /\ shooter[k] = Nobody
  BY DEF Init
<1>6. TurnsNow
  BY <1>5, EmptyLobbies, TypesStart DEF TurnsNow, AtTurn
<1>. QED
  BY <1>2, <1>4, <1>6

LEMMA TurnsAlways == Spec => [](TypeOK /\ PatientInv /\ TurnsInv)
<1>1. Init => NameInv /\ FlagsInv /\ FreshInv /\ TurnsInv
  BY NamesStart, TurnsStart
<1>2. Spec => [](TypeOK /\ PatientInv /\ NameInv)
  BY <1>1, PatientAlways, NamesStep, PTL DEF Spec
<1>3. Spec => [](FlagsInv /\ FreshInv)
  BY <1>1, <1>2, FlagsStep, FreshStep, PTL DEF Spec
<1>. QED
  BY <1>1, <1>2, <1>3, TurnsStep, PTL DEF Spec

(* The shots of a game alternate as the server sees them, over any number of *)
(* games and with cues drawn in the last one: who has shot was not the last  *)
(* to (kCueBallVelocity, HandlePlayerTurn, CheckEndTurnCondition, Deinit).   *)
THEOREM ShotsAlternate == Spec => AlternatingShots
<1>1. TypeOK /\ PatientInv /\ TurnsInv =>
        \A c \in Conn, k \in LobbyIds : ServesShot(c, k) /\ ~hasty => shooter[k] # c
  <2>. SUFFICES ASSUME TypeOK, PatientInv, TurnsInv, NEW c \in Conn, NEW k \in LobbyIds,
                       ServesShot(c, k), ~hasty
                PROVE  shooter[k] # c
    OBVIOUS
  <2>1. /\ PatientNow /\ TurnsNow /\ up[c] # <<>>
        /\ Head(up[c]).type = "cueBallVelocity" /\ IsSeated(lobbies[k], c)
    BY DEF PatientInv, TurnsInv, ServesShot, IsFirstWith
  <2>2. /\ Head(up[c]) \in ClientPackets /\ \A S : Head(up[c]) \in S => Has(up[c], S)
        /\ IsComplete(lobbies[k]) /\ Head(up[c]).of = number[k]
    BY <2>1, ServedAtTable DEF GameTypes
  <2>3. Has(up[c], Shot(number[k]))
    BY <2>1, <2>2, Classes DEF Shot
  <2>4. PICK s \in Seats : lobbies[k][s].port = c
    BY <2>1 DEF IsSeated
  <2>5. OnSide(c, number[k], shooter[k], client, up, down)
    BY <2>1, <2>2, <2>4 DEF TurnsNow, AtTurn
  <2>. DEFINE last == shooter[k] = c
  <2>6. Sided(client[c], up[c], down[c], number[k], last)
    BY <2>5 DEF OnSide
  <2>. HIDE DEF last
  <2>7. ~last
    BY <2>3, <2>6 DEF Sided
  <2>. QED
    BY <2>7 DEF last
<1>. QED
  BY <1>1, TurnsAlways, PTL DEF AlternatingShots

-----------------------------------------------------------------------------
=============================================================================
