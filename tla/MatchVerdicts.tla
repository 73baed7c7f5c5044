---------------------------- MODULE MatchVerdicts ----------------------------
(* The theorem that the two clients of Match agree on who has won.           *)
EXTENDS MatchProofs

-----------------------------------------------------------------------------
(* What a table has still to simulate: the roll it is in, or else the one of *)
(* the shot that waits in the queue.                                         *)

ShotsIn(queue) == {n \in DOMAIN queue : queue[n] \in Shots}
ShotIn(queue) == ShotsIn(queue) # {}
OneShotIn(queue) == \A m, n \in ShotsIn(queue) : m = n
ShotRoll(queue) ==
  IF ShotIn(queue) THEN queue[CHOOSE n \in ShotsIn(queue) : TRUE].roll ELSE <<>>

ShotsFirst(queue) == \A m \in ShotsIn(queue), n \in NewTurnsIn(queue) : m < n

Left(g, queue) == IF g.rolling # <<>> THEN g.rolling ELSE ShotRoll(queue)
Quiet(gm, d) == \A p \in Player : Left(gm[p], d[p]) = <<>>

(* The turn and the motion of the tables, of games gm, queues u to the       *)
(* server and queues d to the clients.  A table moves only in a turn that is *)
(* played, and is at rest when the turn is passed on and when it comes.      *)
MotionOf(p, gm, u, d) ==
  /\ OneShotIn(u[p]) /\ OneShotIn(d[p]) /\ ShotsFirst(d[p])
  /\ ShotIn(d[p]) => gm[p].rolling = <<>> /\ ShotRoll(d[p]) # <<>>
  /\ ShotIn(u[p]) => /\ gm[p].is_player_turn /\ gm[p].has_played
                     /\ Quiet(gm, d) /\ ShotRoll(u[p]) # <<>>
  /\ gm[p].is_player_turn /\ ~gm[p].has_played => Quiet(gm, d)
  /\ TurnIn(u[p]) \/ TurnIn(d[Other(p)]) => Left(gm[p], d[p]) = <<>>

MotionInv(gm, u, d) ==
  /\ ~(gm[0].is_player_turn /\ gm[1].is_player_turn)
  /\ \A p \in Player : MotionOf(p, gm, u, d)
  /\ (\A p \in Player : Left(gm[p], d[p]) # <<>>) => \E p \in Player : gm[p].is_player_turn

(* One table is ahead of the other by the first n steps of what the other    *)
(* has left.                                                                 *)
First(roll, n) == UNION {roll[m] : m \in 1..n}
Lag(fallen, left, fallenAhead, leftAhead, n) ==
  /\ n \in 0..Len(left)
  /\ leftAhead = SubSeq(left, n + 1, Len(left))
  /\ fallenAhead = fallen \cup First(left, n)
Lags(gm, d, p, n) ==
  Lag(gm[p].fallen, Left(gm[p], d[p]), gm[Other(p)].fallen,
      Left(gm[Other(p)], d[Other(p)]), n)

LagInv(gm, d) ==
  /\ \E p \in Player, n \in Nat : Lags(gm, d, p, n)
  /\ \A p \in Player : ~gm[p].is_game_finished =>
       /\ ~gm[p].has_win /\ Black \notin gm[p].fallen
       /\ gm[p].score = Cardinality(gm[p].fallen \cap BallsOf(p))
       /\ gm[p].opponent_score = Cardinality(gm[p].fallen \cap BallsOf(Other(p)))

(* The claim of p once the balls of falls and then the black one have fallen.*)
WillClaim(g, p, falls) ==
  IF g.is_player_turn
  THEN Cardinality((g.fallen \cup falls) \cap BallsOf(p)) = BallsPerPlayer
  ELSE Cardinality((g.fallen \cup falls) \cap BallsOf(Other(p))) # BallsPerPlayer

(* The black ball has fallen on the other table, and p is yet to judge it.   *)
ToJudge(gm, d, p) ==
  \E n \in Nat \ {0} :
    /\ Lags(gm, d, p, n)
    /\ Black \in Left(gm[p], d[p])[n]
    /\ Black \notin gm[p].fallen \cup First(Left(gm[p], d[p]), n - 1)
    /\ gm[Other(p)].has_win
         <=> ~WillClaim(gm[p], p, First(Left(gm[p], d[p]), n - 1))

In(queue, type) == \E n \in DOMAIN queue : queue[n] = Signal(type)
ClaimsFirst(queue) ==
  \E n \in DOMAIN queue : /\ queue[n] = Signal("endGame")
                          /\ \A m \in 1..n : queue[m] # Signal("closed")

(* The verdicts of the tables agree, or will once the other has seen the     *)
(* black ball fall or the window of its player is closed.                    *)
Judged(gm, d, o) ==
  /\ (\A p \in Player : gm[p].is_game_finished) => (gm[0].has_win <=> ~gm[1].has_win)
  /\ \A p \in Player : ~gm[p].is_game_finished /\ gm[Other(p)].is_game_finished
       => ToJudge(gm, d, p) \/ (~o[p] /\ gm[Other(p)].has_win)

(* What is under way to and from p tells what a table has shown, or that a   *)
(* window was closed, and a win is told before.                              *)
ToldOf(p, gm, u, d, o, lobby) ==
  /\ In(d[p], "won") => \/ gm[p].is_game_finished /\ gm[p].has_win
                        \/ ~o[Other(p)] /\ ~gm[Other(p)].has_win
  /\ In(d[p], "lost") => gm[Other(p)].is_game_finished /\ gm[Other(p)].has_win
  /\ In(d[p], "won") \/ In(d[p], "lost") => ~lobby
  /\ In(u[p], "endGame") => gm[p].is_game_finished /\ gm[p].has_win
  /\ In(u[p], "closed") => ~o[p]
  /\ lobby /\ gm[p].has_win => ClaimsFirst(u[p])

VerdictInv(gm, u, d, o, lobby) ==
  Judged(gm, d, o) /\ \A p \in Player : ToldOf(p, gm, u, d, o, lobby)

Fair == ~early /\ ~diverged /\ \A p \in Player : InGame(p)
NoVerdictOutside == \A p \in Player : ~game[p].playing => ~game[p].has_win
FairInv ==
  Fair => MotionInv(game, up, down) /\ LagInv(game, down)
            /\ VerdictInv(game, up, down, open, lobby_open)

-----------------------------------------------------------------------------
(* Shots and verdicts in queues.                                             *)

LEMMA ShotsInTail ==
  ASSUME NEW queue \in Seq(Packets), queue # <<>>, OneShotIn(queue)
  PROVE  /\ OneShotIn(Tail(queue))
         /\ Head(queue) \in Shots =>
              /\ ShotIn(queue) /\ ShotRoll(queue) = Head(queue).roll
              /\ ~ShotIn(Tail(queue)) /\ ShotRoll(Tail(queue)) = <<>>
         /\ Head(queue) \notin Shots =>
              /\ ShotIn(Tail(queue)) <=> ShotIn(queue)
              /\ ShotRoll(Tail(queue)) = ShotRoll(queue)
         /\ ShotsFirst(queue) =>
              /\ ShotsFirst(Tail(queue))
              /\ Head(queue) = Signal("newTurn") => ~ShotIn(queue)
<1>1. /\ Len(queue) \in Nat \ {0} /\ DOMAIN queue = 1..Len(queue)
      /\ DOMAIN Tail(queue) = 1..(Len(queue) - 1)
      /\ \A n \in 1..(Len(queue) - 1) : Tail(queue)[n] = queue[n + 1]
      /\ Head(queue) = queue[1]
  BY HeadTailProperties, LenProperties, EmptySeq
<1>2. \A n \in ShotsIn(Tail(queue)) :
        n \in Nat \ {0} /\ n + 1 \in ShotsIn(queue) /\ Tail(queue)[n] = queue[n + 1]
  BY <1>1 DEF ShotsIn
<1>3. \A n \in ShotsIn(queue) :
        n \in Nat \ {0} /\ (n = 1 \/ n - 1 \in ShotsIn(Tail(queue)))
  BY <1>1 DEF ShotsIn
<1>4. 1 \in ShotsIn(queue) <=> Head(queue) \in Shots
  BY <1>1 DEF ShotsIn
<1>5. OneShotIn(Tail(queue))
  BY <1>2 DEF OneShotIn
<1>6. ASSUME Head(queue) \in Shots
      PROVE  /\ ShotIn(queue) /\ ShotRoll(queue) = Head(queue).roll
             /\ ~ShotIn(Tail(queue)) /\ ShotRoll(Tail(queue)) = <<>>
  <2>1. ~ShotIn(Tail(queue))
    <3>1. \A n \in ShotsIn(Tail(queue)) : n + 1 = 1 /\ n \in Nat \ {0}
      BY <1>2, <1>4, <1>6 DEF OneShotIn
    <3>. QED
      BY <3>1 DEF ShotIn
  <2>2. (CHOOSE n \in ShotsIn(queue) : TRUE) = 1
    BY <1>4, <1>6 DEF OneShotIn
  <2>3. ShotIn(queue)
    BY <1>4, <1>6 DEF ShotIn
  <2>. QED
    BY <1>1, <1>6, <2>1, <2>2, <2>3 DEF ShotRoll
<1>7. ASSUME Head(queue) \notin Shots
      PROVE  /\ ShotIn(Tail(queue)) <=> ShotIn(queue)
             /\ ShotRoll(Tail(queue)) = ShotRoll(queue)
  <2>1. ShotIn(Tail(queue)) <=> ShotIn(queue)
    BY <1>2, <1>3, <1>4, <1>7 DEF ShotIn
  <2>2. ShotRoll(Tail(queue)) = ShotRoll(queue)
    <3>1. CASE ~ShotIn(queue)
      BY <2>1, <3>1 DEF ShotRoll
    <3>2. CASE ShotIn(queue)
      <4>. DEFINE m == CHOOSE n \in ShotsIn(Tail(queue)) : TRUE
                  k == CHOOSE n \in ShotsIn(queue) : TRUE
      <4>1. m \in ShotsIn(Tail(queue)) /\ k \in ShotsIn(queue)
        BY <2>1, <3>2 DEF ShotIn
      <4>2. ShotRoll(queue) = queue[k].roll /\ ShotRoll(Tail(queue)) = Tail(queue)[m].roll
        BY <2>1, <3>2 DEF ShotRoll
      <4>. HIDE DEF m, k
      <4>3. m + 1 = k /\ Tail(queue)[m] = queue[m + 1]
        BY <1>2, <4>1 DEF OneShotIn
      <4>. QED
        BY <4>2, <4>3
    <3>. QED
      BY <3>1, <3>2
  <2>. QED
    BY <1>7, <2>1, <2>2
<1>8. ASSUME ShotsFirst(queue)
      PROVE  /\ ShotsFirst(Tail(queue))
             /\ Head(queue) = Signal("newTurn") => ~ShotIn(queue)
  <2>1. \A n \in NewTurnsIn(Tail(queue)) : n \in Nat /\ n + 1 \in NewTurnsIn(queue)
    BY <1>1 DEF NewTurnsIn
  <2>2. ShotsFirst(Tail(queue))
    BY <1>2, <1>8, <2>1 DEF ShotsFirst
  <2>3. Head(queue) = Signal("newTurn") => 1 \in NewTurnsIn(queue)
    BY <1>1 DEF NewTurnsIn
  <2>4. Head(queue) = Signal("newTurn") => ~ShotIn(queue)
    BY <1>3, <1>8, <2>3 DEF ShotsFirst, ShotIn
  <2>. QED
    BY <2>2, <2>4
<1>. QED
  BY <1>5, <1>6, <1>7, <1>8

LEMMA ShotsInConcat ==
  ASSUME NEW s \in Seq(Packets), NEW t \in Seq(Packets), OneShotIn(s), OneShotIn(t),
         ~(ShotIn(s) /\ ShotIn(t))
  PROVE  /\ OneShotIn(s \o t)
         /\ ShotIn(s \o t) <=> ShotIn(s) \/ ShotIn(t)
         /\ ShotRoll(s \o t) = IF ShotIn(s) THEN ShotRoll(s) ELSE ShotRoll(t)
         /\ ShotsFirst(s) /\ ShotsFirst(t) /\ ~(TurnIn(s) /\ ShotIn(t)) => ShotsFirst(s \o t)
<1>1. /\ Len(s) \in Nat /\ Len(t) \in Nat
      /\ DOMAIN s = 1..Len(s) /\ DOMAIN t = 1..Len(t)
      /\ DOMAIN (s \o t) = 1..(Len(s) + Len(t))
      /\ \A n \in 1..Len(s) + Len(t) :
           (s \o t)[n] = IF n <= Len(s) THEN s[n] ELSE t[n - Len(s)]
  BY ConcatProperties, LenProperties
<1>2. \A n \in ShotsIn(s \o t) : n \in Nat /\
        \/ n \in ShotsIn(s) /\ (s \o t)[n] = s[n]
        \/ n - Len(s) \in ShotsIn(t) /\ (s \o t)[n] = t[n - Len(s)]
  BY <1>1 DEF ShotsIn
<1>3. \A n \in ShotsIn(s) : n \in ShotsIn(s \o t) /\ n \in 1..Len(s)
  BY <1>1 DEF ShotsIn
<1>4. \A n \in ShotsIn(t) : n + Len(s) \in ShotsIn(s \o t) /\ n \in Nat \ {0}
  BY <1>1 DEF ShotsIn
<1>5. ShotIn(s \o t) <=> ShotIn(s) \/ ShotIn(t)
  BY <1>2, <1>3, <1>4 DEF ShotIn
<1>6. OneShotIn(s \o t)
  <2>1. \A m, n \in Nat : m - Len(s) = n - Len(s) => m = n
    BY <1>1
  <2>. QED
    BY <1>2, <2>1 DEF OneShotIn, ShotIn
<1>7. ShotRoll(s \o t) = IF ShotIn(s) THEN ShotRoll(s) ELSE ShotRoll(t)
  <2>. DEFINE k == CHOOSE n \in ShotsIn(s \o t) : TRUE
              m == CHOOSE n \in ShotsIn(s) : TRUE
              j == CHOOSE n \in ShotsIn(t) : TRUE
  <2>1. ShotIn(s \o t) => k \in ShotsIn(s \o t) /\ ShotRoll(s \o t) = (s \o t)[k].roll
    BY DEF ShotIn, ShotRoll
  <2>2. ShotIn(s) => m \in ShotsIn(s) /\ ShotRoll(s) = s[m].roll
    BY DEF ShotIn, ShotRoll
  <2>3. ShotIn(t) => j \in ShotsIn(t) /\ ShotRoll(t) = t[j].roll
    BY DEF ShotIn, ShotRoll
  <2>4. ~ShotIn(s \o t) => ShotRoll(s \o t) = <<>>
    BY DEF ShotRoll
  <2>5. ~ShotIn(t) => ShotRoll(t) = <<>>
    BY DEF ShotRoll
  <2>. HIDE DEF k, m, j
  <2>6. CASE ShotIn(s)
    <3>1. k = m /\ (s \o t)[k] = s[k]
      <4>1. k \in ShotsIn(s) /\ (s \o t)[k] = s[k]
        BY <1>2, <1>5, <2>1, <2>6 DEF ShotIn
      <4>. QED
        BY <2>2, <2>6, <4>1 DEF OneShotIn
    <3>. QED
      BY <1>5, <2>1, <2>2, <2>6, <3>1
  <2>7. CASE ~ShotIn(s) /\ ShotIn(t)
    <3>1. k - Len(s) = j /\ (s \o t)[k] = t[j]
      <4>1. k - Len(s) \in ShotsIn(t) /\ (s \o t)[k] = t[k - Len(s)]
        BY <1>2, <1>5, <2>1, <2>7 DEF ShotIn
      <4>. QED
        BY <2>3, <2>7, <4>1 DEF OneShotIn
    <3>. QED
      BY <1>5, <2>1, <2>3, <2>7, <3>1
  <2>8. CASE ~ShotIn(s) /\ ~ShotIn(t)
    BY <1>5, <2>4, <2>5, <2>8
  <2>. QED
    BY <2>6, <2>7, <2>8
<1>8. ASSUME ShotsFirst(s), ShotsFirst(t), ~(TurnIn(s) /\ ShotIn(t))
      PROVE  ShotsFirst(s \o t)
  <2>. SUFFICES ASSUME NEW m \in ShotsIn(s \o t), NEW n \in NewTurnsIn(s \o t) PROVE m < n
    BY DEF ShotsFirst
  <2>1. /\ n \in Nat
        /\ \/ n \in NewTurnsIn(s) /\ n <= Len(s)
           \/ n - Len(s) \in NewTurnsIn(t) /\ n > Len(s)
    BY <1>1 DEF NewTurnsIn
  <2>2. /\ m \in Nat
        /\ \/ m \in ShotsIn(s) /\ m <= Len(s)
           \/ m - Len(s) \in ShotsIn(t) /\ m > Len(s)
    BY <1>1 DEF ShotsIn
  <2>3. CASE n \in NewTurnsIn(s)
    BY <1>8, <2>2, <2>3 DEF ShotsFirst, TurnIn, ShotIn
  <2>4. CASE n - Len(s) \in NewTurnsIn(t) /\ n > Len(s)
    <3>1. CASE m \in ShotsIn(s) /\ m <= Len(s)
      BY <1>1, <2>1, <2>2, <2>4, <3>1
    <3>2. CASE m - Len(s) \in ShotsIn(t)
      <4>1. m - Len(s) < n - Len(s)
        BY <1>8, <2>4, <3>2 DEF ShotsFirst
      <4>. QED
        BY <1>1, <2>1, <2>2, <4>1
    <3>. QED
      BY <2>2, <3>1, <3>2
  <2>. QED
    BY <2>1, <2>3, <2>4
<1>. QED
  BY <1>5, <1>6, <1>7, <1>8

LEMMA ShotsInOne ==
  ASSUME NEW packet
  PROVE  /\ ~ShotIn(<<>>) /\ OneShotIn(<<>>) /\ OneShotIn(<<packet>>) /\ ShotRoll(<<>>) = <<>>
         /\ ShotIn(<<packet>>) <=> packet \in Shots
         /\ packet \in Shots => ShotRoll(<<packet>>) = packet.roll
         /\ ShotsFirst(<<>>) /\ (packet \in Packets => ShotsFirst(<<packet>>))
<1>1. /\ ShotsIn(<<>>) = {}
      /\ ShotsIn(<<packet>>) = IF packet \in Shots THEN {1} ELSE {}
  BY DEF ShotsIn
<1>2. packet \in Shots => (CHOOSE n \in ShotsIn(<<packet>>) : TRUE) = 1
  BY <1>1
<1>3. packet \in Shots => ShotRoll(<<packet>>) = packet.roll
  BY <1>1, <1>2 DEF ShotRoll, ShotIn
<1>4. packet \in Shots => NewTurnsIn(<<packet>>) = {}
  BY PacketTypes, SignalOrShot DEF NewTurnsIn
<1>. QED
  BY <1>1, <1>3, <1>4 DEF ShotIn, OneShotIn, ShotRoll, ShotsFirst

LEMMA InTail ==
  ASSUME NEW queue \in Seq(Packets), queue # <<>>, NEW type
  PROVE  /\ In(Tail(queue), type) => In(queue, type)
         /\ Head(queue) = Signal(type) => In(queue, type)
<1>1. /\ Len(queue) \in Nat \ {0} /\ DOMAIN queue = 1..Len(queue)
      /\ DOMAIN Tail(queue) = 1..(Len(queue) - 1)
      /\ \A n \in 1..(Len(queue) - 1) : Tail(queue)[n] = queue[n + 1]
      /\ Head(queue) = queue[1]
  BY HeadTailProperties, LenProperties, EmptySeq
<1>. QED
  BY <1>1 DEF In

LEMMA InConcat ==
  ASSUME NEW s \in Seq(Packets), NEW t \in Seq(Packets), NEW type
  PROVE  In(s \o t, type) <=> In(s, type) \/ In(t, type)
<1>1. /\ Len(s) \in Nat /\ Len(t) \in Nat
      /\ DOMAIN s = 1..Len(s) /\ DOMAIN t = 1..Len(t)
      /\ DOMAIN (s \o t) = 1..(Len(s) + Len(t))
      /\ \A n \in 1..Len(s) + Len(t) :
           (s \o t)[n] = IF n <= Len(s) THEN s[n] ELSE t[n - Len(s)]
  BY ConcatProperties, LenProperties
<1>2. \A n \in DOMAIN s : n \in DOMAIN (s \o t) /\ (s \o t)[n] = s[n]
  BY <1>1
<1>3. \A n \in DOMAIN t : n + Len(s) \in DOMAIN (s \o t) /\ (s \o t)[n + Len(s)] = t[n]
  BY <1>1
<1>4. \A n \in DOMAIN (s \o t) :
        \/ n \in DOMAIN s /\ (s \o t)[n] = s[n]
        \/ n - Len(s) \in DOMAIN t /\ (s \o t)[n] = t[n - Len(s)]
  BY <1>1
<1>. QED
  BY <1>2, <1>3, <1>4 DEF In

LEMMA InOne ==
  ASSUME NEW packet, NEW type
  PROVE  ~In(<<>>, type) /\ (In(<<packet>>, type) <=> packet = Signal(type))
BY DEF In

LEMMA PacketsOfSent ==
  ASSUME NEW frame, NEW roll \in Rolls
  PROVE  /\ OneShotIn(Sent(frame, roll))
         /\ ShotIn(Sent(frame, roll)) <=> frame.shoots
         /\ frame.shoots => ShotRoll(Sent(frame, roll)) = roll
         /\ In(Sent(frame, roll), "endGame") <=> frame.claims
         /\ ~In(Sent(frame, roll), "closed")
<1>. DEFINE a == When(frame.claims, Signal("endGame"))
            b == When(frame.shoots, CueBallVelocity(roll))
            c == When(frame.passes, Signal("newTurn"))
<1>1. /\ Signal("endGame") \in Packets /\ Signal("newTurn") \in Packets
      /\ CueBallVelocity(roll) \in Packets /\ CueBallVelocity(roll) \in Shots
      /\ Signal("endGame") \notin Shots /\ Signal("newTurn") \notin Shots
      /\ Signal("newTurn") # Signal("endGame") /\ Signal("newTurn") # Signal("closed")
      /\ Signal("endGame") # Signal("closed")
      /\ CueBallVelocity(roll) # Signal("endGame") /\ CueBallVelocity(roll) # Signal("closed")
      /\ CueBallVelocity(roll).roll = roll
  BY PacketTypes, SignalOrShot DEF CueBallVelocity
<1>2. /\ a \in Seq(Packets) /\ ~ShotIn(a) /\ OneShotIn(a)
      /\ In(a, "endGame") <=> frame.claims
      /\ ~In(a, "closed")
  BY <1>1, ShotsInOne, InOne DEF When
<1>3. /\ b \in Seq(Packets) /\ OneShotIn(b) /\ (ShotIn(b) <=> frame.shoots)
      /\ frame.shoots => ShotRoll(b) = roll
      /\ ~In(b, "endGame") /\ ~In(b, "closed")
  BY <1>1, ShotsInOne, InOne DEF When
<1>4. /\ c \in Seq(Packets) /\ ~ShotIn(c) /\ OneShotIn(c)
      /\ ~In(c, "endGame") /\ ~In(c, "closed")
  BY <1>1, ShotsInOne, InOne DEF When
<1>5. Sent(frame, roll) = (a \o b) \o c
  BY DEF Sent, Sends
<1>. HIDE DEF a, b, c
<1>6. /\ a \o b \in Seq(Packets) /\ OneShotIn(a \o b) /\ (ShotIn(a \o b) <=> frame.shoots)
      /\ frame.shoots => ShotRoll(a \o b) = roll
  BY <1>2, <1>3, ShotsInConcat, ConcatProperties
<1>7. (In(a \o b, "endGame") <=> frame.claims) /\ ~In(a \o b, "closed")
  BY <1>2, <1>3, InConcat
<1>8. /\ OneShotIn((a \o b) \o c) /\ (ShotIn((a \o b) \o c) <=> frame.shoots)
      /\ frame.shoots => ShotRoll((a \o b) \o c) = roll
  BY <1>4, <1>6, ShotsInConcat
<1>9. (In((a \o b) \o c, "endGame") <=> frame.claims) /\ ~In((a \o b) \o c, "closed")
  BY <1>4, <1>6, <1>7, InConcat
<1>. QED
  BY <1>5, <1>8, <1>9

-----------------------------------------------------------------------------
(* One table ahead of the other.                                             *)

LEMMA FirstSteps ==
  ASSUME NEW roll \in Rolls
  PROVE  /\ First(roll, 0) = {}
         /\ \A n \in 0..(Len(roll) - 1) : First(roll, n + 1) = First(roll, n) \cup roll[n + 1]
         /\ roll # <<>> => \A n \in 0..(Len(roll) - 1) :
              First(roll, n + 1) = Head(roll) \cup First(Tail(roll), n)
<1>1. Len(roll) \in Nat /\ DOMAIN roll = 1..Len(roll)
  BY LenProperties DEF Rolls
<1>2. First(roll, 0) = {}
  BY DEF First
<1>3. ASSUME NEW n \in 0..(Len(roll) - 1)
      PROVE  First(roll, n + 1) = First(roll, n) \cup roll[n + 1]
  <2>1. n \in Nat /\ \A m : m \in 1..(n + 1) <=> m \in 1..n \/ m = n + 1
    BY <1>1
  <2>2. \A b : b \in First(roll, n + 1) <=> b \in First(roll, n) \/ b \in roll[n + 1]
    BY <2>1 DEF First
  <2>. QED
    BY <2>2
<1>4. ASSUME roll # <<>>, NEW n \in 0..(Len(roll) - 1)
      PROVE  First(roll, n + 1) = Head(roll) \cup First(Tail(roll), n)
  <2>1. /\ Len(roll) > 0 /\ Head(roll) = roll[1]
        /\ \A m \in 1..(Len(roll) - 1) : Tail(roll)[m] = roll[m + 1]
    BY <1>1, <1>4, HeadTailProperties, EmptySeq DEF Rolls
  <2>2. ASSUME NEW b \in First(roll, n + 1) PROVE b \in Head(roll) \cup First(Tail(roll), n)
    <3>1. PICK m \in 1..(n + 1) : b \in roll[m]
      BY DEF First
    <3>2. CASE m = 1
      BY <2>1, <3>1, <3>2
    <3>3. CASE m # 1
      <4>1. m - 1 \in 1..n /\ Tail(roll)[m - 1] = roll[m]
        BY <1>1, <2>1, <3>3
      <4>. QED
        BY <3>1, <4>1 DEF First
    <3>. QED
      BY <3>2, <3>3
  <2>3. ASSUME NEW b \in Head(roll) \cup First(Tail(roll), n) PROVE b \in First(roll, n + 1)
    <3>1. CASE b \in Head(roll)
      <4>1. 1 \in 1..(n + 1)
        OBVIOUS
      <4>. QED
        BY <2>1, <3>1, <4>1 DEF First
    <3>2. CASE b \in First(Tail(roll), n)
      <4>1. PICK m \in 1..n : b \in Tail(roll)[m]
        BY <3>2 DEF First
      <4>2. m + 1 \in 1..(n + 1) /\ Tail(roll)[m] = roll[m + 1]
        BY <1>1, <2>1
      <4>. QED
        BY <4>1, <4>2 DEF First
    <3>. QED
      BY <2>3, <3>1, <3>2
  <2>. QED
    BY <2>2, <2>3
<1>. QED
  BY <1>2, <1>3, <1>4

LEMMA NoLag ==
  ASSUME NEW left \in Rolls, NEW fallen, NEW leftAhead, NEW fallenAhead
  PROVE  /\ Lag(fallen, left, fallenAhead, leftAhead, 0)
              <=> leftAhead = left /\ fallenAhead = fallen
         /\ \A n \in Nat : left = <<>> /\ Lag(fallen, left, fallenAhead, leftAhead, n)
              => n = 0 /\ leftAhead = <<>> /\ fallenAhead = fallen
<1>1. Len(left) \in Nat /\ SubSeq(left, 1, Len(left)) = left /\ First(left, 0) = {}
  BY LenProperties, SubSeqFull, FirstSteps DEF Rolls
<1>2. Lag(fallen, left, fallenAhead, leftAhead, 0)
        <=> leftAhead = left /\ fallenAhead = fallen
  <2>1. 0 \in 0..Len(left) /\ 0 + 1 = 1
    BY <1>1
  <2>2. fallen \cup First(left, 0) = fallen
    BY <1>1
  <2>3. Lag(fallen, left, fallenAhead, leftAhead, 0)
          <=> /\ leftAhead = SubSeq(left, 0 + 1, Len(left))
              /\ fallenAhead = fallen \cup First(left, 0)
    BY <2>1 DEF Lag
  <2>4. SubSeq(left, 0 + 1, Len(left)) = left
    BY <1>1, <2>1
  <2>. QED
    BY <2>2, <2>3, <2>4
<1>3. ASSUME NEW n \in Nat, left = <<>>, Lag(fallen, left, fallenAhead, leftAhead, n)
      PROVE  n = 0 /\ leftAhead = <<>> /\ fallenAhead = fallen
  <2>1. n = 0
    BY <1>3, EmptySeq DEF Lag
  <2>. QED
    BY <1>2, <1>3, <2>1
<1>. QED
  BY <1>2, <1>3

LEMMA AheadSteps ==
  ASSUME NEW left \in Rolls, NEW fallen, NEW leftAhead \in Rolls, NEW fallenAhead, NEW n \in Nat,
         Lag(fallen, left, fallenAhead, leftAhead, n), leftAhead # <<>>
  PROVE  /\ n + 1 \in 1..Len(left) /\ left[n + 1] = Head(leftAhead) /\ left # <<>>
         /\ Lag(fallen, left, fallenAhead \cup Head(leftAhead), Tail(leftAhead), n + 1)
<1>1. /\ Len(left) \in Nat /\ n \in 0..Len(left)
      /\ leftAhead = SubSeq(left, n + 1, Len(left))
      /\ fallenAhead = fallen \cup First(left, n)
  BY LenProperties DEF Lag, Rolls
<1>2. n < Len(left)
  BY <1>1, SubSeqEmpty DEF Rolls
<1>3. /\ Head(leftAhead) = left[n + 1]
      /\ Tail(leftAhead) = SubSeq(left, (n + 1) + 1, Len(left))
  BY <1>1, <1>2, HeadTailOfSubSeq DEF Rolls
<1>4. First(left, n + 1) = First(left, n) \cup left[n + 1]
  BY <1>1, <1>2, FirstSteps
<1>5. n + 1 \in 1..Len(left) /\ left # <<>>
  BY <1>1, <1>2, EmptySeq
<1>. QED
  BY <1>1, <1>3, <1>4, <1>5 DEF Lag

LEMMA BehindSteps ==
  ASSUME NEW left \in Rolls, NEW fallen, NEW leftAhead, NEW fallenAhead, NEW n \in Nat \ {0},
         Lag(fallen, left, fallenAhead, leftAhead, n)
  PROVE  /\ left # <<>> /\ Head(left) = left[1]
         /\ First(left, n) = Head(left) \cup First(Tail(left), n - 1)
         /\ Lag(fallen \cup Head(left), Tail(left), fallenAhead, leftAhead, n - 1)
         /\ n > 1 => /\ Tail(left)[n - 1] = left[n]
                     /\ First(left, n - 1) = Head(left) \cup First(Tail(left), n - 2)
<1>1. /\ Len(left) \in Nat /\ n \in 1..Len(left) /\ left # <<>>
      /\ leftAhead = SubSeq(left, n + 1, Len(left))
      /\ fallenAhead = fallen \cup First(left, n)
  BY LenProperties, EmptySeq DEF Lag, Rolls
<1>2. /\ Tail(left) \in Rolls /\ Len(Tail(left)) = Len(left) - 1 /\ Head(left) = left[1]
      /\ \A m \in 1..(Len(left) - 1) : Tail(left)[m] = left[m + 1]
  BY <1>1, HeadTailProperties DEF Rolls
<1>3. First(left, n) = Head(left) \cup First(Tail(left), n - 1)
  <2>1. n - 1 \in 0..(Len(left) - 1) /\ (n - 1) + 1 = n
    BY <1>1
  <2>. QED
    BY <1>1, <2>1, FirstSteps
<1>4. leftAhead = SubSeq(Tail(left), (n - 1) + 1, Len(Tail(left)))
  <2>1. /\ Len(leftAhead) = Len(left) - n
        /\ \A m \in 1..(Len(left) - n) : leftAhead[m] = left[n + m]
        /\ leftAhead \in Seq(SUBSET Balls)
    BY <1>1, SubSeqProperties DEF Rolls
  <2>. DEFINE other == SubSeq(Tail(left), (n - 1) + 1, Len(Tail(left)))
  <2>6. /\ (n - 1) + 1 = n /\ Len(Tail(left)) = Len(left) - 1 /\ n \in Nat
        /\ Tail(left) \in Seq(SUBSET Balls)
        /\ \A m \in n..(Len(left) - 1) : Tail(left)[m] \in SUBSET Balls
    BY <1>1, <1>2, ElementOfSeq DEF Rolls
  <2>7. other = SubSeq(Tail(left), n, Len(left) - 1)
    BY <2>6
  <2>2. /\ Len(other) = Len(left) - n
        /\ \A m \in 1..(Len(left) - n) : other[m] = Tail(left)[(n - 1) + m]
        /\ other \in Seq(SUBSET Balls)
    <3>. DEFINE tail == Tail(left)
                k == Len(left) - 1
    <3>1. n \in Int /\ k \in Int /\ k - n + 1 = Len(left) - n
          /\ (IF n <= k THEN k - n + 1 ELSE 0) = Len(left) - n
          /\ \A m \in 1..(Len(left) - n) : n + m - 1 = (n - 1) + m /\ m \in Int
      BY <1>1
    <3>2. \A m \in n..k : tail[m] \in SUBSET Balls
      BY <2>6
    <3>. HIDE DEF tail, k
    <3>3. /\ SubSeq(tail, n, k) \in Seq(SUBSET Balls)
          /\ Len(SubSeq(tail, n, k)) = (IF n <= k THEN k - n + 1 ELSE 0)
          /\ \A m \in 1..(k - n + 1) : SubSeq(tail, n, k)[m] = tail[n + m - 1]
      BY <3>1, <3>2, SubSeqProperties
    <3>4. other = SubSeq(tail, n, k)
      BY <2>7 DEF tail, k
    <3>. HIDE DEF other
    <3>5. \A m \in 1..(Len(left) - n) : other[m] = tail[(n - 1) + m]
      BY <3>1, <3>3, <3>4
    <3>. QED
      BY <3>1, <3>3, <3>4, <3>5 DEF tail
  <2>3. \A m \in 1..(Len(left) - n) : Tail(left)[(n - 1) + m] = left[n + m]
    BY <1>1, <1>2
  <2>. HIDE DEF other
  <2>4. \A m \in 1..Len(leftAhead) : leftAhead[m] = other[m]
    BY <2>1, <2>2, <2>3
  <2>5. leftAhead = other
    BY <2>1, <2>2, <2>4, SeqEqual
  <2>. QED
    BY <2>5 DEF other
<1>5. n > 1 => /\ Tail(left)[n - 1] = left[n]
               /\ First(left, n - 1) = Head(left) \cup First(Tail(left), n - 2)
  <2>. SUFFICES ASSUME n > 1
                PROVE  /\ Tail(left)[n - 1] = left[n]
                       /\ First(left, n - 1) = Head(left) \cup First(Tail(left), n - 2)
    OBVIOUS
  <2>1. n - 1 \in 1..(Len(left) - 1) /\ (n - 1) + 1 = n
    BY <1>1
  <2>2. n - 2 \in 0..(Len(left) - 1) /\ (n - 2) + 1 = n - 1
    BY <1>1
  <2>3. First(left, n - 1) = Head(left) \cup First(Tail(left), n - 2)
    BY <1>1, <2>2, FirstSteps
  <2>. QED
    BY <1>2, <2>1, <2>3
<1>6. Lag(fallen \cup Head(left), Tail(left), fallenAhead, leftAhead, n - 1)
  BY <1>1, <1>2, <1>3, <1>4 DEF Lag
<1>. QED
  BY <1>1, <1>2, <1>3, <1>5, <1>6

-----------------------------------------------------------------------------
(* A frame, first as far as it handles a packet.                             *)

(* The packet handled leaves g: the table is the same, though a shot may     *)
(* have moved from the queue into it, and so is the rest, but for a turn     *)
(* taken up at rest and a verdict taken over.                                *)
Takes(p, g) ==
  /\ Left(g, down'[p]) = Left(game[p], down[p]) /\ g.fallen = game[p].fallen
  /\ g.score = game[p].score /\ g.opponent_score = game[p].opponent_score
  /\ OneShotIn(down'[p]) /\ ShotsFirst(down'[p])
  /\ ShotIn(down'[p]) => g.rolling = <<>> /\ ShotRoll(down'[p]) # <<>>
  /\ g.has_played <=> game[p].has_played
  /\ \/ g.is_player_turn <=> game[p].is_player_turn
     \/ g.is_player_turn /\ TurnIn(down[p]) /\ Left(game[p], down[p]) = <<>>
  /\ TurnIn(down'[p]) => TurnIn(down[p])

TakesVerdict(p, g) ==
  /\ \A type : In(down'[p], type) => In(down[p], type)
  /\ \/ /\ g.is_game_finished <=> game[p].is_game_finished
        /\ g.has_win <=> game[p].has_win
     \/ /\ g.is_game_finished /\ ~game[p].is_game_finished
        /\ In(down[p], IF g.has_win THEN "won" ELSE "lost")

LEMMA LeftIsSame ==
  ASSUME NEW g, NEW h, NEW s, NEW t, g.rolling = h.rolling, ShotRoll(s) = ShotRoll(t)
  PROVE  Left(g, s) = Left(h, t)
BY DEF Left

LEMMA HandledTakes ==
  ASSUME TypeOK, TurnInv, NEW p \in Player, MotionOf(p, game, up, down),
         down[p] # <<>>, down'[p] = Tail(down[p]),
         NEW g \in Game, Handled(p, Head(down[p]), g), g.playing, ~diverged',
         Head(down[p]) = Signal("newTurn") /\ game[p].playing => game[p].rolling = <<>>
  PROVE  Takes(p, g) /\ TakesVerdict(p, g)
<1>. DEFINE packet == Head(down[p])
<1>1. /\ down[p] \in Seq(Packets) /\ packet \in Packets /\ game[p] \in Game
      /\ OneTurnIn(down[p]) /\ OneShotIn(down[p]) /\ ShotsFirst(down[p])
      /\ ShotIn(down[p]) => game[p].rolling = <<>> /\ ShotRoll(down[p]) # <<>>
  BY HeadOfPackets DEF TypeOK, TurnInv, MotionOf
<1>2. /\ OneShotIn(down'[p])
      /\ packet \in Shots => /\ ShotIn(down[p]) /\ ShotRoll(down[p]) = packet.roll
                             /\ ~ShotIn(down'[p]) /\ ShotRoll(down'[p]) = <<>>
      /\ packet \notin Shots => /\ ShotIn(down'[p]) <=> ShotIn(down[p])
                                /\ ShotRoll(down'[p]) = ShotRoll(down[p])
      /\ ShotsFirst(down'[p]) /\ (packet = Signal("newTurn") => ~ShotIn(down[p]))
  BY <1>1, ShotsInTail
<1>3. /\ packet = Signal("newTurn") => TurnIn(down[p])
      /\ TurnIn(down'[p]) => TurnIn(down[p])
  BY <1>1, TurnsInTail
<1>4. /\ \A type : In(down'[p], type) => In(down[p], type)
      /\ \A type : packet = Signal(type) => In(down[p], type)
  BY <1>1, InTail
<1>5. ASSUME packet = Signal("startGame"), g = InitGame(game[p])
      PROVE  Takes(p, g) /\ TakesVerdict(p, g)
  <2>1. packet \notin Shots
    BY <1>5, SignalOrShot DEF Shots, Signal
  <2>2. game[p] = NewGame(p)
    <3>1. 1 \in DOMAIN down[p] /\ packet = down[p][1]
      BY <1>1, HeadTailProperties, LenProperties, EmptySeq
    <3>. QED
      BY <1>5, <3>1 DEF TurnInv, JoinsFirst
  <2>3. /\ g.fallen = game[p].fallen /\ g.rolling = game[p].rolling
        /\ g.score = game[p].score /\ g.opponent_score = game[p].opponent_score
        /\ g.has_played = game[p].has_played /\ g.is_player_turn = game[p].is_player_turn
        /\ g.is_game_finished = game[p].is_game_finished /\ g.has_win = game[p].has_win
    BY <1>5, <2>2 DEF InitGame, NewGame
  <2>4. Left(g, down'[p]) = Left(game[p], down[p])
    <3>1. ShotRoll(down'[p]) = ShotRoll(down[p])
      BY <1>2, <2>1
    <3>2. g.rolling = game[p].rolling
      BY <2>3
    <3>. QED
      BY <3>1, <3>2, LeftIsSame
  <2>5. Takes(p, g)
    BY <1>1, <1>2, <1>3, <2>1, <2>3, <2>4 DEF Takes
  <2>. QED
    BY <1>4, <2>3, <2>5 DEF TakesVerdict
<1>6. ASSUME packet \in Signals, game[p].playing, g = OnSignal(game[p], packet.type)
      PROVE  Takes(p, g) /\ TakesVerdict(p, g)
  <2>1. packet \notin Shots /\ packet = Signal(packet.type)
    BY <1>6, SignalOrShot
  <2>2. /\ g.fallen = game[p].fallen /\ g.rolling = game[p].rolling
        /\ g.score = game[p].score /\ g.opponent_score = game[p].opponent_score
        /\ g.has_played = game[p].has_played
        /\ \/ g.is_player_turn = game[p].is_player_turn
           \/ packet.type = "newTurn" /\ g.is_player_turn
        /\ \/ /\ g.is_game_finished = game[p].is_game_finished
              /\ g.has_win = game[p].has_win
           \/ /\ g.is_game_finished /\ ~game[p].is_game_finished
              /\ packet.type = IF g.has_win THEN "won" ELSE "lost"
    BY <1>1, <1>6 DEF OnSignal, Game
  <2>3. Left(g, down'[p]) = Left(game[p], down[p])
    <3>1. ShotRoll(down'[p]) = ShotRoll(down[p])
      BY <1>2, <2>1
    <3>2. g.rolling = game[p].rolling
      BY <2>2
    <3>. QED
      BY <3>1, <3>2, LeftIsSame
  <2>4. packet.type = "newTurn" => TurnIn(down[p]) /\ Left(game[p], down[p]) = <<>>
    <3>. SUFFICES ASSUME packet.type = "newTurn"
                  PROVE  TurnIn(down[p]) /\ Left(game[p], down[p]) = <<>>
      OBVIOUS
    <3>1. packet = Signal("newTurn")
      BY <2>1
    <3>. QED
      BY <1>2, <1>3, <1>6, <3>1 DEF Left, ShotRoll
  <2>5. Takes(p, g)
    BY <1>1, <1>2, <1>3, <2>1, <2>2, <2>3, <2>4 DEF Takes
  <2>6. TakesVerdict(p, g)
    BY <1>4, <2>1, <2>2 DEF TakesVerdict
  <2>. QED
    BY <2>5, <2>6
<1>7. ASSUME packet \in Shots, game[p].playing, NEW roll \in Rolls,
             g = OnShot(game[p], roll), roll = packet.roll
      PROVE  Takes(p, g) /\ TakesVerdict(p, g)
  <2>1. /\ g.rolling = packet.roll /\ packet.roll # <<>> /\ game[p].rolling = <<>>
        /\ g.fallen = game[p].fallen
        /\ g.score = game[p].score /\ g.opponent_score = game[p].opponent_score
        /\ g.has_played = game[p].has_played /\ g.is_player_turn = game[p].is_player_turn
        /\ g.is_game_finished = game[p].is_game_finished /\ g.has_win = game[p].has_win
    BY <1>1, <1>2, <1>7 DEF OnShot, Game
  <2>2. Left(g, down'[p]) = Left(game[p], down[p])
    BY <1>2, <1>7, <2>1 DEF Left
  <2>. QED
    BY <1>1, <1>2, <1>3, <1>4, <1>7, <2>1, <2>2 DEF Takes, TakesVerdict
<1>8. CASE packet # Signal("startGame") /\ ~game[p].playing /\ g = game[p]
  BY <1>8
<1>. QED
  BY <1>5, <1>6, <1>7, <1>8 DEF Handled, packet

LEMMA ReceiveTakes ==
  ASSUME TypeOK, TurnInv, NEW p \in Player, MotionOf(p, game, up, down), FrameReceive(p),
         InGame(p)', ~diverged', ~early'
  PROVE  \E g \in Game : Update(p, g) /\ Takes(p, g) /\ TakesVerdict(p, g)
<1>1. /\ down[p] # <<>> /\ down' = [down EXCEPT ![p] = Tail(@)]
      /\ \E g \in Game : Update(p, g) /\ Handled(p, Head(down[p]), g)
      /\ early' = (early \/ (/\ Head(down[p]) = Signal("newTurn") /\ game[p].playing
                             /\ MustUpdatePhysics(game[p])))
  BY ReceiveCases
<1>2. PICK g \in Game : Update(p, g) /\ Handled(p, Head(down[p]), g)
  BY <1>1
<1>3. down'[p] = Tail(down[p]) /\ down[p] \in Seq(Packets)
  BY <1>1 DEF TypeOK
<1>4. ~Joining(p)'
  BY <1>1, <1>3, NotJoining DEF Joining
<1>5. game'[p].playing <=> g.playing
  BY <1>2, FrameOfTurn DEF FrameTurns
<1>6. g.playing
  BY <1>4, <1>5 DEF InGame
<1>7. Head(down[p]) = Signal("newTurn") /\ game[p].playing => game[p].rolling = <<>>
  BY <1>1 DEF MustUpdatePhysics
<1>. QED
  BY <1>1, <1>2, <1>3, <1>6, <1>7, HandledTakes

LEMMA IdleTakes ==
  ASSUME TypeOK, NEW p \in Player, MotionOf(p, game, up, down), down' = down
  PROVE  Takes(p, game[p]) /\ TakesVerdict(p, game[p])
BY DEF Takes, TakesVerdict, MotionOf

(* The games once p has handled a packet.                                    *)
Taken(p, g, gm) ==
  gm[p] = g /\ gm[Other(p)] = game[Other(p)] /\ down'[Other(p)] = down[Other(p)]

LEMMA TwoPlayers ==
  ASSUME NEW p \in Player
  PROVE  /\ Other(p) \in Player /\ Other(p) # p /\ Other(Other(p)) = p
         /\ \A r \in Player : r = p \/ r = Other(p)
         /\ \A q, r \in Player : q = r \/ (q = p /\ r = Other(p)) \/ (r = p /\ q = Other(p))
BY DEF Player, Other

LEMMA OneAtTurn ==
  ASSUME NEW p \in Player, NEW gm
  PROVE  ~(gm[0].is_player_turn /\ gm[1].is_player_turn)
           <=> ~(gm[p].is_player_turn /\ gm[Other(p)].is_player_turn)
BY DEF Player, Other

LEMMA TakesMotion ==
  ASSUME TypeOK, TurnInv, MotionInv(game, up, down), NEW p \in Player, NEW g \in Game,
         Takes(p, g), NEW gm, Taken(p, g, gm)
  PROVE  MotionInv(gm, up, down')
<1>. DEFINE q == Other(p)
<1>1. /\ q \in Player /\ q # p /\ Other(q) = p /\ \A r \in Player : r = p \/ r = q
  BY TwoPlayers
<1>2. /\ MotionOf(p, game, up, down) /\ MotionOf(q, game, up, down)
      /\ ~(game[p].is_player_turn /\ game[q].is_player_turn)
  BY <1>1, OneAtTurn DEF MotionInv
<1>3. /\ Left(gm[p], down'[p]) = Left(game[p], down[p])
      /\ Left(gm[q], down'[q]) = Left(game[q], down[q])
      /\ Quiet(gm, down') <=> Quiet(game, down)
  BY <1>1 DEF Taken, Takes, Quiet
<1>4. /\ gm[p] = g /\ gm[q] = game[q] /\ down'[q] = down[q]
  BY DEF Taken
<1>5. ASSUME ~(g.is_player_turn <=> game[p].is_player_turn)
      PROVE  g.is_player_turn /\ ~game[q].is_player_turn /\ Quiet(game, down)
  <2>1. g.is_player_turn /\ TurnIn(down[p]) /\ Left(game[p], down[p]) = <<>>
    BY <1>5 DEF Takes
  <2>2. Left(game[q], down[q]) = <<>>
    BY <1>1, <1>2, <2>1 DEF MotionOf
  <2>3. ~game[q].is_player_turn
    BY <1>1, <2>1 DEF TurnInv, Due, HasTurn, Player, Other
  <2>. QED
    BY <1>1, <2>1, <2>2, <2>3 DEF Quiet
<1>6. ~(gm[p].is_player_turn /\ gm[q].is_player_turn)
  BY <1>2, <1>4, <1>5
<1>7. MotionOf(p, gm, up, down')
  <2>1. ShotIn(up[p]) => /\ g.is_player_turn /\ g.has_played
                         /\ Quiet(gm, down') /\ ShotRoll(up[p]) # <<>>
    BY <1>2, <1>3, <1>5 DEF MotionOf, Takes
  <2>2. g.is_player_turn /\ ~g.has_played => Quiet(gm, down')
    BY <1>2, <1>3, <1>5 DEF MotionOf, Takes
  <2>3. TurnIn(up[p]) \/ TurnIn(down'[q]) => Left(gm[p], down'[p]) = <<>>
    BY <1>2, <1>3, <1>4 DEF MotionOf
  <2>. QED
    BY <1>2, <1>4, <2>1, <2>2, <2>3 DEF MotionOf, Takes
<1>8. MotionOf(q, gm, up, down')
  <2>1. TurnIn(up[q]) \/ TurnIn(down'[p]) => Left(gm[q], down'[q]) = <<>>
    BY <1>1, <1>2, <1>3, <1>4 DEF MotionOf, Takes
  <2>. QED
    BY <1>1, <1>2, <1>3, <1>4, <2>1 DEF MotionOf
<1>9. Left(gm[p], down'[p]) # <<>> /\ Left(gm[q], down'[q]) # <<>>
        => gm[p].is_player_turn \/ gm[q].is_player_turn
  BY <1>1, <1>3, <1>4, <1>5 DEF MotionInv
<1>. QED
  BY <1>1, <1>6, <1>7, <1>8, <1>9, OneAtTurn DEF MotionInv

(* Then the frame goes on: the world's step, a shot and the end of the turn. *)

LEMMA CommonRollsMove ==
  ASSUME NEW g \in Game, NEW roll \in CommonRolls(g)
  PROVE  roll \in Rolls /\ roll # <<>>
<1>1. roll \in Rolls
  BY CommonRollsType
<1>2. 1 \in DOMAIN roll => roll # <<>>
  <2>1. DOMAIN roll = 1..Len(roll)
    BY <1>1, LenProperties DEF Rolls
  <2>2. Len(<<>>) = 0
    OBVIOUS
  <2>. QED
    BY <2>1, <2>2
<1>4. CASE diverged
  BY <1>1, <1>2, <1>4 DEF CommonRolls
<1>3. CASE ~diverged
  <2>1. PICK fallsIn \in Plans(g), n \in 1..RollLimit : roll = RollOf(fallsIn, n)
    BY <1>3 DEF CommonRolls, RollsOn
  <2>2. 1 \in DOMAIN roll
    BY <2>1 DEF RollOf
  <2>. QED
    BY <1>1, <1>2, <2>2
<1>. QED
  BY <1>1, <1>3, <1>4

LEMMA FrameLeft ==
  ASSUME NEW g \in Game, NEW queue, ShotIn(queue) => g.rolling = <<>>,
         NEW frame, TableAfter(g, frame)
  PROVE  /\ ~MustUpdatePhysics(g) =>
              /\ Left(frame.game, queue) = Left(g, queue) /\ frame.game.fallen = g.fallen
         /\ MustUpdatePhysics(g) =>
              /\ Left(g, queue) = g.rolling /\ Left(g, queue) # <<>>
              /\ Left(frame.game, queue) = Tail(Left(g, queue))
              /\ frame.game.fallen = g.fallen \cup Head(Left(g, queue))
              /\ frame.game.rolling = <<>> => Left(frame.game, queue) = <<>>
         /\ ShotIn(queue) => frame.game.rolling = <<>>
<1>1. /\ ~MustUpdatePhysics(g) => frame.game.rolling = <<>> /\ frame.game.fallen = g.fallen
      /\ MustUpdatePhysics(g) => /\ frame.game.rolling = Tail(g.rolling)
                                 /\ frame.game.fallen = g.fallen \cup Head(g.rolling)
  BY WorldUpdateFacts DEF TableAfter
<1>2. CASE ~MustUpdatePhysics(g)
  <2>1. g.rolling = <<>> /\ frame.game.rolling = <<>>
    BY <1>1, <1>2 DEF MustUpdatePhysics
  <2>. QED
    BY <1>1, <1>2, <2>1 DEF Left
<1>3. CASE MustUpdatePhysics(g)
  <2>1. g.rolling # <<>> /\ ~ShotIn(queue)
    BY <1>3 DEF MustUpdatePhysics
  <2>2. Left(g, queue) = g.rolling
    BY <2>1 DEF Left
  <2>3. ShotRoll(queue) = <<>>
    BY <2>1 DEF ShotRoll
  <2>4. Left(frame.game, queue) = frame.game.rolling
    BY <2>3 DEF Left
  <2>. QED
    BY <1>1, <1>3, <2>1, <2>2, <2>4
<1>. QED
  BY <1>2, <1>3

LEMMA TailAtRest ==
  ASSUME NEW g \in Game, NEW queue, ShotIn(queue) => g.rolling = <<>>,
         NEW frame, TableAfter(g, frame), Left(g, queue) = <<>>
  PROVE  ~MustUpdatePhysics(g) /\ Left(frame.game, queue) = <<>>
BY FrameLeft

LEMMA FrameMotion ==
  ASSUME TypeOK, NEW p \in Player, NEW g \in Game, Update(p, g), NEW gm, Taken(p, g, gm),
         MotionInv(gm, up, down')
  PROVE  MotionInv(game', up', down')
<1>. DEFINE q == Other(p)
            queue == down'[p]
<1>1. /\ q \in Player /\ q # p /\ Other(q) = p /\ \A r \in Player : r = p \/ r = q
  BY TwoPlayers
<1>2. /\ game'[q] = game[q] /\ up'[q] = up[q] /\ game' \in [Player -> Game]
      /\ \/ Still(p, g)
         \/ \E mouse \in Mouse, roll \in Rolls : Frame(p, g, UpdateGame(g, mouse, p), roll)
  BY UpdateCases
<1>3. /\ gm[p] = g /\ gm[q] = game[q]
  BY DEF Taken
<1>4. /\ MotionOf(p, gm, up, down') /\ MotionOf(q, gm, up, down')
      /\ ~(g.is_player_turn /\ game[q].is_player_turn)
  BY <1>1, <1>3, OneAtTurn DEF MotionInv
<1>5. /\ Left(g, queue) # <<>> /\ Left(game[q], down'[q]) # <<>>
           => g.is_player_turn \/ game[q].is_player_turn
  BY <1>1, <1>3, <1>4 DEF MotionInv
<1>6. /\ Quiet(gm, down') <=> Left(g, queue) = <<>> /\ Left(game[q], down'[q]) = <<>>
      /\ Quiet(game', down')
           <=> Left(game'[p], queue) = <<>> /\ Left(game[q], down'[q]) = <<>>
  BY <1>1, <1>2, <1>3 DEF Quiet
<1>7. /\ ShotIn(queue) => g.rolling = <<>> /\ ShotRoll(queue) # <<>>
      /\ ShotIn(up[p]) => g.is_player_turn /\ g.has_played /\ Quiet(gm, down')
      /\ ShotIn(up[p]) => ShotRoll(up[p]) # <<>>
      /\ g.is_player_turn /\ ~g.has_played => Quiet(gm, down')
      /\ TurnIn(up[p]) \/ TurnIn(down'[q]) => Left(g, queue) = <<>>
  BY <1>3, <1>4 DEF MotionOf
<1>8. ASSUME Still(p, g) PROVE MotionInv(game', up', down')
  <2>1. /\ game'[p] = g /\ up'[p] = up[p]
    BY <1>8 DEF Still
  <2>2. \A r \in Player : game'[r] = gm[r] /\ up'[r] = up[r]
    BY <1>1, <1>2, <1>3, <2>1
  <2>3. 0 \in Player /\ 1 \in Player
    BY DEF Player
  <2>. QED
    BY <1>1, <1>4, <2>2, <2>3 DEF MotionInv, MotionOf, Quiet
<1>9. ASSUME NEW mouse \in Mouse, NEW roll \in Rolls, NEW frame,
             frame = UpdateGame(g, mouse, p), Frame(p, g, frame, roll)
      PROVE  MotionInv(game', up', down')
  <2>1. TableAfter(g, frame) /\ TurnAfter(g, mouse, frame)
    BY <1>9, UpdateGameFacts
  <2>2. game'[p] = frame.game /\ up'[p] = up[p] \o Sent(frame, roll)
    BY <1>9 DEF Frame
  <2>3. /\ frame.shoots => g.is_player_turn /\ ~g.has_played
        /\ frame.passes => MustUpdatePhysics(g) /\ frame.game.rolling = <<>>
        /\ frame.passes => g.is_player_turn
        /\ frame.game.is_player_turn <=> g.is_player_turn /\ ~frame.passes
        /\ frame.game.has_played <=> (g.has_played \/ frame.shoots) /\ ~frame.passes
    BY <2>1 DEF TurnAfter, MayAim
  <2>4. /\ Left(g, queue) = <<>>
             => ~MustUpdatePhysics(g) /\ Left(frame.game, queue) = <<>>
        /\ frame.passes => Left(frame.game, queue) = <<>>
        /\ ShotIn(queue) => frame.game.rolling = <<>>
    BY <1>7, <2>1, <2>3, FrameLeft
  <2>5. frame.shoots => ~ShotIn(up[p]) /\ Quiet(gm, down') /\ roll # <<>>
    <3>1. frame.shoots => roll \in CommonRolls(frame.game) /\ frame.game \in Game
      BY <1>9, UpdateGameFacts DEF Frame
    <3>. QED
      BY <1>7, <2>3, <3>1, CommonRollsMove
  <2>6. /\ up[p] \in Seq(Packets) /\ Sent(frame, roll) \in Seq(Packets)
        /\ OneShotIn(Sent(frame, roll)) /\ (ShotIn(Sent(frame, roll)) <=> frame.shoots)
        /\ frame.shoots => ShotRoll(Sent(frame, roll)) = roll
        /\ TurnIn(Sent(frame, roll)) <=> frame.passes
    BY TurnsInSent, PacketsOfSent DEF TypeOK
  <2>7. /\ OneShotIn(up'[p]) /\ (ShotIn(up'[p]) <=> ShotIn(up[p]) \/ frame.shoots)
        /\ ShotRoll(up'[p]) = (IF ShotIn(up[p]) THEN ShotRoll(up[p])
                                                ELSE ShotRoll(Sent(frame, roll)))
        /\ TurnIn(up'[p]) <=> TurnIn(up[p]) \/ frame.passes
    <3>1. OneShotIn(up[p])
      BY <1>4 DEF MotionOf
    <3>. QED
      BY <2>2, <2>5, <2>6, <3>1, ShotsInConcat, TurnsInConcat
  <2>8. MotionOf(p, game', up', down')
    <3>1. ShotIn(up'[p]) => /\ frame.game.is_player_turn /\ frame.game.has_played
                            /\ Quiet(game', down') /\ ShotRoll(up'[p]) # <<>>
      BY <1>6, <1>7, <2>2, <2>3, <2>4, <2>5, <2>6, <2>7
    <3>2. frame.game.is_player_turn /\ ~frame.game.has_played => Quiet(game', down')
      BY <1>6, <1>7, <2>2, <2>3, <2>4
    <3>3. TurnIn(up'[p]) \/ TurnIn(down'[q]) => Left(frame.game, queue) = <<>>
      BY <1>7, <2>4, <2>7
    <3>4. OneShotIn(queue) /\ ShotsFirst(queue)
      BY <1>4 DEF MotionOf
    <3>. QED
      BY <1>7, <2>2, <2>4, <2>7, <3>1, <3>2, <3>3, <3>4 DEF MotionOf
  <2>9. MotionOf(q, game', up', down')
    <3>1. Quiet(gm, down') => Quiet(game', down')
      BY <1>6, <2>2, <2>4
    <3>. QED
      BY <1>1, <1>2, <1>3, <1>4, <3>1 DEF MotionOf
  <2>10. Left(game'[p], queue) # <<>> /\ Left(game[q], down'[q]) # <<>>
           => game'[p].is_player_turn \/ game[q].is_player_turn
    BY <1>5, <2>2, <2>3, <2>4
  <2>11. ~(game'[p].is_player_turn /\ game'[q].is_player_turn)
    BY <1>2, <1>4, <2>2, <2>3
  <2>. QED
    BY <1>1, <1>2, <2>8, <2>9, <2>10, <2>11, OneAtTurn DEF MotionInv
<1>. QED
  BY <1>2, <1>8, <1>9

-----------------------------------------------------------------------------
(* The steps that leave a game fair, and what they do to the motion.         *)

LEMMA FairSteps ==
  ASSUME TypeOK, TurnInv, [Next]_vars, Fair'
  PROVE  /\ Fair
         /\ \/ UNCHANGED vars
            \/ \E p \in Player :
                 FrameReceive(p) \/ FrameIdle(p) \/ CloseWindow(p) \/ Serve(p)
<1>1. ~early' /\ ~diverged' /\ \A p \in Player : InGame(p)'
  BY DEF Fair
<1>2. CASE UNCHANGED vars
  BY <1>1, <1>2 DEF vars, Fair, InGame, Joining
<1>3. ASSUME NEW p \in Player, InGame(p), ~early, ~diverged,
             game'[Other(p)] = game[Other(p)], down'[Other(p)] = down[Other(p)]
      PROVE  Fair
  <2>1. InGame(Other(p))
    BY <1>1, <1>3, TwoPlayers DEF InGame, Joining
  <2>. QED
    BY <1>3, <2>1, TwoPlayers DEF Fair
<1>4. ASSUME NEW p \in Player, FrameReceive(p) PROVE Fair
  <2>1. InGame(p) /\ ~diverged
    BY <1>1, <1>4, ReceiveKeepsFate
  <2>2. ~early /\ down' = [down EXCEPT ![p] = Tail(@)]
    BY <1>1, <1>4, ReceiveCases
  <2>3. game'[Other(p)] = game[Other(p)]
    BY <1>4, ReceiveCases, UpdateCases
  <2>4. down'[Other(p)] = down[Other(p)]
    BY <2>2, TwoPlayers DEF TypeOK
  <2>. QED
    BY <1>3, <2>1, <2>2, <2>3, <2>4
<1>5. ASSUME NEW p \in Player, FrameIdle(p) PROVE Fair
  <2>1. InGame(p)
    BY <1>1, <1>5, IdleKeepsFate
  <2>2. UNCHANGED <<down, diverged, early>> /\ Update(p, game[p]) /\ game[p] \in Game
    BY <1>5 DEF FrameIdle, TypeOK
  <2>3. game'[Other(p)] = game[Other(p)]
    BY <2>2, UpdateCases
  <2>. QED
    BY <1>1, <1>3, <2>1, <2>2, <2>3
<1>6. ASSUME NEW p \in Player, PressW(p) PROVE FALSE
  BY <1>1, <1>6 DEF PressW
<1>7. ASSUME NEW p \in Player, LeaveGame(p) PROVE FALSE
  <2>1. ~game'[p].playing /\ down' = down /\ game[p].playing
    BY <1>7 DEF LeaveGame, TypeOK, Deinit, Game
  <2>2. ~Joining(p)'
    BY <2>1, PlayingHasJoined
  <2>. QED
    BY <1>1, <2>1, <2>2 DEF InGame
<1>8. ASSUME NEW p \in Player, CloseWindow(p) PROVE Fair
  BY <1>1, <1>8 DEF CloseWindow, Fair, InGame, Joining
<1>9. ASSUME NEW p \in Player, Serve(p) PROVE Fair
  <2>1. \A r \in Player : InGame(r)' => InGame(r)
    BY <1>9, ServeKeepsFates
  <2>2. UNCHANGED <<diverged, early>>
    BY <1>9, ServeCases
  <2>. QED
    BY <1>1, <2>1, <2>2 DEF Fair
<1>. QED
  BY <1>2, <1>4, <1>5, <1>6, <1>7, <1>8, <1>9 DEF Next

LEMMA CloseMotion ==
  ASSUME TypeOK, NEW p \in Player, CloseWindow(p), MotionInv(game, up, down)
  PROVE  MotionInv(game', up', down')
<1>1. /\ UNCHANGED <<game, down>> /\ up[p] \in Seq(Packets)
      /\ up'[p] = Append(up[p], Signal("closed")) /\ up'[Other(p)] = up[Other(p)]
  BY TwoPlayers DEF CloseWindow, TypeOK
<1>2. up'[p] = up[p] \o <<Signal("closed")>> /\ <<Signal("closed")>> \in Seq(Packets)
  BY <1>1, PacketTypes, AppendIsConcat
<1>3. ~ShotIn(<<Signal("closed")>>) /\ ~TurnIn(<<Signal("closed")>>)
  BY ShotsInOne, TurnsInOne, PacketTypes, SignalOrShot DEF Signal
<1>4. ASSUME NEW r \in Player
      PROVE  /\ OneShotIn(up'[r]) /\ (ShotIn(up'[r]) <=> ShotIn(up[r]))
             /\ ShotIn(up[r]) => ShotRoll(up'[r]) = ShotRoll(up[r])
             /\ TurnIn(up'[r]) <=> TurnIn(up[r])
  <2>1. OneShotIn(up[r]) /\ OneShotIn(<<Signal("closed")>>)
    BY ShotsInOne DEF MotionInv, MotionOf
  <2>2. CASE r = p
    <3>. DEFINE s == <<Signal("closed")>>
    <3>1. up'[r] = up[r] \o s /\ ~ShotIn(s) /\ ~TurnIn(s) /\ s \in Seq(Packets)
          /\ OneShotIn(s) /\ OneShotIn(up[r]) /\ up[r] \in Seq(Packets)
      BY <1>1, <1>2, <1>3, <2>1, <2>2
    <3>. HIDE DEF s
    <3>2. /\ OneShotIn(up'[r]) /\ (ShotIn(up'[r]) <=> ShotIn(up[r]))
          /\ ShotRoll(up'[r]) = IF ShotIn(up[r]) THEN ShotRoll(up[r]) ELSE ShotRoll(s)
      BY <3>1, ShotsInConcat
    <3>3. TurnIn(up'[r]) <=> TurnIn(up[r])
      BY <3>1, TurnsInConcat
    <3>. QED
      BY <3>2, <3>3
  <2>3. CASE r = Other(p)
    BY <1>1, <2>1, <2>3
  <2>. QED
    BY <2>2, <2>3, TwoPlayers
<1>5. \A r \in Player : MotionOf(r, game', up', down')
  BY <1>1, <1>4 DEF MotionInv, MotionOf
<1>. QED
  BY <1>1, <1>5 DEF MotionInv

(* What the server's step does to what the tables have left: nothing, or it  *)
(* gives the tables at rest a shot.                                          *)
SameLeft == \A r \in Player : Left(game'[r], down'[r]) = Left(game[r], down[r])
NewLeft ==
  Quiet(game, down) /\ \E roll \in Rolls : \A r \in Player : Left(game'[r], down'[r]) = roll

LEMMA ServeMotion ==
  ASSUME TypeOK, TurnInv, NEW p \in Player, Serve(p), MotionInv(game, up, down)
  PROVE  MotionInv(game', up', down') /\ (SameLeft \/ NewLeft)
<1>. DEFINE q == Other(p)
            packet == Head(up[p])
<1>1. /\ q \in Player /\ q # p /\ Other(q) = p /\ \A r \in Player : r = p \/ r = q
  BY TwoPlayers
<1>2. /\ game' = game /\ up[p] # <<>> /\ up' = [up EXCEPT ![p] = Tail(@)]
      /\ \/ ~lobby_open /\ UNCHANGED down
         \/ \E toSender, toOther \in Seq(Packets) :
              /\ Relayed(packet, toSender, toOther)
              /\ down'[p] = down[p] \o toSender /\ down'[q] = down[q] \o toOther
  BY ServeCases
<1>3. /\ up'[p] = Tail(up[p]) /\ up'[q] = up[q] /\ packet \in Packets
      /\ \A r \in Player : up[r] \in Seq(Packets) /\ down[r] \in Seq(Packets)
  BY <1>1, <1>2, HeadOfPackets DEF TypeOK
<1>4. MotionOf(p, game, up, down) /\ MotionOf(q, game, up, down)
  BY <1>1 DEF MotionInv
<1>5. /\ OneShotIn(up[p]) /\ OneTurnIn(up[p])
      /\ \A r \in Player : OneShotIn(down[r]) /\ ShotsFirst(down[r])
  BY <1>1, <1>4 DEF MotionInv, MotionOf, TurnInv
<1>6. /\ OneShotIn(up'[p])
      /\ packet \in Shots => /\ ShotIn(up[p]) /\ ShotRoll(up[p]) = packet.roll
                             /\ ~ShotIn(up'[p])
      /\ packet \notin Shots => /\ ShotIn(up'[p]) <=> ShotIn(up[p])
                                /\ ShotRoll(up'[p]) = ShotRoll(up[p])
      /\ TurnIn(up'[p]) => TurnIn(up[p])
      /\ packet = Signal("newTurn") => TurnIn(up[p])
  BY <1>2, <1>3, <1>5, ShotsInTail, TurnsInTail
(* The queues to the clients get no shot.                                    *)
<1>7. ASSUME \A r \in Player : /\ OneShotIn(down'[r]) /\ ShotsFirst(down'[r])
                               /\ ShotIn(down'[r]) <=> ShotIn(down[r])
                               /\ ShotRoll(down'[r]) = ShotRoll(down[r]),
             TurnIn(down'[p]) => TurnIn(down[p]),
             TurnIn(down'[q]) => TurnIn(down[q]) \/ TurnIn(up[p])
      PROVE  MotionInv(game', up', down') /\ (SameLeft \/ NewLeft)
  <2>1. \A r \in Player : Left(game[r], down'[r]) = Left(game[r], down[r])
    BY <1>7, LeftIsSame
  <2>2. Quiet(game, down') <=> Quiet(game, down)
    BY <2>1 DEF Quiet
  <2>3. ShotIn(up'[p]) => ShotIn(up[p]) /\ ShotRoll(up'[p]) = ShotRoll(up[p])
    BY <1>6
  <2>4. TurnIn(up'[p]) \/ TurnIn(down'[q]) => Left(game[p], down'[p]) = <<>>
    BY <1>4, <1>6, <1>7, <2>1 DEF MotionOf
  <2>5. TurnIn(up'[q]) \/ TurnIn(down'[p]) => Left(game[q], down'[q]) = <<>>
    BY <1>1, <1>3, <1>4, <1>7, <2>1 DEF MotionOf
  <2>6. MotionOf(p, game, up', down')
    BY <1>4, <1>6, <1>7, <2>2, <2>3, <2>4 DEF MotionOf
  <2>7. MotionOf(q, game, up', down')
    BY <1>1, <1>3, <1>4, <1>7, <2>2, <2>5 DEF MotionOf
  <2>. QED
    BY <1>1, <1>2, <2>1, <2>6, <2>7 DEF MotionInv, SameLeft
<1>8. ASSUME ~lobby_open, UNCHANGED down PROVE MotionInv(game', up', down') /\ (SameLeft \/ NewLeft)
  BY <1>5, <1>7, <1>8
<1>9. ASSUME NEW toSender \in Seq(Packets), NEW toOther \in Seq(Packets),
             Relayed(packet, toSender, toOther), packet \notin Shots,
             down'[p] = down[p] \o toSender, down'[q] = down[q] \o toOther
      PROVE  MotionInv(game', up', down') /\ (SameLeft \/ NewLeft)
  <2>1. /\ ~ShotIn(toSender) /\ OneShotIn(toSender) /\ ~TurnIn(toSender)
        /\ ~ShotIn(toOther) /\ OneShotIn(toOther)
        /\ TurnIn(toOther) => packet = Signal("newTurn")
        /\ ShotRoll(toSender) = <<>> /\ ShotRoll(toOther) = <<>>
        /\ ShotsFirst(toSender) /\ ShotsFirst(toOther)
    <3>1. \A type : Signal(type) \notin Shots
      BY DEF Signal, Shots
    <3>2. /\ Signal("won") # Signal("newTurn") /\ Signal("lost") # Signal("newTurn")
          /\ Signal("won") \in Packets /\ Signal("lost") \in Packets
          /\ Signal("newTurn") \in Packets
      BY PacketTypes DEF Signal
    <3>3. ASSUME NEW type, Signal(type) \in Packets
          PROVE  /\ ~ShotIn(<<Signal(type)>>) /\ OneShotIn(<<Signal(type)>>)
                 /\ ShotsFirst(<<Signal(type)>>) /\ ShotRoll(<<Signal(type)>>) = <<>>
      <4>1. ~ShotIn(<<Signal(type)>>)
        BY <3>1, ShotsInOne
      <4>. QED
        BY <3>3, <4>1, ShotsInOne DEF ShotRoll
    <3>. QED
      BY <1>9, <3>2, <3>3, ShotsInOne, TurnsInOne DEF Relayed
  <2>2. ASSUME NEW r \in Player, NEW s \in Seq(Packets), OneShotIn(s), ~ShotIn(s),
               ShotRoll(s) = <<>>, ShotsFirst(s), down'[r] = down[r] \o s
        PROVE  /\ OneShotIn(down'[r]) /\ ShotsFirst(down'[r])
               /\ ShotIn(down'[r]) <=> ShotIn(down[r])
               /\ ShotRoll(down'[r]) = ShotRoll(down[r])
               /\ TurnIn(down'[r]) <=> TurnIn(down[r]) \/ TurnIn(s)
    <3>1. ~ShotIn(down[r]) => ShotRoll(down[r]) = <<>>
      BY DEF ShotRoll
    <3>2. down[r] \in Seq(Packets) /\ OneShotIn(down[r]) /\ ShotsFirst(down[r])
      BY <1>3, <1>5
    <3>. QED
      BY <2>2, <3>1, <3>2, ShotsInConcat, TurnsInConcat
  <2>3. /\ OneShotIn(down'[p]) /\ ShotsFirst(down'[p])
        /\ ShotIn(down'[p]) <=> ShotIn(down[p])
        /\ ShotRoll(down'[p]) = ShotRoll(down[p])
        /\ TurnIn(down'[p]) <=> TurnIn(down[p]) \/ TurnIn(toSender)
    BY <1>1, <1>9, <2>1, <2>2
  <2>4. /\ OneShotIn(down'[q]) /\ ShotsFirst(down'[q])
        /\ ShotIn(down'[q]) <=> ShotIn(down[q])
        /\ ShotRoll(down'[q]) = ShotRoll(down[q])
        /\ TurnIn(down'[q]) <=> TurnIn(down[q]) \/ TurnIn(toOther)
    BY <1>1, <1>9, <2>1, <2>2
  <2>. QED
    BY <1>1, <1>6, <1>7, <2>1, <2>3, <2>4
<1>10. ASSUME packet \in Shots,
              down'[p] = down[p] \o <<packet>>, down'[q] = down[q] \o <<packet>>
       PROVE  MotionInv(game', up', down') /\ (SameLeft \/ NewLeft)
  <2>1. /\ game[p].is_player_turn /\ game[p].has_played /\ Quiet(game, down)
        /\ packet.roll # <<>> /\ ~ShotIn(up'[p])
    BY <1>4, <1>6, <1>10 DEF MotionOf
  <2>2. /\ ~TurnIn(down[p]) /\ ~TurnIn(up[q]) /\ ~TurnIn(down[q]) /\ ~TurnIn(up[p])
        /\ ~game[q].is_player_turn
    BY <1>1, <2>1 DEF TurnInv, OnePlace, Due, HasTurn, Player, Other
  <2>3. /\ <<packet>> \in Seq(Packets) /\ OneShotIn(<<packet>>) /\ ShotIn(<<packet>>)
        /\ ShotRoll(<<packet>>) = packet.roll /\ ShotsFirst(<<packet>>)
        /\ ~TurnIn(<<packet>>)
    <3>1. packet # Signal("newTurn")
      BY <1>10 DEF Signal, Shots
    <3>. QED
      BY <1>3, <1>10, <3>1, ShotsInOne, TurnsInOne
  <2>4. ASSUME NEW r \in Player
        PROVE  /\ OneShotIn(down'[r]) /\ ShotsFirst(down'[r]) /\ ~TurnIn(down'[r])
               /\ ShotRoll(down'[r]) = packet.roll /\ game[r].rolling = <<>>
    <3>1. Left(game[r], down[r]) = <<>> /\ MotionOf(r, game, up, down)
      BY <2>1 DEF Quiet, MotionInv
    <3>2. game[r].rolling = <<>> /\ ShotRoll(down[r]) = <<>>
      BY <3>1 DEF Left
    <3>3. ~ShotIn(down[r])
      BY <3>1, <3>2 DEF MotionOf
    <3>4. ~TurnIn(down[r]) /\ down'[r] = down[r] \o <<packet>>
      BY <1>1, <1>10, <2>2
    <3>5. down[r] \in Seq(Packets) /\ OneShotIn(down[r]) /\ ShotsFirst(down[r])
      BY <1>3, <1>5
    <3>6. /\ OneShotIn(down'[r])
          /\ ShotRoll(down'[r]) = ShotRoll(<<packet>>)
          /\ ShotsFirst(down'[r])
      <4>. DEFINE s == <<packet>>
      <4>1. /\ s \in Seq(Packets) /\ OneShotIn(s) /\ ShotIn(s) /\ ShotsFirst(s)
            /\ down'[r] = down[r] \o s
        BY <2>3, <3>4
      <4>. HIDE DEF s
      <4>2. /\ OneShotIn(down[r] \o s)
            /\ ShotRoll(down[r] \o s) = IF ShotIn(down[r]) THEN ShotRoll(down[r]) ELSE ShotRoll(s)
        BY <3>3, <3>5, <4>1, ShotsInConcat
      <4>3. ShotsFirst(down[r] \o s)
        BY <3>3, <3>4, <3>5, <4>1, ShotsInConcat
      <4>. QED
        BY <3>3, <4>1, <4>2, <4>3 DEF s
    <3>7. ~TurnIn(down'[r])
      BY <2>3, <3>4, <3>5, TurnsInConcat
    <3>. QED
      BY <2>3, <3>2, <3>6, <3>7
  <2>5. MotionOf(p, game, up', down')
    BY <1>1, <1>6, <2>1, <2>2, <2>4 DEF MotionOf
  <2>6. MotionOf(q, game, up', down')
    <3>1. ~ShotIn(up[q])
      BY <1>4, <2>2 DEF MotionOf
    <3>. QED
      BY <1>1, <1>3, <1>4, <2>1, <2>2, <2>4, <3>1 DEF MotionOf
  <2>7. MotionInv(game', up', down')
    BY <1>1, <1>2, <2>1, <2>5, <2>6 DEF MotionInv
  <2>8. NewLeft
    <3>1. packet.roll \in Rolls /\ \A r \in Player : Left(game'[r], down'[r]) = packet.roll
      BY <1>2, <1>10, <2>4, SignalOrShot DEF Left
    <3>. QED
      BY <2>1, <3>1 DEF NewLeft
  <2>. QED
    BY <2>7, <2>8
<1>11. ASSUME NEW toSender \in Seq(Packets), NEW toOther \in Seq(Packets),
              Relayed(packet, toSender, toOther), packet \in Shots,
              down'[p] = down[p] \o toSender, down'[q] = down[q] \o toOther
       PROVE  MotionInv(game', up', down') /\ (SameLeft \/ NewLeft)
  <2>1. \A type : Signal(type) \notin Shots
    BY DEF Signal, Shots
  <2>. QED
    BY <1>10, <1>11, <2>1 DEF Relayed
<1>. QED
  BY <1>2, <1>8, <1>9, <1>11

-----------------------------------------------------------------------------
(* How far one table is ahead of the other.                                  *)

LEMMA LeftType ==
  ASSUME NEW g \in Game, NEW queue \in Seq(Packets)
  PROVE  Left(g, queue) \in Rolls
<1>1. g.rolling \in Rolls /\ <<>> \in Rolls
  BY DEF Game, Rolls
<1>2. ShotRoll(queue) \in Rolls
  <2>. DEFINE n == CHOOSE n \in ShotsIn(queue) : TRUE
  <2>1. CASE ShotIn(queue)
    <3>1. n \in ShotsIn(queue) /\ ShotRoll(queue) = queue[n].roll
      BY <2>1 DEF ShotIn, ShotRoll
    <3>. HIDE DEF n
    <3>. QED
      BY <3>1, SignalOrShot DEF ShotsIn
  <2>2. CASE ~ShotIn(queue)
    BY <1>1, <2>2 DEF ShotRoll
  <2>. QED
    BY <2>1, <2>2
<1>. QED
  BY <1>1, <1>2 DEF Left

(* Two pairs of tables alike are as far apart.                               *)
LEMMA SameLags ==
  ASSUME NEW gm, NEW d, NEW gm2, NEW d2,
         \A r \in Player : /\ Left(gm2[r], d2[r]) = Left(gm[r], d[r])
                           /\ gm2[r].fallen = gm[r].fallen
  PROVE  \A r \in Player, n \in Nat : Lags(gm2, d2, r, n) <=> Lags(gm, d, r, n)
BY TwoPlayers DEF Lags

LEMMA TakesLag ==
  ASSUME NEW p \in Player, NEW g, Takes(p, g), TakesVerdict(p, g),
         NEW gm, Taken(p, g, gm), LagInv(game, down)
  PROVE  /\ LagInv(gm, down')
         /\ \A r \in Player : /\ Left(gm[r], down'[r]) = Left(game[r], down[r])
                              /\ gm[r].fallen = game[r].fallen
<1>1. ASSUME NEW r \in Player
      PROVE  /\ Left(gm[r], down'[r]) = Left(game[r], down[r])
             /\ gm[r].fallen = game[r].fallen /\ gm[r].score = game[r].score
             /\ gm[r].opponent_score = game[r].opponent_score
             /\ ~gm[r].is_game_finished =>
                  ~game[r].is_game_finished /\ (gm[r].has_win <=> game[r].has_win)
  <2>1. CASE r = p
    BY <2>1 DEF Takes, TakesVerdict, Taken
  <2>2. CASE r = Other(p)
    BY <2>2 DEF Taken
  <2>. QED
    BY <2>1, <2>2, TwoPlayers
<1>2. \A r \in Player, n \in Nat : Lags(gm, down', r, n) <=> Lags(game, down, r, n)
  BY <1>1, SameLags
<1>. QED
  BY <1>1, <1>2 DEF LagInv

(* A frame brings the table of p a step on.                                  *)
LEMMA FrameLags ==
  ASSUME NEW p \in Player, NEW gm \in [Player -> Game], NEW gm2, NEW d \in [Player -> Seq(Packets)],
         gm2[Other(p)] = gm[Other(p)],
         Left(gm[p], d[p]) # <<>>, Left(gm2[p], d[p]) = Tail(Left(gm[p], d[p])),
         gm2[p].fallen = gm[p].fallen \cup Head(Left(gm[p], d[p])),
         NEW n \in Nat
  PROVE  /\ Lags(gm, d, p, 0) => Lags(gm, d, Other(p), 0)
         /\ Lags(gm, d, Other(p), n) =>
              /\ n + 1 \in 1..Len(Left(gm[Other(p)], d[Other(p)]))
              /\ Left(gm[Other(p)], d[Other(p)])[n + 1] = Head(Left(gm[p], d[p]))
              /\ Lags(gm2, d, Other(p), n + 1)
         /\ n # 0 /\ Lags(gm, d, p, n) => Lags(gm2, d, p, n - 1)
<1>. DEFINE q == Other(p)
            a == Left(gm[p], d[p])
            b == Left(gm[q], d[q])
            f == gm[p].fallen
            e == gm[q].fallen
<1>1. q \in Player /\ Other(q) = p
  BY TwoPlayers
<1>2. a \in Rolls /\ b \in Rolls /\ a # <<>>
  BY <1>1, LeftType
<1>3. \A m \in Nat : /\ Lags(gm, d, p, m) <=> Lag(f, a, e, b, m)
                     /\ Lags(gm, d, q, m) <=> Lag(e, b, f, a, m)
                     /\ Lags(gm2, d, p, m) <=> Lag(f \cup Head(a), Tail(a), e, b, m)
                     /\ Lags(gm2, d, q, m) <=> Lag(e, b, f \cup Head(a), Tail(a), m)
  BY <1>1 DEF Lags
<1>. HIDE DEF a, b, f, e
<1>4. Lag(f, a, e, b, 0) => Lag(e, b, f, a, 0)
  BY <1>2, NoLag
<1>5. Lag(e, b, f, a, n) => /\ n + 1 \in 1..Len(b) /\ b[n + 1] = Head(a)
                            /\ Lag(e, b, f \cup Head(a), Tail(a), n + 1)
  BY <1>2, AheadSteps
<1>6. n # 0 /\ Lag(f, a, e, b, n) => Lag(f \cup Head(a), Tail(a), e, b, n - 1)
  BY <1>2, BehindSteps
<1>7. n + 1 \in Nat /\ 0 \in Nat /\ (n # 0 => n - 1 \in Nat)
  OBVIOUS
<1>. QED
  BY <1>3, <1>4, <1>5, <1>6, <1>7 DEF a, b, q

LEMMA FrameLag ==
  ASSUME TypeOK, NEW p \in Player, NEW g \in Game, Update(p, g),
         NEW gm \in [Player -> Game], Taken(p, g, gm), down' \in [Player -> Seq(Packets)],
         MotionInv(gm, up, down'), LagInv(gm, down')
  PROVE  LagInv(game', down')
<1>. DEFINE q == Other(p)
<1>1. /\ q \in Player /\ q # p /\ Other(q) = p /\ \A r \in Player : r = p \/ r = q
  BY TwoPlayers
<1>2. /\ game'[q] = game[q]
      /\ \/ Still(p, g)
         \/ \E mouse \in Mouse, roll \in Rolls : Frame(p, g, UpdateGame(g, mouse, p), roll)
  BY UpdateCases
<1>3. gm[p] = g /\ gm[q] = game[q]
  BY DEF Taken
<1>4. ASSUME Still(p, g) PROVE LagInv(game', down')
  <2>1. \A r \in Player : game'[r] = gm[r]
    BY <1>1, <1>2, <1>3, <1>4 DEF Still
  <2>2. \A r \in Player, n \in Nat : Lags(game', down', r, n) <=> Lags(gm, down', r, n)
    BY <2>1, SameLags
  <2>. QED
    BY <2>1, <2>2 DEF LagInv
<1>5. ASSUME NEW mouse \in Mouse, NEW roll \in Rolls, NEW frame,
             frame = UpdateGame(g, mouse, p), Frame(p, g, frame, roll)
      PROVE  LagInv(game', down')
  <2>1. TableAfter(g, frame) /\ ScoresAfter(p, frame)
    BY <1>5, UpdateGameFacts
  <2>2. game'[p] = frame.game /\ ~g.is_game_finished
    BY <1>5 DEF Frame
  <2>3. ShotIn(down'[p]) => g.rolling = <<>>
    BY <1>3 DEF MotionInv, MotionOf
  <2>4. ASSUME ~MustUpdatePhysics(g)
        PROVE  \E r \in Player, n \in Nat : Lags(game', down', r, n)
    <3>1. Left(frame.game, down'[p]) = Left(g, down'[p]) /\ frame.game.fallen = g.fallen
      BY <2>1, <2>3, <2>4, FrameLeft
    <3>2. \A r \in Player : /\ Left(game'[r], down'[r]) = Left(gm[r], down'[r])
                            /\ game'[r].fallen = gm[r].fallen
      BY <1>1, <1>2, <1>3, <2>2, <3>1
    <3>3. \A r \in Player, n \in Nat : Lags(game', down', r, n) <=> Lags(gm, down', r, n)
      BY <3>2, SameLags
    <3>. QED
      BY <3>3 DEF LagInv
  <2>5. ASSUME MustUpdatePhysics(g)
        PROVE  \E r \in Player, n \in Nat : Lags(game', down', r, n)
    <3>1. /\ Left(gm[p], down'[p]) # <<>>
          /\ Left(game'[p], down'[p]) = Tail(Left(gm[p], down'[p]))
          /\ game'[p].fallen = gm[p].fallen \cup Head(Left(gm[p], down'[p]))
      BY <1>3, <2>1, <2>2, <2>3, <2>5, FrameLeft
    <3>2. game'[q] = gm[q]
      BY <1>2, <1>3
    <3>3. \A n \in Nat : /\ Lags(gm, down', p, 0) => Lags(gm, down', q, 0)
                         /\ Lags(gm, down', q, n) => Lags(game', down', q, n + 1)
                         /\ n # 0 /\ Lags(gm, down', p, n) => Lags(game', down', p, n - 1)
      BY <3>1, <3>2, FrameLags
    <3>4. PICK r \in Player, n \in Nat : Lags(gm, down', r, n)
      BY DEF LagInv
    <3>5. CASE Lags(gm, down', q, n)
      BY <1>1, <3>3, <3>5
    <3>6. CASE Lags(gm, down', p, n) /\ n # 0
      <4>1. n - 1 \in Nat
        BY <3>6
      <4>. QED
        BY <3>3, <3>6, <4>1
    <3>7. CASE Lags(gm, down', p, n) /\ n = 0
      <4>1. Lags(game', down', q, 0 + 1) /\ 0 + 1 \in Nat
        BY <3>3, <3>7
      <4>. QED
        BY <1>1, <4>1
    <3>. QED
      BY <1>1, <3>4, <3>5, <3>6, <3>7
  <2>6. ~frame.game.is_game_finished => ~Falls(g, Black)
    BY <2>1, WorldUpdateFacts DEF TableAfter
  <2>7. ASSUME ~frame.game.is_game_finished
        PROVE  ~frame.game.has_win /\ Black \notin frame.game.fallen
    <3>1. ~g.has_win /\ Black \notin g.fallen
      BY <1>3, <2>2 DEF LagInv
    <3>. QED
      BY <2>1, <2>6, <2>7, <3>1, WorldUpdateFacts DEF TableAfter, Falls
  <2>8. ASSUME NEW r \in Player, ~game'[r].is_game_finished
        PROVE  /\ ~game'[r].has_win /\ Black \notin game'[r].fallen
               /\ game'[r].score = Cardinality(game'[r].fallen \cap BallsOf(r))
               /\ game'[r].opponent_score
                    = Cardinality(game'[r].fallen \cap BallsOf(Other(r)))
    <3>1. CASE r = p
      BY <2>1, <2>2, <2>7, <2>8, <3>1 DEF ScoresAfter
    <3>2. CASE r = q
      BY <1>2, <1>3, <2>8, <3>2 DEF LagInv
    <3>. QED
      BY <1>1, <3>1, <3>2
  <2>. QED
    BY <2>4, <2>5, <2>8 DEF LagInv
<1>. QED
  BY <1>2, <1>4, <1>5

LEMMA ServeLag ==
  ASSUME TypeOK, NEW p \in Player, Serve(p), LagInv(game, down), SameLeft \/ NewLeft
  PROVE  LagInv(game', down')
<1>1. game' = game /\ 0 \in Player
  BY ServeCases DEF Player
<1>2. CASE SameLeft
  <2>1. \A r \in Player, n \in Nat : Lags(game', down', r, n) <=> Lags(game, down, r, n)
    BY <1>1, <1>2, SameLags DEF SameLeft
  <2>. QED
    BY <1>1, <2>1 DEF LagInv
<1>3. CASE NewLeft
  <2>1. PICK roll \in Rolls : \A r \in Player : Left(game'[r], down'[r]) = roll
    BY <1>3 DEF NewLeft
  <2>2. \A r \in Player : Left(game[r], down[r]) = <<>>
    BY <1>3 DEF NewLeft, Quiet
  <2>3. PICK r \in Player, n \in Nat : Lags(game, down, r, n)
    BY DEF LagInv
  <2>4. game[Other(r)].fallen = game[r].fallen
    <3>. DEFINE f == game[r].fallen
                e == game[Other(r)].fallen
                a == Left(game[r], down[r])
                b == Left(game[Other(r)], down[Other(r)])
    <3>1. Lag(f, a, e, b, n) /\ a = <<>>
      BY <2>2, <2>3 DEF Lags
    <3>2. a \in Rolls
      BY <3>1 DEF Rolls
    <3>. HIDE DEF f, e, a, b
    <3>3. e = f
      BY <3>1, <3>2, NoLag
    <3>. QED
      BY <3>3 DEF e, f
  <2>5. Lags(game', down', r, 0)
    BY <1>1, <2>1, <2>4, NoLag, TwoPlayers DEF Lags
  <2>. QED
    BY <1>1, <2>5 DEF LagInv
<1>. QED
  BY <1>2, <1>3

-----------------------------------------------------------------------------
(* Who judges the black ball, and how.                                       *)

LEMMA ToJudgeHasLeft ==
  ASSUME NEW gm \in [Player -> Game], NEW d \in [Player -> Seq(Packets)], NEW p \in Player,
         ToJudge(gm, d, p)
  PROVE  Left(gm[p], d[p]) # <<>>
<1>1. PICK n \in Nat \ {0} : Lags(gm, d, p, n)
  BY DEF ToJudge
<1>2. n \in 0..Len(Left(gm[p], d[p]))
  BY <1>1 DEF Lags, Lag
<1>3. Len(<<>>) = 0
  OBVIOUS
<1>. QED
  BY <1>2, <1>3

LEMMA SameJudge ==
  ASSUME NEW gm \in [Player -> Game], NEW d \in [Player -> Seq(Packets)], NEW gm2, NEW d2,
         \A r \in Player : /\ Left(gm2[r], d2[r]) = Left(gm[r], d[r])
                           /\ gm2[r].fallen = gm[r].fallen,
         NEW p \in Player, ToJudge(gm, d, p),
         \/ gm2[p].is_player_turn <=> gm[p].is_player_turn
         \/ Left(gm[p], d[p]) = <<>>,
         gm2[Other(p)].has_win <=> gm[Other(p)].has_win
  PROVE  ToJudge(gm2, d2, p)
<1>1. gm2[p].is_player_turn <=> gm[p].is_player_turn
  BY ToJudgeHasLeft
<1>2. \A n \in Nat : Lags(gm2, d2, p, n) <=> Lags(gm, d, p, n)
  BY SameLags
<1>3. PICK n \in Nat \ {0} :
        /\ Lags(gm, d, p, n)
        /\ Black \in Left(gm[p], d[p])[n]
        /\ Black \notin gm[p].fallen \cup First(Left(gm[p], d[p]), n - 1)
        /\ gm[Other(p)].has_win
             <=> ~WillClaim(gm[p], p, First(Left(gm[p], d[p]), n - 1))
  BY DEF ToJudge
<1>4. WillClaim(gm2[p], p, First(Left(gm[p], d[p]), n - 1))
        <=> WillClaim(gm[p], p, First(Left(gm[p], d[p]), n - 1))
  BY <1>1 DEF WillClaim
<1>. QED
  BY <1>2, <1>3, <1>4 DEF ToJudge

LEMMA WillClaimNow ==
  ASSUME NEW p \in Player, NEW g \in Game,
         g.score = Cardinality(g.fallen \cap BallsOf(p)),
         g.opponent_score = Cardinality(g.fallen \cap BallsOf(Other(p)))
  PROVE  ClaimsGame(g) <=> WillClaim(g, p, {})
<1>1. g.fallen \cup {} = g.fallen /\ g.is_player_turn \in BOOLEAN
  BY DEF Game
<1>. QED
  BY <1>1 DEF ClaimsGame, WillClaim

(* A step in which the black ball does not fall on the table of p.           *)
LEMMA JudgesLater ==
  ASSUME NEW p \in Player, NEW gm \in [Player -> Game], NEW gm2,
         NEW d \in [Player -> Seq(Packets)], gm2[Other(p)] = gm[Other(p)],
         Left(gm[p], d[p]) # <<>>, Left(gm2[p], d[p]) = Tail(Left(gm[p], d[p])),
         gm2[p].fallen = gm[p].fallen \cup Head(Left(gm[p], d[p])),
         ToJudge(gm, d, p), Black \notin Head(Left(gm[p], d[p])) \ gm[p].fallen,
         \/ gm2[p].is_player_turn <=> gm[p].is_player_turn
         \/ Left(gm2[p], d[p]) = <<>>
  PROVE  ToJudge(gm2, d, p)
<1>. DEFINE a == Left(gm[p], d[p])
            f == gm[p].fallen
<1>1. PICK n \in Nat \ {0} :
        /\ Lags(gm, d, p, n) /\ Black \in a[n] /\ Black \notin f \cup First(a, n - 1)
        /\ gm[Other(p)].has_win <=> ~WillClaim(gm[p], p, First(a, n - 1))
  BY DEF ToJudge
<1>2. a \in Rolls /\ Lags(gm2, d, p, n - 1) /\ n - 1 \in Nat /\ Left(gm2[p], d[p]) = Tail(a)
  <2>1. \A m \in Nat : m # 0 /\ Lags(gm, d, p, m) => Lags(gm2, d, p, m - 1)
    BY FrameLags
  <2>2. n \in Nat /\ n # 0 /\ n - 1 \in Nat
    OBVIOUS
  <2>. QED
    BY <1>1, <2>1, <2>2, LeftType
<1>3. /\ Head(a) = a[1]
      /\ n > 1 => /\ Tail(a)[n - 1] = a[n]
                  /\ First(a, n - 1) = Head(a) \cup First(Tail(a), n - 2)
  <2>. DEFINE e == gm[Other(p)].fallen
              b == Left(gm[Other(p)], d[Other(p)])
  <2>1. Lag(f, a, e, b, n)
    BY <1>1 DEF Lags
  <2>. HIDE DEF a, f, e, b
  <2>. QED
    BY <1>2, <2>1, BehindSteps
<1>4. n > 1
  BY <1>1, <1>3
<1>5. gm2[p].fallen = f \cup Head(a)
  OBVIOUS
<1>. HIDE DEF a, f
<1>6. /\ n - 1 \in Nat \ {0} /\ n - 2 = (n - 1) - 1 /\ Tail(a)[n - 1] = a[n]
      /\ gm2[p].fallen \cup First(Tail(a), n - 2) = f \cup First(a, n - 1)
  <2>1. n - 1 \in Nat \ {0} /\ n - 2 = (n - 1) - 1
    BY <1>4
  <2>2. /\ Tail(a)[n - 1] = a[n] /\ First(a, n - 1) = Head(a) \cup First(Tail(a), n - 2)
    BY <1>3, <1>4
  <2>3. (f \cup Head(a)) \cup First(Tail(a), n - 2)
          = f \cup (Head(a) \cup First(Tail(a), n - 2))
    OBVIOUS
  <2>. QED
    BY <1>5, <2>1, <2>2, <2>3
<1>7. gm2[p].is_player_turn <=> gm[p].is_player_turn
  <2>1. Len(<<>>) = 0 /\ n - 1 \in 0..Len(Left(gm2[p], d[p]))
    BY <1>2 DEF Lags, Lag
  <2>2. n - 1 \in Nat /\ n - 1 # 0
    BY <1>6
  <2>3. \A m \in Nat : m # 0 => m \notin 0..0
    OBVIOUS
  <2>4. Left(gm2[p], d[p]) # <<>>
    BY <2>1, <2>2, <2>3
  <2>. QED
    BY <2>4
<1>8. WillClaim(gm2[p], p, First(Tail(a), n - 2)) <=> WillClaim(gm[p], p, First(a, n - 1))
  BY <1>6, <1>7 DEF WillClaim, f
<1>9. /\ Lags(gm2, d, p, n - 1) /\ Black \in Tail(a)[n - 1]
      /\ Black \notin gm2[p].fallen \cup First(Tail(a), (n - 1) - 1)
      /\ gm2[Other(p)].has_win <=> ~WillClaim(gm2[p], p, First(Tail(a), (n - 1) - 1))
  BY <1>1, <1>2, <1>6, <1>8
<1>. QED
  BY <1>2, <1>6, <1>9 DEF ToJudge

(* A step in which it falls, after it fell on the other table.               *)
LEMMA JudgesNow ==
  ASSUME NEW p \in Player, NEW gm \in [Player -> Game], NEW d \in [Player -> Seq(Packets)],
         Left(gm[p], d[p]) # <<>>, ToJudge(gm, d, p), Black \in Head(Left(gm[p], d[p])),
         gm[p].score = Cardinality(gm[p].fallen \cap BallsOf(p)),
         gm[p].opponent_score = Cardinality(gm[p].fallen \cap BallsOf(Other(p)))
  PROVE  ClaimsGame(gm[p]) <=> ~gm[Other(p)].has_win
<1>. DEFINE a == Left(gm[p], d[p])
<1>1. PICK n \in Nat \ {0} :
        /\ Black \notin gm[p].fallen \cup First(a, n - 1)
        /\ gm[Other(p)].has_win <=> ~WillClaim(gm[p], p, First(a, n - 1))
  BY DEF ToJudge
<1>2. a \in Rolls /\ a # <<>>
  BY LeftType
<1>3. Head(a) = a[1] /\ First(a, 0) = {}
  BY <1>2, HeadTailProperties, FirstSteps DEF Rolls
<1>4. Black \in a[1]
  BY <1>3
<1>. HIDE DEF a
<1>5. n = 1
  BY <1>1, <1>4 DEF First
<1>6. gm[Other(p)].has_win <=> ~WillClaim(gm[p], p, {})
  <2>1. n - 1 = 0
    BY <1>5
  <2>2. First(a, n - 1) = {}
    BY <1>3, <2>1
  <2>. QED
    BY <1>1, <2>2
<1>. QED
  BY <1>6, WillClaimNow

(* A step in which it falls first on the table of p.                         *)
LEMMA JudgesFirst ==
  ASSUME NEW p \in Player, NEW gm \in [Player -> Game], NEW gm2,
         NEW d \in [Player -> Seq(Packets)], gm2[Other(p)] = gm[Other(p)],
         Left(gm[p], d[p]) # <<>>, Left(gm2[p], d[p]) = Tail(Left(gm[p], d[p])),
         gm2[p].fallen = gm[p].fallen \cup Head(Left(gm[p], d[p])),
         NEW u, MotionInv(gm, u, d), LagInv(gm, d),
         ~gm[p].is_game_finished, ~gm[Other(p)].is_game_finished,
         Black \in Head(Left(gm[p], d[p])) \ gm[p].fallen,
         gm2[p].has_win <=> ClaimsGame(gm[p])
  PROVE  ToJudge(gm2, d, Other(p))
<1>. DEFINE q == Other(p)
            a == Left(gm[p], d[p])
            b == Left(gm[q], d[q])
            f == gm[p].fallen
            e == gm[q].fallen
<1>1. /\ q \in Player /\ q # p /\ Other(q) = p /\ \A r \in Player : r = p \/ r = q
  BY TwoPlayers
<1>2. a \in Rolls /\ b \in Rolls /\ a # <<>>
  BY <1>1, LeftType
<1>3. Head(a) = a[1] /\ Black \in a[1] /\ Black \notin f
  BY <1>2, HeadTailProperties DEF Rolls
<1>4. /\ Black \notin f /\ Black \notin e
      /\ gm[p].score = Cardinality(f \cap BallsOf(p))
      /\ gm[p].opponent_score = Cardinality(f \cap BallsOf(q))
  BY <1>1 DEF LagInv
<1>5. PICK r \in Player, n \in Nat : Lags(gm, d, r, n)
  BY DEF LagInv
<1>6. r = p => n = 0
  <2>. SUFFICES ASSUME Lags(gm, d, p, n), n # 0 PROVE FALSE
    BY <1>5
  <2>1. e = f \cup First(a, n)
    BY DEF Lags, Lag
  <2>2. 1 \in 1..n
    OBVIOUS
  <2>. HIDE DEF a, e, f
  <2>. QED
    BY <1>3, <1>4, <2>1, <2>2 DEF First
<1>15. \A m \in Nat : /\ Lags(gm, d, p, 0) => Lags(gm, d, q, 0)
                      /\ Lags(gm, d, q, m) => /\ m + 1 \in 1..Len(b) /\ b[m + 1] = Head(a)
                                              /\ Lags(gm2, d, q, m + 1)
  <2>. SUFFICES ASSUME NEW m \in Nat
                PROVE  /\ Lags(gm, d, p, 0) => Lags(gm, d, Other(p), 0)
                       /\ Lags(gm, d, Other(p), m) =>
                            /\ m + 1 \in 1..Len(Left(gm[Other(p)], d[Other(p)]))
                            /\ Left(gm[Other(p)], d[Other(p)])[m + 1] = Head(Left(gm[p], d[p]))
                            /\ Lags(gm2, d, Other(p), m + 1)
    OBVIOUS
  <2>. QED
    BY FrameLags
<1>7. Lags(gm, d, q, n)
  BY <1>1, <1>5, <1>6, <1>15
<1>8. /\ n + 1 \in 1..Len(b) /\ b[n + 1] = Head(a) /\ Lags(gm2, d, q, n + 1)
  BY <1>7, <1>15
<1>9. f = e \cup First(b, n)
  BY <1>1, <1>7 DEF Lags, Lag
<1>10. /\ gm[p].is_player_turn \/ gm[q].is_player_turn
       /\ ~(gm[p].is_player_turn /\ gm[q].is_player_turn)
  <2>1. b # <<>>
    <3>1. Len(<<>>) = 0
      OBVIOUS
    <3>. HIDE DEF b
    <3>. QED
      BY <1>8, <3>1
  <2>. QED
    BY <1>1, <1>2, <2>1, OneAtTurn DEF MotionInv
<1>11. /\ ClaimsGame(gm[p]) <=> WillClaim(gm[p], p, {})
       /\ f \cup {} = f
  BY <1>4, WillClaimNow
<1>12. ClaimsGame(gm[p]) <=> ~WillClaim(gm[q], q, First(b, n))
  <2>. HIDE DEF b, e
  <2>1. WillClaim(gm[p], p, {})
          <=> IF gm[p].is_player_turn THEN Cardinality(f \cap BallsOf(p)) = BallsPerPlayer
                                      ELSE Cardinality(f \cap BallsOf(q)) # BallsPerPlayer
    BY <1>11 DEF WillClaim
  <2>2. WillClaim(gm[q], q, First(b, n))
          <=> IF gm[q].is_player_turn THEN Cardinality(f \cap BallsOf(q)) = BallsPerPlayer
                                      ELSE Cardinality(f \cap BallsOf(p)) # BallsPerPlayer
    BY <1>1, <1>9 DEF WillClaim, e
  <2>. QED
    BY <1>10, <1>11, <2>1, <2>2
<1>13. n + 1 \in Nat \ {0} /\ (n + 1) - 1 = n
  OBVIOUS
<1>14. /\ Lags(gm2, d, q, n + 1) /\ Black \in b[n + 1]
       /\ Black \notin e \cup First(b, (n + 1) - 1)
       /\ gm2[p].has_win <=> ~WillClaim(gm[q], q, First(b, (n + 1) - 1))
  BY <1>3, <1>8, <1>9, <1>12, <1>13
<1>. QED
  BY <1>1, <1>13, <1>14 DEF ToJudge

-----------------------------------------------------------------------------
(* The steps and the verdicts.                                               *)

LEMMA BothJudged ==
  ASSUME NEW p \in Player, NEW gm, NEW d, NEW o,
         gm[p].is_game_finished /\ gm[Other(p)].is_game_finished
           => (gm[p].has_win <=> ~gm[Other(p)].has_win),
         ~gm[p].is_game_finished /\ gm[Other(p)].is_game_finished
           => ToJudge(gm, d, p) \/ (~o[p] /\ gm[Other(p)].has_win),
         ~gm[Other(p)].is_game_finished /\ gm[p].is_game_finished
           => ToJudge(gm, d, Other(p)) \/ (~o[Other(p)] /\ gm[p].has_win)
  PROVE  Judged(gm, d, o)
<1>1. \A r \in Player : /\ r = p \/ r = Other(p)
                        /\ Other(Other(p)) = p
  BY TwoPlayers
<1>2. (\A r \in Player : gm[r].is_game_finished) => (gm[0].has_win <=> ~gm[1].has_win)
  BY DEF Player, Other
<1>3. \A r \in Player : ~gm[r].is_game_finished /\ gm[Other(r)].is_game_finished
        => ToJudge(gm, d, r) \/ (~o[r] /\ gm[Other(r)].has_win)
  BY <1>1
<1>. QED
  BY <1>2, <1>3 DEF Judged

LEMMA JudgedBoth ==
  ASSUME NEW p \in Player, NEW gm, NEW d, NEW o, Judged(gm, d, o)
  PROVE  /\ gm[p].is_game_finished /\ gm[Other(p)].is_game_finished
              => (gm[p].has_win <=> ~gm[Other(p)].has_win)
         /\ ~gm[p].is_game_finished /\ gm[Other(p)].is_game_finished
              => ToJudge(gm, d, p) \/ (~o[p] /\ gm[Other(p)].has_win)
         /\ ~gm[Other(p)].is_game_finished /\ gm[p].is_game_finished
              => ToJudge(gm, d, Other(p)) \/ (~o[Other(p)] /\ gm[p].has_win)
<1>1. /\ Other(p) \in Player /\ Other(Other(p)) = p
      /\ \A r \in Player : r = p \/ r = Other(p)
  BY TwoPlayers
<1>2. gm[p].is_game_finished /\ gm[Other(p)].is_game_finished
        => (gm[p].has_win <=> ~gm[Other(p)].has_win)
  BY DEF Judged, Player, Other
<1>. QED
  BY <1>1, <1>2 DEF Judged

LEMMA TakesVerdicts ==
  ASSUME TypeOK, TurnInv, LagInv(game, down), NEW p \in Player, open[p], NEW g \in Game,
         Takes(p, g), TakesVerdict(p, g), NEW gm, Taken(p, g, gm),
         VerdictInv(game, up, down, open, lobby_open)
  PROVE  VerdictInv(gm, up, down', open, lobby_open)
<1>. DEFINE q == Other(p)
<1>1. /\ q \in Player /\ q # p /\ Other(q) = p /\ \A r \in Player : r = p \/ r = q
  BY TwoPlayers
<1>2. gm[p] = g /\ gm[q] = game[q] /\ down'[q] = down[q]
  BY DEF Taken
<1>3. \A type : In(down'[p], type) => In(down[p], type)
  BY DEF TakesVerdict
<1>4. /\ ToldOf(p, game, up, down, open, lobby_open)
      /\ ToldOf(q, game, up, down, open, lobby_open)
      /\ Judged(game, down, open)
  BY <1>1 DEF VerdictInv
<1>5. ASSUME g.is_game_finished <=> game[p].is_game_finished, g.has_win <=> game[p].has_win
      PROVE  VerdictInv(gm, up, down', open, lobby_open)
  <2>1. \A r \in Player : /\ Left(gm[r], down'[r]) = Left(game[r], down[r])
                          /\ gm[r].fallen = game[r].fallen
    BY TakesLag
  <2>2. game \in [Player -> Game] /\ down \in [Player -> Seq(Packets)]
    BY DEF TypeOK
  <2>3. ToJudge(game, down, p) => ToJudge(gm, down', p)
    BY <1>1, <1>2, <2>1, <2>2, SameJudge DEF Takes
  <2>4. ToJudge(game, down, q) => ToJudge(gm, down', q)
    BY <1>1, <1>2, <1>5, <2>1, <2>2, SameJudge
  <2>5. Judged(gm, down', open)
    BY <1>2, <1>4, <1>5, <2>3, <2>4, JudgedBoth, BothJudged
  <2>6. ToldOf(p, gm, up, down', open, lobby_open)
    BY <1>2, <1>3, <1>4, <1>5 DEF ToldOf
  <2>7. ToldOf(q, gm, up, down', open, lobby_open)
    BY <1>1, <1>2, <1>4, <1>5 DEF ToldOf
  <2>. QED
    BY <1>1, <2>5, <2>6, <2>7 DEF VerdictInv
<1>6. ASSUME g.is_game_finished, ~game[p].is_game_finished,
             g.has_win, In(down[p], "won")
      PROVE  VerdictInv(gm, up, down', open, lobby_open)
  <2>1. ~open[q] /\ ~game[q].has_win /\ ~lobby_open /\ ~In(up[p], "endGame")
    BY <1>4, <1>6 DEF ToldOf
  <2>2. ~In(down[q], "lost")
    BY <1>1, <1>4, <1>6 DEF ToldOf
  <2>3. Judged(gm, down', open)
    BY <1>2, <1>6, <2>1, BothJudged
  <2>4. ToldOf(p, gm, up, down', open, lobby_open)
    BY <1>2, <1>3, <1>4, <1>6, <2>1 DEF ToldOf
  <2>5. ToldOf(q, gm, up, down', open, lobby_open)
    BY <1>1, <1>2, <1>4, <2>1, <2>2 DEF ToldOf
  <2>. QED
    BY <1>1, <2>3, <2>4, <2>5 DEF VerdictInv
<1>7. ASSUME g.is_game_finished, ~game[p].is_game_finished,
             ~g.has_win, In(down[p], "lost")
      PROVE  VerdictInv(gm, up, down', open, lobby_open)
  <2>1. /\ game[q].is_game_finished /\ game[q].has_win
        /\ ~lobby_open /\ ~In(up[p], "endGame")
    BY <1>4, <1>7 DEF ToldOf
  <2>2. ~In(down[q], "lost") /\ ~In(down[p], "won")
    BY <1>1, <1>4, <1>7, <2>1 DEF ToldOf
  <2>3. Judged(gm, down', open)
    BY <1>2, <1>7, <2>1, BothJudged
  <2>4. ToldOf(p, gm, up, down', open, lobby_open)
    BY <1>2, <1>3, <1>4, <1>7, <2>1, <2>2 DEF ToldOf
  <2>5. ToldOf(q, gm, up, down', open, lobby_open)
    BY <1>1, <1>2, <1>4, <2>1, <2>2 DEF ToldOf
  <2>. QED
    BY <1>1, <2>3, <2>4, <2>5 DEF VerdictInv
<1>. QED
  BY <1>5, <1>6, <1>7 DEF TakesVerdict

LEMMA ClaimsAppended ==
  ASSUME NEW s \in Seq(Packets), NEW t \in Seq(Packets), ~In(s, "closed"), ~In(t, "closed"),
         In(t, "endGame")
  PROVE  ClaimsFirst(s \o t)
<1>1. In(s \o t, "endGame") /\ ~In(s \o t, "closed")
  BY InConcat
<1>2. PICK n \in DOMAIN (s \o t) : (s \o t)[n] = Signal("endGame")
  BY <1>1 DEF In
<1>3. DOMAIN (s \o t) = 1..Len(s \o t) /\ Len(s \o t) \in Nat
  BY ConcatProperties, LenProperties
<1>4. \A m \in 1..n : m \in DOMAIN (s \o t)
  BY <1>3
<1>. QED
  BY <1>1, <1>2, <1>4 DEF In, ClaimsFirst

LEMMA FrameVerdicts ==
  ASSUME TypeOK, NEW p \in Player, open[p], NEW g \in Game, Update(p, g),
         NEW gm \in [Player -> Game], Taken(p, g, gm), down' \in [Player -> Seq(Packets)],
         MotionInv(gm, up, down'), LagInv(gm, down'),
         VerdictInv(gm, up, down', open, lobby_open)
  PROVE  VerdictInv(game', up', down', open, lobby_open)
<1>. DEFINE q == Other(p)
<1>1. /\ q \in Player /\ q # p /\ Other(q) = p /\ \A r \in Player : r = p \/ r = q
  BY TwoPlayers
<1>2. /\ game'[q] = game[q] /\ up'[q] = up[q]
      /\ \/ Still(p, g)
         \/ \E mouse \in Mouse, roll \in Rolls : Frame(p, g, UpdateGame(g, mouse, p), roll)
  BY UpdateCases
<1>3. gm[p] = g /\ gm[q] = game[q]
  BY DEF Taken
<1>4. /\ ToldOf(p, gm, up, down', open, lobby_open)
      /\ ToldOf(q, gm, up, down', open, lobby_open)
      /\ Judged(gm, down', open)
  BY <1>1 DEF VerdictInv
<1>5. ASSUME Still(p, g) PROVE VerdictInv(game', up', down', open, lobby_open)
  <2>1. game'[p] = gm[p] /\ game'[q] = gm[q] /\ up'[p] = up[p]
    BY <1>2, <1>3, <1>5 DEF Still
  <2>2. \A r \in Player : Left(game'[r], down'[r]) = Left(gm[r], down'[r])
                          /\ game'[r].fallen = gm[r].fallen
    BY <1>1, <2>1
  <2>3. \A r \in Player : ToJudge(gm, down', r) => ToJudge(game', down', r)
    BY <1>1, <2>1, <2>2, SameJudge
  <2>4. Judged(game', down', open)
    BY <1>1, <1>4, <2>1, <2>3, JudgedBoth, BothJudged
  <2>5. /\ ToldOf(p, game', up', down', open, lobby_open)
        /\ ToldOf(q, game', up', down', open, lobby_open)
    BY <1>1, <1>2, <1>4, <2>1 DEF ToldOf
  <2>. QED
    BY <1>1, <2>4, <2>5 DEF VerdictInv
<1>6. ASSUME NEW mouse \in Mouse, NEW roll \in Rolls, NEW frame,
             frame = UpdateGame(g, mouse, p), Frame(p, g, frame, roll)
      PROVE  VerdictInv(game', up', down', open, lobby_open)
  <2>1. TableAfter(g, frame) /\ TurnAfter(g, mouse, frame)
    BY <1>6, UpdateGameFacts
  <2>2. /\ game'[p] = frame.game /\ ~g.is_game_finished
        /\ up'[p] = up[p] \o Sent(frame, roll) /\ up[p] \in Seq(Packets)
        /\ game'[q] = gm[q]
    BY <1>2, <1>3, <1>6 DEF Frame, TypeOK
  <2>3. /\ ~g.has_win
        /\ g.score = Cardinality(g.fallen \cap BallsOf(p))
        /\ g.opponent_score = Cardinality(g.fallen \cap BallsOf(q))
    BY <1>3, <2>2 DEF LagInv
  <2>4. /\ frame.game.is_game_finished <=> Falls(g, Black)
        /\ frame.game.has_win <=> Falls(g, Black) /\ ClaimsGame(g)
        /\ frame.claims <=> Falls(g, Black) /\ ClaimsGame(g)
    <3>1. /\ frame.game.is_game_finished = (g.is_game_finished \/ Falls(g, Black))
          /\ frame.game.has_win = (g.has_win \/ (Falls(g, Black) /\ ClaimsGame(g)))
      BY <2>1, WorldUpdateFacts DEF TableAfter
    <3>. QED
      BY <2>1, <2>2, <2>3, <3>1 DEF TableAfter
  <2>5. /\ Sent(frame, roll) \in Seq(Packets)
        /\ In(Sent(frame, roll), "endGame") <=> frame.claims
        /\ ~In(Sent(frame, roll), "closed")
    BY PacketsOfSent, TurnsInSent
  <2>6. /\ ~In(up[p], "endGame") /\ ~In(up[p], "closed")
        /\ In(up'[p], "endGame") <=> frame.claims
        /\ ~In(up'[p], "closed")
    <3>1. ~In(up[p], "endGame") /\ ~In(up[p], "closed")
      BY <1>3, <1>4, <2>2 DEF ToldOf
    <3>. QED
      BY <2>2, <2>5, <3>1, InConcat
  <2>7. frame.claims => ClaimsFirst(up'[p])
    BY <2>2, <2>5, <2>6, ClaimsAppended
  <2>8. ToldOf(p, game', up', down', open, lobby_open)
    <3>1. In(down'[p], "won") => ~open[q] /\ ~gm[q].has_win
      BY <1>3, <1>4, <2>2 DEF ToldOf
    <3>2. In(down'[p], "lost") => gm[q].is_game_finished /\ gm[q].has_win
      BY <1>4 DEF ToldOf
    <3>3. In(down'[p], "won") \/ In(down'[p], "lost") => ~lobby_open
      BY <1>4 DEF ToldOf
    <3>4. frame.claims <=> frame.game.has_win
      BY <2>4
    <3>5. frame.claims => frame.game.is_game_finished
      BY <2>4
    <3>. QED
      BY <2>2, <2>6, <2>7, <3>1, <3>2, <3>3, <3>4, <3>5 DEF ToldOf
  <2>9. ToldOf(q, game', up', down', open, lobby_open)
    <3>1. ~In(down'[q], "lost")
      BY <1>1, <1>3, <1>4, <2>2 DEF ToldOf
    <3>2. In(down'[q], "won") => gm[q].is_game_finished /\ gm[q].has_win
      BY <1>1, <1>4 DEF ToldOf
    <3>. QED
      BY <1>1, <1>2, <1>4, <2>2, <3>1, <3>2 DEF ToldOf
  <2>10. ShotIn(down'[p]) => g.rolling = <<>>
    BY <1>3 DEF MotionInv, MotionOf
  <2>11. ~gm[p].is_game_finished /\ gm[q].is_game_finished => ToJudge(gm, down', p)
    BY <1>4, JudgedBoth
  <2>12. ASSUME ~MustUpdatePhysics(g) PROVE Judged(game', down', open)
    <3>1. ~Falls(g, Black)
      BY <2>12 DEF Falls
    <3>2. Left(frame.game, down'[p]) = Left(g, down'[p]) /\ frame.game.fallen = g.fallen
      BY <2>1, <2>10, <2>12, FrameLeft
    <3>3. \A r \in Player : /\ Left(game'[r], down'[r]) = Left(gm[r], down'[r])
                            /\ game'[r].fallen = gm[r].fallen
      BY <1>1, <1>3, <2>2, <3>2
    <3>4. game'[p].is_player_turn <=> gm[p].is_player_turn
      BY <1>3, <2>1, <2>2, <2>12 DEF TurnAfter
    <3>5. ToJudge(gm, down', p) => ToJudge(game', down', p)
      BY <2>2, <3>3, <3>4, SameJudge
    <3>6. ~game'[p].is_game_finished
      BY <2>2, <2>4, <3>1
    <3>. QED
      BY <1>3, <2>2, <2>11, <3>5, <3>6, BothJudged
  <2>13. ASSUME MustUpdatePhysics(g) PROVE Judged(game', down', open)
    <3>1. /\ Left(gm[p], down'[p]) = g.rolling /\ Left(gm[p], down'[p]) # <<>>
          /\ Left(game'[p], down'[p]) = Tail(Left(gm[p], down'[p]))
          /\ game'[p].fallen = gm[p].fallen \cup Head(Left(gm[p], down'[p]))
          /\ frame.game.rolling = <<>> => Left(game'[p], down'[p]) = <<>>
      BY <1>3, <2>1, <2>2, <2>10, <2>13, FrameLeft
    <3>2. Falls(g, Black) <=> Black \in Head(Left(gm[p], down'[p])) \ gm[p].fallen
      BY <1>3, <2>13, <3>1 DEF Falls
    <3>3. \/ game'[p].is_player_turn <=> gm[p].is_player_turn
          \/ Left(game'[p], down'[p]) = <<>>
      BY <1>3, <2>1, <2>2, <3>1 DEF TurnAfter
    <3>4. ASSUME ~Falls(g, Black) PROVE Judged(game', down', open)
      <4>1. ToJudge(gm, down', p) => ToJudge(game', down', p)
        BY <2>2, <3>1, <3>2, <3>3, <3>4, JudgesLater
      <4>2. ~game'[p].is_game_finished
        BY <2>2, <2>4, <3>4
      <4>. QED
        BY <1>3, <2>2, <2>11, <4>1, <4>2, BothJudged
    <3>5. ASSUME Falls(g, Black), gm[q].is_game_finished PROVE Judged(game', down', open)
      <4>1. ToJudge(gm, down', p)
        BY <1>3, <2>2, <2>11, <3>5
      <4>2. ClaimsGame(gm[p]) <=> ~gm[q].has_win
        BY <1>3, <2>3, <3>1, <3>2, <3>5, <4>1, JudgesNow
      <4>3. game'[p].is_game_finished /\ (game'[p].has_win <=> ~gm[q].has_win)
        BY <1>3, <2>2, <2>4, <3>5, <4>2
      <4>. QED
        BY <2>2, <3>5, <4>3, BothJudged
    <3>6. ASSUME Falls(g, Black), ~gm[q].is_game_finished PROVE Judged(game', down', open)
      <4>1. game'[p].is_game_finished /\ (game'[p].has_win <=> ClaimsGame(gm[p]))
        BY <1>3, <2>2, <2>4, <3>6
      <4>2. ToJudge(game', down', q)
        BY <1>3, <2>2, <3>1, <3>2, <3>6, <4>1, JudgesFirst
      <4>. QED
        BY <2>2, <3>6, <4>1, <4>2, BothJudged
    <3>. QED
      BY <3>4, <3>5, <3>6
  <2>. QED
    BY <1>1, <2>8, <2>9, <2>12, <2>13 DEF VerdictInv
<1>. QED
  BY <1>2, <1>5, <1>6

LEMMA CloseVerdicts ==
  ASSUME TypeOK, NEW p \in Player, CloseWindow(p),
         VerdictInv(game, up, down, open, lobby_open)
  PROVE  VerdictInv(game', up', down', open', lobby_open')
<1>. DEFINE q == Other(p)
            s == <<Signal("closed")>>
<1>1. /\ q \in Player /\ q # p /\ Other(q) = p /\ \A r \in Player : r = p \/ r = q
  BY TwoPlayers
<1>2. /\ UNCHANGED <<game, down, lobby_open>> /\ ~open'[p] /\ open'[q] = open[q]
      /\ up'[p] = Append(up[p], Signal("closed")) /\ up'[q] = up[q]
      /\ \A r \in Player : up[r] \in Seq(Packets)
  BY <1>1 DEF CloseWindow, TypeOK
<1>3. up'[p] = up[p] \o s /\ s \in Seq(Packets) /\ up[p] \in Seq(Packets)
  BY <1>2, PacketTypes, AppendIsConcat
<1>4. ~In(s, "endGame")
  BY InOne DEF Signal
<1>. HIDE DEF s
<1>5. In(up'[p], "endGame") => In(up[p], "endGame")
  BY <1>3, <1>4, InConcat
<1>6. ClaimsFirst(up[p]) => ClaimsFirst(up'[p])
  <2>1. /\ Len(up[p]) \in Nat /\ Len(s) \in Nat /\ DOMAIN up[p] = 1..Len(up[p])
        /\ DOMAIN up'[p] = 1..(Len(up[p]) + Len(s))
        /\ \A n \in 1..Len(up[p]) : up'[p][n] = up[p][n]
    BY <1>3, ConcatProperties, LenProperties
  <2>2. ASSUME NEW n \in DOMAIN up[p], up[p][n] = Signal("endGame"),
               \A m \in 1..n : up[p][m] # Signal("closed")
        PROVE  ClaimsFirst(up'[p])
    <3>1. n \in DOMAIN up'[p] /\ \A m \in 1..n : m \in 1..Len(up[p])
      BY <2>1
    <3>2. up'[p][n] = Signal("endGame") /\ \A m \in 1..n : up'[p][m] # Signal("closed")
      BY <2>1, <2>2, <3>1
    <3>. QED
      BY <3>1, <3>2 DEF ClaimsFirst
  <2>. QED
    BY <2>2 DEF ClaimsFirst
<1>7. /\ ToldOf(p, game, up, down, open, lobby_open)
      /\ ToldOf(q, game, up, down, open, lobby_open)
      /\ Judged(game, down, open)
  BY <1>1 DEF VerdictInv
<1>8. ToldOf(p, game', up', down', open', lobby_open')
  BY <1>2, <1>5, <1>6, <1>7 DEF ToldOf
<1>9. ToldOf(q, game', up', down', open', lobby_open')
  BY <1>1, <1>2, <1>7 DEF ToldOf
<1>10. Judged(game', down', open')
  BY <1>2, <1>7, JudgedBoth, BothJudged
<1>. QED
  BY <1>1, <1>8, <1>9, <1>10 DEF VerdictInv

LEMMA ClaimsFirstTail ==
  ASSUME NEW queue \in Seq(Packets), queue # <<>>, ClaimsFirst(queue)
  PROVE  /\ Head(queue) # Signal("closed")
         /\ Head(queue) # Signal("endGame") => ClaimsFirst(Tail(queue))
<1>1. /\ Len(queue) \in Nat \ {0} /\ DOMAIN queue = 1..Len(queue)
      /\ DOMAIN Tail(queue) = 1..(Len(queue) - 1)
      /\ \A n \in 1..(Len(queue) - 1) : Tail(queue)[n] = queue[n + 1]
      /\ Head(queue) = queue[1]
  BY HeadTailProperties, LenProperties, EmptySeq
<1>2. PICK n \in DOMAIN queue : /\ queue[n] = Signal("endGame")
                                /\ \A m \in 1..n : queue[m] # Signal("closed")
  BY DEF ClaimsFirst
<1>3. Head(queue) # Signal("closed")
  <2>1. 1 \in 1..n
    BY <1>1
  <2>. QED
    BY <1>1, <1>2, <2>1
<1>4. ASSUME Head(queue) # Signal("endGame") PROVE ClaimsFirst(Tail(queue))
  <2>1. n # 1
    BY <1>1, <1>2, <1>4
  <2>2. n - 1 \in DOMAIN Tail(queue) /\ Tail(queue)[n - 1] = queue[n]
    BY <1>1, <2>1
  <2>3. \A m \in 1..(n - 1) : m + 1 \in 1..n /\ Tail(queue)[m] = queue[m + 1]
    BY <1>1, <2>1
  <2>. QED
    BY <1>2, <2>2, <2>3 DEF ClaimsFirst
<1>. QED
  BY <1>3, <1>4

LEMMA ServeJudged ==
  ASSUME TypeOK, NEW p \in Player, Serve(p), SameLeft \/ NewLeft, Judged(game, down, open)
  PROVE  Judged(game', down', open)
<1>1. game' = game /\ game \in [Player -> Game] /\ down \in [Player -> Seq(Packets)]
  BY ServeCases DEF TypeOK
<1>2. ASSUME NEW r \in Player, ToJudge(game, down, r) PROVE ToJudge(game', down', r)
  <2>1. CASE SameLeft
    BY <1>1, <1>2, <2>1, SameJudge DEF SameLeft
  <2>2. CASE NewLeft
    BY <1>1, <1>2, <2>2, ToJudgeHasLeft DEF NewLeft, Quiet
  <2>. QED
    BY <2>1, <2>2
<1>3. Other(p) \in Player
  BY TwoPlayers
<1>. QED
  BY <1>1, <1>2, <1>3, JudgedBoth, BothJudged

LEMMA ServeVerdicts ==
  ASSUME TypeOK, NEW p \in Player, Serve(p), SameLeft \/ NewLeft,
         VerdictInv(game, up, down, open, lobby_open)
  PROVE  VerdictInv(game', up', down', open', lobby_open')
<1>. DEFINE q == Other(p)
            packet == Head(up[p])
<1>1. /\ q \in Player /\ q # p /\ Other(q) = p /\ \A r \in Player : r = p \/ r = q
  BY TwoPlayers
<1>2. /\ game' = game /\ open' = open /\ up[p] # <<>> /\ up' = [up EXCEPT ![p] = Tail(@)]
      /\ lobby_open' = (lobby_open /\ packet.type \notin {"endGame", "closed"})
      /\ \/ ~lobby_open /\ UNCHANGED down
         \/ /\ lobby_open
            /\ \E toSender, toOther \in Seq(Packets) :
                 /\ Relayed(packet, toSender, toOther)
                 /\ down'[p] = down[p] \o toSender /\ down'[q] = down[q] \o toOther
  BY ServeCases
<1>3. /\ up'[p] = Tail(up[p]) /\ up'[q] = up[q] /\ packet \in Packets
      /\ \A r \in Player : up[r] \in Seq(Packets) /\ down[r] \in Seq(Packets)
  BY <1>1, <1>2, HeadOfPackets DEF TypeOK
<1>4. /\ ToldOf(p, game, up, down, open, lobby_open)
      /\ ToldOf(q, game, up, down, open, lobby_open)
  BY <1>1 DEF VerdictInv
<1>5. /\ \A type : In(up'[p], type) => In(up[p], type)
      /\ \A type : packet = Signal(type) => In(up[p], type)
  BY <1>2, <1>3, InTail
<1>6. /\ lobby_open' => lobby_open /\ packet # Signal("endGame") /\ packet # Signal("closed")
      /\ \A type : packet = Signal(type) /\ type \in {"endGame", "closed"} => ~lobby_open'
  BY <1>2, SignalOrShot
<1>7. /\ lobby_open' /\ game[p].has_win => ClaimsFirst(up'[p])
      /\ lobby_open /\ packet = Signal("closed") => ~game[p].has_win
  BY <1>2, <1>3, <1>4, <1>6, ClaimsFirstTail DEF ToldOf
<1>8. Judged(game', down', open')
  BY <1>2, ServeJudged DEF VerdictInv
(* The clients are told no more than before.                                 *)
<1>9. ASSUME \A type \in {"won", "lost"}, r \in Player :
               In(down'[r], type) => In(down[r], type)
      PROVE  VerdictInv(game', up', down', open', lobby_open')
  <2>1. ToldOf(p, game', up', down', open', lobby_open')
    BY <1>2, <1>4, <1>5, <1>6, <1>7, <1>9 DEF ToldOf
  <2>2. ToldOf(q, game', up', down', open', lobby_open')
    BY <1>1, <1>2, <1>3, <1>4, <1>6, <1>9 DEF ToldOf
  <2>. QED
    BY <1>1, <1>8, <2>1, <2>2 DEF VerdictInv
<1>10. ASSUME ~lobby_open, UNCHANGED down
       PROVE  VerdictInv(game', up', down', open', lobby_open')
  BY <1>9, <1>10
<1>11. ASSUME lobby_open, NEW toSender \in Seq(Packets), NEW toOther \in Seq(Packets),
              Relayed(packet, toSender, toOther),
              down'[p] = down[p] \o toSender, down'[q] = down[q] \o toOther
       PROVE  VerdictInv(game', up', down', open', lobby_open')
  <2>1. \A type : /\ In(down'[p], type) <=> In(down[p], type) \/ In(toSender, type)
                  /\ In(down'[q], type) <=> In(down[q], type) \/ In(toOther, type)
    BY <1>1, <1>3, <1>11, InConcat
  <2>2. \A packet1, type : ~In(<<>>, type) /\ (In(<<packet1>>, type) <=> packet1 = Signal(type))
    BY InOne
  <2>3. \A s, t : Signal(s) = Signal(t) => s = t
    BY DEF Signal
  <2>4. CASE (packet = Signal("newTurn") \/ packet \in Shots)
               /\ toSender \in {<<>>, <<packet>>} /\ toOther = <<packet>>
    <3>1. \A type \in {"won", "lost"} : packet # Signal(type)
      <4>1. \A type : Signal(type) \notin Shots
        BY DEF Signal, Shots
      <4>. QED
        BY <2>3, <2>4, <4>1
    <3>2. \A type \in {"won", "lost"} : ~In(toSender, type) /\ ~In(toOther, type)
      BY <2>2, <2>4, <3>1
    <3>. QED
      BY <1>1, <1>9, <2>1, <3>2
  <2>5. CASE /\ packet = Signal("endGame")
             /\ toSender = <<Signal("won")>> /\ toOther = <<Signal("lost")>>
    <3>1. game[p].is_game_finished /\ game[p].has_win /\ ~lobby_open'
      BY <1>4, <1>5, <1>6, <2>5 DEF ToldOf
    <3>2. /\ ~In(toSender, "lost") /\ ~In(toOther, "won")
      BY <2>2, <2>3, <2>5
    <3>3. ToldOf(p, game', up', down', open', lobby_open')
      BY <1>2, <1>4, <1>5, <2>1, <3>1, <3>2 DEF ToldOf
    <3>4. ToldOf(q, game', up', down', open', lobby_open')
      BY <1>1, <1>2, <1>3, <1>4, <2>1, <3>1, <3>2 DEF ToldOf
    <3>. QED
      BY <1>1, <1>8, <3>3, <3>4 DEF VerdictInv
  <2>6. CASE packet = Signal("closed") /\ toSender = <<>> /\ toOther = <<Signal("won")>>
    <3>1. ~game[p].has_win /\ ~open[p] /\ ~lobby_open'
      BY <1>4, <1>5, <1>6, <1>7, <1>11, <2>6 DEF ToldOf
    <3>2. /\ ~In(toSender, "lost") /\ ~In(toSender, "won") /\ ~In(toOther, "lost")
      BY <2>2, <2>3, <2>6
    <3>3. ToldOf(p, game', up', down', open', lobby_open')
      BY <1>2, <1>4, <1>5, <2>1, <3>1, <3>2 DEF ToldOf
    <3>4. ToldOf(q, game', up', down', open', lobby_open')
      BY <1>1, <1>2, <1>3, <1>4, <2>1, <3>1, <3>2 DEF ToldOf
    <3>. QED
      BY <1>1, <1>8, <3>3, <3>4 DEF VerdictInv
  <2>. QED
    BY <1>11, <2>4, <2>5, <2>6 DEF Relayed
<1>. QED
  BY <1>2, <1>10, <1>11

-----------------------------------------------------------------------------
(* The invariant, and the theorem.                                           *)

LEMMA FrameFair ==
  ASSUME TypeOK, TurnInv, NEW p \in Player, NEW g \in Game, Update(p, g),
         Takes(p, g), TakesVerdict(p, g), open[p], UNCHANGED <<open, lobby_open>>,
         down' \in [Player -> Seq(Packets)], down'[Other(p)] = down[Other(p)],
         MotionInv(game, up, down), LagInv(game, down),
         VerdictInv(game, up, down, open, lobby_open)
  PROVE  /\ MotionInv(game', up', down') /\ LagInv(game', down')
         /\ VerdictInv(game', up', down', open', lobby_open')
<1>. DEFINE gm == [game EXCEPT ![p] = g]
<1>1. Taken(p, g, gm) /\ gm \in [Player -> Game]
  BY TwoPlayers DEF Taken, TypeOK
<1>. HIDE DEF gm
<1>2. MotionInv(gm, up, down')
  BY <1>1, TakesMotion
<1>3. LagInv(gm, down')
  BY <1>1, TakesLag
<1>4. VerdictInv(gm, up, down', open, lobby_open)
  BY <1>1, TakesVerdicts
<1>5. MotionInv(game', up', down')
  BY <1>1, <1>2, FrameMotion
<1>6. LagInv(game', down')
  BY <1>1, <1>2, <1>3, FrameLag
<1>7. VerdictInv(game', up', down', open, lobby_open)
  BY <1>1, <1>2, <1>3, <1>4, FrameVerdicts
<1>. QED
  BY <1>5, <1>6, <1>7

LEMMA FairInit == Init => FairInv /\ NoVerdictOutside
<1>. SUFFICES ASSUME Init
              PROVE  /\ MotionInv(game, up, down) /\ LagInv(game, down)
                     /\ VerdictInv(game, up, down, open, lobby_open) /\ NoVerdictOutside
  BY DEF FairInv
<1>1. ASSUME NEW p \in Player
      PROVE  /\ game[p] = NewGame(p) /\ up[p] = <<>>
             /\ OneShotIn(down[p]) /\ ~ShotIn(down[p]) /\ ShotsFirst(down[p])
             /\ ~In(down[p], "won") /\ ~In(down[p], "lost")
  <2>1. /\ game[p] = NewGame(p) /\ up[p] = <<>>
        /\ \A n \in DOMAIN down[p] : down[p][n] \in {Signal("startGame"), Signal("newTurn")}
    BY DEF Init
  <2>2. /\ Signal("startGame") \notin Shots /\ Signal("newTurn") \notin Shots
        /\ \A type \in {"won", "lost"} :
             Signal("startGame") # Signal(type) /\ Signal("newTurn") # Signal(type)
    BY DEF Signal, Shots
  <2>3. ShotsIn(down[p]) = {}
    BY <2>1, <2>2 DEF ShotsIn
  <2>4. ~In(down[p], "won") /\ ~In(down[p], "lost")
    BY <2>1, <2>2 DEF In
  <2>. QED
    BY <2>1, <2>3, <2>4 DEF ShotIn, OneShotIn, ShotsFirst
<1>2. \A type : ~In(<<>>, type)
  BY InOne
<1>3. /\ ~ShotIn(<<>>) /\ OneShotIn(<<>>) /\ ~TurnIn(<<>>)
  BY ShotsInOne, TurnsInOne
<1>4. ASSUME NEW p \in Player
      PROVE  /\ Left(game[p], down[p]) = <<>> /\ game[p].fallen = {}
             /\ ~game[p].is_player_turn /\ ~game[p].is_game_finished /\ ~game[p].has_win
             /\ game[p].score = 0 /\ game[p].opponent_score = 0
  <2>1. game[p] = NewGame(p) /\ ShotRoll(down[p]) = <<>>
    BY <1>1 DEF ShotRoll
  <2>. QED
    BY <2>1 DEF NewGame, Left
<1>5. Quiet(game, down) /\ 0 \in Player /\ 1 \in Player
  BY <1>4 DEF Quiet, Player
<1>6. MotionInv(game, up, down)
  <2>1. \A p \in Player : MotionOf(p, game, up, down)
    BY <1>1, <1>3, <1>4 DEF MotionOf
  <2>. QED
    BY <1>4, <1>5, <2>1 DEF MotionInv
<1>7. LagInv(game, down)
  <2>1. Lags(game, down, 0, 0)
    <3>1. Lag({}, <<>>, {}, <<>>, 0)
      BY NoLag, EmptySeq DEF Rolls
    <3>2. Other(0) = 1
      BY DEF Other
    <3>. QED
      BY <1>4, <1>5, <3>1, <3>2 DEF Lags
  <2>2. Cardinality({}) = 0
    BY FS_EmptySet
  <2>3. ASSUME NEW p \in Player
        PROVE  /\ ~game[p].has_win /\ Black \notin game[p].fallen
               /\ game[p].score = Cardinality(game[p].fallen \cap BallsOf(p))
               /\ game[p].opponent_score = Cardinality(game[p].fallen \cap BallsOf(Other(p)))
    <3>1. \A S : {} \cap S = {}
      OBVIOUS
    <3>. QED
      BY <1>4, <2>2, <3>1
  <2>. QED
    BY <1>5, <2>1, <2>3 DEF LagInv
<1>8. VerdictInv(game, up, down, open, lobby_open)
  <2>1. Judged(game, down, open)
    BY <1>4, <1>5, TwoPlayers DEF Judged
  <2>2. \A p \in Player : ToldOf(p, game, up, down, open, lobby_open)
    BY <1>1, <1>2, <1>4 DEF ToldOf
  <2>. QED
    BY <2>1, <2>2 DEF VerdictInv
<1>. QED
  BY <1>4, <1>6, <1>7, <1>8 DEF NoVerdictOutside

LEMMA FairNext ==
  TypeOK /\ TypeOK' /\ TurnInv /\ FairInv /\ [Next]_vars => FairInv'
<1>. SUFFICES ASSUME TypeOK, TypeOK', TurnInv, FairInv, [Next]_vars, Fair'
              PROVE  /\ MotionInv(game', up', down') /\ LagInv(game', down')
                     /\ VerdictInv(game', up', down', open', lobby_open')
  BY DEF FairInv
<1>1. /\ MotionInv(game, up, down) /\ LagInv(game, down)
      /\ VerdictInv(game, up, down, open, lobby_open)
  BY FairSteps DEF FairInv
<1>2. down' \in [Player -> Seq(Packets)] /\ game \in [Player -> Game]
  BY DEF TypeOK
<1>3. ASSUME NEW p \in Player, FrameReceive(p)
      PROVE  /\ MotionInv(game', up', down') /\ LagInv(game', down')
             /\ VerdictInv(game', up', down', open', lobby_open')
  <2>1. InGame(p)' /\ ~diverged' /\ ~early' /\ MotionOf(p, game, up, down)
    BY <1>1 DEF Fair, MotionInv
  <2>2. PICK g \in Game : Update(p, g) /\ Takes(p, g) /\ TakesVerdict(p, g)
    BY <1>3, <2>1, ReceiveTakes
  <2>3. /\ open[p] /\ UNCHANGED <<open, lobby_open>> /\ down' = [down EXCEPT ![p] = Tail(@)]
    BY <1>3, ReceiveCases
  <2>4. down'[Other(p)] = down[Other(p)]
    BY <2>3, TwoPlayers DEF TypeOK
  <2>. QED
    BY <1>1, <1>2, <2>2, <2>3, <2>4, FrameFair
<1>4. ASSUME NEW p \in Player, FrameIdle(p)
      PROVE  /\ MotionInv(game', up', down') /\ LagInv(game', down')
             /\ VerdictInv(game', up', down', open', lobby_open')
  <2>1. open[p] /\ Update(p, game[p]) /\ UNCHANGED <<down, open, lobby_open>>
    BY <1>4 DEF FrameIdle
  <2>2. Takes(p, game[p]) /\ TakesVerdict(p, game[p])
    BY <1>1, <2>1, IdleTakes DEF MotionInv
  <2>3. game[p] \in Game
    BY <1>2
  <2>. QED
    BY <1>1, <1>2, <2>1, <2>2, <2>3, FrameFair
<1>5. ASSUME NEW p \in Player, CloseWindow(p)
      PROVE  /\ MotionInv(game', up', down') /\ LagInv(game', down')
             /\ VerdictInv(game', up', down', open', lobby_open')
  <2>1. game' = game /\ down' = down
    BY <1>5 DEF CloseWindow
  <2>. QED
    BY <1>1, <1>5, <2>1, CloseMotion, CloseVerdicts
<1>6. ASSUME NEW p \in Player, Serve(p)
      PROVE  /\ MotionInv(game', up', down') /\ LagInv(game', down')
             /\ VerdictInv(game', up', down', open', lobby_open')
  BY <1>1, <1>6, ServeMotion, ServeLag, ServeVerdicts
<1>7. CASE UNCHANGED vars
  BY <1>1, <1>7 DEF vars
<1>. QED
  BY <1>3, <1>4, <1>5, <1>6, <1>7, FairSteps

LEMMA NoVerdictNext ==
  TypeOK /\ TurnInv /\ NoVerdictOutside /\ [Next]_vars => NoVerdictOutside'
<1>. SUFFICES ASSUME TypeOK, TurnInv, NoVerdictOutside, [Next]_vars
              PROVE  NoVerdictOutside'
  OBVIOUS
<1>1. ASSUME NEW p \in Player, game'[Other(p)] = game[Other(p)],
             ~game'[p].playing => ~game'[p].has_win
      PROVE  NoVerdictOutside'
  BY <1>1, TwoPlayers DEF NoVerdictOutside
<1>2. ASSUME NEW p \in Player, NEW g \in Game, Update(p, g),
             ~g.playing => ~g.has_win
      PROVE  NoVerdictOutside'
  <2>1. game'[p].playing <=> g.playing
    BY <1>2, FrameOfTurn DEF FrameTurns
  <2>2. game'[Other(p)] = game[Other(p)] /\ (~g.playing => game'[p] = g)
    BY <1>2, UpdateCases DEF Still, Frame
  <2>. QED
    BY <1>1, <1>2, <2>1, <2>2
<1>3. ASSUME NEW p \in Player, FrameReceive(p) PROVE NoVerdictOutside'
  <2>1. PICK g \in Game : Update(p, g) /\ Handled(p, Head(down[p]), g)
    BY <1>3, ReceiveCases
  <2>2. down[p] # <<>>
    BY <1>3, ReceiveCases
  <2>3. g.playing = (game[p].playing \/ Head(down[p]) = Signal("startGame"))
    BY <2>1, <2>2, HandledTurn
  <2>4. ~g.playing => g = game[p]
    BY <2>1, <2>3 DEF Handled
  <2>. QED
    BY <1>2, <2>1, <2>4 DEF NoVerdictOutside
<1>4. ASSUME NEW p \in Player, FrameIdle(p) PROVE NoVerdictOutside'
  BY <1>2, <1>4 DEF FrameIdle, TypeOK, NoVerdictOutside
<1>5. ASSUME NEW p \in Player, PressW(p) PROVE NoVerdictOutside'
  <2>1. /\ game[p] \in Game /\ game[p].playing
        /\ game' = [game EXCEPT ![p] = AfterW(game[p], BallOfW(game[p]))]
    BY <1>5 DEF PressW, TypeOK
  <2>2. game'[p].playing /\ game'[Other(p)] = game[Other(p)]
    BY <2>1, TwoPlayers DEF AfterW, TypeOK, Game
  <2>. QED
    BY <1>1, <2>2
<1>6. ASSUME NEW p \in Player, LeaveGame(p) PROVE NoVerdictOutside'
  <2>1. game' = [game EXCEPT ![p] = Deinit(game[p])] /\ game[p] \in Game
    BY <1>6 DEF LeaveGame, TypeOK
  <2>2. ~game'[p].has_win /\ game'[Other(p)] = game[Other(p)]
    BY <2>1, TwoPlayers DEF Deinit, TypeOK, Game
  <2>. QED
    BY <1>1, <2>2
<1>7. ASSUME NEW p \in Player, CloseWindow(p) \/ Serve(p) PROVE NoVerdictOutside'
  BY <1>7, ServeCases DEF CloseWindow, NoVerdictOutside
<1>8. CASE UNCHANGED vars
  BY <1>8 DEF vars, NoVerdictOutside
<1>. QED
  BY <1>3, <1>4, <1>5, <1>6, <1>7, <1>8 DEF Next

LEMMA FairInvariant == Spec => [](FairInv /\ NoVerdictOutside)
<1>1. TypeOK /\ TypeOK' /\ TurnInv /\ FairInv /\ NoVerdictOutside /\ [Next]_vars
        => FairInv' /\ NoVerdictOutside'
  BY FairNext, NoVerdictNext
<1>. QED
  BY <1>1, FairInit, TypeCorrect, TurnInvariant, PTL DEF Spec

(* Each client judges the black ball on its own.  In a game in which kNewTurn*)
(* never reached a table in motion and nobody cheated, two finished games    *)
(* show one victory and one defeat, and at no time do both claim to have won.*)
THEOREM OneVictory == Spec => []VerdictsAgree
<1>1. ASSUME TypeOK, FairInv, NoVerdictOutside PROVE VerdictsAgree
  <2>. SUFFICES ASSUME ~early, ~diverged
                PROVE  /\ ~(game[0].has_win /\ game[1].has_win)
                       /\ Playing = Player /\ (\A p \in Player : game[p].is_game_finished)
                            => game[0].has_win # game[1].has_win
    BY DEF VerdictsAgree
  <2>1. /\ Player = {0, 1}
        /\ game[0].has_win \in BOOLEAN /\ game[1].has_win \in BOOLEAN
    <3>1. Player = {0, 1}
      BY DEF Player
    <3>2. game[0] \in Game /\ game[1] \in Game
      BY <1>1, <3>1 DEF TypeOK
    <3>. QED
      BY <3>1, <3>2 DEF Game
  <2>2. CASE \A p \in Player : InGame(p)
    <3>1. LagInv(game, down) /\ VerdictInv(game, up, down, open, lobby_open)
      BY <1>1, <2>2 DEF FairInv, Fair
    <3>2. \A p \in Player : game[p].has_win => game[p].is_game_finished
      BY <3>1 DEF LagInv
    <3>3. (\A p \in Player : game[p].is_game_finished) => (game[0].has_win <=> ~game[1].has_win)
      BY <3>1 DEF VerdictInv, Judged
    <3>. QED
      BY <2>1, <3>2, <3>3
  <2>3. CASE ~(\A p \in Player : InGame(p))
    <3>1. PICK p \in Player : ~game[p].playing
      BY <2>3 DEF InGame
    <3>2. ~game[p].has_win /\ Playing # Player
      BY <1>1, <3>1 DEF NoVerdictOutside, Playing
    <3>. QED
      BY <2>1, <3>2
  <2>. QED
    BY <2>2, <2>3
<1>. QED
  BY <1>1, FairInvariant, TypeCorrect, PTL

-----------------------------------------------------------------------------
=============================================================================
