------------------------------ MODULE TurnGame ------------------------------
(* What a game promises of the turn: one player at most holds it, shoots at  *)
(* most once while holding it and then hands it to the other, or the turn is *)
(* gone for good.  Match implements it.                                      *)
EXTENDS Naturals

VARIABLES holder,           \* the player whose turn it is, or Nobody
          played,           \* the holder has shot
          shots             \* the shots so far

vars == <<holder, played, shots>>

Nobody == 2
Opponent == 1 - holder

Init == holder = 0 /\ played = FALSE /\ shots = 0

MayShoot == holder # Nobody /\ ~played

Shoot ==
  /\ MayShoot
  /\ played' = TRUE /\ shots' = shots + 1
  /\ UNCHANGED holder

Pass ==
  /\ holder # Nobody /\ played
  /\ holder' = Opponent /\ played' = FALSE
  /\ UNCHANGED shots

(* The balls of an earlier shot come to rest in the frame of this one.       *)
ShootAndPass ==
  /\ MayShoot
  /\ holder' = Opponent /\ shots' = shots + 1
  /\ UNCHANGED played

(* The holder leaves the game, or kNewTurn arrives where there is none.      *)
Lose ==
  /\ holder # Nobody
  /\ holder' = Nobody /\ played' = FALSE
  /\ UNCHANGED shots

Next == Shoot \/ Pass \/ ShootAndPass \/ Lose

Spec == Init /\ [][Next]_vars
=============================================================================
