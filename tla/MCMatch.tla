------------------------------ MODULE MCMatch ------------------------------
(* What the repository says of a game, for small instances of Match.         *)
EXTENDS Match

(* main_page.md: the game is turn-based.  So a player shoots only once the   *)
(* shot of the opponent has ended on the player's own table.                 *)
TurnBased ==
  [][\A p \in Player : game'[p].has_played /\ ~game[p].has_played
                          => ~MustUpdatePhysics(game[p])]_vars
=============================================================================
