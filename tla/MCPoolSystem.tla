---------------------------- MODULE MCPoolSystem ----------------------------
(* Small instances of PoolSystem for TLC.                                    *)
EXTENDS PoolSystem, TLC

(* The clients run the same program.                                         *)
Symmetry == Permutations(Conn)

(* Most properties speak only of players who wait for the answer; the run    *)
(* does not go on where one has not.                                         *)
Patient == ~hasty
=============================================================================
