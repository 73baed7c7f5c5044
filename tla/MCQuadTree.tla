----------------------------- MODULE MCQuadTree -----------------------------
(* Small instances of QuadTree for TLC: few colliders to a node and shapes   *)
(* inside a quarter, on the borders between quarters and past the rim.       *)
EXTENDS QuadTree, TLC

Box(x, y, w, h) == [minX |-> x, minY |-> y, maxX |-> x + w, maxY |-> y + h]
MCRectangles ==
  {Box(0, 0, 32, 32),     \* the whole boundary
   Box(0, 0, 0, 0),       \* a point in a corner
   Box(9, 9, 3, 3),       \* inside a quarter of a quarter
   Box(16, 16, 0, 0),     \* a point where the four quarters meet
   Box(12, 20, 4, 4),     \* between quarters, at either level
   Box(16, 22, 4, 4),     \* touches that one across the border
   Box(24, 0, 16, 4),     \* past the right rim
   Box(32, 12, 8, 8)}     \* outside, touching the rim
MCSymmetry == Permutations(Collider)
=============================================================================
