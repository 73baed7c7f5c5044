----------------------------- MODULE MCCollision -----------------------------
(* Small instances of Collision for TLC: balls, walls and polygons with      *)
(* edges along the axes and the diagonals, near one another.                 *)
EXTENDS Collision

Body(x, y, mass, type) == [velocity |-> Vec2(x, y), mass |-> mass, type |-> type]
MCBodies ==
  {Body(0, 0, 1, "dynamic"), Body(3, 0, 1, "dynamic"), Body(-1, 2, 2, "dynamic"),
   Body(0, 0, 1, "static"), Body(0, 0, 2, "kinematic"), Body(0, 2, 1, "kinematic")}

Collider(shape, restitution) == [shape |-> shape, restitution |-> restitution]
MCColliders ==
  {Collider(Circle(Zero, 2), 1),
   Collider(Circle(Zero, 3), 3),
   Collider(Circle(Vec2(1, 0), 1), 1),                           \* off its body
   Collider(Rectangle(Vec2(-1, -4), Vec2(1, 4)), 1),
   Collider(Rectangle(Vec2(-2, -1), Vec2(2, 1)), 3),
   Collider(Rectangle(Vec2(-2, 0), Vec2(2, 0)), 1),              \* a line
   Collider(Polygon(<<Vec2(1, 1), Vec2(5, 1), Vec2(1, 5)>>), 1),
   Collider(Polygon(<<Vec2(0, -4), Vec2(4, 0), Vec2(0, 4), Vec2(-4, 0)>>), 1)}

MCOffsets == {Vec2(x, y) : x \in -6..6, y \in 0..5}
=============================================================================
