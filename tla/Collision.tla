------------------------------ MODULE Collision ------------------------------
(* What a step of the world does with two colliders: their bodies move, the  *)
(* broad phase (World.cpp) compares their boxes, the narrow phase their      *)
(* shapes, and the contact solver (ContactSolver.cpp) changes velocities and *)
(* positions.                                                                *)
(*                                                                           *)
(* Numbers are integers, and exact: after the solver they are fractions with *)
(* the denominator scale.  The solver's normal is kept as the vector it      *)
(* normalizes, with its length.  Damping, gravity and the length of the time *)
(* step are in the velocity.                                                 *)
EXTENDS Shapes

CONSTANTS Colliders,       \* the colliders that occur: shape and restitution
          Bodies,          \* the bodies that occur: velocity, mass and type
          Offsets          \* where the second may be, the first at the origin

ASSUME CollisionAssumption ==
  /\ \A b \in Bodies : /\ b.velocity \in Vectors
                       /\ b.mass \in Nat \ {0}
                       /\ b.type \in {"dynamic", "kinematic", "static"}
                       /\ b.type = "static" => b.velocity = Zero
  /\ \A c \in Colliders : /\ c.shape \in Circles \cup Rectangles \cup Polygons
                          /\ c.restitution \in 0..4        \* in quarters
  /\ Offsets \subseteq Vectors

VARIABLES bodies,          \* the bodies of the two colliders
          colliders,
          phase,           \* where the step is
          scale,           \* 1, or the denominator of the solver's results
          before           \* history: the bodies when the step began

vars == <<bodies, colliders, phase, scale, before>>

Side == 1..2
OtherSide(i) == 3 - i

Init ==
  /\ \E b \in [Side -> Bodies], offset \in Offsets :
       bodies = [i \in Side |-> [position |-> IF i = 1 THEN Zero ELSE offset,
                                 velocity |-> b[i].velocity,
                                 mass |-> b[i].mass, type |-> b[i].type]]
  /\ colliders \in [Side -> Colliders]
  /\ phase = "begin" /\ scale = 1
  /\ before = bodies

Moves(body) == body.type \in {"dynamic", "kinematic"}
Moved(body) == IF Moves(body)
               THEN [body EXCEPT !.position = Plus(@, body.velocity)] ELSE body

(* The first loop of Update.                                                 *)
Move ==
  /\ phase = "begin"
  /\ bodies' = [i \in Side |-> Moved(bodies[i])]
  /\ phase' = "moved"
  /\ UNCHANGED <<colliders, scale, before>>

Box(i) == BoxOf(colliders[i].shape, bodies[i].position)
Shape(i) == At(colliders[i].shape, bodies[i].position)
Overlap == Intersect(Shape(1), Shape(2))

(* The quad-tree hands over the pairs whose boxes meet (NoPairMissed).       *)
Detect ==
  /\ phase = "moved"
  /\ phase' = IF RectanglesIntersect(Box(1), Box(2)) /\ Overlap
              THEN "contact" ELSE "end"
  /\ UNCHANGED <<bodies, colliders, scale, before>>
-----------------------------------------------------------------------------
(* CalculateContactProperties, i being the collider A.                       *)

Abs(n) == IF n < 0 THEN -n ELSE n
(* The exchange of bounds in the wrong order is left out: rectangles are not *)
(* inverted.                                                                 *)
Clamp(n, low, high) == IF n < low THEN low ELSE IF n > high THEN high ELSE n

(* Wrong on purpose: the centre itself, inside or outside the rectangle.     *)
ClosestPointUnclamped(r, point) == point

ClosestPoint(r, point) == Vec2(Clamp(point.X, r.minBound.X, r.maxBound.X),
                               Clamp(point.Y, r.minBound.Y, r.maxBound.Y))

IsSquare(n) == \E root \in 0..n : root * root = n
Root(n) == CHOOSE root \in 0..n : root * root = n

(* Of two circles, or a circle and a rectangle: from the other's centre or   *)
(* closest point to the centre, and how far that should be.                  *)
Delta(s, t) ==
  Minus(s.center, IF t.kind = "circle" THEN t.center ELSE ClosestPoint(t, s.center))
Reach(s, t) == s.radius + IF t.kind = "circle" THEN t.radius ELSE 0

(* Twice the distance of the centres of two rectangles, twice the overlap of *)
(* their half sizes on an axis, and the normal of the axis with less.        *)
CentersApart(r, s) ==
  Minus(Plus(r.minBound, r.maxBound), Plus(s.minBound, s.maxBound))
PenetrationX(r, s) ==
  (r.maxBound.X - r.minBound.X) + (s.maxBound.X - s.minBound.X) - Abs(CentersApart(r, s).X)
PenetrationY(r, s) ==
  (r.maxBound.Y - r.minBound.Y) + (s.maxBound.Y - s.minBound.Y) - Abs(CentersApart(r, s).Y)
RectangleNormal(r, s) ==
  IF PenetrationX(r, s) < PenetrationY(r, s)
  THEN IF CentersApart(r, s).X > 0 THEN Vec2(1, 0) ELSE Vec2(-1, 0)
  ELSE IF CentersApart(r, s).Y > 0 THEN Vec2(0, 1) ELSE Vec2(0, -1)

(* The first collider the solver looks at: a rectangle and a circle change   *)
(* places, with their bodies.                                                *)
FirstOf(i) ==
  IF Shape(i).kind = "rectangle" /\ Shape(OtherSide(i)).kind = "circle"
  THEN OtherSide(i) ELSE i

HasContact(i) == Shape(i).kind # "polygon" /\ Shape(OtherSide(i)).kind # "polygon"

(* The vector to normalize, and twice the penetration.  Bound: lengths that  *)
(* are no integers are left out.                                             *)
NormalOf(i) ==
  IF Shape(i).kind = "circle" THEN Delta(Shape(i), Shape(OtherSide(i)))
  ELSE RectangleNormal(Shape(i), Shape(OtherSide(i)))
IsBounded(i) == IsSquare(SquareLength(NormalOf(i)))
LengthOf(i) == Root(SquareLength(NormalOf(i)))
TwicePenetration(i) ==
  LET s == Shape(i)
      t == Shape(OtherSide(i))
  IN IF s.kind = "circle" THEN 2 * (Reach(s, t) - LengthOf(i))
     ELSE Min({PenetrationX(s, t), PenetrationY(s, t)})

-----------------------------------------------------------------------------
(* ResolveContact.                                                           *)

(* Wrong on purpose: the normal is not turned when the bodies are swapped.   *)
NormalToUnturned(i, a) == NormalOf(i)

(* The normal towards body a, a static body being the second.                *)
NormalTo(i, a) == IF a = i THEN NormalOf(i) ELSE Times(-1, NormalOf(i))

BodyA(i) == IF bodies[i].type = "static" THEN OtherSide(i) ELSE i

(* 4 (m + n) times the combined restitution: the masses are those of the     *)
(* swapped bodies, the restitutions those of the colliders, not swapped.     *)
WeightedRestitution(i) ==
  LET a == BodyA(i)
  IN bodies[a].mass * colliders[i].restitution
       + bodies[OtherSide(a)].mass * colliders[OtherSide(i)].restitution

Masses == bodies[1].mass + bodies[2].mass

(* Wrong on purpose: only the mass decides, whatever the type.               *)
InverseMassKept(k) == bodies[OtherSide(k)].mass

(* The inverse mass, times both masses: SetBodyType, called after the mass   *)
(* is set, leaves none to a body that is not dynamic.                        *)
InverseMass(k) == IF bodies[k].type = "dynamic" THEN bodies[OtherSide(k)].mass ELSE 0
TotalInverseMass == InverseMass(1) + InverseMass(2)

Scale(i) == 4 * SquareLength(NormalOf(i)) * Masses * TotalInverseMass

SeparatingVelocity(i, a) ==
  Dot(Minus(bodies[a].velocity, bodies[OtherSide(a)].velocity), NormalTo(i, a))

(* The change of velocity of a per inverse mass, in the scale.               *)
PostCollisionVelocity(i, a) ==
  LET push == (4 * Masses + WeightedRestitution(i)) * (-SeparatingVelocity(i, a))
  IN IF SeparatingVelocity(i, a) > 0 THEN Zero ELSE Times(push, NormalTo(i, a))

(* The same of the position.                                                 *)
PostCollisionPosition(i, a) ==
  IF TwicePenetration(i) <= 0 THEN Zero
  ELSE Times(2 * TwicePenetration(i) * LengthOf(i) * Masses, NormalTo(i, a))

(* Wrong on purpose: the heavier body is moved more.                         *)
ShareOfOwnMass(k, a) == InverseMass(OtherSide(k)) * IF k = a THEN 1 ELSE -1

(* The inverse mass of k, and the direction of its change.                   *)
Share(k, a) == InverseMass(k) * IF k = a THEN 1 ELSE -1

(* The bodies after the contact of the colliders <<i, OtherSide(i)>>, in the *)
(* scale; only dynamic ones are changed.                                     *)
Resolved(i) ==
  LET a == BodyA(i)
      Changed(k, old, change) ==
        Plus(Times(Scale(i), old),
             IF bodies[k].type = "dynamic" THEN Times(Share(k, a), change) ELSE Zero)
  IN [k \in Side |->
       [bodies[k] EXCEPT
          !.velocity = Changed(k, @, PostCollisionVelocity(i, a)),
          !.position = Changed(k, @, PostCollisionPosition(i, a))]]

(* Wrong on purpose: the pair is handled twice in a step.                    *)
ResolveContactAgain(i) ==
  /\ phase = "contact"
  /\ HasContact(i) /\ TotalInverseMass > 0
  /\ IsBounded(FirstOf(i)) /\ NormalOf(FirstOf(i)) # Zero
  /\ bodies' = Resolved(FirstOf(i))
  /\ scale' = Scale(FirstOf(i))
  /\ UNCHANGED <<colliders, phase, before>>

(* A polygon leaves the solver's normal zero, and its penetration            *)
(* uninitialized (ContactSolver.h:32): the product is taken for zero, and    *)
(* nothing changes.  Without inverse mass the impulse is divided by zero,    *)
(* but no body is dynamic to take it, and the positions are not touched.     *)
(* i is the first collider of the pair.                                      *)
ResolveContact(i) ==
  /\ phase = "contact"
  /\ \/ /\ HasContact(i) => TotalInverseMass = 0 /\ NormalOf(FirstOf(i)) # Zero
        /\ UNCHANGED <<bodies, scale>>
     \/ /\ HasContact(i) /\ TotalInverseMass > 0
        /\ IsBounded(FirstOf(i)) /\ NormalOf(FirstOf(i)) # Zero
        /\ bodies' = Resolved(FirstOf(i))
        /\ scale' = Scale(FirstOf(i))
  /\ phase' = "end"
  /\ UNCHANGED <<colliders, before>>

(* Normalized throws DivisionByZeroException through noexcept.               *)
Terminate(i) ==
  /\ phase = "contact"
  /\ HasContact(i) /\ NormalOf(FirstOf(i)) = Zero
  /\ phase' = "terminated"
  /\ UNCHANGED <<bodies, colliders, scale, before>>

Next ==
  \/ Move
  \/ Detect
  \/ \E i \in Side : ResolveContact(i) \/ Terminate(i)

Spec == Init /\ [][Next]_vars
-----------------------------------------------------------------------------

TypeOK ==
  /\ phase \in {"begin", "moved", "contact", "end", "terminated"}
  /\ \A i \in Side : /\ bodies[i].position \in Vectors
                     /\ bodies[i].velocity \in Vectors
                     /\ colliders[i] \in Colliders
  /\ scale \in Nat \ {0}
  /\ phase # "end" => scale = 1

(* What it is to overlap, without separating axes and widened rectangles:    *)
(* two closed polygons do if edges cross or one has a vertex of the other    *)
(* within, a circle and a rectangle if a point of the rectangle is close     *)
(* enough, a circle and a polygon if a point of an edge is; the closest      *)
(* point is on the half grid for edges along an axis or a diagonal.          *)
Turn(edge, point) ==
  LET along == Minus(edge[2], edge[1])
      to == Minus(point, edge[1])
  IN along.X * to.Y - along.Y * to.X
Straddles(edge, other) == Turn(edge, other[1]) * Turn(edge, other[2]) <= 0
EdgesCross(edge, other) ==
  /\ Straddles(edge, other) /\ Straddles(other, edge)
  /\ RectanglesIntersect(BoundsOf({edge[1], edge[2]}), BoundsOf({other[1], other[2]}))
Within(point, p) ==
  /\ RectangleContains(BoundsOf(Vertices(p)), point)
  /\ \/ \A edge \in Edges(p) : Turn(edge, point) >= 0
     \/ \A edge \in Edges(p) : Turn(edge, point) <= 0
PolygonsMeet(p, q) ==
  \/ \E edge \in Edges(p), other \in Edges(q) : EdgesCross(edge, other)
  \/ \E v \in Vertices(p) : Within(v, q)
  \/ \E v \in Vertices(q) : Within(v, p)

PointsOf(r) == {Vec2(x, y) : x \in r.minBound.X..r.maxBound.X, y \in r.minBound.Y..r.maxBound.Y}
HalfPointsOf(edge) ==
  LET twice == <<Times(2, edge[1]), Times(2, edge[2])>>
  IN {v \in PointsOf(BoundsOf({twice[1], twice[2]})) : Turn(twice, v) = 0}
CircleMeets(c, s) ==
  IF s.kind = "rectangle" THEN \E v \in PointsOf(s) : CircleContains(c, v)
  ELSE LET twice == Circle(Times(2, c.center), 2 * c.radius)
       IN \E edge \in Edges(s) : \E v \in HalfPointsOf(edge) : CircleContains(twice, v)

AsPolygon(s) == IF s.kind = "rectangle" THEN RectangleAsPolygon(s) ELSE s
Meet(s, t) == IF s.kind = "circle" THEN CircleMeets(s, t)
              ELSE PolygonsMeet(AsPolygon(s), AsPolygon(t))

(* Shape.h: each Intersect finds just the shapes that overlap; it sees no    *)
(* circle within a polygon that meets none of its edges.                     *)
IntersectFindsOverlap ==
  phase = "moved" =>
    \A i \in Side :
      LET s == Shape(i)
          t == Shape(OtherSide(i))
      IN t.kind # "circle" => (Intersect(s, t) = Meet(s, t) /\ Intersect(t, s) = Meet(s, t))

(* World.cpp: the box a collider is inserted with holds all of it, so that   *)
(* the broad phase loses no pair the narrow phase would find, if circles     *)
(* have their own centre at the body, as Game's have.                        *)
Centered(i) == colliders[i].shape.kind = "circle" => colliders[i].shape.center = Zero
BoxesCoverShapes ==
  phase = "moved" /\ (\A i \in Side : Centered(i)) /\ Overlap
    => RectanglesIntersect(Box(1), Box(2))

(* ContactSolver.cpp: which collider of a pair is the first is up to the     *)
(* quad-tree, and both clients must see the same; it makes no difference,    *)
(* although the solver swaps bodies in two places and colliders in one, if   *)
(* the masses are the same, as Game's are, or no body is static, and two     *)
(* rectangles are not centred on one another.                                *)
Aligned(s, t) ==
  /\ s.kind = "rectangle" /\ t.kind = "rectangle"
  /\ Dot(CentersApart(s, t), RectangleNormal(s, t)) = 0
OrderDoesNotMatter ==
  /\ phase = "contact" /\ HasContact(1)
  /\ bodies[1].mass = bodies[2].mass \/ \A i \in Side : bodies[i].type # "static"
  /\ ~Aligned(Shape(1), Shape(2))
  /\ \A i \in Side : NormalOf(FirstOf(i)) # Zero /\ IsBounded(FirstOf(i))
  => Resolved(FirstOf(1)) = Resolved(FirstOf(2))

(* The bodies at the contact, in the scale of the result.                    *)
AtContact == [i \in Side |-> LET b == Moved(before[i])
                             IN [position |-> Times(scale, b.position),
                                 velocity |-> Times(scale, b.velocity)]]
Solved == phase = "end" /\ scale > 1

Momentum(b) == Plus(Times(bodies[1].mass, b[1].velocity),
                    Times(bodies[2].mass, b[2].velocity))
Energy(b) == bodies[1].mass * SquareLength(b[1].velocity)
               + bodies[2].mass * SquareLength(b[2].velocity)

(* A contact of two dynamic bodies keeps their momentum, and none gives the  *)
(* bodies energy but that with a body which moves without being dynamic:     *)
(* nothing but the cue sets a table in motion.                               *)
ConservationLaws ==
  Solved =>
    /\ (\A i \in Side : bodies[i].type = "dynamic") => Momentum(bodies) = Momentum(AtContact)
    /\ (\A i \in Side : bodies[i].type = "dynamic" \/ before[i].velocity = Zero)
         => Energy(bodies) <= Energy(AtContact)

(* How far two shapes are apart, in the scale of the result: for circles by  *)
(* squares, zero where they touch, negative where they overlap.              *)
Scaled(s, k) ==
  CASE s.kind = "circle" -> Circle(Times(k, s.center), k * s.radius)
    [] s.kind = "rectangle" -> Rectangle(Times(k, s.minBound), Times(k, s.maxBound))
    [] OTHER -> s
Enlarged(i, b) == At(Scaled(colliders[i].shape, scale), b[i].position)
Apart(b) ==
  LET i == FirstOf(1)
      s == Enlarged(i, b)
      t == Enlarged(OtherSide(i), b)
  IN IF s.kind = "circle"
     THEN SquareLength(Delta(s, t)) - Reach(s, t) * Reach(s, t)
     ELSE -Min({PenetrationX(s, t), PenetrationY(s, t)})

(* How fast the bodies b leave one another, along the normal of the contact. *)
Met(i) == At(colliders[i].shape, Moved(before[i]).position)
Parting(b) ==
  LET i == FirstOf(1)
      s == Met(i)
      t == Met(OtherSide(i))
      normal == IF s.kind = "circle" THEN Delta(s, t) ELSE RectangleNormal(s, t)
  IN Dot(Minus(b[i].velocity, b[OtherSide(i)].velocity), normal)

(* Bodies that overlapped just touch afterwards and no longer approach,      *)
(* although one of them may be a wall, which takes nothing of the push: a    *)
(* ball neither stays in a wall nor is thrown off it, nor goes on into it.   *)
SolverSeparates ==
  Solved => /\ Apart(bodies) = 0
            /\ ~Aligned(Met(1), Met(2)) => Parting(bodies) >= 0

(* ResolveContact is noexcept: it ends the process only if the bodies moved  *)
(* towards each other by the radius of a ball or more in the one step, or    *)
(* overlapped before.  A full shot does: 10 m/s for a fiftieth of a second   *)
(* is more than the 0.175 m of Game's balls.                                 *)
SlowContactsResolve ==
  phase = "terminated" =>
    \/ Intersect(At(colliders[1].shape, before[1].position),
                 At(colliders[2].shape, before[2].position))
    \/ \E i \in Side :
         /\ colliders[i].shape.kind = "circle"
         /\ LET v == Minus(Minus(bodies[1].position, before[1].position),
                           Minus(bodies[2].position, before[2].position))
            IN SquareLength(v) >= colliders[i].shape.radius * colliders[i].shape.radius
=============================================================================
