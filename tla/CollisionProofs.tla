--------------------------- MODULE CollisionProofs ---------------------------
(* Proofs of the properties of Collision, for any bodies, colliders and      *)
(* distances.                                                                *)
EXTENDS Collision, TLAPS

(* Vectors.                                                                  *)

LEMMA VectorParts ==
  ASSUME NEW v \in Vectors
  PROVE  v = Vec2(v.X, v.Y) /\ v.X \in Int /\ v.Y \in Int
BY DEF Vectors, Vec2

LEMMA VectorTypes ==
  /\ Zero \in Vectors
  /\ \A x, y \in Int : Vec2(x, y) \in Vectors /\ Vec2(x, y).X = x /\ Vec2(x, y).Y = y
  /\ \A v, w \in Vectors : /\ Plus(v, w) \in Vectors /\ Minus(v, w) \in Vectors
                          /\ Dot(v, w) \in Int
  /\ \A k \in Int, v \in Vectors : Times(k, v) \in Vectors
BY DEF Vectors, Vec2, Zero, Plus, Minus, Dot, Times

LEMMA Coordinates ==
  /\ \A v, w : /\ Plus(v, w).X = v.X + w.X /\ Plus(v, w).Y = v.Y + w.Y
               /\ Minus(v, w).X = v.X - w.X /\ Minus(v, w).Y = v.Y - w.Y
  /\ \A k, v : Times(k, v).X = k * v.X /\ Times(k, v).Y = k * v.Y
  /\ Zero.X = 0 /\ Zero.Y = 0
BY DEF Plus, Minus, Times, Zero, Vec2

LEMMA Same ==
  ASSUME NEW v \in Vectors, NEW w \in Vectors, v.X = w.X, v.Y = w.Y
  PROVE  v = w
BY DEF Vectors

LEMMA SquareLengthTypes ==
  ASSUME NEW v \in Vectors
  PROVE  SquareLength(v) \in Nat /\ (SquareLength(v) = 0 <=> v = Zero)
<1>1. v.X \in Int /\ v.Y \in Int /\ v = Vec2(v.X, v.Y)
  BY VectorParts
<1>2. \A n \in Int : n * n \in Nat /\ (n * n = 0 <=> n = 0)
  OBVIOUS
<1>3. SquareLength(v) = v.X * v.X + v.Y * v.Y
  BY DEF SquareLength, Dot
<1>4. /\ v.X * v.X \in Nat /\ v.Y * v.Y \in Nat
      /\ v.X * v.X = 0 <=> v.X = 0
      /\ v.Y * v.Y = 0 <=> v.Y = 0
  BY <1>1, <1>2
<1>5. v = Zero <=> v.X = 0 /\ v.Y = 0
  BY <1>1 DEF Zero, Vec2
<1>. QED
  BY <1>3, <1>4, <1>5

-----------------------------------------------------------------------------
(* Shapes.                                                                   *)

AllShapes == Circles \cup Rectangles \cup Polygons

LEMMA AtCircle ==
  ASSUME NEW s, NEW pos, s.kind = "circle"
  PROVE  At(s, pos) = Circle(Plus(s.center, pos), s.radius)
BY Zenon DEF At

LEMMA AtRectangle ==
  ASSUME NEW s, NEW pos, s.kind = "rectangle"
  PROVE  At(s, pos) = Rectangle(Plus(s.minBound, pos), Plus(s.maxBound, pos))
BY Zenon DEF At

LEMMA AtPolygon ==
  ASSUME NEW s, NEW pos, s.kind = "polygon"
  PROVE  At(s, pos) = Polygon([i \in DOMAIN s.vertices |-> Plus(s.vertices[i], pos)])
BY Zenon DEF At

LEMMA AtTypes ==
  ASSUME NEW s \in AllShapes, NEW pos \in Vectors
  PROVE  At(s, pos) \in AllShapes /\ At(s, pos).kind = s.kind
<1>1. CASE s \in Circles
  <2>1. s.kind = "circle" /\ s.center \in Vectors /\ s.radius \in Nat
    BY <1>1 DEF Circles
  <2>2. Plus(s.center, pos) \in Vectors
    BY <2>1, VectorTypes
  <2>. QED
    BY <2>1, <2>2, AtCircle DEF Circle, Circles, AllShapes
<1>2. CASE s \in Rectangles
  <2>1. s.kind = "rectangle" /\ s.minBound \in Vectors /\ s.maxBound \in Vectors
    BY <1>2 DEF Rectangles
  <2>2. Plus(s.minBound, pos) \in Vectors /\ Plus(s.maxBound, pos) \in Vectors
    BY <2>1, VectorTypes
  <2>3. InBounds(At(s, pos))
    <3>1. InBounds(s)
      BY <1>2 DEF Rectangles
    <3>. QED
      BY <2>1, <3>1, AtRectangle DEF InBounds, Rectangle, Plus, Vec2, Vectors
  <2>. QED
    BY <2>1, <2>2, <2>3, AtRectangle DEF Rectangle, Rectangles, AllShapes
<1>3. CASE s \in Polygons
  <2>1. s.kind = "polygon" /\ s.vertices \in Seq(Vectors)
    BY <1>3 DEF Polygons
  <2>. DEFINE moved == [i \in DOMAIN s.vertices |-> Plus(s.vertices[i], pos)]
  <2>2. moved \in Seq(Vectors)
    BY <2>1, VectorTypes
  <2>. HIDE DEF moved
  <2>3. At(s, pos) = Polygon(moved)
    BY <2>1, AtPolygon DEF moved
  <2>. QED
    BY <2>1, <2>2, <2>3 DEF Polygon, Polygons, AllShapes
<1>. QED
  BY <1>1, <1>2, <1>3 DEF AllShapes

LEMMA ClosestPointTypes ==
  ASSUME NEW r \in Rectangles, NEW point \in Vectors
  PROVE  ClosestPoint(r, point) \in Vectors
<1>1. /\ {r.minBound.X, r.minBound.Y, r.maxBound.X, r.maxBound.Y} \subseteq Int
      /\ point.X \in Int /\ point.Y \in Int
  BY DEF Rectangles, Vectors
<1>. QED
  BY <1>1, VectorTypes DEF ClosestPoint, Clamp

LEMMA MinOfTwo ==
  ASSUME NEW m \in Int, NEW n \in Int
  PROVE  Min({m, n}) = IF m <= n THEN m ELSE n
<1>1. \E x \in {m, n} : \A y \in {m, n} : x =< y
  OBVIOUS
<1>2. Min({m, n}) \in {m, n} /\ \A y \in {m, n} : Min({m, n}) =< y
  BY <1>1 DEF Min
<1>. QED
  BY <1>2

LEMMA RootTypes ==
  ASSUME NEW n \in Nat, IsSquare(n)
  PROVE  Root(n) \in Nat /\ Root(n) * Root(n) = n
<1>1. PICK root \in 0..n : root * root = n
  BY DEF IsSquare
<1>2. Root(n) \in 0..n /\ Root(n) * Root(n) = n
  BY <1>1 DEF Root
<1>. QED
  BY <1>2

(* Two rectangles have a normal along an axis, of length one.                *)
LEMMA RectanglesApart ==
  ASSUME NEW r \in Rectangles, NEW s \in Rectangles
  PROVE  /\ CentersApart(r, s) \in Vectors
         /\ PenetrationX(r, s) \in Int /\ PenetrationY(r, s) \in Int
<1>1. /\ {r.minBound, r.maxBound, s.minBound, s.maxBound} \subseteq Vectors
      /\ {r.minBound.X, r.maxBound.X, s.minBound.X, s.maxBound.X} \subseteq Int
      /\ {r.minBound.Y, r.maxBound.Y, s.minBound.Y, s.maxBound.Y} \subseteq Int
  BY DEF Rectangles, Vectors
<1>2. CentersApart(r, s) \in Vectors
  BY <1>1, VectorTypes DEF CentersApart
<1>3. CentersApart(r, s).X \in Int /\ CentersApart(r, s).Y \in Int
  BY <1>2 DEF Vectors
<1>4. \A n \in Int : Abs(n) \in Int
  BY DEF Abs
<1>. QED
  BY <1>1, <1>2, <1>3, <1>4 DEF PenetrationX, PenetrationY

LEMMA RectangleNormalIs ==
  ASSUME NEW r, NEW s
  PROVE  /\ RectangleNormal(r, s) \in {Vec2(1, 0), Vec2(-1, 0), Vec2(0, 1), Vec2(0, -1)}
         /\ RectangleNormal(r, s) \in Vectors /\ RectangleNormal(r, s) # Zero
<1>1. RectangleNormal(r, s) \in {Vec2(1, 0), Vec2(-1, 0), Vec2(0, 1), Vec2(0, -1)}
  BY DEF RectangleNormal
<1>. QED
  BY <1>1 DEF Vec2, Vectors, Zero

-----------------------------------------------------------------------------
(* The state.                                                                *)

BodyStates == [position : Vectors, velocity : Vectors, mass : Nat \ {0},
               type : {"dynamic", "kinematic", "static"}]

(* Between the first loop of Update and the solver the bodies are where the  *)
(* loop has moved them, and a body that cannot move stands still.            *)
StepInv ==
  /\ phase \in {"begin", "moved", "contact", "end", "terminated"}
  /\ bodies \in [Side -> BodyStates] /\ before \in [Side -> BodyStates]
  /\ colliders \in [Side -> Colliders]
  /\ scale \in Nat \ {0} /\ (phase # "end" => scale = 1)
  /\ phase = "begin" => bodies = before
  /\ phase \in {"moved", "contact", "terminated"} =>
       \A i \in Side : bodies[i] = Moved(before[i])
  /\ phase = "contact" => Overlap
  /\ \A i \in Side : before[i].type = "static" => before[i].velocity = Zero

LEMMA MovedIs ==
  ASSUME NEW b \in BodyStates
  PROVE  /\ Moved(b) \in BodyStates
         /\ Moved(b).velocity = b.velocity /\ Moved(b).mass = b.mass /\ Moved(b).type = b.type
<1>1. Plus(b.position, b.velocity) \in Vectors
  BY VectorTypes DEF BodyStates
<1>. QED
  BY <1>1 DEF Moved, BodyStates

LEMMA Sides ==
  /\ Side = {1, 2}
  /\ \A i \in Side : /\ OtherSide(i) \in Side /\ OtherSide(i) # i
                     /\ OtherSide(OtherSide(i)) = i
                     /\ {i, OtherSide(i)} = Side
BY DEF Side, OtherSide

LEMMA ColliderTypes ==
  ASSUME StepInv, NEW i \in Side
  PROVE  /\ colliders[i].shape \in AllShapes /\ colliders[i].restitution \in 0..4
         /\ bodies[i] \in BodyStates /\ before[i] \in BodyStates
         /\ Shape(i) \in AllShapes /\ Shape(i).kind = colliders[i].shape.kind
<1>1. colliders[i] \in Colliders /\ bodies[i] \in BodyStates /\ before[i] \in BodyStates
  BY DEF StepInv
<1>2. colliders[i].shape \in AllShapes /\ colliders[i].restitution \in 0..4
  BY <1>1, CollisionAssumption DEF AllShapes
<1>3. bodies[i].position \in Vectors
  BY <1>1 DEF BodyStates
<1>. QED
  BY <1>1, <1>2, <1>3, AtTypes DEF Shape

(* The solver looks at two circles, two rectangles, or a circle and then a   *)
(* rectangle.                                                                *)
LEMMA FirstIs ==
  ASSUME StepInv, NEW i \in Side, HasContact(i)
  PROVE  LET j == FirstOf(i)
             s == Shape(j)
             t == Shape(OtherSide(j))
         IN /\ j \in Side
            /\ \/ s \in Circles /\ t \in Circles
               \/ s \in Circles /\ t \in Rectangles
               \/ s \in Rectangles /\ t \in Rectangles
<1>1. /\ OtherSide(i) \in Side /\ OtherSide(OtherSide(i)) = i
  BY Sides
<1>2. \A k \in Side : /\ Shape(k).kind = "circle" => Shape(k) \in Circles
                      /\ Shape(k).kind = "rectangle" => Shape(k) \in Rectangles
                      /\ Shape(k).kind \in {"circle", "rectangle", "polygon"}
  BY ColliderTypes DEF AllShapes, Circles, Rectangles, Polygons
<1>. QED
  BY <1>1, <1>2 DEF FirstOf, HasContact

LEMMA NormalTypes ==
  ASSUME StepInv, NEW i \in Side, HasContact(i)
  PROVE  /\ NormalOf(FirstOf(i)) \in Vectors
         /\ IsBounded(FirstOf(i)) => TwicePenetration(FirstOf(i)) \in Int
<1>. DEFINE j == FirstOf(i)
            s == Shape(j)
            t == Shape(OtherSide(j))
<1>1. /\ \/ s \in Circles /\ t \in Circles
         \/ s \in Circles /\ t \in Rectangles
         \/ s \in Rectangles /\ t \in Rectangles
  BY FirstIs
<1>2. /\ NormalOf(j) = IF s.kind = "circle" THEN Delta(s, t) ELSE RectangleNormal(s, t)
      /\ TwicePenetration(j) = IF s.kind = "circle" THEN 2 * (Reach(s, t) - LengthOf(j))
                               ELSE Min({PenetrationX(s, t), PenetrationY(s, t)})
  BY DEF NormalOf, TwicePenetration
<1>3. IsBounded(j) <=> IsSquare(SquareLength(NormalOf(j)))
  BY DEF IsBounded
<1>4. LengthOf(j) = Root(SquareLength(NormalOf(j)))
  BY DEF LengthOf
<1>. HIDE DEF j, s, t
<1>5. CASE s \in Circles
  <2>1. s.kind = "circle" /\ s.center \in Vectors /\ s.radius \in Nat
    BY <1>5 DEF Circles
  <2>2. Delta(s, t) \in Vectors /\ Reach(s, t) \in Nat
    <3>1. CASE t \in Circles
      <4>1. t.kind = "circle" /\ t.center \in Vectors /\ t.radius \in Nat
        BY <3>1 DEF Circles
      <4>. QED
        BY <2>1, <4>1, VectorTypes DEF Delta, Reach
    <3>2. CASE t \in Rectangles
      <4>1. t.kind = "rectangle" /\ ClosestPoint(t, s.center) \in Vectors
        BY <2>1, <3>2, ClosestPointTypes DEF Rectangles
      <4>. QED
        BY <2>1, <4>1, VectorTypes DEF Delta, Reach
    <3>. QED
      BY <1>1, <1>5, <3>1, <3>2
  <2>3. NormalOf(j) \in Vectors /\ SquareLength(NormalOf(j)) \in Nat
    BY <1>2, <2>1, <2>2, SquareLengthTypes
  <2>4. IsBounded(j) => LengthOf(j) \in Nat
    BY <1>3, <1>4, <2>3, RootTypes
  <2>. QED
    BY <1>2, <2>1, <2>2, <2>3, <2>4 DEF j
<1>6. CASE s \in Rectangles /\ t \in Rectangles
  <2>1. s.kind = "rectangle"
    BY <1>6 DEF Rectangles
  <2>2. RectangleNormal(s, t) \in Vectors
    BY RectangleNormalIs
  <2>3. Min({PenetrationX(s, t), PenetrationY(s, t)}) \in Int
    BY <1>6, RectanglesApart, MinOfTwo
  <2>. QED
    BY <1>2, <2>1, <2>2, <2>3 DEF j
<1>. QED
  BY <1>1, <1>5, <1>6

(* What the solver needs of a pair to normalize the normal.                  *)
Ready(j) ==
  /\ j \in Side /\ NormalOf(j) \in Vectors /\ NormalOf(j) # Zero
  /\ IsBounded(j) /\ TwicePenetration(j) \in Int

LEMMA Readies ==
  ASSUME StepInv, NEW i \in Side, HasContact(i), IsBounded(FirstOf(i)),
         NormalOf(FirstOf(i)) # Zero
  PROVE  Ready(FirstOf(i))
<1>1. FirstOf(i) \in Side
  BY FirstIs
<1>. QED
  BY <1>1, NormalTypes DEF Ready

LEMMA BodyTypes ==
  ASSUME StepInv, NEW j \in Side
  PROVE  /\ bodies[j].mass \in Nat \ {0} /\ bodies[j].velocity \in Vectors
         /\ bodies[j].position \in Vectors
         /\ bodies[j].type \in {"dynamic", "kinematic", "static"}
         /\ colliders[j].restitution \in 0..4
         /\ BodyA(j) \in Side
         /\ Masses \in Nat \ {0} /\ Masses = bodies[j].mass + bodies[OtherSide(j)].mass
<1>1. \A k \in Side : /\ bodies[k].mass \in Nat \ {0} /\ bodies[k].velocity \in Vectors
                      /\ bodies[k].position \in Vectors
                      /\ bodies[k].type \in {"dynamic", "kinematic", "static"}
                      /\ colliders[k].restitution \in 0..4
  BY ColliderTypes DEF BodyStates
<1>2. BodyA(j) \in Side
  BY Sides DEF BodyA
<1>3. /\ 1 \in Side /\ 2 \in Side /\ (j = 1 \/ j = 2)
      /\ OtherSide(1) = 2 /\ OtherSide(2) = 1
  BY DEF Side, OtherSide
<1>4. \A m, n \in Nat \ {0} : m + n \in Nat \ {0} /\ m + n = n + m
  OBVIOUS
<1>. QED
  BY <1>1, <1>2, <1>3, <1>4 DEF Masses

(* Only the other body's mass counts for a dynamic body.                     *)
LEMMA InverseMassTypes ==
  ASSUME StepInv, NEW j \in Side
  PROVE  /\ InverseMass(j) = IF bodies[j].type = "dynamic" THEN bodies[OtherSide(j)].mass ELSE 0
         /\ InverseMass(j) \in Nat /\ InverseMass(OtherSide(j)) \in Nat
         /\ TotalInverseMass \in Nat
         /\ TotalInverseMass = InverseMass(j) + InverseMass(OtherSide(j))
<1>1. /\ 1 \in Side /\ 2 \in Side /\ (j = 1 \/ j = 2)
      /\ OtherSide(1) = 2 /\ OtherSide(2) = 1
  BY DEF Side, OtherSide
<1>2. bodies[1].mass \in Nat /\ bodies[2].mass \in Nat
  BY <1>1, BodyTypes
<1>3. InverseMass(1) \in Nat /\ InverseMass(2) \in Nat
  BY <1>1, <1>2 DEF InverseMass
<1>4. \A m, n \in Nat : m + n \in Nat /\ m + n = n + m
  OBVIOUS
<1>5. TotalInverseMass \in Nat /\ TotalInverseMass = InverseMass(j) + InverseMass(OtherSide(j))
  BY <1>1, <1>3, <1>4 DEF TotalInverseMass
<1>. QED
  BY <1>1, <1>3, <1>5 DEF InverseMass

LEMMA LengthTypes ==
  ASSUME StepInv, NEW j, Ready(j)
  PROVE  /\ SquareLength(NormalOf(j)) \in Nat \ {0}
         /\ LengthOf(j) \in Nat /\ LengthOf(j) * LengthOf(j) = SquareLength(NormalOf(j))
         /\ Scale(j) \in Nat /\ (TotalInverseMass > 0 => Scale(j) \in Nat \ {0})
         /\ Scale(j) = 4 * SquareLength(NormalOf(j)) * Masses * TotalInverseMass
<1>1. SquareLength(NormalOf(j)) \in Nat \ {0}
  BY SquareLengthTypes DEF Ready
<1>2. LengthOf(j) \in Nat /\ LengthOf(j) * LengthOf(j) = SquareLength(NormalOf(j))
  BY <1>1, RootTypes DEF Ready, IsBounded, LengthOf
<1>3. Masses \in Nat \ {0} /\ TotalInverseMass \in Nat
  BY BodyTypes, InverseMassTypes DEF Ready
<1>4. \A m, n \in Nat \ {0} : m * n \in Nat \ {0}
  OBVIOUS
<1>5. Scale(j) = 4 * SquareLength(NormalOf(j)) * Masses * TotalInverseMass
  BY DEF Scale
<1>6. 4 * SquareLength(NormalOf(j)) \in Nat \ {0}
  BY <1>1, <1>4
<1>7. 4 * SquareLength(NormalOf(j)) * Masses \in Nat \ {0}
  BY <1>3, <1>4, <1>6
<1>8. Scale(j) \in Nat /\ (TotalInverseMass > 0 => Scale(j) \in Nat \ {0})
  <2>1. \A m, n \in Nat : m * n \in Nat
    OBVIOUS
  <2>2. TotalInverseMass > 0 => TotalInverseMass \in Nat \ {0}
    BY <1>3
  <2>. QED
    BY <1>3, <1>4, <1>5, <1>7, <2>1, <2>2
<1>. QED
  BY <1>1, <1>2, <1>5, <1>8

(* The normal towards body a has the length of the normal.                   *)
LEMMA NormalToTypes ==
  ASSUME StepInv, NEW j, Ready(j), NEW a
  PROVE  /\ NormalTo(j, a) \in Vectors
         /\ SquareLength(NormalTo(j, a)) = SquareLength(NormalOf(j))
<1>1. NormalOf(j) \in Vectors
  BY DEF Ready
<1>2. Times(-1, NormalOf(j)) \in Vectors
  BY <1>1, VectorTypes
<1>3. SquareLength(Times(-1, NormalOf(j))) = SquareLength(NormalOf(j))
  <2>. DEFINE v == NormalOf(j)
              w == Times(-1, v)
  <2>1. v.X \in Int /\ v.Y \in Int /\ w.X = -1 * v.X /\ w.Y = -1 * v.Y
    BY <1>1, Coordinates DEF Vectors
  <2>. HIDE DEF v, w
  <2>2. w.X * w.X = v.X * v.X /\ w.Y * w.Y = v.Y * v.Y
    BY <2>1
  <2>3. SquareLength(w) = SquareLength(v)
    BY <2>2 DEF SquareLength, Dot
  <2>. QED
    BY <2>3 DEF v, w
<1>. QED
  BY <1>1, <1>2, <1>3 DEF NormalTo

LEMMA WeightedTypes ==
  ASSUME StepInv, NEW j \in Side
  PROVE  /\ WeightedRestitution(j) \in Nat /\ WeightedRestitution(j) <= 4 * Masses
<1>. DEFINE a == BodyA(j)
            m == bodies[a].mass
            n == bodies[OtherSide(a)].mass
            k == colliders[j].restitution
            l == colliders[OtherSide(j)].restitution
<1>1. a \in Side /\ OtherSide(a) \in Side /\ OtherSide(j) \in Side
  BY BodyTypes, Sides
<1>2. m \in Nat /\ n \in Nat /\ Masses = m + n /\ k \in 0..4 /\ l \in 0..4
  BY <1>1, BodyTypes
<1>3. WeightedRestitution(j) = m * k + n * l
  BY DEF WeightedRestitution
<1>. HIDE DEF m, n, k, l, a
<1>4. m * k \in Nat /\ m * k <= 4 * m /\ n * l \in Nat /\ n * l <= 4 * n
  BY <1>2
<1>. QED
  BY <1>2, <1>3, <1>4

LEMMA SolverTypes ==
  ASSUME StepInv, NEW j, Ready(j), NEW a \in Side
  PROVE  /\ SeparatingVelocity(j, a) \in Int
         /\ PostCollisionVelocity(j, a) \in Vectors
         /\ PostCollisionPosition(j, a) \in Vectors
<1>1. NormalTo(j, a) \in Vectors /\ LengthOf(j) \in Nat /\ TwicePenetration(j) \in Int
  BY NormalToTypes, LengthTypes DEF Ready
<1>2. Masses \in Nat /\ WeightedRestitution(j) \in Nat
  BY BodyTypes, WeightedTypes DEF Ready
<1>3. /\ bodies[a].velocity \in Vectors /\ bodies[OtherSide(a)].velocity \in Vectors
  BY BodyTypes, Sides
<1>4. SeparatingVelocity(j, a) \in Int
  BY <1>1, <1>3, VectorTypes DEF SeparatingVelocity
<1>5. PostCollisionVelocity(j, a) \in Vectors
  <2>1. (4 * Masses + WeightedRestitution(j)) * (-SeparatingVelocity(j, a)) \in Int
    BY <1>2, <1>4
  <2>. QED
    BY <1>1, <2>1, VectorTypes DEF PostCollisionVelocity
<1>6. PostCollisionPosition(j, a) \in Vectors
  <2>1. 2 * TwicePenetration(j) * LengthOf(j) * Masses \in Int
    BY <1>1, <1>2
  <2>. QED
    BY <1>1, <2>1, VectorTypes DEF PostCollisionPosition
<1>. QED
  BY <1>4, <1>5, <1>6

(* What the solver leaves of a body.                                         *)
Push(k, a, change) ==
  IF bodies[k].type = "dynamic" THEN Times(Share(k, a), change) ELSE Zero

LEMMA ResolvedIs ==
  ASSUME StepInv, NEW j, Ready(j)
  PROVE  /\ Resolved(j) \in [Side -> BodyStates]
         /\ \A k \in Side :
              /\ Resolved(j)[k].mass = bodies[k].mass
              /\ Resolved(j)[k].type = bodies[k].type
              /\ Resolved(j)[k].velocity =
                   Plus(Times(Scale(j), bodies[k].velocity),
                        Push(k, BodyA(j), PostCollisionVelocity(j, BodyA(j))))
              /\ Resolved(j)[k].position =
                   Plus(Times(Scale(j), bodies[k].position),
                        Push(k, BodyA(j), PostCollisionPosition(j, BodyA(j))))
<1>. DEFINE a == BodyA(j)
            v(k) == Plus(Times(Scale(j), bodies[k].velocity),
                         Push(k, a, PostCollisionVelocity(j, a)))
            p(k) == Plus(Times(Scale(j), bodies[k].position),
                         Push(k, a, PostCollisionPosition(j, a)))
<1>1. a \in Side /\ j \in Side
  BY BodyTypes DEF Ready
<1>2. /\ PostCollisionVelocity(j, a) \in Vectors /\ PostCollisionPosition(j, a) \in Vectors
      /\ Scale(j) \in Nat
  BY <1>1, SolverTypes, LengthTypes
<1>3. Resolved(j) = [k \in Side |-> [bodies[k] EXCEPT !.velocity = v(k), !.position = p(k)]]
  BY DEF Resolved, Push
<1>4. ASSUME NEW k \in Side
      PROVE  v(k) \in Vectors /\ p(k) \in Vectors
  <2>1. InverseMass(k) \in Nat
    BY InverseMassTypes
  <2>2. Share(k, a) \in Int
    BY <2>1 DEF Share
  <2>3. /\ Push(k, a, PostCollisionVelocity(j, a)) \in Vectors
        /\ Push(k, a, PostCollisionPosition(j, a)) \in Vectors
    BY <1>2, <2>2, VectorTypes DEF Push
  <2>4. bodies[k].velocity \in Vectors /\ bodies[k].position \in Vectors
    BY BodyTypes
  <2>. QED
    BY <1>2, <2>3, <2>4, VectorTypes
<1>. HIDE DEF v, p
<1>5. ASSUME NEW k \in Side
      PROVE  LET b == [bodies[k] EXCEPT !.velocity = v(k), !.position = p(k)]
             IN b \in BodyStates /\ b.velocity = v(k) /\ b.position = p(k)
                /\ b.mass = bodies[k].mass /\ b.type = bodies[k].type
  BY <1>4, ColliderTypes DEF BodyStates
<1>6. Resolved(j) \in [Side -> BodyStates]
  BY <1>3, <1>5
<1>. QED
  BY <1>3, <1>5, <1>6 DEF v, p

-----------------------------------------------------------------------------
(* The invariant.                                                            *)

LEMMA StepStarts == Init => StepInv
<1>. SUFFICES ASSUME Init PROVE StepInv
  OBVIOUS
<1>1. PICK b \in [Side -> Bodies] : \E offset \in Offsets :
        bodies = [i \in Side |-> [position |-> IF i = 1 THEN Zero ELSE offset,
                                  velocity |-> b[i].velocity,
                                  mass |-> b[i].mass, type |-> b[i].type]]
  BY DEF Init
<1>2. PICK offset \in Offsets :
        bodies = [i \in Side |-> [position |-> IF i = 1 THEN Zero ELSE offset,
                                  velocity |-> b[i].velocity,
                                  mass |-> b[i].mass, type |-> b[i].type]]
  BY <1>1
<1>3. ASSUME NEW i \in Side
      PROVE  /\ bodies[i] \in BodyStates
             /\ bodies[i].type = "static" => bodies[i].velocity = Zero
  <2>1. /\ b[i].velocity \in Vectors /\ b[i].mass \in Nat \ {0}
        /\ b[i].type \in {"dynamic", "kinematic", "static"}
        /\ b[i].type = "static" => b[i].velocity = Zero
    BY <1>3, CollisionAssumption
  <2>2. (IF i = 1 THEN Zero ELSE offset) \in Vectors
    BY CollisionAssumption, VectorTypes
  <2>. QED
    BY <1>2, <2>1, <2>2 DEF BodyStates
<1>4. /\ bodies \in [Side -> BodyStates] /\ before = bodies
      /\ colliders \in [Side -> Colliders] /\ phase = "begin" /\ scale = 1
  BY <1>2, <1>3 DEF Init
<1>. QED
  BY <1>3, <1>4 DEF StepInv

LEMMA StepMoves == StepInv /\ Move => StepInv'
<1>. SUFFICES ASSUME StepInv, Move PROVE StepInv'
  OBVIOUS
<1>1. /\ phase = "begin" /\ phase' = "moved" /\ scale = 1 /\ scale' = scale
      /\ colliders' = colliders /\ before' = before /\ bodies = before
      /\ bodies' = [i \in Side |-> Moved(bodies[i])]
      /\ before \in [Side -> BodyStates] /\ colliders \in [Side -> Colliders]
      /\ \A i \in Side : before[i].type = "static" => before[i].velocity = Zero
  BY DEF StepInv, Move
<1>2. /\ bodies' \in [Side -> BodyStates] /\ \A i \in Side : bodies'[i] = Moved(before[i])
  BY <1>1, MovedIs
<1>. QED
  BY <1>1, <1>2 DEF StepInv

LEMMA StepDetects == StepInv /\ Detect => StepInv'
<1>. SUFFICES ASSUME StepInv, Detect PROVE StepInv'
  OBVIOUS
<1>1. /\ phase = "moved" /\ phase' \in {"contact", "end"}
      /\ phase' = "contact" => Overlap
      /\ UNCHANGED <<bodies, colliders, scale, before>>
  BY DEF Detect
<1>2. Overlap' <=> Overlap
  BY <1>1 DEF Overlap, Shape
<1>. QED
  BY <1>1, <1>2 DEF StepInv

(* A contact that is solved, by the first collider the solver looks at.      *)
Solves(j) ==
  /\ Ready(j) /\ TotalInverseMass > 0
  /\ bodies' = Resolved(j) /\ scale' = Scale(j)

LEMMA ResolvesOrNot ==
  ASSUME StepInv, NEW i \in Side, ResolveContact(i)
  PROVE  /\ phase = "contact" /\ phase' = "end" /\ colliders' = colliders /\ before' = before
         /\ \/ bodies' = bodies /\ scale' = 1
            \/ HasContact(i) /\ Solves(FirstOf(i))
<1>1. CASE UNCHANGED <<bodies, scale>>
  BY <1>1 DEF ResolveContact, StepInv
<1>2. CASE /\ HasContact(i) /\ TotalInverseMass > 0
           /\ IsBounded(FirstOf(i)) /\ NormalOf(FirstOf(i)) # Zero
           /\ bodies' = Resolved(FirstOf(i)) /\ scale' = Scale(FirstOf(i))
  <2>1. Ready(FirstOf(i))
    BY <1>2, Readies
  <2>. QED
    BY <1>2, <2>1 DEF ResolveContact, Solves
<1>. QED
  BY <1>1, <1>2 DEF ResolveContact

LEMMA StepResolves == ASSUME StepInv, NEW i \in Side, ResolveContact(i) PROVE StepInv'
<1>1. bodies' \in [Side -> BodyStates] /\ scale' \in Nat \ {0}
  <2>1. CASE bodies' = bodies /\ scale' = 1
    BY <2>1 DEF StepInv
  <2>2. CASE Solves(FirstOf(i))
    BY <2>2, ResolvedIs, LengthTypes DEF Solves
  <2>. QED
    BY <2>1, <2>2, ResolvesOrNot
<1>2. /\ phase = "contact" /\ phase' = "end" /\ colliders' = colliders /\ before' = before
  BY ResolvesOrNot
<1>. QED
  BY <1>1, <1>2 DEF StepInv

LEMMA StepTerminates == ASSUME StepInv, NEW i \in Side, Terminate(i) PROVE StepInv'
BY DEF StepInv, Terminate

LEMMA StepAlways == Spec => []StepInv
<1>1. Init => StepInv
  BY StepStarts
<1>2. StepInv /\ [Next]_vars => StepInv'
  <2>. SUFFICES ASSUME StepInv, [Next]_vars PROVE StepInv'
    OBVIOUS
  <2>1. CASE UNCHANGED vars
    <3>1. Overlap' <=> Overlap
      BY <2>1 DEF vars, Overlap, Shape
    <3>. QED
      BY <2>1, <3>1 DEF vars, StepInv
  <2>2. CASE \E i \in Side : ResolveContact(i) \/ Terminate(i)
    BY <2>2, StepResolves, StepTerminates
  <2>. QED
    BY <2>1, <2>2, StepMoves, StepDetects DEF Next
<1>. QED
  BY <1>1, <1>2, PTL DEF Spec

(* Positions and velocities stay vectors, whatever the shapes, masses and    *)
(* types: two bodies without inverse mass, by which the solver divides, are  *)
(* left as they are (World::Update, ContactSolver::ResolveContact).          *)
THEOREM TypeCorrect == Spec => []TypeOK
<1>1. StepInv => TypeOK
  BY ColliderTypes DEF StepInv, TypeOK, BodyStates
<1>. QED
  BY <1>1, StepAlways, PTL

-----------------------------------------------------------------------------
(* Momentum and energy.                                                      *)

LEMMA SquareOfSum ==
  ASSUME NEW s \in Int, NEW v \in Vectors, NEW k \in Int, NEW n \in Vectors
  PROVE  SquareLength(Plus(Times(s, v), Times(k, n)))
           = s * s * SquareLength(v) + 2 * s * k * Dot(v, n) + k * k * SquareLength(n)
<1>. DEFINE a == v.X
            b == v.Y
            c == n.X
            d == n.Y
            w == Plus(Times(s, v), Times(k, n))
<1>1. a \in Int /\ b \in Int /\ c \in Int /\ d \in Int
  BY DEF Vectors
<1>2. w.X = s * a + k * c /\ w.Y = s * b + k * d
  BY Coordinates
<1>3. /\ SquareLength(w) = w.X * w.X + w.Y * w.Y
      /\ SquareLength(v) = a * a + b * b /\ SquareLength(n) = c * c + d * d
      /\ Dot(v, n) = a * c + b * d
  BY DEF SquareLength, Dot
<1>. HIDE DEF a, b, c, d, w
<1>4. /\ (s * a + k * c) * (s * a + k * c) = s * s * (a * a) + 2 * s * k * (a * c) + k * k * (c * c)
      /\ (s * b + k * d) * (s * b + k * d) = s * s * (b * b) + 2 * s * k * (b * d) + k * k * (d * d)
  BY <1>1
<1>5. SquareLength(w) = s * s * (a * a) + 2 * s * k * (a * c) + k * k * (c * c)
                        + (s * s * (b * b) + 2 * s * k * (b * d) + k * k * (d * d))
  BY <1>2, <1>3, <1>4
<1>6. s * s * (a * a) + 2 * s * k * (a * c) + k * k * (c * c)
        + (s * s * (b * b) + 2 * s * k * (b * d) + k * k * (d * d))
      = s * s * (a * a + b * b) + 2 * s * k * (a * c + b * d) + k * k * (c * c + d * d)
  BY <1>1
<1>. QED
  BY <1>3, <1>5, <1>6 DEF w

(* A push against the velocity in which bodies approach, with at most as     *)
(* much for restitution, gives no energy to bodies of masses m and n and     *)
(* inverse masses i and j; p and q are their velocities along the normal.    *)
LEMMA PushOfTwo ==
  ASSUME NEW m \in Nat, NEW n \in Nat, NEW i \in Nat, NEW j \in Nat,
         NEW t \in Nat, NEW d \in Nat, d = i + j,
         NEW l \in Nat, NEW w \in Nat, w <= 4 * t,
         NEW p \in Int, NEW q \in Int, p - q <= 0, NEW s \in Int, NEW c \in Int,
         s = 4 * l * t * d, c = (4 * t + w) * (-(p - q)),
         i = n \/ (i = 0 /\ p = 0), j = m \/ (j = 0 /\ q = 0),
         NEW e \in Int, NEW f \in Int
  PROVE  m * (s * s * e + 2 * s * (i * c) * p + (i * c) * (i * c) * l)
           + n * (s * s * f + 2 * s * (-j * c) * q + (-j * c) * (-j * c) * l)
         <= m * (s * s * e) + n * (s * s * f)
<1>. DEFINE u == p - q
            g == m * n
            h == 2 * s * u + d * c * l
<1>1. /\ u \in Int /\ u <= 0 /\ c = (4 * t + w) * (-u)
      /\ g \in Nat
  OBVIOUS
<1>2. m * i * p - (n * j * q) = g * u
  <2>1. m * i * p = g * p
    <3>1. m * i * p = m * n * p \/ (i = 0 /\ p = 0)
      OBVIOUS
    <3>2. p = 0 => m * i * p = 0 /\ g * p = 0
      OBVIOUS
    <3>. QED
      BY <3>1, <3>2
  <2>2. n * j * q = g * q
    <3>1. j = m => n * j * q = g * q
      OBVIOUS
    <3>2. q = 0 => n * j * q = 0 /\ g * q = 0
      OBVIOUS
    <3>. QED
      BY <3>1, <3>2
  <2>3. g * u = g * p - (g * q) /\ g * p \in Int /\ g * q \in Int
    BY <1>1
  <2>. QED
    BY <2>1, <2>2, <2>3
<1>3. m * (i * i) + n * (j * j) = g * d
  <2>1. m * (i * i) = g * i
    <3>1. i = n => m * (i * i) = g * i
      OBVIOUS
    <3>2. i = 0 => m * (i * i) = 0 /\ g * i = 0
      OBVIOUS
    <3>. QED
      BY <3>1, <3>2
  <2>2. n * (j * j) = g * j
    <3>1. j = m => n * (j * j) = g * j
      OBVIOUS
    <3>2. j = 0 => n * (j * j) = 0 /\ g * j = 0
      OBVIOUS
    <3>. QED
      BY <3>1, <3>2
  <2>3. g * d = g * i + g * j /\ g * i \in Int /\ g * j \in Int
    BY <1>1
  <2>. QED
    BY <2>1, <2>2, <2>3
<1>. DEFINE total == m * (s * s * e + 2 * s * (i * c) * p + (i * c) * (i * c) * l)
                       + n * (s * s * f + 2 * s * (-j * c) * q + (-j * c) * (-j * c) * l)
            old == m * (s * s * e) + n * (s * s * f)
            first == m * i * p - (n * j * q)
            second == m * (i * i) + n * (j * j)
<1>4. total = old + (2 * s * c) * first + (c * c * l) * second
  OBVIOUS
<1>5. (2 * s * c) * (g * u) + (c * c * l) * (g * d) = (g * c) * h
  BY <1>1
<1>6. old \in Int /\ total \in Int
  OBVIOUS
<1>7. total = old + (g * c) * h
  <2>. HIDE DEF total, old, first, second, g, u, h
  <2>1. first = g * u /\ second = g * d
    BY <1>2, <1>3 DEF first, second
  <2>2. (2 * s * c) * (g * u) \in Int /\ (c * c * l) * (g * d) \in Int
    BY <1>1
  <2>. QED
    BY <1>4, <1>5, <1>6, <2>1, <2>2
<1>8. h = (l * d) * (u * (4 * t - w))
  <2>. HIDE DEF u
  <2>1. h = 2 * (4 * l * t * d) * u + d * ((4 * t + w) * (-u)) * l
    BY <1>1
  <2>. QED
    BY <1>1, <2>1
<1>. HIDE DEF total, old, u, g, h
<1>9. \A x, y \in Int : x >= 0 /\ y >= 0 => x * y >= 0
  OBVIOUS
<1>10. \A x, y \in Int : x >= 0 /\ y <= 0 => x * y <= 0
  OBVIOUS
<1>11. h \in Int /\ h <= 0
  <2>1. 4 * t - w \in Int /\ 4 * t - w >= 0 /\ l * d \in Int /\ l * d >= 0
    BY <1>9
  <2>2. (4 * t - w) * u <= 0
    BY <1>1, <1>10, <2>1
  <2>3. u * (4 * t - w) \in Int /\ u * (4 * t - w) <= 0
    BY <1>1, <2>1, <2>2
  <2>. QED
    BY <1>8, <1>10, <2>1, <2>3
<1>12. g * c \in Int /\ g * c >= 0
  <2>1. 4 * t + w \in Int /\ 4 * t + w >= 0 /\ -u \in Int /\ -u >= 0
    BY <1>1
  <2>2. c >= 0
    BY <1>1, <1>9, <2>1
  <2>. QED
    BY <1>1, <1>9, <2>2
<1>13. (g * c) * h \in Int /\ (g * c) * h <= 0
  BY <1>10, <1>11, <1>12
<1>14. total <= old
  BY <1>6, <1>7, <1>13
<1>. QED
  BY <1>14 DEF total, old

LEMMA SquareOfTimes ==
  ASSUME NEW k \in Int, NEW v \in Vectors
  PROVE  SquareLength(Times(k, v)) = k * k * SquareLength(v)
<1>. DEFINE a == v.X
            b == v.Y
            w == Times(k, v)
<1>1. a \in Int /\ b \in Int /\ w.X = k * a /\ w.Y = k * b
  BY Coordinates DEF Vectors
<1>2. SquareLength(v) = a * a + b * b /\ SquareLength(w) = w.X * w.X + w.Y * w.Y
  BY DEF SquareLength, Dot
<1>. HIDE DEF a, b, w
<1>3. (k * a) * (k * a) + (k * b) * (k * b) = k * k * (a * a + b * b)
  BY <1>1
<1>4. SquareLength(w) = k * k * SquareLength(v)
  BY <1>1, <1>2, <1>3
<1>. QED
  BY <1>4 DEF w

LEMMA TimesTimes ==
  ASSUME NEW k \in Int, NEW c \in Int, NEW v \in Vectors
  PROVE  Times(k, Times(c, v)) = Times(k * c, v)
<1>1. v.X \in Int /\ v.Y \in Int
  BY DEF Vectors
<1>2. k * (c * v.X) = (k * c) * v.X /\ k * (c * v.Y) = (k * c) * v.Y
  BY <1>1
<1>. QED
  BY <1>2 DEF Times, Vec2

LEMMA SumOfTimes ==
  ASSUME NEW m, NEW n, NEW v, NEW w
  PROVE  Plus(Times(m, v), Times(n, w)) = Vec2(m * v.X + n * w.X, m * v.Y + n * w.Y)
BY DEF Plus, Times, Vec2

LEMMA NothingAdded ==
  ASSUME NEW v \in Vectors, NEW k \in Int
  PROVE  Plus(v, Zero) = v /\ Times(k, Zero) = Zero
<1>1. v.X \in Int /\ v.Y \in Int /\ v = Vec2(v.X, v.Y)
  BY VectorParts
<1>2. v.X + 0 = v.X /\ v.Y + 0 = v.Y /\ k * 0 = 0
  BY <1>1
<1>. QED
  BY <1>1, <1>2 DEF Plus, Times, Zero, Vec2

(* The two shares of a change: none for a body that is not dynamic.          *)
LEMMA Pushes ==
  ASSUME StepInv, NEW a \in Side, NEW change \in Vectors
  PROVE  /\ Push(a, a, change) = Times(InverseMass(a), change)
         /\ Push(OtherSide(a), a, change) = Times(-InverseMass(OtherSide(a)), change)
<1>. DEFINE b == OtherSide(a)
            i == InverseMass(a)
            k == InverseMass(b)
<1>1. b \in Side /\ b # a /\ i \in Nat /\ k \in Nat
  BY Sides, InverseMassTypes
<1>2. /\ bodies[a].type # "dynamic" => i = 0
      /\ bodies[b].type # "dynamic" => k = 0
  BY DEF InverseMass
<1>3. Share(a, a) = i * 1 /\ Share(b, a) = k * (-1)
  BY <1>1 DEF Share
<1>4. Zero = Times(0, change)
  <2>1. change.X \in Int /\ change.Y \in Int
    BY DEF Vectors
  <2>2. 0 * change.X = 0 /\ 0 * change.Y = 0
    BY <2>1
  <2>. QED
    BY <2>2 DEF Times, Zero
<1>5. /\ Push(a, a, change) = IF bodies[a].type = "dynamic" THEN Times(i * 1, change) ELSE Zero
      /\ Push(b, a, change) = IF bodies[b].type = "dynamic" THEN Times(k * (-1), change) ELSE Zero
  BY <1>3 DEF Push
<1>. HIDE DEF i, k, b
<1>6. i * 1 = i /\ k * (-1) = -k /\ (i = 0 => i = 0) /\ (k = 0 => -k = 0)
  BY <1>1
<1>7. Push(a, a, change) = Times(i, change) /\ Push(b, a, change) = Times(-k, change)
  BY <1>2, <1>4, <1>5, <1>6
<1>. QED
  BY <1>7 DEF i, k, b

(* What a solved contact starts from, in the scale of its result.            *)
LEMMA FromContact ==
  ASSUME StepInv, phase = "contact", before' = before, NEW j, Solves(j), NEW k \in Side
  PROVE  /\ AtContact'[k].velocity = Times(Scale(j), bodies[k].velocity)
         /\ AtContact'[k].position = Times(Scale(j), bodies[k].position)
         /\ bodies'[k].mass = bodies[k].mass /\ bodies'[k].type = bodies[k].type
<1>1. bodies[k] = Moved(before[k]) /\ before'[k] = before[k] /\ scale' = Scale(j)
  BY DEF StepInv, Solves
<1>2. bodies'[k].mass = bodies[k].mass /\ bodies'[k].type = bodies[k].type
  BY ResolvedIs DEF Solves
<1>. QED
  BY <1>1, <1>2 DEF AtContact

LEMMA KeepsMomentum ==
  ASSUME StepInv, phase = "contact", before' = before, NEW j, Solves(j),
         \A i \in Side : bodies'[i].type = "dynamic"
  PROVE  Momentum(bodies)' = Momentum(AtContact)'
<1>. DEFINE a == BodyA(j)
            c == PostCollisionVelocity(j, a)
            s == Scale(j)
            m == bodies[1].mass
            n == bodies[2].mass
            v == bodies[1].velocity
            w == bodies[2].velocity
            sign == IF a = 1 THEN 1 ELSE -1
            x == Plus(Times(s, v), Times(n * sign, c))
            y == Plus(Times(s, w), Times(m * (-sign), c))
<1>1. Ready(j) /\ j \in Side /\ 1 \in Side /\ 2 \in Side
  BY Sides DEF Solves, Ready
<1>2. a \in Side /\ (a = 1 \/ a = 2)
  BY <1>1, BodyTypes, Sides
<1>3. /\ c \in Vectors /\ s \in Int /\ m \in Int /\ n \in Int /\ v \in Vectors /\ w \in Vectors
      /\ sign \in {1, -1}
  BY <1>1, <1>2, SolverTypes, LengthTypes, BodyTypes
<1>4. \A i \in Side : bodies[i].type = "dynamic"
  BY FromContact
<1>5. /\ Push(1, a, c) = Times(n * sign, c) /\ Push(2, a, c) = Times(m * (-sign), c)
  <2>1. Share(1, a) = n * sign /\ Share(2, a) = m * (-sign)
    BY <1>1, <1>2, <1>4 DEF Share, InverseMass, OtherSide
  <2>. QED
    BY <1>1, <1>4, <2>1 DEF Push
<1>6. bodies'[1].velocity = x /\ bodies'[2].velocity = y
  BY <1>1, <1>5, ResolvedIs DEF Solves
<1>7. /\ bodies'[1].mass = m /\ bodies'[2].mass = n
      /\ AtContact'[1].velocity = Times(s, v) /\ AtContact'[2].velocity = Times(s, w)
  BY <1>1, FromContact
<1>. HIDE DEF a, c, s, m, n, v, w, sign
<1>8. Plus(Times(m, x), Times(n, y)) = Plus(Times(m, Times(s, v)), Times(n, Times(s, w)))
  <2>1. v.X \in Int /\ v.Y \in Int /\ w.X \in Int /\ w.Y \in Int /\ c.X \in Int /\ c.Y \in Int
    BY <1>3 DEF Vectors
  <2>2. /\ m * x.X + n * y.X = m * (s * v.X) + n * (s * w.X)
        /\ m * x.Y + n * y.Y = m * (s * v.Y) + n * (s * w.Y)
    <3>1. /\ x.X = s * v.X + (n * sign) * c.X /\ y.X = s * w.X + (m * (-sign)) * c.X
          /\ x.Y = s * v.Y + (n * sign) * c.Y /\ y.Y = s * w.Y + (m * (-sign)) * c.Y
      BY Coordinates
    <3>2. m * (s * v.X + (n * sign) * c.X) + n * (s * w.X + (m * (-sign)) * c.X)
            = m * (s * v.X) + n * (s * w.X)
      BY <1>3, <2>1
    <3>3. m * (s * v.Y + (n * sign) * c.Y) + n * (s * w.Y + (m * (-sign)) * c.Y)
            = m * (s * v.Y) + n * (s * w.Y)
      BY <1>3, <2>1
    <3>. HIDE DEF x, y
    <3>. QED
      BY <3>1, <3>2, <3>3, Zenon
  <2>. HIDE DEF x, y
  <2>3. Plus(Times(m, x), Times(n, y)) = Vec2(m * x.X + n * y.X, m * x.Y + n * y.Y)
    BY SumOfTimes
  <2>4. Plus(Times(m, Times(s, v)), Times(n, Times(s, w)))
          = Vec2(m * Times(s, v).X + n * Times(s, w).X, m * Times(s, v).Y + n * Times(s, w).Y)
    BY SumOfTimes
  <2>. QED
    BY <2>2, <2>3, <2>4, Coordinates
<1>. QED
  BY <1>6, <1>7, <1>8 DEF Momentum

LEMMA GivesNoEnergy ==
  ASSUME StepInv, phase = "contact", before' = before, NEW j, Solves(j),
         \A z \in Side : bodies'[z].type = "dynamic" \/ before'[z].velocity = Zero
  PROVE  Energy(bodies)' <= Energy(AtContact)'
<1>. DEFINE a == BodyA(j)
            b == OtherSide(a)
            m == bodies[a].mass
            n == bodies[b].mass
            i == InverseMass(a)
            k == InverseMass(b)
            d == TotalInverseMass
            v == bodies[a].velocity
            w == bodies[b].velocity
            s == Scale(j)
            normal == NormalTo(j, a)
            l == SquareLength(normal)
            weight == WeightedRestitution(j)
            u == SeparatingVelocity(j, a)
            c == (4 * (m + n) + weight) * (-u)
            change == PostCollisionVelocity(j, a)
            x == bodies'[a].velocity
            y == bodies'[b].velocity
<1>1. Ready(j) /\ j \in Side
  BY DEF Solves, Ready
<1>2. a \in Side /\ b \in Side /\ a # b /\ {a, b} = {1, 2}
  BY <1>1, BodyTypes, Sides
<1>3. /\ m \in Nat \ {0} /\ n \in Nat \ {0} /\ v \in Vectors /\ w \in Vectors
      /\ Masses = m + n /\ s \in Int /\ normal \in Vectors /\ u \in Int /\ change \in Vectors
      /\ i \in Nat /\ k \in Nat /\ d \in Nat /\ d = i + k
  <2>1. /\ m \in Nat \ {0} /\ n \in Nat \ {0} /\ v \in Vectors /\ w \in Vectors
        /\ Masses = m + n /\ s \in Int /\ normal \in Vectors /\ u \in Int /\ change \in Vectors
    BY <1>1, <1>2, BodyTypes, LengthTypes, NormalToTypes, SolverTypes
  <2>2. i \in Nat /\ k \in Nat /\ d \in Nat /\ d = i + k
    BY <1>2, InverseMassTypes
  <2>. QED
    BY <2>1, <2>2
<1>4. /\ l \in Nat /\ s = 4 * l * (m + n) * d
      /\ weight \in Nat /\ weight <= 4 * (m + n) /\ c \in Int
  <2>1. l = SquareLength(NormalOf(j)) /\ s = 4 * SquareLength(NormalOf(j)) * Masses * d
    BY <1>1, LengthTypes, NormalToTypes
  <2>2. l \in Nat
    BY <1>3, SquareLengthTypes
  <2>3. weight \in Nat /\ weight <= 4 * Masses
    BY <1>1, WeightedTypes
  <2>. HIDE DEF m, n, l, weight, u, s, d
  <2>. QED
    BY <1>3, <2>1, <2>2, <2>3
<1>5. /\ x = Plus(Times(s, v), Push(a, a, change))
      /\ y = Plus(Times(s, w), Push(b, a, change))
  BY <1>1, <1>2, ResolvedIs DEF Solves
<1>6. Push(a, a, change) = Times(i, change) /\ Push(b, a, change) = Times(-k, change)
  BY <1>2, <1>3, Pushes
<1>7. /\ Energy(bodies)' = m * SquareLength(x) + n * SquareLength(y)
      /\ Energy(AtContact)' = m * SquareLength(Times(s, v)) + n * SquareLength(Times(s, w))
  <2>1. /\ bodies'[a].mass = m /\ bodies'[b].mass = n
        /\ AtContact'[a].velocity = Times(s, v) /\ AtContact'[b].velocity = Times(s, w)
    BY <1>2, FromContact
  <2>2. x \in Vectors /\ y \in Vectors
    <3>1. bodies' \in [Side -> BodyStates]
      BY <1>1, ResolvedIs DEF Solves
    <3>. QED
      BY <1>2, <3>1 DEF BodyStates
  <2>3. /\ SquareLength(x) \in Int /\ SquareLength(y) \in Int
        /\ SquareLength(Times(s, v)) \in Int /\ SquareLength(Times(s, w)) \in Int
    <3>1. Times(s, v) \in Vectors /\ Times(s, w) \in Vectors
      BY <1>3, VectorTypes
    <3>. HIDE DEF x, y, s, v, w
    <3>. QED
      BY <2>2, <3>1, SquareLengthTypes
  <2>4. \A p, q, e, f \in Int : p * e + q * f = q * f + p * e
    OBVIOUS
  <2>5. CASE a = 1 /\ b = 2
    BY <2>1, <2>5 DEF Energy
  <2>6. CASE a = 2 /\ b = 1
    <3>1. /\ Energy(bodies)' = n * SquareLength(y) + m * SquareLength(x)
          /\ Energy(AtContact)' = n * SquareLength(Times(s, w)) + m * SquareLength(Times(s, v))
      BY <2>1, <2>6 DEF Energy
    <3>. HIDE DEF m, n, x, y, v, w, s
    <3>. QED
      BY <1>3, <2>3, <2>4, <3>1
  <2>. QED
    BY <1>2, <2>5, <2>6
<1>8. i = n \/ (i = 0 /\ v = Zero)
  <2>1. bodies'[a].type = bodies[a].type /\ bodies[a] = Moved(before[a])
    BY <1>2, FromContact DEF StepInv
  <2>2. v = before[a].velocity
    BY <1>2, <2>1, MovedIs DEF StepInv
  <2>. QED
    BY <1>2, <2>1, <2>2 DEF InverseMass
<1>0. k = m \/ (k = 0 /\ w = Zero)
  <2>1. bodies'[b].type = bodies[b].type /\ bodies[b] = Moved(before[b])
    BY <1>2, FromContact DEF StepInv
  <2>2. w = before[b].velocity
    BY <1>2, <2>1, MovedIs DEF StepInv
  <2>3. OtherSide(b) = a
    BY <1>1, BodyTypes, Sides
  <2>. QED
    BY <1>2, <2>1, <2>2, <2>3 DEF InverseMass
<1>9. change = IF u > 0 THEN Zero ELSE Times(c, normal)
  BY <1>3 DEF PostCollisionVelocity
<1>10. u = Dot(v, normal) - Dot(w, normal)
  <2>1. u = Dot(Minus(v, w), normal)
    BY DEF SeparatingVelocity
  <2>2. /\ Minus(v, w).X = v.X - w.X /\ Minus(v, w).Y = v.Y - w.Y
        /\ {v.X, v.Y, w.X, w.Y, normal.X, normal.Y} \subseteq Int
    BY <1>3, Coordinates DEF Vectors
  <2>. HIDE DEF u, v, w, normal
  <2>. QED
    BY <2>1, <2>2 DEF Dot
<1>11. Dot(v, normal) \in Int /\ Dot(w, normal) \in Int
  BY <1>3, VectorTypes
<1>12. CASE u > 0
  <2>1. Push(a, a, change) = Zero /\ Push(b, a, change) = Zero
    <3>1. i \in Int /\ -k \in Int
      BY <1>3
    <3>2. change = Zero
      BY <1>9, <1>12
    <3>. HIDE DEF i, k, change, a, b
    <3>. QED
      BY <1>6, <3>1, <3>2, NothingAdded, VectorTypes
  <2>2. x = Times(s, v) /\ y = Times(s, w)
    BY <1>3, <1>5, <2>1, NothingAdded, VectorTypes
  <2>3. SquareLength(x) \in Int /\ SquareLength(y) \in Int
    <3>1. x \in Vectors /\ y \in Vectors
      BY <1>3, <2>2, VectorTypes
    <3>. HIDE DEF x, y
    <3>. QED
      BY <3>1, SquareLengthTypes
  <2>4. Energy(bodies)' = Energy(AtContact)' /\ Energy(AtContact)' \in Int
    BY <1>3, <1>7, <2>2, <2>3
  <2>. QED
    BY <2>4
<1>. HIDE DEF a, b, m, n, i, k, d, v, w, s, normal, l, weight, u, c, change, x, y
<1>13. CASE ~(u > 0)
  <2>1. /\ SquareLength(v) \in Int /\ SquareLength(w) \in Int
        /\ SquareLength(Times(s, v)) = s * s * SquareLength(v)
        /\ SquareLength(Times(s, w)) = s * s * SquareLength(w)
    BY <1>3, SquareLengthTypes, SquareOfTimes
  <2>2. u <= 0 /\ change = Times(c, normal)
    BY <1>3, <1>9, <1>13
  <2>3. x = Plus(Times(s, v), Times(i * c, normal))
    <3>1. Times(i, Times(c, normal)) = Times(i * c, normal)
      BY <1>3, <1>4, TimesTimes
    <3>. QED
      BY <1>5, <1>6, <2>2, <3>1
  <2>4. SquareLength(x) = s * s * SquareLength(v) + 2 * s * (i * c) * Dot(v, normal)
                          + (i * c) * (i * c) * l
    <3>1. i * c \in Int
      BY <1>3, <1>4
    <3>. QED
      BY <1>3, <2>3, <3>1, SquareOfSum DEF l
  <2>5. y = Plus(Times(s, w), Times(-k * c, normal))
    <3>1. -k \in Int /\ Times(-k, Times(c, normal)) = Times((-k) * c, normal)
      BY <1>3, <1>4, TimesTimes
    <3>2. (-k) * c = -k * c
      BY <1>3, <1>4
    <3>. QED
      BY <1>5, <1>6, <2>2, <3>1, <3>2
  <2>6. SquareLength(y) = s * s * SquareLength(w) + 2 * s * (-k * c) * Dot(w, normal)
                          + (-k * c) * (-k * c) * l
    <3>1. -k * c \in Int
      BY <1>3, <1>4
    <3>. QED
      BY <1>3, <2>5, <3>1, SquareOfSum DEF l
  <2>7. c = (4 * (m + n) + weight) * (-u)
    BY DEF c
  <2>. DEFINE p == Dot(v, normal)
              q == Dot(w, normal)
              e == SquareLength(v)
              f == SquareLength(w)
  <2>8. (v = Zero => p = 0) /\ (w = Zero => q = 0)
    <3>1. {normal.X, normal.Y} \subseteq Int /\ Zero.X = 0 /\ Zero.Y = 0
      BY <1>3, Coordinates DEF Vectors
    <3>2. Zero.X * normal.X + Zero.Y * normal.Y = 0
      BY <3>1
    <3>. QED
      BY <3>2 DEF Dot
  <2>9. m * (s * s * e + 2 * s * (i * c) * p + (i * c) * (i * c) * l)
          + n * (s * s * f + 2 * s * (-k * c) * q + (-k * c) * (-k * c) * l)
        <= m * (s * s * e) + n * (s * s * f)
    <3>. DEFINE t == m + n
    <3>1. /\ p - q <= 0 /\ c = (4 * t + weight) * (-(p - q))
          /\ p \in Int /\ q \in Int /\ e \in Int /\ f \in Int
      BY <1>10, <1>11, <2>1, <2>2, <2>7
    <3>2. m \in Nat /\ n \in Nat /\ t \in Nat /\ weight <= 4 * t /\ s = 4 * l * t * d
      BY <1>3, <1>4
    <3>3. (i = n \/ (i = 0 /\ p = 0)) /\ (k = m \/ (k = 0 /\ q = 0))
      BY <1>0, <1>8, <2>8
    <3>4. i \in Nat /\ k \in Nat /\ d \in Nat /\ d = i + k
      BY <1>3
    <3>5. l \in Nat /\ weight \in Nat /\ s \in Int /\ c \in Int
      BY <1>3, <1>4
    <3>. HIDE DEF p, q, e, f, t
    <3>. QED
      BY <3>1, <3>2, <3>3, <3>4, <3>5, PushOfTwo, SMTT(60)
  <2>. QED
    BY <1>7, <2>1, <2>4, <2>6, <2>9
<1>. QED
  BY <1>3, <1>12, <1>13

(* Only a contact that is solved makes a state in which one is solved.       *)
LEMMA SolvedBy ==
  ASSUME StepInv, [Next]_vars, Solved', ~UNCHANGED vars
  PROVE  /\ phase = "contact" /\ before' = before /\ colliders' = colliders
         /\ \E i \in Side : HasContact(i) /\ Solves(FirstOf(i))
<1>1. phase' = "end" /\ scale' > 1
  BY DEF Solved
<1>2. ~Move /\ ~\E i \in Side : Terminate(i)
  BY <1>1 DEF Move, Terminate
<1>3. ~Detect
  BY <1>1 DEF Detect, StepInv
<1>4. PICK i \in Side : ResolveContact(i)
  BY <1>2, <1>3 DEF Next
<1>5. /\ phase = "contact" /\ before' = before /\ colliders' = colliders
      /\ (bodies' = bodies /\ scale' = 1) \/ (HasContact(i) /\ Solves(FirstOf(i)))
  BY <1>4, ResolvesOrNot
<1>. QED
  BY <1>1, <1>5

(* Two balls keep their momentum, and neither they nor a ball at a wall are  *)
(* given energy, for any masses, restitutions and positions; the wall takes  *)
(* none of the impulse (ResolvePostCollisionVelocity).                       *)
THEOREM LawsKept == Spec => []ConservationLaws
<1>1. Init => ConservationLaws
  BY DEF Init, ConservationLaws, Solved
<1>2. StepInv /\ ConservationLaws /\ [Next]_vars => ConservationLaws'
  <2>. SUFFICES ASSUME StepInv, ConservationLaws, [Next]_vars, Solved'
                PROVE  /\ (\A i \in Side : bodies'[i].type = "dynamic") =>
                            Momentum(bodies)' = Momentum(AtContact)'
                       /\ (\A i \in Side : bodies'[i].type = "dynamic"
                                             \/ before'[i].velocity = Zero) =>
                            Energy(bodies)' <= Energy(AtContact)'
    BY DEF ConservationLaws
  <2>1. CASE UNCHANGED vars
    <3>1. UNCHANGED <<bodies, colliders, phase, scale, before>>
      BY <2>1 DEF vars
    <3>2. AtContact' = AtContact /\ Solved
      BY <3>1 DEF AtContact, Solved
    <3>. QED
      BY <3>1, <3>2 DEF ConservationLaws, Momentum, Energy
  <2>2. CASE ~UNCHANGED vars
    <3>1. PICK i \in Side : Solves(FirstOf(i))
      BY <2>2, SolvedBy
    <3>2. phase = "contact" /\ before' = before
      BY <2>2, SolvedBy
    <3>. QED
      BY <3>1, <3>2, KeepsMomentum, GivesNoEnergy
  <2>. QED
    BY <2>1, <2>2
<1>. QED
  BY <1>1, <1>2, StepAlways, PTL DEF Spec

-----------------------------------------------------------------------------
(* A contact without a normal.                                               *)

LEMMA CircleWithCircle ==
  ASSUME NEW s, NEW t, s.kind = "circle", t.kind = "circle"
  PROVE  Intersect(s, t) = CirclesIntersect(s, t)
BY Zenon DEF Intersect

LEMMA CircleWithRectangle ==
  ASSUME NEW s, NEW t, s.kind = "circle", t.kind = "rectangle"
  PROVE  /\ Intersect(s, t) = RectangleIntersectsCircle(t, s)
         /\ Intersect(t, s) = RectangleIntersectsCircle(t, s)
<1>1. Intersect(s, t) = RectangleIntersectsCircle(t, s)
  BY Zenon DEF Intersect
<1>2. Intersect(t, s) = RectangleIntersectsCircle(t, s)
  BY Zenon DEF Intersect
<1>. QED
  BY <1>1, <1>2

LEMMA RectangleWithRectangle ==
  ASSUME NEW s, NEW t, s.kind = "rectangle", t.kind = "rectangle"
  PROVE  Intersect(s, t) = RectanglesIntersect(s, t)
BY Zenon DEF Intersect

LEMMA IntersectTurned ==
  ASSUME NEW s \in AllShapes, NEW t \in AllShapes,
         s.kind \in {"circle", "rectangle"}, t.kind \in {"circle", "rectangle"},
         Intersect(s, t)
  PROVE  Intersect(t, s)
<1>1. CASE s.kind = "circle" /\ t.kind = "circle"
  <2>. DEFINE a == s.center
              b == t.center
              e == s.radius
              f == t.radius
  <2>1. /\ a \in Vectors /\ b \in Vectors /\ e \in Nat /\ f \in Nat
    BY <1>1 DEF AllShapes, Circles, Rectangles, Polygons
  <2>2. /\ SquareLength(Minus(a, b)) <= (e + f) * (e + f)
        /\ Intersect(t, s) <=> SquareLength(Minus(b, a)) <= (f + e) * (f + e)
    BY <1>1, CircleWithCircle DEF CirclesIntersect
  <2>. HIDE DEF a, b, e, f
  <2>3. /\ Minus(a, b).X = a.X - b.X /\ Minus(a, b).Y = a.Y - b.Y
        /\ Minus(b, a).X = b.X - a.X /\ Minus(b, a).Y = b.Y - a.Y
        /\ {a.X, a.Y, b.X, b.Y} \subseteq Int
    BY <2>1, Coordinates DEF Vectors
  <2>4. \A x, y \in Int : (x - y) * (x - y) = (y - x) * (y - x)
    OBVIOUS
  <2>5. SquareLength(Minus(a, b)) = SquareLength(Minus(b, a))
    BY <2>3, <2>4 DEF SquareLength, Dot
  <2>6. e + f = f + e
    BY <2>1
  <2>. QED
    BY <2>2, <2>5, <2>6
<1>2. CASE s.kind # t.kind
  BY <1>2, CircleWithRectangle
<1>3. CASE s.kind = "rectangle" /\ t.kind = "rectangle"
  <2>1. s \in Rectangles /\ t \in Rectangles
    BY <1>3 DEF AllShapes, Circles, Rectangles, Polygons
  <2>2. /\ {s.minBound.X, s.maxBound.X, t.minBound.X, t.maxBound.X} \subseteq Int
        /\ {s.minBound.Y, s.maxBound.Y, t.minBound.Y, t.maxBound.Y} \subseteq Int
    BY <2>1 DEF Rectangles, Vectors
  <2>. QED
    BY <1>3, <2>2, RectangleWithRectangle DEF RectanglesIntersect
<1>. QED
  BY <1>1, <1>2, <1>3

(* On a line: from a point x outside an interval, a step w into it passes    *)
(* its nearer end.                                                           *)
LEMMA PassesEnd ==
  ASSUME NEW x \in Int, NEW w \in Int, NEW low \in Int, NEW high \in Int,
         low <= x + w, x + w <= high, ~(low <= x /\ x <= high)
  PROVE  \E end \in {low, high} : (x - end) * (x - end) <= w * w
<1>1. \A m, n \in Int : 0 <= m /\ m <= n => m * m <= n * n
  OBVIOUS
<1>2. CASE x < low
  <2>1. 0 <= low - x /\ low - x <= w
    BY <1>2
  <2>2. (low - x) * (low - x) <= w * w
    BY <1>1, <2>1
  <2>3. (low - x) * (low - x) = (x - low) * (x - low)
    OBVIOUS
  <2>. QED
    BY <2>2, <2>3
<1>3. CASE x > high
  <2>1. 0 <= x - high /\ x - high <= -w
    BY <1>3
  <2>2. (x - high) * (x - high) <= (-w) * (-w)
    BY <1>1, <2>1
  <2>3. (-w) * (-w) = w * w
    OBVIOUS
  <2>. QED
    BY <2>2, <2>3
<1>. QED
  BY <1>2, <1>3

(* A circle meets a rectangle if a point of it is at most the radius away.   *)
LEMMA WithinReach ==
  ASSUME NEW r \in Rectangles, NEW c \in Circles, NEW w \in Vectors,
         RectangleContains(r, Plus(c.center, w)), SquareLength(w) <= c.radius * c.radius
  PROVE  RectangleIntersectsCircle(r, c)
<1>. DEFINE x == c.center.X
            y == c.center.Y
            u == w.X
            v == w.Y
            left == r.minBound.X
            right == r.maxBound.X
            bottom == r.minBound.Y
            top == r.maxBound.Y
            d == c.radius
<1>1. /\ {x, y, u, v, left, right, bottom, top} \subseteq Int /\ d \in Nat
  BY DEF Circles, Rectangles, Vectors
<1>2. /\ left <= x + u /\ x + u <= right /\ bottom <= y + v /\ y + v <= top
  BY Coordinates DEF RectangleContains
<1>3. u * u + v * v <= d * d
  BY DEF SquareLength, Dot
<1>4. RectangleIntersectsCircle(r, c) <=>
        \/ left <= x /\ x <= right /\ bottom <= y /\ y <= top
        \/ left - d <= x /\ x <= right + d /\ bottom - 0 <= y /\ y <= top + 0
        \/ left - 0 <= x /\ x <= right + 0 /\ bottom - d <= y /\ y <= top + d
        \/ \E i \in 1..4 : CircleContains(c, CornersOf(r)[i])
  BY DEF RectangleIntersectsCircle, RectangleContains, Rectangle, Minus, Plus, Vec2
<1>5. \A s \in {left, right}, t \in {bottom, top} :
        \E i \in 1..4 : CornersOf(r)[i] = Vec2(s, t)
  <2>1. /\ r.minBound = Vec2(left, bottom) /\ r.maxBound = Vec2(right, top)
    BY DEF Rectangles, Vectors, Vec2
  <2>2. /\ CornersOf(r)[1] = r.minBound /\ CornersOf(r)[2] = Vec2(left, top)
        /\ CornersOf(r)[3] = r.maxBound /\ CornersOf(r)[4] = Vec2(right, bottom)
    BY DEF CornersOf
  <2>. QED
    BY <2>1, <2>2
<1>6. ASSUME NEW s \in Int, NEW t \in Int, (x - s) * (x - s) + (y - t) * (y - t) <= d * d
      PROVE  CircleContains(c, Vec2(s, t))
  BY <1>6 DEF CircleContains, SquareLength, Dot, Minus, Vec2
<1>. HIDE DEF x, y, u, v, left, right, bottom, top, d
<1>7. u * u >= 0 /\ v * v >= 0
  BY <1>1
<1>8. \A n \in Int : n * n <= d * d => -d <= n /\ n <= d
  <2>. SUFFICES ASSUME NEW n \in Int, n * n <= d * d PROVE -d <= n /\ n <= d
    OBVIOUS
  <2>1. \A k, m \in Nat : k < m => k * k < m * m
    OBVIOUS
  <2>2. n > d => d * d < n * n
    BY <1>1, <2>1
  <2>3. -n > d => d * d < (-n) * (-n)
    BY <1>1, <2>1
  <2>4. (-n) * (-n) = n * n /\ n * n \in Int /\ d * d \in Int
    BY <1>1
  <2>. QED
    BY <1>1, <2>2, <2>3, <2>4
<1>9. -d <= u /\ u <= d /\ -d <= v /\ v <= d
  <2>1. u * u \in Int /\ v * v \in Int /\ d * d \in Int
    BY <1>1
  <2>2. u * u <= d * d /\ v * v <= d * d
    BY <1>3, <1>7, <2>1
  <2>. QED
    BY <1>1, <1>8, <2>2
<1>10. CASE bottom <= y /\ y <= top
  BY <1>1, <1>2, <1>4, <1>9, <1>10
<1>11. CASE left <= x /\ x <= right
  BY <1>1, <1>2, <1>4, <1>9, <1>11
<1>12. CASE ~(bottom <= y /\ y <= top) /\ ~(left <= x /\ x <= right)
  <2>1. PICK s \in {left, right} : (x - s) * (x - s) <= u * u
    BY <1>1, <1>2, <1>12, PassesEnd
  <2>2. PICK t \in {bottom, top} : (y - t) * (y - t) <= v * v
    BY <1>1, <1>2, <1>12, PassesEnd
  <2>3. (x - s) * (x - s) + (y - t) * (y - t) <= d * d
    <3>1. /\ (x - s) * (x - s) \in Int /\ (y - t) * (y - t) \in Int
          /\ u * u \in Int /\ v * v \in Int /\ d * d \in Int
      BY <1>1
    <3>. QED
      BY <1>3, <2>1, <2>2, <3>1
  <2>4. CircleContains(c, Vec2(s, t))
    BY <1>1, <1>6, <2>3
  <2>. QED
    BY <1>4, <1>5, <2>4
<1>. QED
  BY <1>10, <1>11, <1>12

(* How far two bodies, from o and n, moved towards each other in a step.     *)
Towards(p, o, q, n) == Minus(Minus(p, o), Minus(q, n))

LEMMA TowardsIs ==
  ASSUME NEW p \in Vectors, NEW o \in Vectors, NEW q \in Vectors, NEW n \in Vectors
  PROVE  /\ Towards(p, o, q, n) \in Vectors
         /\ Towards(p, o, q, n).X = p.X - o.X - (q.X - n.X)
         /\ Towards(p, o, q, n).Y = p.Y - o.Y - (q.Y - n.Y)
         /\ SquareLength(Towards(q, n, p, o)) = SquareLength(Towards(p, o, q, n))
<1>1. /\ Towards(p, o, q, n) \in Vectors
      /\ Towards(p, o, q, n).X = p.X - o.X - (q.X - n.X)
      /\ Towards(p, o, q, n).Y = p.Y - o.Y - (q.Y - n.Y)
      /\ Towards(q, n, p, o).X = q.X - n.X - (p.X - o.X)
      /\ Towards(q, n, p, o).Y = q.Y - n.Y - (p.Y - o.Y)
  BY Coordinates, VectorTypes DEF Towards
<1>2. {p.X, o.X, q.X, n.X, p.Y, o.Y, q.Y, n.Y} \subseteq Int
  BY DEF Vectors
<1>. DEFINE x == p.X - o.X - (q.X - n.X)
            y == p.Y - o.Y - (q.Y - n.Y)
<1>3. q.X - n.X - (p.X - o.X) = -x /\ q.Y - n.Y - (p.Y - o.Y) = -y /\ x \in Int /\ y \in Int
  BY <1>2
<1>. HIDE DEF x, y
<1>4. (-x) * (-x) = x * x /\ (-y) * (-y) = y * y
  BY <1>3
<1>5. SquareLength(Towards(q, n, p, o)) = SquareLength(Towards(p, o, q, n))
  BY <1>1, <1>3, <1>4 DEF SquareLength, Dot, x, y
<1>. QED
  BY <1>1, <1>5

LEMMA DifferenceOfSums ==
  ASSUME NEW a \in Vectors, NEW p \in Vectors, NEW b \in Vectors, NEW q \in Vectors
  PROVE  /\ Minus(Plus(a, p), Plus(b, q)).X = a.X + p.X - (b.X + q.X)
         /\ Minus(Plus(a, p), Plus(b, q)).Y = a.Y + p.Y - (b.Y + q.Y)
BY DEF Vectors, Minus, Plus, Vec2

LEMMA CirclesMeetFast ==
  ASSUME NEW s \in Circles, NEW t \in Circles, NEW p \in Vectors, NEW o \in Vectors,
         NEW q \in Vectors, NEW n \in Vectors, Delta(At(s, p), At(t, q)) = Zero,
         ~CirclesIntersect(At(s, o), At(t, n))
  PROVE  SquareLength(Towards(p, o, q, n)) >= s.radius * s.radius
<1>. DEFINE a == s.center
            b == t.center
            k == s.radius
            m == t.radius
            w == Towards(p, o, q, n)
            now == Minus(Plus(a, p), Plus(b, q))
            old == Minus(Plus(a, o), Plus(b, n))
<1>1. /\ s.kind = "circle" /\ a \in Vectors /\ k \in Nat
      /\ t.kind = "circle" /\ b \in Vectors /\ m \in Nat
  BY DEF Circles
<1>2. now = Zero
  BY <1>1, AtCircle DEF Delta, Circle
<1>3. ~(SquareLength(old) <= (k + m) * (k + m))
  BY <1>1, AtCircle DEF CirclesIntersect, Circle
<1>. HIDE DEF a, b, k, m
<1>4. /\ now.X = a.X + p.X - (b.X + q.X) /\ now.Y = a.Y + p.Y - (b.Y + q.Y)
      /\ old.X = a.X + o.X - (b.X + n.X) /\ old.Y = a.Y + o.Y - (b.Y + n.Y)
  BY <1>1, DifferenceOfSums
<1>5. w \in Vectors /\ w.X = p.X - o.X - (q.X - n.X) /\ w.Y = p.Y - o.Y - (q.Y - n.Y)
  BY TowardsIs
<1>. HIDE DEF w, now, old
<1>6. old.X = -w.X /\ old.Y = -w.Y /\ w.X \in Int /\ w.Y \in Int
  <2>1. \A c, d, e, f, g, h \in Int :
          c + d - (e + f) = 0 => c + g - (e + h) = -(d - g - (f - h))
    OBVIOUS
  <2>2. /\ {p.X, o.X, q.X, n.X, a.X, b.X, w.X} \subseteq Int
        /\ {p.Y, o.Y, q.Y, n.Y, a.Y, b.Y, w.Y} \subseteq Int
    BY <1>1, <1>5 DEF Vectors
  <2>3. now.X = 0 /\ now.Y = 0
    BY <1>2, Coordinates
  <2>. QED
    BY <1>4, <1>5, <2>1, <2>2, <2>3
<1>7. old.X * old.X = w.X * w.X /\ old.Y * old.Y = w.Y * w.Y
  BY <1>6
<1>8. SquareLength(old) = SquareLength(w) /\ SquareLength(w) \in Int
  BY <1>5, <1>7, SquareLengthTypes DEF SquareLength, Dot
<1>9. k * k <= (k + m) * (k + m) /\ (k + m) * (k + m) \in Int /\ k * k \in Int
  BY <1>1
<1>10. SquareLength(w) >= k * k
  BY <1>3, <1>8, <1>9
<1>. QED
  BY <1>10 DEF w, k

LEMMA CircleInRectangleFast ==
  ASSUME NEW s \in Circles, NEW t \in Rectangles, NEW p \in Vectors, NEW o \in Vectors,
         NEW q \in Vectors, NEW n \in Vectors, Delta(At(s, p), At(t, q)) = Zero,
         ~RectangleIntersectsCircle(At(t, n), At(s, o))
  PROVE  SquareLength(Towards(p, o, q, n)) >= s.radius * s.radius
<1>. DEFINE w == Towards(p, o, q, n)
            c == At(s, o)
            r == At(t, n)
            x == s.center.X + p.X
            y == s.center.Y + p.Y
<1>1. /\ s.kind = "circle" /\ s.center \in Vectors /\ s.radius \in Nat
      /\ t.kind = "rectangle" /\ t.minBound \in Vectors /\ t.maxBound \in Vectors
      /\ InBounds(t)
  BY DEF Circles, Rectangles
<1>2. /\ {p.X, o.X, q.X, n.X, p.Y, o.Y, q.Y, n.Y} \subseteq Int
      /\ {s.center.X, s.center.Y} \subseteq Int
      /\ {t.minBound.X, t.minBound.Y, t.maxBound.X, t.maxBound.Y} \subseteq Int
      /\ t.minBound.X <= t.maxBound.X /\ t.minBound.Y <= t.maxBound.Y
  BY <1>1 DEF Vectors, InBounds
<1>3. /\ x - Clamp(x, t.minBound.X + q.X, t.maxBound.X + q.X) = 0
      /\ y - Clamp(y, t.minBound.Y + q.Y, t.maxBound.Y + q.Y) = 0
  <2>1. /\ At(s, p).center = Plus(s.center, p)
        /\ At(t, q).minBound = Plus(t.minBound, q) /\ At(t, q).maxBound = Plus(t.maxBound, q)
        /\ At(t, q).kind # "circle"
    BY <1>1, AtCircle, AtRectangle DEF Circle, Rectangle
  <2>2. Minus(Plus(s.center, p), ClosestPoint(At(t, q), Plus(s.center, p))) = Zero
    BY <2>1 DEF Delta
  <2>3. /\ ClosestPoint(At(t, q), Plus(s.center, p)).X
             = Clamp(x, t.minBound.X + q.X, t.maxBound.X + q.X)
        /\ ClosestPoint(At(t, q), Plus(s.center, p)).Y
             = Clamp(y, t.minBound.Y + q.Y, t.maxBound.Y + q.Y)
    BY <2>1 DEF ClosestPoint, Plus, Vec2
  <2>. QED
    BY <2>2, <2>3, Coordinates
<1>4. /\ t.minBound.X + q.X <= x /\ x <= t.maxBound.X + q.X
      /\ t.minBound.Y + q.Y <= y /\ y <= t.maxBound.Y + q.Y
  <2>. DEFINE left == t.minBound.X + q.X
              right == t.maxBound.X + q.X
              bottom == t.minBound.Y + q.Y
              top == t.maxBound.Y + q.Y
  <2>1. {left, right, bottom, top, x, y} \subseteq Int /\ left <= right /\ bottom <= top
    BY <1>2
  <2>2. x - Clamp(x, left, right) = 0 /\ y - Clamp(y, bottom, top) = 0
    BY <1>3
  <2>. HIDE DEF left, right, bottom, top, x, y
  <2>3. left <= x /\ x <= right /\ bottom <= y /\ y <= top
    BY <2>1, <2>2 DEF Clamp
  <2>. QED
    BY <2>3 DEF left, right, bottom, top
<1>5. w \in Vectors /\ w.X = p.X - o.X - (q.X - n.X) /\ w.Y = p.Y - o.Y - (q.Y - n.Y)
  BY TowardsIs
<1>6. c \in Circles /\ r \in Rectangles /\ c.radius = s.radius
  <2>1. c \in AllShapes /\ c.kind = "circle" /\ r \in AllShapes /\ r.kind = "rectangle"
    BY <1>1, AtTypes DEF AllShapes
  <2>2. c.radius = s.radius
    BY <1>1, AtCircle DEF Circle
  <2>. QED
    BY <2>1, <2>2 DEF AllShapes, Circles, Rectangles, Polygons
<1>7. RectangleContains(r, Plus(c.center, w))
  <2>1. /\ c.center = Plus(s.center, o)
        /\ r.minBound = Plus(t.minBound, n) /\ r.maxBound = Plus(t.maxBound, n)
    BY <1>1, AtCircle, AtRectangle DEF Circle, Rectangle
  <2>2. /\ Plus(c.center, w).X = s.center.X + o.X + w.X
        /\ Plus(c.center, w).Y = s.center.Y + o.Y + w.Y
        /\ r.minBound.X = t.minBound.X + n.X /\ r.maxBound.X = t.maxBound.X + n.X
        /\ r.minBound.Y = t.minBound.Y + n.Y /\ r.maxBound.Y = t.maxBound.Y + n.Y
    BY <2>1, Coordinates
  <2>. HIDE DEF w, c, r
  <2>. QED
    BY <1>2, <1>4, <1>5, <2>2 DEF RectangleContains
<1>8. ~RectangleIntersectsCircle(r, c)
  OBVIOUS
<1>9. SquareLength(w) \in Int /\ s.radius * s.radius \in Int
  BY <1>1, <1>5, SquareLengthTypes
<1>. HIDE DEF w, c, r
<1>10. ~(SquareLength(w) <= s.radius * s.radius)
  BY <1>5, <1>6, <1>7, <1>8, WithinReach
<1>11. SquareLength(w) >= s.radius * s.radius
  BY <1>9, <1>10
<1>. QED
  BY <1>11 DEF w

(* What a contact without a normal says of the shapes and the step before.   *)
Fast(i) == LET v == Towards(bodies[1].position, before[1].position,
                            bodies[2].position, before[2].position)
           IN SquareLength(v) >= colliders[i].shape.radius * colliders[i].shape.radius
Overlapped == Intersect(At(colliders[1].shape, before[1].position),
                        At(colliders[2].shape, before[2].position))

LEMMA EndsFast ==
  ASSUME StepInv, NEW i \in Side, Terminate(i)
  PROVE  \/ Overlapped
         \/ \E j \in Side : colliders[j].shape.kind = "circle" /\ Fast(j)
<1>. DEFINE j == FirstOf(i)
            k == OtherSide(j)
            s == colliders[j].shape
            t == colliders[k].shape
            p == bodies[j].position
            o == before[j].position
            q == bodies[k].position
            n == before[k].position
<1>1. HasContact(i) /\ NormalOf(j) = Zero
  BY DEF Terminate
<1>2. /\ j \in Side
      /\ \/ Shape(j) \in Circles /\ Shape(k) \in Circles
         \/ Shape(j) \in Circles /\ Shape(k) \in Rectangles
         \/ Shape(j) \in Rectangles /\ Shape(k) \in Rectangles
  BY <1>1, FirstIs
<1>3. k \in Side /\ {j, k} = {1, 2}
  BY <1>2, Sides
<1>4. /\ Shape(j) = At(s, p) /\ Shape(k) = At(t, q)
      /\ NormalOf(j) = IF Shape(j).kind = "circle" THEN Delta(Shape(j), Shape(k))
                       ELSE RectangleNormal(Shape(j), Shape(k))
  BY DEF Shape, NormalOf
<1>5. /\ s \in AllShapes /\ t \in AllShapes
      /\ Shape(j).kind = s.kind /\ Shape(k).kind = t.kind
      /\ p \in Vectors /\ o \in Vectors /\ q \in Vectors /\ n \in Vectors
  <2>1. /\ bodies[j] \in BodyStates /\ bodies[k] \in BodyStates
        /\ before[j] \in BodyStates /\ before[k] \in BodyStates
        /\ s \in AllShapes /\ t \in AllShapes
        /\ Shape(j).kind = s.kind /\ Shape(k).kind = t.kind
    BY <1>2, <1>3, ColliderTypes
  <2>. QED
    BY <2>1 DEF BodyStates
<1>6. /\ s \in Circles /\ s.kind = "circle"
      /\ (t \in Circles /\ t.kind = "circle") \/ (t \in Rectangles /\ t.kind = "rectangle")
      /\ Delta(At(s, p), At(t, q)) = Zero
  <2>1. Shape(j).kind # "rectangle"
    BY <1>1, <1>4, RectangleNormalIs
  <2>2. Shape(j).kind = "circle" /\ Shape(k).kind \in {"circle", "rectangle"}
    BY <1>2, <2>1 DEF Circles, Rectangles
  <2>3. Delta(At(s, p), At(t, q)) = Zero
    BY <1>1, <1>4, <2>2
  <2>4. s.kind = "circle" /\ t.kind \in {"circle", "rectangle"}
    BY <1>5, <2>2
  <2>5. s \in Circles
    BY <1>5, <2>4 DEF AllShapes, Circles, Rectangles, Polygons
  <2>6. (t \in Circles /\ t.kind = "circle") \/ (t \in Rectangles /\ t.kind = "rectangle")
    BY <1>5, <2>4 DEF AllShapes, Circles, Rectangles, Polygons
  <2>. QED
    BY <2>3, <2>4, <2>5, <2>6
<1>7. Fast(j) <=> SquareLength(Towards(p, o, q, n)) >= s.radius * s.radius
  <2>1. /\ bodies[1].position \in Vectors /\ bodies[2].position \in Vectors
        /\ before[1].position \in Vectors /\ before[2].position \in Vectors
    BY <1>3, <1>5
  <2>2. SquareLength(Towards(bodies[2].position, before[2].position,
                             bodies[1].position, before[1].position))
        = SquareLength(Towards(bodies[1].position, before[1].position,
                               bodies[2].position, before[2].position))
    <3>1. \A a, b, c, d \in Vectors :
            SquareLength(Towards(c, d, a, b)) = SquareLength(Towards(a, b, c, d))
      BY TowardsIs
    <3>. QED
      BY <2>1, <3>1
  <2>3. CASE j = 1 /\ k = 2
    BY <2>3 DEF Fast
  <2>4. CASE j = 2 /\ k = 1
    BY <2>2, <2>4 DEF Fast
  <2>5. j \in {1, 2} /\ k = 3 - j
    BY <1>2, <1>3 DEF OtherSide, Side
  <2>. QED
    BY <2>3, <2>4, <2>5
<1>8. Overlapped \/ ~Intersect(At(s, o), At(t, n))
  <2>1. CASE j = 1 /\ k = 2
    BY <2>1 DEF Overlapped
  <2>2. CASE j = 2 /\ k = 1
    <3>1. Intersect(At(s, o), At(t, n)) => Intersect(At(t, n), At(s, o))
      <4>1. /\ At(s, o).kind = "circle" /\ At(t, n).kind \in {"circle", "rectangle"}
            /\ At(s, o) \in AllShapes /\ At(t, n) \in AllShapes
        BY <1>5, <1>6, AtTypes
      <4>. QED
        BY <4>1, IntersectTurned
    <3>. QED
      BY <2>2, <3>1 DEF Overlapped
  <2>3. j \in {1, 2} /\ k = 3 - j
    BY <1>2, <1>3 DEF OtherSide, Side
  <2>. QED
    BY <2>1, <2>2, <2>3
<1>9. CASE ~Intersect(At(s, o), At(t, n))
  <2>1. /\ At(s, o).kind = "circle" /\ At(t, n).kind = t.kind
    BY <1>5, <1>6, AtTypes
  <2>2. CASE t \in Circles /\ t.kind = "circle"
    <3>1. ~CirclesIntersect(At(s, o), At(t, n))
      BY <1>9, <2>1, <2>2, CircleWithCircle
    <3>. HIDE DEF s, t, p, o, q, n
    <3>2. SquareLength(Towards(p, o, q, n)) >= s.radius * s.radius
      BY <1>5, <1>6, <2>2, <3>1, CirclesMeetFast
    <3>3. Fast(j)
      BY <1>7, <3>2
    <3>. QED
      BY <1>2, <1>6, <3>3 DEF s
  <2>3. CASE t \in Rectangles /\ t.kind = "rectangle"
    <3>1. ~RectangleIntersectsCircle(At(t, n), At(s, o))
      BY <1>9, <2>1, <2>3, CircleWithRectangle
    <3>. HIDE DEF s, t, p, o, q, n
    <3>2. SquareLength(Towards(p, o, q, n)) >= s.radius * s.radius
      BY <1>5, <1>6, <2>3, <3>1, CircleInRectangleFast
    <3>3. Fast(j)
      BY <1>7, <3>2
    <3>. QED
      BY <1>2, <1>6, <3>3 DEF s
  <2>. QED
    BY <1>6, <2>2, <2>3
<1>. QED
  BY <1>8, <1>9

(* A step that ends the process by a normal of length zero, in Normalized,   *)
(* starts from colliders that overlapped or that move by the radius of a     *)
(* circle: no slower shot does it, whatever the shapes and where they are.   *)
THEOREM SlowContacts == Spec => []SlowContactsResolve
<1>. DEFINE Slow == phase = "terminated" =>
                      \/ Overlapped
                      \/ \E j \in Side : colliders[j].shape.kind = "circle" /\ Fast(j)
<1>1. Init => Slow
  BY DEF Init
<1>2. StepInv /\ Slow /\ [Next]_vars => Slow'
  <2>. SUFFICES ASSUME StepInv, Slow, [Next]_vars, phase' = "terminated"
                PROVE  \/ Overlapped'
                       \/ \E j \in Side : colliders'[j].shape.kind = "circle" /\ Fast(j)'
    OBVIOUS
  <2>1. CASE UNCHANGED vars
    <3>1. /\ phase = "terminated" /\ bodies' = bodies /\ before' = before
          /\ colliders' = colliders
      BY <2>1 DEF vars
    <3>. QED
      BY <3>1 DEF Overlapped, Fast
  <2>2. CASE \E i \in Side : Terminate(i)
    <3>1. /\ bodies' = bodies /\ before' = before /\ colliders' = colliders
      BY <2>2 DEF Terminate
    <3>2. \/ Overlapped
          \/ \E j \in Side : colliders[j].shape.kind = "circle" /\ Fast(j)
      BY <2>2, EndsFast
    <3>. QED
      BY <3>1, <3>2 DEF Overlapped, Fast
  <2>3. ~Move /\ ~Detect /\ ~\E i \in Side : ResolveContact(i)
    BY DEF Move, Detect, ResolveContact
  <2>. QED
    BY <2>1, <2>2, <2>3 DEF Next
<1>3. Slow => SlowContactsResolve
  BY DEF SlowContactsResolve, Overlapped, Fast, Towards
<1>. QED
  BY <1>1, <1>2, <1>3, StepAlways, PTL DEF Spec

-----------------------------------------------------------------------------
(* Which collider is the first.                                              *)

LEMMA CirclesTurned ==
  ASSUME NEW s \in Circles, NEW t \in Circles
  PROVE  Delta(t, s) = Times(-1, Delta(s, t)) /\ Reach(t, s) = Reach(s, t)
<1>. DEFINE a == s.center
            b == t.center
<1>1. /\ s.kind = "circle" /\ t.kind = "circle" /\ a \in Vectors /\ b \in Vectors
      /\ s.radius \in Nat /\ t.radius \in Nat
  BY DEF Circles
<1>2. Delta(t, s) = Minus(b, a) /\ Delta(s, t) = Minus(a, b)
  BY <1>1 DEF Delta
<1>3. Reach(t, s) = Reach(s, t)
  BY <1>1 DEF Reach
<1>. HIDE DEF a, b
<1>4. Minus(b, a) = Times(-1, Minus(a, b))
  BY <1>1 DEF Vectors, Minus, Times, Vec2
<1>. QED
  BY <1>2, <1>3, <1>4

LEMMA RectanglesTurned ==
  ASSUME NEW r \in Rectangles, NEW s \in Rectangles
  PROVE  /\ CentersApart(s, r).X = -CentersApart(r, s).X
         /\ CentersApart(s, r).Y = -CentersApart(r, s).Y
         /\ PenetrationX(s, r) = PenetrationX(r, s) /\ PenetrationY(s, r) = PenetrationY(r, s)
<1>. DEFINE a == r.minBound
            b == r.maxBound
            c == s.minBound
            d == s.maxBound
<1>1. /\ a \in Vectors /\ b \in Vectors /\ c \in Vectors /\ d \in Vectors
      /\ CentersApart(s, r) = Minus(Plus(c, d), Plus(a, b))
      /\ CentersApart(r, s) = Minus(Plus(a, b), Plus(c, d))
      /\ PenetrationX(s, r) = (d.X - c.X) + (b.X - a.X) - Abs(CentersApart(s, r).X)
      /\ PenetrationX(r, s) = (b.X - a.X) + (d.X - c.X) - Abs(CentersApart(r, s).X)
      /\ PenetrationY(s, r) = (d.Y - c.Y) + (b.Y - a.Y) - Abs(CentersApart(s, r).Y)
      /\ PenetrationY(r, s) = (b.Y - a.Y) + (d.Y - c.Y) - Abs(CentersApart(r, s).Y)
  BY DEF Rectangles, CentersApart, PenetrationX, PenetrationY
<1>. HIDE DEF a, b, c, d
<1>2. /\ CentersApart(s, r).X = c.X + d.X - (a.X + b.X)
      /\ CentersApart(s, r).Y = c.Y + d.Y - (a.Y + b.Y)
      /\ CentersApart(r, s).X = a.X + b.X - (c.X + d.X)
      /\ CentersApart(r, s).Y = a.Y + b.Y - (c.Y + d.Y)
  BY <1>1, DifferenceOfSums
<1>3. {a.X, b.X, c.X, d.X, a.Y, b.Y, c.Y, d.Y} \subseteq Int
  BY <1>1 DEF Vectors
<1>4. /\ CentersApart(s, r).X = -CentersApart(r, s).X
      /\ CentersApart(s, r).Y = -CentersApart(r, s).Y
      /\ CentersApart(r, s).X \in Int /\ CentersApart(r, s).Y \in Int
  BY <1>2, <1>3
<1>5. \A n \in Int : Abs(-n) = Abs(n) /\ Abs(n) \in Int
  BY DEF Abs
<1>6. /\ Abs(CentersApart(s, r).X) = Abs(CentersApart(r, s).X)
      /\ Abs(CentersApart(s, r).Y) = Abs(CentersApart(r, s).Y)
      /\ Abs(CentersApart(r, s).X) \in Int /\ Abs(CentersApart(r, s).Y) \in Int
  BY <1>4, <1>5
<1>7. \A k, m, n \in Int : k + m - n = m + k - n
  OBVIOUS
<1>8. {b.X - a.X, d.X - c.X, b.Y - a.Y, d.Y - c.Y} \subseteq Int
  BY <1>3
<1>9. /\ PenetrationX(s, r) = PenetrationX(r, s) /\ PenetrationY(s, r) = PenetrationY(r, s)
  BY <1>1, <1>6, <1>7, <1>8
<1>. QED
  BY <1>4, <1>9

(* Not so if they are centred on one another along the normal's axis.        *)
LEMMA RectangleNormalTurned ==
  ASSUME NEW r \in Rectangles, NEW s \in Rectangles, ~Aligned(r, s)
  PROVE  RectangleNormal(s, r) = Times(-1, RectangleNormal(r, s))
<1>. DEFINE apart == CentersApart(r, s)
            turned == CentersApart(s, r)
            n == RectangleNormal(r, s)
            less == PenetrationX(r, s) < PenetrationY(r, s)
<1>1. /\ apart.X \in Int /\ apart.Y \in Int /\ turned.X = -apart.X /\ turned.Y = -apart.Y
  BY RectanglesApart, RectanglesTurned DEF Vectors
<1>2. /\ n = IF less THEN IF apart.X > 0 THEN Vec2(1, 0) ELSE Vec2(-1, 0)
             ELSE IF apart.Y > 0 THEN Vec2(0, 1) ELSE Vec2(0, -1)
      /\ RectangleNormal(s, r) =
             IF less THEN IF turned.X > 0 THEN Vec2(1, 0) ELSE Vec2(-1, 0)
             ELSE IF turned.Y > 0 THEN Vec2(0, 1) ELSE Vec2(0, -1)
  BY RectanglesTurned DEF RectangleNormal
<1>3. Dot(apart, n) # 0
  BY DEF Aligned, Rectangles
<1>. HIDE DEF apart, turned, less, n
<1>4. /\ Vec2(1, 0) = Times(-1, Vec2(-1, 0)) /\ Vec2(-1, 0) = Times(-1, Vec2(1, 0))
      /\ Vec2(0, 1) = Times(-1, Vec2(0, -1)) /\ Vec2(0, -1) = Times(-1, Vec2(0, 1))
  BY DEF Vec2, Times
<1>5. CASE less
  <2>1. apart.X # 0
    <3>1. n \in {Vec2(1, 0), Vec2(-1, 0)}
      BY <1>2, <1>5
    <3>2. \A m : Dot(apart, Vec2(m, 0)) = apart.X * m + apart.Y * 0
      BY DEF Dot, Vec2
    <3>. QED
      BY <1>1, <1>3, <3>1, <3>2
  <2>. QED
    BY <1>1, <1>2, <1>4, <1>5, <2>1 DEF n
<1>6. CASE ~less
  <2>1. apart.Y # 0
    <3>1. n \in {Vec2(0, 1), Vec2(0, -1)}
      BY <1>2, <1>6
    <3>2. \A m : Dot(apart, Vec2(0, m)) = apart.X * 0 + apart.Y * m
      BY DEF Dot, Vec2
    <3>. QED
      BY <1>1, <1>3, <3>1, <3>2
  <2>. QED
    BY <1>1, <1>2, <1>4, <1>6, <2>1 DEF n
<1>. QED
  BY <1>5, <1>6

(* Two colliders of one kind: either may be the first.                       *)
Alike == Shape(1).kind = Shape(2).kind

LEMMA FirstOfTwo ==
  ASSUME StepInv, HasContact(1)
  PROVE  /\ HasContact(2)
         /\ Alike => FirstOf(1) = 1 /\ FirstOf(2) = 2
         /\ ~Alike => FirstOf(1) = FirstOf(2)
<1>1. \A i \in Side : Shape(i).kind \in {"circle", "rectangle", "polygon"}
  BY ColliderTypes DEF AllShapes, Circles, Rectangles, Polygons
<1>2. 1 \in Side /\ 2 \in Side /\ OtherSide(1) = 2 /\ OtherSide(2) = 1
  BY DEF Side, OtherSide
<1>. QED
  BY <1>1, <1>2 DEF FirstOf, HasContact, Alike

LEMMA NormalTurned ==
  ASSUME StepInv, HasContact(1), Alike, ~Aligned(Shape(1), Shape(2))
  PROVE  /\ NormalOf(1) \in Vectors /\ NormalOf(2) = Times(-1, NormalOf(1))
         /\ SquareLength(NormalOf(2)) = SquareLength(NormalOf(1))
         /\ LengthOf(2) = LengthOf(1) /\ TwicePenetration(2) = TwicePenetration(1)
<1>. DEFINE s == Shape(1)
            t == Shape(2)
<1>1. 1 \in Side /\ OtherSide(1) = 2 /\ OtherSide(2) = 1
  BY DEF Side, OtherSide
<1>2. FirstOf(1) = 1
  BY FirstOfTwo
<1>3. NormalOf(1) \in Vectors
  BY <1>1, <1>2, NormalTypes
<1>4. (s \in Circles /\ t \in Circles) \/ (s \in Rectangles /\ t \in Rectangles)
  <2>1. \/ s \in Circles /\ t \in Circles
        \/ s \in Circles /\ t \in Rectangles
        \/ s \in Rectangles /\ t \in Rectangles
    BY <1>1, <1>2, FirstIs
  <2>. QED
    BY <2>1 DEF Alike, Circles, Rectangles
<1>5. /\ NormalOf(1) = IF s.kind = "circle" THEN Delta(s, t) ELSE RectangleNormal(s, t)
      /\ NormalOf(2) = IF t.kind = "circle" THEN Delta(t, s) ELSE RectangleNormal(t, s)
      /\ TwicePenetration(1) = IF s.kind = "circle" THEN 2 * (Reach(s, t) - LengthOf(1))
                               ELSE Min({PenetrationX(s, t), PenetrationY(s, t)})
      /\ TwicePenetration(2) = IF t.kind = "circle" THEN 2 * (Reach(t, s) - LengthOf(2))
                               ELSE Min({PenetrationX(t, s), PenetrationY(t, s)})
  BY <1>1 DEF NormalOf, TwicePenetration
<1>6. ~Aligned(s, t)
  OBVIOUS
<1>7. s.kind = t.kind
  BY DEF Alike
<1>. HIDE DEF s, t
<1>8. NormalOf(2) = Times(-1, NormalOf(1))
  <2>1. CASE s \in Circles /\ t \in Circles
    <3>1. s.kind = "circle" /\ t.kind = "circle" /\ Delta(t, s) = Times(-1, Delta(s, t))
      BY <2>1, CirclesTurned DEF Circles
    <3>. QED
      BY <1>5, <3>1
  <2>2. CASE s \in Rectangles /\ t \in Rectangles
    <3>1. /\ s.kind = "rectangle" /\ t.kind = "rectangle"
          /\ RectangleNormal(t, s) = Times(-1, RectangleNormal(s, t))
      BY <1>6, <2>2, RectangleNormalTurned DEF Rectangles
    <3>. QED
      BY <1>5, <3>1
  <2>. QED
    BY <1>4, <2>1, <2>2
<1>9. SquareLength(NormalOf(2)) = SquareLength(NormalOf(1))
  <2>. DEFINE v == NormalOf(1)
              w == NormalOf(2)
  <2>1. v.X \in Int /\ v.Y \in Int /\ w.X = -1 * v.X /\ w.Y = -1 * v.Y
    BY <1>3, <1>8, Coordinates DEF Vectors
  <2>. HIDE DEF v, w
  <2>2. w.X * w.X = v.X * v.X /\ w.Y * w.Y = v.Y * v.Y
    BY <2>1
  <2>3. SquareLength(w) = SquareLength(v)
    BY <2>2 DEF SquareLength, Dot
  <2>. QED
    BY <2>3 DEF v, w
<1>10. LengthOf(2) = LengthOf(1)
  BY <1>9 DEF LengthOf
<1>11. TwicePenetration(2) = TwicePenetration(1)
  <2>1. CASE s \in Circles /\ t \in Circles
    <3>1. s.kind = "circle" /\ t.kind = "circle" /\ Reach(t, s) = Reach(s, t)
      BY <2>1, CirclesTurned DEF Circles
    <3>. QED
      BY <1>5, <1>10, <3>1
  <2>2. CASE s \in Rectangles /\ t \in Rectangles
    <3>1. /\ s.kind = "rectangle" /\ t.kind = "rectangle"
          /\ PenetrationX(t, s) = PenetrationX(s, t) /\ PenetrationY(t, s) = PenetrationY(s, t)
      BY <2>2, RectanglesTurned DEF Rectangles
    <3>. QED
      BY <1>5, <3>1
  <2>. QED
    BY <1>4, <2>1, <2>2
<1>. QED
  BY <1>3, <1>8, <1>9, <1>10, <1>11

(* Two ways to solve a contact are the same if the pushes are.               *)
LEMMA SamePushes ==
  ASSUME StepInv, Ready(1), Ready(2), Scale(1) = Scale(2),
         \A k \in Side :
           /\ Push(k, BodyA(1), PostCollisionVelocity(1, BodyA(1)))
                = Push(k, BodyA(2), PostCollisionVelocity(2, BodyA(2)))
           /\ Push(k, BodyA(1), PostCollisionPosition(1, BodyA(1)))
                = Push(k, BodyA(2), PostCollisionPosition(2, BodyA(2)))
  PROVE  Resolved(1) = Resolved(2)
<1>. DEFINE R == Resolved(1)
            S == Resolved(2)
<1>1. R \in [Side -> BodyStates] /\ S \in [Side -> BodyStates]
  BY ResolvedIs
<1>2. ASSUME NEW k \in Side
      PROVE  /\ R[k].velocity = S[k].velocity /\ R[k].position = S[k].position
             /\ R[k].mass = S[k].mass /\ R[k].type = S[k].type
  <2>1. /\ R[k].mass = bodies[k].mass /\ S[k].mass = bodies[k].mass
        /\ R[k].type = bodies[k].type /\ S[k].type = bodies[k].type
    BY ResolvedIs
  <2>2. /\ R[k].velocity = Plus(Times(Scale(1), bodies[k].velocity),
                                Push(k, BodyA(1), PostCollisionVelocity(1, BodyA(1))))
        /\ R[k].position = Plus(Times(Scale(1), bodies[k].position),
                                Push(k, BodyA(1), PostCollisionPosition(1, BodyA(1))))
    BY ResolvedIs
  <2>3. /\ S[k].velocity = Plus(Times(Scale(2), bodies[k].velocity),
                                Push(k, BodyA(2), PostCollisionVelocity(2, BodyA(2))))
        /\ S[k].position = Plus(Times(Scale(2), bodies[k].position),
                                Push(k, BodyA(2), PostCollisionPosition(2, BodyA(2))))
    BY ResolvedIs
  <2>. QED
    BY <2>1, <2>2, <2>3
<1>. HIDE DEF R, S
<1>3. \A k \in Side : R[k] = S[k]
  BY <1>1, <1>2 DEF BodyStates
<1>4. R = S
  BY <1>1, <1>3
<1>. QED
  BY <1>4 DEF R, S

(* Without a static body each collider's body is the first for itself.       *)
LEMMA NoneStatic ==
  ASSUME StepInv, HasContact(1), Alike, Ready(1), Ready(2), ~Aligned(Shape(1), Shape(2)),
         \A i \in Side : bodies[i].type # "static"
  PROVE  Resolved(1) = Resolved(2)
<1>. DEFINE n == NormalOf(1)
            v == bodies[1].velocity
            w == bodies[2].velocity
            push == (4 * Masses + WeightedRestitution(1)) * (-SeparatingVelocity(1, 1))
            far == 2 * TwicePenetration(1) * LengthOf(1) * Masses
            c == PostCollisionVelocity(1, 1)
            d == PostCollisionPosition(1, 1)
<1>1. /\ 1 \in Side /\ 2 \in Side /\ OtherSide(1) = 2 /\ OtherSide(2) = 1
      /\ \A k \in Side : k = 1 \/ k = 2
  BY DEF Side, OtherSide
<1>2. BodyA(1) = 1 /\ BodyA(2) = 2
  BY <1>1 DEF BodyA
<1>3. NormalTo(1, 1) = n /\ NormalTo(2, 2) = Times(-1, n)
  BY NormalTurned DEF NormalTo
<1>4. /\ v \in Vectors /\ w \in Vectors /\ n \in Vectors
      /\ bodies[1].mass \in Nat /\ bodies[2].mass \in Nat
      /\ colliders[1].restitution \in 0..4 /\ colliders[2].restitution \in 0..4
  BY <1>1, BodyTypes, NormalTurned
<1>5. SeparatingVelocity(2, 2) = SeparatingVelocity(1, 1)
  <2>1. /\ SeparatingVelocity(1, 1) = Dot(Minus(v, w), n)
        /\ SeparatingVelocity(2, 2) = Dot(Minus(w, v), Times(-1, n))
    BY <1>1, <1>3 DEF SeparatingVelocity
  <2>. HIDE DEF v, w, n
  <2>2. \A x, y, z \in Int : (x - y) * z = (y - x) * (-1 * z)
    OBVIOUS
  <2>3. {v.X, v.Y, w.X, w.Y, n.X, n.Y} \subseteq Int
    BY <1>4 DEF Vectors
  <2>4. /\ Dot(Minus(v, w), n) = (v.X - w.X) * n.X + (v.Y - w.Y) * n.Y
        /\ Dot(Minus(w, v), Times(-1, n)) = (w.X - v.X) * (-1 * n.X) + (w.Y - v.Y) * (-1 * n.Y)
    BY <2>3, Coordinates DEF Dot
  <2>5. /\ (v.X - w.X) * n.X = (w.X - v.X) * (-1 * n.X)
        /\ (v.Y - w.Y) * n.Y = (w.Y - v.Y) * (-1 * n.Y)
    BY <2>2, <2>3
  <2>. QED
    BY <2>1, <2>4, <2>5
<1>6. WeightedRestitution(2) = WeightedRestitution(1)
  <2>. DEFINE e == bodies[1].mass * colliders[1].restitution
              f == bodies[2].mass * colliders[2].restitution
  <2>1. WeightedRestitution(1) = e + f /\ WeightedRestitution(2) = f + e
    BY <1>1, <1>2 DEF WeightedRestitution
  <2>2. e \in Int /\ f \in Int
    BY <1>4
  <2>. HIDE DEF e, f
  <2>. QED
    BY <2>1, <2>2
<1>7. c \in Vectors /\ d \in Vectors
  BY <1>1, SolverTypes
<1>8. push \in Int /\ far \in Int
  <2>1. /\ SeparatingVelocity(1, 1) \in Int /\ Masses \in Int
        /\ WeightedRestitution(1) \in Int /\ TwicePenetration(1) \in Int /\ LengthOf(1) \in Int
    BY <1>1, SolverTypes, BodyTypes, WeightedTypes, LengthTypes DEF Ready
  <2>. QED
    BY <2>1
<1>9. \A k \in Int : Times(k, Times(-1, n)) = Times(-1, Times(k, n))
  <2>. SUFFICES ASSUME NEW k \in Int
                PROVE  Times(k, Times(-1, n)) = Times(-1, Times(k, n))
    OBVIOUS
  <2>1. /\ Times(k, Times(-1, n)) = Times(k * (-1), n)
        /\ Times(-1, Times(k, n)) = Times((-1) * k, n)
    BY <1>4, TimesTimes
  <2>2. k * (-1) = (-1) * k
    OBVIOUS
  <2>. QED
    BY <2>1, <2>2
<1>10. Zero = Times(-1, Zero)
  BY DEF Zero, Times, Vec2
<1>11. PostCollisionVelocity(2, 2) = Times(-1, c)
  <2>1. /\ c = IF SeparatingVelocity(1, 1) > 0 THEN Zero ELSE Times(push, n)
        /\ PostCollisionVelocity(2, 2)
             = IF SeparatingVelocity(1, 1) > 0 THEN Zero ELSE Times(push, Times(-1, n))
    BY <1>3, <1>5, <1>6 DEF PostCollisionVelocity
  <2>. HIDE DEF c, push, n
  <2>. QED
    BY <1>8, <1>9, <1>10, <2>1
<1>12. PostCollisionPosition(2, 2) = Times(-1, d)
  <2>1. /\ d = IF TwicePenetration(1) <= 0 THEN Zero ELSE Times(far, n)
        /\ PostCollisionPosition(2, 2)
             = IF TwicePenetration(1) <= 0 THEN Zero ELSE Times(far, Times(-1, n))
    BY <1>3, NormalTurned DEF PostCollisionPosition
  <2>. HIDE DEF d, far, n
  <2>. QED
    BY <1>8, <1>9, <1>10, <2>1
<1>. HIDE DEF c, d
<1>13. ASSUME NEW x \in Vectors, NEW k \in Side
       PROVE  Push(k, 2, Times(-1, x)) = Push(k, 1, x)
  <2>. DEFINE share == Share(k, 1)
  <2>1. share \in Int /\ Share(k, 2) = -share
    <3>1. /\ Share(k, 1) = InverseMass(k) * IF k = 1 THEN 1 ELSE -1
          /\ Share(k, 2) = InverseMass(k) * IF k = 2 THEN 1 ELSE -1
          /\ InverseMass(k) \in Nat
      BY InverseMassTypes DEF Share
    <3>. DEFINE m == InverseMass(k)
    <3>2. m * 1 \in Int /\ m * (-1) = -(m * 1) /\ m * 1 = -(m * (-1)) /\ m * (-1) \in Int
      BY <3>1
    <3>. QED
      BY <1>1, <3>1, <3>2
  <2>. HIDE DEF share
  <2>2. Times(-share, Times(-1, x)) = Times(share, x)
    <3>1. Times(-share, Times(-1, x)) = Times((-share) * (-1), x)
      BY <2>1, TimesTimes
    <3>2. (-share) * (-1) = share
      BY <2>1
    <3>. QED
      BY <3>1, <3>2
  <2>. QED
    BY <2>1, <2>2 DEF Push, share
<1>14. Scale(1) = Scale(2)
  BY NormalTurned DEF Scale
<1>15. \A k \in Side :
         /\ Push(k, BodyA(1), PostCollisionVelocity(1, BodyA(1)))
              = Push(k, BodyA(2), PostCollisionVelocity(2, BodyA(2)))
         /\ Push(k, BodyA(1), PostCollisionPosition(1, BodyA(1)))
              = Push(k, BodyA(2), PostCollisionPosition(2, BodyA(2)))
  BY <1>2, <1>7, <1>11, <1>12, <1>13 DEF c, d
<1>. QED
  BY <1>14, <1>15, SamePushes

(* Beside a static body, of the same mass, the other is the first for both.  *)
LEMMA OneStatic ==
  ASSUME StepInv, HasContact(1), Alike, Ready(1), Ready(2), ~Aligned(Shape(1), Shape(2)),
         bodies[1].mass = bodies[2].mass, NEW a \in Side, BodyA(1) = a, BodyA(2) = a
  PROVE  Resolved(1) = Resolved(2)
<1>. DEFINE n == NormalOf(1)
<1>1. /\ 1 \in Side /\ 2 \in Side /\ OtherSide(1) = 2 /\ OtherSide(2) = 1 /\ a \in {1, 2}
      /\ OtherSide(a) \in Side
  BY DEF Side, OtherSide
<1>2. NormalTo(2, a) = NormalTo(1, a)
  <2>1. n \in Vectors /\ NormalOf(2) = Times(-1, n)
    BY NormalTurned
  <2>2. Times(-1, Times(-1, n)) = n
    <3>1. Times(-1, Times(-1, n)) = Times((-1) * (-1), n)
      BY <2>1, TimesTimes
    <3>2. (-1) * (-1) = 1
      OBVIOUS
    <3>3. n = Vec2(n.X, n.Y) /\ n.X \in Int /\ n.Y \in Int
      BY <2>1, VectorParts
    <3>4. 1 * n.X = n.X /\ 1 * n.Y = n.Y
      BY <3>3
    <3>5. Times(1, n) = n
      BY <3>3, <3>4 DEF Times
    <3>. QED
      BY <3>1, <3>2, <3>5
  <2>. QED
    BY <1>1, <2>1, <2>2 DEF NormalTo
<1>3. WeightedRestitution(2) = WeightedRestitution(1)
  <2>. DEFINE m == bodies[1].mass
              k == colliders[1].restitution
              l == colliders[2].restitution
  <2>1. m \in Nat /\ k \in 0..4 /\ l \in 0..4
    BY <1>1, BodyTypes
  <2>2. bodies[a].mass = m /\ bodies[OtherSide(a)].mass = m
    BY <1>1
  <2>3. WeightedRestitution(1) = m * k + m * l /\ WeightedRestitution(2) = m * l + m * k
    BY <1>1, <2>2 DEF WeightedRestitution
  <2>. HIDE DEF m, k, l
  <2>4. m * k \in Int /\ m * l \in Int
    BY <2>1
  <2>. QED
    BY <2>3, <2>4
<1>4. SeparatingVelocity(2, a) = SeparatingVelocity(1, a)
  BY <1>2 DEF SeparatingVelocity
<1>5. PostCollisionVelocity(2, a) = PostCollisionVelocity(1, a)
  BY <1>2, <1>3, <1>4 DEF PostCollisionVelocity
<1>6. PostCollisionPosition(2, a) = PostCollisionPosition(1, a)
  BY <1>2, NormalTurned DEF PostCollisionPosition
<1>7. Scale(1) = Scale(2)
  BY NormalTurned DEF Scale
<1>. QED
  BY <1>5, <1>6, <1>7, SamePushes

(* Which collider of a pair is the first, which is up to the quad-tree,      *)
(* makes no difference to the bodies after the contact, for any two shapes,  *)
(* restitutions and movements (ResolveContact).                              *)
THEOREM OrderIndifferent == Spec => []OrderDoesNotMatter
<1>1. StepInv => OrderDoesNotMatter
  <2>. SUFFICES ASSUME StepInv, HasContact(1), ~Aligned(Shape(1), Shape(2)),
                       \/ bodies[1].mass = bodies[2].mass
                       \/ \A i \in Side : bodies[i].type # "static",
                       \A i \in Side : NormalOf(FirstOf(i)) # Zero /\ IsBounded(FirstOf(i))
                PROVE  Resolved(FirstOf(1)) = Resolved(FirstOf(2))
    BY DEF OrderDoesNotMatter
  <2>1. 1 \in Side /\ 2 \in Side /\ OtherSide(1) = 2 /\ OtherSide(2) = 1 /\ Side = {1, 2}
    BY DEF Side, OtherSide
  <2>2. HasContact(2)
    BY FirstOfTwo
  <2>3. Ready(FirstOf(1)) /\ Ready(FirstOf(2))
    BY <2>1, <2>2, Readies
  <2>4. CASE ~Alike
    BY <2>4, FirstOfTwo
  <2>5. CASE Alike
    <3>1. FirstOf(1) = 1 /\ FirstOf(2) = 2
      BY <2>5, FirstOfTwo
    <3>2. Ready(1) /\ Ready(2)
      BY <2>3, <3>1
    <3>3. CASE \A i \in Side : bodies[i].type # "static"
      BY <2>5, <3>1, <3>2, <3>3, NoneStatic
    <3>4. CASE \A i \in Side : bodies[i].type = "static"
      <4>1. \A k \in Side : \A a, change : Push(k, a, change) = Zero
        BY <3>4 DEF Push
      <4>2. Scale(1) = Scale(2)
        BY <2>5, NormalTurned DEF Scale
      <4>3. Resolved(1) = Resolved(2)
        BY <3>2, <4>1, <4>2, SamePushes
      <4>. QED
        BY <3>1, <4>3
    <3>5. CASE /\ bodies[1].mass = bodies[2].mass
               /\ (bodies[1].type = "static" /\ bodies[2].type # "static")
                    \/ (bodies[1].type # "static" /\ bodies[2].type = "static")
      <4>1. PICK a \in Side : BodyA(1) = a /\ BodyA(2) = a
        BY <2>1, <3>5 DEF BodyA
      <4>2. Resolved(1) = Resolved(2)
        BY <2>5, <3>2, <3>5, <4>1, OneStatic
      <4>. QED
        BY <3>1, <4>2
    <3>. QED
      BY <2>1, <3>3, <3>4, <3>5
  <2>. QED
    BY <2>4, <2>5
<1>. QED
  BY <1>1, StepAlways, PTL

-----------------------------------------------------------------------------
(* What the solver makes of the distance.                                    *)

(* A shape in the scale c, and moved by x.                                   *)
Grown(s, c, x) ==
  IF s.kind = "circle" THEN Circle(Plus(Times(c, s.center), x), c * s.radius)
  ELSE Rectangle(Plus(Times(c, s.minBound), x), Plus(Times(c, s.maxBound), x))

(* How far two shapes are apart, as Apart has it.                            *)
Gap(s, t) ==
  IF s.kind = "circle" THEN SquareLength(Delta(s, t)) - Reach(s, t) * Reach(s, t)
  ELSE -Min({PenetrationX(s, t), PenetrationY(s, t)})

LEMMA GapTurned ==
  ASSUME NEW s, NEW t, (s \in Circles /\ t \in Circles) \/ (s \in Rectangles /\ t \in Rectangles)
  PROVE  Gap(t, s) = Gap(s, t)
<1>1. CASE s \in Circles /\ t \in Circles
  <2>1. /\ s.kind = "circle" /\ t.kind = "circle"
        /\ Delta(t, s) = Times(-1, Delta(s, t)) /\ Reach(t, s) = Reach(s, t)
    BY <1>1, CirclesTurned DEF Circles
  <2>. DEFINE v == Delta(s, t)
              w == Delta(t, s)
  <2>2. v \in Vectors
    BY <1>1, <2>1, VectorTypes DEF Delta, Circles
  <2>3. v.X \in Int /\ v.Y \in Int /\ w.X = -1 * v.X /\ w.Y = -1 * v.Y
    BY <2>1, <2>2, Coordinates DEF Vectors
  <2>. HIDE DEF v, w
  <2>4. w.X * w.X = v.X * v.X /\ w.Y * w.Y = v.Y * v.Y
    BY <2>3
  <2>5. SquareLength(w) = SquareLength(v)
    BY <2>4 DEF SquareLength, Dot
  <2>. QED
    BY <2>1, <2>5 DEF Gap, v, w
<1>2. CASE s \in Rectangles /\ t \in Rectangles
  BY <1>2, RectanglesTurned DEF Gap, Rectangles
<1>. QED
  BY <1>1, <1>2

(* The difference of two points in the scale, moved along it.                *)
LEMMA PointsGrow ==
  ASSUME NEW a \in Vectors, NEW b \in Vectors, NEW x \in Vectors, NEW y \in Vectors,
         NEW c \in Nat, NEW f \in Nat, Minus(x, y) = Times(f, Minus(a, b))
  PROVE  Minus(Plus(Times(c, a), x), Plus(Times(c, b), y)) = Times(c + f, Minus(a, b))
<1>. DEFINE old == Minus(a, b)
            ca == Times(c, a)
            cb == Times(c, b)
            new == Minus(Plus(ca, x), Plus(cb, y))
<1>1. /\ old \in Vectors /\ ca \in Vectors /\ cb \in Vectors
      /\ old.X = a.X - b.X /\ old.Y = a.Y - b.Y
      /\ ca.X = c * a.X /\ ca.Y = c * a.Y /\ cb.X = c * b.X /\ cb.Y = c * b.Y
  BY VectorTypes, Coordinates
<1>. HIDE DEF ca, cb
<1>2. /\ new.X = ca.X + x.X - (cb.X + y.X) /\ new.Y = ca.Y + x.Y - (cb.Y + y.Y)
      /\ new \in Vectors
  <2>1. new.X = ca.X + x.X - (cb.X + y.X) /\ new.Y = ca.Y + x.Y - (cb.Y + y.Y)
    BY <1>1, DifferenceOfSums
  <2>2. new \in Vectors
    BY <1>1, VectorTypes
  <2>. QED
    BY <2>1, <2>2
<1>3. x.X - y.X = f * old.X /\ x.Y - y.Y = f * old.Y
  BY Coordinates
<1>4. /\ {a.X, b.X, x.X, y.X, old.X, new.X} \subseteq Int
      /\ {a.Y, b.Y, x.Y, y.Y, old.Y, new.Y} \subseteq Int
  BY <1>1, <1>2 DEF Vectors
<1>. HIDE DEF old, new
<1>5. new.X = (c + f) * old.X /\ new.Y = (c + f) * old.Y
  <2>1. /\ c * a.X + x.X - (c * b.X + y.X) = (c + f) * (a.X - b.X)
        /\ c * a.Y + x.Y - (c * b.Y + y.Y) = (c + f) * (a.Y - b.Y)
    <3>. DEFINE k == a.X
                l == b.X
                m == x.X
                n == y.X
                p == a.Y
                q == b.Y
                r == x.Y
                t == y.Y
    <3>1. m - n = f * (k - l) /\ r - t = f * (p - q)
      BY <1>1, <1>3
    <3>2. {k, l, m, n, p, q, r, t} \subseteq Int
      BY <1>4
    <3>. HIDE DEF k, l, m, n, p, q, r, t
    <3>3. (c + f) * (k - l) = c * (k - l) + f * (k - l)
          /\ (c + f) * (p - q) = c * (p - q) + f * (p - q)
      BY <3>2
    <3>4. c * (k - l) = c * k - c * l /\ c * (p - q) = c * p - c * q
      BY <3>2
    <3>5. {c * k, c * l, c * p, c * q} \subseteq Int
      BY <3>2
    <3>6. c * k + m - (c * l + n) = (c + f) * (k - l)
      BY <3>1, <3>2, <3>3, <3>4, <3>5
    <3>7. c * p + r - (c * q + t) = (c + f) * (p - q)
      BY <3>1, <3>2, <3>3, <3>4, <3>5
    <3>. QED
      BY <3>6, <3>7 DEF k, l, m, n, p, q, r, t
  <2>. QED
    BY <1>1, <1>2, <2>1
<1>6. Times(c + f, old) \in Vectors
  BY <1>1, VectorTypes
<1>7. new = Times(c + f, old)
  BY <1>2, <1>5, <1>6, Same, Coordinates
<1>. QED
  BY <1>7 DEF old, new, ca, cb

(* On a line: so is that of a point and the closest one of an interval, if   *)
(* the point is moved by u and the interval by v.                            *)
MovedBy(f, x, low, high, u, v) == u - v = f * (x - Clamp(x, low, high))
GrowsBy(f, c, x, low, high, u, v) ==
  (c * x + u) - Clamp(c * x + u, c * low + v, c * high + v)
    = (c + f) * (x - Clamp(x, low, high))

LEMMA ClampGrows ==
  ASSUME NEW x \in Int, NEW low \in Int, NEW high \in Int, low <= high,
         NEW c \in Nat, NEW f \in Nat, NEW u \in Int, NEW v \in Int,
         MovedBy(f, x, low, high, u, v)
  PROVE  GrowsBy(f, c, x, low, high, u, v)
<1>. SUFFICES (c * x + u) - Clamp(c * x + u, c * low + v, c * high + v)
                = (c + f) * (x - Clamp(x, low, high))
  BY DEF GrowsBy
<1>0. u - v = f * (x - Clamp(x, low, high))
  BY DEF MovedBy
<1>1. \A k \in Int : k <= 0 => c * k <= 0 /\ f * k <= 0
  OBVIOUS
<1>2. CASE x < low
  <2>. DEFINE d == x - low
  <2>1. u - v = f * d /\ d \in Int /\ d < 0 /\ Clamp(x, low, high) = low
    BY <1>0, <1>2 DEF Clamp
  <2>2. c * x + u - (c * low + v) = (c + f) * d
    BY <2>1
  <2>3. c * d <= 0 /\ f * d <= 0 /\ (c + f) * d = c * d + f * d
    BY <1>1, <2>1
  <2>4. c * x + u \in Int /\ c * low + v \in Int /\ c * high + v \in Int
    OBVIOUS
  <2>5. c * low <= c * high
    <3>1. low - high \in Int /\ low - high <= 0 /\ c * (low - high) = c * low - c * high
      OBVIOUS
    <3>. QED
      BY <1>1, <3>1
  <2>. DEFINE p == c * x + u
              q == c * low + v
              r == c * high + v
  <2>6. p \in Int /\ q \in Int /\ r \in Int /\ p <= q /\ q <= r /\ p - q = (c + f) * d
    BY <2>2, <2>3, <2>4, <2>5
  <2>. HIDE DEF p, q, r
  <2>7. p - Clamp(p, q, r) = (c + f) * d
    BY <2>6 DEF Clamp
  <2>8. p - Clamp(p, q, r) = (c + f) * (x - Clamp(x, low, high))
    BY <2>1, <2>7
  <2>. QED
    BY <2>8 DEF p, q, r
<1>3. CASE x > high
  <2>. DEFINE d == x - high
  <2>1. u - v = f * d /\ d \in Int /\ d > 0 /\ Clamp(x, low, high) = high
    BY <1>0, <1>3 DEF Clamp
  <2>2. c * x + u - (c * high + v) = (c + f) * d
    BY <2>1
  <2>3. c * (-d) <= 0 /\ f * (-d) <= 0 /\ (c + f) * d = -(c * (-d)) - f * (-d)
    BY <1>1, <2>1
  <2>4. c * x + u \in Int /\ c * low + v \in Int /\ c * high + v \in Int
    OBVIOUS
  <2>5. c * low <= c * high
    <3>1. low - high \in Int /\ low - high <= 0 /\ c * (low - high) = c * low - c * high
      OBVIOUS
    <3>. QED
      BY <1>1, <3>1
  <2>. DEFINE p == c * x + u
              q == c * low + v
              r == c * high + v
  <2>6. p \in Int /\ q \in Int /\ r \in Int /\ r <= p /\ q <= r /\ p - r = (c + f) * d
    BY <2>2, <2>3, <2>4, <2>5
  <2>. HIDE DEF p, q, r
  <2>7. p - Clamp(p, q, r) = (c + f) * d
    BY <2>6 DEF Clamp
  <2>8. p - Clamp(p, q, r) = (c + f) * (x - Clamp(x, low, high))
    BY <2>1, <2>7
  <2>. QED
    BY <2>8 DEF p, q, r
<1>4. CASE low <= x /\ x <= high
  <2>1. Clamp(x, low, high) = x /\ u = v
    <3>1. Clamp(x, low, high) = x
      BY <1>4 DEF Clamp
    <3>2. f * (x - x) = 0
      OBVIOUS
    <3>. QED
      BY <1>0, <3>1, <3>2
  <2>2. c * low <= c * x /\ c * x <= c * high
    <3>1. /\ low - x \in Int /\ low - x <= 0 /\ c * (low - x) = c * low - c * x
          /\ x - high \in Int /\ x - high <= 0 /\ c * (x - high) = c * x - c * high
      BY <1>4
    <3>. QED
      BY <1>1, <3>1
  <2>. DEFINE p == c * x + u
              q == c * low + v
              r == c * high + v
  <2>3. p \in Int /\ q \in Int /\ r \in Int /\ q <= p /\ p <= r
    BY <2>1, <2>2
  <2>. HIDE DEF p, q, r
  <2>4. p - Clamp(p, q, r) = 0
    BY <2>3 DEF Clamp
  <2>5. x - Clamp(x, low, high) = 0 /\ (c + f) * 0 = 0
    BY <2>1
  <2>6. p - Clamp(p, q, r) = (c + f) * (x - Clamp(x, low, high))
    BY <2>4, <2>5
  <2>. QED
    BY <2>6 DEF p, q, r
<1>. QED
  BY <1>2, <1>3, <1>4

LEMMA GrownTypes ==
  ASSUME NEW s, NEW c \in Nat, NEW x \in Vectors
  PROVE  /\ s \in Circles => /\ Grown(s, c, x) \in Circles
                             /\ Grown(s, c, x).center = Plus(Times(c, s.center), x)
                             /\ Grown(s, c, x).radius = c * s.radius
         /\ s \in Rectangles => /\ Grown(s, c, x) \in Rectangles
                                /\ Grown(s, c, x).minBound = Plus(Times(c, s.minBound), x)
                                /\ Grown(s, c, x).maxBound = Plus(Times(c, s.maxBound), x)
<1>1. CASE s \in Circles
  <2>1. s.kind = "circle" /\ s.center \in Vectors /\ s.radius \in Nat /\ s \notin Rectangles
    BY <1>1 DEF Circles, Rectangles
  <2>2. Plus(Times(c, s.center), x) \in Vectors /\ c * s.radius \in Nat
    BY <2>1, VectorTypes
  <2>. QED
    BY <2>1, <2>2 DEF Grown, Circle, Circles
<1>2. CASE s \in Rectangles
  <2>. DEFINE low == Plus(Times(c, s.minBound), x)
              high == Plus(Times(c, s.maxBound), x)
  <2>1. /\ s.kind = "rectangle" /\ s.minBound \in Vectors /\ s.maxBound \in Vectors
        /\ s.minBound.X <= s.maxBound.X /\ s.minBound.Y <= s.maxBound.Y /\ s \notin Circles
    BY <1>2 DEF Circles, Rectangles, InBounds
  <2>2. low \in Vectors /\ high \in Vectors
    BY <2>1, VectorTypes
  <2>3. /\ low.X = c * s.minBound.X + x.X /\ high.X = c * s.maxBound.X + x.X
        /\ low.Y = c * s.minBound.Y + x.Y /\ high.Y = c * s.maxBound.Y + x.Y
    BY Coordinates
  <2>4. Grown(s, c, x) = Rectangle(low, high)
    BY <2>1 DEF Grown
  <2>5. \A k, l \in Int : k <= l => c * k <= c * l
    <3>. SUFFICES ASSUME NEW k \in Int, NEW l \in Int, k <= l PROVE c * k <= c * l
      OBVIOUS
    <3>1. l - k \in Nat /\ c * (l - k) >= 0 /\ c * (l - k) = c * l - c * k
      OBVIOUS
    <3>. QED
      BY <3>1
  <2>6. low.X <= high.X /\ low.Y <= high.Y
    <3>1. /\ {s.minBound.X, s.maxBound.X, x.X} \subseteq Int
          /\ {s.minBound.Y, s.maxBound.Y, x.Y} \subseteq Int
      BY <2>1 DEF Vectors
    <3>2. /\ c * s.minBound.X <= c * s.maxBound.X /\ c * s.minBound.Y <= c * s.maxBound.Y
          /\ {c * s.minBound.X, c * s.maxBound.X} \subseteq Int
          /\ {c * s.minBound.Y, c * s.maxBound.Y} \subseteq Int
      BY <2>1, <2>5, <3>1
    <3>. HIDE DEF low, high
    <3>. QED
      BY <2>3, <3>1, <3>2
  <2>. HIDE DEF low, high
  <2>7. Grown(s, c, x) \in Rectangles
    BY <2>2, <2>4, <2>6 DEF Rectangle, Rectangles, InBounds
  <2>. QED
    BY <2>1, <2>4, <2>7 DEF Rectangle, low, high
<1>. QED
  BY <1>1, <1>2

(* A circle moved along its normal is as far from the other shape as before, *)
(* and farther by the move.                                                  *)
LEMMA DeltaGrows ==
  ASSUME NEW s \in Circles, NEW t, t \in Circles \/ t \in Rectangles,
         NEW x \in Vectors, NEW y \in Vectors, NEW c \in Nat, NEW f \in Nat,
         Minus(x, y) = Times(f, Delta(s, t))
  PROVE  Delta(Grown(s, c, x), Grown(t, c, y)) = Times(c + f, Delta(s, t))
<1>. DEFINE p == s.center
            S == Grown(s, c, x)
            T == Grown(t, c, y)
<1>1. p \in Vectors /\ S.center = Plus(Times(c, p), x)
  <2>1. p \in Vectors
    BY DEF Circles
  <2>2. S.center = Plus(Times(c, p), x)
    BY GrownTypes
  <2>. QED
    BY <2>1, <2>2
<1>2. CASE t \in Circles
  <2>. DEFINE q == t.center
  <2>1. t.kind = "circle" /\ q \in Vectors /\ T \in Circles /\ T.center = Plus(Times(c, q), y)
    <3>1. t.kind = "circle" /\ q \in Vectors
      BY <1>2 DEF Circles
    <3>2. T \in Circles /\ T.center = Plus(Times(c, q), y)
      BY <1>2, GrownTypes
    <3>. QED
      BY <3>1, <3>2
  <2>2. T.kind = "circle"
    BY <2>1 DEF Circles
  <2>3. Delta(s, t) = Minus(p, q) /\ Delta(S, T) = Minus(Plus(Times(c, p), x), Plus(Times(c, q), y))
    BY <1>1, <2>1, <2>2 DEF Delta
  <2>. HIDE DEF p, q, S, T
  <2>4. Delta(S, T) = Times(c + f, Delta(s, t))
    BY <1>1, <2>1, <2>3, PointsGrow
  <2>. QED
    BY <2>4 DEF S, T
<1>3. CASE t \in Rectangles
  <2>. DEFINE left == t.minBound.X
              right == t.maxBound.X
              bottom == t.minBound.Y
              top == t.maxBound.Y
              old == Delta(s, t)
              new == Delta(S, T)
  <2>1. /\ t.kind # "circle" /\ t.minBound \in Vectors /\ t.maxBound \in Vectors
        /\ left <= right /\ bottom <= top
        /\ T \in Rectangles /\ T.minBound = Plus(Times(c, t.minBound), y)
        /\ T.maxBound = Plus(Times(c, t.maxBound), y)
    <3>1. /\ t.kind # "circle" /\ t.minBound \in Vectors /\ t.maxBound \in Vectors
          /\ left <= right /\ bottom <= top
      BY <1>3 DEF Rectangles, InBounds
    <3>2. /\ T \in Rectangles /\ T.minBound = Plus(Times(c, t.minBound), y)
          /\ T.maxBound = Plus(Times(c, t.maxBound), y)
      BY <1>3, GrownTypes
    <3>. QED
      BY <3>1, <3>2
  <2>2. T.kind # "circle"
    BY <2>1 DEF Rectangles
  <2>3. /\ T.minBound.X = c * left + y.X /\ T.maxBound.X = c * right + y.X
        /\ T.minBound.Y = c * bottom + y.Y /\ T.maxBound.Y = c * top + y.Y
        /\ S.center.X = c * p.X + x.X /\ S.center.Y = c * p.Y + x.Y
    BY <1>1, <2>1, Coordinates
  <2>4. /\ {p.X, x.X, y.X, left, right} \subseteq Int /\ {p.Y, x.Y, y.Y, bottom, top} \subseteq Int
    BY <1>1, <2>1 DEF Vectors
  <2>5. \A r, q : /\ ClosestPoint(r, q).X = Clamp(q.X, r.minBound.X, r.maxBound.X)
                  /\ ClosestPoint(r, q).Y = Clamp(q.Y, r.minBound.Y, r.maxBound.Y)
    BY DEF ClosestPoint, Vec2
  <2>6. /\ old = Minus(p, ClosestPoint(t, p)) /\ old \in Vectors
        /\ new = Minus(S.center, ClosestPoint(T, S.center)) /\ new \in Vectors
    <3>1. S.center \in Vectors
      BY <1>1, VectorTypes
    <3>2. old = Minus(p, ClosestPoint(t, p)) /\ new = Minus(S.center, ClosestPoint(T, S.center))
      BY <2>1, <2>2 DEF Delta
    <3>3. ClosestPoint(t, p) \in Vectors /\ ClosestPoint(T, S.center) \in Vectors
      BY <1>1, <1>3, <2>1, <3>1, ClosestPointTypes
    <3>. HIDE DEF p, S, T, old, new
    <3>. QED
      BY <1>1, <3>1, <3>2, <3>3, VectorTypes
  <2>7. /\ old.X = p.X - Clamp(p.X, left, right) /\ old.Y = p.Y - Clamp(p.Y, bottom, top)
        /\ new.X = S.center.X - Clamp(S.center.X, T.minBound.X, T.maxBound.X)
        /\ new.Y = S.center.Y - Clamp(S.center.Y, T.minBound.Y, T.maxBound.Y)
    BY <2>5, <2>6, Coordinates
  <2>8. x.X - y.X = f * old.X /\ x.Y - y.Y = f * old.Y
    BY Coordinates
  <2>9. new.X = (c + f) * old.X
    <3>. DEFINE k == p.X
                u == x.X
                v == y.X
    <3>1. /\ MovedBy(f, k, left, right, u, v)
          /\ k \in Int /\ u \in Int /\ v \in Int /\ left \in Int /\ right \in Int
      BY <2>4, <2>7, <2>8 DEF MovedBy
    <3>2. new.X = (c * k + u) - Clamp(c * k + u, c * left + v, c * right + v)
      BY <2>3, <2>7
    <3>3. left <= right
      BY <2>1
    <3>4. old.X = k - Clamp(k, left, right)
      BY <2>7
    <3>. HIDE DEF k, u, v, left, right, old, new
    <3>5. GrowsBy(f, c, k, left, right, u, v)
      BY <3>1, <3>3, ClampGrows
    <3>. QED
      BY <3>2, <3>4, <3>5 DEF GrowsBy
  <2>10. new.Y = (c + f) * old.Y
    <3>. DEFINE k == p.Y
                u == x.Y
                v == y.Y
    <3>1. /\ MovedBy(f, k, bottom, top, u, v)
          /\ k \in Int /\ u \in Int /\ v \in Int /\ bottom \in Int /\ top \in Int
      BY <2>4, <2>7, <2>8 DEF MovedBy
    <3>2. new.Y = (c * k + u) - Clamp(c * k + u, c * bottom + v, c * top + v)
      BY <2>3, <2>7
    <3>3. bottom <= top
      BY <2>1
    <3>4. old.Y = k - Clamp(k, bottom, top)
      BY <2>7
    <3>. HIDE DEF k, u, v, bottom, top, old, new
    <3>5. GrowsBy(f, c, k, bottom, top, u, v)
      BY <3>1, <3>3, ClampGrows
    <3>. QED
      BY <3>2, <3>4, <3>5 DEF GrowsBy
  <2>. HIDE DEF old, new
  <2>11. new = Times(c + f, old)
    <3>1. c + f \in Int
      OBVIOUS
    <3>2. Times(c + f, old) \in Vectors
      BY <2>6, <3>1, VectorTypes
    <3>. QED
      BY <2>6, <2>9, <2>10, <3>2, Same, Coordinates
  <2>. QED
    BY <2>11 DEF old, new
<1>. QED
  BY <1>2, <1>3

(* On a line: twice the overlap of the intervals a..b and e..g, in the scale *)
(* and moved.                                                                *)
Depth(a, b, e, g) == ((b - a) + (g - e)) - Abs((a + b) - (e + g))
DepthMoved(c, x, y, a, b, e, g) == Depth(c * a + x, c * b + x, c * e + y, c * g + y)
Ahead(a, b, e, g) == IF (a + b) - (e + g) > 0 THEN 1 ELSE -1
MovedAhead(f, x, y, a, b, e, g) == x - y = f * Ahead(a, b, e, g)
AsDeep(c, x, y, a, b, e, g) == DepthMoved(c, x, y, a, b, e, g) = c * Depth(a, b, e, g)
LessDeep(f, c, x, y, a, b, e, g) ==
  DepthMoved(c, x, y, a, b, e, g) = c * Depth(a, b, e, g) - 2 * f

LEMMA DepthGrows ==
  ASSUME NEW a \in Int, NEW b \in Int, NEW e \in Int, NEW g \in Int, NEW c \in Nat,
         NEW x \in Int, NEW y \in Int, NEW f \in Nat
  PROVE  /\ x - y = 0 => AsDeep(c, x, y, a, b, e, g)
         /\ MovedAhead(f, x, y, a, b, e, g) => LessDeep(f, c, x, y, a, b, e, g)
<1>. DEFINE d == (a + b) - (e + g)
            size == (b - a) + (g - e)
            new == ((c * a + x) + (c * b + x)) - ((c * e + y) + (c * g + y))
<1>1. d \in Int /\ size \in Int
  OBVIOUS
<1>2. new = c * d + 2 * (x - y)
  <2>1. c * d = ((c * a) + (c * b)) - ((c * e) + (c * g))
    OBVIOUS
  <2>2. {c * a, c * b, c * e, c * g} \subseteq Int
    OBVIOUS
  <2>. QED
    BY <2>1, <2>2
<1>3. /\ Depth(a, b, e, g) = size - Abs(d)
      /\ DepthMoved(c, x, y, a, b, e, g) = c * size - Abs(new)
  <2>1. c * size = ((c * b) - (c * a)) + ((c * g) - (c * e))
    OBVIOUS
  <2>2. {c * a, c * b, c * e, c * g} \subseteq Int
    OBVIOUS
  <2>3. ((c * b + x) - (c * a + x)) + ((c * g + y) - (c * e + y)) = c * size
    BY <2>1, <2>2
  <2>. QED
    BY <2>3 DEF Depth, DepthMoved
<1>4. Ahead(a, b, e, g) = IF d > 0 THEN 1 ELSE -1
  BY DEF Ahead
<1>5. c * (size - Abs(d)) = c * size - c * Abs(d) /\ c * size \in Int
  <2>1. Abs(d) \in Int
    BY <1>1 DEF Abs
  <2>. HIDE DEF size, d
  <2>. QED
    BY <1>1, <2>1
<1>. HIDE DEF d, size, new
<1>6. c * d \in Int /\ (d > 0 => c * d >= 0) /\ (d <= 0 => c * d <= 0)
  BY <1>1
<1>7. c * Abs(d) = Abs(c * d)
  <2>1. CASE d >= 0
    BY <1>1, <1>6, <2>1 DEF Abs
  <2>2. CASE d < 0
    <3>1. Abs(d) = -d /\ c * (-d) = -(c * d)
      BY <1>1, <2>2 DEF Abs
    <3>2. Abs(c * d) = -(c * d)
      BY <1>1, <1>6, <2>2 DEF Abs
    <3>. QED
      BY <3>1, <3>2
  <2>. QED
    BY <1>1, <2>1, <2>2
<1>8. ASSUME x - y = 0
      PROVE  DepthMoved(c, x, y, a, b, e, g) = c * Depth(a, b, e, g)
  <2>1. new = c * d
    BY <1>2, <1>6, <1>8
  <2>. QED
    BY <1>3, <1>5, <1>7, <2>1
<1>9. ASSUME x - y = f * Ahead(a, b, e, g)
      PROVE  DepthMoved(c, x, y, a, b, e, g) = c * Depth(a, b, e, g) - 2 * f
  <2>1. Abs(new) = Abs(c * d) + 2 * f /\ Abs(c * d) \in Int
    <3>1. CASE d > 0
      <4>1. new = c * d + 2 * f
        BY <1>2, <1>4, <1>9, <3>1
      <4>. QED
        BY <1>6, <3>1, <4>1 DEF Abs
    <3>2. CASE d <= 0
      <4>1. new = c * d + 2 * (-f)
        <5>1. f * (-1) = -f
          OBVIOUS
        <5>. QED
          BY <1>1, <1>2, <1>4, <1>9, <3>2, <5>1
      <4>. QED
        BY <1>6, <3>2, <4>1 DEF Abs
    <3>. QED
      BY <1>1, <3>1, <3>2
  <2>. QED
    BY <1>3, <1>5, <1>7, <2>1
<1>. QED
  BY <1>8, <1>9 DEF AsDeep, MovedAhead, LessDeep

LEMMA PenetrationIs ==
  ASSUME NEW r \in Rectangles, NEW s \in Rectangles
  PROVE  /\ PenetrationX(r, s)
              = Depth(r.minBound.X, r.maxBound.X, s.minBound.X, s.maxBound.X)
         /\ PenetrationY(r, s)
              = Depth(r.minBound.Y, r.maxBound.Y, s.minBound.Y, s.maxBound.Y)
         /\ CentersApart(r, s).X
              = (r.minBound.X + r.maxBound.X) - (s.minBound.X + s.maxBound.X)
         /\ CentersApart(r, s).Y
              = (r.minBound.Y + r.maxBound.Y) - (s.minBound.Y + s.maxBound.Y)
<1>. DEFINE a == r.minBound
            b == r.maxBound
            c == s.minBound
            d == s.maxBound
<1>1. /\ a \in Vectors /\ b \in Vectors /\ c \in Vectors /\ d \in Vectors
      /\ CentersApart(r, s) = Minus(Plus(a, b), Plus(c, d))
      /\ PenetrationX(r, s) = (b.X - a.X) + (d.X - c.X) - Abs(CentersApart(r, s).X)
      /\ PenetrationY(r, s) = (b.Y - a.Y) + (d.Y - c.Y) - Abs(CentersApart(r, s).Y)
  BY DEF Rectangles, CentersApart, PenetrationX, PenetrationY
<1>. HIDE DEF a, b, c, d
<1>2. /\ CentersApart(r, s).X = (a.X + b.X) - (c.X + d.X)
      /\ CentersApart(r, s).Y = (a.Y + b.Y) - (c.Y + d.Y)
  <2>1. /\ CentersApart(r, s).X = a.X + b.X - (c.X + d.X)
        /\ CentersApart(r, s).Y = a.Y + b.Y - (c.Y + d.Y)
    BY <1>1, DifferenceOfSums
  <2>2. {a.X, b.X, c.X, d.X, a.Y, b.Y, c.Y, d.Y} \subseteq Int
    BY <1>1 DEF Vectors
  <2>. QED
    BY <2>1, <2>2
<1>3. {a.X, b.X, c.X, d.X, a.Y, b.Y, c.Y, d.Y} \subseteq Int
  BY <1>1 DEF Vectors
<1>4. \A n \in Int : Abs(n) \in Int
  BY DEF Abs
<1>5. Abs(CentersApart(r, s).X) \in Int /\ Abs(CentersApart(r, s).Y) \in Int
  BY <1>2, <1>3, <1>4
<1>6. \A k, l, m \in Int : k + l - m = (k + l) - m
  OBVIOUS
<1>7. {b.X - a.X, d.X - c.X, b.Y - a.Y, d.Y - c.Y} \subseteq Int
  BY <1>3
<1>8. /\ PenetrationX(r, s) = ((b.X - a.X) + (d.X - c.X)) - Abs(CentersApart(r, s).X)
      /\ PenetrationY(r, s) = ((b.Y - a.Y) + (d.Y - c.Y)) - Abs(CentersApart(r, s).Y)
  BY <1>1, <1>5, <1>6, <1>7
<1>. QED
  BY <1>2, <1>8 DEF Depth, a, b, c, d

LEMMA PenetrationGrows ==
  ASSUME NEW r \in Rectangles, NEW s \in Rectangles, NEW x \in Vectors, NEW y \in Vectors,
         NEW c \in Nat, NEW f \in Nat, Minus(x, y) = Times(f, RectangleNormal(r, s))
  PROVE  LET R == Grown(r, c, x)
             S == Grown(s, c, y)
         IN IF PenetrationX(r, s) < PenetrationY(r, s)
            THEN /\ PenetrationX(R, S) = c * PenetrationX(r, s) - 2 * f
                 /\ PenetrationY(R, S) = c * PenetrationY(r, s)
            ELSE /\ PenetrationX(R, S) = c * PenetrationX(r, s)
                 /\ PenetrationY(R, S) = c * PenetrationY(r, s) - 2 * f
<1>. DEFINE R == Grown(r, c, x)
            S == Grown(s, c, y)
            a == r.minBound
            b == r.maxBound
            e == s.minBound
            g == s.maxBound
            n == RectangleNormal(r, s)
            left == Ahead(a.X, b.X, e.X, g.X)
            below == Ahead(a.Y, b.Y, e.Y, g.Y)
            less == PenetrationX(r, s) < PenetrationY(r, s)
<1>1. a \in Vectors /\ b \in Vectors /\ e \in Vectors /\ g \in Vectors
  BY DEF Rectangles
<1>2. /\ R \in Rectangles /\ S \in Rectangles
      /\ R.minBound = Plus(Times(c, a), x) /\ R.maxBound = Plus(Times(c, b), x)
      /\ S.minBound = Plus(Times(c, e), y) /\ S.maxBound = Plus(Times(c, g), y)
  BY GrownTypes
<1>3. /\ PenetrationX(r, s) = Depth(a.X, b.X, e.X, g.X)
      /\ PenetrationY(r, s) = Depth(a.Y, b.Y, e.Y, g.Y)
      /\ CentersApart(r, s).X = (a.X + b.X) - (e.X + g.X)
      /\ CentersApart(r, s).Y = (a.Y + b.Y) - (e.Y + g.Y)
  BY PenetrationIs
<1>4. /\ PenetrationX(R, S) = DepthMoved(c, x.X, y.X, a.X, b.X, e.X, g.X)
      /\ PenetrationY(R, S) = DepthMoved(c, x.Y, y.Y, a.Y, b.Y, e.Y, g.Y)
  <2>1. /\ PenetrationX(R, S) = Depth(R.minBound.X, R.maxBound.X, S.minBound.X, S.maxBound.X)
        /\ PenetrationY(R, S) = Depth(R.minBound.Y, R.maxBound.Y, S.minBound.Y, S.maxBound.Y)
    <3>. HIDE DEF R, S
    <3>. QED
      BY <1>2, PenetrationIs
  <2>2. /\ R.minBound.X = c * a.X + x.X /\ R.maxBound.X = c * b.X + x.X
        /\ S.minBound.X = c * e.X + y.X /\ S.maxBound.X = c * g.X + y.X
        /\ R.minBound.Y = c * a.Y + x.Y /\ R.maxBound.Y = c * b.Y + x.Y
        /\ S.minBound.Y = c * e.Y + y.Y /\ S.maxBound.Y = c * g.Y + y.Y
    BY <1>2, Coordinates
  <2>. QED
    BY <2>1, <2>2 DEF DepthMoved
<1>5. /\ x.X - y.X = f * n.X /\ x.Y - y.Y = f * n.Y
  BY Coordinates
<1>6. /\ less => n.X = left /\ n.Y = 0
      /\ ~less => n.X = 0 /\ n.Y = below
  BY <1>3 DEF RectangleNormal, Ahead, Vec2
<1>7. /\ a.X \in Int /\ b.X \in Int /\ e.X \in Int /\ g.X \in Int
      /\ a.Y \in Int /\ b.Y \in Int /\ e.Y \in Int /\ g.Y \in Int
      /\ x.X \in Int /\ y.X \in Int /\ x.Y \in Int /\ y.Y \in Int
  BY <1>1 DEF Vectors
<1>8. f * 0 = 0
  OBVIOUS
<1>. HIDE DEF R, S, a, b, e, g, n, less
<1>9. CASE less
  <2>1. MovedAhead(f, x.X, y.X, a.X, b.X, e.X, g.X) /\ x.Y - y.Y = 0
    BY <1>5, <1>6, <1>8, <1>9 DEF MovedAhead
  <2>2. LessDeep(f, c, x.X, y.X, a.X, b.X, e.X, g.X)
    BY <1>7, <2>1, DepthGrows
  <2>3. AsDeep(c, x.Y, y.Y, a.Y, b.Y, e.Y, g.Y)
    BY <1>7, <2>1, DepthGrows
  <2>4. /\ PenetrationX(R, S) = c * PenetrationX(r, s) - 2 * f
        /\ PenetrationY(R, S) = c * PenetrationY(r, s)
    BY <1>3, <1>4, <2>2, <2>3 DEF LessDeep, AsDeep
  <2>. QED
    BY <1>9, <2>4 DEF R, S, less
<1>10. CASE ~less
  <2>1. x.X - y.X = 0 /\ MovedAhead(f, x.Y, y.Y, a.Y, b.Y, e.Y, g.Y)
    BY <1>5, <1>6, <1>8, <1>10 DEF MovedAhead
  <2>2. AsDeep(c, x.X, y.X, a.X, b.X, e.X, g.X)
    BY <1>7, <2>1, DepthGrows
  <2>3. LessDeep(f, c, x.Y, y.Y, a.Y, b.Y, e.Y, g.Y)
    BY <1>7, <2>1, DepthGrows
  <2>4. /\ PenetrationX(R, S) = c * PenetrationX(r, s)
        /\ PenetrationY(R, S) = c * PenetrationY(r, s) - 2 * f
    BY <1>3, <1>4, <2>2, <2>3 DEF LessDeep, AsDeep
  <2>. QED
    BY <1>10, <2>4 DEF R, S, less
<1>. QED
  BY <1>9, <1>10

(* Shapes that overlap are deep in one another by what the solver thinks.    *)
LEMMA RectanglesDeep ==
  ASSUME NEW r \in Rectangles, NEW s \in Rectangles, RectanglesIntersect(r, s)
  PROVE  PenetrationX(r, s) >= 0 /\ PenetrationY(r, s) >= 0
<1>. DEFINE a == r.minBound
            b == r.maxBound
            e == s.minBound
            g == s.maxBound
<1>1. /\ {a.X, b.X, e.X, g.X} \subseteq Int /\ {a.Y, b.Y, e.Y, g.Y} \subseteq Int
  BY DEF Rectangles, Vectors
<1>2. /\ b.X >= e.X /\ a.X <= g.X /\ b.Y >= e.Y /\ a.Y <= g.Y
  BY DEF RectanglesIntersect
<1>3. /\ PenetrationX(r, s) = Depth(a.X, b.X, e.X, g.X)
      /\ PenetrationY(r, s) = Depth(a.Y, b.Y, e.Y, g.Y)
  BY PenetrationIs
<1>. HIDE DEF a, b, e, g
<1>4. \A k, l, m, n \in Int : l >= m /\ k <= n => Depth(k, l, m, n) >= 0
  BY DEF Depth, Abs
<1>. QED
  BY <1>1, <1>2, <1>3, <1>4

LEMMA CirclesDeep ==
  ASSUME NEW s \in Circles, NEW t, t \in Circles \/ t \in Rectangles, Intersect(s, t)
  PROVE  /\ Delta(s, t) \in Vectors /\ Reach(s, t) \in Nat
         /\ SquareLength(Delta(s, t)) <= Reach(s, t) * Reach(s, t)
<1>. DEFINE p == s.center
            k == s.radius
<1>1. s.kind = "circle" /\ p \in Vectors /\ k \in Nat
  BY DEF Circles
<1>2. CASE t \in Circles
  <2>1. t.kind = "circle" /\ t.center \in Vectors /\ t.radius \in Nat
    BY <1>2 DEF Circles
  <2>2. CirclesIntersect(s, t)
    BY <1>1, <2>1, CircleWithCircle
  <2>3. Delta(s, t) = Minus(p, t.center) /\ Reach(s, t) = k + t.radius
    BY <2>1 DEF Delta, Reach
  <2>. QED
    BY <1>1, <2>1, <2>2, <2>3, VectorTypes DEF CirclesIntersect
<1>3. CASE t \in Rectangles
  <2>. DEFINE low == t.minBound
              high == t.maxBound
              d == Delta(s, t)
  <2>1. /\ t.kind = "rectangle" /\ low \in Vectors /\ high \in Vectors
        /\ low.X <= high.X /\ low.Y <= high.Y
    BY <1>3 DEF Rectangles, InBounds
  <2>2. RectangleIntersectsCircle(t, s)
    BY <1>1, <2>1, CircleWithRectangle
  <2>3. d = Minus(p, ClosestPoint(t, p)) /\ Reach(s, t) = k
    BY <1>1, <2>1 DEF Delta, Reach
  <2>4. d \in Vectors
    <3>1. ClosestPoint(t, p) \in Vectors
      BY <1>1, <1>3, ClosestPointTypes
    <3>. HIDE DEF d, p
    <3>. QED
      BY <1>1, <2>3, <3>1, VectorTypes
  <2>5. d.X = p.X - Clamp(p.X, low.X, high.X) /\ d.Y = p.Y - Clamp(p.Y, low.Y, high.Y)
    <3>1. /\ ClosestPoint(t, p).X = Clamp(p.X, low.X, high.X)
          /\ ClosestPoint(t, p).Y = Clamp(p.Y, low.Y, high.Y)
      BY DEF ClosestPoint, Vec2
    <3>. HIDE DEF d, p, low, high
    <3>. QED
      BY <2>3, <3>1, Coordinates
  <2>6. /\ {p.X, p.Y, low.X, low.Y, high.X, high.Y} \subseteq Int
    BY <1>1, <2>1 DEF Vectors
  <2>7. \/ low.X - k <= p.X /\ p.X <= high.X + k /\ low.Y <= p.Y /\ p.Y <= high.Y
        \/ low.X <= p.X /\ p.X <= high.X /\ low.Y - k <= p.Y /\ p.Y <= high.Y + k
        \/ \E x \in {low.X, high.X}, y \in {low.Y, high.Y} :
             (p.X - x) * (p.X - x) + (p.Y - y) * (p.Y - y) <= k * k
    <3>1. \/ low.X <= p.X /\ p.X <= high.X /\ low.Y <= p.Y /\ p.Y <= high.Y
          \/ low.X - k <= p.X /\ p.X <= high.X + k /\ low.Y - 0 <= p.Y /\ p.Y <= high.Y + 0
          \/ low.X - 0 <= p.X /\ p.X <= high.X + 0 /\ low.Y - k <= p.Y /\ p.Y <= high.Y + k
          \/ \E i \in 1..4 : CircleContains(s, CornersOf(t)[i])
      BY <2>2 DEF RectangleIntersectsCircle, RectangleContains, Rectangle, Minus, Plus, Vec2
    <3>2. ASSUME NEW i \in 1..4, CircleContains(s, CornersOf(t)[i])
          PROVE  \E x \in {low.X, high.X}, y \in {low.Y, high.Y} :
                   (p.X - x) * (p.X - x) + (p.Y - y) * (p.Y - y) <= k * k
      <4>. DEFINE corner == CornersOf(t)[i]
      <4>1. corner.X \in {low.X, high.X} /\ corner.Y \in {low.Y, high.Y}
        <5>1. /\ CornersOf(t)[1] = low /\ CornersOf(t)[2] = Vec2(low.X, high.Y)
              /\ CornersOf(t)[3] = high /\ CornersOf(t)[4] = Vec2(high.X, low.Y)
          BY DEF CornersOf
        <5>. QED
          BY <5>1 DEF Vec2
      <4>2. (p.X - corner.X) * (p.X - corner.X) + (p.Y - corner.Y) * (p.Y - corner.Y) <= k * k
        BY <3>2 DEF CircleContains, SquareLength, Dot, Minus, Vec2
      <4>. HIDE DEF corner
      <4>. QED
        BY <4>1, <4>2
    <3>. QED
      BY <1>1, <2>6, <3>1, <3>2
  <2>. DEFINE u == d.X
              v == d.Y
  <2>8. \A m, n \in Nat : m <= n => m * m <= n * n
    OBVIOUS
  <2>9. \A n \in Int : n * n = (-n) * (-n) /\ n * n \in Nat
    OBVIOUS
  <2>10. u * u + v * v <= k * k
    <3>. DEFINE a == p.X
                b == p.Y
                l == low.X
                h == high.X
                m == low.Y
                n == high.Y
    <3>1. /\ a \in Int /\ b \in Int /\ l \in Int /\ h \in Int /\ m \in Int /\ n \in Int
          /\ l <= h /\ m <= n /\ u = a - Clamp(a, l, h) /\ v = b - Clamp(b, m, n)
      BY <2>1, <2>5, <2>6
    <3>2. \/ l - k <= a /\ a <= h + k /\ m <= b /\ b <= n
          \/ l <= a /\ a <= h /\ m - k <= b /\ b <= n + k
          \/ \E x \in {l, h}, y \in {m, n} : (a - x) * (a - x) + (b - y) * (b - y) <= k * k
      BY <2>7
    <3>. HIDE DEF a, b, l, h, m, n, u, v, k
    <3>3. u \in Int /\ v \in Int /\ k \in Nat /\ k * k \in Int
      BY <1>1, <3>1 DEF Clamp
    <3>4. ASSUME NEW w \in Int, -k <= w, w <= k PROVE w * w <= k * k
      <4>1. CASE w >= 0
        BY <2>8, <3>3, <3>4, <4>1
      <4>2. CASE w < 0
        <5>1. -w \in Nat /\ -w <= k
          BY <3>3, <3>4, <4>2
        <5>2. (-w) * (-w) <= k * k
          BY <2>8, <3>3, <5>1
        <5>. QED
          BY <2>9, <5>2
      <4>. QED
        BY <4>1, <4>2
    <3>5. CASE l - k <= a /\ a <= h + k /\ m <= b /\ b <= n
      <4>1. v = 0 /\ -k <= u /\ u <= k
        BY <3>1, <3>3, <3>5 DEF Clamp
      <4>2. u * u <= k * k /\ v * v = 0
        BY <3>3, <3>4, <4>1
      <4>. QED
        BY <2>9, <3>3, <4>2
    <3>6. CASE l <= a /\ a <= h /\ m - k <= b /\ b <= n + k
      <4>1. u = 0 /\ -k <= v /\ v <= k
        BY <3>1, <3>3, <3>6 DEF Clamp
      <4>2. v * v <= k * k /\ u * u = 0
        BY <3>3, <3>4, <4>1
      <4>. QED
        BY <2>9, <3>3, <4>2
    <3>7. CASE \E x \in {l, h}, y \in {m, n} :
                 (a - x) * (a - x) + (b - y) * (b - y) <= k * k
      <4>1. PICK x \in {l, h}, y \in {m, n} :
              (a - x) * (a - x) + (b - y) * (b - y) <= k * k
        BY <3>7
      <4>2. ASSUME NEW w \in Int, NEW i \in Int, NEW low1 \in Int, NEW high1 \in Int,
                   low1 <= high1, NEW z \in {low1, high1}, w = i - Clamp(i, low1, high1)
            PROVE  w * w <= (i - z) * (i - z)
        <5>1. CASE w >= 0
          <6>1. w <= i - z \/ w = 0
            BY <4>2, <5>1 DEF Clamp
          <6>2. i - z \in Int /\ (i - z) * (i - z) \in Nat
            BY <2>9, <4>2
          <6>3. CASE w = 0
            BY <6>2, <6>3
          <6>4. CASE w <= i - z
            <7>1. w \in Nat /\ i - z \in Nat
              BY <5>1, <6>2, <6>4
            <7>. DEFINE q == i - z
            <7>2. q \in Nat /\ w <= q
              BY <6>4, <7>1
            <7>. HIDE DEF q
            <7>3. w * w <= q * q
              BY <2>8, <7>1, <7>2
            <7>. QED
              BY <7>3 DEF q
          <6>. QED
            BY <6>1, <6>3, <6>4
        <5>2. CASE w < 0
          <6>. DEFINE q == z - i
          <6>1. -w \in Nat /\ q \in Nat /\ -w <= q
            BY <4>2, <5>2 DEF Clamp
          <6>. HIDE DEF q
          <6>2. (-w) * (-w) <= q * q
            BY <2>8, <6>1
          <6>3. q * q = (i - z) * (i - z)
            <7>1. i - z \in Int /\ q = -(i - z)
              BY <4>2 DEF q
            <7>. QED
              BY <2>9, <7>1
          <6>. QED
            BY <2>9, <6>2, <6>3
        <5>. QED
          BY <5>1, <5>2
      <4>3. u * u <= (a - x) * (a - x)
        BY <3>1, <3>3, <4>2
      <4>4. v * v <= (b - y) * (b - y)
        BY <3>1, <3>3, <4>2
      <4>5. /\ u * u \in Int /\ v * v \in Int
            /\ (a - x) * (a - x) \in Int /\ (b - y) * (b - y) \in Int
        BY <3>1, <3>3
      <4>. QED
        BY <3>3, <4>1, <4>3, <4>4, <4>5
    <3>. QED
      BY <3>2, <3>5, <3>6, <3>7
  <2>. HIDE DEF d
  <2>11. SquareLength(d) <= k * k
    BY <2>10 DEF SquareLength, Dot
  <2>. QED
    BY <1>1, <2>3, <2>4, <2>11 DEF d
<1>. QED
  BY <1>2, <1>3

(* The distance k of two centres grows to that at which they touch, r.       *)
LEMMA PushedToTouch ==
  ASSUME NEW k \in Nat, NEW r \in Nat, k <= r, NEW p \in Nat,
         NEW l \in Nat, l = k * k, NEW c \in Nat, c = 4 * l * p,
         NEW f \in Int, f = 2 * (2 * (r - k)) * k * p
  PROVE  f \in Nat /\ (c + f) * (c + f) * l = (c * r) * (c * r)
<1>. DEFINE d == r - k
            far == (c + f) * k
            touch == c * r
<1>1. d \in Nat /\ r = k + d
  OBVIOUS
<1>2. \A x, y \in Nat : x * y \in Nat
  OBVIOUS
<1>3. f = 4 * ((d * k) * p)
  <2>. DEFINE e == r - k
  <2>1. e \in Int /\ f = 2 * (2 * e) * k * p
    OBVIOUS
  <2>. HIDE DEF e
  <2>2. f = 4 * ((e * k) * p)
    BY <2>1
  <2>. QED
    BY <2>2 DEF e
<1>. HIDE DEF d
<1>4. f \in Nat
  <2>1. (d * k) * p \in Nat
    BY <1>1, <1>2
  <2>. QED
    BY <1>3, <2>1
<1>5. far = touch
  <2>1. f * k = 4 * ((d * k) * p) * k
    BY <1>3
  <2>2. 4 * ((d * k) * p) * k = (4 * (k * k) * p) * d
    BY <1>1
  <2>3. f * k = c * d
    BY <2>1, <2>2
  <2>4. c * r = c * k + c * d /\ far = c * k + f * k
    BY <1>1
  <2>. QED
    BY <2>3, <2>4
<1>6. (c + f) * (c + f) * l = far * far
  OBVIOUS
<1>. QED
  BY <1>4, <1>5, <1>6

LEMMA ReachGrows ==
  ASSUME NEW s \in Circles, NEW t, t \in Circles \/ t \in Rectangles,
         NEW x \in Vectors, NEW y \in Vectors, NEW c \in Nat
  PROVE  Reach(Grown(s, c, x), Grown(t, c, y)) = c * Reach(s, t)
<1>. DEFINE S == Grown(s, c, x)
            T == Grown(t, c, y)
            k == s.radius
<1>1. S.radius = c * k
  BY GrownTypes
<1>2. k \in Nat
  BY DEF Circles
<1>3. CASE t \in Circles
  <2>. DEFINE l == t.radius
  <2>1. T \in Circles /\ T.radius = c * l
    BY <1>3, GrownTypes
  <2>2. t.kind = "circle" /\ l \in Nat
    BY <1>3 DEF Circles
  <2>3. T.kind = "circle"
    BY <2>1 DEF Circles
  <2>4. Reach(S, T) = c * k + c * l /\ Reach(s, t) = k + l
    BY <1>1, <2>1, <2>2, <2>3 DEF Reach
  <2>. HIDE DEF k, l, S, T
  <2>5. Reach(S, T) = c * Reach(s, t)
    BY <1>2, <2>2, <2>4
  <2>. QED
    BY <2>5 DEF S, T
<1>4. CASE t \in Rectangles
  <2>1. T \in Rectangles
    BY <1>4, GrownTypes
  <2>2. t.kind # "circle" /\ T.kind # "circle"
    BY <1>4, <2>1 DEF Rectangles
  <2>3. Reach(S, T) = c * k + 0 /\ Reach(s, t) = k + 0
    BY <1>1, <2>2 DEF Reach
  <2>. HIDE DEF k, S, T
  <2>4. Reach(S, T) = c * Reach(s, t)
    BY <1>2, <2>3
  <2>. QED
    BY <2>4 DEF S, T
<1>. QED
  BY <1>3, <1>4

(* Pushes x and y that differ by the penetration, in the scale, leave no gap *)
(* and no overlap.                                                           *)
LEMMA CirclesSeparate ==
  ASSUME NEW s \in Circles, NEW t, t \in Circles \/ t \in Rectangles, Intersect(s, t),
         NEW x \in Vectors, NEW y \in Vectors,
         NEW k \in Nat, k * k = SquareLength(Delta(s, t)), NEW p \in Nat,
         NEW c \in Nat, c = 4 * SquareLength(Delta(s, t)) * p,
         Minus(x, y) = Times(2 * (2 * (Reach(s, t) - k)) * k * p, Delta(s, t))
  PROVE  Gap(Grown(s, c, x), Grown(t, c, y)) = 0
<1>. DEFINE r == Reach(s, t)
            n == Delta(s, t)
            l == SquareLength(n)
            f == 2 * (2 * (r - k)) * k * p
<1>1. n \in Vectors /\ r \in Nat /\ l <= r * r /\ l \in Nat /\ l = k * k
  BY CirclesDeep, SquareLengthTypes
<1>2. c = 4 * l * p
  OBVIOUS
<1>3. Minus(x, y) = Times(f, n)
  OBVIOUS
<1>. HIDE DEF r, n, l
<1>4. k <= r
  <2>1. \A i, j \in Nat : i < j => i * i < j * j
    OBVIOUS
  <2>2. r < k => r * r < k * k
    BY <1>1, <2>1
  <2>3. r * r \in Int /\ k * k \in Int
    BY <1>1
  <2>. QED
    BY <1>1, <2>2, <2>3
<1>5. f \in Nat /\ (c + f) * (c + f) * l = (c * r) * (c * r)
  <2>1. f \in Int
    BY <1>1
  <2>. QED
    BY <1>1, <1>2, <1>4, <2>1, PushedToTouch
<1>. HIDE DEF f
<1>. DEFINE S == Grown(s, c, x)
            T == Grown(t, c, y)
<1>6. Delta(S, T) = Times(c + f, n)
  BY <1>3, <1>5, DeltaGrows DEF n
<1>7. Reach(S, T) = c * r
  BY ReachGrows DEF r
<1>8. S \in Circles
  BY GrownTypes
<1>. HIDE DEF S, T
<1>9. S.kind = "circle"
  BY <1>8 DEF Circles
<1>10. SquareLength(Times(c + f, n)) = (c + f) * (c + f) * l
  <2>1. c + f \in Int
    BY <1>5
  <2>. QED
    BY <1>1, <2>1, SquareOfTimes DEF l
<1>11. Gap(S, T) = SquareLength(Delta(S, T)) - Reach(S, T) * Reach(S, T)
  BY <1>9 DEF Gap
<1>12. (c * r) * (c * r) \in Int
  BY <1>1
<1>13. Gap(S, T) = 0
  BY <1>5, <1>6, <1>7, <1>10, <1>11, <1>12
<1>. QED
  BY <1>13 DEF S, T

LEMMA RectanglesSeparate ==
  ASSUME NEW s \in Rectangles, NEW t \in Rectangles, Intersect(s, t),
         NEW x \in Vectors, NEW y \in Vectors,
         NEW m \in Nat, NEW c \in Nat, c = 4 * m,
         NEW p \in Int, p = Min({PenetrationX(s, t), PenetrationY(s, t)}),
         Minus(x, y) = Times(2 * p * m, RectangleNormal(s, t))
  PROVE  Gap(Grown(s, c, x), Grown(t, c, y)) = 0
<1>. DEFINE n == RectangleNormal(s, t)
            a == PenetrationX(s, t)
            b == PenetrationY(s, t)
            f == 2 * p * m
<1>1. s.kind = "rectangle" /\ t.kind = "rectangle"
  BY DEF Rectangles
<1>2. a \in Int /\ b \in Int /\ a >= 0 /\ b >= 0
  BY <1>1, RectangleWithRectangle, RectanglesDeep, RectanglesApart
<1>3. (a <= b => p = a) /\ (b <= a => p = b) /\ p >= 0
  BY <1>2, MinOfTwo
<1>4. n \in Vectors
  BY RectangleNormalIs
<1>5. ASSUME NEW u \in Vectors, NEW v \in Vectors, NEW g \in Nat, Minus(u, v) = Times(g, n)
      PROVE  Gap(Grown(s, c, u), Grown(t, c, v)) = -(c * p - 2 * g)
  <2>. DEFINE S == Grown(s, c, u)
              T == Grown(t, c, v)
  <2>1. IF a < b THEN PenetrationX(S, T) = c * a - 2 * g /\ PenetrationY(S, T) = c * b
                 ELSE PenetrationX(S, T) = c * a /\ PenetrationY(S, T) = c * b - 2 * g
    BY <1>5, PenetrationGrows
  <2>2. S \in Rectangles
    BY GrownTypes
  <2>. HIDE DEF S, T, a, b
  <2>3. S.kind = "rectangle"
    BY <2>2 DEF Rectangles
  <2>4. Gap(S, T) = -Min({PenetrationX(S, T), PenetrationY(S, T)})
    BY <2>3 DEF Gap
  <2>5. c * a \in Int /\ c * b \in Int /\ (a <= b => c * a <= c * b) /\ (b <= a => c * b <= c * a)
    <3>1. \A i, j \in Int : i >= 0 /\ j >= 0 => i * j >= 0
      OBVIOUS
    <3>2. c * a \in Int /\ c * b \in Int /\ c * (b - a) = c * b - c * a /\ c * (a - b) = c * a - c * b
      BY <1>2
    <3>3. (b - a >= 0 => c * (b - a) >= 0) /\ (a - b >= 0 => c * (a - b) >= 0)
      BY <1>2, <3>1
    <3>. QED
      BY <1>2, <3>2, <3>3
  <2>6. CASE a < b
    <3>1. PenetrationX(S, T) <= PenetrationY(S, T) /\ PenetrationX(S, T) = c * p - 2 * g
          /\ PenetrationX(S, T) \in Int /\ PenetrationY(S, T) \in Int
      <4>1. p = a /\ a <= b
        BY <1>2, <1>3, <2>6
      <4>. QED
        BY <2>1, <2>5, <2>6, <4>1
    <3>2. Min({PenetrationX(S, T), PenetrationY(S, T)}) = PenetrationX(S, T)
      BY <3>1, MinOfTwo
    <3>3. Gap(S, T) = -(c * p - 2 * g)
      BY <2>4, <3>1, <3>2
    <3>. QED
      BY <3>3 DEF S, T
  <2>7. CASE ~(a < b)
    <3>1. PenetrationY(S, T) <= PenetrationX(S, T) /\ PenetrationY(S, T) = c * p - 2 * g
          /\ PenetrationX(S, T) \in Int /\ PenetrationY(S, T) \in Int
      <4>1. p = b
        BY <1>2, <1>3, <2>7
      <4>. QED
        BY <1>2, <2>1, <2>5, <2>7, <4>1
    <3>2. Min({PenetrationX(S, T), PenetrationY(S, T)}) = PenetrationY(S, T)
      <4>1. \A i, j \in Int : j <= i => Min({i, j}) = j
        BY MinOfTwo
      <4>. QED
        BY <3>1, <4>1
    <3>3. Gap(S, T) = -(c * p - 2 * g)
      BY <2>4, <3>1, <3>2
    <3>. QED
      BY <3>3 DEF S, T
  <2>. QED
    BY <2>6, <2>7
<1>6. f \in Nat /\ c * p - 2 * f = 0
  <2>1. p * m \in Nat
    <3>1. \A i, j \in Nat : i * j \in Nat
      OBVIOUS
    <3>2. p \in Nat
      BY <1>3
    <3>. QED
      BY <3>1, <3>2
  <2>2. f = 2 * (p * m) /\ c * p = 4 * (p * m)
    OBVIOUS
  <2>. HIDE DEF f
  <2>. QED
    BY <2>1, <2>2
<1>7. Minus(x, y) = Times(f, n)
  OBVIOUS
<1>. HIDE DEF f, n, a, b
<1>8. Gap(Grown(s, c, x), Grown(t, c, y)) = -(c * p - 2 * f)
  BY <1>5, <1>6, <1>7
<1>. QED
  BY <1>6, <1>8

-----------------------------------------------------------------------------
(* The same of the solver.                                                   *)

LEMMA FirstOverlaps ==
  ASSUME StepInv, phase = "contact", NEW i \in Side, HasContact(i)
  PROVE  Intersect(Shape(FirstOf(i)), Shape(OtherSide(FirstOf(i))))
<1>. DEFINE j == FirstOf(i)
            s == Shape(1)
            t == Shape(2)
<1>1. /\ 1 \in Side /\ 2 \in Side /\ OtherSide(1) = 2 /\ OtherSide(2) = 1 /\ (i = 1 \/ i = 2)
  BY DEF Side, OtherSide
<1>2. j = 1 \/ j = 2
  BY <1>1 DEF FirstOf
<1>3. Intersect(s, t)
  BY DEF StepInv, Overlap
<1>4. s \in AllShapes /\ t \in AllShapes
  BY <1>1, ColliderTypes
<1>5. s.kind \in {"circle", "rectangle"} /\ t.kind \in {"circle", "rectangle"}
  <2>1. s.kind # "polygon" /\ t.kind # "polygon"
    BY <1>1 DEF HasContact
  <2>. HIDE DEF s, t
  <2>. QED
    BY <1>4, <2>1 DEF AllShapes, Circles, Rectangles, Polygons
<1>. HIDE DEF s, t
<1>6. Intersect(t, s)
  BY <1>3, <1>4, <1>5, IntersectTurned
<1>. QED
  BY <1>1, <1>2, <1>3, <1>6 DEF s, t

(* Two vectors by which a change is shared, towards a or from it, differ by  *)
(* the change times what they share.                                         *)
LEMMA SharesApart ==
  ASSUME NEW g \in Int, NEW u \in Int, NEW v \in Int, NEW n \in Vectors
  PROVE  /\ Minus(Times(u, Times(g, n)), Times(-v, Times(g, n))) = Times(g * (u + v), n)
         /\ Minus(Times(-v, Times(g, Times(-1, n))), Times(u, Times(g, Times(-1, n))))
              = Times(g * (u + v), n)
<1>. DEFINE b == n.X
            d == n.Y
<1>1. b \in Int /\ d \in Int
  BY DEF Vectors
<1>2. /\ u * (g * b) - ((-v) * (g * b)) = (g * (u + v)) * b
      /\ u * (g * d) - ((-v) * (g * d)) = (g * (u + v)) * d
  BY <1>1
<1>3. /\ (-v) * (g * (-1 * b)) - (u * (g * (-1 * b))) = (g * (u + v)) * b
      /\ (-v) * (g * (-1 * d)) - (u * (g * (-1 * d))) = (g * (u + v)) * d
  BY <1>1
<1>. DEFINE x == Times(g, n)
            y == Times(g, Times(-1, n))
<1>4. /\ x.X = g * b /\ x.Y = g * d /\ y.X = g * (-1 * b) /\ y.Y = g * (-1 * d)
  <2>. DEFINE m == Times(-1, n)
  <2>1. m.X = -1 * b /\ m.Y = -1 * d
    BY <1>1 DEF Times, Vec2
  <2>0. x.X = g * b /\ x.Y = g * d
    BY DEF Times, Vec2
  <2>. HIDE DEF m
  <2>2. Times(g, m).X = g * m.X /\ Times(g, m).Y = g * m.Y
    BY Coordinates
  <2>. QED
    BY <2>0, <2>1, <2>2 DEF m
<1>. HIDE DEF x, y, b, d
<1>5. /\ Minus(Times(u, x), Times(-v, x)) = Vec2(u * x.X - ((-v) * x.X), u * x.Y - ((-v) * x.Y))
      /\ Minus(Times(-v, y), Times(u, y)) = Vec2((-v) * y.X - (u * y.X), (-v) * y.Y - (u * y.Y))
      /\ Times(g * (u + v), n) = Vec2((g * (u + v)) * b, (g * (u + v)) * d)
  BY DEF Minus, Times, Vec2, b, d
<1>. QED
  BY <1>2, <1>3, <1>4, <1>5 DEF x, y

(* A change along the normal moves the bodies apart by all of it times the   *)
(* total inverse mass, whichever of them is dynamic.                         *)
LEMMA PushesApart ==
  ASSUME StepInv, NEW j, Ready(j), NEW g \in Int
  PROVE  LET a == BodyA(j)
             change == Times(g, NormalTo(j, a))
         IN Minus(Push(j, a, change), Push(OtherSide(j), a, change))
              = Times(g * TotalInverseMass, NormalOf(j))
<1>. DEFINE a == BodyA(j)
            k == OtherSide(j)
            n == NormalOf(j)
            change == Times(g, NormalTo(j, a))
            i == InverseMass(a)
            h == InverseMass(OtherSide(a))
            d == TotalInverseMass
<1>1. j \in Side /\ k \in Side /\ OtherSide(k) = j /\ j # k /\ (a = j \/ a = k) /\ a \in Side
  BY Sides DEF Ready, BodyA
<1>2. i \in Int /\ h \in Int /\ d = i + h /\ n \in Vectors
  BY <1>1, InverseMassTypes DEF Ready
<1>3. change \in Vectors
  BY NormalToTypes, VectorTypes
<1>4. Push(a, a, change) = Times(i, change) /\ Push(OtherSide(a), a, change) = Times(-h, change)
  BY <1>1, <1>3, Pushes
<1>5. CASE a = j
  <2>1. change = Times(g, n)
    BY <1>5 DEF NormalTo
  <2>2. Push(j, a, change) = Times(i, change) /\ Push(k, a, change) = Times(-h, change)
    BY <1>4, <1>5
  <2>. HIDE DEF change, n, i, h, d, k, a
  <2>. QED
    BY <1>2, <2>1, <2>2, SharesApart DEF change, n, i, h, d, k, a
<1>6. CASE a = k
  <2>1. change = Times(g, Times(-1, n))
    BY <1>1, <1>6 DEF NormalTo
  <2>2. Push(k, a, change) = Times(i, change) /\ Push(j, a, change) = Times(-h, change)
    BY <1>1, <1>4, <1>6
  <2>. HIDE DEF change, n, i, h, d, k, a
  <2>. QED
    BY <1>2, <2>1, <2>2, SharesApart DEF change, n, i, h, d, k, a
<1>. QED
  BY <1>1, <1>5, <1>6

(* Bodies that overlap are moved apart by the penetration, in the scale.     *)
LEMMA PartsOfPush ==
  ASSUME StepInv, NEW j, Ready(j), TwicePenetration(j) >= 0
  PROVE  LET a == BodyA(j)
             change == PostCollisionPosition(j, a)
         IN Minus(Push(j, a, change), Push(OtherSide(j), a, change))
              = Times(2 * TwicePenetration(j) * LengthOf(j) * (Masses * TotalInverseMass), NormalOf(j))
<1>. DEFINE a == BodyA(j)
            g == 2 * TwicePenetration(j) * LengthOf(j) * Masses
            change == PostCollisionPosition(j, a)
            w == NormalTo(j, a)
<1>1. /\ TwicePenetration(j) \in Int /\ LengthOf(j) \in Int /\ Masses \in Int
      /\ TotalInverseMass \in Int /\ w \in Vectors
  <2>1. j \in Side /\ TwicePenetration(j) \in Int
    BY DEF Ready
  <2>2. LengthOf(j) \in Int /\ Masses \in Int /\ TotalInverseMass \in Int
    BY <2>1, LengthTypes, BodyTypes, InverseMassTypes
  <2>. QED
    BY <2>1, <2>2, NormalToTypes
<1>2. change = Times(g, w)
  <2>1. CASE TwicePenetration(j) > 0
    <3>1. ~(TwicePenetration(j) <= 0)
      BY <1>1, <2>1
    <3>. QED
      BY <3>1 DEF PostCollisionPosition
  <2>2. CASE TwicePenetration(j) = 0
    <3>1. change = Zero
      BY <2>2 DEF PostCollisionPosition
    <3>2. g = 0
      BY <1>1, <2>2
    <3>3. w.X \in Int /\ w.Y \in Int
      BY <1>1 DEF Vectors
    <3>. HIDE DEF w, g
    <3>4. 0 * w.X = 0 /\ 0 * w.Y = 0
      BY <3>3
    <3>5. Times(0, w) = Zero
      BY <3>4 DEF Times, Zero
    <3>. QED
      BY <3>1, <3>2, <3>5
  <2>. QED
    BY <1>1, <2>1, <2>2
<1>3. g \in Int
  BY <1>1
<1>4. Minus(Push(j, a, Times(g, w)), Push(OtherSide(j), a, Times(g, w)))
        = Times(g * TotalInverseMass, NormalOf(j))
  BY <1>3, PushesApart
<1>5. g * TotalInverseMass = 2 * TwicePenetration(j) * LengthOf(j) * (Masses * TotalInverseMass)
  BY <1>1
<1>. HIDE DEF g, change, w
<1>. QED
  BY <1>2, <1>4, <1>5 DEF change

(* And their velocities along the normal, in the scale, part: by nothing if  *)
(* they part already, by the restitution if they approach.                   *)
LEMMA PartsAgain ==
  ASSUME NEW s \in Nat, NEW l \in Nat, NEW t \in Nat, NEW d \in Nat, s = 4 * l * t * d,
         NEW w \in Nat, NEW u \in Int, u <= 0
  PROVE  s * u + ((4 * t + w) * (-u)) * d * l >= 0
<1>. DEFINE v == -u
<1>1. v \in Nat /\ u = -v
  OBVIOUS
<1>. HIDE DEF v
<1>2. s * u + ((4 * t + w) * (-u)) * d * l = (l * d) * (w * v)
  BY <1>1
<1>3. \A x, y \in Nat : x * y \in Nat
  OBVIOUS
<1>4. (l * d) * (w * v) \in Nat
  BY <1>1, <1>3
<1>. QED
  BY <1>2, <1>4

LEMMA PartsOfVelocity ==
  ASSUME StepInv, NEW j, Ready(j)
  PROVE  LET k == OtherSide(j)
         IN Dot(Minus(Resolved(j)[j].velocity, Resolved(j)[k].velocity), NormalOf(j)) >= 0
<1>. DEFINE k == OtherSide(j)
            a == BodyA(j)
            n == NormalOf(j)
            v == bodies[j].velocity
            w == bodies[k].velocity
            s == Scale(j)
            d == TotalInverseMass
            weight == WeightedRestitution(j)
            u == SeparatingVelocity(j, a)
            g == (4 * Masses + weight) * (-u)
            change == PostCollisionVelocity(j, a)
            x == Push(j, a, change)
            y == Push(k, a, change)
            l == SquareLength(n)
            rel == Minus(v, w)
            new == Minus(Resolved(j)[j].velocity, Resolved(j)[k].velocity)
<1>1. j \in Side /\ k \in Side /\ OtherSide(k) = j /\ j # k /\ (a = j \/ a = k) /\ a \in Side
  BY Sides DEF Ready, BodyA
<1>2. /\ v \in Vectors /\ w \in Vectors /\ n \in Vectors /\ u \in Int /\ change \in Vectors
      /\ Masses \in Nat /\ d \in Nat /\ weight \in Nat /\ s \in Nat /\ l \in Nat
      /\ s = 4 * l * Masses * d
  <2>1. v \in Vectors /\ w \in Vectors /\ n \in Vectors /\ Masses \in Nat /\ d \in Nat
    BY <1>1, BodyTypes, InverseMassTypes DEF Ready
  <2>2. u \in Int /\ change \in Vectors /\ weight \in Nat
    BY <1>1, SolverTypes, WeightedTypes
  <2>3. s \in Nat /\ l \in Nat /\ s = 4 * l * Masses * d
    BY LengthTypes
  <2>. QED
    BY <2>1, <2>2, <2>3
<1>3. u = Dot(rel, n)
  <2>1. CASE a = j
    BY <2>1 DEF SeparatingVelocity, NormalTo
  <2>2. CASE a = k
    <3>1. u = Dot(Minus(w, v), Times(-1, n))
      BY <1>1, <2>2 DEF SeparatingVelocity, NormalTo
    <3>2. {v.X, v.Y, w.X, w.Y, n.X, n.Y} \subseteq Int
      BY <1>2 DEF Vectors
    <3>. HIDE DEF v, w, n, u
    <3>3. /\ Dot(Minus(v, w), n) = (v.X - w.X) * n.X + (v.Y - w.Y) * n.Y
          /\ Dot(Minus(w, v), Times(-1, n)) = (w.X - v.X) * (-1 * n.X) + (w.Y - v.Y) * (-1 * n.Y)
      BY <3>2, Coordinates DEF Dot
    <3>4. \A p, q, e \in Int : (p - q) * e = (q - p) * (-1 * e)
      OBVIOUS
    <3>5. /\ (v.X - w.X) * n.X = (w.X - v.X) * (-1 * n.X)
          /\ (v.Y - w.Y) * n.Y = (w.Y - v.Y) * (-1 * n.Y)
      BY <3>2, <3>4
    <3>. QED
      BY <3>1, <3>3, <3>5
  <2>. QED
    BY <1>1, <2>1, <2>2
<1>4. change = IF u > 0 THEN Zero ELSE Times(g, NormalTo(j, a))
  BY DEF PostCollisionVelocity
<1>5. g \in Int
  BY <1>2
<1>6. \E h \in Int : Minus(x, y) = Times(h, n) /\ s * u + h * l >= 0
  <2>1. CASE u > 0
    <3>1. x = Zero /\ y = Zero
      <4>1. /\ change = Zero
            /\ \A q \in Int : Times(q, Zero) = Zero
        BY <1>4, <2>1, NothingAdded, VectorTypes
      <4>2. \A z \in Side : Share(z, a) \in Int
        BY InverseMassTypes DEF Share
      <4>. QED
        BY <1>1, <4>1, <4>2 DEF Push
    <3>2. Minus(x, y) = Times(0, n)
      <4>1. n.X \in Int /\ n.Y \in Int
        BY <1>2 DEF Vectors
      <4>. HIDE DEF x, y, n
      <4>2. 0 * n.X = 0 /\ 0 * n.Y = 0
        BY <4>1
      <4>. QED
        BY <3>1, <4>2 DEF Minus, Times, Zero, Vec2
    <3>3. s * u + 0 * l >= 0
      <4>. HIDE DEF s, u, l
      <4>1. \A p, q \in Nat : p * q \in Nat
        OBVIOUS
      <4>2. u \in Nat /\ s * u \in Nat /\ 0 * l = 0
        BY <1>2, <2>1, <4>1
      <4>. QED
        BY <4>2
    <3>. QED
      BY <3>2, <3>3
  <2>2. CASE ~(u > 0)
    <3>1. Minus(x, y) = Times(g * d, n)
      BY <1>4, <1>5, <2>2, PushesApart
    <3>2. s * u + ((4 * Masses + weight) * (-u)) * d * l >= 0
      <4>. HIDE DEF s, u, l, weight, d
      <4>1. u <= 0
        BY <1>2, <2>2
      <4>. QED
        BY <1>2, <4>1, PartsAgain
    <3>3. g * d \in Int
      BY <1>2, <1>5
    <3>. QED
      BY <3>1, <3>2, <3>3
  <2>. QED
    BY <2>1, <2>2
<1>7. PICK h \in Int : Minus(x, y) = Times(h, n) /\ s * u + h * l >= 0
  BY <1>6
<1>8. x \in Vectors /\ y \in Vectors
  <2>1. Share(j, a) \in Int /\ Share(k, a) \in Int
    BY <1>1, InverseMassTypes DEF Share
  <2>. QED
    BY <1>2, <2>1, VectorTypes DEF Push
<1>9. new = Minus(Plus(Times(s, v), x), Plus(Times(s, w), y))
  BY <1>1, ResolvedIs
<1>. HIDE DEF new, v, w, n, u, s, d, l, weight, g, change, x, y, rel, a, k
<1>10. Dot(new, n) = s * Dot(rel, n) + h * SquareLength(n)
  <2>1. /\ {v.X, w.X, x.X, y.X, n.X, rel.X} \subseteq Int
        /\ {v.Y, w.Y, x.Y, y.Y, n.Y, rel.Y} \subseteq Int
        /\ rel.X = v.X - w.X /\ rel.Y = v.Y - w.Y
    <3>1. rel.X = v.X - w.X /\ rel.Y = v.Y - w.Y
      BY Coordinates DEF rel
    <3>. QED
      BY <1>2, <1>8, <3>1 DEF Vectors
  <2>2. x.X - y.X = h * n.X /\ x.Y - y.Y = h * n.Y
    <3>1. Minus(x, y).X = x.X - y.X /\ Minus(x, y).Y = x.Y - y.Y
      BY Coordinates
    <3>2. Times(h, n).X = h * n.X /\ Times(h, n).Y = h * n.Y
      BY Coordinates
    <3>. QED
      BY <1>7, <3>1, <3>2
  <2>3. /\ new.X = s * v.X + x.X - (s * w.X + y.X)
        /\ new.Y = s * v.Y + x.Y - (s * w.Y + y.Y)
    <3>. DEFINE p == Times(s, v)
                q == Times(s, w)
    <3>1. p.X = s * v.X /\ p.Y = s * v.Y /\ q.X = s * w.X /\ q.Y = s * w.Y
      BY Coordinates
    <3>2. p \in Vectors /\ q \in Vectors
      BY <1>2, VectorTypes
    <3>. HIDE DEF p, q
    <3>3. new = Minus(Plus(p, x), Plus(q, y))
      BY <1>9 DEF p, q
    <3>. QED
      BY <1>8, <3>1, <3>2, <3>3, DifferenceOfSums
  <2>4. new.X = s * rel.X + h * n.X /\ new.Y = s * rel.Y + h * n.Y
    <3>1. s * v.X - s * w.X = s * rel.X /\ s * v.Y - s * w.Y = s * rel.Y
      BY <1>2, <2>1
    <3>2. {s * v.X, s * w.X, s * v.Y, s * w.Y, h * n.X, h * n.Y} \subseteq Int
      BY <1>2, <2>1
    <3>. QED
      BY <2>1, <2>2, <2>3, <3>1, <3>2
  <2>5. /\ (s * rel.X + h * n.X) * n.X = s * (rel.X * n.X) + h * (n.X * n.X)
        /\ (s * rel.Y + h * n.Y) * n.Y = s * (rel.Y * n.Y) + h * (n.Y * n.Y)
    BY <1>2, <2>1
  <2>6. /\ Dot(new, n) = new.X * n.X + new.Y * n.Y
        /\ Dot(rel, n) = rel.X * n.X + rel.Y * n.Y
        /\ SquareLength(n) = n.X * n.X + n.Y * n.Y
    BY DEF Dot, SquareLength
  <2>. DEFINE p == rel.X * n.X
              q == rel.Y * n.Y
              e == n.X * n.X
              f == n.Y * n.Y
  <2>7. p \in Int /\ q \in Int /\ e \in Int /\ f \in Int
    BY <2>1
  <2>8. Dot(new, n) = (s * p + h * e) + (s * q + h * f)
    BY <2>4, <2>5, <2>6
  <2>. HIDE DEF p, q, e, f
  <2>9. (s * p + h * e) + (s * q + h * f) = s * (p + q) + h * (e + f)
    BY <1>2, <2>7
  <2>. QED
    BY <2>6, <2>8, <2>9 DEF p, q, e, f
<1>11. Dot(new, n) >= 0
  BY <1>3, <1>7, <1>10 DEF l
<1>. QED
  BY <1>11 DEF new, n, k

LEMMA ScaledIs ==
  ASSUME NEW s, NEW k
  PROVE  /\ s.kind = "circle" =>
              Scaled(s, k) = Circle(Times(k, s.center), k * s.radius)
         /\ s.kind = "rectangle" =>
              Scaled(s, k) = Rectangle(Times(k, s.minBound), Times(k, s.maxBound))
<1>1. s.kind = "circle" => Scaled(s, k) = Circle(Times(k, s.center), k * s.radius)
  BY Zenon DEF Scaled
<1>2. s.kind = "rectangle" =>
        Scaled(s, k) = Rectangle(Times(k, s.minBound), Times(k, s.maxBound))
  BY Zenon DEF Scaled
<1>. QED
  BY <1>1, <1>2

LEMMA ScaledMoved ==
  ASSUME NEW s, s \in Circles \/ s \in Rectangles, NEW c \in Nat,
         NEW o \in Vectors, NEW x \in Vectors
  PROVE  At(Scaled(s, c), Plus(Times(c, o), x)) = Grown(At(s, o), c, x)
<1>. DEFINE p == Plus(Times(c, o), x)
<1>1. \A v \in Vectors : Plus(Times(c, v), p) = Plus(Times(c, Plus(v, o)), x)
  <2>. SUFFICES ASSUME NEW v \in Vectors
                PROVE  Plus(Times(c, v), p) = Plus(Times(c, Plus(v, o)), x)
    OBVIOUS
  <2>. DEFINE u == Plus(Times(c, v), p)
              w == Plus(Times(c, Plus(v, o)), x)
  <2>1. /\ v.X \in Int /\ v.Y \in Int /\ o.X \in Int /\ o.Y \in Int
        /\ x.X \in Int /\ x.Y \in Int
    BY DEF Vectors
  <2>2. u \in Vectors /\ w \in Vectors
    BY VectorTypes
  <2>3. /\ u.X = c * v.X + (c * o.X + x.X) /\ u.Y = c * v.Y + (c * o.Y + x.Y)
        /\ w.X = c * (v.X + o.X) + x.X /\ w.Y = c * (v.Y + o.Y) + x.Y
    BY Coordinates
  <2>. HIDE DEF u, w
  <2>4. u.X = w.X /\ u.Y = w.Y
    BY <2>1, <2>3
  <2>5. u = w
    BY <2>2, <2>4, Same
  <2>. QED
    BY <2>5 DEF u, w
<1>. HIDE DEF p
<1>2. CASE s \in Circles
  <2>1. s.kind = "circle" /\ s.center \in Vectors
    BY <1>2 DEF Circles
  <2>2. At(s, o).kind = "circle" /\ At(s, o).center = Plus(s.center, o)
        /\ At(s, o).radius = s.radius
    BY <2>1, AtCircle DEF Circle
  <2>3. Grown(At(s, o), c, x) = Circle(Plus(Times(c, Plus(s.center, o)), x), c * s.radius)
    BY <2>2 DEF Grown
  <2>4. Scaled(s, c) = Circle(Times(c, s.center), c * s.radius)
    BY <2>1, ScaledIs
  <2>5. At(Scaled(s, c), p) = Circle(Plus(Times(c, s.center), p), c * s.radius)
    BY <2>4, AtCircle DEF Circle
  <2>. QED
    BY <1>1, <2>1, <2>3, <2>5 DEF p
<1>3. CASE s \in Rectangles
  <2>1. s.kind = "rectangle" /\ s.minBound \in Vectors /\ s.maxBound \in Vectors
    BY <1>3 DEF Rectangles
  <2>2. At(s, o).kind = "rectangle" /\ At(s, o).minBound = Plus(s.minBound, o)
        /\ At(s, o).maxBound = Plus(s.maxBound, o)
    BY <2>1, AtRectangle DEF Rectangle
  <2>3. Grown(At(s, o), c, x) = Rectangle(Plus(Times(c, Plus(s.minBound, o)), x),
                                          Plus(Times(c, Plus(s.maxBound, o)), x))
    BY <2>2 DEF Grown
  <2>4. Scaled(s, c) = Rectangle(Times(c, s.minBound), Times(c, s.maxBound))
    BY <2>1, ScaledIs
  <2>5. At(Scaled(s, c), p) = Rectangle(Plus(Times(c, s.minBound), p),
                                        Plus(Times(c, s.maxBound), p))
    BY <2>4, AtRectangle DEF Rectangle
  <2>. QED
    BY <1>1, <2>1, <2>3, <2>5 DEF p
<1>. QED
  BY <1>2, <1>3

(* The first collider stays the first, whatever the solver does.             *)
LEMMA FirstStays ==
  ASSUME StepInv, colliders' = colliders, bodies' \in [Side -> BodyStates]
  PROVE  FirstOf(1)' = FirstOf(1)
<1>1. 1 \in Side /\ 2 \in Side /\ OtherSide(1) = 2 /\ OtherSide(2) = 1
  BY DEF Side, OtherSide
<1>2. ASSUME NEW z \in Side
      PROVE  Shape(z)'.kind = Shape(z).kind
  <2>1. bodies'[z].position \in Vectors /\ bodies[z].position \in Vectors
    BY BodyTypes DEF BodyStates
  <2>2. colliders[z].shape \in AllShapes
    BY ColliderTypes
  <2>3. /\ At(colliders[z].shape, bodies'[z].position).kind = colliders[z].shape.kind
        /\ At(colliders[z].shape, bodies[z].position).kind = colliders[z].shape.kind
    BY <2>1, <2>2, AtTypes
  <2>. QED
    BY <2>3 DEF Shape
<1>3. Shape(1)'.kind = Shape(1).kind /\ Shape(2)'.kind = Shape(2).kind
  BY <1>1, <1>2
<1>. QED
  BY <1>1, <1>3 DEF FirstOf

(* Apart, for the collider the solver took for the first.                    *)
LEMMA ApartIs ==
  ASSUME StepInv, phase = "contact", colliders' = colliders, before' = before,
         NEW i \in Side, HasContact(i), Solves(FirstOf(i))
  PROVE  LET j == FirstOf(i)
             k == OtherSide(j)
             s == Shape(j)
             t == Shape(k)
             c == Scale(j)
             x == Push(j, BodyA(j), PostCollisionPosition(j, BodyA(j)))
             y == Push(k, BodyA(j), PostCollisionPosition(j, BodyA(j)))
         IN /\ x \in Vectors /\ y \in Vectors /\ c \in Nat
            /\ Apart(bodies)' = Gap(Grown(s, c, x), Grown(t, c, y))
<1>. DEFINE j == FirstOf(i)
            k == OtherSide(j)
            c == Scale(j)
            a == BodyA(j)
            push(z) == Push(z, a, PostCollisionPosition(j, a))
            new(z) == Grown(Shape(z), c, push(z))
<1>1. /\ 1 \in Side /\ 2 \in Side /\ OtherSide(1) = 2 /\ OtherSide(2) = 1
      /\ i \in {1, 2} /\ j \in {1, 2} /\ k \in {1, 2} /\ k = OtherSide(j)
      /\ \A z \in Side : z = 1 \/ z = 2
  BY DEF Side, OtherSide, FirstOf
<1>2. /\ bodies' \in [Side -> BodyStates] /\ c \in Nat /\ scale' = c
      /\ \A z \in Side : bodies'[z].position = Plus(Times(c, bodies[z].position), push(z))
  <2>1. Ready(j) /\ bodies' = Resolved(j) /\ scale' = c
    BY DEF Solves
  <2>2. c \in Nat
    BY <2>1, LengthTypes
  <2>. QED
    BY <2>1, <2>2, ResolvedIs
<1>3. ASSUME NEW z \in Side
      PROVE  push(z) \in Vectors
  <2>1. Ready(j) /\ a \in Side
    BY <1>1, BodyTypes DEF Solves
  <2>2. PostCollisionPosition(j, a) \in Vectors
    BY <2>1, SolverTypes
  <2>3. Share(z, a) \in Int
    BY InverseMassTypes DEF Share
  <2>. QED
    BY <2>2, <2>3, VectorTypes DEF Push
<1>4. ASSUME NEW z \in Side
      PROVE  /\ Shape(z) \in Circles \/ Shape(z) \in Rectangles
             /\ colliders[z].shape \in Circles \/ colliders[z].shape \in Rectangles
             /\ Shape(z) = At(colliders[z].shape, bodies[z].position)
             /\ bodies[z].position \in Vectors
  <2>1. Shape(z).kind # "polygon"
    BY <1>1 DEF HasContact
  <2>2. /\ Shape(z) \in AllShapes /\ colliders[z].shape \in AllShapes
        /\ Shape(z).kind = colliders[z].shape.kind
    BY ColliderTypes
  <2>3. bodies[z].position \in Vectors
    BY BodyTypes
  <2>. HIDE DEF Vectors
  <2>4. \A s \in AllShapes : s.kind # "polygon" => s \in Circles \/ s \in Rectangles
    BY DEF AllShapes, Polygons
  <2>5. Shape(z) = At(colliders[z].shape, bodies[z].position)
    BY DEF Shape
  <2>. QED
    BY <2>1, <2>2, <2>3, <2>4, <2>5
<1>. HIDE DEF push
<1>5. ASSUME NEW z \in Side
      PROVE  Enlarged(z, bodies)' = new(z)
  <2>. DEFINE s == colliders[z].shape
              o == bodies[z].position
  <2>1. Enlarged(z, bodies)' = At(Scaled(s, c), Plus(Times(c, o), push(z)))
    BY <1>2 DEF Enlarged
  <2>2. At(Scaled(s, c), Plus(Times(c, o), push(z))) = Grown(At(s, o), c, push(z))
    <3>1. /\ s \in Circles \/ s \in Rectangles
          /\ c \in Nat /\ o \in Vectors /\ push(z) \in Vectors
      BY <1>2, <1>3, <1>4
    <3>. HIDE DEF s, c, o
    <3>. QED
      BY <3>1, ScaledMoved
  <2>. QED
    BY <1>4, <2>1, <2>2
<1>6. FirstOf(1)' = FirstOf(1)
  BY <1>2, FirstStays
<1>. HIDE DEF new
<1>7. ASSUME NEW f \in Side, FirstOf(1) = f
      PROVE  Apart(bodies)' = Gap(new(f), new(OtherSide(f)))
  <2>1. OtherSide(f) \in Side
    BY Sides
  <2>2. Enlarged(f, bodies)' = new(f) /\ Enlarged(OtherSide(f), bodies)' = new(OtherSide(f))
    BY <1>5, <2>1
  <2>3. FirstOf(1)' = f
    BY <1>6, <1>7
  <2>. QED
    BY <2>2, <2>3 DEF Apart, Gap
<1>8. FirstOf(1) = j \/ (Alike /\ FirstOf(1) = k)
  <2>1. HasContact(1)
    BY <1>1 DEF HasContact
  <2>. QED
    BY <1>1, <2>1, FirstOfTwo
<1>9. ASSUME Alike
      PROVE  Gap(new(k), new(j)) = Gap(new(j), new(k))
  <2>1. \/ Shape(j) \in Circles /\ Shape(k) \in Circles
        \/ Shape(j) \in Rectangles /\ Shape(k) \in Rectangles
    <3>1. Shape(j).kind = Shape(k).kind
      BY <1>1, <1>9 DEF Alike
    <3>2. j \in Side /\ k \in Side
      BY <1>1
    <3>. QED
      BY <1>4, <3>1, <3>2 DEF Circles, Rectangles
  <2>2. j \in Side /\ k \in Side /\ push(j) \in Vectors /\ push(k) \in Vectors
    BY <1>1, <1>3
  <2>3. \/ new(j) \in Circles /\ new(k) \in Circles
        \/ new(j) \in Rectangles /\ new(k) \in Rectangles
    BY <1>2, <2>1, <2>2, GrownTypes DEF new
  <2>. QED
    BY <2>3, GapTurned
<1>10. Apart(bodies)' = Gap(new(j), new(k))
  <2>1. j \in Side /\ k \in Side /\ OtherSide(j) = k /\ OtherSide(k) = j
    BY <1>1
  <2>. QED
    BY <1>7, <1>8, <1>9, <2>1
<1>11. push(j) \in Vectors /\ push(k) \in Vectors
  BY <1>1, <1>3
<1>. QED
  BY <1>2, <1>10, <1>11 DEF new, push

LEMMA Separates ==
  ASSUME StepInv, phase = "contact", colliders' = colliders, before' = before,
         NEW i \in Side, HasContact(i), Solves(FirstOf(i))
  PROVE  Apart(bodies)' = 0
<1>. DEFINE j == FirstOf(i)
            k == OtherSide(j)
            s == Shape(j)
            t == Shape(k)
            c == Scale(j)
            x == Push(j, BodyA(j), PostCollisionPosition(j, BodyA(j)))
            y == Push(k, BodyA(j), PostCollisionPosition(j, BodyA(j)))
            n == NormalOf(j)
            length == LengthOf(j)
            depth == TwicePenetration(j)
            p == Masses * TotalInverseMass
<1>1. /\ x \in Vectors /\ y \in Vectors /\ c \in Nat
      /\ Apart(bodies)' = Gap(Grown(s, c, x), Grown(t, c, y))
  BY ApartIs
<1>2. Ready(j) /\ j \in Side /\ n \in Vectors /\ n # Zero /\ depth \in Int
  BY DEF Solves, Ready
<1>3. /\ length \in Nat /\ length * length = SquareLength(n)
      /\ p \in Nat /\ c = 4 * SquareLength(n) * p
  <2>1. /\ length \in Nat /\ length * length = SquareLength(n) /\ SquareLength(n) \in Nat
        /\ c = 4 * SquareLength(n) * Masses * TotalInverseMass
        /\ Masses \in Nat /\ TotalInverseMass \in Nat
    BY <1>2, LengthTypes, BodyTypes, InverseMassTypes
  <2>2. \A u, v, w \in Nat : u * v \in Nat /\ 4 * w * u * v = 4 * w * (u * v)
    OBVIOUS
  <2>. QED
    BY <2>1, <2>2
<1>4. Intersect(s, t)
  BY FirstOverlaps
<1>5. /\ \/ s \in Circles /\ t \in Circles
         \/ s \in Circles /\ t \in Rectangles
         \/ s \in Rectangles /\ t \in Rectangles
  BY FirstIs
<1>6. /\ n = IF s.kind = "circle" THEN Delta(s, t) ELSE RectangleNormal(s, t)
      /\ depth = IF s.kind = "circle" THEN 2 * (Reach(s, t) - length)
                 ELSE Min({PenetrationX(s, t), PenetrationY(s, t)})
  BY DEF NormalOf, TwicePenetration
<1>7. depth >= 0 => Minus(x, y) = Times(2 * depth * length * p, n)
  BY <1>2, PartsOfPush
<1>. HIDE DEF s, t, c, x, y, n, length, depth, p
<1>8. Gap(Grown(s, c, x), Grown(t, c, y)) = 0
  <2>1. CASE s \in Circles
    <3>1. s.kind = "circle" /\ (t \in Circles \/ t \in Rectangles)
      BY <1>5, <2>1 DEF Circles, Rectangles
    <3>2. n = Delta(s, t) /\ depth = 2 * (Reach(s, t) - length)
      BY <1>6, <3>1
    <3>3. Reach(s, t) \in Nat /\ SquareLength(n) <= Reach(s, t) * Reach(s, t)
      BY <1>4, <2>1, <3>1, <3>2, CirclesDeep
    <3>4. length <= Reach(s, t)
      <4>. DEFINE r == Reach(s, t)
      <4>1. \A u, v \in Nat : u < v => u * u < v * v
        OBVIOUS
      <4>2. r \in Nat /\ length * length <= r * r
        BY <1>3, <3>3
      <4>. HIDE DEF r
      <4>3. r < length => r * r < length * length
        BY <1>3, <4>1, <4>2
      <4>4. r * r \in Int /\ length * length \in Int
        BY <1>3, <4>2
      <4>5. length <= r
        BY <1>3, <4>2, <4>3, <4>4
      <4>. QED
        BY <4>5 DEF r
    <3>5. depth >= 0
      BY <1>3, <3>2, <3>3, <3>4
    <3>6. Minus(x, y) = Times(2 * (2 * (Reach(s, t) - length)) * length * p, Delta(s, t))
      BY <1>7, <3>2, <3>5
    <3>7. length * length = SquareLength(Delta(s, t)) /\ c = 4 * SquareLength(Delta(s, t)) * p
      BY <1>3, <3>2
    <3>. QED
      BY <1>1, <1>3, <1>4, <2>1, <3>1, <3>6, <3>7, CirclesSeparate
  <2>2. CASE s \in Rectangles /\ t \in Rectangles
    <3>1. s.kind # "circle"
      BY <2>2 DEF Rectangles
    <3>2. n = RectangleNormal(s, t) /\ depth = Min({PenetrationX(s, t), PenetrationY(s, t)})
      BY <1>6, <3>1
    <3>3. SquareLength(n) = 1
      <4>1. n \in {Vec2(1, 0), Vec2(-1, 0), Vec2(0, 1), Vec2(0, -1)}
        BY <3>2, RectangleNormalIs
      <4>. QED
        BY <4>1 DEF SquareLength, Dot, Vec2
    <3>4. length = 1
      <4>1. \A u \in Nat : u * u = 1 => u = 1
        <5>1. \A u \in Nat : u >= 2 => u * u >= 4
          <6>. SUFFICES ASSUME NEW u \in Nat, u >= 2 PROVE u * u >= 4
            OBVIOUS
          <6>1. (u - 2) * (u + 2) >= 0 /\ (u - 2) * (u + 2) = u * u - 4
            OBVIOUS
          <6>. QED
            BY <6>1
        <5>. QED
          BY <5>1
      <4>. QED
        BY <1>3, <3>3, <4>1
    <3>5. c = 4 * p
      BY <1>3, <3>3
    <3>6. depth >= 0
      <4>1. PenetrationX(s, t) >= 0 /\ PenetrationY(s, t) >= 0
        <5>1. s.kind = "rectangle" /\ t.kind = "rectangle"
          BY <2>2 DEF Rectangles
        <5>2. RectanglesIntersect(s, t)
          BY <1>4, <5>1, RectangleWithRectangle
        <5>. QED
          BY <2>2, <5>2, RectanglesDeep
      <4>2. PenetrationX(s, t) \in Int /\ PenetrationY(s, t) \in Int
        BY <2>2, RectanglesApart
      <4>. QED
        BY <3>2, <4>1, <4>2, MinOfTwo
    <3>7. 2 * depth * length * p = 2 * depth * p
      BY <1>2, <1>3, <3>4 DEF depth
    <3>8. Minus(x, y) = Times(2 * depth * p, RectangleNormal(s, t))
      BY <1>7, <3>2, <3>6, <3>7
    <3>9. depth \in Int
      BY <1>2 DEF depth
    <3>. QED
      BY <1>1, <1>3, <1>4, <2>2, <3>2, <3>5, <3>8, <3>9, RectanglesSeparate
  <2>. QED
    BY <1>5, <2>1, <2>2
<1>. QED
  BY <1>1, <1>8

(* Where the bodies met is where they are before the solver changes them.    *)
LEMMA MetIs ==
  ASSUME StepInv, phase = "contact", colliders' = colliders, before' = before, NEW z \in Side
  PROVE  Met(z)' = Shape(z)
<1>1. bodies[z] = Moved(before[z])
  BY DEF StepInv
<1>. QED
  BY <1>1 DEF Met, Shape

LEMMA Parts ==
  ASSUME StepInv, phase = "contact", colliders' = colliders, before' = before,
         NEW i \in Side, HasContact(i), Solves(FirstOf(i)), ~Aligned(Met(1), Met(2))'
  PROVE  Parting(bodies)' >= 0
<1>. DEFINE j == FirstOf(i)
            k == OtherSide(j)
            speed(z) == bodies'[z].velocity
            leaving(z) == Dot(Minus(speed(z), speed(OtherSide(z))), NormalOf(z))
<1>1. /\ 1 \in Side /\ 2 \in Side /\ OtherSide(1) = 2 /\ OtherSide(2) = 1
      /\ i \in {1, 2} /\ j \in {1, 2} /\ k \in {1, 2} /\ OtherSide(k) = j
  BY DEF Side, OtherSide, FirstOf
<1>2. Ready(j) /\ bodies' = Resolved(j) /\ bodies' \in [Side -> BodyStates]
  BY ResolvedIs DEF Solves
<1>3. FirstOf(1)' = FirstOf(1)
  BY <1>2, FirstStays
<1>4. Met(1)' = Shape(1) /\ Met(2)' = Shape(2)
  BY <1>1, MetIs
<1>5. ~Aligned(Shape(1), Shape(2))
  BY <1>4 DEF Aligned
<1>6. leaving(j) >= 0
  BY <1>2, PartsOfVelocity
<1>7. ASSUME NEW f \in {1, 2}, FirstOf(1) = f
      PROVE  Parting(bodies)' = leaving(f)
  <2>1. Met(f)' = Shape(f) /\ Met(OtherSide(f))' = Shape(OtherSide(f)) /\ FirstOf(1)' = f
    BY <1>1, <1>3, <1>4, <1>7
  <2>. QED
    BY <2>1 DEF Parting, NormalOf
<1>8. HasContact(1)
  BY <1>1 DEF HasContact
<1>9. FirstOf(1) = j \/ (Alike /\ FirstOf(1) = 1 /\ j = 2)
  BY <1>1, <1>8, FirstOfTwo
<1>10. CASE FirstOf(1) = j
  BY <1>1, <1>6, <1>7, <1>10
<1>11. CASE Alike /\ FirstOf(1) = 1 /\ j = 2
  <2>. DEFINE n == NormalOf(1)
              v == speed(1)
              w == speed(2)
  <2>1. NormalOf(2) = Times(-1, n) /\ n \in Vectors
    BY <1>5, <1>8, <1>11, NormalTurned
  <2>2. leaving(1) = Dot(Minus(v, w), n) /\ leaving(2) = Dot(Minus(w, v), Times(-1, n))
    BY <1>1, <2>1
  <2>3. v \in Vectors /\ w \in Vectors
    BY <1>1, <1>2 DEF BodyStates
  <2>4. {v.X, v.Y, w.X, w.Y, n.X, n.Y} \subseteq Int
    BY <2>1, <2>3 DEF Vectors
  <2>5. leaving(2) >= 0
    BY <1>6, <1>11
  <2>6. Parting(bodies)' = leaving(1)
    BY <1>7, <1>11
  <2>. HIDE DEF v, w, n, leaving
  <2>7. /\ Dot(Minus(v, w), n) = (v.X - w.X) * n.X + (v.Y - w.Y) * n.Y
        /\ Dot(Minus(w, v), Times(-1, n)) = (w.X - v.X) * (-1 * n.X) + (w.Y - v.Y) * (-1 * n.Y)
    BY <2>4, Coordinates DEF Dot
  <2>8. /\ (v.X - w.X) * n.X = (w.X - v.X) * (-1 * n.X)
        /\ (v.Y - w.Y) * n.Y = (w.Y - v.Y) * (-1 * n.Y)
    BY <2>4
  <2>9. leaving(1) = leaving(2)
    BY <2>2, <2>7, <2>8
  <2>. QED
    BY <2>5, <2>6, <2>9
<1>. QED
  BY <1>9, <1>10, <1>11

(* Two bodies just touch after their contact and no longer approach, also if *)
(* one of them is a wall, for any shapes, masses, restitutions and movements *)
(* (ResolvePostCollisionVelocity, ResolvePostCollisionPosition).             *)
THEOREM SolverSeparation == Spec => []SolverSeparates
<1>1. Init => SolverSeparates
  BY DEF Init, SolverSeparates, Solved
<1>2. StepInv /\ SolverSeparates /\ [Next]_vars => SolverSeparates'
  <2>. SUFFICES ASSUME StepInv, SolverSeparates, [Next]_vars, Solved'
                PROVE  /\ Apart(bodies)' = 0
                       /\ ~Aligned(Met(1), Met(2))' => Parting(bodies)' >= 0
    BY DEF SolverSeparates
  <2>1. CASE UNCHANGED vars
    <3>1. UNCHANGED <<bodies, colliders, phase, scale, before>>
      BY <2>1 DEF vars
    <3>2. Solved
      BY <3>1 DEF Solved
    <3>3. \A i \in Side : Enlarged(i, bodies)' = Enlarged(i, bodies) /\ Met(i)' = Met(i)
      BY <3>1 DEF Enlarged, Met
    <3>4. /\ FirstOf(1)' = FirstOf(1) /\ FirstOf(1) \in Side /\ OtherSide(FirstOf(1)) \in Side
          /\ 1 \in Side /\ 2 \in Side
      BY <3>1 DEF FirstOf, Shape, OtherSide, Side
    <3>5. Apart(bodies)' = Apart(bodies)
      BY <3>3, <3>4 DEF Apart
    <3>6. Aligned(Met(1), Met(2))' <=> Aligned(Met(1), Met(2))
      BY <3>3, <3>4 DEF Aligned
    <3>7. Parting(bodies)' = Parting(bodies)
      BY <3>1, <3>3, <3>4 DEF Parting
    <3>. QED
      BY <3>2, <3>5, <3>6, <3>7 DEF SolverSeparates
  <2>2. CASE ~UNCHANGED vars
    <3>1. /\ phase = "contact" /\ before' = before /\ colliders' = colliders
          /\ \E i \in Side : HasContact(i) /\ Solves(FirstOf(i))
      BY <2>2, SolvedBy
    <3>2. PICK i \in Side : HasContact(i) /\ Solves(FirstOf(i))
      BY <3>1
    <3>3. Apart(bodies)' = 0
      BY <3>1, <3>2, Separates
    <3>4. ~Aligned(Met(1), Met(2))' => Parting(bodies)' >= 0
      BY <3>1, <3>2, Parts
    <3>. QED
      BY <3>3, <3>4
  <2>. QED
    BY <2>1, <2>2
<1>. QED
  BY <1>1, <1>2, StepAlways, PTL DEF Spec

-----------------------------------------------------------------------------
(* The narrow phase finds what overlaps.                                     *)

(* A circle and a rectangle: by a point of the rectangle on either side.     *)
LEMMA PointsAre ==
  ASSUME NEW r \in Rectangles
  PROVE  /\ \A v \in PointsOf(r) : v \in Vectors /\ RectangleContains(r, v)
         /\ \A x, y \in Int : RectangleContains(r, Vec2(x, y)) => Vec2(x, y) \in PointsOf(r)
<1>. DEFINE left == r.minBound.X
            right == r.maxBound.X
            bottom == r.minBound.Y
            top == r.maxBound.Y
<1>1. {left, right, bottom, top} \subseteq Int
  BY DEF Rectangles, Vectors
<1>2. PointsOf(r) = {Vec2(x, y) : x \in left..right, y \in bottom..top}
  BY DEF PointsOf
<1>3. \A v : RectangleContains(r, v) <=> /\ left <= v.X /\ v.X <= right
                                         /\ bottom <= v.Y /\ v.Y <= top
  BY DEF RectangleContains
<1>. HIDE DEF left, right, bottom, top
<1>4. ASSUME NEW v \in PointsOf(r)
      PROVE  v \in Vectors /\ RectangleContains(r, v)
  <2>1. PICK x \in left..right, y \in bottom..top : v = Vec2(x, y)
    BY <1>2
  <2>2. x \in Int /\ y \in Int /\ left <= x /\ x <= right /\ bottom <= y /\ y <= top
    BY <1>1, <2>1
  <2>3. v \in Vectors /\ v.X = x /\ v.Y = y
    BY <2>1, <2>2, VectorTypes
  <2>. QED
    BY <1>3, <2>2, <2>3
<1>5. ASSUME NEW x \in Int, NEW y \in Int, RectangleContains(r, Vec2(x, y))
      PROVE  Vec2(x, y) \in PointsOf(r)
  <2>1. Vec2(x, y).X = x /\ Vec2(x, y).Y = y
    BY VectorTypes
  <2>2. left <= x /\ x <= right /\ bottom <= y /\ y <= top
    BY <1>3, <1>5, <2>1
  <2>3. x \in left..right /\ y \in bottom..top
    BY <1>1, <2>2
  <2>. QED
    BY <1>2, <2>3
<1>. QED
  BY <1>4, <1>5

LEMMA NearPoint ==
  ASSUME NEW r \in Rectangles, NEW c \in Circles, NEW x \in Int, NEW y \in Int,
         RectangleContains(r, Vec2(x, y)),
         (c.center.X - x) * (c.center.X - x) + (c.center.Y - y) * (c.center.Y - y)
           <= c.radius * c.radius
  PROVE  \E v \in PointsOf(r) : CircleContains(c, v)
<1>1. Vec2(x, y) \in PointsOf(r)
  BY PointsAre
<1>2. CircleContains(c, Vec2(x, y))
  BY DEF CircleContains, SquareLength, Dot, Minus, Vec2
<1>. QED
  BY <1>1, <1>2

(* What lies past an end of an interval by the radius or less is that close  *)
(* to a point of the interval.                                               *)
LEMMA NearEnd ==
  ASSUME NEW x \in Int, NEW low \in Int, NEW high \in Int, NEW d \in Nat,
         low <= high, low - d <= x, x <= high + d
  PROVE  \E p \in Int : low <= p /\ p <= high /\ (x - p) * (x - p) <= d * d
<1>1. \A m, n \in Int : 0 <= m /\ m <= n => m * m <= n * n
  OBVIOUS
<1>2. CASE x < low
  <2>1. 0 <= low - x /\ low - x <= d
    BY <1>2
  <2>2. (low - x) * (low - x) <= d * d
    BY <1>1, <2>1
  <2>3. (low - x) * (low - x) = (x - low) * (x - low)
    OBVIOUS
  <2>4. (x - low) * (x - low) <= d * d
    BY <2>2, <2>3
  <2>. QED
    BY <2>4
<1>3. CASE high < x
  <2>1. 0 <= x - high /\ x - high <= d
    BY <1>3
  <2>2. (x - high) * (x - high) <= d * d
    BY <1>1, <2>1
  <2>. QED
    BY <2>2
<1>4. CASE low <= x /\ x <= high
  <2>1. (x - x) * (x - x) <= d * d
    <3>1. x - x = 0 /\ 0 * 0 = 0 /\ d * d >= 0
      BY <1>1
    <3>. QED
      BY <3>1
  <2>. QED
    BY <1>4, <2>1
<1>. QED
  BY <1>2, <1>3, <1>4

LEMMA CircleMeetsRectangle ==
  ASSUME NEW c \in Circles, NEW r \in Rectangles
  PROVE  RectangleIntersectsCircle(r, c) <=> CircleMeets(c, r)
<1>. DEFINE x == c.center.X
            y == c.center.Y
            left == r.minBound.X
            right == r.maxBound.X
            bottom == r.minBound.Y
            top == r.maxBound.Y
            d == c.radius
<1>1. /\ {x, y, left, right, bottom, top} \subseteq Int /\ d \in Nat
      /\ left <= right /\ bottom <= top /\ c.center \in Vectors
  BY DEF Circles, Rectangles, Vectors, InBounds
<1>2. CircleMeets(c, r) <=> \E v \in PointsOf(r) : CircleContains(c, v)
  BY DEF CircleMeets, Rectangles
<1>3. ASSUME RectangleIntersectsCircle(r, c)
      PROVE  \E v \in PointsOf(r) : CircleContains(c, v)
  <2>1. \/ left <= x /\ x <= right /\ bottom <= y /\ y <= top
        \/ left - d <= x /\ x <= right + d /\ bottom - 0 <= y /\ y <= top + 0
        \/ left - 0 <= x /\ x <= right + 0 /\ bottom - d <= y /\ y <= top + d
        \/ \E i \in 1..4 : CircleContains(c, CornersOf(r)[i])
    BY <1>3 DEF RectangleIntersectsCircle, RectangleContains, Rectangle, Minus, Plus, Vec2
  <2>2. ASSUME NEW p \in Int, NEW q \in Int, left <= p, p <= right, bottom <= q, q <= top,
               (x - p) * (x - p) + (y - q) * (y - q) <= d * d
        PROVE  \E v \in PointsOf(r) : CircleContains(c, v)
    <3>1. RectangleContains(r, Vec2(p, q))
      BY <2>2, VectorTypes DEF RectangleContains
    <3>. QED
      BY <2>2, <3>1, NearPoint
  <2>3. CASE \E i \in 1..4 : CircleContains(c, CornersOf(r)[i])
    <3>1. PICK i \in 1..4 : CircleContains(c, CornersOf(r)[i])
      BY <2>3
    <3>2. /\ r.minBound = Vec2(left, bottom) /\ r.maxBound = Vec2(right, top)
      BY DEF Rectangles, Vectors, Vec2
    <3>3. CornersOf(r)[i] \in {Vec2(s, t) : s \in {left, right}, t \in {bottom, top}}
      BY <3>2 DEF CornersOf
    <3>4. PICK s \in {left, right}, t \in {bottom, top} : CornersOf(r)[i] = Vec2(s, t)
      BY <3>3
    <3>5. RectangleContains(r, Vec2(s, t)) /\ s \in Int /\ t \in Int
      BY <1>1, <3>4, VectorTypes DEF RectangleContains
    <3>. QED
      BY <3>1, <3>4, <3>5, PointsAre
  <2>. HIDE DEF x, y, left, right, bottom, top, d
  <2>4. CASE left - d <= x /\ x <= right + d /\ bottom <= y /\ y <= top
    <3>1. PICK p \in Int : left <= p /\ p <= right /\ (x - p) * (x - p) <= d * d
      BY <1>1, <2>4, NearEnd
    <3>2. (x - p) * (x - p) + (y - y) * (y - y) <= d * d
      <4>1. y - y = 0 /\ 0 * 0 = 0 /\ (x - p) * (x - p) \in Int
        BY <1>1
      <4>. QED
        BY <3>1, <4>1
    <3>. QED
      BY <1>1, <2>2, <2>4, <3>1, <3>2
  <2>5. CASE left <= x /\ x <= right /\ bottom - d <= y /\ y <= top + d
    <3>1. PICK q \in Int : bottom <= q /\ q <= top /\ (y - q) * (y - q) <= d * d
      BY <1>1, <2>5, NearEnd
    <3>2. (x - x) * (x - x) + (y - q) * (y - q) <= d * d
      <4>1. x - x = 0 /\ 0 * 0 = 0 /\ (y - q) * (y - q) \in Int
        BY <1>1
      <4>. QED
        BY <3>1, <4>1
    <3>. QED
      BY <1>1, <2>2, <2>5, <3>1, <3>2
  <2>6. left <= x /\ x <= right /\ bottom <= y /\ y <= top => left - d <= x /\ x <= right + d
    BY <1>1
  <2>7. bottom - 0 = bottom /\ top + 0 = top /\ left - 0 = left /\ right + 0 = right
    BY <1>1
  <2>. QED
    BY <2>1, <2>3, <2>4, <2>5, <2>6, <2>7
<1>4. ASSUME NEW v \in PointsOf(r), CircleContains(c, v)
      PROVE  RectangleIntersectsCircle(r, c)
  <2>1. v \in Vectors /\ RectangleContains(r, v)
    BY PointsAre
  <2>. DEFINE w == Minus(v, c.center)
  <2>2. w \in Vectors /\ w.X = v.X - x /\ w.Y = v.Y - y
    BY <1>1, <2>1, VectorTypes, Coordinates
  <2>3. v.X \in Int /\ v.Y \in Int
    BY <2>1, VectorParts
  <2>4. Plus(c.center, w) = v
    <3>1. Plus(c.center, w) \in Vectors
      BY <1>1, <2>2, VectorTypes
    <3>2. Plus(c.center, w).X = x + (v.X - x) /\ Plus(c.center, w).Y = y + (v.Y - y)
      BY <2>2, Coordinates
    <3>3. x + (v.X - x) = v.X /\ y + (v.Y - y) = v.Y
      BY <1>1, <2>3
    <3>. QED
      BY <2>1, <3>1, <3>2, <3>3, Same
  <2>5. SquareLength(w) = SquareLength(Minus(c.center, v))
    <3>1. SquareLength(w) = (v.X - x) * (v.X - x) + (v.Y - y) * (v.Y - y)
      BY <2>2 DEF SquareLength, Dot
    <3>2. SquareLength(Minus(c.center, v)) = (x - v.X) * (x - v.X) + (y - v.Y) * (y - v.Y)
      BY Coordinates DEF SquareLength, Dot
    <3>3. \A m, n \in Int : (m - n) * (m - n) = (n - m) * (n - m)
      OBVIOUS
    <3>. HIDE DEF x, y, w
    <3>. QED
      BY <1>1, <2>3, <3>1, <3>2, <3>3
  <2>. QED
    BY <1>4, <2>1, <2>2, <2>4, <2>5, WithinReach DEF CircleContains
<1>. QED
  BY <1>2, <1>3, <1>4

(* Two rectangles: by the edges and vertices of the polygons they are.       *)
LEMMA MaxOfTwo ==
  ASSUME NEW m \in Int, NEW n \in Int
  PROVE  Max({m, n}) = IF m >= n THEN m ELSE n
<1>1. \E x \in {m, n} : \A y \in {m, n} : x >= y
  OBVIOUS
<1>2. Max({m, n}) \in {m, n} /\ \A y \in {m, n} : Max({m, n}) >= y
  BY <1>1 DEF Max
<1>. QED
  BY <1>2

(* The rectangle around an edge.                                             *)
LEMMA EdgeBounds ==
  ASSUME NEW a \in Vectors, NEW b \in Vectors
  PROVE  BoundsOf({a, b}) = Rectangle(Vec2(IF a.X <= b.X THEN a.X ELSE b.X,
                                           IF a.Y <= b.Y THEN a.Y ELSE b.Y),
                                      Vec2(IF a.X >= b.X THEN a.X ELSE b.X,
                                           IF a.Y >= b.Y THEN a.Y ELSE b.Y))
<1>1. {v.X : v \in {a, b}} = {a.X, b.X} /\ {v.Y : v \in {a, b}} = {a.Y, b.Y}
  OBVIOUS
<1>2. {a.X, a.Y, b.X, b.Y} \subseteq Int
  BY DEF Vectors
<1>3. /\ Min({a.X, b.X}) = IF a.X <= b.X THEN a.X ELSE b.X
      /\ Min({a.Y, b.Y}) = IF a.Y <= b.Y THEN a.Y ELSE b.Y
      /\ Max({a.X, b.X}) = IF a.X >= b.X THEN a.X ELSE b.X
      /\ Max({a.Y, b.Y}) = IF a.Y >= b.Y THEN a.Y ELSE b.Y
  BY <1>2, MinOfTwo, MaxOfTwo
<1>4. BoundsOf({a, b}) = Rectangle(Vec2(Min({a.X, b.X}), Min({a.Y, b.Y})),
                                   Vec2(Max({a.X, b.X}), Max({a.Y, b.Y})))
  BY <1>1 DEF BoundsOf
<1>. QED
  BY <1>3, <1>4

(* The corners of a rectangle.                                               *)
BottomLeft(r) == Vec2(r.minBound.X, r.minBound.Y)
TopLeft(r) == Vec2(r.minBound.X, r.maxBound.Y)
TopRight(r) == Vec2(r.maxBound.X, r.maxBound.Y)
BottomRight(r) == Vec2(r.maxBound.X, r.minBound.Y)
CornerSet(r) == {BottomLeft(r), TopLeft(r), TopRight(r), BottomRight(r)}

LEMMA RectangleParts ==
  ASSUME NEW r \in Rectangles
  PROVE  /\ {r.minBound.X, r.minBound.Y, r.maxBound.X, r.maxBound.Y} \subseteq Int
         /\ r.minBound.X <= r.maxBound.X /\ r.minBound.Y <= r.maxBound.Y
         /\ r.kind = "rectangle"
         /\ CornersOf(r) = <<BottomLeft(r), TopLeft(r), TopRight(r), BottomRight(r)>>
         /\ CornerSet(r) \subseteq Vectors
<1>1. /\ {r.minBound.X, r.minBound.Y, r.maxBound.X, r.maxBound.Y} \subseteq Int
      /\ r.minBound \in Vectors /\ r.maxBound \in Vectors
      /\ r.minBound.X <= r.maxBound.X /\ r.minBound.Y <= r.maxBound.Y /\ r.kind = "rectangle"
  BY DEF Rectangles, Vectors, InBounds
<1>2. r.minBound = BottomLeft(r) /\ r.maxBound = TopRight(r)
  BY <1>1, VectorParts DEF BottomLeft, TopRight
<1>3. CornersOf(r) = <<BottomLeft(r), TopLeft(r), TopRight(r), BottomRight(r)>>
  BY <1>2 DEF CornersOf, TopLeft, BottomRight
<1>4. CornerSet(r) \subseteq Vectors
  BY <1>1, VectorTypes DEF CornerSet, BottomLeft, TopLeft, TopRight, BottomRight
<1>. QED
  BY <1>1, <1>3, <1>4

LEMMA CornersContained ==
  ASSUME NEW r \in Rectangles
  PROVE  \A v \in CornerSet(r) : RectangleContains(r, v)
<1>1. \A x, y \in Int : Vec2(x, y).X = x /\ Vec2(x, y).Y = y
  BY VectorTypes
<1>. QED
  BY <1>1, RectangleParts
  DEF CornerSet, BottomLeft, TopLeft, TopRight, BottomRight, RectangleContains

(* The polygon of a rectangle.                                               *)
LEMMA PolygonParts ==
  ASSUME NEW r \in Rectangles
  PROVE  /\ Vertices(RectangleAsPolygon(r)) = CornerSet(r)
         /\ Edges(RectangleAsPolygon(r)) =
              {<<BottomRight(r), BottomLeft(r)>>, <<BottomLeft(r), TopLeft(r)>>,
               <<TopLeft(r), TopRight(r)>>, <<TopRight(r), BottomRight(r)>>}
<1>. DEFINE p == RectangleAsPolygon(r)
            vs == <<BottomLeft(r), TopLeft(r), TopRight(r), BottomRight(r)>>
<1>1. p.vertices = vs
  BY RectangleParts DEF RectangleAsPolygon, Polygon
<1>2. /\ Len(vs) = 4 /\ DOMAIN vs = 1..4
      /\ vs[1] = BottomLeft(r) /\ vs[2] = TopLeft(r)
      /\ vs[3] = TopRight(r) /\ vs[4] = BottomRight(r)
  OBVIOUS
<1>3. Vertices(p) = {vs[i] : i \in 1..4}
  BY <1>1, <1>2 DEF Vertices
<1>4. Edges(p) = {<<vs[IF i = 1 THEN 4 ELSE i - 1], vs[i]>> : i \in 1..4}
  BY <1>1, <1>2 DEF Edges
<1>5. 1..4 = {1, 2, 3, 4}
  OBVIOUS
<1>. HIDE DEF p, vs
<1>6. Vertices(p) = {vs[1], vs[2], vs[3], vs[4]}
  BY <1>3, <1>5
<1>7. Edges(p) = {<<vs[4], vs[1]>>, <<vs[1], vs[2]>>, <<vs[2], vs[3]>>, <<vs[3], vs[4]>>}
  <2>. DEFINE E(i) == <<vs[IF i = 1 THEN 4 ELSE i - 1], vs[i]>>
  <2>1. Edges(p) = {E(i) : i \in {1, 2, 3, 4}}
    BY <1>4, <1>5
  <2>2. E(1) = <<vs[4], vs[1]>> /\ E(2) = <<vs[1], vs[2]>> /\ E(3) = <<vs[2], vs[3]>>
        /\ E(4) = <<vs[3], vs[4]>>
    OBVIOUS
  <2>. HIDE DEF E
  <2>3. {E(i) : i \in {1, 2, 3, 4}} = {E(1), E(2), E(3), E(4)}
    OBVIOUS
  <2>. QED
    BY <2>1, <2>2, <2>3
<1>. QED
  BY <1>2, <1>6, <1>7 DEF CornerSet, p

(* The bounds of the polygon are the rectangle.                              *)
LEMMA PolygonBounds ==
  ASSUME NEW r \in Rectangles
  PROVE  BoundsOf(Vertices(RectangleAsPolygon(r)))
           = Rectangle(BottomLeft(r), TopRight(r))
<1>. DEFINE left == r.minBound.X
            right == r.maxBound.X
            bottom == r.minBound.Y
            top == r.maxBound.Y
            C == CornerSet(r)
<1>1. {left, right, bottom, top} \subseteq Int /\ left <= right /\ bottom <= top
  BY RectangleParts
<1>2. {v.X : v \in C} = {left, right} /\ {v.Y : v \in C} = {bottom, top}
  <2>1. \A x, y \in Int : Vec2(x, y).X = x /\ Vec2(x, y).Y = y
    BY VectorTypes
  <2>2. /\ BottomLeft(r).X = left /\ BottomLeft(r).Y = bottom
        /\ TopLeft(r).X = left /\ TopLeft(r).Y = top
        /\ TopRight(r).X = right /\ TopRight(r).Y = top
        /\ BottomRight(r).X = right /\ BottomRight(r).Y = bottom
    BY <1>1, <2>1 DEF BottomLeft, TopLeft, TopRight, BottomRight
  <2>. QED
    BY <2>2 DEF CornerSet
<1>. HIDE DEF left, right, bottom, top, C
<1>3. Min({left, right}) = left /\ Max({left, right}) = right
      /\ Min({bottom, top}) = bottom /\ Max({bottom, top}) = top
  BY <1>1, MinOfTwo, MaxOfTwo
<1>4. BoundsOf(C) = Rectangle(Vec2(left, bottom), Vec2(right, top))
  BY <1>2, <1>3 DEF BoundsOf
<1>. QED
  BY <1>4, PolygonParts DEF C, left, right, bottom, top, BottomLeft, TopRight

LEMMA TurnIs ==
  ASSUME NEW a, NEW b, NEW v
  PROVE  Turn(<<a, b>>, v) = (b.X - a.X) * (v.Y - a.Y) - (b.Y - a.Y) * (v.X - a.X)
BY Coordinates DEF Turn

LEMMA CornerParts ==
  ASSUME NEW r \in Rectangles
  PROVE  /\ BottomLeft(r).X = r.minBound.X /\ BottomLeft(r).Y = r.minBound.Y
         /\ TopLeft(r).X = r.minBound.X /\ TopLeft(r).Y = r.maxBound.Y
         /\ TopRight(r).X = r.maxBound.X /\ TopRight(r).Y = r.maxBound.Y
         /\ BottomRight(r).X = r.maxBound.X /\ BottomRight(r).Y = r.minBound.Y
BY RectangleParts, VectorTypes DEF BottomLeft, TopLeft, TopRight, BottomRight

LEMMA Signs ==
  ASSUME NEW m \in Int, NEW n \in Int
  PROVE  /\ 0 <= m /\ 0 <= n => 0 <= m * n
         /\ 0 <= m /\ n <= 0 => m * n <= 0
         /\ m <= 0 /\ n <= 0 => 0 <= m * n
         /\ m * n = n * m /\ m * n \in Int
OBVIOUS

LEMMA WithinRectangle ==
  ASSUME NEW r \in Rectangles, NEW v \in Vectors
  PROVE  Within(v, RectangleAsPolygon(r)) <=> RectangleContains(r, v)
<1>. DEFINE left == r.minBound.X
            right == r.maxBound.X
            bottom == r.minBound.Y
            top == r.maxBound.Y
            x == v.X
            y == v.Y
<1>1. {left, right, bottom, top, x, y} \subseteq Int /\ left <= right /\ bottom <= top
  BY RectangleParts DEF Vectors
<1>2. RectangleContains(r, v) <=> left <= x /\ x <= right /\ bottom <= y /\ y <= top
  BY DEF RectangleContains
<1>3. RectangleContains(BoundsOf(Vertices(RectangleAsPolygon(r))), v)
        <=> RectangleContains(r, v)
  BY PolygonBounds, CornerParts DEF RectangleContains, Rectangle
<1>4. ASSUME RectangleContains(r, v), NEW edge \in Edges(RectangleAsPolygon(r))
      PROVE  Turn(edge, v) <= 0
  <2>1. left <= x /\ x <= right /\ bottom <= y /\ y <= top
    BY <1>2, <1>4
  <2>2. edge \in {<<BottomRight(r), BottomLeft(r)>>, <<BottomLeft(r), TopLeft(r)>>,
                  <<TopLeft(r), TopRight(r)>>, <<TopRight(r), BottomRight(r)>>}
    BY PolygonParts
  <2>3. /\ Turn(<<BottomRight(r), BottomLeft(r)>>, v)
             = (left - right) * (y - bottom) - (bottom - bottom) * (x - right)
        /\ Turn(<<BottomLeft(r), TopLeft(r)>>, v)
             = (left - left) * (y - bottom) - (top - bottom) * (x - left)
        /\ Turn(<<TopLeft(r), TopRight(r)>>, v)
             = (right - left) * (y - top) - (top - top) * (x - left)
        /\ Turn(<<TopRight(r), BottomRight(r)>>, v)
             = (right - right) * (y - top) - (bottom - top) * (x - right)
    BY TurnIs, CornerParts
  <2>. HIDE DEF left, right, bottom, top, x, y
  <2>4. \A n \in Int : (bottom - bottom) * n = 0 /\ (top - top) * n = 0
                       /\ (left - left) * n = 0 /\ (right - right) * n = 0
    BY <1>1
  <2>5. /\ (left - right) * (y - bottom) <= 0 /\ 0 <= (top - bottom) * (x - left)
        /\ (right - left) * (y - top) <= 0 /\ 0 <= (bottom - top) * (x - right)
    BY <1>1, <2>1, Signs
  <2>6. /\ (left - right) * (y - bottom) \in Int /\ (top - bottom) * (x - left) \in Int
        /\ (right - left) * (y - top) \in Int /\ (bottom - top) * (x - right) \in Int
        /\ x - right \in Int /\ y - bottom \in Int /\ x - left \in Int /\ y - top \in Int
    BY <1>1
  <2>. QED
    BY <2>2, <2>3, <2>4, <2>5, <2>6
<1>5. RectangleContains(r, v) => Within(v, RectangleAsPolygon(r))
  BY <1>3, <1>4 DEF Within
<1>. QED
  BY <1>3, <1>5 DEF Within

(* The left edge of one crosses the bottom edge of the other.                *)
LEMMA LeftCrossesBottom ==
  ASSUME NEW r \in Rectangles, NEW s \in Rectangles,
         s.minBound.X <= r.minBound.X, r.minBound.X <= s.maxBound.X,
         r.minBound.Y <= s.minBound.Y, s.minBound.Y <= r.maxBound.Y
  PROVE  LET e == <<BottomLeft(r), TopLeft(r)>>
             f == <<BottomRight(s), BottomLeft(s)>>
         IN EdgesCross(e, f) /\ EdgesCross(f, e)
<1>. DEFINE e == <<BottomLeft(r), TopLeft(r)>>
            f == <<BottomRight(s), BottomLeft(s)>>
            x == r.minBound.X
            low == r.minBound.Y
            high == r.maxBound.Y
            y == s.minBound.Y
            left == s.minBound.X
            right == s.maxBound.X
<1>1. /\ {x, y, low, high, left, right} \subseteq Int
      /\ left <= x /\ x <= right /\ low <= y /\ y <= high
  BY RectangleParts
<1>2. /\ e[1] = BottomLeft(r) /\ e[2] = TopLeft(r)
      /\ f[1] = BottomRight(s) /\ f[2] = BottomLeft(s)
  OBVIOUS
<1>3. /\ e[1].X = x /\ e[1].Y = low /\ e[2].X = x /\ e[2].Y = high
      /\ f[1].X = right /\ f[1].Y = y /\ f[2].X = left /\ f[2].Y = y
  BY CornerParts
<1>4. {e[1], e[2], f[1], f[2]} \subseteq Vectors
  BY RectangleParts DEF CornerSet
<1>5. /\ Turn(e, f[1]) = (x - x) * (y - low) - (high - low) * (right - x)
      /\ Turn(e, f[2]) = (x - x) * (y - low) - (high - low) * (left - x)
      /\ Turn(f, e[1]) = (left - right) * (low - y) - (y - y) * (x - right)
      /\ Turn(f, e[2]) = (left - right) * (high - y) - (y - y) * (x - right)
  BY <1>3, TurnIs
<1>6. /\ BoundsOf({e[1], e[2]}) = Rectangle(Vec2(x, low), Vec2(x, high))
      /\ BoundsOf({f[1], f[2]}) = Rectangle(Vec2(left, y), Vec2(right, y))
  <2>. HIDE DEF e, f, x, y, low, high, left, right
  <2>1. BoundsOf({e[1], e[2]}) = Rectangle(Vec2(x, low), Vec2(x, high))
    BY <1>1, <1>3, <1>4, EdgeBounds
  <2>2. BoundsOf({f[1], f[2]}) = Rectangle(Vec2(left, y), Vec2(right, y))
    BY <1>1, <1>3, <1>4, EdgeBounds
  <2>. QED
    BY <2>1, <2>2
<1>. HIDE DEF e, f, x, y, low, high, left, right
<1>7. \A m, n, k \in Int : (m - m) * n - k = -k /\ k - (m - m) * n = k
  OBVIOUS
<1>8. Turn(e, f[1]) <= 0 /\ 0 <= Turn(e, f[2]) /\ Turn(e, f[1]) \in Int /\ Turn(e, f[2]) \in Int
  <2>1. /\ 0 <= (high - low) * (right - x) /\ (high - low) * (left - x) <= 0
        /\ (high - low) * (right - x) \in Int /\ (high - low) * (left - x) \in Int
    BY <1>1, Signs
  <2>2. /\ Turn(e, f[1]) = -((high - low) * (right - x))
        /\ Turn(e, f[2]) = -((high - low) * (left - x))
    BY <1>1, <1>5, <1>7, <2>1
  <2>. QED
    BY <2>1, <2>2
<1>9. 0 <= Turn(f, e[1]) /\ Turn(f, e[2]) <= 0 /\ Turn(f, e[1]) \in Int /\ Turn(f, e[2]) \in Int
  <2>1. /\ 0 <= (left - right) * (low - y) /\ (left - right) * (high - y) <= 0
        /\ (left - right) * (low - y) \in Int /\ (left - right) * (high - y) \in Int
    BY <1>1, Signs
  <2>2. /\ Turn(f, e[1]) = (left - right) * (low - y)
        /\ Turn(f, e[2]) = (left - right) * (high - y)
    BY <1>1, <1>5, <1>7, <2>1
  <2>. QED
    BY <2>1, <2>2
<1>10. Straddles(e, f) /\ Straddles(f, e)
  BY <1>8, <1>9, Signs DEF Straddles
<1>11. /\ RectanglesIntersect(BoundsOf({e[1], e[2]}), BoundsOf({f[1], f[2]}))
       /\ RectanglesIntersect(BoundsOf({f[1], f[2]}), BoundsOf({e[1], e[2]}))
  BY <1>1, <1>6, VectorTypes DEF RectanglesIntersect, Rectangle
<1>. QED
  BY <1>10, <1>11 DEF EdgesCross, e, f

LEMMA RectanglesMeet ==
  ASSUME NEW r \in Rectangles, NEW s \in Rectangles, RectanglesIntersect(r, s)
  PROVE  PolygonsMeet(RectangleAsPolygon(r), RectangleAsPolygon(s))
<1>. DEFINE p == RectangleAsPolygon(r)
            q == RectangleAsPolygon(s)
<1>1. /\ {r.minBound.X, r.minBound.Y, r.maxBound.X, r.maxBound.Y} \subseteq Int
      /\ {s.minBound.X, s.minBound.Y, s.maxBound.X, s.maxBound.Y} \subseteq Int
      /\ r.minBound.X <= r.maxBound.X /\ r.minBound.Y <= r.maxBound.Y
      /\ s.minBound.X <= s.maxBound.X /\ s.minBound.Y <= s.maxBound.Y
  BY RectangleParts
<1>2. /\ r.maxBound.X >= s.minBound.X /\ r.minBound.X <= s.maxBound.X
      /\ r.maxBound.Y >= s.minBound.Y /\ r.minBound.Y <= s.maxBound.Y
  BY DEF RectanglesIntersect
<1>3. /\ BottomLeft(r) \in Vertices(p) /\ BottomLeft(s) \in Vertices(q)
      /\ <<BottomLeft(r), TopLeft(r)>> \in Edges(p)
      /\ <<BottomRight(r), BottomLeft(r)>> \in Edges(p)
      /\ <<BottomLeft(s), TopLeft(s)>> \in Edges(q)
      /\ <<BottomRight(s), BottomLeft(s)>> \in Edges(q)
  BY PolygonParts DEF CornerSet
<1>4. BottomLeft(r) \in Vectors /\ BottomLeft(s) \in Vectors
  BY RectangleParts DEF CornerSet
<1>5. CASE s.minBound.X <= r.minBound.X /\ s.minBound.Y <= r.minBound.Y
  <2>1. RectangleContains(s, BottomLeft(r))
    BY <1>1, <1>2, <1>5, CornerParts DEF RectangleContains
  <2>. QED
    BY <1>3, <1>4, <2>1, WithinRectangle DEF PolygonsMeet
<1>6. CASE r.minBound.X <= s.minBound.X /\ r.minBound.Y <= s.minBound.Y
  <2>1. RectangleContains(r, BottomLeft(s))
    BY <1>1, <1>2, <1>6, CornerParts DEF RectangleContains
  <2>. QED
    BY <1>3, <1>4, <2>1, WithinRectangle DEF PolygonsMeet
<1>7. CASE s.minBound.X <= r.minBound.X /\ r.minBound.Y <= s.minBound.Y
  <2>1. EdgesCross(<<BottomLeft(r), TopLeft(r)>>, <<BottomRight(s), BottomLeft(s)>>)
    BY <1>1, <1>2, <1>7, LeftCrossesBottom
  <2>. QED
    BY <1>3, <2>1 DEF PolygonsMeet
<1>8. CASE r.minBound.X <= s.minBound.X /\ s.minBound.Y <= r.minBound.Y
  <2>1. EdgesCross(<<BottomRight(r), BottomLeft(r)>>, <<BottomLeft(s), TopLeft(s)>>)
    BY <1>1, <1>2, <1>8, LeftCrossesBottom
  <2>. QED
    BY <1>3, <2>1 DEF PolygonsMeet
<1>. QED
  BY <1>1, <1>5, <1>6, <1>7, <1>8

(* The rectangle around an edge is within the rectangle.                     *)
LEMMA EdgeInside ==
  ASSUME NEW r \in Rectangles, NEW edge \in Edges(RectangleAsPolygon(r))
  PROVE  LET b == BoundsOf({edge[1], edge[2]})
         IN /\ {b.minBound.X, b.minBound.Y, b.maxBound.X, b.maxBound.Y} \subseteq Int
            /\ r.minBound.X <= b.minBound.X /\ b.maxBound.X <= r.maxBound.X
            /\ r.minBound.Y <= b.minBound.Y /\ b.maxBound.Y <= r.maxBound.Y
<1>. DEFINE a == edge[1]
            c == edge[2]
            b == BoundsOf({a, c})
<1>1. a \in CornerSet(r) /\ c \in CornerSet(r)
  BY PolygonParts DEF CornerSet
<1>. HIDE DEF a, c
<1>2. a \in Vectors /\ c \in Vectors /\ RectangleContains(r, a) /\ RectangleContains(r, c)
  BY <1>1, RectangleParts, CornersContained
<1>3. {a.X, a.Y, c.X, c.Y} \subseteq Int
  BY <1>2, VectorParts
<1>4. /\ b.minBound.X = IF a.X <= c.X THEN a.X ELSE c.X
      /\ b.minBound.Y = IF a.Y <= c.Y THEN a.Y ELSE c.Y
      /\ b.maxBound.X = IF a.X >= c.X THEN a.X ELSE c.X
      /\ b.maxBound.Y = IF a.Y >= c.Y THEN a.Y ELSE c.Y
  <2>1. b = Rectangle(Vec2(IF a.X <= c.X THEN a.X ELSE c.X, IF a.Y <= c.Y THEN a.Y ELSE c.Y),
                      Vec2(IF a.X >= c.X THEN a.X ELSE c.X, IF a.Y >= c.Y THEN a.Y ELSE c.Y))
    BY <1>2, EdgeBounds
  <2>. HIDE DEF b
  <2>. QED
    BY <2>1 DEF Rectangle, Vec2
<1>. HIDE DEF b
<1>5. /\ {b.minBound.X, b.minBound.Y, b.maxBound.X, b.maxBound.Y} \subseteq Int
      /\ r.minBound.X <= b.minBound.X /\ b.maxBound.X <= r.maxBound.X
      /\ r.minBound.Y <= b.minBound.Y /\ b.maxBound.Y <= r.maxBound.Y
  BY <1>2, <1>3, <1>4, RectangleParts DEF RectangleContains
<1>. QED
  BY <1>5 DEF b, a, c

LEMMA MeetingRectangles ==
  ASSUME NEW r \in Rectangles, NEW s \in Rectangles,
         PolygonsMeet(RectangleAsPolygon(r), RectangleAsPolygon(s))
  PROVE  RectanglesIntersect(r, s)
<1>. DEFINE p == RectangleAsPolygon(r)
            q == RectangleAsPolygon(s)
<1>1. /\ {r.minBound.X, r.minBound.Y, r.maxBound.X, r.maxBound.Y} \subseteq Int
      /\ {s.minBound.X, s.minBound.Y, s.maxBound.X, s.maxBound.Y} \subseteq Int
  BY RectangleParts
<1>2. \/ \E edge \in Edges(p), other \in Edges(q) : EdgesCross(edge, other)
      \/ \E v \in Vertices(p) : Within(v, q)
      \/ \E v \in Vertices(q) : Within(v, p)
  BY DEF PolygonsMeet
<1>3. Vertices(p) = CornerSet(r) /\ Vertices(q) = CornerSet(s)
  BY PolygonParts
<1>4. ASSUME NEW v \in Vectors, RectangleContains(r, v), RectangleContains(s, v)
      PROVE  RectanglesIntersect(r, s)
  <2>1. v.X \in Int /\ v.Y \in Int
    BY VectorParts
  <2>. QED
    BY <1>1, <1>4, <2>1 DEF RectangleContains, RectanglesIntersect
<1>5. CASE \E v \in Vertices(p) : Within(v, q)
  <2>1. PICK v \in Vertices(p) : Within(v, q)
    BY <1>5
  <2>2. v \in Vectors /\ RectangleContains(r, v)
    BY <1>3, RectangleParts, CornersContained
  <2>3. RectangleContains(s, v)
    BY <2>1, <2>2, WithinRectangle
  <2>. QED
    BY <1>4, <2>2, <2>3
<1>6. CASE \E v \in Vertices(q) : Within(v, p)
  <2>1. PICK v \in Vertices(q) : Within(v, p)
    BY <1>6
  <2>2. v \in Vectors /\ RectangleContains(s, v)
    BY <1>3, RectangleParts, CornersContained
  <2>3. RectangleContains(r, v)
    BY <2>1, <2>2, WithinRectangle
  <2>. QED
    BY <1>4, <2>2, <2>3
<1>7. CASE \E edge \in Edges(p), other \in Edges(q) : EdgesCross(edge, other)
  <2>1. PICK edge \in Edges(p), other \in Edges(q) : EdgesCross(edge, other)
    BY <1>7
  <2>. DEFINE b == BoundsOf({edge[1], edge[2]})
              c == BoundsOf({other[1], other[2]})
  <2>2. RectanglesIntersect(b, c)
    BY <2>1 DEF EdgesCross
  <2>3. /\ {b.minBound.X, b.minBound.Y, b.maxBound.X, b.maxBound.Y} \subseteq Int
        /\ r.minBound.X <= b.minBound.X /\ b.maxBound.X <= r.maxBound.X
        /\ r.minBound.Y <= b.minBound.Y /\ b.maxBound.Y <= r.maxBound.Y
    BY EdgeInside
  <2>4. /\ {c.minBound.X, c.minBound.Y, c.maxBound.X, c.maxBound.Y} \subseteq Int
        /\ s.minBound.X <= c.minBound.X /\ c.maxBound.X <= s.maxBound.X
        /\ s.minBound.Y <= c.minBound.Y /\ c.maxBound.Y <= s.maxBound.Y
    BY EdgeInside
  <2>. HIDE DEF b, c
  <2>. QED
    BY <1>1, <2>2, <2>3, <2>4 DEF RectanglesIntersect
<1>. QED
  BY <1>2, <1>5, <1>6, <1>7

(* Whether two shapes overlap, whichever comes first.                        *)
LEMMA NarrowPhase ==
  ASSUME NEW s \in Circles \cup Rectangles, NEW t \in Rectangles
  PROVE  Intersect(s, t) = Meet(s, t) /\ Intersect(t, s) = Meet(s, t)
<1>1. t.kind = "rectangle"
  BY DEF Rectangles
<1>2. CASE s \in Circles
  <2>1. s.kind = "circle"
    BY <1>2 DEF Circles
  <2>2. Meet(s, t) = CircleMeets(s, t)
    BY <2>1 DEF Meet
  <2>3. CircleMeets(s, t) = \E v \in PointsOf(t) : CircleContains(s, v)
    BY <1>1 DEF CircleMeets
  <2>4. RectangleIntersectsCircle(t, s) \in BOOLEAN
    BY Zenon DEF RectangleIntersectsCircle
  <2>5. RectangleIntersectsCircle(t, s) <=> CircleMeets(s, t)
    BY <1>2, CircleMeetsRectangle
  <2>6. RectangleIntersectsCircle(t, s) = CircleMeets(s, t)
    BY Zenon, <2>3, <2>4, <2>5
  <2>. QED
    BY <1>1, <2>1, <2>2, <2>6, CircleWithRectangle
<1>3. CASE s \in Rectangles
  <2>1. s.kind = "rectangle"
    BY <1>3 DEF Rectangles
  <2>2. Meet(s, t) = PolygonsMeet(RectangleAsPolygon(s), RectangleAsPolygon(t))
    BY <1>1, <2>1 DEF Meet, AsPolygon
  <2>3. RectanglesIntersect(s, t) = RectanglesIntersect(t, s)
    BY <1>3, RectangleParts DEF RectanglesIntersect
  <2>4. /\ RectanglesIntersect(s, t) \in BOOLEAN
        /\ PolygonsMeet(RectangleAsPolygon(s), RectangleAsPolygon(t)) \in BOOLEAN
    BY Zenon DEF RectanglesIntersect, PolygonsMeet
  <2>5. RectanglesIntersect(s, t) <=> PolygonsMeet(RectangleAsPolygon(s), RectangleAsPolygon(t))
    BY <1>3, RectanglesMeet, MeetingRectangles
  <2>6. RectanglesIntersect(s, t) = PolygonsMeet(RectangleAsPolygon(s), RectangleAsPolygon(t))
    BY <2>4, <2>5
  <2>. QED
    BY <1>1, <2>1, <2>2, <2>3, <2>6, RectangleWithRectangle
<1>. QED
  BY <1>2, <1>3

(* IntersectFindsOverlap for the shapes Game has: no polygons.               *)
THEOREM OverlapsFound == Spec => [](HasContact(1) => IntersectFindsOverlap)
<1>1. StepInv => (HasContact(1) => IntersectFindsOverlap)
  <2>. SUFFICES ASSUME StepInv, HasContact(1), NEW i \in Side,
                       Shape(OtherSide(i)).kind # "circle"
                PROVE  LET s == Shape(i)
                           t == Shape(OtherSide(i))
                       IN Intersect(s, t) = Meet(s, t) /\ Intersect(t, s) = Meet(s, t)
    BY DEF IntersectFindsOverlap
  <2>1. Shape(1).kind # "polygon" /\ Shape(2).kind # "polygon"
    BY DEF HasContact, OtherSide
  <2>2. i \in {1, 2} /\ OtherSide(i) \in {1, 2} /\ OtherSide(i) \in Side
    BY Sides
  <2>3. Shape(i) \in Circles \cup Rectangles
    BY <2>1, <2>2, ColliderTypes DEF AllShapes, Polygons
  <2>4. Shape(OtherSide(i)) \in Rectangles
    BY <2>1, <2>2, ColliderTypes DEF AllShapes, Polygons, Circles
  <2>. QED
    BY <2>3, <2>4, NarrowPhase
<1>. QED
  BY <1>1, StepAlways, PTL

-----------------------------------------------------------------------------
(* The broad phase loses no pair that overlaps.                              *)

LEMMA BoxOfCircle ==
  ASSUME NEW c \in Circles, NEW pos \in Vectors, c.center = Zero
  PROVE  LET s == At(c, pos)
             b == BoxOf(c, pos)
         IN /\ s \in Circles /\ s.radius = c.radius
            /\ b = Rectangle(Vec2(s.center.X - s.radius, s.center.Y - s.radius),
                             Vec2(s.center.X + s.radius, s.center.Y + s.radius))
<1>1. c.kind = "circle" /\ c.radius \in Nat
  BY DEF Circles
<1>2. Plus(Zero, pos) = pos
  <2>1. Plus(Zero, pos) \in Vectors /\ Plus(Zero, pos).X = 0 + pos.X
        /\ Plus(Zero, pos).Y = 0 + pos.Y
    BY VectorTypes, Coordinates
  <2>2. pos.X \in Int /\ pos.Y \in Int
    BY VectorParts
  <2>3. 0 + pos.X = pos.X /\ 0 + pos.Y = pos.Y
    BY <2>2
  <2>. QED
    BY <2>1, <2>3, Same
<1>3. At(c, pos) = Circle(pos, c.radius)
  BY <1>1, <1>2, AtCircle
<1>4. BoxOf(c, pos) = Rectangle(Minus(pos, Vec2(c.radius, c.radius)),
                                Plus(pos, Vec2(c.radius, c.radius)))
  BY <1>1, Zenon DEF BoxOf
<1>5. Circle(pos, c.radius) \in Circles /\ Circle(pos, c.radius).radius = c.radius
      /\ Circle(pos, c.radius).center = pos
  BY <1>1 DEF Circle, Circles
<1>. QED
  BY <1>3, <1>4, <1>5 DEF Minus, Plus, Vec2

LEMMA BoxOfRectangle ==
  ASSUME NEW r \in Rectangles, NEW pos \in Vectors
  PROVE  BoxOf(r, pos) = At(r, pos)
<1>1. r.kind = "rectangle"
  BY DEF Rectangles
<1>. QED
  BY <1>1, Zenon DEF BoxOf

LEMMA SquaresBound ==
  ASSUME NEW m \in Int, NEW n \in Int, NEW d \in Nat, m * m + n * n <= d * d
  PROVE  -d <= m /\ m <= d /\ -d <= n /\ n <= d
<1>1. \A k \in Int : k * k \in Nat
  OBVIOUS
<1>2. m * m <= d * d /\ n * n <= d * d
  BY <1>1
<1>3. ASSUME NEW k \in Int, k * k <= d * d
      PROVE  -d <= k /\ k <= d
  <2>1. \A i, j \in Nat : i < j => i * i < j * j
    OBVIOUS
  <2>2. k > d => d * d < k * k
    BY <2>1
  <2>3. -k > d => d * d < (-k) * (-k)
    BY <2>1
  <2>4. (-k) * (-k) = k * k /\ k * k \in Int /\ d * d \in Int
    OBVIOUS
  <2>. QED
    BY <1>3, <2>2, <2>3, <2>4
<1>. QED
  BY <1>2, <1>3

(* The box around a circle.                                                  *)
Around(c) == Rectangle(Vec2(c.center.X - c.radius, c.center.Y - c.radius),
                       Vec2(c.center.X + c.radius, c.center.Y + c.radius))
BoxAround(s) == IF s.kind = "circle" THEN Around(s) ELSE s

LEMMA AroundIs ==
  ASSUME NEW c \in Circles
  PROVE  /\ c.kind = "circle" /\ c.center.X \in Int /\ c.center.Y \in Int /\ c.radius \in Nat
         /\ Around(c).minBound.X = c.center.X - c.radius
         /\ Around(c).maxBound.X = c.center.X + c.radius
         /\ Around(c).minBound.Y = c.center.Y - c.radius
         /\ Around(c).maxBound.Y = c.center.Y + c.radius
BY DEF Circles, Vectors, Around, Rectangle, Vec2

LEMMA BoxesOfCircles ==
  ASSUME NEW c \in Circles, NEW d \in Circles, CirclesIntersect(c, d)
  PROVE  RectanglesIntersect(Around(c), Around(d))
<1>. DEFINE m == c.center.X - d.center.X
            n == c.center.Y - d.center.Y
            k == c.radius + d.radius
<1>1. m * m + n * n <= k * k
  BY Coordinates DEF CirclesIntersect, SquareLength, Dot
<1>2. m \in Int /\ n \in Int /\ k \in Nat
  BY AroundIs
<1>. HIDE DEF m, n, k
<1>3. -k <= m /\ m <= k /\ -k <= n /\ n <= k
  BY <1>1, <1>2, SquaresBound
<1>. QED
  BY <1>3, AroundIs DEF m, n, k, RectanglesIntersect

LEMMA BoxesOfCircleAndRectangle ==
  ASSUME NEW c \in Circles, NEW r \in Rectangles, RectangleIntersectsCircle(r, c)
  PROVE  RectanglesIntersect(Around(c), r) /\ RectanglesIntersect(r, Around(c))
<1>1. PICK v \in PointsOf(r) : CircleContains(c, v)
  BY CircleMeetsRectangle DEF CircleMeets, Rectangles
<1>2. v \in Vectors /\ RectangleContains(r, v) /\ v.X \in Int /\ v.Y \in Int
  BY PointsAre, VectorParts
<1>. DEFINE m == c.center.X - v.X
            n == c.center.Y - v.Y
            k == c.radius
<1>3. m * m + n * n <= k * k
  BY <1>1, Coordinates DEF CircleContains, SquareLength, Dot
<1>4. m \in Int /\ n \in Int /\ k \in Nat
  BY <1>2, AroundIs
<1>. HIDE DEF m, n, k
<1>5. -k <= m /\ m <= k /\ -k <= n /\ n <= k
  BY <1>3, <1>4, SquaresBound
<1>. QED
  BY <1>2, <1>5, AroundIs, RectangleParts DEF m, n, k, RectanglesIntersect, RectangleContains

LEMMA BroadPhase ==
  ASSUME NEW s \in Circles \cup Rectangles, NEW t \in Circles \cup Rectangles,
         Intersect(s, t)
  PROVE  RectanglesIntersect(BoxAround(s), BoxAround(t))
<1>1. /\ s \in Circles => s.kind = "circle" /\ BoxAround(s) = Around(s)
      /\ t \in Circles => t.kind = "circle" /\ BoxAround(t) = Around(t)
      /\ s \in Rectangles => s.kind = "rectangle" /\ BoxAround(s) = s
      /\ t \in Rectangles => t.kind = "rectangle" /\ BoxAround(t) = t
  BY DEF Circles, Rectangles, BoxAround
<1>2. CASE s \in Circles /\ t \in Circles
  <2>1. CirclesIntersect(s, t)
    BY <1>1, <1>2, CircleWithCircle
  <2>. QED
    BY <1>1, <1>2, <2>1, BoxesOfCircles
<1>3. CASE s \in Circles /\ t \in Rectangles
  <2>1. RectangleIntersectsCircle(t, s)
    BY <1>1, <1>3, CircleWithRectangle
  <2>. QED
    BY <1>1, <1>3, <2>1, BoxesOfCircleAndRectangle
<1>4. CASE s \in Rectangles /\ t \in Circles
  <2>1. RectangleIntersectsCircle(s, t)
    BY <1>1, <1>4, CircleWithRectangle
  <2>. QED
    BY <1>1, <1>4, <2>1, BoxesOfCircleAndRectangle
<1>5. CASE s \in Rectangles /\ t \in Rectangles
  <2>1. RectanglesIntersect(s, t)
    BY <1>1, <1>5, RectangleWithRectangle
  <2>. QED
    BY <1>1, <1>5, <2>1
<1>. QED
  BY <1>2, <1>3, <1>4, <1>5

(* BoxesCoverShapes for the shapes Game has: no polygons.                    *)
THEOREM BoxesSuffice == Spec => [](HasContact(1) => BoxesCoverShapes)
<1>1. StepInv => (HasContact(1) => BoxesCoverShapes)
  <2>. SUFFICES ASSUME StepInv, HasContact(1), \A i \in Side : Centered(i), Overlap
                PROVE  RectanglesIntersect(Box(1), Box(2))
    BY DEF BoxesCoverShapes
  <2>1. /\ Shape(1).kind # "polygon" /\ Shape(2).kind # "polygon"
        /\ Intersect(Shape(1), Shape(2))
    BY DEF HasContact, OtherSide, Overlap
  <2>2. ASSUME NEW i \in Side
        PROVE  Shape(i) \in Circles \cup Rectangles /\ Box(i) = BoxAround(Shape(i))
    <3>1. i \in {1, 2}
      BY Sides
    <3>2. Shape(i) \in Circles \cup Rectangles
      BY <2>1, <3>1, ColliderTypes DEF AllShapes, Polygons
    <3>. DEFINE c == colliders[i].shape
                pos == bodies[i].position
    <3>3. pos \in Vectors
      BY ColliderTypes DEF BodyStates
    <3>4. Shape(i) = At(c, pos) /\ Box(i) = BoxOf(c, pos) /\ Shape(i).kind = c.kind
      BY ColliderTypes DEF Shape, Box
    <3>5. c \in AllShapes /\ (c.kind = "circle" => c.center = Zero)
      BY ColliderTypes DEF Centered
    <3>. HIDE DEF c, pos
    <3>6. CASE c \in Circles
      <4>1. c.kind = "circle" /\ c.center = Zero
        BY <3>5, <3>6 DEF Circles
      <4>. QED
        BY <3>2, <3>3, <3>4, <3>6, <4>1, BoxOfCircle DEF BoxAround, Around
    <3>7. CASE c \in Rectangles
      <4>1. c.kind = "rectangle"
        BY <3>7 DEF Rectangles
      <4>. QED
        BY <3>2, <3>3, <3>4, <3>7, <4>1, BoxOfRectangle DEF BoxAround
    <3>8. ~(c \in Polygons)
      <4>1. c.kind # "polygon"
        BY <2>1, <3>1, <3>4
      <4>. QED
        BY <4>1 DEF Polygons
    <3>. QED
      BY <3>5, <3>6, <3>7, <3>8 DEF AllShapes
  <2>3. 1 \in Side /\ 2 \in Side
    BY Sides
  <2>. QED
    BY <2>1, <2>2, <2>3, BroadPhase
<1>. QED
  BY <1>1, StepAlways, PTL
=============================================================================
