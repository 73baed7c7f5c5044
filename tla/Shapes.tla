------------------------------- MODULE Shapes -------------------------------
(* The shapes of the math library (Shape.h) and whether two of them overlap, *)
(* on integers.  Squares stand for lengths, as in the code where it compares *)
(* them; a quotient is compared by its numerator.                            *)
EXTENDS Integers, Sequences, FiniteSetsExt

Vectors == [X : Int, Y : Int]
Vec2(x, y) == [X |-> x, Y |-> y]
Plus(a, b) == Vec2(a.X + b.X, a.Y + b.Y)
Minus(a, b) == Vec2(a.X - b.X, a.Y - b.Y)
Times(k, a) == Vec2(k * a.X, k * a.Y)
Dot(a, b) == a.X * b.X + a.Y * b.Y
SquareLength(a) == Dot(a, a)
Zero == Vec2(0, 0)

Circle(center, radius) == [kind |-> "circle", center |-> center, radius |-> radius]
Rectangle(minBound, maxBound) ==
  [kind |-> "rectangle", minBound |-> minBound, maxBound |-> maxBound]
Polygon(vertices) == [kind |-> "polygon", vertices |-> vertices]

(* A circle takes the absolute value of its radius; the bounds of a          *)
(* rectangle are its smallest and its largest corner.                        *)
Circles == [kind : {"circle"}, center : Vectors, radius : Nat]
InBounds(r) == r.minBound.X <= r.maxBound.X /\ r.minBound.Y <= r.maxBound.Y
Rectangles ==
  {r \in [kind : {"rectangle"}, minBound : Vectors, maxBound : Vectors] : InBounds(r)}
Polygons == [kind : {"polygon"}, vertices : Seq(Vectors)]

(* operator+: the shape of a collider at the position of its body.           *)
At(shape, pos) ==
  CASE shape.kind = "circle" -> Circle(Plus(shape.center, pos), shape.radius)
    [] shape.kind = "rectangle" ->
         Rectangle(Plus(shape.minBound, pos), Plus(shape.maxBound, pos))
    [] shape.kind = "polygon" ->
         Polygon([i \in DOMAIN shape.vertices |-> Plus(shape.vertices[i], pos)])

CircleContains(c, point) ==
  SquareLength(Minus(c.center, point)) <= c.radius * c.radius
RectangleContains(r, point) ==
  /\ r.minBound.X <= point.X /\ point.X <= r.maxBound.X
  /\ r.minBound.Y <= point.Y /\ point.Y <= r.maxBound.Y

CornersOf(r) ==
  <<r.minBound, Vec2(r.minBound.X, r.maxBound.Y),
    r.maxBound, Vec2(r.maxBound.X, r.minBound.Y)>>
-----------------------------------------------------------------------------

CirclesIntersect(c, d) ==
  LET radiusSum == c.radius + d.radius
  IN SquareLength(Minus(c.center, d.center)) <= radiusSum * radiusSum

RectanglesIntersect(r, s) ==
  /\ r.maxBound.X >= s.minBound.X /\ r.minBound.X <= s.maxBound.X
  /\ r.maxBound.Y >= s.minBound.Y /\ r.minBound.Y <= s.maxBound.Y

(* Wrong on purpose: the corners of the widened rectangle count as well.     *)
RectangleIntersectsBox(r, c) ==
  RectangleContains(Rectangle(Minus(r.minBound, Vec2(c.radius, c.radius)),
                              Plus(r.maxBound, Vec2(c.radius, c.radius))), c.center)

(* The rectangle widened by the radius, either way, and round at the corners.*)
RectangleIntersectsCircle(r, c) ==
  LET Widened(by) == Rectangle(Minus(r.minBound, by), Plus(r.maxBound, by))
  IN \/ RectangleContains(r, c.center)
     \/ RectangleContains(Widened(Vec2(c.radius, 0)), c.center)
     \/ RectangleContains(Widened(Vec2(0, c.radius)), c.center)
     \/ \E i \in 1..4 : CircleContains(c, CornersOf(r)[i])

(* The edges of a polygon, each vertex with the one before it.               *)
Edges(p) ==
  LET n == Len(p.vertices)
  IN {<<p.vertices[IF i = 1 THEN n ELSE i - 1], p.vertices[i]>> : i \in 1..n}

(* The separating axis theorem, for the axes of p's edges.                   *)
SeparatesBy(edge, p, q) ==
  LET along == Minus(edge[2], edge[1])
      normal == Vec2(-along.Y, along.X)
      Projection(r) == {Dot(r.vertices[i], normal) : i \in DOMAIN r.vertices}
  IN \/ Max(Projection(p)) < Min(Projection(q))
     \/ Max(Projection(q)) < Min(Projection(p))

(* Wrong on purpose: only the edges of the first polygon are tried.          *)
PolygonsIntersectByFirst(p, q) == \A edge \in Edges(p) : ~SeparatesBy(edge, p, q)

PolygonsIntersect(p, q) == \A edge \in Edges(p) \cup Edges(q) : ~SeparatesBy(edge, p, q)

(* The distance of a point to ClosestPointOnSegment is at most r.            *)
SegmentWithin(edge, point, r) ==
  LET ab == Minus(edge[2], edge[1])
      ap == Minus(point, edge[1])
      t == Dot(ap, ab)
      cross == ap.X * ab.Y - ap.Y * ab.X
  IN CASE t <= 0 -> SquareLength(ap) <= r * r
       [] t >= SquareLength(ab) -> SquareLength(Minus(point, edge[2])) <= r * r
       [] OTHER -> cross * cross <= r * r * SquareLength(ab)

(* A circle that lies within a polygon and meets no edge does not count.     *)
PolygonIntersectsCircle(p, c) ==
  \/ \E i \in DOMAIN p.vertices : CircleContains(c, p.vertices[i])
  \/ \E edge \in Edges(p) : SegmentWithin(edge, c.center, c.radius)

RectangleAsPolygon(r) == Polygon(CornersOf(r))

(* detectOverlap: Intersect for the shapes of two colliders in place.        *)
Intersect(s, t) ==
  LET Are(k, l) == s.kind = k /\ t.kind = l IN
  CASE Are("circle", "circle") -> CirclesIntersect(s, t)
    [] Are("circle", "rectangle") -> RectangleIntersectsCircle(t, s)
    [] Are("circle", "polygon") -> PolygonIntersectsCircle(t, s)
    [] Are("rectangle", "circle") -> RectangleIntersectsCircle(s, t)
    [] Are("rectangle", "rectangle") -> RectanglesIntersect(s, t)
    [] Are("rectangle", "polygon") -> PolygonsIntersect(t, RectangleAsPolygon(s))
    [] Are("polygon", "circle") -> PolygonIntersectsCircle(s, t)
    [] Are("polygon", "rectangle") -> PolygonsIntersect(s, RectangleAsPolygon(t))
    [] Are("polygon", "polygon") -> PolygonsIntersect(s, t)
-----------------------------------------------------------------------------

BoundsOf(points) ==
  LET xs == {v.X : v \in points}
      ys == {v.Y : v \in points}
  IN Rectangle(Vec2(Min(xs), Min(ys)), Vec2(Max(xs), Max(ys)))
Vertices(p) == {p.vertices[i] : i \in DOMAIN p.vertices}

(* Wrong on purpose: the bounds of a polygon start from the body, as those   *)
(* of Polygon::Size start from the origin, and are not moved with it.        *)
BoxAtOrigin(shape, pos) ==
  CASE shape.kind = "circle" ->
         LET halfSize == Vec2(shape.radius, shape.radius)
         IN Rectangle(Minus(pos, halfSize), Plus(pos, halfSize))
    [] shape.kind = "rectangle" -> At(shape, pos)
    [] shape.kind = "polygon" -> BoundsOf({pos} \cup Vertices(shape))

(* resolveBroadPhase: the rectangle a collider is inserted with.  That of a  *)
(* circle is around the body, wherever the circle's own centre is.           *)
BoxOf(shape, pos) ==
  CASE shape.kind = "circle" ->
         LET halfSize == Vec2(shape.radius, shape.radius)
         IN Rectangle(Minus(pos, halfSize), Plus(pos, halfSize))
    [] shape.kind = "rectangle" -> At(shape, pos)
    [] shape.kind = "polygon" -> BoundsOf(Vertices(At(shape, pos)))
=============================================================================
