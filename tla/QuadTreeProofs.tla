--------------------------- MODULE QuadTreeProofs ---------------------------
(* The broad phase of the physics engine loses no contact, for any shapes,   *)
(* any boundary, any depth and any size of the nodes.                        *)
EXTENDS QuadTree, SequenceTheorems, FiniteSetTheorems, TLAPS

-----------------------------------------------------------------------------
(* Paths in the tree.                                                        *)

LEMMA PrefixByElements ==
  ASSUME NEW m \in Seq(Quarter), NEW n \in Seq(Quarter)
  PROVE  IsPrefix(m, n) <=> /\ Len(m) <= Len(n)
                            /\ \A i \in 1..Len(m) : m[i] = n[i]
<1>1. Len(m) \in Nat /\ Len(n) \in Nat
  OBVIOUS
<1>2. SubSeq(m, 1, Len(m)) = m
  BY SubSeqFull
<1>3. ASSUME Len(m) <= Len(n)
      PROVE  /\ SubSeq(n, 1, Len(m)) \in Seq(Quarter)
             /\ Len(SubSeq(n, 1, Len(m))) = Len(m)
             /\ \A i \in 1..Len(m) : SubSeq(n, 1, Len(m))[i] = n[i]
  BY <1>1, <1>3, SubSeqProperties
<1>. QED
  BY <1>1, <1>2, <1>3, SeqEqual DEF IsPrefix

LEMMA PrefixesOfAppend ==
  ASSUME NEW p \in Seq(Quarter), NEW q \in Quarter,
         NEW r \in Seq(Quarter), NEW s \in Quarter,
         IsPrefix(Append(r, s), Append(p, q))
  PROVE  (r = p /\ s = q) \/ IsPrefix(Append(r, s), p)
<1>1. /\ Append(p, q) \in Seq(Quarter) /\ Len(Append(p, q)) = Len(p) + 1
      /\ Append(p, q)[Len(p) + 1] = q
      /\ \A i \in 1..Len(p) : Append(p, q)[i] = p[i]
  OBVIOUS
<1>2. /\ Append(r, s) \in Seq(Quarter) /\ Len(Append(r, s)) = Len(r) + 1
      /\ Append(r, s)[Len(r) + 1] = s
      /\ \A i \in 1..Len(r) : Append(r, s)[i] = r[i]
  OBVIOUS
<1>3. /\ Len(p) \in Nat /\ Len(r) \in Nat
      /\ Len(r) <= Len(p)
      /\ \A i \in 1..(Len(r) + 1) : Append(r, s)[i] = Append(p, q)[i]
  <2>1. Len(p) \in Nat /\ Len(r) \in Nat
    OBVIOUS
  <2>2. /\ Len(Append(r, s)) <= Len(Append(p, q))
        /\ \A i \in 1..Len(Append(r, s)) : Append(r, s)[i] = Append(p, q)[i]
    BY <1>1, <1>2, PrefixByElements
  <2>. QED
    BY <1>1, <1>2, <2>1, <2>2
<1>4. CASE Len(r) = Len(p)
  <2>1. r = p
    BY <1>1, <1>2, <1>3, <1>4, SeqEqual
  <2>2. s = q
    BY <1>1, <1>2, <1>3, <1>4
  <2>. QED
    BY <2>1, <2>2
<1>5. CASE Len(r) < Len(p)
  <2>1. \A i \in 1..(Len(r) + 1) : Append(r, s)[i] = p[i]
    BY <1>1, <1>3, <1>5
  <2>2. IsPrefix(Append(r, s), p)
          <=> /\ Len(Append(r, s)) <= Len(p)
              /\ \A i \in 1..Len(Append(r, s)) : Append(r, s)[i] = p[i]
    BY <1>2, PrefixByElements
  <2>. QED
    BY <1>2, <1>3, <1>5, <2>1, <2>2
<1>. QED
  BY <1>3, <1>4, <1>5

LEMMA PrefixAppend ==
  ASSUME NEW p \in Seq(Quarter), NEW q \in Quarter
  PROVE  /\ IsPrefix(p, p) /\ IsPrefix(Root, p)
         /\ ~IsPrefix(Append(p, q), p)
         /\ ~IsPrefix(Append(p, q), Root)
         /\ \A n \in Seq(Quarter) : IsPrefix(n, p) => IsPrefix(n, Append(p, q))
<1>1. /\ Append(p, q) \in Seq(Quarter) /\ Len(Append(p, q)) = Len(p) + 1
      /\ \A i \in 1..Len(p) : Append(p, q)[i] = p[i]
      /\ Len(p) \in Nat
  OBVIOUS
<1>2. /\ Root \in Seq(Quarter) /\ Len(Root) = 0
  BY DEF Root
<1>3. IsPrefix(p, p) /\ IsPrefix(Root, p)
  <2>1. IsPrefix(p, p)
    BY <1>1, PrefixByElements
  <2>2. IsPrefix(Root, p) <=> /\ Len(Root) <= Len(p)
                              /\ \A i \in 1..Len(Root) : Root[i] = p[i]
    BY <1>2, PrefixByElements
  <2>3. 1..Len(Root) = {}
    BY <1>2
  <2>. QED
    BY <1>1, <1>2, <2>1, <2>2, <2>3
<1>4. ~IsPrefix(Append(p, q), p) /\ ~IsPrefix(Append(p, q), Root)
  <2>1. /\ IsPrefix(Append(p, q), p) => Len(Append(p, q)) <= Len(p)
        /\ IsPrefix(Append(p, q), Root) => Len(Append(p, q)) <= Len(Root)
    BY <1>1, <1>2, PrefixByElements
  <2>. QED
    BY <1>1, <1>2, <2>1
<1>5. ASSUME NEW n \in Seq(Quarter), IsPrefix(n, p)
      PROVE  IsPrefix(n, Append(p, q))
  <2>1. Len(n) \in Nat /\ Len(n) <= Len(p) /\ \A i \in 1..Len(n) : n[i] = p[i]
    BY <1>5, PrefixByElements
  <2>2. IsPrefix(n, Append(p, q))
          <=> /\ Len(n) <= Len(Append(p, q))
              /\ \A i \in 1..Len(n) : n[i] = Append(p, q)[i]
    BY <1>1, PrefixByElements
  <2>. QED
    BY <1>1, <2>1, <2>2
<1>. QED
  BY <1>3, <1>4, <1>5

(* A node below p is in one of the quarters of p.                            *)
LEMMA PrefixNext ==
  ASSUME NEW p \in Seq(Quarter), NEW n \in Seq(Quarter),
         IsPrefix(p, n), p # n
  PROVE  \E q \in Quarter : IsPrefix(Append(p, q), n)
<1>1. /\ Len(p) \in Nat /\ Len(n) \in Nat /\ Len(p) <= Len(n)
      /\ \A i \in 1..Len(p) : p[i] = n[i]
  BY PrefixByElements
<1>2. Len(p) < Len(n)
  BY <1>1, SeqEqual
<1>. DEFINE q == n[Len(p) + 1]
<1>3. q \in Quarter
  BY <1>1, <1>2, ElementOfSeq
<1>4. /\ Append(p, q) \in Seq(Quarter) /\ Len(Append(p, q)) = Len(p) + 1
      /\ \A i \in 1..(Len(p) + 1) : Append(p, q)[i] = n[i]
  BY <1>1, <1>3
<1>. HIDE DEF q
<1>5. IsPrefix(Append(p, q), n)
        <=> /\ Len(Append(p, q)) <= Len(n)
            /\ \A i \in 1..Len(Append(p, q)) : Append(p, q)[i] = n[i]
  BY <1>4, PrefixByElements
<1>6. IsPrefix(Append(p, q), n)
  BY <1>1, <1>2, <1>4, <1>5
<1>. QED
  BY <1>3, <1>6

-----------------------------------------------------------------------------
(* Rectangles.                                                               *)

(* Of two intervals that touch, each of which touches one half of a third,   *)
(* one half of it is touched by both, even where they meet outside of it.    *)
LEMMA CommonHalf ==
  ASSUME NEW c \in Int, NEW h \in Nat,
         NEW r1 \in Int, NEW r2 \in Int, NEW s1 \in Int, NEW s2 \in Int,
         r1 <= r2, s1 <= s2, r2 >= s1, r1 <= s2,
         (c >= r1 /\ c - h <= r2) \/ (c + h >= r1 /\ c <= r2),
         (c >= s1 /\ c - h <= s2) \/ (c + h >= s1 /\ c <= s2)
  PROVE  \/ c >= r1 /\ c - h <= r2 /\ c >= s1 /\ c - h <= s2
         \/ c + h >= r1 /\ c <= r2 /\ c + h >= s1 /\ c <= s2
OBVIOUS

LEMMA CenterType ==
  ASSUME NEW r, IsRectangle(r)
  PROVE  /\ r.minX \in Int /\ r.maxX \in Int /\ r.minX <= r.maxX
         /\ r.minY \in Int /\ r.maxY \in Int /\ r.minY <= r.maxY
         /\ CenterX(r) \in Int /\ CenterY(r) \in Int
         /\ HalfX(r) \in Nat /\ HalfY(r) \in Nat
BY DEF IsRectangle, CenterX, CenterY, HalfX, HalfY

LEMMA QuarterOfType ==
  ASSUME NEW r, IsRectangle(r), NEW q \in Quarter
  PROVE  IsRectangle(QuarterOf(r, q))
<1>1. /\ CenterX(r) \in Int /\ CenterY(r) \in Int
      /\ HalfX(r) \in Nat /\ HalfY(r) \in Nat
  BY CenterType
<1>. QED
  BY <1>1 DEF IsRectangle, QuarterOf

(* Two shapes that meet, and meet some quarter each, meet a common quarter.  *)
LEMMA CommonQuarter ==
  ASSUME NEW b, IsRectangle(b), NEW r, IsRectangle(r), NEW s, IsRectangle(s),
         Meet(r, s),
         NEW i \in Quarter, Meet(QuarterOf(b, i), r),
         NEW j \in Quarter, Meet(QuarterOf(b, j), s)
  PROVE  \E q \in Quarter : Meet(QuarterOf(b, q), r) /\ Meet(QuarterOf(b, q), s)
<1>. DEFINE cx == CenterX(b)
            cy == CenterY(b)
            hx == HalfX(b)
            hy == HalfY(b)
            LowX(t) == cx >= t.minX /\ cx - hx <= t.maxX
            HighX(t) == cx + hx >= t.minX /\ cx <= t.maxX
            LowY(t) == cy >= t.minY /\ cy - hy <= t.maxY
            HighY(t) == cy + hy >= t.minY /\ cy <= t.maxY
<1>1. /\ cx \in Int /\ cy \in Int /\ hx \in Nat /\ hy \in Nat
  BY CenterType
<1>2. ASSUME NEW t, IsRectangle(t)
      PROVE  /\ Meet(QuarterOf(b, 0), t) <=> LowX(t) /\ HighY(t)
             /\ Meet(QuarterOf(b, 1), t) <=> HighX(t) /\ HighY(t)
             /\ Meet(QuarterOf(b, 2), t) <=> LowX(t) /\ LowY(t)
             /\ Meet(QuarterOf(b, 3), t) <=> HighX(t) /\ LowY(t)
  BY DEF Meet, QuarterOf
<1>3. /\ r.minX \in Int /\ r.maxX \in Int /\ r.minX <= r.maxX
      /\ r.minY \in Int /\ r.maxY \in Int /\ r.minY <= r.maxY
      /\ s.minX \in Int /\ s.maxX \in Int /\ s.minX <= s.maxX
      /\ s.minY \in Int /\ s.maxY \in Int /\ s.minY <= s.maxY
  BY CenterType
<1>4. /\ r.maxX >= s.minX /\ r.minX <= s.maxX
      /\ r.maxY >= s.minY /\ r.minY <= s.maxY
  BY DEF Meet
<1>5. Quarter = {0, 1, 2, 3}
  BY DEF Quarter
<1>6. /\ LowX(r) \/ HighX(r)
      /\ LowY(r) \/ HighY(r)
      /\ LowX(s) \/ HighX(s)
      /\ LowY(s) \/ HighY(s)
  <2>. HIDE DEF LowX, LowY, HighX, HighY
  <2>. QED
    BY <1>2, <1>5
<1>7. (LowX(r) /\ LowX(s)) \/ (HighX(r) /\ HighX(s))
  <2>. HIDE DEF cx, hx
  <2>. QED
    BY <1>1, <1>3, <1>4, <1>6, CommonHalf
<1>8. (LowY(r) /\ LowY(s)) \/ (HighY(r) /\ HighY(s))
  <2>. HIDE DEF cy, hy
  <2>. QED
    BY <1>1, <1>3, <1>4, <1>6, CommonHalf
<1>. HIDE DEF LowX, LowY, HighX, HighY
<1>. QED
  BY <1>2, <1>5, <1>7, <1>8

-----------------------------------------------------------------------------
(* The inductive invariant.                                                  *)

(* Collider c is stored at node n, or on its way from there.                 *)
At(c, n) == c \in tree[n].Colliders \/ Call(n, c) \in pending

(* A node has four children, its quarters, or none.                          *)
ChildrenAreQuarters ==
  \A p \in DOMAIN tree : HasChildren(p) =>
    \A q \in Quarter :
      /\ Append(p, q) \in DOMAIN tree
      /\ tree[Append(p, q)].Boundary = QuarterOf(tree[p].Boundary, q)

Connected ==
  \A n \in DOMAIN tree, p \in Seq(Quarter), q \in Quarter :
    IsPrefix(Append(p, q), n) => p \in DOMAIN tree /\ HasChildren(p)

(* A collider has come down through quarters it alone touches.               *)
OnItsWay ==
  \A n \in DOMAIN tree, c \in DOMAIN shape : At(c, n) =>
    \A p \in Seq(Quarter), q \in Quarter :
      IsPrefix(Append(p, q), n) => QuartersMet(p, c) = {q}

(* Colliders that touch are on one branch.                                   *)
OnOneBranch ==
  \A m, n \in DOMAIN tree, a, b \in DOMAIN shape :
    At(a, m) /\ At(b, n) /\ Meet(shape[a], shape[b])
      => IsPrefix(m, n) \/ IsPrefix(n, m)

Placed == \A c \in DOMAIN shape : \E n \in DOMAIN tree : At(c, n)

NoCallsAfterwards == ~filling => pending = {}

IInv == /\ TypeOK /\ ChildrenAreQuarters /\ Connected
        /\ OnItsWay /\ OnOneBranch /\ Placed
        /\ NoCallsAfterwards /\ NoPairMissed

LEMMA InitInv == Init => IInv
<1>. SUFFICES ASSUME Init PROVE IInv
  OBVIOUS
<1>1. DOMAIN tree = {Root} /\ DOMAIN shape = {} /\ pending = {}
  BY DEF Init, RootOnly
<1>2. Root \in Seq(Quarter)
  BY DEF Root
<1>3. TypeOK
  <2>1. /\ IsRectangle(tree[Root].Boundary) /\ tree[Root].Colliders = {}
        /\ nodeIndex \in Nat /\ possiblePairs = {} /\ filling \in BOOLEAN
    <3>1. tree[Root] = [Boundary |-> [minX |-> 0, minY |-> 0,
                                      maxX |-> 0, maxY |-> 0],
                        Colliders |-> {}]
      BY DEF Init, RootOnly, NoBoundary
    <3>2. /\ IsRectangle(tree[Root].Boundary) /\ tree[Root].Colliders = {}
      BY <3>1 DEF IsRectangle
    <3>. QED
      BY <3>2 DEF Init
  <2>. QED
    BY <1>1, <1>2, <2>1 DEF TypeOK
<1>4. ~HasChildren(Root)
  <2>1. Append(Root, 0) # Root
    BY <1>2 DEF Quarter, Root
  <2>. QED
    BY <1>1, <2>1 DEF HasChildren
<1>5. ChildrenAreQuarters
  BY <1>1, <1>4 DEF ChildrenAreQuarters
<1>6. Connected
  BY <1>1, PrefixAppend DEF Connected
<1>7. OnItsWay /\ OnOneBranch /\ Placed /\ NoCallsAfterwards /\ NoPairMissed
  BY <1>1 DEF OnItsWay, OnOneBranch, Placed, NoCallsAfterwards, NoPairMissed
<1>. QED
  BY <1>3, <1>5, <1>6, <1>7 DEF IInv

LEMMA EmptiedInv ==
  ASSUME IInv, NEW r, IsRectangle(r), filling' \in BOOLEAN,
         tree' = RootOnly(r), nodeIndex' = 1, shape' = <<>>,
         pending' = {}, possiblePairs' = {}
  PROVE  IInv'
<1>1. /\ DOMAIN tree' = {Root} /\ DOMAIN shape' = {}
      /\ tree'[Root].Boundary = r /\ tree'[Root].Colliders = {}
  BY DEF RootOnly
<1>2. Root \in Seq(Quarter)
  BY DEF Root
<1>3. TypeOK'
  BY <1>1, <1>2 DEF TypeOK
<1>4. Append(Root, 0) \notin DOMAIN tree'
  BY <1>1, <1>2 DEF Quarter, Root
<1>5. ChildrenAreQuarters'
  BY <1>1, <1>4 DEF ChildrenAreQuarters, HasChildren
<1>6. Connected'
  BY <1>1, PrefixAppend DEF Connected
<1>7. /\ OnItsWay' /\ OnOneBranch' /\ Placed' /\ NoCallsAfterwards'
      /\ NoPairMissed'
  BY <1>1 DEF OnItsWay, OnOneBranch, Placed, NoCallsAfterwards, NoPairMissed
<1>. QED
  BY <1>3, <1>5, <1>6, <1>7 DEF IInv

LEMMA ClearInv ==
  ASSUME IInv, NEW r \in Rectangles, Clear(r)
  PROVE  IInv'
<1>1. IsRectangle(r) /\ pending' = {}
  BY QuadTreeAssumption DEF Clear, IInv, NoCallsAfterwards
<1>. QED
  BY <1>1, EmptiedInv DEF Clear

LEMMA DeinitInv ==
  ASSUME IInv, Deinit
  PROVE  IInv'
<1>1. pending' = {} /\ filling' \in BOOLEAN
  BY DEF Deinit, IInv, TypeOK, NoCallsAfterwards
<1>2. IsRectangle(NoBoundary)
  BY DEF IsRectangle, NoBoundary
<1>. QED
  BY <1>1, <1>2, EmptiedInv DEF Deinit

(* A step that stores colliders where they are, and may add empty nodes.     *)
LEMMA SamePlaces ==
  ASSUME IInv, TypeOK', shape' = shape,
         \A n \in DOMAIN tree : /\ n \in DOMAIN tree'
                                /\ tree'[n].Boundary = tree[n].Boundary,
         \A n \in DOMAIN tree, c \in DOMAIN shape : At(c, n)' <=> At(c, n),
         \A n \in DOMAIN tree' \ DOMAIN tree, c \in DOMAIN shape : ~At(c, n)'
  PROVE  OnItsWay' /\ OnOneBranch' /\ Placed'
<1>. USE DEF IInv
<1>1. ASSUME NEW p \in DOMAIN tree, HasChildren(p), NEW c \in DOMAIN shape
      PROVE  QuartersMet(p, c)' = QuartersMet(p, c)
  BY <1>1 DEF QuartersMet, ChildrenAreQuarters
<1>2. OnItsWay'
  <2>. SUFFICES ASSUME NEW n \in DOMAIN tree', NEW c \in DOMAIN shape', At(c, n)',
                       NEW p \in Seq(Quarter), NEW q \in Quarter,
                       IsPrefix(Append(p, q), n)
                PROVE  QuartersMet(p, c)' = {q}
    BY DEF OnItsWay
  <2>1. n \in DOMAIN tree /\ At(c, n)
    OBVIOUS
  <2>2. p \in DOMAIN tree /\ HasChildren(p)
    BY <2>1 DEF Connected
  <2>3. QuartersMet(p, c) = {q}
    BY <2>1 DEF OnItsWay
  <2>. QED
    BY <1>1, <2>2, <2>3
<1>3. OnOneBranch'
  BY DEF OnOneBranch
<1>4. Placed'
  BY DEF Placed
<1>. QED
  BY <1>2, <1>3, <1>4

(* A step that leaves the nodes and their boundaries as they are.            *)
LEMMA SameNodes ==
  ASSUME IInv, DOMAIN tree' = DOMAIN tree,
         \A n \in DOMAIN tree : tree'[n].Boundary = tree[n].Boundary
  PROVE  ChildrenAreQuarters' /\ Connected'
BY DEF IInv, ChildrenAreQuarters, Connected, HasChildren

LEMMA InsertInv ==
  ASSUME IInv, NEW c \in Collider, NEW r \in Rectangles, Insert(c, r)
  PROVE  IInv'
<1>. USE DEF IInv
<1>1. /\ filling /\ filling' /\ pending = {} /\ pending' = {Call(Root, c)}
      /\ c \notin DOMAIN shape /\ DOMAIN shape' = DOMAIN shape \cup {c}
      /\ shape'[c] = r /\ \A d \in DOMAIN shape : shape'[d] = shape[d]
      /\ tree' = tree /\ nodeIndex' = nodeIndex /\ possiblePairs' = possiblePairs
  BY DEF Insert
<1>2. TypeOK'
  BY <1>1 DEF TypeOK, Call
<1>3. ChildrenAreQuarters' /\ Connected'
  BY <1>1, SameNodes
<1>4. ASSUME NEW n \in DOMAIN tree
      PROVE  /\ \A d \in DOMAIN shape : At(d, n)' <=> At(d, n)
             /\ At(c, n)' <=> n = Root
  BY <1>1 DEF At, Call, TypeOK
<1>5. Root \in DOMAIN tree /\ \A n \in DOMAIN tree : n \in Seq(Quarter)
  BY DEF TypeOK
<1>6. OnItsWay'
  <2>. SUFFICES ASSUME NEW n \in DOMAIN tree', NEW d \in DOMAIN shape', At(d, n)',
                       NEW p \in Seq(Quarter), NEW q \in Quarter,
                       IsPrefix(Append(p, q), n)
                PROVE  QuartersMet(p, d)' = {q}
    BY DEF OnItsWay
  <2>1. d # c /\ d \in DOMAIN shape /\ At(d, n)
    BY <1>1, <1>4, PrefixAppend
  <2>2. QuartersMet(p, d) = {q}
    BY <1>1, <2>1 DEF OnItsWay
  <2>. QED
    BY <1>1, <2>1, <2>2 DEF QuartersMet
<1>7. OnOneBranch'
  <2>. SUFFICES ASSUME NEW m \in DOMAIN tree, NEW n \in DOMAIN tree,
                       NEW a \in DOMAIN shape', NEW b \in DOMAIN shape',
                       At(a, m)', At(b, n)', Meet(shape[a], shape[b])'
                PROVE  IsPrefix(m, n) \/ IsPrefix(n, m)
    BY <1>1 DEF OnOneBranch
  <2>0. \A k \in DOMAIN tree : IsPrefix(Root, k)
    <3>1. 0 \in Quarter
      BY DEF Quarter
    <3>. QED
      BY <1>5, <3>1, PrefixAppend
  <2>1. CASE a = c \/ b = c
    BY <1>4, <2>0, <2>1
  <2>2. CASE a # c /\ b # c
    <3>1. /\ a \in DOMAIN shape /\ b \in DOMAIN shape
          /\ At(a, m) /\ At(b, n) /\ Meet(shape[a], shape[b])
      BY <1>1, <1>4, <2>2
    <3>. QED
      BY <3>1 DEF OnOneBranch
  <2>. QED
    BY <2>1, <2>2
<1>8. Placed'
  BY <1>1, <1>4, <1>5 DEF Placed
<1>9. NoCallsAfterwards' /\ NoPairMissed'
  BY <1>1 DEF NoCallsAfterwards, NoPairMissed
<1>. QED
  BY <1>2, <1>3, <1>6, <1>7, <1>8, <1>9

LEMMA InLeafInv ==
  ASSUME IInv, NEW n \in DOMAIN tree, NEW c \in DOMAIN shape,
         InsertInLeaf(n, c) \/ InsertAcrossQuarters(n, c)
  PROVE  IInv'
<1>. USE DEF IInv
<1>1. /\ Call(n, c) \in pending
      /\ tree' = [tree EXCEPT ![n].Colliders = @ \cup {c}]
      /\ pending' = pending \ {Call(n, c)}
      /\ UNCHANGED <<nodeIndex, shape, possiblePairs, filling>>
  BY DEF InsertInLeaf, InsertAcrossQuarters
<1>2. /\ DOMAIN tree' = DOMAIN tree
      /\ \A m \in DOMAIN tree :
           /\ tree'[m].Boundary = tree[m].Boundary
           /\ tree'[m].Colliders = IF m = n THEN tree[m].Colliders \cup {c}
                                            ELSE tree[m].Colliders
  BY <1>1
<1>3. TypeOK'
  BY <1>1, <1>2 DEF TypeOK
<1>4. ChildrenAreQuarters' /\ Connected'
  BY <1>2, SameNodes
<1>5. \A m \in DOMAIN tree, d \in DOMAIN shape : At(d, m)' <=> At(d, m)
  BY <1>1, <1>2 DEF At, Call
<1>6. OnItsWay' /\ OnOneBranch' /\ Placed'
  BY <1>1, <1>2, <1>3, <1>5, SamePlaces
<1>7. NoCallsAfterwards' /\ NoPairMissed'
  BY <1>1 DEF NoCallsAfterwards, NoPairMissed
<1>. QED
  BY <1>3, <1>4, <1>6, <1>7

LEMMA SubdivideInv ==
  ASSUME IInv, NEW n \in DOMAIN tree, NEW c \in DOMAIN shape, Subdivide(n, c)
  PROVE  IInv'
<1>. USE DEF IInv
<1>1. /\ Call(n, c) \in pending /\ ~HasChildren(n)
      /\ tree' = Divided(n, c) /\ nodeIndex' = nodeIndex + 4
      /\ pending' = (pending \ {Call(n, c)})
                      \cup {Call(n, d) : d \in tree[n].Colliders \cup {c}}
      /\ UNCHANGED <<shape, possiblePairs, filling>>
  BY DEF Subdivide
<1>2. n \in Seq(Quarter) /\ \A q \in Quarter : Append(n, q) \in Seq(Quarter)
  BY DEF TypeOK
<1>3. \A q \in Quarter : /\ Len(Append(n, q)) = Len(n) + 1
                         /\ Append(n, q)[Len(n) + 1] = q
                         /\ Append(n, q) # n
                         /\ Append(n, q) \notin DOMAIN tree
  <2>. SUFFICES ASSUME NEW q \in Quarter
                PROVE  /\ Len(Append(n, q)) = Len(n) + 1
                       /\ Append(n, q)[Len(n) + 1] = q
                       /\ Append(n, q) # n
                       /\ Append(n, q) \notin DOMAIN tree
    OBVIOUS
  <2>1. /\ Len(Append(n, q)) = Len(n) + 1 /\ Append(n, q)[Len(n) + 1] = q
        /\ Len(n) \in Nat
    BY <1>2
  <2>2. IsPrefix(Append(n, q), Append(n, q))
    BY <1>2, PrefixAppend
  <2>. QED
    BY <1>1, <1>2, <2>1, <2>2 DEF Connected
<1>4. /\ DOMAIN tree' = DOMAIN tree \cup Children(n)
      /\ \A m \in DOMAIN tree :
           /\ tree'[m].Boundary = tree[m].Boundary
           /\ tree'[m].Colliders = IF m = n THEN {} ELSE tree[m].Colliders
      /\ \A q \in Quarter :
           /\ Append(n, q) \in DOMAIN tree'
           /\ tree'[Append(n, q)].Boundary = QuarterOf(tree[n].Boundary, q)
           /\ tree'[Append(n, q)].Colliders = {}
  <2>1. DOMAIN tree' = DOMAIN tree \cup Children(n)
    BY <1>1 DEF Divided
  <2>2. \A m \in DOMAIN tree :
          tree'[m] = IF m = n THEN [Boundary |-> tree[n].Boundary, Colliders |-> {}]
                              ELSE tree[m]
    BY <1>1 DEF Divided
  <2>3. ASSUME NEW q \in Quarter
        PROVE  /\ Append(n, q) \in Children(n)
               /\ tree'[Append(n, q)]
                    = [Boundary |-> QuarterOf(tree[n].Boundary, q),
                       Colliders |-> {}]
    <3>1. Append(n, q) \in Children(n)
      BY DEF Children
    <3>2. tree'[Append(n, q)]
            = [Boundary |-> QuarterOf(tree[n].Boundary,
                                      Append(n, q)[Len(Append(n, q))]),
               Colliders |-> {}]
      BY <1>1, <1>3, <3>1 DEF Divided
    <3>3. Append(n, q)[Len(Append(n, q))] = q
      BY <1>3
    <3>. QED
      BY <3>1, <3>2, <3>3
  <2>4. \A m \in DOMAIN tree :
          /\ tree'[m].Boundary = tree[m].Boundary
          /\ tree'[m].Colliders = IF m = n THEN {} ELSE tree[m].Colliders
    BY <2>2
  <2>5. ASSUME NEW q \in Quarter
        PROVE  /\ Append(n, q) \in DOMAIN tree'
               /\ tree'[Append(n, q)].Boundary = QuarterOf(tree[n].Boundary, q)
               /\ tree'[Append(n, q)].Colliders = {}
    <3>. DEFINE m == Append(n, q)
    <3>1. m \in Children(n) /\ tree'[m] = [Boundary |-> QuarterOf(tree[n].Boundary, q),
                                           Colliders |-> {}]
      BY <2>3
    <3>. HIDE DEF m
    <3>2. m \in DOMAIN tree' /\ tree'[m].Boundary = QuarterOf(tree[n].Boundary, q)
                             /\ tree'[m].Colliders = {}
      BY <2>1, <3>1
    <3>. QED
      BY <3>2 DEF m
  <2>. QED
    BY <2>1, <2>4, <2>5
<1>5. TypeOK'
  <2>1. DOMAIN tree' \subseteq Seq(Quarter) /\ Root \in DOMAIN tree'
    BY <1>2, <1>4 DEF TypeOK, Children
  <2>2. \A m \in DOMAIN tree' : /\ IsRectangle(tree'[m].Boundary)
                                /\ tree'[m].Colliders \subseteq DOMAIN shape
    <3>1. \A m \in DOMAIN tree : /\ IsRectangle(tree'[m].Boundary)
                                 /\ tree'[m].Colliders \subseteq DOMAIN shape
      BY <1>4 DEF TypeOK
    <3>2. IsRectangle(tree[n].Boundary)
      BY DEF TypeOK
    <3>3. \A q \in Quarter : IsRectangle(QuarterOf(tree[n].Boundary, q))
      BY <3>2, QuarterOfType
    <3>4. \A q \in Quarter : /\ IsRectangle(tree'[Append(n, q)].Boundary)
                             /\ tree'[Append(n, q)].Colliders \subseteq DOMAIN shape
      BY <1>4, <3>3
    <3>. QED
      BY <1>4, <3>1, <3>4 DEF Children
  <2>3. \A call \in pending' : call.node \in DOMAIN tree' /\ call.col \in DOMAIN shape
    BY <1>1, <1>4 DEF TypeOK, Call
  <2>. QED
    BY <1>1, <2>1, <2>2, <2>3 DEF TypeOK
<1>6. \A p \in DOMAIN tree : HasChildren(p)' <=> HasChildren(p) \/ p = n
  <2>. SUFFICES ASSUME NEW p \in DOMAIN tree, NEW q \in Quarter,
                       Append(p, 0) = Append(n, q)
                PROVE  p = n
    BY <1>3, <1>4 DEF HasChildren, Children, Quarter
  <2>1. p \in Seq(Quarter) /\ 0 \in Quarter
    BY DEF TypeOK, Quarter
  <2>. QED
    BY <1>2, <2>1, AppendInjective
<1>7. ASSUME NEW p \in DOMAIN tree' \ DOMAIN tree
      PROVE  ~HasChildren(p)'
  <2>1. PICK q \in Quarter : p = Append(n, q)
    BY <1>4 DEF Children
  <2>2. /\ p \in Seq(Quarter) /\ 0 \in Quarter
        /\ Append(p, 0) \in Seq(Quarter) /\ Len(Append(p, 0)) = Len(n) + 2
    BY <1>2, <1>3, <2>1 DEF Quarter
  <2>3. Append(p, 0) \notin Children(n)
    BY <1>2, <1>3, <2>2 DEF Children
  <2>4. Append(p, 0) \notin DOMAIN tree
    <3>1. IsPrefix(Append(n, q), Append(p, 0))
      BY <2>1, <2>2, PrefixAppend
    <3>. QED
      BY <1>1, <1>2, <3>1 DEF Connected
  <2>. QED
    BY <1>4, <2>3, <2>4 DEF HasChildren
<1>8. ChildrenAreQuarters'
  <2>. SUFFICES ASSUME NEW p \in DOMAIN tree', HasChildren(p)', NEW q \in Quarter
                PROVE  /\ Append(p, q) \in DOMAIN tree'
                       /\ tree'[Append(p, q)].Boundary
                            = QuarterOf(tree'[p].Boundary, q)
    BY DEF ChildrenAreQuarters
  <2>1. p \in DOMAIN tree
    BY <1>7
  <2>2. CASE p = n
    BY <1>4, <2>2
  <2>3. CASE HasChildren(p)
    BY <1>4, <2>1, <2>3 DEF ChildrenAreQuarters
  <2>. QED
    BY <1>6, <2>1, <2>2, <2>3
<1>9. Connected'
  <2>. SUFFICES ASSUME NEW m \in DOMAIN tree', NEW p \in Seq(Quarter),
                       NEW q \in Quarter, IsPrefix(Append(p, q), m)
                PROVE  p \in DOMAIN tree' /\ HasChildren(p)'
    BY DEF Connected
  <2>1. CASE IsPrefix(Append(p, q), n) \/ m \in DOMAIN tree
    BY <1>4, <1>6, <2>1 DEF Connected
  <2>2. CASE m \notin DOMAIN tree /\ ~IsPrefix(Append(p, q), n)
    <3>1. PICK r \in Quarter : m = Append(n, r)
      BY <1>4, <2>2 DEF Children
    <3>2. p = n
      BY <1>2, <2>2, <3>1, PrefixesOfAppend
    <3>. QED
      BY <1>4, <1>6, <3>2
  <2>. QED
    BY <2>1, <2>2
<1>10. \A m \in DOMAIN tree, d \in DOMAIN shape : At(d, m)' <=> At(d, m)
  <2>. SUFFICES ASSUME NEW m \in DOMAIN tree, NEW d \in DOMAIN shape
                PROVE  At(d, m)' <=> At(d, m)
    OBVIOUS
  <2>1. Call(m, d) \in pending' <=> \/ Call(m, d) \in pending /\ (m # n \/ d # c)
                                    \/ m = n /\ d \in tree[n].Colliders \cup {c}
    BY <1>1 DEF Call
  <2>. QED
    BY <1>1, <1>4, <2>1 DEF At
<1>11. \A m \in DOMAIN tree' \ DOMAIN tree, d \in DOMAIN shape : ~At(d, m)'
  <2>1. \A call \in pending' : call.node \in DOMAIN tree
    BY <1>1 DEF TypeOK, Call
  <2>. QED
    BY <1>4, <2>1 DEF At, Call, Children
<1>12. OnItsWay' /\ OnOneBranch' /\ Placed'
  BY <1>1, <1>4, <1>5, <1>10, <1>11, SamePlaces
<1>13. NoCallsAfterwards' /\ NoPairMissed'
  BY <1>1 DEF NoCallsAfterwards, NoPairMissed
<1>. QED
  BY <1>5, <1>8, <1>9, <1>12, <1>13

(* A collider that goes down a quarter stays on one branch with those it     *)
(* touches: they stay above, or have gone down the same quarter.             *)
LEMMA SameQuarter ==
  ASSUME IInv, NEW n \in DOMAIN tree, NEW c \in DOMAIN shape, At(c, n),
         HasChildren(n), NEW q \in Quarter, QuartersMet(n, c) = {q},
         NEW k \in DOMAIN tree, NEW b \in DOMAIN shape, At(b, k),
         Meet(shape[c], shape[b])
  PROVE  IsPrefix(Append(n, q), k) \/ IsPrefix(k, Append(n, q))
<1>. USE DEF IInv
<1>1. n \in Seq(Quarter) /\ k \in Seq(Quarter)
  BY DEF TypeOK
<1>2. CASE IsPrefix(k, n)
  BY <1>1, <1>2, PrefixAppend
<1>3. CASE IsPrefix(n, k) /\ n # k
  <2>1. PICK r \in Quarter : IsPrefix(Append(n, r), k)
    BY <1>1, <1>3, PrefixNext
  <2>2. QuartersMet(n, b) = {r}
    BY <1>1, <2>1 DEF OnItsWay
  <2>3. \A p \in Quarter : /\ Append(n, p) \in DOMAIN tree
                           /\ tree[Append(n, p)].Boundary = QuarterOf(tree[n].Boundary, p)
    BY DEF ChildrenAreQuarters
  <2>4. /\ \A p \in Quarter : Meet(QuarterOf(tree[n].Boundary, p), shape[c]) <=> p = q
        /\ \A p \in Quarter : Meet(QuarterOf(tree[n].Boundary, p), shape[b]) <=> p = r
    BY <2>2, <2>3 DEF QuartersMet
  <2>5. /\ IsRectangle(tree[n].Boundary)
        /\ IsRectangle(shape[c]) /\ IsRectangle(shape[b])
    BY QuadTreeAssumption DEF TypeOK
  <2>6. \E p \in Quarter : /\ Meet(QuarterOf(tree[n].Boundary, p), shape[c])
                           /\ Meet(QuarterOf(tree[n].Boundary, p), shape[b])
    BY <2>4, <2>5, CommonQuarter
  <2>. QED
    BY <2>1, <2>4, <2>6
<1>4. IsPrefix(n, k) \/ IsPrefix(k, n)
  BY DEF OnOneBranch
<1>5. IsPrefix(n, n)
  BY <1>1, PrefixAppend DEF Quarter
<1>. QED
  BY <1>2, <1>3, <1>4, <1>5

LEMMA MeetSymmetric == \A r, s : IsRectangle(r) /\ IsRectangle(s)
                                   => (Meet(r, s) <=> Meet(s, r))
BY DEF Meet, IsRectangle

LEMMA InQuarterInv ==
  ASSUME IInv, NEW n \in DOMAIN tree, NEW c \in DOMAIN shape,
         NEW q \in Quarter, InsertInQuarter(n, c, q)
  PROVE  IInv'
<1>. USE DEF IInv
<1>. DEFINE child == Append(n, q)
<1>1. /\ Call(n, c) \in pending /\ HasChildren(n) /\ QuartersMet(n, c) = {q}
      /\ pending' = (pending \ {Call(n, c)}) \cup {Call(child, c)}
      /\ UNCHANGED <<tree, nodeIndex, shape, possiblePairs, filling>>
  BY DEF InsertInQuarter
<1>2. child \in DOMAIN tree /\ n \in Seq(Quarter) /\ At(c, n)
  BY <1>1 DEF ChildrenAreQuarters, TypeOK, At
<1>3. TypeOK'
  <2>1. \A call \in pending' : call.node \in DOMAIN tree /\ call.col \in DOMAIN shape
    <3>. HIDE DEF child
    <3>1. /\ Call(child, c).node = child /\ Call(child, c).col = c
      BY DEF Call
    <3>. QED
      BY <1>1, <1>2, <3>1 DEF TypeOK
  <2>. HIDE DEF child
  <2>. QED
    BY <1>1, <2>1 DEF TypeOK
<1>4. ChildrenAreQuarters' /\ Connected'
  BY <1>1, SameNodes
<1>5. ASSUME NEW m \in DOMAIN tree, NEW d \in DOMAIN shape
      PROVE  /\ At(d, m)' => At(d, m) \/ (d = c /\ m = child)
             /\ At(d, m) => At(d, m)' \/ (d = c /\ m = n)
             /\ At(c, child)'
  BY <1>1 DEF At, Call
<1>. HIDE DEF child
<1>6. OnItsWay'
  <2>. SUFFICES ASSUME NEW m \in DOMAIN tree, NEW d \in DOMAIN shape, At(d, m)',
                       NEW p \in Seq(Quarter), NEW r \in Quarter,
                       IsPrefix(Append(p, r), m)
                PROVE  QuartersMet(p, d) = {r}
    BY <1>1 DEF OnItsWay, QuartersMet
  <2>1. CASE At(d, m)
    BY <2>1 DEF OnItsWay
  <2>2. CASE d = c /\ m = child
    <3>1. (p = n /\ r = q) \/ IsPrefix(Append(p, r), n)
      BY <1>2, <2>2, PrefixesOfAppend DEF child
    <3>. QED
      BY <1>1, <1>2, <2>2, <3>1 DEF OnItsWay
  <2>. QED
    BY <1>5, <2>1, <2>2
<1>7. OnOneBranch'
  <2>. SUFFICES ASSUME NEW m \in DOMAIN tree, NEW k \in DOMAIN tree,
                       NEW a \in DOMAIN shape, NEW b \in DOMAIN shape,
                       At(a, m)', At(b, k)', Meet(shape[a], shape[b])
                PROVE  IsPrefix(m, k) \/ IsPrefix(k, m)
    BY <1>1 DEF OnOneBranch
  <2>1. Meet(shape[b], shape[a])
    BY MeetSymmetric, QuadTreeAssumption DEF TypeOK
  <2>2. CASE At(a, m) /\ At(b, k)
    BY <2>2 DEF OnOneBranch
  <2>3. CASE At(a, m) /\ b = c /\ k = child
    BY <1>1, <1>2, <2>1, <2>3, SameQuarter DEF child
  <2>4. CASE At(b, k) /\ a = c /\ m = child
    BY <1>1, <1>2, <2>4, SameQuarter DEF child
  <2>5. CASE m = child /\ k = child
    <3>1. child \in Seq(Quarter)
      BY <1>2 DEF TypeOK
    <3>. QED
      BY <2>5, <3>1, PrefixAppend
  <2>. QED
    BY <1>5, <2>2, <2>3, <2>4, <2>5
<1>8. Placed'
  BY <1>1, <1>2, <1>5 DEF Placed
<1>9. NoCallsAfterwards' /\ NoPairMissed'
  BY <1>1 DEF NoCallsAfterwards, NoPairMissed
<1>. QED
  BY <1>3, <1>4, <1>6, <1>7, <1>8, <1>9

LEMMA PairsInv ==
  ASSUME IInv, CalculatePossiblePairs
  PROVE  IInv'
<1>. USE DEF IInv
<1>1. /\ pending = {} /\ pending' = {} /\ filling' = FALSE
      /\ possiblePairs' = {pair \in SUBSET DOMAIN shape :
                             \E a, b \in pair : pair = {a, b} /\ Compared(a, b)}
      /\ UNCHANGED <<tree, nodeIndex, shape>>
  BY DEF CalculatePossiblePairs
<1>2. TypeOK'
  <2>1. \A pair \in possiblePairs' : pair \subseteq DOMAIN shape
    BY <1>1
  <2>. QED
    BY <1>1, <2>1 DEF TypeOK
<1>3. ChildrenAreQuarters' /\ Connected'
  BY <1>1, SameNodes
<1>4. OnItsWay' /\ OnOneBranch' /\ Placed'
  <2>1. \A n \in DOMAIN tree, c \in DOMAIN shape : At(c, n)' <=> At(c, n)
    BY <1>1 DEF At
  <2>. QED
    BY <1>1, <1>2, <2>1, SamePlaces
<1>5. NoPairMissed'
  <2>. SUFFICES ASSUME NEW a \in DOMAIN shape, NEW b \in DOMAIN shape,
                       a # b, Meet(shape[a], shape[b])
                PROVE  {a, b} \in possiblePairs'
    BY <1>1 DEF NoPairMissed
  <2>1. PICK m \in DOMAIN tree : At(a, m)
    BY DEF Placed
  <2>2. PICK n \in DOMAIN tree : At(b, n)
    BY DEF Placed
  <2>3. a \in tree[m].Colliders /\ b \in tree[n].Colliders
    BY <1>1, <2>1, <2>2 DEF At
  <2>4. IsPrefix(m, n) \/ IsPrefix(n, m)
    BY <2>1, <2>2 DEF OnOneBranch
  <2>5. Meet(shape[b], shape[a])
    BY MeetSymmetric, QuadTreeAssumption DEF TypeOK
  <2>6. Compared(a, b) \/ Compared(b, a)
    BY <2>3, <2>4, <2>5 DEF Compared
  <2>. QED
    BY <1>1, <2>6
<1>6. NoCallsAfterwards'
  BY <1>1 DEF NoCallsAfterwards
<1>. QED
  BY <1>2, <1>3, <1>4, <1>5, <1>6

LEMMA NextInv == IInv /\ [Next]_vars => IInv'
<1>. SUFFICES ASSUME IInv, [Next]_vars PROVE IInv'
  OBVIOUS
<1>1. CASE \E r \in Rectangles : Clear(r)
  BY <1>1, ClearInv
<1>2. CASE \E c \in Collider, r \in Rectangles : Insert(c, r)
  BY <1>2, InsertInv
<1>3. ASSUME NEW n \in DOMAIN tree, NEW c \in DOMAIN shape, InsertInNode(n, c)
      PROVE  IInv'
  BY <1>3, InLeafInv, SubdivideInv, InQuarterInv DEF InsertInNode
<1>4. CASE CalculatePossiblePairs
  BY <1>4, PairsInv
<1>5. CASE Deinit
  BY <1>5, DeinitInv
<1>6. CASE UNCHANGED vars
  BY <1>6 DEF vars, IInv, TypeOK, ChildrenAreQuarters, Connected, HasChildren,
       OnItsWay, QuartersMet, OnOneBranch, Placed, At, NoCallsAfterwards,
       NoPairMissed
<1>. QED
  BY <1>1, <1>2, <1>3, <1>4, <1>5, <1>6 DEF Next

LEMMA Invariance == Spec => []IInv
BY InitInv, NextInv, PTL DEF Spec

(* Every node QuadTree.cpp reaches, every shape and every call is of its     *)
(* type.                                                                     *)
THEOREM TypeCorrect == Spec => []TypeOK
<1>1. IInv => TypeOK
  BY DEF IInv
<1>. QED
  BY <1>1, Invariance, PTL

(* When CalculatePossiblePairs is done, every two colliders of the step      *)
(* whose rectangles touch are among the possible pairs.                      *)
THEOREM BroadPhaseComplete == Spec => []NoPairMissed
<1>1. IInv => NoPairMissed
  BY DEF IInv
<1>. QED
  BY <1>1, Invariance, PTL

-----------------------------------------------------------------------------
(* A collider at one place.                                                  *)

CallsAreCalls ==
  \A call \in pending : \E n \in DOMAIN tree, c \in DOMAIN shape : call = Call(n, c)

AtOneNode ==
  \A c \in DOMAIN shape, m \in DOMAIN tree, n \in DOMAIN tree :
    At(c, m) /\ At(c, n) => m = n

StoredOrCalled ==
  \A c \in DOMAIN shape, n \in DOMAIN tree :
    ~(c \in tree[n].Colliders /\ Call(n, c) \in pending)

OnceInv == CallsAreCalls /\ AtOneNode /\ StoredOrCalled

LEMMA CallInjective ==
  ASSUME NEW m, NEW n, NEW c, NEW d, Call(m, c) = Call(n, d)
  PROVE  m = n /\ c = d
BY DEF Call

LEMMA OnceEmptied ==
  ASSUME shape' = <<>>, pending' = {}
  PROVE  OnceInv'
BY DEF OnceInv, CallsAreCalls, AtOneNode, StoredOrCalled

LEMMA OnceInsert ==
  ASSUME IInv, OnceInv, NEW c \in Collider, NEW r \in Rectangles, Insert(c, r)
  PROVE  OnceInv'
<1>1. /\ pending = {} /\ pending' = {Call(Root, c)}
      /\ c \notin DOMAIN shape /\ DOMAIN shape' = DOMAIN shape \cup {c}
      /\ tree' = tree /\ Root \in DOMAIN tree
      /\ \A n \in DOMAIN tree : tree[n].Colliders \subseteq DOMAIN shape
  BY DEF Insert, IInv, TypeOK
<1>2. CallsAreCalls'
  BY <1>1 DEF CallsAreCalls
<1>3. \A d, n : Call(n, d) \in pending' <=> n = Root /\ d = c
  BY <1>1, CallInjective
<1>4. AtOneNode' /\ StoredOrCalled'
  BY <1>1, <1>3 DEF AtOneNode, StoredOrCalled, OnceInv, At
<1>. QED
  BY <1>2, <1>4 DEF OnceInv

LEMMA OnceStored ==
  ASSUME IInv, OnceInv, NEW n \in DOMAIN tree, NEW c \in DOMAIN shape,
         InsertInLeaf(n, c) \/ InsertAcrossQuarters(n, c)
  PROVE  OnceInv'
<1>1. /\ Call(n, c) \in pending
      /\ tree' = [tree EXCEPT ![n].Colliders = @ \cup {c}]
      /\ pending' = pending \ {Call(n, c)}
      /\ shape' = shape
  BY DEF InsertInLeaf, InsertAcrossQuarters
<1>2. /\ DOMAIN tree' = DOMAIN tree
      /\ \A m \in DOMAIN tree :
           tree'[m].Colliders = IF m = n THEN tree[m].Colliders \cup {c}
                                         ELSE tree[m].Colliders
  BY <1>1
<1>3. CallsAreCalls'
  BY <1>1, <1>2 DEF CallsAreCalls, OnceInv
<1>4. \A d, m : Call(m, d) \in pending'
                  <=> Call(m, d) \in pending /\ (m # n \/ d # c)
  BY <1>1, CallInjective
<1>5. \A d \in DOMAIN shape, m \in DOMAIN tree : At(d, m)' <=> At(d, m)
  BY <1>1, <1>2, <1>4 DEF At
<1>6. AtOneNode'
  BY <1>1, <1>2, <1>5 DEF AtOneNode, OnceInv
<1>7. StoredOrCalled'
  BY <1>1, <1>2, <1>4 DEF StoredOrCalled, OnceInv
<1>. QED
  BY <1>3, <1>6, <1>7 DEF OnceInv

(* What a division leaves: the nodes it had, the divided one empty, and four *)
(* new ones.                                                                 *)
LEMMA DividedNodes ==
  ASSUME IInv, NEW n \in DOMAIN tree, NEW c \in DOMAIN shape, Subdivide(n, c)
  PROVE  /\ DOMAIN tree' = DOMAIN tree \cup Children(n)
         /\ \A m \in DOMAIN tree :
              tree'[m].Colliders = IF m = n THEN {} ELSE tree[m].Colliders
         /\ \A m \in Children(n) : m \notin DOMAIN tree
                                   /\ tree'[m].Colliders = {}
<1>1. tree' = Divided(n, c) /\ ~HasChildren(n) /\ n \in Seq(Quarter)
  BY DEF Subdivide, IInv, TypeOK
<1>2. \A m \in Children(n) : m \notin DOMAIN tree
  <2>. SUFFICES ASSUME NEW q \in Quarter PROVE Append(n, q) \notin DOMAIN tree
    BY DEF Children
  <2>1. Append(n, q) \in Seq(Quarter)
    BY <1>1
  <2>2. IsPrefix(Append(n, q), Append(n, q))
    BY <2>1, PrefixAppend DEF Quarter
  <2>. QED
    BY <1>1, <2>2 DEF IInv, Connected
<1>. QED
  BY <1>1, <1>2 DEF Divided

LEMMA OnceSubdivide ==
  ASSUME IInv, OnceInv, NEW n \in DOMAIN tree, NEW c \in DOMAIN shape,
         Subdivide(n, c)
  PROVE  OnceInv'
<1>1. /\ Call(n, c) \in pending
      /\ pending' = (pending \ {Call(n, c)})
                      \cup {Call(n, d) : d \in tree[n].Colliders \cup {c}}
      /\ shape' = shape
      /\ tree[n].Colliders \subseteq DOMAIN shape
  BY DEF Subdivide, IInv, TypeOK
<1>2. /\ DOMAIN tree \subseteq DOMAIN tree'
      /\ \A m \in DOMAIN tree :
           tree'[m].Colliders = IF m = n THEN {} ELSE tree[m].Colliders
      /\ \A m \in DOMAIN tree' : m \notin DOMAIN tree => tree'[m].Colliders = {}
  BY DividedNodes
<1>3. CallsAreCalls'
  BY <1>1, <1>2 DEF CallsAreCalls, OnceInv
<1>4. \A d, m : Call(m, d) \in pending' <=> \/ Call(m, d) \in pending
                                            \/ m = n /\ d \in tree[n].Colliders
  BY <1>1, CallInjective
<1>5. \A d, m : Call(m, d) \in pending => m \in DOMAIN tree
  BY CallInjective DEF OnceInv, CallsAreCalls
<1>6. \A d \in DOMAIN shape, m \in DOMAIN tree' :
        At(d, m)' <=> m \in DOMAIN tree /\ At(d, m)
  BY <1>1, <1>2, <1>4, <1>5 DEF At
<1>7. AtOneNode'
  BY <1>1, <1>6 DEF AtOneNode, OnceInv
<1>8. StoredOrCalled'
  BY <1>1, <1>2, <1>4 DEF StoredOrCalled, OnceInv
<1>. QED
  BY <1>3, <1>7, <1>8 DEF OnceInv

LEMMA OnceInQuarter ==
  ASSUME IInv, OnceInv, NEW n \in DOMAIN tree, NEW c \in DOMAIN shape,
         NEW q \in Quarter, InsertInQuarter(n, c, q)
  PROVE  OnceInv'
<1>. DEFINE child == Append(n, q)
<1>1. /\ Call(n, c) \in pending
      /\ pending' = (pending \ {Call(n, c)}) \cup {Call(child, c)}
      /\ UNCHANGED <<tree, shape>>
      /\ child \in DOMAIN tree /\ child # n
  <2>1. child # n
    BY DEF IInv, TypeOK
  <2>. QED
    BY <2>1 DEF InsertInQuarter, IInv, ChildrenAreQuarters
<1>. HIDE DEF child
<1>2. CallsAreCalls'
  BY <1>1 DEF CallsAreCalls, OnceInv
<1>3. \A d, m : Call(m, d) \in pending'
                  <=> \/ Call(m, d) \in pending /\ (m # n \/ d # c)
                      \/ m = child /\ d = c
  BY <1>1, CallInjective
<1>4. \A m \in DOMAIN tree : At(c, m) => m = n
  BY <1>1 DEF AtOneNode, OnceInv, At
<1>5. \A m \in DOMAIN tree : c \notin tree[m].Colliders
  BY <1>1, <1>4 DEF StoredOrCalled, OnceInv, At
<1>6. \A d \in DOMAIN shape, m \in DOMAIN tree :
        At(d, m)' <=> IF d = c THEN m = child ELSE At(d, m)
  BY <1>1, <1>3, <1>4, <1>5 DEF At
<1>7. AtOneNode'
  BY <1>1, <1>6 DEF AtOneNode, OnceInv
<1>8. StoredOrCalled'
  BY <1>1, <1>3, <1>5 DEF StoredOrCalled, OnceInv
<1>. QED
  BY <1>2, <1>7, <1>8 DEF OnceInv

LEMMA OnceInit == Init => OnceInv
BY DEF Init, OnceInv, CallsAreCalls, AtOneNode, StoredOrCalled

LEMMA OnceNext == IInv /\ OnceInv /\ [Next]_vars => OnceInv'
<1>. SUFFICES ASSUME IInv, OnceInv, [Next]_vars PROVE OnceInv'
  OBVIOUS
<1>1. CASE \E r \in Rectangles : Clear(r)
  BY <1>1, OnceEmptied DEF Clear, IInv, NoCallsAfterwards
<1>2. CASE \E c \in Collider, r \in Rectangles : Insert(c, r)
  BY <1>2, OnceInsert
<1>3. ASSUME NEW n \in DOMAIN tree, NEW c \in DOMAIN shape, InsertInNode(n, c)
      PROVE  OnceInv'
  BY <1>3, OnceStored, OnceSubdivide, OnceInQuarter DEF InsertInNode
<1>4. CASE CalculatePossiblePairs
  BY <1>4 DEF CalculatePossiblePairs, OnceInv, CallsAreCalls, AtOneNode,
       StoredOrCalled, At
<1>5. CASE Deinit
  BY <1>5, OnceEmptied DEF Deinit, IInv, NoCallsAfterwards
<1>6. CASE UNCHANGED vars
  BY <1>6 DEF vars, OnceInv, CallsAreCalls, AtOneNode, StoredOrCalled, At
<1>. QED
  BY <1>1, <1>2, <1>3, <1>4, <1>5, <1>6 DEF Next

LEMMA OnceCounted == IInv /\ OnceInv => StoredOnce
<1>. SUFFICES ASSUME IInv, OnceInv, NEW c \in DOMAIN shape
              PROVE  Cardinality(Places(c)) + Cardinality(Calls(c)) = 1
  BY DEF StoredOnce
<1>1. PICK n \in DOMAIN tree : At(c, n)
  BY DEF IInv, Placed
<1>2. \A m \in DOMAIN tree : At(c, m) => m = n
  BY <1>1 DEF OnceInv, AtOneNode
<1>3. Places(c) = IF c \in tree[n].Colliders THEN {n} ELSE {}
  BY <1>2 DEF Places, At
<1>4. Calls(c) = IF Call(n, c) \in pending THEN {Call(n, c)} ELSE {}
  <2>1. \A call \in Calls(c) : \E m \in DOMAIN tree : call = Call(m, c)
    BY DEF Calls, Call, OnceInv, CallsAreCalls
  <2>2. \A call \in Calls(c) : call = Call(n, c)
    BY <1>2, <2>1 DEF At, Calls
  <2>3. \A call \in Calls(c) : call \in pending
    BY DEF Calls
  <2>4. Call(n, c) \in pending => Call(n, c) \in Calls(c)
    BY DEF Calls, Call
  <2>. QED
    BY <2>2, <2>3, <2>4
<1>5. ~(c \in tree[n].Colliders /\ Call(n, c) \in pending)
  BY DEF OnceInv, StoredOrCalled
<1>. QED
  BY <1>1, <1>3, <1>4, <1>5, FS_EmptySet, FS_Singleton DEF At

(* Whatever the order of the calls, a collider of the step is in the list of *)
(* one node, or insertInNode is still to be called with it, once: none is    *)
(* lost by a division or kept twice.                                         *)
THEOREM OnePlacePerCollider == Spec => []StoredOnce
<1>1. Spec => []OnceInv
  BY OnceInit, OnceNext, Invariance, PTL DEF Spec
<1>. QED
  BY <1>1, OnceCounted, Invariance, PTL

-----------------------------------------------------------------------------
(* Recursive functions on the naturals.                                      *)

(* Induction, on a set of numbers.                                           *)
LEMMA AllNaturals ==
  ASSUME NEW S, S \subseteq Nat, 0 \in S, \A n \in S : n + 1 \in S
  PROVE  S = Nat
<1>. SUFFICES ASSUME S # Nat PROVE FALSE
  OBVIOUS
<1>. DEFINE R == OpToRel(<, Nat)
            T == Nat \ S
<1>1. IsWellFoundedOn(R, Nat) /\ T \subseteq Nat /\ T # {}
  BY NatLessThanWellFounded
<1>2. \A i, j \in Nat : <<i, j>> \in R <=> i < j
  BY DEF OpToRel
<1>. HIDE DEF R
<1>3. PICK n \in T : \A m \in T : <<m, n>> \notin R
  BY <1>1, WFMin
<1>4. n \in Nat /\ n # 0 /\ n \notin S
  BY <1>1
<1>5. n - 1 \in Nat /\ n - 1 < n /\ (n - 1) + 1 = n
  BY <1>4
<1>6. n - 1 \in S
  BY <1>2, <1>3, <1>4, <1>5
<1>. QED
  BY <1>4, <1>5, <1>6

(* A function given by its first value and the step from one value to the    *)
(* next exists.                                                              *)
LEMMA RecursionExists ==
  ASSUME NEW first \in Nat, NEW step \in [Nat \X Nat -> Nat]
  PROVE  \E f \in [Nat -> Nat] :
           f = [n \in Nat |-> IF n = 0 THEN first ELSE step[<<n, f[n - 1]>>]]
<1>. DEFINE Value(f, i) == IF i = 0 THEN first ELSE step[<<i, f[i - 1]>>]
            Begins(f, k) == /\ f \in [0..k -> Nat]
                            /\ \A i \in 0..k : f[i] = Value(f, i)
            Long == {k \in Nat : \E f : Begins(f, k)}
            Same(i) == \A f, g : \A k, m \in Nat :
                         Begins(f, k) /\ Begins(g, m) /\ i <= k /\ i <= m
                           => f[i] = g[i]
            Alike == {i \in Nat : Same(i)}
<1>1. Long = Nat
  <2>1. 0 \in Long
    <3>1. Begins([i \in 0..0 |-> first], 0)
      OBVIOUS
    <3>. HIDE DEF Begins
    <3>. QED
      BY <3>1
  <2>2. ASSUME NEW k \in Long PROVE k + 1 \in Long
    <3>1. k \in Nat /\ \E f : Begins(f, k)
      BY <2>2
    <3>2. PICK f : Begins(f, k)
      BY <3>1
    <3>3. f[k] \in Nat /\ step[<<k + 1, f[k]>>] \in Nat
      BY <3>1, <3>2
    <3>. DEFINE g == [i \in 0..(k + 1) |-> IF i = k + 1 THEN step[<<k + 1, f[k]>>]
                                                        ELSE f[i]]
    <3>4. g \in [0..(k + 1) -> Nat]
      BY <3>1, <3>2, <3>3
    <3>5. \A i \in 0..k : g[i] = f[i]
      BY <3>1
    <3>6. g[k + 1] = step[<<k + 1, f[k]>>] /\ (k + 1) - 1 = k
      BY <3>1
    <3>. HIDE DEF g
    <3>7. ASSUME NEW i \in 0..(k + 1) PROVE g[i] = Value(g, i)
      <4>1. CASE i = k + 1
        <5>1. k \in 0..k /\ i # 0 /\ i - 1 = k
          BY <3>1, <4>1
        <5>2. g[i - 1] = f[k]
          BY <3>5, <5>1
        <5>. QED
          BY <3>6, <4>1, <5>1, <5>2
      <4>2. CASE i \in 0..k
        <5>1. f[i] = Value(f, i) /\ g[i] = f[i]
          BY <3>2, <3>5, <4>2
        <5>2. CASE i = 0
          BY <5>1, <5>2
        <5>3. CASE i # 0
          <6>1. i - 1 \in 0..k
            BY <3>1, <4>2, <5>3
          <6>2. g[i - 1] = f[i - 1]
            BY <3>5, <6>1
          <6>. QED
            BY <5>1, <5>3, <6>2
        <5>. QED
          BY <5>2, <5>3
      <4>. QED
        BY <3>1, <4>1, <4>2
    <3>8. Begins(g, k + 1)
      BY <3>4, <3>7
    <3>. HIDE DEF Begins
    <3>. QED
      BY <3>1, <3>8
  <2>. HIDE DEF Begins
  <2>. QED
    BY <2>1, <2>2, AllNaturals
<1>2. Alike = Nat
  <2>1. Same(0)
    <3>1. ASSUME NEW f, NEW k \in Nat, Begins(f, k) PROVE f[0] = first
      <4>1. 0 \in 0..k
        OBVIOUS
      <4>. QED
        BY <3>1, <4>1
    <3>. HIDE DEF Begins
    <3>. QED
      BY <3>1
  <2>2. ASSUME NEW i \in Nat, Same(i) PROVE Same(i + 1)
    <3>1. i + 1 # 0 /\ (i + 1) - 1 = i
      OBVIOUS
    <3>. SUFFICES ASSUME NEW f, NEW g, NEW k \in Nat, NEW m \in Nat,
                         Begins(f, k), Begins(g, m), i + 1 <= k, i + 1 <= m
                  PROVE  f[i + 1] = g[i + 1]
      <4>. HIDE DEF Begins
      <4>. QED
        OBVIOUS
    <3>2. f[i] = g[i]
      <4>1. i <= k /\ i <= m
        BY <3>1
      <4>. HIDE DEF Begins
      <4>. QED
        BY <2>2, <4>1
    <3>3. i + 1 \in 0..k /\ i + 1 \in 0..m
      BY <3>1
    <3>. QED
      BY <3>1, <3>2, <3>3
  <2>. HIDE DEF Same
  <2>3. 0 \in Alike /\ \A i \in Alike : i + 1 \in Alike
    BY <2>1, <2>2
  <2>4. Alike \subseteq Nat
    OBVIOUS
  <2>. HIDE DEF Alike
  <2>. QED
    BY <2>3, <2>4, AllNaturals
<1>. DEFINE beginning == [k \in Nat |-> CHOOSE f : Begins(f, k)]
            h == [n \in Nat |-> beginning[n][n]]
<1>3. \A k \in Nat : Begins(beginning[k], k)
  <2>. HIDE DEF Begins
  <2>1. \A k \in Nat : \E f : Begins(f, k)
    BY <1>1
  <2>. QED
    BY <2>1
<1>4. \A n \in Nat : h[n] = beginning[n][n]
  OBVIOUS
<1>5. h \in [Nat -> Nat]
  <2>1. \A n \in Nat : beginning[n][n] \in Nat
    <3>. HIDE DEF beginning
    <3>. QED
      BY <1>3
  <2>. QED
    BY <2>1
<1>6. ASSUME NEW n \in Nat, n # 0
      PROVE  h[n] = step[<<n, h[n - 1]>>]
  <2>1. n - 1 \in Nat /\ n - 1 <= n /\ n \in 0..n /\ n - 1 <= n - 1
    BY <1>6
  <2>2. /\ Begins(beginning[n], n)
        /\ Begins(beginning[n - 1], n - 1)
    BY <1>3, <2>1
  <2>. HIDE DEF beginning, h
  <2>3. beginning[n][n] = step[<<n, beginning[n][n - 1]>>]
    BY <1>6, <2>1, <2>2
  <2>4. beginning[n][n - 1] = beginning[n - 1][n - 1]
    <3>1. Same(n - 1)
      <4>. HIDE DEF Same
      <4>. QED
        BY <1>2, <2>1
    <3>. HIDE DEF Begins
    <3>. QED
      BY <2>1, <2>2, <3>1
  <2>. QED
    BY <1>4, <2>1, <2>3, <2>4
<1>7. h[0] = first
  <2>. HIDE DEF beginning, h
  <2>1. Begins(beginning[0], 0)
    <3>. HIDE DEF Begins
    <3>. QED
      BY <1>3
  <2>2. beginning[0][0] = first
    BY <2>1
  <2>. QED
    BY <1>4, <2>2
<1>. HIDE DEF h
<1>8. h = [n \in Nat |-> IF n = 0 THEN first ELSE step[<<n, h[n - 1]>>]]
  BY <1>5, <1>6, <1>7
<1>. QED
  BY <1>5, <1>8

LEMMA PowValues ==
  /\ Pow \in [Nat -> Nat] /\ Pow[0] = 1
  /\ \A n \in Nat : Pow[n + 1] = 4 * Pow[n]
<1>. DEFINE step == [p \in Nat \X Nat |-> 4 * p[2]]
<1>1. step \in [Nat \X Nat -> Nat]
  OBVIOUS
<1>2. \A n, v \in Nat : step[<<n, v>>] = 4 * v
  OBVIOUS
<1>. HIDE DEF step
<1>3. PICK f \in [Nat -> Nat] :
        f = [n \in Nat |-> IF n = 0 THEN 1 ELSE step[<<n, f[n - 1]>>]]
  <2>1. 1 \in Nat
    OBVIOUS
  <2>. QED
    BY <1>1, <2>1, RecursionExists
<1>4. \A n \in Nat : n # 0 => n - 1 \in Nat /\ f[n - 1] \in Nat
  OBVIOUS
<1>5. f = [n \in Nat |-> IF n = 0 THEN 1 ELSE 4 * f[n - 1]]
  BY <1>2, <1>3, <1>4
<1>6. Pow = [n \in Nat |-> IF n = 0 THEN 1 ELSE 4 * Pow[n - 1]]
  BY <1>5 DEF Pow
<1>7. Pow[0] = 1
  BY <1>6
<1>8. \A n \in Nat : Pow[n + 1] = 4 * Pow[n]
  <2>. TAKE n \in Nat
  <2>1. n + 1 \in Nat /\ n + 1 # 0 /\ (n + 1) - 1 = n
    OBVIOUS
  <2>. QED
    BY <1>6, <2>1
<1>9. \A n \in Nat : Pow[n] \in Nat
  <2>. DEFINE S == {n \in Nat : Pow[n] \in Nat}
  <2>1. S \subseteq Nat /\ 0 \in S
    BY <1>7
  <2>3. ASSUME NEW n \in S PROVE n + 1 \in S
    <3>1. n \in Nat /\ Pow[n] \in Nat /\ n + 1 \in Nat
      OBVIOUS
    <3>2. 4 * Pow[n] \in Nat
      BY <3>1
    <3>. QED
      BY <1>8, <3>1, <3>2
  <2>2. S = Nat
    <3>. HIDE DEF S
    <3>. QED
      BY <2>1, <2>3, AllNaturals
  <2>. QED
    BY <2>2
<1>. QED
  BY <1>6, <1>7, <1>8, <1>9

LEMMA NodesUpToValues ==
  /\ NodesUpTo \in [Nat -> Nat] /\ NodesUpTo[0] = 1
  /\ \A n \in Nat : NodesUpTo[n + 1] = NodesUpTo[n] + Pow[n + 1]
<1>. DEFINE step == [p \in Nat \X Nat |-> p[2] + Pow[p[1]]]
<1>1. step \in [Nat \X Nat -> Nat]
  BY PowValues
<1>2. \A n, v \in Nat : step[<<n, v>>] = v + Pow[n]
  OBVIOUS
<1>. HIDE DEF step
<1>3. PICK f \in [Nat -> Nat] :
        f = [n \in Nat |-> IF n = 0 THEN Pow[0] ELSE step[<<n, f[n - 1]>>]]
  BY <1>1, PowValues, RecursionExists
<1>4. \A n \in Nat : n # 0 => n - 1 \in Nat /\ f[n - 1] \in Nat
  OBVIOUS
<1>5. f = [n \in Nat |-> IF n = 0 THEN Pow[0] ELSE f[n - 1] + Pow[n]]
  BY <1>2, <1>3, <1>4
<1>6. NodesUpTo = [n \in Nat |-> IF n = 0 THEN Pow[0]
                                 ELSE NodesUpTo[n - 1] + Pow[n]]
  BY <1>5 DEF NodesUpTo
<1>7. NodesUpTo[0] = 1
  BY <1>6, PowValues
<1>8. \A n \in Nat : NodesUpTo[n + 1] = NodesUpTo[n] + Pow[n + 1]
  <2>. TAKE n \in Nat
  <2>1. n + 1 \in Nat /\ n + 1 # 0 /\ (n + 1) - 1 = n
    OBVIOUS
  <2>. QED
    BY <1>6, <2>1
<1>9. \A n \in Nat : NodesUpTo[n] \in Nat
  <2>. DEFINE S == {n \in Nat : NodesUpTo[n] \in Nat}
  <2>1. S \subseteq Nat /\ 0 \in S
    BY <1>7
  <2>3. ASSUME NEW n \in S PROVE n + 1 \in S
    <3>1. n \in Nat /\ NodesUpTo[n] \in Nat /\ n + 1 \in Nat
      OBVIOUS
    <3>2. Pow[n + 1] \in Nat
      BY <3>1, PowValues
    <3>3. NodesUpTo[n] + Pow[n + 1] \in Nat
      BY <3>1, <3>2
    <3>. QED
      BY <1>8, <3>1, <3>3
  <2>2. S = Nat
    <3>. HIDE DEF S
    <3>. QED
      BY <2>1, <2>3, AllNaturals
  <2>. QED
    BY <2>2
<1>. QED
  BY <1>6, <1>7, <1>8, <1>9

-----------------------------------------------------------------------------
(* The size of the tree.                                                     *)

Level(k) == {p \in Seq(Quarter) : Len(p) = k}
UpTo(k) == {p \in Seq(Quarter) : Len(p) <= k}

LEMMA FourQuarters == IsFiniteSet(Quarter) /\ Cardinality(Quarter) = 4
<1>1. /\ IsFiniteSet(0..3)
      /\ Cardinality(0..3) = IF 0 > 3 THEN 0 ELSE 3 - 0 + 1
  <2>1. \A a, b \in Int : /\ IsFiniteSet(a..b)
                          /\ Cardinality(a..b) = IF a > b THEN 0 ELSE b - a + 1
    BY FS_Interval
  <2>2. 0 \in Int /\ 3 \in Int
    OBVIOUS
  <2>. QED
    BY <2>1, <2>2
<1>2. (IF 0 > 3 THEN 0 ELSE 3 - 0 + 1) = 4
  OBVIOUS
<1>. QED
  BY <1>1, <1>2 DEF Quarter

LEMMA OneElement ==
  ASSUME NEW x
  PROVE  IsFiniteSet({x}) /\ Cardinality({x}) = 1
BY FS_Singleton

LEMMA EmptyPath ==
  /\ Root \in Seq(Quarter) /\ Len(Root) = 0
  /\ \A p \in Seq(Quarter) : Len(p) = 0 => p = Root
BY EmptySeq DEF Root

LEMMA LevelSize ==
  \A k \in Nat : IsFiniteSet(Level(k)) /\ Cardinality(Level(k)) <= Pow[k]
<1>. DEFINE Sized == {k \in Nat : /\ IsFiniteSet(Level(k))
                                  /\ Cardinality(Level(k)) <= Pow[k]}
<1>1. 0 \in Sized
  <2>1. Level(0) = {Root}
    BY EmptyPath, LenProperties DEF Level
  <2>2. IsFiniteSet(Level(0)) /\ Cardinality(Level(0)) = 1
    BY <2>1, OneElement
  <2>. QED
    BY <2>2, PowValues
<1>2. IsFiniteSet(Quarter) /\ Cardinality(Quarter) = 4
  BY FourQuarters
<1>3. ASSUME NEW k \in Sized PROVE k + 1 \in Sized
  <2>. DEFINE S == Level(k) \X Quarter
              f == [s \in S |-> Append(s[1], s[2])]
  <2>1. /\ k \in Nat /\ IsFiniteSet(Level(k)) /\ Cardinality(Level(k)) <= Pow[k]
        /\ Cardinality(Level(k)) \in Nat
    BY <1>3, FS_CardinalityType
  <2>2. IsFiniteSet(S) /\ Cardinality(S) = Cardinality(Level(k)) * 4
    BY <1>2, <2>1, FS_Product
  <2>3. f \in [S -> Level(k + 1)]
    BY DEF Level
  <2>4. ASSUME NEW t \in Level(k + 1) PROVE \E s \in S : f[s] = t
    <3>1. t \in Seq(Quarter) /\ Len(t) = k + 1 /\ t # <<>>
      BY <2>1 DEF Level
    <3>2. PICK p \in Seq(Quarter), q \in Quarter : t = Append(p, q)
      BY <3>1, SequenceEmptyOrAppend
    <3>3. <<p, q>> \in S
      BY <2>1, <3>1, <3>2 DEF Level
    <3>. QED
      BY <3>2, <3>3
  <2>5. f \in Surjection(S, Level(k + 1))
    BY <2>3, <2>4 DEF Surjection
  <2>. HIDE DEF f, S
  <2>6. IsFiniteSet(Level(k + 1)) /\ Cardinality(Level(k + 1)) <= Cardinality(S)
    BY <2>2, <2>5, FS_Surjection
  <2>7. /\ Cardinality(Level(k + 1)) \in Nat /\ Pow[k] \in Nat
        /\ Pow[k + 1] = 4 * Pow[k] /\ k + 1 \in Nat
    BY <2>1, <2>6, FS_CardinalityType, PowValues
  <2>. QED
    BY <2>1, <2>2, <2>6, <2>7
<1>4. Sized = Nat
  <2>. HIDE DEF Sized
  <2>1. Sized \subseteq Nat
    BY DEF Sized
  <2>. QED
    BY <1>1, <1>3, <2>1, AllNaturals
<1>. QED
  BY <1>4

LEMMA TreeSize ==
  \A k \in Nat : IsFiniteSet(UpTo(k)) /\ Cardinality(UpTo(k)) <= NodesUpTo[k]
<1>. DEFINE Sized == {k \in Nat : /\ IsFiniteSet(UpTo(k))
                                  /\ Cardinality(UpTo(k)) <= NodesUpTo[k]}
<1>1. 0 \in Sized
  <2>1. UpTo(0) = {Root}
    <3>1. \A p \in Seq(Quarter) : Len(p) \in Nat
      BY LenProperties
    <3>2. \A p \in Seq(Quarter) : Len(p) <= 0 <=> p = Root
      BY <3>1, EmptyPath
    <3>. QED
      BY <3>2, EmptyPath DEF UpTo
  <2>2. IsFiniteSet(UpTo(0)) /\ Cardinality(UpTo(0)) = 1
    BY <2>1, OneElement
  <2>. QED
    BY <2>2, NodesUpToValues
<1>2. ASSUME NEW k \in Sized PROVE k + 1 \in Sized
  <2>1. /\ k \in Nat /\ k + 1 \in Nat
        /\ IsFiniteSet(UpTo(k)) /\ Cardinality(UpTo(k)) <= NodesUpTo[k]
        /\ Cardinality(UpTo(k)) \in Nat
    BY <1>2, FS_CardinalityType
  <2>2. /\ IsFiniteSet(Level(k + 1)) /\ Cardinality(Level(k + 1)) <= Pow[k + 1]
        /\ Cardinality(Level(k + 1)) \in Nat
    BY <2>1, LevelSize, FS_CardinalityType
  <2>3. UpTo(k + 1) = UpTo(k) \cup Level(k + 1)
    BY <2>1 DEF UpTo, Level
  <2>4. IsFiniteSet(UpTo(k) \cap Level(k + 1))
    BY <2>1, FS_Intersection
  <2>5. Cardinality(UpTo(k) \cap Level(k + 1)) \in Nat
    BY <2>4, FS_CardinalityType
  <2>6. /\ IsFiniteSet(UpTo(k + 1))
        /\ Cardinality(UpTo(k + 1)) = Cardinality(UpTo(k)) + Cardinality(Level(k + 1))
                                        - Cardinality(UpTo(k) \cap Level(k + 1))
    BY <2>1, <2>2, <2>3, FS_Union
  <2>7. /\ NodesUpTo[k + 1] = NodesUpTo[k] + Pow[k + 1]
        /\ NodesUpTo[k] \in Nat /\ Pow[k + 1] \in Nat
    BY <2>1, NodesUpToValues, PowValues
  <2>8. Cardinality(UpTo(k + 1)) <= NodesUpTo[k + 1]
    BY <2>1, <2>2, <2>5, <2>6, <2>7
  <2>. QED
    BY <2>1, <2>6, <2>8
<1>3. Sized = Nat
  <2>. HIDE DEF Sized
  <2>1. Sized \subseteq Nat
    BY DEF Sized
  <2>. QED
    BY <1>1, <1>2, <2>1, AllNaturals
<1>. QED
  BY <1>3

(* Each node is one of those that are taken, and none is too deep.           *)
SizeInv ==
  /\ IsFiniteSet(DOMAIN tree) /\ Cardinality(DOMAIN tree) = nodeIndex
  /\ \A n \in DOMAIN tree : Len(n) <= MaxDepth

LEMMA SizeOfRoot ==
  ASSUME NEW r, tree' = RootOnly(r), nodeIndex' = 1
  PROVE  SizeInv'
<1>1. DOMAIN tree' = {Root} /\ Len(Root) = 0
  BY EmptyPath DEF RootOnly
<1>2. IsFiniteSet(DOMAIN tree') /\ Cardinality(DOMAIN tree') = 1
  BY <1>1, OneElement
<1>. QED
  BY <1>1, <1>2, QuadTreeAssumption DEF SizeInv

LEMMA SizeSame ==
  ASSUME SizeInv, DOMAIN tree' = DOMAIN tree, nodeIndex' = nodeIndex
  PROVE  SizeInv'
BY DEF SizeInv

LEMMA ChildrenSize ==
  ASSUME NEW n \in Seq(Quarter)
  PROVE  IsFiniteSet(Children(n)) /\ Cardinality(Children(n)) = 4
<1>. DEFINE f == [q \in Quarter |-> Append(n, q)]
<1>1. IsFiniteSet(Quarter) /\ Cardinality(Quarter) = 4
  BY FourQuarters
<1>2. f \in Surjection(Quarter, Children(n))
  BY DEF Surjection, Children
<1>3. f \in Injection(Quarter, Children(n))
  <2>1. \A q, r \in Quarter : Append(n, q) = Append(n, r) => q = r
    BY AppendProperties
  <2>. QED
    BY <1>2, <2>1 DEF Injection, IsInjective, Surjection
<1>. QED
  BY <1>1, <1>2, <1>3, FS_Surjection

LEMMA SizeDivided ==
  ASSUME IInv, SizeInv, NEW n \in DOMAIN tree, NEW c \in DOMAIN shape,
         Subdivide(n, c)
  PROVE  SizeInv'
<1>1. /\ nodeIndex' = nodeIndex + 4 /\ Len(n) # MaxDepth /\ n \in Seq(Quarter)
      /\ nodeIndex \in Nat
  BY DEF Subdivide, Overflows, IInv, TypeOK
<1>2. /\ DOMAIN tree' = DOMAIN tree \cup Children(n)
      /\ DOMAIN tree \cap Children(n) = {}
  BY DividedNodes
<1>3. IsFiniteSet(Children(n)) /\ Cardinality(Children(n)) = 4
  BY <1>1, ChildrenSize
<1>4. IsFiniteSet(DOMAIN tree') /\ Cardinality(DOMAIN tree') = nodeIndex'
  <2>1. /\ IsFiniteSet(DOMAIN tree')
        /\ Cardinality(DOMAIN tree')
             = Cardinality(DOMAIN tree) + 4 - Cardinality({})
    BY <1>2, <1>3, FS_Union DEF SizeInv
  <2>2. Cardinality({}) = 0
    BY FS_EmptySet
  <2>. QED
    BY <1>1, <2>1, <2>2 DEF SizeInv
<1>5. Len(n) \in Nat /\ Len(n) + 1 <= MaxDepth
  BY <1>1, QuadTreeAssumption DEF SizeInv
<1>6. \A m \in Children(n) : Len(m) = Len(n) + 1
  BY <1>1, AppendProperties DEF Children
<1>. QED
  BY <1>2, <1>4, <1>5, <1>6 DEF SizeInv

LEMMA SizeNext == IInv /\ SizeInv /\ [Next]_vars => SizeInv'
<1>. SUFFICES ASSUME IInv, SizeInv, [Next]_vars PROVE SizeInv'
  OBVIOUS
<1>1. CASE \/ \E r \in Rectangles : Clear(r)
           \/ Deinit
  BY <1>1, SizeOfRoot DEF Clear, Deinit
<1>2. CASE \E c \in Collider, r \in Rectangles : Insert(c, r)
  BY <1>2, SizeSame DEF Insert
<1>3. ASSUME NEW n \in DOMAIN tree, NEW c \in DOMAIN shape, InsertInNode(n, c)
      PROVE  SizeInv'
  <2>1. CASE InsertInLeaf(n, c) \/ InsertAcrossQuarters(n, c)
    BY <2>1, SizeSame DEF InsertInLeaf, InsertAcrossQuarters
  <2>2. CASE \E q \in Quarter : InsertInQuarter(n, c, q)
    BY <2>2, SizeSame DEF InsertInQuarter
  <2>. QED
    BY <1>3, <2>1, <2>2, SizeDivided DEF InsertInNode
<1>4. CASE CalculatePossiblePairs \/ UNCHANGED vars
  BY <1>4, SizeSame DEF CalculatePossiblePairs, vars
<1>. QED
  BY <1>1, <1>2, <1>3, <1>4 DEF Next

LEMMA SizeBounded == IInv /\ SizeInv => NodesSuffice
<1>. SUFFICES ASSUME IInv, SizeInv PROVE NodesSuffice
  OBVIOUS
<1>1. DOMAIN tree \subseteq UpTo(MaxDepth)
  BY DEF IInv, TypeOK, SizeInv, UpTo
<1>2. IsFiniteSet(UpTo(MaxDepth)) /\ Cardinality(UpTo(MaxDepth)) <= QuadCount
  BY TreeSize, QuadTreeAssumption DEF QuadCount
<1>3. Cardinality(DOMAIN tree) <= Cardinality(UpTo(MaxDepth))
  BY <1>1, <1>2, FS_Subset
<1>4. /\ Cardinality(UpTo(MaxDepth)) \in Nat /\ QuadCount \in Nat
      /\ nodeIndex \in Nat
  BY <1>2, FS_CardinalityType, NodesUpToValues, QuadTreeAssumption
     DEF QuadCount, IInv, TypeOK
<1>. QED
  BY <1>2, <1>3, <1>4 DEF SizeInv, NodesSuffice

(* The index into the nodes that Init allocates never passes their number,   *)
(* whatever the depth, the size of the nodes and the shapes: the four nodes  *)
(* of a division are there though nothing in insertInNode looks.             *)
THEOREM NodesAreEnough == Spec => []NodesSuffice
<1>1. Init => SizeInv
  <2>1. Init => DOMAIN tree = {Root} /\ nodeIndex = 1
    BY DEF Init, RootOnly
  <2>2. IsFiniteSet({Root}) /\ Cardinality({Root}) = 1
    BY OneElement
  <2>. QED
    BY <2>1, <2>2, EmptyPath, QuadTreeAssumption DEF SizeInv
<1>2. Spec => []SizeInv
  BY <1>1, SizeNext, Invariance, PTL DEF Spec
<1>. QED
  BY <1>2, SizeBounded, Invariance, PTL
=============================================================================
