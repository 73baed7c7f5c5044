------------------------------ MODULE QuadTree ------------------------------
(* The quad-tree of the physics engine (QuadTree.cpp), which World fills     *)
(* from nothing in every step: a node that holds too many colliders hands    *)
(* each that touches just one quarter of it down to that quarter.            *)
(*                                                                           *)
(* A node is named by the quarters on the way to it, and the recursion of    *)
(* insertInNode is a set of calls still to make.  Neither the order within   *)
(* a node nor that of the calls is kept: a pair has no order (ColliderPair's *)
(* operator==), and the tree holds for any order of the calls.               *)
EXTENDS Integers, FiniteSets, SequencesExt

CONSTANTS Collider,        \* the colliders of a step
          Rectangles,      \* the shapes and boundaries that occur
          MaxColliderNbr,  \* 8 in the code
          MaxDepth         \* 5 in the code

IsRectangle(r) == /\ r \in [minX : Int, minY : Int, maxX : Int, maxY : Int]
                  /\ r.minX <= r.maxX /\ r.minY <= r.maxY

ASSUME QuadTreeAssumption ==
  /\ \A r \in Rectangles : IsRectangle(r)
  /\ MaxColliderNbr \in Nat /\ MaxDepth \in Nat

VARIABLES tree,           \* the nodes in use, from their paths
          nodeIndex,      \* the next free one of the nodes allocated by Init
          shape,          \* the inserted colliders, as rectangles
          pending,        \* calls of insertInNode to make
          possiblePairs,
          filling         \* between SetRootNodeBoundary and the pairs

vars == <<tree, nodeIndex, shape, pending, possiblePairs, filling>>

Quarter == 0..3
Root == <<>>
Call(n, c) == [node |-> n, col |-> c]

(* Math::Intersect of two rectangles: to touch is enough.                    *)
Meet(r, s) == /\ r.maxX >= s.minX /\ r.minX <= s.maxX
              /\ r.maxY >= s.minY /\ r.minY <= s.maxY

(* The four rectangles of a division.  The halves are rounded, as floats     *)
(* are: a division may leave out the very rim of the boundary.               *)
CenterX(r) == (r.minX + r.maxX) \div 2
CenterY(r) == (r.minY + r.maxY) \div 2
HalfX(r) == (r.maxX - r.minX) \div 2
HalfY(r) == (r.maxY - r.minY) \div 2

QuarterOf(r, q) ==
  [minX |-> IF q \in {0, 2} THEN CenterX(r) - HalfX(r) ELSE CenterX(r),
   maxX |-> IF q \in {0, 2} THEN CenterX(r) ELSE CenterX(r) + HalfX(r),
   minY |-> IF q \in {2, 3} THEN CenterY(r) - HalfY(r) ELSE CenterY(r),
   maxY |-> IF q \in {2, 3} THEN CenterY(r) ELSE CenterY(r) + HalfY(r)]

HasChildren(n) == Append(n, 0) \in DOMAIN tree

(* Wrong on purpose: a test that leaves out shapes that only touch.          *)
QuartersEntered(n, c) ==
  {q \in Quarter : LET r == tree[Append(n, q)].Boundary IN
                   /\ r.maxX > shape[c].minX /\ r.minX < shape[c].maxX
                   /\ r.maxY > shape[c].minY /\ r.minY < shape[c].maxY}

QuartersMet(n, c) ==
  {q \in Quarter : Meet(tree[Append(n, q)].Boundary, shape[c])}

(* Math::Pow of QuadNode::BoundaryDivisionCount.                             *)
Pow[power \in Nat] == IF power = 0 THEN 1 ELSE 4 * Pow[power - 1]

(* QuadCount: the nodes Init allocates, those of a full tree.                *)
NodesUpTo[depth \in Nat] ==
  IF depth = 0 THEN Pow[0] ELSE NodesUpTo[depth - 1] + Pow[depth]
QuadCount == NodesUpTo[MaxDepth]

RootOnly(boundary) ==
  [n \in {Root} |-> [Boundary |-> boundary, Colliders |-> {}]]
NoBoundary == [minX |-> 0, minY |-> 0, maxX |-> 0, maxY |-> 0]

Init ==
  /\ tree = RootOnly(NoBoundary)
  /\ nodeIndex = 1
  /\ shape = <<>>
  /\ pending = {}
  /\ possiblePairs = {}
  /\ filling = FALSE
-----------------------------------------------------------------------------

(* Wrong on purpose: the pairs of the step before are kept.                  *)
ClearNodes(boundary) ==
  /\ ~filling
  /\ tree' = RootOnly(boundary)
  /\ nodeIndex' = 1
  /\ shape' = <<>>
  /\ filling' = TRUE
  /\ UNCHANGED <<pending, possiblePairs>>

(* Clear and SetRootNodeBoundary.                                            *)
Clear(boundary) ==
  /\ ~filling
  /\ tree' = RootOnly(boundary)
  /\ nodeIndex' = 1
  /\ shape' = <<>>
  /\ possiblePairs' = {}
  /\ filling' = TRUE
  /\ UNCHANGED pending

(* Deinit, and the Init of the next game.                                    *)
Deinit ==
  /\ ~filling
  /\ tree' = RootOnly(NoBoundary)
  /\ nodeIndex' = 1
  /\ shape' = <<>>
  /\ possiblePairs' = {}
  /\ UNCHANGED <<pending, filling>>

Insert(c, rectangle) ==
  /\ filling
  /\ pending = {}
  /\ c \notin DOMAIN shape
  /\ shape' = [d \in DOMAIN shape \cup {c} |->
                 IF d = c THEN rectangle ELSE shape[d]]
  /\ pending' = {Call(Root, c)}
  /\ UNCHANGED <<tree, nodeIndex, possiblePairs, filling>>

(* Wrong on purpose: the leaves of the last level divide, too.               *)
OverflowsAtAnyDepth(n, c) ==
  Cardinality(tree[n].Colliders \cup {c}) > MaxColliderNbr

Overflows(n, c) ==
  /\ Cardinality(tree[n].Colliders \cup {c}) > MaxColliderNbr
  /\ Len(n) # MaxDepth

InsertInLeaf(n, c) ==
  /\ Call(n, c) \in pending
  /\ ~HasChildren(n)
  /\ ~Overflows(n, c)
  /\ tree' = [tree EXCEPT ![n].Colliders = @ \cup {c}]
  /\ pending' = pending \ {Call(n, c)}
  /\ UNCHANGED <<nodeIndex, shape, possiblePairs, filling>>

Children(n) == {Append(n, q) : q \in Quarter}

(* Wrong on purpose: the node's own list is not cleared.                     *)
DividedUncleared(n, c) ==
  [m \in DOMAIN tree \cup Children(n) |->
     IF m \in DOMAIN tree THEN tree[m]
     ELSE [Boundary |-> QuarterOf(tree[n].Boundary, m[Len(m)]),
           Colliders |-> {}]]

Divided(n, c) ==
  [m \in DOMAIN tree \cup Children(n) |->
     IF m = n THEN [Boundary |-> tree[n].Boundary, Colliders |-> {}]
     ELSE IF m \in DOMAIN tree THEN tree[m]
     ELSE [Boundary |-> QuarterOf(tree[n].Boundary, m[Len(m)]),
           Colliders |-> {}]]

Subdivide(n, c) ==
  /\ Call(n, c) \in pending
  /\ ~HasChildren(n)
  /\ Overflows(n, c)
  /\ tree' = Divided(n, c)
  /\ nodeIndex' = nodeIndex + 4
  /\ pending' = (pending \ {Call(n, c)})
                  \cup {Call(n, d) : d \in tree[n].Colliders \cup {c}}
  /\ UNCHANGED <<shape, possiblePairs, filling>>

InsertInQuarter(n, c, q) ==
  /\ Call(n, c) \in pending
  /\ HasChildren(n)
  /\ QuartersMet(n, c) = {q}
  /\ pending' = (pending \ {Call(n, c)}) \cup {Call(Append(n, q), c)}
  /\ UNCHANGED <<tree, nodeIndex, shape, possiblePairs, filling>>

(* A shape on an inner border, or past the rim, stays with the node.         *)
InsertAcrossQuarters(n, c) ==
  /\ Call(n, c) \in pending
  /\ HasChildren(n)
  /\ \A q \in Quarter : QuartersMet(n, c) # {q}
  /\ tree' = [tree EXCEPT ![n].Colliders = @ \cup {c}]
  /\ pending' = pending \ {Call(n, c)}
  /\ UNCHANGED <<nodeIndex, shape, possiblePairs, filling>>

(* calculateNodePossiblePairs compares the colliders of a node with each     *)
(* other and with those of all nodes below it.                               *)
Compared(a, b) ==
  /\ a # b
  /\ Meet(shape[a], shape[b])
  /\ \E m, n \in DOMAIN tree : /\ a \in tree[m].Colliders
                               /\ b \in tree[n].Colliders
                               /\ IsPrefix(m, n)

CalculatePossiblePairs ==
  /\ filling
  /\ pending = {}
  /\ possiblePairs' = {pair \in SUBSET DOMAIN shape :
                         \E a, b \in pair : pair = {a, b} /\ Compared(a, b)}
  /\ filling' = FALSE
  /\ UNCHANGED <<tree, nodeIndex, shape, pending>>

InsertInNode(n, c) ==
  \/ InsertInLeaf(n, c)
  \/ Subdivide(n, c)
  \/ \E q \in Quarter : InsertInQuarter(n, c, q)
  \/ InsertAcrossQuarters(n, c)

Next ==
  \/ \E r \in Rectangles : Clear(r)
  \/ \E c \in Collider, r \in Rectangles : Insert(c, r)
  \/ \E n \in DOMAIN tree, c \in DOMAIN shape : InsertInNode(n, c)
  \/ CalculatePossiblePairs
  \/ Deinit

Spec == Init /\ [][Next]_vars
-----------------------------------------------------------------------------

(* The nodes are named by their paths, and what they hold and what is still  *)
(* to be inserted are colliders of this step.                                *)
TypeOK ==
  /\ DOMAIN tree \subseteq Seq(Quarter)
  /\ Root \in DOMAIN tree
  /\ \A n \in DOMAIN tree : /\ IsRectangle(tree[n].Boundary)
                            /\ tree[n].Colliders \subseteq DOMAIN shape
  /\ nodeIndex \in Nat
  /\ DOMAIN shape \subseteq Collider
  /\ \A c \in DOMAIN shape : shape[c] \in Rectangles
  /\ \A call \in pending : /\ call.node \in DOMAIN tree
                           /\ call.col \in DOMAIN shape
  /\ \A pair \in possiblePairs : pair \subseteq DOMAIN shape
  /\ filling \in BOOLEAN

(* QuadTree.cpp takes the next four of the nodes Init allocated without a    *)
(* look at how many are left: the limit of the depth must be enough.         *)
NodesSuffice == nodeIndex <= QuadCount

(* A collider is at one place: what insertInNode is called with it for, or   *)
(* the list of one node, so that no pair is looked at twice.                 *)
Places(c) == {n \in DOMAIN tree : c \in tree[n].Colliders}
Calls(c) == {call \in pending : call.col = c}
StoredOnce ==
  \A c \in DOMAIN shape : Cardinality(Places(c)) + Cardinality(Calls(c)) = 1

(* The broad phase loses no contact: whenever two colliders of the step      *)
(* touch, the pair is compared, though the tree compares a collider only     *)
(* with those on its own branch and the boundary of the root spans no more   *)
(* than the centres of the bodies.                                           *)
NoPairMissed ==
  ~filling =>
    \A a, b \in DOMAIN shape :
      a # b /\ Meet(shape[a], shape[b]) => {a, b} \in possiblePairs
=============================================================================
