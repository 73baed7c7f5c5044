SPECIFICATION Spec
CONSTANTS
  Collider = {c1, c2, c3, c4, c5}
  Rectangles <- MCRectangles
  MaxColliderNbr = 1
  MaxDepth = 2
SYMMETRY MCSymmetry
INVARIANT TypeOK
INVARIANT NodesSuffice
INVARIANT StoredOnce
INVARIANT NoPairMissed
