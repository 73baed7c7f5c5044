SPECIFICATION Spec
CONSTANTS
  Colliders <- MCColliders
  Bodies <- MCBodies
  Offsets <- MCOffsets
INVARIANTS TypeOK IntersectFindsOverlap BoxesCoverShapes OrderDoesNotMatter
INVARIANTS ConservationLaws SolverSeparates SlowContactsResolve
CHECK_DEADLOCK FALSE
