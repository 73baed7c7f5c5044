SPECIFICATION Spec
CONSTANTS
  InitialSize = 1
  MaxSize = 4
  MaxBodies = 2
  MaxColliders = 3
  MaxContacts = 2
  MaxDestroyed = 1
  CallsAfterwards = FALSE
INVARIANTS TypeOK ReferencesResolve
PROPERTIES ContactsPairUp ExitAsEntered
CHECK_DEADLOCK FALSE
