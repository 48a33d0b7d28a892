SPECIFICATION Spec
CONSTANTS
  MaxLines = 5
  MaxIds = 1
  MaxCrashes = 1
  MaxUser = 1
  KeepUser = 3
INVARIANTS
  UserIsRemembered
CHECK_DEADLOCK FALSE
