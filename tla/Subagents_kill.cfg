SPECIFICATION Spec
CONSTANTS
  MaxSpawns = 1
  MaxConcurrent = 1
  HardTurnCap = 1
  MaxCalls = 1
  InboxCap = 1
INVARIANT
  CancelledIsEnding
CHECK_DEADLOCK FALSE
