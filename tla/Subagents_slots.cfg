SPECIFICATION Spec
CONSTANTS
  MaxSpawns = 2
  MaxConcurrent = 1
  HardTurnCap = 1
  MaxCalls = 1
  InboxCap = 0
INVARIANTS
  SlotBound
CHECK_DEADLOCK FALSE
