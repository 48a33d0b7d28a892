SPECIFICATION FairSpec
CONSTANTS
  MaxSpawns = 1
  MaxConcurrent = 1
  HardTurnCap = 3
  MaxCalls = 2
  InboxCap = 2
INVARIANTS
  TypeOK
  StopsAtNextGate
PROPERTIES
  SentIsRead
  EveryWorkerEnds
  KeepsContract
CHECK_DEADLOCK FALSE
