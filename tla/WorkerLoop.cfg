SPECIFICATION FairSpec
CONSTANTS
  MaxToolCalls = 2
  MaxRetries = 1
  MaxIdleRetries = 2
  MaxReminders = 1
  KeepTurns = 1
  MaxCalls = 2
  MaxSent = 2
INVARIANTS
  TypeOK
  RequestWellFormed
  BudgetHolds
  FollowUpsInOrder
PROPERTIES
  Terminates
  KeepsContract
CHECK_DEADLOCK FALSE
