SPECIFICATION Spec
CONSTANTS
  Workers = {w1}
  MaxMsgs = 2
  MaxStirs = 1
  InboxCap = 2
  MaxTurns = 2
  MaxTrims = 1
  MaxIdleRetries = 1
  MaxTransient = 0
  KeepExchanges = 1
  MaxCalls = 1
INVARIANTS
  CancelledStayQuiet
CHECK_DEADLOCK FALSE
