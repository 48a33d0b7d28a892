CONSTANTS
  Callers = {"w1", "w2"}
  MaxServers = 1
  MaxCalls = 2
  MaxAsks = 1
  Crashes = TRUE
SPECIFICATION Spec
INVARIANT AnswersAreOwn
CHECK_DEADLOCK FALSE
