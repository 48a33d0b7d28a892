SPECIFICATION MCSpec
CONSTANTS
  Workers = {1, 2}
  Shells = {3}
  InboxSize = 1
  ChanSize = 2
  MaxSteps = 1
  MaxStalls = 2
  MaxMsgs = 3
  MaxStirs = 2
  InboxCap = 2
  MaxTurns = 2
  MaxKeys = 2
  SidebarMax = 1
  MaxRows = 2
  Keyed = {"a"}
  Local = {"l"}
  GoodKeys = {"g"}
  BadKeys = {"b"}
  NoKey = ""
  MaxEdits = 3
  Words = {"a"}
  Files <- MCFiles
  HistoryMax = 2
  MaxEntries = 3
  MaxEvents = 3
  MaxInput = 4
  MaxThoughts = 6
INVARIANTS
  MCTypeOK
  PanesAreTrue
  SaidInOrder
  CutsDoNotMatter
  EntriesAreKept
  NudgedFirst
PROPERTIES
  QueueMoves
  SilenceIsTold
CHECK_DEADLOCK FALSE
