SPECIFICATION MCSpec
CONSTANTS
  Cap = 1
  MaxEvents = 2
  MaxPrompts = 2
  Workers = {"w1", "w2"}
  RingBufSize = 3
  ChunkSize = 3
  MaxExecs = 2
  Clients = {"c1"}
  Prior = 1
  MaxShells = 3
  MaxOutputs = 1
  Paths = {1, 2}
  FileKinds = {"write", "edit", "multiEdit", "diff", "delete", "move", "transaction"}
  MaxOps = 2
  MaxCrashes = 1
  MaxTodos = 2
  MaxTodoCalls = 4
  Names <- MCNames
  Words = {"k1", "k2", "w"}
  Facts <- MCFacts
  MaxMemories = 1
  MaxMemoryCalls = 2
  MaxForeign = 1
  Lines = {"a"}
  MaxReads = 3
  Releases = 2
  MaxRuns = 3
INVARIANTS
  MCTypeOK
  ToldIsTrue
  FilesComeBack
  NotesSurvive
  LoggedFirst
PROPERTIES
  WaitsEnd
CHECK_DEADLOCK FALSE
