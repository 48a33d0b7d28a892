SPECIFICATION Spec
CONSTANTS
  Keyed = {"cloud"}
  Local = {"local"}
  ModelNames = {"m1", "m2"}
  Default <- MCDefault
  Keys = {"k1", "k2"}
  URLs = {"u"}
  Settings = 2
  MaxWizards = 1
  Entries = 2
  Configured = 2
  Live = 1
  Api = "openai"
  Pieces = 2
  MaxCalls = 3
  MaxTurns = 4
  MaxLines = 5
  MaxIds = 2
  MaxCrashes = 2
  MaxUser = 2
  KeepUser = 3
  MaxWorkers = 1
  MaxShells = 2
  MaxLogged = 3
  MaxRuns = 2
  Known = {"a", "b"}
  SeedOf <- MCSeeds
  Pool = {"direct", "openrouter"}
  LiveScores = {6}
  LivePrices = {0, 3}
  MaxRefreshes = 1
  Workers = {"w1", "w2"}
  Nodes = {"n1", "n2"}
  FleetMode = "subset"
  PoolSize = 2
  Roles <- MCRoles
  Objectives <- MCObjectives
  MaxStreams = 2
  Budget = 8000
  Fixed = {24000, 29000, 31800, 33000}
  Tags <- MCTags
  Names <- MCNames
  Bodies = {0, 300, 2000, 20000}
  Reporters = {"w1"}
  Items = {"i1"}
  MaxEvents = 3
  MaxPending = 4
  GlobalKeys = {"k1"}
  MaxSaves = 1
INVARIANTS
  TypeOK
  TriesEachOnce
  RequestIsWhole
  LogIsReplayed
  ChoiceIsFair
  TurnIsTold
  ReloadReadsFiles
CHECK_DEADLOCK FALSE
