----------------------------- MODULE MCTools ------------------------------
(***************************************************************************)
(* What the tools of the master and of its workers keep, side by side for  *)
(* TLC: the output of one shell, the set of shells, file edits and their   *)
(* checkpoints, the todo list, the event bus and find_in_codebase, the     *)
(* memories, the cache of read_file and the update of the program itself.  *)
(* The components share no variable, so a behaviour is one of one of them, *)
(* chosen at the start; the others stay as they begin.  The bus is         *)
(* extended, so that its properties have their own names here; the others  *)
(* are instantiated.                                                       *)
(***************************************************************************)
EXTENDS Bus

CONSTANTS
  Workers,                                       (* who calls tools concurrently *)
  RingBufSize, ChunkSize, MaxExecs,              (* of ShellSession              *)
  Clients, Prior, MaxShells, MaxOutputs,         (* of Shells                    *)
  Paths, FileKinds, MaxOps, MaxCrashes,          (* of FileEdits                 *)
  MaxTodos, MaxTodoCalls,                        (* of Todo                      *)
  Names, Words, Facts, MaxMemories, MaxMemoryCalls, MaxForeign,   (* of Memory   *)
  Lines, MaxReads,                               (* of ReadCache                 *)
  Releases, MaxRuns                              (* of Update                    *)

\* The keys and the facts of TLC's instance.
MCNames == <<"k1", "k2">>
MCFacts == {[desc |-> {"w"}, body |-> {"k1"}], [desc |-> {"k1", "w"}, body |-> {"k1"}]}

VARIABLES
  which,   (* the component that this behaviour is one of *)
  shellSessionStatus, buf, head, total, stdin, last, alive, pipe, chunk,
  shellSessionCall, execs, shellSessionLog, truth,
  shellsNextID, shells, shellsStatus, waits, opening, killing, shellsChan,
  shown, panes, outputs, early,
  disk, lock, nextStep, fileEditsItems, baseline, checkpoint, op, ops,
  fileEditsCrashes, was, fileEditsForeign,
  todoItems, todoNextID, loaded, todoFile, resumed, ended, todoCalls,
  todoCrashes, seen, clean,
  files, project, writeAt, memoryItems, memoryCall, memoryCalls,
  memoryForeign, said, memoryGone,
  readCacheFile, readCacheCall, writing, entries, nextSeq, reads, answered,
  context, notes,
  content, target, staged, sums, latest, at, release, archive, binary,
  handle, before, runs

ShellSession == INSTANCE ShellSession WITH
  Callers <- Workers, status <- shellSessionStatus, call <- shellSessionCall,
  log <- shellSessionLog
Shells == INSTANCE Shells WITH
  nextID <- shellsNextID, status <- shellsStatus, chan <- shellsChan
FileEdits == INSTANCE FileEdits WITH
  Kinds <- FileKinds, items <- fileEditsItems, crashes <- fileEditsCrashes,
  foreign <- fileEditsForeign
Todo == INSTANCE Todo WITH
  MaxItems <- MaxTodos, MaxCalls <- MaxTodoCalls, items <- todoItems,
  nextID <- todoNextID, file <- todoFile, calls <- todoCalls, crashes <- todoCrashes
Memory == INSTANCE Memory WITH
  Callers <- Workers, MaxItems <- MaxMemories, MaxCalls <- MaxMemoryCalls,
  items <- memoryItems, call <- memoryCall, calls <- memoryCalls,
  foreign <- memoryForeign, gone <- memoryGone
ReadCache == INSTANCE ReadCache WITH
  Readers <- Workers, file <- readCacheFile, call <- readCacheCall
\* One update runs at a time.
Update == INSTANCE Update WITH Updaters <- {"updater"}

\* What the components ask of their constants.
ASSUME MCToolsConstants ==
  /\ ShellSession!ShellSessionConstants /\ Shells!ShellsConstants /\ FileEdits!FileEditsConstants
  /\ Todo!TodoConstants /\ Memory!MemoryConstants
  /\ ReadCache!ReadCacheConstants /\ Update!UpdateConstants

shellSessionVars == <<shellSessionStatus, buf, head, total, stdin, last, alive, pipe,
  chunk, shellSessionCall, execs, shellSessionLog, truth>>
shellsVars == <<shellsNextID, shells, shellsStatus, waits, opening, killing,
  shellsChan, shown, panes, outputs, early>>
fileEditsVars == <<disk, lock, nextStep, fileEditsItems, baseline, checkpoint, op,
  ops, fileEditsCrashes, was, fileEditsForeign>>
todoVars == <<todoItems, todoNextID, loaded, todoFile, resumed, ended, todoCalls,
  todoCrashes, seen, clean>>
memoryVars == <<files, project, writeAt, memoryItems, memoryCall, memoryCalls,
  memoryForeign, said, memoryGone>>
readCacheVars == <<readCacheFile, readCacheCall, writing, entries, nextSeq, reads,
  answered, context, notes>>
updateVars == <<content, target, staged, sums, latest, at, release, archive, binary,
  handle, before, runs>>
MCVars == <<which, shellSessionVars, shellsVars, fileEditsVars, todoVars, vars,
  memoryVars, readCacheVars, updateVars>>

MCInit ==
  /\ which \in {"shellSession", "shells", "fileEdits", "todo", "bus",
                "memory", "readCache", "update"}
  /\ ShellSession!Init
  /\ Shells!Init
  /\ FileEdits!Init /\ (which # "fileEdits" => \A p \in Paths : disk[p] = MaxOps + 1)
  /\ Todo!Init
  /\ Init /\ (which # "bus" => search = "idle")
  /\ Memory!Init /\ (which # "memory" => project)
  /\ ReadCache!Init /\ (which # "readCache" => Len(readCacheFile) = 1)
  /\ Update!Init /\ (which # "update" => sums = {})

\* Only the chosen component moves.
MCNext ==
  /\ UNCHANGED which
  /\ IF which = "shellSession" THEN ShellSession!Next ELSE UNCHANGED shellSessionVars
  /\ IF which = "shells" THEN Shells!Next ELSE UNCHANGED shellsVars
  /\ IF which = "fileEdits" THEN FileEdits!Next ELSE UNCHANGED fileEditsVars
  /\ IF which = "todo" THEN Todo!Next ELSE UNCHANGED todoVars
  /\ IF which = "bus" THEN Next ELSE UNCHANGED vars
  /\ IF which = "memory" THEN Memory!Next ELSE UNCHANGED memoryVars
  /\ IF which = "readCache" THEN ReadCache!Next ELSE UNCHANGED readCacheVars
  /\ IF which = "update" THEN Update!Next ELSE UNCHANGED updateVars

\* Each component with the fairness of its own FairSpec.
MCFairness ==
  /\ WF_shellSessionVars(which = "shellSession" /\ ShellSession!Goroutines)
  /\ \A w \in Workers : WF_shellSessionVars(which = "shellSession" /\ ShellSession!Caller(w))
  /\ \A w \in Workers : WF_fileEditsVars(which = "fileEdits" /\ FileEdits!Tool(w))
  /\ WF_vars(which = "bus" /\ Search)
  /\ WF_vars(which = "bus" /\ SearchTimesOut)

MCSpec == MCInit /\ [][MCNext]_MCVars /\ MCFairness

--------------------------------------------------------------------------
MCTypeOK ==
  /\ ShellSession!TypeOK /\ Shells!TypeOK /\ FileEdits!TypeOK /\ Todo!TypeOK
  /\ TypeOK /\ Memory!TypeOK /\ ReadCache!TypeOK
  /\ Update!TypeOK

\* What a tool tells is true: a reader of a shell gets from any offset what bash wrote
\* there, a sleeper has passed over no sentinel, a shell that ended is not shown as open,
\* no id is given out twice (shellsession.go, shells.go, app.go); and what read_file says
\* of an earlier answer is true of the file as it was read, although the file may change
\* in between (tools/files.go).
ToldIsTrue ==
  /\ ShellSession!ReadsWhatWasWritten /\ ShellSession!SleeperMissesNothing
  /\ Shells!EndedIsShown /\ Shells!IdsAreFresh
  /\ ReadCache!NotesAreTrue

\* Nobody waits for ever: a shell's waiters wake, calls that lock several files
\* come to their end, and a search ends although its event may be lost.
WaitsEnd ==
  /\ which = "shellSession" => ShellSession!WaitersWake
  /\ which = "fileEdits" => FileEdits!CallsEnd
  /\ which = "bus" => SearchEnds

\* Files come back: rewinding restores what every file was, through concurrent
\* calls, failures and crashes, a transaction changes all files or none, and an
\* update leaves the program that was there or the whole new one.
FilesComeBack ==
  FileEdits!RewindRestores /\ FileEdits!AllOrNothing /\ Update!ExecutableIsWhole

\* What a caller was told is noted is what a restart finds: the todo list, with
\* no id twice, and the memories.
NotesSurvive == Todo!IdsUnique /\ Todo!ShownSurvives /\ Memory!SavedSurvives
==============================================================================
