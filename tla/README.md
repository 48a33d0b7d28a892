# ageni in TLA+

ageni is a coding agent for the terminal. A *master* loop talks to a large
language model and delegates work to *sub-agents* (workers), each a goroutine
with a model conversation of its own. They publish events on a bus; the master,
the terminal UI and `find_in_codebase` listen. This directory holds TLA+ models
of the parts where goroutines, queues, time-outs and retries meet, the TLC runs
that check them on small instances, and proofs, checked by TLAPS, of what
holds for instances of every size.

## The system

| Component | State it keeps | Operations | What is hard | What makes it correct |
| --- | --- | --- | --- | --- |
| Manager (`agent/manager.go`) | workers by id, id counter, limit | Spawn, Kill, Pause, Resume, CancelAll, SetNextSubagentID | the master and the UI call it at once; it reads statuses that workers write | the limit bounds what really works; ids are fresh |
| Worker (`agent/subagent.go`) | status, paused flag, cancel function, inbox; locally: history, budget, reminders | Run, Send, Pause, Resume, Cancel | pause and kill at any point of a turn; a deadline; retries within turns | ends exactly once, stops at the next gate, reads its follow-ups, never sends a malformed request, stays within its budgets |
| Master (`agent/master.go`) | history, pending events, paused, turn cancel | Run, handleInboxEvent, takeTurns, trimming, compaction | bursts of events, Esc between them, pause, long histories | every message gets a turn, each ended worker is integrated, requests are well formed |
| Supervisor (`agent/supervisor.go`) | one record per worker | Observe, Tick | time against late events | a silent worker is nudged, then reported |
| Bus, `find_in_codebase` (`agent/bus.go`, `find_tool.go`) | subscribers, sinks | Publish, Subscribe | slow subscribers lose events | who waits for a worker comes to an end; the log has what others act on |
| Shells (`agent/shellsession.go`, `shelltools.go`) | ring buffer, offsets, sentinels; the set of sessions | Open, Exec, WaitForPattern, Close | output races with waits and exits | a reader gets what was written where it looks |
| TUI (`tui/`) | message queue, statuses, rows and popovers, settings, history, texts | submit, keys, events | it infers the state of others from events | the queue moves, what is shown is true, what was typed is kept |
| LLM adapters (`llm/`) | position in the chain, calls under way, parser buffers | Stream | failure half way, pieces cut anywhere | nothing is asked twice, nothing lost or invented |
| File tools (`tools/`) | locks, change log, read cache, todo list | edit, transaction, rewind, claim | concurrent workers, crashes | rewinding restores; all or nothing; ids unique |
| Language server (`lsp/`) | clients, pending requests, versions | Call, GetClient, UpdateFile | deaths, late answers | answers go to who asked |
| Memory (`memory/`) | files and a map | remember, forget | writes outside the lock | what was saved is there after a restart |
| Models, factory, fleet (`models/`, `cmd/ageni/main.go`) | registry, node counters | refresh, choose, stream | refreshes between choices | the choice is the best buy; counters return to zero |
| Prompt and context (`agent/master.go`) | pending events, snapshots, blocks | buildActiveContext, fitPromptBlocks | events that overtake each other, a budget | the end of a worker is told by the turn that takes it in, and gives its todos back; the budget holds but for a notice |
| Session (`session/`) | an append-only log | append, replay, restore | a crash between or within lines | replay fits together, numbers go on |
| Configuration (`config/`, reload) | environment, two files, adapters in force | Load, save, reload | what the last load left in the environment | a reload runs on what the files hold |
| Setup (`cmd/ageni/init.go`) | the `.env` file, the answers given so far | runInit, pickRole, selectModel | what the file held before, a provider used by both roles, a first run that has loaded the old file | what was answered is what the next start runs on |
| Update (`cmd/ageni/update.go`) | the executable, a staging file, temporary files | runUpdate, replaceExecutable | errors and crashes half way, what the last try left | the executable is always a whole one |

Components call each other directly (tools call the manager, the manager starts
workers) and through the bus (workers to master, UI, supervisor, log). The
remaining packages (tool registry, secrets, MCP) are listed in `PROJECT.json`
with the reason why they are not modelled.

## The modules

| Module | Models | EXTENDS / INSTANCE |
| --- | --- | --- |
| `WorkerContract` | abstract: what whoever waits for a worker relies on | - |
| `Subagents` | manager and the lifecycle of its workers | instances `WorkerContract` |
| `SubagentsProofs` | invariants and the refinement, proved | extends `Subagents`, `TLAPS` |
| `Conversation` | message histories: the workers' trimming, the master's trimming and compaction, the OpenAI adapter's repair | community modules only |
| `ConversationProofs` | what these operators do to any history, proved | extends `Conversation`, `TLAPS` |
| `WorkerLoop` | one `Run` of a worker in detail | extends `Conversation`, instances `WorkerContract` |
| `WorkerLoopProofs` | its invariants and the refinement, proved | extends `WorkerLoop`, `ConversationProofs` |
| `MasterLoop` | the master's `Run` and `takeTurns`, the queue `masterIn`, both halves of Esc | extends `Conversation` |
| `MasterLoopProofs` | its invariants, proved | extends `MasterLoop`, `ConversationProofs` |

The runs of these three components name the module itself; their `.cfg` files give the
constants their values.

The other components share no variable with each other, as far as they are
modelled, so each has a module of its own that can be read alone. Three modules put
them side by side for TLC; `Lsp` has a run of its own.

| Module | Models |
| --- | --- |
| `Tui` | the queue of typed messages, the UI's idea of whether the master is busy, both halves of Esc, against the turns that really run |
| `Panes` | the statuses shown for workers against what becomes of them |
| `Sidebar` | rows, tab order, popovers while todos, shells and workers come and go |
| `Settings` | provider list, key verification, form, what is saved |
| `Prompt` | prompt history on disk and in memory, browsing, completion of paths |
| `Transcript` | the texts of the panes: buffers, streamed text, rendering cache |
| `Supervisor` | snapshots, stalls, nudge, escalation |
| `ShellSession` | one bash: ring buffer, pipe, Exec, WaitForPattern, exit |
| `Shells` | the set of shells, opening and closing, their panes |
| `FileEdits` | locks, checkpoints, rewind, transactions, crash and restart |
| `Todo` | every action of the todo tool, its file, crash and reload |
| `Bus` | sinks and subscribers; `find_in_codebase`; a front end that waits for a turn |
| `Lsp` | manager and client of a language server, which may die |
| `Memory` | memories in two directories and in the registry; the block for a prompt |
| `ReadCache` | the cache of `read_file` and its notes |
| `Chain` | the fallback chain under the watchdog |
| `LlamaDSL`, `ThinkStripper` | two parsers of streamed text, over every way to cut it |
| `Wire` | the conversion of histories and of streamed calls, per adapter |
| `SessionLog` | the log, a torn line, replay to the master's history |
| `Restore` | workers, shells and counters of a resumed session |
| `Models` | the registry, a refresh in its steps, the choice for a tier |
| `Routing` | complexity of an objective, factory, fleet, pool |
| `SystemPrompt` | the fitting of the prompt blocks |
| `MasterContext` | what a turn is told of workers and a resumed session, and which todo items it gives back |
| `Config` | environment, files, roles, saving, reload |
| `Setup` | the wizard prompt by prompt, what it writes over an older file, and the starts that load it |
| `Update` | look-up, download, checksum, extraction, staging and renaming, with a crash at any step |
| `MCUi`, `MCTools`, `MCRequests` | the modules above, side by side, for TLC |
| `UiProofs`, `ToolsProofs`, `RequestsProofs` | the invariants of all components of `MCUi`, of `MCTools` and of `MCRequests`, proved |
| `LspProofs` | the invariants of `Lsp`, proved |

### Subagents

Variables are the fields of `Manager` and `Subagent`: `nextID`, `subs`,
`status`, `paused`, `inbox` (its length), and `ctx`, the context whose cancel
function `Run` stores when it starts (`none` before). `pc`, `turn`, `calls` and
`verdict` say where a worker stands in `Run`. `job` says which workers a `Kill`
or `CancelAll` under way has yet to cancel. `ended` and `overrun` are history
variables.

A step is what one goroutine does between two points at which another could be
scheduled. `Kill` is three: it begins, `Cancel` takes the worker's lock,
`MarkCancelled` takes it again. A worker stores its status (`Finish`) and
publishes its terminal event (`Announce`) in two. The scan of the statuses in
`Spawn` and `CancelAll` is one step: each status is read under its own lock, but
a worker's own change commutes with the reads of the others.

### Conversation

Of a message only the role, the number of tool calls and the user message it
carries are kept: that is what trimming, compaction, reminders and the provider
look at. Tool results follow their calls in order, so that counting them stands
for comparing their ids. `Trimmed`, `MasterTrimmed`, `Compacted` and `Repaired`
are the four algorithms, and `Picked` what a removal leaves; `CallsAnswered` and `ResultsHaveCalls` are what a
provider asks of a history. Only the OpenAI adapter repairs; the others send the
history as it is.

### WorkerLoop

Tools come in three sorts (inspect, edit,
test) with the outcomes the reminder logic tells apart. `pc` walks through the
head of the loop, the request with its retries (`ask`, `wait`), the tools, and
the end. `sent`, `read` and `streams` are history variables.

A model that calls only the tools it is offered is assumed; `BudgetHolds` rests
on it. Whether the last request was too big is chosen freely.

### MasterLoop

`inbox` is the channel `masterIn`, `history` is `Master.messages`, `pending` the
ends of workers in `pendingEvs`, `context` those the active context of this
`takeTurns` tells of, `turnCtx` the context behind `turnCancel` ("none" while
that is nil). `tries` holds the three retry counters. `pc` says where `Run`
stands: in its select (`idle`), in the drain loop, about to call `takeTurns`
(`begin`), and inside it. `esc` is true between the two halves of the Esc key,
which another goroutine can separate: the contexts are cancelled, then
`EvCancelAll` is sent. Sends on `masterIn` drop what does not fit, as in the code.

Of the events workers publish, their end asks for a turn and is tracked; all
others are one progress event. The supervisor's choice of a stalled worker is
left open: a tick may start a turn while any worker runs. `fate` and `halved`
are history variables; `fate` follows each message and each worker end from
being taken in until a request that tells it is answered, or until it is given
up for a reason in the code: Esc, a failed or cancelled turn, the turn limit, a
pause, a trimming that cuts it away.

### The other components

Each module begins with what it models, what stands for what, and what it leaves
out; variables are named after the fields and locals they stand for, and a comment
says so where the name differs. Some choices matter for what the runs show:

* `FileEdits`, `Todo`, `Prompt`, `SessionLog` and `Restore` may die at any step and
  start again from what is on disk. Each tool call of `FileEdits` writes a content
  of its own, so that a lost or a foreign write shows. `was` is a history variable:
  the disk when a step number was last given out. A write may fail once its
  checkpoint is made, in a call that changes one file as in a transaction.
* `ShellSession` writes tokens, of which the sentinel takes two, so that the reader of
  the pipe can cut it. `log` is everything bash has written.
* In `Lsp` the server answers in any order, asks by itself with numbers that
  collide with the client's, and may die. A caller is a run under one context.
* `Supervisor` has no clock: a worker falls silent (`TimePasses`), or does
  something. Shells are in it because their ids begin with an `s` too.
* `LlamaDSL` and `ThinkStripper` feed a second parser with the same text in one
  piece and compare. The characters are those the parsers tell apart.
* `Wire` starts from any history that interrupted turns can leave.
* `Models` takes the seven calls of a refresh apart, as the registry's lock is
  released between them. Scores and prices are small integers. A model's list of
  providers is kept as the place of each provider in it. A listing covers a provider
  when it names a model of it, known or not.
* In `MasterContext` anyone may claim an item for any worker, as the tool does not look at
  the worker: one that has ended, or was never spawned, may come to own one. Owners are
  kept over updates, items are removed and added again, and a resumed session finds
  items in any state. History variables: `told`, how a worker's end was told;
  `reclaimed`, the items put in progress for a worker after its end was told;
  `overtaken`, the workers of which a pause or resume was published behind the end.
* `SystemPrompt` computes with the lengths of the real tags and notices; the bodies
  and the fixed blocks are chosen so that the rounding goes both ways.
* `Setup` starts with every file that sets up to two variables, so that the wizard finds
  keys, models and addresses of other providers in it.
* `Update` keeps names and files apart: a name leads to a file, and a file that is
  being written may lose its name. One process updates at a time in the run.
* `Config` starts with every environment, exported and in the project's file, that
  the program can be started in.

### MCUi, MCTools, MCRequests

`MCUi` extends `Supervisor` and `MCTools` extends `Bus`, so that the properties of these
two have their own names there; all other components are instances.
A behaviour is one of one component, which the variable `which` names; the
others stay in a state they begin in. Nothing is shared, so nothing is lost: the
states checked are exactly those of the components, one after the other. The
modules give each component its constants and rename its variables where two
components use one name. The constants stay constants, whose values are in the `.cfg`
files, so that what is proved of these modules is proved for all of them; the larger
values of TLC's instances are definitions `MC...` in the modules. A property is the
conjunction of properties of components that answer one question, such as "is what was
saved there after a restart?"; liveness is asked of the component that runs, under its own fairness.

## The runs

All runs say `CHECK_DEADLOCK FALSE`: when every worker has ended and the bound
on spawns, calls or messages is used up, the system does stop.

| Run | Bounds | What it shows |
| --- | --- | --- |
| `slots` | 2 ids, limit 1, one turn, one call | `SlotBound`: workers nobody has ended never outnumber the limit. Two ids suffice for one worker to end, another to take its slot, and the first to come back |
| `worker` | 1 id, 3 turns, 2 calls, inbox 2 | `StopsAtNextGate`, `SentIsRead`, `EveryWorkerEnds`, `KeepsContract`, `TypeOK`: three turns let a worker be paused in each position of a turn, resumed and stopped |
| `kill` | 1 id | expected violation of `CancelledIsEnding` |
| `loop` | budget 2, 1 retry, 2 idle retries, 1 reminder of each kind, 1 turn kept, 2 calls per answer, 2 follow-ups | `RequestWellFormed`, `BudgetHolds`, `FollowUpsInOrder`, `Terminates`, `KeepsContract`, `TypeOK`: four turns, so that the history is trimmed more than once and every reminder fires; two follow-ups, so that one can overtake the other |
| `master` | 1 worker, 2 messages, 1 stir (a tick, pause, Esc or progress event), queue of 2, 2 turns, 1 trim, 1 idle retry, 1 exchange kept | `RequestComplete`, `RequestHasNoOrphans`, `NothingForgotten`, `TakeTurnsEnds`, `Attended`, `TypeOK`: two messages and a worker end make bursts, a queue that overflows, and histories long enough to be trimmed and compacted |
| `quiet` | as `master` | expected violation of `CancelledStayQuiet` |
| `trim` | as `master`, 3 turns, 2 trims | expected violation of `TrimmingTrims` |
| `ui` | `Tui` 3 messages, 2 stirs, queue of 2, 2 turns; `Panes` 2 workers, 2 keys; `Sidebar` 1 row per section shown, 2 rows; `Settings` 3 edits; `Prompt` history of 2, 3 entries; `Transcript` 3 events; `LlamaDSL` 4 characters, `ThinkStripper` 6; `Supervisor` 2 workers and a shell, 2 stalls | `PanesAreTrue`, `SaidInOrder`, `CutsDoNotMatter`, `EntriesAreKept`, `NudgedFirst`, `QueueMoves`, `SilenceIsTold`, `MCTypeOK`: overflow, overtaking and a second try each happen within these, and a call or a tag can be cut in each of its places |
| `tools` | `ShellSession` 2 callers, 2 Execs, ring of 3, chunks of 3; `Shells` 3 shells, one of them from before; `FileEdits` 2 workers, 2 files, 2 calls, 1 crash; `Todo` 2 workers, 4 calls, 1 crash; `Bus` channel of 1, 2 events; `Memory` 2 callers, 2 calls, 1 foreign write; `ReadCache` 2 readers, 3 reads; `Update` 2 releases, 3 updates | `ToldIsTrue`, `FilesComeBack`, `NotesSurvive`, `LoggedFirst`, `WaitsEnd`, `MCTypeOK`: two callers make every race of two, the output of one caller's command overwrites what the other still waits for and laps the ring, a sentinel is cut, a step number is given out twice, an update starts over what a dead one left |
| `lsp` | 2 callers, 2 calls each, 1 server, 1 request of its own | `AnswersAreOwn`: with two calls, the answer to one that was given up can come during the next |
| `requests` | `Chain` 2 entries of 2 models and 1 live; `Wire` 3 calls of 2 pieces, 4 turns; `SessionLog` 5 lines, 2 crashes; `Restore` 3 lines, 2 runs; `Models` 2 models, 1 refresh; `Routing` 2 workers, 2 nodes; `SystemPrompt` budget 8000; `MasterContext` 1 worker, 1 item, 1 event before the end, 3 kept; `Config` 1 save; `Setup` 1 wizard over up to 2 variables, a provider of each kind | `TriesEachOnce`, `RequestIsWhole`, `LogIsReplayed`, `ChoiceIsFair`, `TurnIsTold`, `ReloadReadsFiles`, `TypeOK`: the pieces of three calls overlap in each way, a session is resumed twice, prices change between two choices |
| `user` | 5 lines, 1 crash | expected violation of `UserIsRemembered` |

The capacities and limits of the code (256 events, 3 trims, 2 and 3 retries, 3
exchanges, a ring of 512 KiB) are larger, but they enter the code only by comparison
with counters that start at zero, and each limit is reached in some run. A stream
that is interrupted and one that is silent are retried alike, with a counter and a
limit each; the runs give the first the limit 0 and exercise the second.

## Where code and words disagree

The expected violations are of these:

* `kill`: a kill that comes between Spawn and the first lines of Run cancels nothing.
* `quiet`: the end of a worker that Esc has cancelled usually comes after the master
  has handled `EvCancelAll`, and starts a turn.
* `trim`: the second trimming of one turn trims nothing: it cuts in front of the
  message that the first one kept behind its notice.
* `user`: the session log has no user message, so a resumed master knows none.

Other claims are stated as definitions next to the properties that do hold, with a
comment that quotes the claim, and are described under "findings" in
`PROJECT.json` without a run of their own. To see one fail, name it in a
configuration of its module with the constants of its run:
`Subagents!ConcurrencyCap`, `WorkerLoop!CapOnlyInWrapUp`, `Tui!DequeuedWhenIdle`,
`Sidebar!HiddenTodosAreOffered`, `Settings!ListOpensAsSaved`,
`Transcript!LiveIsTheAnswer`, `ShellSession!ExitCodeReported`,
`FileEdits!RollbackIsPrivate`, `Lsp!ClientIsActive`, `Lsp!DecodesTheResponse`,
`Memory!SavedIsInPrompts`, `Memory!ForgottenIsGone`, `ReadCache!NotesAreKnown`,
`Chain!HangsEnd`, `Restore!OnlyWorkersAreRestored`,
`SystemPrompt!PromptRespectsBudget`, `MasterContext!ReleasedInTheEnd`,
`MasterContext!NoEndIsMissed`, `Config!ReloadRereadsAll`,
`Config!RealEnvironmentWins`, `Setup!GivenKeyIsUsed`,
`Update!ReplacesAtomically` (with two updaters). Temporal ones need `FairSpec`.

Some properties that hold make an exception for what the code does not do, and so
speak of a hazard only in part:

* `QueueMoves` excepts turns that nobody reports; then the queue waits.
* `RewindRestores` excepts the new name of a moved file, which Rewind leaves in place,
  and files that another's rollback went over.
* `NotesSurvive` speaks of a memory that was remembered while no other call was at work on
  its key. A crash within a save of the todo list loses the list, which is then what a
  restart is held to find.
* `PanesAreTrue` and `EndIsTold` (in `TurnIsTold`) except what a late pause or resume
  covers: published behind the worker's end, it stands in the supervisor's state for good,
  and when there was no result to report the turn is told nothing (`NoEndIsMissed`).
  `EndIsTold` accepts ends that Esc discarded.
* `EndedHoldNothing` (in `TurnIsTold`) excepts items put in progress for a worker after its
  end was told, and ends that Esc discarded: nothing gives back what those workers held
  (`ReleasedInTheEnd`).
* `ChoiceIsFair` speaks of the registry between refreshes, not between two steps of one:
  there, prices and returns may differ, which `ModelsInv` of its proof says exactly.
* `ReloadReadsFiles` speaks of the end of a reload, not of the swaps one by one within it.
* `AnswersAreOwn` is about whose an answer is, not about who is asked: a server that died
  stays in the map and is asked on (`ClientIsActive`).

### Fairness

`Subagents`: weak fairness of each worker's goroutine, of its deadline timer,
and of a kill that has begun. The Go scheduler runs goroutines that can run;
LLM streams end because of the idle watchdog and the turn time-out; tools
return because they honour the context or their own time-outs. Nothing is
assumed of the master, the user, or of when they pause, resume and kill.
`EveryWorkerEnds` holds for a worker paused for ever because the deadline ends
its context and the watcher goroutine in `waitIfPaused` wakes it.

`WorkerLoop`: weak fairness of `Run` as a whole, without any deadline:
`Terminates` shows that the caps alone end a worker.

`MasterLoop`: weak fairness of the master's goroutine, without its ticker and
without anything the user or the workers do. The drain loop of `Run` has no limit
of its own; that it ends rests on the bound on progress events, which the
workers' budgets justify (`BudgetHolds`).

`MCUi` and `MCTools` state, in `MCFairness`, weak fairness of goroutines and timers only:
the UI's loop and the master's (`Tui`), the observer, the ticker and the passing of
time (`Supervisor`), the goroutines of a shell and its callers (`ShellSession`), each
tool call (`FileEdits`), the search and its time-out (`Bus`). Users, workers that
publish, and providers owe nothing. `MasterContext!FairSpec`, for `ReleasedInTheEnd`, lets the
master go on taking turns, so that it is not for want of a turn that an item stays in
progress.

## Proofs

Eight modules hold theorems. Each proves the invariance of an inductive invariant,
one per component, and draws the checked properties from it. No proof uses fairness,
which safety does not need. A theorem
holds for every value of the constants that the assumption of its module allows:
`ConstantsAssumption` in `Subagents`, `WorkerLoop` and `MasterLoop`, `LspConstants` in
`Lsp`, `SupervisorConstants` with `MCUiConstants`, `BusConstants` with
`MCToolsConstants`, and `MCRequestsConstants`, which are the assumptions of the
components. They ask for types of numbers, for ids that cannot be mixed up (the models of
the registry are a finite map by id), and for capacities and limits that are not zero
where the code's are not.

| Theorem | States | of run |
| --- | --- | --- |
| `SubagentsProofs!TypeCorrect`, `GateHolds`, `SlotsBounded`, `ContractKept` | `TypeOK`, `StopsAtNextGate`, `SlotBound`, `KeepsContract` | `worker`, `slots` |
| `ConversationProofs!RepairWorks` | about every history: `CallsAnswered(Repaired(h))`, and no new orphan | - |
| `WorkerLoopProofs!TypeCorrect`, `BudgetKept`, `RequestsAccepted`, `ContractKept` | `TypeOK`, `BudgetHolds`, `RequestWellFormed`, `KeepsContract` | `loop` |
| `WorkerLoopProofs!FollowUpsKept` | `FollowUpsInOrder` | `loop` |
| `MasterLoopProofs!TypeCorrect`, `RequestsComplete`, `RequestsHaveNoOrphans`, `NothingIsForgotten` | `TypeOK`, `RequestComplete`, `RequestHasNoOrphans`, `NothingForgotten` | `master` |
| `UiProofs!UiTypeCorrect`, `ScreenIsTrue`, `OrderIsKept`, `CutsAlike`, `WhatWasEnteredIsUsed`, `StallsAreNudgedFirst` | `MCTypeOK`, `PanesAreTrue`, `SaidInOrder`, `CutsDoNotMatter`, `EntriesAreKept`, `NudgedFirst` | `ui` |
| `ToolsProofs!ToolsTypeCorrect`, `ToolsTellTruth`, `FilesAreRestored`, `NotesAreKept`, `ActedIsLogged` | `MCTypeOK`, `ToldIsTrue`, `FilesComeBack`, `NotesSurvive`, `LoggedFirst` | `tools` |
| `RequestsProofs!RequestsTypeCorrect`, `EachOnce`, `RequestWhole`, `LogReplayed`, `FairChoice`, `TurnTold`, `FilesAreRead` | `TypeOK`, `TriesEachOnce`, `RequestIsWhole`, `LogIsReplayed`, `ChoiceIsFair`, `TurnIsTold`, `ReloadReadsFiles` | `requests` |
| `LspProofs!TypeCorrect`, `OwnAnswers` | `TypeOK`, `AnswersAreOwn` | `lsp`; its run leaves the types to the proof |

### Subagents

`IInv` adds four parts to the types. `LoopInv`: a worker
inside the loop has turns left, and calls left while it runs one. `OverrunInv`:
a worker that is not told to stop has no overrun, and one that has used its one
step stands before the next gate. `ActiveInv`: a registered worker that nobody
has ended is running or paused, which is why the spawn guard counts it.
`StartInv`: a worker whose `Run` has not begun has no context. `InitIInv`,
`ManagerIInv`, `ClientIInv` and `WorkerIInv` show that it is inductive;
`SlotStep` and `StepMapped` are the step lemmas of the slot bound and of the
refinement.

### Conversation

The properties of a history count: so many results behind so many calls. `AnsweredIff`
and `OrphansIff` say the same of single indices, and from there each way a history
changes has its lemma: `AppendMessage`, `AppendResult`, `AppendUsers`, `CutHistory`,
`CutBehindNote`. An index of a shortened history is `Nth` of a set of indices, a
`CHOOSE` over cardinalities; `NthUnique` and `NthEnumerates` show that it enumerates
any finite set in its order, by removing the greatest element again and again: they
argue about a least counterexample, because a proof by induction is out of reach.
`RepairWorks` says that buildParams' repair leaves every call answered, whatever
history it is given. It rests on `NthConsecutive`: the results of a call that is
complete stay next to it when other messages are taken out.

### WorkerLoop

`LoopInv`, `RetryInv` and `BudgetInv` bind the turn counter, the two retry counts with
the streams started, and the calls used with the calls of the answer that are still to
run, to where the loop stands. `RequestWellFormed` says only what is asked; to keep
it, `HistoryInv` follows the history through the tools too, where the last answer's
calls are open one less with each result. It also fixes the first message, because a
trimmed history begins with it.

`FollowUpInv` is what `FollowUpsInOrder` needs: the follow-ups read, those in the
history behind the last answer and those in the inbox are numbered through. Its step
lemma needs to know what draining, reminding, answering and trimming do to the
follow-ups of a history (`UnreadAfterDrain`, `UnreadAfterNote`, `UnreadAfterAnswer`,
`UnreadAfterTrim`). Trimming loses none because it cuts in front of an assistant
message and so keeps everything behind the last one; a cut behind the message would
still pass here, and is caught by `RequestWellFormed`.

`ContractKept` maps each step of the loop to a step of `WorkerContract` or to none.

### MasterLoop

`RequestComplete` follows from `RepairWorks` and the types alone: the master's history
is full of calls that Esc has left open, and no invariant of it is needed, or
true. `RequestHasNoOrphans` does need one (`OrphanInv`): compaction and trimming cut in
front of a user message, and a result is appended only behind its call. A halved
history is the exception that `halved` records. For `NothingForgotten`, `WaitingInv`
adds when `pending` and `context` must be empty, as each is cleared somewhere:
`pending` when a turn begins and is told all of it, `context` when takeTurns returns
and everything in it has been answered or given up; and that the history is compacted
only right behind an answer, when nothing in it waits.

### MCUi

A theorem about `MCUi` is one about each of its components, with the component's own
inductive invariant; `UiProofs` takes them one after the other, and `AllInvariant` puts
them together. `ToolsProofs` and `RequestsProofs` are laid out alike.

*Supervisor.* `NudgedFirst` is about a flag that is set when the master is told to
replace a worker. `StallsAreTold` explains it: a snapshot that counts a stall, or is
marked stalled, is of a worker that the master was told of since its last progress.
`ShellsUnwatched` shows that a shell never comes into a state the tick looks at,
so that the first silent id in the order of ids (`LeastIsOne`: there is one) is a
worker's.

*Tui.* `TuiInv` puts what was read, what waits in `masterIn` and what waits in the UI's
queue in one line: every number of an earlier place is smaller than every one of a
later place, and each place is sorted. A message may go past the queue only when the
queue is empty, and an Esc that empties the queue puts nothing back.

*Panes.* `EndIsShown` speaks of a channel that has run empty. `PanesInv` says what must be
on its way until then: of a worker that has said its end, the last event in the channel
that could change its pane is that end, or there is none and the pane shows it.

*Sidebar.* `SelectionIsTrue` says of a popover that its mark is an entry of its list.
A popover is rebuilt with each event from what is behind its "more" row. `SidebarInv` adds
that there still is something behind it, because workers and shells do not go away, so that
the mark can be put on an entry.

*Settings* and *Prompt.* The form kept behind the list is of the providers enabled;
the entries in memory are the last `HistoryMax` of the file, which is what a restart
reads and what the trimming rewrite keeps, so that it makes no difference at which write
the process dies.

*Transcript.* A pane's buffer and the answer still being rendered hold the numbers said to
it in their order; each number given out is in a pane, among the thoughts, or was dropped on
purpose (the text of a turn that ends without it).

*LlamaDSL.* `LlamaInv` compares the parser of the chunks with the one that reads the
answer in one piece. Both have found the same tools and are inside the same call, and
text shown followed by text held back is the same in both, so that what the end of a chunk
shows early is what the other shows later. `Flush` then empties both.

*ThinkStripper.* The reference looks at the whole answer: where its tags are, and what is
left without them. `ThinkInv` relates it to the filter for every continuation: whatever
text may still come, reading the answer from its first character comes by the place where
the filter stands, with the text shown so far and at most two characters held back that
may begin a tag. `StretchRead` and `TagRead` move that place forward. What is shown is
never taken back, because what is held back is all that a continuation can change.

### MCTools

*Bus.* Publish holds no lock while it serves. `LogIsNext`: a publication that still has
somebody to serve has the log before it or behind it; with `SinkFirst`, who
subscribes finds the logger in place, and so `ChannelsAreLogged`.

*FileEdits.* `FilesInv` says of each call (`Sound`) what it holds: a path that a call has
locked has the content the call saw, until the call writes; what it is about to change is in the
checkpoint of its step; and a file that a transaction has gone past has the new content
and a change in the list since the transaction's first step, so that its rollback finds
all of it. Step numbers of calls in flight differ. All of it excepts files that
another's rollback went over (`fileEditsForeign`), as the property does.

*Todo* and *Memory.* `TodoInv`: the file has what was last shown, and so has memory
while nothing went wrong. `MemoryInv`: a key that was said to be kept has nobody at work
on it and one fact, in the map and in the directory where a restart looks first.

*Update.* What is moved onto the executable is a copy of a file whose checksum was
compared; no error path between the two leads back to the move.

*ShellSession* and *Shells.* `SessionInv` says of each cell of the ring which position of
the output it holds, so that a window of the ring is a window of the log however often
it was lapped. A waiter that sleeps has passed over no sentinel: the step back of one
sentinel's length after each scan is what keeps that true when the reader of the
pipe has cut one. `ShellsInv` follows the opening and the end of a shell through
the channel of events to its pane.

*ReadCache.* What the cache has for a request, by its number, is what that request was
answered with, whatever was written since.

### MCRequests

*Setup.* `SetupInv` follows the wizard from prompt to prompt: what it has been told so far
is complete up to the prompt it is at, and the file it has written resolves to that, with
the keys and addresses of the older file cleared.

*Chain.* `ChainInv`: the models an entry was asked for are those the walk has passed in its
list, and no list names a model twice, whether or not the live list has been fetched.

*Models.* `ModelsInv` says in which steps of a refresh the returns that the registry holds
may differ from those of its prices: between the pricing and the thinking pricing, and
never when it rests. `RankInv` says that the ranking has every model once. `OrderIsListed`
shows that a finite set with a strict total order can be listed at all (the place of an
element is the number of elements below it), without which the `CHOOSE` of `Ranking`
would stand for nothing.

*Routing.* `RoutingInv`: a node counts one for every call under way that was counted and
one for every forwarder that still holds its count; a cancelled call has one or the other.

*SystemPrompt* and *MasterContext.* `PromptInv`: what was written and what is left of the
budget add up at every block, to within the rounding of tokens. `ContextInv`: from the end
of a worker until a turn takes it in or Esc discards it, that end is among the events
kept, and no other; the supervisor's state is one of an end too, unless a pause or a resume
came behind it. What a worker whose end was told still holds in progress is in
`reclaimed`, which `TodoStep` follows through every use of the todo tool (`NotesStep`) and
`TurnStep` through the turns that give items back.

*Config.* `ConfigInv`: at each step of a reload what is in force so far is what the
configuration being put in force says.

*Wire.* The repair of a request goes over its messages from the last to the first;
`CutOnce` says what it does to one of them, and `AllChecked` that behind the position it has
come to every call is answered and the user has lost no message. `WireInv`: every answer
belongs to the assistant's message before it, no message on the wire lacks one, and each
call of a streaming answer is open or handed on. The proof found that the model could give
a call the number of an earlier one for an adapter that TLC's instance does not use; the
number is now above all that the history and the answer know.

*SessionLog.* `SessionInv`: while no line was lost, a reader of the log as it stands answers
every call at most once and owes a result to each call that the master still runs, and
every number of the history is one that was given out. What the reader makes of one more
line is a lemma per sort of line (`TextPaired`, `CallPaired`, `DonePaired`); a line cut
short by a crash is read as none.

*Restore.* `RestoreInv`: whoever is live or has an event waiting is of this run and has no
word of an earlier one in the log; whoever was restored is of an earlier run, and has the
end that the log has last.

### Lsp

`AnswersAreOwn` needs the whole way of an answer. Numbers are given out once
(`NumberInv`), and `PendingInv`, `AnswerInv`, `HeldInv` and `ChannelInv` say of the table
of pending calls, of what the server owes or has written, of what the reader holds
and of a caller's channel that a number found there which a caller waits for is the
number of its last request. The server's own requests, which bear numbers from the
same range, are no exception to it: they cannot be decoded, and end a call with an
error (`DecodesTheResponse` says what that contradicts).

### What is only model-checked

Liveness (`SentIsRead`, `EveryWorkerEnds`, `Terminates`, `TakeTurnsEnds`,
`Attended`, `QueueMoves`, `SilenceIsTold`, `WaitsEnd`) is out of the prover's reach: it
rests on fairness. Every safety property of a passing run is stated by a theorem. The
library's induction theorems take an operator, which no installed prover can instantiate;
where a proof needs induction over a history, a log or a text, it is done by a least
counterexample, with a set as the parameter (`UpTo`, called `OneByOne` in `UiProofs`), and
a recursive function is replaced by a sequence of its values that `Recursion` shows to
exist. The counterexamples of the runs that expect a violation are TLC's, too.

## Not modelled

The text of prompts, transcripts and events; layout, styles and the mouse; HTTP; the
parsing of roles, skills and leaderboards; the sanitiser and the redaction of
secrets; the shutdown of the whole process (the root context); in the master, the
collaboration mode (lead, critic, soundboard); the commands doctor, eval and skills;
the MCP client, which wraps an external library.

## Plan

Every component that is modelled has its inductive invariant proved. What would be worth
having next:

1. The collaboration mode of the master (lead, critic, soundboard) as a module of its own,
   composed with `MasterLoop`.
2. `Subagents` and `MasterLoop` composed, so that the end of a worker is one step of both.

Recursion is by functions or folds; there are no recursive operators.
