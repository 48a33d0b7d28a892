------------------------------ MODULE Restore -------------------------------
(***************************************************************************)
(* What a resumed session makes of the workers and shells of the one       *)
(* before: the events they published are in the session log                *)
(* (internal/session/log.go), the supervisor replays those of the workers, *)
(* LoadShellSnapshots those of the shells (session/runtime.go), and the    *)
(* counters of both managers are moved behind every number in the log.     *)
(* The process may die at any moment.  On resume the master runs before    *)
(* the logger hears the bus (cmd/ageni/main.go).                           *)
(***************************************************************************)
EXTENDS Naturals, Sequences, FiniteSets, FiniteSetsExt

CONSTANTS
  MaxWorkers, MaxShells,  (* bounds of the model: those of the session      *)
  MaxLines,  (* bound of the model: lines of the log                        *)
  MaxRuns    (* bound of the model: runs of the process                     *)

RestoreConstants == {MaxWorkers, MaxShells, MaxLines, MaxRuns} \subseteq Nat \ {0}

VARIABLES
  log,       (* the lines: who, what, and in which run it was published     *)
  phase,     (* of the process: down, starting (no sink yet), up            *)
  run,       (* history: number of the run                                  *)
  next,      (* Manager.nextID and ShellManager.nextID                      *)
  live,      (* status of each worker and shell of this run                 *)
  saying,    (* events about to be published                                *)
  restored   (* the statuses LoadWorkerHistory and LoadShellHistory show    *)

vars == <<log, phase, run, next, live, saying, restored>>

Types == {"s", "sh"}
Most == [s |-> MaxWorkers, sh |-> MaxShells]
Ids == UNION {[type : {t}, nr : 1..Most[t]] : t \in Types}
WorkerIds == {i \in Ids : i.type = "s"}
Nothing == [i \in Ids |-> "none"]
WorkerKinds == {"spawn", "tool_call", "tool_done", "paused", "resumed", "done", "error"}
ShellKinds == {"shell_opened", "shell_closed", "shell_exited"}

Init ==
  /\ log = <<>> /\ phase = "up" /\ run = 1
  /\ next = [t \in Types |-> 0]
  /\ live = Nothing /\ saying = {} /\ restored = Nothing

\* WriteEvent: what is published before AddSink is in no log.
Published(i, kind) ==
  log' = IF phase = "up" THEN Append(log, [id |-> i, kind |-> kind, run |-> run]) ELSE log

Running == phase # "down" /\ Len(log) < MaxLines

-----------------------------------------------------------------------------
(* Workers and shells. *)

\* Manager.Spawn, and the first half of ShellManager.Open.
New(t) ==
  /\ Running /\ next[t] < Most[t]
  /\ next' = [next EXCEPT ![t] = @ + 1]
  /\ LET i == [type |-> t, nr |-> next'[t]] IN
       /\ live' = [live EXCEPT ![i] = IF t = "s" THEN "new" ELSE "open"]
       /\ saying' = IF t = "s" THEN saying ELSE saying \cup {[id |-> i, kind |-> "shell_opened"]}
  /\ UNCHANGED <<log, phase, run, restored>>

\* The worker's own goroutine: Run announces itself, then its tools and its end.
Begins(w) ==
  /\ Running /\ live[w] = "new" /\ live' = [live EXCEPT ![w] = "running"]
  /\ Published(w, "spawn")
  /\ UNCHANGED <<phase, run, next, saying, restored>>

Works(w) ==
  /\ Running /\ live[w] \in {"running", "paused"}
  /\ \E kind \in {"tool_call", "tool_done"} :
       /\ live[w] = "paused" => kind = "tool_done"
       /\ Published(w, kind)
  /\ UNCHANGED <<phase, run, next, live, saying, restored>>

\* Pause, Resume and the end store the status first and publish after the lock.
Becomes(w, status, kind) ==
  /\ live' = [live EXCEPT ![w] = status]
  /\ saying' = saying \cup {[id |-> w, kind |-> kind]}
  /\ UNCHANGED <<log, phase, run, next, restored>>

Changes(w) ==
  /\ Running
  /\ \/ live[w] \in {"new", "running"} /\ Becomes(w, "paused", "paused")
     \/ live[w] = "paused" /\ Becomes(w, "running", "resumed")
     \/ live[w] \in {"running", "paused"}
        /\ (Becomes(w, "done", "done") \/ Becomes(w, "error", "error"))

\* The bash of a shell ends: by itself, or because close has killed it.
ShellEnds(sh) ==
  /\ Running /\ live[sh] \in {"open", "closed"}
  /\ live' = [live EXCEPT ![sh] = "gone"]
  /\ saying' = saying \cup {[id |-> sh, kind |-> "shell_exited"]}
  /\ UNCHANGED <<log, phase, run, next, restored>>

CloseShell(sh) ==
  /\ Running /\ live[sh] = "open" /\ live' = [live EXCEPT ![sh] = "closed"]
  /\ Published(sh, "shell_closed")
  /\ UNCHANGED <<phase, run, next, saying, restored>>

Publishes(e) ==
  /\ Running /\ e \in saying /\ saying' = saying \ {e}
  /\ Published(e.id, e.kind)
  /\ UNCHANGED <<phase, run, next, live, restored>>

\* The process dies or is left.
Crash ==
  /\ phase # "down" /\ phase' = "down"
  /\ live' = Nothing /\ saying' = {} /\ restored' = Nothing
  /\ UNCHANGED <<log, run, next>>

-----------------------------------------------------------------------------
(* Resuming. *)

\* Where the log speaks of i, and the last thing it says.
Said(i) == {k \in DOMAIN log : log[k].id = i}
LastWord(i) == log[Max(Said(i))].kind
InLog == {log[k].id : k \in DOMAIN log}

\* observeAt, for the replay: "" is the state of a snapshot nobody has set.
StateAfter(state, kind) ==
  CASE kind \in {"spawn", "tool_done", "resumed"} -> "running"
    [] kind = "tool_call" -> "waiting_on_tool"
    [] kind = "paused" -> "paused"
    [] kind = "done" -> "done_unintegrated"
    [] kind = "error" -> "error_terminal"
    [] OTHER -> state

\* LoadSupervisorState.
Replayed(i) ==
  LET state[k \in 0..Len(log)] ==
        IF k = 0 THEN ""
        ELSE IF k \in Said(i) THEN StateAfter(state[k - 1], log[k].kind) ELSE state[k - 1]
  IN  state[Len(log)]

\* mapSupervisorStatus, and what LoadWorkerSnapshots makes of the result: nobody who
\* was at work still is.
SupervisorStatus(state) ==
  CASE state = "done_unintegrated" -> "done"
    [] state \in {"error_terminal", "stalled"} -> "error"
    [] OTHER -> "cancelled"

\* Every id that begins with an s has a snapshot.
Snapshots == InLog

\* The last TickAt: it may find one worker that was at work silent for too long.
Silent == {i \in Snapshots : Replayed(i) \in {"running", "waiting_on_tool"}}

\* LoadShellSnapshots: the last word on the shell; one that is still open is closed.
ShellStatus(sh) ==
  IF LastWord(sh) = "shell_exited" THEN "exited" ELSE "closed"

\* Mutant of LastNumber: as many numbers are taken as there are snapshots.
SnapshotCount(t) == Cardinality({i \in InLog : i.type = t})

LastNumber(t) == Max({i.nr : i \in {j \in InLog : j.type = t}} \cup {0})

\* LoadShellSnapshots, LoadWorkerSnapshots, SetNextShellID, SetNextSubagentID.
Resume ==
  /\ phase = "down" /\ run < MaxRuns /\ log # <<>>
  /\ phase' = "starting" /\ run' = run + 1
  /\ next' = [t \in Types |-> LastNumber(t)]
  /\ \E stalled \in SUBSET Silent :
       /\ Cardinality(stalled) <= 1
       /\ restored' = [i \in Ids |->
            IF i \notin InLog THEN "none"
            ELSE IF i.type = "sh" THEN ShellStatus(i)
            ELSE SupervisorStatus(IF i \in stalled THEN "stalled" ELSE Replayed(i))]
  /\ UNCHANGED <<log, live, saying>>

\* AddSink, after the master has begun to run.
AddSink ==
  /\ phase = "starting" /\ phase' = "up"
  /\ UNCHANGED <<log, run, next, live, saying, restored>>

Next ==
  \/ \E t \in Types : New(t)
  \/ \E i \in Ids : \/ Begins(i) \/ (i.type = "s" /\ Works(i)) \/ (i.type = "s" /\ Changes(i))
                    \/ ShellEnds(i) \/ CloseShell(i)
  \/ \E e \in saying : Publishes(e)
  \/ Crash \/ Resume \/ AddSink

Spec == Init /\ [][Next]_vars

TypeOK ==
  /\ log \in Seq([id : Ids, kind : WorkerKinds \cup ShellKinds, run : 1..MaxRuns])
  /\ phase \in {"down", "starting", "up"} /\ run \in 1..MaxRuns
  /\ next \in [Types -> 0..MaxWorkers + MaxShells]
  /\ live \in [Ids -> {"none", "new", "running", "paused", "done", "error", "open", "closed", "gone"}]
  /\ saying \subseteq [id : Ids, kind : WorkerKinds \cup ShellKinds]
  /\ restored \in [Ids -> {"none", "done", "error", "cancelled", "exited", "closed"}]

-----------------------------------------------------------------------------

\* No name is given out twice: whatever the log says of an id comes from one run of the
\* process, though a run may have published before the log was opened.
NamesAreOfOneRun ==
  \A j, k \in DOMAIN log : log[j].id = log[k].id => log[j].run = log[k].run

\* A worker whose last words are its end is restored with that end.
EndsAreRestored ==
  phase # "down" =>
    \A w \in WorkerIds : restored[w] # "none" =>
      LET before == {k \in Said(w) : log[k].run < run}
          last == log[Max(before)].kind
      IN /\ before # {} /\ (last = "done" <=> restored[w] = "done")
         /\ last = "error" => restored[w] = "error"

\* Restored workers are workers: no shell has a snapshot.  Fails: the ids of shells
\* begin with an s as well (LoadSupervisorState), and the sidebar lists them as
\* workers that are no longer attached.
OnlyWorkersAreRestored == phase = "starting" => Snapshots \subseteq WorkerIds
=============================================================================
