------------------------------ MODULE Subagents ------------------------------
(***************************************************************************)
(* Manager (internal/agent/manager.go) and the goroutines it owns          *)
(* (internal/agent/subagent.go): spawning under the concurrency limit,     *)
(* pausing, resuming, killing, the kill-everything key, follow-up messages *)
(* and the way Run ends.                                                   *)
(*                                                                         *)
(* Two goroutines call into the manager: the master loop, whose tools run  *)
(* one after the other, and the terminal UI.  Each worker is a third kind  *)
(* of goroutine.  A step is what one of them does between two points where *)
(* another could be scheduled: Kill is two steps because s.Cancel and      *)
(* s.setStatus take the worker's lock separately, and a worker stores its  *)
(* status and publishes its terminal event in two.                         *)
(*                                                                         *)
(* Spawn and CancelAll read the status of every worker one lock at a time; *)
(* statuses of different workers change independently of each other, so    *)
(* the scan commutes with those changes and is one step here.              *)
(*                                                                         *)
(* What happens inside one LLM turn (retries, reminders, budget) is the    *)
(* subject of WorkerLoop; here a turn fails, answers with text, or asks    *)
(* for tools.                                                              *)
(***************************************************************************)
EXTENDS Integers, FiniteSets

CONSTANTS
  MaxSpawns,      (* bound of the model: ids ever handed out               *)
  MaxConcurrent,  (* Manager.maxConcurrent                                 *)
  HardTurnCap,    (* Subagent.hardTurnCap                                  *)
  MaxCalls,       (* bound of the model: tool calls in one LLM answer      *)
  InboxCap        (* capacity of Subagent.inbox                            *)

ASSUME ConstantsAssumption ==
  /\ MaxSpawns \in Nat \ {0}
  /\ MaxConcurrent \in Nat
  /\ HardTurnCap \in Nat \ {0}
  /\ MaxCalls \in Nat \ {0}
  /\ InboxCap \in Nat

VARIABLES
  nextID,     (* Manager.nextID                                            *)
  subs,       (* the ids in Manager.subs                                   *)
  status,     (* Subagent.status                                           *)
  paused,     (* Subagent.paused                                           *)
  ctx,        (* "none" while s.cancel is nil, else the state of Run's     *)
              (* context; "released" by Run's deferred cancel              *)
  pc,         (* where the worker's goroutine stands in Run                *)
  turn,       (* Run's loop variable                                       *)
  calls,      (* tool calls of the current answer still to execute         *)
  verdict,    (* how Run has decided to end                                *)
  inbox,      (* number of messages in Subagent.inbox                      *)
  job,        (* per client: workers a Kill or CancelAll has yet to cancel *)
  ended,      (* history: workers given a terminal status at least once    *)
  overrun     (* history: steps a worker completed since told to stop      *)

worker == <<pc, turn, calls, verdict>>
vars == <<nextID, subs, status, paused, ctx, pc, turn, calls, verdict, inbox,
          job, ended, overrun>>

Ids == 1..MaxSpawns
NoId == 0
Clients == {"master", "ui"}

Active == {"running", "paused"}
Terminal == {"done", "error", "cancelled"}
Statuses == {"none"} \cup Active \cup Terminal
Places == {"absent", "created", "top", "topWait", "turn", "calls", "callWait",
           "run", "finish", "announce", "exited"}

TypeOK ==
  /\ nextID \in 0..MaxSpawns
  /\ subs \in SUBSET (1..nextID)
  /\ status \in [Ids -> Statuses]
  /\ paused \in [Ids -> BOOLEAN]
  /\ ctx \in [Ids -> {"none", "live", "canceled", "deadline", "released"}]
  /\ pc \in [Ids -> Places]
  /\ turn \in [Ids -> 0..HardTurnCap]
  /\ calls \in [Ids -> 0..MaxCalls]
  /\ verdict \in [Ids -> {"none"} \cup Terminal]
  /\ inbox \in [Ids -> 0..InboxCap]
  /\ job \in [Clients -> [todo : SUBSET Ids, cur : Ids \cup {NoId}]]
  /\ ended \in SUBSET Ids
  /\ overrun \in [Ids -> Nat]

Idle(c) == job[c] = [todo |-> {}, cur |-> NoId]
RunningSubs == {s \in subs : status[s] = "running"}
ActiveSubs == {s \in subs : status[s] \in Active}
Stopped(s) == ctx[s] \in {"canceled", "deadline"}

Init ==
  /\ nextID = 0
  /\ subs = {}
  /\ status = [s \in Ids |-> "none"]
  /\ paused = [s \in Ids |-> FALSE]
  /\ ctx = [s \in Ids |-> "none"]
  /\ pc = [s \in Ids |-> "absent"]
  /\ turn = [s \in Ids |-> 0]
  /\ calls = [s \in Ids |-> 0]
  /\ verdict = [s \in Ids |-> "none"]
  /\ inbox = [s \in Ids |-> 0]
  /\ job = [c \in Clients |-> [todo |-> {}, cur |-> NoId]]
  /\ ended = {}
  /\ overrun = [s \in Ids |-> 0]

-----------------------------------------------------------------------------
(* The manager's operations. *)

\* Resuming a session skips the ids of the replayed history, before the first
\* spawn.
SetNextSubagentID(n) ==
  /\ subs = {}
  /\ n > nextID
  /\ nextID' = n
  /\ UNCHANGED <<subs, status, paused, ctx, worker, inbox, job, ended, overrun>>

\* Mutant of Spawn: the counter is read but not advanced.
SpawnReusingID(hasAdapter) ==
  LET id == nextID + 1 IN
  /\ Idle("master")
  /\ id \in Ids
  /\ Cardinality(ActiveSubs) < MaxConcurrent
  /\ hasAdapter
  /\ subs' = subs \cup {id}
  /\ status' = [status EXCEPT ![id] = "running"]
  /\ pc' = [pc EXCEPT ![id] = "created"]
  /\ UNCHANGED <<nextID, paused, ctx, turn, calls, verdict, inbox, job, ended, overrun>>

\* Spawn as the spawn_subagent tool and find_in_codebase call it.  The id is
\* used up even when the factory has no adapter for the tier.
Spawn(hasAdapter) ==
  LET id == nextID + 1 IN
  /\ Idle("master")
  /\ id \in Ids
  /\ Cardinality(ActiveSubs) < MaxConcurrent
  /\ nextID' = id
  /\ IF hasAdapter
       THEN /\ subs' = subs \cup {id}
            /\ status' = [status EXCEPT ![id] = "running"]
            /\ pc' = [pc EXCEPT ![id] = "created"]
       ELSE UNCHANGED <<subs, status, pc>>
  /\ UNCHANGED <<paused, ctx, turn, calls, verdict, inbox, job, ended, overrun>>

\* send_to_subagent and the supervisor's nudge.  A finished worker is not
\* refused.
Send(s) ==
  /\ Idle("master")
  /\ s \in subs
  /\ status[s] \notin {"error", "cancelled"}
  /\ inbox[s] < InboxCap
  /\ inbox' = [inbox EXCEPT ![s] = @ + 1]
  /\ UNCHANGED <<nextID, subs, status, paused, ctx, worker, job, ended, overrun>>

Pause(c, s) ==
  /\ Idle(c)
  /\ s \in subs
  /\ status[s] \notin Terminal \cup {"paused"}
  /\ paused' = [paused EXCEPT ![s] = TRUE]
  /\ status' = [status EXCEPT ![s] = "paused"]
  /\ UNCHANGED <<nextID, subs, ctx, worker, inbox, job, ended, overrun>>

\* Resume looks at the flag only, never at the status.
Resume(c, s) ==
  /\ Idle(c)
  /\ s \in subs
  /\ paused[s]
  /\ paused' = [paused EXCEPT ![s] = FALSE]
  /\ status' = [status EXCEPT ![s] = "running"]
  /\ overrun' = [overrun EXCEPT ![s] = IF Stopped(s) THEN @ ELSE 0]
  /\ UNCHANGED <<nextID, subs, ctx, worker, inbox, job, ended>>

\* kill_subagent, find_in_codebase giving up, the UI's interrupt key.
Kill(c, s) ==
  /\ Idle(c)
  /\ s \in subs
  /\ job' = [job EXCEPT ![c] = [todo |-> {s}, cur |-> NoId]]
  /\ UNCHANGED <<nextID, subs, status, paused, ctx, worker, inbox, ended, overrun>>

\* Esc: the running workers are collected under the manager's lock.
CancelAll ==
  /\ Idle("ui")
  /\ RunningSubs # {}
  /\ job' = [job EXCEPT !["ui"] = [todo |-> RunningSubs, cur |-> NoId]]
  /\ UNCHANGED <<nextID, subs, status, paused, ctx, worker, inbox, ended, overrun>>

\* s.Cancel(): nothing happens while s.cancel is nil.
Cancel(c, s) ==
  /\ s \in job[c].todo
  /\ job[c].cur = NoId
  /\ job' = [job EXCEPT ![c] = [todo |-> @.todo \ {s}, cur |-> s]]
  /\ ctx' = [ctx EXCEPT ![s] = IF @ = "live" THEN "canceled" ELSE @]
  /\ UNCHANGED <<nextID, subs, status, paused, worker, inbox, ended, overrun>>

\* s.setStatus(StatusCancelled), whatever the status is by now.
MarkCancelled(c) ==
  LET s == job[c].cur IN
  /\ s # NoId
  /\ job' = [job EXCEPT ![c].cur = NoId]
  /\ status' = [status EXCEPT ![s] = "cancelled"]
  /\ ended' = ended \cup {s}
  /\ UNCHANGED <<nextID, subs, paused, ctx, worker, inbox, overrun>>

-----------------------------------------------------------------------------
(* The worker's goroutine. *)

Goto(s, place) == pc' = [pc EXCEPT ![s] = place]

\* A step the worker completes although it has been told to stop.
CountOverrun(s) ==
  overrun' = [overrun EXCEPT ![s] = IF paused[s] \/ Stopped(s) THEN @ + 1 ELSE @]

\* Mutant of ContextVerdict: every ended context counts as a cancellation.
AlwaysCancelled(s) == "cancelled"

\* The verdict of fail(err) for the error of a context that ended.
ContextVerdict(s) == IF ctx[s] = "canceled" THEN "cancelled" ELSE "error"

\* Run has decided how to end; the status is stored by Finish.
EndWith(s, v) ==
  /\ Goto(s, "finish")
  /\ verdict' = [verdict EXCEPT ![s] = v]

\* Run starts: the context exists and can be cancelled from here on.
Begin(s) ==
  /\ pc[s] = "created"
  /\ ctx' = [ctx EXCEPT ![s] = "live"]
  /\ Goto(s, "top")
  /\ UNCHANGED <<nextID, subs, status, paused, turn, calls, verdict, inbox, job,
                 ended, overrun>>

\* maxTotalRuntime passes.
Deadline(s) ==
  /\ ctx[s] = "live"
  /\ ctx' = [ctx EXCEPT ![s] = "deadline"]
  /\ UNCHANGED <<nextID, subs, status, paused, worker, inbox, job, ended, overrun>>

\* Head of the loop: past the turn cap the worker gives up; a paused worker
\* goes to sleep in waitIfPaused.
TopOfLoop(s) ==
  /\ pc[s] = "top"
  /\ \/ /\ turn[s] = HardTurnCap
        /\ EndWith(s, "error")
     \/ /\ turn[s] < HardTurnCap
        /\ paused[s]
        /\ Goto(s, "topWait")
        /\ UNCHANGED verdict
  /\ UNCHANGED <<nextID, subs, status, paused, ctx, turn, calls, inbox, job, ended,
                 overrun>>

\* waitIfPaused lets the worker through, at once (whatever the context) or out
\* of its sleep; then the inbox is drained and the turn begins.
StartTurn(s) ==
  /\ \/ pc[s] = "top" /\ turn[s] < HardTurnCap
     \/ pc[s] = "topWait" /\ ~Stopped(s)
  /\ ~paused[s]
  /\ Goto(s, "turn")
  /\ inbox' = [inbox EXCEPT ![s] = 0]
  /\ UNCHANGED <<nextID, subs, status, paused, ctx, turn, calls, verdict, job, ended,
                 overrun>>

\* Mutant of WakeStopped: no goroutine watches the context of the sleeper.
WakeStoppedUnwatched(s) ==
  /\ pc[s] \in {"topWait", "callWait"}
  /\ Stopped(s)
  /\ ~paused[s]
  /\ EndWith(s, ContextVerdict(s))
  /\ UNCHANGED <<nextID, subs, status, paused, ctx, turn, calls, inbox, job, ended,
                 overrun>>

\* The context of a sleeping worker ends: its error wins over a resume.
WakeStopped(s) ==
  /\ pc[s] \in {"topWait", "callWait"}
  /\ Stopped(s)
  /\ EndWith(s, ContextVerdict(s))
  /\ UNCHANGED <<nextID, subs, status, paused, ctx, turn, calls, inbox, job, ended,
                 overrun>>

\* The context ended, or the provider failed for good: fail(err).  When both
\* happen at once, either error may be the one reported.
TurnFails(s) ==
  /\ pc[s] = "turn"
  /\ \/ EndWith(s, "error")
     \/ Stopped(s) /\ EndWith(s, ContextVerdict(s))
  /\ UNCHANGED <<nextID, subs, status, paused, ctx, turn, calls, inbox, job, ended,
                 overrun>>

\* Mutant of TurnAnswers: the inbox is not looked at before finishing.
TurnAnswersAtOnce(s, reminded) ==
  /\ pc[s] = "turn"
  /\ ~Stopped(s)
  /\ CountOverrun(s)
  /\ IF reminded
       THEN /\ Goto(s, "top")
            /\ turn' = [turn EXCEPT ![s] = @ + 1]
            /\ UNCHANGED verdict
       ELSE /\ EndWith(s, "done")
            /\ UNCHANGED turn
  /\ UNCHANGED <<nextID, subs, status, paused, ctx, calls, inbox, job, ended>>

\* A text-only answer: a reminder or a pending message keeps the loop going,
\* otherwise the worker is done.
TurnAnswers(s, reminded) ==
  /\ pc[s] = "turn"
  /\ ~Stopped(s)
  /\ CountOverrun(s)
  /\ IF reminded \/ inbox[s] > 0
       THEN /\ Goto(s, "top")
            /\ turn' = [turn EXCEPT ![s] = @ + 1]
            /\ inbox' = [inbox EXCEPT ![s] = IF reminded THEN @ ELSE 0]
            /\ UNCHANGED verdict
       ELSE /\ EndWith(s, "done")
            /\ UNCHANGED <<turn, inbox>>
  /\ UNCHANGED <<nextID, subs, status, paused, ctx, calls, job, ended>>

TurnCallsTools(s, n) ==
  /\ pc[s] = "turn"
  /\ ~Stopped(s)
  /\ CountOverrun(s)
  /\ Goto(s, "calls")
  /\ calls' = [calls EXCEPT ![s] = n]
  /\ UNCHANGED <<nextID, subs, status, paused, ctx, turn, verdict, inbox, job, ended>>

\* Mutant of NextCall: the pause gate stands before the turn only.
NextCallUngated(s) ==
  /\ pc[s] = "calls"
  /\ \/ /\ calls[s] = 0 \/ Stopped(s)
        /\ Goto(s, "top")
        /\ turn' = [turn EXCEPT ![s] = @ + 1]
        /\ calls' = [calls EXCEPT ![s] = 0]
     \/ /\ calls[s] > 0 /\ ~Stopped(s)
        /\ Goto(s, "run")
        /\ UNCHANGED <<turn, calls>>
  /\ UNCHANGED <<nextID, subs, status, paused, ctx, verdict, inbox, job, ended, overrun>>

\* Head of the tool loop: left when the calls are used up or the context has
\* ended; the pause gate stands before every tool.
NextCall(s) ==
  /\ pc[s] = "calls"
  /\ \/ /\ calls[s] = 0 \/ Stopped(s)
        /\ Goto(s, "top")
        /\ turn' = [turn EXCEPT ![s] = @ + 1]
        /\ calls' = [calls EXCEPT ![s] = 0]
     \/ /\ calls[s] > 0 /\ ~Stopped(s)
        /\ Goto(s, IF paused[s] THEN "callWait" ELSE "run")
        /\ UNCHANGED <<turn, calls>>
  /\ UNCHANGED <<nextID, subs, status, paused, ctx, verdict, inbox, job, ended, overrun>>

\* A worker asleep before a tool is resumed.
WakeCall(s) ==
  /\ pc[s] = "callWait"
  /\ ~Stopped(s)
  /\ ~paused[s]
  /\ Goto(s, "run")
  /\ UNCHANGED <<nextID, subs, status, paused, ctx, turn, calls, verdict, inbox, job,
                 ended, overrun>>

\* s.tools.Execute returns; the result joins the history.
Execute(s) ==
  /\ pc[s] = "run"
  /\ CountOverrun(s)
  /\ calls' = [calls EXCEPT ![s] = @ - 1]
  /\ Goto(s, "calls")
  /\ UNCHANGED <<nextID, subs, status, paused, ctx, turn, verdict, inbox, job, ended>>

\* The status is stored over whatever Kill, Pause or CancelAll left there.
Finish(s) ==
  /\ pc[s] = "finish"
  /\ status' = [status EXCEPT ![s] = verdict[s]]
  /\ ended' = ended \cup {s}
  /\ Goto(s, "announce")
  /\ UNCHANGED <<nextID, subs, paused, ctx, turn, calls, verdict, inbox, job, overrun>>

\* EvSubagentDone or EvSubagentError is published and Run returns; its
\* deferred cancel ends a context nobody else has ended.
Announce(s) ==
  /\ pc[s] = "announce"
  /\ Goto(s, "exited")
  /\ ctx' = [ctx EXCEPT ![s] = IF @ = "live" THEN "released" ELSE @]
  /\ UNCHANGED <<nextID, subs, status, paused, turn, calls, verdict, inbox, job,
                 ended, overrun>>

-----------------------------------------------------------------------------
ClientStep(c) ==
  \/ \E s \in Ids : Pause(c, s) \/ Resume(c, s) \/ Kill(c, s) \/ Cancel(c, s)
  \/ MarkCancelled(c)

WorkerStep(s) ==
  \/ Begin(s)
  \/ TopOfLoop(s)
  \/ StartTurn(s)
  \/ WakeStopped(s)
  \/ TurnFails(s)
  \/ \E reminded \in BOOLEAN : TurnAnswers(s, reminded)
  \/ \E n \in 1..MaxCalls : TurnCallsTools(s, n)
  \/ NextCall(s)
  \/ WakeCall(s)
  \/ Execute(s)
  \/ Finish(s)
  \/ Announce(s)

Next ==
  \/ \E n \in Ids : SetNextSubagentID(n)
  \/ \E hasAdapter \in BOOLEAN : Spawn(hasAdapter)
  \/ \E s \in Ids : Send(s)
  \/ CancelAll
  \/ \E c \in Clients : ClientStep(c)
  \/ \E s \in Ids : WorkerStep(s) \/ Deadline(s)

Spec == Init /\ [][Next]_vars

(***************************************************************************)
(* A worker's goroutine is scheduled, its LLM streams end (idle watchdog   *)
(* and turn timeout) and its tools return; the deadline timer fires; a     *)
(* Kill that was begun is carried out.  Nobody has to spawn, send, pause,  *)
(* resume or kill.                                                         *)
(***************************************************************************)
Fairness ==
  /\ \A s \in Ids : WF_vars(WorkerStep(s)) /\ WF_vars(Deadline(s))
  /\ \A c \in Clients : WF_vars(MarkCancelled(c) \/ \E s \in Ids : Cancel(c, s))

FairSpec == Spec /\ Fairness

-----------------------------------------------------------------------------
(* Properties. *)

\* The concurrency limit as the spawn guard really enforces it: the workers
\* that nobody has ended yet never outnumber maxConcurrent, whatever is paused,
\* resumed or killed meanwhile.
SlotBound == Cardinality(subs \ ended) <= MaxConcurrent

\* Being told to stop takes effect at the next gate: after a pause or the end
\* of its context, a worker completes at most the one turn or tool that was
\* already past the gate.
StopsAtNextGate == \A s \in Ids : overrun[s] <= 1

\* A follow-up accepted while the worker is still working is read by the model,
\* unless the worker fails or is cancelled first.
SentIsRead ==
  \A s \in Ids :
    (inbox[s] > 0 /\ pc[s] \notin {"finish", "announce", "exited"})
      ~> (inbox[s] = 0 \/ verdict[s] \in {"error", "cancelled"})

\* The lifecycle of each worker implements WorkerContract.
Phase(s) ==
  CASE pc[s] = "absent" -> "absent"
    [] pc[s] \in {"finish", "announce"} -> "decided"
    [] pc[s] = "exited" -> "over"
    [] OTHER -> "live"

StopOf(s) ==
  CASE ctx[s] = "canceled" -> "killed"
    [] ctx[s] = "deadline" -> "expired"
    [] OTHER -> "no"

Contract(s) == INSTANCE WorkerContract
                 WITH phase <- Phase(s), outcome <- verdict[s], stop <- StopOf(s)

\* Every worker keeps its contract: one outcome, decided once, announced once,
\* "done" only when it was not stopped before, "cancelled" only when it was
\* killed.
KeepsContract ==
  /\ \A s \in Ids : Contract(s)!Init
  /\ [][\A s \in Ids : [Contract(s)!Next]_(Contract(s)!vars)]_vars

\* Every worker that was spawned ends and says so, paused or not.
EveryWorkerEnds == \A s \in Ids : Contract(s)!Ends

\* What the manager's limit message says: never more than maxConcurrent workers
\* count as running or paused.
ConcurrencyCap == Cardinality(ActiveSubs) <= MaxConcurrent

\* What kill_subagent says: a worker shown as cancelled is ending.
CancelledIsEnding ==
  \A s \in Ids : status[s] = "cancelled" =>
    Stopped(s) \/ pc[s] \in {"finish", "announce", "exited"}
=============================================================================
