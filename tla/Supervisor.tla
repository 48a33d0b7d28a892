----------------------------- MODULE Supervisor -----------------------------
(***************************************************************************)
(* How the master watches its workers: the supervisor's snapshots          *)
(* (internal/agent/supervisor.go), fed by the events the workers publish,  *)
(* and the tick of master.go that nudges a silent worker and escalates     *)
(* one that stays silent.  Time is only whether stalledAfter has passed    *)
(* since a worker's last progress; a tick comes when the gap since the     *)
(* last monitoring turn is over.                                           *)
(***************************************************************************)
EXTENDS Naturals, Sequences, FiniteSets, FiniteSetsExt

CONSTANTS
  Workers,     (* ids of workers, as numbers in the order of SortIDs        *)
  Shells,      (* ids of shells; their names begin with an s as well        *)
  InboxSize,   (* capacity of a worker's inbox                              *)
  ChanSize,    (* capacity of the way to the master                        *)
  MaxSteps,    (* bound of the model: steps of each worker                  *)
  MaxStalls    (* bound of the model: StallCount stops there                *)

ASSUME SupervisorConstants ==
  /\ IsFiniteSet(Workers) /\ Workers \subseteq Nat /\ Shells \cap Workers = {}
  /\ {InboxSize, ChanSize, MaxSteps} \subseteq Nat /\ MaxStalls \in Nat \ {0, 1}

VARIABLES
  snap,        (* SupervisorState.workers: state, StallCount; "absent" if none *)
  silent,      (* stalledAfter has passed since LastProgress                *)
  truth,       (* status of the worker itself                               *)
  inbox,       (* messages in the worker's inbox                            *)
  steps,       (* history: steps of the worker so far                       *)
  chan,        (* events under way to the master                            *)
  told,        (* history: what the master did about the silence of each    *)
               (* worker since its last progress                            *)
  escalated    (* history: the last escalation followed a nudge, or a nudge *)
               (* that did not fit                                          *)

vars == <<snap, silent, truth, inbox, steps, chan, told, escalated>>

Ids == Workers \cup Shells
Watched == {"running", "thinking", "waiting_on_tool"}

Init ==
  /\ snap = [i \in Ids |-> [state |-> "absent", stalls |-> 0]]
  /\ silent = [i \in Ids |-> FALSE]
  /\ truth = [w \in Workers |-> "unborn"] /\ inbox = [w \in Workers |-> 0]
  /\ steps = [w \in Workers |-> 0] /\ chan = <<>>
  /\ told = [w \in Workers |-> "none"] /\ escalated = TRUE

\* What does not fit into the master's inbox is dropped.
Says(i, kind) ==
  chan' = IF Len(chan) < ChanSize THEN Append(chan, [id |-> i, kind |-> kind]) ELSE chan

-----------------------------------------------------------------------------
(* The workers, and what they publish. *)

Spawn(w) ==
  /\ truth[w] = "unborn"
  /\ truth' = [truth EXCEPT ![w] = "running"]
  /\ Says(w, "spawn")
  /\ UNCHANGED <<snap, silent, inbox, steps, told, escalated>>

\* A worker that runs does something the bus hears of (usage and retries count like
\* the end of a tool); a tool under way ends even though the worker has been paused.
Works(w) ==
  /\ truth[w] \in {"running", "paused"} /\ steps[w] < MaxSteps
  /\ steps' = [steps EXCEPT ![w] = @ + 1]
  /\ \E kind \in {"turn_start", "tool_call", "tool_done"} :
       /\ truth[w] = "paused" => kind = "tool_done"
       /\ Says(w, kind)
  /\ UNCHANGED <<snap, silent, truth, inbox, told, escalated>>

\* drainInbox.
DrainInbox(w) ==
  /\ truth[w] = "running" /\ inbox[w] > 0 /\ steps[w] < MaxSteps
  /\ inbox' = [inbox EXCEPT ![w] = @ - 1]
  /\ steps' = [steps EXCEPT ![w] = @ + 1]
  /\ Says(w, "inbox")
  /\ UNCHANGED <<snap, silent, truth, told, escalated>>

Becomes(w, status, kind) ==
  /\ truth' = [truth EXCEPT ![w] = status]
  /\ Says(w, kind)
  /\ UNCHANGED <<snap, silent, inbox, told, escalated>>

Ends(w) ==
  /\ truth[w] \in {"running", "paused"}
  /\ Becomes(w, "done", "done") \/ Becomes(w, "error", "error")
  /\ UNCHANGED steps

PauseOrResume(w) ==
  /\ steps[w] < MaxSteps
  /\ steps' = [steps EXCEPT ![w] = @ + 1]
  /\ \/ truth[w] = "running" /\ Becomes(w, "paused", "paused")
     \/ truth[w] = "paused" /\ Becomes(w, "running", "resumed")

ShellEvent(sh) ==
  /\ snap[sh].state = "absent" /\ \A n \in DOMAIN chan : chan[n].id # sh
  /\ Says(sh, "shell_opened")
  /\ UNCHANGED <<snap, silent, truth, inbox, steps, told, escalated>>

\* Two minutes pass since the last progress.
TimePasses(w) ==
  /\ snap[w].state # "absent" /\ ~silent[w]
  /\ silent' = [silent EXCEPT ![w] = TRUE]
  /\ UNCHANGED <<snap, truth, inbox, steps, chan, told, escalated>>

-----------------------------------------------------------------------------
(* Observe. *)

Progress(kind) == kind \notin {"paused", "error", "shell_opened"}

StateAfter(old, kind) ==
  CASE kind = "turn_start" -> "thinking"
    [] kind = "tool_call" -> "waiting_on_tool"
    [] kind \in {"spawn", "usage", "inbox", "tool_done", "retry", "resumed"} -> "running"
    [] kind = "paused" -> "paused"
    [] kind = "done" -> "done_unintegrated"
    [] kind = "error" -> "error_terminal"
    [] OTHER -> IF old = "absent" THEN "unknown" ELSE old

\* Mutant of Observed: progress does not start the count of stalls again.
ObservedCounting(s, kind) == [s EXCEPT !.state = StateAfter(@, kind)]

Observed(s, kind) ==
  [state |-> StateAfter(s.state, kind), stalls |-> IF Progress(kind) THEN 0 ELSE s.stalls]

\* The master takes an event out of its inbox.
Observe ==
  /\ chan # <<>>
  /\ LET e == Head(chan) IN
       /\ snap' = [snap EXCEPT ![e.id] = Observed(@, e.kind)]
       /\ silent' = [silent EXCEPT ![e.id] = @ /\ ~Progress(e.kind) /\ snap[e.id].state # "absent"]
       /\ told' = IF e.id \in Workers /\ Progress(e.kind)
                    THEN [told EXCEPT ![e.id] = "none"] ELSE told
  /\ chan' = Tail(chan)
  /\ UNCHANGED <<truth, inbox, steps, escalated>>

-----------------------------------------------------------------------------
(* The tick. *)

\* Mutant of Silent: a worker that has been nudged is not looked at again.
SilentOnce == {i \in Ids : silent[i] /\ snap[i].state \in Watched}

Silent == {i \in Ids : silent[i] /\ snap[i].state \in Watched \cup {"stalled"}}

\* TickAt takes the first silent worker in the order of ids.
Stalled == Min(Silent)

\* Send takes a message unless the worker has failed or its inbox is full; a worker
\* that is done takes it as well.
CanSend(w) == truth[w] # "error" /\ inbox[w] < InboxSize

Count(n) == IF n < MaxStalls THEN n + 1 ELSE n

Stall(w) == snap' = [snap EXCEPT ![w].state = "stalled", ![w].stalls = Count(@)]

TickEnabled == Silent # {} /\ \E w \in Workers : truth[w] = "running"

\* The first stall since the last progress is answered by a nudge.
FirstStall(w) == snap[w].state # "stalled" /\ snap[w].stalls = 0

TickNudges ==
  /\ TickEnabled
  /\ LET w == Stalled IN
       /\ FirstStall(w) /\ CanSend(w)
       /\ Stall(w)
       /\ inbox' = [inbox EXCEPT ![w] = @ + 1]
       /\ told' = [told EXCEPT ![w] = IF @ = "none" THEN "nudged" ELSE @]
  /\ UNCHANGED <<silent, truth, steps, chan, escalated>>

\* Any later stall, or a nudge that cannot be delivered, starts a turn of the
\* master, which is told to replace the worker.
TickEscalates ==
  /\ TickEnabled
  /\ LET w == Stalled IN
       /\ ~(FirstStall(w) /\ CanSend(w))
       /\ Stall(w)
       /\ escalated' = (told[w] # "none" \/ ~CanSend(w))
       /\ told' = [told EXCEPT ![w] = "escalated"]
  /\ UNCHANGED <<silent, truth, inbox, steps, chan>>

Next ==
  \/ \E w \in Workers : Spawn(w) \/ Works(w) \/ DrainInbox(w) \/ Ends(w) \/ PauseOrResume(w)
                          \/ TimePasses(w)
  \/ \E sh \in Shells : ShellEvent(sh)
  \/ Observe
  \/ TickNudges
  \/ TickEscalates

Spec == Init /\ [][Next]_vars

\* Ticks keep coming, events keep being taken and time keeps passing; a worker need
\* not do anything.
FairSpec ==
  /\ Spec
  /\ WF_vars(Observe) /\ WF_vars(TickNudges \/ TickEscalates)
  /\ \A w \in Workers : WF_vars(TimePasses(w))

-----------------------------------------------------------------------------
(* Properties. *)

TypeOK ==
  /\ \A i \in Ids : /\ snap[i].stalls \in 0..MaxStalls
                    /\ snap[i].state \in Watched \cup {"absent", "unknown", "stalled", "paused",
                                                       "done_unintegrated", "error_terminal"}
  /\ silent \in [Ids -> BOOLEAN] /\ inbox \in [Workers -> 0..InboxSize]
  /\ told \in [Workers -> {"none", "nudged", "escalated"}]

\* The master is told to replace a worker only after the worker has been nudged
\* since its last progress and did nothing, or could not be nudged; what it did
\* before, however often it stalled then, does not count against it.
NudgedFirst == escalated

\* Silence is not passed over: as long as some worker runs, either a stalled worker
\* is escalated or every worker that is silent makes progress or ends.
SilenceIsTold ==
  (\E w \in Workers : truth[w] = "running" /\ silent[w])
    ~> \/ \E w \in Workers : told[w] = "escalated"
       \/ \A w \in Workers : ~silent[w] \/ truth[w] # "running"
=============================================================================
