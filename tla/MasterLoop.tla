----------------------------- MODULE MasterLoop -----------------------------
(***************************************************************************)
(* The master's goroutine (internal/agent/master.go): Run with its event   *)
(* queue, takeTurns with its retries, trimming and compaction, pausing,    *)
(* and the two halves of the Esc key.  The queue masterIn is filled by the *)
(* user's side and by the forwarder of worker events; both drop what does  *)
(* not fit.                                                                *)
(*                                                                         *)
(* Of the events that workers publish, the end of a worker asks for a turn *)
(* and all the others ("progress") do not.  Which stalled worker a tick    *)
(* escalates is the supervisor's business.  Active context (active_context *)
(* with its worker deltas) is the set of worker ends it tells of.          *)
(***************************************************************************)
EXTENDS Conversation

CONSTANTS
  Workers,          (* the workers that may be spawned                     *)
  MaxMsgs,          (* bound of the model: user messages                   *)
  MaxStirs,         (* bound of the model: ticks, pauses, resumes, Escs,   *)
                    (* and progress events of workers                      *)
  InboxCap,         (* capacity of masterIn                                *)
  MaxTurns,         (* Master.maxTurns                                     *)
  MaxTrims,         (* maxTrims                                            *)
  MaxIdleRetries,   (* maxIdleRetries of takeTurns                         *)
  MaxTransient,     (* maxTransientRetries                                 *)
  KeepExchanges,    (* compactionKeepExchanges                             *)
  MaxCalls          (* bound of the model: tool calls in one answer        *)

ASSUME ConstantsAssumption ==
  /\ IsFiniteSet(Workers)
  /\ {MaxMsgs, MaxStirs, MaxTrims, MaxIdleRetries, MaxTransient} \subseteq Nat
  /\ {InboxCap, MaxTurns, KeepExchanges, MaxCalls} \subseteq Nat \ {0}

VARIABLES
  pc,        (* where Run stands: "idle", "drain", and inside takeTurns    *)
             (* "begin", "head", "stream", "tools", "compact"              *)
  inbox,     (* masterIn                                                   *)
  runTurn,   (* Run's variable of that name                                *)
  paused,    (* Master.paused                                              *)
  turnCtx,   (* turnCancel: "none" while nil, else the turn's context      *)
  history,   (* Master.messages                                            *)
  pending,   (* the ends in pendingEvs                                     *)
  context,   (* activeContext of this takeTurns                            *)
  turn,      (* takeTurns' loop variable                                   *)
  tries,     (* trimCount, idleRetries, transientRetries                   *)
  calls,     (* tool calls of the current answer still to execute          *)
  wstate,    (* per worker: "unborn", "running", "cancelled", and after its *)
             (* end "ended", or "stopped" if it was cancelled before       *)
  esc,       (* the UI is between the two halves of Esc                    *)
  sent,      (* history: user messages handed to masterIn or dropped there *)
  stirs,     (* history: how often one of these has happened               *)
  fate,      (* history: per message or worker end, "none", "taken" in by   *)
             (* Run, "answered" (part of an answered request), or          *)
             (* "excused": given up by Esc, a failed turn, a pause, a trim *)
  halved     (* history: trimHistory has once found no clean cut           *)

turnVars == <<context, turn, tries, calls>>
ghosts == <<fate, halved>>
masterVars == <<pc, runTurn, history, pending, turnVars, ghosts>>
outside == <<paused, wstate, esc, sent, stirs>>
vars == <<pc, inbox, runTurn, paused, turnCtx, history, pending, context, turn, tries,
          calls, wstate, esc, sent, stirs, fate, halved>>

UserEvent(k) == [kind |-> "user", msg |-> k]
EndEvent(w) == [kind |-> "end", worker |-> w]
ProgressEvent == [kind |-> "progress"]
CancelAllEvent == [kind |-> "cancelAll"]
Events ==
  [kind : {"user"}, msg : 1..MaxMsgs] \cup [kind : {"end"}, worker : Workers]
    \cup {ProgressEvent, CancelAllEvent}

Items == (1..MaxMsgs) \cup Workers

TypeOK ==
  /\ pc \in {"idle", "drain", "begin", "head", "stream", "tools", "compact"}
  /\ inbox \in BoundedSeq(Events, InboxCap)
  /\ runTurn \in BOOLEAN /\ paused \in BOOLEAN
  /\ esc \in BOOLEAN /\ halved \in BOOLEAN
  /\ turnCtx \in {"none", "live", "canceled"}
  /\ history \in Seq(Message(MaxCalls, MaxMsgs))
  /\ pending \subseteq Workers
  /\ context \subseteq Workers
  /\ turn \in 0..MaxTurns
  /\ tries \in [trim : 0..MaxTrims, idle : 0..MaxIdleRetries, transient : 0..MaxTransient]
  /\ calls \in 0..MaxCalls
  /\ wstate \in [Workers -> {"unborn", "running", "cancelled", "ended", "stopped"}]
  /\ sent \in 0..MaxMsgs
  /\ stirs \in 0..MaxStirs
  /\ fate \in [Items -> {"none", "taken", "answered", "excused"}]

NoTries == [trim |-> 0, idle |-> 0, transient |-> 0]

\* A fresh session, or a resumed one, which takes turns at once when the todo
\* list has unfinished items.
Init ==
  /\ \/ /\ pc = "idle"
        /\ history = <<>>
     \/ /\ pc \in {"idle", "begin"}
        /\ history = <<Note>>
  /\ inbox = <<>>
  /\ runTurn = FALSE /\ paused = FALSE /\ esc = FALSE
  /\ turnCtx = "none"
  /\ pending = {} /\ context = {}
  /\ turn = 0 /\ tries = NoTries /\ calls = 0
  /\ wstate = [w \in Workers |-> "unborn"]
  /\ sent = 0 /\ stirs = 0
  /\ fate = [x \in Items |-> "none"] /\ halved = FALSE

\* A send on masterIn gives up when the channel is full.
Post(e) == inbox' = IF Len(inbox) < InboxCap THEN Append(inbox, e) ELSE inbox

-----------------------------------------------------------------------------
(* The surroundings. *)

Stir ==
  /\ stirs < MaxStirs
  /\ stirs' = stirs + 1

\* The user's side hands over a message.
SendMessage ==
  /\ ~esc
  /\ sent < MaxMsgs
  /\ sent' = sent + 1
  /\ Post(UserEvent(sent'))
  /\ UNCHANGED <<masterVars, turnCtx, paused, wstate, esc, stirs>>

\* Master.Pause and Master.Resume.
TogglePause ==
  /\ ~esc
  /\ Stir
  /\ paused' = ~paused
  /\ UNCHANGED <<masterVars, inbox, turnCtx, wstate, esc, sent>>

\* Esc, first half: the current turn and every running worker are cancelled.
CancelInFlight ==
  /\ ~esc
  /\ Stir
  /\ esc' = TRUE
  /\ turnCtx' = IF turnCtx = "live" THEN "canceled" ELSE turnCtx
  /\ wstate' = [w \in Workers |-> IF wstate[w] = "running" THEN "cancelled" ELSE wstate[w]]
  /\ UNCHANGED <<masterVars, inbox, paused, sent>>

\* Esc, second half: the master is told to discard what is pending.
TellCancelAll ==
  /\ esc
  /\ esc' = FALSE
  /\ Post(CancelAllEvent)
  /\ UNCHANGED <<masterVars, turnCtx, paused, wstate, sent, stirs>>

\* A worker publishes something other than its end; its budget bounds how often
\* it does.
WorkerProgress(w) ==
  /\ wstate[w] = "running"
  /\ Stir
  /\ Post(ProgressEvent)
  /\ UNCHANGED <<masterVars, turnCtx, paused, wstate, esc, sent>>

\* A worker publishes its end, EvSubagentDone or EvSubagentError; a cancelled
\* one too, and it is forwarded like the others.
WorkerEnds(w) ==
  /\ wstate[w] \in {"running", "cancelled"}
  /\ wstate' = [wstate EXCEPT ![w] = IF @ = "running" THEN "ended" ELSE "stopped"]
  /\ Post(EndEvent(w))
  /\ UNCHANGED <<masterVars, turnCtx, paused, esc, sent, stirs>>

-----------------------------------------------------------------------------
(* Run. *)

\* What handleInboxEvent answers: the supervisor asks for a turn at the end of
\* every worker.
Triggers(ev) == ev.kind \in {"user", "end"}

\* handleInboxEvent for everything but ticks.
Handle(ev) ==
  /\ history' = IF ev.kind = "user" THEN Append(history, UserMsg(ev.msg)) ELSE history
  /\ pending' = pending \cup {w \in Workers : ev = EndEvent(w)}
  /\ fate' = [x \in Items |-> IF ev \in {UserEvent(x), EndEvent(x)} THEN "taken" ELSE fate[x]]

\* Some of what is taken in will not be asked.
Waiting == {x \in Items : fate[x] = "taken"}
GiveUp(items) ==
  fate' = [x \in Items |-> IF x \in items \cap Waiting THEN "excused" ELSE fate[x]]

\* The select of Run takes an event.
TakeEvent ==
  /\ pc = "idle"
  /\ inbox # <<>>
  /\ inbox' = Tail(inbox)
  /\ IF Head(inbox) = CancelAllEvent
       THEN /\ pending' = {}
            /\ GiveUp(pending)
            /\ UNCHANGED <<pc, runTurn, history>>
       ELSE /\ Handle(Head(inbox))
            /\ runTurn' = Triggers(Head(inbox))
            /\ pc' = "drain"
  /\ UNCHANGED <<turnCtx, turnVars, halved, outside>>

\* The drain loop takes the rest of a burst; EvCancelAll ends it.
Drain(wanted) ==
  /\ pc = "drain"
  /\ inbox # <<>>
  /\ inbox' = Tail(inbox)
  /\ IF Head(inbox) = CancelAllEvent
       THEN /\ pending' = {}
            /\ GiveUp(Items)
            /\ runTurn' = FALSE
            /\ pc' = "idle"
            /\ UNCHANGED history
       ELSE /\ Handle(Head(inbox))
            /\ runTurn' = wanted
            /\ UNCHANGED pc
  /\ UNCHANGED <<turnCtx, turnVars, halved, outside>>

\* Mutant of DrainEvent: the last event of a burst decides.
DrainEventLast == Drain(Triggers(Head(inbox)))

\* One event that asks for a turn is enough.
DrainEvent == Drain(runTurn \/ Triggers(Head(inbox)))

\* The burst is over.
DrainDone ==
  /\ pc = "drain"
  /\ inbox = <<>>
  /\ runTurn' = FALSE
  /\ IF runTurn /\ ~paused
       THEN pc' = "begin" /\ UNCHANGED fate
       ELSE pc' = "idle" /\ GiveUp(IF paused THEN Items ELSE {})
  /\ UNCHANGED <<inbox, turnCtx, history, pending, turnVars, halved, outside>>

\* The ticker fires and the supervisor escalates a worker.
Tick ==
  /\ pc = "idle"
  /\ \E w \in Workers : wstate[w] = "running"
  /\ ~paused
  /\ Stir
  /\ pc' = "begin"
  /\ UNCHANGED <<inbox, runTurn, turnCtx, history, pending, turnVars, ghosts, paused, wstate,
                 esc, sent>>

-----------------------------------------------------------------------------
(* takeTurns. *)

Begin(told) ==
  /\ pc = "begin"
  /\ turnCtx' = "live"
  /\ context' = told
  /\ pending' = {}
  /\ turn' = 0 /\ tries' = NoTries /\ calls' = 0
  /\ pc' = "head"
  /\ UNCHANGED <<inbox, runTurn, history, ghosts, outside>>

\* Mutant of BeginTurns: pendingEvs is cleared before the context is built.
BeginTurnsCleared == Begin({})

\* The turn's context is made and the active context built, once for all the
\* requests of this call.
BeginTurns == Begin(pending)

\* takeTurns returns; what it did not get answered is not asked again.
Return ==
  /\ pc' = "idle"
  /\ turnCtx' = "none"
  /\ context' = {} /\ turn' = 0 /\ tries' = NoTries /\ calls' = 0

ReturnUnanswered == Return /\ GiveUp(Items)

\* Head of the loop: the turn limit (nothing is published), a cancelled
\* context, or the next request.
TurnLimit ==
  /\ pc = "head"
  /\ turn = MaxTurns
  /\ ReturnUnanswered
  /\ UNCHANGED <<inbox, runTurn, history, pending, halved, outside>>

TurnCancelled ==
  /\ pc = "head"
  /\ turn < MaxTurns
  /\ turnCtx = "canceled"
  /\ ReturnUnanswered
  /\ UNCHANGED <<inbox, runTurn, history, pending, halved, outside>>

Request ==
  /\ pc = "head"
  /\ turn < MaxTurns
  /\ turnCtx = "live"
  /\ pc' = "stream"
  /\ UNCHANGED <<inbox, runTurn, turnCtx, history, pending, turnVars, ghosts, outside>>

\* The context ends while the stream is read: takeTurns returns at the next
\* event and publishes nothing.
StreamCancelled ==
  /\ pc = "stream"
  /\ turnCtx = "canceled"
  /\ ReturnUnanswered
  /\ UNCHANGED <<inbox, runTurn, history, pending, halved, outside>>

NextTurn ==
  /\ pc' = "head"
  /\ turn' = turn + 1

\* The error ends takeTurns.
StreamFails ==
  /\ pc = "stream"
  /\ ReturnUnanswered
  /\ UNCHANGED <<inbox, runTurn, history, pending, halved, outside>>

\* The user messages a history still tells, and all that a request tells.
Told(h) == {h[i].msg : i \in DOMAIN h} \ {0}
InRequest == context \cup Told(history)

TrimAndRetry ==
  /\ pc = "stream"
  /\ CanTrim(history)
  /\ history' = MasterTrimmed(history)
  /\ halved' = (halved \/ Boundaries(history) = {})
  /\ tries' = [tries EXCEPT !.trim = @ + 1]
  /\ GiveUp(Told(history) \ Told(history'))
  /\ NextTurn
  /\ UNCHANGED <<inbox, runTurn, turnCtx, pending, context, calls, outside>>

\* The context window is exceeded: the history is trimmed and the request made
\* again, up to a limit.
StreamTooLong == tries.trim < MaxTrims /\ TrimAndRetry

RetryLimit == [idle |-> MaxIdleRetries, transient |-> MaxTransient]

\* Mutant of StreamRetries: a retry that is not counted anywhere.
StreamRetriesForever(why) ==
  /\ pc = "stream"
  /\ turnCtx = "live"
  /\ tries[why] < RetryLimit[why]
  /\ pc' = "head"
  /\ UNCHANGED <<inbox, runTurn, turnCtx, history, pending, turnVars, ghosts, outside>>

\* A silent or interrupted stream is tried again, each up to its limit.
StreamRetries(why) ==
  /\ pc = "stream"
  /\ turnCtx = "live"
  /\ tries[why] < RetryLimit[why]
  /\ tries' = [tries EXCEPT ![why] = @ + 1]
  /\ NextTurn
  /\ UNCHANGED <<inbox, runTurn, turnCtx, history, pending, context, calls, ghosts,
                 outside>>

\* A final answer: an empty one is not kept, and if the request was too large
\* and the history is long enough, it is compacted next.
StreamAnswers(empty, large) ==
  /\ pc = "stream"
  /\ history' = IF empty THEN history ELSE Append(history, Assistant(0))
  /\ fate' = [x \in Items |-> IF x \in InRequest THEN "answered" ELSE fate[x]]
  /\ IF large /\ Len(history') >= KeepExchanges * 2 + 4
       THEN pc' = "compact" /\ UNCHANGED <<turnVars, turnCtx>>
       ELSE Return
  /\ UNCHANGED <<inbox, runTurn, pending, halved, outside>>

StreamCallsTools(n) ==
  /\ pc = "stream"
  /\ history' = Append(history, Assistant(n))
  /\ fate' = [x \in Items |-> IF x \in InRequest THEN "answered" ELSE fate[x]]
  /\ calls' = n
  /\ pc' = "tools"
  /\ UNCHANGED <<inbox, runTurn, turnCtx, pending, context, turn, tries, halved, outside>>

\* A tool call: it may spawn a worker.
Execute(spawned) ==
  /\ pc = "tools"
  /\ calls > 0
  /\ turnCtx = "live"
  /\ \A w \in spawned : wstate[w] = "unborn"
  /\ wstate' = [w \in Workers |-> IF w \in spawned THEN "running" ELSE wstate[w]]
  /\ history' = Append(history, Result)
  /\ calls' = calls - 1
  /\ UNCHANGED <<pc, inbox, runTurn, turnCtx, pending, context, turn, tries, ghosts,
                 paused, esc, sent, stirs>>

ToolsDone ==
  /\ pc = "tools"
  /\ calls = 0 \/ turnCtx = "canceled"
  /\ calls' = 0
  /\ NextTurn
  /\ UNCHANGED <<inbox, runTurn, turnCtx, history, pending, context, tries, ghosts,
                 outside>>

\* The summary is made, or fails and the history stays as it is.
Compact(ok) ==
  /\ pc = "compact"
  /\ IF ok /\ Cardinality(Speaking(history, "user")) > KeepExchanges
       THEN history' = Compacted(history, KeepExchanges)
       ELSE UNCHANGED history
  /\ Return
  /\ UNCHANGED <<inbox, runTurn, pending, ghosts, outside>>

-----------------------------------------------------------------------------
TakeTurns ==
  \/ BeginTurns
  \/ TurnLimit
  \/ TurnCancelled
  \/ Request
  \/ StreamCancelled
  \/ StreamFails
  \/ StreamTooLong
  \/ \E why \in {"idle", "transient"} : StreamRetries(why)
  \/ \E empty, large \in BOOLEAN : StreamAnswers(empty, large)
  \/ \E n \in 1..MaxCalls : StreamCallsTools(n)
  \/ \E spawned \in {{}} \cup {{w} : w \in Workers} : Execute(spawned)
  \/ ToolsDone
  \/ \E ok \in BOOLEAN : Compact(ok)

Run ==
  \/ TakeEvent
  \/ DrainEvent
  \/ DrainDone
  \/ Tick
  \/ TakeTurns

WorkerSteps == \E w \in Workers : WorkerProgress(w) \/ WorkerEnds(w)

Next ==
  \/ Run
  \/ SendMessage
  \/ TogglePause
  \/ CancelInFlight
  \/ TellCancelAll
  \/ WorkerSteps

Spec == Init /\ [][Next]_vars

\* Run is a goroutine that is always scheduled; a stream ends at the latest by
\* its watchdog, and tools and summaries have time limits of their own.
FairSpec == Spec /\ WF_vars(TakeEvent \/ DrainEvent \/ DrainDone \/ TakeTurns)

-----------------------------------------------------------------------------
(* Properties. *)

\* What the OpenAI adapter makes of the history carries the results of every
\* call, whatever was cancelled between two calls of one answer, however often
\* the history was trimmed or compacted since.
RequestComplete == pc = "stream" => CallsAnswered(Repaired(history))

\* No result is sent whose call was cut away, unless trimHistory has had to
\* halve a history without a clean cut.
RequestHasNoOrphans == pc = "stream" /\ ~halved => ResultsHaveCalls(Repaired(history))

\* What Run has taken in and neither got answered nor given up is where the next
\* request finds it: a message in the history, the end of a worker among the
\* pending events or in the active context.
NothingForgotten ==
  Waiting \subseteq Told(history) \cup pending \cup context

\* takeTurns returns, with every retry and every repetition of the loop.
TakeTurnsEnds == pc = "head" ~> pc = "idle"

\* Each message and each end of a worker becomes part of an answered request,
\* unless Esc, a failed turn, a pause or trimming gives it up.
Attended == \A x \in Items : fate[x] = "taken" ~> fate[x] # "taken"

\* What the comment in stopGeneration says of EvCancelAll: cancelled workers do
\* not start a turn.  Here Esc is over and Run has handled its event, and a turn
\* starts for the ends of cancelled workers and nothing else.
CancelledStayQuiet ==
  pc = "begin" /\ ~esc /\ CancelAllEvent \notin Range(inbox)
    /\ Waiting \subseteq Workers /\ pending # {} =>
      \E w \in pending : wstate[w] # "stopped"

\* What the comment at trimHistory says: it drops the oldest exchange.  Here a
\* second trimming in the same turn drops nothing.
TrimmingTrims ==
  [][tries.trim > 0 /\ tries'.trim = tries.trim + 1 => history' # history]_vars
=============================================================================
