-------------------------------- MODULE Tui ---------------------------------
(***************************************************************************)
(* The terminal UI and the master, as far as each waits for the other      *)
(* (internal/tui/app.go, Run and takeTurns of internal/agent/master.go).   *)
(* While the master is busy the UI keeps what the user submits in msgQueue *)
(* and sends the next one when a turn is reported done or failed.          *)
(*                                                                         *)
(* Two channels lie between them: masterIn, on which the UI gives up when  *)
(* it is full, and the UI's subscription to the bus, of which only what    *)
(* sets masterBusy is kept: "start", "done" and "error".  Its capacity of  *)
(* 128 is never reached here.  Histories, tools and retries of a turn are  *)
(* in MasterLoop.                                                          *)
(***************************************************************************)
EXTENDS Naturals, Sequences

CONSTANTS
  MaxMsgs,    (* bound of the model: messages the user submits             *)
  MaxStirs,   (* bound of the model: worker ends, pauses, Escs             *)
  InboxCap,   (* capacity of masterIn                                      *)
  MaxTurns    (* Master.maxTurns                                           *)

TuiConstants ==
  MaxMsgs \in Nat /\ MaxStirs \in Nat /\ InboxCap \in Nat \ {0} /\ MaxTurns \in Nat \ {0}

VARIABLES
  queue,      (* App.msgQueue                                              *)
  busy,       (* App.masterBusy                                            *)
  stopping,   (* the UI stands in stopGeneration, before it sends          *)
  inbox,      (* masterIn: messages, 0 for a worker's end, "cancelAll"     *)
  events,     (* the UI's subscription                                     *)
  phase,      (* Run: "idle", "drain", "begin", "head", "stream"           *)
  turnCtx,    (* the turn's context: "none", "live", "canceled"            *)
  turn,       (* takeTurns' loop variable                                  *)
  paused,     (* Master.paused                                             *)
  typed,      (* history: messages submitted so far                        *)
  read,       (* history: messages in the order Run took them              *)
  silent,     (* history: since a turn was last reported, one ended        *)
              (* unreported or a message had none, and the UI has not      *)
              (* stopped everything with no event under way                *)
  stirs       (* history: how often one of these has happened              *)

ui == <<queue, busy, stopping, typed>>
master == <<phase, turnCtx, turn, paused, read>>
vars == <<ui, inbox, events, master, silent, stirs>>

Message(k) == [kind |-> "user", msg |-> k]
WorkerEnd == [kind |-> "end", msg |-> 0]
CancelAll == [kind |-> "cancelAll", msg |-> 0]

TypeOK ==
  /\ queue \in Seq(1..MaxMsgs)
  /\ busy \in BOOLEAN /\ stopping \in BOOLEAN
  /\ paused \in BOOLEAN /\ silent \in BOOLEAN
  /\ inbox \in Seq([kind : {"user", "end", "cancelAll"}, msg : 0..MaxMsgs])
  /\ Len(inbox) <= InboxCap
  /\ events \in Seq({"start", "done", "error"})
  /\ phase \in {"idle", "drain", "begin", "head", "stream"}
  /\ turnCtx \in {"none", "live", "canceled"}
  /\ turn \in 0..MaxTurns
  /\ typed \in 0..MaxMsgs /\ stirs \in 0..MaxStirs
  /\ read \in Seq(1..MaxMsgs)

Init ==
  /\ queue = <<>> /\ inbox = <<>> /\ events = <<>> /\ read = <<>>
  /\ busy = FALSE /\ stopping = FALSE /\ silent = FALSE
  /\ paused = FALSE
  /\ phase = "idle" /\ turnCtx = "none" /\ turn = 0
  /\ typed = 0 /\ stirs = 0

-----------------------------------------------------------------------------
(* The UI's goroutine. *)

Fits == Len(inbox) < InboxCap

\* sendToMaster: what does not fit is dropped.
SendToMaster(k) ==
  /\ inbox' = IF Fits THEN Append(inbox, Message(k)) ELSE inbox
  /\ silent' = (silent \/ ~Fits)

\* Enter.
Submit ==
  /\ ~stopping
  /\ typed < MaxMsgs
  /\ typed' = typed + 1
  /\ IF busy \/ queue # <<>>
       THEN queue' = Append(queue, typed') /\ UNCHANGED <<busy, inbox, silent>>
       ELSE busy' = TRUE /\ SendToMaster(typed') /\ UNCHANGED queue
  /\ UNCHANGED <<stopping, events, master, stirs>>

\* Mutant of NextQueued: the newest message first.
NewestQueued == [msg |-> queue[Len(queue)], rest |-> SubSeq(queue, 1, Len(queue) - 1)]

\* The message that the end of a turn releases, and what stays queued.
NextQueued == [msg |-> Head(queue), rest |-> Tail(queue)]

\* Mutant of HandleError: a failed turn releases nothing.
ErrorIgnored ==
  /\ ~stopping
  /\ events # <<>> /\ Head(events) = "error"
  /\ events' = Tail(events)
  /\ UNCHANGED <<queue, busy, stopping, typed, inbox, master, silent, stirs>>

TurnOver ==
  IF queue # <<>>
    THEN queue' = NextQueued.rest /\ SendToMaster(NextQueued.msg) /\ UNCHANGED busy
    ELSE busy' = FALSE /\ UNCHANGED <<queue, inbox, silent>>

HandleTurnStart ==
  /\ ~stopping
  /\ events # <<>> /\ Head(events) = "start"
  /\ events' = Tail(events)
  /\ busy' = TRUE
  /\ UNCHANGED <<queue, stopping, typed, inbox, master, silent, stirs>>

HandleTurnDone ==
  /\ ~stopping
  /\ events # <<>> /\ Head(events) = "done"
  /\ events' = Tail(events)
  /\ TurnOver
  /\ UNCHANGED <<stopping, typed, master, stirs>>

HandleError ==
  /\ ~stopping
  /\ events # <<>> /\ Head(events) = "error"
  /\ events' = Tail(events)
  /\ TurnOver
  /\ UNCHANGED <<stopping, typed, master, stirs>>

Stir ==
  /\ stirs < MaxStirs
  /\ stirs' = stirs + 1

\* Esc, Ctrl+G on the master, and the kill switch, whose shells and todos are
\* elsewhere: queued messages are dropped and the current turn is cancelled.
StopGeneration ==
  /\ ~stopping
  /\ Stir
  /\ stopping' = TRUE
  /\ queue' = <<>> /\ busy' = FALSE
  /\ silent' = (silent /\ events # <<>>)
  /\ turnCtx' = IF turnCtx = "live" THEN "canceled" ELSE turnCtx
  /\ UNCHANGED <<typed, inbox, events, phase, turn, paused, read>>

\* The rest of it: the master is told.
TellCancelAll ==
  /\ stopping
  /\ stopping' = FALSE
  /\ inbox' = IF Fits THEN Append(inbox, CancelAll) ELSE inbox
  /\ UNCHANGED <<queue, busy, typed, events, master, silent, stirs>>

\* Ctrl+P on the master.
TogglePause ==
  /\ ~stopping
  /\ Stir
  /\ paused' = ~paused
  /\ UNCHANGED <<ui, inbox, events, phase, turnCtx, turn, read, silent>>

-----------------------------------------------------------------------------
(* The master's goroutine. *)

\* The forwarder hands over the end of a worker.
WorkerEnds ==
  /\ Stir
  /\ inbox' = IF Fits THEN Append(inbox, WorkerEnd) ELSE inbox
  /\ UNCHANGED <<ui, events, master, silent>>

TakeFrom(event, others) ==
  /\ inbox' = Tail(inbox)
  /\ IF event = CancelAll
       THEN phase' = "idle" /\ UNCHANGED read
       ELSE /\ phase' = "drain"
            /\ read' = IF event = WorkerEnd THEN read ELSE Append(read, event.msg)
  /\ UNCHANGED others

\* Run's select takes an event, or its drain loop does; EvCancelAll ends it.
TakeEvent ==
  /\ phase \in {"idle", "drain"}
  /\ inbox # <<>>
  /\ TakeFrom(Head(inbox), <<ui, events, turnCtx, turn, paused, silent, stirs>>)

\* The burst is over: a turn, unless the master is paused.
DrainDone ==
  /\ phase = "drain"
  /\ inbox = <<>>
  /\ phase' = IF paused THEN "idle" ELSE "begin"
  /\ silent' = (silent \/ paused)
  /\ UNCHANGED <<ui, inbox, events, turnCtx, turn, paused, read, stirs>>

BeginTurns ==
  /\ phase = "begin"
  /\ phase' = "head" /\ turnCtx' = "live" /\ turn' = 0
  /\ UNCHANGED <<ui, inbox, events, paused, read, silent, stirs>>

Return == phase' = "idle" /\ turnCtx' = "none" /\ turn' = 0

Report(e) ==
  /\ Return
  /\ events' = Append(events, e)
  /\ silent' = FALSE
  /\ UNCHANGED <<ui, inbox, paused, read, stirs>>

ReturnSilently ==
  /\ Return
  /\ silent' = TRUE
  /\ UNCHANGED <<ui, inbox, events, paused, read, stirs>>

\* Head of the loop: the turn limit, a cancelled context, or a request.
TurnLimit == phase = "head" /\ turn = MaxTurns /\ ReturnSilently

TurnCancelled ==
  phase = "head" /\ turn < MaxTurns /\ turnCtx = "canceled" /\ Report("done")

Request ==
  /\ phase = "head" /\ turn < MaxTurns /\ turnCtx = "live"
  /\ phase' = "stream"
  /\ events' = Append(events, "start")
  /\ UNCHANGED <<ui, inbox, turnCtx, turn, paused, read, silent, stirs>>

\* Tool calls or a retry: once more around the loop.
Continue ==
  /\ phase = "stream"
  /\ phase' = "head" /\ turn' = turn + 1
  /\ UNCHANGED <<ui, inbox, events, turnCtx, paused, read, silent, stirs>>

Answer == phase = "stream" /\ Report("done")
Fail == phase = "stream" /\ Report("error")

\* The next event of the stream finds the context cancelled.
StreamCancelled == phase = "stream" /\ turnCtx = "canceled" /\ ReturnSilently

-----------------------------------------------------------------------------
User == Submit \/ StopGeneration \/ TogglePause
Ui == HandleTurnStart \/ HandleTurnDone \/ HandleError \/ TellCancelAll
Run ==
  \/ TakeEvent \/ DrainDone \/ BeginTurns \/ TurnLimit \/ TurnCancelled
  \/ Request \/ Continue \/ Answer \/ Fail \/ StreamCancelled

Next == User \/ Ui \/ WorkerEnds \/ Run

Spec == Init /\ [][Next]_vars

\* Both goroutines go on; turns end by their limits.  Neither the user nor the
\* workers owe anything.
FairSpec == Spec /\ WF_vars(Ui) /\ WF_vars(Run)

-----------------------------------------------------------------------------
(* Properties. *)

\* The master reads what the user typed in the order it was typed, whether a
\* message went there directly or through the queue, whatever stale reports of
\* older turns released it.
ReadInOrder == \A i, j \in DOMAIN read : i < j => read[i] < read[j]

\* A queued message is released, unless a turn went by that was not reported.
QueueMoves == queue # <<>> ~> (queue = <<>> \/ silent)

\* What the comment at msgQueue says: messages are dequeued when the master
\* becomes idle.  Here no exception is made for turns that nobody reports.
DequeuedWhenIdle == queue # <<>> ~> queue = <<>>
=============================================================================
