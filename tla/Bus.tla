-------------------------------- MODULE Bus ---------------------------------
(***************************************************************************)
(* The event bus and three of its clients: the session log, a sink         *)
(* (internal/agent/bus.go); find_in_codebase, which waits for the worker   *)
(* it spawned (internal/agent/find_tool.go); and the front of a program    *)
(* without a terminal UI, which sends a prompt and waits for the turn's    *)
(* end (cmd/ageni/exec.go, cmd/ageni/cli.go).                              *)
(*                                                                         *)
(* Publish copies the lists of sinks and subscribers under a lock and      *)
(* serves them without it, so publications overlap.  A subscriber's full   *)
(* channel loses the event.  A behaviour has a search or a front.  What a  *)
(* turn of the master does is in MasterLoop.                               *)
(***************************************************************************)
EXTENDS Naturals, Sequences, FiniteSets

CONSTANTS
  Cap,         (* buffer of a subscription: 128 (search), 256 (front)      *)
  MaxEvents,   (* bound of the model: events of one publisher              *)
  MaxPrompts   (* bound of the model: prompts typed                        *)

ASSUME BusConstants == Cap \in Nat \ {0} /\ MaxEvents \in Nat /\ MaxPrompts \in Nat

Publishers == {"master", "found", "other"}   \* "found": the search's worker
Subscribers == {"search", "front"}
Kinds == {"text", "turnDone", "done", "error"}
Event == [from : Publishers, kind : Kinds, nr : 1..MaxEvents]

VARIABLES
  subs,        (* Bus.subs                                                 *)
  sink,        (* the logger has been added                                *)
  chan,        (* the subscriptions' channels                              *)
  log,         (* events the log has been given                            *)
  publishing,  (* per publisher: the events it is publishing, at most one  *)
  targets,     (* per publisher: who the running Publish has still to serve *)
  sent,        (* history, per publisher: number of events                 *)
  search,      (* "idle", "ready", "waiting", "found", "failed"            *)
  worker,      (* the search's worker: "none", "running", "ending",        *)
               (* "ended"; "ending": killed, or about to publish its end   *)
  front,       (* "cli", "exec": before a prompt; "cliWait", "execWait";   *)
               (* "over"                                                   *)
  asked,       (* prompts sent                                             *)
  inbox,       (* masterIn: prompts and worker ends not read yet           *)
  turn,        (* the master is in a turn                                  *)
  acted        (* history: the events that ended a wait                    *)

bus == <<subs, sink, chan, log, publishing, targets, sent>>
vars == <<bus, search, worker, front, asked, inbox, turn, acted>>

TypeOK ==
  /\ subs \subseteq Subscribers /\ sink \in BOOLEAN
  /\ \A s \in Subscribers : chan[s] \in Seq(Event) /\ Len(chan[s]) <= Cap
  /\ log \subseteq Event /\ acted \subseteq Event
  /\ \A p \in Publishers : publishing[p] \subseteq Event /\ Cardinality(publishing[p]) <= 1
  /\ targets \in [Publishers -> SUBSET (Subscribers \cup {"log"})]
  /\ sent \in [Publishers -> 0..MaxEvents]
  /\ search \in {"idle", "ready", "waiting", "found", "failed"}
  /\ worker \in {"none", "running", "ending", "ended"}
  /\ front \in {"cli", "cliWait", "exec", "execWait", "over"}
  /\ asked \in 0..MaxPrompts /\ inbox \in Nat /\ turn \in BOOLEAN

Init ==
  /\ subs = {} /\ sink = FALSE /\ log = {} /\ acted = {}
  /\ chan = [s \in Subscribers |-> <<>>]
  /\ publishing = [p \in Publishers |-> {}]
  /\ targets = [p \in Publishers |-> {}]
  /\ sent = [p \in Publishers |-> 0]
  /\ worker = "none" /\ asked = 0 /\ inbox = 0 /\ turn = FALSE
  /\ \/ search = "idle" /\ front = "over"
     \/ search = "failed" /\ front \in {"cli", "exec"}

-----------------------------------------------------------------------------
(* The bus. *)

AddSink ==
  /\ ~sink /\ sink' = TRUE
  /\ UNCHANGED <<subs, chan, log, publishing, targets, sent, search, worker, front,
                 asked, inbox, turn, acted>>

\* Publish begins: the lists are copied.
StartPublish(p, kind) ==
  /\ publishing[p] = {} /\ sent[p] < MaxEvents
  /\ sent' = [sent EXCEPT ![p] = @ + 1]
  /\ publishing' = [publishing EXCEPT ![p] = {[from |-> p, kind |-> kind, nr |-> sent'[p]]}]
  /\ targets' = [targets EXCEPT ![p] = subs \cup (IF sink THEN {"log"} ELSE {})]
  /\ UNCHANGED <<subs, sink, chan, log>>

\* Mutant of MayServe: sinks have their turn with the subscribers.
ServeAny(p, t) == t \in targets[p]

\* Sinks come first.
MayServe(p, t) == t \in targets[p] /\ ("log" \in targets[p] => t = "log")

\* A sink takes the event; a subscriber takes it when its channel has room.
Serve(p) ==
  \E t \in targets[p], e \in publishing[p] :
    /\ MayServe(p, t)
    /\ targets' = [targets EXCEPT ![p] = @ \ {t}]
    /\ publishing' = [publishing EXCEPT ![p] = IF targets'[p] = {} THEN {} ELSE @]
    /\ IF t = "log"
         THEN log' = log \cup {e} /\ UNCHANGED chan
         ELSE /\ chan' = [chan EXCEPT ![t] = IF Len(@) < Cap THEN Append(@, e) ELSE @]
              /\ UNCHANGED log
    /\ UNCHANGED <<subs, sink, sent, search, worker, front, asked, inbox, turn, acted>>

\* Nobody to serve.
PublishEnds(p) ==
  /\ publishing[p] # {} /\ targets[p] = {}
  /\ publishing' = [publishing EXCEPT ![p] = {}]
  /\ UNCHANGED <<subs, sink, chan, log, targets, sent, search, worker, front, asked,
                 inbox, turn, acted>>

-----------------------------------------------------------------------------
(* find_in_codebase. *)

\* The search subscribes before it spawns; it never unsubscribes.  Tools run
\* after the first prompt, with the logger in place.
SearchSubscribes ==
  /\ search = "idle" /\ sink /\ search' = "ready"
  /\ subs' = subs \cup {"search"}
  /\ UNCHANGED <<sink, chan, log, publishing, targets, sent, worker, front, asked, inbox,
                 turn, acted>>

SearchSpawns ==
  /\ search = "ready"
  /\ \/ search' = "waiting" /\ worker' = "running"
     \/ search' = "failed" /\ UNCHANGED worker      \* no adapter, no capacity
  /\ UNCHANGED <<bus, front, asked, inbox, turn, acted>>

WorkerWorks ==
  /\ worker = "running" /\ sent["found"] + 1 < MaxEvents
  /\ StartPublish("found", "text")
  /\ UNCHANGED <<search, worker, front, asked, inbox, turn, acted>>

\* A killed worker publishes a done, too.
WorkerEnds ==
  /\ worker \in {"running", "ending"}
  /\ \E kind \in {"done", "error"} :
       /\ worker = "ending" => kind = "done"
       /\ StartPublish("found", kind)
  /\ worker' = "ended"
  /\ UNCHANGED <<search, front, asked, inbox, turn, acted>>

\* Other workers' events and tool output, on the same channels.
OthersPublish ==
  /\ \E kind \in {"text", "done"} : StartPublish("other", kind)
  /\ UNCHANGED <<search, worker, front, asked, inbox, turn, acted>>

Kill == worker' = IF worker = "running" THEN "ending" ELSE worker

Receive(s) == chan[s] # <<>> /\ chan' = [chan EXCEPT ![s] = Tail(@)]

SearchReceives ==
  /\ search = "waiting"
  /\ Receive("search")
  /\ LET e == Head(chan["search"])
         own == e.from = "found"
     IN /\ search' = CASE own /\ e.kind = "done"  -> "found"
                       [] own /\ e.kind = "error" -> "failed"
                       [] OTHER                   -> search
        /\ IF own /\ e.kind = "error" THEN Kill ELSE UNCHANGED worker
        /\ acted' = IF search' # search THEN acted \cup {e} ELSE acted
  /\ UNCHANGED <<subs, sink, log, publishing, targets, sent, front, asked, inbox, turn>>

\* Mutant of SearchTimesOut: only the caller's cancellation ends a search that
\* has heard nothing.
SearchTimesOutUnlessEnded ==
  /\ search = "waiting" /\ worker # "ended"
  /\ search' = "failed" /\ Kill
  /\ UNCHANGED <<bus, front, asked, inbox, turn, acted>>

\* Ten minutes, or the caller is cancelled.
SearchTimesOut ==
  /\ search = "waiting"
  /\ search' = "failed" /\ Kill
  /\ UNCHANGED <<bus, front, asked, inbox, turn, acted>>

-----------------------------------------------------------------------------
(* The front and the master. *)

\* The logger is there before the first prompt, and before the subscription of
\* exec; the interactive program subscribes just before it asks.
FrontSubscribes ==
  /\ "front" \notin subs /\ sink
  /\ subs' = subs \cup {"front"}
  /\ UNCHANGED <<sink, chan, log, publishing, targets, sent, search, worker, front, asked,
                 inbox, turn, acted>>

SendPrompt ==
  /\ front \in {"cli", "exec"} /\ "front" \in subs /\ asked < MaxPrompts
  /\ front' = IF front = "cli" THEN "cliWait" ELSE "execWait"
  /\ asked' = asked + 1 /\ inbox' = inbox + 1
  /\ UNCHANGED <<bus, search, worker, turn, acted>>

\* End of input or "exit".
Leave ==
  /\ front = "cli" /\ front' = "over"
  /\ UNCHANGED <<bus, search, worker, asked, inbox, turn, acted>>

\* waitForHeadlessResult, and the loop of runInteractiveCLI: any turn's end, or
\* an error, ends the wait.
FrontReceives ==
  /\ front \in {"cliWait", "execWait"}
  /\ Receive("front")
  /\ LET e == Head(chan["front"])
         ends == e.from = "master" /\ e.kind \in {"turnDone", "error"}
     IN /\ front' = CASE ends /\ front = "cliWait"  -> "cli"
                      [] ends /\ front = "execWait" -> "over"
                      [] OTHER                      -> front
        /\ acted' = IF ends THEN acted \cup {e} ELSE acted
  /\ UNCHANGED <<subs, sink, log, publishing, targets, sent, search, worker, asked, inbox,
                 turn>>

\* The forwarder hands the master the end of a worker.
WorkerEndForwarded ==
  /\ asked > 0 /\ inbox = 0 /\ ~turn /\ sent["master"] < MaxEvents
  /\ inbox' = 1
  /\ UNCHANGED <<bus, search, worker, front, asked, turn, acted>>

TurnStarts ==
  /\ ~turn /\ inbox > 0
  /\ turn' = TRUE /\ inbox' = 0
  /\ UNCHANGED <<bus, search, worker, front, asked, acted>>

MasterText ==
  /\ turn /\ StartPublish("master", "text")
  /\ UNCHANGED <<search, worker, front, asked, inbox, turn, acted>>

\* A turn also ends without a report (MasterLoop).
TurnEnds ==
  /\ turn /\ turn' = FALSE
  /\ \/ \E kind \in {"turnDone", "error"} : StartPublish("master", kind)
     \/ publishing["master"] = {} /\ UNCHANGED bus
  /\ UNCHANGED <<search, worker, front, asked, inbox, acted>>

-----------------------------------------------------------------------------
Publish == \E p \in Publishers : Serve(p) \/ PublishEnds(p)
Search == SearchSubscribes \/ SearchSpawns \/ SearchReceives
Front == FrontSubscribes \/ SendPrompt \/ Leave \/ FrontReceives
Others == WorkerWorks \/ WorkerEnds \/ OthersPublish \/ TurnStarts \/ MasterText \/ TurnEnds

Next == AddSink \/ Publish \/ Search \/ SearchTimesOut \/ Front \/ WorkerEndForwarded \/ Others

Spec == Init /\ [][Next]_vars

\* A call goes on and its context expires; nobody else owes it anything.
FairSpec == Spec /\ WF_vars(Search) /\ WF_vars(SearchTimesOut)

-----------------------------------------------------------------------------
(* Properties. *)

\* Who reads the session's log after a crash finds there what the program had
\* acted on: nobody goes on with a result, an end of turn or a found text that
\* the log has not been given, however publications overlap.
LoggedFirst == acted \subseteq log

\* A search ends although the bus may lose the one event it waits for.
SearchEnds == search = "waiting" ~> search \in {"found", "failed"}
=============================================================================
