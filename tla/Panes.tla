------------------------------- MODULE Panes --------------------------------
(***************************************************************************)
(* What the terminal UI shows of each worker (subStatus in                 *)
(* internal/tui/app.go) against what becomes of it.  The UI learns of      *)
(* workers through the bus, marks some itself when it stops them, and      *)
(* pauses, resumes and kills through the manager, as the master's tools    *)
(* do.  Whoever pauses or resumes publishes it after the worker's lock is  *)
(* released, and so does the worker with its end.                          *)
(*                                                                         *)
(* Subagents has the worker's loop; here a worker may end at any time.     *)
(* Activities, texts and transcripts of a pane are left out.               *)
(***************************************************************************)
EXTENDS Naturals, Sequences, FiniteSets

CONSTANTS
  Workers,    (* the workers                                               *)
  MaxKeys     (* bound of the model: pauses, resumes, kills and stops      *)

PanesConstants == IsFiniteSet(Workers) /\ MaxKeys \in Nat

Clients == {"ui", "master"}

VARIABLES
  status,     (* Subagent.status; "unborn" before Run                      *)
  paused,     (* Subagent.paused                                           *)
  killed,     (* the workers whose context is cancelled                    *)
  end,        (* how a worker's loop ended: "text", "error", "empty" if it *)
              (* was cancelled, else "none"                                *)
  saying,     (* the workers whose end is still to be published            *)
  client,     (* per client what it still has to do: an event to publish,  *)
              (* workers to cancel, or nothing                             *)
  events,     (* the UI's subscription                                     *)
  shown,      (* App.subStatus; "none" without an entry                    *)
  late,       (* history: workers paused or resumed, or reported so, after *)
              (* their loop had ended                                      *)
  keys        (* history: how often one of these has happened              *)

worker == <<end, saying>>
vars == <<status, paused, killed, worker, client, events, shown, late, keys>>

Event(w, kind) == [worker |-> w, kind |-> kind]
Kinds == {"spawn", "paused", "resumed", "text", "empty", "error"}
Terminal == {"done", "error", "cancelled"}

Nothing == [say |-> {}, cancel |-> {}, marks |-> FALSE]

TypeOK ==
  /\ status \in [Workers -> {"unborn", "running", "paused"} \cup Terminal]
  /\ paused \subseteq Workers /\ killed \subseteq Workers /\ late \subseteq Workers
  /\ end \in [Workers -> {"none", "text", "error", "empty"}]
  /\ saying \subseteq Workers
  /\ client \in [Clients -> [say : SUBSET [worker : Workers, kind : {"paused", "resumed"}],
                             cancel : SUBSET Workers, marks : BOOLEAN]]
  /\ events \in Seq([worker : Workers, kind : Kinds])
  /\ shown \in [Workers -> {"none", "running", "paused"} \cup Terminal]
  /\ keys \in 0..MaxKeys

Init ==
  /\ status = [w \in Workers |-> "unborn"]
  /\ paused = {} /\ killed = {} /\ late = {} /\ saying = {}
  /\ end = [w \in Workers |-> "none"]
  /\ client = [c \in Clients |-> Nothing]
  /\ events = <<>>
  /\ shown = [w \in Workers |-> "none"]
  /\ keys = 0

-----------------------------------------------------------------------------
(* The workers. *)

\* Manager.Spawn and the first event of Run.
Spawn(w) ==
  /\ status[w] = "unborn"
  /\ status' = [status EXCEPT ![w] = "running"]
  /\ events' = Append(events, Event(w, "spawn"))
  /\ UNCHANGED <<paused, killed, worker, client, shown, late, keys>>

\* Run stores its last status: the final text, the error of a cancelled context
\* or another one.  A worker still in its turn ends although it is paused.
Ends(w, how) ==
  /\ status[w] # "unborn" /\ end[w] = "none"
  /\ how = "empty" => w \in killed
  /\ end' = [end EXCEPT ![w] = how]
  /\ saying' = saying \cup {w}
  /\ status' = [status EXCEPT ![w] =
       CASE how = "text" -> "done" [] how = "error" -> "error" [] how = "empty" -> "cancelled"]
  /\ UNCHANGED <<paused, killed, client, events, shown, late, keys>>

\* Run publishes its end and returns.
SaysEnd(w) ==
  /\ w \in saying
  /\ saying' = saying \ {w}
  /\ events' = Append(events, Event(w, end[w]))
  /\ UNCHANGED <<status, paused, killed, end, client, shown, late, keys>>

-----------------------------------------------------------------------------
(* Pausing, resuming, killing: the UI's keys and the master's tools. *)

Key(c) ==
  /\ client[c] = Nothing
  /\ keys < MaxKeys
  /\ keys' = keys + 1

Over(w) == end[w] # "none"

\* Manager.Pause, up to the publication.
Pause(c, w) ==
  /\ Key(c)
  /\ status[w] = "running"
  /\ c = "ui" => shown[w] \notin {"none", "paused"}
  /\ paused' = paused \cup {w}
  /\ status' = [status EXCEPT ![w] = "paused"]
  /\ client' = [client EXCEPT ![c].say = {Event(w, "paused")}]
  /\ UNCHANGED <<killed, worker, events, shown, late>>

\* Manager.Resume: the flag decides, not the status.
Resume(c, w) ==
  /\ Key(c)
  /\ w \in paused
  /\ c = "ui" => shown[w] = "paused"
  /\ paused' = paused \ {w}
  /\ status' = [status EXCEPT ![w] = "running"]
  /\ client' = [client EXCEPT ![c].say = {Event(w, "resumed")}]
  /\ UNCHANGED <<killed, worker, events, shown, late>>

Publishes(c) ==
  /\ client[c].say # {}
  /\ \E e \in client[c].say :
       /\ events' = Append(events, e)
       /\ late' = IF Over(e.worker) THEN late \cup {e.worker} ELSE late
  /\ client' = [client EXCEPT ![c] = Nothing]
  /\ UNCHANGED <<status, paused, killed, worker, shown, keys>>

\* Manager.Kill, whatever the worker's status; the UI marks the pane at once.
Kill(c, w) ==
  /\ Key(c)
  /\ status[w] # "unborn"
  /\ c = "ui" => shown[w] # "none"
  /\ killed' = killed \cup {w}
  /\ status' = [status EXCEPT ![w] = "cancelled"]
  /\ shown' = IF c = "ui" THEN [shown EXCEPT ![w] = "cancelled"] ELSE shown
  /\ UNCHANGED <<paused, worker, client, events, late>>

\* CancelAll: the running workers are collected.  Esc marks the panes when they
\* are cancelled, the kill switch does not.
CancelAll(marks) ==
  /\ Key("ui")
  /\ client' = [client EXCEPT !["ui"] =
       [say |-> {}, cancel |-> {w \in Workers : status[w] = "running"}, marks |-> marks]]
  /\ client'["ui"] # Nothing
  /\ UNCHANGED <<status, paused, killed, worker, events, shown, late>>

CancelOne(w) ==
  /\ w \in client["ui"].cancel
  /\ client' = [client EXCEPT !["ui"].cancel = @ \ {w}]
  /\ killed' = killed \cup {w}
  /\ status' = [status EXCEPT ![w] = "cancelled"]
  /\ UNCHANGED <<paused, worker, events, shown, late, keys>>

\* The second half of stopGeneration.
MarkPanes ==
  /\ client["ui"].marks /\ client["ui"].cancel = {}
  /\ client' = [client EXCEPT !["ui"] = Nothing]
  /\ shown' = [w \in Workers |->
       IF shown[w] \in {"running", "paused"} THEN "cancelled" ELSE shown[w]]
  /\ UNCHANGED <<status, paused, killed, worker, events, late, keys>>

-----------------------------------------------------------------------------
(* handleEvent. *)

\* Mutant of Shows: an end without a text tells nothing.
ShowsTextOnly(e) ==
  CASE e.kind = "spawn" -> "running"
    [] e.kind = "paused" -> "paused"
    [] e.kind = "resumed" -> "running"
    [] e.kind = "error" -> "error"
    [] e.kind = "text" -> "done"
    [] e.kind = "empty" -> shown[e.worker]

\* What an event makes of its pane: an end without a text leaves a pane marked
\* cancelled as it is, all others overwrite what is shown.
Shows(e) ==
  CASE e.kind = "spawn" -> "running"
    [] e.kind = "paused" -> "paused"
    [] e.kind = "resumed" -> "running"
    [] e.kind = "error" -> "error"
    [] e.kind = "text" -> "done"
    [] e.kind = "empty" -> IF shown[e.worker] = "cancelled" THEN "cancelled" ELSE "done"

HandleEvent ==
  /\ client["ui"] = Nothing
  /\ events # <<>>
  /\ events' = Tail(events)
  /\ shown' = [shown EXCEPT ![Head(events).worker] = Shows(Head(events))]
  /\ UNCHANGED <<status, paused, killed, worker, client, late, keys>>

-----------------------------------------------------------------------------
Next ==
  \/ \E w \in Workers :
       \/ Spawn(w) \/ SaysEnd(w) \/ CancelOne(w)
       \/ \E how \in {"text", "error", "empty"} : Ends(w, how)
       \/ \E c \in Clients : Pause(c, w) \/ Resume(c, w) \/ Kill(c, w)
  \/ \E c \in Clients : Publishes(c)
  \/ \E marks \in BOOLEAN : CancelAll(marks)
  \/ MarkPanes
  \/ HandleEvent

Spec == Init /\ [][Next]_vars

-----------------------------------------------------------------------------
(* Properties. *)

\* All that is going to be shown of w has been.
Told(w) ==
  /\ Over(w) /\ w \notin saying
  /\ \A i \in DOMAIN events : events[i].worker # w
  /\ \A c \in Clients : client[c] = Nothing

\* A pane shows an ended worker as ended in the end, and one that ended in an
\* error or with a text not as anything less, except that the user may have
\* killed it.  Workers paused or resumed around their end are known to break it.
EndIsShown ==
  \A w \in Workers : Told(w) /\ w \notin late =>
    /\ shown[w] \in Terminal
    /\ end[w] = "error" => shown[w] \in {"error", "cancelled"}
    /\ shown[w] = "cancelled" => w \in killed
=============================================================================
