----------------------------- MODULE MasterContext -----------------------------
(***************************************************************************)
(* What a turn of the master is told of its workers, its todo list and a   *)
(* resumed session (internal/agent/master.go buildActiveContext,           *)
(* buildSupervisionSummary, buildPendingEventDelta).                       *)
(*                                                                         *)
(* Every event about a worker is observed by the supervisor, which keeps a *)
(* state per worker, and kept in pendingEvs; a turn's context lists the    *)
(* states, folds the events into one line per worker, and forgets them.    *)
(* The line of a long result or error is cut, and says so (800 and 240     *)
(* characters); its text is not modelled.                                  *)
(* An event that says a worker was paused or resumed is published after    *)
(* the worker's lock is released and can overtake its end.  The events'    *)
(* way to the master, and what is lost on it, is in MasterLoop.            *)
(*                                                                         *)
(* The todo items are those of internal/tools/todo.go, with the one who    *)
(* claimed each: a worker, or "other" for the master itself and for the    *)
(* workers of the process that a resumed session takes over from.          *)
(***************************************************************************)
EXTENDS Integers, Sequences

CONSTANTS Workers,
          Items,
          MaxEvents,   \* bounds the events of a worker before its end
          MaxPending   \* bounds pendingEvs

MasterContextConstants == MaxEvents \in Nat /\ MaxPending \in Nat /\ {"nobody", "other"} \cap Workers = {}

Progress == {"spawn", "turn", "tool", "toolError", "retry", "inbox", "usage"}
Kinds == Progress \cup {"paused", "resumed", "done", "doneEmpty", "error"}
Ends == {"done", "doneEmpty", "error"}
Statuses == {"pending", "inProgress", "completed"}
Nobodys == [by |-> "nobody", status |-> "pending"]

VARIABLES life,        \* [Workers -> "unborn", "running" or the kind of its end]
          emitted,     \* [Workers -> its events so far]
          late,        \* [Workers -> the pauses and resumes not published yet]
          pendingEvs,  \* the events kept for the next turn
          snap,        \* [Workers -> the supervisor's state of it]
          items,       \* [Items -> [by: who claimed it, status]]
          resumed,     \* Master.resumed
          context,     \* what the last turn was told
          told,        \* [Workers -> how the turn that took its end was told of it]
          reclaimed,   \* history: the items put in progress for a worker whose end was already told
          overtaken    \* history: the workers of which a pause or resume came after the end

vars == <<life, emitted, late, pendingEvs, snap, items, resumed, context, told, reclaimed, overtaken>>

Nothing == [resumed |-> FALSE, states |-> [w \in Workers |-> "absent"], lines |-> [w \in Workers |-> "none"]]

TypeOK ==
    /\ life \in [Workers -> {"unborn", "running"} \cup Ends]
    /\ emitted \in [Workers -> 0..MaxEvents]
    /\ late \in [Workers -> SUBSET {"paused", "resumed"}]
    /\ Len(pendingEvs) <= MaxPending
    /\ \A i \in DOMAIN pendingEvs : pendingEvs[i].of \in Workers /\ pendingEvs[i].kind \in Kinds
    /\ snap \in [Workers -> {"absent", "running", "thinking", "waitingOnTool", "paused", "doneUnintegrated", "errorTerminal"}]
    /\ items \in [Items -> [by : Workers \cup {"nobody", "other"}, status : Statuses]]
    /\ resumed \in BOOLEAN
    /\ told \in [Workers -> {"no", "line", "state", "nothing", "discarded"}]
    /\ reclaimed \subseteq Items
    /\ overtaken \subseteq Workers

-----------------------------------------------------------------------------
\* The supervisor's state after an event of the kind.
StateAfter(kind) ==
    CASE kind = "turn" -> "thinking"
      [] kind = "tool" -> "waitingOnTool"
      [] kind = "paused" -> "paused"
      [] kind \in {"done", "doneEmpty"} -> "doneUnintegrated"
      [] kind = "error" -> "errorTerminal"
      [] OTHER -> "running"

\* Of the events of w that are kept, those of the kind.
Has(w, kind) == \E i \in DOMAIN pendingEvs : pendingEvs[i] = [of |-> w, kind |-> kind]

\* Mutant: whatever a worker did comes before how it ended.
DoingsFirst(w) ==
    CASE \E kind \in Progress \cup {"paused", "resumed"} : Has(w, kind) -> "progress"
      [] Has(w, "done") -> "done"
      [] Has(w, "error") -> "error"
      [] OTHER -> "none"

\* The line of w in the delta: a result, else an error, else what it has been doing; an end
\* without a text leaves no line of its own.
Line(w) ==
    CASE Has(w, "done") -> "done"
      [] ~Has(w, "done") /\ Has(w, "error") -> "error"
      [] ~Has(w, "done") /\ ~Has(w, "error") /\ \E kind \in Progress \cup {"paused", "resumed"} : Has(w, kind) -> "progress"
      [] OTHER -> "none"

EndTaken(w) == \E kind \in Ends : Has(w, kind)

-----------------------------------------------------------------------------
\* A resumed session finds the todo items as its predecessor left them.
Init ==
    /\ life = [w \in Workers |-> "unborn"]
    /\ emitted = [w \in Workers |-> 0]
    /\ late = [w \in Workers |-> {}]
    /\ pendingEvs = << >>
    /\ snap = [w \in Workers |-> "absent"]
    /\ resumed \in BOOLEAN
    /\ items \in [Items -> IF resumed THEN [by : {"nobody", "other"}, status : Statuses] ELSE {Nobodys}]
    /\ context = Nothing
    /\ told = [w \in Workers |-> "no"]
    /\ reclaimed = {}
    /\ overtaken = {}

\* handleInboxEvent for an event of a worker.
Takes(w, kind) ==
    /\ Len(pendingEvs) < MaxPending
    /\ pendingEvs' = Append(pendingEvs, [of |-> w, kind |-> kind])
    /\ snap' = [snap EXCEPT ![w] = StateAfter(kind)]

Spawned(w) ==
    /\ life[w] = "unborn"
    /\ life' = [life EXCEPT ![w] = "running"]
    /\ Takes(w, "spawn")
    /\ UNCHANGED <<emitted, late, items, resumed, context, told, reclaimed, overtaken>>

Does(w) ==
    /\ life[w] = "running"
    /\ emitted[w] < MaxEvents
    /\ emitted' = [emitted EXCEPT ![w] = @ + 1]
    /\ \E kind \in Progress \ {"spawn"} : Takes(w, kind)
    /\ UNCHANGED <<life, late, items, resumed, context, told, reclaimed, overtaken>>

\* A pause or resume, whose event is still to be published.
Interrupted(w) ==
    /\ life[w] = "running"
    /\ emitted[w] < MaxEvents
    /\ emitted' = [emitted EXCEPT ![w] = @ + 1]
    /\ \E kind \in {"paused", "resumed"} : late' = [late EXCEPT ![w] = @ \cup {kind}]
    /\ UNCHANGED <<life, pendingEvs, snap, items, resumed, context, told, reclaimed, overtaken>>

Published(w) ==
    /\ \E kind \in late[w] : Takes(w, kind) /\ late' = [late EXCEPT ![w] = @ \ {kind}]
    /\ overtaken' = IF life[w] \in Ends THEN overtaken \cup {w} ELSE overtaken
    /\ UNCHANGED <<life, emitted, items, resumed, context, told, reclaimed>>

Ended(w) ==
    /\ life[w] = "running"
    /\ \E kind \in Ends : Takes(w, kind) /\ life' = [life EXCEPT ![w] = kind]
    /\ UNCHANGED <<emitted, late, items, resumed, context, told, reclaimed, overtaken>>

\* The todo tool of the master: the item becomes this one.
Notes(i, item) ==
    /\ items' = [items EXCEPT ![i] = item]
    /\ reclaimed' = IF item.status = "inProgress" /\ item.by \in Workers /\ told[item.by] # "no"
                    THEN reclaimed \cup {i} ELSE reclaimed \ {i}
    /\ UNCHANGED <<life, emitted, late, pendingEvs, snap, resumed, context, told, overtaken>>

\* A claim is refused only when another has claimed the item; whether the worker is running,
\* or was ever spawned, is not asked.
Claims(i, owner) ==
    /\ items[i].by \in {"nobody", owner}
    /\ Notes(i, [by |-> owner, status |-> "inProgress"])

\* An update keeps the one who claimed the item.
Updates(i, status) == status # items[i].status /\ Notes(i, [items[i] EXCEPT !.status = status])

Releases(i) ==
    Notes(i, [by |-> "nobody", status |-> IF items[i].status = "inProgress" THEN "pending" ELSE items[i].status])

\* The item is removed, or the list cleared, and another one added in its place.
Renews(i, status) == Notes(i, [by |-> "nobody", status |-> status])

\* EvCancelAll: the kept events are discarded.
CancelAll ==
    /\ told' = [w \in Workers |-> IF EndTaken(w) THEN "discarded" ELSE told[w]]
    /\ pendingEvs' = << >>
    /\ UNCHANGED <<life, emitted, late, snap, items, resumed, context, reclaimed, overtaken>>

\* ReleaseAllInProgress for a resumed session, and AutoRelease for a worker whose end is kept.
Freed(i) ==
    /\ items[i].status = "inProgress"
    /\ resumed \/ (items[i].by \in Workers /\ EndTaken(items[i].by))

\* A turn begins: a resumed session's items are released first; those of the workers that ended
\* are released by the delta, after the list was written.
BuildActiveContext ==
    /\ context' = [resumed |-> resumed, states |-> snap, lines |-> [w \in Workers |-> Line(w)]]
    /\ items' = [i \in Items |-> IF Freed(i) THEN Nobodys ELSE items[i]]
    /\ reclaimed' = {i \in reclaimed : ~Freed(i)}
    /\ told' = [w \in Workers |->
           IF ~EndTaken(w) THEN told[w]
           ELSE IF Line(w) \in {"done", "error"} THEN "line"
           ELSE IF snap[w] \in {"doneUnintegrated", "errorTerminal"} THEN "state" ELSE "nothing"]
    /\ resumed' = FALSE
    /\ pendingEvs' = << >>
    /\ UNCHANGED <<life, emitted, late, snap, overtaken>>

Next ==
    \/ \E w \in Workers : Spawned(w) \/ Does(w) \/ Interrupted(w) \/ Published(w) \/ Ended(w)
    \/ \E i \in Items :
           \/ \E owner \in Workers \cup {"other"} : Claims(i, owner)
           \/ \E status \in Statuses : Updates(i, status) \/ Renews(i, status)
           \/ Releases(i)
    \/ CancelAll \/ BuildActiveContext

Spec == Init /\ [][Next]_vars

\* The master goes on taking turns.
FairSpec == Spec /\ WF_vars(BuildActiveContext)

-----------------------------------------------------------------------------
\* The first turn after a worker's end was taken in is told of a result or an error by a line,
\* whatever other events of the worker are kept with it; of an end without a text by the worker's
\* state, and of none only if a pause or a resume was published behind the end.  An end that Esc
\* discarded is not told.
EndIsTold ==
    \A w \in Workers :
        /\ told[w] # "no" /\ life[w] \in {"done", "error"} => told[w] \in {"line", "discarded"}
        /\ told[w] = "nothing" => life[w] = "doneEmpty" /\ w \in overtaken

\* What subagent.go:646 says of the end of a cancelled worker: a "Done event with empty text so
\* anything waiting on the bus (find_in_codebase, master integration loop) unblocks cleanly".  A
\* pause or a resume that comes behind it leaves the turn with nothing about the end.
NoEndIsMissed == \A w \in Workers : told[w] # "nothing"

\* The turn that takes in a worker's end gives its todo items back: what it holds in progress
\* afterwards was put in progress after that turn.
EndedHoldNothing ==
    \A i \in Items :
        /\ items[i].status = "inProgress"
        /\ items[i].by \in Workers
        /\ told[items[i].by] \in {"line", "state", "nothing"}
        => i \in reclaimed

\* What todo.go:263 says of a worker that exits, "done, error, cancelled": no item that it had
\* in progress stays so forever, even if the master forgets it.
ReleasedInTheEnd ==
    \A i \in Items, w \in Workers :
        LET stuck == items[i] = [by |-> w, status |-> "inProgress"] /\ i \notin reclaimed /\ life[w] \in Ends
        IN stuck ~> ~stuck
=============================================================================
