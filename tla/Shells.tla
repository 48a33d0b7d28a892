------------------------------- MODULE Shells -------------------------------
(***************************************************************************)
(* The shell manager (internal/agent/shellsession.go), the tools that open *)
(* and close shells (shelltools.go) and the shell panes of the UI          *)
(* (internal/tui/app.go), which follow the shells through events only.     *)
(* What goes on inside one shell is ShellSession's business.               *)
(***************************************************************************)
EXTENDS Naturals, Sequences, FiniteSets

CONSTANTS
  Clients,      (* tool calls that may be in progress at once               *)
  Prior,        (* number of shells of the session that is resumed          *)
  MaxShells,    (* bound of the model: shells, the prior ones included      *)
  MaxOutputs    (* bound of the model: writes of output                     *)

ShellsConstants ==
  /\ IsFiniteSet(Clients)
  /\ {Prior, MaxShells, MaxOutputs} \subseteq Nat /\ Prior <= MaxShells

VARIABLES
  nextID,       (* ShellManager.nextID                                      *)
  shells,       (* keys of ShellManager.shells                              *)
  status,       (* per shell: its status, "none" before it is started       *)
  waits,        (* per shell: what its Wait goroutine has still to do       *)
  opening,      (* per client: the shell it is opening and the step         *)
  killing,      (* shells that CancelAll has still to close                 *)
  chan,         (* the UI's subscription                                    *)
  shown,        (* App.shellStatus                                          *)
  panes,        (* keys of App.shellBufs                                    *)
  outputs,      (* history: writes so far                                   *)
  early         (* history: shells that ended before they were announced    *)

ui == <<shown, panes>>
vars == <<nextID, shells, status, waits, opening, killing, chan, ui, outputs, early>>

Ids == 1..MaxShells
NotOpening == [id |-> 0, step |-> "none"]

\* A new session or a resumed one: LoadShellHistory shows the old shells, which
\* are gone, and SetNextShellID keeps their ids from being given out again.
Init ==
  /\ nextID = Prior /\ shells = {}
  /\ status = [i \in Ids |-> "none"]
  /\ waits = [i \in Ids |-> "process"]
  /\ opening = [c \in Clients |-> NotOpening]
  /\ killing = {} /\ chan = <<>>
  /\ shown = [i \in Ids |-> IF i <= Prior THEN "exited" ELSE "none"]
  /\ panes = 1..Prior
  /\ outputs = 0 /\ early = {}

Publish(kind, i) == chan' = Append(chan, [kind |-> kind, id |-> i])

IsOpen == {i \in shells : status[i] = "open"}

\* GetOrFallback: the shell of that name, else the only one that is open.
Found(i) ==
  IF i \in shells THEN {i} ELSE IF Cardinality(IsOpen) = 1 THEN IsOpen ELSE {}

\* Open takes an id under the lock and starts bash outside of it ...
OpenStarts(c) ==
  /\ opening[c] = NotOpening
  /\ nextID < MaxShells
  /\ nextID' = nextID + 1
  /\ status' = [status EXCEPT ![nextID'] = "open"]
  /\ opening' = [opening EXCEPT ![c] = [id |-> nextID', step |-> "store"]]
  /\ UNCHANGED <<shells, waits, killing, chan, ui, outputs, early>>

\* ... then enters it in the map ...
OpenStores(c) ==
  /\ opening[c].step = "store"
  /\ shells' = shells \cup {opening[c].id}
  /\ opening' = [opening EXCEPT ![c].step = "announce"]
  /\ UNCHANGED <<nextID, status, waits, killing, chan, ui, outputs, early>>

\* ... and then tells of it.
OpenAnnounces(c) ==
  /\ opening[c].step = "announce"
  /\ Publish("opened", opening[c].id)
  /\ early' = IF status[opening[c].id] = "open" THEN early ELSE early \cup {opening[c].id}
  /\ opening' = [opening EXCEPT ![c] = NotOpening]
  /\ UNCHANGED <<nextID, shells, status, waits, killing, ui, outputs>>

\* shell_exec without a shell to run in opens one of its own.
ExecOpens(c) ==
  /\ \E i \in 0..MaxShells : Found(i) = {}
  /\ OpenStarts(c)

\* write: the event is published under the session's lock.  What bash or its
\* children wrote before the end may be stored after it.
Output(i) ==
  /\ status[i] # "none"
  /\ outputs < MaxOutputs
  /\ outputs' = outputs + 1
  /\ Publish("output", i)
  /\ UNCHANGED <<nextID, shells, status, waits, opening, killing, ui, early>>

\* close, under the session's lock; bash is killed.
CloseOne(i) ==
  IF status[i] = "open"
    THEN status' = [status EXCEPT ![i] = "closed"] /\ Publish("closed", i)
    ELSE UNCHANGED <<status, chan>>

\* close_shell.
CloseShell(i) ==
  /\ i \in shells
  /\ CloseOne(i)
  /\ UNCHANGED <<nextID, shells, waits, opening, killing, ui, outputs, early>>

\* CancelAll, from the kill switch of the UI or at the end of the program,
\* collects the shells under the lock and closes them one by one.
CancelAll ==
  /\ killing = {} /\ shells # {}
  /\ killing' = shells
  /\ UNCHANGED <<nextID, shells, status, waits, opening, chan, ui, outputs, early>>

CancelNext(i) ==
  /\ i \in killing
  /\ killing' = killing \ {i}
  /\ CloseOne(i)
  /\ UNCHANGED <<nextID, shells, waits, opening, ui, outputs, early>>

\* bash has ended, by itself or killed: the Wait goroutine changes the status
\* unless the shell was closed, and tells of the end in either case.
WaitReturns(i) ==
  /\ waits[i] = "process" /\ status[i] # "none"
  /\ waits' = [waits EXCEPT ![i] = "publish"]
  /\ status' = [status EXCEPT ![i] = IF @ = "open" THEN "exited" ELSE @]
  /\ UNCHANGED <<nextID, shells, opening, killing, chan, ui, outputs, early>>

WaitPublishes(i) ==
  /\ waits[i] = "publish"
  /\ waits' = [waits EXCEPT ![i] = "done"]
  /\ Publish("exited", i)
  /\ UNCHANGED <<nextID, shells, status, opening, killing, ui, outputs, early>>

-----------------------------------------------------------------------------
(* The UI. *)

\* Mutant of Opens: any output opens the pane anew.
OpensAlways(e) == e.kind \in {"opened", "output"}

\* The events that open a pane, each only if there is none yet.
Opens(e) == e.kind \in {"opened", "output"} /\ e.id \notin panes

\* An end is noted even before there is a pane, and the pane then opens as open.
HandleEvent ==
  /\ chan # <<>>
  /\ LET e == Head(chan) IN
       /\ shown' = IF Opens(e) THEN [shown EXCEPT ![e.id] = "open"]
                   ELSE IF e.kind \in {"exited", "closed"} THEN [shown EXCEPT ![e.id] = e.kind]
                   ELSE shown
       /\ panes' = IF Opens(e) THEN panes \cup {e.id} ELSE panes
  /\ chan' = Tail(chan)
  /\ UNCHANGED <<nextID, shells, status, waits, opening, killing, outputs, early>>

Next ==
  \/ \E c \in Clients : OpenStarts(c) \/ OpenStores(c) \/ OpenAnnounces(c) \/ ExecOpens(c)
  \/ \E i \in Ids : Output(i) \/ CloseShell(i) \/ CancelNext(i) \/ WaitReturns(i)
                      \/ WaitPublishes(i)
  \/ CancelAll
  \/ HandleEvent

Spec == Init /\ [][Next]_vars

-----------------------------------------------------------------------------
TypeOK ==
  /\ nextID \in Prior..MaxShells /\ shells \subseteq Ids
  /\ status \in [Ids -> {"none", "open", "exited", "closed"}]
  /\ waits \in [Ids -> {"process", "publish", "done"}]
  /\ opening \in [Clients -> [id : 0..MaxShells, step : {"none", "store", "announce"}]]
  /\ killing \subseteq shells
  /\ shown \in [Ids -> {"none", "open", "exited", "closed"}]
  /\ panes \subseteq Ids

\* A shell that has ended is not shown as open once the UI has caught up, whether
\* it ended by itself, was closed or was killed with all the others, and whatever
\* output was stored late; unless it ended before Open had told of it.
EndedIsShown ==
  \A i \in Ids :
    /\ status[i] \in {"exited", "closed"} /\ waits[i] = "done" /\ i \notin early
    /\ \A n \in DOMAIN chan : chan[n].id # i
    /\ \A c \in Clients : opening[c].id # i
    => shown[i] # "open"

\* Every shell the manager can hand out has an id no shell of the resumed session
\* had, and no two openers share one.
IdsAreFresh ==
  /\ \A i \in shells : i > Prior
  /\ \A c, d \in Clients : c # d /\ opening[c].id = opening[d].id => opening[c].id = 0
=============================================================================
