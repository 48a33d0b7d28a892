------------------------------ MODULE UiProofs ------------------------------
(***************************************************************************)
(* Proofs about what the user sees and types, for all numbers of messages, *)
(* workers, shells, todos, providers, keys and entries and all capacities: *)
(* the components of MCUi one after the other, each with its inductive     *)
(* invariant, and at the end the invariants of MCUi.  The lemmas of a      *)
(* component speak of its instance in MCUi, whose variables have the names *)
(* they have there.                                                        *)
(*                                                                         *)
(* Supervisor.  IInv says why a snapshot can be trusted to tell a first    *)
(* stall from a later one: a snapshot that counts a stall, or shows its    *)
(* worker as stalled, is of a worker the master has done something about   *)
(* since its last progress.  It needs to know that a shell, which says     *)
(* nothing but that it was opened, never gets into a state the tick looks  *)
(* at: the tick looks at all snapshots, and a shell's id sorts among the   *)
(* workers'.                                                               *)
(*                                                                         *)
(* Tui.  TuiInv: what was read is older than what waits in masterIn, and   *)
(* that is older than what waits in the queue; only so does a message that *)
(* goes past the queue when the master is idle overtake none.              *)
(*                                                                         *)
(* Panes.  PanesInv: the last event that the channel holds of a worker     *)
(* that has said its end is that end, or there is none and its pane shows  *)
(* the end, whatever a pause, a resume or a kill says beside it.           *)
(*                                                                         *)
(* Sidebar.  SidebarInv: a "more" row that is viewed, or from which a      *)
(* popover was opened, still has a worker or shell behind it, so that the  *)
(* popover has an entry to mark; and what it marks is what is viewed.      *)
(*                                                                         *)
(* Settings.  SettingsInv: a form that is kept behind the list was made    *)
(* for the providers that are enabled.                                     *)
(*                                                                         *)
(* Prompt.  PromptInv: the entries in memory are the last of the file, the *)
(* ones that a restart reads and a rewrite keeps.                          *)
(*                                                                         *)
(* Transcript.  TranscriptInv: a pane's buffer and the answer behind it    *)
(* hold what was said in its order, thoughts are kept aside from it, and   *)
(* every number given is in a pane, among the thoughts, or was dropped.    *)
(*                                                                         *)
(* LlamaDSL.  LlamaInv: until the stream ends the parser of the chunks and *)
(* that of the text in one piece are in the same call, with the same tools *)
(* found, and what each has shown and holds back is the same text.         *)
(*                                                                         *)
(* ThinkStripper.  ThinkInv: whatever follows, a reading of the answer     *)
(* from its first character stands where the filter does, before at most   *)
(* two characters that may begin a tag, with the same text shown.          *)
(***************************************************************************)
EXTENDS MCUi, FiniteSetTheorems, FunctionTheorems, SequenceTheorems,
        WellFoundedInduction, TLAPS

-----------------------------------------------------------------------------
(* Supervisor. *)

\* What a worker and a shell can publish.
WorkerKinds ==
  {"spawn", "turn_start", "tool_call", "tool_done", "inbox", "done", "error", "paused", "resumed"}
Events == [id : Workers, kind : WorkerKinds] \cup [id : Shells, kind : {"shell_opened"}]

States ==
  Watched \cup {"absent", "unknown", "stalled", "paused", "done_unintegrated", "error_terminal"}

Types ==
  /\ snap \in [Ids -> [state : States, stalls : 0..MaxStalls]]
  /\ silent \in [Ids -> BOOLEAN]
  /\ truth \in [Workers -> {"unborn", "running", "paused", "done", "error"}]
  /\ inbox \in [Workers -> 0..InboxSize]
  /\ steps \in [Workers -> 0..MaxSteps]
  /\ chan \in Seq(Events)
  /\ told \in [Workers -> {"none", "nudged", "escalated"}]

\* The tick looks at workers only.
ShellsUnwatched == \A sh \in Shells : snap[sh].state \in {"absent", "unknown"}

\* The master has done something about every stall since the last progress.
StallsAreTold ==
  \A w \in Workers : told[w] = "none" => snap[w].state # "stalled" /\ snap[w].stalls = 0

IInv ==
  /\ Types
  /\ ShellsUnwatched
  /\ StallsAreTold
  /\ NudgedFirst

-----------------------------------------------------------------------------
\* A set of numbers that is not empty has a least one: Min, which the tick takes for
\* the first of the silent workers, picks one of them.
LEMMA LeastIsOne ==
  ASSUME NEW S \in SUBSET Nat, S # {}
  PROVE  Min(S) \in S
<1> DEFINE R == {ss \in Nat \X Nat : ss[1] < ss[2]}
<1>1. IsWellFoundedOn(R, Nat)
  BY NatLessThanWellFounded DEF OpToRel
<1>2. \A x, y \in Nat : x < y => <<x, y>> \in R
  OBVIOUS
<1> HIDE DEF R
<1>3. PICK x \in S : \A y \in S : ~(<<y, x>> \in R)
  BY <1>1, WFMin
<1>4. ASSUME NEW y \in S
      PROVE  x <= y
  <2>1. x \in Nat /\ y \in Nat /\ <<y, x>> \notin R
    BY <1>3
  <2>2. ~(y < x)
    BY <1>2, <2>1, Zenon
  <2> QED
    BY <2>1, <2>2
<1> QED
  BY <1>4 DEF Min

\* The constants.
LEMMA ConstantFacts ==
  /\ Workers \in SUBSET Nat /\ Shells \cap Workers = {}
  /\ InboxSize \in Nat /\ MaxSteps \in Nat /\ MaxStalls \in Nat /\ MaxStalls >= 2
BY SupervisorConstants

\* Publishing adds an event or drops it.
LEMMA SaysType ==
  ASSUME chan \in Seq(Events), NEW i, NEW what, Says(i, what), [id |-> i, kind |-> what] \in Events
  PROVE  chan' \in Seq(Events)
BY DEF Says

\* What a worker publishes is an event the forwarder knows.
LEMMA WorkerSays ==
  ASSUME NEW w \in Workers, NEW what \in WorkerKinds
  PROVE  [id |-> w, kind |-> what] \in Events
BY DEF Events

\* No worker has been observed, and the master has been told of none.
LEMMA InitIInv == ASSUME Init PROVE IInv
<1> USE ConstantFacts DEF Init
<1>1. Types
  BY DEF Types, States, Watched, Ids, Events
<1>2. ShellsUnwatched /\ StallsAreTold
  BY DEF ShellsUnwatched, StallsAreTold, Ids
<1> QED
  BY <1>1, <1>2 DEF IInv, NudgedFirst

-----------------------------------------------------------------------------
\* What the workers and shells do changes no snapshot and no account of the master's.
LEMMA OutsideStep ==
  ASSUME IInv,
         \/ \E w \in Workers : Spawn(w) \/ Works(w) \/ DrainInbox(w) \/ Ends(w) \/ PauseOrResume(w)
         \/ \E sh \in Shells : ShellEvent(sh)
  PROVE  IInv'
<1> USE ConstantFacts DEF IInv
<1>1. UNCHANGED <<snap, silent, told, escalated>>
  BY DEF Spawn, Works, DrainInbox, Ends, PauseOrResume, Becomes, ShellEvent
<1>2. /\ chan' \in Seq(Events)
      /\ truth' \in [Workers -> {"unborn", "running", "paused", "done", "error"}]
      /\ inbox' \in [Workers -> 0..InboxSize]
      /\ steps' \in [Workers -> 0..MaxSteps]
  <2> USE DEF Types
  <2>1. ASSUME NEW w \in Workers, NEW what \in WorkerKinds, Says(w, what)
        PROVE  chan' \in Seq(Events)
    BY <2>1, WorkerSays, SaysType
  <2>2. ASSUME NEW w \in Workers, Spawn(w) PROVE <1>2!:
    BY <2>1, <2>2 DEF Spawn, WorkerKinds
  <2>3. ASSUME NEW w \in Workers, Works(w) PROVE <1>2!:
    <3>1. PICK what \in {"turn_start", "tool_call", "tool_done"} : Says(w, what)
      BY <2>3 DEF Works
    <3>2. chan' \in Seq(Events)
      BY <2>1, <3>1 DEF WorkerKinds
    <3> QED
      BY <2>3, <3>2 DEF Works
  <2>4. ASSUME NEW w \in Workers, DrainInbox(w) PROVE <1>2!:
    BY <2>1, <2>4 DEF DrainInbox, WorkerKinds
  <2>5. ASSUME NEW w \in Workers, NEW what \in {"done", "error", "paused", "resumed"},
               NEW way \in {"done", "error", "paused", "running"}, Becomes(w, way, what)
        PROVE  /\ chan' \in Seq(Events)
               /\ truth' \in [Workers -> {"unborn", "running", "paused", "done", "error"}]
               /\ inbox' \in [Workers -> 0..InboxSize]
    BY <2>1, <2>5 DEF Becomes, WorkerKinds
  <2>6. ASSUME NEW w \in Workers, Ends(w) PROVE <1>2!:
    BY <2>5, <2>6 DEF Ends
  <2>7. ASSUME NEW w \in Workers, PauseOrResume(w) PROVE <1>2!:
    <3>1. steps' \in [Workers -> 0..MaxSteps]
      BY <2>7 DEF PauseOrResume
    <3> QED
      BY <2>5, <2>7, <3>1 DEF PauseOrResume
  <2>8. ASSUME NEW sh \in Shells, ShellEvent(sh) PROVE <1>2!:
    <3>1. [id |-> sh, kind |-> "shell_opened"] \in Events
      BY DEF Events
    <3>2. chan' \in Seq(Events)
      BY <2>8, <3>1, SaysType DEF ShellEvent
    <3> QED
      BY <2>8, <3>2 DEF ShellEvent
  <2> QED
    BY <2>2, <2>3, <2>4, <2>6, <2>7, <2>8
<1>3. Types'
  BY <1>1, <1>2 DEF Types
<1> QED
  BY <1>1, <1>3 DEF ShellsUnwatched, StallsAreTold, NudgedFirst

\* The passing of time makes a worker silent and changes nothing else.
LEMMA TimeStep ==
  ASSUME IInv, NEW w \in Workers, TimePasses(w)
  PROVE  IInv'
<1>1. UNCHANGED <<snap, truth, inbox, steps, chan, told, escalated>>
  BY DEF TimePasses
<1>2. silent' \in [Ids -> BOOLEAN]
  BY DEF IInv, Types, TimePasses
<1> QED
  BY <1>1, <1>2 DEF IInv, Types, ShellsUnwatched, StallsAreTold, NudgedFirst

\* An event that is progress ends the count of stalls and what the master knows of
\* them, both at once; one that is not leaves the worker in no state the tick looks at.
LEMMA ObserveStep ==
  ASSUME IInv, Observe
  PROVE  IInv'
<1> DEFINE e == Head(chan)
<1> USE ConstantFacts DEF IInv
<1>1. /\ e \in Events /\ chan' \in Seq(Events)
      /\ snap' = [snap EXCEPT ![e.id] = Observed(@, e.kind)]
      /\ silent' = [silent EXCEPT ![e.id] = @ /\ ~Progress(e.kind) /\ snap[e.id].state # "absent"]
      /\ told' = IF e.id \in Workers /\ Progress(e.kind)
                   THEN [told EXCEPT ![e.id] = "none"] ELSE told
      /\ UNCHANGED <<truth, inbox, steps, escalated>>
  BY DEF Observe, Types
<1> HIDE DEF e
<1>2. e.id \in Ids
  BY <1>1 DEF Events, Ids
<1>3. snap[e.id].state \in States /\ snap[e.id].stalls \in 0..MaxStalls
  BY <1>2 DEF Types
<1>4. /\ Observed(snap[e.id], e.kind).state \in States
      /\ Observed(snap[e.id], e.kind).stalls \in 0..MaxStalls
      /\ Observed(snap[e.id], e.kind) \in [state : States, stalls : 0..MaxStalls]
  BY <1>1, <1>3 DEF Observed, StateAfter, States, Watched, Events, WorkerKinds
<1>5. Types'
  <2>1. snap' \in [Ids -> [state : States, stalls : 0..MaxStalls]]
    BY <1>1, <1>2, <1>4 DEF Types
  <2>2. silent' \in [Ids -> BOOLEAN]
    BY <1>1, <1>2 DEF Types
  <2>3. told' \in [Workers -> {"none", "nudged", "escalated"}]
    BY <1>1 DEF Types
  <2> QED
    BY <1>1, <2>1, <2>2, <2>3 DEF Types
<1>6. ShellsUnwatched'
  <2>1. CASE e.id \in Shells
    <3>1. e.kind = "shell_opened"
      BY <1>1, <2>1 DEF Events
    <3>2. Observed(snap[e.id], e.kind).state \in {"absent", "unknown"}
      BY <2>1, <3>1 DEF Observed, StateAfter, ShellsUnwatched
    <3> QED
      BY <1>1, <1>2, <3>2 DEF ShellsUnwatched, Types, Ids
  <2>2. CASE e.id \notin Shells
    BY <1>1, <2>2 DEF ShellsUnwatched, Types, Ids
  <2> QED
    BY <2>1, <2>2
<1>7. StallsAreTold'
  <2> SUFFICES ASSUME NEW w \in Workers, told'[w] = "none"
               PROVE  snap'[w].state # "stalled" /\ snap'[w].stalls = 0
    BY DEF StallsAreTold
  <2>1. CASE e.id # w
    BY <1>1, <2>1 DEF StallsAreTold, Types, Ids
  <2>2. CASE e.id = w
    <3>1. e.kind \in WorkerKinds
      BY <1>1, <2>2 DEF Events
    <3>2. snap'[w] = Observed(snap[w], e.kind)
      BY <1>1, <1>2, <2>2 DEF Types
    <3>3. Observed(snap[w], e.kind).state # "stalled"
      BY <3>1 DEF Observed, StateAfter, WorkerKinds
    <3>4. Observed(snap[w], e.kind).stalls = 0
      <4>1. CASE Progress(e.kind)
        BY <4>1 DEF Observed
      <4>2. CASE ~Progress(e.kind)
        BY <1>1, <4>2 DEF Observed, StallsAreTold
      <4> QED
        BY <4>1, <4>2
    <3> QED
      BY <3>2, <3>3, <3>4
  <2> QED
    BY <2>1, <2>2
<1> QED
  BY <1>1, <1>5, <1>6, <1>7 DEF NudgedFirst

\* The tick acts on a worker, and marks it stalled and told together.
LEMMA StalledIsWorker ==
  ASSUME IInv, TickEnabled
  PROVE  Stalled \in Workers
<1> USE ConstantFacts DEF IInv
<1>1. Silent \in SUBSET Workers
  BY DEF Silent, Watched, ShellsUnwatched, Ids
<1>2. Silent \in SUBSET Nat /\ Silent # {}
  BY <1>1 DEF TickEnabled
<1> QED
  BY <1>1, <1>2, LeastIsOne DEF Stalled

\* The stall of a snapshot and what the master is told of it change together: a
\* stalled worker is one the master was told of, before and after.
LEMMA StallStep ==
  ASSUME IInv, NEW w \in Workers, NEW what \in {"nudged", "escalated"},
         Stall(w), told' = [told EXCEPT ![w] = what],
         inbox' \in [Workers -> 0..InboxSize], UNCHANGED <<silent, truth, steps, chan>>
  PROVE  Types' /\ ShellsUnwatched' /\ StallsAreTold'
<1> USE ConstantFacts DEF IInv, Stall
<1>1. w \in Ids
  BY DEF Ids
<1>2. snap[w].stalls \in 0..MaxStalls
  BY <1>1 DEF Types
<1>3. Count(snap[w].stalls) \in 0..MaxStalls
  BY <1>2 DEF Count
<1>4. snap' \in [Ids -> [state : States, stalls : 0..MaxStalls]]
  <2> DEFINE S == [state : States, stalls : 0..MaxStalls]
             v == [snap[w] EXCEPT !.state = "stalled", !.stalls = Count(@)]
  <2>1. snap \in [Ids -> S] /\ snap[w] \in S
    BY <1>1 DEF Types
  <2>2. v \in S
    BY <1>3, <2>1 DEF States
  <2>3. snap' = [snap EXCEPT ![w] = v]
    OBVIOUS
  <2> HIDE DEF S, v
  <2> QED
    BY <2>1, <2>2, <2>3 DEF S
<1>5. Types'
  BY <1>4 DEF Types
<1>6. ShellsUnwatched'
  BY DEF ShellsUnwatched, Types, Ids
<1>7. StallsAreTold'
  BY DEF StallsAreTold, Types, Ids
<1> QED
  BY <1>5, <1>6, <1>7

\* A nudge is sent at the first stall, and leaves what was said of escalation.
LEMMA NudgeStep ==
  ASSUME IInv, TickNudges
  PROVE  IInv'
<1> DEFINE w == Stalled
<1>1. w \in Workers
  BY StalledIsWorker DEF TickNudges
<1>2. /\ FirstStall(w) /\ CanSend(w) /\ Stall(w)
      /\ inbox' = [inbox EXCEPT ![w] = @ + 1]
      /\ told' = [told EXCEPT ![w] = IF @ = "none" THEN "nudged" ELSE @]
      /\ UNCHANGED <<silent, truth, steps, chan, escalated>>
  BY DEF TickNudges
<1> HIDE DEF w
<1>3. PICK what \in {"nudged", "escalated"} : told' = [told EXCEPT ![w] = what]
  BY <1>1, <1>2 DEF IInv, Types
<1>4. inbox' \in [Workers -> 0..InboxSize]
  BY <1>1, <1>2, ConstantFacts DEF IInv, Types, CanSend
<1> QED
  BY <1>1, <1>2, <1>3, <1>4, StallStep DEF IInv, NudgedFirst

\* A stall that is not the first one was told before: an escalation comes behind a
\* nudge, or the inbox of the worker had no room for one.
LEMMA EscalateStep ==
  ASSUME IInv, TickEscalates
  PROVE  IInv'
<1> DEFINE w == Stalled
<1>1. w \in Workers
  BY StalledIsWorker DEF TickEscalates
<1>2. /\ ~(FirstStall(w) /\ CanSend(w)) /\ Stall(w)
      /\ escalated' = (told[w] # "none" \/ ~CanSend(w))
      /\ told' = [told EXCEPT ![w] = "escalated"]
      /\ UNCHANGED <<silent, truth, inbox, steps, chan>>
  BY DEF TickEscalates
<1> HIDE DEF w
<1>3. inbox' \in [Workers -> 0..InboxSize]
  BY <1>2 DEF IInv, Types
<1>4. told[w] # "none" \/ ~CanSend(w)
  BY <1>1, <1>2 DEF IInv, StallsAreTold, FirstStall
<1> QED
  BY <1>1, <1>2, <1>3, <1>4, StallStep DEF IInv, NudgedFirst

\* Every step preserves the inductive invariant.
LEMMA StepIInv == ASSUME IInv, [Next]_vars PROVE IInv'
<1>1. CASE Next
  BY <1>1, OutsideStep, TimeStep, ObserveStep, NudgeStep, EscalateStep DEF Next
<1>2. CASE UNCHANGED vars
  BY <1>2 DEF vars, IInv, Types, ShellsUnwatched, StallsAreTold, NudgedFirst
<1> QED
  BY <1>1, <1>2

\* The inductive invariant holds in every state.
LEMMA Invariance == Spec => []IInv
<1>1. Init => IInv
  BY InitIInv
<1>2. IInv /\ [Next]_vars => IInv'
  BY StepIInv
<1> QED
  BY <1>1, <1>2, PTL DEF Spec

\* The types of the supervisor's state, for every number of workers and shells.
THEOREM TypeCorrect == Spec => []TypeOK
<1>1. IInv => TypeOK
  BY DEF IInv, Types, TypeOK, States
<1> QED
  BY <1>1, Invariance, PTL

\* The master is told to replace a worker only after a nudge since the worker's last
\* progress, or when the worker could not be nudged: Supervisor's StallCount and state,
\* which TickAt reads, always agree with what the master did.
THEOREM StallsAreNudgedFirst == Spec => []NudgedFirst
<1>1. IInv => NudgedFirst
  BY DEF IInv
<1> QED
  BY <1>1, Invariance, PTL

-----------------------------------------------------------------------------
(* Tui. *)

\* What Tui asks of its constants.
LEMMA TuiBounds == Tui!TuiConstants
BY MCUiConstants

TuiEvent == [kind : {"user", "end", "cancelAll"}, msg : 0..MaxMsgs]

\* Messages in the order they were typed: those that were read, then those in masterIn,
\* then those in the queue.
TuiRising(s) == \A i, j \in DOMAIN s : i < j => s[i] < s[j]
TuiBefore(s, t) == \A i \in DOMAIN s, j \in DOMAIN t : s[i] < t[j]
InboxRises ==
  /\ \A i \in DOMAIN tuiInbox : tuiInbox[i].kind = "user" => 1 <= tuiInbox[i].msg /\ tuiInbox[i].msg <= typed
  /\ \A i, j \in DOMAIN tuiInbox :
       i < j /\ tuiInbox[i].kind = "user" /\ tuiInbox[j].kind = "user" => tuiInbox[i].msg < tuiInbox[j].msg
  /\ \A i \in DOMAIN tuiInbox : tuiInbox[i].kind = "user" =>
       /\ \A j \in DOMAIN read : read[j] < tuiInbox[i].msg
       /\ \A j \in DOMAIN queue : tuiInbox[i].msg < queue[j]
  /\ \A i \in DOMAIN tuiInbox : tuiInbox[i].kind # "user" => tuiInbox[i] \in {Tui!WorkerEnd, Tui!CancelAll}

TuiTypes ==
  /\ queue \in Seq(1..MaxMsgs) /\ read \in Seq(1..MaxMsgs)
  /\ tuiInbox \in Seq(TuiEvent) /\ Len(tuiInbox) <= InboxCap /\ typed \in 0..MaxMsgs

TuiInv ==
  /\ Tui!TypeOK /\ InboxRises
  /\ TuiRising(read) /\ TuiRising(queue) /\ TuiBefore(read, queue)
  /\ \A i \in DOMAIN queue : queue[i] <= typed
  /\ \A i \in DOMAIN read : read[i] <= typed
  /\ phase = "stream" => turn < MaxTurns

\* Nobody has said anything.
LEMMA InitTui == ASSUME Tui!Init PROVE TuiInv
<1>1. /\ queue = <<>> /\ tuiInbox = <<>> /\ read = <<>> /\ tuiEvents = <<>> /\ typed = 0 /\ stirs = 0 /\ turn = 0
      /\ DOMAIN queue = {} /\ DOMAIN tuiInbox = {} /\ DOMAIN read = {} /\ Len(tuiInbox) = 0
  BY DEF Tui!Init
<1>2. 0 \in 0..MaxMsgs /\ 0 \in 0..MaxStirs /\ 0 \in 0..MaxTurns /\ 0 <= InboxCap
  BY TuiBounds DEF Tui!TuiConstants
<1>3. Tui!TypeOK
  <2>1. \A S : <<>> \in Seq(S)
    OBVIOUS
  <2>2. tuiInbox \in Seq(TuiEvent) /\ queue \in Seq(1..MaxMsgs) /\ read \in Seq(1..MaxMsgs)
        /\ tuiEvents \in Seq({"start", "done", "error"})
    BY <1>1, <2>1
  <2>3. typed \in 0..MaxMsgs /\ stirs \in 0..MaxStirs /\ turn \in 0..MaxTurns /\ Len(tuiInbox) <= InboxCap
    BY <1>1, <1>2
  <2>4. /\ busy = FALSE /\ stopping = FALSE /\ tuiSilent = FALSE /\ tuiPaused = FALSE
        /\ phase = "idle" /\ turnCtx = "none"
    BY DEF Tui!Init
  <2> QED
    BY <2>2, <2>3, <2>4 DEF Tui!TypeOK, TuiEvent
<1>4. phase = "idle"
  BY DEF Tui!Init
<1> QED
  BY <1>1, <1>3, <1>4 DEF TuiInv, InboxRises, TuiRising, TuiBefore

\* A sequence with one more element, and one without its first.
LEMMA TuiLonger ==
  ASSUME NEW S, NEW s \in Seq(S), NEW e \in S
  PROVE  /\ Append(s, e) \in Seq(S) /\ Len(Append(s, e)) = Len(s) + 1 /\ Len(s) \in Nat
         /\ \A i \in DOMAIN Append(s, e) :
              \/ i \in DOMAIN s /\ Append(s, e)[i] = s[i] /\ i < Len(s) + 1
              \/ i = Len(s) + 1 /\ Append(s, e)[i] = e
         /\ \A i \in DOMAIN s : i \in Nat /\ i < Len(s) + 1
OBVIOUS

\* A sequence without its first element.
LEMMA TuiShorter ==
  ASSUME NEW S, NEW s \in Seq(S), s # <<>>
  PROVE  /\ Tail(s) \in Seq(S) /\ Len(Tail(s)) = Len(s) - 1 /\ Len(s) \in Nat
         /\ Head(s) = s[1] /\ Head(s) \in S /\ 1 \in DOMAIN s
         /\ \A i \in DOMAIN Tail(s) : i + 1 \in DOMAIN s /\ Tail(s)[i] = s[i + 1] /\ 1 < i + 1
         /\ \A i, j \in DOMAIN Tail(s) : i < j => i + 1 < j + 1
OBVIOUS

\* An event goes into masterIn.
LEMMA TuiPosted ==
  ASSUME TuiInv, NEW e \in TuiEvent, Tui!Fits, tuiInbox' = Append(tuiInbox, e), read' = read,
         queue' \in Seq(1..MaxMsgs), TuiRising(queue'), TuiBefore(read, queue'), typed' \in 0..MaxMsgs, typed <= typed',
         \A i \in DOMAIN queue' : queue'[i] <= typed',
         \A i \in DOMAIN tuiInbox, j \in DOMAIN queue' : tuiInbox[i].kind = "user" => tuiInbox[i].msg < queue'[j],
         \/ e \in {Tui!WorkerEnd, Tui!CancelAll}
         \/ /\ e.kind = "user" /\ 1 <= e.msg /\ e.msg <= typed'
            /\ \A i \in DOMAIN tuiInbox : tuiInbox[i].kind = "user" => tuiInbox[i].msg < e.msg
            /\ \A j \in DOMAIN read : read[j] < e.msg
            /\ \A j \in DOMAIN queue' : e.msg < queue'[j]
  PROVE  /\ tuiInbox' \in Seq(TuiEvent) /\ Len(tuiInbox') <= InboxCap
         /\ InboxRises' /\ TuiRising(read') /\ TuiRising(queue') /\ TuiBefore(read', queue')
         /\ \A i \in DOMAIN queue' : queue'[i] <= typed'
         /\ \A i \in DOMAIN read' : read'[i] <= typed'
<1>1. /\ tuiInbox \in Seq(TuiEvent) /\ read \in Seq(1..MaxMsgs) /\ typed \in 0..MaxMsgs /\ MaxMsgs \in Nat /\ InboxCap \in Nat
  BY TuiBounds DEF TuiInv, Tui!TypeOK, Tui!TuiConstants, TuiEvent
<1>2. /\ tuiInbox' \in Seq(TuiEvent) /\ Len(tuiInbox') = Len(tuiInbox) + 1 /\ Len(tuiInbox) \in Nat
      /\ \A i \in DOMAIN tuiInbox' :
           \/ i \in DOMAIN tuiInbox /\ tuiInbox'[i] = tuiInbox[i] /\ i < Len(tuiInbox) + 1
           \/ i = Len(tuiInbox) + 1 /\ tuiInbox'[i] = e
      /\ \A i \in DOMAIN tuiInbox : i \in Nat /\ i < Len(tuiInbox) + 1
  BY <1>1, TuiLonger
<1>3. Len(tuiInbox') <= InboxCap
  BY <1>1, <1>2 DEF Tui!Fits
<1>4. \A i \in DOMAIN tuiInbox : tuiInbox[i].msg \in Nat
  <2> SUFFICES ASSUME NEW i \in DOMAIN tuiInbox PROVE tuiInbox[i].msg \in Nat
    OBVIOUS
  <2>1. tuiInbox[i] \in TuiEvent
    BY <1>1
  <2>2. tuiInbox[i].msg \in 0..MaxMsgs
    BY <2>1 DEF TuiEvent
  <2> QED
    BY <1>1, <2>2
<1>5. e.kind # "user" <=> e \in {Tui!WorkerEnd, Tui!CancelAll}
  BY DEF Tui!WorkerEnd, Tui!CancelAll
<1>6. \A i \in DOMAIN tuiInbox : tuiInbox[i].kind = "user" =>
        /\ 1 <= tuiInbox[i].msg /\ tuiInbox[i].msg <= typed'
        /\ \A j \in DOMAIN read : read[j] < tuiInbox[i].msg
  <2> SUFFICES ASSUME NEW i \in DOMAIN tuiInbox, tuiInbox[i].kind = "user"
               PROVE  /\ 1 <= tuiInbox[i].msg /\ tuiInbox[i].msg <= typed'
                      /\ \A j \in DOMAIN read : read[j] < tuiInbox[i].msg
    OBVIOUS
  <2>1. /\ 1 <= tuiInbox[i].msg /\ tuiInbox[i].msg <= typed
        /\ \A j \in DOMAIN read : read[j] < tuiInbox[i].msg
    BY DEF TuiInv, InboxRises
  <2>2. tuiInbox[i].msg \in Nat /\ typed \in Nat /\ typed' \in Nat
    <3>1. tuiInbox[i].msg \in Nat
      BY <1>4
    <3> QED
      BY <1>1, <3>1
  <2>3. tuiInbox[i].msg <= typed'
    <3> DEFINE m == tuiInbox[i].msg
    <3>1. m \in Nat /\ m <= typed
      BY <2>1, <2>2
    <3> HIDE DEF m
    <3>2. m <= typed'
      BY <2>2, <3>1
    <3> QED
      BY <3>2 DEF m
  <2> QED
    BY <2>1, <2>3
<1>7. ASSUME NEW i \in DOMAIN tuiInbox'
      PROVE  /\ tuiInbox'[i].kind = "user" => /\ 1 <= tuiInbox'[i].msg /\ tuiInbox'[i].msg <= typed'
                                              /\ \A j \in DOMAIN read : read[j] < tuiInbox'[i].msg
                                              /\ \A j \in DOMAIN queue' : tuiInbox'[i].msg < queue'[j]
             /\ tuiInbox'[i].kind # "user" => tuiInbox'[i] \in {Tui!WorkerEnd, Tui!CancelAll}
  <2>1. CASE i \in DOMAIN tuiInbox /\ tuiInbox'[i] = tuiInbox[i]
    BY <1>6, <2>1 DEF TuiInv, InboxRises
  <2>2. CASE tuiInbox'[i] = e
    BY <1>5, <2>2
  <2> QED
    BY <1>2, <2>1, <2>2
<1>8. ASSUME NEW i \in DOMAIN tuiInbox', NEW j \in DOMAIN tuiInbox', i < j,
             tuiInbox'[i].kind = "user", tuiInbox'[j].kind = "user"
      PROVE  tuiInbox'[i].msg < tuiInbox'[j].msg
  <2>1. i \in DOMAIN tuiInbox /\ tuiInbox'[i] = tuiInbox[i]
    BY <1>2, <1>8
  <2>2. CASE j \in DOMAIN tuiInbox /\ tuiInbox'[j] = tuiInbox[j]
    BY <1>8, <2>1, <2>2 DEF TuiInv, InboxRises
  <2>3. CASE tuiInbox'[j] = e
    BY <1>5, <1>8, <2>1, <2>3
  <2> QED
    BY <1>2, <2>2, <2>3
<1>9. InboxRises'
  BY <1>7, <1>8 DEF InboxRises, Tui!WorkerEnd, Tui!CancelAll
<1>10. \A i \in DOMAIN read' : read'[i] <= typed'
  BY <1>1 DEF TuiInv
<1> QED
  BY <1>2, <1>3, <1>9, <1>10 DEF TuiInv

\* Nothing goes into masterIn, and what was queued may be dropped.
LEMMA TuiNotPosted ==
  ASSUME TuiInv, tuiInbox' = tuiInbox, read' = read, typed' \in 0..MaxMsgs, typed <= typed',
         queue' \in Seq(1..MaxMsgs), TuiRising(queue'), TuiBefore(read, queue'),
         \A i \in DOMAIN queue' : queue'[i] <= typed',
         \A i \in DOMAIN tuiInbox, j \in DOMAIN queue' : tuiInbox[i].kind = "user" => tuiInbox[i].msg < queue'[j]
  PROVE  /\ tuiInbox' \in Seq(TuiEvent) /\ Len(tuiInbox') <= InboxCap
         /\ InboxRises' /\ TuiRising(read') /\ TuiRising(queue') /\ TuiBefore(read', queue')
         /\ \A i \in DOMAIN queue' : queue'[i] <= typed'
         /\ \A i \in DOMAIN read' : read'[i] <= typed'
<1>1. /\ tuiInbox \in Seq(TuiEvent) /\ read \in Seq(1..MaxMsgs) /\ typed \in 0..MaxMsgs /\ MaxMsgs \in Nat
      /\ Len(tuiInbox) <= InboxCap
  BY TuiBounds DEF TuiInv, Tui!TypeOK, Tui!TuiConstants, TuiEvent
<1>2. \A i \in DOMAIN tuiInbox : tuiInbox[i].kind = "user" => tuiInbox[i].msg \in Nat /\ tuiInbox[i].msg <= typed'
  <2> SUFFICES ASSUME NEW i \in DOMAIN tuiInbox, tuiInbox[i].kind = "user"
               PROVE  tuiInbox[i].msg \in Nat /\ tuiInbox[i].msg <= typed'
    OBVIOUS
  <2>1. tuiInbox[i].msg <= typed
    BY DEF TuiInv, InboxRises
  <2>2. tuiInbox[i].msg \in Nat /\ typed \in Nat /\ typed' \in Nat
    <3>1. tuiInbox[i] \in TuiEvent
      BY <1>1
    <3>2. tuiInbox[i].msg \in 0..MaxMsgs
      BY <3>1 DEF TuiEvent
    <3> QED
      BY <1>1, <3>2
  <2> QED
    BY <2>1, <2>2
<1>3. InboxRises'
  BY <1>2 DEF TuiInv, InboxRises, Tui!WorkerEnd, Tui!CancelAll
<1> QED
  BY <1>1, <1>3 DEF TuiInv

\* A message that fits goes into masterIn, another one is dropped.
LEMMA SentStep ==
  ASSUME TuiInv, NEW k \in 1..MaxMsgs, Tui!SendToMaster(k), read' = read,
         queue' \in Seq(1..MaxMsgs), TuiRising(queue'), TuiBefore(read, queue'), typed' \in 0..MaxMsgs, typed <= typed',
         \A i \in DOMAIN queue' : queue'[i] <= typed' /\ k < queue'[i],
         k <= typed',
         \A i \in DOMAIN tuiInbox : tuiInbox[i].kind = "user" => tuiInbox[i].msg < k,
         \A i \in DOMAIN read : read[i] < k,
         \A i \in DOMAIN tuiInbox, j \in DOMAIN queue' : tuiInbox[i].kind = "user" => tuiInbox[i].msg < queue'[j]
  PROVE  /\ tuiInbox' \in Seq(TuiEvent) /\ Len(tuiInbox') <= InboxCap /\ tuiSilent' \in BOOLEAN
         /\ InboxRises' /\ TuiRising(read') /\ TuiRising(queue') /\ TuiBefore(read', queue')
         /\ \A i \in DOMAIN queue' : queue'[i] <= typed'
         /\ \A i \in DOMAIN read' : read'[i] <= typed'
<1>1. Tui!Message(k) \in TuiEvent /\ Tui!Message(k).kind = "user" /\ Tui!Message(k).msg = k /\ 1 <= k
  BY TuiBounds DEF Tui!Message, TuiEvent, Tui!TuiConstants
<1>2. tuiSilent' \in BOOLEAN
  BY DEF Tui!SendToMaster, TuiInv, Tui!TypeOK, Tui!Fits
<1>3. CASE Tui!Fits
  <2>1. tuiInbox' = Append(tuiInbox, Tui!Message(k))
    BY <1>3 DEF Tui!SendToMaster
  <2> QED
    BY <1>1, <1>2, <1>3, <2>1, TuiPosted
<1>4. CASE ~Tui!Fits
  BY <1>2, <1>4, TuiNotPosted DEF Tui!SendToMaster
<1> QED
  BY <1>3, <1>4

\* The user submits a message.
LEMMA TuiSubmitStep == ASSUME TuiInv, Tui!Submit PROVE TuiInv'
<1> DEFINE k == typed + 1
<1>1. /\ typed \in 0..MaxMsgs /\ typed < MaxMsgs /\ typed' = k /\ MaxMsgs \in Nat
      /\ queue \in Seq(1..MaxMsgs) /\ read \in Seq(1..MaxMsgs) /\ tuiInbox \in Seq(TuiEvent)
      /\ UNCHANGED <<stopping, tuiEvents, phase, turnCtx, turn, tuiPaused, read, stirs>>
  BY TuiBounds DEF Tui!Submit, TuiInv, Tui!TypeOK, TuiEvent, Tui!TuiConstants, Tui!master
<1>2. k \in 1..MaxMsgs /\ typed' \in 0..MaxMsgs /\ typed < k /\ typed <= typed' /\ k <= typed'
  BY <1>1
<1> HIDE DEF k
<1>3. /\ \A i \in DOMAIN queue : queue[i] < k /\ queue[i] <= typed' /\ queue[i] \in Nat
      /\ \A i \in DOMAIN read : read[i] < k /\ read[i] \in Nat
  <2>1. /\ \A i \in DOMAIN queue : queue[i] \in Nat /\ queue[i] <= typed
        /\ \A i \in DOMAIN read : read[i] \in Nat /\ read[i] <= typed
    BY <1>1 DEF TuiInv
  <2>2. typed \in Nat /\ k \in Nat /\ typed' = k
    BY <1>1, <1>2
  <2> QED
    BY <1>2, <2>1, <2>2
<1>4. \A i \in DOMAIN tuiInbox : tuiInbox[i].kind = "user" =>
        tuiInbox[i].msg < k /\ \A j \in DOMAIN queue : tuiInbox[i].msg < queue[j]
  <2> SUFFICES ASSUME NEW i \in DOMAIN tuiInbox, tuiInbox[i].kind = "user"
               PROVE  tuiInbox[i].msg < k /\ \A j \in DOMAIN queue : tuiInbox[i].msg < queue[j]
    OBVIOUS
  <2> DEFINE m == tuiInbox[i].msg
  <2>1. m <= typed /\ \A j \in DOMAIN queue : m < queue[j]
    BY DEF TuiInv, InboxRises
  <2>2. m \in Nat
    <3>1. tuiInbox[i] \in TuiEvent
      BY <1>1
    <3> QED
      BY <1>1, <3>1 DEF TuiEvent
  <2> HIDE DEF m
  <2>3. m < k
    BY <1>1, <1>2, <2>1, <2>2
  <2> QED
    BY <2>1, <2>3 DEF m
<1>5. CASE busy \/ queue # <<>>
  <2>1. queue' = Append(queue, k) /\ UNCHANGED <<busy, tuiInbox, tuiSilent>>
    BY <1>1, <1>5 DEF Tui!Submit
  <2>2. /\ queue' \in Seq(1..MaxMsgs)
        /\ \A i \in DOMAIN queue' :
             \/ i \in DOMAIN queue /\ queue'[i] = queue[i] /\ i < Len(queue) + 1
             \/ i = Len(queue) + 1 /\ queue'[i] = k
        /\ \A i \in DOMAIN queue : i \in Nat /\ i < Len(queue) + 1
        /\ Len(queue) \in Nat
    BY <1>1, <1>2, <2>1, TuiLonger
  <2>3. TuiRising(queue')
    <3> SUFFICES ASSUME NEW i \in DOMAIN queue', NEW j \in DOMAIN queue', i < j
                 PROVE  queue'[i] < queue'[j]
      BY DEF TuiRising
    <3>1. i \in DOMAIN queue /\ queue'[i] = queue[i]
      BY <2>2
    <3>2. CASE j \in DOMAIN queue /\ queue'[j] = queue[j]
      BY <3>1, <3>2 DEF TuiInv, TuiRising
    <3>3. CASE queue'[j] = k
      BY <1>3, <3>1, <3>3
    <3> QED
      BY <2>2, <3>2, <3>3
  <2>4. TuiBefore(read, queue')
    BY <1>3, <2>2 DEF TuiInv, TuiBefore
  <2>5. \A i \in DOMAIN queue' : queue'[i] <= typed'
    BY <1>2, <1>3, <2>2
  <2>6. \A i \in DOMAIN tuiInbox, j \in DOMAIN queue' : tuiInbox[i].kind = "user" => tuiInbox[i].msg < queue'[j]
    BY <1>4, <2>2
  <2>7. /\ tuiInbox' \in Seq(TuiEvent) /\ Len(tuiInbox') <= InboxCap
        /\ InboxRises' /\ TuiRising(read') /\ TuiRising(queue') /\ TuiBefore(read', queue')
        /\ \A i \in DOMAIN queue' : queue'[i] <= typed'
        /\ \A i \in DOMAIN read' : read'[i] <= typed'
    BY <1>1, <1>2, <2>1, <2>2, <2>3, <2>4, <2>5, <2>6, TuiNotPosted
  <2> QED
    BY <1>1, <1>2, <2>1, <2>2, <2>7 DEF TuiInv, Tui!TypeOK, TuiEvent
<1>6. CASE ~(busy \/ queue # <<>>)
  <2>1. queue' = queue /\ busy' = TRUE /\ Tui!SendToMaster(k)
    BY <1>1, <1>6 DEF Tui!Submit
  <2>2. TuiRising(queue') /\ TuiBefore(read, queue') /\ DOMAIN queue' = {} /\ queue' \in Seq(1..MaxMsgs)
    BY <1>1, <1>6, <2>1 DEF TuiInv
  <2>7. /\ tuiInbox' \in Seq(TuiEvent) /\ Len(tuiInbox') <= InboxCap /\ tuiSilent' \in BOOLEAN
        /\ InboxRises' /\ TuiRising(read') /\ TuiRising(queue') /\ TuiBefore(read', queue')
        /\ \A i \in DOMAIN queue' : queue'[i] <= typed'
        /\ \A i \in DOMAIN read' : read'[i] <= typed'
    BY <1>1, <1>2, <1>3, <1>4, <2>1, <2>2, SentStep
  <2> QED
    BY <1>1, <1>2, <2>1, <2>2, <2>7 DEF TuiInv, Tui!TypeOK, TuiEvent
<1> QED
  BY <1>5, <1>6

\* The end of a turn releases the oldest message.
LEMMA TurnOverStep ==
  ASSUME TuiInv, Tui!TurnOver, tuiEvents' \in Seq({"start", "done", "error"}),
         UNCHANGED <<stopping, typed, phase, turnCtx, turn, tuiPaused, read, stirs>>
  PROVE  TuiInv'
<1>1. /\ queue \in Seq(1..MaxMsgs) /\ read \in Seq(1..MaxMsgs) /\ tuiInbox \in Seq(TuiEvent)
      /\ typed \in 0..MaxMsgs /\ typed' = typed /\ read' = read /\ MaxMsgs \in Nat
  BY TuiBounds DEF TuiInv, Tui!TypeOK, TuiEvent, Tui!TuiConstants
<1>2. typed <= typed' /\ typed' \in 0..MaxMsgs
  BY <1>1
<1>3. CASE queue # <<>>
  <2> DEFINE k == Head(queue)
  <2>1. queue' = Tail(queue) /\ Tui!SendToMaster(k) /\ busy' = busy
    BY <1>3 DEF Tui!TurnOver, Tui!NextQueued
  <2>2. /\ queue' \in Seq(1..MaxMsgs) /\ k = queue[1] /\ k \in 1..MaxMsgs /\ 1 \in DOMAIN queue
        /\ \A i \in DOMAIN queue' : i + 1 \in DOMAIN queue /\ queue'[i] = queue[i + 1] /\ 1 < i + 1
        /\ \A i, j \in DOMAIN queue' : i < j => i + 1 < j + 1
    BY <1>1, <1>3, <2>1, TuiShorter
  <2> HIDE DEF k
  <2>3. TuiRising(queue') /\ TuiBefore(read, queue')
    BY <2>2 DEF TuiInv, TuiRising, TuiBefore
  <2>4. \A i \in DOMAIN queue' : queue'[i] <= typed' /\ k < queue'[i]
    BY <1>1, <2>2 DEF TuiInv, TuiRising
  <2>5. k <= typed' /\ \A i \in DOMAIN read : read[i] < k
    BY <1>1, <2>2 DEF TuiInv, TuiBefore
  <2>6. /\ \A i \in DOMAIN tuiInbox : tuiInbox[i].kind = "user" => tuiInbox[i].msg < k
        /\ \A i \in DOMAIN tuiInbox, j \in DOMAIN queue' : tuiInbox[i].kind = "user" => tuiInbox[i].msg < queue'[j]
    BY <2>2 DEF TuiInv, InboxRises
  <2>7. /\ tuiInbox' \in Seq(TuiEvent) /\ Len(tuiInbox') <= InboxCap /\ tuiSilent' \in BOOLEAN
        /\ InboxRises' /\ TuiRising(read') /\ TuiRising(queue') /\ TuiBefore(read', queue')
        /\ \A i \in DOMAIN queue' : queue'[i] <= typed'
        /\ \A i \in DOMAIN read' : read'[i] <= typed'
    BY <1>1, <1>2, <2>1, <2>2, <2>3, <2>4, <2>5, <2>6, SentStep
  <2> QED
    BY <1>1, <1>2, <2>1, <2>2, <2>7 DEF TuiInv, Tui!TypeOK, TuiEvent
<1>4. CASE ~(queue # <<>>)
  BY <1>4 DEF Tui!TurnOver, TuiInv, Tui!TypeOK, InboxRises, TuiRising, TuiBefore
<1> QED
  BY <1>3, <1>4

\* The user stops everything: what is queued is dropped.
LEMMA StopStep == ASSUME TuiInv, Tui!StopGeneration PROVE TuiInv'
<1>1. /\ read \in Seq(1..MaxMsgs) /\ tuiInbox \in Seq(TuiEvent) /\ typed \in 0..MaxMsgs /\ MaxMsgs \in Nat
      /\ typed' = typed /\ read' = read /\ tuiInbox' = tuiInbox /\ queue' = <<>> /\ DOMAIN queue' = {}
      /\ stirs \in 0..MaxStirs /\ stirs < MaxStirs /\ stirs' = stirs + 1 /\ MaxStirs \in Nat
      /\ tuiSilent \in BOOLEAN
  BY TuiBounds DEF Tui!StopGeneration, Tui!Stir, TuiInv, Tui!TypeOK, TuiEvent, Tui!TuiConstants
<1>2. typed <= typed' /\ typed' \in 0..MaxMsgs /\ stirs' \in 0..MaxStirs
  BY <1>1
<1>3. queue' \in Seq(1..MaxMsgs) /\ TuiRising(queue') /\ TuiBefore(read, queue')
  BY <1>1 DEF TuiRising, TuiBefore
<1>4. /\ tuiInbox' \in Seq(TuiEvent) /\ Len(tuiInbox') <= InboxCap
      /\ InboxRises' /\ TuiRising(read') /\ TuiRising(queue') /\ TuiBefore(read', queue')
      /\ \A i \in DOMAIN queue' : queue'[i] <= typed'
      /\ \A i \in DOMAIN read' : read'[i] <= typed'
  BY <1>1, <1>2, <1>3, TuiNotPosted
<1>5. tuiSilent' \in BOOLEAN
  BY <1>1 DEF Tui!StopGeneration
<1> QED
  BY <1>2, <1>3, <1>4, <1>5 DEF TuiInv, Tui!TypeOK, TuiEvent, Tui!StopGeneration

\* CancelAll or the end of a worker comes.
LEMMA OtherEventStep ==
  ASSUME TuiInv, NEW e \in {Tui!WorkerEnd, Tui!CancelAll},
         tuiInbox' = IF Tui!Fits THEN Append(tuiInbox, e) ELSE tuiInbox, stirs' \in 0..MaxStirs, stopping' \in BOOLEAN,
         UNCHANGED <<queue, busy, typed, tuiEvents, Tui!master, tuiSilent>>
  PROVE  TuiInv'
<1>1. /\ read \in Seq(1..MaxMsgs) /\ queue \in Seq(1..MaxMsgs) /\ typed \in 0..MaxMsgs
      /\ UNCHANGED <<phase, turnCtx, turn, tuiPaused, read>> /\ MaxMsgs \in Nat
  BY TuiBounds DEF TuiInv, Tui!TypeOK, Tui!master, Tui!TuiConstants
<1>2. e \in TuiEvent /\ typed <= typed' /\ typed' \in 0..MaxMsgs
  BY <1>1 DEF Tui!WorkerEnd, Tui!CancelAll, TuiEvent
<1>3. /\ TuiRising(queue') /\ TuiBefore(read, queue') /\ \A i \in DOMAIN queue' : queue'[i] <= typed'
      /\ \A i \in DOMAIN tuiInbox, j \in DOMAIN queue' : tuiInbox[i].kind = "user" => tuiInbox[i].msg < queue'[j]
  BY DEF TuiInv, InboxRises
<1>4. /\ tuiInbox' \in Seq(TuiEvent) /\ Len(tuiInbox') <= InboxCap
      /\ InboxRises' /\ TuiRising(read') /\ TuiRising(queue') /\ TuiBefore(read', queue')
      /\ \A i \in DOMAIN queue' : queue'[i] <= typed'
      /\ \A i \in DOMAIN read' : read'[i] <= typed'
  <2>1. CASE Tui!Fits
    BY <1>1, <1>2, <1>3, <2>1, TuiPosted
  <2>2. CASE ~Tui!Fits
    BY <1>1, <1>2, <1>3, <2>2, TuiNotPosted
  <2> QED
    BY <2>1, <2>2
<1> QED
  BY <1>1, <1>2, <1>4 DEF TuiInv, Tui!TypeOK, TuiEvent

\* Run takes the oldest event.
LEMMA TakeStep == ASSUME TuiInv, Tui!TakeEvent PROVE TuiInv'
<1> DEFINE e == Head(tuiInbox)
<1>1. /\ read \in Seq(1..MaxMsgs) /\ queue \in Seq(1..MaxMsgs) /\ tuiInbox \in Seq(TuiEvent) /\ tuiInbox # <<>>
      /\ typed \in 0..MaxMsgs /\ MaxMsgs \in Nat /\ Len(tuiInbox) <= InboxCap /\ InboxCap \in Nat
      /\ tuiInbox' = Tail(tuiInbox) /\ phase' \in {"idle", "drain"}
      /\ UNCHANGED <<queue, busy, stopping, typed, tuiEvents, turnCtx, turn, tuiPaused, tuiSilent, stirs>>
  BY TuiBounds DEF Tui!TakeEvent, Tui!TakeFrom, TuiInv, Tui!TypeOK, TuiEvent, Tui!TuiConstants, Tui!ui
<1>2. /\ tuiInbox' \in Seq(TuiEvent) /\ Len(tuiInbox') = Len(tuiInbox) - 1 /\ Len(tuiInbox) \in Nat /\ e = tuiInbox[1] /\ 1 \in DOMAIN tuiInbox
      /\ \A i \in DOMAIN tuiInbox' : i + 1 \in DOMAIN tuiInbox /\ tuiInbox'[i] = tuiInbox[i + 1] /\ 1 < i + 1
      /\ \A i, j \in DOMAIN tuiInbox' : i < j => i + 1 < j + 1
      /\ e \in TuiEvent
  BY <1>1, TuiShorter
<1>3. Len(tuiInbox') <= InboxCap
  BY <1>1, <1>2
<1>4. \/ e \in {Tui!WorkerEnd, Tui!CancelAll} /\ read' = read
      \/ e.kind = "user" /\ read' = Append(read, e.msg)
  <2>1. e.kind # "user" => e \in {Tui!WorkerEnd, Tui!CancelAll}
    BY <1>2 DEF TuiInv, InboxRises
  <2>2. CASE e = Tui!CancelAll
    BY <2>2 DEF Tui!TakeEvent, Tui!TakeFrom
  <2>3. CASE e = Tui!WorkerEnd
    BY <2>3 DEF Tui!TakeEvent, Tui!TakeFrom, Tui!WorkerEnd, Tui!CancelAll
  <2>4. CASE e.kind = "user"
    BY <2>4 DEF Tui!TakeEvent, Tui!TakeFrom, Tui!WorkerEnd, Tui!CancelAll
  <2> QED
    BY <2>1, <2>2, <2>3, <2>4
<1> HIDE DEF e
<1>5. CASE read' = read
  <2>1. InboxRises'
    <3>1. \A i \in DOMAIN tuiInbox' : i + 1 \in DOMAIN tuiInbox /\ tuiInbox'[i] = tuiInbox[i + 1]
      BY <1>2
    <3>2. \A i \in DOMAIN tuiInbox' : tuiInbox'[i].kind = "user" =>
            /\ 1 <= tuiInbox'[i].msg /\ tuiInbox'[i].msg <= typed'
            /\ \A j \in DOMAIN read' : read'[j] < tuiInbox'[i].msg
            /\ \A j \in DOMAIN queue' : tuiInbox'[i].msg < queue'[j]
      BY <1>1, <1>5, <3>1 DEF TuiInv, InboxRises
    <3>3. \A i, j \in DOMAIN tuiInbox' :
            i < j /\ tuiInbox'[i].kind = "user" /\ tuiInbox'[j].kind = "user" => tuiInbox'[i].msg < tuiInbox'[j].msg
      BY <1>2 DEF TuiInv, InboxRises
    <3>4. \A i \in DOMAIN tuiInbox' : tuiInbox'[i].kind # "user" => tuiInbox'[i] \in {Tui!WorkerEnd, Tui!CancelAll}
      BY <3>1 DEF TuiInv, InboxRises
    <3> QED
      BY <3>2, <3>3, <3>4 DEF InboxRises, Tui!WorkerEnd, Tui!CancelAll
  <2>2. Tui!TypeOK'
    BY <1>1, <1>2, <1>3, <1>5 DEF TuiInv, Tui!TypeOK, TuiEvent
  <2>3. phase' # "stream"
    BY <1>1
  <2> QED
    BY <1>1, <1>5, <2>1, <2>2, <2>3 DEF TuiInv, TuiRising, TuiBefore
<1>6. CASE e.kind = "user" /\ read' = Append(read, e.msg)
  <2> DEFINE k == e.msg
  <2>1. /\ 1 <= k /\ k <= typed /\ \A j \in DOMAIN read : read[j] < k
        /\ \A j \in DOMAIN queue : k < queue[j]
        /\ \A i \in DOMAIN tuiInbox : 1 < i /\ tuiInbox[i].kind = "user" => k < tuiInbox[i].msg
    BY <1>2, <1>6 DEF TuiInv, InboxRises
  <2>2. k \in 0..MaxMsgs
    BY <1>2 DEF TuiEvent
  <2> HIDE DEF k
  <2>3. k \in 1..MaxMsgs
    BY <1>1, <2>1, <2>2
  <2>4. /\ read' \in Seq(1..MaxMsgs) /\ Len(read) \in Nat
        /\ \A i \in DOMAIN read' :
             \/ i \in DOMAIN read /\ read'[i] = read[i] /\ i < Len(read) + 1
             \/ i = Len(read) + 1 /\ read'[i] = k
        /\ \A i \in DOMAIN read : i \in Nat /\ i < Len(read) + 1
    <3>1. read' = Append(read, k)
      BY <1>6 DEF k
    <3> QED
      BY <1>1, <2>3, <3>1, TuiLonger
  <2>5. TuiRising(read')
    <3> SUFFICES ASSUME NEW i \in DOMAIN read', NEW j \in DOMAIN read', i < j
                 PROVE  read'[i] < read'[j]
      BY DEF TuiRising
    <3>1. i \in DOMAIN read /\ read'[i] = read[i]
      BY <2>4
    <3>2. CASE j \in DOMAIN read /\ read'[j] = read[j]
      BY <3>1, <3>2 DEF TuiInv, TuiRising
    <3>3. CASE read'[j] = k
      BY <2>1, <3>1, <3>3
    <3> QED
      BY <2>4, <3>2, <3>3
  <2>6. TuiBefore(read', queue') /\ \A i \in DOMAIN read' : read'[i] <= typed'
    BY <1>1, <2>1, <2>4 DEF TuiInv, TuiBefore
  <2>7. InboxRises'
    <3>1. ASSUME NEW i \in DOMAIN tuiInbox', tuiInbox'[i].kind = "user"
          PROVE  /\ 1 <= tuiInbox'[i].msg /\ tuiInbox'[i].msg <= typed'
                 /\ \A j \in DOMAIN queue' : tuiInbox'[i].msg < queue'[j]
                 /\ \A j \in DOMAIN read' : read'[j] < tuiInbox'[i].msg
      <4>1. /\ 1 <= tuiInbox'[i].msg /\ tuiInbox'[i].msg <= typed'
            /\ \A j \in DOMAIN queue' : tuiInbox'[i].msg < queue'[j]
            /\ \A j \in DOMAIN read : read[j] < tuiInbox'[i].msg
            /\ k < tuiInbox'[i].msg
        BY <1>1, <1>2, <2>1, <3>1 DEF TuiInv, InboxRises
      <4> QED
        BY <2>4, <4>1
    <3>2. \A i, j \in DOMAIN tuiInbox' :
            i < j /\ tuiInbox'[i].kind = "user" /\ tuiInbox'[j].kind = "user" => tuiInbox'[i].msg < tuiInbox'[j].msg
      BY <1>2 DEF TuiInv, InboxRises
    <3>3. \A i \in DOMAIN tuiInbox' : tuiInbox'[i].kind # "user" => tuiInbox'[i] \in {Tui!WorkerEnd, Tui!CancelAll}
      BY <1>2 DEF TuiInv, InboxRises
    <3> QED
      BY <3>1, <3>2, <3>3 DEF InboxRises, Tui!WorkerEnd, Tui!CancelAll
  <2> QED
    BY <1>1, <1>2, <1>3, <2>4, <2>5, <2>6, <2>7 DEF TuiInv, Tui!TypeOK, TuiEvent
<1> QED
  BY <1>4, <1>5, <1>6

\* What leaves the messages alone.
LEMMA TurnStep ==
  ASSUME TuiInv, UNCHANGED <<queue, tuiInbox, read, typed>>, Tui!TypeOK', phase' = "stream" => turn' < MaxTurns
  PROVE  TuiInv'
BY DEF TuiInv, InboxRises, TuiRising, TuiBefore, Tui!WorkerEnd, Tui!CancelAll

\* Every step keeps the invariant of the queue and the turns.
LEMMA TuiStep == ASSUME TuiInv, [Tui!Next]_Tui!vars PROVE TuiInv'
<1>1. MaxTurns \in Nat /\ MaxStirs \in Nat
  BY TuiBounds DEF Tui!TuiConstants
<1>2. tuiEvents \in Seq({"start", "done", "error"})
  BY DEF TuiInv, Tui!TypeOK
<1>3. ASSUME NEW e \in {"start", "done", "error"} PROVE Append(tuiEvents, e) \in Seq({"start", "done", "error"})
  BY <1>2
<1>4. tuiEvents # <<>> => Tail(tuiEvents) \in Seq({"start", "done", "error"})
  BY <1>2
<1>5. CASE Tui!HandleTurnDone \/ Tui!HandleError
  BY <1>4, <1>5, TurnOverStep DEF Tui!HandleTurnDone, Tui!HandleError, Tui!master
<1>6. CASE Tui!TellCancelAll
  BY <1>6, OtherEventStep DEF Tui!TellCancelAll, TuiInv, Tui!TypeOK
<1>7. CASE Tui!WorkerEnds
  <2>1. stirs' \in 0..MaxStirs /\ stopping' \in BOOLEAN
    BY <1>1, <1>7 DEF Tui!WorkerEnds, Tui!Stir, TuiInv, Tui!TypeOK, Tui!ui
  <2> QED
    BY <1>7, <2>1, OtherEventStep DEF Tui!WorkerEnds, Tui!ui
<1>8. CASE Tui!HandleTurnStart \/ Tui!TogglePause
  <2>1. UNCHANGED <<queue, tuiInbox, read, typed, phase, turn>>
    BY <1>8 DEF Tui!HandleTurnStart, Tui!TogglePause, Tui!ui, Tui!master
  <2>2. Tui!TypeOK'
    <3>1. CASE Tui!HandleTurnStart
      <4>1. /\ tuiEvents' \in Seq({"start", "done", "error"}) /\ busy' = TRUE
            /\ UNCHANGED <<queue, stopping, typed, tuiInbox, phase, turnCtx, turn, tuiPaused, read, tuiSilent, stirs>>
        BY <1>4, <3>1 DEF Tui!HandleTurnStart, Tui!master
      <4> QED
        BY <4>1 DEF TuiInv, Tui!TypeOK
    <3>2. CASE Tui!TogglePause
      <4>1. /\ stirs' \in 0..MaxStirs /\ tuiPaused' \in BOOLEAN
            /\ UNCHANGED <<queue, busy, stopping, typed, tuiInbox, tuiEvents, phase, turnCtx, turn, read, tuiSilent>>
        BY <1>1, <3>2 DEF Tui!TogglePause, Tui!Stir, Tui!ui, TuiInv, Tui!TypeOK
      <4> QED
        BY <4>1 DEF TuiInv, Tui!TypeOK
    <3> QED
      BY <1>8, <3>1, <3>2
  <2>3. phase' = "stream" => turn' < MaxTurns
    BY <2>1 DEF TuiInv
  <2> QED
    BY <2>1, <2>2, <2>3, TurnStep
<1>9. CASE Tui!DrainDone \/ Tui!BeginTurns \/ Tui!Request \/ Tui!Continue
  <2>1. UNCHANGED <<queue, tuiInbox, read, typed>>
    BY <1>9 DEF Tui!DrainDone, Tui!BeginTurns, Tui!Request, Tui!Continue, Tui!ui
  <2>2. Tui!TypeOK'
    <3>1. CASE Tui!DrainDone
      BY <3>1 DEF Tui!DrainDone, Tui!ui, TuiInv, Tui!TypeOK
    <3>2. CASE Tui!BeginTurns
      BY <1>1, <3>2 DEF Tui!BeginTurns, Tui!ui, TuiInv, Tui!TypeOK
    <3>3. CASE Tui!Request
      BY <1>3, <3>3 DEF Tui!Request, Tui!ui, TuiInv, Tui!TypeOK
    <3>4. CASE Tui!Continue
      <4>1. turn' \in 0..MaxTurns
        BY <1>1, <3>4 DEF Tui!Continue, TuiInv, Tui!TypeOK
      <4> QED
        BY <3>4, <4>1 DEF Tui!Continue, Tui!ui, TuiInv, Tui!TypeOK
    <3> QED
      BY <1>9, <3>1, <3>2, <3>3, <3>4
  <2>3. phase' = "stream" => turn' < MaxTurns
    BY <1>9 DEF Tui!DrainDone, Tui!BeginTurns, Tui!Request, Tui!Continue
  <2> QED
    BY <2>1, <2>2, <2>3, TurnStep
<1>10. CASE Tui!TurnLimit \/ Tui!TurnCancelled \/ Tui!Answer \/ Tui!Fail \/ Tui!StreamCancelled
  <2>1. \/ Tui!ReturnSilently
        \/ \E e \in {"start", "done", "error"} : Tui!Report(e)
    BY <1>10 DEF Tui!TurnLimit, Tui!TurnCancelled, Tui!Answer, Tui!Fail, Tui!StreamCancelled
  <2>2. /\ UNCHANGED <<queue, busy, stopping, typed, tuiInbox, tuiPaused, read, stirs>>
        /\ phase' = "idle" /\ turnCtx' = "none" /\ turn' = 0
    BY <2>1 DEF Tui!ReturnSilently, Tui!Report, Tui!Return, Tui!ui
  <2>3. tuiEvents' \in Seq({"start", "done", "error"}) /\ tuiSilent' \in BOOLEAN
    BY <1>2, <1>3, <2>1 DEF Tui!ReturnSilently, Tui!Report
  <2>4. 0 \in 0..MaxTurns
    BY <1>1
  <2>5. Tui!TypeOK'
    BY <2>2, <2>3, <2>4 DEF TuiInv, Tui!TypeOK
  <2> QED
    BY <2>2, <2>5, TurnStep
<1>11. CASE UNCHANGED Tui!vars
  <2>1. UNCHANGED <<queue, tuiInbox, read, typed, phase, turn>> /\ Tui!TypeOK'
    BY <1>11 DEF Tui!vars, Tui!ui, Tui!master, TuiInv, Tui!TypeOK
  <2>2. phase' = "stream" => turn' < MaxTurns
    BY <2>1 DEF TuiInv
  <2> QED
    BY <2>1, <2>2, TurnStep
<1> QED
  BY <1>5, <1>6, <1>7, <1>8, <1>9, <1>10, <1>11, TuiSubmitStep, StopStep, TakeStep DEF Tui!Next, Tui!User, Tui!Ui, Tui!Run

\* The master reads what was typed as it was typed.
LEMMA TuiTold == ASSUME TuiInv PROVE Tui!TypeOK /\ Tui!ReadInOrder
BY DEF TuiInv, TuiRising, Tui!ReadInOrder

-----------------------------------------------------------------------------
(* Panes. *)

\* What Panes asks of its constants.
LEMMA PanesBounds == Panes!PanesConstants
BY MCUiConstants

PaneEvent == [worker : Workers, kind : Panes!Kinds]
PaneTask == [say : SUBSET [worker : Workers, kind : {"paused", "resumed"}],
             cancel : SUBSET Workers, marks : BOOLEAN]
PaneStates == {"none", "running", "paused"} \cup Panes!Terminal

\* A worker's end is the last of what is said of it, ...
EndIsLast(w) ==
  \E i \in DOMAIN panesEvents :
    /\ panesEvents[i] = Panes!Event(w, end[w])
    /\ \A j \in DOMAIN panesEvents : panesEvents[j].worker = w => j <= i

\* ... and what its pane shows once that is handled.
EndStands(w) ==
  /\ \A i \in DOMAIN panesEvents : panesEvents[i].worker # w
  /\ shown[w] \in Panes!Terminal
  /\ end[w] = "error" => shown[w] \in {"error", "cancelled"}
  /\ shown[w] = "cancelled" => w \in killed

PanesInv ==
  /\ Panes!TypeOK
  /\ \A w \in Workers :
       /\ status[w] = "unborn" => end[w] = "none"
       /\ w \in saying => end[w] # "none"
       /\ end[w] = "empty" => w \in killed
       /\ end[w] # "none" /\ w \notin saying /\ w \notin late => EndIsLast(w) \/ EndStands(w)

\* A sequence with one more element, and one without its first.
LEMMA PaneLonger ==
  ASSUME NEW S, NEW s \in Seq(S), NEW e \in S
  PROVE  /\ Append(s, e) \in Seq(S) /\ Len(s) \in Nat
         /\ \A i \in DOMAIN Append(s, e) :
              \/ i \in DOMAIN s /\ Append(s, e)[i] = s[i] /\ i < Len(s) + 1
              \/ i = Len(s) + 1 /\ Append(s, e)[i] = e
         /\ \A i \in DOMAIN s : i \in Nat /\ i \in DOMAIN Append(s, e) /\ Append(s, e)[i] = s[i] /\ i <= Len(s) + 1
         /\ Len(s) + 1 \in DOMAIN Append(s, e) /\ Append(s, e)[Len(s) + 1] = e
OBVIOUS

\* A sequence without its first element.
LEMMA PaneShorter ==
  ASSUME NEW S, NEW s \in Seq(S), s # <<>>
  PROVE  /\ Tail(s) \in Seq(S) /\ Head(s) = s[1] /\ Head(s) \in S /\ 1 \in DOMAIN s
         /\ \A i \in DOMAIN Tail(s) : i \in Nat /\ i + 1 \in DOMAIN s /\ Tail(s)[i] = s[i + 1]
         /\ \A i \in DOMAIN s : i \in Nat /\ (i = 1 \/ (i - 1 \in DOMAIN Tail(s) /\ Tail(s)[i - 1] = s[i] /\ 1 < i))
OBVIOUS

\* An event of another worker comes, or of this one's end.
LEMMA EventComes ==
  ASSUME PanesInv, NEW w \in Workers, NEW e \in PaneEvent, panesEvents' = Append(panesEvents, e), end'[w] = end[w],
         shown'[w] = shown[w], killed' = killed
  PROVE  /\ e.worker # w /\ EndIsLast(w) => EndIsLast(w)'
         /\ e.worker # w /\ EndStands(w) => EndStands(w)'
         /\ e = Panes!Event(w, end[w]) => EndIsLast(w)'
<1> DEFINE s == panesEvents
           t == panesEvents'
           m == Len(s) + 1
<1>1. /\ Len(s) \in Nat
      /\ \A i \in DOMAIN t : (i \in DOMAIN s /\ t[i] = s[i] /\ i < m) \/ (i = m /\ t[i] = e)
      /\ \A i \in DOMAIN s : i \in Nat /\ i \in DOMAIN t /\ t[i] = s[i] /\ i <= m
      /\ m \in DOMAIN t /\ t[m] = e
  <2>1. s \in Seq(PaneEvent)
    BY DEF PanesInv, Panes!TypeOK, PaneEvent
  <2> QED
    BY <2>1, PaneLonger
<1>2. m \in Nat
  BY <1>1
<1> HIDE DEF m, t
<1>3. ASSUME e.worker # w, EndIsLast(w) PROVE EndIsLast(w)'
  <2>1. PICK i \in DOMAIN s : s[i] = Panes!Event(w, end[w]) /\ \A j \in DOMAIN s : s[j].worker = w => j <= i
    BY <1>3 DEF EndIsLast
  <2>2. i \in DOMAIN t /\ t[i] = Panes!Event(w, end'[w])
    BY <1>1, <2>1 DEF Panes!Event
  <2>3. \A j \in DOMAIN t : t[j].worker = w => j <= i
    BY <1>1, <1>3, <2>1
  <2> QED
    BY <2>2, <2>3 DEF EndIsLast, Panes!Event, t
<1>4. ASSUME e.worker # w, EndStands(w) PROVE EndStands(w)'
  <2>1. \A j \in DOMAIN t : t[j].worker # w
    BY <1>1, <1>4 DEF EndStands
  <2> QED
    BY <1>4, <2>1 DEF EndStands, Panes!Terminal, t
<1>5. ASSUME e = Panes!Event(w, end[w]) PROVE EndIsLast(w)'
  <2>1. m \in DOMAIN t /\ t[m] = Panes!Event(w, end'[w])
    BY <1>1, <1>5 DEF Panes!Event
  <2>2. \A j \in DOMAIN t : t[j].worker = w => j <= m
    BY <1>1, <1>2
  <2> QED
    BY <2>1, <2>2 DEF EndIsLast, Panes!Event, t
<1> QED
  BY <1>3, <1>4, <1>5

\* An event is published.
LEMMA EventAdded ==
  ASSUME PanesInv, NEW e \in PaneEvent, panesEvents' = Append(panesEvents, e)
  PROVE  panesEvents' \in Seq(PaneEvent)
BY DEF PanesInv, Panes!TypeOK, PaneEvent

\* No worker has been spawned.
LEMMA InitPanes == ASSUME Panes!Init PROVE PanesInv
<1>1. Panes!Nothing \in PaneTask
  BY DEF Panes!Nothing, PaneTask
<1>2. <<>> \in Seq(PaneEvent)
  OBVIOUS
<1>3. keys \in 0..MaxKeys
  BY PanesBounds DEF Panes!PanesConstants, Panes!Init
<1>4. Panes!TypeOK
  BY <1>1, <1>2, <1>3 DEF Panes!Init, Panes!TypeOK, PaneTask, PaneEvent, Panes!Terminal
<1> QED
  BY <1>4 DEF PanesInv, Panes!Init

\* A worker is spawned.
LEMMA SpawnStep == ASSUME PanesInv, NEW w \in Workers, Panes!Spawn(w) PROVE PanesInv'
<1> DEFINE e == Panes!Event(w, "spawn")
<1>1. e \in PaneEvent /\ e.worker = w
  BY DEF Panes!Event, PaneEvent, Panes!Kinds
<1>2. /\ panesEvents' = Append(panesEvents, e) /\ status[w] = "unborn" /\ status' = [status EXCEPT ![w] = "running"]
      /\ UNCHANGED <<panesPaused, killed, end, saying, client, shown, late, keys>>
  BY DEF Panes!Spawn, Panes!worker
<1> HIDE DEF e
<1>3. panesEvents' \in Seq(PaneEvent)
  BY <1>1, <1>2, EventAdded
<1>4. Panes!TypeOK'
  BY <1>2, <1>3 DEF PanesInv, Panes!TypeOK, PaneEvent
<1>5. \A v \in Workers : v # w => (EndIsLast(v) => EndIsLast(v)') /\ (EndStands(v) => EndStands(v)')
  BY <1>1, <1>2, EventComes
<1>6. \A v \in Workers : status'[v] = "unborn" => status[v] = "unborn"
  BY <1>2 DEF PanesInv, Panes!TypeOK
<1> QED
  BY <1>2, <1>4, <1>5, <1>6 DEF PanesInv

\* Nothing is said.
LEMMA NothingSaid ==
  ASSUME PanesInv, NEW w \in Workers, panesEvents' = panesEvents, end'[w] = end[w],
         killed \subseteq killed', shown'[w] = shown[w]
  PROVE  (EndIsLast(w) => EndIsLast(w)') /\ (EndStands(w) => EndStands(w)')
BY DEF EndIsLast, EndStands, Panes!Event, Panes!Terminal

\* A worker's run ends, and it has not said so yet.
LEMMA EndsStep ==
  ASSUME PanesInv, NEW w \in Workers, NEW how \in {"text", "error", "empty"}, Panes!Ends(w, how) PROVE PanesInv'
<1>1. /\ status[w] # "unborn" /\ end[w] = "none" /\ (how = "empty" => w \in killed)
      /\ end' = [end EXCEPT ![w] = how] /\ saying' = saying \cup {w}
      /\ status' = [status EXCEPT ![w] = CASE how = "text" -> "done" [] how = "error" -> "error" [] how = "empty" -> "cancelled"]
      /\ UNCHANGED <<panesPaused, killed, client, panesEvents, shown, late, keys>>
  BY DEF Panes!Ends
<1>2. Panes!TypeOK'
  BY <1>1 DEF PanesInv, Panes!TypeOK, Panes!Terminal
<1>3. status \in [Workers -> {"unborn", "running", "paused"} \cup Panes!Terminal] /\ end \in [Workers -> {"none", "text", "error", "empty"}]
  BY DEF PanesInv, Panes!TypeOK
<1>4. status'[w] # "unborn" /\ end'[w] = how
  BY <1>1, <1>3
<1>5. \A v \in Workers : v # w => status'[v] = status[v] /\ end'[v] = end[v]
  BY <1>1, <1>3
<1>6. \A v \in Workers : v # w => (EndIsLast(v) => EndIsLast(v)') /\ (EndStands(v) => EndStands(v)')
  BY <1>1, <1>5, NothingSaid
<1> QED
  BY <1>1, <1>2, <1>4, <1>5, <1>6 DEF PanesInv

\* A worker says how it ended: the last event of it, from then on.
LEMMA SaysEndStep == ASSUME PanesInv, NEW w \in Workers, Panes!SaysEnd(w) PROVE PanesInv'
<1> DEFINE e == Panes!Event(w, end[w])
<1>1. /\ w \in saying /\ saying' = saying \ {w} /\ panesEvents' = Append(panesEvents, e)
      /\ UNCHANGED <<status, panesPaused, killed, end, client, shown, late, keys>>
  BY DEF Panes!SaysEnd
<1>2. end[w] \in {"text", "error", "empty"}
  BY <1>1 DEF PanesInv, Panes!TypeOK
<1>3. e \in PaneEvent /\ e.worker = w
  BY <1>2 DEF Panes!Event, PaneEvent, Panes!Kinds
<1>4. panesEvents' \in Seq(PaneEvent)
  BY <1>1, <1>3, EventAdded
<1>5. Panes!TypeOK'
  BY <1>1, <1>4 DEF PanesInv, Panes!TypeOK, PaneEvent
<1>6. \A v \in Workers : v # w => (EndIsLast(v) => EndIsLast(v)') /\ (EndStands(v) => EndStands(v)')
  BY <1>1, <1>3, EventComes
<1>7. EndIsLast(w)'
  BY <1>1, <1>3, EventComes
<1> QED
  BY <1>1, <1>5, <1>6, <1>7 DEF PanesInv

\* The clients' tasks.
LEMMA TaskType ==
  ASSUME PanesInv PROVE client \in [Panes!Clients -> PaneTask] /\ Panes!Nothing \in PaneTask
BY DEF PanesInv, Panes!TypeOK, PaneTask, Panes!Nothing

\* What a client has left to say gets less.
LEMMA SayTask ==
  ASSUME PanesInv, NEW c \in Panes!Clients, NEW w \in Workers, NEW k \in {"paused", "resumed"},
         client' = [client EXCEPT ![c].say = {Panes!Event(w, k)}]
  PROVE  client' \in [Panes!Clients -> PaneTask]
<1>1. client[c] \in PaneTask
  BY TaskType
<1> DEFINE r == [client[c] EXCEPT !.say = {Panes!Event(w, k)}]
<1>2. r \in PaneTask
  BY <1>1 DEF PaneTask, Panes!Event
<1>3. client' = [client EXCEPT ![c] = r]
  OBVIOUS
<1> HIDE DEF r
<1> QED
  BY <1>2, <1>3, TaskType

\* A key is pressed.
LEMMA KeyType == ASSUME PanesInv, NEW c \in Panes!Clients, Panes!Key(c) PROVE keys' \in 0..MaxKeys
BY PanesBounds DEF PanesInv, Panes!TypeOK, Panes!Key, Panes!PanesConstants

\* What tells nothing and shows nothing of any worker's end.
LEMMA EndsUntouched ==
  ASSUME PanesInv, Panes!TypeOK', UNCHANGED <<end, saying, panesEvents, late, shown>>, killed \subseteq killed',
         \A w \in Workers : status'[w] = "unborn" => status[w] = "unborn"
  PROVE  PanesInv'
<1>1. \A v \in Workers : (EndIsLast(v) => EndIsLast(v)') /\ (EndStands(v) => EndStands(v)')
  BY NothingSaid
<1> QED
  BY <1>1 DEF PanesInv

\* Workers are paused or resumed, and their events are to be published.
LEMMA PauseStep ==
  ASSUME PanesInv, NEW c \in Panes!Clients, NEW w \in Workers, Panes!Pause(c, w) \/ Panes!Resume(c, w) PROVE PanesInv'
<1>1. /\ keys' \in 0..MaxKeys /\ panesPaused' \subseteq Workers
      /\ UNCHANGED <<killed, end, saying, panesEvents, shown, late>>
  BY KeyType DEF Panes!Pause, Panes!Resume, Panes!worker, PanesInv, Panes!TypeOK
<1>2. client' \in [Panes!Clients -> PaneTask]
  BY SayTask DEF Panes!Pause, Panes!Resume
<1>3. \E t \in {"running", "paused"} : status' = [status EXCEPT ![w] = t]
  BY DEF Panes!Pause, Panes!Resume
<1>4. status' \in [Workers -> {"unborn", "running", "paused"} \cup Panes!Terminal]
  BY <1>3 DEF PanesInv, Panes!TypeOK
<1>5. Panes!TypeOK'
  BY <1>1, <1>2, <1>4 DEF PanesInv, Panes!TypeOK, PaneTask
<1>6. \A v \in Workers : status'[v] = "unborn" => status[v] = "unborn"
  BY <1>3 DEF PanesInv, Panes!TypeOK
<1> QED
  BY <1>1, <1>5, <1>6, EndsUntouched

\* A pause or resume is published, before the end or never.
LEMMA PublishesStep == ASSUME PanesInv, NEW c \in Panes!Clients, Panes!Publishes(c) PROVE PanesInv'
<1>1. PICK e \in client[c].say :
        panesEvents' = Append(panesEvents, e) /\ late' = IF Panes!Over(e.worker) THEN late \cup {e.worker} ELSE late
  BY DEF Panes!Publishes
<1>2. client' = [client EXCEPT ![c] = Panes!Nothing] /\ UNCHANGED <<status, panesPaused, killed, end, saying, shown, keys>>
  BY DEF Panes!Publishes, Panes!worker
<1>3. client[c] \in PaneTask
  BY TaskType
<1>4. e \in PaneEvent /\ e.worker \in Workers
  BY <1>1, <1>3 DEF PaneTask, PaneEvent, Panes!Kinds
<1>5. client' \in [Panes!Clients -> PaneTask]
  BY <1>2, TaskType
<1>6. panesEvents' \in Seq(PaneEvent)
  BY <1>1, <1>4, EventAdded
<1>7. late \subseteq late' /\ late' \subseteq Workers
  BY <1>1, <1>4 DEF PanesInv, Panes!TypeOK
<1>8. Panes!TypeOK'
  BY <1>2, <1>5, <1>6, <1>7 DEF PanesInv, Panes!TypeOK, PaneTask, PaneEvent
<1>9. \A v \in Workers : v # e.worker => (EndIsLast(v) => EndIsLast(v)') /\ (EndStands(v) => EndStands(v)')
  BY <1>1, <1>2, <1>4, EventComes
<1>10. end[e.worker] # "none" => e.worker \in late'
  BY <1>1 DEF Panes!Over
<1> QED
  BY <1>2, <1>7, <1>8, <1>9, <1>10 DEF PanesInv

\* A worker is killed or stopped.
LEMMA KillStep == ASSUME PanesInv, NEW c \in Panes!Clients, NEW w \in Workers, Panes!Kill(c, w) PROVE PanesInv'
<1>1. /\ keys' \in 0..MaxKeys /\ killed' = killed \cup {w} /\ status' = [status EXCEPT ![w] = "cancelled"]
      /\ shown' = IF c = "ui" THEN [shown EXCEPT ![w] = "cancelled"] ELSE shown
      /\ UNCHANGED <<panesPaused, end, saying, client, panesEvents, late>>
  BY KeyType DEF Panes!Kill, Panes!worker
<1>2. Panes!TypeOK'
  BY <1>1 DEF PanesInv, Panes!TypeOK, Panes!Terminal
<1>3. status \in [Workers -> {"unborn", "running", "paused"} \cup Panes!Terminal] /\ shown \in [Workers -> PaneStates]
  BY DEF PanesInv, Panes!TypeOK, PaneStates
<1>4. \A v \in Workers : EndIsLast(v) => EndIsLast(v)'
  BY <1>1 DEF EndIsLast, Panes!Event
<1>5. \A v \in Workers : EndStands(v) => EndStands(v)'
  <2> SUFFICES ASSUME NEW v \in Workers, EndStands(v) PROVE EndStands(v)'
    OBVIOUS
  <2>1. CASE shown'[v] = shown[v]
    BY <1>1, <2>1 DEF EndStands, Panes!Terminal
  <2>2. CASE shown'[v] # shown[v]
    <3>1. v = w /\ shown'[v] = "cancelled"
      BY <1>1, <1>3, <2>2
    <3> QED
      BY <1>1, <3>1 DEF EndStands, Panes!Terminal
  <2> QED
    BY <2>1, <2>2
<1>6. \A v \in Workers : status'[v] = "unborn" => status[v] = "unborn"
  BY <1>1, <1>3
<1> QED
  BY <1>1, <1>2, <1>4, <1>5, <1>6 DEF PanesInv

\* A worker's context is cancelled.
LEMMA CancelStep ==
  ASSUME PanesInv, (\E marks \in BOOLEAN : Panes!CancelAll(marks)) \/ (\E w \in Workers : Panes!CancelOne(w)) PROVE PanesInv'
<1>1. "ui" \in Panes!Clients /\ client["ui"] \in PaneTask
  BY TaskType DEF Panes!Clients
<1>2. CASE \E marks \in BOOLEAN : Panes!CancelAll(marks)
  <2>1. PICK marks \in BOOLEAN : Panes!CancelAll(marks)
    BY <1>2
  <2> DEFINE r == [say |-> {}, cancel |-> {w \in Workers : status[w] = "running"}, marks |-> marks]
  <2>2. r \in PaneTask
    BY DEF PaneTask
  <2>3. /\ client' = [client EXCEPT !["ui"] = r] /\ UNCHANGED <<status, panesPaused, killed, end, saying, panesEvents, shown, late>>
    BY <2>1 DEF Panes!CancelAll, Panes!worker
  <2> HIDE DEF r
  <2>4. client' \in [Panes!Clients -> PaneTask]
    BY <1>1, <2>2, <2>3, TaskType
  <2>5. keys' \in 0..MaxKeys
    BY <1>1, <2>1, KeyType DEF Panes!CancelAll
  <2>6. Panes!TypeOK'
    BY <2>3, <2>4, <2>5 DEF PanesInv, Panes!TypeOK, PaneTask
  <2> QED
    BY <2>3, <2>6, EndsUntouched
<1>3. CASE \E w \in Workers : Panes!CancelOne(w)
  <2>1. PICK w \in Workers : Panes!CancelOne(w)
    BY <1>3
  <2> DEFINE r == [client["ui"] EXCEPT !.cancel = @ \ {w}]
  <2>2. r \in PaneTask
    BY <1>1 DEF PaneTask
  <2>3. /\ client' = [client EXCEPT !["ui"] = r] /\ killed' = killed \cup {w} /\ status' = [status EXCEPT ![w] = "cancelled"]
        /\ UNCHANGED <<panesPaused, end, saying, panesEvents, shown, late, keys>>
    BY <2>1 DEF Panes!CancelOne, Panes!worker
  <2> HIDE DEF r
  <2>4. client' \in [Panes!Clients -> PaneTask]
    BY <1>1, <2>2, <2>3, TaskType
  <2>5. Panes!TypeOK'
    BY <2>3, <2>4 DEF PanesInv, Panes!TypeOK, PaneTask, Panes!Terminal
  <2>6. \A v \in Workers : status'[v] = "unborn" => status[v] = "unborn"
    BY <2>3 DEF PanesInv, Panes!TypeOK
  <2> QED
    BY <2>3, <2>5, <2>6, EndsUntouched
<1> QED
  BY <1>2, <1>3

\* Panes are marked as cancelled.
LEMMA MarkStep == ASSUME PanesInv, Panes!MarkPanes PROVE PanesInv'
<1>1. /\ client' = [client EXCEPT !["ui"] = Panes!Nothing]
      /\ shown' = [w \in Workers |-> IF shown[w] \in {"running", "paused"} THEN "cancelled" ELSE shown[w]]
      /\ UNCHANGED <<status, panesPaused, killed, end, saying, panesEvents, late, keys>>
  BY DEF Panes!MarkPanes, Panes!worker
<1>2. client' \in [Panes!Clients -> PaneTask]
  BY <1>1, TaskType
<1>3. shown \in [Workers -> PaneStates]
  BY DEF PanesInv, Panes!TypeOK, PaneStates
<1>4. shown' \in [Workers -> PaneStates]
  BY <1>1, <1>3 DEF PaneStates, Panes!Terminal
<1>5. Panes!TypeOK'
  BY <1>1, <1>2, <1>4 DEF PanesInv, Panes!TypeOK, PaneTask, PaneStates
<1>6. \A v \in Workers : (EndIsLast(v) => EndIsLast(v)') /\ (EndStands(v) => EndStands(v)')
  <2> SUFFICES ASSUME NEW v \in Workers PROVE (EndIsLast(v) => EndIsLast(v)') /\ (EndStands(v) => EndStands(v)')
    OBVIOUS
  <2>1. EndIsLast(v) => EndIsLast(v)'
    BY <1>1 DEF EndIsLast, Panes!Event
  <2>2. ASSUME EndStands(v) PROVE EndStands(v)'
    <3>1. shown'[v] = shown[v]
      BY <1>1, <2>2 DEF EndStands, Panes!Terminal
    <3> QED
      BY <1>1, <2>2, <3>1 DEF EndStands, Panes!Terminal
  <2> QED
    BY <2>1, <2>2
<1> QED
  BY <1>1, <1>5, <1>6 DEF PanesInv

\* The screen handles the oldest event.
LEMMA HandleStep == ASSUME PanesInv, Panes!HandleEvent PROVE PanesInv'
<1> DEFINE e == Head(panesEvents)
           s == panesEvents
           t == panesEvents'
<1>1. /\ panesEvents # <<>> /\ panesEvents' = Tail(panesEvents) /\ shown' = [shown EXCEPT ![e.worker] = Panes!Shows(e)]
      /\ UNCHANGED <<status, panesPaused, killed, end, saying, client, late, keys>>
  BY DEF Panes!HandleEvent, Panes!worker
<1>2. /\ t \in Seq(PaneEvent) /\ e = s[1] /\ e \in PaneEvent /\ 1 \in DOMAIN s
      /\ \A i \in DOMAIN t : i \in Nat /\ i + 1 \in DOMAIN s /\ t[i] = s[i + 1]
      /\ \A i \in DOMAIN s : i \in Nat /\ (i = 1 \/ (i - 1 \in DOMAIN t /\ t[i - 1] = s[i] /\ 1 < i))
  <2>1. s \in Seq(PaneEvent)
    BY DEF PanesInv, Panes!TypeOK, PaneEvent
  <2> QED
    BY <1>1, <2>1, PaneShorter
<1> HIDE DEF e, t
<1>3. shown \in [Workers -> PaneStates] /\ e.worker \in Workers /\ e.kind \in Panes!Kinds
  BY <1>2 DEF PanesInv, Panes!TypeOK, PaneStates, PaneEvent
<1>4. Panes!Shows(e) \in PaneStates
  BY <1>3 DEF Panes!Shows, PaneStates, Panes!Terminal, Panes!Kinds
<1>5. shown' \in [Workers -> PaneStates] /\ shown'[e.worker] = Panes!Shows(e) /\ \A v \in Workers : v # e.worker => shown'[v] = shown[v]
  BY <1>1, <1>3, <1>4
<1>6. Panes!TypeOK'
  BY <1>1, <1>2, <1>5 DEF PanesInv, Panes!TypeOK, PaneEvent, PaneStates, t
<1>7. ASSUME NEW v \in Workers, end[v] # "none", EndStands(v) PROVE EndStands(v)'
  <2>1. e.worker # v
    BY <1>2, <1>7 DEF EndStands
  <2>2. \A i \in DOMAIN t : t[i].worker # v
    BY <1>2, <1>7 DEF EndStands
  <2> QED
    BY <1>1, <1>5, <1>7, <2>1, <2>2 DEF EndStands, Panes!Terminal, t
<1>8. ASSUME NEW v \in Workers, end[v] # "none", EndIsLast(v) PROVE EndIsLast(v)' \/ EndStands(v)'
  <2>1. PICK i \in DOMAIN s : s[i] = Panes!Event(v, end[v]) /\ \A j \in DOMAIN s : s[j].worker = v => j <= i
    BY <1>8 DEF EndIsLast
  <2>2. CASE i = 1
    <3>1. e = Panes!Event(v, end[v])
      BY <1>2, <2>1, <2>2
    <3>2. \A j \in DOMAIN t : t[j].worker # v
      <4> SUFFICES ASSUME NEW j \in DOMAIN t, t[j].worker = v PROVE FALSE
        OBVIOUS
      <4>1. j \in Nat /\ j + 1 \in DOMAIN s /\ s[j + 1].worker = v /\ 0 < j
        BY <1>2
      <4>2. j + 1 <= 1
        BY <2>1, <2>2, <4>1
      <4> QED
        BY <4>1, <4>2
    <3>3. end[v] \in {"text", "error", "empty"} /\ e.worker = v /\ e.kind = end[v]
      BY <1>8, <3>1 DEF PanesInv, Panes!TypeOK, Panes!Event
    <3>4. shown'[v] = CASE end[v] = "text" -> "done" [] end[v] = "error" -> "error"
                        [] end[v] = "empty" -> IF shown[v] = "cancelled" THEN "cancelled" ELSE "done"
      BY <1>5, <3>3 DEF Panes!Shows
    <3>5. end[v] = "empty" => v \in killed
      BY DEF PanesInv
    <3>6. EndStands(v)'
      BY <1>1, <3>2, <3>3, <3>4, <3>5 DEF EndStands, Panes!Terminal, t
    <3> QED
      BY <3>6
  <2>3. CASE i # 1
    <3>1. i - 1 \in DOMAIN t /\ t[i - 1] = s[i] /\ i \in Nat
      BY <1>2, <2>3
    <3>2. \A j \in DOMAIN t : t[j].worker = v => j <= i - 1
      <4> SUFFICES ASSUME NEW j \in DOMAIN t, t[j].worker = v PROVE j <= i - 1
        OBVIOUS
      <4>1. j \in Nat /\ j + 1 \in DOMAIN s /\ s[j + 1].worker = v
        BY <1>2
      <4>2. j + 1 <= i
        BY <2>1, <4>1
      <4> QED
        BY <3>1, <4>1, <4>2
    <3>3. EndIsLast(v)'
      BY <1>1, <2>1, <3>1, <3>2 DEF EndIsLast, Panes!Event, t
    <3> QED
      BY <3>3
  <2> QED
    BY <2>2, <2>3
<1> QED
  BY <1>1, <1>6, <1>7, <1>8 DEF PanesInv

\* Every step keeps the invariant of the panes.
LEMMA PanesStep == ASSUME PanesInv, [Panes!Next]_Panes!vars PROVE PanesInv'
<1>1. CASE UNCHANGED Panes!vars
  <2>1. Panes!TypeOK'
    BY <1>1 DEF Panes!vars, Panes!worker, PanesInv, Panes!TypeOK
  <2> QED
    BY <1>1, <2>1, EndsUntouched DEF Panes!vars, Panes!worker
<1> QED
  BY <1>1, SpawnStep, SaysEndStep, CancelStep, EndsStep, PauseStep, KillStep, PublishesStep, MarkStep, HandleStep DEF Panes!Next

\* A worker that has ended is shown so once its events are read.
LEMMA PanesTold == ASSUME PanesInv PROVE Panes!TypeOK /\ Panes!EndIsShown
<1>1. ASSUME NEW w \in Workers, Panes!Told(w), w \notin late PROVE EndStands(w)
  <2>1. EndIsLast(w) \/ EndStands(w)
    BY <1>1 DEF PanesInv, Panes!Told, Panes!Over
  <2>2. ~EndIsLast(w)
    BY <1>1 DEF EndIsLast, Panes!Told, Panes!Event
  <2> QED
    BY <2>1, <2>2
<1> QED
  BY <1>1 DEF PanesInv, Panes!EndIsShown, EndStands

-----------------------------------------------------------------------------
(* Sidebar. *)

\* What Sidebar asks of its constants.
LEMMA SidebarBounds == Sidebar!SidebarConstants
BY MCUiConstants

Item == [id : 1..MaxRows, done : BOOLEAN, notes : BOOLEAN]

\* A "more" row that is viewed, or that a popover was opened from, still has something behind it:
\* workers and shells do not go away.
MoreIsBehind ==
  \A r \in {view, prev} :
    /\ r[1] = "moreShells" => shells > SidebarMax
    /\ r[1] = "moreSubs" => subs > SidebarMax

\* The popover views what it marks, and the notes of a todo are alone in theirs.
MarkIsViewed ==
  /\ popup \in {"shell", "sub"} => sel \in DOMAIN sidebarItems /\ view = Sidebar!Row(popup, sidebarItems[sel])
  /\ popup = "detail" => Len(sidebarItems) = 1 /\ sel = 1

SidebarInv == Sidebar!TypeOK /\ MoreIsBehind /\ MarkIsViewed

\* Min and Max of two numbers.
LEMMA OfTwo ==
  ASSUME NEW a \in Int, NEW b \in Int
  PROVE  /\ Sidebar!Min({a, b}) = IF a <= b THEN a ELSE b
         /\ Sidebar!Max({a, b}) = IF a >= b THEN a ELSE b
<1>1. /\ \E x \in {a, b} : \A y \in {a, b} : x <= y
      /\ \A x \in {a, b} : (\A y \in {a, b} : x <= y) => x = IF a <= b THEN a ELSE b
  OBVIOUS
<1>2. /\ \E x \in {a, b} : \A y \in {a, b} : x >= y
      /\ \A x \in {a, b} : (\A y \in {a, b} : x >= y) => x = IF a >= b THEN a ELSE b
  OBVIOUS
<1> QED
  BY <1>1, <1>2 DEF Sidebar!Min, Sidebar!Max

\* The library's operator is the same wherever it is instantiated.
LEMMA SidebarCardinality == \A S : Sidebar!Cardinality(S) = Cardinality(S)
BY DEF Sidebar!Cardinality, Cardinality

\* A one-to-one map of n things to 1..n reaches each of them.
LEMMA OntoIfOneToOne ==
  ASSUME NEW m \in Nat, NEW p \in [1..m -> 1..m],
         \A i, j \in 1..m : p[i] = p[j] => i = j
  PROVE  \A k \in 1..m : \E i \in 1..m : p[i] = k
<1>1. p \in Injection(1..m, 1..m)
  BY DEF Injection, IsInjective
<1>2. IsFiniteSet(1..m)
  BY FS_Interval
<1>3. p \in Surjection(1..m, 1..m)
  BY <1>1, <1>2, FS_Injection
<1> QED
  BY <1>3 DEF Surjection

\* What the proofs use of the types.
LEMMA TypesHeld ==
  ASSUME Sidebar!TypeOK
  PROVE  /\ todos \in Seq(Item) /\ subs \in Nat /\ shells \in Nat
         /\ subs <= MaxRows /\ shells <= MaxRows
<1>1. todos \in Seq(Item)
  BY Zenon DEF Sidebar!TypeOK, Item
<1>2. subs \in 0..MaxRows /\ shells \in 0..MaxRows /\ MaxRows \in Nat
  BY SidebarBounds DEF Sidebar!TypeOK, Sidebar!SidebarConstants
<1> QED
  BY <1>1, <1>2

\* The items of the list.
LEMMA TodosAre ==
  ASSUME todos \in Seq(Item)
  PROVE  /\ Len(todos) \in Nat /\ DOMAIN todos = 1..Len(todos)
         /\ \A q \in 1..Len(todos) : todos[q] \in Item /\ todos[q].done \in BOOLEAN
<1>1. /\ Len(todos) \in Nat /\ DOMAIN todos = 1..Len(todos)
      /\ \A q \in 1..Len(todos) : todos[q] \in Item
  OBVIOUS
<1>2. \A t \in Item : t.done \in BOOLEAN
  BY DEF Item
<1> QED
  BY <1>1, <1>2

\* The numbers up to m are m.
LEMMA UpTo == ASSUME NEW m \in Nat PROVE IsFiniteSet(1..m) /\ Cardinality(1..m) = m
<1>1. IsFiniteSet(1..m) /\ Cardinality(1..m) = IF 1 > m THEN 0 ELSE m - 1 + 1
  BY FS_Interval
<1> QED
  BY <1>1

\* What an item comes after is fewer than all.
LEMMA PlaceType ==
  ASSUME todos \in Seq(Item), NEW i \in DOMAIN todos
  PROVE  Sidebar!Place(i) \in 1..Len(todos)
<1> DEFINE S == {j \in DOMAIN todos : Sidebar!Ahead(j, i)}
           m == Len(todos)
<1>1. m \in Nat /\ DOMAIN todos = 1..m
  OBVIOUS
<1>2. i \notin S
  BY <1>1 DEF Sidebar!Ahead
<1>3. IsFiniteSet(1..m) /\ Cardinality(1..m) = m
  BY <1>1, UpTo
<1>4. S \in SUBSET (1..m)
  BY <1>1
<1>5. IsFiniteSet(S) /\ Cardinality(S) <= m /\ (m = Cardinality(S) => 1..m = S)
  BY <1>3, <1>4, FS_Subset
<1>6. Cardinality(S) \in Nat
  BY <1>5, FS_CardinalityType
<1>7. Cardinality(S) # m
  BY <1>1, <1>2, <1>5
<1>8. Sidebar!Place(i) = Cardinality(S) + 1
  BY SidebarCardinality DEF Sidebar!Place
<1> HIDE DEF S, m
<1> QED
  BY <1>1, <1>5, <1>6, <1>7, <1>8 DEF m

\* Two items have two places.
LEMMA PlacesDiffer ==
  ASSUME todos \in Seq(Item), NEW i \in DOMAIN todos, NEW j \in DOMAIN todos, Sidebar!Ahead(i, j)
  PROVE  Sidebar!Place(i) # Sidebar!Place(j)
<1> DEFINE S == {q \in DOMAIN todos : Sidebar!Ahead(q, i)}
           T == {q \in DOMAIN todos : Sidebar!Ahead(q, j)}
           m == Len(todos)
<1>1. m \in Nat /\ DOMAIN todos = 1..m /\ \A q \in 1..m : todos[q].done \in BOOLEAN
  BY TodosAre
<1>2. IsFiniteSet(1..m)
  BY <1>1, UpTo
<1>3. T \in SUBSET (1..m)
  BY <1>1
<1>4. IsFiniteSet(T) 
  BY <1>2, <1>3, FS_Subset
<1>5. S \in SUBSET T
  BY <1>1 DEF Sidebar!Ahead
<1>6. i \in T /\ i \notin S
  BY <1>1 DEF Sidebar!Ahead
<1>7. IsFiniteSet(S) /\ Cardinality(S) <= Cardinality(T) /\ (Cardinality(T) = Cardinality(S) => T = S)
  BY <1>4, <1>5, FS_Subset
<1>8. Cardinality(S) \in Nat /\ Cardinality(T) \in Nat
  BY <1>4, <1>7, FS_CardinalityType
<1>9. Cardinality(S) # Cardinality(T)
  BY <1>6, <1>7
<1>10. Sidebar!Place(i) = Cardinality(S) + 1 /\ Sidebar!Place(j) = Cardinality(T) + 1
  BY SidebarCardinality DEF Sidebar!Place
<1> HIDE DEF S, T
<1> QED
  BY <1>8, <1>9, <1>10

\* The sorted list is a list of the items.
LEMMA SortedType ==
  ASSUME todos \in Seq(Item)
  PROVE  Sidebar!Sorted \in Seq(Item) /\ Len(Sidebar!Sorted) = Len(todos)
<1> DEFINE m == Len(todos)
           p == [i \in 1..m |-> Sidebar!Place(i)]
<1>1. m \in Nat /\ DOMAIN todos = 1..m /\ \A q \in 1..m : todos[q] \in Item /\ todos[q].done \in BOOLEAN
  BY TodosAre
<1>2. p \in [1..m -> 1..m]
  BY <1>1, PlaceType
<1>3. ASSUME NEW i \in 1..m, NEW j \in 1..m, p[i] = p[j] PROVE i = j
  <2>1. i = j \/ Sidebar!Ahead(i, j) \/ Sidebar!Ahead(j, i)
    BY <1>1 DEF Sidebar!Ahead
  <2>2. Sidebar!Place(i) = Sidebar!Place(j)
    BY <1>3
  <2> QED
    BY <1>1, <2>1, <2>2, PlacesDiffer
<1>4. \A k \in 1..m : \E i \in 1..m : p[i] = k
  <2> HIDE DEF p, m
  <2> QED
    BY <1>1, <1>2, <1>3, OntoIfOneToOne
<1>5. ASSUME NEW k \in 1..m PROVE todos[CHOOSE i \in DOMAIN todos : Sidebar!Place(i) = k] \in Item
  <2>1. \E i \in DOMAIN todos : Sidebar!Place(i) = k
    BY <1>1, <1>4
  <2>2. (CHOOSE i \in DOMAIN todos : Sidebar!Place(i) = k) \in DOMAIN todos
    BY <2>1
  <2> QED
    BY <1>1, <2>2
<1>6. Sidebar!Sorted = [k \in 1..m |-> todos[CHOOSE i \in DOMAIN todos : Sidebar!Place(i) = k]]
  BY <1>1 DEF Sidebar!Sorted
<1>7. Sidebar!Sorted \in [1..m -> Item]
  BY <1>5, <1>6
<1> HIDE DEF m, p
<1> QED
  BY <1>1, <1>7 DEF m

-----------------------------------------------------------------------------
(* The rows. *)

\* What two sequences, one after the other, have in them.
LEMMA JoinHas ==
  ASSUME NEW S, NEW s \in Seq(S), NEW t \in Seq(S)
  PROVE  s \o t \in Seq(S) /\ Sidebar!Range(s \o t) = Sidebar!Range(s) \cup Sidebar!Range(t)
<1> DEFINE a == Len(s)
           b == Len(t)
<1>1. a \in Nat /\ b \in Nat /\ DOMAIN s = 1..a /\ DOMAIN t = 1..b
  OBVIOUS
<1>2. /\ Len(s \o t) = a + b
      /\ \A k \in 1..a : (s \o t)[k] = s[k]
      /\ \A k \in (a + 1)..(a + b) : (s \o t)[k] = t[k - a]
  OBVIOUS
<1>4. s \o t \in Seq(S)
  OBVIOUS
<1>5. DOMAIN (s \o t) = 1..(a + b)
  BY <1>2, <1>4
<1> DEFINE u == s \o t
<1>6. /\ DOMAIN u = 1..(a + b)
      /\ \A k \in 1..a : u[k] = s[k]
      /\ \A k \in (a + 1)..(a + b) : u[k] = t[k - a]
  BY <1>2, <1>5
<1> HIDE DEF u, a, b
<1>7. ASSUME NEW k \in 1..b PROVE u[a + k] = t[k] /\ a + k \in 1..(a + b)
  <2>1. a + k \in (a + 1)..(a + b) /\ (a + k) - a = k /\ a + k \in 1..(a + b)
    BY <1>1
  <2> QED
    BY <1>6, <2>1
<1>8. ASSUME NEW k \in 1..(a + b) PROVE k \in 1..a \/ (k \in (a + 1)..(a + b) /\ k - a \in 1..b)
  BY <1>1
<1>9. \A k \in 1..a : k \in 1..(a + b)
  BY <1>1
<1>10. Sidebar!Range(u) = Sidebar!Range(s) \cup Sidebar!Range(t)
  <2>1. ASSUME NEW x \in Sidebar!Range(u) PROVE x \in Sidebar!Range(s) \cup Sidebar!Range(t)
    BY <1>1, <1>6, <1>8, <2>1 DEF Sidebar!Range
  <2>2. ASSUME NEW x \in Sidebar!Range(s) PROVE x \in Sidebar!Range(u)
    BY <1>1, <1>6, <1>9, <2>2 DEF Sidebar!Range
  <2>3. ASSUME NEW x \in Sidebar!Range(t) PROVE x \in Sidebar!Range(u)
    <3>1. PICK k \in 1..b : t[k] = x
      BY <1>1, <2>3 DEF Sidebar!Range
    <3>2. u[a + k] = x /\ a + k \in DOMAIN u
      BY <1>6, <1>7, <3>1
    <3> QED
      BY <3>2 DEF Sidebar!Range
  <2> QED
    BY <2>1, <2>2, <2>3
<1> QED
  BY <1>4, <1>10 DEF u

\* The row for the rest, if there is one.
LEMMA RestHas ==
  ASSUME NEW is, NEW row
  PROVE  /\ (IF is THEN <<row>> ELSE <<>>) \in Seq(IF is THEN {row} ELSE {})
         /\ Sidebar!Range(IF is THEN <<row>> ELSE <<>>) = IF is THEN {row} ELSE {}
<1>1. Sidebar!Range(<<row>>) = {row} /\ <<row>> \in Seq({row})
  <2>1. DOMAIN <<row>> = 1..1 /\ <<row>>[1] = row /\ 1..1 = {1}
    OBVIOUS
  <2> QED
    BY <2>1 DEF Sidebar!Range
<1>2. <<>> \in Seq({}) /\ Sidebar!Range(<<>>) = {}
  <2>1. DOMAIN <<>> = {}
    OBVIOUS
  <2> QED
    BY <2>1 DEF Sidebar!Range
<1> QED
  BY <1>1, <1>2

\* A section drawn is the section that Tab goes through.
LEMMA DrawnIsSection ==
  ASSUME NEW count \in Nat, NEW what, NEW more
  PROVE  Sidebar!Drawn(what, count, more) = Sidebar!Section(what, count, more)
<1> DEFINE start == IF count > SidebarMax THEN count - SidebarMax ELSE 0
           all == [id \in 1..count |-> Sidebar!Row(what, id)]
           newest == SubSeq(all, start + 1, count)
<1>1. SidebarMax \in Nat
  BY SidebarBounds DEF Sidebar!SidebarConstants
<1>2. Sidebar!Max({count - SidebarMax, 0}) = start
  BY <1>1, OfTwo
<1>3. start \in Nat /\ start <= count /\ (start > 0 <=> count > SidebarMax)
  BY <1>1
<1>4. newest = [k \in 1..(count - start) |-> Sidebar!Row(what, start + k)]
  <2>1. newest = [k \in 1..(count - (start + 1) + 1) |-> all[k + (start + 1) - 1]]
    BY <1>3
  <2>2. count - (start + 1) + 1 = count - start
    BY <1>3
  <2>3. ASSUME NEW k \in 1..(count - start) PROVE all[k + (start + 1) - 1] = Sidebar!Row(what, start + k)
    <3>1. start + k \in 1..count /\ k + (start + 1) - 1 = start + k
      BY <1>3
    <3> QED
      BY <3>1
  <2> HIDE DEF all, newest
  <2> QED
    BY <2>1, <2>2, <2>3
<1>5. Len(newest) = count - start
  <2> HIDE DEF newest
  <2> QED
    BY <1>3, <1>4
<1>6. Sidebar!Reverse(newest) = [k \in 1..(count - start) |-> Sidebar!Row(what, count + 1 - k)]
  <2>1. Sidebar!Reverse(newest) = [k \in 1..(count - start) |-> newest[((count - start) - k) + 1]]
    BY <1>5 DEF Sidebar!Reverse
  <2>2. ASSUME NEW k \in 1..(count - start)
        PROVE  newest[((count - start) - k) + 1] = Sidebar!Row(what, count + 1 - k)
    <3>1. ((count - start) - k) + 1 \in 1..(count - start)
      BY <1>3
    <3>2. start + (((count - start) - k) + 1) = count + 1 - k
      BY <1>3
    <3> HIDE DEF newest, start
    <3> QED
      BY <1>4, <3>1, <3>2
  <2> HIDE DEF newest
  <2> QED
    BY <2>1, <2>2
<1>7. Sidebar!Drawn(what, count, more) = Sidebar!Reverse(newest) \o IF start > 0 THEN <<Sidebar!Row(more, 0)>> ELSE <<>>
  BY <1>2 DEF Sidebar!Drawn
<1>8. Sidebar!Section(what, count, more)
        = [k \in 1..(count - start) |-> Sidebar!Row(what, count + 1 - k)]
            \o IF count > SidebarMax THEN <<Sidebar!Row(more, 0)>> ELSE <<>>
  BY DEF Sidebar!Section
<1> HIDE DEF newest, start
<1> QED
  BY <1>3, <1>6, <1>7, <1>8

\* What a section has in it.
InSection(what, count, more) ==
  {Sidebar!Row(what, id) : id \in ((IF count > SidebarMax THEN count - SidebarMax ELSE 0) + 1)..count}
    \cup IF count > SidebarMax THEN {Sidebar!Row(more, 0)} ELSE {}

\* A section has these.
LEMMA SectionHas ==
  ASSUME NEW count \in Nat, NEW what, NEW more
  PROVE  /\ Sidebar!Section(what, count, more) \in Seq(InSection(what, count, more))
         /\ Sidebar!Range(Sidebar!Section(what, count, more)) = InSection(what, count, more)
<1> DEFINE start == IF count > SidebarMax THEN count - SidebarMax ELSE 0
           m == count - start
           new == [k \in 1..m |-> Sidebar!Row(what, count + 1 - k)]
           rest == IF count > SidebarMax THEN <<Sidebar!Row(more, 0)>> ELSE <<>>
           A == {Sidebar!Row(what, id) : id \in (start + 1)..count}
           B == IF count > SidebarMax THEN {Sidebar!Row(more, 0)} ELSE {}
<1>1. SidebarMax \in Nat
  BY SidebarBounds DEF Sidebar!SidebarConstants
<1>2. start \in Nat /\ m \in Nat /\ start + m = count
  BY <1>1
<1>3. new \in Seq(A) /\ Sidebar!Range(new) = A
  <2> HIDE DEF start, m
  <2>1. ASSUME NEW k \in 1..m PROVE count + 1 - k \in (start + 1)..count
    BY <1>2
  <2>2. ASSUME NEW id \in (start + 1)..count
        PROVE  count + 1 - id \in 1..m /\ count + 1 - (count + 1 - id) = id
    BY <1>2
  <2>3. \A k \in 1..m : new[k] \in A
    BY <2>1
  <2>4. \A id \in (start + 1)..count : new[count + 1 - id] = Sidebar!Row(what, id)
    BY <2>2
  <2>5. DOMAIN new = 1..m /\ Len(new) = m
    BY <1>2
  <2>6. \A x \in A : \E id \in (start + 1)..count : x = Sidebar!Row(what, id)
    OBVIOUS
  <2>7. new \in [1..m -> A]
    BY <2>1
  <2>8. new \in Seq(A)
    <3> HIDE DEF new, A
    <3> QED
      BY <1>2, <2>7
  <2> HIDE DEF new, A
  <2>9. \A x \in A : \E k \in 1..m : new[k] = x
    BY <2>2, <2>4, <2>6
  <2> QED
    BY <2>3, <2>5, <2>8, <2>9 DEF Sidebar!Range
<1>4. rest \in Seq(B) /\ Sidebar!Range(rest) = B
  BY RestHas
<1>5. Sidebar!Section(what, count, more) = new \o rest
  BY DEF Sidebar!Section
<1> HIDE DEF new, rest, A, B
<1>6. new \o rest \in Seq(A \cup B) /\ Sidebar!Range(new \o rest) = A \cup B
  <2>1. Sidebar!Range(new) \cup Sidebar!Range(rest) = A \cup B
    BY <1>3, <1>4
  <2>2. \A U, V : \A q \in Seq(U) : U \subseteq V => q \in Seq(V)
    OBVIOUS
  <2>3. A \subseteq A \cup B /\ B \subseteq A \cup B
    OBVIOUS
  <2>4. new \in Seq(A \cup B) /\ rest \in Seq(A \cup B)
    BY <1>3, <1>4, <2>2, <2>3
  <2>5. new \o rest \in Seq(A \cup B) /\ Sidebar!Range(new \o rest) = Sidebar!Range(new) \cup Sidebar!Range(rest)
    BY <2>4, JoinHas
  <2> QED
    BY <2>1, <2>5
<1> QED
  BY <1>5, <1>6 DEF A, B, InSection

\* The todos that are shown.
LEMMA VisibleType ==
  ASSUME todos \in Seq(Item)
  PROVE  Sidebar!Visible \in Seq(Item) /\ Len(Sidebar!Sorted) \in Nat
<1> DEFINE u == Sidebar!Sorted
           m == Sidebar!Min({Sidebar!VisibleCap, Len(u)})
<1>1. u \in Seq(Item) /\ Len(u) \in Nat
  BY SortedType
<1>2. SidebarMax \in Nat
  BY SidebarBounds DEF Sidebar!SidebarConstants
<1>3. Sidebar!Active \in Nat
  <2>1. IsFiniteSet(1..Len(todos)) /\ DOMAIN todos = 1..Len(todos)
    BY TodosAre, UpTo
  <2>2. {i \in DOMAIN todos : ~todos[i].done} \in SUBSET (1..Len(todos))
    BY <2>1
  <2>3. IsFiniteSet({i \in DOMAIN todos : ~todos[i].done})
    BY <2>1, <2>2, FS_Subset
  <2> QED
    BY <2>3, FS_CardinalityType, SidebarCardinality DEF Sidebar!Active
<1>4. Sidebar!VisibleCap \in Nat
  <2> DEFINE slots == IF Sidebar!Active > SidebarMax THEN 0 ELSE Sidebar!Min({SidebarMax - Sidebar!Active, 2})
             sum == Sidebar!Active + slots
             cap == Sidebar!Min({sum, SidebarMax})
  <2>1. slots \in Nat
    BY <1>2, <1>3, OfTwo
  <2>2. sum \in Nat
    BY <2>1, <1>3
  <2>3. Sidebar!VisibleCap = Sidebar!Max({cap, 1})
    BY DEF Sidebar!VisibleCap
  <2> HIDE DEF slots, sum
  <2>4. cap \in Nat
    BY <2>2, <1>2, OfTwo
  <2> HIDE DEF cap
  <2>5. \A x \in Nat : Sidebar!Max({x, 1}) \in Nat
    <3> SUFFICES ASSUME NEW x \in Nat PROVE Sidebar!Max({x, 1}) \in Nat
      OBVIOUS
    <3>1. x \in Int /\ 1 \in Int
      OBVIOUS
    <3>2. Sidebar!Max({x, 1}) = IF x >= 1 THEN x ELSE 1
      BY <3>1, OfTwo
    <3> QED
      BY <3>2
  <2> QED
    BY <2>3, <2>4, <2>5
<1>5. m \in Nat /\ m <= Len(u)
  <2> HIDE DEF u
  <2> QED
    BY <1>1, <1>4, OfTwo
<1>6. Sidebar!Visible = SubSeq(u, 1, m)
  BY DEF Sidebar!Visible
<1> HIDE DEF u, m
<1>7. SubSeq(u, 1, m) \in Seq(Item)
  BY <1>1, <1>5
<1> QED
  BY <1>1, <1>6, <1>7 DEF u

\* The rows of todos.
TodosShown == {Sidebar!Row("todo", id) : id \in 1..MaxRows} \cup {Sidebar!Row("moreTodos", 0)}

\* The rows of todos are rows.
LEMMA TodoRowsAre ==
  ASSUME todos \in Seq(Item)
  PROVE  Sidebar!TodoRows \in Seq(TodosShown)
<1> DEFINE u == [k \in DOMAIN Sidebar!Visible |-> Sidebar!Row("todo", Sidebar!Visible[k].id)]
           r == IF Len(Sidebar!Sorted) - Len(Sidebar!Visible) > 0 THEN <<Sidebar!Row("moreTodos", 0)>> ELSE <<>>
           v == Sidebar!Visible
<1>1. v \in Seq(Item)
  BY VisibleType
<1> HIDE DEF v
<1>2. Len(v) \in Nat /\ DOMAIN v = 1..Len(v) /\ \A k \in 1..Len(v) : v[k] \in Item
  BY <1>1
<1>3. \A t \in Item : t.id \in 1..MaxRows
  BY DEF Item
<1>4. u = [k \in 1..Len(v) |-> Sidebar!Row("todo", v[k].id)]
  BY <1>2 DEF v
<1>5. \A k \in 1..Len(v) : Sidebar!Row("todo", v[k].id) \in TodosShown
  BY <1>2, <1>3 DEF TodosShown
<1> HIDE DEF u
<1>6. u \in Seq(TodosShown)
  BY <1>2, <1>4, <1>5
<1>7. r \in Seq(TodosShown)
  <2>1. Sidebar!Row("moreTodos", 0) \in TodosShown
    BY DEF TodosShown
  <2>2. <<>> \in Seq(TodosShown) /\ <<Sidebar!Row("moreTodos", 0)>> \in Seq(TodosShown)
    BY <2>1
  <2> QED
    BY <2>2
<1>8. Sidebar!TodoRows = u \o r
  BY DEF Sidebar!TodoRows, u
<1> HIDE DEF r
<1> QED
  BY <1>6, <1>7, <1>8, JoinHas

\* Tab goes through the rows on the screen.
LEMMA CycleIsSide ==
  ASSUME Sidebar!TypeOK
  PROVE  Sidebar!CycleList = Sidebar!SideRows
<1>1. todos \in Seq(Item) /\ subs \in Nat /\ shells \in Nat
  BY TypesHeld
<1>2. Len(Sidebar!Sorted) \in Nat /\ Len(Sidebar!Visible) \in Nat
  BY <1>1, VisibleType
<1>3. Len(Sidebar!Sorted) > Len(Sidebar!Visible) <=> Len(Sidebar!Sorted) - Len(Sidebar!Visible) > 0
  BY <1>2
<1>4. Sidebar!ShellRows = Sidebar!Section("shell", shells, "moreShells") /\ Sidebar!SubRows = Sidebar!Section("sub", subs, "moreSubs")
  BY <1>1, DrawnIsSection DEF Sidebar!ShellRows, Sidebar!SubRows
<1> QED
  BY <1>3, <1>4 DEF Sidebar!CycleList, Sidebar!SideRows, Sidebar!TodoRows

\* The rows of all sections.
LEMMA CycleHas ==
  ASSUME Sidebar!TypeOK
  PROVE  /\ Sidebar!CycleList \in Seq(Sidebar!Range(Sidebar!CycleList))
         /\ \E T \in SUBSET TodosShown :
              Sidebar!Range(Sidebar!CycleList) = (T \cup InSection("shell", shells, "moreShells"))
                                                   \cup InSection("sub", subs, "moreSubs")
<1> DEFINE A == InSection("shell", shells, "moreShells")
           B == InSection("sub", subs, "moreSubs")
           S == (TodosShown \cup A) \cup B
           a == Sidebar!Section("shell", shells, "moreShells")
           b == Sidebar!Section("sub", subs, "moreSubs")
           t == Sidebar!TodoRows
<1>1. todos \in Seq(Item) /\ subs \in Nat /\ shells \in Nat
  BY TypesHeld
<1>2. t \in Seq(TodosShown) /\ a \in Seq(A) /\ b \in Seq(B) /\ Sidebar!Range(a) = A /\ Sidebar!Range(b) = B
  BY <1>1, TodoRowsAre, SectionHas
<1>3. Sidebar!CycleList = (t \o a) \o b
  BY <1>1, CycleIsSide, DrawnIsSection DEF Sidebar!SideRows, Sidebar!ShellRows, Sidebar!SubRows
<1> HIDE DEF a, b, t, A, B
<1>4. Sidebar!Range(t) \in SUBSET TodosShown
  BY <1>2 DEF Sidebar!Range
<1>5. t \in Seq(S) /\ a \in Seq(S) /\ b \in Seq(S)
  <2>1. TodosShown \subseteq S /\ A \subseteq S /\ B \subseteq S
    OBVIOUS
  <2> HIDE DEF S
  <2>2. \A U, V : \A q \in Seq(U) : U \subseteq V => q \in Seq(V)
    OBVIOUS
  <2> QED
    BY <1>2, <2>1, <2>2
<1> HIDE DEF S
<1>6. t \o a \in Seq(S) /\ Sidebar!Range(t \o a) = Sidebar!Range(t) \cup A
  BY <1>2, <1>5, JoinHas
<1> DEFINE w == t \o a
<1>7. w \in Seq(S) /\ Sidebar!Range(w) = Sidebar!Range(t) \cup A /\ Sidebar!CycleList = w \o b
  BY <1>3, <1>6
<1> HIDE DEF w
<1>8. Sidebar!CycleList \in Seq(S) /\ Sidebar!Range(Sidebar!CycleList) = Sidebar!Range(w) \cup B
  BY <1>2, <1>5, <1>7, JoinHas
<1> DEFINE c == Sidebar!CycleList
<1>9. c \in Seq(Sidebar!Range(c))
  <2>1. c \in Seq(S)
    BY <1>8
  <2> HIDE DEF c
  <2>2. Len(c) \in Nat /\ DOMAIN c = 1..Len(c) /\ c \in [1..Len(c) -> S]
    BY <2>1
  <2>3. \A k \in DOMAIN c : c[k] \in Sidebar!Range(c)
    BY DEF Sidebar!Range
  <2>4. c \in [1..Len(c) -> Sidebar!Range(c)]
    BY <2>2, <2>3
  <2> QED
    BY <2>2, <2>4
<1> QED
  BY <1>4, <1>7, <1>8, <1>9 DEF A, B, c

\* What is in a section is a row, and one for the rest has something behind it.
LEMMA SectionRows ==
  ASSUME NEW count \in Nat, NEW what, NEW more, NEW r \in InSection(what, count, more)
  PROVE  \/ \E id \in 1..count : r = Sidebar!Row(what, id)
         \/ r = Sidebar!Row(more, 0) /\ count > SidebarMax
<1>1. SidebarMax \in Nat
  BY SidebarBounds DEF Sidebar!SidebarConstants
<1> QED
  BY <1>1 DEF InSection

\* A row of the list is a row, and one for the rest has something behind it.
IsRow(r) ==
  /\ r \in Sidebar!Rows
  /\ r[1] = "moreShells" => shells > SidebarMax
  /\ r[1] = "moreSubs" => subs > SidebarMax

\* Every row that Tab goes through is one, and a row for the rest has one.
LEMMA CycleRows ==
  ASSUME Sidebar!TypeOK, NEW r \in Sidebar!Range(Sidebar!CycleList)
  PROVE  IsRow(r)
<1>1. subs \in Nat /\ shells \in Nat /\ subs <= MaxRows /\ shells <= MaxRows /\ MaxRows \in Nat
  BY TypesHeld, SidebarBounds DEF Sidebar!SidebarConstants
<1>2. \/ r \in TodosShown
      \/ r \in InSection("shell", shells, "moreShells")
      \/ r \in InSection("sub", subs, "moreSubs")
  BY CycleHas
<1>3. \/ \E what \in {"todo", "shell", "sub"}, id \in 1..MaxRows : r = Sidebar!Row(what, id)
      \/ r = Sidebar!Row("moreTodos", 0)
      \/ r = Sidebar!Row("moreShells", 0) /\ shells > SidebarMax
      \/ r = Sidebar!Row("moreSubs", 0) /\ subs > SidebarMax
  <2>1. CASE r \in TodosShown
    BY <2>1 DEF TodosShown
  <2>2. CASE r \in InSection("shell", shells, "moreShells")
    <3>1. CASE \E id \in 1..shells : r = Sidebar!Row("shell", id)
      BY <1>1, <3>1
    <3> QED
      BY <1>1, <2>2, <3>1, SectionRows
  <2>3. CASE r \in InSection("sub", subs, "moreSubs")
    <3>1. CASE \E id \in 1..subs : r = Sidebar!Row("sub", id)
      BY <1>1, <3>1
    <3> QED
      BY <1>1, <2>3, <3>1, SectionRows
  <2> QED
    BY <1>2, <2>1, <2>2, <2>3
<1> QED
  BY <1>3 DEF IsRow, Sidebar!Rows, Sidebar!Row, Sidebar!MoreRows, Sidebar!Master

\* Where Tab goes is a row.
LEMMA CycledRow ==
  ASSUME Sidebar!TypeOK, IsRow(view), NEW dir
  PROVE  IsRow(Sidebar!Cycled(dir))
<1> DEFINE c == Sidebar!CycleList
           at == IF Sidebar!Contains(c, view) THEN CHOOSE k \in DOMAIN c : c[k] = view ELSE 0
<1>1. c \in Seq(Sidebar!Range(c))
  BY CycleHas
<1>2. \A r \in Sidebar!Range(c) : IsRow(r)
  BY CycleRows
<1>3. IsRow(Sidebar!Master)
  BY DEF IsRow, Sidebar!Rows, Sidebar!Row, Sidebar!Master
<1>4. Sidebar!Cycled(dir)
        = IF c = <<>> THEN view
          ELSE IF view = Sidebar!Master THEN (IF dir = "down" THEN c[1] ELSE c[Len(c)])
          ELSE IF at = 0 THEN Sidebar!Master
          ELSE IF dir = "down" THEN (IF at = Len(c) THEN Sidebar!Master ELSE c[at + 1])
          ELSE IF at = 1 THEN Sidebar!Master ELSE c[at - 1]
  BY DEF Sidebar!Cycled
<1> HIDE DEF c
<1>5. Len(c) \in Nat /\ DOMAIN c = 1..Len(c) /\ \A k \in 1..Len(c) : c[k] \in Sidebar!Range(c)
  BY <1>1
<1>6. c # <<>> => 1 \in 1..Len(c) /\ Len(c) \in 1..Len(c)
  BY <1>1
<1>7. at # 0 => at \in 1..Len(c)
  BY <1>5 DEF Sidebar!Contains
<1> HIDE DEF at
<1>8. at # 0 /\ at # Len(c) => at + 1 \in 1..Len(c)
  BY <1>5, <1>7
<1>9. at # 0 /\ at # 1 => at - 1 \in 1..Len(c)
  BY <1>5, <1>7
<1> QED
  BY <1>2, <1>3, <1>4, <1>5, <1>6, <1>8, <1>9

\* What an older list has.
LEMMA OlderIs ==
  ASSUME NEW count \in Nat, count <= MaxRows
  PROVE  /\ Sidebar!Older(count) \in Seq(1..MaxRows)
         /\ Sidebar!Range(Sidebar!Older(count)) = 1..(IF count > SidebarMax THEN count - SidebarMax ELSE 0)
         /\ Sidebar!Older(count) # <<>> <=> count > SidebarMax
<1> DEFINE last == IF count > SidebarMax THEN count - SidebarMax ELSE 0
           q == [k \in 1..last |-> last + 1 - k]
<1>1. SidebarMax \in Nat /\ MaxRows \in Nat
  BY SidebarBounds DEF Sidebar!SidebarConstants
<1>2. last \in Nat /\ last <= MaxRows /\ (last > 0 <=> count > SidebarMax)
  BY <1>1
<1>3. Sidebar!Older(count) = q
  BY DEF Sidebar!Older
<1> HIDE DEF last
<1>4. \A k \in 1..last : last + 1 - k \in 1..last /\ last + 1 - k \in 1..MaxRows
  BY <1>1, <1>2
<1>5. q \in Seq(1..MaxRows)
  BY <1>2, <1>4
<1>6. DOMAIN q = 1..last /\ Len(q) = last /\ \A k \in 1..last : q[k] = last + 1 - k
  BY <1>2
<1> HIDE DEF q
<1>7. Sidebar!Range(q) = 1..last
  <2>1. ASSUME NEW k \in 1..last PROVE last + 1 - k \in 1..last /\ q[last + 1 - k] = k
    <3>1. last + 1 - k \in 1..last /\ last + 1 - (last + 1 - k) = k
      BY <1>2
    <3> QED
      BY <1>6, <3>1
  <2> QED
    BY <1>4, <1>6, <2>1 DEF Sidebar!Range
<1>8. q # <<>> <=> last > 0
  BY <1>2, <1>5, <1>6
<1> QED
  BY <1>2, <1>3, <1>5, <1>7, <1>8 DEF last

\* The todos past the first.
LEMMA OlderTodosType ==
  ASSUME Sidebar!TypeOK
  PROVE  Sidebar!OlderTodos \in Seq(1..MaxRows)
<1> DEFINE u == Sidebar!Sorted
           last == IF Len(u) > SidebarMax THEN Len(u) - SidebarMax ELSE 0
<1>1. SidebarMax \in Nat /\ u \in Seq(Item)
  BY TypesHeld, SortedType, SidebarBounds DEF Sidebar!SidebarConstants
<1>2. Sidebar!OlderTodos = [k \in 1..last |-> u[SidebarMax + k].id]
  BY DEF Sidebar!OlderTodos
<1> HIDE DEF u
<1>3. Len(u) \in Nat /\ \A k \in 1..Len(u) : u[k] \in Item
  BY <1>1
<1>4. last \in Nat
  BY <1>1, <1>3
<1>5. \A k \in 1..last : SidebarMax + k \in 1..Len(u)
  BY <1>1, <1>3
<1>6. \A t \in Item : t.id \in 1..MaxRows
  BY DEF Item
<1> HIDE DEF last
<1> QED
  BY <1>2, <1>3, <1>4, <1>5, <1>6

-----------------------------------------------------------------------------
(* The steps. *)

\* What sequences have, of whatever it may be.
LEMMA OfSeq ==
  \A S : /\ <<>> \in Seq(S)
         /\ \A q \in Seq(S) : /\ Len(q) \in Nat /\ DOMAIN q = 1..Len(q)
                             /\ \A k \in DOMAIN q : q[k] \in S
                             /\ q # <<>> => 1 \in DOMAIN q
OBVIOUS

\* The parts of the type invariant.
AgentsOK == subs \in 0..MaxRows /\ shells \in 0..MaxRows /\ todos \in Seq(Item)
PopoverOK ==
  /\ popup \in {"", "shell", "sub", "todo", "detail"}
  /\ sidebarItems \in Seq(1..MaxRows)
  /\ sel \in 1..(MaxRows + 1)

\* The type invariant is its parts.
LEMMA TypeParts ==
  /\ Sidebar!TypeOK <=> AgentsOK /\ PopoverOK /\ view \in Sidebar!Rows /\ prev \in Sidebar!Rows
  /\ Sidebar!TypeOK' <=> AgentsOK' /\ PopoverOK' /\ view' \in Sidebar!Rows /\ prev' \in Sidebar!Rows
<1>1. Sidebar!TypeOK <=> AgentsOK /\ PopoverOK /\ view \in Sidebar!Rows /\ prev \in Sidebar!Rows
  BY Zenon DEF Sidebar!TypeOK, AgentsOK, PopoverOK, Item
<1>2. Sidebar!TypeOK' <=> AgentsOK' /\ PopoverOK' /\ view' \in Sidebar!Rows /\ prev' \in Sidebar!Rows
  BY Zenon DEF Sidebar!TypeOK, AgentsOK, PopoverOK, Item
<1> QED
  BY <1>1, <1>2

\* Nothing comes or goes.
LEMMA AgentsStay ==
  ASSUME UNCHANGED <<subs, shells, todos>>
  PROVE  AgentsOK' <=> AgentsOK
<1>1. subs' = subs /\ shells' = shells /\ todos' = todos
  OBVIOUS
<1> QED
  BY <1>1, Zenon DEF AgentsOK

\* The viewed row, and the one a popover was opened from.
LEMMA RowsHeld == 
  /\ SidebarInv => IsRow(view) /\ IsRow(prev)
  /\ (view \in Sidebar!Rows /\ prev \in Sidebar!Rows /\ MoreIsBehind)' <=> (IsRow(view) /\ IsRow(prev))'
BY DEF SidebarInv, Sidebar!TypeOK, MoreIsBehind, IsRow

\* Nothing is there but the master.
LEMMA InitSidebar == ASSUME Sidebar!Init PROVE SidebarInv
<1>1. MaxRows \in Nat
  BY SidebarBounds DEF Sidebar!SidebarConstants
<1>2. Sidebar!Master \in Sidebar!Rows /\ Sidebar!Master[1] = "master"
  BY DEF Sidebar!Rows, Sidebar!Master, Sidebar!Row
<1>3. Sidebar!TypeOK
  <2>1. AgentsOK
    <3>1. subs = 0 /\ shells = 0 /\ todos = <<>>
      BY DEF Sidebar!Init
    <3>2. <<>> \in Seq(Item)
      BY OfSeq
    <3> QED
      BY <1>1, <3>1, <3>2 DEF AgentsOK
  <2>2. PopoverOK
    <3>1. popup = "" /\ sidebarItems = <<>> /\ sel = 1
      BY DEF Sidebar!Init
    <3>2. <<>> \in Seq(1..MaxRows)
      BY OfSeq
    <3>3. 1 \in 1..(MaxRows + 1)
      BY <1>1
    <3> QED
      BY <3>1, <3>2, <3>3, Zenon DEF PopoverOK
  <2> QED
    BY <1>2, <2>1, <2>2, TypeParts DEF Sidebar!Init
<1> QED
  BY <1>2, <1>3 DEF Sidebar!Init, SidebarInv, MoreIsBehind, MarkIsViewed

\* Workers and shells come, todos come and go.
LEMMA AgentsStep ==
  ASSUME SidebarInv,
         \/ Sidebar!NewSub \/ Sidebar!NewShell \/ Sidebar!FinishTodo \/ Sidebar!ClearTodos
         \/ \E notes \in BOOLEAN : Sidebar!NewTodo(notes)
  PROVE  SidebarInv'
<1>1. /\ UNCHANGED <<view, popup, sidebarItems, sel, prev>>
      /\ subs' \in 0..MaxRows /\ subs' >= subs /\ shells' \in 0..MaxRows /\ shells' >= shells
  <2>1. subs \in 0..MaxRows /\ shells \in 0..MaxRows /\ MaxRows \in Nat
    BY TypeParts, SidebarBounds DEF SidebarInv, AgentsOK, Sidebar!SidebarConstants
  <2>2. /\ UNCHANGED <<view, popup, sidebarItems, sel, prev>>
        /\ \/ subs' = subs
           \/ subs < MaxRows /\ subs' = subs + 1
        /\ \/ shells' = shells
           \/ shells < MaxRows /\ shells' = shells + 1
    BY DEF Sidebar!NewSub, Sidebar!NewShell, Sidebar!FinishTodo, Sidebar!ClearTodos, Sidebar!NewTodo, Sidebar!popover
  <2> QED
    BY <2>1, <2>2
<1>2. todos' \in Seq(Item)
  <2>1. todos \in Seq(Item) /\ MaxRows \in Nat
    BY TypesHeld, SidebarBounds DEF SidebarInv, Sidebar!SidebarConstants
  <2>2. ASSUME NEW notes \in BOOLEAN, Sidebar!NewTodo(notes) PROVE todos' \in Seq(Item)
    <3> DEFINE t == [id |-> Len(todos) + 1, done |-> FALSE, notes |-> notes]
    <3>1. Len(todos) + 1 \in 1..MaxRows
      BY <2>1, <2>2 DEF Sidebar!NewTodo
    <3>2. t \in Item
      BY <3>1 DEF Item
    <3>3. todos' = Append(todos, t)
      BY <2>2 DEF Sidebar!NewTodo
    <3> HIDE DEF t
    <3> QED
      BY <2>1, <3>2, <3>3
  <2>3. ASSUME Sidebar!FinishTodo PROVE todos' \in Seq(Item)
    <3>1. PICK k \in DOMAIN todos : todos' = [todos EXCEPT ![k].done = TRUE]
      BY <2>3 DEF Sidebar!FinishTodo
    <3> DEFINE t == [todos[k] EXCEPT !.done = TRUE]
    <3>2. todos[k] \in Item
      BY <2>1
    <3>3. t \in Item
      BY <3>2 DEF Item
    <3>4. todos' = [todos EXCEPT ![k] = t]
      BY <3>1
    <3> HIDE DEF t
    <3> QED
      BY <2>1, <3>3, <3>4
  <2>4. CASE Sidebar!NewSub \/ Sidebar!NewShell
    BY <2>1, <2>4 DEF Sidebar!NewSub, Sidebar!NewShell
  <2>5. CASE Sidebar!ClearTodos
    BY <2>5 DEF Sidebar!ClearTodos
  <2> QED
    BY <2>2, <2>3, <2>4, <2>5
<1>3. Sidebar!TypeOK'
  <2>1. AgentsOK'
    BY <1>1, <1>2 DEF AgentsOK
  <2>2. PopoverOK'
    BY <1>1, TypeParts DEF PopoverOK, SidebarInv
  <2> QED
    BY <1>1, <2>1, <2>2, TypeParts DEF SidebarInv
<1>4. MoreIsBehind'
  <2>1. subs \in Nat /\ shells \in Nat /\ subs' \in Nat /\ shells' \in Nat /\ SidebarMax \in Nat
    BY <1>1, TypesHeld, SidebarBounds DEF SidebarInv, Sidebar!SidebarConstants
  <2>2. (subs > SidebarMax => subs' > SidebarMax) /\ (shells > SidebarMax => shells' > SidebarMax)
    BY <1>1, <2>1
  <2>3. view' = view /\ prev' = prev
    BY <1>1
  <2> QED
    BY <2>2, <2>3 DEF MoreIsBehind, SidebarInv
<1>5. MarkIsViewed'
  BY <1>1 DEF MarkIsViewed, SidebarInv
<1> QED
  BY <1>3, <1>4, <1>5 DEF SidebarInv

\* Tab closes a popover and goes to a row.
LEMMA TabStep == ASSUME SidebarInv, NEW dir, Sidebar!Tab(dir) PROVE SidebarInv'
<1>1. UNCHANGED <<subs, shells, todos, sidebarItems, sel, prev>> /\ popup' = "" /\ view' = Sidebar!Cycled(dir)
  BY DEF Sidebar!Tab, Sidebar!agents
<1>2. IsRow(view') /\ IsRow(prev)
  BY <1>1, RowsHeld, CycledRow DEF SidebarInv
<1>3. MoreIsBehind' /\ view' \in Sidebar!Rows
  BY <1>1, <1>2 DEF IsRow, MoreIsBehind
<1>4. Sidebar!TypeOK'
  BY <1>1, <1>3, TypeParts, AgentsStay DEF SidebarInv, PopoverOK
<1>5. MarkIsViewed'
  BY <1>1 DEF MarkIsViewed
<1> QED
  BY <1>3, <1>4, <1>5 DEF SidebarInv

\* A popover is opened: its first worker or shell is viewed, and there is one.
LEMMA OpenMoreStep == ASSUME SidebarInv, Sidebar!OpenMore PROVE SidebarInv'
<1>1. /\ UNCHANGED <<subs, shells, todos>> /\ prev' = view /\ sel' = 1
      /\ \/ view = Sidebar!Row("moreShells", 0) /\ popup' = "shell" /\ sidebarItems' = Sidebar!Older(shells)
         \/ view = Sidebar!Row("moreSubs", 0) /\ popup' = "sub" /\ sidebarItems' = Sidebar!Older(subs)
         \/ view = Sidebar!Row("moreTodos", 0) /\ popup' = "todo" /\ sidebarItems' = Sidebar!OlderTodos
      /\ view' = IF popup' # "todo" /\ sidebarItems' # <<>> THEN Sidebar!Row(popup', sidebarItems'[1]) ELSE view
  <2>1. /\ UNCHANGED <<subs, shells, todos>> /\ prev' = view /\ sel' = 1
        /\ view' = IF popup' # "todo" /\ sidebarItems' # <<>> THEN Sidebar!Row(popup', sidebarItems'[1]) ELSE view
    BY DEF Sidebar!OpenMore, Sidebar!agents
  <2>2. view \in {Sidebar!Row("moreTodos", 0), Sidebar!Row("moreShells", 0), Sidebar!Row("moreSubs", 0)}
    BY DEF Sidebar!OpenMore, Sidebar!MoreRows
  <2>3. popup' = CASE view[1] = "moreShells" -> "shell"
                   [] view[1] = "moreSubs" -> "sub"
                   [] view[1] = "moreTodos" -> "todo"
    BY DEF Sidebar!OpenMore
  <2>4. sidebarItems' = CASE popup' = "shell" -> Sidebar!Older(shells)
                          [] popup' = "sub" -> Sidebar!Older(subs)
                          [] popup' = "todo" -> Sidebar!OlderTodos
    BY DEF Sidebar!OpenMore
  <2>5. CASE view = Sidebar!Row("moreShells", 0)
    <3>1. popup' = "shell"
      BY <2>3, <2>5 DEF Sidebar!Row
    <3> QED
      BY <2>1, <2>4, <2>5, <3>1
  <2>6. CASE view = Sidebar!Row("moreSubs", 0)
    <3>1. popup' = "sub"
      BY <2>3, <2>6 DEF Sidebar!Row
    <3> QED
      BY <2>1, <2>4, <2>6, <3>1
  <2>7. CASE view = Sidebar!Row("moreTodos", 0)
    <3>1. popup' = "todo"
      BY <2>3, <2>7 DEF Sidebar!Row
    <3> QED
      BY <2>1, <2>4, <2>7, <3>1
  <2> QED
    BY <2>2, <2>5, <2>6, <2>7
<1>2. IsRow(view)
  BY RowsHeld
<1>3. /\ subs \in Nat /\ shells \in Nat /\ subs <= MaxRows /\ shells <= MaxRows /\ MaxRows \in Nat
  BY TypesHeld, SidebarBounds DEF SidebarInv, Sidebar!SidebarConstants
<1>4. sidebarItems' \in Seq(1..MaxRows)
  BY <1>1, <1>3, OlderIs, OlderTodosType DEF SidebarInv
<1>5. popup' \in {"shell", "sub"} => sidebarItems' # <<>>
  <2>1. view = Sidebar!Row("moreShells", 0) => shells > SidebarMax
    BY <1>2 DEF IsRow, Sidebar!Row
  <2>2. view = Sidebar!Row("moreSubs", 0) => subs > SidebarMax
    BY <1>2 DEF IsRow, Sidebar!Row
  <2> QED
    BY <1>1, <1>3, <2>1, <2>2, OlderIs
<1>6. sidebarItems' # <<>> => 1 \in DOMAIN sidebarItems' /\ sidebarItems'[1] \in 1..MaxRows
  <2> DEFINE S == 1..MaxRows
  <2>1. sidebarItems' \in Seq(S)
    BY <1>4
  <2> HIDE DEF S
  <2>2. sidebarItems' # <<>> => 1 \in DOMAIN sidebarItems' /\ sidebarItems'[1] \in S
    BY <2>1, OfSeq
  <2> QED
    BY <2>2 DEF S
<1>7. \/ popup' \in {"shell", "sub"} /\ view' = Sidebar!Row(popup', sidebarItems'[1]) /\ 1 \in DOMAIN sidebarItems'
          /\ sidebarItems'[1] \in 1..MaxRows
      \/ popup' = "todo" /\ view' = view
  BY <1>1, <1>5, <1>6
<1>8. IsRow(view')
  <2>1. CASE popup' \in {"shell", "sub"} /\ view' = Sidebar!Row(popup', sidebarItems'[1])
    <3>1. view' \in Sidebar!Rows /\ view'[1] \in {"shell", "sub"}
      BY <1>7, <2>1 DEF Sidebar!Rows, Sidebar!Row
    <3> QED
      BY <3>1 DEF IsRow
  <2> QED
    BY <1>2, <1>7, <2>1
<1>9. MoreIsBehind' /\ view' \in Sidebar!Rows /\ prev' \in Sidebar!Rows
  BY <1>1, <1>2, <1>8 DEF IsRow, MoreIsBehind
<1>10. Sidebar!TypeOK'
  <2>1. PopoverOK'
    <3>1. sel' \in 1..(MaxRows + 1)
      BY <1>1, <1>3
    <3>2. popup' \in {"", "shell", "sub", "todo", "detail"}
      BY <1>1
    <3> QED
      BY <1>4, <3>1, <3>2, Zenon DEF PopoverOK
  <2> QED
    BY <1>1, <1>9, <2>1, TypeParts, AgentsStay DEF SidebarInv
<1>11. MarkIsViewed'
  BY <1>1, <1>7 DEF MarkIsViewed
<1> QED
  BY <1>9, <1>10, <1>11 DEF SidebarInv

\* The notes of a todo are shown.
LEMMA OpenDetailStep == ASSUME SidebarInv, Sidebar!OpenDetail PROVE SidebarInv'
<1>1. /\ UNCHANGED <<subs, shells, todos, view>> /\ prev' = view /\ sel' = 1
      /\ popup' = "detail" /\ sidebarItems' = <<view[2]>>
  BY DEF Sidebar!OpenDetail, Sidebar!agents
<1>2. view \in Sidebar!Rows /\ view[1] = "todo" /\ MaxRows \in Nat
  BY SidebarBounds DEF Sidebar!OpenDetail, SidebarInv, Sidebar!TypeOK, Sidebar!SidebarConstants
<1>3. view[2] \in 1..MaxRows
  BY <1>2 DEF Sidebar!Rows, Sidebar!MoreRows, Sidebar!Master, Sidebar!Row
<1>4. sidebarItems' \in Seq(1..MaxRows) /\ Len(sidebarItems') = 1
  <2>1. \A x \in 1..MaxRows : <<x>> \in Seq(1..MaxRows) /\ Len(<<x>>) = 1
    OBVIOUS
  <2> QED
    BY <1>1, <1>3, <2>1
<1>5. Sidebar!TypeOK'
  <2>1. PopoverOK'
    BY <1>1, <1>2, <1>4 DEF PopoverOK
  <2> QED
    BY <1>1, <1>2, <2>1, TypeParts, AgentsStay DEF SidebarInv
<1>6. MoreIsBehind' /\ MarkIsViewed'
  BY <1>1, <1>4 DEF SidebarInv, MoreIsBehind, MarkIsViewed
<1> QED
  BY <1>5, <1>6 DEF SidebarInv

\* The mark moves, and the view with it.
LEMMA MoveStep == ASSUME SidebarInv, NEW to \in 1..MaxRows, Sidebar!Move(to) PROVE SidebarInv'
<1>1. /\ UNCHANGED <<subs, shells, todos, popup, sidebarItems, prev>> /\ sel' = to /\ to \in DOMAIN sidebarItems
      /\ view' = IF popup = "todo" THEN view ELSE Sidebar!Row(popup, sidebarItems[to])
  BY DEF Sidebar!Move, Sidebar!agents
<1>2. MaxRows \in Nat /\ sidebarItems \in Seq(1..MaxRows) /\ popup \in {"", "shell", "sub", "todo", "detail"}
  BY SidebarBounds DEF SidebarInv, Sidebar!TypeOK, Sidebar!SidebarConstants
<1>3. popup # "detail" /\ popup # ""
  <2>1. ASSUME popup = "detail" PROVE FALSE
    <3>1. Len(sidebarItems) = 1 /\ sel = 1 /\ (to = sel + 1 \/ sel = to + 1)
      BY <2>1 DEF SidebarInv, MarkIsViewed, Sidebar!Move
    <3>2. to \in 1..1
      <4>1. DOMAIN sidebarItems = 1..Len(sidebarItems)
        BY <1>2, OfSeq, Zenon
      <4> QED
        BY <1>1, <3>1, <4>1
    <3> QED
      BY <3>1, <3>2
  <2> QED
    BY <2>1 DEF Sidebar!Move
<1>4. sidebarItems[to] \in 1..MaxRows
  <2> DEFINE S == 1..MaxRows
  <2>1. sidebarItems \in Seq(S)
    BY <1>2
  <2> HIDE DEF S
  <2>2. sidebarItems[to] \in S
    BY <1>1, <2>1, OfSeq
  <2> QED
    BY <2>2 DEF S
<1>5. IsRow(view')
  <2>1. CASE popup \in {"shell", "sub"}
    <3>1. view' \in Sidebar!Rows /\ view'[1] \in {"shell", "sub"}
      BY <1>1, <1>4, <2>1 DEF Sidebar!Rows, Sidebar!Row
    <3> QED
      BY <3>1 DEF IsRow
  <2> QED
    BY <1>1, <1>2, <1>3, <2>1, RowsHeld
<1>6. MoreIsBehind' /\ view' \in Sidebar!Rows
  BY <1>1, <1>5, RowsHeld DEF IsRow, MoreIsBehind
<1>7. Sidebar!TypeOK'
  <2>1. PopoverOK'
    <3>1. sel' \in 1..(MaxRows + 1)
      <4>1. sel' = to /\ MaxRows \in Nat
        BY <1>1, <1>2
      <4> QED
        BY <4>1
    <3>2. popup' = popup /\ sidebarItems' = sidebarItems
      BY <1>1
    <3> QED
      BY <1>2, <3>1, <3>2, Zenon DEF PopoverOK
  <2> QED
    BY <1>1, <1>6, <2>1, TypeParts, AgentsStay DEF SidebarInv
<1>8. MarkIsViewed'
  BY <1>1, <1>3 DEF MarkIsViewed
<1> QED
  BY <1>6, <1>7, <1>8 DEF SidebarInv

\* A popover is closed.
LEMMA CloseStep == ASSUME SidebarInv, NEW keep, Sidebar!Close(keep) PROVE SidebarInv'
<1>1. UNCHANGED <<subs, shells, todos, sidebarItems, sel, prev>> /\ popup' = "" /\ view' \in {view, prev}
  BY DEF Sidebar!Close, Sidebar!agents
<1> QED
  BY <1>1 DEF SidebarInv, Sidebar!TypeOK, MoreIsBehind, MarkIsViewed

\* Every step keeps the invariant of the sidebar.
LEMMA SidebarStep == ASSUME SidebarInv, [Sidebar!Next]_Sidebar!vars PROVE SidebarInv'
<1>1. CASE UNCHANGED Sidebar!vars
  BY <1>1 DEF Sidebar!vars, Sidebar!agents, Sidebar!popover, SidebarInv, Sidebar!TypeOK, MoreIsBehind, MarkIsViewed
<1>2. CASE Sidebar!Next
  BY <1>2, AgentsStep, TabStep, OpenMoreStep, OpenDetailStep, MoveStep, CloseStep DEF Sidebar!Next
<1> QED
  BY <1>1, <1>2

-----------------------------------------------------------------------------
\* Every one of a kind is in its section or in the list of the older ones.
LEMMA OffersAll ==
  ASSUME Sidebar!TypeOK, NEW what, NEW count,
         (what = "sub" /\ count = subs) \/ (what = "shell" /\ count = shells)
  PROVE  Sidebar!Offers(what, Sidebar!Older(count)) = 1..count
<1> DEFINE start == IF count > SidebarMax THEN count - SidebarMax ELSE 0
           more == IF what = "sub" THEN "moreSubs" ELSE "moreShells"
<1>1. /\ count \in Nat /\ count <= MaxRows /\ SidebarMax \in Nat /\ MaxRows \in Nat
      /\ subs \in Nat /\ shells \in Nat
  BY TypesHeld, SidebarBounds DEF Sidebar!SidebarConstants
<1>2. start \in Nat /\ start <= count
  BY <1>1
<1>3. Sidebar!Range(Sidebar!Older(count)) = 1..start
  BY <1>1, OlderIs
<1>4. ASSUME NEW r \in Sidebar!Range(Sidebar!CycleList), r[1] = what PROVE r[2] \in (start + 1)..count
  <2>1. \/ r \in TodosShown
        \/ r \in InSection("shell", shells, "moreShells")
        \/ r \in InSection("sub", subs, "moreSubs")
    BY CycleHas
  <2> QED
    BY <1>1, <1>2, <1>4, <2>1 DEF TodosShown, InSection, Sidebar!Row
<1>5. ASSUME NEW id \in (start + 1)..count PROVE Sidebar!Row(what, id) \in Sidebar!Range(Sidebar!CycleList)
  <2>1. Sidebar!Row(what, id) \in InSection(what, count, more)
    BY DEF InSection
  <2> QED
    BY <2>1, CycleHas
<1> HIDE DEF start, more
<1>6. {r[2] : r \in {q \in Sidebar!Range(Sidebar!CycleList) : q[1] = what}} = (start + 1)..count
  <2>1. ASSUME NEW id \in (start + 1)..count
        PROVE  id \in {r[2] : r \in {q \in Sidebar!Range(Sidebar!CycleList) : q[1] = what}}
    <3>1. Sidebar!Row(what, id)[1] = what /\ Sidebar!Row(what, id)[2] = id
      BY DEF Sidebar!Row
    <3>2. Sidebar!Row(what, id) \in {q \in Sidebar!Range(Sidebar!CycleList) : q[1] = what}
      BY <1>5, <3>1
    <3> QED
      BY <3>1, <3>2
  <2> QED
    BY <1>4, <2>1
<1> QED
  BY <1>1, <1>2, <1>3, <1>6 DEF Sidebar!Offers

\* Tab stops, rows and popovers lead to what they name.
LEMMA SidebarTold == ASSUME SidebarInv PROVE Sidebar!TypeOK /\ Sidebar!SelectionIsTrue
<1>1. Sidebar!TypeOK /\ Sidebar!CycleList = Sidebar!SideRows
  BY CycleIsSide DEF SidebarInv
<1>2. Sidebar!Offers("sub", Sidebar!Older(subs)) = 1..subs /\ Sidebar!Offers("shell", Sidebar!Older(shells)) = 1..shells
  BY <1>1, OffersAll
<1> QED
  BY <1>1, <1>2 DEF Sidebar!SelectionIsTrue, SidebarInv, MarkIsViewed

-----------------------------------------------------------------------------
(* Settings. *)

\* What Settings asks of its constants.
LEMMA SettingsBounds == Settings!SettingsConstants
BY MCUiConstants

\* While the form is open, and while the list is open in front of it, a form that there is was
\* made for the providers that are enabled.
FormKept ==
  /\ form \in [for : SUBSET Settings!Providers, master : Settings!Providers \cup {"none"}]
  /\ page = "form" => form.for = enabled
  /\ page = "list" /\ form # Settings!NoForm => form.for = enabled

SettingsInv == Settings!TypeOK /\ FormKept

\* The library's operator is the same wherever it is instantiated.
LEMMA SettingsCardinality == \A S : Settings!Cardinality(S) = Cardinality(S)
BY DEF Settings!Cardinality, Cardinality

\* One row at most is edited.
LEMMA OneEdited ==
  /\ Settings!Cardinality({}) <= 1
  /\ \A x : Settings!Cardinality({x}) <= 1
<1>1. Settings!Cardinality({}) = 0
  BY SettingsCardinality, FS_EmptySet
<1>2. ASSUME NEW x PROVE Settings!Cardinality({x}) = 1
  BY SettingsCardinality, FS_Singleton
<1> QED
  BY <1>1, <1>2

\* A list made from the file.
LEMMA ListOfType == ASSUME NEW f \in Settings!File PROVE Settings!ListOf(f) \in [Settings!Providers -> Settings!Row]
<1> SUFFICES ASSUME NEW p \in Settings!Providers
             PROVE  [checked |-> p \in Local \/ f.keys[p] # NoKey,
                     key |-> IF p \in Local THEN NoKey ELSE f.keys[p], badge |-> "none"] \in Settings!Row
  BY DEF Settings!ListOf
<1>1. p \notin Local => f.keys[p] \in Settings!Keys
  BY DEF Settings!File, Settings!Providers
<1>2. NoKey \in Settings!Keys
  BY DEF Settings!Keys
<1> QED
  BY <1>1, <1>2 DEF Settings!Row

\* What is read from the file when the settings open.
LEMMA OpenTypes ==
  ASSUME NEW f \in Settings!File
  PROVE  /\ Settings!EnabledIn(f) \subseteq Settings!Providers /\ f.fallbacks \subseteq Settings!Providers
         /\ f.keys \in [Keyed -> Settings!Keys] /\ f.master \in Settings!Providers
BY DEF Settings!EnabledIn, Settings!File, Settings!Providers

\* The settings are those of a file without keys.
LEMMA InitSettings == ASSUME Settings!Init PROVE SettingsInv
<1>1. PICK p \in Settings!Providers :
        file = [keys |-> [q \in Keyed |-> NoKey], disabled |-> {}, master |-> p, fallbacks |-> {}]
  BY DEF Settings!Init
<1>2. file \in Settings!File
  <2>1. [q \in Keyed |-> NoKey] \in [Keyed -> Settings!Keys]
    BY DEF Settings!Keys
  <2> QED
    BY <1>1, <2>1 DEF Settings!File
<1>3. /\ rows \in [Settings!Providers -> Settings!Row] /\ enabled \subseteq Settings!Providers /\ fallbacks \subseteq Settings!Providers
      /\ keyPtrs \in [Keyed -> Settings!Keys] /\ master \in Settings!Providers
  BY <1>2, ListOfType, OpenTypes DEF Settings!Init
<1>4. Settings!NoForm \in [for : SUBSET Settings!Providers, master : Settings!Providers \cup {"none"}] /\ Settings!NoForm.for = {}
  BY DEF Settings!NoForm
<1>5. edits \in 0..MaxEdits
  BY SettingsBounds DEF Settings!SettingsConstants, Settings!Init
<1>6. /\ page = "chat" /\ editing = {} /\ verifying = {} /\ form = Settings!NoForm /\ running = file
  BY DEF Settings!Init
<1>7. Settings!Cardinality(editing) <= 1
  BY <1>6, OneEdited
<1> QED
  BY <1>2, <1>3, <1>4, <1>5, <1>6, <1>7 DEF SettingsInv, Settings!TypeOK, FormKept

\* A row is changed.
LEMMA RowSet ==
  ASSUME Settings!TypeOK, NEW p \in Settings!Providers, NEW r \in Settings!Row, rows' = [rows EXCEPT ![p] = r]
  PROVE  rows' \in [Settings!Providers -> Settings!Row]
BY DEF Settings!TypeOK

\* One edit less.
LEMMA EditType == ASSUME Settings!TypeOK, Settings!Edit PROVE edits' \in 0..MaxEdits
BY SettingsBounds DEF Settings!TypeOK, Settings!Edit, Settings!SettingsConstants

\* The settings open with what the file has.
LEMMA OpenStep == ASSUME SettingsInv, Settings!Open PROVE SettingsInv'
<1>1. file \in Settings!File
  BY DEF SettingsInv, Settings!TypeOK
<1>2. /\ rows' \in [Settings!Providers -> Settings!Row] /\ enabled' \subseteq Settings!Providers /\ fallbacks' \subseteq Settings!Providers
      /\ keyPtrs' \in [Keyed -> Settings!Keys] /\ master' \in Settings!Providers
  BY <1>1, ListOfType, OpenTypes DEF Settings!Open
<1>3. Settings!NoForm \in [for : SUBSET Settings!Providers, master : Settings!Providers \cup {"none"}]
  BY DEF Settings!NoForm
<1>4. /\ page' = "list" /\ editing' = {} /\ form' = Settings!NoForm /\ UNCHANGED <<verifying, file, running, edits>>
  BY DEF Settings!Open
<1>5. Settings!Cardinality(editing') <= 1
  BY <1>4, OneEdited
<1>6. form'.for \subseteq Settings!Providers
  BY <1>3, <1>4
<1>7. Settings!TypeOK'
  BY <1>2, <1>4, <1>5, <1>6 DEF SettingsInv, Settings!TypeOK
<1> QED
  BY <1>3, <1>4, <1>7 DEF SettingsInv, FormKept

\* What leaves the form and the enabled providers alone, and the page.
LEMMA SamePage ==
  ASSUME SettingsInv, Settings!TypeOK', UNCHANGED <<page, form, enabled>> PROVE SettingsInv'
BY DEF SettingsInv, FormKept, Settings!NoForm

\* A provider is checked or unchecked.
LEMMA ToggleStep == ASSUME SettingsInv, NEW p \in Settings!Providers, Settings!Toggle(p) PROVE SettingsInv'
<1> DEFINE r == [rows[p] EXCEPT !.checked = ~@]
<1>1. r \in Settings!Row /\ rows' = [rows EXCEPT ![p] = r]
  BY DEF SettingsInv, Settings!TypeOK, Settings!Toggle, Settings!Row
<1> HIDE DEF r
<1>2. rows' \in [Settings!Providers -> Settings!Row] /\ edits' \in 0..MaxEdits
  BY <1>1, RowSet, EditType DEF SettingsInv, Settings!Toggle
<1>3. Settings!TypeOK'
  BY <1>2 DEF SettingsInv, Settings!TypeOK, Settings!Toggle, Settings!state
<1> QED
  BY <1>3, SamePage DEF Settings!Toggle, Settings!state

\* A row is edited.
LEMMA EnterKeyStep == ASSUME SettingsInv, NEW p \in Keyed, Settings!EnterKey(p) PROVE SettingsInv'
<1>1. Settings!TypeOK'
  BY OneEdited DEF SettingsInv, Settings!TypeOK, Settings!EnterKey, Settings!state
<1> QED
  BY <1>1, SamePage DEF Settings!EnterKey, Settings!state

\* A key is typed.
LEMMA TypeKeyStep ==
  ASSUME SettingsInv, NEW p \in Keyed, NEW k \in Settings!Keys, Settings!TypeKey(p, k) PROVE SettingsInv'
<1>1. p \in Settings!Providers
  BY DEF Settings!Providers
<1> DEFINE r == [rows[p] EXCEPT !.key = k, !.checked = @ \/ k # NoKey]
<1>2. rows[p] \in Settings!Row
  BY <1>1 DEF SettingsInv, Settings!TypeOK
<1>3. r \in Settings!Row
  BY <1>2 DEF Settings!Row
<1>4. rows' = [rows EXCEPT ![p] = r]
  BY DEF Settings!TypeKey
<1> HIDE DEF r
<1>5. rows' \in [Settings!Providers -> Settings!Row] /\ edits' \in 0..MaxEdits
  BY <1>1, <1>3, <1>4, RowSet, EditType DEF SettingsInv, Settings!TypeKey
<1>6. Settings!TypeOK'
  BY <1>5 DEF SettingsInv, Settings!TypeOK, Settings!TypeKey, Settings!state
<1> QED
  BY <1>6, SamePage DEF Settings!TypeKey, Settings!state

\* An edit ends, and the key is verified.
LEMMA LeaveKeyStep == ASSUME SettingsInv, NEW p \in Keyed, Settings!LeaveKey(p) PROVE SettingsInv'
<1>1. p \in Settings!Providers
  BY DEF Settings!Providers
<1>2. rows[p] \in Settings!Row
  BY <1>1 DEF SettingsInv, Settings!TypeOK
<1>3. rows' \in [Settings!Providers -> Settings!Row] /\ verifying' \subseteq Keyed \X (Settings!Keys \ {NoKey})
  <2>1. CASE rows[p].key # NoKey
    <3> DEFINE r == [rows[p] EXCEPT !.badge = "pending"]
    <3>1. r \in Settings!Row /\ rows' = [rows EXCEPT ![p] = r]
      BY <1>2, <2>1 DEF Settings!LeaveKey, Settings!Row
    <3> HIDE DEF r
    <3>2. rows' \in [Settings!Providers -> Settings!Row]
      BY <1>1, <3>1, RowSet DEF SettingsInv
    <3>3. <<p, rows[p].key>> \in Keyed \X (Settings!Keys \ {NoKey})
      BY <1>2, <2>1 DEF Settings!Row
    <3> QED
      BY <2>1, <3>2, <3>3 DEF Settings!LeaveKey, SettingsInv, Settings!TypeOK
  <2>2. CASE rows[p].key = NoKey
    BY <2>2 DEF Settings!LeaveKey, SettingsInv, Settings!TypeOK
  <2> QED
    BY <2>1, <2>2
<1>4. editing' = {} /\ UNCHANGED <<page, enabled, keyPtrs, master, fallbacks, form, file, running, edits>>
  BY DEF Settings!LeaveKey, Settings!state
<1>5. Settings!Cardinality(editing') <= 1
  BY <1>4, OneEdited
<1>6. Settings!TypeOK'
  BY <1>3, <1>4, <1>5 DEF SettingsInv, Settings!TypeOK
<1> QED
  BY <1>4, <1>6, SamePage

\* A provider has answered for a key.
LEMMA VerifiedStep == ASSUME SettingsInv, NEW v \in verifying, Settings!Verified(v) PROVE SettingsInv'
<1>1. v[1] \in Settings!Providers
  BY DEF SettingsInv, Settings!TypeOK, Settings!Providers
<1>2. rows[v[1]] \in Settings!Row
  BY <1>1 DEF SettingsInv, Settings!TypeOK
<1> DEFINE r == [rows[v[1]] EXCEPT !.badge = IF v[2] \in GoodKeys THEN "ok" ELSE "fail"]
<1>3. r \in Settings!Row
  BY <1>2 DEF Settings!Row
<1>4. rows' = [rows EXCEPT ![v[1]] = r]
  BY DEF Settings!Verified
<1> HIDE DEF r
<1>5. rows' \in [Settings!Providers -> Settings!Row]
  BY <1>1, <1>3, <1>4, RowSet DEF SettingsInv
<1>6. Settings!TypeOK'
  BY <1>5 DEF SettingsInv, Settings!TypeOK, Settings!Verified, Settings!state
<1> QED
  BY <1>6, SamePage DEF Settings!Verified, Settings!state

\* What the list makes of the state.
LEMMA ApplyTypes ==
  ASSUME Settings!TypeOK, Settings!ApplyList PROVE enabled' \subseteq Settings!Providers /\ keyPtrs' \in [Keyed -> Settings!Keys]
<1>1. \A p \in Keyed : rows[p] \in Settings!Row
  BY DEF Settings!TypeOK, Settings!Providers
<1>2. \A p \in Keyed : rows[p].key \in Settings!Keys
  BY <1>1 DEF Settings!Row
<1> QED
  BY <1>2 DEF Settings!ApplyList, Settings!Checked

\* The form opens: the one there is, if it was made for the same providers, or a new one.
LEMMA ToFormStep == ASSUME SettingsInv, Settings!ToForm PROVE SettingsInv'
<1>1. enabled' \subseteq Settings!Providers /\ keyPtrs' \in [Keyed -> Settings!Keys]
  BY ApplyTypes DEF Settings!ToForm, SettingsInv
<1>2. page' = "form" /\ UNCHANGED <<rows, editing, verifying, master, fallbacks, file, running, edits>>
  BY DEF Settings!ToForm
<1>3. master \in Settings!Providers
  BY DEF SettingsInv, Settings!TypeOK
<1>4. form' \in [for : SUBSET Settings!Providers, master : Settings!Providers \cup {"none"}] /\ form'.for = enabled'
  <2>1. CASE Settings!Rebuild(enabled')
    <3>1. form' = [for |-> enabled', master |-> master]
      BY <2>1 DEF Settings!ToForm
    <3> QED
      BY <1>1, <1>3, <3>1
  <2>2. CASE ~Settings!Rebuild(enabled')
    <3>1. form' = form
      BY <2>2 DEF Settings!ToForm
    <3>2. form # Settings!NoForm /\ enabled' = enabled /\ page = "list"
      BY <2>2 DEF Settings!ToForm, Settings!Rebuild
    <3> QED
      BY <3>1, <3>2 DEF SettingsInv, FormKept
  <2> QED
    BY <2>1, <2>2
<1>5. Settings!TypeOK'
  BY <1>1, <1>2, <1>4 DEF SettingsInv, Settings!TypeOK
<1> QED
  BY <1>2, <1>4, <1>5 DEF SettingsInv, FormKept

\* The settings are saved.
LEMMA SaveStep ==
  ASSUME SettingsInv, NEW accepted \in BOOLEAN, Settings!SaveAndExit(accepted) PROVE SettingsInv'
<1>1. enabled' \subseteq Settings!Providers /\ keyPtrs' \in [Keyed -> Settings!Keys]
  BY ApplyTypes DEF Settings!SaveAndExit, SettingsInv, Settings!TypeOK
<1>2. page' = "chat" /\ UNCHANGED <<rows, editing, verifying, master, fallbacks, form, edits>>
  BY DEF Settings!SaveAndExit
<1>3. file' \in Settings!File
  <2>1. file \in Settings!File /\ master \in Settings!Providers /\ fallbacks \subseteq Settings!Providers
    BY DEF SettingsInv, Settings!TypeOK
  <2>2. [p \in Keyed |-> IF keyPtrs'[p] = NoKey THEN file.keys[p] ELSE keyPtrs'[p]] \in [Keyed -> Settings!Keys]
    BY <1>1, <2>1 DEF Settings!File
  <2>3. file' = [keys |-> [p \in Keyed |-> IF keyPtrs'[p] = NoKey THEN file.keys[p] ELSE keyPtrs'[p]],
                 disabled |-> Local \ enabled', master |-> master, fallbacks |-> fallbacks]
    BY DEF Settings!SaveAndExit, Settings!Saved
  <2> QED
    BY <2>1, <2>2, <2>3 DEF Settings!File
<1>4. running' \in Settings!File
  BY <1>3 DEF Settings!SaveAndExit, SettingsInv, Settings!TypeOK
<1>5. Settings!TypeOK'
  BY <1>1, <1>2, <1>3, <1>4 DEF SettingsInv, Settings!TypeOK
<1> QED
  BY <1>2, <1>5 DEF SettingsInv, FormKept

\* Every step keeps the invariant of the settings.
LEMMA SettingsStep == ASSUME SettingsInv, [Settings!Next]_Settings!vars PROVE SettingsInv'
<1>1. CASE Settings!BackToList
  <2>1. Settings!TypeOK'
    BY <1>1 DEF Settings!BackToList, Settings!state, SettingsInv, Settings!TypeOK
  <2> QED
    BY <1>1, <2>1 DEF Settings!BackToList, Settings!state, SettingsInv, FormKept
<1>2. ASSUME NEW p \in Settings!Providers, Settings!ChooseMaster(p) PROVE SettingsInv'
  <2>1. Settings!TypeOK'
    BY <1>2, EditType DEF Settings!ChooseMaster, SettingsInv, Settings!TypeOK
  <2> QED
    BY <1>2, <2>1, SamePage DEF Settings!ChooseMaster
<1>3. ASSUME NEW p \in Settings!Providers, Settings!ChooseFallback(p) PROVE SettingsInv'
  <2>1. Settings!TypeOK'
    BY <1>3, EditType DEF Settings!ChooseFallback, SettingsInv, Settings!TypeOK
  <2> QED
    BY <1>3, <2>1, SamePage DEF Settings!ChooseFallback
<1>4. CASE UNCHANGED Settings!vars
  <2>1. Settings!TypeOK'
    BY <1>4 DEF Settings!vars, Settings!state, SettingsInv, Settings!TypeOK
  <2> QED
    BY <1>4, <2>1, SamePage DEF Settings!vars, Settings!state
<1> QED
  BY <1>1, <1>2, <1>3, <1>4, OpenStep, ToggleStep, EnterKeyStep, TypeKeyStep, LeaveKeyStep, VerifiedStep,
     ToFormStep, SaveStep DEF Settings!Next

\* The form that is open is for the providers that are enabled.
LEMMA SettingsTold == ASSUME SettingsInv PROVE Settings!TypeOK /\ Settings!FormIsCurrent
BY DEF SettingsInv, FormKept, Settings!FormIsCurrent

-----------------------------------------------------------------------------
(* Prompt. *)

\* What Prompt asks of its constants.
LEMMA PromptBounds == Prompt!PromptConstants
BY MCUiConstants

\* The completion is only open behind an unfinished @.
OfferInText == offer.open => input \in Prompt!Text

PromptInv == Prompt!TypeOK /\ OfferInText /\ Prompt!LastOf(disk, HistoryMax) = promptItems

\* What the last n of a sequence are.
LEMMA LastOfIs ==
  ASSUME NEW S, NEW s \in Seq(S), NEW m \in Nat
  PROVE  /\ Prompt!LastOf(s, m) \in Seq(S)
         /\ Len(Prompt!LastOf(s, m)) = IF Len(s) > m THEN m ELSE Len(s)
         /\ \A k \in 1..Len(Prompt!LastOf(s, m)) :
              Prompt!LastOf(s, m)[k] = s[(IF Len(s) > m THEN Len(s) - m ELSE 0) + k]
<1> DEFINE c == IF Len(s) > m THEN Len(s) - m ELSE 0
<1>1. Len(s) \in Nat
  OBVIOUS
<1>2. Prompt!Max({Len(s) - m, 0}) = c
  <2>1. c \in {Len(s) - m, 0} /\ \A y \in {Len(s) - m, 0} : c >= y
    BY <1>1
  <2>2. \A x \in {Len(s) - m, 0} : (\A y \in {Len(s) - m, 0} : x >= y) => x = c
    BY <1>1
  <2> QED
    BY <2>1, <2>2 DEF Prompt!Max
<1>3. Prompt!LastOf(s, m) = SubSeq(s, c + 1, Len(s))
  BY <1>2 DEF Prompt!LastOf
<1>4. c \in Nat /\ c <= Len(s) /\ Len(s) - c = (IF Len(s) > m THEN m ELSE Len(s))
  BY <1>1
<1> DEFINE b == c + 1
           l == Len(s)
<1>5. b \in Int /\ l \in Int /\ b = c + 1 /\ l = Len(s) /\ \A i \in b..l : s[i] \in S
  BY <1>1, <1>4
<1>6. Prompt!LastOf(s, m) = SubSeq(s, b, l)
  BY <1>3
<1> HIDE DEF c, b, l
<1>7. /\ Prompt!LastOf(s, m) \in Seq(S)
      /\ Len(Prompt!LastOf(s, m)) = IF b <= l THEN l - b + 1 ELSE 0
      /\ \A i \in 1..l - b + 1 : Prompt!LastOf(s, m)[i] = s[b + i - 1]
  BY <1>5, <1>6, SubSeqProperties
<1>8. l - b + 1 = l - c /\ (b <= l \/ l - c = 0)
  BY <1>1, <1>4, <1>5
<1>9. Len(Prompt!LastOf(s, m)) = l - c
  BY <1>7, <1>8
<1>10. \A k \in 1..l - c : Prompt!LastOf(s, m)[k] = s[c + k]
  <2> SUFFICES ASSUME NEW k \in 1..l - c PROVE Prompt!LastOf(s, m)[k] = s[c + k]
    OBVIOUS
  <2>1. k \in 1..l - b + 1 /\ b + k - 1 = c + k
    BY <1>4, <1>5, <1>8
  <2> QED
    BY <1>7, <2>1
<1> QED
  BY <1>4, <1>5, <1>7, <1>9, <1>10 DEF c

\* Two sequences are the same if they are so element by element.
LEMMA SameSeq ==
  ASSUME NEW S, NEW s \in Seq(S), NEW t \in Seq(S), Len(s) = Len(t),
         \A k \in 1..Len(s) : s[k] = t[k]
  PROVE  s = t
BY SeqEqual

\* An end of a sequence that is long enough has the same last m.
LEMMA SameEnd ==
  ASSUME NEW S, NEW s \in Seq(S), NEW t \in Seq(S), NEW c \in Nat, NEW m \in Nat,
         Len(t) = Len(s) + c, c > 0 => Len(s) > m,
         \A k \in 1..Len(s) : s[k] = t[c + k]
  PROVE  Prompt!LastOf(s, m) = Prompt!LastOf(t, m)
<1> DEFINE p == Len(s)
           q == Len(t)
           r == Prompt!LastOf(s, m)
           u == Prompt!LastOf(t, m)
           d == IF p > m THEN p - m ELSE 0
           e == IF q > m THEN q - m ELSE 0
           w == IF p > m THEN m ELSE p
           v == IF q > m THEN m ELSE q
<1>1. p \in Nat /\ q \in Nat /\ q = p + c /\ (c > 0 => p > m)
  OBVIOUS
<1>2. r \in Seq(S) /\ Len(r) = w /\ \A k \in 1..w : r[k] = s[d + k]
  BY LastOfIs
<1>3. u \in Seq(S) /\ Len(u) = v /\ \A k \in 1..v : u[k] = t[e + k]
  BY LastOfIs
<1>4. \A k \in 1..p : s[k] = t[c + k]
  OBVIOUS
<1> HIDE DEF p, q, r, u
<1>5. w = v /\ d \in Nat /\ e \in Nat /\ c + d = e /\ d + w <= p /\ w \in Nat
  BY <1>1
<1> HIDE DEF d, e, w, v
<1>6. \A k \in 1..w : r[k] = u[k]
  <2> SUFFICES ASSUME NEW k \in 1..w PROVE r[k] = u[k]
    OBVIOUS
  <2>1. d + k \in 1..p /\ c + (d + k) = e + k
    BY <1>1, <1>5
  <2>2. r[k] = s[d + k] /\ u[k] = t[e + k]
    BY <1>2, <1>3, <1>5
  <2>3. s[d + k] = t[c + (d + k)]
    BY <1>4, <2>1
  <2> QED
    BY <2>1, <2>2, <2>3
<1>7. r = u
  BY <1>2, <1>3, <1>5, <1>6, SameSeq
<1> QED
  BY <1>7 DEF r, u

\* What is kept of what was kept and one more is what is kept of all and one more.
LEMMA KeptOfKept ==
  ASSUME NEW S, NEW s \in Seq(S), NEW x \in S, NEW m \in Nat \ {0}
  PROVE  Prompt!LastOf(Append(Prompt!LastOf(s, m), x), m) = Prompt!LastOf(Append(s, x), m)
<1> DEFINE l == Prompt!LastOf(s, m)
           a == Append(l, x)
           b == Append(s, x)
           r == Prompt!LastOf(a, m)
           t == Prompt!LastOf(b, m)
           c == IF Len(s) > m THEN Len(s) - m ELSE 0
<1>1. /\ Len(s) \in Nat /\ c \in Nat
      /\ l \in Seq(S) /\ Len(l) = Len(s) - c /\ Len(l) \in Nat
      /\ Len(l) = IF Len(s) > m THEN m ELSE Len(s)
      /\ \A k \in 1..Len(l) : l[k] = s[c + k]
  BY LastOfIs
<1>2. /\ b \in Seq(S) /\ Len(b) = Len(s) + 1 /\ b[Len(s) + 1] = x
      /\ \A k \in 1..Len(s) : b[k] = s[k]
  BY AppendProperties
<1>3. /\ a \in Seq(S) /\ Len(a) = Len(l) + 1 /\ a[Len(l) + 1] = x
      /\ \A k \in 1..Len(l) : a[k] = l[k]
  <2>1. l \in Seq(S)
    BY <1>1
  <2> HIDE DEF l
  <2> QED
    BY <2>1, AppendProperties
<1> DEFINE p == Len(s)
           q == Len(l)
<1>a. /\ p \in Nat /\ q \in Nat /\ c \in Nat /\ q = p - c
      /\ p > m => c = p - m
      /\ p <= m => c = 0
  BY <1>1
<1> HIDE DEF a, b, c, p, q, l
<1>b. /\ Len(a) = q + 1 /\ Len(b) = p + 1 /\ a[q + 1] = x /\ b[p + 1] = x
      /\ \A k \in 1..q : a[k] = l[k] /\ l[k] = s[c + k]
      /\ \A k \in 1..p : b[k] = s[k]
  BY <1>1, <1>2, <1>3 DEF p, q
<1>4. \A k \in 1..q + 1 : a[k] = b[c + k]
  <2> SUFFICES ASSUME NEW k \in 1..q + 1 PROVE a[k] = b[c + k]
    OBVIOUS
  <2>1. CASE k = q + 1
    <3>1. c + k = p + 1
      BY <1>a, <2>1
    <3> QED
      BY <1>b, <2>1, <3>1
  <2>2. CASE k \in 1..q
    <3>1. c + k \in 1..p
      BY <1>a, <2>2
    <3> QED
      BY <1>b, <2>2, <3>1
  <2>3. k = q + 1 \/ k \in 1..q
    BY <1>a
  <2> QED
    BY <2>1, <2>2, <2>3
<1>5. c > 0 => q + 1 > m
  BY <1>a
<1>6. q + 1 = Len(a) /\ Len(b) = Len(a) + c
  BY <1>a, <1>b
<1>7. \A k \in 1..Len(a) : a[k] = b[c + k]
  BY <1>4, <1>6
<1>8. r = t
  <2>1. (c > 0 => Len(a) > m) /\ Len(b) = Len(a) + c
    BY <1>5, <1>6
  <2>2. a \in Seq(S) /\ b \in Seq(S) /\ c \in Nat
    BY <1>2, <1>3, <1>a
  <2>3. Prompt!LastOf(a, m) = Prompt!LastOf(b, m)
    BY <1>7, <2>1, <2>2, SameEnd
  <2> QED
    BY <2>3
<1> QED
  BY <1>8 DEF a, b, l

\* What fits is kept as a whole.
LEMMA AllKept ==
  ASSUME NEW S, NEW s \in Seq(S), NEW m \in Nat, Len(s) <= m
  PROVE  Prompt!LastOf(s, m) = s
<1>1. /\ Prompt!LastOf(s, m) \in Seq(S) /\ Len(Prompt!LastOf(s, m)) = Len(s) /\ Len(s) \in Nat
      /\ \A k \in 1..Len(Prompt!LastOf(s, m)) : Prompt!LastOf(s, m)[k] = s[0 + k]
  BY LastOfIs
<1>2. \A k \in 1..Len(Prompt!LastOf(s, m)) : Prompt!LastOf(s, m)[k] = s[k]
  BY <1>1
<1> QED
  BY <1>1, <1>2, SameSeq

\* The prompt as it is at first.
LEMMA ClosedOffer == Prompt!Closed \in [open : BOOLEAN, sel : DOMAIN Files] /\ ~Prompt!Closed.open
<1>1. Files \in Seq(STRING) /\ Len(Files) > 0
  BY PromptBounds DEF Prompt!PromptConstants
<1>2. 1 \in DOMAIN Files
  BY <1>1
<1> QED
  BY <1>2 DEF Prompt!Closed

\* Nothing has been entered.
LEMMA InitPrompt == ASSUME Prompt!Init PROVE PromptInv
<1>1. /\ input = Prompt!Blank /\ draft = Prompt!Blank /\ promptItems = <<>> /\ disk = <<>>
      /\ writing = FALSE /\ idx = 0 /\ offer = Prompt!Closed /\ entered = 0
  BY DEF Prompt!Init
<1>2. <<>> \in Seq(Prompt!Text) /\ Len(disk) = 0 /\ disk \in Seq(Prompt!Text) /\ Len(disk) <= HistoryMax
  <2>1. \A S : <<>> \in Seq(S)
    OBVIOUS
  <2>2. Len(disk) = 0 /\ disk \in Seq(Prompt!Text)
    BY <1>1, <2>1
  <2> QED
    BY <2>1, <2>2, PromptBounds DEF Prompt!PromptConstants
<1>3. HistoryMax \in Nat /\ MaxEntries \in Nat
  BY PromptBounds DEF Prompt!PromptConstants
<1>4. Prompt!LastOf(disk, HistoryMax) = promptItems
  <2>1. Prompt!LastOf(disk, HistoryMax) = disk
    BY <1>2, <1>3, AllKept
  <2> QED
    BY <1>1, <2>1
<1>5. Prompt!TypeOK
  <2>1. promptItems \in Seq(Prompt!Text) /\ disk \in Seq(Prompt!Text) /\ Len(promptItems) = 0
    BY <1>1, <1>2
  <2>2. Len(promptItems) <= HistoryMax /\ idx \in 0..Len(promptItems) /\ entered \in 0..MaxEntries
    BY <1>1, <1>3, <2>1
  <2> QED
    BY <1>1, <2>1, <2>2, ClosedOffer DEF Prompt!TypeOK
<1>6. OfferInText
  BY <1>1, ClosedOffer DEF OfferInText
<1> QED
  BY <1>4, <1>5, <1>6 DEF PromptInv

\* What leaves the entries alone.
LEMMA KeepsEntries ==
  ASSUME PromptInv, Prompt!TypeOK', OfferInText', UNCHANGED <<promptItems, disk>> PROVE PromptInv'
BY DEF PromptInv, Prompt!LastOf

\* A word is typed.
LEMMA TypeStep == ASSUME PromptInv, NEW t \in Prompt!Text, Prompt!Type(t) PROVE PromptInv'
<1>1. 1 \in DOMAIN Files
  BY ClosedOffer DEF Prompt!Closed
<1>2. /\ offer' \in [open : BOOLEAN, sel : DOMAIN Files] /\ input' = t
      /\ UNCHANGED <<promptItems, disk, writing, idx, draft, entered>>
  BY <1>1 DEF Prompt!Type
<1>3. Prompt!TypeOK' /\ OfferInText'
  BY <1>2 DEF PromptInv, Prompt!TypeOK, OfferInText
<1> QED
  BY <1>2, <1>3, KeepsEntries

\* The mark in the list of files moves.
LEMMA ChooseStep == ASSUME PromptInv, NEW to \in DOMAIN Files, Prompt!Choose(to) PROVE PromptInv'
<1>1. /\ offer' \in [open : BOOLEAN, sel : DOMAIN Files] /\ offer'.open = offer.open
      /\ UNCHANGED <<input, promptItems, disk, writing, idx, draft, entered>>
  BY DEF Prompt!Choose, PromptInv, Prompt!TypeOK
<1>2. Prompt!TypeOK' /\ OfferInText'
  BY <1>1 DEF PromptInv, Prompt!TypeOK, OfferInText
<1> QED
  BY <1>1, <1>2, KeepsEntries

\* A file is completed.
LEMMA CompleteStep == ASSUME PromptInv, Prompt!Complete PROVE PromptInv'
<1>1. input \in Prompt!Text /\ offer.sel \in DOMAIN Files
  BY DEF Prompt!Complete, PromptInv, Prompt!TypeOK, OfferInText
<1>2. Files[offer.sel] \in Prompt!Range(Files)
  BY <1>1 DEF Prompt!Range
<1>3. input' \in Prompt!Text
  BY <1>1, <1>2 DEF Prompt!Complete, Prompt!Text
<1>4. offer' = Prompt!Closed /\ UNCHANGED <<promptItems, disk, writing, idx, draft, entered>>
  BY DEF Prompt!Complete
<1>5. Prompt!TypeOK' /\ OfferInText'
  BY <1>3, <1>4, ClosedOffer DEF PromptInv, Prompt!TypeOK, OfferInText
<1> QED
  BY <1>4, <1>5, KeepsEntries

\* The list of files is closed.
LEMMA DismissStep == ASSUME PromptInv, Prompt!Dismiss PROVE PromptInv'
<1>1. offer' = Prompt!Closed /\ UNCHANGED <<input, promptItems, disk, writing, idx, draft, entered>>
  BY DEF Prompt!Dismiss
<1>2. Prompt!TypeOK' /\ OfferInText'
  BY <1>1, ClosedOffer DEF PromptInv, Prompt!TypeOK, OfferInText
<1> QED
  BY <1>1, <1>2, KeepsEntries

\* The history is browsed.
LEMMA BrowseStep == ASSUME PromptInv, Prompt!PrevEntry \/ Prompt!NextEntry PROVE PromptInv'
<1>1. /\ promptItems \in Seq(Prompt!Text) /\ Len(promptItems) \in Nat /\ idx \in 0..Len(promptItems)
      /\ UNCHANGED <<promptItems, disk, writing, offer, entered>> /\ ~offer.open
      /\ input \in Prompt!Text \cup {Prompt!Blank} /\ draft \in Prompt!Text \cup {Prompt!Blank}
  BY DEF Prompt!PrevEntry, Prompt!NextEntry, PromptInv, Prompt!TypeOK
<1>2. \A i \in 1..Len(promptItems) : promptItems[i] \in Prompt!Text
  BY <1>1
<1>3. idx' \in 0..Len(promptItems) /\ input' \in Prompt!Text \cup {Prompt!Blank} /\ draft' \in Prompt!Text \cup {Prompt!Blank}
  <2>1. CASE Prompt!PrevEntry
    <3>1. promptItems # <<>> /\ idx # 1 /\ idx' = IF idx = 0 THEN Len(promptItems) ELSE idx - 1
      BY <2>1 DEF Prompt!PrevEntry
    <3>2. Len(promptItems) > 0
      BY <1>1, <3>1
    <3>3. idx' \in 1..Len(promptItems)
      BY <1>1, <3>1, <3>2
    <3>4. input' = promptItems[idx'] /\ draft' = IF idx = 0 THEN input ELSE draft
      BY <2>1 DEF Prompt!PrevEntry
    <3> QED
      BY <1>1, <1>2, <3>3, <3>4
  <2>2. CASE Prompt!NextEntry
    <3>1. CASE idx = Len(promptItems)
      BY <1>1, <2>2, <3>1 DEF Prompt!NextEntry
    <3>2. CASE idx # Len(promptItems)
      <4>1. idx' = idx + 1 /\ input' = promptItems[idx'] /\ draft' = draft
        BY <2>2, <3>2 DEF Prompt!NextEntry
      <4>2. idx' \in 1..Len(promptItems)
        BY <1>1, <3>2, <4>1
      <4> QED
        BY <1>1, <1>2, <4>1, <4>2
    <3> QED
      BY <3>1, <3>2
  <2> QED
    BY <2>1, <2>2
<1>4. Prompt!TypeOK' /\ OfferInText'
  BY <1>1, <1>3 DEF PromptInv, Prompt!TypeOK, OfferInText
<1> QED
  BY <1>1, <1>4, KeepsEntries

\* An entry is submitted: the entry goes to memory and to the file.
LEMMA PromptSubmitStep == ASSUME PromptInv, Prompt!Submit PROVE PromptInv'
<1>1. /\ input \in Prompt!Text /\ promptItems \in Seq(Prompt!Text) /\ disk \in Seq(Prompt!Text) /\ Len(promptItems) <= HistoryMax
      /\ HistoryMax \in Nat \ {0} /\ MaxEntries \in Nat /\ entered \in 0..MaxEntries
      /\ ~offer.open /\ offer' = offer /\ offer \in [open : BOOLEAN, sel : DOMAIN Files]
      /\ writing \in BOOLEAN
  BY PromptBounds DEF Prompt!Submit, PromptInv, Prompt!TypeOK, Prompt!PromptConstants
<1>2. input' = Prompt!Blank /\ idx' = 0 /\ draft' = Prompt!Blank /\ entered' \in 0..MaxEntries
  BY <1>1 DEF Prompt!Submit
<1>3. /\ promptItems' \in Seq(Prompt!Text) /\ disk' \in Seq(Prompt!Text) /\ Len(promptItems') <= HistoryMax
      /\ Prompt!LastOf(disk', HistoryMax) = promptItems' /\ writing' \in BOOLEAN
  <2>1. CASE promptItems # <<>> /\ Prompt!Last(promptItems) = input
    BY <1>1, <2>1 DEF Prompt!Submit, PromptInv
  <2>2. CASE ~(promptItems # <<>> /\ Prompt!Last(promptItems) = input)
    <3>1. /\ promptItems' = Prompt!LastOf(Append(promptItems, input), HistoryMax) /\ disk' = Append(disk, input)
          /\ writing' = (Len(promptItems') % HistoryMax = 0)
      BY <2>2 DEF Prompt!Submit, Prompt!Kept
    <3>2. Append(promptItems, input) \in Seq(Prompt!Text) /\ disk' \in Seq(Prompt!Text)
      BY <1>1, <3>1
    <3>3. promptItems' \in Seq(Prompt!Text) /\ Len(promptItems') <= HistoryMax
      <4>1. /\ promptItems' \in Seq(Prompt!Text)
            /\ Len(promptItems') = IF Len(Append(promptItems, input)) > HistoryMax THEN HistoryMax
                                   ELSE Len(Append(promptItems, input))
        BY <1>1, <3>1, <3>2, LastOfIs
      <4>2. Len(Append(promptItems, input)) \in Nat
        BY <3>2
      <4> QED
        BY <1>1, <4>1, <4>2
    <3>4. Prompt!LastOf(Append(Prompt!LastOf(disk, HistoryMax), input), HistoryMax) = Prompt!LastOf(Append(disk, input), HistoryMax)
      BY <1>1, KeptOfKept
    <3> QED
      BY <3>1, <3>2, <3>3, <3>4 DEF PromptInv
  <2> QED
    BY <2>1, <2>2
<1>4. idx' \in 0..Len(promptItems')
  BY <1>2, <1>3
<1>5. Prompt!TypeOK' /\ OfferInText'
  BY <1>1, <1>2, <1>3, <1>4 DEF Prompt!TypeOK, OfferInText
<1> QED
  BY <1>3, <1>5 DEF PromptInv

\* The file is rewritten with the entries in memory.
LEMMA RewriteStep == ASSUME PromptInv, Prompt!Rewrite PROVE PromptInv'
<1>1. /\ promptItems \in Seq(Prompt!Text) /\ Len(promptItems) <= HistoryMax /\ HistoryMax \in Nat
      /\ disk' = promptItems /\ writing' = FALSE /\ UNCHANGED <<input, promptItems, idx, draft, offer, entered>>
  BY PromptBounds DEF Prompt!Rewrite, PromptInv, Prompt!TypeOK, Prompt!PromptConstants
<1>2. Prompt!LastOf(promptItems, HistoryMax) = promptItems
  BY <1>1, AllKept
<1>3. Prompt!TypeOK' /\ OfferInText'
  BY <1>1 DEF PromptInv, Prompt!TypeOK, OfferInText
<1> QED
  BY <1>1, <1>2, <1>3 DEF PromptInv

\* A restart reads the last entries of the file.
LEMMA RestartStep == ASSUME PromptInv, Prompt!Restart PROVE PromptInv'
<1>1. promptItems' = promptItems /\ disk' = disk
  BY DEF Prompt!Restart, PromptInv
<1>2. /\ input' = Prompt!Blank /\ draft' = Prompt!Blank /\ idx' = 0 /\ offer' = Prompt!Closed /\ writing' = FALSE
      /\ entered' = entered
  BY DEF Prompt!Restart
<1>3. 0 \in 0..Len(promptItems)
  BY DEF PromptInv, Prompt!TypeOK
<1>4. Prompt!TypeOK' /\ OfferInText'
  BY <1>1, <1>2, <1>3, ClosedOffer DEF PromptInv, Prompt!TypeOK, OfferInText
<1> QED
  BY <1>1, <1>4, KeepsEntries

\* Every step keeps the invariant of the prompt.
LEMMA PromptStep == ASSUME PromptInv, [Prompt!Next]_Prompt!vars PROVE PromptInv'
<1>1. CASE UNCHANGED Prompt!vars
  <2>1. Prompt!TypeOK' /\ OfferInText'
    BY <1>1 DEF Prompt!vars, PromptInv, Prompt!TypeOK, OfferInText
  <2> QED
    BY <1>1, <2>1, KeepsEntries DEF Prompt!vars
<1> QED
  BY <1>1, TypeStep, ChooseStep, CompleteStep, DismissStep, BrowseStep, PromptSubmitStep, RewriteStep, RestartStep DEF Prompt!Next

\* The file has the entries of memory at its end.
LEMMA PromptTold == ASSUME PromptInv PROVE Prompt!TypeOK /\ Prompt!HistoryIsOnDisk
<1>1. promptItems \in Seq(Prompt!Text) /\ idx \in 0..Len(promptItems) /\ Prompt!LastOf(disk, HistoryMax) = promptItems
  BY DEF PromptInv, Prompt!TypeOK
<1>2. idx = 0 \/ idx \in DOMAIN promptItems
  BY <1>1
<1> QED
  BY <1>1, <1>2 DEF PromptInv, Prompt!HistoryIsOnDisk

-----------------------------------------------------------------------------
(* Transcript. *)

\* What Transcript asks of its constants.
LEMMA TranscriptBounds == Transcript!TranscriptConstants
BY MCUiConstants

Steps == {"idle", "stream", "tools", "between", "ended"}
PieceKinds == Transcript!Pieces \cup {"thought", "call", "result", "error", "final"}

\* The numbers of what was said, of which the order matters.
ToldNumbers == {x \in 1..n : kind[x] \in Transcript!Said}

\* A pane's buffer b and the text c behind it have the numbers of T in their order.
RisesIn(s, T) == \A i, j \in DOMAIN s : i < j /\ s[i] \in T /\ s[j] \in T => s[i] < s[j]
PaneRises(b, c, T) ==
  /\ RisesIn(b, T) /\ RisesIn(c, T)
  /\ \A i \in DOMAIN b, j \in DOMAIN c : b[i] \in T /\ c[j] \in T => b[i] < c[j]

\* A number is in a pane, among the master's thoughts, or was dropped.
HeldNumber(x) ==
  \/ x \in Transcript!Range(thinking) \cup dropped
  \/ \E s \in Transcript!Speakers : x \in Transcript!Range(buffer[s]) \cup Transcript!Range(current[s])

TextTypes ==
  /\ step \in [Transcript!Speakers -> Steps]
  /\ n \in 0..MaxEvents /\ kind \in [1..n -> PieceKinds]
  /\ buffer \in [Transcript!Speakers -> Seq(1..n)] /\ current \in [Transcript!Speakers -> Seq(1..n)]
  /\ cache \in [Transcript!Speakers -> Seq(1..n)] /\ upTo \in [Transcript!Speakers -> 0..MaxEvents]
  /\ thinking \in Seq(1..n) /\ queued \in BOOLEAN /\ dropped \subseteq 1..n

TranscriptInv ==
  /\ TextTypes
  /\ \A s \in Transcript!Speakers : Len(current[s]) <= n
  /\ \A s \in Transcript!Speakers : step[s] = "tools" => current[s] = <<>>
  /\ \A i \in DOMAIN thinking : thinking[i] \notin ToldNumbers
  /\ \A s \in Transcript!Speakers : PaneRises(buffer[s], current[s], ToldNumbers)
  /\ \A x \in 1..n : HeldNumber(x)

\* Sequences: what their elements are when they are joined.
LEMMA Joined ==
  ASSUME NEW S, NEW s \in Seq(S), NEW t \in Seq(S)
  PROVE  /\ s \o t \in Seq(S) /\ Len(s) \in Nat /\ Len(t) \in Nat
         /\ \A i \in DOMAIN (s \o t) :
              \/ i \in DOMAIN s /\ (s \o t)[i] = s[i] /\ i <= Len(s)
              \/ i > Len(s) /\ i - Len(s) \in DOMAIN t /\ (s \o t)[i] = t[i - Len(s)]
         /\ \A i \in DOMAIN (s \o t) : i \in Nat
         /\ \A i \in DOMAIN s : i \in DOMAIN (s \o t) /\ (s \o t)[i] = s[i]
         /\ \A i \in DOMAIN t : Len(s) + i \in DOMAIN (s \o t) /\ (s \o t)[Len(s) + i] = t[i]
<1>1. /\ s \o t \in Seq(S) /\ Len(s \o t) = Len(s) + Len(t) /\ Len(s) \in Nat /\ Len(t) \in Nat
      /\ \A i \in 1..Len(s) + Len(t) : (s \o t)[i] = IF i <= Len(s) THEN s[i] ELSE t[i - Len(s)]
  BY ConcatProperties
<1>2. DOMAIN s = 1..Len(s) /\ DOMAIN t = 1..Len(t) /\ DOMAIN (s \o t) = 1..Len(s) + Len(t)
  BY <1>1
<1> DEFINE u == s \o t
           p == Len(s)
           q == Len(t)
<1>3. /\ u \in Seq(S) /\ p \in Nat /\ q \in Nat
      /\ DOMAIN s = 1..p /\ DOMAIN t = 1..q /\ DOMAIN u = 1..p + q
      /\ \A i \in 1..p + q : u[i] = IF i <= p THEN s[i] ELSE t[i - p]
  BY <1>1, <1>2
<1> HIDE DEF u, p, q
<1>4. \A i \in DOMAIN u :
        \/ i \in DOMAIN s /\ u[i] = s[i] /\ i <= p
        \/ i > p /\ i - p \in DOMAIN t /\ u[i] = t[i - p]
  BY <1>3
<1>5. \A i \in DOMAIN s : i \in DOMAIN u /\ u[i] = s[i]
  BY <1>3
<1>6. \A i \in DOMAIN t : p + i \in DOMAIN u /\ u[p + i] = t[i]
  <2> SUFFICES ASSUME NEW i \in 1..q PROVE p + i \in DOMAIN u /\ u[p + i] = t[i]
    BY <1>3
  <2>1. p + i \in 1..p + q /\ ~(p + i <= p) /\ (p + i) - p = i
    BY <1>3
  <2> QED
    BY <1>3, <2>1
<1> QED
  BY <1>3, <1>4, <1>5, <1>6 DEF u, p, q

\* What two sequences, one after the other, have in them.
LEMMA JoinedRange ==
  ASSUME NEW S, NEW s \in Seq(S), NEW t \in Seq(S)
  PROVE  Transcript!Range(s \o t) = Transcript!Range(s) \cup Transcript!Range(t)
<1>1. \A x \in Transcript!Range(s \o t) : x \in Transcript!Range(s) \cup Transcript!Range(t)
  BY Joined DEF Transcript!Range
<1>2. \A x \in Transcript!Range(s) : x \in Transcript!Range(s \o t)
  BY Joined DEF Transcript!Range
<1>3. \A x \in Transcript!Range(t) : x \in Transcript!Range(s \o t)
  <2> SUFFICES ASSUME NEW i \in DOMAIN t PROVE t[i] \in Transcript!Range(s \o t)
    BY DEF Transcript!Range
  <2>1. Len(s) + i \in DOMAIN (s \o t) /\ (s \o t)[Len(s) + i] = t[i]
    BY Joined
  <2> QED
    BY <2>1 DEF Transcript!Range
<1> QED
  BY <1>1, <1>2, <1>3

\* A sequence with one more element.
LEMMA OneMore ==
  ASSUME NEW S, NEW s \in Seq(S), NEW x \in S
  PROVE  /\ Append(s, x) \in Seq(S) /\ Len(Append(s, x)) = Len(s) + 1 /\ Len(s) \in Nat
         /\ Append(s, x) = s \o <<x>> /\ <<x>> \in Seq(S)
         /\ \A i \in DOMAIN Append(s, x) :
              \/ i \in DOMAIN s /\ Append(s, x)[i] = s[i] /\ i < Len(s) + 1
              \/ i = Len(s) + 1 /\ Append(s, x)[i] = x
         /\ \A i \in DOMAIN s : i \in Nat /\ i < Len(s) + 1 /\ i \in DOMAIN Append(s, x) /\ Append(s, x)[i] = s[i]
         /\ Transcript!Range(Append(s, x)) = Transcript!Range(s) \cup {x}
<1>1. /\ Append(s, x) \in Seq(S) /\ Len(Append(s, x)) = Len(s) + 1 /\ Len(s) \in Nat
      /\ <<x>> \in Seq(S)
      /\ \A i \in DOMAIN Append(s, x) :
           \/ i \in DOMAIN s /\ Append(s, x)[i] = s[i] /\ i < Len(s) + 1
           \/ i = Len(s) + 1 /\ Append(s, x)[i] = x
      /\ \A i \in DOMAIN s : i \in Nat /\ i < Len(s) + 1 /\ i \in DOMAIN Append(s, x) /\ Append(s, x)[i] = s[i]
  OBVIOUS
<1>2. Append(s, x) = s \o <<x>>
  BY AppendIsConcat
<1>3. Len(s) + 1 \in DOMAIN Append(s, x) /\ Append(s, x)[Len(s) + 1] = x
  OBVIOUS
<1>4. Transcript!Range(Append(s, x)) = Transcript!Range(s) \cup {x}
  BY <1>1, <1>3 DEF Transcript!Range
<1> QED
  BY <1>1, <1>2, <1>4

\* The order in a pane as it changes.
LEMMA SameTold ==
  ASSUME NEW S, NEW b \in Seq(S), NEW c \in Seq(S), NEW T, NEW U, PaneRises(b, c, T),
         \A x \in S : x \in U => x \in T
  PROVE  PaneRises(b, c, U)
<1>1. (\A i \in DOMAIN b : b[i] \in S) /\ (\A i \in DOMAIN c : c[i] \in S)
  OBVIOUS
<1> QED
  BY <1>1 DEF PaneRises, RisesIn

\* What arrives last goes to the end of the answer.
LEMMA TextRises ==
  ASSUME NEW S \in SUBSET Nat, NEW b \in Seq(S), NEW c \in Seq(S), NEW T, PaneRises(b, c, T),
         NEW x \in S, \A i \in DOMAIN b : b[i] < x, \A i \in DOMAIN c : c[i] < x
  PROVE  PaneRises(b, Append(c, x), T)
<1> DEFINE d == Append(c, x)
<1>1. /\ d \in Seq(S) /\ Len(c) \in Nat
      /\ \A i \in DOMAIN d : (i \in DOMAIN c /\ d[i] = c[i] /\ i < Len(c) + 1) \/ (i = Len(c) + 1 /\ d[i] = x)
      /\ \A i \in DOMAIN c : i \in Nat /\ i < Len(c) + 1
  BY OneMore
<1> HIDE DEF d
<1>2. RisesIn(d, T)
  <2> SUFFICES ASSUME NEW i \in DOMAIN d, NEW j \in DOMAIN d, i < j, d[i] \in T, d[j] \in T
               PROVE  d[i] < d[j]
    BY DEF RisesIn
  <2>1. i \in DOMAIN c /\ d[i] = c[i]
    BY <1>1
  <2>2. CASE j \in DOMAIN c /\ d[j] = c[j]
    BY <2>1, <2>2 DEF PaneRises, RisesIn
  <2>3. CASE d[j] = x
    BY <2>1, <2>3
  <2> QED
    BY <1>1, <2>2, <2>3
<1>3. \A i \in DOMAIN b, j \in DOMAIN d : b[i] \in T /\ d[j] \in T => b[i] < d[j]
  BY <1>1 DEF PaneRises
<1> QED
  BY <1>2, <1>3 DEF PaneRises, d

\* Something goes to the end of the buffer that is not of T.
LEMMA AsideRises ==
  ASSUME NEW S, NEW b \in Seq(S), NEW c \in Seq(S), NEW T, PaneRises(b, c, T),
         NEW u \in Seq(S), \A i \in DOMAIN u : u[i] \notin T
  PROVE  b \o u \in Seq(S) /\ PaneRises(b \o u, c, T)
<1> DEFINE d == b \o u
<1>1. /\ d \in Seq(S)
      /\ \A i \in DOMAIN d : (i \in DOMAIN b /\ d[i] = b[i]) \/ (i - Len(b) \in DOMAIN u /\ d[i] = u[i - Len(b)])
  BY Joined
<1> HIDE DEF d
<1>2. \A i \in DOMAIN d : d[i] \in T => i \in DOMAIN b /\ d[i] = b[i]
  BY <1>1
<1>3. PaneRises(d, c, T)
  BY <1>2 DEF PaneRises, RisesIn
<1> QED
  BY <1>1, <1>3 DEF d

\* The text goes to the end of the buffer.
LEMMA FlushedRises ==
  ASSUME NEW S, NEW b \in Seq(S), NEW c \in Seq(S), NEW T, PaneRises(b, c, T)
  PROVE  b \o c \in Seq(S) /\ PaneRises(b \o c, <<>>, T) /\ RisesIn(b \o c, T)
<1> DEFINE d == b \o c
           p == Len(b)
<1>1. /\ d \in Seq(S) /\ p \in Nat
      /\ \A i \in DOMAIN d :
           \/ i \in DOMAIN b /\ d[i] = b[i] /\ i <= p
           \/ i > p /\ i - p \in DOMAIN c /\ d[i] = c[i - p]
      /\ \A i \in DOMAIN d : i \in Nat
  BY Joined
<1> HIDE DEF d, p
<1>2. RisesIn(d, T)
  <2> SUFFICES ASSUME NEW i \in DOMAIN d, NEW j \in DOMAIN d, i < j, d[i] \in T, d[j] \in T
               PROVE  d[i] < d[j]
    BY DEF RisesIn
  <2>1. CASE i \in DOMAIN b /\ d[i] = b[i] /\ j \in DOMAIN b /\ d[j] = b[j]
    BY <2>1 DEF PaneRises, RisesIn
  <2>2. CASE i \in DOMAIN b /\ d[i] = b[i] /\ j - p \in DOMAIN c /\ d[j] = c[j - p]
    BY <2>2 DEF PaneRises
  <2>3. CASE i - p \in DOMAIN c /\ d[i] = c[i - p] /\ j - p \in DOMAIN c /\ d[j] = c[j - p]
    <3>1. i - p < j - p
      BY <1>1
    <3> QED
      BY <2>3, <3>1 DEF PaneRises, RisesIn
  <2>4. i > p => j > p
    BY <1>1
  <2> QED
    BY <1>1, <2>1, <2>2, <2>3, <2>4
<1>3. DOMAIN <<>> = {}
  OBVIOUS
<1>4. PaneRises(d, <<>>, T)
  BY <1>2, <1>3 DEF PaneRises, RisesIn
<1> QED
  BY <1>1, <1>2, <1>4 DEF d

\* The text is dropped.
LEMMA DroppedRises ==
  ASSUME NEW b, NEW c, NEW T, PaneRises(b, c, T) PROVE PaneRises(b, <<>>, T)
<1>1. DOMAIN <<>> = {}
  OBVIOUS
<1> QED
  BY <1>1 DEF PaneRises, RisesIn

\* Something later goes to the end of the buffer when there is no text.
LEMMA NextRises ==
  ASSUME NEW S \in SUBSET Nat, NEW b \in Seq(S), NEW T, PaneRises(b, <<>>, T),
         NEW x \in S, \A i \in DOMAIN b : b[i] < x
  PROVE  PaneRises(Append(b, x), <<>>, T)
<1>1. <<>> \in Seq(S) /\ DOMAIN <<>> = {}
  OBVIOUS
<1>2. PaneRises(<<>>, b, T)
  BY <1>1 DEF PaneRises, RisesIn
<1>3. PaneRises(<<>>, Append(b, x), T)
  BY <1>1, <1>2, TextRises
<1> QED
  BY <1>1, <1>3 DEF PaneRises, RisesIn

\* The numbers that a pane, the master's thoughts and what was dropped hold.
Around(s) == Transcript!Range(buffer[s]) \cup Transcript!Range(current[s]) \cup Transcript!Range(thinking) \cup dropped

\* What a step of one speaker has to keep.
LEMMA KeptBySpeaker ==
  ASSUME TranscriptInv, TextTypes', NEW s \in Transcript!Speakers, n <= n',
         \A x \in 1..n : x \in ToldNumbers' => x \in ToldNumbers,
         \A r \in Transcript!Speakers \ {s} :
           buffer'[r] = buffer[r] /\ current'[r] = current[r] /\ step'[r] = step[r],
         Len(current'[s]) <= n', step'[s] = "tools" => current'[s] = <<>>,
         \A i \in DOMAIN thinking' : thinking'[i] \notin ToldNumbers',
         PaneRises(buffer'[s], current'[s], ToldNumbers'),
         Around(s) \subseteq Around(s)',
         \A x \in 1..n' : x \in 1..n \/ x \in Around(s)'
  PROVE  TranscriptInv'
<1>1. \A r \in Transcript!Speakers : Len(current'[r]) <= n'
  <2> SUFFICES ASSUME NEW r \in Transcript!Speakers, r # s PROVE Len(current'[r]) <= n'
    OBVIOUS
  <2>1. current'[r] = current[r] /\ Len(current[r]) <= n /\ current[r] \in Seq(1..n)
    BY DEF TranscriptInv, TextTypes
  <2>2. n \in Nat /\ n' \in Nat /\ Len(current[r]) \in Nat
    BY <2>1 DEF TranscriptInv, TextTypes
  <2> QED
    BY <2>1, <2>2
<1>2. \A r \in Transcript!Speakers : step'[r] = "tools" => current'[r] = <<>>
  BY DEF TranscriptInv
<1>3. \A r \in Transcript!Speakers : PaneRises(buffer'[r], current'[r], ToldNumbers')
  <2> SUFFICES ASSUME NEW r \in Transcript!Speakers, r # s PROVE PaneRises(buffer'[r], current'[r], ToldNumbers')
    OBVIOUS
  <2>1. /\ buffer'[r] = buffer[r] /\ current'[r] = current[r]
        /\ buffer[r] \in Seq(1..n) /\ current[r] \in Seq(1..n)
        /\ PaneRises(buffer[r], current[r], ToldNumbers)
    BY DEF TranscriptInv, TextTypes
  <2>2. PaneRises(buffer[r], current[r], ToldNumbers')
    BY <2>1, SameTold
  <2> QED
    BY <2>1, <2>2
<1>4. \A x \in 1..n' : HeldNumber(x)'
  <2> SUFFICES ASSUME NEW x \in 1..n' PROVE HeldNumber(x)'
    OBVIOUS
  <2>1. CASE x \in Around(s)'
    BY <2>1 DEF Around, HeldNumber
  <2>2. CASE x \in 1..n /\ x \notin Around(s)
    <3>1. PICK r \in Transcript!Speakers : x \in Transcript!Range(buffer[r]) \cup Transcript!Range(current[r])
      BY <2>2 DEF TranscriptInv, HeldNumber, Around
    <3>2. r # s
      BY <2>2, <3>1 DEF Around
    <3> QED
      BY <3>1, <3>2 DEF HeldNumber
  <2> QED
    BY <2>1, <2>2
<1> QED
  BY <1>1, <1>2, <1>3, <1>4 DEF TranscriptInv

\* A sequence of what is in a set is one of what is in a larger set.
LEMMA WiderSeq ==
  ASSUME NEW S, NEW U, \A x \in S : x \in U, NEW t \in Seq(S)
  PROVE  t \in Seq(U) /\ \A i \in DOMAIN t : t[i] \in S
OBVIOUS

\* Something arrives and gets the next number.
LEMMA Arrived ==
  ASSUME TranscriptInv, NEW what \in PieceKinds, Transcript!Arrives(what)
  PROVE  /\ n \in Nat /\ n' = n + 1 /\ n' \in 0..MaxEvents /\ n' \in 1..n' /\ n <= n'
         /\ kind' \in [1..n' -> PieceKinds]
         /\ \A x \in 1..n : x \in 1..n' /\ x < n'
         /\ \A x \in 1..n' : x \in 1..n \/ x = n'
         /\ \A x \in 1..n : x \in ToldNumbers' <=> x \in ToldNumbers
         /\ what \notin Transcript!Said => n' \notin ToldNumbers'
         /\ \A t : t \in Seq(1..n) => t \in Seq(1..n') /\ \A i \in DOMAIN t : t[i] < n'
<1>1. /\ n \in 0..MaxEvents /\ MaxEvents \in Nat /\ n < MaxEvents /\ n' = n + 1
      /\ kind \in [1..n -> PieceKinds] /\ kind' = Append(kind, what)
  BY TranscriptBounds DEF TranscriptInv, TextTypes, Transcript!Arrives, Transcript!TranscriptConstants
<1>2. /\ n \in Nat /\ n' \in 0..MaxEvents /\ n' \in 1..n' /\ n <= n'
      /\ \A x \in 1..n : x \in 1..n' /\ x < n'
      /\ \A x \in 1..n' : x \in 1..n \/ x = n'
  BY <1>1
<1>3. kind \in Seq(PieceKinds) /\ Len(kind) = n
  BY <1>1, <1>2
<1>4. /\ kind' \in [1..n' -> PieceKinds] /\ kind'[n'] = what
      /\ \A x \in 1..n : kind'[x] = kind[x]
  <2>1. /\ kind' \in Seq(PieceKinds) /\ Len(kind') = n + 1 /\ kind'[n + 1] = what
        /\ \A x \in 1..n : kind'[x] = kind[x]
    BY <1>1, <1>3, AppendProperties
  <2>2. kind' \in [1..Len(kind') -> PieceKinds]
    BY <2>1
  <2>3. Len(kind') = n'
    BY <1>1, <2>1
  <2> QED
    BY <1>1, <2>1, <2>2, <2>3
<1>5. /\ \A x \in 1..n : x \in ToldNumbers' <=> x \in ToldNumbers
      /\ what \notin Transcript!Said => n' \notin ToldNumbers'
  BY <1>2, <1>4 DEF ToldNumbers, Transcript!Said
<1>6. \A t : t \in Seq(1..n) => t \in Seq(1..n') /\ \A i \in DOMAIN t : t[i] < n'
  <2> SUFFICES ASSUME NEW t \in Seq(1..n) PROVE t \in Seq(1..n') /\ \A i \in DOMAIN t : t[i] < n'
    OBVIOUS
  <2>1. t \in Seq(1..n') /\ \A i \in DOMAIN t : t[i] \in 1..n
    BY <1>2, WiderSeq
  <2> QED
    BY <1>2, <2>1
<1> QED
  BY <1>1, <1>2, <1>4, <1>5, <1>6

\* A set of numbers up to m that is not empty has a greatest one.
LEMMA Greatest ==
  ASSUME NEW m \in Nat, NEW E \in SUBSET (1..m), E # {}
  PROVE  \E i \in E : \A j \in E : j <= i
<1> DEFINE R == {ss \in Nat \X Nat : ss[1] < ss[2]}
           F == {k \in 0..m : \E i \in E : k = m - i}
<1>1. IsWellFoundedOn(R, Nat)
  BY NatLessThanWellFounded DEF OpToRel
<1>2. \A x, y \in Nat : x < y => <<x, y>> \in R
  OBVIOUS
<1> HIDE DEF R
<1>3. F \in SUBSET Nat /\ F # {}
  <2>1. PICK i \in E : TRUE
    OBVIOUS
  <2>2. m - i \in 0..m
    BY <2>1
  <2>3. m - i \in F
    BY <2>1, <2>2
  <2>4. F \in SUBSET Nat
    OBVIOUS
  <2> HIDE DEF F
  <2> QED
    BY <2>3, <2>4
<1>4. PICK k \in F : \A y \in F : ~(<<y, k>> \in R)
  BY <1>1, <1>3, WFMin
<1>5. PICK i \in E : k = m - i
  BY <1>4
<1>6. ASSUME NEW j \in E PROVE j <= i
  <2>1. m - j \in F /\ m - j \in Nat /\ k \in Nat
    BY <1>3, <1>4
  <2>2. ~(m - j < k)
    BY <1>2, <1>4, <2>1
  <2> QED
    BY <1>5, <2>1, <2>2
<1> QED
  BY <1>6

\* How much of a text is complete is a number up to its length.
LEMMA CompleteIs ==
  ASSUME NEW S, NEW text \in Seq(S), NEW k PROVE Transcript!Complete(text, k) \in 0..Len(text)
<1> DEFINE ends == {i \in DOMAIN text : k[text[i]] \in {"line", "fence"}}
<1>1. Len(text) \in Nat /\ ends \in SUBSET (1..Len(text))
  OBVIOUS
<1> HIDE DEF ends
<1>2. CASE ends = {}
  BY <1>1, <1>2 DEF Transcript!Complete, ends
<1>3. CASE ends # {}
  <2>1. \E i \in ends : \A j \in ends : j <= i
    BY <1>1, <1>3, Greatest
  <2>2. (CHOOSE i \in ends : \A j \in ends : j <= i) \in ends
    BY <2>1
  <2>3. Transcript!Complete(text, k) = CHOOSE i \in ends : \A j \in ends : j <= i
    BY <1>3 DEF Transcript!Complete, ends
  <2>4. Transcript!Complete(text, k) \in ends
    BY <2>2, <2>3
  <2>5. \A x \in ends : x \in 0..Len(text)
    BY <1>1
  <2> QED
    BY <2>4, <2>5
<1> QED
  BY <1>2, <1>3

\* Rendering changes the cache and the cursor only.
LEMMA RerenderTypes ==
  ASSUME NEW s \in Transcript!Speakers, NEW S, NEW text \in Seq(S), NEW k, Len(text) <= MaxEvents,
         upTo \in [Transcript!Speakers -> 0..MaxEvents], cache \in [Transcript!Speakers -> Seq(S)], Transcript!Rerender(s, text, k)
  PROVE  upTo' \in [Transcript!Speakers -> 0..MaxEvents] /\ cache' \in [Transcript!Speakers -> Seq(S)]
<1> DEFINE done == Transcript!Complete(text, k)
<1>1. done \in 0..Len(text) /\ Len(text) \in Nat /\ MaxEvents \in Nat
  BY CompleteIs, TranscriptBounds DEF Transcript!TranscriptConstants
<1>2. \/ upTo' = [upTo EXCEPT ![s] = done] /\ cache' = [cache EXCEPT ![s] = SubSeq(text, 1, done)]
      \/ UNCHANGED <<upTo, cache>>
  BY DEF Transcript!Rerender
<1> HIDE DEF done
<1>3. done \in 0..MaxEvents
  BY <1>1
<1>4. SubSeq(text, 1, done) \in Seq(S)
  <2>1. \A i \in 1..done : text[i] \in S
    BY <1>1
  <2> QED
    BY <1>1, <2>1, SubSeqProperties
<1> QED
  BY <1>2, <1>3, <1>4

\* The streamed text goes to the buffer, behind it what ends it; the master's thoughts go
\* before it.
LEMMA Flushed ==
  ASSUME TranscriptInv, NEW s \in Transcript!Speakers, NEW last, Transcript!Flush(s, last), n' \in Nat,
         last = <<>> \/ (last = <<n'>> /\ n' \in 1..n' /\ \A x \in 1..n : x < n'),
         \A x \in 1..n : x \in 1..n', \A x \in 1..n : x \in ToldNumbers' => x \in ToldNumbers
  PROVE  /\ buffer' \in [Transcript!Speakers -> Seq(1..n')] /\ current' \in [Transcript!Speakers -> Seq(1..n')]
         /\ cache' \in [Transcript!Speakers -> Seq(1..n')] /\ upTo' \in [Transcript!Speakers -> 0..MaxEvents]
         /\ thinking' \in Seq(1..n') /\ \A i \in DOMAIN thinking' : thinking'[i] \notin ToldNumbers'
         /\ \A r \in Transcript!Speakers \ {s} : buffer'[r] = buffer[r] /\ current'[r] = current[r]
         /\ current'[s] = <<>> /\ PaneRises(buffer'[s], <<>>, ToldNumbers')
         /\ Transcript!Range(buffer[s]) \cup Transcript!Range(current[s]) \cup Transcript!Range(thinking) \cup Transcript!Range(last)
              \subseteq Transcript!Range(buffer'[s]) \cup Transcript!Range(thinking')
<1> DEFINE S == 1..n'
           T == ToldNumbers'
           b == buffer[s]
           c == current[s]
           u == Transcript!Thoughts(s)
<1>1. /\ b \in Seq(1..n) /\ c \in Seq(1..n) /\ thinking \in Seq(1..n) /\ u \in Seq(1..n)
      /\ PaneRises(b, c, ToldNumbers) /\ n \in Nat /\ MaxEvents \in Nat
      /\ \A i \in DOMAIN u : u[i] \notin ToldNumbers
  <2>1. <<>> \in Seq(1..n) /\ DOMAIN <<>> = {}
    OBVIOUS
  <2>2. b \in Seq(1..n) /\ c \in Seq(1..n) /\ thinking \in Seq(1..n) /\ n \in 0..MaxEvents
    BY DEF TranscriptInv, TextTypes
  <2>3. u = thinking \/ u = <<>>
    BY DEF Transcript!Thoughts
  <2>4. \A i \in DOMAIN thinking : thinking[i] \notin ToldNumbers
    BY DEF TranscriptInv
  <2>5. PaneRises(b, c, ToldNumbers)
    BY DEF TranscriptInv
  <2>6. MaxEvents \in Nat
    BY TranscriptBounds DEF Transcript!TranscriptConstants
  <2> HIDE DEF u, b, c
  <2>7. u \in Seq(1..n) /\ \A i \in DOMAIN u : u[i] \notin ToldNumbers
    BY <2>1, <2>2, <2>3, <2>4
  <2> QED
    BY <2>2, <2>5, <2>6, <2>7
<1>2. b \in Seq(S) /\ c \in Seq(S) /\ thinking \in Seq(S) /\ u \in Seq(S)
  <2>1. \A t : t \in Seq(1..n) => t \in Seq(S)
    BY WiderSeq
  <2> QED
    BY <1>1, <2>1
<1>3. \A i \in DOMAIN u : u[i] \notin T
  BY <1>1
<1>4. PaneRises(b, c, T)
  BY <1>1, SameTold
<1>5. last \in Seq(S)
  <2>1. <<>> \in Seq(S) /\ (n' \in S => <<n'>> \in Seq(S))
    OBVIOUS
  <2> QED
    BY <2>1
<1>6. buffer'[s] = ((b \o u) \o c) \o last /\ \A r \in Transcript!Speakers \ {s} : buffer'[r] = buffer[r]
  <2>1. buffer \in [Transcript!Speakers -> Seq(1..n)]
    BY DEF TranscriptInv, TextTypes
  <2>2. CASE u = <<>>
    <3>1. b \o u = b
      BY <1>2, <2>2, ConcatEmptySeq
    <3>2. buffer' = [buffer EXCEPT ![s] = b \o c \o last]
      BY <2>2 DEF Transcript!Flush, Transcript!Committed
    <3> QED
      BY <2>1, <3>1, <3>2
  <2>3. CASE u # <<>>
    <3>1. u = thinking
      BY <2>3 DEF Transcript!Thoughts
    <3>2. buffer' = [buffer EXCEPT ![s] = b \o thinking \o c \o last]
      BY <2>3 DEF Transcript!Flush
    <3> QED
      BY <2>1, <3>1, <3>2
  <2> QED
    BY <2>2, <2>3
<1>7. /\ current' = [current EXCEPT ![s] = << >>]
      /\ \/ UNCHANGED <<upTo, cache>>
         \/ upTo' = [upTo EXCEPT ![s] = 0] /\ cache' = [cache EXCEPT ![s] = << >>]
      /\ thinking' = IF s = Transcript!Master THEN << >> ELSE thinking
  BY DEF Transcript!Flush
<1>8. u = thinking \/ (u = <<>> /\ thinking' = thinking)
  BY <1>7 DEF Transcript!Thoughts
<1> HIDE DEF S, T, b, c, u
<1> DEFINE d == b \o u
           e == d \o c
           f == e \o last
<1>9. /\ d \in Seq(S) /\ PaneRises(d, c, T) /\ Transcript!Range(d) = Transcript!Range(b) \cup Transcript!Range(u)
  BY <1>2, <1>3, <1>4, AsideRises, JoinedRange
<1> HIDE DEF d
<1>10. e \in Seq(S) /\ PaneRises(e, <<>>, T) /\ Transcript!Range(e) = Transcript!Range(d) \cup Transcript!Range(c)
  BY <1>2, <1>9, FlushedRises, JoinedRange
<1>11. last = <<>> \/ (last = <<n'>> /\ n' \in S /\ \A i \in DOMAIN e : e[i] < n')
  <2> SUFFICES ASSUME last = <<n'>>, n' \in S, \A x \in 1..n : x < n'
               PROVE  \A i \in DOMAIN e : e[i] < n'
    BY DEF S
  <2>1. e \in Seq(1..n)
    BY <1>1, Joined DEF d
  <2> HIDE DEF e
  <2>2. \A i \in DOMAIN e : e[i] \in 1..n
    BY <2>1, WiderSeq
  <2> QED
    BY <2>2
<1> HIDE DEF e
<1>12. f \in Seq(S) /\ PaneRises(f, <<>>, T) /\ Transcript!Range(f) = Transcript!Range(e) \cup Transcript!Range(last)
  <2>1. f \in Seq(S) /\ Transcript!Range(f) = Transcript!Range(e) \cup Transcript!Range(last)
    BY <1>5, <1>10, JoinedRange, Joined
  <2>2. CASE last = <<>>
    <3>1. f = e
      BY <1>10, <2>2, ConcatEmptySeq
    <3> QED
      BY <1>10, <2>1, <3>1
  <2>3. CASE last = <<n'>> /\ n' \in S /\ \A i \in DOMAIN e : e[i] < n'
    <3>1. f = Append(e, n')
      BY <1>10, <2>3, AppendIsConcat
    <3>2. S \in SUBSET Nat
      BY DEF S
    <3> QED
      BY <1>10, <2>1, <2>3, <3>1, <3>2, NextRises
  <2> QED
    BY <1>11, <2>2, <2>3
<1>13. buffer'[s] = f
  BY <1>6 DEF d, e
<1> HIDE DEF f
<1>14. \A t : t \in Seq(1..n) => t \in Seq(S)
  BY WiderSeq DEF S
<1>15. <<>> \in Seq(S) /\ 0 \in 0..MaxEvents /\ DOMAIN <<>> = {}
  BY <1>1
<1>16. /\ buffer \in [Transcript!Speakers -> Seq(1..n)] /\ current \in [Transcript!Speakers -> Seq(1..n)]
       /\ cache \in [Transcript!Speakers -> Seq(1..n)] /\ upTo \in [Transcript!Speakers -> 0..MaxEvents]
       /\ \A i \in DOMAIN thinking : thinking[i] \notin ToldNumbers
  BY DEF TranscriptInv, TextTypes
<1>17. buffer' \in [Transcript!Speakers -> Seq(S)]
  <2>1. buffer' = [buffer EXCEPT ![s] = f]
    <3>1. buffer' = [buffer EXCEPT ![s] = buffer'[s]]
      BY <1>16 DEF Transcript!Flush
    <3> QED
      BY <1>13, <3>1
  <2> QED
    BY <1>12, <1>14, <1>16, <2>1
<1>18. current' \in [Transcript!Speakers -> Seq(S)] /\ current'[s] = <<>> /\ \A r \in Transcript!Speakers \ {s} : current'[r] = current[r]
  BY <1>7, <1>14, <1>15, <1>16
<1>19. cache' \in [Transcript!Speakers -> Seq(S)] /\ upTo' \in [Transcript!Speakers -> 0..MaxEvents]
  BY <1>7, <1>14, <1>15, <1>16
<1>20. thinking' \in Seq(S) /\ \A i \in DOMAIN thinking' : thinking'[i] \notin T
  <2>1. \A i \in DOMAIN thinking : thinking[i] \in 1..n
    BY <1>1, WiderSeq
  <2>2. \A i \in DOMAIN thinking : thinking[i] \notin T
    BY <1>16, <2>1 DEF T
  <2> QED
    BY <1>2, <1>7, <1>15, <2>2
<1>21. Transcript!Range(b) \cup Transcript!Range(c) \cup Transcript!Range(thinking) \cup Transcript!Range(last) \subseteq Transcript!Range(f) \cup Transcript!Range(thinking')
  BY <1>8, <1>9, <1>10, <1>12
<1> QED
  BY <1>6, <1>12, <1>13, <1>17, <1>18, <1>19, <1>20, <1>21 DEF S, T, b, c

\* Nothing has been said.
LEMMA InitTranscript == ASSUME Transcript!Init PROVE TranscriptInv
<1>1. /\ n = 0 /\ kind = <<>> /\ thinking = <<>> /\ queued = FALSE /\ dropped = {}
      /\ step = [s \in Transcript!Speakers |-> "idle"] /\ upTo = [s \in Transcript!Speakers |-> 0]
      /\ buffer = [s \in Transcript!Speakers |-> <<>>] /\ current = [s \in Transcript!Speakers |-> <<>>]
      /\ cache = [s \in Transcript!Speakers |-> <<>>]
  BY DEF Transcript!Init
<1>2. (\A S : <<>> \in Seq(S)) /\ DOMAIN <<>> = {} /\ Len(<<>>) = 0
  OBVIOUS
<1>3. 0 \in 0..MaxEvents /\ 1..0 = {} /\ \A S : <<>> \in [1..0 -> S]
  BY TranscriptBounds DEF Transcript!TranscriptConstants
<1>4. TextTypes
  BY <1>1, <1>2, <1>3 DEF TextTypes, Steps
<1>5. \A s \in Transcript!Speakers : PaneRises(buffer[s], current[s], ToldNumbers)
  BY <1>1, <1>2 DEF PaneRises, RisesIn
<1> QED
  BY <1>1, <1>2, <1>3, <1>4, <1>5 DEF TranscriptInv

\* What is in a pane.
LEMMA PaneIs ==
  ASSUME TranscriptInv, NEW s \in Transcript!Speakers
  PROVE  /\ buffer[s] \in Seq(1..n) /\ current[s] \in Seq(1..n) /\ n \in Nat
         /\ PaneRises(buffer[s], current[s], ToldNumbers)
         /\ Len(current[s]) <= n /\ Len(current[s]) \in Nat
         /\ step[s] = "tools" => current[s] = <<>>
BY DEF TranscriptInv, TextTypes

\* The master and a worker.
LEMMA SpeakersAre == Transcript!Master \in Transcript!Speakers /\ Transcript!Worker \in Transcript!Speakers /\ Transcript!Master # Transcript!Worker
BY DEF Transcript!Speakers, Transcript!Master, Transcript!Worker

\* A step in which nothing arrives and the panes stay.
LEMMA NothingArrives ==
  ASSUME TranscriptInv, NEW s \in Transcript!Speakers, NEW t \in Steps, step' = [step EXCEPT ![s] = t],
         t = "tools" => current[s] = <<>>,
         UNCHANGED <<n, kind, buffer, current, upTo, cache>>, queued' \in BOOLEAN,
         \/ UNCHANGED <<thinking, dropped>>
         \/ thinking' = <<>> /\ dropped' = dropped \cup Transcript!Range(thinking)
  PROVE  TranscriptInv'
<1>1. DOMAIN <<>> = {} /\ <<>> \in Seq(1..n)
  OBVIOUS
<1>2. thinking \in Seq(1..n)
  BY DEF TranscriptInv, TextTypes
<1>3. Transcript!Range(thinking) \subseteq 1..n
  <2>1. \A i \in DOMAIN thinking : thinking[i] \in 1..n
    BY <1>2, WiderSeq
  <2> QED
    BY <2>1 DEF Transcript!Range
<1>4. TextTypes'
  <2>1. step' \in [Transcript!Speakers -> Steps]
    BY DEF TranscriptInv, TextTypes
  <2>2. thinking' \in Seq(1..n) /\ dropped' \subseteq 1..n
    BY <1>1, <1>2, <1>3 DEF TranscriptInv, TextTypes
  <2>3. TextTypes
    BY DEF TranscriptInv
  <2> QED
    BY <2>1, <2>2, <2>3 DEF TextTypes
<1>5. ToldNumbers' = ToldNumbers /\ n <= n'
  <2>1. n \in Nat
    BY PaneIs
  <2> QED
    BY <2>1 DEF ToldNumbers
<1>6. \A i \in DOMAIN thinking' : thinking'[i] \notin ToldNumbers'
  BY <1>1, <1>5 DEF TranscriptInv
<1>7. Around(s) \subseteq Around(s)'
  BY DEF Around
<1>8. step'[s] = t /\ \A r \in Transcript!Speakers \ {s} : step'[r] = step[r]
  BY DEF TranscriptInv, TextTypes
<1> QED
  BY <1>4, <1>5, <1>6, <1>7, <1>8, PaneIs, KeptBySpeaker

\* A thought arrives.
LEMMA ReasonsStep == ASSUME TranscriptInv, Transcript!Reasons PROVE TranscriptInv'
<1>1. /\ Transcript!Arrives("thought") /\ thinking' = Append(thinking, n')
      /\ UNCHANGED <<step, buffer, current, upTo, cache, queued, dropped>>
  BY DEF Transcript!Reasons
<1>2. "thought" \in PieceKinds /\ "thought" \notin Transcript!Said
  BY DEF PieceKinds, Transcript!Said, Transcript!Pieces
<1>3. /\ n \in Nat /\ n' \in 0..MaxEvents /\ n' \in 1..n' /\ n <= n'
      /\ kind' \in [1..n' -> PieceKinds]
      /\ \A x \in 1..n : x \in 1..n'
      /\ \A x \in 1..n' : x \in 1..n \/ x = n'
      /\ \A x \in 1..n : x \in ToldNumbers' => x \in ToldNumbers
      /\ n' \notin ToldNumbers'
      /\ \A t : t \in Seq(1..n) => t \in Seq(1..n')
  BY <1>1, <1>2, Arrived
<1>4. thinking \in Seq(1..n) /\ \A i \in DOMAIN thinking : thinking[i] \notin ToldNumbers
  BY DEF TranscriptInv, TextTypes
<1>5. thinking \in Seq(1..n') /\ \A i \in DOMAIN thinking : thinking[i] \in 1..n
  BY <1>3, <1>4, WiderSeq
<1>6. /\ thinking' \in Seq(1..n') /\ Transcript!Range(thinking') = Transcript!Range(thinking) \cup {n'}
      /\ \A i \in DOMAIN thinking' : (i \in DOMAIN thinking /\ thinking'[i] = thinking[i]) \/ thinking'[i] = n'
  <2> DEFINE S == 1..n'
  <2>1. thinking \in Seq(S) /\ n' \in S
    BY <1>3, <1>5
  <2> HIDE DEF S
  <2>2. /\ Append(thinking, n') \in Seq(S) /\ Transcript!Range(Append(thinking, n')) = Transcript!Range(thinking) \cup {n'}
        /\ \A i \in DOMAIN Append(thinking, n') :
             \/ i \in DOMAIN thinking /\ Append(thinking, n')[i] = thinking[i]
             \/ Append(thinking, n')[i] = n'
    BY <2>1, OneMore
  <2> QED
    BY <1>1, <2>2 DEF S
<1>7. \A i \in DOMAIN thinking' : thinking'[i] \notin ToldNumbers'
  BY <1>3, <1>4, <1>5, <1>6
<1>8. TextTypes'
  BY <1>1, <1>3, <1>6 DEF TranscriptInv, TextTypes
<1>9. /\ Around(Transcript!Master) \subseteq Around(Transcript!Master)'
      /\ \A x \in 1..n' : x \in 1..n \/ x \in Around(Transcript!Master)'
  BY <1>1, <1>3, <1>6 DEF Around
<1>10. /\ current'[Transcript!Master] = current[Transcript!Master] /\ buffer'[Transcript!Master] = buffer[Transcript!Master]
       /\ Len(current'[Transcript!Master]) <= n'
       /\ PaneRises(buffer'[Transcript!Master], current'[Transcript!Master], ToldNumbers')
       /\ step'[Transcript!Master] = "tools" => current'[Transcript!Master] = <<>>
  <2>1. /\ buffer[Transcript!Master] \in Seq(1..n) /\ current[Transcript!Master] \in Seq(1..n)
        /\ PaneRises(buffer[Transcript!Master], current[Transcript!Master], ToldNumbers)
        /\ Len(current[Transcript!Master]) <= n /\ Len(current[Transcript!Master]) \in Nat
        /\ step[Transcript!Master] = "tools" => current[Transcript!Master] = <<>>
    BY PaneIs, SpeakersAre
  <2>2. PaneRises(buffer[Transcript!Master], current[Transcript!Master], ToldNumbers')
    BY <1>3, <2>1, SameTold
  <2>3. n' \in Nat
    BY <1>3
  <2> QED
    BY <1>1, <1>3, <2>1, <2>2, <2>3
<1> QED
  BY <1>1, <1>3, <1>7, <1>8, <1>9, <1>10, SpeakersAre, KeptBySpeaker

\* A piece of text arrives.
LEMMA SaysStep == ASSUME TranscriptInv, NEW s \in Transcript!Speakers, Transcript!Says(s) PROVE TranscriptInv'
<1>1. PICK piece \in Transcript!Pieces :
        /\ Transcript!Arrives(piece)
        /\ current' = [current EXCEPT ![s] = Append(@, n')]
        /\ Transcript!Rerender(s, current'[s], kind')
  BY DEF Transcript!Says
<1>2. piece \in PieceKinds
  BY DEF PieceKinds
<1>3. /\ n \in Nat /\ n' = n + 1 /\ n' \in 0..MaxEvents /\ n' \in 1..n' /\ n <= n'
      /\ kind' \in [1..n' -> PieceKinds]
      /\ \A x \in 1..n : x \in 1..n'
      /\ \A x \in 1..n' : x \in 1..n \/ x = n'
      /\ \A x \in 1..n : x \in ToldNumbers' => x \in ToldNumbers
      /\ \A t : t \in Seq(1..n) => t \in Seq(1..n') /\ \A i \in DOMAIN t : t[i] < n'
  BY <1>1, <1>2, Arrived
<1> DEFINE S == 1..n'
           T == ToldNumbers'
           b == buffer[s]
           c == current[s]
<1>4. /\ b \in Seq(1..n) /\ c \in Seq(1..n) /\ PaneRises(b, c, ToldNumbers)
      /\ Len(c) <= n /\ Len(c) \in Nat /\ step[s] = "stream"
  BY PaneIs DEF Transcript!Says
<1>5. /\ b \in Seq(S) /\ c \in Seq(S)
      /\ (\A i \in DOMAIN b : b[i] < n') /\ (\A i \in DOMAIN c : c[i] < n')
  BY <1>3, <1>4
<1>6. PaneRises(b, c, T)
  BY <1>3, <1>4, SameTold
<1>7. /\ thinking \in Seq(1..n) /\ \A i \in DOMAIN thinking : thinking[i] \notin ToldNumbers
      /\ buffer \in [Transcript!Speakers -> Seq(1..n)] /\ current \in [Transcript!Speakers -> Seq(1..n)]
      /\ cache \in [Transcript!Speakers -> Seq(1..n)] /\ upTo \in [Transcript!Speakers -> 0..MaxEvents] /\ MaxEvents \in Nat
      /\ step \in [Transcript!Speakers -> Steps] /\ queued \in BOOLEAN /\ dropped \subseteq 1..n
  BY TranscriptBounds DEF TranscriptInv, TextTypes, Transcript!TranscriptConstants
<1>8. /\ thinking \in Seq(S) /\ \A i \in DOMAIN thinking : thinking[i] \notin T /\ thinking[i] < n'
  <2>1. thinking \in Seq(S) /\ \A i \in DOMAIN thinking : thinking[i] \in 1..n
    BY <1>3, <1>7, WiderSeq
  <2> QED
    BY <1>3, <1>7, <2>1
<1>9. current' \in [Transcript!Speakers -> Seq(S)] /\ current'[s] = Append(c, n') /\ \A r \in Transcript!Speakers \ {s} : current'[r] = current[r]
  <2>1. Append(c, n') \in Seq(S)
    BY <1>3, <1>5, OneMore
  <2> QED
    BY <1>1, <1>3, <1>7, <2>1
<1>10. Len(current'[s]) = Len(c) + 1 /\ Transcript!Range(current'[s]) = Transcript!Range(c) \cup {n'} /\ current'[s] \in Seq(S)
  <2> HIDE DEF S
  <2>1. c \in Seq(S) /\ n' \in S
    BY <1>3, <1>5 DEF S
  <2>2. /\ Len(Append(c, n')) = Len(c) + 1 /\ Transcript!Range(Append(c, n')) = Transcript!Range(c) \cup {n'}
        /\ Append(c, n') \in Seq(S)
    BY <2>1, OneMore
  <2> QED
    BY <1>9, <2>2
<1>11. Len(current'[s]) <= n' /\ Len(current'[s]) <= MaxEvents
  BY <1>3, <1>4, <1>7, <1>10
<1>12. upTo' \in [Transcript!Speakers -> 0..MaxEvents] /\ cache' \in [Transcript!Speakers -> Seq(S)]
  <2>1. cache \in [Transcript!Speakers -> Seq(S)]
    BY <1>3, <1>7
  <2> HIDE DEF S
  <2> QED
    BY <1>1, <1>7, <1>10, <1>11, <2>1, RerenderTypes
<1>13. \/ s = Transcript!Master /\ c = <<>> /\ buffer' = [buffer EXCEPT ![s] = @ \o thinking] /\ thinking' = <<>>
       \/ UNCHANGED <<buffer, thinking>>
  BY DEF Transcript!Says
<1>14. S \in SUBSET Nat /\ n' \in S /\ <<>> \in Seq(S) /\ DOMAIN <<>> = {}
  BY <1>3
<1>15. /\ buffer' \in [Transcript!Speakers -> Seq(S)] /\ PaneRises(buffer'[s], Append(c, n'), T)
       /\ \A r \in Transcript!Speakers \ {s} : buffer'[r] = buffer[r]
       /\ thinking' \in Seq(S) /\ \A i \in DOMAIN thinking' : thinking'[i] \notin T
       /\ Transcript!Range(b) \cup Transcript!Range(thinking) \subseteq Transcript!Range(buffer'[s]) \cup Transcript!Range(thinking')
  <2> HIDE DEF S, T
  <2>1. CASE UNCHANGED <<buffer, thinking>>
    <3>1. PaneRises(b, Append(c, n'), T)
      BY <1>5, <1>6, <1>14, TextRises
    <3>2. \A t : t \in Seq(1..n) => t \in Seq(S)
      BY <1>3 DEF S
    <3> QED
      BY <1>7, <1>8, <2>1, <3>1, <3>2
  <2>2. CASE buffer' = [buffer EXCEPT ![s] = @ \o thinking] /\ thinking' = <<>>
    <3> DEFINE d == b \o thinking
    <3>1. d \in Seq(S) /\ PaneRises(d, c, T) /\ Transcript!Range(d) = Transcript!Range(b) \cup Transcript!Range(thinking)
      BY <1>5, <1>6, <1>8, AsideRises, JoinedRange
    <3>2. \A i \in DOMAIN d : d[i] < n'
      <4>1. \A i \in DOMAIN d :
              \/ i \in DOMAIN b /\ d[i] = b[i]
              \/ i - Len(b) \in DOMAIN thinking /\ d[i] = thinking[i - Len(b)]
        BY <1>5, <1>8, Joined
      <4> HIDE DEF d
      <4> QED
        BY <1>5, <1>8, <4>1
    <3>3. buffer'[s] = d /\ buffer' = [buffer EXCEPT ![s] = d]
      BY <1>7, <2>2
    <3> HIDE DEF d
    <3>4. PaneRises(d, Append(c, n'), T)
      BY <1>5, <1>14, <3>1, <3>2, TextRises
    <3>5. \A t : t \in Seq(1..n) => t \in Seq(S)
      BY <1>3 DEF S
    <3>6. buffer' \in [Transcript!Speakers -> Seq(S)] /\ \A r \in Transcript!Speakers \ {s} : buffer'[r] = buffer[r]
      BY <1>7, <3>1, <3>3, <3>5
    <3> QED
      BY <1>14, <2>2, <3>1, <3>3, <3>4, <3>6
  <2> QED
    BY <1>13, <2>1, <2>2
<1>16. step' = step /\ queued' = queued /\ dropped' = dropped
  BY DEF Transcript!Says
<1>17. TextTypes'
  BY <1>3, <1>7, <1>9, <1>12, <1>15, <1>16 DEF TextTypes
<1>18. /\ Around(s) \subseteq Around(s)'
       /\ \A x \in 1..n' : x \in 1..n \/ x \in Around(s)'
  BY <1>3, <1>10, <1>15, <1>16 DEF Around
<1>19. step'[s] # "tools"
  BY <1>4, <1>16
<1>20. /\ PaneRises(buffer'[s], current'[s], ToldNumbers')
       /\ \A r \in Transcript!Speakers \ {s} : buffer'[r] = buffer[r] /\ current'[r] = current[r] /\ step'[r] = step[r]
       /\ \A i \in DOMAIN thinking' : thinking'[i] \notin ToldNumbers'
  BY <1>9, <1>15, <1>16
<1> QED
  BY <1>3, <1>11, <1>17, <1>18, <1>19, <1>20, KeptBySpeaker

\* A call arrives.
LEMMA CallsStep == ASSUME TranscriptInv, NEW s \in Transcript!Speakers, Transcript!Calls(s) PROVE TranscriptInv'
<1>1. /\ Transcript!Arrives("call") /\ Transcript!Flush(s, <<n'>>) /\ step' = [step EXCEPT ![s] = "tools"]
      /\ UNCHANGED <<queued, dropped>>
  BY DEF Transcript!Calls
<1>2. "call" \in PieceKinds
  BY DEF PieceKinds
<1>3. /\ n \in Nat /\ n' \in 0..MaxEvents /\ n' \in 1..n' /\ n <= n'
      /\ kind' \in [1..n' -> PieceKinds]
      /\ \A x \in 1..n : x \in 1..n' /\ x < n'
      /\ \A x \in 1..n' : x \in 1..n \/ x = n'
      /\ \A x \in 1..n : x \in ToldNumbers' => x \in ToldNumbers
  BY <1>1, <1>2, Arrived
<1>4. n' \in Nat
  BY <1>3
<1>5. /\ buffer' \in [Transcript!Speakers -> Seq(1..n')] /\ current' \in [Transcript!Speakers -> Seq(1..n')]
      /\ cache' \in [Transcript!Speakers -> Seq(1..n')] /\ upTo' \in [Transcript!Speakers -> 0..MaxEvents]
      /\ thinking' \in Seq(1..n') /\ \A i \in DOMAIN thinking' : thinking'[i] \notin ToldNumbers'
      /\ \A r \in Transcript!Speakers \ {s} : buffer'[r] = buffer[r] /\ current'[r] = current[r]
      /\ current'[s] = <<>> /\ PaneRises(buffer'[s], <<>>, ToldNumbers')
      /\ Transcript!Range(buffer[s]) \cup Transcript!Range(current[s]) \cup Transcript!Range(thinking) \cup Transcript!Range(<<n'>>)
           \subseteq Transcript!Range(buffer'[s]) \cup Transcript!Range(thinking')
  BY <1>1, <1>3, <1>4, Flushed
<1>6. /\ step \in [Transcript!Speakers -> Steps] /\ queued \in BOOLEAN /\ dropped \subseteq 1..n
  BY DEF TranscriptInv, TextTypes
<1>7. TextTypes'
  <2>1. step' \in [Transcript!Speakers -> Steps] /\ queued' \in BOOLEAN /\ dropped' \subseteq 1..n'
    BY <1>1, <1>3, <1>6 DEF Steps
  <2> QED
    BY <1>3, <1>5, <2>1 DEF TextTypes
<1>8. n' \in Transcript!Range(<<n'>>)
  BY DEF Transcript!Range
<1>9. /\ Around(s) \subseteq Around(s)'
      /\ \A x \in 1..n' : x \in 1..n \/ x \in Around(s)'
  BY <1>1, <1>3, <1>5, <1>8 DEF Around
<1>10. \A r \in Transcript!Speakers \ {s} : step'[r] = step[r]
  BY <1>1, <1>6
<1>11. Len(current'[s]) <= n' /\ PaneRises(buffer'[s], current'[s], ToldNumbers')
  BY <1>4, <1>5
<1> QED
  BY <1>3, <1>5, <1>7, <1>9, <1>10, <1>11, KeptBySpeaker

\* The master's turn is done.
LEMMA MasterTurnDoneStep == ASSUME TranscriptInv, Transcript!MasterTurnDone PROVE TranscriptInv'
<1> DEFINE s == Transcript!Master
<1>1. /\ Transcript!Flush(s, <<>>) /\ step' = [step EXCEPT ![s] = "idle"] /\ queued' = FALSE
      /\ UNCHANGED <<n, kind, dropped>> /\ s \in Transcript!Speakers
  BY SpeakersAre DEF Transcript!MasterTurnDone
<1>2. /\ step \in [Transcript!Speakers -> Steps] /\ dropped \subseteq 1..n /\ n \in 0..MaxEvents /\ n' = n
      /\ n' \in Nat /\ kind \in [1..n -> PieceKinds]
  BY <1>1, TranscriptBounds DEF TranscriptInv, TextTypes, Transcript!TranscriptConstants
<1>3. ToldNumbers' = ToldNumbers /\ 1..n' = 1..n
  BY <1>1 DEF ToldNumbers
<1>4. /\ buffer' \in [Transcript!Speakers -> Seq(1..n')] /\ current' \in [Transcript!Speakers -> Seq(1..n')]
      /\ cache' \in [Transcript!Speakers -> Seq(1..n')] /\ upTo' \in [Transcript!Speakers -> 0..MaxEvents]
      /\ thinking' \in Seq(1..n') /\ \A i \in DOMAIN thinking' : thinking'[i] \notin ToldNumbers'
      /\ \A r \in Transcript!Speakers \ {s} : buffer'[r] = buffer[r] /\ current'[r] = current[r]
      /\ current'[s] = <<>> /\ PaneRises(buffer'[s], <<>>, ToldNumbers')
      /\ Transcript!Range(buffer[s]) \cup Transcript!Range(current[s]) \cup Transcript!Range(thinking) \cup Transcript!Range(<<>>)
           \subseteq Transcript!Range(buffer'[s]) \cup Transcript!Range(thinking')
  <2> HIDE DEF s
  <2> QED
    BY <1>1, <1>2, <1>3, Flushed
<1> HIDE DEF s
<1>5. TextTypes'
  BY <1>1, <1>2, <1>4 DEF TextTypes, Steps
<1>6. /\ Around(s) \subseteq Around(s)'
      /\ \A x \in 1..n' : x \in 1..n \/ x \in Around(s)'
  BY <1>1, <1>3, <1>4 DEF Around
<1>7. step'[s] = "idle" /\ \A r \in Transcript!Speakers \ {s} : step'[r] = step[r]
  BY <1>1, <1>2
<1>8. Len(current'[s]) <= n' /\ PaneRises(buffer'[s], current'[s], ToldNumbers') /\ n <= n'
  BY <1>2, <1>4
<1> QED
  BY <1>1, <1>3, <1>4, <1>5, <1>6, <1>7, <1>8, KeptBySpeaker

\* A number goes to the end of a buffer: an error that is not among what was said, or a
\* result or final text with no text behind it.
LEMMA BufferGrows ==
  ASSUME TranscriptInv, NEW s \in Transcript!Speakers, NEW what \in PieceKinds, Transcript!Arrives(what), NEW t \in Steps \ {"tools"},
         step' = [step EXCEPT ![s] = t], buffer' = [buffer EXCEPT ![s] = Append(@, n')],
         \/ what \notin Transcript!Said /\ current' = current /\ dropped' = dropped
         \/ current' = [current EXCEPT ![s] = <<>>] /\ dropped' = dropped \cup Transcript!Range(current[s]),
         queued' \in BOOLEAN, UNCHANGED <<upTo, cache, thinking>>
  PROVE  TranscriptInv'
<1>1. /\ n \in Nat /\ n' \in 0..MaxEvents /\ n' \in 1..n' /\ n <= n'
      /\ kind' \in [1..n' -> PieceKinds]
      /\ \A x \in 1..n : x \in 1..n' /\ x < n'
      /\ \A x \in 1..n' : x \in 1..n \/ x = n'
      /\ \A x \in 1..n : x \in ToldNumbers' => x \in ToldNumbers
      /\ what \notin Transcript!Said => n' \notin ToldNumbers'
      /\ \A u : u \in Seq(1..n) => u \in Seq(1..n') /\ \A i \in DOMAIN u : u[i] < n'
  BY Arrived
<1> DEFINE S == 1..n'
           T == ToldNumbers'
           b == buffer[s]
           c == current[s]
           d == Append(b, n')
<1>2. /\ b \in Seq(1..n) /\ c \in Seq(1..n) /\ PaneRises(b, c, ToldNumbers)
      /\ Len(c) <= n /\ Len(c) \in Nat
  BY PaneIs
<1>3. b \in Seq(S) /\ c \in Seq(S) /\ (\A i \in DOMAIN b : b[i] < n') /\ n' \in S /\ S \in SUBSET Nat
  BY <1>1, <1>2
<1>4. PaneRises(b, c, T)
  BY <1>1, <1>2, SameTold
<1>5. /\ \A i \in DOMAIN thinking : thinking[i] \notin ToldNumbers /\ thinking[i] \in 1..n
      /\ thinking \in Seq(1..n)
      /\ buffer \in [Transcript!Speakers -> Seq(1..n)] /\ current \in [Transcript!Speakers -> Seq(1..n)]
      /\ cache \in [Transcript!Speakers -> Seq(1..n)] /\ upTo \in [Transcript!Speakers -> 0..MaxEvents]
      /\ step \in [Transcript!Speakers -> Steps] /\ dropped \subseteq 1..n
  <2>1. thinking \in Seq(1..n)
    BY DEF TranscriptInv, TextTypes
  <2>2. \A i \in DOMAIN thinking : thinking[i] \in 1..n
    BY <2>1, WiderSeq
  <2> QED
    BY <2>1, <2>2 DEF TranscriptInv, TextTypes
<1>6. \A i \in DOMAIN thinking' : thinking'[i] \notin T
  BY <1>1, <1>5
<1> HIDE DEF S, T, b, c
<1>7. d \in Seq(S) /\ Transcript!Range(d) = Transcript!Range(b) \cup {n'} /\ d = b \o <<n'>> /\ <<n'>> \in Seq(S)
  BY <1>3, OneMore
<1>8. buffer' = [buffer EXCEPT ![s] = d] /\ buffer'[s] = d /\ \A r \in Transcript!Speakers \ {s} : buffer'[r] = buffer[r]
  BY <1>5 DEF b
<1> HIDE DEF d
<1>9. PaneRises(d, current'[s], T)
  <2>1. CASE what \notin Transcript!Said /\ current' = current
    <3>1. \A i \in DOMAIN <<n'>> : <<n'>>[i] \notin T
      BY <1>1, <2>1 DEF T
    <3>2. PaneRises(b \o <<n'>>, c, T)
      BY <1>3, <1>4, <1>7, <3>1, AsideRises
    <3> QED
      BY <1>7, <2>1, <3>2 DEF c
  <2>2. CASE current' = [current EXCEPT ![s] = <<>>]
    <3>1. current'[s] = <<>>
      BY <1>5, <2>2
    <3>2. PaneRises(b, <<>>, T)
      BY <1>4, DroppedRises
    <3>3. PaneRises(Append(b, n'), <<>>, T)
      BY <1>3, <3>2, NextRises
    <3> QED
      BY <3>1, <3>3 DEF d
  <2> QED
    BY <2>1, <2>2
<1>10. /\ \A r \in Transcript!Speakers \ {s} : current'[r] = current[r]
       /\ current'[s] \in {c, <<>>} /\ Transcript!Range(c) \cup dropped \subseteq Transcript!Range(current'[s]) \cup dropped'
       /\ dropped' \subseteq 1..n /\ current' \in [Transcript!Speakers -> Seq(1..n)]
  <2>1. <<>> \in Seq(1..n)
    OBVIOUS
  <2>2. \A i \in DOMAIN c : c[i] \in 1..n
    BY <1>2, WiderSeq
  <2>3. Transcript!Range(c) \subseteq 1..n
    BY <2>2 DEF Transcript!Range
  <2> QED
    BY <1>5, <2>1, <2>3 DEF c
<1>11. Len(current'[s]) <= n'
  <2>1. Len(<<>>) = 0 /\ n' \in Nat
    BY <1>1
  <2>2. Len(c) <= n'
    BY <1>1, <1>2, <2>1
  <2> QED
    BY <1>1, <1>10, <2>1, <2>2
<1>12. step'[s] = t /\ step' \in [Transcript!Speakers -> Steps] /\ \A r \in Transcript!Speakers \ {s} : step'[r] = step[r]
  BY <1>5
<1>13. TextTypes'
  <2>1. \A u : u \in Seq(1..n) => u \in Seq(S)
    BY <1>1 DEF S
  <2>2. /\ buffer' \in [Transcript!Speakers -> Seq(S)] /\ current' \in [Transcript!Speakers -> Seq(S)]
        /\ cache' \in [Transcript!Speakers -> Seq(S)] /\ thinking' \in Seq(S)
    BY <1>5, <1>7, <1>8, <1>10, <2>1
  <2>3. dropped' \subseteq S
    BY <1>1, <1>10 DEF S
  <2> QED
    BY <1>1, <1>5, <1>12, <2>2, <2>3 DEF TextTypes, S
<1>14. /\ Around(s) \subseteq Around(s)'
       /\ \A x \in 1..n' : x \in 1..n \/ x \in Around(s)'
  BY <1>1, <1>7, <1>8, <1>10 DEF Around, b, c
<1> QED
  BY <1>1, <1>6, <1>8, <1>9, <1>10, <1>11, <1>12, <1>13, <1>14, KeptBySpeaker DEF T

\* The streamed text is dropped, and nothing arrives.
LEMMA TextDropped ==
  ASSUME TranscriptInv, NEW s \in Transcript!Speakers, NEW t \in Steps, step' = [step EXCEPT ![s] = t],
         current' = [current EXCEPT ![s] = <<>>], dropped' = dropped \cup Transcript!Range(current[s]),
         UNCHANGED <<n, kind, buffer, upTo, cache, thinking>>, queued' \in BOOLEAN
  PROVE  TranscriptInv'
<1>1. /\ current[s] \in Seq(1..n) /\ n \in Nat /\ PaneRises(buffer[s], current[s], ToldNumbers)
  BY PaneIs
<1>2. TextTypes
  BY DEF TranscriptInv
<1>3. <<>> \in Seq(1..n) /\ Len(<<>>) = 0
  OBVIOUS
<1>4. Transcript!Range(current[s]) \subseteq 1..n
  <2>1. \A i \in DOMAIN current[s] : current[s][i] \in 1..n
    BY <1>1, WiderSeq
  <2> QED
    BY <2>1 DEF Transcript!Range
<1>5. TextTypes'
  <2>1. /\ step' \in [Transcript!Speakers -> Steps] /\ current' \in [Transcript!Speakers -> Seq(1..n)]
        /\ dropped' \subseteq 1..n
    BY <1>2, <1>3, <1>4 DEF TextTypes
  <2> QED
    BY <1>2, <2>1 DEF TextTypes
<1>6. ToldNumbers' = ToldNumbers /\ n <= n' /\ 1..n' = 1..n
  BY <1>1 DEF ToldNumbers
<1>7. /\ current'[s] = <<>> /\ buffer'[s] = buffer[s]
      /\ \A r \in Transcript!Speakers \ {s} : buffer'[r] = buffer[r] /\ current'[r] = current[r] /\ step'[r] = step[r]
  BY <1>2 DEF TextTypes
<1>8. PaneRises(buffer'[s], current'[s], ToldNumbers')
  BY <1>1, <1>6, <1>7, DroppedRises
<1>9. /\ Around(s) \subseteq Around(s)'
      /\ \A x \in 1..n' : x \in 1..n \/ x \in Around(s)'
  BY <1>6, <1>7 DEF Around
<1>10. Len(current'[s]) <= n'
  BY <1>1, <1>3, <1>7
<1>11. \A i \in DOMAIN thinking' : thinking'[i] \notin ToldNumbers'
  BY <1>6 DEF TranscriptInv
<1> QED
  BY <1>5, <1>6, <1>7, <1>8, <1>9, <1>10, <1>11, KeptBySpeaker

\* No answer is there to be kept.
LEMMA EmptyText ==
  ASSUME TranscriptInv, NEW s \in Transcript!Speakers, current[s] = <<>>
  PROVE  current = [current EXCEPT ![s] = <<>>] /\ dropped = dropped \cup Transcript!Range(current[s])
<1>1. current \in [Transcript!Speakers -> Seq(1..n)]
  BY DEF TranscriptInv, TextTypes
<1>2. Transcript!Range(<<>>) = {}
  BY DEF Transcript!Range
<1> QED
  BY <1>1, <1>2

\* Every step keeps the invariant of the panes' texts.
LEMMA TranscriptStep == ASSUME TranscriptInv, [Transcript!Next]_Transcript!vars PROVE TranscriptInv'
<1>1. /\ {"idle", "stream", "between", "ended"} \subseteq Steps \ {"tools"}
      /\ {"result", "error", "final"} \subseteq PieceKinds /\ "error" \notin Transcript!Said
  BY DEF Steps, PieceKinds, Transcript!Said, Transcript!Pieces
<1>2. queued \in BOOLEAN /\ step \in [Transcript!Speakers -> Steps]
  BY DEF TranscriptInv, TextTypes
<1>3. ASSUME NEW s \in Transcript!Speakers, Transcript!TurnStart(s) PROVE TranscriptInv'
  <2>1. /\ step' = [step EXCEPT ![s] = "stream"] /\ UNCHANGED <<n, kind, buffer, current, upTo, cache, queued>>
        /\ \/ UNCHANGED <<thinking, dropped>>
           \/ thinking' = <<>> /\ dropped' = dropped \cup Transcript!Range(thinking)
    BY <1>3 DEF Transcript!TurnStart
  <2> QED
    BY <1>1, <1>2, <2>1, NothingArrives
<1>4. ASSUME NEW s \in Transcript!Speakers, Transcript!ToolDone(s) PROVE TranscriptInv'
  <2>1. /\ Transcript!Arrives("result") /\ step' = [step EXCEPT ![s] = "between"]
        /\ buffer' = [buffer EXCEPT ![s] = Append(@, n')]
        /\ UNCHANGED <<current, upTo, cache, thinking, queued, dropped>>
    BY <1>4 DEF Transcript!ToolDone
  <2>2. current[s] = <<>>
    BY <1>4, PaneIs DEF Transcript!ToolDone
  <2>3. current' = [current EXCEPT ![s] = <<>>] /\ dropped' = dropped \cup Transcript!Range(current[s])
    BY <2>1, <2>2, EmptyText
  <2> QED
    BY <1>1, <1>2, <2>1, <2>3, BufferGrows
<1>5. CASE Transcript!MasterError
  <2>1. /\ Transcript!Arrives("error") /\ step' = [step EXCEPT ![Transcript!Master] = "idle"]
        /\ buffer' = [buffer EXCEPT ![Transcript!Master] = Append(@, n')]
        /\ queued' \in BOOLEAN /\ UNCHANGED <<upTo, cache, thinking>>
        /\ \/ current' = current /\ dropped' = dropped
           \/ current' = [current EXCEPT ![Transcript!Master] = <<>>] /\ dropped' = dropped \cup Transcript!Range(current[Transcript!Master])
    BY <1>5 DEF Transcript!MasterError
  <2> QED
    BY <1>1, <2>1, SpeakersAre, BufferGrows
<1>6. CASE Transcript!MasterCancelled
  <2>1. /\ step' = [step EXCEPT ![Transcript!Master] = "idle"] /\ queued' \in BOOLEAN
        /\ UNCHANGED <<n, kind, buffer, current, upTo, cache, thinking, dropped>>
    BY <1>6 DEF Transcript!MasterCancelled
  <2> QED
    BY <1>1, <2>1, SpeakersAre, NothingArrives
<1>7. CASE Transcript!Enqueues \/ UNCHANGED Transcript!vars
  <2>1. /\ step' = [step EXCEPT ![Transcript!Master] = step[Transcript!Master]] /\ queued' \in BOOLEAN
        /\ UNCHANGED <<n, kind, buffer, current, upTo, cache, thinking, dropped>>
    BY <1>2, <1>7, SpeakersAre DEF Transcript!Enqueues, Transcript!vars
  <2>2. step[Transcript!Master] \in Steps /\ (step[Transcript!Master] = "tools" => current[Transcript!Master] = <<>>)
    BY <1>2, SpeakersAre, PaneIs
  <2> QED
    BY <2>1, <2>2, SpeakersAre, NothingArrives
<1>8. CASE Transcript!Submits
  <2>1. /\ step' = [step EXCEPT ![Transcript!Master] = step[Transcript!Master]] /\ queued' \in BOOLEAN
        /\ current' = [current EXCEPT ![Transcript!Master] = << >>]
        /\ dropped' = dropped \cup Transcript!Range(current[Transcript!Master])
        /\ UNCHANGED <<n, kind, buffer, upTo, cache, thinking>> /\ step[Transcript!Master] \in Steps
    BY <1>2, <1>8, SpeakersAre DEF Transcript!Submits
  <2> QED
    BY <2>1, SpeakersAre, TextDropped
<1>9. CASE Transcript!WorkerDone
  <2>1. /\ step' = [step EXCEPT ![Transcript!Worker] = "ended"] /\ queued' \in BOOLEAN
        /\ current' = [current EXCEPT ![Transcript!Worker] = << >>]
        /\ dropped' = dropped \cup Transcript!Range(current[Transcript!Worker])
        /\ UNCHANGED <<upTo, cache, thinking>>
        /\ \/ Transcript!Arrives("final") /\ buffer' = [buffer EXCEPT ![Transcript!Worker] = Append(@, n')]
           \/ UNCHANGED <<n, kind, buffer>>
    BY <1>2, <1>9 DEF Transcript!WorkerDone
  <2>2. CASE Transcript!Arrives("final") /\ buffer' = [buffer EXCEPT ![Transcript!Worker] = Append(@, n')]
    BY <1>1, <2>1, <2>2, SpeakersAre, BufferGrows
  <2>3. CASE UNCHANGED <<n, kind, buffer>>
    BY <1>1, <2>1, <2>3, SpeakersAre, TextDropped
  <2> QED
    BY <2>1, <2>2, <2>3
<1>10. CASE Transcript!WorkerError
  <2>1. /\ step' = [step EXCEPT ![Transcript!Worker] = "ended"] /\ queued' \in BOOLEAN /\ Transcript!Arrives("error")
        /\ buffer' = [buffer EXCEPT ![Transcript!Worker] = Append(@, n')]
        /\ UNCHANGED <<current, upTo, cache, thinking, dropped>>
    BY <1>2, <1>10 DEF Transcript!WorkerError
  <2> QED
    BY <1>1, <2>1, SpeakersAre, BufferGrows
<1> QED
  BY <1>3, <1>4, <1>5, <1>6, <1>7, <1>8, <1>9, <1>10, ReasonsStep, SaysStep, CallsStep, MasterTurnDoneStep DEF Transcript!Next

\* A pane has what was said in its order, and has all of it.
LEMMA TranscriptTold == ASSUME TranscriptInv PROVE Transcript!TypeOK /\ Transcript!SaidInOrder
<1>1. TextTypes
  BY DEF TranscriptInv
<1>2. \A t : t \in Seq(1..n) => Transcript!Range(t) \subseteq 1..n
  <2> SUFFICES ASSUME NEW t \in Seq(1..n) PROVE Transcript!Range(t) \subseteq 1..n
    OBVIOUS
  <2>1. \A i \in DOMAIN t : t[i] \in 1..n
    BY WiderSeq
  <2> QED
    BY <2>1 DEF Transcript!Range
<1>3. Transcript!TypeOK
  BY <1>1, <1>2 DEF TextTypes, Transcript!TypeOK, Steps, PieceKinds
<1>4. ASSUME NEW s \in Transcript!Speakers, NEW i \in DOMAIN (buffer[s] \o current[s]), NEW j \in DOMAIN (buffer[s] \o current[s]),
             i < j, {kind[(buffer[s] \o current[s])[i]], kind[(buffer[s] \o current[s])[j]]} \subseteq Transcript!Said
      PROVE  (buffer[s] \o current[s])[i] < (buffer[s] \o current[s])[j]
  <2> DEFINE d == buffer[s] \o current[s]
  <2>1. d \in Seq(1..n) /\ RisesIn(d, ToldNumbers)
    BY PaneIs, FlushedRises
  <2>2. i \in DOMAIN d /\ j \in DOMAIN d /\ kind[d[i]] \in Transcript!Said /\ kind[d[j]] \in Transcript!Said
    BY <1>4
  <2> HIDE DEF d
  <2>3. d[i] \in 1..n /\ d[j] \in 1..n
    BY <2>1, <2>2, WiderSeq
  <2>4. d[i] \in ToldNumbers /\ d[j] \in ToldNumbers
    BY <2>2, <2>3 DEF ToldNumbers
  <2>5. d[i] < d[j]
    BY <1>4, <2>1, <2>2, <2>4 DEF RisesIn
  <2> QED
    BY <2>5 DEF d
<1>5. 1..n = Transcript!Range(buffer[Transcript!Master]) \cup Transcript!Range(current[Transcript!Master]) \cup Transcript!Range(buffer[Transcript!Worker])
               \cup Transcript!Range(current[Transcript!Worker]) \cup Transcript!Range(thinking) \cup dropped
  <2>1. \A x \in 1..n : HeldNumber(x)
    BY DEF TranscriptInv
  <2>2. /\ Transcript!Range(buffer[Transcript!Master]) \subseteq 1..n /\ Transcript!Range(current[Transcript!Master]) \subseteq 1..n
        /\ Transcript!Range(buffer[Transcript!Worker]) \subseteq 1..n /\ Transcript!Range(current[Transcript!Worker]) \subseteq 1..n
        /\ Transcript!Range(thinking) \subseteq 1..n /\ dropped \subseteq 1..n
    BY <1>1, <1>2, SpeakersAre DEF TextTypes
  <2>3. \A s \in Transcript!Speakers : s = Transcript!Master \/ s = Transcript!Worker
    BY DEF Transcript!Speakers
  <2> QED
    BY <2>1, <2>2, <2>3 DEF HeldNumber
<1> QED
  BY <1>3, <1>4, <1>5 DEF Transcript!SaidInOrder

-----------------------------------------------------------------------------
(* Numbers. *)

\* A nonempty set of numbers has a least one.
LEMMA Least == ASSUME NEW T \in SUBSET Nat, T # {} PROVE \E x \in T : \A y \in T : x <= y
<1>1. PICK x \in T : \A y \in T : ~(<<y, x>> \in OpToRel(<, Nat))
  BY NatLessThanWellFounded, WFMin
<1>2. \A y \in T : ~(y < x)
  BY <1>1 DEF OpToRel
<1> QED
  BY <1>2

\* Numbers up to len, one after the other.
LEMMA OneByOne ==
  ASSUME NEW len \in Nat, NEW P, 0 \in P, \A k \in 1..len : k - 1 \in P => k \in P
  PROVE  \A k \in 0..len : k \in P
<1> SUFFICES ASSUME NEW j \in 0..len, j \notin P PROVE FALSE
  OBVIOUS
<1> DEFINE T == {k \in 0..len : k \notin P}
<1>1. T \in SUBSET Nat /\ j \in T
  OBVIOUS
<1>2. PICK k \in T : \A m \in T : k <= m
  BY <1>1, Least
<1>3. k \in 1..len
  BY <1>2
<1>4. k - 1 \in P
  <2>1. k - 1 \notin T
    BY <1>2, <1>3
  <2> QED
    BY <2>1, <1>3
<1> QED
  BY <1>2, <1>3, <1>4

\* A recursion over 0..len has a solution, of the type of its values.
Recursive(len, S, base, moves) ==
  \E f \in [0..len -> S] : f[0] = base /\ \A k \in 1..len : f[k] = moves[k][f[k - 1]]

LEMMA Recursion ==
  ASSUME NEW len \in Nat, NEW S, NEW base \in S, NEW moves \in [1..len -> [S -> S]]
  PROVE  Recursive(len, S, base, moves)
<1> DEFINE P == {m \in 0..len : \E f \in [0..m -> S] : f[0] = base /\ \A k \in 1..m : f[k] = moves[k][f[k - 1]]}
<1>1. 0 \in P
  <2> DEFINE g == [k \in 0..0 |-> base]
  <2>1. g \in [0..0 -> S] /\ g[0] = base
    OBVIOUS
  <2> HIDE DEF g
  <2>2. \A k \in 1..0 : g[k] = moves[k][g[k - 1]]
    OBVIOUS
  <2>3. \E f \in [0..0 -> S] : f[0] = base /\ \A k \in 1..0 : f[k] = moves[k][f[k - 1]]
    BY <2>1, <2>2
  <2> QED
    BY <2>3
<1>2. ASSUME NEW m \in 1..len, m - 1 \in P PROVE m \in P
  <2>1. PICK f \in [0..(m - 1) -> S] : f[0] = base /\ \A k \in 1..(m - 1) : f[k] = moves[k][f[k - 1]]
    BY <1>2
  <2> DEFINE g == [k \in 0..m |-> IF k = m THEN moves[m][f[m - 1]] ELSE f[k]]
  <2>2. m - 1 \in 0..(m - 1) /\ f[m - 1] \in S
    BY <2>1
  <2>3. moves[m] \in [S -> S]
    OBVIOUS
  <2>4. moves[m][f[m - 1]] \in S
    BY <2>3
  <2>5. \A k \in 0..m : k # m => k \in 0..(m - 1)
    OBVIOUS
  <2>6. g \in [0..m -> S]
    BY <2>1, <2>4, <2>5
  <2>7. g[0] = base
    BY <2>1
  <2>8. \A k \in 1..m : g[k] = moves[k][g[k - 1]]
    <3> TAKE k \in 1..m
    <3>1. CASE k = m
      <4>1. g[k] = moves[m][f[m - 1]] /\ g[k - 1] = f[m - 1]
        BY <3>1
      <4> QED
        BY <3>1, <4>1
    <3>2. CASE k # m
      <4>1. k \in 1..(m - 1)
        BY <3>2
      <4>2. g[k] = f[k] /\ g[k - 1] = f[k - 1]
        BY <3>2, <4>1
      <4> QED
        BY <2>1, <4>1, <4>2
    <3> QED
      BY <3>1, <3>2
  <2> HIDE DEF g
  <2>9. \E h \in [0..m -> S] : h[0] = base /\ \A k \in 1..m : h[k] = moves[k][h[k - 1]]
    BY <2>6, <2>7, <2>8
  <2>10. m \in 0..len
    OBVIOUS
  <2> QED
    BY ONLY <2>9, <2>10
<1>3. len \in P
  BY <1>1, <1>2, OneByOne, len \in 0..len
<1> QED
  BY <1>3 DEF Recursive

-----------------------------------------------------------------------------
(* LlamaDSL. *)

\* What the parser asks of its constants.
LEMMA LlamaBounds == LlamaDSL!LlamaDSLConstants
BY MCUiConstants

\* The bound of the input.
LEMMA LlamaNumbers == MaxInput \in Nat
BY LlamaBounds DEF LlamaDSL!LlamaDSLConstants

\* A call that was found.
ParsedCall == [name : Seq(LlamaDSL!Chars), args : Seq(LlamaDSL!Chars)]

\* The first of some positions, or 0.
LEMMA FirstOf ==
  ASSUME NEW len \in Nat, NEW I, I \subseteq 1..len
  PROVE  (IF I # {} THEN LlamaDSL!Min(I) ELSE 0) \in 0..len
<1>1. CASE I = {}
  BY <1>1
<1>2. CASE I # {}
  <2>1. I \in SUBSET Nat
    OBVIOUS
  <2>2. PICK x \in I : \A y \in I : x <= y
    BY <1>2, <2>1, Least
  <2>3. LlamaDSL!Min(I) \in I
    BY <2>2 DEF LlamaDSL!Min
  <2>4. 1..len \subseteq 0..len
    OBVIOUS
  <2>5. LlamaDSL!Min(I) \in 0..len
    BY ONLY <2>3, <2>4, I \subseteq 1..len
  <2> QED
    BY ONLY <1>2, <2>5
<1> QED
  BY <1>1, <1>2

\* Where the arguments begin.
LEMMA BraceIs ==
  ASSUME NEW s \in Seq(LlamaDSL!Chars)
  PROVE  LlamaDSL!Brace(s) \in 0..Len(s)
<1> DEFINE I == {i \in 1..Len(s) : s[i] = "{"}
<1>1. Len(s) \in Nat /\ I \subseteq 1..Len(s)
  BY LenProperties, Zenon
<1>2. LlamaDSL!Brace(s) = IF I # {} THEN LlamaDSL!Min(I) ELSE 0
  BY DEF LlamaDSL!Brace, LlamaDSL!SelectInSeq
<1> HIDE DEF I
<1>3. (IF I # {} THEN LlamaDSL!Min(I) ELSE 0) \in 0..Len(s)
  BY ONLY <1>1, FirstOf
<1> QED
  BY ONLY <1>2, <1>3

\* A sequence of two.
LEMMA TwoOf == ASSUME NEW x, NEW y PROVE Append(<<x>>, y) = <<x, y>>
<1> DEFINE S == {x, y}
           u == <<x>>
           v == <<x, y>>
           a == Append(u, y)
<1>1. u \in Seq(S) /\ Len(u) = 1 /\ u[1] = x /\ v \in Seq(S) /\ Len(v) = 2 /\ v[1] = x /\ v[2] = y
  OBVIOUS
<1> HIDE DEF u, v
<1>2. a \in Seq(S) /\ Len(a) = Len(u) + 1 /\ (\A i \in 1..Len(u) : a[i] = u[i]) /\ a[Len(u) + 1] = y
  BY <1>1, AppendProperties
<1> HIDE DEF a, S
<1>3. \A i \in 1..Len(a) : a[i] = v[i]
  <2> TAKE i \in 1..Len(a)
  <2>1. i = 1 \/ i = 2
    BY <1>1, <1>2
  <2> QED
    BY <2>1, <1>1, <1>2
<1>4. a = v
  BY <1>1, <1>2, <1>3, SeqEqual
<1> QED
  BY <1>4 DEF a, u, v

\* A call's name and arguments are parts of it.
LEMMA ToolsTyped ==
  ASSUME NEW s \in Seq(LlamaDSL!Chars)
  PROVE  LlamaDSL!Tools(s) \in Seq(ParsedCall)
<1> DEFINE b == LlamaDSL!Brace(s)
<1>1. Len(s) \in Nat /\ b \in 0..Len(s) /\ \A i \in 1..Len(s) : s[i] \in LlamaDSL!Chars
  BY BraceIs, LenProperties, ElementOfSeq
<1>2. LlamaDSL!Tools(s) = IF b = 0 THEN <<>> ELSE <<[name |-> SubSeq(s, 1, b - 1), args |-> SubSeq(s, b, Len(s))]>>
  BY DEF LlamaDSL!Tools
<1> HIDE DEF b
<1>3. CASE b = 0
  BY <1>2, <1>3, EmptySeq
<1>4. CASE b # 0
  <2>1. \A i \in 1..(b - 1) : s[i] \in LlamaDSL!Chars
    BY <1>1
  <2>2. \A i \in b..Len(s) : s[i] \in LlamaDSL!Chars
    BY <1>1, <1>4
  <2>3. SubSeq(s, 1, b - 1) \in Seq(LlamaDSL!Chars)
    BY <1>1, <2>1, SubSeqProperties
  <2>4. SubSeq(s, b, Len(s)) \in Seq(LlamaDSL!Chars)
    BY <1>1, <2>2, SubSeqProperties
  <2> DEFINE t == [name |-> SubSeq(s, 1, b - 1), args |-> SubSeq(s, b, Len(s))]
  <2>5. t \in ParsedCall
    BY <2>3, <2>4 DEF ParsedCall
  <2> HIDE DEF t
  <2>6. <<t>> \in Seq(ParsedCall)
    BY <2>5
  <2> QED
    BY <1>2, <1>4, <2>6 DEF t
<1> QED
  BY <1>3, <1>4

\* The fields of a parser.
LEMMA ParserFields ==
  ASSUME NEW p \in LlamaDSL!Parsers
  PROVE  /\ p.buffer \in Seq(LlamaDSL!Chars) /\ p.inCall \in BOOLEAN /\ p.call \in Seq(LlamaDSL!Chars)
         /\ p.text \in Seq(LlamaDSL!Chars) /\ p.tools \in Seq(ParsedCall) /\ p.read \in 0..MaxInput
BY DEF LlamaDSL!Parsers, ParsedCall

\* A parser with these fields.
ParserHas(p, b, i, s, t, ts, r) ==
  /\ p.buffer = b /\ p.inCall = i /\ p.call = s /\ p.text = t /\ p.tools = ts /\ p.read = r

\* The changes of a parser.
LEMMA PutText ==
  ASSUME NEW p \in LlamaDSL!Parsers, NEW b \in Seq(LlamaDSL!Chars), NEW t \in Seq(LlamaDSL!Chars),
         NEW e, e = [p EXCEPT !.text = t, !.buffer = b]
  PROVE  e \in LlamaDSL!Parsers /\ ParserHas(e, b, p.inCall, p.call, t, p.tools, p.read)
<1>1. e \in LlamaDSL!Parsers
  BY DEF LlamaDSL!Parsers, ParsedCall
<1>2. /\ e.buffer = b /\ e.inCall = p.inCall /\ e.call = p.call
      /\ e.text = t /\ e.tools = p.tools /\ e.read = p.read
  BY DEF LlamaDSL!Parsers, ParsedCall
<1> QED
  BY <1>1, <1>2 DEF ParserHas

\* A call ends.
LEMMA PutEnd ==
  ASSUME NEW p \in LlamaDSL!Parsers, NEW b \in Seq(LlamaDSL!Chars), NEW i \in BOOLEAN, NEW s \in Seq(LlamaDSL!Chars), NEW ts \in Seq(ParsedCall),
         NEW e, e = [p EXCEPT !.inCall = i, !.call = s, !.buffer = b, !.tools = ts]
  PROVE  e \in LlamaDSL!Parsers /\ ParserHas(e, b, i, s, p.text, ts, p.read)
<1>1. e \in LlamaDSL!Parsers
  BY DEF LlamaDSL!Parsers, ParsedCall
<1>2. /\ e.buffer = b /\ e.inCall = i /\ e.call = s
      /\ e.text = p.text /\ e.tools = ts /\ e.read = p.read
  BY DEF LlamaDSL!Parsers, ParsedCall
<1> QED
  BY <1>1, <1>2 DEF ParserHas

\* A call goes on.
LEMMA PutCall ==
  ASSUME NEW p \in LlamaDSL!Parsers, NEW s \in Seq(LlamaDSL!Chars),
         NEW e, e = [p EXCEPT !.call = s]
  PROVE  e \in LlamaDSL!Parsers /\ ParserHas(e, p.buffer, p.inCall, s, p.text, p.tools, p.read)
<1>1. e \in LlamaDSL!Parsers
  BY DEF LlamaDSL!Parsers, ParsedCall
<1>2. /\ e.buffer = p.buffer /\ e.inCall = p.inCall /\ e.call = s
      /\ e.text = p.text /\ e.tools = p.tools /\ e.read = p.read
  BY DEF LlamaDSL!Parsers, ParsedCall
<1> QED
  BY <1>1, <1>2 DEF ParserHas

\* Text waits.
LEMMA PutBuffer ==
  ASSUME NEW p \in LlamaDSL!Parsers, NEW b \in Seq(LlamaDSL!Chars),
         NEW e, e = [p EXCEPT !.buffer = b]
  PROVE  e \in LlamaDSL!Parsers /\ ParserHas(e, b, p.inCall, p.call, p.text, p.tools, p.read)
<1>1. e \in LlamaDSL!Parsers
  BY DEF LlamaDSL!Parsers, ParsedCall
<1>2. /\ e.buffer = b /\ e.inCall = p.inCall /\ e.call = p.call
      /\ e.text = p.text /\ e.tools = p.tools /\ e.read = p.read
  BY DEF LlamaDSL!Parsers, ParsedCall
<1> QED
  BY <1>1, <1>2 DEF ParserHas

\* A call begins.
LEMMA PutMarker ==
  ASSUME NEW p \in LlamaDSL!Parsers, NEW b \in Seq(LlamaDSL!Chars), NEW i \in BOOLEAN, NEW s \in Seq(LlamaDSL!Chars),
         NEW e, e = [p EXCEPT !.buffer = b, !.inCall = i, !.call = s]
  PROVE  e \in LlamaDSL!Parsers /\ ParserHas(e, b, i, s, p.text, p.tools, p.read)
<1>1. e \in LlamaDSL!Parsers
  BY DEF LlamaDSL!Parsers, ParsedCall
<1>2. /\ e.buffer = b /\ e.inCall = i /\ e.call = s
      /\ e.text = p.text /\ e.tools = p.tools /\ e.read = p.read
  BY DEF LlamaDSL!Parsers, ParsedCall
<1> QED
  BY <1>1, <1>2 DEF ParserHas

\* A character is read.
LEMMA PutRead ==
  ASSUME NEW p \in LlamaDSL!Parsers, NEW r \in 0..MaxInput,
         NEW e, e = [p EXCEPT !.read = r]
  PROVE  e \in LlamaDSL!Parsers /\ ParserHas(e, p.buffer, p.inCall, p.call, p.text, p.tools, r)
<1>1. e \in LlamaDSL!Parsers
  BY DEF LlamaDSL!Parsers, ParsedCall
<1>2. /\ e.buffer = p.buffer /\ e.inCall = p.inCall /\ e.call = p.call
      /\ e.text = p.text /\ e.tools = p.tools /\ e.read = r
  BY DEF LlamaDSL!Parsers, ParsedCall
<1> QED
  BY <1>1, <1>2 DEF ParserHas

\* What waits is shown.
LEMMA EmitIs ==
  ASSUME NEW p \in LlamaDSL!Parsers
  PROVE  /\ LlamaDSL!EmitBuffer(p) \in LlamaDSL!Parsers
         /\ ParserHas(LlamaDSL!EmitBuffer(p), <<>>, p.inCall, p.call, p.text \o p.buffer, p.tools, p.read)
<1>1. p.text \o p.buffer \in Seq(LlamaDSL!Chars) /\ <<>> \in Seq(LlamaDSL!Chars)
  BY ParserFields, ConcatProperties, EmptySeq
<1>2. LlamaDSL!EmitBuffer(p) = [p EXCEPT !.text = p.text \o p.buffer, !.buffer = <<>>]
  BY DEF LlamaDSL!EmitBuffer
<1> QED
  BY <1>1, <1>2, PutText

\* A parser that has read one character more.
LEMMA OneRead ==
  ASSUME NEW p, NEW q \in LlamaDSL!Parsers, NEW c, LlamaDSL!Char(p, c) = [q EXCEPT !.read = @ + 1], q.read < MaxInput,
         NEW b, NEW i, NEW s, NEW t, NEW ts, NEW r, ParserHas(q, b, i, s, t, ts, r)
  PROVE  LlamaDSL!Char(p, c) \in LlamaDSL!Parsers /\ ParserHas(LlamaDSL!Char(p, c), b, i, s, t, ts, r + 1)
<1> DEFINE e == LlamaDSL!Char(p, c)
<1>1. e = [q EXCEPT !.read = q.read + 1]
  OBVIOUS
<1>2. q.read + 1 \in 0..MaxInput
  BY ParserFields, LlamaNumbers
<1> HIDE DEF e
<1>3. e \in LlamaDSL!Parsers /\ ParserHas(e, q.buffer, q.inCall, q.call, q.text, q.tools, q.read + 1)
  BY <1>1, <1>2, PutRead
<1>4. ParserHas(e, b, i, s, t, ts, r + 1)
  BY <1>3 DEF ParserHas
<1> QED
  BY <1>3, <1>4 DEF e

\* A character of a call.
EndsCall(s, c) == c = "n" /\ (~LlamaDSL!Contains(s, "{") \/ LlamaDSL!IsCallComplete(s))

\* A character in a call: it ends the call or is part of it.
LEMMA InCallIs ==
  ASSUME NEW p \in LlamaDSL!Parsers, p.inCall, p.read < MaxInput, NEW c \in LlamaDSL!Chars
  PROVE  /\ LlamaDSL!Char(p, c) \in LlamaDSL!Parsers
         /\ EndsCall(p.call, c) => ParserHas(LlamaDSL!Char(p, c), <<>>, FALSE, <<>>, p.text, p.tools \o LlamaDSL!Tools(p.call), p.read + 1)
         /\ ~EndsCall(p.call, c) => ParserHas(LlamaDSL!Char(p, c), p.buffer, TRUE, Append(p.call, c), p.text, p.tools, p.read + 1)
<1> DEFINE q == LlamaDSL!CallChar(p, c)
<1>1. LlamaDSL!Char(p, c) = [q EXCEPT !.read = @ + 1]
  BY DEF LlamaDSL!Char
<1>2. CASE EndsCall(p.call, c)
  <2>1. q = [p EXCEPT !.inCall = FALSE, !.call = <<>>, !.buffer = <<>>, !.tools = p.tools \o LlamaDSL!Tools(p.call)]
    BY <1>2 DEF LlamaDSL!CallChar, EndsCall
  <2>2. p.tools \o LlamaDSL!Tools(p.call) \in Seq(ParsedCall) /\ <<>> \in Seq(LlamaDSL!Chars)
    BY ParserFields, ToolsTyped, ConcatProperties, EmptySeq
  <2> HIDE DEF q
  <2>3. q \in LlamaDSL!Parsers /\ ParserHas(q, <<>>, FALSE, <<>>, p.text, p.tools \o LlamaDSL!Tools(p.call), p.read)
    BY <2>1, <2>2, PutEnd
  <2>4. q.read < MaxInput
    BY <2>3 DEF ParserHas
  <2> QED
    BY <1>1, <1>2, <2>3, <2>4, OneRead
<1>3. CASE ~EndsCall(p.call, c)
  <2>1. q = [p EXCEPT !.call = Append(p.call, c)]
    BY <1>3 DEF LlamaDSL!CallChar, EndsCall
  <2>2. Append(p.call, c) \in Seq(LlamaDSL!Chars) /\ p.inCall = TRUE
    BY ParserFields, AppendProperties
  <2> HIDE DEF q
  <2>3. q \in LlamaDSL!Parsers /\ ParserHas(q, p.buffer, TRUE, Append(p.call, c), p.text, p.tools, p.read)
    BY <2>1, <2>2, PutCall
  <2>4. q.read < MaxInput
    BY <2>3 DEF ParserHas
  <2> QED
    BY <1>1, <1>3, <2>3, <2>4, OneRead
<1> QED
  BY <1>2, <1>3

\* What TextChar does before it looks for the marker.
HeldChar(p, c) == IF c = "@" THEN [LlamaDSL!EmitBuffer(p) EXCEPT !.buffer = <<c>>] ELSE [p EXCEPT !.buffer = Append(@, c)]

\* A character outside a call waits.
LEMMA HeldIs ==
  ASSUME NEW p \in LlamaDSL!Parsers, NEW c \in LlamaDSL!Chars
  PROVE  /\ HeldChar(p, c) \in LlamaDSL!Parsers
         /\ c = "@" => ParserHas(HeldChar(p, c), <<"@">>, p.inCall, p.call, p.text \o p.buffer, p.tools, p.read)
         /\ c # "@" => ParserHas(HeldChar(p, c), Append(p.buffer, c), p.inCall, p.call, p.text, p.tools, p.read)
<1>1. CASE c = "@"
  <2> DEFINE e == LlamaDSL!EmitBuffer(p)
             one == <<"@">>
  <2>1. e \in LlamaDSL!Parsers /\ ParserHas(e, <<>>, p.inCall, p.call, p.text \o p.buffer, p.tools, p.read)
    BY EmitIs
  <2>2. HeldChar(p, c) = [e EXCEPT !.buffer = one]
    BY <1>1 DEF HeldChar
  <2>3. one \in Seq(LlamaDSL!Chars)
    <3>1. "@" \in LlamaDSL!Chars
      BY DEF LlamaDSL!Chars
    <3> QED
      BY <3>1
  <2> HIDE DEF e, one
  <2>4. HeldChar(p, c) \in LlamaDSL!Parsers /\ ParserHas(HeldChar(p, c), one, e.inCall, e.call, e.text, e.tools, e.read)
    BY <2>1, <2>2, <2>3, PutBuffer
  <2>5. ParserHas(HeldChar(p, c), one, p.inCall, p.call, p.text \o p.buffer, p.tools, p.read)
    BY <2>1, <2>4 DEF ParserHas
  <2> QED
    BY <1>1, <2>4, <2>5 DEF one
<1>2. CASE c # "@"
  <2>1. HeldChar(p, c) = [p EXCEPT !.buffer = Append(p.buffer, c)]
    BY <1>2 DEF HeldChar
  <2>2. Append(p.buffer, c) \in Seq(LlamaDSL!Chars)
    BY ParserFields, AppendProperties
  <2>3. HeldChar(p, c) \in LlamaDSL!Parsers /\ ParserHas(HeldChar(p, c), Append(p.buffer, c), p.inCall, p.call, p.text, p.tools, p.read)
    BY <2>1, <2>2, PutBuffer
  <2> QED
    BY <1>2, <2>3
<1> QED
  BY <1>1, <1>2

\* What waits is a marker, or cannot become one, or may.
LEMMA TextCharIs ==
  ASSUME NEW p, NEW c
  PROVE  LET q == HeldChar(p, c)
         IN  LlamaDSL!TextChar(p, c) = IF q.buffer = LlamaDSL!Marker THEN [q EXCEPT !.buffer = <<>>, !.inCall = TRUE, !.call = <<>>]
                                       ELSE IF q.buffer[1] = "@" /\ ~LlamaDSL!IsPrefix(q.buffer, LlamaDSL!Marker) THEN LlamaDSL!EmitBuffer(q)
                                       ELSE q
BY DEF LlamaDSL!TextChar, HeldChar

\* A marker may begin.
LEMMA AtSign ==
  ASSUME NEW p \in LlamaDSL!Parsers, ~p.inCall, p.read < MaxInput
  PROVE  /\ LlamaDSL!Char(p, "@") \in LlamaDSL!Parsers
         /\ ParserHas(LlamaDSL!Char(p, "@"), <<"@">>, FALSE, p.call, p.text \o p.buffer, p.tools, p.read + 1)
<1> DEFINE q == HeldChar(p, "@")
<1>1. "@" \in LlamaDSL!Chars
  BY DEF LlamaDSL!Chars
<1>2. q \in LlamaDSL!Parsers /\ ParserHas(q, <<"@">>, p.inCall, p.call, p.text \o p.buffer, p.tools, p.read)
  BY <1>1, HeldIs
<1>3. p.inCall = FALSE
  BY ParserFields
<1> HIDE DEF q
<1>4. q.buffer = <<"@">> /\ q.read = p.read
  BY <1>2 DEF ParserHas
<1>5. q.buffer # LlamaDSL!Marker
  BY <1>4 DEF LlamaDSL!Marker
<1>6. LlamaDSL!IsPrefix(<<"@">>, LlamaDSL!Marker)
  BY DEF LlamaDSL!IsPrefix, LlamaDSL!Marker
<1>7. LlamaDSL!TextChar(p, "@") = q
  BY <1>4, <1>5, <1>6, TextCharIs DEF q
<1>8. LlamaDSL!Char(p, "@") = [q EXCEPT !.read = @ + 1]
  BY <1>7 DEF LlamaDSL!Char
<1> QED
  BY <1>2, <1>3, <1>4, <1>8, OneRead

\* A marker ends, or it was none.
LEMMA BehindAt ==
  ASSUME NEW p \in LlamaDSL!Parsers, ~p.inCall, p.read < MaxInput, p.buffer = <<"@">>, NEW c \in LlamaDSL!Chars, c # "@"
  PROVE  /\ LlamaDSL!Char(p, c) \in LlamaDSL!Parsers
         /\ c = "c" => ParserHas(LlamaDSL!Char(p, c), <<>>, TRUE, <<>>, p.text, p.tools, p.read + 1)
         /\ c # "c" => ParserHas(LlamaDSL!Char(p, c), <<>>, FALSE, p.call, p.text \o <<"@", c>>, p.tools, p.read + 1)
<1> DEFINE q == HeldChar(p, c)
<1>1. q \in LlamaDSL!Parsers /\ ParserHas(q, Append(p.buffer, c), p.inCall, p.call, p.text, p.tools, p.read)
  BY HeldIs
<1>2. p.inCall = FALSE
  BY ParserFields
<1> HIDE DEF q
<1>3. Append(<<"@">>, c) = <<"@", c>>
  BY TwoOf
<1>4. q.buffer = <<"@", c>> /\ q.read = p.read /\ q.inCall = FALSE /\ q.call = p.call /\ q.text = p.text
      /\ q.tools = p.tools
  BY <1>1, <1>2, <1>3 DEF ParserHas
<1>5. CASE c = "c"
  <2>1. q.buffer = LlamaDSL!Marker
    BY <1>4, <1>5 DEF LlamaDSL!Marker
  <2> DEFINE m == [q EXCEPT !.buffer = <<>>, !.inCall = TRUE, !.call = <<>>]
  <2>2. LlamaDSL!TextChar(p, c) = m
    BY <2>1, TextCharIs DEF q
  <2>4. m \in LlamaDSL!Parsers /\ ParserHas(m, <<>>, TRUE, <<>>, q.text, q.tools, q.read)
    BY <1>1, EmptySeq, PutMarker
  <2>5. ParserHas(m, <<>>, TRUE, <<>>, p.text, p.tools, p.read)
    BY <1>4, <2>4 DEF ParserHas
  <2> HIDE DEF m
  <2>6. LlamaDSL!Char(p, c) = [m EXCEPT !.read = @ + 1] /\ m.read < MaxInput
    BY <1>2, <2>2, <2>5 DEF LlamaDSL!Char, ParserHas
  <2> QED
    BY <1>5, <2>4, <2>5, <2>6, OneRead
<1>6. CASE c # "c"
  <2>1. q.buffer # LlamaDSL!Marker
    BY <1>4, <1>6 DEF LlamaDSL!Marker
  <2>2. q.buffer[1] = "@"
    BY <1>4
  <2>3. ~LlamaDSL!IsPrefix(<<"@", c>>, LlamaDSL!Marker)
    <3> SUFFICES ASSUME LlamaDSL!IsPrefix(<<"@", c>>, LlamaDSL!Marker) PROVE FALSE
      OBVIOUS
    <3> DEFINE u == <<"@", c>>
               v == <<"@", "c">>
    <3>1. u \in Seq({"@", "c", c}) /\ v \in Seq({"@", "c", c}) /\ Len(u) = 2 /\ Len(v) = 2 /\ u[2] = c /\ v[2] = "c"
      OBVIOUS
    <3>2. SubSeq(u, 1, Len(u)) = SubSeq(v, 1, Len(u))
      BY DEF LlamaDSL!IsPrefix, LlamaDSL!Marker
    <3> HIDE DEF u, v
    <3>3. u = v
      BY <3>1, <3>2, SubSeqFull
    <3> QED
      BY <3>1, <3>3, <1>6
  <2>4. LlamaDSL!TextChar(p, c) = LlamaDSL!EmitBuffer(q)
    BY <1>4, <2>1, <2>2, <2>3, TextCharIs DEF q
  <2> DEFINE m == LlamaDSL!EmitBuffer(q)
  <2>5. m \in LlamaDSL!Parsers /\ ParserHas(m, <<>>, q.inCall, q.call, q.text \o q.buffer, q.tools, q.read)
    BY <1>1, EmitIs
  <2> HIDE DEF m
  <2>6. ParserHas(m, <<>>, FALSE, p.call, p.text \o <<"@", c>>, p.tools, p.read)
    BY <1>4, <2>5
  <2>7. LlamaDSL!Char(p, c) = [m EXCEPT !.read = @ + 1] /\ m.read < MaxInput
    BY <1>2, <2>4, <2>6 DEF LlamaDSL!Char, ParserHas, m
  <2> QED
    BY <1>6, <2>5, <2>6, <2>7, OneRead
<1> QED
  BY <1>5, <1>6

\* Text that is no marker's waits for the end of its chunk.
FreeOfAt(b) == b # <<>> => b[1] # "@"

\* Text in which no marker can begin only grows.
LEMMA NoMarker ==
  ASSUME NEW p \in LlamaDSL!Parsers, ~p.inCall, p.read < MaxInput, FreeOfAt(p.buffer), NEW c \in LlamaDSL!Chars, c # "@"
  PROVE  /\ LlamaDSL!Char(p, c) \in LlamaDSL!Parsers /\ FreeOfAt(Append(p.buffer, c))
         /\ ParserHas(LlamaDSL!Char(p, c), Append(p.buffer, c), FALSE, p.call, p.text, p.tools, p.read + 1)
<1> DEFINE q == HeldChar(p, c)
<1>1. q \in LlamaDSL!Parsers /\ ParserHas(q, Append(p.buffer, c), p.inCall, p.call, p.text, p.tools, p.read)
  BY HeldIs
<1>2. p.inCall = FALSE /\ p.buffer \in Seq(LlamaDSL!Chars)
  BY ParserFields
<1> HIDE DEF q
<1> DEFINE b == Append(p.buffer, c)
<1>3. b[1] # "@" /\ b # <<>>
  <2>1. /\ Len(p.buffer) \in Nat /\ b # <<>> /\ (\A i \in 1..Len(p.buffer) : b[i] = p.buffer[i])
        /\ b[Len(p.buffer) + 1] = c /\ DOMAIN p.buffer = 1..Len(p.buffer)
    BY <1>2, AppendProperties, LenProperties
  <2> HIDE DEF b
  <2>2. CASE Len(p.buffer) = 0
    BY <2>1, <2>2
  <2>3. CASE Len(p.buffer) # 0
    <3>1. 1 \in 1..Len(p.buffer) /\ b[1] = p.buffer[1]
      BY <2>1, <2>3
    <3>2. p.buffer # <<>>
      BY <2>3, EmptySeq
    <3> QED
      BY <2>1, <3>1, <3>2 DEF FreeOfAt
  <2> QED
    BY <2>2, <2>3
<1>4. q.buffer = b /\ q.read = p.read
  BY <1>1 DEF ParserHas
<1> HIDE DEF b
<1>5. q.buffer # LlamaDSL!Marker
  BY <1>3, <1>4 DEF LlamaDSL!Marker
<1>6. LlamaDSL!TextChar(p, c) = q
  BY <1>3, <1>4, <1>5, TextCharIs DEF q
<1>7. LlamaDSL!Char(p, c) = [q EXCEPT !.read = @ + 1]
  BY <1>2, <1>6 DEF LlamaDSL!Char
<1>8. LlamaDSL!Char(p, c) \in LlamaDSL!Parsers /\ ParserHas(LlamaDSL!Char(p, c), b, FALSE, p.call, p.text, p.tools, p.read + 1)
  BY <1>1, <1>2, <1>4, <1>7, OneRead DEF b
<1> QED
  BY <1>3, <1>8 DEF FreeOfAt, b

-----------------------------------------------------------------------------
\* Two parsers of one text.
SameSoFar(p, w) ==
  /\ p.inCall = w.inCall /\ p.call = w.call /\ p.tools = w.tools /\ p.read = w.read
  /\ p.text \o p.buffer = w.text \o w.buffer
  /\ p.inCall => p.buffer = <<>> /\ w.buffer = <<>>
  /\ ~p.inCall => \/ p.buffer = <<"@">> /\ w.buffer = <<"@">>
                  \/ FreeOfAt(p.buffer) /\ FreeOfAt(w.buffer)

\* One parser has read what the other has.
LEMMA AlikeBoth == ASSUME NEW p, NEW w, SameSoFar(p, w) PROVE SameSoFar(w, p)
BY DEF SameSoFar

\* A text and no more.
LEMMA NothingMore ==
  ASSUME NEW s \in Seq(LlamaDSL!Chars)
  PROVE  s \o <<>> = s
BY ConcatEmptySeq

\* What was shown is the same when the same waits.
LEMMA SameText ==
  ASSUME NEW s \in Seq(LlamaDSL!Chars), NEW t \in Seq(LlamaDSL!Chars), NEW b \in Seq(LlamaDSL!Chars), s \o b = t \o b
  PROVE  s = t
<1>1. /\ s \o b \in Seq(LlamaDSL!Chars) /\ Len(s \o b) = Len(s) + Len(b)
      /\ \A i \in 1..(Len(s) + Len(b)) : (s \o b)[i] = IF i <= Len(s) THEN s[i] ELSE b[i - Len(s)]
  BY ConcatProperties
<1>2. /\ t \o b \in Seq(LlamaDSL!Chars) /\ Len(t \o b) = Len(t) + Len(b)
      /\ \A i \in 1..(Len(t) + Len(b)) : (t \o b)[i] = IF i <= Len(t) THEN t[i] ELSE b[i - Len(t)]
  BY ConcatProperties
<1>3. Len(s) \in Nat /\ Len(t) \in Nat /\ Len(b) \in Nat
  BY LenProperties
<1>4. Len(s) = Len(t)
  BY <1>1, <1>2, <1>3
<1>5. \A i \in 1..Len(s) : s[i] = t[i]
  <2> TAKE i \in 1..Len(s)
  <2>1. i \in 1..(Len(s) + Len(b)) /\ i <= Len(s) /\ i <= Len(t)
    BY <1>3, <1>4
  <2>2. (s \o b)[i] = s[i]
    BY <1>1, <2>1
  <2>3. (t \o b)[i] = t[i]
    BY <1>2, <1>4, <2>1
  <2> QED
    BY <2>2, <2>3
<1> QED
  BY <1>4, <1>5, SeqEqual

\* One character more waits.
LEMMA TextGrows ==
  ASSUME NEW s \in Seq(LlamaDSL!Chars), NEW b \in Seq(LlamaDSL!Chars), NEW c \in LlamaDSL!Chars
  PROVE  s \o Append(b, c) = Append(s \o b, c)
<1>1. Append(b, c) = b \o <<c>> /\ Append(s \o b, c) = (s \o b) \o <<c>>
  <2>1. s \o b \in Seq(LlamaDSL!Chars)
    BY ConcatProperties
  <2> QED
    BY <2>1, AppendIsConcat
<1>2. <<c>> \in Seq(LlamaDSL!Chars)
  OBVIOUS
<1> QED
  BY <1>1, <1>2, ConcatAssociative

\* A character read by both.
LEMMA AlikeChar ==
  ASSUME NEW p \in LlamaDSL!Parsers, NEW w \in LlamaDSL!Parsers, SameSoFar(p, w), p.read < MaxInput, NEW c \in LlamaDSL!Chars
  PROVE  LlamaDSL!Char(p, c) \in LlamaDSL!Parsers /\ LlamaDSL!Char(w, c) \in LlamaDSL!Parsers /\ SameSoFar(LlamaDSL!Char(p, c), LlamaDSL!Char(w, c))
<1> DEFINE q == LlamaDSL!Char(p, c)
           v == LlamaDSL!Char(w, c)
<1>1. /\ p.inCall = w.inCall /\ p.call = w.call /\ p.tools = w.tools /\ p.read = w.read
      /\ p.text \o p.buffer = w.text \o w.buffer /\ w.read < MaxInput
  BY DEF SameSoFar
<1>2. /\ p.buffer \in Seq(LlamaDSL!Chars) /\ p.text \in Seq(LlamaDSL!Chars) /\ w.buffer \in Seq(LlamaDSL!Chars) /\ w.text \in Seq(LlamaDSL!Chars)
      /\ p.inCall \in BOOLEAN
  BY ParserFields
<1>3. CASE p.inCall
  <2>1. p.buffer = <<>> /\ w.buffer = <<>> /\ w.inCall
    BY <1>3 DEF SameSoFar
  <2>2. p.text = w.text
    BY <1>1, <1>2, <2>1, SameText
  <2>3. CASE EndsCall(p.call, c)
    <3>1. q \in LlamaDSL!Parsers /\ ParserHas(q, <<>>, FALSE, <<>>, p.text, p.tools \o LlamaDSL!Tools(p.call), p.read + 1)
      BY <1>3, <2>3, InCallIs
    <3>2. v \in LlamaDSL!Parsers /\ ParserHas(v, <<>>, FALSE, <<>>, w.text, w.tools \o LlamaDSL!Tools(w.call), w.read + 1)
      BY <1>1, <2>1, <2>3, InCallIs
    <3> HIDE DEF q, v
    <3>3. FreeOfAt(<<>>)
      BY DEF FreeOfAt
    <3>4. SameSoFar(q, v)
      BY <1>1, <2>2, <3>1, <3>2, <3>3 DEF SameSoFar, ParserHas
    <3> QED
      BY <3>1, <3>2, <3>4 DEF q, v
  <2>4. CASE ~EndsCall(p.call, c)
    <3>1. q \in LlamaDSL!Parsers /\ ParserHas(q, p.buffer, TRUE, Append(p.call, c), p.text, p.tools, p.read + 1)
      BY <1>3, <2>4, InCallIs
    <3>2. v \in LlamaDSL!Parsers /\ ParserHas(v, w.buffer, TRUE, Append(w.call, c), w.text, w.tools, w.read + 1)
      BY <1>1, <2>1, <2>4, InCallIs
    <3> HIDE DEF q, v
    <3>3. SameSoFar(q, v)
      BY <1>1, <2>1, <2>2, <3>1, <3>2 DEF SameSoFar, ParserHas
    <3> QED
      BY <3>1, <3>2, <3>3 DEF q, v
  <2> QED
    BY <2>3, <2>4
<1>4. CASE ~p.inCall /\ c = "@"
  <2>1. q \in LlamaDSL!Parsers /\ ParserHas(q, <<"@">>, FALSE, p.call, p.text \o p.buffer, p.tools, p.read + 1)
    BY <1>4, AtSign
  <2>2. v \in LlamaDSL!Parsers /\ ParserHas(v, <<"@">>, FALSE, w.call, w.text \o w.buffer, w.tools, w.read + 1)
    BY <1>1, <1>4, AtSign
  <2> HIDE DEF q, v
  <2>3. SameSoFar(q, v)
    BY <1>1, <2>1, <2>2 DEF SameSoFar, ParserHas
  <2> QED
    BY <2>1, <2>2, <2>3 DEF q, v
<1>5. CASE ~p.inCall /\ c # "@" /\ p.buffer = <<"@">> /\ w.buffer = <<"@">>
  <2>1. p.text = w.text
    BY <1>1, <1>2, <1>5, SameText
  <2>2. CASE c = "c"
    <3>1. q \in LlamaDSL!Parsers /\ ParserHas(q, <<>>, TRUE, <<>>, p.text, p.tools, p.read + 1)
      BY <1>5, <2>2, BehindAt
    <3>2. v \in LlamaDSL!Parsers /\ ParserHas(v, <<>>, TRUE, <<>>, w.text, w.tools, w.read + 1)
      BY <1>1, <1>5, <2>2, BehindAt
    <3> HIDE DEF q, v
    <3>3. SameSoFar(q, v)
      BY <1>1, <2>1, <3>1, <3>2 DEF SameSoFar, ParserHas
    <3> QED
      BY <3>1, <3>2, <3>3 DEF q, v
  <2>3. CASE c # "c"
    <3>1. q \in LlamaDSL!Parsers /\ ParserHas(q, <<>>, FALSE, p.call, p.text \o <<"@", c>>, p.tools, p.read + 1)
      BY <1>5, <2>3, BehindAt
    <3>2. v \in LlamaDSL!Parsers /\ ParserHas(v, <<>>, FALSE, w.call, w.text \o <<"@", c>>, w.tools, w.read + 1)
      BY <1>1, <1>5, <2>3, BehindAt
    <3> HIDE DEF q, v
    <3>3. FreeOfAt(<<>>)
      BY DEF FreeOfAt
    <3>4. SameSoFar(q, v)
      BY <1>1, <2>1, <3>1, <3>2, <3>3 DEF SameSoFar, ParserHas
    <3> QED
      BY <3>1, <3>2, <3>4 DEF q, v
  <2> QED
    BY <2>2, <2>3
<1>6. CASE ~p.inCall /\ c # "@" /\ FreeOfAt(p.buffer) /\ FreeOfAt(w.buffer)
  <2>1. /\ q \in LlamaDSL!Parsers /\ FreeOfAt(Append(p.buffer, c))
        /\ ParserHas(q, Append(p.buffer, c), FALSE, p.call, p.text, p.tools, p.read + 1)
    BY <1>6, NoMarker
  <2>2. /\ v \in LlamaDSL!Parsers /\ FreeOfAt(Append(w.buffer, c))
        /\ ParserHas(v, Append(w.buffer, c), FALSE, w.call, w.text, w.tools, w.read + 1)
    BY <1>1, <1>6, NoMarker
  <2>3. p.text \o Append(p.buffer, c) = w.text \o Append(w.buffer, c)
    <3>1. p.text \o Append(p.buffer, c) = Append(p.text \o p.buffer, c)
      BY <1>2, TextGrows
    <3>2. w.text \o Append(w.buffer, c) = Append(w.text \o w.buffer, c)
      BY <1>2, TextGrows
    <3> QED
      BY <3>1, <3>2, <1>1
  <2> HIDE DEF q, v
  <2>4. SameSoFar(q, v)
    BY <1>1, <2>1, <2>2, <2>3 DEF SameSoFar, ParserHas
  <2> QED
    BY <2>1, <2>2, <2>4 DEF q, v
<1> QED
  BY <1>3, <1>4, <1>5, <1>6 DEF SameSoFar

\* A parser at the end of a chunk is like one that goes on.
LEMMA AlikeEnd ==
  ASSUME NEW p \in LlamaDSL!Parsers, NEW w \in LlamaDSL!Parsers, SameSoFar(p, w)
  PROVE  LlamaDSL!ChunkEnd(p) \in LlamaDSL!Parsers /\ SameSoFar(LlamaDSL!ChunkEnd(p), w)
<1>1. CASE p.inCall \/ LlamaDSL!IsPrefix(p.buffer, LlamaDSL!Marker)
  BY <1>1 DEF LlamaDSL!ChunkEnd
<1>2. CASE ~(p.inCall \/ LlamaDSL!IsPrefix(p.buffer, LlamaDSL!Marker))
  <2> DEFINE q == LlamaDSL!EmitBuffer(p)
  <2>1. LlamaDSL!ChunkEnd(p) = q
    BY <1>2 DEF LlamaDSL!ChunkEnd
  <2>2. q \in LlamaDSL!Parsers /\ ParserHas(q, <<>>, p.inCall, p.call, p.text \o p.buffer, p.tools, p.read)
    BY EmitIs
  <2>3. ~p.inCall /\ p.buffer # <<"@">>
    <3>1. LlamaDSL!IsPrefix(<<"@">>, LlamaDSL!Marker)
      BY DEF LlamaDSL!IsPrefix, LlamaDSL!Marker
    <3> QED
      BY <3>1, <1>2
  <2>4. FreeOfAt(<<>>) /\ FreeOfAt(w.buffer)
    BY <2>3 DEF SameSoFar, FreeOfAt
  <2>5. (p.text \o p.buffer) \o <<>> = p.text \o p.buffer
    <3>1. p.text \o p.buffer \in Seq(LlamaDSL!Chars)
      BY ParserFields, ConcatProperties
    <3> QED
      BY <3>1, NothingMore
  <2> HIDE DEF q
  <2>6. SameSoFar(q, w)
    BY <2>2, <2>3, <2>4, <2>5 DEF SameSoFar, ParserHas
  <2> QED
    BY <2>1, <2>2, <2>6
<1> QED
  BY <1>1, <1>2

\* At the end nothing waits.
LEMMA FlushedIs ==
  ASSUME NEW p \in LlamaDSL!Parsers
  PROVE  /\ LlamaDSL!Flushed(p) \in LlamaDSL!Parsers
         /\ p.inCall => ParserHas(LlamaDSL!Flushed(p), <<>>, FALSE, <<>>, p.text, p.tools \o LlamaDSL!Tools(p.call), p.read)
         /\ ~p.inCall => ParserHas(LlamaDSL!Flushed(p), <<>>, FALSE, p.call, p.text \o p.buffer, p.tools, p.read)
<1> DEFINE q == LlamaDSL!Flushed(p)
<1>1. p.inCall \in BOOLEAN
  BY ParserFields
<1>2. CASE p.inCall
  <2>1. q = [p EXCEPT !.inCall = FALSE, !.call = <<>>, !.buffer = <<>>, !.tools = p.tools \o LlamaDSL!Tools(p.call)]
    BY <1>2 DEF LlamaDSL!Flushed
  <2>2. p.tools \o LlamaDSL!Tools(p.call) \in Seq(ParsedCall) /\ <<>> \in Seq(LlamaDSL!Chars)
    BY ParserFields, ToolsTyped, ConcatProperties, EmptySeq
  <2> HIDE DEF q
  <2>3. q \in LlamaDSL!Parsers /\ ParserHas(q, <<>>, FALSE, <<>>, p.text, p.tools \o LlamaDSL!Tools(p.call), p.read)
    BY <2>1, <2>2, PutEnd
  <2> QED
    BY <1>2, <2>3 DEF q
<1>3. CASE ~p.inCall
  <2>1. q = LlamaDSL!EmitBuffer(p) /\ p.inCall = FALSE
    BY <1>1, <1>3 DEF LlamaDSL!Flushed
  <2>2. q \in LlamaDSL!Parsers /\ ParserHas(q, <<>>, p.inCall, p.call, p.text \o p.buffer, p.tools, p.read)
    BY <2>1, EmitIs
  <2> QED
    BY <1>3, <2>1, <2>2
<1> QED
  BY <1>2, <1>3

\* A parser is its fields.
LEMMA SameParser ==
  ASSUME NEW p \in LlamaDSL!Parsers, NEW w \in LlamaDSL!Parsers,
         NEW b, NEW i, NEW s, NEW t, NEW ts, NEW r, ParserHas(p, b, i, s, t, ts, r), ParserHas(w, b, i, s, t, ts, r)
  PROVE  p = w
<1>1. p = [buffer |-> p.buffer, inCall |-> p.inCall, call |-> p.call, text |-> p.text,
           tools |-> p.tools, read |-> p.read]
  BY DEF LlamaDSL!Parsers
<1>2. w = [buffer |-> w.buffer, inCall |-> w.inCall, call |-> w.call, text |-> w.text,
           tools |-> w.tools, read |-> w.read]
  BY DEF LlamaDSL!Parsers
<1>3. /\ p.buffer = w.buffer /\ p.inCall = w.inCall /\ p.call = w.call
      /\ p.text = w.text /\ p.tools = w.tools /\ p.read = w.read
  BY DEF ParserHas
<1> QED
  BY ONLY <1>1, <1>2, <1>3

\* At the end of the stream both show and run the same.
LEMMA AlikeFlush ==
  ASSUME NEW p \in LlamaDSL!Parsers, NEW w \in LlamaDSL!Parsers, SameSoFar(p, w)
  PROVE  LlamaDSL!Flushed(p) = LlamaDSL!Flushed(w)
<1>1. /\ p.inCall = w.inCall /\ p.call = w.call /\ p.tools = w.tools /\ p.read = w.read
      /\ p.text \o p.buffer = w.text \o w.buffer
  BY DEF SameSoFar
<1>2. LlamaDSL!Flushed(p) \in LlamaDSL!Parsers /\ LlamaDSL!Flushed(w) \in LlamaDSL!Parsers
  BY FlushedIs
<1>3. CASE p.inCall
  <2>1. p.buffer = <<>> /\ w.buffer = <<>>
    BY <1>3 DEF SameSoFar
  <2>2. p.text = w.text
    <3>1. p.text \in Seq(LlamaDSL!Chars) /\ w.text \in Seq(LlamaDSL!Chars) /\ p.buffer \in Seq(LlamaDSL!Chars)
      BY ParserFields
    <3> QED
      BY <1>1, <2>1, <3>1, SameText
  <2>3. ParserHas(LlamaDSL!Flushed(p), <<>>, FALSE, <<>>, p.text, p.tools \o LlamaDSL!Tools(p.call), p.read)
    BY <1>3, FlushedIs
  <2>4. ParserHas(LlamaDSL!Flushed(w), <<>>, FALSE, <<>>, p.text, p.tools \o LlamaDSL!Tools(p.call), p.read)
    <3>1. ParserHas(LlamaDSL!Flushed(w), <<>>, FALSE, <<>>, w.text, w.tools \o LlamaDSL!Tools(w.call), w.read)
      BY <1>1, <1>3, FlushedIs
    <3> QED
      BY <3>1, <1>1, <2>2
  <2> QED
    BY <1>2, <2>3, <2>4, SameParser
<1>4. CASE ~p.inCall
  <2>1. ParserHas(LlamaDSL!Flushed(p), <<>>, FALSE, p.call, p.text \o p.buffer, p.tools, p.read)
    BY <1>4, FlushedIs
  <2>2. ParserHas(LlamaDSL!Flushed(w), <<>>, FALSE, p.call, p.text \o p.buffer, p.tools, p.read)
    <3>1. ParserHas(LlamaDSL!Flushed(w), <<>>, FALSE, w.call, w.text \o w.buffer, w.tools, w.read)
      BY <1>1, <1>4, FlushedIs
    <3> QED
      BY <3>1, <1>1
  <2> QED
    BY <1>2, <2>1, <2>2, SameParser
<1> QED
  BY <1>3, <1>4

-----------------------------------------------------------------------------
\* While the stream goes on the two parsers have read the same; at its end they are equal.
LlamaInv == LlamaDSL!TypeOK /\ (~llamaEnded => SameSoFar(parser, llamaWhole)) /\ LlamaDSL!CutsDoNotMatter

\* Both parsers begin empty.
LEMMA LlamaInit ==
  ASSUME LlamaDSL!Init
  PROVE  LlamaInv
<1>1. parser = LlamaDSL!Empty /\ llamaWhole = LlamaDSL!Empty /\ llamaEnded = FALSE
  BY DEF LlamaDSL!Init
<1>2. LlamaDSL!Empty \in LlamaDSL!Parsers
  BY LlamaNumbers, EmptySeq DEF LlamaDSL!Empty, LlamaDSL!Parsers
<1>3. SameSoFar(LlamaDSL!Empty, LlamaDSL!Empty)
  BY DEF SameSoFar, LlamaDSL!Empty, FreeOfAt
<1> QED
  BY <1>1, <1>2, <1>3 DEF LlamaInv, LlamaDSL!TypeOK, LlamaDSL!CutsDoNotMatter

\* A character, the end of a chunk and the end of the stream keep the invariant.
LEMMA LlamaStep ==
  ASSUME LlamaInv, [LlamaDSL!Next]_LlamaDSL!vars
  PROVE  LlamaInv'
<1>1. parser \in LlamaDSL!Parsers /\ llamaWhole \in LlamaDSL!Parsers /\ llamaEnded \in BOOLEAN
  BY DEF LlamaInv, LlamaDSL!TypeOK
<1>2. CASE UNCHANGED LlamaDSL!vars
  BY <1>2 DEF LlamaDSL!vars, LlamaInv, LlamaDSL!TypeOK, LlamaDSL!CutsDoNotMatter
<1>3. CASE LlamaDSL!Feed
  <2>1. ~llamaEnded /\ parser.read < MaxInput /\ llamaEnded' = llamaEnded /\ SameSoFar(parser, llamaWhole)
    BY <1>3 DEF LlamaDSL!Feed, LlamaInv
  <2>2. PICK c \in LlamaDSL!Chars : parser' \in {LlamaDSL!Char(parser, c), LlamaDSL!ChunkEnd(LlamaDSL!Char(parser, c))} /\ llamaWhole' = LlamaDSL!Char(llamaWhole, c)
    BY <1>3 DEF LlamaDSL!Feed
  <2>3. LlamaDSL!Char(parser, c) \in LlamaDSL!Parsers /\ LlamaDSL!Char(llamaWhole, c) \in LlamaDSL!Parsers /\ SameSoFar(LlamaDSL!Char(parser, c), LlamaDSL!Char(llamaWhole, c))
    BY <1>1, <2>1, AlikeChar
  <2>4. LlamaDSL!ChunkEnd(LlamaDSL!Char(parser, c)) \in LlamaDSL!Parsers /\ SameSoFar(LlamaDSL!ChunkEnd(LlamaDSL!Char(parser, c)), LlamaDSL!Char(llamaWhole, c))
    BY <2>3, AlikeEnd
  <2>5. parser' \in LlamaDSL!Parsers /\ llamaWhole' \in LlamaDSL!Parsers /\ SameSoFar(parser', llamaWhole')
    BY <2>2, <2>3, <2>4
  <2> QED
    BY <1>1, <2>1, <2>5 DEF LlamaInv, LlamaDSL!TypeOK, LlamaDSL!CutsDoNotMatter
<1>4. CASE LlamaDSL!Flush
  <2>1. ~llamaEnded /\ llamaEnded' = TRUE /\ parser' = LlamaDSL!Flushed(parser) /\ llamaWhole' = LlamaDSL!Flushed(LlamaDSL!ChunkEnd(llamaWhole)) /\ SameSoFar(parser, llamaWhole)
    BY <1>4 DEF LlamaDSL!Flush, LlamaInv
  <2>2. LlamaDSL!ChunkEnd(llamaWhole) \in LlamaDSL!Parsers /\ SameSoFar(LlamaDSL!ChunkEnd(llamaWhole), parser)
    BY <1>1, <2>1, AlikeBoth, AlikeEnd
  <2>3. parser' = llamaWhole'
    BY <1>1, <2>1, <2>2, AlikeBoth, AlikeFlush
  <2>4. parser' \in LlamaDSL!Parsers
    BY <1>1, <2>1, FlushedIs
  <2> QED
    BY <2>1, <2>3, <2>4 DEF LlamaInv, LlamaDSL!TypeOK, LlamaDSL!CutsDoNotMatter
<1> QED
  BY <1>2, <1>3, <1>4 DEF LlamaDSL!Next

\* What the invariant says of cuts.
LEMMA LlamaTold == ASSUME LlamaInv PROVE LlamaDSL!TypeOK /\ LlamaDSL!CutsDoNotMatter
BY DEF LlamaInv

-----------------------------------------------------------------------------
(* ThinkStripper. *)

\* The characters of an answer, and one that is in no tag.
Letters == ThinkStripper!Chars \cup {"x"}
\* Where a reading may stand.
Spots == [in : BOOLEAN, skip : 0..2, out : Seq(Letters)]
\* The second character of a tag.
SecondOf(i) == IF i THEN "/" ELSE "t"

\* A tag of three characters spot position k.
TagAt(t, k, i) == k + 2 <= Len(t) /\ t[k] = "<" /\ t[k + 1] = SecondOf(i) /\ t[k + 2] = ">"

\* The characters of a tag.
LEMMA TagIs ==
  ASSUME NEW i \in BOOLEAN
  PROVE  /\ ThinkStripper!Tag(i) \in Seq(Letters) /\ Len(ThinkStripper!Tag(i)) = 3
         /\ ThinkStripper!Tag(i)[1] = "<" /\ ThinkStripper!Tag(i)[2] = SecondOf(i) /\ ThinkStripper!Tag(i)[3] = ">" /\ SecondOf(i) # "<"
<1> DEFINE u == <<"<", SecondOf(i), ">">>
<1>1. "<" \in Letters /\ SecondOf(i) \in Letters /\ ">" \in Letters /\ SecondOf(i) # "<"
  BY DEF SecondOf, Letters, ThinkStripper!Chars
<1>2. ThinkStripper!Tag(i) = u
  BY DEF ThinkStripper!Tag, ThinkStripper!Open, ThinkStripper!Close, SecondOf
<1>3. u \in Seq(Letters) /\ Len(u) = 3 /\ u[1] = "<" /\ u[2] = SecondOf(i) /\ u[3] = ">"
  BY <1>1
<1> QED
  BY <1>1, <1>2, <1>3

\* The end of a text behind position k.
LEMMA TailIs ==
  ASSUME NEW S, NEW t \in Seq(S), NEW k \in Nat, k >= 1, k <= Len(t) + 1
  PROVE  /\ SubSeq(t, k, Len(t)) \in Seq(S) /\ Len(SubSeq(t, k, Len(t))) = Len(t) - k + 1
         /\ \A j \in 1..(Len(t) - k + 1) : SubSeq(t, k, Len(t))[j] = t[k + j - 1]
<1> DEFINE len == Len(t)
           g == SubSeq(t, k, len)
<1>1. len \in Nat /\ \A j \in 1..len : t[j] \in S
  BY LenProperties, ElementOfSeq
<1>2. \A j \in k..len : t[j] \in S
  BY <1>1
<1>3. /\ g \in Seq(S) /\ Len(g) = (IF k <= len THEN len - k + 1 ELSE 0)
      /\ \A j \in 1..(len - k + 1) : g[j] = t[k + j - 1]
  BY <1>1, <1>2, SubSeqProperties
<1> HIDE DEF g, len
<1>4. (IF k <= len THEN len - k + 1 ELSE 0) = len - k + 1
  BY <1>1 DEF len
<1> QED
  BY <1>3, <1>4 DEF g, len

\* The beginning of a text.
LEMMA HeadIs ==
  ASSUME NEW S, NEW t \in Seq(S), NEW k \in Nat, k <= Len(t)
  PROVE  /\ SubSeq(t, 1, k) \in Seq(S) /\ Len(SubSeq(t, 1, k)) = k
         /\ \A j \in 1..k : SubSeq(t, 1, k)[j] = t[j]
<1> DEFINE g == SubSeq(t, 1, k)
<1>1. Len(t) \in Nat /\ \A j \in 1..Len(t) : t[j] \in S
  BY LenProperties, ElementOfSeq
<1>2. \A j \in 1..k : t[j] \in S
  BY <1>1
<1>3. /\ g \in Seq(S) /\ Len(g) = (IF 1 <= k THEN k - 1 + 1 ELSE 0)
      /\ \A j \in 1..(k - 1 + 1) : g[j] = t[1 + j - 1]
  BY <1>1, <1>2, SubSeqProperties
<1> HIDE DEF g
<1>4. (IF 1 <= k THEN k - 1 + 1 ELSE 0) = k /\ k - 1 + 1 = k /\ \A j \in 1..k : 1 + j - 1 = j
  OBVIOUS
<1> QED
  BY <1>3, <1>4 DEF g

\* A text at the beginning of a text.
LEMMA PrefixIs ==
  ASSUME NEW S, NEW s \in Seq(S), NEW t \in Seq(S)
  PROVE  ThinkStripper!IsPrefix(s, t) <=> Len(s) <= Len(t) /\ \A j \in 1..Len(s) : s[j] = t[j]
<1>1. Len(s) \in Nat /\ Len(t) \in Nat
  BY LenProperties
<1>2. CASE Len(s) <= Len(t)
  <2>1. SubSeq(s, 1, Len(s)) = s
    BY SubSeqFull
  <2>2. /\ SubSeq(t, 1, Len(s)) \in Seq(S) /\ Len(SubSeq(t, 1, Len(s))) = Len(s)
        /\ \A j \in 1..Len(s) : SubSeq(t, 1, Len(s))[j] = t[j]
    BY <1>1, <1>2, HeadIs
  <2> DEFINE g == SubSeq(t, 1, Len(s))
  <2> HIDE DEF g
  <2>3. ASSUME \A j \in 1..Len(s) : s[j] = t[j] PROVE s = g
    BY <2>2, <2>3, SeqEqual DEF g
  <2>4. ASSUME s = g PROVE \A j \in 1..Len(s) : s[j] = t[j]
    BY <2>2, <2>4 DEF g
  <2>5. ThinkStripper!IsPrefix(s, t) <=> s = g
    BY <1>2, <2>1 DEF ThinkStripper!IsPrefix, g
  <2> QED
    BY <1>2, <2>3, <2>4, <2>5
<1>3. CASE ~(Len(s) <= Len(t))
  BY <1>3 DEF ThinkStripper!IsPrefix
<1> QED
  BY <1>2, <1>3

\* Where a tag starts.
LEMMA StartsIs ==
  ASSUME NEW t \in Seq(Letters), NEW i \in BOOLEAN, NEW k \in 1..Len(t)
  PROVE  k \in ThinkStripper!Starts(t, ThinkStripper!Tag(i)) <=> TagAt(t, k, i)
<1> DEFINE g == SubSeq(t, k, Len(t))
<1>1. Len(t) \in Nat
  BY LenProperties
<1>2. /\ g \in Seq(Letters) /\ Len(g) = Len(t) - k + 1
      /\ \A j \in 1..(Len(t) - k + 1) : g[j] = t[k + j - 1]
  BY <1>1, TailIs
<1>3. k \in ThinkStripper!Starts(t, ThinkStripper!Tag(i)) <=> ThinkStripper!IsPrefix(ThinkStripper!Tag(i), g)
  BY DEF ThinkStripper!Starts
<1> HIDE DEF g
<1>4. ThinkStripper!IsPrefix(ThinkStripper!Tag(i), g) <=> 3 <= Len(g) /\ \A j \in 1..3 : ThinkStripper!Tag(i)[j] = g[j]
  <2> DEFINE u == ThinkStripper!Tag(i)
  <2>1. u \in Seq(Letters) /\ Len(u) = 3
    BY TagIs
  <2> HIDE DEF u
  <2>2. ThinkStripper!IsPrefix(u, g) <=> Len(u) <= Len(g) /\ \A j \in 1..Len(u) : u[j] = g[j]
    <3>1. g \in Seq(Letters)
      BY <1>2
    <3> QED
      BY ONLY <2>1, <3>1, PrefixIs
  <2> QED
    BY <2>1, <2>2 DEF u
<1>5. (\A j \in 1..3 : ThinkStripper!Tag(i)[j] = g[j]) <=> "<" = g[1] /\ SecondOf(i) = g[2] /\ ">" = g[3]
  <2>1. \A j \in 1..3 : j = 1 \/ j = 2 \/ j = 3
    OBVIOUS
  <2> QED
    BY <2>1, TagIs
<1>6. 3 <= Len(g) <=> k + 2 <= Len(t)
  BY <1>1, <1>2
<1>7. ASSUME k + 2 <= Len(t) PROVE g[1] = t[k] /\ g[2] = t[k + 1] /\ g[3] = t[k + 2]
  <2>1. 1 \in 1..(Len(t) - k + 1) /\ 2 \in 1..(Len(t) - k + 1) /\ 3 \in 1..(Len(t) - k + 1)
    BY <1>1, <1>7
  <2>2. k + 1 - 1 = k /\ k + 2 - 1 = k + 1 /\ k + 3 - 1 = k + 2
    OBVIOUS
  <2> QED
    BY <1>2, <2>1, <2>2
<1> QED
  BY <1>3, <1>4, <1>5, <1>6, <1>7 DEF TagAt

\* The reading of a text: where it stands after k characters.
Moved(t, k, s) ==
  IF s.skip > 0 THEN [s EXCEPT !.skip = @ - 1]
  ELSE IF k \in ThinkStripper!Starts(t, ThinkStripper!Tag(s.in)) THEN [s EXCEPT !.in = ~@, !.skip = Len(ThinkStripper!Tag(s.in)) - 1]
  ELSE IF s.in THEN s ELSE [s EXCEPT !.out = Append(@, t[k])]

\* Before the first character.
Begin == [in |-> FALSE, skip |-> 0, out |-> <<>>]
\* f is the reading of t.
Reads(t, f) ==
  /\ f \in [0..Len(t) -> Spots] /\ f[0] = Begin
  /\ \A k \in 1..Len(t) : f[k] = Moved(t, k, f[k - 1])

\* A spot with these parts.
SpotIs(s, i, len, o) == s.in = i /\ s.skip = len /\ s.out = o

\* Outside is not inside.
LEMMA NotIs == \A b \in BOOLEAN : (~b) \in BOOLEAN
OBVIOUS

\* A tag begins or ends.
LEMMA PutSpot ==
  ASSUME NEW s \in Spots, NEW i \in BOOLEAN, NEW len \in 0..2, NEW e, e = [s EXCEPT !.in = i, !.skip = len]
  PROVE  e \in Spots /\ SpotIs(e, i, len, s.out)
<1>1. e \in Spots
  BY DEF Spots
<1>2. e.in = i /\ e.skip = len /\ e.out = s.out
  BY DEF Spots
<1> QED
  BY <1>1, <1>2 DEF SpotIs

\* One character is read.
LEMMA MovedIs ==
  ASSUME NEW t \in Seq(Letters), NEW k \in 1..Len(t), NEW s \in Spots
  PROVE  /\ Moved(t, k, s) \in Spots
         /\ s.skip > 0 => SpotIs(Moved(t, k, s), s.in, s.skip - 1, s.out)
         /\ s.skip = 0 /\ TagAt(t, k, s.in) => SpotIs(Moved(t, k, s), ~s.in, 2, s.out)
         /\ s.skip = 0 /\ ~TagAt(t, k, s.in) =>
              SpotIs(Moved(t, k, s), s.in, 0, IF s.in THEN s.out ELSE Append(s.out, t[k]))
<1>1. s.in \in BOOLEAN /\ s.skip \in 0..2 /\ s.out \in Seq(Letters) /\ t[k] \in Letters
  BY ElementOfSeq DEF Spots
<1>2. CASE s.skip > 0
  <2>1. Moved(t, k, s) = [s EXCEPT !.skip = @ - 1]
    BY <1>2 DEF Moved
  <2>2. s.skip - 1 \in 0..2
    BY <1>1, <1>2
  <2>3. Moved(t, k, s) \in Spots
    BY <2>1, <2>2 DEF Spots
  <2>4. SpotIs(Moved(t, k, s), s.in, s.skip - 1, s.out)
    BY <2>1 DEF SpotIs, Spots
  <2> QED
    BY <1>2, <2>3, <2>4
<1>3. CASE s.skip = 0 /\ TagAt(t, k, s.in)
  <2>1. k \in ThinkStripper!Starts(t, ThinkStripper!Tag(s.in)) /\ Len(ThinkStripper!Tag(s.in)) - 1 = 2 /\ ~(s.skip > 0)
    BY <1>1, <1>3, StartsIs, TagIs
  <2>2. Moved(t, k, s) = [s EXCEPT !.in = ~s.in, !.skip = Len(ThinkStripper!Tag(s.in)) - 1]
    BY <2>1, Zenon DEF Moved
  <2>3. Moved(t, k, s) = [s EXCEPT !.in = ~s.in, !.skip = 2]
    BY <2>1, <2>2, Zenon
  <2>4. (~s.in) \in BOOLEAN
    BY <1>1, NotIs
  <2>5. 2 \in 0..2
    OBVIOUS
  <2>6. Moved(t, k, s) \in Spots /\ SpotIs(Moved(t, k, s), ~s.in, 2, s.out)
    BY ONLY <2>3, <2>4, <2>5, s \in Spots, PutSpot
  <2> QED
    BY <1>3, <2>6
<1>4. CASE s.skip = 0 /\ ~TagAt(t, k, s.in)
  <2>1. k \notin ThinkStripper!Starts(t, ThinkStripper!Tag(s.in))
    BY <1>1, <1>4, StartsIs
  <2>2. CASE s.in
    <3>1. Moved(t, k, s) = s
      BY <1>4, <2>1, <2>2 DEF Moved
    <3> QED
      <4>1. (IF s.in THEN s.out ELSE Append(s.out, t[k])) = s.out
        BY <2>2
      <4>2. SpotIs(s, s.in, 0, s.out)
        BY <1>4 DEF SpotIs
      <4> QED
        BY <1>4, <3>1, <4>1, <4>2
  <2>3. CASE ~s.in
    <3>1. Moved(t, k, s) = [s EXCEPT !.out = Append(s.out, t[k])]
      BY <1>4, <2>1, <2>3 DEF Moved
    <3>2. Append(s.out, t[k]) \in Seq(Letters)
      BY <1>1, AppendProperties
    <3>3. Moved(t, k, s) \in Spots
      BY <3>1, <3>2 DEF Spots
    <3>4. SpotIs(Moved(t, k, s), s.in, 0, Append(s.out, t[k]))
      BY <1>4, <3>1 DEF SpotIs, Spots
    <3> QED
      BY <1>4, <2>3, <3>3, <3>4
  <2> QED
    BY <2>2, <2>3
<1> QED
  BY <1>1, <1>2, <1>3, <1>4

\* Every text has a reading, and Text is what it shows.
LEMMA TextIs ==
  ASSUME NEW t \in Seq(Letters)
  PROVE  \E f : Reads(t, f) /\ ThinkStripper!Text(t) = f[Len(t)].out
<1> DEFINE len == Len(t)
           moves == [k \in 1..len |-> [s \in Spots |-> Moved(t, k, s)]]
           Solves(g) == g = [k \in 0..len |-> IF k = 0 THEN [in |-> FALSE, skip |-> 0, out |-> <<>>]
                             ELSE LET s == g[k - 1] IN
                                  IF s.skip > 0 THEN [s EXCEPT !.skip = @ - 1]
                                  ELSE IF k \in ThinkStripper!Starts(t, ThinkStripper!Tag(s.in))
                                       THEN [s EXCEPT !.in = ~@, !.skip = Len(ThinkStripper!Tag(s.in)) - 1]
                                       ELSE IF s.in THEN s ELSE [s EXCEPT !.out = Append(@, t[k])]]
<1>1. len \in Nat
  BY LenProperties
<1>2. moves \in [1..len -> [Spots -> Spots]]
  <2>1. \A k \in 1..len : \A s \in Spots : Moved(t, k, s) \in Spots
    BY MovedIs
  <2> QED
    BY <2>1
<1>3. \A k \in 1..len : \A s \in Spots : moves[k][s] = Moved(t, k, s)
  OBVIOUS
<1> HIDE DEF moves
<1>4. Begin \in Spots
  BY EmptySeq DEF Begin, Spots
<1>5. PICK f \in [0..len -> Spots] : f[0] = Begin /\ \A k \in 1..len : f[k] = moves[k][f[k - 1]]
  <2>1. Recursive(len, Spots, Begin, moves)
    BY <1>1, <1>2, <1>4, Recursion
  <2> QED
    BY <2>1 DEF Recursive
<1>6. \A k \in 1..len : f[k] = Moved(t, k, f[k - 1])
  <2> TAKE k \in 1..len
  <2>1. k - 1 \in 0..len
    BY <1>1
  <2>2. f[k - 1] \in Spots
    BY <1>5, <2>1
  <2> QED
    BY <1>3, <1>5, <2>2
<1>7. Reads(t, f)
  BY <1>5, <1>6 DEF Reads, len
<1>8. Solves(f)
  <2> DEFINE e == [k \in 0..len |-> IF k = 0 THEN Begin ELSE Moved(t, k, f[k - 1])]
  <2>1. ASSUME NEW k \in 0..len PROVE f[k] = e[k]
    <3>1. k = 0 \/ k \in 1..len
      BY <1>1
    <3> QED
      BY <3>1, <1>5, <1>6
  <2>2. f = e
    BY <1>5, <2>1
  <2> QED
    BY <2>2 DEF Moved, Begin
<1> DEFINE g == CHOOSE h : Solves(h)
<1>9. Solves(g)
  BY <1>8
<1>10. ThinkStripper!Text(t) = g[len].out
  BY DEF ThinkStripper!Text, len
<1>11. \A k \in 0..len : g[k] = IF k = 0 THEN Begin ELSE Moved(t, k, g[k - 1])
  <2> HIDE DEF g
  <2> QED
    BY <1>9 DEF Begin, Moved
<1> HIDE DEF g, Solves
<1>12. g[len] = f[len]
  <2> DEFINE Q == {k \in 0..len : g[k] = f[k]}
  <2>1. 0 \in Q
    BY <1>1, <1>5, <1>11
  <2>2. \A k \in 1..len : k - 1 \in Q => k \in Q
    <3> SUFFICES ASSUME NEW k \in 1..len, k - 1 \in Q PROVE k \in Q
      OBVIOUS
    <3>1. k \in 0..len /\ k # 0 /\ g[k - 1] = f[k - 1]
      BY <1>1
    <3>2. g[k] = f[k]
      BY <3>1, <1>6, <1>11
    <3> QED
      BY <3>1, <3>2
  <2> HIDE DEF Q
  <2>3. \A k \in 0..len : k \in Q
    BY <1>1, <2>1, <2>2, OneByOne
  <2>4. len \in Q
    BY <2>3, <1>1
  <2> QED
    BY <2>4 DEF Q
<1> QED
  BY <1>7, <1>10, <1>12 DEF len

\* The text s lies in t behind position q.
Lies(t, q, s) == q + Len(s) <= Len(t) /\ \A j \in 1..Len(s) : t[q + j] = s[j]

\* Texts put together.
LEMMA JoinedTwice == \A o, u, v \in Seq(Letters) : (o \o u) \o v = o \o (u \o v)
BY ConcatAssociative

\* The characters between two positions are read, and no tag starts there.
LEMMA StretchRead ==
  ASSUME NEW t \in Seq(Letters), NEW f, Reads(t, f), NEW i \in BOOLEAN, NEW o \in Seq(Letters),
         NEW q \in Nat, NEW len \in Nat, q + len <= Len(t), SpotIs(f[q], i, 0, o),
         NEW s \in Seq(Letters), Len(s) = len, \A j \in 1..len : t[q + j] = s[j],
         \A j \in 1..len : ~TagAt(t, q + j, i)
  PROVE  SpotIs(f[q + len], i, 0, IF i THEN o ELSE o \o s)
<1> DEFINE ShownOf(m) == IF i THEN o ELSE o \o SubSeq(s, 1, m)
           P == {m \in 0..len : SpotIs(f[q + m], i, 0, ShownOf(m))}
<1>1. Len(t) \in Nat /\ (\A k \in 0..Len(t) : f[k] \in Spots) /\ \A k \in 1..Len(t) : f[k] = Moved(t, k, f[k - 1])
  BY LenProperties DEF Reads
<1>2. \A m \in 0..len : SubSeq(s, 1, m) \in Seq(Letters) /\ Len(SubSeq(s, 1, m)) = m
  BY HeadIs
<1>3. 0 \in P
  <2>1. SubSeq(s, 1, 0) = <<>>
    BY SubSeqEmpty
  <2>2. o \o <<>> = o
    BY ConcatEmptySeq
  <2>3. ShownOf(0) = o
    BY <2>1, <2>2
  <2>4. q + 0 = q /\ 0 \in 0..len
    OBVIOUS
  <2> HIDE DEF ShownOf
  <2> QED
    BY <2>3, <2>4
<1>4. ASSUME NEW m \in 1..len, m - 1 \in P PROVE m \in P
  <2> DEFINE k == q + m
  <2>1. k \in 1..Len(t) /\ k - 1 \in 0..Len(t) /\ k - 1 = q + (m - 1) /\ m \in 0..len /\ m - 1 \in 0..len
    BY <1>1
  <2>2. SpotIs(f[k - 1], i, 0, ShownOf(m - 1)) /\ f[k - 1] \in Spots
    BY <1>1, <1>4, <2>1
  <2>3. f[k] = Moved(t, k, f[k - 1])
    BY <1>1, <2>1
  <2>4. ~TagAt(t, k, i) /\ t[k] = s[m]
    OBVIOUS
  <2> HIDE DEF ShownOf, k
  <2>5. SpotIs(f[k], i, 0, IF i THEN ShownOf(m - 1) ELSE Append(ShownOf(m - 1), t[k]))
    <3> DEFINE e == f[k - 1]
    <3>1. e \in Spots /\ e.in = i /\ e.skip = 0 /\ e.out = ShownOf(m - 1)
      BY <2>2 DEF SpotIs
    <3> HIDE DEF e
    <3>2. SpotIs(Moved(t, k, e), e.in, 0, IF e.in THEN e.out ELSE Append(e.out, t[k]))
      BY <2>1, <2>4, <3>1, MovedIs
    <3> QED
      BY <2>3, <3>1, <3>2 DEF e
  <2>6. (IF i THEN ShownOf(m - 1) ELSE Append(ShownOf(m - 1), t[k])) = ShownOf(m)
    <3>1. CASE i
      BY <3>1 DEF ShownOf
    <3>2. CASE ~i
      <4> DEFINE u == SubSeq(s, 1, m - 1)
      <4>1. u \in Seq(Letters) /\ s[m] \in Letters
        BY <1>2, <2>1, ElementOfSeq
      <4>2. SubSeq(s, 1, m) = u \o <<s[m]>>
        <5>1. m \in 1..Len(s) /\ 1 \in 1..Len(s) /\ m \in 1..Len(s)
          BY <2>1
        <5> QED
          BY <5>1, SubSeqRecursiveSecond
      <4>3. ShownOf(m - 1) = o \o u /\ ShownOf(m) = o \o SubSeq(s, 1, m)
        BY <3>2 DEF ShownOf
      <4> HIDE DEF u
      <4>4. o \o u \in Seq(Letters) /\ <<s[m]>> \in Seq(Letters)
        BY <4>1, ConcatProperties
      <4>5. Append(o \o u, s[m]) = (o \o u) \o <<s[m]>>
        BY <4>1, <4>4, AppendIsConcat
      <4>6. (o \o u) \o <<s[m]>> = o \o (u \o <<s[m]>>)
        <5> DEFINE v == <<s[m]>>
        <5>1. o \in Seq(Letters) /\ u \in Seq(Letters) /\ v \in Seq(Letters)
          BY <4>1, <4>4
        <5> HIDE DEF v
        <5>2. (o \o u) \o v = o \o (u \o v)
          BY ONLY <5>1, JoinedTwice, Zenon
        <5> QED
          BY <5>2 DEF v
      <4> QED
        BY <2>4, <3>2, <4>2, <4>3, <4>5, <4>6
    <3> QED
      BY <3>1, <3>2
  <2> QED
    BY <2>1, <2>5, <2>6 DEF k
<1> HIDE DEF P
<1>5. \A m \in 0..len : m \in P
  BY <1>3, <1>4, OneByOne
<1>6. SpotIs(f[q + len], i, 0, ShownOf(len))
  <2>1. len \in P
    BY <1>5
  <2> QED
    BY <2>1 DEF P
<1>7. SubSeq(s, 1, len) = s
  BY SubSeqFull
<1> QED
  BY <1>6, <1>7

\* A tag is read.
LEMMA TagRead ==
  ASSUME NEW t \in Seq(Letters), NEW f, Reads(t, f), NEW i \in BOOLEAN, NEW o \in Seq(Letters),
         NEW k \in 1..Len(t), SpotIs(f[k - 1], i, 0, o), TagAt(t, k, i)
  PROVE  k + 2 <= Len(t) /\ SpotIs(f[k + 2], ~i, 0, o)
<1>1. Len(t) \in Nat /\ (\A m \in 0..Len(t) : f[m] \in Spots) /\ \A m \in 1..Len(t) : f[m] = Moved(t, m, f[m - 1])
  BY LenProperties DEF Reads
<1>2. k + 2 <= Len(t)
  BY DEF TagAt
<1>3. k - 1 \in 0..Len(t) /\ k \in 1..Len(t) /\ k + 1 \in 1..Len(t) /\ k + 2 \in 1..Len(t) /\ (k + 1) - 1 = k /\ (k + 2) - 1 = k + 1
      /\ k \in 0..Len(t) /\ k + 1 \in 0..Len(t)
  BY <1>1, <1>2
<1>4. SpotIs(f[k], ~i, 2, o)
  <2> DEFINE e == f[k - 1]
  <2>1. e \in Spots /\ e.in = i /\ e.skip = 0 /\ e.out = o /\ f[k] = Moved(t, k, e)
    BY <1>1, <1>3 DEF SpotIs
  <2> HIDE DEF e
  <2> QED
    BY <2>1, MovedIs
<1>5. SpotIs(f[k + 1], ~i, 1, o)
  <2> DEFINE e == f[k]
  <2>1. e \in Spots /\ e.in = (~i) /\ e.skip = 2 /\ e.out = o /\ f[k + 1] = Moved(t, k + 1, e)
    BY <1>1, <1>3, <1>4 DEF SpotIs
  <2> HIDE DEF e
  <2>2. e.skip > 0 /\ e.skip - 1 = 1
    BY <2>1
  <2>3. SpotIs(Moved(t, k + 1, e), e.in, e.skip - 1, e.out)
    BY <1>3, <2>1, <2>2, MovedIs
  <2> QED
    BY <2>1, <2>2, <2>3
<1>6. SpotIs(f[k + 2], ~i, 0, o)
  <2> DEFINE e == f[k + 1]
  <2>1. e \in Spots /\ e.in = (~i) /\ e.skip = 1 /\ e.out = o /\ f[k + 2] = Moved(t, k + 2, e)
    BY <1>1, <1>3, <1>5 DEF SpotIs
  <2> HIDE DEF e
  <2>2. e.skip > 0 /\ e.skip - 1 = 0
    BY <2>1
  <2>3. SpotIs(Moved(t, k + 2, e), e.in, e.skip - 1, e.out)
    BY <1>3, <2>1, <2>2, MovedIs
  <2> QED
    BY <2>1, <2>2, <2>3
<1> QED
  BY <1>2, <1>6

\* What is shown is never taken back.
LEMMA ReadGrows ==
  ASSUME NEW t \in Seq(Letters), NEW f, Reads(t, f), NEW q \in 0..Len(t)
  PROVE  ThinkStripper!IsPrefix(f[q].out, f[Len(t)].out)
<1> DEFINE len == Len(t) - q
           P == {m \in 0..len : /\ Len(f[q].out) <= Len(f[q + m].out)
                              /\ \A j \in 1..Len(f[q].out) : f[q].out[j] = f[q + m].out[j]}
<1>1. Len(t) \in Nat /\ (\A k \in 0..Len(t) : f[k] \in Spots) /\ \A k \in 1..Len(t) : f[k] = Moved(t, k, f[k - 1])
  BY LenProperties DEF Reads
<1>2. len \in Nat /\ q + 0 = q /\ q + len = Len(t)
  BY <1>1
<1>3. \A k \in 0..Len(t) : f[k].out \in Seq(Letters) /\ Len(f[k].out) \in Nat
  <2> TAKE k \in 0..Len(t)
  <2>1. f[k].out \in Seq(Letters)
    BY <1>1 DEF Spots
  <2> QED
    BY <2>1, LenProperties
<1>4. 0 \in P
  BY <1>2, <1>3
<1>5. ASSUME NEW m \in 1..len, m - 1 \in P PROVE m \in P
  <2> DEFINE k == q + m
             e == f[k - 1]
             a == f[q].out
  <2>1. k \in 1..Len(t) /\ k - 1 \in 0..Len(t) /\ k - 1 = q + (m - 1) /\ m \in 0..len
    BY <1>1
  <2>2. e \in Spots /\ f[k] = Moved(t, k, e) /\ e.out \in Seq(Letters) /\ t[k] \in Letters
    BY <1>1, <1>3, <2>1, ElementOfSeq
  <2>3. Len(a) <= Len(e.out) /\ \A j \in 1..Len(a) : a[j] = e.out[j]
    BY <1>5, <2>1
  <2>4. Len(a) \in Nat /\ Len(e.out) \in Nat
    BY <1>3, <2>1
  <2> HIDE DEF k, e, a, len, P
  <2>5. f[k].out = e.out \/ f[k].out = Append(e.out, t[k])
    <3>1. e.skip \in 0..2 /\ e.in \in BOOLEAN
      BY <2>2 DEF Spots
    <3>2. CASE e.skip > 0
      BY <3>2, <2>1, <2>2, MovedIs DEF SpotIs
    <3>3. CASE e.skip = 0 /\ TagAt(t, k, e.in)
      BY <3>3, <2>1, <2>2, MovedIs DEF SpotIs
    <3>4. CASE e.skip = 0 /\ ~TagAt(t, k, e.in)
      <4>1. SpotIs(Moved(t, k, e), e.in, 0, IF e.in THEN e.out ELSE Append(e.out, t[k]))
        BY <3>4, <2>1, <2>2, MovedIs
      <4> QED
        BY <4>1, <2>2 DEF SpotIs
    <3> QED
      BY <3>1, <3>2, <3>3, <3>4
  <2>6. Len(a) <= Len(f[k].out) /\ \A j \in 1..Len(a) : a[j] = f[k].out[j]
    <3>1. CASE f[k].out = e.out
      BY <3>1, <2>3
    <3>2. CASE f[k].out = Append(e.out, t[k])
      <4>1. Len(f[k].out) = Len(e.out) + 1 /\ \A j \in 1..Len(e.out) : f[k].out[j] = e.out[j]
        BY <3>2, <2>2, AppendProperties
      <4>2. \A j \in 1..Len(a) : j \in 1..Len(e.out)
        BY <2>3, <2>4
      <4> QED
        BY <4>1, <4>2, <2>3, <2>4
    <3> QED
      BY <2>5, <3>1, <3>2
  <2> QED
    BY <2>1, <2>6 DEF P, k, a
<1> HIDE DEF P, len
<1>6. \A m \in 0..len : m \in P
  BY <1>2, <1>4, <1>5, OneByOne
<1>7. len \in P
  BY <1>2, <1>6
<1>8. Len(f[q].out) <= Len(f[Len(t)].out) /\ \A j \in 1..Len(f[q].out) : f[q].out[j] = f[Len(t)].out[j]
  BY <1>2, <1>7 DEF P
<1>9. f[q].out \in Seq(Letters) /\ f[Len(t)].out \in Seq(Letters)
  BY <1>1, <1>3
<1> QED
  BY <1>8, <1>9, PrefixIs

\* Every character of the model is one of the texts to be read.
LEMMA CharsAre == \A s \in Seq(ThinkStripper!Chars) : s \in Seq(Letters)
<1>1. ThinkStripper!Chars \subseteq Letters
  BY DEF Letters
<1> QED
  BY <1>1, SeqMonotonic

\* A text in a text in a text.
LEMMA LiesIn ==
  ASSUME NEW t \in Seq(Letters), NEW w \in Seq(Letters), NEW b \in Seq(Letters), NEW q \in Nat,
         Lies(t, 0, w), Lies(w, q, b)
  PROVE  Lies(t, q, b)
<1>1. Len(t) \in Nat /\ Len(w) \in Nat /\ Len(b) \in Nat
  BY LenProperties
<1>2. Len(w) <= Len(t) /\ \A j \in 1..Len(w) : t[j] = w[j]
  BY <1>1 DEF Lies
<1>3. q + Len(b) <= Len(w) /\ \A j \in 1..Len(b) : w[q + j] = b[j]
  BY DEF Lies
<1>4. ASSUME NEW j \in 1..Len(b) PROVE t[q + j] = b[j]
  <2>1. q + j \in 1..Len(w)
    BY <1>1, <1>3
  <2> QED
    BY <2>1, <1>2, <1>3
<1> QED
  BY <1>1, <1>2, <1>3, <1>4 DEF Lies

\* The end of a text in a text.
LEMMA TailLies ==
  ASSUME NEW t \in Seq(Letters), NEW b \in Seq(Letters), NEW q \in Nat, NEW len \in Nat, len <= Len(b),
         Lies(t, q, b)
  PROVE  Lies(t, q + len, SubSeq(b, len + 1, Len(b)))
<1> DEFINE g == SubSeq(b, len + 1, Len(b))
<1>1. Len(t) \in Nat /\ Len(b) \in Nat
  BY LenProperties
<1>2. len + 1 \in Nat /\ len + 1 >= 1 /\ len + 1 <= Len(b) + 1
  BY <1>1
<1>3. /\ Len(g) = Len(b) - (len + 1) + 1
      /\ \A j \in 1..(Len(b) - (len + 1) + 1) : g[j] = b[(len + 1) + j - 1]
  BY <1>2, TailIs
<1> HIDE DEF g
<1>4. q + Len(b) <= Len(t) /\ \A j \in 1..Len(b) : t[q + j] = b[j]
  BY DEF Lies
<1>5. Len(g) = Len(b) - len
  BY <1>1, <1>3
<1>6. ASSUME NEW j \in 1..Len(g) PROVE t[(q + len) + j] = g[j]
  <2>1. len + j \in 1..Len(b) /\ (len + 1) + j - 1 = len + j /\ (q + len) + j = q + (len + j)
        /\ j \in 1..(Len(b) - (len + 1) + 1)
    BY <1>1, <1>5
  <2> QED
    BY <2>1, <1>3, <1>4
<1>7. (q + len) + Len(g) <= Len(t)
  BY <1>1, <1>4, <1>5
<1> QED
  BY <1>6, <1>7 DEF Lies, g

\* No tag starts spot position j of b, whatever comes after b.
Spoilt(b, j, i) == \E d \in 0..2 : j + d <= Len(b) /\ b[j + d] # ThinkStripper!Tag(i)[d + 1]

\* Where a tag is spoilt there is none, whatever follows.
LEMMA SpoiltIs ==
  ASSUME NEW t \in Seq(Letters), NEW b \in Seq(Letters), NEW q \in Nat, NEW i \in BOOLEAN,
         NEW j \in 1..Len(b), Lies(t, q, b), Spoilt(b, j, i)
  PROVE  ~TagAt(t, q + j, i)
<1> SUFFICES ASSUME TagAt(t, q + j, i) PROVE FALSE
  OBVIOUS
<1>1. PICK d \in 0..2 : j + d <= Len(b) /\ b[j + d] # ThinkStripper!Tag(i)[d + 1]
  BY DEF Spoilt
<1>2. Len(b) \in Nat
  BY LenProperties
<1>3. j + d \in 1..Len(b) /\ q + (j + d) = (q + j) + d
  BY <1>1, <1>2
<1>4. t[(q + j) + d] = b[j + d]
  BY <1>3 DEF Lies
<1>5. t[q + j] = "<" /\ t[(q + j) + 1] = SecondOf(i) /\ t[(q + j) + 2] = ">"
  BY DEF TagAt
<1>6. ThinkStripper!Tag(i)[1] = "<" /\ ThinkStripper!Tag(i)[2] = SecondOf(i) /\ ThinkStripper!Tag(i)[3] = ">"
  BY TagIs
<1>7. d = 0 \/ d = 1 \/ d = 2
  OBVIOUS
<1>8. (q + j) + 0 = q + j /\ 0 + 1 = 1 /\ 1 + 1 = 2 /\ 2 + 1 = 3
  OBVIOUS
<1> QED
  BY <1>1, <1>4, <1>5, <1>6, <1>7, <1>8

\* A text with no tag spot j, of which three characters are known.
LEMMA NoTagSpoils ==
  ASSUME NEW b \in Seq(Letters), NEW i \in BOOLEAN, NEW j \in 1..Len(b), j + 2 <= Len(b), ~TagAt(b, j, i)
  PROVE  Spoilt(b, j, i)
<1>1. Len(b) \in Nat
  BY LenProperties
<1>2. ThinkStripper!Tag(i)[1] = "<" /\ ThinkStripper!Tag(i)[2] = SecondOf(i) /\ ThinkStripper!Tag(i)[3] = ">"
  BY TagIs
<1>3. b[j] # "<" \/ b[j + 1] # SecondOf(i) \/ b[j + 2] # ">"
  BY DEF TagAt
<1>4. /\ j + 0 = j /\ 0 + 1 = 1 /\ 1 + 1 = 2 /\ 2 + 1 = 3 /\ 0 \in 0..2 /\ 1 \in 0..2 /\ 2 \in 0..2
      /\ j + 0 <= Len(b) /\ j + 1 <= Len(b)
  BY <1>1
<1>5. CASE b[j] # "<"
  <2>1. j + 0 <= Len(b) /\ b[j + 0] # ThinkStripper!Tag(i)[0 + 1]
    BY <1>2, <1>4, <1>5
  <2> QED
    BY <2>1, <1>4 DEF Spoilt
<1>6. CASE b[j + 1] # SecondOf(i)
  <2>1. j + 1 <= Len(b) /\ b[j + 1] # ThinkStripper!Tag(i)[1 + 1]
    BY <1>2, <1>4, <1>6
  <2> QED
    BY <2>1, <1>4 DEF Spoilt
<1>7. CASE b[j + 2] # ">"
  <2>1. j + 2 <= Len(b) /\ b[j + 2] # ThinkStripper!Tag(i)[2 + 1]
    BY <1>2, <1>4, <1>7
  <2> QED
    BY <2>1, <1>4 DEF Spoilt
<1> QED
  BY <1>3, <1>5, <1>6, <1>7

\* Whatever the answer becomes, its reading stands after q characters of w in i, with o shown.
Stand(w, q, i, o) ==
  /\ q <= Len(w)
  /\ \A t \in Seq(Letters) : \A f : Lies(t, 0, w) /\ Reads(t, f) => SpotIs(f[q], i, 0, o)
\* What the filter holds back is the end of w, and the reading stands before it.
Stands(w, i, b, o) ==
  Len(b) <= Len(w) /\ Lies(w, Len(w) - Len(b), b) /\ Stand(w, Len(w) - Len(b), i, o)

\* What is no tag is passed, and shown when it is no thought.
LEMMA Passed ==
  ASSUME NEW w \in Seq(Letters), NEW b \in Seq(Letters), NEW q \in Nat, NEW i \in BOOLEAN,
         NEW o \in Seq(Letters), NEW len \in Nat, len <= Len(b), Lies(w, q, b), Stand(w, q, i, o),
         \A j \in 1..len : Spoilt(b, j, i)
  PROVE  Stand(w, q + len, i, IF i THEN o ELSE o \o SubSeq(b, 1, len))
<1> DEFINE s == SubSeq(b, 1, len)
           p == IF i THEN o ELSE o \o s
<1>1. Len(w) \in Nat /\ Len(b) \in Nat
  BY LenProperties
<1>2. s \in Seq(Letters) /\ Len(s) = len /\ \A j \in 1..len : s[j] = b[j]
  BY HeadIs
<1>3. q + Len(b) <= Len(w)
  BY DEF Lies
<1> HIDE DEF s
<1>4. ASSUME NEW t \in Seq(Letters), NEW f, Lies(t, 0, w), Reads(t, f) PROVE SpotIs(f[q + len], i, 0, p)
  <2>1. Lies(t, q, b)
    BY <1>4, LiesIn
  <2>2. \A j \in 1..len : j \in 1..Len(b)
    BY <1>1
  <2>3. \A j \in 1..len : ~TagAt(t, q + j, i)
    BY <2>1, <2>2, SpoiltIs
  <2>4. q + Len(b) <= Len(t) /\ \A j \in 1..Len(b) : t[q + j] = b[j]
    BY <2>1 DEF Lies
  <2>5. q + len <= Len(t)
    <3>1. Len(t) \in Nat
      BY LenProperties
    <3> QED
      BY <3>1, <1>1, <2>4
  <2>6. \A j \in 1..len : t[q + j] = s[j]
    BY <1>2, <2>2, <2>4
  <2>7. SpotIs(f[q], i, 0, o)
    BY <1>4 DEF Stand
  <2>8. SpotIs(f[q + len], i, 0, IF i THEN o ELSE o \o s)
    BY <1>2, <1>4, <2>3, <2>5, <2>6, <2>7, StretchRead
  <2> QED
    BY <2>8
<1> HIDE DEF p
<1>5. q + len <= Len(w)
  BY <1>1, <1>3
<1>6. Stand(w, q + len, i, p)
  BY <1>4, <1>5 DEF Stand
<1> QED
  BY <1>6 DEF p, s

\* A tag is passed.
LEMMA TagPassed ==
  ASSUME NEW w \in Seq(Letters), NEW q \in Nat, NEW i \in BOOLEAN, NEW o \in Seq(Letters),
         Stand(w, q, i, o), TagAt(w, q + 1, i)
  PROVE  Stand(w, q + 3, ~i, o)
<1>1. Len(w) \in Nat
  BY LenProperties
<1>2. q + 1 \in 1..Len(w) /\ (q + 1) + 2 <= Len(w) /\ (q + 1) + 2 = q + 3 /\ (q + 1) - 1 = q
  BY <1>1 DEF TagAt
<1>3. w[q + 1] = "<" /\ w[(q + 1) + 1] = SecondOf(i) /\ w[(q + 1) + 2] = ">"
  BY DEF TagAt
<1>4. ASSUME NEW t \in Seq(Letters), NEW f, Lies(t, 0, w), Reads(t, f) PROVE SpotIs(f[q + 3], ~i, 0, o)
  <2>1. Len(t) \in Nat
    BY LenProperties
  <2>2. Len(w) <= Len(t) /\ \A j \in 1..Len(w) : t[j] = w[j]
    BY <1>1, <1>4 DEF Lies
  <2>3. q + 1 \in 1..Len(w) /\ (q + 1) + 1 \in 1..Len(w) /\ (q + 1) + 2 \in 1..Len(w) /\ q + 1 \in 1..Len(t)
        /\ (q + 1) + 2 <= Len(t)
    BY <1>1, <1>2, <2>1, <2>2
  <2>4. TagAt(t, q + 1, i)
    BY <1>3, <2>2, <2>3 DEF TagAt
  <2>5. SpotIs(f[q], i, 0, o)
    BY <1>4 DEF Stand
  <2>6. SpotIs(f[(q + 1) - 1], i, 0, o)
    BY <1>2, <2>5
  <2>7. SpotIs(f[(q + 1) + 2], ~i, 0, o)
    BY <1>4, <2>3, <2>4, <2>6, TagRead
  <2> QED
    BY <1>2, <2>7
<1> QED
  BY <1>1, <1>2, <1>4 DEF Stand

\* What a round of Feed works on.
RoundTypes == [in : BOOLEAN, buf : Seq(ThinkStripper!Chars), out : Seq(ThinkStripper!Chars)]
\* One of them.
RoundRecord(i, b, o) == [in |-> i, buf |-> b, out |-> o]

\* The fields of a round.
LEMMA PutIs ==
  ASSUME NEW i \in BOOLEAN, NEW b \in Seq(ThinkStripper!Chars), NEW o \in Seq(ThinkStripper!Chars), NEW r, r = RoundRecord(i, b, o)
  PROVE  r \in RoundTypes /\ r.in = i /\ r.buf = b /\ r.out = o
BY DEF RoundTypes, RoundRecord

\* Where the first tag is.
LEMMA IndexIs ==
  ASSUME NEW b \in Seq(Letters), NEW i \in BOOLEAN, ThinkStripper!Starts(b, ThinkStripper!Tag(i)) # {}
  PROVE  /\ ThinkStripper!Index(b, ThinkStripper!Tag(i)) \in 1..Len(b) /\ TagAt(b, ThinkStripper!Index(b, ThinkStripper!Tag(i)), i)
         /\ \A j \in 1..(ThinkStripper!Index(b, ThinkStripper!Tag(i)) - 1) : ~TagAt(b, j, i)
<1> DEFINE T == ThinkStripper!Starts(b, ThinkStripper!Tag(i))
           k == ThinkStripper!Index(b, ThinkStripper!Tag(i))
<1>1. T \subseteq 1..Len(b) /\ T \in SUBSET Nat /\ Len(b) \in Nat
  BY LenProperties DEF ThinkStripper!Starts
<1>2. \E x \in T : \A y \in T : x <= y
  <2> HIDE DEF T
  <2> QED
    BY <1>1, Least DEF T
<1>3. k \in T /\ \A y \in T : k <= y
  <2>1. k = CHOOSE x \in T : \A y \in T : x <= y
    BY Zenon DEF ThinkStripper!Index
  <2> HIDE DEF T, k
  <2> QED
    BY <1>2, <2>1
<1> HIDE DEF k
<1>4. k \in 1..Len(b)
  BY <1>1, <1>3
<1>5. TagAt(b, k, i)
  BY <1>3, <1>4, StartsIs
<1>6. ASSUME NEW j \in 1..(k - 1) PROVE ~TagAt(b, j, i)
  <2>1. j \in 1..Len(b) /\ ~(k <= j)
    BY <1>1, <1>4
  <2>2. j \notin T
    BY <1>3, <2>1
  <2> QED
    BY <2>1, <2>2, StartsIs
<1> QED
  BY <1>4, <1>5, <1>6 DEF k

\* One round of Feed.
LEMMA RoundIs ==
  ASSUME NEW r \in RoundTypes
  PROVE  /\ ThinkStripper!Round(r) \in RoundTypes
         /\ \/ ThinkStripper!Round(r) = r /\ ThinkStripper!Starts(r.buf, ThinkStripper!Tag(r.in)) = {}
            \/ \E spot \in 1..Len(r.buf) :
                 /\ TagAt(r.buf, spot, r.in) /\ \A j \in 1..(spot - 1) : ~TagAt(r.buf, j, r.in)
                 /\ ThinkStripper!Round(r).in = ~r.in /\ ThinkStripper!Round(r).buf = SubSeq(r.buf, spot + 3, Len(r.buf))
                 /\ ThinkStripper!Round(r).out = r.out \o (IF r.in THEN <<>> ELSE SubSeq(r.buf, 1, spot - 1))
<1>1. r.in \in BOOLEAN /\ r.buf \in Seq(ThinkStripper!Chars) /\ r.out \in Seq(ThinkStripper!Chars) /\ r.buf \in Seq(Letters)
  BY CharsAre DEF RoundTypes
<1>2. CASE ThinkStripper!Starts(r.buf, ThinkStripper!Tag(r.in)) = {}
  BY <1>2 DEF ThinkStripper!Round
<1>3. CASE ThinkStripper!Starts(r.buf, ThinkStripper!Tag(r.in)) # {}
  <2> DEFINE spot == ThinkStripper!Index(r.buf, ThinkStripper!Tag(r.in))
             rest == SubSeq(r.buf, spot + 3, Len(r.buf))
             more == IF r.in THEN <<>> ELSE SubSeq(r.buf, 1, spot - 1)
  <2>1. spot \in 1..Len(r.buf) /\ TagAt(r.buf, spot, r.in) /\ \A j \in 1..(spot - 1) : ~TagAt(r.buf, j, r.in)
    BY <1>1, <1>3, IndexIs
  <2>2. Len(ThinkStripper!Tag(r.in)) = 3
    BY <1>1, TagIs
  <2>3. ThinkStripper!Round(r) = RoundRecord(~r.in, rest, r.out \o more)
    BY <1>3, <2>2 DEF ThinkStripper!Round, RoundRecord
  <2> HIDE DEF spot
  <2>4. spot + 3 \in Nat /\ spot + 3 >= 1 /\ spot + 3 <= Len(r.buf) + 1 /\ spot - 1 \in Nat /\ spot - 1 <= Len(r.buf)
    <3>1. spot + 2 <= Len(r.buf) /\ Len(r.buf) \in Nat
      BY <1>1, <2>1, LenProperties DEF TagAt
    <3> QED
      BY <2>1, <3>1
  <2>5. rest \in Seq(ThinkStripper!Chars)
    BY <1>1, <2>4, TailIs
  <2>6. SubSeq(r.buf, 1, spot - 1) \in Seq(ThinkStripper!Chars)
    BY <1>1, <2>4, HeadIs
  <2>7. more \in Seq(ThinkStripper!Chars)
    BY <2>6, EmptySeq
  <2> HIDE DEF rest, more
  <2>8. r.out \o more \in Seq(ThinkStripper!Chars)
    BY <1>1, <2>7, ConcatProperties
  <2> DEFINE other == ~r.in
             all == r.out \o more
  <2>9. other \in BOOLEAN
    BY <1>1, NotIs
  <2>10. ThinkStripper!Round(r) = RoundRecord(other, rest, all) /\ all \in Seq(ThinkStripper!Chars)
    BY <2>3, <2>8
  <2> HIDE DEF other, all
  <2>11. ThinkStripper!Round(r) \in RoundTypes /\ ThinkStripper!Round(r).in = other /\ ThinkStripper!Round(r).buf = rest /\ ThinkStripper!Round(r).out = all
    <3>1. PICK e : e = ThinkStripper!Round(r)
      OBVIOUS
    <3>2. e = RoundRecord(other, rest, all)
      BY <3>1, <2>10
    <3> QED
      BY <2>5, <2>9, <2>10, <3>1, <3>2, PutIs
  <2> QED
    BY <2>1, <2>11 DEF rest, more, other, all
<1> QED
  BY <1>2, <1>3

\* A tag is taken out of what is not decided yet.
LEMMA TagTaken ==
  ASSUME NEW w \in Seq(Letters), NEW b \in Seq(Letters), NEW i \in BOOLEAN, NEW o \in Seq(Letters),
         Stands(w, i, b, o), NEW spot \in 1..Len(b), TagAt(b, spot, i), \A j \in 1..(spot - 1) : ~TagAt(b, j, i)
  PROVE  /\ Stands(w, ~i, SubSeq(b, spot + 3, Len(b)), IF i THEN o ELSE o \o SubSeq(b, 1, spot - 1))
         /\ Len(SubSeq(b, spot + 3, Len(b))) <= Len(b) - 1
<1> DEFINE q == Len(w) - Len(b)
           len == spot - 1
           p == IF i THEN o ELSE o \o SubSeq(b, 1, len)
           g == SubSeq(b, spot + 3, Len(b))
           h == SubSeq(b, (len + 3) + 1, Len(b))
<1>1. Len(w) \in Nat /\ Len(b) \in Nat
  BY LenProperties
<1>2. Len(b) <= Len(w) /\ Lies(w, q, b) /\ Stand(w, q, i, o)
  BY DEF Stands
<1>3. spot + 2 <= Len(b) /\ b[spot] = "<" /\ b[spot + 1] = SecondOf(i) /\ b[spot + 2] = ">"
  BY DEF TagAt
<1>4. q \in Nat /\ len \in Nat /\ len <= Len(b) /\ len + 3 \in Nat /\ len + 3 <= Len(b) /\ (len + 3) + 1 = spot + 3
      /\ (q + len) + 1 = q + spot /\ (q + len) + 3 = q + (len + 3) /\ q + len \in Nat
  BY <1>1, <1>2, <1>3
<1>5. ASSUME NEW j \in 1..len PROVE Spoilt(b, j, i)
  <2>1. j \in 1..Len(b) /\ j + 2 <= Len(b)
    BY <1>1, <1>3
  <2>2. ~TagAt(b, j, i)
    OBVIOUS
  <2> QED
    BY <2>1, <2>2, NoTagSpoils
<1>6. g = h
  BY <1>4
<1> HIDE DEF q, len, g, h
<1>7. Stand(w, q + len, i, p)
  BY <1>2, <1>4, <1>5, Passed
<1>8. TagAt(w, (q + len) + 1, i)
  <2>1. q + Len(b) <= Len(w) /\ \A j \in 1..Len(b) : w[q + j] = b[j]
    BY <1>2 DEF Lies
  <2>2. spot \in 1..Len(b) /\ spot + 1 \in 1..Len(b) /\ spot + 2 \in 1..Len(b) /\ (q + spot) + 1 = q + (spot + 1)
        /\ (q + spot) + 2 = q + (spot + 2) /\ (q + spot) + 2 <= Len(w)
    BY <1>1, <1>3, <1>4, <2>1
  <2>3. w[q + spot] = "<" /\ w[(q + spot) + 1] = SecondOf(i) /\ w[(q + spot) + 2] = ">"
    BY <1>3, <2>1, <2>2
  <2>4. TagAt(w, q + spot, i)
    BY <2>2, <2>3 DEF TagAt
  <2> QED
    BY <1>4, <2>4
<1>9. SubSeq(b, 1, len) \in Seq(Letters)
  BY <1>4, HeadIs
<1>10. p \in Seq(Letters)
  <2> DEFINE v == SubSeq(b, 1, len)
  <2> HIDE DEF v
  <2>1. o \o v \in Seq(Letters)
    BY <1>9, ConcatProperties DEF v
  <2> QED
    BY <2>1 DEF v
<1> HIDE DEF p
<1>11. Stand(w, (q + len) + 3, ~i, p)
  BY <1>4, <1>7, <1>8, <1>10, TagPassed
<1>12. Lies(w, q + (len + 3), h)
  BY <1>2, <1>4, TailLies DEF h
<1>13. Len(h) = Len(b) - (len + 3)
  <2>1. (len + 3) + 1 \in Nat /\ (len + 3) + 1 >= 1 /\ (len + 3) + 1 <= Len(b) + 1
    BY <1>1, <1>4
  <2>2. Len(h) = Len(b) - ((len + 3) + 1) + 1
    BY <2>1, TailIs DEF h
  <2> QED
    BY <1>1, <1>4, <2>2
<1>14. Len(w) - Len(h) = q + (len + 3) /\ Len(h) <= Len(w) /\ Len(h) <= Len(b) - 1
  BY <1>1, <1>2, <1>4, <1>13 DEF q
<1>15. Stands(w, ~i, h, p)
  BY <1>4, <1>11, <1>12, <1>14 DEF Stands
<1> QED
  BY <1>6, <1>14, <1>15 DEF g, p, len

\* A text spot the end of a text.
LEMMA SuffixIs ==
  ASSUME NEW s \in Seq(Letters), NEW t \in Seq(Letters), NEW len, len = Len(s)
  PROVE  ThinkStripper!IsSuffix(s, t) <=> len <= Len(t) /\ \A j \in 1..len : s[(len - j) + 1] = t[(Len(t) - j) + 1]
<1>1. ASSUME NEW x \in Seq(Letters)
      PROVE  /\ ThinkStripper!Reverse(x) \in Seq(Letters) /\ Len(ThinkStripper!Reverse(x)) = Len(x)
             /\ \A j \in 1..Len(x) : ThinkStripper!Reverse(x)[j] = x[(Len(x) - j) + 1]
  <2>1. Len(x) \in Nat /\ \A j \in 1..Len(x) : x[j] \in Letters
    BY LenProperties, ElementOfSeq
  <2>2. \A j \in 1..Len(x) : (Len(x) - j) + 1 \in 1..Len(x)
    BY <2>1
  <2>3. ThinkStripper!Reverse(x) \in [1..Len(x) -> Letters]
    BY <2>1, <2>2 DEF ThinkStripper!Reverse
  <2>4. ThinkStripper!Reverse(x) \in Seq(Letters)
    BY <2>1, <2>3, SeqDef
  <2>5. Len(ThinkStripper!Reverse(x)) = Len(x)
    BY <2>1, <2>3, <2>4, LenProperties
  <2> QED
    BY <2>4, <2>5 DEF ThinkStripper!Reverse
<1> DEFINE a == ThinkStripper!Reverse(s)
           c == ThinkStripper!Reverse(t)
<1>2. a \in Seq(Letters) /\ Len(a) = len /\ \A j \in 1..len : a[j] = s[(len - j) + 1]
  BY <1>1
<1>3. c \in Seq(Letters) /\ Len(c) = Len(t) /\ \A j \in 1..Len(t) : c[j] = t[(Len(t) - j) + 1]
  BY <1>1
<1>4. ThinkStripper!IsSuffix(s, t) <=> ThinkStripper!IsPrefix(a, c)
  BY DEF ThinkStripper!IsSuffix
<1> HIDE DEF a, c
<1>5. ThinkStripper!IsPrefix(a, c) <=> Len(a) <= Len(c) /\ \A j \in 1..Len(a) : a[j] = c[j]
  BY <1>2, <1>3, PrefixIs
<1>6. len \in Nat /\ Len(t) \in Nat
  BY LenProperties
<1>7. ThinkStripper!IsPrefix(a, c) <=> len <= Len(t) /\ \A j \in 1..len : a[j] = c[j]
  BY <1>2, <1>3, <1>5
<1>8. ASSUME len <= Len(t), NEW j \in 1..len
      PROVE  a[j] = s[(len - j) + 1] /\ c[j] = t[(Len(t) - j) + 1]
  <2>1. j \in 1..Len(t)
    BY <1>6, <1>8
  <2> QED
    BY <2>1, <1>2, <1>3
<1>9. ASSUME ThinkStripper!IsPrefix(a, c)
      PROVE  len <= Len(t) /\ \A j \in 1..len : s[(len - j) + 1] = t[(Len(t) - j) + 1]
  <2>1. len <= Len(t) /\ \A j \in 1..len : a[j] = c[j]
    BY <1>7, <1>9
  <2>2. ASSUME NEW j \in 1..len PROVE s[(len - j) + 1] = t[(Len(t) - j) + 1]
    BY <1>8, <2>1
  <2> QED
    BY <2>1, <2>2
<1>10. ASSUME len <= Len(t), \A j \in 1..len : s[(len - j) + 1] = t[(Len(t) - j) + 1]
       PROVE  ThinkStripper!IsPrefix(a, c)
  <2>1. ASSUME NEW j \in 1..len PROVE a[j] = c[j]
    BY <1>8, <1>10
  <2> QED
    BY <1>7, <1>10, <2>1
<1> QED
  BY <1>4, <1>9, <1>10

\* The beginning of a tag spot the end of a text.
Fits(b, i, len) ==
  IF len = 1 THEN 1 <= Len(b) /\ b[Len(b)] = "<"
  ELSE 2 <= Len(b) /\ b[Len(b) - 1] = "<" /\ b[Len(b)] = SecondOf(i)

\* Where the end of a text may be the beginning of a tag.
LEMMA FitsIs ==
  ASSUME NEW b \in Seq(Letters), NEW i \in BOOLEAN, NEW len \in 1..2
  PROVE  len <= Len(b) /\ ThinkStripper!IsSuffix(SubSeq(ThinkStripper!Tag(i), 1, len), b) <=> Fits(b, i, len)
<1> DEFINE s == SubSeq(ThinkStripper!Tag(i), 1, len)
<1>1. ThinkStripper!Tag(i) \in Seq(Letters) /\ Len(ThinkStripper!Tag(i)) = 3 /\ ThinkStripper!Tag(i)[1] = "<" /\ ThinkStripper!Tag(i)[2] = SecondOf(i)
  BY TagIs
<1>2. len \in Nat /\ len <= Len(ThinkStripper!Tag(i)) /\ (len = 1 \/ len = 2)
  BY <1>1
<1>3. s \in Seq(Letters) /\ Len(s) = len /\ \A j \in 1..len : s[j] = ThinkStripper!Tag(i)[j]
  BY <1>1, <1>2, HeadIs
<1>4. Len(b) \in Nat
  BY LenProperties
<1> HIDE DEF s
<1>5. ASSUME NEW k, k = Len(s)
      PROVE  ThinkStripper!IsSuffix(s, b) <=> k <= Len(b) /\ \A j \in 1..k : s[(k - j) + 1] = b[(Len(b) - j) + 1]
  <2>1. s \in Seq(Letters)
    BY <1>3
  <2> QED
    BY ONLY <1>5, <2>1, b \in Seq(Letters), SuffixIs
<1>6. CASE len = 1
  <2>1. (\A j \in 1..1 : s[(1 - j) + 1] = b[(Len(b) - j) + 1]) <=> s[1] = b[Len(b)]
    <3>1. (1 - 1) + 1 = 1 /\ (Len(b) - 1) + 1 = Len(b) /\ \A j \in 1..1 : j = 1
      BY <1>4
    <3> QED
      BY <3>1
  <2>2. s[1] = "<"
    BY <1>1, <1>3, <1>6
  <2> QED
    BY <1>3, <1>5, <1>6, <2>1, <2>2 DEF Fits, s
<1>7. CASE len = 2
  <2>1. (\A j \in 1..2 : s[(2 - j) + 1] = b[(Len(b) - j) + 1]) <=> s[2] = b[Len(b)] /\ s[1] = b[Len(b) - 1]
    <3>1. /\ (2 - 1) + 1 = 2 /\ (Len(b) - 1) + 1 = Len(b) /\ (2 - 2) + 1 = 1 /\ (Len(b) - 2) + 1 = Len(b) - 1
          /\ \A j \in 1..2 : j = 1 \/ j = 2
      BY <1>4
    <3> QED
      BY <3>1
  <2>2. s[1] = "<" /\ s[2] = SecondOf(i) /\ Len(s) = 2
    BY <1>1, <1>3, <1>7
  <2>3. ThinkStripper!IsSuffix(s, b) <=> 2 <= Len(b) /\ \A j \in 1..2 : s[(2 - j) + 1] = b[(Len(b) - j) + 1]
    BY <1>5, <2>2
  <2>4. ThinkStripper!IsSuffix(s, b) <=> 2 <= Len(b) /\ b[Len(b)] = SecondOf(i) /\ b[Len(b) - 1] = "<"
    BY <2>1, <2>2, <2>3, Zenon
  <2>5. Fits(b, i, len) <=> 2 <= Len(b) /\ b[Len(b) - 1] = "<" /\ b[Len(b)] = SecondOf(i)
    BY <1>7 DEF Fits
  <2>6. len <= Len(b) /\ ThinkStripper!IsSuffix(s, b) <=> Fits(b, i, len)
    BY <1>7, <2>4, <2>5, Zenon
  <2> QED
    BY <2>6 DEF s
<1> QED
  BY <1>2, <1>6, <1>7

\* What is held back: behind it no tag can start that is not in the text.
LEMMA KeepIs ==
  ASSUME NEW b \in Seq(Letters), NEW i \in BOOLEAN
  PROVE  /\ ThinkStripper!Keep(b, ThinkStripper!Tag(i)) \in 0..2 /\ ThinkStripper!Keep(b, ThinkStripper!Tag(i)) <= Len(b)
         /\ \A j \in 1..(Len(b) - ThinkStripper!Keep(b, ThinkStripper!Tag(i))) : j + 2 > Len(b) => Spoilt(b, j, i)
<1> DEFINE L == Len(b)
           k == ThinkStripper!Keep(b, ThinkStripper!Tag(i))
           fitting == {len \in 1..2 : Fits(b, i, len)}
<1>1. L \in Nat
  BY LenProperties
<1>2. k = IF fitting = {} THEN 0 ELSE CHOOSE len \in fitting : \A m \in fitting : len <= m
  <2> DEFINE set == {len \in 1..(Len(ThinkStripper!Tag(i)) - 1) : len <= Len(b) /\ ThinkStripper!IsSuffix(SubSeq(ThinkStripper!Tag(i), 1, len), b)}
  <2>1. Len(ThinkStripper!Tag(i)) - 1 = 2
    BY TagIs
  <2>2. \A len \in 1..2 : (len <= Len(b) /\ ThinkStripper!IsSuffix(SubSeq(ThinkStripper!Tag(i), 1, len), b)) <=> Fits(b, i, len)
    BY FitsIs
  <2>3. set = fitting
    BY <2>1, <2>2
  <2>4. k = IF set = {} THEN 0 ELSE CHOOSE len \in set : \A m \in set : len <= m
    BY DEF ThinkStripper!Keep
  <2> HIDE DEF set, fitting, k
  <2> QED
    BY <2>3, <2>4
<1>3. ThinkStripper!Tag(i)[1] = "<" /\ ThinkStripper!Tag(i)[2] = SecondOf(i) /\ SecondOf(i) # "<"
  BY TagIs
<1>4. fitting \subseteq 1..2 /\ fitting \in SUBSET Nat
  OBVIOUS
<1>5. (1 \in fitting <=> Fits(b, i, 1)) /\ (2 \in fitting <=> Fits(b, i, 2))
  OBVIOUS
<1> HIDE DEF fitting, k
<1>6. \/ k = 0 /\ ~Fits(b, i, 1) /\ ~Fits(b, i, 2)
      \/ k = 1 /\ Fits(b, i, 1)
      \/ k = 2 /\ Fits(b, i, 2)
  <2>1. CASE fitting = {}
    BY <1>2, <1>5, <2>1
  <2>2. CASE fitting # {}
    <3>1. \E x \in fitting : \A y \in fitting : x <= y
      BY <1>4, <2>2, Least
    <3>2. k \in fitting
      BY <1>2, <2>2, <3>1
    <3>3. k = 1 \/ k = 2
      BY <1>4, <3>2
    <3> QED
      BY <1>5, <3>2, <3>3
  <2> QED
    BY <2>1, <2>2
<1>7. Fits(b, i, 1) <=> 1 <= L /\ b[L] = "<"
  BY DEF Fits
<1>8. Fits(b, i, 2) <=> 2 <= L /\ b[L - 1] = "<" /\ b[L] = SecondOf(i)
  BY DEF Fits
<1>9. k \in 0..2 /\ k <= L
  BY <1>1, <1>6, <1>7, <1>8
<1>10. ASSUME NEW j \in 1..(L - k), j + 2 > L PROVE Spoilt(b, j, i)
  <2>1. j = L \/ j = L - 1
    BY <1>1, <1>9, <1>10
  <2>2. \A d \in {0, 1} : j + d <= L /\ b[j + d] # ThinkStripper!Tag(i)[d + 1] => Spoilt(b, j, i)
    BY DEF Spoilt
  <2>3. 0 + 1 = 1 /\ 1 + 1 = 2 /\ j + 0 = j /\ j \in Nat
    OBVIOUS
  <2>4. CASE j = L
    <3>1. k = 0 /\ 1 <= L
      BY <1>1, <1>9, <2>4
    <3>2. b[L] # "<"
      BY <1>6, <1>7, <3>1
    <3> QED
      BY <1>1, <1>3, <2>2, <2>3, <2>4, <3>2
  <2>5. CASE j = L - 1
    <3>1. k \in {0, 1} /\ 2 <= L /\ j + 1 = L
      BY <1>1, <1>9, <2>5
    <3>2. CASE k = 1
      <4>1. b[L] # SecondOf(i)
        BY <1>3, <1>6, <1>7, <3>2
      <4> QED
        BY <1>1, <1>3, <2>2, <2>3, <3>1, <4>1
    <3>3. CASE k = 0
      <4>1. b[L - 1] # "<" \/ b[L] # SecondOf(i)
        BY <1>6, <1>8, <3>1, <3>3
      <4>2. CASE b[L - 1] # "<"
        BY <1>1, <1>3, <2>2, <2>3, <2>5, <4>2
      <4>3. CASE b[L] # SecondOf(i)
        BY <1>1, <1>3, <2>2, <2>3, <3>1, <4>3
      <4> QED
        BY <4>1, <4>2, <4>3
    <3> QED
      BY <3>1, <3>2, <3>3
  <2> QED
    BY <2>1, <2>4, <2>5
<1> QED
  BY <1>9, <1>10 DEF k, L

\* No tag is left: all but what is held back is shown.
LEMMA RestStands ==
  ASSUME NEW w \in Seq(Letters), NEW b \in Seq(Letters), NEW i \in BOOLEAN, NEW o \in Seq(Letters),
         Stands(w, i, b, o), ThinkStripper!Starts(b, ThinkStripper!Tag(i)) = {}, NEW len, len = Len(b) - ThinkStripper!Keep(b, ThinkStripper!Tag(i))
  PROVE  /\ len \in Nat /\ len <= Len(b) /\ Len(SubSeq(b, len + 1, Len(b))) <= 2
         /\ Stands(w, i, SubSeq(b, len + 1, Len(b)), IF i THEN o ELSE o \o SubSeq(b, 1, len))
<1> DEFINE q == Len(w) - Len(b)
           p == IF i THEN o ELSE o \o SubSeq(b, 1, len)
           g == SubSeq(b, len + 1, Len(b))
           k == ThinkStripper!Keep(b, ThinkStripper!Tag(i))
<1>1. Len(w) \in Nat /\ Len(b) \in Nat
  BY LenProperties
<1>2. Len(b) <= Len(w) /\ Lies(w, q, b) /\ Stand(w, q, i, o)
  BY DEF Stands
<1>3. k \in 0..2 /\ k <= Len(b) /\ \A j \in 1..(Len(b) - k) : j + 2 > Len(b) => Spoilt(b, j, i)
  BY KeepIs
<1>4. len = Len(b) - k
  OBVIOUS
<1> HIDE DEF q, p, g, k
<1>5. len \in Nat /\ len <= Len(b) /\ len + 1 \in Nat /\ len + 1 >= 1 /\ len + 1 <= Len(b) + 1 /\ q \in Nat
  BY <1>1, <1>2, <1>3, <1>4 DEF q
<1>6. ASSUME NEW j \in 1..len PROVE Spoilt(b, j, i)
  <2>1. j \in 1..Len(b) /\ j \in 1..(Len(b) - k)
    BY <1>1, <1>4, <1>5
  <2>2. CASE j + 2 > Len(b)
    BY <1>3, <2>1, <2>2
  <2>3. CASE j + 2 <= Len(b)
    <3>1. ~TagAt(b, j, i)
      BY <2>1, StartsIs
    <3> QED
      BY <2>1, <2>3, <3>1, NoTagSpoils
  <2> QED
    BY <1>1, <2>1, <2>2, <2>3
<1>7. Stand(w, q + len, i, p)
  BY <1>2, <1>5, <1>6, Passed DEF p
<1>8. Lies(w, q + len, g)
  BY <1>2, <1>5, TailLies DEF g
<1>9. Len(g) = Len(b) - (len + 1) + 1
  BY <1>5, TailIs DEF g
<1>10. Len(g) = k /\ Len(w) - Len(g) = q + len /\ Len(g) <= Len(w) /\ Len(g) <= 2
  <2>1. q = Len(w) - Len(b) /\ len = Len(b) - k
    BY <1>4 DEF q
  <2>2. Len(w) \in Nat /\ Len(b) \in Nat
    BY <1>1
  <2>3. k \in 0..2 /\ k <= Len(b)
    BY <1>3
  <2>4. Len(b) <= Len(w)
    BY <1>2
  <2> DEFINE lw == Len(w)
             lb == Len(b)
             lg == Len(g)
  <2>5. lw \in Nat /\ lb \in Nat /\ k \in 0..2 /\ k <= lb /\ lb <= lw /\ len = lb - k /\ q = lw - lb /\ lg = lb - (len + 1) + 1
    BY <1>9, <2>1, <2>2, <2>3, <2>4
  <2> HIDE DEF lw, lb, lg
  <2>6. lg = k /\ lw - lg = q + len /\ lg <= lw /\ lg <= 2
    <3>1. len \in Int /\ q \in Int
      BY ONLY <2>5
    <3>2. lg \in Int
      BY ONLY <2>5, <3>1
    <3>3. lg = k
      BY ONLY <2>5, <3>1, <3>2
    <3>4. lw - lg = q + len
      BY ONLY <2>5, <3>1, <3>2, <3>3
    <3>5. lg <= lw
      BY ONLY <2>5, <3>1, <3>2, <3>3
    <3>6. lg <= 2
      BY ONLY <2>5, <3>1, <3>2, <3>3
    <3> QED
      BY ONLY <3>3, <3>4, <3>5, <3>6
  <2> QED
    BY <2>6 DEF lw, lg
<1>11. Stands(w, i, g, p)
  BY <1>7, <1>8, <1>10 DEF Stands
<1> QED
  BY <1>5, <1>10, <1>11 DEF g, p

\* The rounds of Feed after k of them, in a text of length l.
RoundsGood(w, o, l, k, r) ==
  /\ r \in RoundTypes /\ Stands(w, r.in, r.buf, o \o r.out)
  /\ ThinkStripper!Starts(r.buf, ThinkStripper!Tag(r.in)) = {} \/ Len(r.buf) <= l - k

\* A round of Feed.
LEMMA RoundGood ==
  ASSUME NEW w \in Seq(ThinkStripper!Chars), NEW o \in Seq(ThinkStripper!Chars), NEW l \in Nat, NEW k \in Nat, NEW r, RoundsGood(w, o, l, k, r)
  PROVE  RoundsGood(w, o, l, k + 1, ThinkStripper!Round(r))
<1>1. r \in RoundTypes /\ Stands(w, r.in, r.buf, o \o r.out)
  BY DEF RoundsGood
<1>2. r.in \in BOOLEAN /\ r.buf \in Seq(ThinkStripper!Chars) /\ r.out \in Seq(ThinkStripper!Chars)
  BY <1>1 DEF RoundTypes
<1>3. r.buf \in Seq(Letters) /\ w \in Seq(Letters) /\ o \in Seq(Letters) /\ r.out \in Seq(Letters)
  BY <1>2, CharsAre
<1>4. ThinkStripper!Round(r) \in RoundTypes
  BY <1>1, RoundIs
<1>5. CASE ThinkStripper!Round(r) = r /\ ThinkStripper!Starts(r.buf, ThinkStripper!Tag(r.in)) = {}
  BY <1>1, <1>5 DEF RoundsGood
<1>6. ASSUME NEW spot \in 1..Len(r.buf),
             TagAt(r.buf, spot, r.in), \A j \in 1..(spot - 1) : ~TagAt(r.buf, j, r.in),
             ThinkStripper!Round(r).in = ~r.in, ThinkStripper!Round(r).buf = SubSeq(r.buf, spot + 3, Len(r.buf)),
             ThinkStripper!Round(r).out = r.out \o (IF r.in THEN <<>> ELSE SubSeq(r.buf, 1, spot - 1))
      PROVE  RoundsGood(w, o, l, k + 1, ThinkStripper!Round(r))
  <2> DEFINE b == r.buf
             i == r.in
             x == r.out
             g == SubSeq(b, spot + 3, Len(b))
             v == SubSeq(b, 1, spot - 1)
             ox == o \o x
             e == ThinkStripper!Round(r)
  <2>1. e.buf = g /\ e.in = (~i) /\ e.out = x \o (IF i THEN <<>> ELSE v)
    BY <1>6
  <2>2. b \in Seq(Letters) /\ i \in BOOLEAN /\ x \in Seq(Letters) /\ Len(b) \in Nat
    BY <1>2, <1>3, LenProperties
  <2>3. spot \in ThinkStripper!Starts(b, ThinkStripper!Tag(i))
    BY <1>6, <2>2, StartsIs
  <2>4. Len(b) <= l - k
    BY <2>3 DEF RoundsGood
  <2>5. spot - 1 \in Nat /\ spot - 1 <= Len(b)
    BY <2>2
  <2>6. v \in Seq(Letters)
    BY <2>2, <2>5, HeadIs
  <2>7. ox \in Seq(Letters) /\ Stands(w, i, b, ox)
    BY <1>1, <1>3, <2>2, ConcatProperties
  <2>8. TagAt(b, spot, i) /\ \A j \in 1..(spot - 1) : ~TagAt(b, j, i)
    BY <1>6
  <2>9. spot \in 1..Len(b)
    OBVIOUS
  <2> HIDE DEF b, i, x, ox, e
  <2>10. /\ Stands(w, ~i, SubSeq(b, spot + 3, Len(b)), IF i THEN ox ELSE ox \o SubSeq(b, 1, spot - 1))
         /\ Len(SubSeq(b, spot + 3, Len(b))) <= Len(b) - 1
    BY <1>3, <2>2, <2>7, <2>8, <2>9, TagTaken
  <2> HIDE DEF g, v
  <2>11. Stands(w, ~i, g, IF i THEN ox ELSE ox \o v) /\ Len(g) <= Len(b) - 1
    BY <2>10 DEF g, v
  <2>12. (IF i THEN ox ELSE ox \o v) = o \o e.out
    <3>1. CASE i
      <4>1. x \o <<>> = x
        BY <2>2, ConcatEmptySeq
      <4> QED
        BY <2>1, <3>1, <4>1 DEF ox
    <3>2. CASE ~i
      <4>1. (o \o x) \o v = o \o (x \o v)
        BY ONLY <1>3, <2>2, <2>6, JoinedTwice, Zenon
      <4> QED
        BY <2>1, <3>2, <4>1 DEF ox
    <3> QED
      BY <2>2, <3>1, <3>2
  <2>13. Stands(w, e.in, e.buf, o \o e.out)
    BY <2>1, <2>11, <2>12, Zenon
  <2>14. Len(e.buf) <= l - (k + 1)
    <3>1. e.buf \in Seq(ThinkStripper!Chars)
      BY <1>4 DEF e, RoundTypes
    <3>2. Len(e.buf) \in Nat /\ Len(e.buf) <= Len(b) - 1
      BY <2>1, <2>11, <3>1, LenProperties
    <3> QED
      BY <2>2, <2>4, <3>2
  <2> QED
    BY <1>4, <2>13, <2>14 DEF RoundsGood, e
<1> QED
  BY <1>1, <1>5, <1>6, RoundIs

\* What Feed makes of a text.
LEMMA RoundsStand ==
  ASSUME NEW w \in Seq(ThinkStripper!Chars), NEW i \in BOOLEAN, NEW b \in Seq(ThinkStripper!Chars), NEW o \in Seq(ThinkStripper!Chars), Stands(w, i, b, o)
  PROVE  /\ ThinkStripper!Rounds(i, b).in \in BOOLEAN /\ ThinkStripper!Rounds(i, b).buf \in Seq(ThinkStripper!Chars) /\ ThinkStripper!Rounds(i, b).out \in Seq(ThinkStripper!Chars)
         /\ Len(ThinkStripper!Rounds(i, b).buf) <= 2
         /\ Stands(w, ThinkStripper!Rounds(i, b).in, ThinkStripper!Rounds(i, b).buf, o \o ThinkStripper!Rounds(i, b).out)
<1> DEFINE len == Len(b)
           base == RoundRecord(i, b, <<>>)
           moves == [k \in 1..len |-> [r \in RoundTypes |-> ThinkStripper!Round(r)]]
           Solves(g) == g = [k \in 0..len |-> IF k = 0 THEN [in |-> i, buf |-> b, out |-> <<>>]
                                            ELSE ThinkStripper!Round(g[k - 1])]
<1>1. len \in Nat
  BY LenProperties
<1>2. \A r \in RoundTypes : ThinkStripper!Round(r) \in RoundTypes
  BY RoundIs
<1>3. moves \in [1..len -> [RoundTypes -> RoundTypes]]
  BY <1>2
<1>4. \A k \in 1..len : \A r \in RoundTypes : moves[k][r] = ThinkStripper!Round(r)
  OBVIOUS
<1> HIDE DEF moves
<1>5. base \in RoundTypes /\ base.in = i /\ base.buf = b /\ base.out = <<>>
  <2> DEFINE none == <<>>
  <2>1. none \in Seq(ThinkStripper!Chars)
    BY EmptySeq
  <2> HIDE DEF none
  <2>2. PICK e : e = RoundRecord(i, b, none)
    OBVIOUS
  <2>3. e \in RoundTypes /\ e.in = i /\ e.buf = b /\ e.out = none
    BY <2>1, <2>2, PutIs
  <2> QED
    BY <2>2, <2>3 DEF none
<1> HIDE DEF base
<1>6. PICK f \in [0..len -> RoundTypes] : f[0] = base /\ \A k \in 1..len : f[k] = moves[k][f[k - 1]]
  <2>1. Recursive(len, RoundTypes, base, moves)
    BY <1>1, <1>3, <1>5, Recursion
  <2> QED
    BY <2>1 DEF Recursive
<1>7. \A k \in 1..len : f[k] = ThinkStripper!Round(f[k - 1])
  <2> TAKE k \in 1..len
  <2>1. k - 1 \in 0..len
    BY <1>1
  <2>2. f[k - 1] \in RoundTypes
    BY <1>6, <2>1
  <2> QED
    BY <1>4, <1>6, <2>2
<1>8. Solves(f)
  <2> DEFINE e == [k \in 0..len |-> IF k = 0 THEN base ELSE ThinkStripper!Round(f[k - 1])]
  <2>1. ASSUME NEW k \in 0..len PROVE f[k] = e[k]
    <3>1. k = 0 \/ k \in 1..len
      BY <1>1
    <3> QED
      BY <3>1, <1>6, <1>7
  <2>2. f = e
    BY <1>6, <2>1
  <2> QED
    BY <2>2 DEF base, RoundRecord
<1> DEFINE g == CHOOSE h : Solves(h)
<1>9. Solves(g)
  BY <1>8
<1>10. \A k \in 0..len : g[k] = IF k = 0 THEN base ELSE ThinkStripper!Round(g[k - 1])
  <2> HIDE DEF g
  <2> QED
    BY <1>9 DEF base, RoundRecord
<1> DEFINE r == g[len]
           rest == ThinkStripper!Kept(r.in, r.buf)
<1>11. ThinkStripper!Rounds(i, b) = [rest EXCEPT !.out = r.out \o @]
  BY DEF ThinkStripper!Rounds
<1> HIDE DEF g, Solves
<1>12. ASSUME NEW k \in 0..len PROVE RoundsGood(w, o, len, k, g[k])
  <2> DEFINE Q == {m \in 0..len : RoundsGood(w, o, len, m, g[m])}
  <2>1. 0 \in Q
    <3>1. g[0] = base
      BY <1>1, <1>10
    <3>2. o \o <<>> = o
      BY ConcatEmptySeq
    <3>3. Len(base.buf) <= len - 0
      BY <1>1, <1>5
    <3>4. RoundsGood(w, o, len, 0, base)
      BY <1>5, <3>2, <3>3 DEF RoundsGood
    <3> QED
      BY <1>1, <3>1, <3>4
  <2>2. \A m \in 1..len : m - 1 \in Q => m \in Q
    <3> SUFFICES ASSUME NEW m \in 1..len, m - 1 \in Q PROVE m \in Q
      OBVIOUS
    <3>1. m \in 0..len /\ m # 0 /\ m - 1 \in Nat /\ (m - 1) + 1 = m
      BY <1>1
    <3>2. RoundsGood(w, o, len, m - 1, g[m - 1])
      OBVIOUS
    <3>3. g[m] = ThinkStripper!Round(g[m - 1])
      BY <1>10, <3>1
    <3> HIDE DEF Q, len
    <3>4. RoundsGood(w, o, len, (m - 1) + 1, ThinkStripper!Round(g[m - 1]))
      BY <1>1, <3>1, <3>2, RoundGood
    <3> QED
      BY <3>1, <3>3, <3>4 DEF Q
  <2> HIDE DEF Q
  <2>3. \A m \in 0..len : m \in Q
    BY <1>1, <2>1, <2>2, OneByOne
  <2> QED
    BY <2>3 DEF Q
<1>13. RoundsGood(w, o, len, len, r)
  BY <1>1, <1>12
<1> HIDE DEF r, len
<1>14. r.in \in BOOLEAN /\ r.buf \in Seq(ThinkStripper!Chars) /\ r.out \in Seq(ThinkStripper!Chars) /\ Stands(w, r.in, r.buf, o \o r.out)
  BY <1>13 DEF RoundsGood, RoundTypes
<1>15. ThinkStripper!Starts(r.buf, ThinkStripper!Tag(r.in)) = {}
  <2>1. CASE Len(r.buf) <= len - len
    <3>1. Len(r.buf) = 0
      BY <1>1, <1>14, <2>1, LenProperties
    <3> QED
      BY <3>1 DEF ThinkStripper!Starts
  <2> QED
    BY <1>13, <2>1 DEF RoundsGood
<1> DEFINE m == Len(r.buf) - ThinkStripper!Keep(r.buf, ThinkStripper!Tag(r.in))
           left == SubSeq(r.buf, m + 1, Len(r.buf))
           visible == IF r.in THEN <<>> ELSE SubSeq(r.buf, 1, m)
           c == r.buf
           x == r.out
           ox == o \o x
<1>16. rest.in = r.in /\ rest.buf = left /\ rest.out = visible /\ rest = RoundRecord(r.in, left, visible)
  BY DEF ThinkStripper!Kept, RoundRecord
<1>17. w \in Seq(Letters) /\ o \in Seq(Letters) /\ r.buf \in Seq(Letters) /\ x \in Seq(Letters) /\ ox \in Seq(Letters)
  <2>1. ox \in Seq(ThinkStripper!Chars)
    BY <1>14, ConcatProperties
  <2> QED
    BY <1>14, <2>1, CharsAre
<1>18. Stands(w, r.in, r.buf, ox)
  BY <1>14
<1> HIDE DEF ox
<1>19. /\ m \in Nat /\ m <= Len(r.buf) /\ Len(left) <= 2
       /\ Stands(w, r.in, left, IF r.in THEN ox ELSE ox \o SubSeq(r.buf, 1, m))
  <2> DEFINE y == r.buf
             i2 == r.in
  <2>1. y \in Seq(Letters) /\ i2 \in BOOLEAN /\ Stands(w, i2, y, ox) /\ ThinkStripper!Starts(y, ThinkStripper!Tag(i2)) = {} /\ m = Len(y) - ThinkStripper!Keep(y, ThinkStripper!Tag(i2))
    BY <1>14, <1>15, <1>17, <1>18
  <2> HIDE DEF y, i2, m
  <2>2. /\ m \in Nat /\ m <= Len(y) /\ Len(SubSeq(y, m + 1, Len(y))) <= 2
        /\ Stands(w, i2, SubSeq(y, m + 1, Len(y)), IF i2 THEN ox ELSE ox \o SubSeq(y, 1, m))
    BY <1>17, <2>1, RestStands
  <2> QED
    BY <2>2 DEF y, i2
<1> HIDE DEF m, rest
<1>20. left \in Seq(ThinkStripper!Chars) /\ SubSeq(r.buf, 1, m) \in Seq(ThinkStripper!Chars)
  <2>1. Len(r.buf) \in Nat
    BY <1>14, LenProperties
  <2>2. m + 1 \in Nat /\ m + 1 >= 1 /\ m + 1 <= Len(r.buf) + 1
    BY <1>19, <2>1
  <2> QED
    BY <1>14, <1>19, <2>2, TailIs, HeadIs
<1>21. visible \in Seq(ThinkStripper!Chars) /\ SubSeq(r.buf, 1, m) \in Seq(Letters)
  BY <1>20, EmptySeq, CharsAre
<1>22. (IF r.in THEN ox ELSE ox \o SubSeq(r.buf, 1, m)) = o \o (x \o visible)
  <2>1. CASE r.in
    <3>1. x \o <<>> = x
      BY <1>17, ConcatEmptySeq
    <3> QED
      BY <2>1, <3>1 DEF ox
  <2>2. CASE ~r.in
    <3> DEFINE v == SubSeq(r.buf, 1, m)
    <3>1. v \in Seq(Letters) /\ visible = v
      BY <1>21, <2>2
    <3> HIDE DEF v, visible, x
    <3>2. (o \o x) \o v = o \o (x \o v)
      BY ONLY <1>17, <3>1, JoinedTwice, Zenon
    <3> QED
      BY <2>2, <3>1, <3>2 DEF ox, v
  <2> QED
    BY <1>14, <2>1, <2>2
<1> HIDE DEF left, visible, x
<1>23. x \o visible \in Seq(ThinkStripper!Chars)
  <2>1. x \in Seq(ThinkStripper!Chars)
    BY <1>14 DEF x
  <2> QED
    BY <1>21, <2>1, ConcatProperties
<1> DEFINE all == x \o visible
<1>24. ThinkStripper!Rounds(i, b) = RoundRecord(r.in, left, all)
  BY <1>11, <1>16 DEF RoundRecord, x
<1>25. Stands(w, r.in, left, o \o all)
  BY <1>19, <1>22 DEF left
<1>26. all \in Seq(ThinkStripper!Chars)
  BY <1>23
<1> DEFINE i3 == r.in
           z == ThinkStripper!Rounds(i, b)
<1>27. i3 \in BOOLEAN /\ z = RoundRecord(i3, left, all)
  BY <1>14, <1>24
<1> HIDE DEF all, i3, z
<1>28. z.in = i3 /\ z.buf = left /\ z.out = all
  BY <1>20, <1>26, <1>27, PutIs
<1>29. Len(left) <= 2
  BY <1>19 DEF left
<1> QED
  BY <1>20, <1>25, <1>26, <1>27, <1>28, <1>29 DEF z, i3

\* While the stream goes on what is held back is at most two characters, and the reading of
\* whatever the answer becomes stands before them; at the end what is shown is the text.
ThinkInv ==
  /\ inThink \in BOOLEAN /\ thinkStripperEnded \in BOOLEAN
  /\ buf \in Seq(ThinkStripper!Chars) /\ thinkStripperShown \in Seq(ThinkStripper!Chars) /\ thinkStripperWhole \in Seq(ThinkStripper!Chars)
  /\ ~thinkStripperEnded => Len(buf) <= 2 /\ Stands(thinkStripperWhole, inThink, buf, thinkStripperShown)
  /\ thinkStripperEnded => thinkStripperShown = ThinkStripper!Text(thinkStripperWhole)

\* Before the first character.
LEMMA BeginStands ==
  ASSUME NEW e \in Seq(ThinkStripper!Chars), e = <<>>, NEW i \in BOOLEAN, i = FALSE
  PROVE  Stands(e, i, e, e) /\ Len(e) = 0
<1>1. Len(e) = 0
  OBVIOUS
<1>2. Len(e) <= Len(e) /\ Len(e) - Len(e) = 0 /\ 0 <= Len(e) /\ 0 + Len(e) <= Len(e)
  BY <1>1
<1>3. \A j \in 1..Len(e) : FALSE
  BY <1>1
<1>4. Lies(e, 0, e)
  BY <1>2, <1>3 DEF Lies
<1>5. ASSUME NEW t \in Seq(Letters), NEW f, Reads(t, f) PROVE SpotIs(f[0], i, 0, e)
  <2>1. f[0] = Begin
    BY <1>5 DEF Reads
  <2>2. Begin.in = i /\ Begin.skip = 0 /\ Begin.out = e
    BY DEF Begin
  <2> QED
    BY <2>1, <2>2 DEF SpotIs
<1>6. Stand(e, 0, i, e)
  BY <1>2, <1>5 DEF Stand
<1> QED
  BY <1>1, <1>2, <1>4, <1>6 DEF Stands

\* Nothing is read and nothing is shown.
LEMMA ThinkInit == ThinkStripper!Init => ThinkInv
<1> SUFFICES ASSUME ThinkStripper!Init PROVE ThinkInv
  OBVIOUS
<1>1. /\ inThink \in BOOLEAN /\ inThink = FALSE /\ buf = <<>> /\ thinkStripperShown = buf /\ thinkStripperWhole = buf
      /\ thinkStripperEnded \in BOOLEAN /\ thinkStripperEnded = FALSE
  BY DEF ThinkStripper!Init
<1>2. buf \in Seq(ThinkStripper!Chars)
  BY <1>1, EmptySeq
<1>3. Stands(buf, inThink, buf, buf) /\ Len(buf) = 0
  BY <1>1, <1>2, BeginStands
<1>4. Stands(thinkStripperWhole, inThink, buf, thinkStripperShown) /\ Len(buf) <= 2
  BY <1>1, <1>3
<1> QED
  BY <1>1, <1>2, <1>4 DEF ThinkInv

\* A piece of the stream: what is known of the answer is still known.
LEMMA Longer ==
  ASSUME NEW w \in Seq(ThinkStripper!Chars), NEW b \in Seq(ThinkStripper!Chars), NEW d \in Seq(ThinkStripper!Chars), NEW i \in BOOLEAN, NEW o \in Seq(ThinkStripper!Chars),
         Stands(w, i, b, o)
  PROVE  Stands(w \o d, i, b \o d, o)
<1> DEFINE q == Len(w) - Len(b)
           x == w \o d
           y == b \o d
<1>1. Len(w) \in Nat /\ Len(b) \in Nat /\ Len(d) \in Nat
  BY LenProperties
<1>2. Len(b) <= Len(w) /\ Lies(w, q, b) /\ Stand(w, q, i, o)
  BY DEF Stands
<1>3. /\ x \in Seq(ThinkStripper!Chars) /\ Len(x) = Len(w) + Len(d)
      /\ \A j \in 1..(Len(w) + Len(d)) : x[j] = IF j <= Len(w) THEN w[j] ELSE d[j - Len(w)]
  BY ConcatProperties
<1>4. /\ y \in Seq(ThinkStripper!Chars) /\ Len(y) = Len(b) + Len(d)
      /\ \A j \in 1..(Len(b) + Len(d)) : y[j] = IF j <= Len(b) THEN b[j] ELSE d[j - Len(b)]
  BY ConcatProperties
<1>5. q \in Nat /\ q + Len(b) = Len(w)
  BY <1>1, <1>2
<1> HIDE DEF q, x, y
<1>6. Lies(x, q, y)
  <2>1. q + Len(y) <= Len(x)
    BY <1>1, <1>3, <1>4, <1>5
  <2>2. ASSUME NEW j \in 1..Len(y) PROVE x[q + j] = y[j]
    <3>1. q + j \in 1..(Len(w) + Len(d)) /\ j \in 1..(Len(b) + Len(d))
      BY <1>1, <1>4, <1>5
    <3>2. CASE j <= Len(b)
      <4>1. q + j <= Len(w) /\ j \in 1..Len(b)
        BY <1>1, <1>5, <3>1, <3>2
      <4>2. w[q + j] = b[j]
        BY <1>2, <4>1 DEF Lies
      <4> QED
        BY <1>3, <1>4, <3>1, <3>2, <4>1, <4>2
    <3>3. CASE ~(j <= Len(b))
      <4>1. ~(q + j <= Len(w)) /\ (q + j) - Len(w) = j - Len(b)
        <5> DEFINE lw == Len(w)
                   lb == Len(b)
        <5>1. lw \in Nat /\ lb \in Nat /\ q \in Nat /\ q + lb = lw /\ j \in Nat /\ ~(j <= lb)
          BY <1>1, <1>5, <3>1, <3>3
        <5> HIDE DEF lw, lb
        <5>2. ~(q + j <= lw) /\ (q + j) - lw = j - lb
          BY ONLY <5>1
        <5> QED
          BY <5>2 DEF lw, lb
      <4> QED
        BY <1>3, <1>4, <3>1, <3>3, <4>1
    <3> QED
      BY <3>2, <3>3
  <2> QED
    BY <2>1, <2>2 DEF Lies
<1>7. Lies(x, 0, w)
  <2>1. 0 + Len(w) <= Len(x)
    BY <1>1, <1>3
  <2>2. ASSUME NEW j \in 1..Len(w) PROVE x[0 + j] = w[j]
    <3>1. 0 + j = j /\ j \in 1..(Len(w) + Len(d)) /\ j <= Len(w)
      BY <1>1
    <3> QED
      BY <1>3, <3>1
  <2> QED
    BY <2>1, <2>2 DEF Lies
<1>8. x \in Seq(Letters) /\ w \in Seq(Letters)
  BY <1>3, CharsAre
<1>9. Stand(x, q, i, o)
  <2>1. ASSUME NEW t \in Seq(Letters), NEW f, Lies(t, 0, x), Reads(t, f) PROVE SpotIs(f[q], i, 0, o)
    <3>1. Lies(t, 0, w)
      BY <1>7, <1>8, <2>1, LiesIn
    <3> QED
      BY <1>2, <2>1, <3>1 DEF Stand
  <2>2. q <= Len(x)
    BY <1>1, <1>3, <1>5
  <2> QED
    BY <2>1, <2>2 DEF Stand
<1>10. Len(y) <= Len(x) /\ Len(x) - Len(y) = q
  <2> DEFINE lw == Len(w)
             lb == Len(b)
             ld == Len(d)
             lx == Len(x)
             ly == Len(y)
  <2>1. lw \in Nat /\ lb \in Nat /\ ld \in Nat /\ q \in Nat /\ q + lb = lw /\ lx = lw + ld /\ ly = lb + ld
    BY <1>1, <1>3, <1>4, <1>5
  <2> HIDE DEF lw, lb, ld, lx, ly
  <2>2. lx \in Nat /\ ly \in Nat
    BY ONLY <2>1
  <2>3. ly <= lx /\ lx - ly = q
    BY ONLY <2>1, <2>2
  <2> QED
    BY <2>3 DEF lx, ly
<1> QED
  BY <1>6, <1>9, <1>10 DEF Stands, x, y

\* What is held back is shown spot the end, when it is no thought.
LEMMA AtTheEnd ==
  ASSUME NEW w \in Seq(ThinkStripper!Chars), NEW b \in Seq(ThinkStripper!Chars), NEW i \in BOOLEAN, NEW o \in Seq(ThinkStripper!Chars),
         Stands(w, i, b, o), Len(b) <= 2
  PROVE  ThinkStripper!Text(w) = IF i THEN o ELSE o \o b
<1> DEFINE q == Len(w) - Len(b)
<1>1. w \in Seq(Letters) /\ b \in Seq(Letters) /\ o \in Seq(Letters)
  BY CharsAre
<1>2. Len(w) \in Nat /\ Len(b) \in Nat
  BY LenProperties
<1>3. Len(b) <= Len(w) /\ Lies(w, q, b) /\ Stand(w, q, i, o)
  BY DEF Stands
<1>4. PICK f : Reads(w, f) /\ ThinkStripper!Text(w) = f[Len(w)].out
  BY <1>1, TextIs
<1>5. q \in Nat /\ q + Len(b) = Len(w)
  BY <1>2, <1>3
<1> HIDE DEF q
<1>6. Lies(w, 0, w)
  BY <1>2 DEF Lies
<1>7. SpotIs(f[q], i, 0, o)
  BY <1>1, <1>3, <1>4, <1>6 DEF Stand
<1>8. \A j \in 1..Len(b) : w[q + j] = b[j]
  BY <1>3 DEF Lies
<1>9. ASSUME NEW j \in 1..Len(b) PROVE ~TagAt(w, q + j, i)
  <2>1. ~((q + j) + 2 <= Len(w))
    BY <1>2, <1>5
  <2> QED
    BY <2>1 DEF TagAt
<1>10. q + Len(b) <= Len(w)
  BY <1>2, <1>5
<1>11. SpotIs(f[q + Len(b)], i, 0, IF i THEN o ELSE o \o b)
  BY <1>1, <1>2, <1>4, <1>5, <1>7, <1>8, <1>9, <1>10, StretchRead
<1> QED
  BY <1>4, <1>5, <1>11 DEF SpotIs

\* What is shown before the end is part of it.
LEMMA BeforeTheEnd ==
  ASSUME NEW w \in Seq(ThinkStripper!Chars), NEW b \in Seq(ThinkStripper!Chars), NEW i \in BOOLEAN, NEW o \in Seq(ThinkStripper!Chars),
         Stands(w, i, b, o)
  PROVE  ThinkStripper!IsPrefix(o, ThinkStripper!Text(w \o <<"x">>))
<1> DEFINE q == Len(w) - Len(b)
           x == <<"x">>
           t == w \o x
<1>1. w \in Seq(Letters) /\ x \in Seq(Letters)
  <2>1. "x" \in Letters
    BY DEF Letters
  <2>2. x \in Seq(Letters)
    BY <2>1
  <2>3. w \in Seq(Letters)
    BY CharsAre
  <2> QED
    BY <2>2, <2>3
<1>2. Len(w) \in Nat /\ Len(b) \in Nat /\ Len(x) \in Nat
  BY <1>1, LenProperties
<1> HIDE DEF x
<1>3. /\ t \in Seq(Letters) /\ Len(t) = Len(w) + Len(x)
      /\ \A j \in 1..(Len(w) + Len(x)) : t[j] = IF j <= Len(w) THEN w[j] ELSE x[j - Len(w)]
  BY <1>1, ConcatProperties
<1> HIDE DEF t
<1>4. Len(b) <= Len(w) /\ Lies(w, q, b) /\ Stand(w, q, i, o)
  BY DEF Stands
<1>5. q \in 0..Len(t)
  BY <1>2, <1>3, <1>4
<1> HIDE DEF q
<1>6. Lies(t, 0, w)
  <2>1. 0 + Len(w) <= Len(t)
    BY <1>2, <1>3
  <2>2. ASSUME NEW j \in 1..Len(w) PROVE t[0 + j] = w[j]
    <3>1. 0 + j = j /\ j \in 1..(Len(w) + Len(x)) /\ j <= Len(w)
      BY <1>2
    <3> QED
      BY <1>3, <3>1
  <2> QED
    BY <2>1, <2>2 DEF Lies
<1>7. PICK f : Reads(t, f) /\ ThinkStripper!Text(t) = f[Len(t)].out
  BY <1>3, TextIs
<1>8. SpotIs(f[q], i, 0, o)
  BY <1>3, <1>4, <1>6, <1>7 DEF Stand
<1>9. ThinkStripper!IsPrefix(f[q].out, f[Len(t)].out)
  BY <1>3, <1>5, <1>7, ReadGrows
<1>10. f[q].out = o
  BY <1>8 DEF SpotIs
<1>11. ThinkStripper!IsPrefix(o, ThinkStripper!Text(t))
  BY <1>7, <1>9, <1>10
<1> QED
  BY <1>11 DEF t, x

\* A piece and the end of the stream keep the invariant.
LEMMA ThinkStep == ThinkInv /\ [ThinkStripper!Next]_ThinkStripper!vars => ThinkInv'
<1> SUFFICES ASSUME ThinkInv, [ThinkStripper!Next]_ThinkStripper!vars PROVE ThinkInv'
  OBVIOUS
<1>0. /\ inThink \in BOOLEAN /\ thinkStripperEnded \in BOOLEAN
      /\ buf \in Seq(ThinkStripper!Chars) /\ thinkStripperShown \in Seq(ThinkStripper!Chars) /\ thinkStripperWhole \in Seq(ThinkStripper!Chars)
  BY DEF ThinkInv
<1>1. CASE ThinkStripper!Flush
  <2>1. thinkStripperEnded = FALSE /\ Len(buf) <= 2 /\ Stands(thinkStripperWhole, inThink, buf, thinkStripperShown)
    BY <1>0, <1>1 DEF ThinkStripper!Flush, ThinkInv
  <2>2. inThink' = inThink /\ buf' = buf /\ thinkStripperWhole' = thinkStripperWhole /\ thinkStripperEnded' = TRUE /\ thinkStripperShown' = IF inThink THEN thinkStripperShown ELSE thinkStripperShown \o buf
    BY <1>1 DEF ThinkStripper!Flush
  <2>3. ThinkStripper!Text(thinkStripperWhole) = IF inThink THEN thinkStripperShown ELSE thinkStripperShown \o buf
    BY <1>0, <2>1, AtTheEnd
  <2>4. thinkStripperShown' = ThinkStripper!Text(thinkStripperWhole')
    BY <2>2, <2>3
  <2>5. thinkStripperShown \o buf \in Seq(ThinkStripper!Chars)
    BY <1>0, ConcatProperties
  <2>6. thinkStripperShown' \in Seq(ThinkStripper!Chars)
    BY <1>0, <2>2, <2>5
  <2> QED
    BY <1>0, <2>2, <2>4, <2>6 DEF ThinkInv
<1>2. ASSUME NEW len \in 1..2, NEW delta \in [1..len -> ThinkStripper!Chars], ThinkStripper!Feed(delta) PROVE ThinkInv'
  <2>1. delta \in Seq(ThinkStripper!Chars)
    BY SeqDef
  <2>2. thinkStripperEnded = FALSE /\ Stands(thinkStripperWhole, inThink, buf, thinkStripperShown)
    BY <1>0, <1>2 DEF ThinkStripper!Feed, ThinkInv
  <2> DEFINE b == buf \o delta
             w == thinkStripperWhole \o delta
             r == ThinkStripper!Rounds(inThink, b)
  <2>3. inThink' = r.in /\ buf' = r.buf /\ thinkStripperShown' = thinkStripperShown \o r.out /\ thinkStripperWhole' = w /\ thinkStripperEnded' = thinkStripperEnded
    BY <1>2 DEF ThinkStripper!Feed
  <2>4. b \in Seq(ThinkStripper!Chars) /\ w \in Seq(ThinkStripper!Chars)
    BY <1>0, <2>1, ConcatProperties
  <2>5. Stands(w, inThink, b, thinkStripperShown)
    BY <1>0, <2>1, <2>2, Longer
  <2> HIDE DEF b, w, r
  <2>6. /\ r.in \in BOOLEAN /\ r.buf \in Seq(ThinkStripper!Chars) /\ r.out \in Seq(ThinkStripper!Chars) /\ Len(r.buf) <= 2
        /\ Stands(w, r.in, r.buf, thinkStripperShown \o r.out)
    BY <1>0, <2>4, <2>5, RoundsStand DEF r
  <2>7. thinkStripperShown \o r.out \in Seq(ThinkStripper!Chars)
    BY <1>0, <2>6, ConcatProperties
  <2>8. Stands(thinkStripperWhole', inThink', buf', thinkStripperShown')
    BY <2>3, <2>6
  <2> QED
    BY <1>0, <2>2, <2>3, <2>4, <2>6, <2>7, <2>8 DEF ThinkInv
<1>3. CASE UNCHANGED ThinkStripper!vars
  BY <1>3 DEF ThinkInv, ThinkStripper!vars
<1> QED
  BY <1>1, <1>2, <1>3 DEF ThinkStripper!Next

\* What the invariant says of thoughts.
LEMMA ThinkTold == ThinkInv => ThinkStripper!TypeOK /\ ThinkStripper!ThoughtsAreTakenOut
<1> SUFFICES ASSUME ThinkInv PROVE ThinkStripper!TypeOK /\ ThinkStripper!ThoughtsAreTakenOut
  OBVIOUS
<1>1. ThinkStripper!TypeOK
  BY DEF ThinkInv, ThinkStripper!TypeOK
<1>2. CASE thinkStripperEnded
  <2>1. thinkStripperShown = ThinkStripper!Text(thinkStripperWhole)
    BY <1>2 DEF ThinkInv
  <2> QED
    BY <1>1, <1>2, <2>1, Zenon DEF ThinkStripper!ThoughtsAreTakenOut
<1>3. CASE ~thinkStripperEnded
  <2>1. ThinkStripper!IsPrefix(thinkStripperShown, ThinkStripper!Text(thinkStripperWhole \o <<"x">>))
    BY <1>3, BeforeTheEnd DEF ThinkInv
  <2> QED
    BY <1>1, <1>3, <2>1, Zenon DEF ThinkStripper!ThoughtsAreTakenOut
<1> QED
  BY <1>1, <1>2, <1>3 DEF ThinkInv

-----------------------------------------------------------------------------
(* All of them. *)

\* Each component begins as it does alone.
LEMMA InitAll ==
  ASSUME MCInit
  PROVE  /\ IInv /\ TuiInv /\ PanesInv /\ SidebarInv
         /\ SettingsInv /\ PromptInv /\ TranscriptInv
         /\ LlamaInv /\ ThinkInv
<1>1. /\ Init /\ Tui!Init /\ Panes!Init /\ Sidebar!Init
      /\ Settings!Init /\ Prompt!Init /\ Transcript!Init
      /\ LlamaDSL!Init /\ ThinkStripper!Init
  BY DEF MCInit
<1> QED
  BY <1>1, InitIInv, InitTui, InitPanes, InitSidebar, InitSettings, InitPrompt,
     InitTranscript, LlamaInit, ThinkInit

\* A step is one of one component, or of none.
LEMMA StepOfEach ==
  ASSUME [MCNext]_MCVars
  PROVE  /\ [Next]_vars /\ [Tui!Next]_Tui!vars /\ [Panes!Next]_Panes!vars
         /\ [Sidebar!Next]_Sidebar!vars /\ [Settings!Next]_Settings!vars
         /\ [Prompt!Next]_Prompt!vars /\ [Transcript!Next]_Transcript!vars
         /\ [LlamaDSL!Next]_LlamaDSL!vars /\ [ThinkStripper!Next]_ThinkStripper!vars
<1>1. [Next]_vars
  BY DEF MCNext, MCVars
<1>2. [Tui!Next]_Tui!vars
  BY DEF MCNext, MCVars, tuiVars, Tui!vars, Tui!ui, Tui!master
<1>3. [Panes!Next]_Panes!vars
  BY DEF MCNext, MCVars, panesVars, Panes!vars, Panes!worker
<1>4. [Sidebar!Next]_Sidebar!vars
  BY DEF MCNext, MCVars, sidebarVars, Sidebar!vars, Sidebar!agents, Sidebar!popover
<1>5. [Settings!Next]_Settings!vars
  BY DEF MCNext, MCVars, settingsVars, Settings!vars, Settings!state
<1>6. [Prompt!Next]_Prompt!vars
  BY DEF MCNext, MCVars, promptVars, Prompt!vars
<1>7. [Transcript!Next]_Transcript!vars
  BY DEF MCNext, MCVars, transcriptVars, Transcript!vars
<1>8. [LlamaDSL!Next]_LlamaDSL!vars
  BY DEF MCNext, MCVars, llamaVars, LlamaDSL!vars
<1>9. [ThinkStripper!Next]_ThinkStripper!vars
  BY DEF MCNext, MCVars, thinkStripperVars, ThinkStripper!vars
<1> QED
  BY <1>1, <1>2, <1>3, <1>4, <1>5, <1>6, <1>7, <1>8, <1>9

\* Every component keeps its inductive invariant.
LEMMA AllInvariant ==
  MCSpec => [](/\ IInv /\ TuiInv /\ PanesInv /\ SidebarInv
               /\ SettingsInv /\ PromptInv /\ TranscriptInv
               /\ LlamaInv /\ ThinkInv)
<1> DEFINE Inv == /\ IInv /\ TuiInv /\ PanesInv /\ SidebarInv
                  /\ SettingsInv /\ PromptInv /\ TranscriptInv
                  /\ LlamaInv /\ ThinkInv
<1>1. MCInit => Inv
  BY InitAll
<1>2. Inv /\ [MCNext]_MCVars => Inv'
  <2> SUFFICES ASSUME Inv, [MCNext]_MCVars PROVE Inv'
    OBVIOUS
  <2>1. IInv' /\ TuiInv' /\ PanesInv' /\ SidebarInv'
    BY StepOfEach, StepIInv, TuiStep, PanesStep, SidebarStep
  <2>2. SettingsInv' /\ PromptInv' /\ TranscriptInv'
    BY StepOfEach, SettingsStep, PromptStep, TranscriptStep
  <2>3. LlamaInv' /\ ThinkInv'
    BY StepOfEach, LlamaStep, ThinkStep
  <2> QED
    BY <2>1, <2>2, <2>3
<1> HIDE DEF Inv
<1>3. MCSpec => []Inv
  BY <1>1, <1>2, PTL DEF MCSpec
<1> QED
  BY <1>3 DEF Inv

\* The types of every component: what each of them keeps is what its code can hold,
\* within the bounds of its constants.
THEOREM UiTypeCorrect == MCSpec => []MCTypeOK
<1>1. IInv => TypeOK
  BY DEF IInv, Types, TypeOK, States
<1>2. TuiInv /\ PanesInv /\ SidebarInv => Tui!TypeOK /\ Panes!TypeOK /\ Sidebar!TypeOK
  BY TuiTold, PanesTold, SidebarTold
<1>3. SettingsInv /\ PromptInv /\ TranscriptInv =>
        Settings!TypeOK /\ Prompt!TypeOK /\ Transcript!TypeOK
  BY SettingsTold, PromptTold, TranscriptTold
<1>4. LlamaInv /\ ThinkInv => LlamaDSL!TypeOK /\ ThinkStripper!TypeOK
  BY LlamaTold, ThinkTold
<1>5. IInv /\ TuiInv /\ PanesInv /\ SidebarInv /\ SettingsInv /\ PromptInv /\ TranscriptInv
        /\ LlamaInv /\ ThinkInv => MCTypeOK
  BY <1>1, <1>2, <1>3, <1>4 DEF MCTypeOK
<1> QED
  BY <1>5, AllInvariant, PTL

\* What the screen says of workers is true: once the events of a worker that has ended
\* are read its pane shows the end, however pauses and kills overtook it; the rows that
\* Tab goes through are the rows drawn, every worker and every shell is behind one of
\* them or in the list of the older ones, and a popover views what it marks.
THEOREM ScreenIsTrue == MCSpec => []PanesAreTrue
<1>1. PanesInv /\ SidebarInv => PanesAreTrue
  BY PanesTold, SidebarTold DEF PanesAreTrue
<1> QED
  BY <1>1, AllInvariant, PTL

\* What is said stays in order: the master reads the user's messages as they were typed,
\* whether they went through the queue or past it, and a pane has every text, call and
\* result in its order and loses none through errors, retries and Esc.
THEOREM OrderIsKept == MCSpec => []SaidInOrder
<1>1. TuiInv /\ TranscriptInv => SaidInOrder
  BY TuiTold, TranscriptTold DEF SaidInOrder
<1> QED
  BY <1>1, AllInvariant, PTL

\* What was entered is what is used: the form is made for the providers that are checked
\* when it opens, and the history file has this session's entries, between the two writes
\* of a rewrite, too.
THEOREM WhatWasEnteredIsUsed == MCSpec => []EntriesAreKept
<1>1. SettingsInv /\ PromptInv => EntriesAreKept
  BY SettingsTold, PromptTold DEF EntriesAreKept
<1> QED
  BY <1>1, AllInvariant, PTL

\* However long the answer and wherever the stream cuts it: the parser of the local models'
\* calls shows the same text and runs the same tools as it would for the answer in one piece,
\* and the filter of their thoughts shows the text without them, and never takes any back.
THEOREM CutsAlike == MCSpec => []CutsDoNotMatter
<1>1. LlamaInv /\ ThinkInv => CutsDoNotMatter
  BY LlamaTold, ThinkTold DEF CutsDoNotMatter
<1> QED
  BY <1>1, AllInvariant, PTL
=============================================================================
