---------------------------- MODULE ToolsProofs -----------------------------
(***************************************************************************)
(* Proofs about what the tools keep, for all callers, files, keys, shells  *)
(* and bounds: the components of MCTools one after the other, each with    *)
(* its inductive invariant, and at the end the invariants of MCTools.  The *)
(* component's own lemmas speak of its instance in MCTools, whose          *)
(* variables have the names they have there.                               *)
(*                                                                         *)
(* Bus.  Publish holds no lock while it serves, so what makes the log      *)
(* complete is not an order of the events but an order within each of      *)
(* them.  IInv states it: who subscribes finds the logger in place; a      *)
(* publication that still has somebody to serve has the log before it or   *)
(* behind it; and so what lies in a subscription's channel is in the log.  *)
(*                                                                         *)
(* FileEdits.  FilesInv ties a call to the locks it holds, to the content  *)
(* it saw when it had them, and to the checkpoint of that content; what a  *)
(* transaction has done so far is in the list of changes, from its first   *)
(* step on, so that its rollback finds all of it.                          *)
(*                                                                         *)
(* Todo.  TodoInv: the file holds the list that was last shown, a loaded   *)
(* list that nothing has gone wrong with is that list, and both have their *)
(* ids from the numbers given out.                                         *)
(*                                                                         *)
(* Memory.  MemoryInv: a key that was said to be kept has nobody at work   *)
(* on it and one fact, in the map and where a restart will look; a caller  *)
(* alone on its key finds in the file what it has written.                 *)
(*                                                                         *)
(* Update.  UpdateInv: what has been fetched and not refused is whole or   *)
(* as bad as its release, the staged file is a copy of it, and the program *)
(* in place is the one that was there until the very step that moves the   *)
(* staged file onto it.                                                    *)
(*                                                                         *)
(* ShellSession.  SessionInv: the ring holds the end of all that was       *)
(* stored, cell by cell, and a waiter that is to scan or sleeps has passed *)
(* over no sentinel that the ring still holds; the step back that a scan   *)
(* without a match takes is what keeps it true when the sentinel is cut.   *)
(*                                                                         *)
(* Shells.  ShellsInv: an id belongs to the caller that opens it, then to  *)
(* the map; a shell that was announced has its pane, or the event that     *)
(* opens it is on its way, and behind that the one that ends it.           *)
(*                                                                         *)
(* ReadCache.  ReadInv: what the cache says of a request is what the       *)
(* request was answered with, by its number, whatever happened since.      *)
(***************************************************************************)
EXTENDS MCTools, FiniteSetTheorems, SequenceTheorems, WellFoundedInduction, TLAPS

Types ==
  /\ subs \in SUBSET Subscribers /\ sink \in BOOLEAN
  /\ chan \in [Subscribers -> Seq(Event)]
  /\ \A s \in Subscribers : Len(chan[s]) <= Cap
  /\ log \in SUBSET Event /\ acted \in SUBSET Event
  /\ publishing \in [Publishers -> SUBSET Event]
  /\ \A p \in Publishers : \A e, f \in publishing[p] : e = f
  /\ targets \in [Publishers -> SUBSET (Subscribers \cup {"log"})]
  /\ sent \in [Publishers -> 0..MaxEvents]

\* The clients' variables.
ClientTypes ==
  /\ search \in {"idle", "ready", "waiting", "found", "failed"}
  /\ worker \in {"none", "running", "ending", "ended"}
  /\ front \in {"cli", "cliWait", "exec", "execWait", "over"}
  /\ asked \in 0..MaxPrompts /\ inbox \in Nat /\ turn \in BOOLEAN

\* Nobody subscribes before the logger has been added.
SinkFirst == subs # {} => sink

\* A publication that somebody waits for is in the log, or goes there next.
LogIsNext ==
  \A p \in Publishers :
    targets[p] = {} \/ "log" \in targets[p] \/ publishing[p] \subseteq log

\* What waits in a channel is in the log.
ChannelsAreLogged == \A s \in Subscribers : chan[s] \in Seq(log)

Order == SinkFirst /\ LogIsNext /\ ChannelsAreLogged /\ LoggedFirst

IInv == Types /\ ClientTypes /\ Order

-----------------------------------------------------------------------------
\* The constants.
LEMMA ConstantFacts ==
  Cap \in Nat \ {0} /\ MaxEvents \in Nat /\ MaxPrompts \in Nat
BY BusConstants

\* Nothing has been published, logged or received.
LEMMA InitIInv == ASSUME Init PROVE IInv
<1>1. chan = [s \in Subscribers |-> <<>>] /\ <<>> \in Seq(Event) /\ <<>> \in Seq(log)
  BY DEF Init
<1>2. Types
  <2>1. 0 \in 0..MaxEvents /\ Len(<<>>) <= Cap
    BY ConstantFacts
  <2>2. sink \in BOOLEAN
    BY DEF Init
  <2> QED
    BY <1>1, <2>1, <2>2 DEF Init, Types
<1>3. ClientTypes
  <2>1. 0 \in 0..MaxPrompts /\ 0 \in Nat
    BY ConstantFacts
  <2>2. turn \in BOOLEAN
    BY DEF Init
  <2> QED
    BY <2>1, <2>2 DEF Init, ClientTypes
<1>4. Order
  BY <1>1 DEF Init, Order, SinkFirst, LogIsNext, ChannelsAreLogged, LoggedFirst
<1> QED
  BY <1>2, <1>3, <1>4 DEF IInv

\* A sequence over a set is one over every larger set.
LEMMA SeqGrows ==
  ASSUME NEW S, NEW T, S \subseteq T, NEW q \in Seq(S)
  PROVE  q \in Seq(T)
OBVIOUS

-----------------------------------------------------------------------------
\* A publication starts with the log before every subscriber there is.
LEMMA StartStep ==
  ASSUME IInv, NEW p \in Publishers, NEW kind \in Kinds,
         StartPublish(p, kind), acted' = acted
  PROVE  Types' /\ Order'
<1> USE ConstantFacts DEF IInv
<1> DEFINE e == [from |-> p, kind |-> kind, nr |-> sent[p] + 1]
<1>1. /\ publishing[p] = {} /\ sent[p] < MaxEvents
      /\ sent' = [sent EXCEPT ![p] = @ + 1]
      /\ publishing' = [publishing EXCEPT ![p] = {[from |-> p, kind |-> kind, nr |-> sent'[p]]}]
      /\ targets' = [targets EXCEPT ![p] = subs \cup (IF sink THEN {"log"} ELSE {})]
      /\ UNCHANGED <<subs, sink, chan, log>>
  BY DEF StartPublish
<1>2. sent[p] \in 0..MaxEvents /\ sent'[p] = sent[p] + 1
  BY <1>1 DEF Types
<1>3. publishing' = [publishing EXCEPT ![p] = {e}]
  BY <1>1, <1>2
<1>4. sent[p] + 1 \in 1..MaxEvents
  BY <1>1, <1>2
<1>5. e \in Event
  BY <1>4 DEF Event
<1> HIDE DEF e
<1>6. Types'
  <2>1. sent' \in [Publishers -> 0..MaxEvents]
    BY <1>1, <1>4 DEF Types
  <2>2. publishing' \in [Publishers -> SUBSET Event]
    BY <1>3, <1>5 DEF Types
  <2>3. targets' \in [Publishers -> SUBSET (Subscribers \cup {"log"})]
    BY <1>1 DEF Types
  <2>4. \A q \in Publishers : \A d, f \in publishing'[q] : d = f
    BY <1>3 DEF Types
  <2> QED
    BY <1>1, <2>1, <2>2, <2>3, <2>4 DEF Types
<1>7. LogIsNext'
  <2> SUFFICES ASSUME NEW q \in Publishers
               PROVE  targets'[q] = {} \/ "log" \in targets'[q] \/ publishing'[q] \subseteq log'
    BY DEF LogIsNext
  <2>1. CASE q = p
    <3>1. targets'[p] = subs \cup (IF sink THEN {"log"} ELSE {})
      BY <1>1 DEF Types
    <3> QED
      BY <2>1, <3>1 DEF Order, SinkFirst
  <2>2. CASE q # p
    <3>1. targets'[q] = targets[q] /\ publishing'[q] = publishing[q] /\ log' = log
      BY <1>1, <2>2 DEF Types
    <3> QED
      BY <3>1 DEF Order, LogIsNext
  <2> QED
    BY <2>1, <2>2
<1> QED
  BY <1>1, <1>6, <1>7 DEF Order, SinkFirst, ChannelsAreLogged, LoggedFirst

\* The log is served first; only an event it has been given reaches a channel.
LEMMA ServeStep ==
  ASSUME IInv, NEW p \in Publishers, Serve(p)
  PROVE  IInv'
<1> USE ConstantFacts DEF IInv
<1>1. PICK t \in targets[p], e \in publishing[p] :
        /\ MayServe(p, t)
        /\ targets' = [targets EXCEPT ![p] = @ \ {t}]
        /\ publishing' = [publishing EXCEPT ![p] = IF targets'[p] = {} THEN {} ELSE @]
        /\ IF t = "log"
             THEN log' = log \cup {e} /\ UNCHANGED chan
             ELSE /\ chan' = [chan EXCEPT ![t] = IF Len(@) < Cap THEN Append(@, e) ELSE @]
                  /\ UNCHANGED log
  BY DEF Serve
<1>2. UNCHANGED <<subs, sink, sent, search, worker, front, asked, inbox, turn, acted>>
  BY DEF Serve
<1>3. e \in Event /\ publishing[p] = {e} /\ t \in Subscribers \cup {"log"}
  BY DEF Types
<1>4. /\ targets'[p] = targets[p] \ {t}
      /\ publishing'[p] \subseteq {e}
      /\ \A q \in Publishers \ {p} : targets'[q] = targets[q] /\ publishing'[q] = publishing[q]
  BY <1>1, <1>3 DEF Types
<1>5. /\ targets' \in [Publishers -> SUBSET (Subscribers \cup {"log"})]
      /\ publishing' \in [Publishers -> SUBSET Event]
      /\ \A q \in Publishers : \A d, f \in publishing'[q] : d = f
  <2>1. targets' \in [Publishers -> SUBSET (Subscribers \cup {"log"})]
    BY <1>1 DEF Types
  <2>2. publishing' \in [Publishers -> SUBSET Event]
    BY <1>1 DEF Types
  <2>3. ASSUME NEW q \in Publishers, NEW d \in publishing'[q], NEW f \in publishing'[q]
        PROVE  d = f
    <3>1. publishing'[q] \subseteq publishing[q]
      BY <1>3, <1>4
    <3> QED
      BY <2>3, <3>1 DEF Types
  <2> QED
    BY <2>1, <2>2, <2>3
<1>6. CASE t = "log"
  <2>1. log' = log \cup {e} /\ chan' = chan
    BY <1>1, <1>6
  <2>2. Types'
    BY <1>2, <1>3, <1>5, <2>1 DEF Types
  <2>3. LogIsNext'
    BY <1>3, <1>4, <2>1 DEF Order, LogIsNext
  <2>4. ChannelsAreLogged'
    BY <2>1, SeqGrows DEF Order, ChannelsAreLogged
  <2> QED
    BY <1>2, <2>1, <2>2, <2>3, <2>4 DEF ClientTypes, Order, SinkFirst, LoggedFirst
<1>7. CASE t # "log"
  <2>1. /\ chan' = [chan EXCEPT ![t] = IF Len(@) < Cap THEN Append(@, e) ELSE @]
        /\ log' = log /\ t \in Subscribers
    BY <1>1, <1>3, <1>7
  <2>2. "log" \notin targets[p]
    BY <1>1, <1>7 DEF MayServe
  <2>3. e \in log
    BY <1>3, <2>2 DEF Order, LogIsNext
  <2>4. chan[t] \in Seq(Event) /\ chan[t] \in Seq(log) /\ Len(chan[t]) <= Cap
    BY <2>1 DEF Types, Order, ChannelsAreLogged
  <2>5. /\ chan'[t] \in Seq(Event) /\ chan'[t] \in Seq(log) /\ Len(chan'[t]) <= Cap
        /\ \A s \in Subscribers \ {t} : chan'[s] = chan[s]
        /\ chan' \in [Subscribers -> Seq(Event)]
    <3>1. chan'[t] = IF Len(chan[t]) < Cap THEN Append(chan[t], e) ELSE chan[t]
      BY <2>1 DEF Types
    <3>2. \A s \in Subscribers \ {t} : chan'[s] = chan[s]
      BY <2>1 DEF Types
    <3>3. chan'[t] \in Seq(Event) /\ chan'[t] \in Seq(log) /\ Len(chan'[t]) <= Cap
      BY <1>3, <2>3, <2>4, <3>1
    <3>4. chan' \in [Subscribers -> Seq(Event)]
      BY <2>1, <3>1, <3>3 DEF Types
    <3> QED
      BY <3>2, <3>3, <3>4
  <2>6. Types'
    BY <1>2, <1>5, <2>1, <2>5 DEF Types
  <2>7. LogIsNext'
    BY <1>3, <1>4, <2>1, <2>3 DEF Order, LogIsNext
  <2>8. ChannelsAreLogged'
    BY <2>1, <2>5 DEF Order, ChannelsAreLogged
  <2> QED
    BY <1>2, <2>1, <2>6, <2>7, <2>8 DEF ClientTypes, Order, SinkFirst, LoggedFirst
<1> QED
  BY <1>6, <1>7

\* A client that takes an event out of its channel, and may act on it.
LEMMA ReceiveStep ==
  ASSUME IInv, NEW s \in Subscribers, Receive(s),
         acted' = acted \/ acted' = acted \cup {Head(chan[s])},
         UNCHANGED <<subs, sink, log, publishing, targets, sent>>
  PROVE  Types' /\ Order'
<1> USE ConstantFacts DEF IInv
<1>1. chan[s] # <<>> /\ chan' = [chan EXCEPT ![s] = Tail(@)]
  BY DEF Receive
<1>2. chan[s] \in Seq(Event) /\ chan[s] \in Seq(log) /\ Len(chan[s]) <= Cap
  BY DEF Types, Order, ChannelsAreLogged
<1>3. /\ Head(chan[s]) \in Event /\ Head(chan[s]) \in log
      /\ Tail(chan[s]) \in Seq(Event) /\ Tail(chan[s]) \in Seq(log) /\ Len(Tail(chan[s])) <= Cap
  BY <1>1, <1>2
<1>4. chan'[s] = Tail(chan[s]) /\ \A r \in Subscribers \ {s} : chan'[r] = chan[r]
  BY <1>1 DEF Types
<1>5. chan' \in [Subscribers -> Seq(Event)]
  BY <1>1, <1>3 DEF Types
<1>6. Types'
  BY <1>3, <1>4, <1>5 DEF Types
<1>7. ChannelsAreLogged'
  BY <1>3, <1>4 DEF Order, ChannelsAreLogged
<1>8. LoggedFirst'
  BY <1>3 DEF Order, LoggedFirst
<1> QED
  BY <1>6, <1>7, <1>8 DEF Order, SinkFirst, LogIsNext

\* A client subscribes behind the logger.
LEMMA SubscribeStep ==
  ASSUME IInv, NEW s \in Subscribers, sink, subs' = subs \cup {s},
         UNCHANGED <<sink, chan, log, publishing, targets, sent, acted>>
  PROVE  Types' /\ Order'
<1>1. Types'
  BY DEF IInv, Types
<1>2. Order'
  BY DEF IInv, Order, SinkFirst, LogIsNext, ChannelsAreLogged, LoggedFirst
<1> QED
  BY <1>1, <1>2

\* A step that leaves the bus alone.
LEMMA QuietStep ==
  ASSUME IInv, UNCHANGED bus, UNCHANGED acted
  PROVE  Types' /\ Order'
BY DEF IInv, bus, Types, Order, SinkFirst, LogIsNext, ChannelsAreLogged, LoggedFirst

-----------------------------------------------------------------------------
\* The sink is added, and a publication without anybody to serve ends.
LEMMA BusStep ==
  ASSUME IInv, AddSink \/ Publish
  PROVE  IInv'
<1>1. CASE AddSink
  BY <1>1 DEF AddSink, IInv, Types, ClientTypes, Order, SinkFirst, LogIsNext,
              ChannelsAreLogged, LoggedFirst
<1>2. ASSUME NEW p \in Publishers, PublishEnds(p) PROVE IInv'
  <2>1. /\ publishing' = [publishing EXCEPT ![p] = {}]
        /\ UNCHANGED <<subs, sink, chan, log, targets, sent, search, worker, front, asked,
                       inbox, turn, acted>>
    BY <1>2 DEF PublishEnds
  <2>2. \A q \in Publishers : publishing'[q] \subseteq publishing[q]
    BY <2>1 DEF IInv, Types
  <2>3. publishing' \in [Publishers -> SUBSET Event]
    BY <2>1 DEF IInv, Types
  <2>4. Types'
    BY <2>1, <2>2, <2>3 DEF IInv, Types
  <2>5. Order'
    BY <2>1, <2>2 DEF IInv, Order, SinkFirst, LogIsNext, ChannelsAreLogged, LoggedFirst
  <2> QED
    BY <2>1, <2>4, <2>5 DEF IInv, ClientTypes
<1> QED
  BY <1>1, <1>2, ServeStep DEF Publish

\* The search subscribes, takes events out of its channel, or leaves the bus alone.
LEMMA SearchStep ==
  ASSUME IInv, Search \/ SearchTimesOut
  PROVE  IInv'
<1>1. CASE SearchSubscribes
  <2>1. Types' /\ Order'
    BY <1>1, SubscribeStep DEF SearchSubscribes, Subscribers
  <2> QED
    BY <1>1, <2>1 DEF IInv, ClientTypes, SearchSubscribes
<1>2. CASE SearchSpawns
  BY <1>2, QuietStep DEF IInv, ClientTypes, SearchSpawns
<1>3. CASE SearchReceives
  <2>1. Types' /\ Order'
    BY <1>3, ReceiveStep DEF SearchReceives, Subscribers
  <2>2. search' \in {"idle", "ready", "waiting", "found", "failed"}
    BY <1>3 DEF SearchReceives, IInv, ClientTypes
  <2>3. worker' \in {"none", "running", "ending", "ended"}
    BY <1>3 DEF SearchReceives, Kill, IInv, ClientTypes
  <2>4. UNCHANGED <<front, asked, inbox, turn>>
    BY <1>3 DEF SearchReceives
  <2> QED
    BY <2>1, <2>2, <2>3, <2>4 DEF IInv, ClientTypes
<1>4. CASE SearchTimesOut
  BY <1>4, QuietStep DEF IInv, ClientTypes, SearchTimesOut, Kill
<1> QED
  BY <1>1, <1>2, <1>3, <1>4 DEF Search

\* So do the front end, which asks for turns, and the forwarder of a worker\'s end.
LEMMA FrontStep ==
  ASSUME IInv, Front \/ WorkerEndForwarded
  PROVE  IInv'
<1> USE ConstantFacts
<1>1. CASE FrontSubscribes
  <2>1. Types' /\ Order'
    BY <1>1, SubscribeStep DEF FrontSubscribes, Subscribers
  <2> QED
    BY <1>1, <2>1 DEF IInv, ClientTypes, FrontSubscribes
<1>2. CASE SendPrompt
  BY <1>2, QuietStep DEF IInv, ClientTypes, SendPrompt
<1>3. CASE Leave
  BY <1>3, QuietStep DEF IInv, ClientTypes, Leave
<1>4. CASE FrontReceives
  <2>1. Types' /\ Order'
    BY <1>4, ReceiveStep DEF FrontReceives, Subscribers
  <2>2. front' \in {"cli", "cliWait", "exec", "execWait", "over"}
    BY <1>4 DEF FrontReceives, IInv, ClientTypes
  <2>3. UNCHANGED <<search, worker, asked, inbox, turn>>
    BY <1>4 DEF FrontReceives
  <2> QED
    BY <2>1, <2>2, <2>3 DEF IInv, ClientTypes
<1>5. CASE WorkerEndForwarded
  BY <1>5, QuietStep DEF IInv, ClientTypes, WorkerEndForwarded
<1> QED
  BY <1>1, <1>2, <1>3, <1>4, <1>5 DEF Front

\* The worker and the master publish by StartPublish and leave the bus alone else.
LEMMA OthersStep ==
  ASSUME IInv, Others
  PROVE  IInv'
<1> USE DEF Kinds, Publishers
<1>1. CASE WorkerWorks
  BY <1>1, StartStep DEF IInv, ClientTypes, WorkerWorks
<1>2. CASE WorkerEnds
  BY <1>2, StartStep DEF IInv, ClientTypes, WorkerEnds
<1>3. CASE OthersPublish
  BY <1>3, StartStep DEF IInv, ClientTypes, OthersPublish
<1>4. CASE TurnStarts
  BY <1>4, QuietStep DEF IInv, ClientTypes, TurnStarts
<1>5. CASE MasterText
  BY <1>5, StartStep DEF IInv, ClientTypes, MasterText
<1>6. CASE TurnEnds
  <2>1. Types' /\ Order'
    BY <1>6, StartStep, QuietStep DEF TurnEnds
  <2> QED
    BY <1>6, <2>1 DEF IInv, ClientTypes, TurnEnds
<1> QED
  BY <1>1, <1>2, <1>3, <1>4, <1>5, <1>6 DEF Others

\* Every step preserves the inductive invariant.
LEMMA StepIInv == ASSUME IInv, [Next]_vars PROVE IInv'
<1>1. CASE Next
  BY <1>1, BusStep, SearchStep, FrontStep, OthersStep DEF Next
<1>2. CASE UNCHANGED vars
  BY <1>2, QuietStep DEF vars, IInv, ClientTypes
<1> QED
  BY <1>1, <1>2

\* A publisher publishes one event at a time, and no channel holds more than it can.
LEMMA BusTypes == ASSUME IInv PROVE TypeOK
<1>1. ASSUME NEW p \in Publishers
      PROVE  publishing[p] \subseteq Event /\ Cardinality(publishing[p]) <= 1
  <2>1. publishing[p] = {} \/ \E e \in Event : publishing[p] = {e}
    BY DEF IInv, Types
  <2>2. Cardinality({}) = 0 /\ \A e \in Event : Cardinality({e}) = 1
    BY FS_EmptySet, FS_Singleton
  <2> QED
    BY <2>1, <2>2
<1> QED
  BY <1>1 DEF IInv, Types, ClientTypes, TypeOK

-----------------------------------------------------------------------------
(* Numbers. *)

\* A remainder is below the divisor.
LEMMA ModRange == ASSUME NEW a \in Nat, NEW r \in Nat \ {0} PROVE a % r \in 0..r - 1
OBVIOUS

\* A number is quotient times divisor and remainder.
LEMMA ModDiv == ASSUME NEW a \in Nat, NEW r \in Nat \ {0}
  PROVE a \div r \in Nat /\ a = r * (a \div r) + (a % r)
<1>1. a \div r \in Int
  OBVIOUS
<1>2. a = r * (a \div r) + (a % r)
  OBVIOUS
<1>3. a % r \in 0..r-1
  OBVIOUS
<1>4. a \div r >= 0
  <2> SUFFICES ASSUME a \div r <= -1 PROVE FALSE
    BY <1>1
  <2>1. r * (a \div r) <= -r
    BY <1>1
  <2> QED
    BY <1>1, <1>2, <1>3, <2>1
<1> QED
  BY <1>1, <1>2, <1>4

\* Only one remainder fits.
LEMMA ModUnique == ASSUME NEW a \in Nat, NEW r \in Nat \ {0}, NEW q \in Nat, NEW m \in 0..r - 1, a = r * q + m
  PROVE a % r = m
OBVIOUS

\* Taking the remainder first changes nothing.
LEMMA ModShift == ASSUME NEW a \in Nat, NEW k \in Nat, NEW r \in Nat \ {0}
  PROVE ((a % r) + k) % r = (a + k) % r
<1>1. a \div r \in Nat /\ a = r * (a \div r) + (a % r) /\ a % r \in 0..r - 1
  BY ModDiv, ModRange
<1> DEFINE b == (a % r) + k
<1>2. b \in Nat
  BY <1>1
<1>3. b \div r \in Nat /\ b = r * (b \div r) + (b % r) /\ b % r \in 0..r - 1
  BY <1>2, ModDiv, ModRange
<1>4. a + k = r * ((a \div r) + (b \div r)) + (b % r)
  BY <1>1, <1>3
<1>5. (a \div r) + (b \div r) \in Nat /\ a + k \in Nat
  BY <1>1, <1>3
<1>6. (a + k) % r = b % r
  <2> HIDE DEF b
  <2> QED
    BY <1>3, <1>4, <1>5, ModUnique
<1> QED
  BY <1>6

\* Numbers less than the divisor apart have different remainders.
LEMMA ModDiffers == ASSUME NEW a \in Nat, NEW b \in Nat, NEW r \in Nat \ {0}, a < b, b - a < r
  PROVE a % r # b % r
<1>1. a \div r \in Nat /\ a = r * (a \div r) + (a % r) /\ a % r \in 0..r - 1
  BY ModDiv, ModRange
<1>2. b \div r \in Nat /\ b = r * (b \div r) + (b % r) /\ b % r \in 0..r - 1
  BY ModDiv, ModRange
<1> SUFFICES ASSUME a % r = b % r PROVE FALSE
  OBVIOUS
<1>3. b - a = r * ((b \div r) - (a \div r))
  BY <1>1, <1>2
<1>4. (b \div r) - (a \div r) > 0
  <2> DEFINE d == (b \div r) - (a \div r)
  <2>1. d \in Int /\ r * d > 0
    BY <1>1, <1>2, <1>3
  <2> HIDE DEF d
  <2>2. d <= 0 => r * d <= 0
    BY <2>1
  <2>3. d > 0
    BY <2>1, <2>2
  <2> QED
    BY <2>3 DEF d
<1>5. r * ((b \div r) - (a \div r)) >= r
  BY <1>1, <1>2, <1>4
<1> QED
  BY <1>3, <1>5

\* A set of numbers that is not empty has a least one.
LEMMA LeastOfNats ==
  ASSUME NEW S \in SUBSET Nat, S # {}
  PROVE  \E x \in S : \A y \in S : x <= y
<1> DEFINE R == {ss \in Nat \X Nat : ss[1] < ss[2]}
<1>1. IsWellFoundedOn(R, Nat)
  BY NatLessThanWellFounded DEF OpToRel
<1>2. \A x, y \in Nat : x < y => <<x, y>> \in R
  OBVIOUS
<1> HIDE DEF R
<1>3. PICK x \in S : \A y \in S : ~(<<y, x>> \in R)
  BY <1>1, WFMin
<1>4. ASSUME NEW y \in S
      PROVE  x <= y
  <2>1. x \in Nat /\ y \in Nat /\ <<y, x>> \notin R
    BY <1>3
  <2>2. ~(y < x)
    BY <1>2, <2>1
  <2> QED
    BY <2>1, <2>2
<1> QED
  BY <1>4

\* A bounded set of numbers that is not empty has a greatest one.
LEMMA GreatestOfNats ==
  ASSUME NEW n \in Nat, NEW S \in SUBSET (1..n), S # {}
  PROVE  \E x \in S : \A y \in S : y <= x
<1> DEFINE T == {n - y : y \in S}
<1>1. T \in SUBSET Nat /\ T # {}
  <2>1. \A y \in S : n - y \in Nat
    <3> SUFFICES ASSUME NEW y \in S PROVE n - y \in Nat
      OBVIOUS
    <3>1. y \in 1..n
      OBVIOUS
    <3> QED
      BY <3>1
  <2>2. T # {}
    OBVIOUS
  <2> QED
    BY <2>1, <2>2
<1>2. PICK t \in T : \A u \in T : t <= u
  BY <1>1, LeastOfNats
<1>3. PICK x \in S : t = n - x
  OBVIOUS
<1>4. ASSUME NEW y \in S PROVE y <= x
  <2>1. n - x <= n - y /\ x \in 1..n /\ y \in 1..n
    BY <1>2, <1>3
  <2> QED
    BY <2>1
<1> QED
  BY <1>4

-----------------------------------------------------------------------------
(* FileEdits. *)

Pcs == {"idle", "lock", "check", "begin", "write", "record", "validate", "unlock"}
FileCall ==
  [pc : Pcs, kind : FileEdits!AllKinds, todo : Seq(Paths), want : SUBSET Paths,
   saw : [Paths -> FileEdits!Contents], step : Nat, first : Nat, new : FileEdits!Contents, ok : BOOLEAN,
   paths : Seq(Paths)]
Change ==
  [path : Paths, kind : {"created", "edited", "deleted", "moved"}, from : Paths \cup {0},
   step : FileEdits!Steps]

FileTypes ==
  /\ disk \in [Paths -> FileEdits!Contents] /\ lock \in [Paths -> Workers \cup {"free"}]
  /\ nextStep \in 0..FileEdits!MaxSteps /\ fileEditsItems \in Seq(Change)
  /\ checkpoint \in [FileEdits!Steps -> [Paths -> FileEdits!Contents]] /\ was \in [FileEdits!Steps -> [Paths -> FileEdits!Contents]]
  /\ op \in [Workers -> FileCall] /\ ops \in 0..MaxOps /\ fileEditsForeign \subseteq Paths

Mutating(o) == o.pc \in {"write", "record"}
Held(o) == FileEdits!ToSet(o.paths) \ o.want

\* The form of a call.
Shape(o) ==
  /\ o.pc = "idle" => o = FileEdits!Idle
  /\ o.pc # "idle" => /\ Len(o.paths) \in {1, 2}
                      /\ Len(o.paths) = 2 => o.paths[1] # o.paths[2]
  /\ o.kind = "move" => Len(o.paths) = 2
  /\ o.kind \notin {"move", "transaction"} => Len(o.paths) <= 1
  /\ o.want \subseteq FileEdits!ToSet(o.paths)
  /\ o.want # {} <=> o.pc = "lock"
  /\ o.pc \in {"lock", "check"} => o.first = 0 /\ o.todo = o.paths
  /\ o.pc \in {"begin", "write", "record"} =>
       o.todo = o.paths \/ (o.kind = "transaction" /\ Len(o.paths) = 2 /\ o.todo = <<o.paths[2]>>)
  /\ o.pc = "validate" => o.kind = "transaction"
  /\ o.pc # "unlock" => o.ok

\* Its steps.
InFlight(o) ==
  /\ o.first <= o.step /\ o.step <= nextStep
  /\ Mutating(o) => 0 < o.first /\ \A c \in FileEdits!ToSet(fileEditsItems) : c.step # o.step
  /\ o.pc = "begin" => (o.first = 0 <=> o.todo = o.paths)
  /\ o.pc = "validate" => 0 < o.first

\* What it saw is still there, until it writes; 
SawCurrent(o) ==
  o.pc \in {"begin", "write", "record"} =>
    \A p \in FileEdits!ToSet(o.todo) \ fileEditsForeign :
      \/ o.kind = "move" /\ p = o.todo[2]
      \/ o.pc = "record" /\ (o.kind # "transaction" \/ p = o.todo[1])
      \/ disk[p] = o.saw[p]

SawThere(o) ==
  o.pc \in {"begin", "write", "record"} /\ o.kind \in {"delete", "move"} =>
    o.saw[o.todo[1]] # FileEdits!Absent

\* ... and was saved.
Saved(o) ==
  Mutating(o) /\ o.todo[1] \notin fileEditsForeign =>
    /\ was[o.step][o.todo[1]] = o.saw[o.todo[1]]
    /\ o.saw[o.todo[1]] # FileEdits!Absent => checkpoint[o.step][o.todo[1]] = o.saw[o.todo[1]]

Passed(o, p) ==
  /\ o.pc \in {"begin", "write", "record", "validate"}
  /\ o.kind = "transaction" /\ p \in FileEdits!ToSet(o.paths)
  /\ o.pc = "validate" \/ p \notin FileEdits!ToSet(o.todo)

Transacted(o) ==
  \A p \in Paths \ fileEditsForeign :
    /\ Passed(o, p) => /\ disk[p] = o.new
                       /\ \E c \in FileEdits!ToSet(fileEditsItems) : FileEdits!Touches(c, p) /\ c.step >= o.first
    /\ o.kind = "transaction" /\ o.pc = "record" /\ p = o.todo[1] => disk[p] = o.new

OwnChanges(o) ==
  \A p \in Held(o) \ fileEditsForeign :
    o.pc # "idle" /\ o.kind = "transaction" /\ 0 < o.first =>
      \A c \in FileEdits!ToSet(fileEditsItems) : FileEdits!Touches(c, p) /\ c.step >= o.first =>
        c.kind # "moved" /\ was[c.step][p] = o.saw[p]

Whole(o) ==
  o.kind = "transaction" /\ o.pc = "unlock" =>
    \A p \in FileEdits!ToSet(o.paths) \ fileEditsForeign : disk[p] = IF o.ok THEN o.new ELSE o.saw[p]

Sound(o) ==
  /\ Shape(o) /\ InFlight(o) /\ SawCurrent(o) /\ SawThere(o) /\ Saved(o)
  /\ Transacted(o) /\ OwnChanges(o) /\ Whole(o)

LocksHeld == \A w \in Workers, p \in Paths : lock[p] = w <=> p \in Held(op[w])

StepsDiffer ==
  \A v, w \in Workers : v # w /\ Mutating(op[v]) /\ Mutating(op[w]) => op[v].step # op[w].step

StepsFresh ==
  /\ \A c \in FileEdits!ToSet(fileEditsItems) : c.step <= nextStep
  /\ \A c, d \in FileEdits!ToSet(fileEditsItems) : c.step = d.step => c = d
  /\ \E m \in {0} \cup {c.step : c \in FileEdits!ToSet(fileEditsItems)} : \A c \in FileEdits!ToSet(fileEditsItems) : c.step <= m

Recorded(c, p) ==
  IF c.kind = "created" THEN was[c.step][p] = FileEdits!Absent
  ELSE was[c.step][p] # FileEdits!Absent /\ checkpoint[c.step][p] = was[c.step][p]

AllRecorded ==
  \A c \in FileEdits!ToSet(fileEditsItems), p \in Paths \ fileEditsForeign :
    FileEdits!Touches(c, p) => (c.kind = "moved" /\ c.path = p) \/ Recorded(c, p)

FilesInv ==
  /\ FileTypes /\ LocksHeld /\ StepsDiffer /\ StepsFresh /\ AllRecorded
  /\ \A w \in Workers : Sound(op[w])

-----------------------------------------------------------------------------
\* What FileEdits asks of its constants.
LEMMA FilesBounds == FileEdits!FileEditsConstants
BY MCToolsConstants

\* The constants, and the steps and contents made from them.
LEMMA FilesFacts ==
  /\ "free" \notin Workers /\ Paths \subseteq Nat \ {0} /\ FileKinds \subseteq FileEdits!AllKinds
  /\ MaxOps \in Nat /\ FileEdits!MaxSteps \in Nat /\ FileEdits!Contents = 0..MaxOps + 1
  /\ FileEdits!Steps = 1..FileEdits!MaxSteps /\ FileEdits!Absent = 0
<1>1. FileEdits!Cardinality(Paths) \in Nat
  <2>1. IsFiniteSet(Paths)
    BY FilesBounds DEF FileEdits!FileEditsConstants, FileEdits!IsFiniteSet, IsFiniteSet
  <2>2. FileEdits!Cardinality(Paths) = Cardinality(Paths)
    BY DEF FileEdits!Cardinality, Cardinality
  <2> QED
    BY <2>1, <2>2, FS_CardinalityType
<1> QED
  BY <1>1, FilesBounds DEF FileEdits!FileEditsConstants, FileEdits!MaxSteps, FileEdits!Contents, FileEdits!Steps, FileEdits!Absent

\* A step that has saved nothing.
LEMMA NoStepType == FileEdits!NoStep \in [Paths -> FileEdits!Contents]
BY FilesFacts DEF FileEdits!NoStep, FileEdits!Absent

\* A call that is not there.
LEMMA IdleType == FileEdits!Idle \in FileCall /\ FileEdits!ToSet(<<>>) = {}
<1>1. <<>> \in Seq(Paths)
  OBVIOUS
<1>2. 0 \in FileEdits!Contents /\ FileEdits!Absent \in FileEdits!Contents
  BY FilesFacts
<1> QED
  BY <1>1, <1>2, NoStepType DEF FileEdits!Idle, FileCall, Pcs, FileEdits!AllKinds, FileEdits!ToSet

\* An idle agent is bound by nothing.
LEMMA IdleSound == ASSUME nextStep \in Nat PROVE Sound(FileEdits!Idle)
<1>1. Shape(FileEdits!Idle)
  BY IdleType DEF Shape, FileEdits!Idle
<1>2. InFlight(FileEdits!Idle)
  BY DEF InFlight, FileEdits!Idle, Mutating
<1> QED
  BY <1>1, <1>2 DEF Sound, SawCurrent, SawThere, Saved, Transacted, Passed, OwnChanges, Whole,
     Mutating, FileEdits!Idle

\* An agent that becomes idle is bound by nothing.
LEMMA IdleThere ==
  ASSUME NEW w \in Workers, op'[w] = FileEdits!Idle, nextStep' \in Nat
  PROVE  Sound(op[w])'
<1>1. Shape(op[w])'
  BY IdleType DEF Shape, FileEdits!Idle
<1>2. InFlight(op[w])'
  BY DEF InFlight, FileEdits!Idle, Mutating
<1> QED
  BY <1>1, <1>2 DEF Sound, SawCurrent, SawThere, Saved, Transacted, Passed, OwnChanges, Whole,
     Mutating, FileEdits!Idle

\* No call runs and nothing has changed.
LEMMA InitFiles == ASSUME FileEdits!Init PROVE FilesInv
<1>1. FileTypes
  BY FilesFacts, NoStepType, IdleType DEF FileEdits!Init, FileTypes
<1>2. op = [w \in Workers |-> FileEdits!Idle] /\ FileEdits!ToSet(fileEditsItems) = {} /\ nextStep = 0
  BY IdleType DEF FileEdits!Init
<1>3. LocksHeld
  BY <1>2, FilesFacts, IdleType DEF LocksHeld, FileEdits!Init, Held, FileEdits!Idle
<1>4. StepsDiffer /\ StepsFresh /\ AllRecorded
  BY <1>2 DEF StepsDiffer, StepsFresh, AllRecorded, Mutating, FileEdits!Idle
<1>5. \A w \in Workers : Sound(op[w])
  BY <1>2, IdleSound
<1> QED
  BY <1>1, <1>3, <1>4, <1>5 DEF FilesInv

-----------------------------------------------------------------------------
\* The paths of a call, and those it holds.
LEMMA CallPaths ==
  ASSUME NEW o \in FileCall, Shape(o), o.pc # "idle"
  PROVE  /\ o.paths \in Seq(Paths) /\ FileEdits!ToSet(o.paths) \subseteq Paths
         /\ o.pc # "lock" => Held(o) = FileEdits!ToSet(o.paths)
         /\ o.pc \in {"lock", "check"} => o.todo = o.paths
         /\ o.pc \in {"lock", "check", "begin", "write", "record"} =>
              /\ FileEdits!ToSet(o.todo) \subseteq FileEdits!ToSet(o.paths) /\ o.todo[1] \in FileEdits!ToSet(o.todo)
              /\ o.kind = "move" => o.todo = o.paths /\ o.todo[2] \in FileEdits!ToSet(o.paths)
                                    /\ o.todo[1] # o.todo[2]
                                    /\ FileEdits!ToSet(o.paths) = {o.todo[1], o.todo[2]}
              /\ o.kind \notin {"move", "transaction"} => FileEdits!ToSet(o.todo) = {o.todo[1]}
<1>1. o.paths \in Seq(Paths) /\ o.todo \in Seq(Paths) /\ Len(o.paths) \in {1, 2}
  BY DEF FileCall, Shape
<1>2. DOMAIN o.paths = 1..Len(o.paths) /\ \A i \in 1..Len(o.paths) : o.paths[i] \in Paths
  BY <1>1
<1>3. FileEdits!ToSet(o.paths) \subseteq Paths
  BY <1>1, <1>2 DEF FileEdits!ToSet
<1>4. o.pc # "lock" => Held(o) = FileEdits!ToSet(o.paths)
  BY DEF Shape, Held
<1>5. ASSUME o.pc \in {"lock", "check", "begin", "write", "record"}
      PROVE  /\ FileEdits!ToSet(o.todo) \subseteq FileEdits!ToSet(o.paths) /\ o.todo[1] \in FileEdits!ToSet(o.todo)
             /\ o.kind = "move" => o.todo = o.paths /\ o.todo[2] \in FileEdits!ToSet(o.paths)
                                   /\ o.todo[1] # o.todo[2]
                                   /\ FileEdits!ToSet(o.paths) = {o.todo[1], o.todo[2]}
             /\ o.kind \notin {"move", "transaction"} => FileEdits!ToSet(o.todo) = {o.todo[1]}
  <2>1. o.todo = o.paths \/ (o.kind = "transaction" /\ Len(o.paths) = 2 /\ o.todo = <<o.paths[2]>>)
    BY <1>5 DEF Shape
  <2>2. CASE o.todo = o.paths
    <3>1. FileEdits!ToSet(o.todo) = {o.paths[i] : i \in 1..Len(o.paths)}
      BY <2>2, <1>2 DEF FileEdits!ToSet
    <3>2. o.kind = "move" => Len(o.paths) = 2 /\ o.paths[1] # o.paths[2]
      BY <1>5 DEF Shape
    <3>3. o.kind \notin {"move", "transaction"} => Len(o.paths) = 1
      BY <1>1, <1>5 DEF Shape
    <3> QED
      BY <2>2, <3>1, <3>2, <3>3, <1>1
  <2>3. CASE o.kind = "transaction" /\ Len(o.paths) = 2 /\ o.todo = <<o.paths[2]>>
    <3>1. FileEdits!ToSet(o.todo) = {o.paths[2]} /\ o.todo[1] = o.paths[2]
      BY <2>3 DEF FileEdits!ToSet
    <3>2. o.paths[2] \in FileEdits!ToSet(o.paths)
      BY <2>3, <1>2 DEF FileEdits!ToSet
    <3> QED
      BY <2>3, <3>1, <3>2
  <2> QED
    BY <2>1, <2>2, <2>3
<1> QED
  BY <1>1, <1>3, <1>4, <1>5 DEF Shape

\* Two calls hold no path in common.
LEMMA Exclusive ==
  ASSUME FilesInv, NEW v \in Workers, NEW w \in Workers \ {v}, NEW p \in Held(op[v]), p \in Paths
  PROVE  p \notin Held(op[w])
BY DEF FilesInv, LocksHeld

\* What a step of one agent may do to what the others rely on.
Frame(w) ==
  /\ \A p \in Paths \ fileEditsForeign' : p \notin Held(op[w]) => disk'[p] = disk[p]
  /\ fileEditsForeign \subseteq fileEditsForeign' /\ fileEditsForeign' \subseteq Paths
  /\ nextStep <= nextStep' /\ nextStep' \in 0..FileEdits!MaxSteps
  /\ FileEdits!ToSet(fileEditsItems) \subseteq FileEdits!ToSet(fileEditsItems')
  /\ \A c \in FileEdits!ToSet(fileEditsItems') \ FileEdits!ToSet(fileEditsItems) :
       /\ Mutating(op[w]) /\ c.step = op[w].step
       /\ \A p \in Paths : FileEdits!Touches(c, p) => p \in Held(op[w])
  /\ \A s \in FileEdits!Steps : s <= nextStep => was'[s] = was[s] /\ checkpoint'[s] = checkpoint[s]

\* What has been recorded are changes.
LEMMA ItemTypes == ASSUME FileTypes PROVE FileEdits!ToSet(fileEditsItems) \subseteq Change
BY DEF FileTypes, FileEdits!ToSet

\* A step of one call that changes only the files it holds disturbs no other.
LEMMA OthersSound ==
  ASSUME FilesInv, NEW w \in Workers, Frame(w), NEW v \in Workers \ {w}, op'[v] = op[v]
  PROVE  Sound(op[v])'
<1> DEFINE o == op[v]
<1>0. /\ o \in FileCall /\ Sound(o) /\ nextStep \in Nat /\ nextStep' \in Nat
      /\ o.step \in Nat /\ o.first \in Nat
  BY FilesFacts DEF FilesInv, FileTypes, Frame, FileCall
<1>0a. \A c \in FileEdits!ToSet(fileEditsItems) : c.step \in FileEdits!Steps /\ c.step <= nextStep
  BY ItemTypes DEF FilesInv, StepsFresh, Change
<1>1. \A p \in Held(o) : p \in Paths /\ p \notin Held(op[w])
  <2>1. Held(o) \subseteq Paths
    <3>1. CASE o.pc = "idle"
      BY <1>0, <3>1, IdleType DEF Sound, Shape, Held, FileEdits!Idle
    <3>2. CASE o.pc # "idle"
      BY <1>0, <3>2, CallPaths DEF Sound, Held
    <3> QED
      BY <3>1, <3>2
  <2> QED
    BY <2>1, Exclusive
<1>2. \A p \in Held(o) \ fileEditsForeign' : disk'[p] = disk[p] /\ p \notin fileEditsForeign
  BY <1>1 DEF Frame
<1>3. \A c \in FileEdits!ToSet(fileEditsItems') \ FileEdits!ToSet(fileEditsItems), p \in Held(o) : ~FileEdits!Touches(c, p)
  BY <1>1 DEF Frame
<1>4. Shape(op[v])'
  BY <1>0 DEF Sound, Shape
<1>5. InFlight(op[v])'
  <2>1. ASSUME Mutating(o), NEW c \in FileEdits!ToSet(fileEditsItems')
        PROVE  c.step # o.step
    BY <1>0, <2>1 DEF Sound, InFlight, Frame, FilesInv, StepsDiffer
  <2>2. InFlight(o)
    BY <1>0 DEF Sound
  <2> HIDE DEF o
  <2>3. o.step <= nextStep'
    BY <1>0, <2>2 DEF InFlight, Frame
  <2> QED
    BY <2>1, <2>2, <2>3 DEF InFlight, Mutating, o
<1>6. o.pc \in {"check", "begin", "write", "record", "validate", "unlock"} => Held(o) = FileEdits!ToSet(o.paths)
  BY <1>0, CallPaths DEF Sound
<1>7. o.pc \in {"begin", "write", "record"} =>
        /\ FileEdits!ToSet(o.todo) \subseteq Held(o) /\ o.todo[1] \in Held(o)
  BY <1>0, <1>6, CallPaths DEF Sound
<1>8. SawCurrent(op[v])'
  BY <1>0, <1>2, <1>7 DEF Sound, SawCurrent
<1>9. SawThere(op[v])'
  BY <1>0 DEF Sound, SawThere
<1>10. Saved(op[v])'
  <2>1. Mutating(o) => o.step \in FileEdits!Steps /\ o.step <= nextStep
    BY <1>0, FilesFacts DEF Sound, InFlight, FilesInv, FileTypes
  <2>2. Mutating(o) => was'[o.step] = was[o.step] /\ checkpoint'[o.step] = checkpoint[o.step]
    BY <2>1 DEF Frame
  <2>3. fileEditsForeign \subseteq fileEditsForeign'
    BY DEF Frame
  <2> QED
    BY <1>0, <2>2, <2>3 DEF Sound, Saved, Mutating
<1>11. Transacted(op[v])'
  <2> SUFFICES ASSUME NEW p \in Paths \ fileEditsForeign'
               PROVE  /\ Passed(o, p) => /\ disk'[p] = o.new
                                         /\ \E c \in FileEdits!ToSet(fileEditsItems') : FileEdits!Touches(c, p) /\ c.step >= o.first
                      /\ o.kind = "transaction" /\ o.pc = "record" /\ p = o.todo[1] => disk'[p] = o.new
    BY DEF Transacted, Passed
  <2>1. p \in Paths \ fileEditsForeign
    BY DEF Frame
  <2>2. Passed(o, p) => p \in Held(o)
    BY <1>6 DEF Passed
  <2>3. Passed(o, p) => \E c \in FileEdits!ToSet(fileEditsItems) : FileEdits!Touches(c, p) /\ c.step >= o.first
    BY <1>0, <2>1 DEF Sound, Transacted
  <2>4. Passed(o, p) => \E c \in FileEdits!ToSet(fileEditsItems') : FileEdits!Touches(c, p) /\ c.step >= o.first
    BY <2>3 DEF Frame
  <2>5. Passed(o, p) => disk'[p] = o.new
    BY <1>0, <1>2, <2>1, <2>2 DEF Sound, Transacted
  <2>6. o.kind = "transaction" /\ o.pc = "record" /\ p = o.todo[1] => disk'[p] = o.new
    BY <1>0, <1>2, <1>7, <2>1 DEF Sound, Transacted
  <2> QED
    BY <2>4, <2>5, <2>6
<1>12. OwnChanges(op[v])'
  <2> SUFFICES ASSUME NEW p \in Held(o) \ fileEditsForeign', o.pc # "idle", o.kind = "transaction",
                      0 < o.first, NEW c \in FileEdits!ToSet(fileEditsItems'), FileEdits!Touches(c, p), c.step >= o.first
               PROVE  c.kind # "moved" /\ was'[c.step][p] = o.saw[p]
    BY DEF OwnChanges, Held, FileEdits!Touches
  <2>1. c \in FileEdits!ToSet(fileEditsItems) /\ p \notin fileEditsForeign
    BY <1>2, <1>3
  <2>2. c.kind # "moved" /\ was[c.step][p] = o.saw[p]
    BY <1>0, <2>1 DEF Sound, OwnChanges
  <2>3. was'[c.step] = was[c.step]
    BY <1>0a, <2>1 DEF Frame
  <2> QED
    BY <2>2, <2>3
<1>13. Whole(op[v])'
  BY <1>0, <1>2, <1>6 DEF Sound, Whole
<1> QED
  BY <1>4, <1>5, <1>8, <1>9, <1>10, <1>11, <1>12, <1>13 DEF Sound

\* Sequences of at most two paths and their sets.
LEMMA SetsFacts ==
  ASSUME FileTypes, NEW w \in Workers, NEW o \in FileCall, FileEdits!Sets(w, o)
  PROVE  /\ op' \in [Workers -> FileCall] /\ op'[w] = o
         /\ \A v \in Workers \ {w} : op'[v] = op[v]
BY DEF FileTypes, FileEdits!Sets

\* What changes nothing keeps the invariant.
LEMMA FilesQuietStep ==
  ASSUME FilesInv, NEW w \in Workers, op' \in [Workers -> FileCall],
         \A v \in Workers \ {w} : op'[v] = op[v],
         Held(op'[w]) = Held(op[w]),
         Mutating(op'[w]) => Mutating(op[w]) /\ op'[w].step = op[w].step,
         UNCHANGED <<lock, FileEdits!tracker, was>>, ops' \in 0..MaxOps,
         disk' \in [Paths -> FileEdits!Contents], fileEditsForeign \subseteq fileEditsForeign', fileEditsForeign' \subseteq Paths,
         \A p \in Paths \ fileEditsForeign' : p \notin Held(op[w]) => disk'[p] = disk[p],
         Sound(op[w])'
  PROVE  FilesInv'
<1>1. FileTypes'
  BY DEF FilesInv, FileTypes, FileEdits!tracker
<1>2. LocksHeld'
  BY DEF FilesInv, LocksHeld, Held
<1>3. StepsDiffer'
  BY DEF FilesInv, StepsDiffer, Mutating
<1>4. StepsFresh' /\ AllRecorded'
  BY DEF FilesInv, StepsFresh, AllRecorded, Recorded, FileEdits!tracker, FileEdits!Touches
<1>5. Frame(w)
  BY FilesFacts DEF Frame, FileEdits!tracker, FilesInv, FileTypes
<1>6. \A v \in Workers \ {w} : Sound(op[v])'
  BY <1>5, OthersSound
<1> QED
  BY <1>1, <1>2, <1>3, <1>4, <1>6 DEF FilesInv

\* A call is made.
LEMMA FilesCallStep ==
  ASSUME FilesInv, NEW w \in Workers, NEW kind \in FileKinds, NEW ps \in FileEdits!Calls, FileEdits!IsInjective(ps),
         FileEdits!Call(w, kind, ps)
  PROVE  FilesInv'
<1> DEFINE o == [FileEdits!Idle EXCEPT !.pc = "lock", !.kind = kind, !.paths = ps, !.todo = ps,
                                       !.want = FileEdits!ToSet(ps), !.new = ops']
<1>1. FileTypes /\ op[w] = FileEdits!Idle /\ Sound(op[w])
  BY DEF FilesInv, Sound, Shape, FileEdits!Call
<1>2. /\ ps \in Seq(Paths) /\ Len(ps) \in {1, 2} /\ FileEdits!ToSet(ps) \subseteq Paths
      /\ ps[1] \in FileEdits!ToSet(ps) /\ (Len(ps) = 2 => ps[1] # ps[2])
  <2>1. CASE \E p \in Paths : ps = <<p>>
    BY <2>1 DEF FileEdits!ToSet
  <2>2. CASE \E p \in Paths, q \in Paths : ps = <<p, q>>
    BY <2>2 DEF FileEdits!ToSet, FileEdits!IsInjective
  <2> QED
    BY <2>1, <2>2 DEF FileEdits!Calls
<1>3. ops' \in 0..MaxOps /\ ops' \in FileEdits!Contents /\ kind \in FileEdits!AllKinds
  BY <1>1, FilesFacts DEF FileEdits!Call, FileTypes
<1>4. o \in FileCall
  BY <1>2, <1>3, IdleType DEF FileCall, FileEdits!Idle, Pcs
<1>5. op' \in [Workers -> FileCall] /\ op'[w] = o /\ \A v \in Workers \ {w} : op'[v] = op[v]
  BY <1>1, <1>4, SetsFacts DEF FileEdits!Call
<1>6. /\ o.pc = "lock" /\ o.kind = kind /\ o.todo = ps /\ o.want = FileEdits!ToSet(ps) /\ o.saw = FileEdits!NoStep
      /\ o.step = 0 /\ o.first = 0 /\ o.new = ops' /\ o.ok = TRUE /\ o.paths = ps
  BY DEF FileEdits!Idle
<1> HIDE DEF o
<1>7. Held(op'[w]) = Held(op[w])
  BY <1>1, <1>5, <1>6, IdleType DEF Held, FileEdits!Idle
<1>8. /\ kind = "move" => Len(ps) = 2
      /\ kind \notin {"move", "transaction"} => Len(ps) = 1
  BY DEF FileEdits!Call
<1>9. Shape(op[w])'
  BY <1>2, <1>5, <1>6, <1>8 DEF Shape
<1>10. InFlight(op[w])'
  BY <1>1, <1>5, <1>6, FilesFacts DEF InFlight, Mutating, FileEdits!Call, FileEdits!tracker, FileTypes
<1>11. Sound(op[w])'
  BY <1>5, <1>6, <1>9, <1>10
     DEF Sound, SawCurrent, SawThere, Saved, Transacted, Passed, OwnChanges, Whole, Mutating
<1>12. UNCHANGED <<disk, lock, FileEdits!tracker, was, fileEditsForeign>>
  BY DEF FileEdits!Call, FileEdits!ghosts
<1>13. disk' \in [Paths -> FileEdits!Contents] /\ fileEditsForeign' \subseteq Paths
  BY <1>1, <1>12 DEF FileTypes
<1> QED
  <2>1. ~Mutating(op'[w])
    BY <1>5, <1>6 DEF Mutating
  <2> QED
    BY <1>3, <1>5, <1>7, <1>11, <1>12, <1>13, <2>1, FilesQuietStep

\* A tool that goes on under its locks, and one that gives up.
LEMMA GoesStep ==
  ASSUME FilesInv, NEW w \in Workers, op[w].pc = "check", FileEdits!Goes(w),
         op[w].kind \in {"delete", "move"} => ~FileEdits!Missing(w),
         UNCHANGED <<lock, FileEdits!tracker, ops, FileEdits!ghosts>>, disk' \in [Paths -> FileEdits!Contents],
         \A p \in Paths : disk'[p] = disk[p] \/ (op[w].kind = "move" /\ p = op[w].todo[2])
  PROVE  FilesInv'
<1> DEFINE o == op[w]
           n == [op[w] EXCEPT !.saw = disk, !.pc = "begin"]
<1>1. FileTypes /\ o \in FileCall /\ Sound(o)
  BY DEF FilesInv, FileTypes
<1>2. n \in FileCall
  BY <1>1 DEF FileTypes, FileCall, Pcs
<1>3. op' \in [Workers -> FileCall] /\ op'[w] = n /\ \A v \in Workers \ {w} : op'[v] = op[v]
  BY <1>1, <1>2, SetsFacts DEF FileEdits!Goes
<1>4. /\ n.saw = disk /\ n.pc = "begin" /\ n.kind = o.kind /\ n.todo = o.todo /\ n.want = o.want
      /\ n.step = o.step /\ n.first = o.first /\ n.new = o.new /\ n.ok = o.ok /\ n.paths = o.paths
  BY <1>1 DEF FileCall
<1> HIDE DEF n
<1>5. UNCHANGED <<lock, FileEdits!tracker, was, fileEditsForeign, ops>>
  BY DEF FileEdits!ghosts
<1>6. o.todo = o.paths /\ o.first = 0 /\ o.want = {}
  BY <1>1 DEF Sound, Shape
<1>7. Shape(op[w])'
  BY <1>1, <1>3, <1>4 DEF Sound, Shape
<1>8. InFlight(op[w])'
  BY <1>1, <1>3, <1>4, <1>5, <1>6 DEF Sound, InFlight, Mutating, FileEdits!tracker
<1>9. SawCurrent(op[w])'
  <2>1. FileEdits!ToSet(o.todo) \subseteq Paths
    BY <1>1, CallPaths DEF Sound
  <2> QED
    BY <1>3, <1>4, <2>1 DEF SawCurrent
<1>10. SawThere(op[w])'
  BY <1>3, <1>4 DEF SawThere, FileEdits!Missing
<1>11. Transacted(op[w])' /\ OwnChanges(op[w])'
  BY <1>3, <1>4, <1>6 DEF Transacted, Passed, OwnChanges
<1>12. Sound(op[w])'
  BY <1>3, <1>4, <1>7, <1>8, <1>9, <1>10, <1>11 DEF Sound, Saved, Whole, Mutating
<1>13. Held(op'[w]) = Held(op[w]) /\ ~Mutating(op'[w])
  BY <1>3, <1>4 DEF Held, Mutating
<1>14. \A p \in Paths : p \notin Held(op[w]) => disk'[p] = disk[p]
  BY <1>1, CallPaths DEF Sound
<1>15. ops' \in 0..MaxOps /\ fileEditsForeign' \subseteq Paths
  BY <1>1, <1>5 DEF FileTypes
<1> QED
  BY <1>3, <1>5, <1>12, <1>13, <1>14, <1>15, FilesQuietStep

\* A call that gives up goes on to unlock what it holds.
LEMMA GivesUpStep ==
  ASSUME FilesInv, NEW w \in Workers, op[w].pc = "check", FileEdits!GivesUp(w), FileEdits!LooksOnly
  PROVE  FilesInv'
<1> DEFINE o == op[w]
           n == [op[w] EXCEPT !.saw = disk, !.pc = "unlock", !.ok = FALSE]
<1>1. FileTypes /\ o \in FileCall /\ Sound(o)
  BY DEF FilesInv, FileTypes
<1>2. n \in FileCall
  BY <1>1 DEF FileTypes, FileCall, Pcs
<1>3. op' \in [Workers -> FileCall] /\ op'[w] = n /\ \A v \in Workers \ {w} : op'[v] = op[v]
  BY <1>1, <1>2, SetsFacts DEF FileEdits!GivesUp
<1>4. /\ n.saw = disk /\ n.pc = "unlock" /\ n.kind = o.kind /\ n.todo = o.todo /\ n.want = o.want
      /\ n.step = o.step /\ n.first = o.first /\ n.new = o.new /\ n.ok = FALSE /\ n.paths = o.paths
  BY <1>1 DEF FileCall
<1> HIDE DEF n
<1>5. UNCHANGED <<disk, lock, FileEdits!tracker, was, fileEditsForeign, ops>>
  BY DEF FileEdits!LooksOnly, FileEdits!ghosts
<1>6. o.first = 0 /\ o.want = {}
  BY <1>1 DEF Sound, Shape
<1>7. Shape(op[w])'
  BY <1>1, <1>3, <1>4 DEF Sound, Shape
<1>8. InFlight(op[w])'
  BY <1>1, <1>3, <1>4, <1>5, <1>6 DEF Sound, InFlight, Mutating, FileEdits!tracker
<1>11. Transacted(op[w])' /\ OwnChanges(op[w])'
  BY <1>3, <1>4, <1>6 DEF Transacted, Passed, OwnChanges
<1>12. Sound(op[w])'
  BY <1>3, <1>4, <1>5, <1>7, <1>8, <1>11 DEF Sound, SawCurrent, SawThere, Saved, Whole, Mutating
<1>13. Held(op'[w]) = Held(op[w]) /\ ~Mutating(op'[w])
  BY <1>3, <1>4 DEF Held, Mutating
<1>15. ops' \in 0..MaxOps /\ fileEditsForeign' \subseteq Paths /\ disk' \in [Paths -> FileEdits!Contents]
  BY <1>1, <1>5 DEF FileTypes
<1> QED
  BY <1>3, <1>5, <1>12, <1>13, <1>15, FilesQuietStep

\* A call sees what its files are, and goes on or gives up.
LEMMA CheckStep ==
  ASSUME FilesInv, NEW w \in Workers,
         FileEdits!WriteFile(w) \/ FileEdits!EditFile(w) \/ FileEdits!MultiEdit(w) \/ FileEdits!ApplyDiff(w) \/ FileEdits!DeleteFile(w)
           \/ FileEdits!TransactionalEdit(w)
  PROVE  FilesInv'
<1>1. op[w].pc = "check" /\ FileEdits!LooksOnly /\ (FileEdits!Goes(w) \/ FileEdits!GivesUp(w))
      /\ (FileEdits!Goes(w) /\ op[w].kind \in {"delete", "move"} => ~FileEdits!Missing(w) \/ FileEdits!GivesUp(w))
  <2>1. CASE FileEdits!WriteFile(w) \/ FileEdits!EditFile(w) \/ FileEdits!MultiEdit(w)
    BY <2>1 DEF FileEdits!WriteFile, FileEdits!EditFile, FileEdits!MultiEdit, FileEdits!Checking
  <2>2. CASE FileEdits!ApplyDiff(w) \/ FileEdits!TransactionalEdit(w)
    BY <2>2 DEF FileEdits!ApplyDiff, FileEdits!TransactionalEdit, FileEdits!Checking
  <2>3. CASE FileEdits!DeleteFile(w)
    BY <2>3 DEF FileEdits!DeleteFile, FileEdits!Checking
  <2> QED
    BY <2>1, <2>2, <2>3
<1>2. disk' = disk /\ UNCHANGED <<lock, FileEdits!tracker, ops, FileEdits!ghosts>>
  BY <1>1 DEF FileEdits!LooksOnly
<1>5. disk' \in [Paths -> FileEdits!Contents]
  BY <1>2 DEF FilesInv, FileTypes
<1>3. CASE FileEdits!GivesUp(w)
  BY <1>1, <1>3, GivesUpStep
<1>4. CASE ~FileEdits!GivesUp(w)
  BY <1>1, <1>2, <1>4, <1>5, GoesStep
<1> QED
  BY <1>3, <1>4

\* A move whose new name is taken gives up.
LEMMA MoveStep ==
  ASSUME FilesInv, NEW w \in Workers, FileEdits!MoveFile(w)
  PROVE  FilesInv'
<1>1. FileTypes /\ op[w] \in FileCall /\ Sound(op[w]) /\ op[w].pc = "check" /\ op[w].kind = "move"
  BY DEF FilesInv, FileTypes, FileEdits!MoveFile, FileEdits!Checking
<1>2. UNCHANGED <<lock, FileEdits!tracker, ops, FileEdits!ghosts>>
  BY DEF FileEdits!MoveFile
<1>3. CASE FileEdits!GivesUp(w) /\ UNCHANGED disk
  BY <1>1, <1>2, <1>3, GivesUpStep DEF FileEdits!LooksOnly
<1>4. CASE ~FileEdits!Missing(w) /\ FileEdits!Goes(w) /\ UNCHANGED disk
  BY <1>1, <1>2, <1>4, GoesStep DEF FileTypes
<1>5. CASE ~FileEdits!Missing(w) /\ FileEdits!Goes(w) /\ disk' = [disk EXCEPT ![op[w].todo[2]] = FileEdits!Absent]
  <2>0. FileEdits!Absent \in FileEdits!Contents
    BY FilesFacts
  <2>1. disk' \in [Paths -> FileEdits!Contents]
    BY <1>1, <1>5, <2>0 DEF FileTypes
  <2>2. \A p \in Paths : disk'[p] = disk[p] \/ p = op[w].todo[2]
    BY <1>1, <1>5 DEF FileTypes
  <2> QED
    BY <1>1, <1>2, <1>5, <2>1, <2>2, GoesStep
<1> QED
  BY <1>3, <1>4, <1>5 DEF FileEdits!MoveFile

\* The locks are taken one at a time.
LEMMA TakeLockStep ==
  ASSUME FilesInv, NEW w \in Workers, FileEdits!TakeLock(w)
  PROVE  FilesInv'
<1> DEFINE o == op[w]
           q == FileEdits!NextLock(w)
           n == [op[w] EXCEPT !.want = @ \ {q},
                              !.pc = IF op[w].want = {q} THEN "check" ELSE "lock"]
<1>1. FileTypes /\ o \in FileCall /\ Sound(o) /\ o.pc = "lock"
  BY DEF FilesInv, FileTypes, FileEdits!TakeLock
<1>2. q \in o.want /\ q \in Paths /\ o.want \subseteq Paths
  <2>1. o.want # {} /\ o.want \in SUBSET Nat /\ o.want \subseteq Paths
    BY <1>1, FilesFacts DEF Sound, Shape, FileCall
  <2>2. \E x \in o.want : \A y \in o.want : x <= y
    BY <2>1, LeastOfNats
  <2> QED
    BY <2>1, <2>2 DEF FileEdits!NextLock, FileEdits!Min
<1>3. /\ lock[q] = "free" /\ lock' = [lock EXCEPT ![q] = w] /\ FileEdits!Sets(w, n)
      /\ UNCHANGED <<disk, FileEdits!tracker, ops, was, fileEditsForeign>>
  BY DEF FileEdits!TakeLock, FileEdits!ghosts
<1> HIDE DEF q
<1>4. n \in FileCall
  BY <1>1, <1>2 DEF FileTypes, FileCall, Pcs
<1>5. op' \in [Workers -> FileCall] /\ op'[w] = n /\ \A v \in Workers \ {w} : op'[v] = op[v]
  BY <1>1, <1>3, <1>4, SetsFacts
<1>6. /\ n.saw = o.saw /\ n.pc \in {"lock", "check"} /\ (n.pc = "lock" <=> n.want # {})
      /\ n.kind = o.kind /\ n.todo = o.todo /\ n.want = o.want \ {q} /\ n.step = o.step
      /\ n.first = o.first /\ n.new = o.new /\ n.ok = o.ok /\ n.paths = o.paths
  BY <1>1, <1>2 DEF FileCall
<1> HIDE DEF n
<1>7. o.first = 0 /\ o.todo = o.paths
  BY <1>1 DEF Sound, Shape
<1>8. Shape(op[w])'
  BY <1>1, <1>5, <1>6 DEF Sound, Shape
<1>9. InFlight(op[w])'
  BY <1>1, <1>3, <1>5, <1>6 DEF Sound, InFlight, Mutating, FileEdits!tracker
<1>10. Transacted(op[w])' /\ OwnChanges(op[w])'
  BY <1>5, <1>6, <1>7 DEF Transacted, Passed, OwnChanges
<1>11. Sound(op[w])'
  BY <1>5, <1>6, <1>8, <1>9, <1>10 DEF Sound, SawCurrent, SawThere, Saved, Whole, Mutating
<1>12. Held(op'[w]) = Held(o) \cup {q} /\ ~Mutating(op'[w])
  BY <1>1, <1>2, <1>5, <1>6 DEF Held, Mutating, Sound, Shape
<1>13. LocksHeld'
  BY <1>1, <1>2, <1>3, <1>5, <1>12, FilesFacts DEF LocksHeld, FilesInv, FileTypes
<1>14. FileTypes'
  BY <1>1, <1>2, <1>3, <1>5 DEF FileTypes, FileEdits!tracker
<1>15. StepsDiffer' /\ StepsFresh' /\ AllRecorded'
  <2>1. StepsDiffer'
    BY <1>5, <1>12 DEF FilesInv, StepsDiffer
  <2> QED
    BY <1>3, <2>1 DEF FilesInv, StepsFresh, AllRecorded, Recorded, FileEdits!tracker, FileEdits!Touches
<1>16. Frame(w)
  BY <1>1, <1>3, FilesFacts DEF Frame, FileTypes, FileEdits!tracker
<1>17. \A v \in Workers \ {w} : Sound(op[v])'
  BY <1>5, <1>16, OthersSound
<1> QED
  BY <1>11, <1>13, <1>14, <1>15, <1>17 DEF FilesInv

\* A mutation is begun.
LEMMA BeginStep ==
  ASSUME FilesInv, NEW w \in Workers, FileEdits!Begin(w)
  PROVE  FilesInv'
<1> DEFINE o == op[w]
           t == op[w].todo[1]
           n == [op[w] EXCEPT !.pc = "write", !.step = nextStep',
                              !.first = IF @ = 0 THEN nextStep' ELSE @]
<1>1. FileTypes /\ o \in FileCall /\ Sound(o) /\ o.pc = "begin" /\ nextStep \in Nat
  BY FilesFacts DEF FilesInv, FileTypes, FileEdits!Begin
<1>2. /\ nextStep' = nextStep + 1 /\ nextStep' \in FileEdits!Steps
      /\ was' = [was EXCEPT ![nextStep'] = disk] /\ FileEdits!Sets(w, n)
      /\ checkpoint' = IF disk[t] = FileEdits!Absent THEN checkpoint
                       ELSE [checkpoint EXCEPT ![nextStep'][t] = disk[t]]
      /\ UNCHANGED <<disk, lock, fileEditsItems, ops, fileEditsForeign>>
  BY <1>1, FilesFacts DEF FileEdits!Begin, FileEdits!BeginMutation
<1>3. n \in FileCall
  <2>1. nextStep' \in Nat
    BY <1>2, FilesFacts
  <2> QED
    BY <1>1, <2>1 DEF FileCall, Pcs
<1>4. op' \in [Workers -> FileCall] /\ op'[w] = n /\ \A v \in Workers \ {w} : op'[v] = op[v]
  BY <1>1, <1>2, <1>3, SetsFacts
<1>5. /\ n.saw = o.saw /\ n.pc = "write" /\ n.kind = o.kind /\ n.todo = o.todo /\ n.want = o.want
      /\ n.step = nextStep' /\ n.first = (IF o.first = 0 THEN nextStep' ELSE o.first)
      /\ n.new = o.new /\ n.ok = o.ok /\ n.paths = o.paths
  BY <1>1 DEF FileCall
<1> HIDE DEF n
<1>6. /\ t \in FileEdits!ToSet(o.todo) /\ FileEdits!ToSet(o.todo) \subseteq Paths /\ Held(o) = FileEdits!ToSet(o.paths)
      /\ o.kind = "move" => t # o.todo[2]
  BY <1>1, CallPaths DEF Sound
<1>7. /\ \A s \in FileEdits!Steps : s <= nextStep => was'[s] = was[s] /\ checkpoint'[s] = checkpoint[s]
      /\ was'[nextStep'] = disk
      /\ disk[t] # FileEdits!Absent => checkpoint'[nextStep'][t] = disk[t]
  BY <1>1, <1>2, <1>6, FilesFacts DEF FileTypes
<1>8. \A c \in FileEdits!ToSet(fileEditsItems) : c.step \in FileEdits!Steps /\ c.step <= nextStep
  BY <1>1, ItemTypes DEF FilesInv, StepsFresh, Change
<1>9. FileTypes'
  <2>1. was' \in [FileEdits!Steps -> [Paths -> FileEdits!Contents]]
    BY <1>1, <1>2 DEF FileTypes
  <2>2. checkpoint' \in [FileEdits!Steps -> [Paths -> FileEdits!Contents]]
    BY <1>1, <1>2, <1>6 DEF FileTypes
  <2>3. nextStep' \in 0..FileEdits!MaxSteps
    BY <1>2, FilesFacts
  <2> QED
    BY <1>1, <1>2, <1>4, <2>1, <2>2, <2>3 DEF FileTypes
<1>10. Held(op'[w]) = Held(o)
  BY <1>4, <1>5 DEF Held
<1>11. LocksHeld'
  BY <1>2, <1>4, <1>10 DEF FilesInv, LocksHeld
<1>12. StepsDiffer'
  <2>1. \A v \in Workers \ {w} : op[v].step \in Nat /\ op[v].step <= nextStep
    BY <1>1 DEF FilesInv, Sound, InFlight, FileTypes, FileCall
  <2>2. \A v \in Workers \ {w} : op[v].step # nextStep + 1
    BY <1>1, <2>1
  <2>3. \A v \in Workers \ {w} : op'[v].step # op'[w].step
    BY <1>2, <1>4, <1>5, <2>2
  <2> QED
    BY <1>4, <2>3 DEF FilesInv, StepsDiffer
<1>13. StepsFresh'
  <2>1. \A c \in FileEdits!ToSet(fileEditsItems) : c.step <= nextStep'
    <3> SUFFICES ASSUME NEW c \in FileEdits!ToSet(fileEditsItems) PROVE c.step <= nextStep + 1
      BY <1>2
    <3>1. c.step \in Nat /\ c.step <= nextStep
      BY <1>8, FilesFacts
    <3> QED
      BY <1>1, <3>1
  <2> QED
    BY <1>2, <2>1 DEF FilesInv, StepsFresh
<1>14. AllRecorded'
  BY <1>2, <1>7, <1>8 DEF FilesInv, AllRecorded, Recorded, FileEdits!Touches
<1>15. Frame(w)
  BY <1>1, <1>2, <1>7, <1>9 DEF Frame, FileTypes
<1>16. \A v \in Workers \ {w} : Sound(op[v])'
  BY <1>4, <1>15, OthersSound
<1>17. Shape(op[w])'
  BY <1>1, <1>4, <1>5 DEF Sound, Shape
<1>18. InFlight(op[w])'
  <2>1. n.step = nextStep + 1 /\ o.first \in Nat /\ o.first <= nextStep /\ o.step \in Nat
    BY <1>1, <1>2, <1>5 DEF Sound, InFlight, FileCall
  <2>2. n.first <= n.step /\ 0 < n.first
    BY <1>1, <1>5, <2>1
  <2>3. \A c \in FileEdits!ToSet(fileEditsItems') : c.step # n.step
    BY <1>1, <1>2, <1>8, <2>1, FilesFacts
  <2> QED
    BY <1>1, <1>2, <1>4, <1>5, <2>1, <2>2, <2>3 DEF InFlight, Mutating
<1>19. SawCurrent(op[w])'
  BY <1>1, <1>2, <1>4, <1>5 DEF Sound, SawCurrent
<1>20. SawThere(op[w])'
  BY <1>1, <1>4, <1>5 DEF Sound, SawThere
<1>21. Saved(op[w])'
  <2>1. t \notin fileEditsForeign => disk[t] = o.saw[t]
    BY <1>1, <1>6 DEF Sound, SawCurrent
  <2> QED
    BY <1>2, <1>4, <1>5, <1>7, <2>1 DEF Saved
<1>22. Transacted(op[w])'
  <2> SUFFICES ASSUME NEW p \in Paths \ fileEditsForeign, Passed(n, p)
               PROVE  disk[p] = n.new /\ \E c \in FileEdits!ToSet(fileEditsItems) : FileEdits!Touches(c, p) /\ c.step >= n.first
    BY <1>2, <1>4, <1>5 DEF Transacted, Passed, FileEdits!Touches
  <2>1. Passed(o, p)
    BY <1>1, <1>5 DEF Passed
  <2>2. o.first # 0
    BY <1>1, <1>5, <2>1 DEF Sound, InFlight, Passed
  <2> QED
    BY <1>1, <1>5, <2>1, <2>2 DEF Sound, Transacted
<1>23. OwnChanges(op[w])'
  <2> SUFFICES ASSUME NEW p \in Held(o) \ fileEditsForeign, o.kind = "transaction",
                      NEW c \in FileEdits!ToSet(fileEditsItems), FileEdits!Touches(c, p), c.step >= n.first
               PROVE  c.kind # "moved" /\ was'[c.step][p] = o.saw[p]
    BY <1>2, <1>4, <1>5, <1>10 DEF OwnChanges, FileEdits!Touches
  <2>1. o.first # 0 /\ c.step >= o.first
    <3>1. c.step \in Nat /\ c.step <= nextStep
      BY <1>8, FilesFacts
    <3> QED
      BY <1>1, <1>2, <1>5, <3>1
  <2>2. 0 < o.first
    BY <1>1, <2>1 DEF FileCall
  <2>3. c.kind # "moved" /\ was[c.step][p] = o.saw[p]
    BY <1>1, <2>1, <2>2 DEF Sound, OwnChanges
  <2> QED
    BY <1>7, <1>8, <2>3
<1>24. Sound(op[w])'
  BY <1>4, <1>5, <1>17, <1>18, <1>19, <1>20, <1>21, <1>22, <1>23 DEF Sound, Whole
<1> QED
  BY <1>9, <1>11, <1>12, <1>13, <1>14, <1>16, <1>24 DEF FilesInv

\* The change itself.
LEMMA FilesWriteStep ==
  ASSUME FilesInv, NEW w \in Workers, FileEdits!Write(w)
  PROVE  FilesInv'
<1> DEFINE o == op[w]
           t == op[w].todo[1]
           n == [op[w] EXCEPT !.pc = "record"]
<1>1. FileTypes /\ o \in FileCall /\ Sound(o) /\ o.pc = "write" /\ FileEdits!Sets(w, n)
  BY DEF FilesInv, FileTypes, FileEdits!Write
<1>2. n \in FileCall
  BY <1>1 DEF FileCall, Pcs
<1>3. op' \in [Workers -> FileCall] /\ op'[w] = n /\ \A v \in Workers \ {w} : op'[v] = op[v]
  BY <1>1, <1>2, SetsFacts
<1>4. /\ n.saw = o.saw /\ n.pc = "record" /\ n.kind = o.kind /\ n.todo = o.todo /\ n.want = o.want
      /\ n.step = o.step /\ n.first = o.first /\ n.new = o.new /\ n.ok = o.ok /\ n.paths = o.paths
  BY <1>1 DEF FileCall
<1> HIDE DEF n
<1>5. UNCHANGED <<lock, FileEdits!tracker, was, fileEditsForeign, ops>>
  BY DEF FileEdits!Write, FileEdits!ghosts
<1>6. /\ t \in FileEdits!ToSet(o.todo) /\ FileEdits!ToSet(o.todo) \subseteq FileEdits!ToSet(o.paths) /\ FileEdits!ToSet(o.paths) \subseteq Paths
      /\ Held(o) = FileEdits!ToSet(o.paths) /\ (o.kind = "move" => o.todo[2] \in FileEdits!ToSet(o.paths))
  BY <1>1, CallPaths DEF Sound
<1>7. disk' = CASE o.kind = "delete" -> [disk EXCEPT ![t] = FileEdits!Absent]
               [] o.kind = "move" -> [disk EXCEPT ![t] = FileEdits!Absent, ![o.todo[2]] = disk[t]]
               [] OTHER -> [disk EXCEPT ![t] = o.new]
  BY DEF FileEdits!Write
<1>8. /\ disk' \in [Paths -> FileEdits!Contents]
      /\ \A p \in Paths : p = t \/ (o.kind = "move" /\ p = o.todo[2]) \/ disk'[p] = disk[p]
      /\ o.kind = "transaction" => disk'[t] = o.new
  <2>1. FileEdits!Absent \in FileEdits!Contents /\ o.new \in FileEdits!Contents /\ disk \in [Paths -> FileEdits!Contents] /\ t \in Paths
    BY <1>1, <1>6, FilesFacts DEF FileTypes, FileCall
  <2>2. CASE o.kind = "delete"
    BY <1>7, <2>1, <2>2
  <2>3. CASE o.kind = "move"
    BY <1>6, <1>7, <2>1, <2>3
  <2>4. CASE o.kind \notin {"delete", "move"}
    <3>1. disk' = [disk EXCEPT ![t] = o.new]
      BY <1>7, <2>4
    <3> QED
      BY <2>1, <2>4, <3>1
  <2> QED
    BY <2>2, <2>3, <2>4
<1>9. Held(op'[w]) = Held(o) /\ (Mutating(op'[w]) => Mutating(op[w]) /\ op'[w].step = op[w].step)
  BY <1>1, <1>3, <1>4 DEF Held, Mutating
<1>10. Shape(op[w])'
  BY <1>1, <1>3, <1>4 DEF Sound, Shape
<1>11. InFlight(op[w])'
  BY <1>1, <1>3, <1>4, <1>5 DEF Sound, InFlight, Mutating, FileEdits!tracker
<1>12. SawCurrent(op[w])'
  <2> SUFFICES ASSUME NEW p \in FileEdits!ToSet(o.todo) \ fileEditsForeign, o.kind = "transaction", p # t
               PROVE  disk'[p] = o.saw[p]
    BY <1>3, <1>4, <1>5 DEF SawCurrent
  <2>1. disk[p] = o.saw[p]
    BY <1>1 DEF Sound, SawCurrent
  <2> QED
    BY <1>6, <1>8, <2>1
<1>13. SawThere(op[w])'
  BY <1>1, <1>3, <1>4 DEF Sound, SawThere
<1>14. Saved(op[w])'
  BY <1>1, <1>3, <1>4, <1>5 DEF Sound, Saved, Mutating, FileEdits!tracker
<1>15. Transacted(op[w])'
  <2> SUFFICES ASSUME NEW p \in Paths \ fileEditsForeign, o.kind = "transaction"
               PROVE  /\ Passed(n, p) => /\ disk'[p] = n.new
                                         /\ \E c \in FileEdits!ToSet(fileEditsItems) : FileEdits!Touches(c, p) /\ c.step >= n.first
                      /\ p = t => disk'[p] = n.new
    BY <1>3, <1>4, <1>5 DEF Transacted, Passed, FileEdits!Touches, FileEdits!tracker
  <2>1. p = t => disk'[p] = n.new
    BY <1>4, <1>8
  <2>2. ASSUME Passed(n, p)
        PROVE  disk'[p] = n.new /\ \E c \in FileEdits!ToSet(fileEditsItems) : FileEdits!Touches(c, p) /\ c.step >= n.first
    <3>1. Passed(o, p) /\ p # t
      BY <1>1, <1>4, <1>6, <2>2 DEF Passed
    <3> QED
      BY <1>1, <1>4, <1>8, <3>1 DEF Sound, Transacted
  <2> QED
    BY <2>1, <2>2
<1>16. OwnChanges(op[w])'
  BY <1>1, <1>3, <1>4, <1>5, <1>9 DEF Sound, OwnChanges, FileEdits!tracker, FileEdits!Touches
<1>17. Sound(op[w])'
  BY <1>3, <1>4, <1>10, <1>11, <1>12, <1>13, <1>14, <1>15, <1>16 DEF Sound, Whole
<1>18. \A p \in Paths : p \notin Held(op[w]) => disk'[p] = disk[p]
  BY <1>6, <1>8
<1>19. ops' \in 0..MaxOps /\ fileEditsForeign' \subseteq Paths
  BY <1>1, <1>5 DEF FileTypes
<1> QED
  BY <1>3, <1>5, <1>8, <1>9, <1>17, <1>18, <1>19, FilesQuietStep

\* A write that fails, outside of a transaction: nothing is recorded, and only the file that the
\* call holds can have changed.
LEMMA FilesFailStep ==
  ASSUME FilesInv, NEW w \in Workers, FileEdits!WriteFails(w)
  PROVE  FilesInv'
<1> DEFINE o == op[w]
           t == op[w].todo[1]
           n == [op[w] EXCEPT !.pc = "unlock", !.ok = FALSE]
<1>1. FileTypes /\ o \in FileCall /\ Sound(o) /\ o.pc = "write" /\ o.kind # "transaction" /\ FileEdits!Sets(w, n)
  BY DEF FilesInv, FileTypes, FileEdits!WriteFails
<1>2. n \in FileCall
  BY <1>1 DEF FileCall, Pcs
<1>3. op' \in [Workers -> FileCall] /\ op'[w] = n /\ \A v \in Workers \ {w} : op'[v] = op[v]
  BY <1>1, <1>2, SetsFacts
<1>4. /\ n.saw = o.saw /\ n.pc = "unlock" /\ n.kind = o.kind /\ n.todo = o.todo /\ n.want = o.want
      /\ n.step = o.step /\ n.first = o.first /\ n.new = o.new /\ n.ok = FALSE /\ n.paths = o.paths
  BY <1>1 DEF FileCall
<1> HIDE DEF n
<1>5. UNCHANGED <<lock, FileEdits!tracker, was, fileEditsForeign, ops>>
  BY DEF FileEdits!WriteFails, FileEdits!ghosts
<1>6. t \in FileEdits!ToSet(o.paths) /\ FileEdits!ToSet(o.paths) \subseteq Paths /\ Held(o) = FileEdits!ToSet(o.paths)
  BY <1>1, CallPaths DEF Sound
<1>7. disk' \in [Paths -> FileEdits!Contents] /\ \A p \in Paths : p = t \/ disk'[p] = disk[p]
  <2>1. o.new \in FileEdits!Contents /\ disk \in [Paths -> FileEdits!Contents] /\ t \in Paths
    BY <1>1, <1>6 DEF FileTypes, FileCall
  <2>2. disk' = disk \/ disk' = [disk EXCEPT ![t] = o.new]
    BY DEF FileEdits!WriteFails
  <2> QED
    BY <2>1, <2>2
<1>8. Shape(op[w])'
  BY <1>1, <1>3, <1>4 DEF Sound, Shape
<1>9. InFlight(op[w])'
  BY <1>1, <1>3, <1>4, <1>5 DEF Sound, InFlight, Mutating, FileEdits!tracker
<1>10. Sound(op[w])'
  BY <1>1, <1>3, <1>4, <1>8, <1>9
     DEF Sound, SawCurrent, SawThere, Saved, Transacted, Passed, OwnChanges, Whole, Mutating
<1>11. Held(op'[w]) = Held(op[w]) /\ ~Mutating(op'[w])
  BY <1>3, <1>4 DEF Held, Mutating
<1>12. \A p \in Paths : p \notin Held(op[w]) => disk'[p] = disk[p]
  BY <1>6, <1>7
<1>13. ops' \in 0..MaxOps /\ fileEditsForeign' \subseteq Paths
  BY <1>1, <1>5 DEF FileTypes
<1> QED
  BY <1>3, <1>5, <1>7, <1>10, <1>11, <1>12, <1>13, FilesQuietStep

\* A sequence of length one.
LEMMA OfLenOne ==
  ASSUME NEW S, NEW x \in S, NEW ts \in Seq(S), Len(ts) = 1, ts[1] = x
  PROVE  ts = <<x>>
OBVIOUS

\* A sequence of two and the set of what it holds.
LEMMA OfTwo ==
  ASSUME NEW S, NEW ps \in Seq(S), Len(ps) = 2
  PROVE  /\ Tail(ps) = <<ps[2]>> /\ FileEdits!ToSet(Tail(ps)) = {ps[2]}
         /\ FileEdits!ToSet(ps) = {ps[1], ps[2]}
<1>1. Tail(ps) \in Seq(S) /\ Len(Tail(ps)) = 1 /\ Tail(ps)[1] = ps[2] /\ ps[2] \in S
  OBVIOUS
<1>2. Tail(ps) = <<ps[2]>>
  BY <1>1, OfLenOne
<1> QED
  BY <1>2 DEF FileEdits!ToSet

\* A sequence of one and the set of what it holds.
LEMMA OfOne == ASSUME NEW x PROVE Len(<<x>>) = 1 /\ <<x>>[1] = x /\ FileEdits!ToSet(<<x>>) = {x}
BY DEF FileEdits!ToSet

\* What is left to do of two files.
LEMMA TodoFacts ==
  ASSUME NEW ps \in Seq(Paths), NEW ts \in Seq(Paths), Len(ps) = 1 \/ Len(ps) = 2,
         ts = ps \/ (Len(ps) = 2 /\ ts = <<ps[2]>>)
  PROVE  /\ Len(ts) > 1 =>
              /\ ts = ps /\ Len(ps) = 2 /\ Tail(ts) = <<ps[2]>> /\ FileEdits!ToSet(Tail(ts)) = {ps[2]}
              /\ ts[1] = ps[1] /\ FileEdits!ToSet(ps) = {ps[1], ps[2]}
         /\ Len(ts) <= 1 => FileEdits!ToSet(ts) = {ts[1]}
<1>1. CASE ts # ps
  <2>1. ts = <<ps[2]>>
    BY <1>1
  <2>2. Len(ts) = 1 /\ ts[1] = ps[2] /\ FileEdits!ToSet(ts) = {ps[2]}
    BY <2>1, OfOne
  <2> QED
    BY <2>2
<1>2. CASE ts = ps /\ Len(ps) = 1
  BY <1>2 DEF FileEdits!ToSet
<1>3. CASE ts = ps /\ Len(ps) = 2
  BY <1>3, OfTwo
<1> QED
  BY <1>1, <1>2, <1>3

\* It is recorded.
LEMMA RecordStep ==
  ASSUME FilesInv, NEW w \in Workers, FileEdits!RecordIt(w)
  PROVE  FilesInv'
<1> DEFINE o == op[w]
           t == op[w].todo[1]
           c == IF o.kind = "move"
                THEN [path |-> o.todo[2], kind |-> "moved", from |-> t, step |-> o.step]
                ELSE [path |-> t, kind |-> FileEdits!KindOf(o), from |-> 0, step |-> o.step]
           n == IF o.kind # "transaction" THEN [o EXCEPT !.pc = "unlock"]
                ELSE IF Len(o.todo) > 1 THEN [o EXCEPT !.pc = "begin", !.todo = Tail(@)]
                ELSE [o EXCEPT !.pc = "validate"]
<1>1. FileTypes /\ o \in FileCall /\ Sound(o) /\ o.pc = "record" /\ FileEdits!Sets(w, n)
  BY DEF FilesInv, FileTypes, FileEdits!RecordIt
<1>2. fileEditsItems' = Append(fileEditsItems, c) /\ UNCHANGED <<disk, lock, nextStep, checkpoint, was, fileEditsForeign, ops>>
  BY DEF FileEdits!RecordIt, FileEdits!Record, FileEdits!ghosts
<1>3. /\ t \in FileEdits!ToSet(o.todo) /\ FileEdits!ToSet(o.todo) \subseteq FileEdits!ToSet(o.paths) /\ FileEdits!ToSet(o.paths) \subseteq Paths
      /\ Held(o) = FileEdits!ToSet(o.paths) /\ t \in Paths
      /\ o.kind = "move" => /\ o.todo[2] \in FileEdits!ToSet(o.paths) /\ t # o.todo[2] /\ o.todo = o.paths
  BY <1>1, CallPaths DEF Sound
<1>4. /\ o.step \in FileEdits!Steps /\ o.step <= nextStep /\ o.first \in Nat /\ 0 < o.first
      /\ o.first <= o.step /\ o.ok = TRUE
      /\ \A d \in FileEdits!ToSet(fileEditsItems) : d.step # o.step /\ d.step \in FileEdits!Steps /\ d.step <= nextStep
  <2>1. InFlight(o) /\ Mutating(o) /\ o.step \in Nat /\ o.first \in Nat /\ o.ok = TRUE
    BY <1>1 DEF Sound, Mutating, FileCall, Shape
  <2>2. \A d \in FileEdits!ToSet(fileEditsItems) : d.step \in FileEdits!Steps /\ d.step <= nextStep
    BY <1>1, ItemTypes DEF FilesInv, StepsFresh, Change
  <2> QED
    BY <1>1, <2>1, <2>2, FilesFacts DEF InFlight, FileTypes
<1>5. /\ c.step = o.step /\ c \in Change
      /\ \A p \in Paths : FileEdits!Touches(c, p) <=> p = t \/ (o.kind = "move" /\ p = o.todo[2])
      /\ c.kind = "moved" <=> o.kind = "move"
      /\ o.kind = "move" => c.path = o.todo[2]
      /\ c.kind = "created" => o.saw[t] = FileEdits!Absent
      /\ c.kind # "created" => o.saw[t] # FileEdits!Absent
  <2>1. SawThere(o)
    BY <1>1 DEF Sound
  <2>2. CASE o.kind = "move"
    <3>1. c = [path |-> o.todo[2], kind |-> "moved", from |-> t, step |-> o.step]
      BY <2>2
    <3> HIDE DEF c
    <3> QED
      BY <1>1, <1>3, <1>4, <2>1, <2>2, <3>1 DEF Change, FileEdits!Touches, SawThere
  <2>3. CASE o.kind # "move"
    <3>1. c = [path |-> t, kind |-> FileEdits!KindOf(o), from |-> 0, step |-> o.step] /\ 0 \notin Paths
      BY <2>3, FilesFacts
    <3>2. /\ FileEdits!KindOf(o) \in {"created", "edited", "deleted"}
          /\ FileEdits!KindOf(o) = "created" <=> o.kind # "delete" /\ o.saw[t] = FileEdits!Absent
      BY DEF FileEdits!KindOf
    <3> HIDE DEF c
    <3> QED
      BY <1>1, <1>3, <1>4, <2>1, <2>3, <3>1, <3>2 DEF Change, FileEdits!Touches, SawThere
  <2> QED
    BY <2>2, <2>3
<1> HIDE DEF c
<1>6. /\ n.saw = o.saw /\ n.kind = o.kind /\ n.want = o.want /\ n.step = o.step /\ n.first = o.first
      /\ n.new = o.new /\ n.ok = o.ok /\ n.paths = o.paths
      /\ \/ o.kind # "transaction" /\ n.pc = "unlock" /\ n.todo = o.todo
         \/ o.kind = "transaction" /\ Len(o.todo) > 1 /\ n.pc = "begin" /\ n.todo = Tail(o.todo)
         \/ o.kind = "transaction" /\ Len(o.todo) <= 1 /\ n.pc = "validate" /\ n.todo = o.todo
  BY <1>1 DEF FileCall
<1>7. n \in FileCall
  <2>1. o.todo \in Seq(Paths)
    BY <1>1 DEF FileCall
  <2>2. Len(o.todo) > 1 => Tail(o.todo) \in Seq(Paths)
    BY <2>1
  <2> QED
    BY <1>1, <2>2 DEF FileCall, Pcs
<1> HIDE DEF n
<1>8. op' \in [Workers -> FileCall] /\ op'[w] = n /\ \A v \in Workers \ {w} : op'[v] = op[v]
  BY <1>1, <1>7, SetsFacts
<1>9. /\ o.kind = "transaction" /\ Len(o.todo) > 1 =>
           /\ o.todo = o.paths /\ Len(o.paths) = 2 /\ Tail(o.todo) = <<o.paths[2]>>
           /\ FileEdits!ToSet(Tail(o.todo)) = {o.paths[2]} /\ t = o.paths[1] /\ o.paths[1] # o.paths[2]
           /\ FileEdits!ToSet(o.paths) = {o.paths[1], o.paths[2]}
      /\ o.kind = "transaction" /\ Len(o.todo) <= 1 => FileEdits!ToSet(o.todo) = {t}
  <2>1. /\ o.todo \in Seq(Paths) /\ o.paths \in Seq(Paths) /\ Len(o.paths) \in {1, 2}
        /\ Len(o.paths) = 2 => o.paths[1] # o.paths[2]
        /\ o.todo = o.paths \/ (Len(o.paths) = 2 /\ o.todo = <<o.paths[2]>>)
    BY <1>1 DEF Sound, Shape, FileCall
  <2> HIDE DEF o
  <2>2. /\ Len(o.todo) > 1 =>
              /\ o.todo = o.paths /\ Len(o.paths) = 2 /\ Tail(o.todo) = <<o.paths[2]>>
              /\ FileEdits!ToSet(Tail(o.todo)) = {o.paths[2]}
              /\ o.todo[1] = o.paths[1] /\ FileEdits!ToSet(o.paths) = {o.paths[1], o.paths[2]}
        /\ Len(o.todo) <= 1 => FileEdits!ToSet(o.todo) = {o.todo[1]}
    <3>1. Len(o.paths) = 1 \/ Len(o.paths) = 2
      BY <2>1
    <3> QED
      BY <2>1, <3>1, TodoFacts, Zenon
  <2> QED
    BY <2>1, <2>2 DEF o
<1>10. FileEdits!ToSet(fileEditsItems') = FileEdits!ToSet(fileEditsItems) \cup {c} /\ fileEditsItems' \in Seq(Change)
  <2>1. fileEditsItems \in Seq(Change)
    BY <1>1 DEF FileTypes
  <2> QED
    BY <1>2, <1>5, <2>1 DEF FileEdits!ToSet
<1>11. FileTypes'
  BY <1>1, <1>2, <1>8, <1>10 DEF FileTypes
<1>12. Held(op'[w]) = Held(o) /\ ~Mutating(op'[w]) /\ Mutating(op[w])
  BY <1>1, <1>6, <1>8 DEF Held, Mutating
<1>13. LocksHeld'
  BY <1>2, <1>8, <1>12 DEF FilesInv, LocksHeld
<1>14. StepsDiffer'
  BY <1>8, <1>12 DEF FilesInv, StepsDiffer
<1>15. StepsFresh'
  <2>1. PICK m \in {0} \cup {d.step : d \in FileEdits!ToSet(fileEditsItems)} : \A d \in FileEdits!ToSet(fileEditsItems) : d.step <= m
    BY DEF FilesInv, StepsFresh
  <2>2. m \in Nat
    BY <1>4, <2>1, FilesFacts
  <2>3. \E k \in {0} \cup {d.step : d \in FileEdits!ToSet(fileEditsItems')} : \A d \in FileEdits!ToSet(fileEditsItems') : d.step <= k
    <3>1. CASE c.step <= m
      BY <1>10, <2>1, <3>1
    <3>2. CASE ~(c.step <= m)
      <4>1. \A d \in FileEdits!ToSet(fileEditsItems') : d.step <= c.step
        BY <1>4, <1>5, <1>10, <2>1, <2>2, <3>2, FilesFacts
      <4> QED
        BY <1>10, <4>1
    <3> QED
      BY <3>1, <3>2
  <2>4. \A d, e \in FileEdits!ToSet(fileEditsItems') : d.step = e.step => d = e
    BY <1>4, <1>5, <1>10 DEF FilesInv, StepsFresh
  <2>5. \A d \in FileEdits!ToSet(fileEditsItems') : d.step <= nextStep'
    BY <1>2, <1>4, <1>5, <1>10
  <2> QED
    BY <2>3, <2>4, <2>5 DEF StepsFresh
<1>16. t \notin fileEditsForeign =>
         /\ was[o.step][t] = o.saw[t]
         /\ o.saw[t] # FileEdits!Absent => checkpoint[o.step][t] = o.saw[t]
  BY <1>1, <1>12 DEF Sound, Saved
<1>17. AllRecorded'
  <2> SUFFICES ASSUME NEW p \in Paths \ fileEditsForeign, NEW d \in FileEdits!ToSet(fileEditsItems'), FileEdits!Touches(d, p),
                      ~(d.kind = "moved" /\ d.path = p)
               PROVE  Recorded(d, p)
    BY <1>2 DEF AllRecorded, Recorded, FileEdits!Touches
  <2>1. CASE d \in FileEdits!ToSet(fileEditsItems)
    BY <2>1 DEF FilesInv, AllRecorded
  <2>2. CASE d = c
    <3>1. p = t
      BY <1>5, <2>2
    <3> QED
      BY <1>5, <1>16, <2>2, <3>1 DEF Recorded
  <2> QED
    BY <1>10, <2>1, <2>2
<1>18. Frame(w)
  <2>1. \A p \in Paths : FileEdits!Touches(c, p) => p \in Held(o)
    BY <1>3, <1>5
  <2> QED
    BY <1>1, <1>2, <1>5, <1>10, <1>12, <2>1, FilesFacts DEF Frame, FileTypes
<1>19. \A v \in Workers \ {w} : Sound(op[v])'
  BY <1>8, <1>18, OthersSound
<1>20. Shape(op[w])'
  BY <1>1, <1>6, <1>8, <1>9 DEF Sound, Shape
<1>21. InFlight(op[w])'
  <2>1. n.pc = "begin" => n.todo # n.paths
    BY <1>6, <1>9
  <2> QED
    BY <1>1, <1>2, <1>4, <1>6, <1>8, <1>12, <2>1 DEF InFlight
<1>22. SawCurrent(op[w])'
  <2> SUFFICES ASSUME n.pc = "begin", NEW p \in FileEdits!ToSet(n.todo) \ fileEditsForeign
               PROVE  disk[p] = n.saw[p]
    BY <1>2, <1>6, <1>8 DEF SawCurrent
  <2>1. p \in FileEdits!ToSet(o.todo) /\ p # t /\ o.kind = "transaction"
    BY <1>6, <1>9
  <2> QED
    BY <1>1, <1>6, <2>1 DEF Sound, SawCurrent
<1>23. SawThere(op[w])'
  BY <1>6, <1>8 DEF SawThere
<1>24. Transacted(op[w])'
  <2> SUFFICES ASSUME NEW p \in Paths \ fileEditsForeign, Passed(n, p)
               PROVE  disk[p] = n.new /\ \E d \in FileEdits!ToSet(fileEditsItems') : FileEdits!Touches(d, p) /\ d.step >= n.first
    BY <1>2, <1>6, <1>8 DEF Transacted, Passed, FileEdits!Touches
  <2>1. p = t \/ Passed(o, p)
    BY <1>1, <1>6, <1>9 DEF Passed
  <2>2. CASE p = t
    <3>1. disk[p] = o.new
      BY <1>1, <1>6, <2>2 DEF Sound, Transacted, Passed
    <3>2. FileEdits!Touches(c, p) /\ c.step >= n.first
      BY <1>4, <1>5, <1>6, <2>2, FilesFacts
    <3> QED
      BY <1>6, <1>10, <3>1, <3>2
  <2>3. CASE Passed(o, p)
    BY <1>1, <1>6, <1>10, <2>3 DEF Sound, Transacted
  <2> QED
    BY <2>1, <2>2, <2>3
<1>25. OwnChanges(op[w])'
  <2> SUFFICES ASSUME NEW p \in Held(o) \ fileEditsForeign, o.kind = "transaction",
                      NEW d \in FileEdits!ToSet(fileEditsItems'), FileEdits!Touches(d, p), d.step >= o.first
               PROVE  d.kind # "moved" /\ was[d.step][p] = o.saw[p]
    BY <1>2, <1>6, <1>8, <1>12 DEF OwnChanges, FileEdits!Touches
  <2>1. CASE d \in FileEdits!ToSet(fileEditsItems)
    BY <1>1, <1>4, <2>1 DEF Sound, OwnChanges
  <2>2. CASE d = c
    <3>1. p = t
      BY <1>3, <1>5, <2>2
    <3> QED
      BY <1>5, <1>16, <2>2, <3>1
  <2> QED
    BY <1>10, <2>1, <2>2
<1>26. Sound(op[w])'
  BY <1>6, <1>8, <1>12, <1>20, <1>21, <1>22, <1>23, <1>24, <1>25 DEF Sound, Whole, Saved
<1> QED
  BY <1>11, <1>13, <1>14, <1>15, <1>17, <1>19, <1>26 DEF FilesInv

\* A transaction that has been validated has changed all of its files.
LEMMA ValidatedStep ==
  ASSUME FilesInv, NEW w \in Workers, FileEdits!Validated(w)
  PROVE  FilesInv'
<1> DEFINE o == op[w]
           n == [op[w] EXCEPT !.pc = "unlock"]
<1>1. FileTypes /\ o \in FileCall /\ Sound(o) /\ o.pc = "validate" /\ FileEdits!Sets(w, n)
  BY DEF FilesInv, FileTypes, FileEdits!Validated
<1>2. n \in FileCall
  BY <1>1 DEF FileCall, Pcs
<1>3. op' \in [Workers -> FileCall] /\ op'[w] = n /\ \A v \in Workers \ {w} : op'[v] = op[v]
  BY <1>1, <1>2, SetsFacts
<1>4. /\ n.saw = o.saw /\ n.pc = "unlock" /\ n.kind = o.kind /\ n.todo = o.todo /\ n.want = o.want
      /\ n.step = o.step /\ n.first = o.first /\ n.new = o.new /\ n.ok = o.ok /\ n.paths = o.paths
  BY <1>1 DEF FileCall
<1> HIDE DEF n
<1>5. UNCHANGED <<disk, lock, FileEdits!tracker, was, fileEditsForeign, ops>>
  BY DEF FileEdits!Validated, FileEdits!ghosts
<1>6. o.ok = TRUE /\ o.kind = "transaction" /\ FileEdits!ToSet(o.paths) \subseteq Paths
  BY <1>1, CallPaths DEF Sound, Shape, FileCall
<1>7. Shape(op[w])'
  BY <1>1, <1>3, <1>4 DEF Sound, Shape
<1>8. InFlight(op[w])'
  BY <1>1, <1>3, <1>4, <1>5 DEF Sound, InFlight, Mutating, FileEdits!tracker
<1>9. OwnChanges(op[w])'
  BY <1>1, <1>3, <1>4, <1>5 DEF Sound, OwnChanges, FileEdits!tracker, FileEdits!Touches, Held
<1>10. Whole(op[w])'
  <2> SUFFICES ASSUME NEW p \in FileEdits!ToSet(o.paths) \ fileEditsForeign
               PROVE  disk[p] = o.new
    BY <1>3, <1>4, <1>5, <1>6 DEF Whole
  <2>1. Passed(o, p) /\ p \in Paths
    BY <1>1, <1>6 DEF Passed
  <2> QED
    BY <1>1, <2>1 DEF Sound, Transacted
<1>11. Sound(op[w])'
  BY <1>3, <1>4, <1>7, <1>8, <1>9, <1>10
     DEF Sound, SawCurrent, SawThere, Saved, Transacted, Passed, Mutating
<1>12. Held(op'[w]) = Held(op[w]) /\ ~Mutating(op'[w])
  BY <1>3, <1>4 DEF Held, Mutating
<1>13. ops' \in 0..MaxOps /\ fileEditsForeign' \subseteq Paths /\ disk' \in [Paths -> FileEdits!Contents]
  BY <1>1, <1>5 DEF FileTypes
<1> QED
  BY <1>3, <1>5, <1>11, <1>12, <1>13, FilesQuietStep

-----------------------------------------------------------------------------
\* The first change of a path since a step is there, and it alone is the first.
LEMMA EarliestIsFirst ==
  ASSUME FilesInv, NEW n \in Nat, NEW p \in FileEdits!Changed(n)
  PROVE  /\ FileEdits!Earliest(n, p) \in FileEdits!ToSet(fileEditsItems) /\ FileEdits!Touches(FileEdits!Earliest(n, p), p)
         /\ FileEdits!Earliest(n, p).step >= n /\ FileEdits!Earliest(n, p) \in FileEdits!FirstSince(n, p)
<1> DEFINE C == {c \in FileEdits!ToSet(fileEditsItems) : FileEdits!Touches(c, p) /\ c.step >= n}
           S == {c.step : c \in C}
<1>1. FileEdits!ToSet(fileEditsItems) \subseteq Change
  BY ItemTypes DEF FilesInv
<1>2. S \in SUBSET Nat /\ S # {}
  <2>1. \A c \in FileEdits!ToSet(fileEditsItems) : c.step \in Nat
    BY <1>1, FilesFacts DEF Change
  <2>2. \E c \in FileEdits!ToSet(fileEditsItems) : FileEdits!Touches(c, p) /\ c.step >= n
    BY DEF FileEdits!Changed
  <2> QED
    BY <2>1, <2>2
<1>3. PICK s \in S : \A x \in S : s <= x
  BY <1>2, LeastOfNats
<1>4. PICK c \in C : c.step = s
  BY <1>3
<1>5. \A d \in FileEdits!ToSet(fileEditsItems) : FileEdits!Touches(d, p) /\ d.step >= n => c.step <= d.step
  BY <1>3, <1>4
<1>6. \E e \in FileEdits!ToSet(fileEditsItems) : /\ FileEdits!Touches(e, p) /\ e.step >= n
                                                /\ \A d \in FileEdits!ToSet(fileEditsItems) : FileEdits!Touches(d, p) /\ d.step >= n => e.step <= d.step
  BY <1>4, <1>5
<1> QED
  BY <1>6 DEF FileEdits!Earliest, FileEdits!FirstSince

\* The first change of a path since a step is one change.
LEMMA FirstIsOne ==
  ASSUME FilesInv, NEW n \in Nat, NEW p \in Paths, NEW c \in FileEdits!FirstSince(n, p),
         NEW d \in FileEdits!FirstSince(n, p)
  PROVE  c = d
<1>1. c \in FileEdits!ToSet(fileEditsItems) /\ d \in FileEdits!ToSet(fileEditsItems) /\ c.step <= d.step /\ d.step <= c.step
  BY DEF FileEdits!FirstSince
<1>2. c.step \in Nat /\ d.step \in Nat
  BY <1>1, ItemTypes, FilesFacts DEF FilesInv, Change
<1>3. c.step = d.step
  BY <1>1, <1>2
<1> QED
  BY <1>1, <1>3 DEF FilesInv, StepsFresh

\* What Rewind does to a path, and to the files altogether.
LEMMA RewoundFacts ==
  ASSUME FilesInv, NEW n \in Nat
  PROVE  /\ FileEdits!Rewound(n) \in [Paths -> FileEdits!Contents]
         /\ \A p \in Paths \ FileEdits!Changed(n) : FileEdits!Rewound(n)[p] = disk[p]
         /\ \A p \in FileEdits!Changed(n) \ fileEditsForeign :
              ~(FileEdits!Earliest(n, p).kind = "moved" /\ FileEdits!Earliest(n, p).path = p) =>
                FileEdits!Rewound(n)[p] = was[FileEdits!Earliest(n, p).step][p]
<1>1. FileTypes /\ FileEdits!Absent \in FileEdits!Contents /\ FileEdits!Changed(n) \subseteq Paths
  BY FilesFacts DEF FilesInv, FileEdits!Changed
<1>2. \A p \in FileEdits!Changed(n) : FileEdits!Earliest(n, p) \in FileEdits!ToSet(fileEditsItems) /\ FileEdits!Touches(FileEdits!Earliest(n, p), p)
  BY EarliestIsFirst
<1>3. \A p \in FileEdits!Changed(n) : checkpoint[FileEdits!Earliest(n, p).step][p] \in FileEdits!Contents
  BY <1>1, <1>2, ItemTypes DEF FileTypes, Change
<1>4. FileEdits!Rewound(n) \in [Paths -> FileEdits!Contents]
  <2>1. \A p \in Paths : disk[p] \in FileEdits!Contents
    BY <1>1 DEF FileTypes
  <2> QED
    BY <1>1, <1>3, <2>1 DEF FileEdits!Rewound
<1>5. \A p \in Paths \ FileEdits!Changed(n) : FileEdits!Rewound(n)[p] = disk[p]
  BY DEF FileEdits!Rewound
<1>6. ASSUME NEW p \in FileEdits!Changed(n) \ fileEditsForeign,
             ~(FileEdits!Earliest(n, p).kind = "moved" /\ FileEdits!Earliest(n, p).path = p)
      PROVE  FileEdits!Rewound(n)[p] = was[FileEdits!Earliest(n, p).step][p]
  <2>1. Recorded(FileEdits!Earliest(n, p), p)
    BY <1>1, <1>2, <1>6 DEF FilesInv, AllRecorded
  <2>2. p \in Paths
    BY <1>1
  <2> QED
    BY <2>1, <2>2 DEF FileEdits!Rewound, Recorded
<1> QED
  BY <1>4, <1>5, <1>6

\* A transaction is rolled back: its own files are what it found.
LEMMA RollBackStep ==
  ASSUME FilesInv, NEW w \in Workers, FileEdits!RollBack(w)
  PROVE  FilesInv'
<1> DEFINE o == op[w]
           n == [op[w] EXCEPT !.pc = "unlock", !.ok = FALSE]
<1>1. /\ FileTypes /\ o \in FileCall /\ Sound(o) /\ o.kind = "transaction"
      /\ o.pc \in {"write", "validate"} /\ FileEdits!Sets(w, n)
  BY DEF FilesInv, FileTypes, FileEdits!RollBack
<1>2. n \in FileCall
  BY <1>1 DEF FileCall, Pcs
<1>3. op' \in [Workers -> FileCall] /\ op'[w] = n /\ \A v \in Workers \ {w} : op'[v] = op[v]
  BY <1>1, <1>2, SetsFacts
<1>4. /\ n.saw = o.saw /\ n.pc = "unlock" /\ n.kind = o.kind /\ n.todo = o.todo /\ n.want = o.want
      /\ n.step = o.step /\ n.first = o.first /\ n.new = o.new /\ n.ok = FALSE /\ n.paths = o.paths
  BY <1>1 DEF FileCall
<1> HIDE DEF n
<1>5. /\ UNCHANGED <<lock, FileEdits!tracker, was, ops>> /\ disk' = FileEdits!Rewound(o.first)
      /\ fileEditsForeign' = fileEditsForeign \cup (FileEdits!Changed(o.first) \ FileEdits!ToSet(o.paths))
  BY DEF FileEdits!RollBack, FileEdits!Undone
<1>6. /\ o.first \in Nat /\ 0 < o.first /\ Held(o) = FileEdits!ToSet(o.paths) /\ FileEdits!ToSet(o.paths) \subseteq Paths
      /\ FileEdits!Changed(o.first) \subseteq Paths
  BY <1>1, CallPaths DEF Sound, InFlight, Mutating, FileCall, FileEdits!Changed
<1>7. /\ disk' \in [Paths -> FileEdits!Contents]
      /\ \A p \in Paths \ FileEdits!Changed(o.first) : disk'[p] = disk[p]
      /\ \A p \in FileEdits!Changed(o.first) \ fileEditsForeign :
           ~(FileEdits!Earliest(o.first, p).kind = "moved" /\ FileEdits!Earliest(o.first, p).path = p) =>
             disk'[p] = was[FileEdits!Earliest(o.first, p).step][p]
  BY <1>5, <1>6, RewoundFacts
<1>8. Shape(op[w])'
  BY <1>1, <1>3, <1>4 DEF Sound, Shape
<1>9. InFlight(op[w])'
  BY <1>1, <1>3, <1>4, <1>5 DEF Sound, InFlight, Mutating, FileEdits!tracker
<1>10. OwnChanges(op[w])'
  BY <1>1, <1>3, <1>4, <1>5 DEF Sound, OwnChanges, FileEdits!tracker, FileEdits!Touches, Held
<1>11. Whole(op[w])'
  <2> SUFFICES ASSUME NEW p \in FileEdits!ToSet(o.paths) \ fileEditsForeign'
               PROVE  disk'[p] = o.saw[p]
    BY <1>3, <1>4 DEF Whole
  <2>1. p \in Paths \ fileEditsForeign /\ p \in Held(o)
    BY <1>5, <1>6
  <2>2. CASE p \in FileEdits!Changed(o.first)
    <3>1. /\ FileEdits!Earliest(o.first, p) \in FileEdits!ToSet(fileEditsItems) /\ FileEdits!Touches(FileEdits!Earliest(o.first, p), p)
          /\ FileEdits!Earliest(o.first, p).step >= o.first
      BY <1>6, <2>2, EarliestIsFirst
    <3>2. FileEdits!Earliest(o.first, p).kind # "moved" /\ was[FileEdits!Earliest(o.first, p).step][p] = o.saw[p]
      BY <1>1, <1>6, <2>1, <3>1 DEF Sound, OwnChanges
    <3> QED
      BY <1>7, <2>1, <2>2, <3>2
  <2>3. CASE p \notin FileEdits!Changed(o.first)
    <3>1. ~Passed(o, p)
      BY <1>1, <2>1, <2>3 DEF Sound, Transacted, FileEdits!Changed
    <3>2. o.pc = "write" /\ p \in FileEdits!ToSet(o.todo)
      BY <1>1, <1>5, <3>1 DEF Passed
    <3>3. disk[p] = o.saw[p]
      BY <1>1, <2>1, <3>2 DEF Sound, SawCurrent
    <3> QED
      BY <1>7, <2>1, <2>3, <3>3
  <2> QED
    BY <2>2, <2>3
<1>12. Sound(op[w])'
  BY <1>3, <1>4, <1>8, <1>9, <1>10, <1>11
     DEF Sound, SawCurrent, SawThere, Saved, Transacted, Passed, Mutating
<1>13. Held(op'[w]) = Held(op[w]) /\ ~Mutating(op'[w])
  BY <1>3, <1>4 DEF Held, Mutating
<1>14. ops' \in 0..MaxOps /\ fileEditsForeign' \subseteq Paths /\ fileEditsForeign \subseteq fileEditsForeign'
  BY <1>1, <1>5, <1>6 DEF FileTypes
<1>15. \A p \in Paths \ fileEditsForeign' : p \notin Held(op[w]) => disk'[p] = disk[p]
  BY <1>5, <1>6, <1>7
<1> QED
  BY <1>3, <1>5, <1>7, <1>12, <1>13, <1>14, <1>15, FilesQuietStep

\* The locks are given back.
LEMMA UnlockStep ==
  ASSUME FilesInv, NEW w \in Workers, FileEdits!Unlock(w)
  PROVE  FilesInv'
<1>1. /\ FileTypes /\ lock' = [p \in Paths |-> IF lock[p] = w THEN "free" ELSE lock[p]]
      /\ op' = [op EXCEPT ![w] = FileEdits!Idle]
      /\ UNCHANGED <<disk, FileEdits!tracker, was, fileEditsForeign, ops>>
  BY DEF FilesInv, FileEdits!Unlock, FileEdits!ghosts
<1>2. op' \in [Workers -> FileCall] /\ op'[w] = FileEdits!Idle /\ \A v \in Workers \ {w} : op'[v] = op[v]
  BY <1>1, IdleType DEF FileTypes
<1>3. Held(op'[w]) = {} /\ ~Mutating(op'[w])
  BY <1>2, IdleType DEF Held, Mutating, FileEdits!Idle
<1>4. LocksHeld'
  BY <1>1, <1>2, <1>3, FilesFacts DEF FilesInv, FileTypes, LocksHeld
<1>5. FileTypes'
  BY <1>1, <1>2 DEF FileTypes, FileEdits!tracker
<1>6. StepsDiffer'
  BY <1>2, <1>3 DEF FilesInv, StepsDiffer
<1>7. StepsFresh' /\ AllRecorded'
  BY <1>1 DEF FilesInv, StepsFresh, AllRecorded, Recorded, FileEdits!tracker, FileEdits!Touches
<1>8. Frame(w)
  BY <1>1, FilesFacts DEF Frame, FileTypes, FileEdits!tracker
<1>9. \A v \in Workers \ {w} : Sound(op[v])'
  BY <1>2, <1>8, OthersSound
<1>10. nextStep' \in Nat
  BY <1>5, FilesFacts DEF FileTypes
<1>11. Sound(op[w])'
  BY <1>2, <1>10, IdleThere
<1> QED
  BY <1>4, <1>5, <1>6, <1>7, <1>9, <1>11 DEF FilesInv

\* Steps after which nobody is in a call.
LEMMA NobodyStep ==
  ASSUME FilesInv, op' = [w \in Workers |-> FileEdits!Idle], lock' = [p \in Paths |-> "free"],
         disk' \in [Paths -> FileEdits!Contents], nextStep' \in 0..nextStep,
         \A c \in FileEdits!ToSet(fileEditsItems) : c.step <= nextStep',
         UNCHANGED <<fileEditsItems, checkpoint, was, fileEditsForeign, ops>>
  PROVE  FilesInv'
<1>1. FileTypes /\ nextStep \in 0..FileEdits!MaxSteps
  BY DEF FilesInv, FileTypes
<1>2. nextStep' \in 0..FileEdits!MaxSteps /\ nextStep' \in Nat
  BY <1>1, FilesFacts
<1>3. FileTypes'
  BY <1>1, <1>2, IdleType DEF FileTypes
<1>4. LocksHeld'
  BY FilesFacts, IdleType DEF LocksHeld, Held, FileEdits!Idle
<1>5. StepsDiffer'
  BY DEF StepsDiffer, Mutating, FileEdits!Idle
<1>6. StepsFresh' /\ AllRecorded'
  BY DEF FilesInv, StepsFresh, AllRecorded, Recorded, FileEdits!Touches
<1>7. \A w \in Workers : Sound(op[w])'
  BY <1>2, IdleThere
<1> QED
  BY <1>3, <1>4, <1>5, <1>6, <1>7 DEF FilesInv

\* A crash ends every call; what was recorded stays.
LEMMA CrashStep ==
  ASSUME FilesInv, FileEdits!Crash
  PROVE  FilesInv'
<1> DEFINE S == {0} \cup {c.step : c \in FileEdits!ToSet(fileEditsItems)}
<1>1. \A c \in FileEdits!ToSet(fileEditsItems) : c.step \in Nat /\ c.step <= nextStep
  BY ItemTypes, FilesFacts DEF FilesInv, StepsFresh, Change
<1>2. nextStep \in Nat
  BY FilesFacts DEF FilesInv, FileTypes
<1>3. PICK m \in S : \A c \in FileEdits!ToSet(fileEditsItems) : c.step <= m
  BY DEF FilesInv, StepsFresh
<1>4. \E x \in S : \A y \in S : x >= y
  BY <1>1, <1>3
<1>5. FileEdits!LastStep \in S /\ \A y \in S : FileEdits!LastStep >= y
  BY <1>4 DEF FileEdits!LastStep, FileEdits!Max
<1>6. FileEdits!LastStep \in 0..nextStep /\ \A c \in FileEdits!ToSet(fileEditsItems) : c.step <= FileEdits!LastStep
  BY <1>1, <1>2, <1>5
<1> QED
  BY <1>6, NobodyStep DEF FileEdits!Crash, FilesInv, FileTypes

\* A rewind gives back what the files were, and forgets the changes.
LEMMA RewindStep ==
  ASSUME FilesInv, NEW n \in FileEdits!Steps, FileEdits!RewindSession(n)
  PROVE  FilesInv'
<1>1. /\ FileTypes /\ n \in Nat /\ nextStep \in Nat
      /\ UNCHANGED <<lock, FileEdits!tracker, op, ops, was, fileEditsForeign>> /\ disk' = FileEdits!Rewound(n)
  BY FilesFacts DEF FilesInv, FileTypes, FileEdits!RewindSession, FileEdits!ghosts
<1>2. disk' \in [Paths -> FileEdits!Contents]
  BY <1>1, RewoundFacts
<1>3. op' = [w \in Workers |-> FileEdits!Idle]
  BY <1>1 DEF FileTypes, FileEdits!RewindSession
<1>4. lock' = [p \in Paths |-> "free"]
  <2>1. \A p \in Paths : lock[p] \notin Workers
    BY IdleType DEF FilesInv, LocksHeld, Held, FileEdits!Idle, FileEdits!RewindSession
  <2> QED
    BY <1>1, <2>1 DEF FileTypes
<1>5. nextStep' \in 0..nextStep /\ \A c \in FileEdits!ToSet(fileEditsItems) : c.step <= nextStep'
  BY <1>1 DEF FileEdits!tracker, FilesInv, StepsFresh
<1> QED
  BY <1>1, <1>2, <1>3, <1>4, <1>5, NobodyStep DEF FileEdits!tracker

-----------------------------------------------------------------------------
\* Every step keeps the invariant of the file tools.
LEMMA FilesStep ==
  ASSUME FilesInv, [FileEdits!Next]_FileEdits!vars
  PROVE  FilesInv'
<1>1. CASE UNCHANGED FileEdits!vars
  <2>1. UNCHANGED <<disk, lock, nextStep, fileEditsItems, checkpoint, op, ops, was, fileEditsForeign>>
    BY <1>1 DEF FileEdits!vars, FileEdits!tracker, FileEdits!ghosts
  <2>2. FileTypes' /\ LocksHeld' /\ StepsDiffer'
    BY <2>1 DEF FilesInv, FileTypes, LocksHeld, StepsDiffer, Mutating, Held
  <2>3. StepsFresh' /\ AllRecorded'
    BY <2>1 DEF FilesInv, StepsFresh, AllRecorded, Recorded, FileEdits!Touches
  <2>4. ASSUME NEW w \in Workers
        PROVE  Sound(op[w])'
    <3>1. Sound(op[w])
      BY DEF FilesInv
    <3>2. Shape(op[w])' /\ InFlight(op[w])' /\ SawCurrent(op[w])' /\ SawThere(op[w])' /\ Saved(op[w])'
      BY <2>1, <3>1 DEF Sound, Shape, InFlight, SawCurrent, SawThere, Saved, Mutating
    <3>3. Transacted(op[w])' /\ OwnChanges(op[w])' /\ Whole(op[w])'
      BY <2>1, <3>1 DEF Sound, Transacted, Passed, OwnChanges, Whole, Held, FileEdits!Touches
    <3> QED
      BY <3>2, <3>3 DEF Sound
  <2> QED
    BY <2>2, <2>3, <2>4 DEF FilesInv
<1>2. ASSUME NEW w \in Workers, FileEdits!Tool(w)
      PROVE  FilesInv'
  BY <1>2, TakeLockStep, CheckStep, MoveStep, BeginStep, FilesWriteStep, FilesFailStep, RecordStep, ValidatedStep,
     RollBackStep, UnlockStep DEF FileEdits!Tool
<1>3. ASSUME NEW w \in Workers, NEW kind \in FileKinds,
             NEW ps \in {ps \in FileEdits!Calls : FileEdits!IsInjective(ps)}, FileEdits!Call(w, kind, ps)
      PROVE  FilesInv'
  BY <1>3, FilesCallStep
<1>4. CASE FileEdits!Crash
  BY <1>4, CrashStep
<1>5. ASSUME NEW n \in FileEdits!Steps, FileEdits!RewindSession(n)
      PROVE  FilesInv'
  BY <1>5, RewindStep
<1> QED
  BY <1>1, <1>2, <1>3, <1>4, <1>5 DEF FileEdits!Next

\* With every change recorded, a rewind restores what was there.
LEMMA InvRestores == ASSUME FilesInv PROVE FileEdits!RewindRestores
<1> SUFFICES ASSUME NEW n \in FileEdits!Steps, NEW p \in Paths \ fileEditsForeign, NEW c \in FileEdits!FirstSince(n, p),
                    ~(c.kind = "moved" /\ c.path = p)
             PROVE  FileEdits!Rewound(n)[p] = was[c.step][p]
  BY DEF FileEdits!RewindRestores
<1>1. n \in Nat /\ p \in FileEdits!Changed(n)
  BY FilesFacts DEF FileEdits!FirstSince, FileEdits!Changed
<1>2. FileEdits!Earliest(n, p) = c
  BY <1>1, EarliestIsFirst, FirstIsOne
<1> QED
  BY <1>1, <1>2, RewoundFacts

\* A transaction at its end has changed all of its files or none.
LEMMA InvWhole == ASSUME FilesInv PROVE FileEdits!AllOrNothing
BY DEF FilesInv, Sound, Whole, FileEdits!AllOrNothing

-----------------------------------------------------------------------------
(* Todo. *)

\* A list of items, each with its own id, all of them given out.
TodoItem == [id : Nat, status : Todo!States, by : Workers \cup {Todo!Nobody}]
TodoList == [items : Seq(TodoItem), nextID : 0..MaxTodos]
Distinct(its, top) ==
  \A m, n \in DOMAIN its : /\ its[m].id \in 1..top
                           /\ its[m].id = its[n].id => m = n
Proper(l) == l \in TodoList /\ Distinct(l.items, l.nextID)

TodoInv ==
  /\ Proper(todoFile) /\ todoFile.items = seen
  /\ loaded \in BOOLEAN /\ resumed \in BOOLEAN /\ clean \in BOOLEAN
  /\ Proper([items |-> todoItems, nextID |-> todoNextID]) /\ (~loaded => todoItems = <<>>)
  /\ loaded /\ clean => todoItems = seen

\* The library's operator is the same wherever it is instantiated.
LEMMA TodoCardinality == \A S : Todo!Cardinality(S) = Cardinality(S)
BY DEF Todo!Cardinality, Cardinality

\* What Todo asks of its constants.
LEMMA TodoBounds == Todo!TodoConstants
BY MCToolsConstants

\* The empty list.
LEMMA EmptyIsProper == Proper([items |-> <<>>, nextID |-> 0])
BY TodoBounds DEF Todo!TodoConstants, Proper, TodoList, Distinct

\* Nothing is loaded, and the file is empty.
LEMMA InitTodo == ASSUME Todo!Init PROVE TodoInv
BY EmptyIsProper DEF Todo!Init, TodoInv

\* The list that an operation begins with is the one last shown.
LEMMA LoadedIsProper ==
  ASSUME TodoInv
  PROVE  Proper(Todo!Loaded) /\ (clean => Todo!Loaded.items = seen)
BY DEF TodoInv, Todo!Loaded

\* What is saved is what was shown.
LEMMA SavesProper ==
  ASSUME TodoInv, NEW l, Proper(l), Todo!Saves(l), resumed' \in BOOLEAN
  PROVE  TodoInv'
<1>1. l = [items |-> l.items, nextID |-> l.nextID]
  BY DEF Proper, TodoList
<1> QED
  BY <1>1 DEF TodoInv, Todo!Saves, Proper, TodoList, Distinct

\* Items that change keep their ids.
LEMMA SameIds ==
  ASSUME NEW l, Proper(l), NEW its \in [DOMAIN l.items -> TodoItem],
         \A n \in DOMAIN l.items : its[n].id = l.items[n].id
  PROVE  Proper([l EXCEPT !.items = its])
<1>1. l.items \in Seq(TodoItem) /\ l.nextID \in 0..MaxTodos
  BY DEF Proper, TodoList
<1>2. its \in Seq(TodoItem) /\ DOMAIN its = DOMAIN l.items
  BY <1>1
<1>3. Distinct(its, l.nextID)
  BY <1>2 DEF Proper, Distinct
<1> QED
  BY <1>1, <1>2, <1>3 DEF Proper, TodoList

\* An item is added under an id that is new.
LEMMA AddStep == ASSUME TodoInv, Todo!Add PROVE TodoInv'
<1> DEFINE l == Todo!Loaded
           new == [items |-> Append(l.items, Todo!Item(l.nextID + 1, "pending", Todo!Nobody)),
                   nextID |-> l.nextID + 1]
<1>1. Proper(l)
  BY LoadedIsProper
<1> HIDE DEF l
<1>2. l.items \in Seq(TodoItem) /\ l.nextID \in 0..MaxTodos /\ l.nextID < MaxTodos
  BY <1>1 DEF Proper, TodoList, Todo!Add, l
<1>3. Todo!Item(l.nextID + 1, "pending", Todo!Nobody) \in TodoItem
  BY <1>2, TodoBounds DEF Todo!Item, TodoItem, Todo!States, Todo!TodoConstants
<1>4. new.items \in Seq(TodoItem) /\ new.nextID \in 0..MaxTodos
  BY <1>2, <1>3, TodoBounds DEF Todo!TodoConstants
<1>5. Distinct(new.items, new.nextID)
  <2>1. \A n \in 1..Len(l.items) : l.items[n].id \in 1..l.nextID
    BY <1>1, <1>2 DEF Proper, Distinct
  <2>2. DOMAIN new.items = 1..Len(l.items) + 1
    BY <1>2, <1>3
  <2>3. \A n \in 1..Len(l.items) : new.items[n] = l.items[n]
    BY <1>2, <1>3
  <2>4. new.items[Len(l.items) + 1].id = l.nextID + 1
    BY <1>2, <1>3 DEF Todo!Item
  <2>5. \A n \in DOMAIN new.items : n \in 1..Len(l.items) \/ n = Len(l.items) + 1
    BY <1>2, <2>2
  <2>6. l.nextID + 1 \in 1..new.nextID /\ \A n \in 1..Len(l.items) : new.items[n].id \in 1..new.nextID
                                                                   /\ new.items[n].id # l.nextID + 1
    BY <1>2, <2>1, <2>3, TodoBounds DEF Todo!TodoConstants
  <2>7. \A m, n \in 1..Len(l.items) : new.items[m].id = new.items[n].id => m = n
    BY <1>1, <1>2, <2>3 DEF Proper, Distinct
  <2> HIDE DEF new
  <2> QED
    BY <2>4, <2>5, <2>6, <2>7 DEF Distinct
<1>6. Proper(new)
  BY <1>4, <1>5 DEF Proper, TodoList
<1> QED
  BY <1>6, SavesProper DEF Todo!Add, Todo!Calls, l, TodoInv

\* An item changes its state.
LEMMA UpdateItemStep ==
  ASSUME TodoInv, NEW id \in Todo!Ids, NEW s \in Todo!States, Todo!Update(id, s) PROVE TodoInv'
<1> DEFINE l == Todo!Loaded
           its == [n \in DOMAIN l.items |->
                     IF l.items[n].id = id THEN [l.items[n] EXCEPT !.status = s] ELSE l.items[n]]
<1>1. Proper(l)
  BY LoadedIsProper
<1>2. Todo!Saves([l EXCEPT !.items = its])
  BY DEF Todo!Update, Todo!Changed
<1> HIDE DEF l
<1>3. its \in [DOMAIN l.items -> TodoItem] /\ \A n \in DOMAIN l.items : its[n].id = l.items[n].id
  <2>1. \A it \in TodoItem : [it EXCEPT !.status = s] \in TodoItem /\ [it EXCEPT !.status = s].id = it.id
    BY DEF TodoItem
  <2>2. \A n \in DOMAIN l.items : l.items[n] \in TodoItem
    BY <1>1 DEF Proper, TodoList
  <2> QED
    BY <2>1, <2>2
<1>4. Proper([l EXCEPT !.items = its])
  BY <1>1, <1>3, SameIds
<1> QED
  BY <1>2, <1>4, SavesProper DEF Todo!Update, Todo!Calls, TodoInv

\* Items are removed; the others keep their ids and their order.
LEMMA RemoveStep ==
  ASSUME TodoInv, NEW ids \in SUBSET Todo!Ids, Todo!RemoveItems(ids) PROVE TodoInv'
<1> DEFINE l == Todo!Loaded
           kept == {n \in DOMAIN l.items : IF ids = {} THEN l.items[n].status # "completed"
                                           ELSE l.items[n].id \notin ids}
<1>1. Proper(l)
  BY LoadedIsProper
<1>2. PICK f \in Todo!InOrder(kept) :
             Todo!Saves([l EXCEPT !.items = [n \in 1..Cardinality(kept) |-> l.items[f[n]]]])
  BY TodoCardinality DEF Todo!RemoveItems
<1> HIDE DEF l
<1>3. l.items \in Seq(TodoItem) /\ l.nextID \in 0..MaxTodos
  BY <1>1 DEF Proper, TodoList
<1>4. kept \subseteq 1..Len(l.items) /\ Cardinality(kept) \in Nat
  <2>1. kept \subseteq 1..Len(l.items) /\ Len(l.items) \in Nat
    BY <1>3
  <2>2. IsFiniteSet(kept)
    BY <2>1, FS_Interval, FS_Subset
  <2> QED
    BY <2>1, <2>2, FS_CardinalityType
<1> DEFINE k == Cardinality(kept)
           its == [n \in 1..k |-> l.items[f[n]]]
<1>5. k \in Nat /\ f \in [1..k -> kept] /\ \A m, n \in 1..k : m < n => f[m] < f[n]
  BY <1>2, <1>4, TodoCardinality DEF Todo!InOrder
<1>6. Todo!Saves([l EXCEPT !.items = its])
  BY <1>2
<1> HIDE DEF kept, k
<1>7. \A n \in 1..k : f[n] \in DOMAIN l.items /\ f[n] \in Nat
  <2>1. DOMAIN l.items = 1..Len(l.items) /\ kept \subseteq 1..Len(l.items) /\ Len(l.items) \in Nat
    BY <1>3, <1>4
  <2>2. \A n \in 1..k : f[n] \in kept
    BY <1>5
  <2>3. \A i \in kept : i \in DOMAIN l.items /\ i \in Nat
    BY <2>1
  <2> QED
    BY <2>2, <2>3
<1>8. its \in Seq(TodoItem) /\ DOMAIN its = 1..k
  BY <1>3, <1>5, <1>7
<1>9. \A m, n \in 1..k : f[m] = f[n] => m = n
  BY <1>5, <1>7
<1>10. Distinct(its, l.nextID)
  BY <1>1, <1>7, <1>8, <1>9 DEF Proper, Distinct
<1> HIDE DEF its
<1>11. Proper([l EXCEPT !.items = its])
  <2>1. l \in TodoList
    BY <1>1 DEF Proper
  <2> QED
    BY <1>8, <1>10, <2>1 DEF Proper, TodoList
<1> QED
  BY <1>6, <1>11, SavesProper DEF Todo!RemoveItems, Todo!Calls, TodoInv

\* The list is rewritten.
LEMMA ReplaceStep ==
  ASSUME TodoInv, NEW n \in 0..MaxTodos, Todo!Replace(n) PROVE TodoInv'
<1> DEFINE its == [i \in 1..n |-> Todo!Item(i, "pending", Todo!Nobody)]
<1>1. n \in Nat /\ \A i \in 1..n : Todo!Item(i, "pending", Todo!Nobody) \in TodoItem
  BY TodoBounds DEF Todo!Item, TodoItem, Todo!States, Todo!TodoConstants
<1>2. its \in Seq(TodoItem) /\ DOMAIN its = 1..n /\ \A i \in 1..n : its[i].id = i
  BY <1>1 DEF Todo!Item
<1>3. Proper([items |-> its, nextID |-> n])
  BY <1>2 DEF Proper, TodoList, Distinct
<1> QED
  BY <1>3, SavesProper DEF Todo!Replace, Todo!Calls, TodoInv

\* An item that is given back is an item.
LEMMA FreedItem ==
  ASSUME NEW it \in TodoItem PROVE Todo!Freed(it) \in TodoItem /\ Todo!Freed(it).id = it.id
BY DEF Todo!Freed, Todo!Item, TodoItem, Todo!States

\* The list in memory may be ahead of the file after this.
LEMMA KeepsProper ==
  ASSUME TodoInv, NEW its, Proper([Todo!Loaded EXCEPT !.items = its]),
         todoItems' = its, todoNextID' = Todo!Loaded.nextID, loaded' = TRUE, UNCHANGED <<todoFile, seen>>,
         resumed' \in BOOLEAN, clean' \in BOOLEAN, clean' => clean /\ its = Todo!Loaded.items
  PROVE  TodoInv'
<1>1. Proper(Todo!Loaded) /\ (clean => Todo!Loaded.items = seen)
  BY LoadedIsProper
<1>2. [Todo!Loaded EXCEPT !.items = its] = [items |-> its, nextID |-> Todo!Loaded.nextID]
  BY <1>1 DEF Proper, TodoList
<1>3. Proper([items |-> todoItems, nextID |-> todoNextID])'
  BY <1>2 DEF Proper, TodoList, Distinct
<1> QED
  BY <1>1, <1>3 DEF TodoInv, Proper, Distinct, TodoList

\* An item is claimed.
LEMMA ClaimStep ==
  ASSUME TodoInv, NEW ids, NEW w \in Workers, Todo!Claim(ids, w) PROVE TodoInv'
<1> DEFINE l == Todo!Loaded
           taken == {k \in DOMAIN ids : \E n \in DOMAIN l.items :
                       l.items[n].id = ids[k] /\ l.items[n].by \notin {Todo!Nobody, w}}
           mine == IF taken = {} THEN Todo!ToSet(ids) ELSE {ids[k] : k \in 1..Todo!Min(taken) - 1}
           its == [n \in DOMAIN l.items |->
                     IF l.items[n].id \in mine THEN Todo!Item(l.items[n].id, "in_progress", w) ELSE l.items[n]]
           new == [l EXCEPT !.items = its]
<1>1. Proper(l)
  BY LoadedIsProper
<1>2. IF taken = {} THEN Todo!Saves(new)
      ELSE /\ todoItems' = new.items /\ todoNextID' = new.nextID /\ loaded' = TRUE
           /\ clean' = (clean /\ new.items = l.items)
           /\ UNCHANGED <<todoFile, seen>>
  BY DEF Todo!Claim, Todo!Changed
<1> HIDE DEF l, mine, taken
<1>3. its \in [DOMAIN l.items -> TodoItem] /\ \A n \in DOMAIN l.items : its[n].id = l.items[n].id
  <2>1. \A it \in TodoItem : /\ Todo!Item(it.id, "in_progress", w) \in TodoItem
                            /\ Todo!Item(it.id, "in_progress", w).id = it.id
    BY DEF TodoItem, Todo!Item, Todo!States
  <2>2. \A n \in DOMAIN l.items : l.items[n] \in TodoItem
    BY <1>1 DEF Proper, TodoList
  <2> QED
    BY <2>1, <2>2
<1> HIDE DEF its
<1>4. Proper(new)
  BY <1>1, <1>3, SameIds
<1>5. new.items = its /\ new.nextID = l.nextID
  BY <1>1 DEF Proper, TodoList
<1>6. resumed' \in BOOLEAN
  BY DEF Todo!Claim, Todo!Calls, TodoInv
<1>7. CASE taken = {}
  BY <1>2, <1>4, <1>6, <1>7, SavesProper
<1>8. CASE taken # {}
  <2>1. clean' \in BOOLEAN /\ (clean' => clean /\ its = l.items)
    BY <1>2, <1>5, <1>8 DEF TodoInv
  <2> QED
    BY <1>2, <1>4, <1>5, <1>6, <1>8, <2>1, KeepsProper DEF l
<1> QED
  BY <1>7, <1>8

\* An item is given back.
LEMMA ReleaseStep ==
  ASSUME TodoInv, NEW ids, Todo!Release(ids) PROVE TodoInv'
<1> DEFINE l == Todo!Loaded
           its == [n \in DOMAIN l.items |->
                     IF l.items[n].id \in ids THEN Todo!Freed(l.items[n]) ELSE l.items[n]]
<1>1. Proper(l)
  BY LoadedIsProper
<1>2. Todo!Saves([l EXCEPT !.items = its])
  BY DEF Todo!Release, Todo!Changed
<1> HIDE DEF l
<1>3. its \in [DOMAIN l.items -> TodoItem] /\ \A n \in DOMAIN l.items : its[n].id = l.items[n].id
  BY <1>1, FreedItem DEF Proper, TodoList
<1>4. Proper([l EXCEPT !.items = its])
  BY <1>1, <1>3, SameIds
<1> QED
  BY <1>2, <1>4, SavesProper DEF Todo!Release, Todo!Calls, TodoInv

\* Items are released when the master begins a turn.
LEMMA FreeingKeepsProper ==
  ASSUME NEW l, Proper(l), NEW ws
  PROVE  Proper(Todo!AutoReleased(l, ws)) /\ Proper(Todo!ReleasedAll(l))
         /\ Todo!AutoReleased(l, ws).nextID = l.nextID /\ Todo!ReleasedAll(l).nextID = l.nextID
<1> DEFINE its1 == [n \in DOMAIN l.items |->
                      IF l.items[n].by \in ws /\ l.items[n].status = "in_progress"
                      THEN Todo!Freed(l.items[n]) ELSE l.items[n]]
           its2 == [n \in DOMAIN l.items |->
                      IF l.items[n].status = "in_progress" THEN Todo!Freed(l.items[n]) ELSE l.items[n]]
<1>1. its1 \in [DOMAIN l.items -> TodoItem] /\ \A n \in DOMAIN l.items : its1[n].id = l.items[n].id
  BY FreedItem DEF Proper, TodoList
<1>2. its2 \in [DOMAIN l.items -> TodoItem] /\ \A n \in DOMAIN l.items : its2[n].id = l.items[n].id
  BY FreedItem DEF Proper, TodoList
<1>3. Todo!AutoReleased(l, ws) = [l EXCEPT !.items = its1] /\ Todo!ReleasedAll(l) = [l EXCEPT !.items = its2]
  BY DEF Todo!AutoReleased, Todo!ReleasedAll, Todo!Changed
<1> HIDE DEF its1, its2
<1>4. Proper([l EXCEPT !.items = its1]) /\ Proper([l EXCEPT !.items = its2])
  BY <1>1, <1>2, SameIds
<1> QED
  BY <1>3, <1>4 DEF Proper, TodoList

\* A turn begins: the list is loaded, and the claims of the dead are given back.
LEMMA BeginTurnStep == ASSUME TodoInv, Todo!BeginTurn PROVE TodoInv'
<1> DEFINE over == {w \in Workers : ended[w] = "pending"}
           first == IF resumed THEN Todo!ReleasedAll(Todo!Loaded) ELSE Todo!Loaded
           new == Todo!AutoReleased(first, over)
<1>1. Proper(Todo!Loaded) /\ resumed' = FALSE
  BY LoadedIsProper DEF Todo!BeginTurn
<1>2. Proper(first) /\ first.nextID = Todo!Loaded.nextID
  BY <1>1, FreeingKeepsProper
<1>3. Proper(new) /\ new.nextID = Todo!Loaded.nextID
  BY <1>2, FreeingKeepsProper
<1>4. IF new # Todo!Loaded THEN Todo!Saves(new)
      ELSE todoItems' = new.items /\ todoNextID' = new.nextID /\ loaded' = TRUE /\ UNCHANGED <<todoFile, seen, clean>>
  BY DEF Todo!BeginTurn
<1> HIDE DEF new
<1>5. CASE new # Todo!Loaded
  BY <1>1, <1>3, <1>4, <1>5, SavesProper
<1>6. CASE new = Todo!Loaded
  <2>1. [Todo!Loaded EXCEPT !.items = new.items] = Todo!Loaded
    BY <1>1, <1>6 DEF Proper, TodoList
  <2> QED
    BY <1>1, <1>4, <1>6, <2>1, KeepsProper DEF TodoInv
<1> QED
  BY <1>5, <1>6

\* A look at the list.
LEMMA LookStep == ASSUME TodoInv, Todo!Look PROVE TodoInv'
<1>1. Proper(Todo!Loaded)
  BY LoadedIsProper
<1>2. [Todo!Loaded EXCEPT !.items = Todo!Loaded.items] = Todo!Loaded
  BY <1>1 DEF Proper, TodoList
<1> QED
  BY <1>1, <1>2, KeepsProper DEF Todo!Look, TodoInv

\* The program ends or crashes; the file stays.
LEMMA EndOrCrashStep ==
  ASSUME TodoInv, Todo!Crash \/ Todo!CrashInSave \/ (\E w \in Workers : Todo!WorkerEnds(w) \/ Todo!EndTaken(w) \/ Todo!EndLost(w))
  PROVE  TodoInv'
<1>1. CASE Todo!Crash
  BY <1>1, EmptyIsProper DEF Todo!Crash, Todo!Restarts, TodoInv, Proper, Distinct, TodoList
<1>2. CASE Todo!CrashInSave
  BY <1>2, EmptyIsProper DEF Todo!CrashInSave, Todo!Restarts, TodoInv, Proper, Distinct, TodoList
<1>3. CASE \E w \in Workers : Todo!WorkerEnds(w) \/ Todo!EndTaken(w) \/ Todo!EndLost(w)
  <2>1. UNCHANGED <<todoItems, todoNextID, loaded, todoFile, resumed, seen, clean>>
    BY <1>3 DEF Todo!WorkerEnds, Todo!EndTaken, Todo!EndLost, Todo!list
  <2> QED
    BY <2>1 DEF TodoInv, Proper, Distinct, TodoList
<1> QED
  BY <1>1, <1>2, <1>3

\* Every step keeps the invariant of the todo list.
LEMMA TodoStep == ASSUME TodoInv, [Todo!Next]_Todo!vars PROVE TodoInv'
<1>1. CASE UNCHANGED Todo!vars
  BY <1>1 DEF Todo!vars, Todo!list, TodoInv, Proper, Distinct, TodoList
<1>2. CASE Todo!Next
  BY <1>2, AddStep, UpdateItemStep, RemoveStep, ReplaceStep, ClaimStep, ReleaseStep, LookStep,
     BeginTurnStep, EndOrCrashStep DEF Todo!Next
<1> QED
  BY <1>1, <1>2

\* The ids are unique, and a restart finds what was shown.
LEMMA TodoSurvives == ASSUME TodoInv PROVE Todo!IdsUnique /\ Todo!ShownSurvives
BY DEF TodoInv, Todo!IdsUnique, Todo!ShownSurvives, Proper, Distinct, TodoList

-----------------------------------------------------------------------------
(* Memory. *)

\* The library's operator is the same wherever it is instantiated.
LEMMA MemoryCardinality == \A S : Memory!Cardinality(S) = Cardinality(S)
BY DEF Memory!Cardinality, Cardinality

\* What Memory asks of its constants.
LEMMA MemoryBounds == Memory!MemoryConstants
BY MCToolsConstants

Told(c) == memoryCall[c].step # "idle"

\* A call that is alone on its key is the only one; what is being stored is known.
CallsKnown ==
  /\ \A c, d \in Workers : c # d /\ Told(c) /\ Told(d) /\ memoryCall[c].key = memoryCall[d].key => ~memoryCall[c].alone
  /\ \A c \in Workers :
       /\ memoryCall[c].step \in {"write", "store"} => memoryCall[c].fact \in Facts /\ memoryCall[c].dir = writeAt
       /\ memoryCall[c].step = "store" /\ memoryCall[c].alone =>
            files[memoryCall[c].dir][memoryCall[c].key] = {memoryCall[c].fact}

\* Without a project directory nothing lies in one.
DirsKnown ==
  /\ writeAt = Memory!WriteDir(project)
  /\ ~project => \A k \in Memory!Keys : files["local"][k] = {}

SaidIsKept ==
  \A k \in Memory!Keys : \A f \in said[k] :
    /\ \A c \in Workers : Told(c) => memoryCall[c].key # k
    /\ memoryItems[k] # {} /\ \A m \in memoryItems[k] : m.fact = f
    /\ Memory!Loaded[k] # {} /\ \A m \in Memory!Loaded[k] : m.fact = f

MemoryInv == Memory!TypeOK /\ CallsKnown /\ DirsKnown /\ SaidIsKept

\* The keys, and the sets made from them.
LEMMA MemoryFacts ==
  /\ Memory!Keys \subseteq Words /\ Names[1] \in Memory!Keys /\ IsFiniteSet(Memory!Keys) /\ DOMAIN Names \subseteq Nat
  /\ Facts \subseteq Memory!Fact /\ Memory!Blank \in Memory!Fact /\ \A f \in Facts : f.desc # {}
  /\ MaxMemories \in Nat /\ MaxMemoryCalls \in Nat /\ MaxForeign \in Nat
<1>1. /\ Names \in Seq(Words) /\ Names # <<>> /\ Facts \subseteq Memory!Fact /\ \A f \in Facts : f.desc # {}
      /\ MaxMemories \in Nat /\ MaxMemoryCalls \in Nat /\ MaxForeign \in Nat
  BY MemoryBounds DEF Memory!MemoryConstants
<1>2. DOMAIN Names = 1..Len(Names) /\ Len(Names) \in Nat /\ 1 \in DOMAIN Names
  BY <1>1
<1>3. Memory!Keys = {Names[i] : i \in 1..Len(Names)}
  BY <1>2 DEF Memory!Keys, Memory!Range
<1>4. Memory!Keys \subseteq Words /\ Names[1] \in Memory!Keys
  BY <1>1, <1>2, <1>3
<1>5. IsFiniteSet(Memory!Keys)
  <2> DEFINE nth == [i \in 1..Len(Names) |-> Names[i]]
  <2>1. nth \in Surjection(1..Len(Names), Memory!Keys)
    BY <1>3 DEF Surjection
  <2>2. IsFiniteSet(1..Len(Names))
    BY <1>2, FS_Interval
  <2> HIDE DEF nth
  <2> QED
    BY <2>1, <2>2, FS_Surjection
<1>6. Memory!Blank \in Memory!Fact
  BY DEF Memory!Blank, Memory!Fact
<1> QED
  BY <1>1, <1>2, <1>4, <1>5, <1>6

MemoryCall ==
  [step : {"idle", "write", "store", "remove"}, key : Memory!Keys, fact : Memory!Fact, dir : Memory!Dirs, alone : BOOLEAN]

\* A caller that does nothing.
LEMMA IdleCall == Memory!Idle \in MemoryCall /\ Memory!Idle.step = "idle"
BY MemoryFacts DEF Memory!Idle, MemoryCall, Memory!Dirs

\* What is read from well-formed files.
LEMMA LoadedFacts ==
  ASSUME Memory!TypeOK
  PROVE  /\ Memory!Loaded \in [Memory!Keys -> SUBSET [fact : Memory!Fact, dir : Memory!Dirs]]
         /\ \A k \in Memory!Keys, f \in Facts :
              \/ files["local"][k] = {f}
              \/ files["local"][k] = {} /\ files["global"][k] = {f}
              => Memory!Loaded[k] # {} /\ \A m \in Memory!Loaded[k] : m.fact = f
<1>1. files["local"] \in [Memory!Keys -> SUBSET Memory!Fact] /\ files["global"] \in [Memory!Keys -> SUBSET Memory!Fact]
  BY DEF Memory!TypeOK, Memory!Dirs
<1>2. ASSUME NEW k \in Memory!Keys, NEW d \in Memory!Dirs
      PROVE  Memory!Read(k, d) \in SUBSET [fact : Memory!Fact, dir : Memory!Dirs]
  <2>1. \A f \in files[d][k] : f \in Memory!Fact
    BY <1>1, <1>2 DEF Memory!Dirs
  <2>2. \A f \in Memory!Fact : [f EXCEPT !.desc = {k}] \in Memory!Fact
    BY MemoryFacts DEF Memory!Fact
  <2> QED
    BY <2>1, <2>2 DEF Memory!Read
<1>3. Memory!Loaded \in [Memory!Keys -> SUBSET [fact : Memory!Fact, dir : Memory!Dirs]]
  BY <1>2 DEF Memory!Loaded, Memory!Dirs
<1>4. ASSUME NEW k \in Memory!Keys, NEW f \in Facts, NEW d \in Memory!Dirs, files[d][k] = {f}
      PROVE  Memory!Read(k, d) # {} /\ \A m \in Memory!Read(k, d) : m.fact = f
  <2>1. f.desc # {}
    BY MemoryFacts
  <2>2. Memory!Read(k, d) = {[fact |-> f, dir |-> d]}
    BY <1>4, <2>1 DEF Memory!Read
  <2> QED
    BY <2>2
<1>5. ASSUME NEW k \in Memory!Keys, NEW f \in Facts, files["local"][k] = {f}
      PROVE  Memory!Loaded[k] # {} /\ \A m \in Memory!Loaded[k] : m.fact = f
  <2>1. Memory!Loaded[k] = Memory!Read(k, "local")
    BY <1>5 DEF Memory!Loaded
  <2> QED
    BY <1>4, <1>5, <2>1 DEF Memory!Dirs
<1>6. ASSUME NEW k \in Memory!Keys, NEW f \in Facts, files["local"][k] = {}, files["global"][k] = {f}
      PROVE  Memory!Loaded[k] # {} /\ \A m \in Memory!Loaded[k] : m.fact = f
  <2>1. Memory!Loaded[k] = Memory!Read(k, "global")
    BY <1>6 DEF Memory!Loaded
  <2> QED
    BY <1>4, <1>6, <2>1 DEF Memory!Dirs
<1> QED
  <2> SUFFICES ASSUME NEW k \in Memory!Keys, NEW f \in Facts,
                      \/ files["local"][k] = {f}
                      \/ files["local"][k] = {} /\ files["global"][k] = {f}
               PROVE  Memory!Loaded[k] # {} /\ \A m \in Memory!Loaded[k] : m.fact = f
    BY <1>3, Zenon
  <2> QED
    BY <1>5, <1>6

\* Nothing has been said.
LEMMA InitMemory == ASSUME Memory!Init PROVE MemoryInv
<1>1. memoryCall = [c \in Workers |-> Memory!Idle] /\ said = [k \in Memory!Keys |-> {}] /\ memoryGone = {} /\ memoryCalls = 0 /\ memoryForeign = 0
  BY DEF Memory!Init
<1>2. /\ files \in [Memory!Dirs -> [Memory!Keys -> SUBSET Memory!Fact]] /\ project \in BOOLEAN /\ writeAt = Memory!WriteDir(project)
      /\ \A k \in Memory!Keys : files["local"][k] = {}
  BY DEF Memory!Init, Memory!Dirs
<1>3. memoryItems \in [Memory!Keys -> SUBSET [fact : Memory!Fact, dir : Memory!Dirs]]
  <2>1. \A k \in Memory!Keys, d \in Memory!Dirs : Memory!Read(k, d) = {}
    BY DEF Memory!Init, Memory!Read
  <2> QED
    BY <2>1 DEF Memory!Init, Memory!Loaded, Memory!Dirs
<1>4. Memory!TypeOK
  BY <1>1, <1>2, <1>3, IdleCall, MemoryFacts DEF Memory!TypeOK, MemoryCall, Memory!WriteDir, Memory!Dirs
<1> QED
  BY <1>1, <1>2, <1>4, IdleCall DEF MemoryInv, CallsKnown, DirsKnown, SaidIsKept, Told

\* A restart reads the files again.
LEMMA RestartStep ==
  ASSUME MemoryInv, NEW appears \in BOOLEAN, Memory!Restart(appears) PROVE MemoryInv'
<1>1. /\ project' = (project \/ appears) /\ writeAt' = Memory!WriteDir(project') /\ memoryItems' = Memory!Loaded
      /\ memoryCall' = [c \in Workers |-> Memory!Idle] /\ UNCHANGED <<files, memoryCalls, memoryForeign, said, memoryGone>>
  BY DEF Memory!Restart, Memory!history
<1>2. Memory!Loaded' = Memory!Loaded
  BY <1>1 DEF Memory!Loaded, Memory!Read
<1>3. Memory!TypeOK'
  BY <1>1, LoadedFacts, IdleCall DEF MemoryInv, Memory!TypeOK, MemoryCall, Memory!WriteDir, Memory!Dirs
<1>4. CallsKnown'
  BY <1>1, IdleCall DEF CallsKnown, Told
<1>5. DirsKnown'
  BY <1>1 DEF MemoryInv, DirsKnown, Memory!WriteDir, Memory!TypeOK
<1>6. SaidIsKept'
  BY <1>1, <1>2, IdleCall DEF MemoryInv, SaidIsKept, Told
<1> QED
  BY <1>3, <1>4, <1>5, <1>6 DEF MemoryInv

\* A call begins; from then on nothing is said of its key.
LEMMA BeginsFacts ==
  ASSUME MemoryInv, NEW c \in Workers, NEW k \in Memory!Keys, NEW step \in {"write", "remove"},
         NEW f \in Memory!Fact, NEW d \in Memory!Dirs, Memory!Begins(c, k, step, f, d)
  PROVE  /\ memoryCall' \in [Workers -> MemoryCall] /\ memoryCalls' \in 0..MaxMemoryCalls
         /\ memoryCall'[c] = [step |-> step, key |-> k, fact |-> f, dir |-> d, alone |-> Memory!Alone(k)]
         /\ ~Told(c) /\ said'[k] = {} /\ said' \in [Memory!Keys -> SUBSET Facts] /\ memoryGone' \subseteq Memory!Keys
         /\ \A j \in Memory!Keys \ {k} : said'[j] = said[j]
         /\ \A e \in Workers \ {c} :
              /\ memoryCall'[e].step = memoryCall[e].step /\ memoryCall'[e].key = memoryCall[e].key
              /\ memoryCall'[e].fact = memoryCall[e].fact /\ memoryCall'[e].dir = memoryCall[e].dir
              /\ memoryCall'[e].alone = (memoryCall[e].alone /\ ~(Told(e) /\ memoryCall[e].key = k))
<1>1. /\ memoryCall \in [Workers -> MemoryCall] /\ memoryCalls \in 0..MaxMemoryCalls /\ said \in [Memory!Keys -> SUBSET Facts]
      /\ memoryGone \subseteq Memory!Keys
  BY DEF MemoryInv, Memory!TypeOK, MemoryCall
<1>2. Memory!Alone(k) \in BOOLEAN
  BY DEF Memory!Alone
<1>3. [step |-> step, key |-> k, fact |-> f, dir |-> d, alone |-> Memory!Alone(k)] \in MemoryCall
  BY <1>2 DEF MemoryCall
<1>4. \A e \in Workers : [memoryCall[e] EXCEPT !.alone = FALSE] \in MemoryCall
  BY <1>1 DEF MemoryCall
<1>5. Memory!Disturbed(k) \in [Workers -> MemoryCall]
  BY <1>1, <1>4 DEF Memory!Disturbed
<1>6. memoryCall' = [Memory!Disturbed(k) EXCEPT ![c] = [step |-> step, key |-> k, fact |-> f, dir |-> d, alone |-> Memory!Alone(k)]]
  BY DEF Memory!Begins
<1>7. /\ memoryCall' \in [Workers -> MemoryCall]
      /\ memoryCall'[c] = [step |-> step, key |-> k, fact |-> f, dir |-> d, alone |-> Memory!Alone(k)]
      /\ \A e \in Workers \ {c} : memoryCall'[e] = Memory!Disturbed(k)[e]
  <2> HIDE DEF Memory!Disturbed
  <2> QED
    BY <1>3, <1>5, <1>6
<1>8. \A e \in Workers \ {c} :
        /\ memoryCall'[e].step = memoryCall[e].step /\ memoryCall'[e].key = memoryCall[e].key
        /\ memoryCall'[e].fact = memoryCall[e].fact /\ memoryCall'[e].dir = memoryCall[e].dir
        /\ memoryCall'[e].alone = (memoryCall[e].alone /\ ~(Told(e) /\ memoryCall[e].key = k))
  <2> SUFFICES ASSUME NEW e \in Workers \ {c}
               PROVE  /\ memoryCall'[e].step = memoryCall[e].step /\ memoryCall'[e].key = memoryCall[e].key
                      /\ memoryCall'[e].fact = memoryCall[e].fact /\ memoryCall'[e].dir = memoryCall[e].dir
                      /\ memoryCall'[e].alone = (memoryCall[e].alone /\ ~(Told(e) /\ memoryCall[e].key = k))
    OBVIOUS
  <2>1. memoryCall[e] \in MemoryCall /\ memoryCall'[e] = IF Told(e) /\ memoryCall[e].key = k
                                                         THEN [memoryCall[e] EXCEPT !.alone = FALSE] ELSE memoryCall[e]
    BY <1>1, <1>7 DEF Memory!Disturbed, Told
  <2>2. CASE Told(e) /\ memoryCall[e].key = k
    BY <2>1, <2>2 DEF MemoryCall
  <2>3. CASE ~(Told(e) /\ memoryCall[e].key = k)
    BY <2>1, <2>3 DEF MemoryCall
  <2> QED
    BY <2>2, <2>3
<1>9. /\ memoryCalls' \in 0..MaxMemoryCalls /\ ~Told(c) /\ said' = [said EXCEPT ![k] = {}] /\ memoryGone' = memoryGone \ {k}
  BY <1>1, MemoryFacts DEF Memory!Begins, Told
<1> QED
  BY <1>1, <1>7, <1>8, <1>9

\* What was said of the other keys stays true while this one is written.
LEMMA OthersSaid ==
  ASSUME MemoryInv, NEW k \in Memory!Keys, said' \in [Memory!Keys -> SUBSET Facts], said'[k] = {},
         \A j \in Memory!Keys \ {k} : /\ said'[j] = said[j] /\ memoryItems'[j] = memoryItems[j]
                                      /\ \A d \in Memory!Dirs : files'[d][j] = files[d][j],
         \A c \in Workers : Told(c)' => memoryCall'[c].key = k \/ (Told(c) /\ memoryCall'[c].key = memoryCall[c].key)
  PROVE  SaidIsKept'
<1>1. ASSUME NEW j \in Memory!Keys \ {k}
      PROVE  Memory!Loaded'[j] = Memory!Loaded[j]
  BY <1>1 DEF Memory!Loaded, Memory!Read, Memory!Dirs
<1>2. ASSUME NEW j \in Memory!Keys, NEW f \in said'[j]
      PROVE  /\ \A c \in Workers : Told(c)' => memoryCall'[c].key # j
             /\ memoryItems'[j] # {} /\ \A m \in memoryItems'[j] : m.fact = f
             /\ Memory!Loaded'[j] # {} /\ \A m \in Memory!Loaded'[j] : m.fact = f
  <2>1. j # k /\ f \in said[j]
    BY <1>2
  <2> QED
    BY <1>1, <2>1 DEF MemoryInv, SaidIsKept
<1> QED
  BY <1>2 DEF SaidIsKept

\* A call that sets a memory begins.
LEMMA SetStep ==
  ASSUME MemoryInv, NEW c \in Workers, NEW k \in Memory!Keys, NEW f \in Facts, Memory!Set(c, k, f) PROVE MemoryInv'
<1>1. /\ Memory!Begins(c, k, "write", f, writeAt) /\ files' = [files EXCEPT ![writeAt][k] = {Memory!Blank}]
      /\ UNCHANGED <<project, writeAt, memoryItems, memoryForeign>>
  BY DEF Memory!Set, Memory!registry
<1>2. Memory!TypeOK /\ f \in Memory!Fact /\ Memory!Blank \in Memory!Fact /\ writeAt \in Memory!Dirs
  BY MemoryFacts DEF MemoryInv, Memory!TypeOK
<1>3. /\ memoryCall' \in [Workers -> MemoryCall] /\ memoryCalls' \in 0..MaxMemoryCalls
      /\ memoryCall'[c] = [step |-> "write", key |-> k, fact |-> f, dir |-> writeAt, alone |-> Memory!Alone(k)]
      /\ ~Told(c) /\ said'[k] = {} /\ said' \in [Memory!Keys -> SUBSET Facts] /\ memoryGone' \subseteq Memory!Keys
      /\ \A j \in Memory!Keys \ {k} : said'[j] = said[j]
      /\ \A e \in Workers \ {c} :
           /\ memoryCall'[e].step = memoryCall[e].step /\ memoryCall'[e].key = memoryCall[e].key
           /\ memoryCall'[e].fact = memoryCall[e].fact /\ memoryCall'[e].dir = memoryCall[e].dir
           /\ memoryCall'[e].alone = (memoryCall[e].alone /\ ~(Told(e) /\ memoryCall[e].key = k))
  BY <1>1, <1>2, BeginsFacts
<1>4. /\ files' \in [Memory!Dirs -> [Memory!Keys -> SUBSET Memory!Fact]]
      /\ \A d \in Memory!Dirs, j \in Memory!Keys : (d # writeAt \/ j # k) => files'[d][j] = files[d][j]
  BY <1>1, <1>2 DEF Memory!TypeOK
<1>5. Memory!TypeOK'
  BY <1>1, <1>2, <1>3, <1>4 DEF Memory!TypeOK, MemoryCall
<1>6. CallsKnown'
  <2>1. ASSUME NEW d \in Workers, NEW e \in Workers, d # e, Told(d)', Told(e)', memoryCall'[d].key = memoryCall'[e].key
        PROVE  ~memoryCall'[d].alone
    <3>1. CASE d = c
      BY <1>3, <2>1, <3>1 DEF Memory!Alone, Told
    <3>2. CASE d # c /\ e = c
      <4>1. Told(d) /\ memoryCall[d].key = k
        BY <1>3, <2>1, <3>2 DEF Told
      <4> QED
        BY <1>3, <3>2, <4>1
    <3>3. CASE d # c /\ e # c
      <4>1. Told(d) /\ Told(e) /\ memoryCall[d].key = memoryCall[e].key
        BY <1>3, <2>1, <3>3 DEF Told
      <4>2. ~memoryCall[d].alone
        BY <2>1, <4>1 DEF MemoryInv, CallsKnown
      <4> QED
        BY <1>3, <3>3, <4>2
    <3> QED
      BY <3>1, <3>2, <3>3
  <2>2. ASSUME NEW d \in Workers
        PROVE  /\ memoryCall'[d].step \in {"write", "store"} => memoryCall'[d].fact \in Facts /\ memoryCall'[d].dir = writeAt'
               /\ memoryCall'[d].step = "store" /\ memoryCall'[d].alone =>
                    files'[memoryCall'[d].dir][memoryCall'[d].key] = {memoryCall'[d].fact}
    <3>1. CASE d = c
      BY <1>1, <1>3, <3>1
    <3>2. CASE d # c
      <4>1. memoryCall[d] \in MemoryCall
        BY <1>2 DEF Memory!TypeOK, MemoryCall
      <4> QED
        BY <1>1, <1>3, <1>4, <3>2, <4>1 DEF MemoryInv, CallsKnown, Told, MemoryCall
    <3> QED
      BY <3>1, <3>2
  <2> QED
    BY <2>1, <2>2 DEF CallsKnown
<1>7. DirsKnown'
  BY <1>1, <1>4 DEF MemoryInv, DirsKnown, Memory!WriteDir, Memory!Dirs
<1>8. SaidIsKept'
  BY <1>1, <1>3, <1>4, OthersSaid DEF Told
<1> QED
  BY <1>5, <1>6, <1>7, <1>8 DEF MemoryInv

\* A call that deletes a memory begins.
LEMMA DeleteStep ==
  ASSUME MemoryInv, NEW c \in Workers, NEW k \in Memory!Keys, Memory!Delete(c, k) PROVE MemoryInv'
<1>1. PICK m \in memoryItems[k] : /\ Memory!Begins(c, k, "remove", Memory!Blank, m.dir) /\ memoryItems' = [memoryItems EXCEPT ![k] = {}]
                                  /\ UNCHANGED <<files, project, writeAt, memoryForeign>>
  BY DEF Memory!Delete
<1>2. Memory!TypeOK /\ Memory!Blank \in Memory!Fact /\ m.dir \in Memory!Dirs
  BY MemoryFacts DEF MemoryInv, Memory!TypeOK
<1>3. /\ memoryCall' \in [Workers -> MemoryCall] /\ memoryCalls' \in 0..MaxMemoryCalls
      /\ memoryCall'[c] = [step |-> "remove", key |-> k, fact |-> Memory!Blank, dir |-> m.dir, alone |-> Memory!Alone(k)]
      /\ ~Told(c) /\ said'[k] = {} /\ said' \in [Memory!Keys -> SUBSET Facts] /\ memoryGone' \subseteq Memory!Keys
      /\ \A j \in Memory!Keys \ {k} : said'[j] = said[j]
      /\ \A e \in Workers \ {c} :
           /\ memoryCall'[e].step = memoryCall[e].step /\ memoryCall'[e].key = memoryCall[e].key
           /\ memoryCall'[e].fact = memoryCall[e].fact /\ memoryCall'[e].dir = memoryCall[e].dir
           /\ memoryCall'[e].alone = (memoryCall[e].alone /\ ~(Told(e) /\ memoryCall[e].key = k))
  BY <1>1, <1>2, BeginsFacts
<1>4. /\ memoryItems' \in [Memory!Keys -> SUBSET [fact : Memory!Fact, dir : Memory!Dirs]]
      /\ \A j \in Memory!Keys \ {k} : memoryItems'[j] = memoryItems[j]
  BY <1>1, <1>2 DEF Memory!TypeOK
<1>5. Memory!TypeOK'
  BY <1>1, <1>2, <1>3, <1>4 DEF Memory!TypeOK, MemoryCall
<1>6. CallsKnown'
  <2>1. ASSUME NEW d \in Workers, NEW e \in Workers, d # e, Told(d)', Told(e)', memoryCall'[d].key = memoryCall'[e].key
        PROVE  ~memoryCall'[d].alone
    <3>1. CASE d = c
      BY <1>3, <2>1, <3>1 DEF Memory!Alone, Told
    <3>2. CASE d # c /\ e = c
      <4>1. Told(d) /\ memoryCall[d].key = k
        BY <1>3, <2>1, <3>2 DEF Told
      <4> QED
        BY <1>3, <3>2, <4>1
    <3>3. CASE d # c /\ e # c
      <4>1. Told(d) /\ Told(e) /\ memoryCall[d].key = memoryCall[e].key
        BY <1>3, <2>1, <3>3 DEF Told
      <4>2. ~memoryCall[d].alone
        BY <2>1, <4>1 DEF MemoryInv, CallsKnown
      <4> QED
        BY <1>3, <3>3, <4>2
    <3> QED
      BY <3>1, <3>2, <3>3
  <2>2. ASSUME NEW d \in Workers
        PROVE  /\ memoryCall'[d].step \in {"write", "store"} => memoryCall'[d].fact \in Facts /\ memoryCall'[d].dir = writeAt'
               /\ memoryCall'[d].step = "store" /\ memoryCall'[d].alone =>
                    files'[memoryCall'[d].dir][memoryCall'[d].key] = {memoryCall'[d].fact}
    <3>1. CASE d = c
      BY <1>1, <1>3, <3>1
    <3>2. CASE d # c
      BY <1>1, <1>3, <3>2 DEF MemoryInv, CallsKnown
    <3> QED
      BY <3>1, <3>2
  <2> QED
    BY <2>1, <2>2 DEF CallsKnown
<1>7. DirsKnown'
  BY <1>1 DEF MemoryInv, DirsKnown, Memory!WriteDir
<1>8. SaidIsKept'
  BY <1>1, <1>3, <1>4, OthersSaid DEF Told
<1> QED
  BY <1>5, <1>6, <1>7, <1>8 DEF MemoryInv

\* The steps of a call under way.
LEMMA WritesStep == ASSUME MemoryInv, NEW c \in Workers, Memory!SetWrites(c) PROVE MemoryInv'
<1> DEFINE x == memoryCall[c]
<1>1. /\ Memory!TypeOK /\ x \in MemoryCall /\ x.step = "write" /\ x.fact \in Facts /\ x.dir = writeAt
      /\ files' = [files EXCEPT ![x.dir][x.key] = {x.fact}] /\ memoryCall' = [memoryCall EXCEPT ![c].step = "store"]
      /\ UNCHANGED <<project, writeAt, memoryItems, memoryCalls, memoryForeign, said, memoryGone>>
  BY DEF MemoryInv, Memory!TypeOK, MemoryCall, Memory!SetWrites, CallsKnown, Memory!registry, Memory!history
<1>2. /\ memoryCall' \in [Workers -> MemoryCall] /\ \A e \in Workers \ {c} : memoryCall'[e] = memoryCall[e]
      /\ memoryCall'[c].step = "store" /\ memoryCall'[c].key = x.key /\ memoryCall'[c].fact = x.fact /\ memoryCall'[c].dir = x.dir
      /\ memoryCall'[c].alone = x.alone
  BY <1>1 DEF Memory!TypeOK, MemoryCall
<1>3. /\ x.key \in Memory!Keys /\ x.dir \in Memory!Dirs /\ x.fact \in Memory!Fact
  BY <1>1 DEF MemoryCall
<1> HIDE DEF x
<1>4. /\ files' \in [Memory!Dirs -> [Memory!Keys -> SUBSET Memory!Fact]] /\ files'[x.dir][x.key] = {x.fact}
      /\ \A d \in Memory!Dirs, j \in Memory!Keys : (d # x.dir \/ j # x.key) => files'[d][j] = files[d][j]
  BY <1>1, <1>3 DEF Memory!TypeOK
<1>5. Memory!TypeOK'
  BY <1>1, <1>2, <1>4 DEF Memory!TypeOK, MemoryCall
<1>6. CallsKnown'
  <2>1. \A d \in Workers : /\ Told(d)' <=> Told(d) /\ memoryCall'[d].key = memoryCall[d].key
                           /\ memoryCall'[d].alone = memoryCall[d].alone
    BY <1>1, <1>2 DEF Told, x
  <2>2. ASSUME NEW d \in Workers
        PROVE  /\ memoryCall'[d].step \in {"write", "store"} => memoryCall'[d].fact \in Facts /\ memoryCall'[d].dir = writeAt'
               /\ memoryCall'[d].step = "store" /\ memoryCall'[d].alone =>
                    files'[memoryCall'[d].dir][memoryCall'[d].key] = {memoryCall'[d].fact}
    <3>1. CASE d = c
      BY <1>1, <1>2, <1>4, <3>1
    <3>2. CASE d # c
      <4>1. memoryCall[d] \in MemoryCall /\ memoryCall'[d] = memoryCall[d]
        BY <1>1, <1>2, <3>2 DEF Memory!TypeOK, MemoryCall
      <4>2. memoryCall[d].step = "store" /\ memoryCall[d].alone => memoryCall[d].key # x.key
        BY <1>1, <3>2 DEF MemoryInv, CallsKnown, Told, x
      <4> QED
        BY <1>1, <1>4, <4>1, <4>2 DEF MemoryInv, CallsKnown, MemoryCall
    <3> QED
      BY <3>1, <3>2
  <2>3. \A d, e \in Workers : d # e /\ Told(d)' /\ Told(e)' /\ memoryCall'[d].key = memoryCall'[e].key => ~memoryCall'[d].alone
    BY <2>1 DEF MemoryInv, CallsKnown
  <2> QED
    BY <2>2, <2>3 DEF CallsKnown
<1>7. DirsKnown'
  BY <1>1, <1>4 DEF MemoryInv, DirsKnown, Memory!WriteDir, Memory!Dirs
<1>8. SaidIsKept'
  <2>1. said[x.key] = {}
    BY <1>1, <1>3 DEF MemoryInv, SaidIsKept, Told, x
  <2>2. said' \in [Memory!Keys -> SUBSET Facts] /\ said'[x.key] = {}
    BY <1>1, <2>1 DEF Memory!TypeOK
  <2>3. \A d \in Workers : Told(d)' => Told(d) /\ memoryCall'[d].key = memoryCall[d].key
    BY <1>1, <1>2 DEF Told, x
  <2> QED
    BY <1>1, <1>3, <1>4, <2>2, <2>3, OthersSaid
<1> QED
  BY <1>5, <1>6, <1>7, <1>8 DEF MemoryInv

\* A call that ends leaves the others as they were.
LEMMA EndsFacts ==
  ASSUME MemoryInv, NEW c \in Workers, memoryCall' = [memoryCall EXCEPT ![c] = Memory!Idle], UNCHANGED writeAt,
         \A d \in Workers \ {c} : Told(d) /\ memoryCall[d].alone =>
           files'[memoryCall[d].dir][memoryCall[d].key] = files[memoryCall[d].dir][memoryCall[d].key]
  PROVE  /\ CallsKnown' /\ memoryCall' \in [Workers -> MemoryCall] /\ ~Told(c)'
         /\ \A d \in Workers \ {c} : memoryCall'[d] = memoryCall[d]
<1>1. memoryCall' \in [Workers -> MemoryCall] /\ memoryCall'[c] = Memory!Idle /\ \A d \in Workers \ {c} : memoryCall'[d] = memoryCall[d]
  BY IdleCall DEF MemoryInv, Memory!TypeOK, MemoryCall
<1>2. ~Told(c)' /\ \A d \in Workers \ {c} : Told(d)' <=> Told(d)
  BY <1>1, IdleCall DEF Told
<1>3. \A d, e \in Workers : d # e /\ Told(d)' /\ Told(e)' /\ memoryCall'[d].key = memoryCall'[e].key => ~memoryCall'[d].alone
  BY <1>1, <1>2 DEF MemoryInv, CallsKnown
<1>4. ASSUME NEW d \in Workers
      PROVE  /\ memoryCall'[d].step \in {"write", "store"} => memoryCall'[d].fact \in Facts /\ memoryCall'[d].dir = writeAt'
             /\ memoryCall'[d].step = "store" /\ memoryCall'[d].alone =>
                  files'[memoryCall'[d].dir][memoryCall'[d].key] = {memoryCall'[d].fact}
  BY <1>1, <1>2, IdleCall DEF MemoryInv, CallsKnown, Told
<1> QED
  BY <1>1, <1>2, <1>3, <1>4 DEF CallsKnown

\* The memory is stored in the map, and the caller is told.
LEMMA StoresStep == ASSUME MemoryInv, NEW c \in Workers, Memory!SetStores(c) PROVE MemoryInv'
<1> DEFINE x == memoryCall[c]
<1>1. /\ Memory!TypeOK /\ x \in MemoryCall /\ x.step = "store" /\ x.fact \in Facts /\ x.dir = writeAt
      /\ x.alone => files[x.dir][x.key] = {x.fact}
      /\ memoryItems' = [memoryItems EXCEPT ![x.key] = {[fact |-> x.fact, dir |-> x.dir]}]
      /\ memoryCall' = [memoryCall EXCEPT ![c] = Memory!Idle]
      /\ said' = IF x.alone THEN [said EXCEPT ![x.key] = {x.fact}] ELSE said
      /\ UNCHANGED <<files, project, writeAt, memoryCalls, memoryForeign, memoryGone>>
  BY DEF MemoryInv, Memory!TypeOK, MemoryCall, Memory!SetStores, CallsKnown
<1>2. x.key \in Memory!Keys /\ x.dir \in Memory!Dirs /\ x.fact \in Memory!Fact
  BY <1>1 DEF MemoryCall
<1>3. /\ CallsKnown' /\ memoryCall' \in [Workers -> MemoryCall] /\ ~Told(c)'
      /\ \A d \in Workers \ {c} : memoryCall'[d] = memoryCall[d]
  BY <1>1, EndsFacts
<1>4. /\ memoryItems' \in [Memory!Keys -> SUBSET [fact : Memory!Fact, dir : Memory!Dirs]]
      /\ memoryItems'[x.key] = {[fact |-> x.fact, dir |-> x.dir]} /\ \A j \in Memory!Keys \ {x.key} : memoryItems'[j] = memoryItems[j]
  <2> HIDE DEF x
  <2> QED
    BY <1>1, <1>2 DEF Memory!TypeOK
<1>5. /\ said' \in [Memory!Keys -> SUBSET Facts] /\ (x.alone => said'[x.key] = {x.fact})
      /\ ~x.alone => said'[x.key] = said[x.key]
      /\ \A j \in Memory!Keys \ {x.key} : said'[j] = said[j]
  <2> HIDE DEF x
  <2> QED
    BY <1>1, <1>2 DEF Memory!TypeOK
<1>6. Memory!TypeOK'
  BY <1>1, <1>3, <1>4, <1>5 DEF Memory!TypeOK, MemoryCall
<1>7. DirsKnown'
  BY <1>1 DEF MemoryInv, DirsKnown, Memory!WriteDir
<1>8. said[x.key] = {} /\ Memory!Loaded' = Memory!Loaded
  BY <1>1, <1>2 DEF MemoryInv, SaidIsKept, Told, Memory!Loaded, Memory!Read
<1>9. x.alone => /\ \A d \in Workers : Told(d)' => memoryCall'[d].key # x.key
                 /\ Memory!Loaded[x.key] # {} /\ \A m \in Memory!Loaded[x.key] : m.fact = x.fact
  <2> SUFFICES ASSUME x.alone
               PROVE  /\ \A d \in Workers : Told(d)' => memoryCall'[d].key # x.key
                      /\ Memory!Loaded[x.key] # {} /\ \A m \in Memory!Loaded[x.key] : m.fact = x.fact
    OBVIOUS
  <2>1. \A d \in Workers \ {c} : Told(d) => memoryCall[d].key # x.key
    BY <1>1 DEF MemoryInv, CallsKnown, Told
  <2>2. \/ files["local"][x.key] = {x.fact}
        \/ files["local"][x.key] = {} /\ files["global"][x.key] = {x.fact}
    BY <1>1, <1>2 DEF MemoryInv, DirsKnown, Memory!WriteDir
  <2>3. Memory!Loaded[x.key] # {} /\ \A m \in Memory!Loaded[x.key] : m.fact = x.fact
    BY <1>1, <1>2, <2>2, LoadedFacts
  <2> QED
    BY <1>3, <2>1, <2>3 DEF Told
<1>10. SaidIsKept'
  <2>1. ASSUME NEW j \in Memory!Keys, NEW f \in said'[j]
        PROVE  /\ \A d \in Workers : Told(d)' => memoryCall'[d].key # j
               /\ memoryItems'[j] # {} /\ \A m \in memoryItems'[j] : m.fact = f
               /\ Memory!Loaded'[j] # {} /\ \A m \in Memory!Loaded'[j] : m.fact = f
    <3>1. CASE j = x.key
      <4>1. x.alone /\ f = x.fact
        BY <1>5, <1>8, <2>1, <3>1
      <4>2. memoryItems'[j] = {[fact |-> f, dir |-> x.dir]}
        <5> HIDE DEF x
        <5> QED
          BY <1>4, <3>1, <4>1, Zenon
      <4>3. /\ \A d \in Workers : Told(d)' => memoryCall'[d].key # j
            /\ Memory!Loaded[j] # {} /\ \A m \in Memory!Loaded[j] : m.fact = f
        BY <1>9, <3>1, <4>1
      <4> QED
        BY <1>8, <4>2, <4>3
    <3>2. CASE j # x.key
      <4>1. f \in said[j] /\ memoryItems'[j] = memoryItems[j]
        BY <1>4, <1>5, <2>1, <3>2
      <4>2. \A d \in Workers : Told(d)' => Told(d) /\ memoryCall'[d].key = memoryCall[d].key
        BY <1>3 DEF Told
      <4> QED
        BY <1>8, <4>1, <4>2 DEF MemoryInv, SaidIsKept
    <3> QED
      BY <3>1, <3>2
  <2> QED
    BY <2>1 DEF SaidIsKept
<1> QED
  BY <1>3, <1>6, <1>7, <1>10 DEF MemoryInv

\* A deleted memory leaves the map.
LEMMA RemovesStep == ASSUME MemoryInv, NEW c \in Workers, Memory!DeleteRemoves(c) PROVE MemoryInv'
<1> DEFINE x == memoryCall[c]
<1>1. /\ Memory!TypeOK /\ x \in MemoryCall /\ x.step = "remove"
      /\ files' = [files EXCEPT ![x.dir][x.key] = {}] /\ memoryCall' = [memoryCall EXCEPT ![c] = Memory!Idle]
      /\ memoryGone' = IF x.alone THEN memoryGone \cup {x.key} ELSE memoryGone
      /\ UNCHANGED <<project, writeAt, memoryItems, memoryCalls, memoryForeign, said>>
  BY DEF MemoryInv, Memory!TypeOK, MemoryCall, Memory!DeleteRemoves, Memory!registry
<1>2. x.key \in Memory!Keys /\ x.dir \in Memory!Dirs
  BY <1>1 DEF MemoryCall
<1>3. /\ files' \in [Memory!Dirs -> [Memory!Keys -> SUBSET Memory!Fact]]
      /\ \A d \in Memory!Dirs, j \in Memory!Keys : (d # x.dir \/ j # x.key) => files'[d][j] = files[d][j]
      /\ \A d \in Memory!Dirs, j \in Memory!Keys : files'[d][j] = {} \/ files'[d][j] = files[d][j]
  <2> HIDE DEF x
  <2> QED
    BY <1>1, <1>2 DEF Memory!TypeOK
<1>4. \A d \in Workers \ {c} : Told(d) /\ memoryCall[d].alone => memoryCall[d].key # x.key
  BY <1>1 DEF MemoryInv, CallsKnown, Told
<1>5. /\ CallsKnown' /\ memoryCall' \in [Workers -> MemoryCall] /\ ~Told(c)'
      /\ \A d \in Workers \ {c} : memoryCall'[d] = memoryCall[d]
  <2>1. \A d \in Workers : memoryCall[d].dir \in Memory!Dirs /\ memoryCall[d].key \in Memory!Keys
    BY <1>1 DEF Memory!TypeOK
  <2>2. \A d \in Workers \ {c} : Told(d) /\ memoryCall[d].alone =>
          files'[memoryCall[d].dir][memoryCall[d].key] = files[memoryCall[d].dir][memoryCall[d].key]
    BY <1>3, <1>4, <2>1
  <2>3. memoryCall' = [memoryCall EXCEPT ![c] = Memory!Idle] /\ UNCHANGED writeAt
    BY <1>1
  <2> QED
    BY <2>2, <2>3, EndsFacts
<1>6. Memory!TypeOK'
  BY <1>1, <1>2, <1>3, <1>5 DEF Memory!TypeOK, MemoryCall
<1>7. DirsKnown'
  BY <1>1, <1>3 DEF MemoryInv, DirsKnown, Memory!WriteDir, Memory!Dirs
<1>8. SaidIsKept'
  <2>1. said[x.key] = {}
    BY <1>1, <1>2 DEF MemoryInv, SaidIsKept, Told
  <2>2. said' \in [Memory!Keys -> SUBSET Facts] /\ said'[x.key] = {}
    BY <1>1, <2>1 DEF Memory!TypeOK
  <2>3. \A d \in Workers : Told(d)' => Told(d) /\ memoryCall'[d].key = memoryCall[d].key
    BY <1>5 DEF Told
  <2> QED
    BY <1>1, <1>2, <1>3, <2>2, <2>3, OthersSaid
<1> QED
  BY <1>5, <1>6, <1>7, <1>8 DEF MemoryInv

\* Another session writes where this one does not look, or what nobody was told.
LEMMA OtherSessionStep ==
  ASSUME MemoryInv, NEW d \in Memory!Dirs, NEW k \in Memory!Keys, NEW text \in {{}} \cup {{f} : f \in Facts},
         Memory!OtherSession(d, k, text)
  PROVE  MemoryInv'
<1>1. /\ Memory!TypeOK /\ (d = "local" => project) /\ files' = [files EXCEPT ![d][k] = text]
      /\ memoryForeign' = memoryForeign + 1 /\ memoryForeign < MaxForeign /\ memoryCall' = Memory!Disturbed(k)
      /\ said' = [said EXCEPT ![k] = {}] /\ memoryGone' = memoryGone \ {k}
      /\ UNCHANGED <<project, writeAt, memoryItems, memoryCalls>>
  BY DEF MemoryInv, Memory!OtherSession, Memory!registry
<1>2. text \in SUBSET Memory!Fact
  BY MemoryFacts
<1>3. /\ files' \in [Memory!Dirs -> [Memory!Keys -> SUBSET Memory!Fact]]
      /\ \A e \in Memory!Dirs, j \in Memory!Keys : (e # d \/ j # k) => files'[e][j] = files[e][j]
  BY <1>1, <1>2 DEF Memory!TypeOK
<1>4. memoryCall' \in [Workers -> MemoryCall] /\
      \A e \in Workers :
        /\ memoryCall'[e].step = memoryCall[e].step /\ memoryCall'[e].key = memoryCall[e].key
        /\ memoryCall'[e].fact = memoryCall[e].fact /\ memoryCall'[e].dir = memoryCall[e].dir
        /\ memoryCall'[e].alone = (memoryCall[e].alone /\ ~(Told(e) /\ memoryCall[e].key = k))
  <2> SUFFICES ASSUME NEW e \in Workers
               PROVE  /\ memoryCall'[e].step = memoryCall[e].step /\ memoryCall'[e].key = memoryCall[e].key
                      /\ memoryCall'[e].fact = memoryCall[e].fact /\ memoryCall'[e].dir = memoryCall[e].dir
                      /\ memoryCall'[e].alone = (memoryCall[e].alone /\ ~(Told(e) /\ memoryCall[e].key = k))
                      /\ memoryCall'[e] \in MemoryCall
    BY <1>1 DEF Memory!Disturbed
  <2>1. memoryCall[e] \in MemoryCall /\ memoryCall'[e] = IF Told(e) /\ memoryCall[e].key = k
                                                         THEN [memoryCall[e] EXCEPT !.alone = FALSE] ELSE memoryCall[e]
    BY <1>1 DEF Memory!Disturbed, Told, Memory!TypeOK, MemoryCall
  <2>2. CASE Told(e) /\ memoryCall[e].key = k
    BY <2>1, <2>2 DEF MemoryCall
  <2>3. CASE ~(Told(e) /\ memoryCall[e].key = k)
    BY <2>1, <2>3 DEF MemoryCall
  <2> QED
    BY <2>2, <2>3
<1>5. memoryForeign' \in 0..MaxForeign /\ said' \in [Memory!Keys -> SUBSET Facts] /\ said'[k] = {} /\ memoryGone' \subseteq Memory!Keys
      /\ \A j \in Memory!Keys \ {k} : said'[j] = said[j]
  BY <1>1, MemoryFacts DEF Memory!TypeOK
<1>6. Memory!TypeOK'
  BY <1>1, <1>3, <1>4, <1>5 DEF Memory!TypeOK, MemoryCall
<1>7. CallsKnown'
  <2>1. \A e \in Workers : Told(e)' <=> Told(e)
    BY <1>4 DEF Told
  <2>2. ASSUME NEW e \in Workers, NEW g \in Workers, e # g, Told(e)', Told(g)', memoryCall'[e].key = memoryCall'[g].key
        PROVE  ~memoryCall'[e].alone
    <3>1. Told(e) /\ Told(g) /\ memoryCall[e].key = memoryCall[g].key
      BY <1>4, <2>1, <2>2
    <3>2. ~memoryCall[e].alone
      BY <2>2, <3>1 DEF MemoryInv, CallsKnown
    <3> QED
      BY <1>4, <3>2
  <2>3. ASSUME NEW e \in Workers
        PROVE  /\ memoryCall'[e].step \in {"write", "store"} => memoryCall'[e].fact \in Facts /\ memoryCall'[e].dir = writeAt'
               /\ memoryCall'[e].step = "store" /\ memoryCall'[e].alone =>
                    files'[memoryCall'[e].dir][memoryCall'[e].key] = {memoryCall'[e].fact}
    <3>1. memoryCall[e] \in MemoryCall
      BY <1>1 DEF Memory!TypeOK, MemoryCall
    <3> QED
      BY <1>1, <1>3, <1>4, <3>1 DEF MemoryInv, CallsKnown, Told, MemoryCall
  <2> QED
    BY <2>2, <2>3 DEF CallsKnown
<1>8. DirsKnown'
  BY <1>1, <1>3 DEF MemoryInv, DirsKnown, Memory!WriteDir, Memory!Dirs
<1>9. SaidIsKept'
  BY <1>1, <1>3, <1>4, <1>5, OthersSaid DEF Told
<1> QED
  BY <1>6, <1>7, <1>8, <1>9 DEF MemoryInv

\* Every step keeps the invariant of the memories.
LEMMA MemoryStep == ASSUME MemoryInv, [Memory!Next]_Memory!vars PROVE MemoryInv'
<1>1. CASE UNCHANGED Memory!vars
  BY <1>1 DEF Memory!vars, Memory!registry, Memory!history, MemoryInv, Memory!TypeOK, CallsKnown, Told, DirsKnown, SaidIsKept, Memory!Loaded, Memory!Read
<1>2. CASE Memory!Next
  BY <1>2, RestartStep, SetStep, DeleteStep, WritesStep, StoresStep, RemovesStep, OtherSessionStep DEF Memory!Next
<1> QED
  BY <1>1, <1>2

\* A memory that is named by the request is shown or pushed out by as good ones.
LEMMA NamedIsShown ==
  ASSUME MemoryInv, NEW k \in Memory!Kept
  PROVE  \/ k \in Memory!InlineBlockForQuery({k})
         \/ Cardinality({j \in Memory!Kept \ {k} : Memory!Score(j, {k}) >= 4}) >= MaxMemories
<1> DEFINE scored == {j \in Memory!Kept : Memory!Score(j, {k}) > 0}
           above == {j \in scored : Memory!Outranks(j, k, {k})}
           good == {j \in Memory!Kept \ {k} : Memory!Score(j, {k}) >= 4}
<1>1. k \in Memory!Keys /\ Memory!Kept \subseteq Memory!Keys
  BY DEF Memory!Kept
<1>2. \A S : IsFiniteSet(S \cap {k}) /\ Cardinality(S \cap {k}) \in Nat
  BY FS_Singleton, FS_Subset, FS_CardinalityType
<1>3. \A f : Memory!ScoreMemory(k, f, {k}) \in Nat /\ Memory!ScoreMemory(k, f, {k}) >= 4
  <2> SUFFICES ASSUME NEW f PROVE Memory!ScoreMemory(k, f, {k}) \in Nat /\ Memory!ScoreMemory(k, f, {k}) >= 4
    OBVIOUS
  <2>1. Cardinality(f.desc \cap {k}) \in Nat /\ Cardinality(f.body \cap {k}) \in Nat
    BY <1>2
  <2> QED
    BY <2>1, MemoryCardinality DEF Memory!ScoreMemory
<1>4. \A j, f : Memory!ScoreMemory(j, f, {k}) \in Nat
  <2> SUFFICES ASSUME NEW j, NEW f PROVE Memory!ScoreMemory(j, f, {k}) \in Nat
    OBVIOUS
  <2>1. Cardinality(f.desc \cap {k}) \in Nat /\ Cardinality(f.body \cap {k}) \in Nat
    BY <1>2
  <2> QED
    BY <2>1, MemoryCardinality DEF Memory!ScoreMemory
<1>5. Memory!Score(k, {k}) >= 4 /\ \A j \in Memory!Kept : Memory!Score(j, {k}) \in Nat
  BY <1>3, <1>4 DEF Memory!Score
<1> HIDE DEF Memory!Score
<1>6. Memory!Place(k) \in Nat
  <2>1. \E n \in DOMAIN Names : Names[n] = k
    BY <1>1 DEF Memory!Keys, Memory!Range
  <2> QED
    BY <2>1, MemoryFacts DEF Memory!Place
<1>7. above \subseteq good
  <2> SUFFICES ASSUME NEW j \in Memory!Kept, Memory!Outranks(j, k, {k}) PROVE j # k /\ Memory!Score(j, {k}) >= 4
    OBVIOUS
  <2>1. Memory!Score(j, {k}) \in Nat /\ Memory!Score(k, {k}) \in Nat
    BY <1>5
  <2> QED
    BY <1>5, <1>6, <2>1 DEF Memory!Outranks
<1>8. IsFiniteSet(good) /\ IsFiniteSet(above)
  BY <1>1, <1>7, MemoryFacts, FS_Subset
<1>9. Cardinality(above) <= Cardinality(good) /\ Cardinality(above) \in Nat /\ Cardinality(good) \in Nat
  BY <1>7, <1>8, FS_Subset, FS_CardinalityType
<1>10. k \in scored
  BY <1>5
<1>11. CASE Cardinality(Memory!Kept) <= MaxMemories
  BY <1>11, MemoryCardinality DEF Memory!InlineBlockForQuery
<1>12. CASE ~(Cardinality(Memory!Kept) <= MaxMemories)
  <2>1. Memory!InlineBlockForQuery({k}) =
          {i \in scored : Cardinality({j \in scored : Memory!Outranks(j, i, {k})}) < MaxMemories}
    BY <1>10, <1>12, MemoryCardinality DEF Memory!InlineBlockForQuery
  <2>2. k \in Memory!InlineBlockForQuery({k}) \/ ~(Cardinality(above) < MaxMemories)
    BY <1>10, <2>1
  <2> QED
    BY <1>9, <2>2, MemoryFacts
<1> QED
  BY <1>11, <1>12

\* What was said is kept is in the map, in the files and, when it is asked for, shown.
LEMMA MemorySurvives == ASSUME MemoryInv PROVE Memory!SavedSurvives
<1> SUFFICES ASSUME NEW k \in Memory!Keys, NEW f \in said[k]
             PROVE  /\ \A m \in memoryItems[k] \cup Memory!Loaded[k] : m.fact = f
                    /\ memoryItems[k] # {} /\ Memory!Loaded[k] # {}
                    /\ \/ k \in Memory!InlineBlockForQuery({k})
                       \/ Cardinality({j \in Memory!Kept \ {k} : Memory!Score(j, {k}) >= 4}) >= MaxMemories
  BY MemoryCardinality DEF Memory!SavedSurvives
<1>1. memoryItems[k] # {} /\ Memory!Loaded[k] # {} /\ \A m \in memoryItems[k] \cup Memory!Loaded[k] : m.fact = f
  BY DEF MemoryInv, SaidIsKept
<1>2. k \in Memory!Kept
  BY <1>1 DEF Memory!Kept
<1> QED
  BY <1>1, <1>2, NamedIsShown

-----------------------------------------------------------------------------
(* Update. *)

\* The one update: what it has fetched, and how far it is.
U == "updater"
Fine(b) == b.state = "whole" \/ (b.state = "bad" /\ b.release \notin sums)
Fetched ==
  /\ at[U] = "verify" => archive[U] # "none"
  /\ at[U] = "extract" => archive[U] = "whole" \/ (archive[U] = "bad" /\ release[U] \notin sums)
  /\ at[U] \in {"replace", "stage", "staging", "staged"} =>
       binary[U] \in Update!Binary /\ Fine(binary[U]) /\ binary[U].release = release[U]
Installed ==
  /\ target \notin staged /\ content[target] \in Update!Binary /\ Fine(content[target])
  /\ at[U] \in Update!Steps => content[target] = before[U] /\ 0 < runs
  /\ at[U] = "failed" => content[target] = before[U]
  /\ at[U] = "updated" => content[target].release = release[U] /\ staged = {}
  /\ at[U] = "stage" => staged = {}
  /\ at[U] \in {"staging", "staged"} => staged = {handle[U]}
  /\ at[U] = "staged" => content[handle[U]] = binary[U]

UpdateInv == Update!TypeOK /\ Fetched /\ Installed

\* What Update asks of its constants.
LEMMA OneUpdater == Update!UpdateConstants
BY MCToolsConstants

\* The constants, and the contents of files.
LEMMA UpdateBounds ==
  /\ Releases \in Nat \ {0} /\ MaxRuns \in Nat /\ U \in {"updater"} /\ \A u \in {"updater"} : u = U
  /\ Update!NoFile.state = "none"
  /\ \A n \in 0..Releases : Update!Whole(n) \in Update!Binary /\ Update!Part(n) \in Update!Binary /\ Fine(Update!Whole(n))
                            /\ Update!Part(n).state = "part"
BY OneUpdater DEF Update!UpdateConstants, U, Update!NoFile, Update!Whole, Update!Part, Update!Binary, Fine

\* The program that was installed is whole.
LEMMA InitUpdate == ASSUME Update!Init PROVE UpdateInv
<1>1. Update!TypeOK
  BY UpdateBounds DEF Update!Init, Update!TypeOK, Update!Files, Update!Ends
<1>2. at[U] = "off" /\ target = 0 /\ content[0] = Update!Whole(0) /\ staged = {}
  BY UpdateBounds DEF Update!Init, Update!Files
<1>3. Fetched
  BY <1>2 DEF Fetched
<1>4. Installed
  BY <1>2, UpdateBounds DEF Installed, Update!Steps
<1> QED
  BY <1>1, <1>3, <1>4 DEF UpdateInv

\* The steps that leave the files alone.
LEMMA FetchStep ==
  ASSUME UpdateInv, Update!Publish \/ Update!Start(U) \/ Update!Check(U) \/ Update!Download(U) \/ Update!Verify(U) \/ Update!Extract(U)
  PROVE  UpdateInv'
<1> USE UpdateBounds DEF UpdateInv
<1>1. CASE Update!Publish
  BY <1>1 DEF Update!Publish, Update!files, Update!TypeOK, Fetched, Installed, Fine
<1>2. CASE Update!Start(U)
  <2>1. Update!TypeOK'
    BY <1>2 DEF Update!Start, Update!Goes, Update!files, Update!TypeOK, Installed, Update!Steps
  <2>2. at'[U] = "check" /\ before'[U] = content[target]
    BY <1>2 DEF Update!Start, Update!Goes, Update!TypeOK
  <2> QED
    BY <1>2, <2>1, <2>2 DEF Update!Start, Update!files, Update!TypeOK, Fetched, Installed, Fine
<1>3. CASE Update!Check(U)
  <2>1. release' = [release EXCEPT ![U] = latest] /\ (\E s \in {"current", "download", "failed"} : Update!Goes(U, s))
    BY <1>3 DEF Update!Check
  <2>2. Update!TypeOK'
    BY <1>3, <2>1 DEF Update!Check, Update!Goes, Update!files, Update!TypeOK, Update!Steps, Update!Ends
  <2>3. at[U] = "check" /\ at'[U] \in {"current", "download", "failed"}
    BY <1>3, <2>1 DEF Update!Check, Update!Goes, Update!TypeOK
  <2> QED
    BY <1>3, <2>2, <2>3 DEF Update!Check, Update!files, Update!TypeOK, Fetched, Installed, Fine, Update!Steps
<1>4. CASE Update!Download(U)
  <2>1. at[U] = "download" /\ UNCHANGED <<Update!files, sums, latest, release, binary, handle, before, runs>>
    BY <1>4 DEF Update!Download
  <2>2. Update!TypeOK' /\ (\/ at'[U] = "failed"
                           \/ at'[U] = "verify" /\ archive'[U] # "none"
                           \/ at'[U] = "extract" /\ release[U] \notin sums /\ archive'[U] \in {"whole", "bad"})
    BY <1>4 DEF Update!Download, Update!Goes, Update!files, Update!TypeOK, Update!Steps, Update!Ends
  <2> QED
    BY <2>1, <2>2 DEF Update!files, Update!TypeOK, Fetched, Installed, Fine, Update!Steps
<1>5. CASE Update!Verify(U)
  <2>1. at[U] = "verify" /\ UNCHANGED <<Update!files, sums, latest, release, binary, handle, before, runs>>
    BY <1>5 DEF Update!Verify
  <2>2. Update!TypeOK' /\ (at'[U] = "failed" \/ (at'[U] = "extract" /\ archive'[U] = "whole"))
    BY <1>5 DEF Update!Verify, Update!Verified, Update!Goes, Update!files, Update!TypeOK, Update!Steps, Update!Ends
  <2> QED
    BY <2>1, <2>2 DEF Update!files, Update!TypeOK, Fetched, Installed, Fine, Update!Steps
<1>6. CASE Update!Extract(U)
  <2>1. at[U] = "extract" /\ UNCHANGED <<Update!files, sums, latest, release, handle, before, runs>>
    BY <1>6 DEF Update!Extract
  <2>2. archive[U] \in {"whole", "bad"}
    BY <2>1 DEF Fetched
  <2>3. [release |-> release[U], state |-> archive[U]] \in Update!Binary
    BY <2>2 DEF Update!TypeOK, Update!Binary
  <2>4. Update!TypeOK' /\ (\/ at'[U] = "failed"
                           \/ at'[U] = "replace" /\ binary'[U] = [release |-> release[U], state |-> archive[U]])
    BY <1>6, <2>3 DEF Update!Extract, Update!Goes, Update!files, Update!TypeOK, Update!Steps, Update!Ends
  <2> QED
    BY <2>1, <2>2, <2>3, <2>4 DEF Update!files, Update!TypeOK, Fetched, Installed, Fine, Update!Steps
<1> QED
  BY <1>1, <1>2, <1>3, <1>4, <1>5, <1>6

\* The steps that install it, and the end of the process.
LEMMA InstallStep ==
  ASSUME UpdateInv, Update!Replace(U) \/ Update!Stage(U) \/ Update!Staged(U) \/ Update!Rename(U) \/ Update!Crash(U)
  PROVE  UpdateInv'
<1> USE UpdateBounds DEF UpdateInv
<1>1. CASE Update!Replace(U)
  <2>1. /\ at[U] = "replace"
        /\ UNCHANGED <<content, target, sums, latest, release, archive, handle, before, runs>>
    BY <1>1 DEF Update!Replace
  <2>2. Update!TypeOK' /\ (\/ at'[U] = "stage" /\ staged' = {} /\ binary' = binary
                           \/ at'[U] = "failed" /\ staged' = staged)
    BY <1>1 DEF Update!Replace, Update!Goes, Update!files, Update!TypeOK, Update!Steps, Update!Ends
  <2> QED
    BY <2>1, <2>2 DEF Update!TypeOK, Fetched, Installed, Fine, Update!Steps
<1>2. CASE Update!Stage(U)
  <2>1. /\ at[U] = "stage" /\ staged = {} /\ staged' = {Update!Unused}
        /\ content' = [content EXCEPT ![Update!Unused] = Update!Part(binary[U].release)]
        /\ handle' = [handle EXCEPT ![U] = Update!Unused] /\ at' = [at EXCEPT ![U] = "staging"]
        /\ UNCHANGED <<target, sums, latest, release, archive, binary, before, runs>>
    BY <1>2 DEF Update!Stage, Update!Goes, Installed
  <2>2. \E f \in Update!Files \ ({target} \cup staged) : \A u \in {"updater"} : at[u] = "staging" => handle[u] # f
    <3>1. 0 \in Update!Files /\ 1 \in Update!Files
      BY <2>1 DEF Installed, Update!Steps, Update!Files, Update!TypeOK
    <3>2. PICK f \in Update!Files : f # target
      BY <3>1
    <3> QED
      BY <2>1, <3>2
  <2>3. Update!Unused \in Update!Files /\ Update!Unused # target
    BY <2>2 DEF Update!Unused
  <2> HIDE DEF Update!Unused
  <2>4. binary[U].release \in 0..Releases
    BY <2>1 DEF Fetched, Update!Binary
  <2>5. Update!TypeOK' /\ at'[U] = "staging" /\ handle'[U] = Update!Unused
    BY <2>1, <2>3, <2>4 DEF Update!TypeOK, Update!Steps, Update!Ends
  <2>6. content'[target] = content[target]
    BY <2>1, <2>3 DEF Update!TypeOK
  <2> QED
    BY <2>1, <2>3, <2>5, <2>6 DEF Update!TypeOK, Fetched, Installed, Fine, Update!Steps
<1>3. CASE Update!Staged(U)
  <2>1. /\ at[U] = "staging" /\ staged = {handle[U]} /\ handle[U] # target /\ binary[U] \in Update!Binary
        /\ UNCHANGED <<target, sums, latest, release, archive, handle, before, runs>>
    BY <1>3 DEF Update!Staged, Installed, Fetched
  <2>2. Update!TypeOK' /\ (\/ /\ at'[U] = "staged" /\ staged' = staged /\ binary' = binary
                             /\ content'[handle[U]] = binary[U]
                           \/ at'[U] = "failed" /\ staged' = {})
    BY <1>3, <2>1 DEF Update!Staged, Update!Goes, Update!TypeOK, Update!Steps, Update!Ends
  <2>3. content'[target] = content[target]
    BY <1>3, <2>1 DEF Update!Staged, Update!TypeOK
  <2> QED
    BY <2>1, <2>2, <2>3 DEF Update!TypeOK, Fetched, Installed, Fine, Update!Steps
<1>4. CASE Update!Rename(U)
  <2>1. /\ at[U] = "staged" /\ staged = {handle[U]} /\ content[handle[U]] = binary[U] /\ staged' = {}
        /\ UNCHANGED <<content, sums, latest, release, archive, handle, before, runs>>
    BY <1>4 DEF Update!Rename, Installed
  <2>2. Update!TypeOK' /\ (\/ at'[U] = "updated" /\ target' = handle[U]
                           \/ at'[U] = "failed" /\ target' = target)
    BY <1>4, <2>1 DEF Update!Rename, Update!Goes, Update!TypeOK, Update!Steps, Update!Ends
  <2> QED
    BY <2>1, <2>2 DEF Update!TypeOK, Fetched, Installed, Fine, Update!Steps
<1>5. CASE Update!Crash(U)
  <2>1. at'[U] = "off" /\ UNCHANGED <<Update!files, sums, latest, release, handle, before, runs>>
    BY <1>5 DEF Update!Crash, Update!Goes, Update!TypeOK
  <2>2. Update!TypeOK'
    BY <1>5 DEF Update!Crash, Update!Goes, Update!TypeOK, Update!Steps, Update!Ends, Update!files
  <2> QED
    BY <2>1, <2>2 DEF Update!TypeOK, Fetched, Installed, Fine, Update!Steps, Update!files
<1> QED
  BY <1>1, <1>2, <1>3, <1>4, <1>5

\* Every step keeps the invariant of the update.
LEMMA UpdateStep == ASSUME UpdateInv, [Update!Next]_Update!vars PROVE UpdateInv'
<1>1. CASE UNCHANGED Update!vars
  BY <1>1 DEF Update!vars, Update!files, UpdateInv, Update!TypeOK, Fetched, Installed, Fine
<1>2. CASE Update!Next
  BY <1>2, FetchStep, InstallStep, UpdateBounds DEF Update!Next
<1> QED
  BY <1>1, <1>2

\* The program in place is one that is whole or as bad as what was released.
LEMMA UpdateIsWhole == ASSUME UpdateInv PROVE Update!ExecutableIsWhole
BY UpdateBounds DEF UpdateInv, Installed, Fine, Update!ExecutableIsWhole

-----------------------------------------------------------------------------
(* ShellSession. *)

\* What ShellSession asks of its constants.
LEMMA SessionBounds == ShellSession!ShellSessionConstants
BY MCToolsConstants

-----------------------------------------------------------------------------
SessionCall ==
  [pc : {"idle", "send", "scan", "read", "replied"}, start : Nat, from : Nat, asleep : BOOLEAN,
   ctx : {"live", "done"}, reply : {"none", "error", "0", "1"}]

\* The ring holds the end of the log.
RingHolds ==
  /\ shellSessionLog \in Seq(ShellSession!Tokens) /\ total = Len(shellSessionLog) /\ head = total % RingBufSize
  /\ buf \in [0..RingBufSize - 1 -> ShellSession!Tokens]
  /\ \A g \in Nat : ShellSession!Base <= g /\ g < total => buf[g % RingBufSize] = shellSessionLog[g + 1]

\* A waiter has passed over nothing that it may still want; before a scan it stands where
\* its command began or short of the end.
CallSound(x) ==
  /\ x.start <= total /\ x.from <= total
  /\ x.asleep => x.pc = "scan"
  /\ x.pc = "send" => x.from = x.start
  /\ x.pc \in {"send", "scan"} =>
       /\ x.start <= x.from /\ (x.from = x.start \/ x.from < total)
       /\ \A i \in ShellSession!Hits(shellSessionLog) : x.start <= i - 1 /\ ShellSession!Base <= i - 1 => x.from <= i - 1 /\ ~x.asleep

Output ==
  /\ pipe \in Seq(ShellSession!Tokens) /\ chunk \in Seq(ShellSession!Tokens) /\ last \in ShellSession!Codes
  /\ shellSessionStatus \in {"open", "exited", "closed"} /\ alive \in BOOLEAN

SessionInv ==
  /\ RingHolds /\ Output
  /\ shellSessionCall \in [Workers -> SessionCall] /\ \A c \in Workers : CallSound(shellSessionCall[c])

-----------------------------------------------------------------------------
\* The oldest offset that the ring holds.
LEMMA BaseFacts ==
  ASSUME total \in Nat
  PROVE  /\ RingBufSize \in Nat \ {0} /\ ShellSession!Base \in Nat /\ ShellSession!Base <= total /\ total - ShellSession!Base <= RingBufSize
         /\ total > 0 => ShellSession!Base < total
         /\ ShellSession!Base = 0 \/ ShellSession!Base = total - RingBufSize
<1>1. RingBufSize \in Nat \ {0}
  BY SessionBounds DEF ShellSession!ShellSessionConstants
<1> QED
  BY <1>1 DEF ShellSession!Base

\* Where a sentinel lies.
LEMMA HitsFacts ==
  ASSUME NEW data \in Seq(ShellSession!Tokens), NEW i \in Nat
  PROVE  i \in ShellSession!Hits(data) <=> 1 <= i /\ i < Len(data) /\ data[i] = "done" /\ data[i + 1] = "mark"
<1>1. ShellSession!Hits(data) \subseteq 1..Len(data) - 1 /\ Len(data) \in Nat
  BY DEF ShellSession!Hits
<1>2. ASSUME i \in 1..Len(data) - 1
      PROVE  SubSeq(data, i, i + 1) = ShellSession!Sentinel <=> data[i] = "done" /\ data[i + 1] = "mark"
  <2> DEFINE part == SubSeq(data, i, i + 1)
  <2>1. \A j \in i..i + 1 : data[j] \in ShellSession!Tokens
    BY <1>1, <1>2
  <2>2. /\ part \in Seq(ShellSession!Tokens) /\ Len(part) = IF i <= i + 1 THEN (i + 1) - i + 1 ELSE 0
        /\ \A j \in 1..(i + 1) - i + 1 : part[j] = data[i + j - 1]
    BY <1>2, <2>1, SubSeqProperties
  <2>3. part \in Seq(ShellSession!Tokens) /\ Len(part) = 2 /\ part[1] = data[i] /\ part[2] = data[i + 1]
    BY <2>2
  <2> HIDE DEF part
  <2>4. part = <<part[1], part[2]>>
    BY <2>3
  <2>5. part = <<"done", "mark">> <=> part[1] = "done" /\ part[2] = "mark"
    BY <2>4
  <2> QED
    BY <2>3, <2>5 DEF ShellSession!Sentinel, part
<1> QED
  BY <1>1, <1>2 DEF ShellSession!Hits

\* What is taken out of the ring is the log from there on.
LEMMA FromRingFacts ==
  ASSUME RingHolds, NEW o \in Nat, ShellSession!Base <= o, NEW n \in Nat, o + n <= total
  PROVE  /\ ShellSession!FromRing(o, n) \in Seq(ShellSession!Tokens) /\ Len(ShellSession!FromRing(o, n)) = n
         /\ \A i \in 1..n : ShellSession!FromRing(o, n)[i] = shellSessionLog[o + i]
         /\ ShellSession!FromRing(o, n) = SubSeq(shellSessionLog, o + 1, o + n)
<1>1. total \in Nat /\ shellSessionLog \in Seq(ShellSession!Tokens) /\ total = Len(shellSessionLog)
  BY DEF RingHolds
<1>2. ASSUME NEW i \in 1..n
      PROVE  buf[(o + i - 1) % RingBufSize] = shellSessionLog[o + i] /\ shellSessionLog[o + i] \in ShellSession!Tokens
  <2>1. o + i - 1 \in Nat /\ ShellSession!Base <= o + i - 1 /\ o + i - 1 < total /\ (o + i - 1) + 1 = o + i
    BY <1>1, BaseFacts
  <2>2. buf[(o + i - 1) % RingBufSize] = shellSessionLog[(o + i - 1) + 1]
    BY <2>1 DEF RingHolds
  <2> QED
    BY <1>1, <2>1, <2>2
<1>3. ShellSession!FromRing(o, n) = [i \in 1..n |-> shellSessionLog[o + i]]
  BY <1>2 DEF ShellSession!FromRing
<1>4. /\ ShellSession!FromRing(o, n) \in Seq(ShellSession!Tokens) /\ Len(ShellSession!FromRing(o, n)) = n
      /\ \A i \in 1..n : ShellSession!FromRing(o, n)[i] = shellSessionLog[o + i]
  <2> DEFINE data == [i \in 1..n |-> shellSessionLog[o + i]]
  <2>1. \A i \in 1..n : shellSessionLog[o + i] \in ShellSession!Tokens
    BY <1>2
  <2>2. data \in Seq(ShellSession!Tokens)
    BY <2>1, IsASeq
  <2>3. data \in [1..n -> ShellSession!Tokens] /\ Len(data) = n
    BY <2>1, <2>2, LenProperties
  <2> QED
    BY <1>3, <2>2, <2>3
<1>5. ShellSession!FromRing(o, n) = SubSeq(shellSessionLog, o + 1, o + n)
  <2> DEFINE part == SubSeq(shellSessionLog, o + 1, o + n)
  <2>1. \A i \in o + 1..o + n : shellSessionLog[i] \in ShellSession!Tokens
    BY <1>1
  <2>2. /\ part \in Seq(ShellSession!Tokens)
        /\ Len(part) = IF o + 1 <= o + n THEN (o + n) - (o + 1) + 1 ELSE 0
        /\ \A i \in 1..(o + n) - (o + 1) + 1 : part[i] = shellSessionLog[(o + 1) + i - 1]
    BY <2>1, SubSeqProperties
  <2>3. Len(part) = n /\ \A i \in 1..n : part[i] = shellSessionLog[o + i]
    BY <2>2
  <2> HIDE DEF part
  <2>4. part = ShellSession!FromRing(o, n)
    BY <1>4, <2>2, <2>3, SeqEqual
  <2> QED
    BY <2>4 DEF part
<1> QED
  BY <1>4, <1>5

\* The bytes that are written go where the log has them.
LEMMA RingWriteStep ==
  ASSUME RingHolds, NEW data \in Seq(ShellSession!Tokens), ShellSession!Write(data)
  PROVE  /\ RingHolds' /\ total' \in Nat /\ total <= total' /\ ShellSession!Base <= ShellSession!Base' /\ Len(shellSessionLog) = total
         /\ \A i \in Nat : i \in ShellSession!Hits(shellSessionLog)' => i \in ShellSession!Hits(shellSessionLog) \/ total <= i
<1> DEFINE R == RingBufSize
           hits(i) == {j \in DOMAIN data : (head + j - 1) % R = i}
<1>1. /\ shellSessionLog \in Seq(ShellSession!Tokens) /\ total = Len(shellSessionLog) /\ total \in Nat /\ head = total % R
      /\ buf \in [0..R - 1 -> ShellSession!Tokens] /\ R \in Nat \ {0}
  BY BaseFacts DEF RingHolds
<1>2. /\ buf' = [i \in 0..R - 1 |-> IF hits(i) = {} THEN buf[i]
                                     ELSE data[CHOOSE j \in hits(i) : \A k \in hits(i) : k <= j]]
      /\ head' = (head + Len(data)) % R /\ total' = total + Len(data) /\ shellSessionLog' = shellSessionLog \o data
  BY <1>1 DEF ShellSession!Write
<1>3. /\ shellSessionLog' \in Seq(ShellSession!Tokens) /\ Len(shellSessionLog') = total' /\ total' \in Nat /\ total <= total'
      /\ \A g \in Nat : g < total => shellSessionLog'[g + 1] = shellSessionLog[g + 1]
      /\ \A g \in Nat : total <= g /\ g < total' =>
           g - total + 1 \in DOMAIN data /\ shellSessionLog'[g + 1] = data[g - total + 1]
  BY <1>1, <1>2
<1>4. \A k \in Nat : (head + k) % R = (total + k) % R
  BY <1>1, ModShift
<1>5. head' = total' % R
  BY <1>2, <1>4
<1>6. \A j \in DOMAIN data : (head + j - 1) % R = (total + j - 1) % R /\ j \in 1..Len(data)
  <2> SUFFICES ASSUME NEW j \in DOMAIN data
               PROVE  (head + j - 1) % R = (total + j - 1) % R /\ j \in 1..Len(data)
    OBVIOUS
  <2>1. j \in 1..Len(data) /\ j - 1 \in Nat
    OBVIOUS
  <2>3. head \in Nat
    <3>1. total % R \in 0..R - 1
      BY <1>1, ModRange
    <3> HIDE DEF R
    <3> QED
      BY <1>1, <3>1
  <2>2. head + j - 1 = head + (j - 1) /\ total + j - 1 = total + (j - 1)
    BY <1>1, <2>1, <2>3
  <2> QED
    BY <1>4, <2>1, <2>2
<1>7. buf' \in [0..R - 1 -> ShellSession!Tokens]
  <2> SUFFICES ASSUME NEW i \in 0..R - 1, hits(i) # {}
               PROVE  data[CHOOSE j \in hits(i) : \A k \in hits(i) : k <= j] \in ShellSession!Tokens
    BY <1>1, <1>2
  <2>1. hits(i) \in SUBSET (1..Len(data)) /\ Len(data) \in Nat
    OBVIOUS
  <2> HIDE DEF hits
  <2>2. \E j \in hits(i) : \A k \in hits(i) : k <= j
    BY <2>1, GreatestOfNats
  <2>3. (CHOOSE j \in hits(i) : \A k \in hits(i) : k <= j) \in 1..Len(data)
    BY <2>1, <2>2
  <2> QED
    BY <2>3
<1>8. ShellSession!Base' = (IF total' > R THEN total' - R ELSE 0) /\ ShellSession!Base <= ShellSession!Base' /\ ShellSession!Base' \in Nat /\ total' - ShellSession!Base' <= R
  <2> DEFINE t1 == total'
  <2>1. t1 \in Nat /\ total \in Nat /\ total <= t1 /\ R \in Nat
    BY <1>1, <1>3
  <2>2. ShellSession!Base' = (IF t1 > R THEN t1 - R ELSE 0) /\ ShellSession!Base = IF total > R THEN total - R ELSE 0
    BY DEF ShellSession!Base
  <2> HIDE DEF t1, R
  <2>3. ShellSession!Base <= ShellSession!Base' /\ ShellSession!Base' \in Nat /\ t1 - ShellSession!Base' <= R
    BY <2>1, <2>2
  <2> QED
    BY <2>2, <2>3 DEF t1
<1>9. ASSUME NEW g \in Nat, ShellSession!Base' <= g, g < total' PROVE buf'[g % R] = shellSessionLog'[g + 1]
  <2>1. g % R \in 0..R - 1
    BY <1>1, ModRange
  <2>2. ASSUME NEW k \in DOMAIN data, g < total + k - 1 PROVE k \notin hits(g % R)
    <3>1. total + k - 1 \in Nat /\ total + k - 1 < total' /\ (total + k - 1) - g < R
      <4> DEFINE len == Len(data)
                 b1 == ShellSession!Base'
      <4>1. k \in 1..len /\ len \in Nat /\ total' = total + len
        BY <1>2, <1>6
      <4>2. b1 \in Nat /\ total' - b1 <= R /\ b1 <= g /\ R \in Nat /\ total \in Nat /\ total' \in Nat
        BY <1>1, <1>3, <1>8, <1>9
      <4> HIDE DEF len, b1, R
      <4> QED
        BY <4>1, <4>2
    <3>2. g % R # (total + k - 1) % R
      BY <1>1, <2>2, <3>1, ModDiffers
    <3> QED
      BY <1>6, <3>2
  <2>3. CASE total <= g
    <3> DEFINE j == g - total + 1
    <3>1. j \in DOMAIN data /\ shellSessionLog'[g + 1] = data[j] /\ total + j - 1 = g
      BY <1>1, <1>3, <1>9, <2>3
    <3>2. j \in hits(g % R)
      BY <1>6, <3>1
    <3>3. \A k \in hits(g % R) : k <= j
      <4> SUFFICES ASSUME NEW k \in hits(g % R), ~(k <= j) PROVE FALSE
        OBVIOUS
      <4>1. k \in DOMAIN data /\ k \in 1..Len(data) /\ j \in 1..Len(data)
        BY <1>6, <3>1
      <4>2. g < total + k - 1
        BY <1>1, <3>1, <4>1
      <4> QED
        BY <2>2, <4>1, <4>2
    <3>4. \A k \in hits(g % R) : k \in Nat
      BY <1>6
    <3> HIDE DEF hits, j
    <3>5. \A k \in hits(g % R) : (\A l \in hits(g % R) : l <= k) => k = j
      <4> SUFFICES ASSUME NEW k \in hits(g % R), \A l \in hits(g % R) : l <= k PROVE k = j
        OBVIOUS
      <4>1. k <= j /\ j <= k /\ k \in Nat /\ j \in Nat
        BY <3>2, <3>3, <3>4
      <4> QED
        BY <4>1
    <3>6. (CHOOSE k \in hits(g % R) : \A l \in hits(g % R) : l <= k) = j
      BY <3>2, <3>3, <3>5
    <3>7. buf'[g % R] = data[j]
      <4>1. hits(g % R) # {}
        BY <3>2
      <4> QED
        BY <1>2, <2>1, <3>6, <4>1
    <3> QED
      BY <3>1, <3>7
  <2>4. CASE ~(total <= g)
    <3>1. g < total /\ ShellSession!Base <= g
      BY <1>1, <1>8, <1>9, <2>4, BaseFacts
    <3>2. hits(g % R) = {}
      <4> SUFFICES ASSUME NEW k \in hits(g % R) PROVE FALSE
        OBVIOUS
      <4>1. k \in DOMAIN data /\ k \in 1..Len(data)
        BY <1>6
      <4>2. g < total + k - 1
        BY <1>1, <3>1, <4>1
      <4> QED
        BY <2>2, <4>1, <4>2
    <3>3. buf'[g % R] = buf[g % R]
      <4> HIDE DEF hits
      <4> QED
        BY <1>2, <2>1, <3>2
    <3>4. buf[g % R] = shellSessionLog[g + 1]
      BY <3>1 DEF RingHolds
    <3> QED
      BY <1>3, <3>1, <3>3, <3>4
  <2> QED
    BY <2>3, <2>4
<1>10. RingHolds'
  BY <1>3, <1>5, <1>7, <1>9 DEF RingHolds
<1>11. ASSUME NEW i \in Nat, i \in ShellSession!Hits(shellSessionLog'), ~(total <= i) PROVE i \in ShellSession!Hits(shellSessionLog)
  <2>1. 1 <= i /\ i < Len(shellSessionLog') /\ shellSessionLog'[i] = "done" /\ shellSessionLog'[i + 1] = "mark"
    BY <1>3, <1>11, HitsFacts
  <2>2. i - 1 \in Nat /\ i - 1 < total /\ i < total /\ (i - 1) + 1 = i
    BY <1>1, <1>11, <2>1
  <2>3. shellSessionLog[i] = "done" /\ shellSessionLog[i + 1] = "mark"
    BY <1>3, <2>1, <2>2
  <2> QED
    BY <1>1, <2>1, <2>2, <2>3, HitsFacts
<1> QED
  BY <1>1, <1>3, <1>8, <1>10, <1>11

-----------------------------------------------------------------------------
\* A caller that waits for nothing.
LEMMA IdleFacts ==
  /\ ShellSession!Idle \in SessionCall /\ ShellSession!Idle.pc = "idle" /\ ShellSession!Idle.start = 0 /\ ShellSession!Idle.from = 0 /\ ~ShellSession!Idle.asleep
BY DEF ShellSession!Idle, SessionCall

\* Nothing has been written.
LEMMA InitSession == ASSUME ShellSession!Init PROVE SessionInv
<1>1. /\ shellSessionLog = <<>> /\ total = 0 /\ head = 0 /\ buf = [i \in 0..RingBufSize - 1 |-> "out"]
      /\ pipe = <<>> /\ chunk = <<>> /\ last = "0" /\ shellSessionStatus = "open" /\ alive = TRUE
      /\ shellSessionCall = [c \in Workers |-> ShellSession!Idle]
  BY DEF ShellSession!Init
<1>2. RingBufSize \in Nat \ {0} /\ 0 % RingBufSize = 0
  BY SessionBounds DEF ShellSession!ShellSessionConstants
<1>3. RingHolds
  BY <1>1, <1>2 DEF RingHolds, ShellSession!Tokens
<1>4. Output
  BY <1>1 DEF Output, ShellSession!Codes
<1>5. \A c \in Workers : CallSound(shellSessionCall[c])
  <2> SUFFICES ASSUME NEW c \in Workers PROVE CallSound(ShellSession!Idle)
    BY <1>1
  <2> QED
    BY <1>1, IdleFacts DEF CallSound
<1> QED
  BY <1>1, <1>3, <1>4, <1>5, IdleFacts DEF SessionInv

\* The ring is left alone, and the callers as well.
LEMMA SessionQuietStep ==
  ASSUME SessionInv, UNCHANGED <<buf, head, total, shellSessionLog, shellSessionCall>>, Output' PROVE SessionInv'
BY DEF SessionInv, RingHolds, ShellSession!Base, CallSound

\* The sleepers are woken, at most; the ring is left alone.
LEMMA AwakeFacts ==
  ASSUME SessionInv, shellSessionCall' = ShellSession!Awake(shellSessionCall)
  PROVE  /\ shellSessionCall' \in [Workers -> SessionCall]
         /\ \A c \in Workers : /\ shellSessionCall'[c].pc = shellSessionCall[c].pc /\ shellSessionCall'[c].start = shellSessionCall[c].start
                               /\ shellSessionCall'[c].from = shellSessionCall[c].from /\ ~shellSessionCall'[c].asleep
<1> SUFFICES ASSUME NEW c \in Workers
             PROVE  LET x == [shellSessionCall[c] EXCEPT !.asleep = FALSE] IN
                      /\ x \in SessionCall /\ x.pc = shellSessionCall[c].pc /\ x.start = shellSessionCall[c].start
                      /\ x.from = shellSessionCall[c].from /\ ~x.asleep
  BY DEF ShellSession!Awake
<1>1. shellSessionCall[c] \in SessionCall
  BY DEF SessionInv
<1> QED
  BY <1>1 DEF SessionCall

\* Waking every waiter keeps the invariant.
LEMMA WakeStep ==
  ASSUME SessionInv, UNCHANGED <<buf, head, total, shellSessionLog>>, Output', shellSessionCall' = ShellSession!Awake(shellSessionCall) PROVE SessionInv'
<1>1. /\ shellSessionCall' \in [Workers -> SessionCall]
      /\ \A c \in Workers : /\ shellSessionCall'[c].pc = shellSessionCall[c].pc /\ shellSessionCall'[c].start = shellSessionCall[c].start
                            /\ shellSessionCall'[c].from = shellSessionCall[c].from /\ ~shellSessionCall'[c].asleep
  BY AwakeFacts
<1>2. ASSUME NEW c \in Workers PROVE CallSound(shellSessionCall[c])'
  <2>1. CallSound(shellSessionCall[c])
    BY DEF SessionInv
  <2> QED
    BY <1>1, <2>1 DEF CallSound, ShellSession!Base
<1> QED
  BY <1>1, <1>2 DEF SessionInv, RingHolds, ShellSession!Base

\* The reader stores what it has read and wakes the waiters.
LEMMA StoreStep == ASSUME SessionInv, ShellSession!StoreChunk PROVE SessionInv'
<1>1. /\ ShellSession!Write(chunk) /\ chunk' = <<>> /\ shellSessionCall' = ShellSession!Awake(shellSessionCall) /\ UNCHANGED <<shellSessionStatus, last, alive, pipe>>
  BY DEF ShellSession!StoreChunk, ShellSession!process
<1>2. chunk \in Seq(ShellSession!Tokens) /\ RingHolds
  BY DEF SessionInv, Output
<1>3. /\ RingHolds' /\ total' \in Nat /\ total <= total' /\ ShellSession!Base <= ShellSession!Base' /\ Len(shellSessionLog) = total
      /\ \A i \in Nat : i \in ShellSession!Hits(shellSessionLog)' => i \in ShellSession!Hits(shellSessionLog) \/ total <= i
  BY <1>1, <1>2, RingWriteStep
<1>4. /\ shellSessionCall' \in [Workers -> SessionCall]
      /\ \A c \in Workers : /\ shellSessionCall'[c].pc = shellSessionCall[c].pc /\ shellSessionCall'[c].start = shellSessionCall[c].start
                            /\ shellSessionCall'[c].from = shellSessionCall[c].from /\ ~shellSessionCall'[c].asleep
  BY <1>1, AwakeFacts
<1>5. Output'
  BY <1>1 DEF SessionInv, Output
<1>6. total \in Nat /\ ShellSession!Base \in Nat /\ ShellSession!Base' \in Nat /\ \A i \in ShellSession!Hits(shellSessionLog)' : i \in Nat
  <2>1. ShellSession!Hits(shellSessionLog)' \subseteq Nat
    BY <1>3 DEF RingHolds, ShellSession!Hits
  <2>2. total \in Nat
    BY <1>2, <1>3 DEF RingHolds
  <2>3. RingBufSize \in Nat
    BY SessionBounds DEF ShellSession!ShellSessionConstants
  <2>4. ShellSession!Base \in Nat
    BY <2>2, <2>3 DEF ShellSession!Base
  <2>5. ShellSession!Base' = IF total' > RingBufSize THEN total' - RingBufSize ELSE 0
    BY DEF ShellSession!Base
  <2>6. ShellSession!Base' \in Nat
    <3> DEFINE t1 == total'
    <3>1. t1 \in Nat
      BY <1>3
    <3>2. ShellSession!Base' = IF t1 > RingBufSize THEN t1 - RingBufSize ELSE 0
      BY <2>5
    <3> HIDE DEF t1
    <3> QED
      BY <2>3, <3>1, <3>2
  <2> QED
    BY <2>1, <2>2, <2>4, <2>6
<1>7. ASSUME NEW c \in Workers PROVE CallSound(shellSessionCall[c])'
  <2> DEFINE x == shellSessionCall[c]
  <2>1. CallSound(x) /\ x \in SessionCall
    BY DEF SessionInv
  <2>2. x.start \in Nat /\ x.from \in Nat /\ x.start <= total /\ x.from <= total
    BY <2>1 DEF CallSound, SessionCall
  <2>3. ASSUME NEW i \in ShellSession!Hits(shellSessionLog)', x.pc \in {"send", "scan"}, x.start <= i - 1, ShellSession!Base' <= i - 1
        PROVE  x.from <= i - 1
    <3>1. i \in Nat /\ ShellSession!Base <= i - 1
      BY <1>3, <1>6, <2>3
    <3>2. CASE i \in ShellSession!Hits(shellSessionLog)
      BY <2>1, <2>3, <3>1, <3>2 DEF CallSound
    <3>3. CASE total <= i
      <4>1. x.from = x.start \/ x.from < total
        BY <2>1, <2>3 DEF CallSound
      <4> QED
        BY <1>6, <2>2, <2>3, <3>1, <3>3, <4>1
    <3> QED
      BY <1>3, <3>1, <3>2, <3>3
  <2>4. x.pc \in {"send", "scan"} => x.start <= x.from /\ (x.from = x.start \/ x.from < total')
    BY <1>3, <1>6, <2>1, <2>2 DEF CallSound
  <2>5. x.start <= total' /\ x.from <= total' /\ (x.pc = "send" => x.from = x.start)
    BY <1>3, <1>6, <2>1, <2>2 DEF CallSound
  <2> QED
    BY <1>4, <2>3, <2>4, <2>5 DEF CallSound
<1> QED
  BY <1>3, <1>4, <1>5, <1>7 DEF SessionInv

\* One caller goes on; the ring is left alone.
LEMMA OneStep ==
  ASSUME SessionInv, NEW c \in Workers, UNCHANGED <<buf, head, total, shellSessionLog>>, Output',
         shellSessionCall' \in [Workers -> SessionCall], \A d \in Workers \ {c} : shellSessionCall'[d] = shellSessionCall[d],
         CallSound(shellSessionCall[c])'
  PROVE  SessionInv'
<1>1. ASSUME NEW d \in Workers PROVE CallSound(shellSessionCall[d])'
  <2>1. CASE d = c
    BY <2>1
  <2>2. CASE d # c
    <3>1. CallSound(shellSessionCall[d]) /\ shellSessionCall'[d] = shellSessionCall[d]
      BY <2>2 DEF SessionInv
    <3> QED
      BY <3>1 DEF CallSound, ShellSession!Base
  <2> QED
    BY <2>1, <2>2
<1> QED
  BY <1>1 DEF SessionInv, RingHolds, ShellSession!Base

\* A caller that has its answer, or an error, waits for nothing.
LEMMA RepliesStep ==
  ASSUME SessionInv, NEW c \in Workers, NEW what \in {"error", "0", "1"}, ShellSession!Replies(c, what),
         ~shellSessionCall[c].asleep, UNCHANGED <<buf, head, total, shellSessionLog>>, Output'
  PROVE  SessionInv'
<1>1. shellSessionCall[c] \in SessionCall /\ CallSound(shellSessionCall[c])
  BY DEF SessionInv
<1>2. /\ shellSessionCall' \in [Workers -> SessionCall] /\ \A d \in Workers \ {c} : shellSessionCall'[d] = shellSessionCall[d]
      /\ shellSessionCall'[c].pc = "replied" /\ shellSessionCall'[c].start = shellSessionCall[c].start /\ shellSessionCall'[c].from = shellSessionCall[c].from
      /\ shellSessionCall'[c].asleep = shellSessionCall[c].asleep
  BY <1>1 DEF ShellSession!Replies, SessionInv, SessionCall
<1>3. CallSound(shellSessionCall[c])'
  BY <1>1, <1>2 DEF CallSound
<1> QED
  BY <1>2, <1>3, OneStep

\* A call of Exec notes where the output ends.
LEMMA StartsStep == ASSUME SessionInv, NEW c \in Workers, ShellSession!ExecStarts(c) PROVE SessionInv'
<1>1. /\ shellSessionCall[c].pc = "idle" /\ UNCHANGED <<shellSessionStatus, buf, head, total, shellSessionLog, last, alive, pipe, chunk>>
  BY DEF ShellSession!ExecStarts, ShellSession!ring
<1>2. Output' /\ shellSessionCall[c] \in SessionCall /\ ~shellSessionCall[c].asleep /\ total \in Nat
  BY <1>1 DEF SessionInv, Output, CallSound, RingHolds
<1>3. CASE shellSessionStatus = "open"
  <2> DEFINE x == [ShellSession!Idle EXCEPT !.pc = "send", !.start = total, !.from = total]
  <2>1. shellSessionCall' = [shellSessionCall EXCEPT ![c] = x]
    BY <1>3 DEF ShellSession!ExecStarts
  <2>2. x \in SessionCall /\ x.pc = "send" /\ x.start = total /\ x.from = total /\ ~x.asleep
    BY <1>2, IdleFacts DEF SessionCall
  <2> HIDE DEF x
  <2>3. shellSessionCall' \in [Workers -> SessionCall] /\ shellSessionCall'[c] = x /\ \A d \in Workers \ {c} : shellSessionCall'[d] = shellSessionCall[d]
    BY <2>1, <2>2 DEF SessionInv
  <2>4. CallSound(shellSessionCall[c])'
    BY <1>1, <1>2, <2>2, <2>3 DEF CallSound
  <2> QED
    BY <1>1, <1>2, <2>3, <2>4, OneStep
<1>4. CASE shellSessionStatus # "open"
  BY <1>1, <1>2, <1>4, RepliesStep DEF ShellSession!ExecStarts
<1> QED
  BY <1>3, <1>4

\* A command is sent, and its caller goes on to scan.
LEMMA SendsStep == ASSUME SessionInv, NEW c \in Workers, ShellSession!ExecSends(c) PROVE SessionInv'
<1>1. /\ shellSessionCall[c].pc = "send" /\ UNCHANGED <<shellSessionStatus, buf, head, total, shellSessionLog, last, alive, pipe, chunk>>
  BY DEF ShellSession!ExecSends, ShellSession!ring
<1>2. Output' /\ shellSessionCall[c] \in SessionCall /\ CallSound(shellSessionCall[c]) /\ ~shellSessionCall[c].asleep
  BY <1>1 DEF SessionInv, Output, CallSound
<1>3. CASE shellSessionStatus = "closed" \/ ~alive
  BY <1>1, <1>2, <1>3, RepliesStep DEF ShellSession!ExecSends
<1>4. CASE ~(shellSessionStatus = "closed" \/ ~alive)
  <2>1. shellSessionCall' = [shellSessionCall EXCEPT ![c].pc = "scan"]
    BY <1>4 DEF ShellSession!ExecSends, ShellSession!Goes
  <2>2. /\ shellSessionCall' \in [Workers -> SessionCall] /\ \A d \in Workers \ {c} : shellSessionCall'[d] = shellSessionCall[d]
        /\ shellSessionCall'[c].pc = "scan" /\ shellSessionCall'[c].start = shellSessionCall[c].start /\ shellSessionCall'[c].from = shellSessionCall[c].from
        /\ shellSessionCall'[c].asleep = shellSessionCall[c].asleep
    BY <1>2, <2>1 DEF SessionInv, SessionCall
  <2>3. CallSound(shellSessionCall[c])'
    BY <1>1, <1>2, <2>2 DEF CallSound, ShellSession!Base
  <2> QED
    BY <1>1, <1>2, <2>2, <2>3, OneStep
<1> QED
  BY <1>3, <1>4

\* A context ends, or a call returns.
LEMMA ContextStep ==
  ASSUME SessionInv, NEW c \in Workers, ShellSession!ContextEnds(c) \/ ShellSession!Return(c) PROVE SessionInv'
<1>1. UNCHANGED <<shellSessionStatus, buf, head, total, shellSessionLog, last, alive, pipe, chunk>>
  BY DEF ShellSession!ContextEnds, ShellSession!Return, ShellSession!ring, ShellSession!process
<1>2. Output' /\ shellSessionCall[c] \in SessionCall /\ CallSound(shellSessionCall[c]) /\ total \in Nat
  BY <1>1 DEF SessionInv, Output, RingHolds
<1>3. CASE ShellSession!ContextEnds(c)
  <2>1. shellSessionCall' = [shellSessionCall EXCEPT ![c].ctx = "done"]
    BY <1>3 DEF ShellSession!ContextEnds
  <2>2. /\ shellSessionCall' \in [Workers -> SessionCall] /\ \A d \in Workers \ {c} : shellSessionCall'[d] = shellSessionCall[d]
        /\ shellSessionCall'[c].pc = shellSessionCall[c].pc /\ shellSessionCall'[c].start = shellSessionCall[c].start /\ shellSessionCall'[c].from = shellSessionCall[c].from
        /\ shellSessionCall'[c].asleep = shellSessionCall[c].asleep
    BY <1>2, <2>1 DEF SessionInv, SessionCall
  <2>3. CallSound(shellSessionCall[c])'
    BY <1>1, <1>2, <2>2 DEF CallSound, ShellSession!Base
  <2> QED
    BY <1>1, <1>2, <2>2, <2>3, OneStep
<1>4. CASE ShellSession!Return(c)
  <2>1. /\ shellSessionCall' \in [Workers -> SessionCall] /\ \A d \in Workers \ {c} : shellSessionCall'[d] = shellSessionCall[d]
        /\ shellSessionCall'[c] = ShellSession!Idle
    BY <1>4, IdleFacts DEF ShellSession!Return, SessionInv
  <2>2. CallSound(shellSessionCall[c])'
    BY <1>1, <1>2, <2>1, IdleFacts DEF CallSound
  <2> QED
    BY <1>1, <1>2, <2>1, <2>2, OneStep
<1> QED
  BY <1>3, <1>4

\* The loop of WaitForPattern, and the answer.
LEMMA ScanStep == ASSUME SessionInv, NEW c \in Workers, ShellSession!Scan(c) PROVE SessionInv'
<1> DEFINE x == shellSessionCall[c]
           first == IF x.from < ShellSession!Base THEN ShellSession!Base ELSE x.from
           data == ShellSession!FromRing(first, total - first)
           k == CHOOSE i \in ShellSession!Hits(data) : \A j \in ShellSession!Hits(data) : i <= j
<1>1. /\ x.pc = "scan" /\ ~x.asleep /\ UNCHANGED <<shellSessionStatus, buf, head, total, shellSessionLog, last, alive, pipe, chunk>>
      /\ IF x.ctx = "done" THEN ShellSession!Replies(c, "error")
         ELSE IF ShellSession!Hits(data) # {}
           THEN shellSessionCall' = [shellSessionCall EXCEPT ![c].pc = "read", ![c].from = first + k - 1 + Len(ShellSession!Sentinel)]
         ELSE IF shellSessionStatus # "open" THEN ShellSession!Replies(c, "error")
         ELSE shellSessionCall' = [shellSessionCall EXCEPT ![c].asleep = TRUE, ![c].from = ShellSession!Rescanned(first)]
  BY DEF ShellSession!Scan, ShellSession!ring, ShellSession!process
<1>2. Output' /\ x \in SessionCall /\ CallSound(x) /\ RingHolds
  BY <1>1 DEF SessionInv, Output
<1>3. /\ total \in Nat /\ ShellSession!Base \in Nat /\ ShellSession!Base <= total /\ (total > 0 => ShellSession!Base < total)
      /\ x.from \in Nat /\ x.start \in Nat /\ x.start <= total /\ x.from <= total
      /\ x.start <= x.from /\ (x.from = x.start \/ x.from < total)
  BY <1>1, <1>2, BaseFacts DEF RingHolds, SessionCall, CallSound
<1>4. /\ first \in Nat /\ ShellSession!Base <= first /\ x.from <= first /\ first <= total
      /\ first = x.from \/ first < total
  BY <1>3
<1> HIDE DEF first
<1>5. /\ data \in Seq(ShellSession!Tokens) /\ Len(data) = total - first
      /\ \A i \in 1..total - first : data[i] = shellSessionLog[first + i]
  <2>1. total - first \in Nat /\ first + (total - first) <= total
    BY <1>3, <1>4
  <2> QED
    BY <1>2, <1>4, <2>1, FromRingFacts
<1> HIDE DEF data
<1>6. CASE x.ctx = "done" \/ (ShellSession!Hits(data) = {} /\ shellSessionStatus # "open")
  <2>1. ShellSession!Replies(c, "error")
    BY <1>1, <1>6
  <2> QED
    BY <1>1, <1>2, <2>1, RepliesStep
<1>7. CASE x.ctx # "done" /\ ShellSession!Hits(data) # {}
  <2>1. ShellSession!Hits(data) \in SUBSET (1..Len(data) - 1) /\ Len(data) \in Nat
    BY <1>5 DEF ShellSession!Hits
  <2>2. k \in ShellSession!Hits(data)
    <3>1. ShellSession!Hits(data) \in SUBSET Nat
      BY <2>1
    <3>2. \E i \in ShellSession!Hits(data) : \A j \in ShellSession!Hits(data) : i <= j
      BY <1>7, <3>1, LeastOfNats
    <3> QED
      BY <3>2
  <2>3. shellSessionCall' = [shellSessionCall EXCEPT ![c].pc = "read", ![c].from = first + k - 1 + Len(ShellSession!Sentinel)]
    BY <1>1, <1>7
  <2>4. Len(ShellSession!Sentinel) = 2
    BY DEF ShellSession!Sentinel
  <2> HIDE DEF k
  <2>5. first + k - 1 + Len(ShellSession!Sentinel) \in Nat /\ first + k - 1 + Len(ShellSession!Sentinel) <= total
    BY <1>3, <1>4, <1>5, <2>1, <2>2, <2>4
  <2>6. /\ shellSessionCall' \in [Workers -> SessionCall] /\ \A d \in Workers \ {c} : shellSessionCall'[d] = shellSessionCall[d]
        /\ shellSessionCall'[c].pc = "read" /\ shellSessionCall'[c].start = x.start
        /\ shellSessionCall'[c].from = first + k - 1 + Len(ShellSession!Sentinel) /\ shellSessionCall'[c].asleep = x.asleep
    BY <1>2, <2>3, <2>5 DEF SessionInv, SessionCall
  <2>7. CallSound(shellSessionCall[c])'
    BY <1>1, <1>3, <2>5, <2>6 DEF CallSound
  <2> QED
    BY <1>1, <1>2, <2>6, <2>7, OneStep
<1>8. CASE x.ctx # "done" /\ ShellSession!Hits(data) = {} /\ shellSessionStatus = "open"
  <2>1. shellSessionCall' = [shellSessionCall EXCEPT ![c].asleep = TRUE, ![c].from = ShellSession!Rescanned(first)]
    BY <1>1, <1>8
  <2>2. Len(ShellSession!Sentinel) = 2
    BY DEF ShellSession!Sentinel
  <2>3. ShellSession!Rescanned(first) = IF total - first > 1 THEN total - 1 ELSE first
    BY <2>2 DEF ShellSession!Rescanned
  <2> DEFINE next == ShellSession!Rescanned(first)
  <2>4. /\ next \in Nat /\ next <= total /\ x.start <= next /\ (next = x.start \/ next < total)
    BY <1>3, <1>4, <2>3
  <2> HIDE DEF next
  <2>5. /\ shellSessionCall' \in [Workers -> SessionCall] /\ \A d \in Workers \ {c} : shellSessionCall'[d] = shellSessionCall[d]
        /\ shellSessionCall'[c].pc = "scan" /\ shellSessionCall'[c].start = x.start
        /\ shellSessionCall'[c].from = next /\ shellSessionCall'[c].asleep = TRUE
    BY <1>1, <1>2, <2>1, <2>4 DEF SessionInv, SessionCall, next
  <2>6. ASSUME NEW i \in ShellSession!Hits(shellSessionLog), x.start <= i - 1, ShellSession!Base <= i - 1 PROVE FALSE
    <3>1. shellSessionLog \in Seq(ShellSession!Tokens) /\ Len(shellSessionLog) = total /\ i \in Nat
      BY <1>2 DEF RingHolds, ShellSession!Hits
    <3>2. 1 <= i /\ i < total /\ shellSessionLog[i] = "done" /\ shellSessionLog[i + 1] = "mark"
      BY <2>6, <3>1, HitsFacts
    <3>3. x.from <= i - 1
      BY <1>1, <1>2, <2>6 DEF CallSound
    <3>4. first <= i - 1
      BY <1>3, <2>6, <3>3 DEF first
    <3>5. /\ i - first \in Nat /\ 1 <= i - first /\ i - first < Len(data)
          /\ i - first \in 1..total - first /\ (i - first) + 1 \in 1..total - first
          /\ first + (i - first) = i /\ first + ((i - first) + 1) = i + 1
      BY <1>3, <1>4, <1>5, <3>1, <3>2, <3>4
    <3>6. data[i - first] = "done" /\ data[(i - first) + 1] = "mark"
      BY <1>5, <3>2, <3>5
    <3>7. i - first \in ShellSession!Hits(data)
      BY <1>5, <3>5, <3>6, HitsFacts
    <3> QED
      BY <1>8, <3>7
  <2>7. CallSound(shellSessionCall[c])'
    BY <1>1, <1>3, <2>4, <2>5, <2>6 DEF CallSound, ShellSession!Base
  <2> QED
    BY <1>1, <1>2, <2>5, <2>7, OneStep
<1> QED
  BY <1>6, <1>7, <1>8

\* A caller reads its output.
LEMMA ReadsStep == ASSUME SessionInv, NEW c \in Workers, ShellSession!ExecReads(c) PROVE SessionInv'
<1>1. /\ shellSessionCall[c].pc = "read" /\ UNCHANGED <<shellSessionStatus, buf, head, total, shellSessionLog, last, alive, pipe, chunk>>
      /\ \E what \in {"0", "1"} : ShellSession!Replies(c, what)
  BY DEF ShellSession!ExecReads, ShellSession!ring, ShellSession!process
<1>2. Output' /\ ~shellSessionCall[c].asleep
  BY <1>1 DEF SessionInv, Output, CallSound
<1> QED
  BY <1>1, <1>2, RepliesStep

\* bash and the reader keep tokens; the goroutines and close wake the waiters.
LEMMA ProcessStep ==
  ASSUME SessionInv, ShellSession!Bash \/ ShellSession!ReadChunk \/ ShellSession!Exited \/ ShellSession!Close \/ (\E c \in Workers : ShellSession!ExecAsync(c) \/ ShellSession!WakeOnContext(c))
  PROVE  SessionInv'
<1>1. UNCHANGED <<buf, head, total, shellSessionLog>>
  BY DEF ShellSession!Bash, ShellSession!RunCommand, ShellSession!RunEcho, ShellSession!BashDies, ShellSession!ReadChunk, ShellSession!Exited, ShellSession!Close, ShellSession!ExecAsync, ShellSession!WakeOnContext, ShellSession!ring
<1>2. Output'
  <2>1. Output
    BY DEF SessionInv
  <2>2. CASE \E code \in ShellSession!Codes : ShellSession!RunCommand(<<"out">>, code)
    <3>1. <<"out">> \in Seq(ShellSession!Tokens)
      BY DEF ShellSession!Tokens
    <3> QED
      BY <2>1, <2>2, <3>1 DEF ShellSession!RunCommand, Output
  <2>3. CASE ShellSession!RunEcho
    <3>1. ShellSession!Sentinel \in Seq(ShellSession!Tokens) /\ <<last>> \in Seq(ShellSession!Tokens)
      BY <2>1 DEF ShellSession!Sentinel, ShellSession!Tokens, Output, ShellSession!Codes
    <3> QED
      BY <2>1, <2>3, <3>1 DEF ShellSession!RunEcho, Output, ShellSession!Codes
  <2>4. CASE ShellSession!BashDies
    BY <2>1, <2>4 DEF ShellSession!BashDies, Output
  <2>5. CASE ShellSession!ReadChunk
    <3> DEFINE n == IF Len(pipe) < ChunkSize THEN Len(pipe) ELSE ChunkSize
    <3>1. /\ chunk' = SubSeq(pipe, 1, n) /\ pipe' = SubSeq(pipe, n + 1, Len(pipe))
          /\ UNCHANGED <<shellSessionStatus, last, alive>>
      BY <2>5 DEF ShellSession!ReadChunk
    <3>2. pipe \in Seq(ShellSession!Tokens) /\ n \in 0..Len(pipe) /\ Len(pipe) \in Nat
      BY <2>1, SessionBounds DEF Output, ShellSession!ShellSessionConstants
    <3> HIDE DEF n
    <3>3. \A i \in 1..Len(pipe) : pipe[i] \in ShellSession!Tokens
      BY <3>2
    <3>4. SubSeq(pipe, 1, n) \in Seq(ShellSession!Tokens)
      <4>1. \A i \in 1..n : pipe[i] \in ShellSession!Tokens
        BY <3>2, <3>3
      <4> QED
        BY <3>2, <4>1, SubSeqProperties
    <3>5. SubSeq(pipe, n + 1, Len(pipe)) \in Seq(ShellSession!Tokens)
      <4>1. \A i \in n + 1..Len(pipe) : pipe[i] \in ShellSession!Tokens
        BY <3>2, <3>3
      <4> QED
        BY <3>2, <4>1, SubSeqProperties
    <3> QED
      BY <2>1, <3>1, <3>4, <3>5 DEF Output
  <2>6. CASE ShellSession!Exited \/ ShellSession!Close \/ (\E c \in Workers : ShellSession!ExecAsync(c) \/ ShellSession!WakeOnContext(c))
    BY <2>1, <2>6 DEF ShellSession!Exited, ShellSession!Close, ShellSession!ExecAsync, ShellSession!WakeOnContext, Output, ShellSession!process
  <2> QED
    BY <2>2, <2>3, <2>4, <2>5, <2>6 DEF ShellSession!Bash
<1>3. shellSessionCall' = shellSessionCall \/ shellSessionCall' = ShellSession!Awake(shellSessionCall)
  BY DEF ShellSession!Bash, ShellSession!RunCommand, ShellSession!RunEcho, ShellSession!BashDies, ShellSession!ReadChunk, ShellSession!Exited, ShellSession!Close, ShellSession!ExecAsync, ShellSession!WakeOnContext
<1> QED
  BY <1>1, <1>2, <1>3, SessionQuietStep, WakeStep

\* Every step keeps the invariant of the shell's session.
LEMMA SessionStep == ASSUME SessionInv, [ShellSession!Next]_ShellSession!vars PROVE SessionInv'
<1>1. CASE UNCHANGED ShellSession!vars
  BY <1>1, SessionQuietStep DEF ShellSession!vars, ShellSession!ring, ShellSession!process, SessionInv, Output
<1>2. CASE ShellSession!Next
  BY <1>2, ProcessStep, StoreStep, StartsStep, SendsStep, ContextStep, ScanStep, ReadsStep
     DEF ShellSession!Next, ShellSession!Goroutines, ShellSession!Caller
<1> QED
  BY <1>1, <1>2

\* What the ring and the waiters show is true.
LEMMA SessionTold == ASSUME SessionInv PROVE ShellSession!ReadsWhatWasWritten /\ ShellSession!SleeperMissesNothing /\ ShellSession!TypeOK
<1>1. /\ RingHolds /\ total \in Nat /\ total = Len(shellSessionLog) /\ shellSessionLog \in Seq(ShellSession!Tokens) /\ RingBufSize \in Nat \ {0}
      /\ ShellSession!Base \in Nat /\ ShellSession!Base <= total /\ (total > 0 => ShellSession!Base < total)
  BY BaseFacts DEF SessionInv, RingHolds
<1>2. ShellSession!ReadsWhatWasWritten
  <2> SUFFICES ASSUME NEW o \in 0..total, NEW max \in 1..RingBufSize
               PROVE  LET r == ShellSession!ReadFrom(o, max) IN
                        /\ r.data = SubSeq(shellSessionLog, r.next - Len(r.data) + 1, r.next)
                        /\ r.next - Len(r.data) = IF o < ShellSession!Base THEN ShellSession!Base ELSE o
                        /\ o < total => r.data # <<>>
    BY DEF ShellSession!ReadsWhatWasWritten
  <2> DEFINE first == IF o < ShellSession!Base THEN ShellSession!Base ELSE o
             n == IF total - first < max THEN total - first ELSE max
  <2>1. first \in Nat /\ ShellSession!Base <= first /\ first <= total /\ (o < total => first < total)
    BY <1>1
  <2>2. ShellSession!ReadFrom(o, max) = IF first >= total THEN [data |-> <<>>, next |-> total]
                                        ELSE [data |-> ShellSession!FromRing(first, n), next |-> first + n]
    BY DEF ShellSession!ReadFrom
  <2>3. CASE first >= total
    <3>1. ShellSession!ReadFrom(o, max).data = <<>> /\ ShellSession!ReadFrom(o, max).next = total
      BY <2>2, <2>3
    <3>2. first = total /\ Len(<<>>) = 0 /\ total - 0 = total
      BY <1>1, <2>1, <2>3
    <3>3. SubSeq(shellSessionLog, total + 1, total) = <<>>
      BY <1>1, SubSeqEmpty
    <3> QED
      BY <2>1, <2>3, <3>1, <3>2, <3>3
  <2>4. CASE ~(first >= total)
    <3>1. ShellSession!ReadFrom(o, max).data = ShellSession!FromRing(first, n) /\ ShellSession!ReadFrom(o, max).next = first + n
      BY <2>2, <2>4
    <3>5. max \in Nat /\ 0 < max
      BY <1>1
    <3> HIDE DEF first
    <3>2. n \in Nat /\ 0 < n /\ first + n <= total
      BY <1>1, <2>1, <2>4, <3>5
    <3> HIDE DEF n
    <3>3. Len(ShellSession!FromRing(first, n)) = n /\ ShellSession!FromRing(first, n) = SubSeq(shellSessionLog, first + 1, first + n)
      BY <1>1, <2>1, <3>2, FromRingFacts
    <3>4. first + n - n = first /\ ShellSession!FromRing(first, n) # <<>>
      <4>1. first + n - n = first
        BY <2>1, <3>2
      <4>2. Len(<<>>) = 0
        OBVIOUS
      <4>3. n # 0
        BY <3>2
      <4>4. ShellSession!FromRing(first, n) # <<>>
        BY <3>3, <4>2, <4>3
      <4> QED
        BY <4>1, <4>4
    <3>6. first = IF o < ShellSession!Base THEN ShellSession!Base ELSE o
      BY DEF first
    <3> DEFINE r == ShellSession!ReadFrom(o, max)
    <3>7. /\ r.data = ShellSession!FromRing(first, n) /\ r.next = first + n
          /\ r.next - Len(r.data) = first
      <4>1. r.data = ShellSession!FromRing(first, n) /\ r.next = first + n
        BY <3>1
      <4> HIDE DEF r
      <4>2. Len(r.data) = n
        BY <3>3, <4>1
      <4>3. r.next - Len(r.data) = first
        BY <2>1, <3>2, <4>1, <4>2
      <4> QED
        BY <4>1, <4>3
    <3>8. r.data = SubSeq(shellSessionLog, r.next - Len(r.data) + 1, r.next)
      BY <3>3, <3>7
    <3> HIDE DEF r
    <3>9. r.next - Len(r.data) = IF o < ShellSession!Base THEN ShellSession!Base ELSE o
      BY <3>6, <3>7
    <3>10. r.data # <<>>
      BY <3>4, <3>7
    <3> QED
      BY <3>8, <3>9, <3>10 DEF r
  <2> QED
    BY <2>3, <2>4
<1>3. ShellSession!SleeperMissesNothing
  <2> SUFFICES ASSUME NEW c \in Workers, shellSessionCall[c].pc = "scan", shellSessionCall[c].asleep, NEW i \in ShellSession!Hits(shellSessionLog)
               PROVE  i - 1 < shellSessionCall[c].start \/ i - 1 < ShellSession!Base
    BY DEF ShellSession!SleeperMissesNothing
  <2>1. ~(shellSessionCall[c].start <= i - 1 /\ ShellSession!Base <= i - 1)
    BY DEF SessionInv, CallSound
  <2>2. shellSessionCall[c].start \in Nat /\ i \in Nat
    BY <1>1 DEF SessionInv, SessionCall, ShellSession!Hits
  <2> QED
    BY <1>1, <2>1, <2>2
<1>4. ShellSession!TypeOK
  <2>1. head \in 0..RingBufSize - 1
    BY <1>1, ModRange DEF RingHolds
  <2>2. \A c \in Workers : /\ shellSessionCall[c].pc \in {"idle", "send", "scan", "read", "replied"}
                           /\ shellSessionCall[c].start <= total /\ shellSessionCall[c].from <= total
    BY DEF SessionInv, SessionCall, CallSound
  <2> QED
    BY <1>1, <2>1, <2>2 DEF SessionInv, RingHolds, Output, ShellSession!TypeOK
<1> QED
  BY <1>2, <1>3, <1>4

-----------------------------------------------------------------------------
(* Shells. *)

\* What Shells asks of its constants.
LEMMA ShellsBounds == Shells!ShellsConstants
BY MCToolsConstants

Given == {i \in Shells!Ids : Prior < i /\ i <= shellsNextID}
ShellEvent == [kind : {"opened", "output", "closed", "exited"}, id : Shells!Ids]
Opening(i) == \E c \in Clients : opening[c].id = i

\* An id that is given out belongs to one opener, then to the map.
ShellsKnown ==
  /\ shellsChan \in Seq(ShellEvent)
  /\ \A i \in Shells!Ids : shellsStatus[i] # "none" <=> i \in Given
  /\ \A i \in Shells!Ids : shellsStatus[i] \in {"none", "open"} => waits[i] = "process"
  /\ shells \subseteq Given
  /\ \A c \in Clients :
       /\ opening[c].step = "none" <=> opening[c].id = 0
       /\ opening[c].id # 0 => opening[c].id \in Given
       /\ opening[c].step = "announce" => opening[c].id \in shells
  /\ \A c, d \in Clients : c # d /\ opening[c].id = opening[d].id => opening[c].id = 0

\* A shell that was announced in time has its pane, or the event that will open it is
\* on its way; and behind that the end of a shell that has ended.
Followed(i) ==
  \/ /\ i \in panes
     /\ waits[i] = "done" => shown[i] # "open" \/ \E m \in DOMAIN shellsChan : shellsChan[m] = [kind |-> "exited", id |-> i]
  \/ \E n \in DOMAIN shellsChan :
       /\ i \notin panes /\ shellsChan[n] = [kind |-> "opened", id |-> i]
       /\ waits[i] = "done" => \E m \in DOMAIN shellsChan : n < m /\ shellsChan[m] = [kind |-> "exited", id |-> i]

AllFollowed == \A i \in Given : i \notin early /\ ~Opening(i) => Followed(i)

ShellsInv == Shells!TypeOK /\ ShellsKnown /\ AllFollowed

\* The constants and the ids.
LEMMA ShellsFacts ==
  /\ Prior \in Nat /\ MaxShells \in Nat /\ MaxOutputs \in Nat /\ Prior <= MaxShells
  /\ \A i \in Shells!Ids : i \in Nat /\ 0 < i /\ i \in 0..MaxShells
BY ShellsBounds DEF Shells!ShellsConstants, Shells!Ids

\* A sequence with one more element.
LEMMA Appended ==
  ASSUME NEW S, NEW s \in Seq(S), NEW e \in S
  PROVE  /\ Append(s, e) \in Seq(S) /\ Len(s) + 1 \in DOMAIN Append(s, e) /\ Append(s, e)[Len(s) + 1] = e
         /\ \A n \in DOMAIN s : n \in DOMAIN Append(s, e) /\ Append(s, e)[n] = s[n] /\ n < Len(s) + 1
OBVIOUS

\* A sequence without its first element.
LEMMA Dropped ==
  ASSUME NEW S, NEW s \in Seq(S), s # <<>>
  PROVE  /\ Tail(s) \in Seq(S) /\ Head(s) = s[1] /\ s[1] \in S /\ 1 \in DOMAIN s
         /\ \A n \in DOMAIN s : n # 1 => n - 1 \in DOMAIN Tail(s) /\ Tail(s)[n - 1] = s[n]
         /\ \A m, n \in DOMAIN s : n < m => m # 1 /\ (n # 1 => n - 1 < m - 1)
OBVIOUS

\* No shell has been opened.
LEMMA InitShells == ASSUME Shells!Init PROVE ShellsInv
<1>1. /\ shellsNextID = Prior /\ shells = {} /\ killing = {} /\ shellsChan = <<>> /\ panes = 1..Prior /\ early = {}
      /\ shellsStatus = [i \in Shells!Ids |-> "none"] /\ waits = [i \in Shells!Ids |-> "process"]
      /\ opening = [c \in Clients |-> Shells!NotOpening]
      /\ shown = [i \in Shells!Ids |-> IF i <= Prior THEN "exited" ELSE "none"]
  BY DEF Shells!Init
<1>2. Given = {} /\ shellsNextID \in Prior..MaxShells /\ panes \subseteq Shells!Ids
  BY <1>1, ShellsFacts DEF Given, Shells!Ids
<1>3. opening \in [Clients -> [id : 0..MaxShells, step : {"none", "store", "announce"}]]
      /\ \A c \in Clients : opening[c].id = 0 /\ opening[c].step = "none"
  BY <1>1, ShellsFacts DEF Shells!NotOpening
<1>4. Shells!TypeOK
  BY <1>1, <1>2, <1>3 DEF Shells!TypeOK
<1>5. ShellsKnown
  BY <1>1, <1>2, <1>3 DEF ShellsKnown
<1> QED
  BY <1>2, <1>4, <1>5 DEF ShellsInv, AllFollowed

\* An id is given out.
LEMMA OpenStartsStep ==
  ASSUME ShellsInv, NEW c \in Clients, Shells!OpenStarts(c) PROVE ShellsInv'
<1> USE DEF ShellsInv
<1> DEFINE new == shellsNextID + 1
<1>1. /\ opening[c] = Shells!NotOpening /\ shellsNextID < MaxShells /\ shellsNextID' = new
      /\ shellsStatus' = [shellsStatus EXCEPT ![new] = "open"]
      /\ opening' = [opening EXCEPT ![c] = [id |-> new, step |-> "store"]]
      /\ UNCHANGED <<shells, waits, killing, shellsChan, shown, panes, outputs, early>>
  BY DEF Shells!OpenStarts, Shells!ui
<1>2. new \in Shells!Ids /\ new \notin Given /\ new > Prior /\ Given' = Given \cup {new}
  BY <1>1, ShellsFacts DEF Shells!TypeOK, Given, Shells!Ids
<1>3. shellsNextID' \in Prior..MaxShells
  BY <1>1, ShellsFacts DEF Shells!TypeOK
<1> HIDE DEF new
<1>4. [id |-> new, step |-> "store"] \in [id : 0..MaxShells, step : {"none", "store", "announce"}]
      /\ new # 0
  BY <1>2, ShellsFacts
<1>5. /\ opening' \in [Clients -> [id : 0..MaxShells, step : {"none", "store", "announce"}]]
      /\ opening'[c].id = new /\ opening'[c].step = "store"
      /\ \A d \in Clients \ {c} : opening'[d] = opening[d]
  BY <1>1, <1>4 DEF Shells!TypeOK
<1>6. /\ shellsStatus' \in [Shells!Ids -> {"none", "open", "exited", "closed"}] /\ shellsStatus'[new] = "open"
      /\ \A i \in Shells!Ids \ {new} : shellsStatus'[i] = shellsStatus[i]
  BY <1>1, <1>2 DEF Shells!TypeOK
<1>7. waits[new] = "process"
  BY <1>2 DEF ShellsKnown
<1>8. Shells!TypeOK'
  BY <1>1, <1>3, <1>5, <1>6 DEF Shells!TypeOK
<1>9. ShellsKnown'
  <2>1. \A d \in Clients : d # c => opening[d].id # new
    BY <1>2, <1>4 DEF ShellsKnown
  <2>2. \A d \in Clients :
          /\ opening'[d].step = "none" <=> opening'[d].id = 0
          /\ opening'[d].id # 0 => opening'[d].id \in Given'
          /\ opening'[d].step = "announce" => opening'[d].id \in shells'
    BY <1>1, <1>2, <1>4, <1>5 DEF ShellsKnown
  <2>3. \A d, e \in Clients : d # e /\ opening'[d].id = opening'[e].id => opening'[d].id = 0
    BY <1>5, <2>1 DEF ShellsKnown
  <2>4. \A i \in Shells!Ids : /\ shellsStatus'[i] # "none" <=> i \in Given'
                              /\ shellsStatus'[i] \in {"none", "open"} => waits'[i] = "process"
    BY <1>1, <1>2, <1>6, <1>7 DEF ShellsKnown
  <2> QED
    BY <1>1, <1>2, <2>2, <2>3, <2>4 DEF ShellsKnown
<1>10. AllFollowed'
  <2> SUFFICES ASSUME NEW i \in Given', i \notin early', ~Opening(i)' PROVE Followed(i)'
    BY DEF AllFollowed
  <2>1. i \in Given /\ i # 0
    BY <1>2, <1>5, ShellsFacts DEF Opening, Given
  <2>2. \A d \in Clients : opening[d].id # i
    <3>1. opening[c].id = 0
      BY <1>1 DEF Shells!NotOpening
    <3> QED
      BY <1>5, <2>1, <3>1 DEF Opening
  <2>3. Followed(i)
    BY <1>1, <2>1, <2>2 DEF AllFollowed, Opening
  <2> QED
    BY <1>1, <2>3 DEF Followed
<1> QED
  BY <1>8, <1>9, <1>10

\* An event that is published takes nothing away.
LEMMA Published ==
  ASSUME ShellsInv, NEW e \in ShellEvent, shellsChan' = Append(shellsChan, e), UNCHANGED <<panes, shown>>,
         NEW i \in Shells!Ids, Followed(i), waits'[i] = waits[i] \/ e = [kind |-> "exited", id |-> i]
  PROVE  Followed(i)'
<1> DEFINE end == [kind |-> "exited", id |-> i]
           start == [kind |-> "opened", id |-> i]
<1>1. /\ Len(shellsChan) + 1 \in DOMAIN shellsChan' /\ shellsChan'[Len(shellsChan) + 1] = e
      /\ \A n \in DOMAIN shellsChan : n \in DOMAIN shellsChan' /\ shellsChan'[n] = shellsChan[n] /\ n < Len(shellsChan) + 1
  BY Appended DEF ShellsInv, ShellsKnown
<1>2. CASE i \in panes
  <2>1. waits[i] = "done" => shown[i] # "open" \/ \E m \in DOMAIN shellsChan : shellsChan[m] = end
    BY <1>2 DEF Followed
  <2>2. waits'[i] = "done" => shown'[i] # "open" \/ \E m \in DOMAIN shellsChan' : shellsChan'[m] = end
    BY <1>1, <2>1
  <2> QED
    BY <1>2, <2>2 DEF Followed
<1>3. CASE i \notin panes
  <2>1. PICK n \in DOMAIN shellsChan :
          /\ shellsChan[n] = start
          /\ waits[i] = "done" => \E m \in DOMAIN shellsChan : n < m /\ shellsChan[m] = end
    BY <1>3 DEF Followed
  <2>2. /\ n \in DOMAIN shellsChan' /\ shellsChan'[n] = start
        /\ waits'[i] = "done" => \E m \in DOMAIN shellsChan' : n < m /\ shellsChan'[m] = end
    BY <1>1, <2>1
  <2> QED
    BY <1>3, <2>2 DEF Followed
<1> QED
  BY <1>2, <1>3

\* A shell that was started goes into the map.
LEMMA OpenStoresStep ==
  ASSUME ShellsInv, NEW c \in Clients, Shells!OpenStores(c) PROVE ShellsInv'
<1> USE DEF ShellsInv
<1>1. /\ opening[c].step = "store" /\ shells' = shells \cup {opening[c].id}
      /\ opening' = [opening EXCEPT ![c].step = "announce"]
      /\ UNCHANGED <<shellsNextID, shellsStatus, waits, killing, shellsChan, shown, panes, outputs, early>>
  BY DEF Shells!OpenStores, Shells!ui
<1>2. /\ opening' \in [Clients -> [id : 0..MaxShells, step : {"none", "store", "announce"}]]
      /\ opening'[c].step = "announce" /\ \A d \in Clients : opening'[d].id = opening[d].id
      /\ \A d \in Clients \ {c} : opening'[d] = opening[d]
  BY <1>1 DEF Shells!TypeOK
<1>3. opening[c].id \in Given /\ opening[c].id # 0 /\ Given' = Given /\ Given \subseteq Shells!Ids
  BY <1>1 DEF ShellsKnown, Given
<1>4. Shells!TypeOK'
  BY <1>1, <1>2, <1>3 DEF Shells!TypeOK
<1>5. ShellsKnown'
  <2>1. \A d \in Clients :
          /\ opening'[d].step = "none" <=> opening'[d].id = 0
          /\ opening'[d].id # 0 => opening'[d].id \in Given'
          /\ opening'[d].step = "announce" => opening'[d].id \in shells'
    BY <1>1, <1>2, <1>3 DEF ShellsKnown
  <2>2. \A d, e \in Clients : d # e /\ opening'[d].id = opening'[e].id => opening'[d].id = 0
    BY <1>2 DEF ShellsKnown
  <2> QED
    BY <1>1, <1>3, <2>1, <2>2 DEF ShellsKnown
<1>6. AllFollowed'
  <2>1. \A i : Opening(i)' <=> Opening(i)
    BY <1>2 DEF Opening
  <2> QED
    BY <1>1, <1>3, <2>1 DEF AllFollowed, Followed
<1> QED
  BY <1>4, <1>5, <1>6

\* A shell that is still open is followed from the moment it is announced.
LEMMA OpenAnnouncesStep ==
  ASSUME ShellsInv, NEW c \in Clients, Shells!OpenAnnounces(c) PROVE ShellsInv'
<1> USE DEF ShellsInv
<1> DEFINE j == opening[c].id
           e == [kind |-> "opened", id |-> j]
<1>1. /\ opening[c].step = "announce" /\ shellsChan' = Append(shellsChan, e)
      /\ early' = IF shellsStatus[j] = "open" THEN early ELSE early \cup {j}
      /\ opening' = [opening EXCEPT ![c] = Shells!NotOpening]
      /\ UNCHANGED <<shellsNextID, shells, shellsStatus, waits, killing, shown, panes, outputs>>
  BY DEF Shells!OpenAnnounces, Shells!Publish, Shells!ui
<1>2. j \in Given /\ Given' = Given /\ Given \subseteq Shells!Ids /\ e \in ShellEvent
  BY <1>1 DEF ShellsKnown, Given, ShellEvent, Shells!TypeOK
<1>3. /\ opening' \in [Clients -> [id : 0..MaxShells, step : {"none", "store", "announce"}]]
      /\ opening'[c].step = "none" /\ opening'[c].id = 0
      /\ \A d \in Clients \ {c} : opening'[d] = opening[d]
  BY <1>1, ShellsFacts DEF Shells!TypeOK, Shells!NotOpening
<1> HIDE DEF e
<1>4. /\ shellsChan' \in Seq(ShellEvent) /\ Len(shellsChan) + 1 \in DOMAIN shellsChan' /\ shellsChan'[Len(shellsChan) + 1] = e
  BY <1>1, <1>2, Appended DEF ShellsKnown
<1>5. Shells!TypeOK'
  BY <1>1, <1>3 DEF Shells!TypeOK
<1>6. ShellsKnown'
  <2>1. \A d \in Clients :
          /\ opening'[d].step = "none" <=> opening'[d].id = 0
          /\ opening'[d].id # 0 => opening'[d].id \in Given'
          /\ opening'[d].step = "announce" => opening'[d].id \in shells'
    BY <1>1, <1>2, <1>3 DEF ShellsKnown
  <2>2. \A d, f \in Clients : d # f /\ opening'[d].id = opening'[f].id => opening'[d].id = 0
    BY <1>3 DEF ShellsKnown
  <2> QED
    BY <1>1, <1>2, <1>4, <2>1, <2>2 DEF ShellsKnown
<1>7. AllFollowed'
  <2> SUFFICES ASSUME NEW i \in Given, i \notin early', ~Opening(i)' PROVE Followed(i)'
    BY <1>2 DEF AllFollowed
  <2>1. CASE i = j
    <3>1. waits[i] = "process"
      BY <1>1, <1>2, <2>1 DEF ShellsKnown
    <3>2. Len(shellsChan) + 1 \in DOMAIN shellsChan' /\ shellsChan'[Len(shellsChan) + 1] = [kind |-> "opened", id |-> i] /\ waits'[i] # "done"
      BY <1>1, <1>4, <2>1, <3>1 DEF e
    <3> QED
      BY <3>2 DEF Followed
  <2>2. CASE i # j
    <3>1. ~Opening(i) /\ i \notin early
      BY <1>1, <1>3, <2>2 DEF Opening
    <3>2. Followed(i) /\ i \in Shells!Ids /\ waits'[i] = waits[i]
      BY <1>1, <1>2, <3>1 DEF AllFollowed
    <3> QED
      BY <1>1, <1>2, <3>2, Published
  <2> QED
    BY <2>1, <2>2
<1> QED
  BY <1>5, <1>6, <1>7

\* A step that publishes an event of a shell that is there, or none, and no more than
\* closes it or notes that it has ended.
LEMMA ShellStep ==
  ASSUME ShellsInv, NEW i \in Given,
         UNCHANGED <<shellsNextID, shells, opening, shown, panes, early>>,
         killing' \subseteq shells,
         NEW s \in {"open", "exited", "closed"}, shellsStatus' = [shellsStatus EXCEPT ![i] = s],
         s = "open" => shellsStatus[i] = "open" /\ waits'[i] = waits[i],
         NEW w \in {"process", "publish", "done"}, waits' = [waits EXCEPT ![i] = w],
         \/ shellsChan' = shellsChan /\ (w = "done" => waits[i] = "done")
         \/ \E e \in ShellEvent : /\ shellsChan' = Append(shellsChan, e)
                                  /\ waits'[i] = waits[i] \/ e = [kind |-> "exited", id |-> i]
  PROVE  ShellsInv'
<1> USE DEF ShellsInv
<1>1. Given' = Given /\ Given \subseteq Shells!Ids /\ \A k : Opening(k)' <=> Opening(k)
  BY DEF Given, Opening
<1>2. /\ shellsStatus' \in [Shells!Ids -> {"none", "open", "exited", "closed"}] /\ shellsStatus'[i] = s
      /\ waits' \in [Shells!Ids -> {"process", "publish", "done"}] /\ waits'[i] = w
      /\ \A k \in Shells!Ids \ {i} : shellsStatus'[k] = shellsStatus[k] /\ waits'[k] = waits[k]
  BY <1>1 DEF Shells!TypeOK
<1>3. shellsChan' \in Seq(ShellEvent)
  <2>1. shellsChan \in Seq(ShellEvent)
    BY DEF ShellsKnown
  <2>2. \A e \in ShellEvent : Append(shellsChan, e) \in Seq(ShellEvent)
    BY <2>1, Appended
  <2> QED
    BY <2>1, <2>2
<1>4. Shells!TypeOK'
  BY <1>2 DEF Shells!TypeOK
<1>5. ShellsKnown'
  <2>1. \A k \in Shells!Ids : /\ shellsStatus'[k] # "none" <=> k \in Given'
                              /\ shellsStatus'[k] \in {"none", "open"} => waits'[k] = "process"
    BY <1>1, <1>2 DEF ShellsKnown
  <2> QED
    BY <1>1, <1>3, <2>1 DEF ShellsKnown
<1>6. ASSUME NEW k \in Given, Followed(k) PROVE Followed(k)'
  <2>1. CASE shellsChan' = shellsChan /\ (w = "done" => waits[i] = "done")
    <3>1. waits'[k] = "done" => waits[k] = "done"
      BY <1>1, <1>2, <2>1
    <3> QED
      BY <1>6, <2>1, <3>1 DEF Followed
  <2>2. ASSUME NEW e \in ShellEvent, shellsChan' = Append(shellsChan, e),
               waits'[i] = waits[i] \/ e = [kind |-> "exited", id |-> i]
        PROVE  Followed(k)'
    <3>1. k \in Shells!Ids /\ (waits'[k] = waits[k] \/ e = [kind |-> "exited", id |-> k])
      BY <1>1, <1>2, <2>2
    <3> QED
      BY <1>6, <2>2, <3>1, Published
  <2> QED
    BY <2>1, <2>2
<1>7. AllFollowed'
  BY <1>1, <1>6 DEF AllFollowed
<1> QED
  BY <1>4, <1>5, <1>7

\* A shell gives output.
LEMMA OutputStep == ASSUME ShellsInv, NEW i \in Shells!Ids, Shells!Output(i) PROVE ShellsInv'
<1> USE DEF ShellsInv
<1> DEFINE e == [kind |-> "output", id |-> i]
<1>1. /\ shellsStatus[i] # "none" /\ shellsChan' = Append(shellsChan, e)
      /\ UNCHANGED <<shellsNextID, shells, shellsStatus, waits, opening, killing, shown, panes, early>>
  BY DEF Shells!Output, Shells!Publish, Shells!ui
<1>2. i \in Given /\ Given' = Given /\ Given \subseteq Shells!Ids /\ e \in ShellEvent
  BY <1>1 DEF ShellsKnown, ShellEvent, Given
<1> HIDE DEF e
<1>3. shellsChan' \in Seq(ShellEvent)
  BY <1>1, <1>2, Appended DEF ShellsKnown
<1>4. Shells!TypeOK' /\ ShellsKnown'
  BY <1>1, <1>2, <1>3 DEF Shells!TypeOK, ShellsKnown
<1>5. \A k \in Given : Followed(k) => Followed(k)'
  BY <1>1, <1>2, Published
<1>6. AllFollowed'
  BY <1>1, <1>2, <1>5 DEF AllFollowed, Opening
<1> QED
  BY <1>4, <1>6

\* A shell is closed.
LEMMA CloseStep ==
  ASSUME ShellsInv, NEW i \in shells, Shells!CloseOne(i), killing' \subseteq shells,
         UNCHANGED <<shellsNextID, shells, waits, opening, shown, panes, early>>
  PROVE  ShellsInv'
<1> USE DEF ShellsInv
<1>1. i \in Given /\ i \in Shells!Ids /\ shellsStatus[i] # "none"
  BY DEF ShellsKnown, Given
<1>2. waits' = [waits EXCEPT ![i] = waits[i]] /\ waits[i] \in {"process", "publish", "done"}
  BY <1>1 DEF Shells!TypeOK
<1>3. CASE shellsStatus[i] = "open"
  <2>1. shellsStatus' = [shellsStatus EXCEPT ![i] = "closed"] /\ shellsChan' = Append(shellsChan, [kind |-> "closed", id |-> i])
    BY <1>3 DEF Shells!CloseOne, Shells!Publish
  <2>2. [kind |-> "closed", id |-> i] \in ShellEvent
    BY <1>1 DEF ShellEvent
  <2> QED
    BY <1>1, <1>2, <2>1, <2>2, ShellStep
<1>4. CASE shellsStatus[i] # "open"
  <2>1. shellsStatus' = [shellsStatus EXCEPT ![i] = shellsStatus[i]] /\ shellsChan' = shellsChan /\ shellsStatus[i] \in {"exited", "closed"}
    BY <1>1, <1>4 DEF Shells!CloseOne, Shells!TypeOK
  <2> QED
    BY <1>1, <1>2, <1>4, <2>1, ShellStep
<1> QED
  BY <1>3, <1>4

\* The goroutine that waits for a shell takes its next step.
LEMMA WaitStep ==
  ASSUME ShellsInv, NEW i \in Shells!Ids, Shells!WaitReturns(i) \/ Shells!WaitPublishes(i) PROVE ShellsInv'
<1> USE DEF ShellsInv
<1>1. /\ UNCHANGED <<shellsNextID, shells, opening, killing, shown, panes, early>>
      /\ killing \subseteq shells
  BY DEF Shells!WaitReturns, Shells!WaitPublishes, Shells!ui, Shells!TypeOK
<1>2. CASE Shells!WaitReturns(i)
  <2>1. /\ waits[i] = "process" /\ shellsStatus[i] # "none" /\ waits' = [waits EXCEPT ![i] = "publish"]
        /\ shellsStatus' = [shellsStatus EXCEPT ![i] = IF shellsStatus[i] = "open" THEN "exited" ELSE shellsStatus[i]]
        /\ shellsChan' = shellsChan
    BY <1>2 DEF Shells!WaitReturns
  <2>2. i \in Given
    BY <2>1 DEF ShellsKnown
  <2>3. (IF shellsStatus[i] = "open" THEN "exited" ELSE shellsStatus[i]) \in {"exited", "closed"}
    BY <2>1 DEF Shells!TypeOK
  <2> DEFINE s == IF shellsStatus[i] = "open" THEN "exited" ELSE shellsStatus[i]
  <2>4. s \in {"open", "exited", "closed"} /\ s # "open" /\ shellsStatus' = [shellsStatus EXCEPT ![i] = s]
    BY <2>1, <2>3
  <2> HIDE DEF s
  <2> QED
    BY <1>1, <2>1, <2>2, <2>4, ShellStep
<1>3. CASE Shells!WaitPublishes(i)
  <2> DEFINE e == [kind |-> "exited", id |-> i]
  <2>1. /\ waits[i] = "publish" /\ waits' = [waits EXCEPT ![i] = "done"] /\ shellsChan' = Append(shellsChan, e)
        /\ shellsStatus' = shellsStatus
    BY <1>3 DEF Shells!WaitPublishes, Shells!Publish
  <2>2. i \in Given /\ shellsStatus[i] \in {"exited", "closed"} /\ e \in ShellEvent
    BY <2>1 DEF ShellsKnown, Shells!TypeOK, ShellEvent
  <2>3. shellsStatus' = [shellsStatus EXCEPT ![i] = shellsStatus[i]]
    BY <2>1 DEF Shells!TypeOK
  <2> QED
    BY <1>1, <2>1, <2>2, <2>3, ShellStep
<1> QED
  BY <1>2, <1>3

\* The event that opens a pane leaves the end behind it.
LEMMA HandleStep == ASSUME ShellsInv, Shells!HandleEvent PROVE ShellsInv'
<1> USE DEF ShellsInv
<1> DEFINE e == Head(shellsChan)
<1>1. /\ shellsChan # <<>> /\ shellsChan' = Tail(shellsChan)
      /\ shown' = IF Shells!Opens(e) THEN [shown EXCEPT ![e.id] = "open"]
                  ELSE IF e.kind \in {"exited", "closed"} THEN [shown EXCEPT ![e.id] = e.kind]
                  ELSE shown
      /\ panes' = IF Shells!Opens(e) THEN panes \cup {e.id} ELSE panes
      /\ UNCHANGED <<shellsNextID, shells, shellsStatus, waits, opening, killing, outputs, early>>
  BY DEF Shells!HandleEvent
<1>2. /\ shellsChan' \in Seq(ShellEvent) /\ e = shellsChan[1] /\ e \in ShellEvent /\ 1 \in DOMAIN shellsChan
      /\ \A n \in DOMAIN shellsChan : n # 1 => n - 1 \in DOMAIN shellsChan' /\ shellsChan'[n - 1] = shellsChan[n]
      /\ \A m, n \in DOMAIN shellsChan : n < m => m # 1 /\ (n # 1 => n - 1 < m - 1)
  BY <1>1, Dropped DEF ShellsKnown
<1> HIDE DEF e
<1>3. e.id \in Shells!Ids /\ e.kind \in {"opened", "output", "closed", "exited"}
  BY <1>2 DEF ShellEvent
<1>4. /\ shown' \in [Shells!Ids -> {"none", "open", "exited", "closed"}] /\ panes' \subseteq Shells!Ids
      /\ panes \subseteq panes'
      /\ \A i \in Shells!Ids \ {e.id} : shown'[i] = shown[i] /\ (i \in panes' <=> i \in panes)
      /\ Shells!Opens(e) => e.id \in panes' /\ e.id \notin panes
      /\ ~Shells!Opens(e) => panes' = panes
      /\ e.id \in panes => shown'[e.id] = shown[e.id] \/ shown'[e.id] # "open"
  BY <1>1, <1>3 DEF Shells!TypeOK, Shells!Opens
<1>5. Shells!TypeOK' /\ ShellsKnown'
  BY <1>1, <1>2, <1>4 DEF Shells!TypeOK, ShellsKnown, Given
<1>6. ASSUME NEW i \in Shells!Ids, Followed(i) PROVE Followed(i)'
  <2> DEFINE end == [kind |-> "exited", id |-> i]
             start == [kind |-> "opened", id |-> i]
  <2>1. CASE i \in panes
    <3>1. i \in panes' /\ (waits[i] = "done" => shown[i] # "open" \/ \E m \in DOMAIN shellsChan : shellsChan[m] = end)
      BY <1>4, <1>6, <2>1 DEF Followed
    <3>2. shown'[i] = shown[i] \/ shown'[i] # "open"
      BY <1>4, <2>1
    <3>3. ASSUME NEW m \in DOMAIN shellsChan, shellsChan[m] = end
          PROVE  shown'[i] # "open" \/ \E n \in DOMAIN shellsChan' : shellsChan'[n] = end
      <4>1. CASE m = 1
        <5>1. e.id = i /\ e.kind = "exited"
          BY <1>2, <3>3, <4>1
        <5> QED
          BY <1>1, <1>3, <5>1 DEF Shells!Opens, Shells!TypeOK
      <4>2. CASE m # 1
        BY <1>2, <3>3, <4>2
      <4> QED
        BY <4>1, <4>2
    <3>4. waits'[i] = "done" => shown'[i] # "open" \/ \E n \in DOMAIN shellsChan' : shellsChan'[n] = end
      BY <1>1, <3>1, <3>2, <3>3
    <3> QED
      BY <3>1, <3>4 DEF Followed
  <2>2. CASE i \notin panes
    <3>1. PICK n \in DOMAIN shellsChan :
            /\ shellsChan[n] = start
            /\ waits[i] = "done" => \E m \in DOMAIN shellsChan : n < m /\ shellsChan[m] = end
      BY <1>6, <2>2 DEF Followed
    <3>2. waits'[i] = "done" => \E m \in DOMAIN shellsChan' : shellsChan'[m] = end /\ (n # 1 => n - 1 < m)
      BY <1>1, <1>2, <3>1
    <3>3. CASE i \in panes'
      BY <3>2, <3>3 DEF Followed
    <3>4. CASE i \notin panes'
      <4>1. n # 1
        <5> SUFFICES ASSUME n = 1 PROVE FALSE
          OBVIOUS
        <5>1. e.id = i /\ e.kind = "opened"
          BY <1>2, <3>1
        <5>2. Shells!Opens(e)
          BY <2>2, <5>1 DEF Shells!Opens
        <5> QED
          BY <1>4, <3>4, <5>1, <5>2
      <4>2. n - 1 \in DOMAIN shellsChan' /\ shellsChan'[n - 1] = start
        BY <1>2, <3>1, <4>1
      <4>3. waits'[i] = "done" => \E m \in DOMAIN shellsChan' : n - 1 < m /\ shellsChan'[m] = end
        BY <3>2, <4>1
      <4> QED
        BY <3>4, <4>2, <4>3 DEF Followed
    <3> QED
      BY <3>3, <3>4
  <2> QED
    BY <2>1, <2>2
<1>7. AllFollowed'
  BY <1>1, <1>6 DEF AllFollowed, Opening, Given
<1> QED
  BY <1>5, <1>7

\* Every step keeps the invariant of the shells.
LEMMA ShellsStep == ASSUME ShellsInv, [Shells!Next]_Shells!vars PROVE ShellsInv'
<1>1. CASE UNCHANGED Shells!vars
  BY <1>1 DEF Shells!vars, Shells!ui, ShellsInv, Shells!TypeOK, ShellsKnown, Given, AllFollowed, Opening, Followed
<1>2. ASSUME NEW i \in Shells!Ids, Shells!CloseShell(i) PROVE ShellsInv'
  BY <1>2, CloseStep DEF Shells!CloseShell, Shells!ui, ShellsInv, Shells!TypeOK
<1>3. ASSUME NEW i \in Shells!Ids, Shells!CancelNext(i) PROVE ShellsInv'
  <2>1. i \in shells /\ killing' \subseteq shells
    BY <1>3 DEF Shells!CancelNext, ShellsInv, Shells!TypeOK
  <2> QED
    BY <1>3, <2>1, CloseStep DEF Shells!CancelNext, Shells!ui
<1>4. CASE Shells!CancelAll
  BY <1>4 DEF Shells!CancelAll, Shells!ui, ShellsInv, Shells!TypeOK, ShellsKnown, Given, AllFollowed, Opening, Followed
<1>5. CASE Shells!Next
  BY <1>2, <1>3, <1>4, <1>5, OpenStartsStep, OpenStoresStep, OpenAnnouncesStep, OutputStep, WaitStep,
     HandleStep DEF Shells!Next, Shells!ExecOpens
<1> QED
  BY <1>1, <1>5

\* A shell that has ended is not shown as open once the events are read, and no id is given twice.
LEMMA ShellsTold == ASSUME ShellsInv PROVE Shells!EndedIsShown /\ Shells!IdsAreFresh
<1>1. Shells!IdsAreFresh
  BY DEF ShellsInv, ShellsKnown, Shells!IdsAreFresh, Given
<1>2. Shells!EndedIsShown
  <2> SUFFICES ASSUME NEW i \in Shells!Ids, shellsStatus[i] \in {"exited", "closed"}, waits[i] = "done", i \notin early,
                      \A n \in DOMAIN shellsChan : shellsChan[n].id # i, \A c \in Clients : opening[c].id # i
               PROVE  shown[i] # "open"
    BY DEF Shells!EndedIsShown
  <2>1. Followed(i)
    BY DEF ShellsInv, ShellsKnown, AllFollowed, Opening
  <2>2. \A n \in DOMAIN shellsChan : shellsChan[n] # [kind |-> "exited", id |-> i] /\ shellsChan[n] # [kind |-> "opened", id |-> i]
    OBVIOUS
  <2> QED
    BY <2>1, <2>2 DEF Followed
<1> QED
  BY <1>1, <1>2

-----------------------------------------------------------------------------
(* ReadCache. *)

\* What the cache says of a request is what the request was answered with.
EntriesAreTrue ==
  \A x \in ReadCache!Ranges : \A e \in entries[x] : answered[e.first] = e.hash
AskedInFull == \A r \in Workers : readCacheCall[r].pc = "ask" => readCacheCall[r].lines \in ReadCache!Files

ReadInv == ReadCache!TypeOK /\ DOMAIN entries = ReadCache!Ranges /\ AskedInFull /\ EntriesAreTrue /\ ReadCache!NotesAreTrue

\* What ReadCache asks of its constants.
LEMMA ReadBounds == ReadCache!ReadCacheConstants
BY MCToolsConstants

ReadCall == [pc : {"idle", "scan", "ask"}, range : ReadCache!Ranges, lines : ReadCache!Files \cup {<<>>}]

\* A reader that reads nothing.
LEMMA IdleRead == ReadCache!Idle \in ReadCall /\ ReadCache!Idle.pc = "idle"
BY DEF ReadCache!Idle, ReadCall, ReadCache!Ranges

\* The library's operator is the same wherever it is instantiated.
LEMMA ReadCardinality == \A S : ReadCache!Cardinality(S) = Cardinality(S)
BY DEF ReadCache!Cardinality, Cardinality

\* Sets of at most one element.
LEMMA ReadAtMostOne ==
  /\ \A e : Cardinality({e}) <= 1
  /\ Cardinality({}) <= 1
<1>1. \A e : Cardinality({e}) = 1
  BY FS_Singleton
<1>2. Cardinality({}) = 0
  BY FS_EmptySet
<1>3. 1 <= 1 /\ 0 <= 1
  OBVIOUS
<1> QED
  BY <1>1, <1>2, <1>3

\* Nothing has been read.
LEMMA InitRead == ASSUME ReadCache!Init PROVE ReadInv
<1>1. ReadCache!TypeOK
  <2>1. /\ answered = <<>> /\ nextSeq = 0 /\ reads = 0 /\ notes = {} /\ readCacheFile \in ReadCache!Files /\ writing = FALSE
        /\ readCacheCall = [r \in Workers |-> ReadCache!Idle] /\ context = [r \in Workers |-> {}]
        /\ entries = [x \in ReadCache!Ranges |-> {}]
    BY DEF ReadCache!Init
  <2>2. answered \in Seq(ReadCache!Files) /\ Len(answered) = 0
    BY <2>1
  <2>3. reads \in 0..MaxReads
    BY <2>1, ReadBounds DEF ReadCache!ReadCacheConstants
  <2>4. readCacheCall \in [Workers -> ReadCall]
    BY <2>1, IdleRead
  <2>5. \A x \in ReadCache!Ranges : entries[x] = {}
    BY <2>1
  <2> QED
    BY <2>1, <2>2, <2>3, <2>4, <2>5, ReadAtMostOne, ReadCardinality DEF ReadCache!TypeOK, ReadCall
<1> QED
  BY <1>1, IdleRead DEF ReadCache!Init, ReadInv, AskedInFull, EntriesAreTrue, ReadCache!NotesAreTrue

\* Parts of a file of one or two lines.
LEMMA WholeOfFile ==
  ASSUME NEW a, NEW b
  PROVE  /\ SubSeq(<<a>>, 1, 1) = <<a>> /\ SubSeq(<<a>>, 2, 1) = <<>>
         /\ SubSeq(<<a, b>>, 1, 2) = <<a, b>> /\ SubSeq(<<a, b>>, 2, 2) = <<b>>
<1>1. <<a>> \in Seq({a, b}) /\ <<a, b>> \in Seq({a, b}) /\ Len(<<a>>) = 1 /\ Len(<<a, b>>) = 2
  OBVIOUS
<1>2. SubSeq(<<a>>, 1, 1) = <<a>> /\ SubSeq(<<a, b>>, 1, 2) = <<a, b>>
  BY <1>1, SubSeqFull
<1>3. SubSeq(<<a>>, 2, 1) = <<>>
  BY SubSeqEmpty
<1>4. SubSeq(<<a, b>>, 2, 2) \in Seq({a, b}) /\ Len(SubSeq(<<a, b>>, 2, 2)) = 1 /\ SubSeq(<<a, b>>, 2, 2)[1] = b
  <2>1. 2 \in 1..3 /\ 2 \in 1..2
    OBVIOUS
  <2>2. /\ SubSeq(<<a, b>>, 2, 2) \in Seq({a, b})
        /\ Len(SubSeq(<<a, b>>, 2, 2)) = IF 2 <= 2 THEN 2 - 2 + 1 ELSE 0
        /\ \A i \in 1..2 - 2 + 1 : SubSeq(<<a, b>>, 2, 2)[i] = <<a, b>>[2 + i - 1]
    BY <1>1, <2>1, SubSeqProperties
  <2> QED
    BY <2>2
<1>5. \A q \in Seq({a, b}) : Len(q) = 1 => q = <<q[1]>>
  OBVIOUS
<1> QED
  BY <1>2, <1>3, <1>4, <1>5

\* The part of a file that is read is a file of at most two lines, or nothing.
LEMMA EmittedFacts ==
  ASSUME readCacheFile \in ReadCache!Files, NEW x \in ReadCache!Ranges
  PROVE  ReadCache!Emitted(x) \in ReadCache!Files \cup {<<>>}
<1>1. Len(readCacheFile) \in {1, 2}
  BY DEF ReadCache!Files
<1>2. ASSUME NEW n \in Nat, Len(readCacheFile) <= n PROVE ReadCache!Min({n, Len(readCacheFile)}) = Len(readCacheFile)
  <2> DEFINE m == Len(readCacheFile)
  <2> m \in Nat
    BY <1>1
  <2> HIDE DEF m
  <2>0. m <= n
    BY <1>2 DEF m
  <2>1. \E y \in {n, m} : \A z \in {n, m} : y <= z
    BY <2>0
  <2>2. \A y \in {n, m} : (\A z \in {n, m} : y <= z) => y = m
    BY <2>0
  <2> QED
    BY <2>1, <2>2 DEF ReadCache!Min, m
<1>3. CASE x.offset = 1
  <2>1. x.offset + x.limit - 1 = 500
    BY <1>3 DEF ReadCache!Ranges
  <2>2. ReadCache!Min({500, Len(readCacheFile)}) = Len(readCacheFile)
    <3>1. 500 \in Nat /\ Len(readCacheFile) <= 500
      <4>1. 500 \in Nat /\ \A k : k = 1 \/ k = 2 => k <= 500
        OBVIOUS
      <4> QED
        BY <1>1, <4>1, Zenon
    <3> QED
      BY <1>2, <3>1, Zenon
  <2>3. SubSeq(readCacheFile, 1, Len(readCacheFile)) = readCacheFile
    BY WholeOfFile DEF ReadCache!Files
  <2> QED
    BY <1>3, <2>1, <2>2, <2>3 DEF ReadCache!Emitted
<1>4. CASE x.offset = 2
  <2>1. ReadCache!Emitted(x) = SubSeq(readCacheFile, 2, Len(readCacheFile))
    <3>1. x.offset + x.limit - 1 = 2
      BY <1>4 DEF ReadCache!Ranges
    <3>2. ReadCache!Min({2, Len(readCacheFile)}) = Len(readCacheFile)
      <4>1. 2 \in Nat /\ Len(readCacheFile) <= 2
        <5>1. \A k : k = 1 \/ k = 2 => k <= 2
          OBVIOUS
        <5> QED
          BY <1>1, <5>1, Zenon
      <4> QED
        BY <1>2, <4>1, Zenon
    <3> QED
      BY <1>4, <3>1, <3>2 DEF ReadCache!Emitted
  <2>2. CASE Len(readCacheFile) = 1
    <3>1. PICK a \in Lines : readCacheFile = <<a>>
      BY <2>2 DEF ReadCache!Files
    <3> QED
      BY <2>1, <2>2, <3>1, WholeOfFile
  <2>3. CASE Len(readCacheFile) = 2
    <3>1. PICK a \in Lines, b \in Lines : readCacheFile = <<a, b>>
      BY <2>3 DEF ReadCache!Files
    <3>2. SubSeq(readCacheFile, 2, 2) = <<b>>
      BY <3>1, WholeOfFile
    <3> QED
      BY <2>1, <2>3, <3>2 DEF ReadCache!Files
  <2> QED
    BY <1>1, <2>2, <2>3
<1> QED
  BY <1>3, <1>4 DEF ReadCache!Ranges

\* A reader begins, scans the file, or asks the cache.
LEMMA ReadCallStep ==
  ASSUME ReadInv, NEW r \in Workers, ReadCache!Begins(r) \/ ReadCache!Scans(r) PROVE ReadInv'
<1>1. /\ ReadCache!TypeOK /\ readCacheCall \in [Workers -> ReadCall]
      /\ UNCHANGED <<readCacheFile, writing, entries, nextSeq, answered, context, notes>>
  BY DEF ReadInv, ReadCache!TypeOK, ReadCall, ReadCache!Begins, ReadCache!Scans
<1>2. readCacheCall' \in [Workers -> ReadCall] /\ reads' \in 0..MaxReads /\ AskedInFull'
  <2>1. CASE ReadCache!Begins(r)
    <3>1. PICK x \in ReadCache!Ranges : readCacheCall' = [readCacheCall EXCEPT ![r] = [ReadCache!Idle EXCEPT !.pc = "scan", !.range = x]]
      BY <2>1 DEF ReadCache!Begins
    <3> DEFINE next == [ReadCache!Idle EXCEPT !.pc = "scan", !.range = x]
    <3>2. next \in ReadCall /\ next.pc = "scan"
      BY IdleRead DEF ReadCall
    <3> HIDE DEF next
    <3>3. readCacheCall' \in [Workers -> ReadCall] /\ AskedInFull'
      BY <1>1, <3>1, <3>2 DEF ReadInv, AskedInFull, next
    <3>6. reads' \in 0..MaxReads
      <4>1. reads \in 0..MaxReads /\ reads < MaxReads /\ reads' = reads + 1 /\ MaxReads \in Nat
        BY <1>1, <2>1, ReadBounds DEF ReadCache!Begins, ReadCache!TypeOK, ReadCache!ReadCacheConstants
      <4> QED
        BY <4>1
    <3> QED
      BY <3>3, <3>6
  <2>2. CASE ReadCache!Scans(r)
    <3> DEFINE lines == ReadCache!Emitted(readCacheCall[r].range)
               next == IF lines = <<>> THEN ReadCache!Idle ELSE [readCacheCall[r] EXCEPT !.pc = "ask", !.lines = lines]
    <3>1. lines \in ReadCache!Files \cup {<<>>} /\ readCacheCall[r] \in ReadCall
      BY <1>1, EmittedFacts, ReadCardinality DEF ReadCache!TypeOK, ReadCall
    <3>2. readCacheCall' = [readCacheCall EXCEPT ![r] = next]
      BY <2>2 DEF ReadCache!Scans
    <3> HIDE DEF lines
    <3>3. next \in ReadCall /\ (next.pc = "ask" => next.lines \in ReadCache!Files)
      <4>1. CASE lines = <<>>
        BY <4>1, IdleRead
      <4>2. CASE lines # <<>>
        BY <3>1, <4>2 DEF ReadCall
      <4> QED
        BY <4>1, <4>2
    <3> HIDE DEF next
    <3>4. readCacheCall' \in [Workers -> ReadCall] /\ AskedInFull'
      BY <1>1, <3>2, <3>3 DEF ReadInv, AskedInFull
    <3> QED
      BY <1>1, <2>2, <3>4 DEF ReadCache!Scans, ReadCache!TypeOK
  <2> QED
    BY <2>1, <2>2
<1> QED
  BY <1>1, <1>2 DEF ReadInv, ReadCache!TypeOK, ReadCall, EntriesAreTrue, ReadCache!NotesAreTrue

\* A stub says that the file is as it was.
LEMMA StubStep ==
  ASSUME ReadInv, NEW r \in Workers, ReadCache!CachedReadStub(r) PROVE ReadInv'
<1> DEFINE x == readCacheCall[r].range
           l == readCacheCall[r].lines
           prior == {e \in entries[x] : e.hash = l}
<1>1. /\ ReadCache!TypeOK /\ readCacheCall \in [Workers -> ReadCall] /\ x \in ReadCache!Ranges /\ l \in ReadCache!Files
      /\ answered \in Seq(ReadCache!Files) /\ nextSeq = Len(answered) /\ nextSeq \in Nat
  BY DEF ReadInv, ReadCache!TypeOK, ReadCall, ReadCache!CachedReadStub, AskedInFull
<1>2. /\ UNCHANGED <<readCacheFile, writing, reads>> /\ readCacheCall' = [readCacheCall EXCEPT ![r] = ReadCache!Idle]
      /\ readCacheCall' \in [Workers -> ReadCall] /\ AskedInFull'
  <2>1. UNCHANGED <<readCacheFile, writing, reads>> /\ readCacheCall' = [readCacheCall EXCEPT ![r] = ReadCache!Idle]
    BY DEF ReadCache!CachedReadStub
  <2> QED
    BY <1>1, <2>1, IdleRead DEF ReadInv, AskedInFull
<1>3. \A e \in entries[x] : e.first \in 1..nextSeq /\ e.hash \in ReadCache!Files /\ answered[e.first] = e.hash
  BY <1>1 DEF ReadInv, ReadCache!TypeOK, EntriesAreTrue
<1>4. CASE prior # {}
  <2>1. /\ notes' = notes \cup {<<r, e.first, l>> : e \in prior}
        /\ UNCHANGED <<entries, nextSeq, answered, context>>
    BY <1>4 DEF ReadCache!CachedReadStub
  <2>2. \A n \in notes' : n \in Workers \X (1..nextSeq) \X ReadCache!Files /\ answered[n[2]] = n[3]
    <3>1. ASSUME NEW e \in prior
          PROVE  /\ <<r, e.first, l>> \in Workers \X (1..nextSeq) \X ReadCache!Files
                 /\ answered[<<r, e.first, l>>[2]] = <<r, e.first, l>>[3]
      BY <1>1, <1>3
    <3>2. \A n \in notes : n \in Workers \X (1..nextSeq) \X ReadCache!Files /\ answered[n[2]] = n[3]
      BY DEF ReadInv, ReadCache!TypeOK, ReadCache!NotesAreTrue
    <3> QED
      BY <2>1, <3>1, <3>2
  <2>3. ReadCache!NotesAreTrue'
    BY <1>1, <2>1, <2>2 DEF ReadCache!NotesAreTrue
  <2> QED
    BY <1>1, <1>2, <2>1, <2>2, <2>3 DEF ReadInv, ReadCache!TypeOK, ReadCall, EntriesAreTrue
<1>5. CASE prior = {}
  <2> DEFINE e == [hash |-> l, first |-> nextSeq + 1]
  <2>1. /\ nextSeq' = nextSeq + 1 /\ entries' = [entries EXCEPT ![x] = {e}]
        /\ answered' = Append(answered, l) /\ context' = [context EXCEPT ![r] = @ \cup {nextSeq'}]
        /\ UNCHANGED notes
    BY <1>5 DEF ReadCache!CachedReadStub, ReadCache!Fingerprint
  <2>2. /\ answered' \in Seq(ReadCache!Files) /\ Len(answered') = nextSeq' /\ nextSeq' \in Nat
        /\ answered'[nextSeq + 1] = l /\ \A n \in 1..nextSeq : answered'[n] = answered[n]
    BY <1>1, <2>1
  <2>3. e \in [hash : ReadCache!Files, first : 1..nextSeq'] /\ e.first = nextSeq + 1 /\ e.hash = l
    BY <1>1, <2>1
  <2> HIDE DEF e, x, l
  <2>4. /\ DOMAIN entries' = ReadCache!Ranges /\ entries'[x] = {e}
        /\ \A y \in ReadCache!Ranges \ {x} : entries'[y] = entries[y]
    BY <1>1, <2>1 DEF ReadInv
  <2>5. 1..nextSeq \subseteq 1..nextSeq'
    BY <1>1, <2>1
  <2>6. ASSUME NEW y \in ReadCache!Ranges
        PROVE  /\ Cardinality(entries'[y]) <= 1
               /\ entries'[y] \subseteq [hash : ReadCache!Files, first : 1..nextSeq']
               /\ \A d \in entries'[y] : answered'[d.first] = d.hash
    <3>1. CASE y = x
      BY <2>2, <2>3, <2>4, <3>1, ReadAtMostOne
    <3>2. CASE y # x
      <4>1. /\ Cardinality(entries[y]) <= 1 /\ entries[y] \subseteq [hash : ReadCache!Files, first : 1..nextSeq]
            /\ \A d \in entries[y] : answered[d.first] = d.hash
        BY ReadCardinality DEF ReadInv, ReadCache!TypeOK, EntriesAreTrue
      <4> QED
        BY <2>2, <2>4, <2>5, <3>2, <4>1
    <3> QED
      BY <3>1, <3>2
  <2>7. context' \in [Workers -> SUBSET (1..nextSeq')]
    BY <1>1, <2>1, <2>5, ReadCardinality DEF ReadCache!TypeOK
  <2>8. notes' \subseteq Workers \X (1..nextSeq') \X ReadCache!Files
    BY <1>1, <2>1, <2>5, ReadCardinality DEF ReadCache!TypeOK
  <2>9. ReadCache!NotesAreTrue'
    <3>1. ASSUME NEW n \in notes
          PROVE  n[2] \in 1..nextSeq /\ answered[n[2]] = n[3]
      BY <1>1 DEF ReadInv, ReadCache!NotesAreTrue
    <3> QED
      BY <2>1, <2>2, <2>5, <3>1 DEF ReadCache!NotesAreTrue
  <2>10. ReadCache!TypeOK'
    BY <1>1, <1>2, <2>2, <2>6, <2>7, <2>8, ReadCardinality DEF ReadCache!TypeOK, ReadCall
  <2> QED
    BY <1>2, <2>4, <2>6, <2>9, <2>10 DEF ReadInv, EntriesAreTrue
<1> QED
  BY <1>4, <1>5

\* Somebody else writes the file.
LEMMA FileStep ==
  ASSUME ReadInv, ReadCache!Locks \/ ReadCache!Writes \/ ReadCache!CommandWrites \/ (\E r \in Workers : ReadCache!Forgets(r)) PROVE ReadInv'
<1>1. UNCHANGED <<readCacheCall, entries, nextSeq, reads, answered, notes>>
  BY DEF ReadCache!Locks, ReadCache!Writes, ReadCache!CommandWrites, ReadCache!Forgets
<1>2. readCacheFile' \in ReadCache!Files /\ writing' \in BOOLEAN /\ context' \in [Workers -> SUBSET (1..nextSeq)]
  BY DEF ReadCache!Locks, ReadCache!Writes, ReadCache!CommandWrites, ReadCache!Forgets, ReadInv, ReadCache!TypeOK
<1> QED
  BY <1>1, <1>2 DEF ReadInv, ReadCache!TypeOK, AskedInFull, EntriesAreTrue, ReadCache!NotesAreTrue

\* Every step keeps the invariant of the cache.
LEMMA ReadStep == ASSUME ReadInv, [ReadCache!Next]_ReadCache!vars PROVE ReadInv'
<1>1. CASE UNCHANGED ReadCache!vars
  BY <1>1 DEF ReadCache!vars, ReadInv, ReadCache!TypeOK, AskedInFull, EntriesAreTrue, ReadCache!NotesAreTrue
<1>2. CASE ReadCache!Next
  BY <1>2, ReadCallStep, StubStep, FileStep DEF ReadCache!Next
<1> QED
  BY <1>1, <1>2

-----------------------------------------------------------------------------
(* All of them. *)

\* Each component begins as it does alone.
LEMMA InitAll ==
  ASSUME MCInit
  PROVE  /\ IInv /\ FilesInv /\ TodoInv /\ MemoryInv
         /\ UpdateInv /\ SessionInv /\ ShellsInv /\ ReadInv
<1>1. /\ Init /\ FileEdits!Init /\ Todo!Init /\ Memory!Init
      /\ Update!Init /\ ShellSession!Init /\ Shells!Init /\ ReadCache!Init
  BY DEF MCInit
<1> QED
  BY <1>1, InitIInv, InitFiles, InitTodo, InitMemory, InitUpdate, InitSession, InitShells, InitRead

\* A step is one of one component, or of none.
LEMMA StepOfEach ==
  ASSUME [MCNext]_MCVars
  PROVE  /\ [Next]_vars /\ [FileEdits!Next]_FileEdits!vars /\ [Todo!Next]_Todo!vars
         /\ [Memory!Next]_Memory!vars /\ [Update!Next]_Update!vars
         /\ [ShellSession!Next]_ShellSession!vars /\ [Shells!Next]_Shells!vars
         /\ [ReadCache!Next]_ReadCache!vars
<1>1. [Next]_vars
  BY DEF MCNext, MCVars
<1>2. [FileEdits!Next]_FileEdits!vars
  BY DEF MCNext, MCVars, fileEditsVars, FileEdits!vars, FileEdits!tracker, FileEdits!ghosts
<1>3. [Todo!Next]_Todo!vars
  BY DEF MCNext, MCVars, todoVars, Todo!vars, Todo!list
<1>4. [Memory!Next]_Memory!vars
  BY DEF MCNext, MCVars, memoryVars, Memory!vars, Memory!registry, Memory!history
<1>5. [Update!Next]_Update!vars
  BY DEF MCNext, MCVars, updateVars, Update!vars, Update!files
<1>6. [ShellSession!Next]_ShellSession!vars
  BY DEF MCNext, MCVars, shellSessionVars, ShellSession!vars, ShellSession!ring, ShellSession!process
<1>7. [Shells!Next]_Shells!vars
  BY DEF MCNext, MCVars, shellsVars, Shells!vars, Shells!ui
<1>8. [ReadCache!Next]_ReadCache!vars
  BY DEF MCNext, MCVars, readCacheVars, ReadCache!vars
<1> QED
  BY <1>1, <1>2, <1>3, <1>4, <1>5, <1>6, <1>7, <1>8

\* Every component keeps its inductive invariant.
LEMMA AllInvariant ==
  MCSpec => [](/\ IInv /\ FilesInv /\ TodoInv /\ MemoryInv
               /\ UpdateInv /\ SessionInv /\ ShellsInv /\ ReadInv)
<1> DEFINE Inv == /\ IInv /\ FilesInv /\ TodoInv /\ MemoryInv
                  /\ UpdateInv /\ SessionInv /\ ShellsInv /\ ReadInv
<1>1. MCInit => Inv
  BY InitAll
<1>2. Inv /\ [MCNext]_MCVars => Inv'
  <2> SUFFICES ASSUME Inv, [MCNext]_MCVars PROVE Inv'
    OBVIOUS
  <2>1. IInv' /\ FilesInv' /\ TodoInv' /\ MemoryInv'
    BY StepOfEach, StepIInv, FilesStep, TodoStep, MemoryStep
  <2>2. UpdateInv' /\ SessionInv' /\ ShellsInv' /\ ReadInv'
    BY StepOfEach, UpdateStep, SessionStep, ShellsStep, ReadStep
  <2> QED
    BY <2>1, <2>2
<1> HIDE DEF Inv
<1>3. MCSpec => []Inv
  BY <1>1, <1>2, PTL DEF MCSpec
<1> QED
  BY <1>3 DEF Inv

\* The types of every component: what each of them keeps is what its code can hold,
\* within the bounds of its constants.
THEOREM ToolsTypeCorrect == MCSpec => []MCTypeOK
<1>1. FilesInv => FileEdits!TypeOK
  <2> SUFFICES ASSUME FilesInv PROVE FileEdits!TypeOK
    OBVIOUS
  <2>1. FileTypes /\ \A c \in FileEdits!ToSet(fileEditsItems) : c.step <= nextStep
    BY DEF FilesInv, StepsFresh
  <2>2. \A w \in Workers : op[w].first <= op[w].step /\ op[w].step <= nextStep
    BY DEF FilesInv, Sound, InFlight
  <2> QED
    BY <2>1, <2>2 DEF FileTypes, FileEdits!TypeOK
<1>2. TodoInv => Todo!TypeOK
  <2> SUFFICES ASSUME TodoInv PROVE Todo!TypeOK
    OBVIOUS
  <2>1. todoItems \in Seq(TodoItem) /\ todoNextID \in 0..MaxTodos
    BY DEF TodoInv, Proper, TodoList
  <2>2. MaxTodos \in Nat
    BY TodoBounds DEF Todo!TodoConstants
  <2>3. ASSUME NEW n \in DOMAIN todoItems
        PROVE  todoItems[n] \in [id : Todo!Ids, status : Todo!States, by : Workers \cup {Todo!Nobody}]
    <3>1. todoItems[n] \in TodoItem
      BY <2>1
    <3>2. todoItems[n].id \in 1..todoNextID
      BY DEF TodoInv, Proper, Distinct
    <3>3. todoItems[n].id \in Todo!Ids
      BY <2>1, <2>2, <3>2 DEF Todo!Ids
    <3> QED
      BY <3>1, <3>3 DEF TodoItem
  <2> QED
    BY <2>1, <2>3 DEF TodoInv, Todo!TypeOK
<1>3. IInv => TypeOK
  BY BusTypes
<1>4. UpdateInv /\ MemoryInv /\ ShellsInv /\ ReadInv =>
        Update!TypeOK /\ Memory!TypeOK /\ Shells!TypeOK /\ ReadCache!TypeOK
  BY DEF UpdateInv, MemoryInv, ShellsInv, ReadInv
<1>5. SessionInv => ShellSession!TypeOK
  BY SessionTold
<1>6. IInv /\ FilesInv /\ TodoInv /\ MemoryInv /\ UpdateInv /\ SessionInv /\ ShellsInv /\ ReadInv
        => MCTypeOK
  BY <1>1, <1>2, <1>3, <1>4, <1>5 DEF MCTypeOK
<1> QED
  BY <1>6, AllInvariant, PTL

\* Files come back.  Rewinding to any step gives every file the content it had before
\* its first change since, whatever calls ran side by side, failed, were rolled back or
\* were cut off by a crash; a transaction leaves all of its files changed or none; and an
\* update leaves the program that was there or the whole new one.
THEOREM FilesAreRestored == MCSpec => []FilesComeBack
<1>1. FilesInv => FileEdits!RewindRestores /\ FileEdits!AllOrNothing
  BY InvRestores, InvWhole
<1>2. UpdateInv => Update!ExecutableIsWhole
  BY UpdateIsWhole
<1>3. FilesInv /\ UpdateInv => FilesComeBack
  BY <1>1, <1>2 DEF FilesComeBack
<1> QED
  BY <1>3, AllInvariant, PTL

\* What a caller was told is noted is what a restart finds: the todo list as it was last
\* shown, with no id twice, and every memory that was said to be kept, in its file and,
\* when it is named in a query, in what is shown.
THEOREM NotesAreKept == MCSpec => []NotesSurvive
<1>1. TodoInv /\ MemoryInv => NotesSurvive
  BY TodoSurvives, MemorySurvives DEF NotesSurvive
<1> QED
  BY <1>1, AllInvariant, PTL

\* What a tool tells is true: from any offset and through every wrap of the ring a reader
\* gets what bash wrote there, a sleeper has passed over no sentinel the ring still holds,
\* a shell that has ended is not shown as open once its events are read, no id is given
\* out twice, and what read_file says of an earlier answer is true of that answer.
THEOREM ToolsTellTruth == MCSpec => []ToldIsTrue
<1>1. SessionInv => ShellSession!ReadsWhatWasWritten /\ ShellSession!SleeperMissesNothing
  BY SessionTold
<1>2. ShellsInv => Shells!EndedIsShown /\ Shells!IdsAreFresh
  BY ShellsTold
<1>3. ReadInv => ReadCache!NotesAreTrue
  BY DEF ReadInv
<1>4. SessionInv /\ ShellsInv /\ ReadInv => ToldIsTrue
  BY <1>1, <1>2, <1>3 DEF ToldIsTrue
<1> QED
  BY <1>4, AllInvariant, PTL

\* Nobody acts on an event that the log has not been given: Publish serves the sinks
\* before the subscribers, and whoever subscribes does so after the logger was added.
THEOREM ActedIsLogged == MCSpec => []LoggedFirst
<1>1. IInv => LoggedFirst
  BY DEF IInv, Order
<1> QED
  BY <1>1, AllInvariant, PTL
=============================================================================
