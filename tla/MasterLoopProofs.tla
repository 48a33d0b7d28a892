-------------------------- MODULE MasterLoopProofs --------------------------
(***************************************************************************)
(* Proofs about MasterLoop for every number of workers, messages, turns,   *)
(* retries and tool calls, every capacity of masterIn and every number of  *)
(* exchanges that compaction keeps.                                        *)
(*                                                                         *)
(* IInv adds to the checked invariants what they rest on: where takeTurns  *)
(* stands bounds its turn counter; the results recorded so far are those   *)
(* of the last answer's calls, with calls still to come; pendingEvs and    *)
(* activeContext are never both in use, so that clearing one of them at    *)
(* the start or the end of takeTurns forgets nothing.                      *)
(***************************************************************************)
EXTENDS MasterLoop, ConversationProofs

InTurns == {"head", "stream", "tools", "compact"}

\* A request is made, answered or retried only below the turn limit.
LoopInv == pc \in {"stream", "tools", "compact"} => turn < MaxTurns

\* A result is recorded only for a call of the last answer, and no cut but a halving
\* parts the two.
OrphanInv ==
  /\ ~halved => ResultsHaveCalls(history)
  /\ pc = "tools" => Owes(history, calls)

\* pendingEvs is empty from the start of takeTurns, activeContext outside it, and a
\* history is compacted only behind an answer.
WaitingInv ==
  /\ NothingForgotten
  /\ pc \in InTurns => pending = {}
  /\ pc \notin InTurns => context = {}
  /\ pc = "compact" => Waiting = {}

IInv ==
  /\ TypeOK
  /\ LoopInv
  /\ OrphanInv
  /\ WaitingInv

-----------------------------------------------------------------------------
\* The constants, one by one.
LEMMA Constants ==
  /\ MaxMsgs \in Nat /\ MaxStirs \in Nat /\ MaxTrims \in Nat
  /\ MaxIdleRetries \in Nat /\ MaxTransient \in Nat
  /\ InboxCap \in Nat \ {0} /\ MaxTurns \in Nat \ {0}
  /\ KeepExchanges \in Nat \ {0} /\ MaxCalls \in Nat \ {0}
BY ConstantsAssumption

\* The messages the loop appends are messages.
LEMMA MessageFacts ==
  /\ Note \in Message(MaxCalls, MaxMsgs)
  /\ Result \in Message(MaxCalls, MaxMsgs)
  /\ \A n \in 0..MaxCalls : Assistant(n) \in Message(MaxCalls, MaxMsgs)
  /\ \A k \in 1..MaxMsgs : UserMsg(k) \in Message(MaxCalls, MaxMsgs)
BY Constants DEF Note, UserMsg, Assistant, Result, Message

\* The master starts with an empty history, outside of a turn, with nothing to tell.
LEMMA InitIInv == Init => IInv
<1> SUFFICES ASSUME Init PROVE IInv
  OBVIOUS
<1> USE Constants DEF Init
<1>1. /\ history \in Seq(Message(MaxCalls, MaxMsgs)) /\ history \in History
      /\ Len(history) \in {0, 1}
      /\ \A i \in 1..Len(history) : history[i].role = "user"
  <2>1. Note \in Message(MaxCalls, MaxMsgs) /\ Note.role = "user"
    BY MessageFacts DEF Note, UserMsg
  <2>2. /\ history \in Seq(Message(MaxCalls, MaxMsgs)) /\ Len(history) \in {0, 1}
        /\ \A i \in 1..Len(history) : history[i] = Note
    <3>1. CASE history = <<>>
      BY <3>1
    <3>2. CASE history = <<Note>>
      <4>1. Len(<<Note>>) = 1 /\ <<Note>>[1] = Note /\ <<Note>> \in Seq(Message(MaxCalls, MaxMsgs))
        BY <2>1
      <4>2. \A i \in 1..Len(<<Note>>) : <<Note>>[i] = Note
        BY <4>1
      <4> QED
        BY <3>2, <4>1, <4>2, Zenon
    <3> QED
      BY <3>1, <3>2
  <2> QED
    BY <2>1, <2>2, HistoryType
<1>2. TypeOK
  <2>1. inbox \in BoundedSeq(Events, InboxCap)
    <3>1. <<>> \in [1..0 -> Events] /\ 0 \in 0..InboxCap
      OBVIOUS
    <3> QED
      BY <3>1 DEF BoundedSeq, SeqOf
  <2>2. /\ wstate \in [Workers -> {"unborn", "running", "cancelled", "ended", "stopped"}]
        /\ fate \in [Items -> {"none", "taken", "answered", "excused"}]
        /\ tries \in [trim : 0..MaxTrims, idle : 0..MaxIdleRetries, transient : 0..MaxTransient]
    BY DEF NoTries
  <2>3. /\ turn \in 0..MaxTurns /\ calls \in 0..MaxCalls /\ sent \in 0..MaxMsgs
        /\ stirs \in 0..MaxStirs
    OBVIOUS
  <2>4. /\ pc \in {"idle", "drain", "begin", "head", "stream", "tools", "compact"}
        /\ runTurn \in BOOLEAN /\ paused \in BOOLEAN /\ esc \in BOOLEAN /\ halved \in BOOLEAN
        /\ turnCtx \in {"none", "live", "canceled"}
        /\ pending \subseteq Workers /\ context \subseteq Workers
    BY Zenon
  <2> QED
    BY <1>1, <2>1, <2>2, <2>3, <2>4, Zenon DEF TypeOK
<1>3. LoopInv /\ WaitingInv
  BY DEF LoopInv, WaitingInv, InTurns, NothingForgotten, Waiting
<1>4. OrphanInv
  BY <1>1, OrphansIff DEF OrphanInv
<1> QED
  BY <1>2, <1>3, <1>4 DEF IInv

-----------------------------------------------------------------------------
(* The queue and its events. *)

\* What is taken out of masterIn is an event, and what is left fits.
LEMMA QueueFacts ==
  ASSUME TypeOK
  PROVE  /\ inbox \in Seq(Events) /\ Len(inbox) \in 0..InboxCap
         /\ inbox # <<>> => Head(inbox) \in Events /\ Tail(inbox) \in BoundedSeq(Events, InboxCap)
         /\ \A e \in Events : Post(e) => inbox' \in BoundedSeq(Events, InboxCap)
<1>1. PICK m \in 0..InboxCap : inbox \in [1..m -> Events]
  BY DEF TypeOK, BoundedSeq, SeqOf
<1>2. inbox \in Seq(Events) /\ Len(inbox) = m
  BY <1>1, Constants
<1>3. ASSUME NEW q \in Seq(Events), Len(q) <= InboxCap
      PROVE  q \in BoundedSeq(Events, InboxCap)
  <2>1. Len(q) \in 0..InboxCap /\ q \in [1..Len(q) -> Events]
    BY <1>3, Constants, LenProperties
  <2> QED
    BY <2>1 DEF BoundedSeq, SeqOf
<1>4. inbox # <<>> => Head(inbox) \in Events /\ Tail(inbox) \in BoundedSeq(Events, InboxCap)
  <2> SUFFICES ASSUME inbox # <<>>
               PROVE  Head(inbox) \in Events /\ Tail(inbox) \in BoundedSeq(Events, InboxCap)
    OBVIOUS
  <2>1. Head(inbox) \in Events /\ Tail(inbox) \in Seq(Events) /\ Len(Tail(inbox)) = Len(inbox) - 1
    BY <1>2, HeadTailProperties
  <2>2. Len(Tail(inbox)) <= InboxCap
    BY <1>1, <1>2, <2>1, Constants
  <2> QED
    BY <1>3, <2>1, <2>2
<1>5. ASSUME NEW e \in Events, Post(e)
      PROVE  inbox' \in BoundedSeq(Events, InboxCap)
  <2>1. CASE Len(inbox) < InboxCap
    <3>1. inbox' \in Seq(Events) /\ Len(inbox') = Len(inbox) + 1
      BY <1>2, <1>5, <2>1, AppendProperties DEF Post
    <3> QED
      BY <1>2, <1>3, <2>1, <3>1, Constants
  <2>2. CASE ~(Len(inbox) < InboxCap)
    BY <1>5, <2>2 DEF Post, TypeOK
  <2> QED
    BY <2>1, <2>2
<1> QED
  BY <1>2, <1>4, <1>5

\* The messages a history tells, when one is appended or it is cut.
LEMMA ToldAppend ==
  ASSUME NEW h \in Seq(Message(MaxCalls, MaxMsgs)), NEW m \in Message(MaxCalls, MaxMsgs)
  PROVE  Told(Append(h, m)) = Told(h) \cup ({m.msg} \ {0})
<1>1. /\ Len(h) \in Nat /\ Len(Append(h, m)) = Len(h) + 1
      /\ \A i \in 1..Len(h) : Append(h, m)[i] = h[i]
      /\ Append(h, m)[Len(h) + 1] = m
      /\ Append(h, m) \in Seq(Message(MaxCalls, MaxMsgs))
  BY AppendProperties, LenProperties
<1>2. DOMAIN h = 1..Len(h) /\ DOMAIN Append(h, m) = 1..(Len(h) + 1)
  BY <1>1, LenProperties
<1> DEFINE g == Append(h, m)
<1> HIDE DEF g
<1>3. ASSUME NEW i \in 1..(Len(h) + 1)
      PROVE  i \in 1..Len(h) \/ i = Len(h) + 1
  BY <1>1
<1>4. 1..Len(h) \subseteq 1..(Len(h) + 1) /\ Len(h) + 1 \in 1..(Len(h) + 1)
  BY <1>1
<1>5. {g[i].msg : i \in DOMAIN g} = {h[i].msg : i \in DOMAIN h} \cup {m.msg}
  BY <1>1, <1>2, <1>3, <1>4 DEF g
<1> QED
  BY <1>5 DEF Told, g

\* The master's history is one of Conversation's.
LEMMA HistoryFacts ==
  ASSUME NEW h \in Seq(Message(MaxCalls, MaxMsgs))
  PROVE  h \in History /\ Len(h) \in Nat
BY Constants, HistoryType, MessagesOf

\* Giving up takes the items out of those that wait, and nothing else.
LEMMA GiveUpFacts ==
  ASSUME TypeOK, NEW items, GiveUp(items)
  PROVE  /\ fate' \in [Items -> {"none", "taken", "answered", "excused"}]
         /\ Waiting' = Waiting \ items
BY DEF TypeOK, GiveUp, Waiting

\* So does an answer with all that its request told.
LEMMA AnsweredFacts ==
  ASSUME TypeOK,
         fate' = [x \in Items |-> IF x \in InRequest THEN "answered" ELSE fate[x]]
  PROVE  /\ fate' \in [Items -> {"none", "taken", "answered", "excused"}]
         /\ Waiting' = Waiting \ InRequest
BY DEF TypeOK, Waiting

\* Handling an event puts what it brings where the next request finds it.
LEMMA HandleFacts ==
  ASSUME IInv, NEW ev \in Events, Handle(ev)
  PROVE  /\ history' \in Seq(Message(MaxCalls, MaxMsgs))
         /\ ResultsHaveCalls(history) => ResultsHaveCalls(history')
         /\ pending' \subseteq Workers /\ pending \subseteq pending'
         /\ fate' \in [Items -> {"none", "taken", "answered", "excused"}]
         /\ Waiting' \subseteq Told(history') \cup pending' \cup context
<1>0. TypeOK /\ history \in Seq(Message(MaxCalls, MaxMsgs)) /\ history \in History
  BY HistoryFacts DEF IInv, TypeOK
<1>1. /\ pending' = pending \cup {w \in Workers : ev = EndEvent(w)}
      /\ fate' = [x \in Items |-> IF ev \in {UserEvent(x), EndEvent(x)} THEN "taken" ELSE fate[x]]
      /\ history' = IF ev.kind = "user" THEN Append(history, UserMsg(ev.msg)) ELSE history
  BY DEF Handle
<1>2. /\ pending' \subseteq Workers /\ pending \subseteq pending'
      /\ fate' \in [Items -> {"none", "taken", "answered", "excused"}]
  BY <1>0, <1>1 DEF TypeOK
<1>3. Waiting' \subseteq Waiting \cup {x \in Items : ev \in {UserEvent(x), EndEvent(x)}}
  BY <1>0, <1>1 DEF TypeOK, Waiting
<1>4. Waiting \subseteq Told(history) \cup pending \cup context
  BY DEF IInv, WaitingInv, NothingForgotten
<1>5. CASE ev.kind = "user"
  <2>1. ev.msg \in 1..MaxMsgs /\ ev = UserEvent(ev.msg)
    BY <1>5 DEF Events, UserEvent, ProgressEvent, CancelAllEvent
  <2> DEFINE m == UserMsg(ev.msg)
  <2>2. m \in Message(MaxCalls, MaxMsgs) /\ m.msg = ev.msg /\ ev.msg # 0
        /\ m.role = "user" /\ m.calls = 0
    BY <2>1, MessageFacts DEF UserMsg
  <2>3. history' = Append(history, m)
    BY <1>1, <1>5
  <2> HIDE DEF m
  <2>4. Told(history') = Told(history) \cup {ev.msg}
    BY <1>0, <2>2, <2>3, ToldAppend
  <2>5. \A x \in Items : ev \in {UserEvent(x), EndEvent(x)} => x = ev.msg
    BY <1>5 DEF UserEvent, EndEvent
  <2>6. history' \in Seq(Message(MaxCalls, MaxMsgs))
    BY <1>0, <2>2, <2>3, AppendProperties
  <2>7. ResultsHaveCalls(history) => ResultsHaveCalls(history')
    <3>1. m \in [role : {"user", "assistant", "tool"}, calls : Nat, msg : Nat]
      BY <2>2, Constants DEF Message
    <3> QED
      BY <1>0, <2>2, <2>3, <3>1, AppendMessage
  <2> QED
    BY <1>2, <1>3, <1>4, <2>4, <2>5, <2>6, <2>7
<1>6. CASE ev.kind # "user"
  <2>1. history' = history
    BY <1>1, <1>6
  <2>2. ASSUME NEW x \in Items, ev \in {UserEvent(x), EndEvent(x)}
        PROVE  x \in pending'
    <3>1. ev = EndEvent(x)
      BY <1>6, <2>2 DEF UserEvent, EndEvent
    <3>2. x \in Workers
      BY <3>1 DEF Events, EndEvent, ProgressEvent, CancelAllEvent
    <3> QED
      BY <1>1, <3>1, <3>2
  <2> QED
    BY <1>0, <1>2, <1>3, <1>4, <2>1, <2>2
<1> QED
  BY <1>5, <1>6

\* A cut of the master's: the type stays, and a clean one parts no result from its
\* call.
LEMMA CutFacts ==
  ASSUME NEW h \in Seq(Message(MaxCalls, MaxMsgs))
  PROVE  /\ CanTrim(h) => /\ MasterTrimmed(h) \in Seq(Message(MaxCalls, MaxMsgs))
                          /\ Boundaries(h) # {} /\ ResultsHaveCalls(h) =>
                               ResultsHaveCalls(MasterTrimmed(h))
         /\ Compacted(h, KeepExchanges) \in Seq(Message(MaxCalls, MaxMsgs))
         /\ ResultsHaveCalls(h) => ResultsHaveCalls(Compacted(h, KeepExchanges))
<1>1. h \in History /\ KeepExchanges \in Nat \ {0} /\ Note \in Message(MaxCalls, MaxMsgs)
  BY HistoryFacts, Constants, MessageFacts
<1>2. ASSUME CanTrim(h)
      PROVE  /\ MasterTrimmed(h) \in Seq(Message(MaxCalls, MaxMsgs))
             /\ Boundaries(h) # {} /\ ResultsHaveCalls(h) => ResultsHaveCalls(MasterTrimmed(h))
  <2>1. PICK from \in 1..Len(h) :
          /\ Boundaries(h) # {} => h[from].role # "tool"
          /\ MasterTrimmed(h) = <<Note>> \o SubSeq(h, from, Len(h))
    BY <1>1, <1>2, MasterTrimmedIsCut
  <2> QED
    BY <1>1, <2>1, CutBehindNote
<1>3. /\ Compacted(h, KeepExchanges) \in Seq(Message(MaxCalls, MaxMsgs))
      /\ ResultsHaveCalls(h) => ResultsHaveCalls(Compacted(h, KeepExchanges))
  <2>1. ASSUME NEW from \in 1..Len(h), h[from].role # "tool",
               Compacted(h, KeepExchanges) = <<Note>> \o SubSeq(h, from, Len(h))
        PROVE  /\ Compacted(h, KeepExchanges) \in Seq(Message(MaxCalls, MaxMsgs))
               /\ ResultsHaveCalls(h) => ResultsHaveCalls(Compacted(h, KeepExchanges))
    BY <1>1, <2>1, CutBehindNote
  <2> QED
    BY <1>1, <2>1, CompactedIsCut
<1> QED
  BY <1>2, <1>3

-----------------------------------------------------------------------------
(* Every step keeps the inductive invariant. *)

\* The surroundings fill the queue and change what they own.
LEMMA OutsideStep ==
  ASSUME IInv,
         \/ SendMessage \/ TogglePause \/ CancelInFlight \/ TellCancelAll
         \/ \E w \in Workers : WorkerProgress(w) \/ WorkerEnds(w)
  PROVE  IInv'
<1>0. TypeOK
  BY DEF IInv
<1>1. ASSUME UNCHANGED masterVars, TypeOK'
      PROVE  IInv'
  BY <1>1 DEF masterVars, turnVars, ghosts, IInv, LoopInv, OrphanInv, WaitingInv, InTurns,
              NothingForgotten, Waiting
<1> USE DEF masterVars, turnVars, ghosts
<1>2. CASE SendMessage
  <2>1. sent' \in 0..MaxMsgs /\ UserEvent(sent') \in Events
    BY <1>0, <1>2, Constants DEF SendMessage, TypeOK, Events, UserEvent
  <2>2. inbox' \in BoundedSeq(Events, InboxCap)
    BY <1>0, <1>2, <2>1, QueueFacts DEF SendMessage
  <2> QED
    BY <1>0, <1>1, <1>2, <2>1, <2>2 DEF SendMessage, TypeOK
<1>3. CASE TogglePause
  BY <1>0, <1>1, <1>3, Constants DEF TogglePause, Stir, TypeOK
<1>4. CASE CancelInFlight
  BY <1>0, <1>1, <1>4, Constants DEF CancelInFlight, Stir, TypeOK
<1>5. CASE TellCancelAll
  <2>1. inbox' \in BoundedSeq(Events, InboxCap)
    BY <1>0, <1>5, QueueFacts DEF TellCancelAll, Events
  <2> QED
    BY <1>0, <1>1, <1>5, <2>1 DEF TellCancelAll, TypeOK
<1>6. ASSUME NEW w \in Workers, WorkerProgress(w)
      PROVE  IInv'
  <2>1. inbox' \in BoundedSeq(Events, InboxCap)
    BY <1>0, <1>6, QueueFacts DEF WorkerProgress, Events
  <2> QED
    BY <1>0, <1>1, <1>6, <2>1, Constants DEF WorkerProgress, Stir, TypeOK
<1>7. ASSUME NEW w \in Workers, WorkerEnds(w)
      PROVE  IInv'
  <2>1. inbox' \in BoundedSeq(Events, InboxCap)
    BY <1>0, <1>7, QueueFacts DEF WorkerEnds, Events, EndEvent
  <2> QED
    BY <1>0, <1>1, <1>7, <2>1 DEF WorkerEnds, TypeOK
<1> QED
  BY <1>2, <1>3, <1>4, <1>5, <1>6, <1>7

\* Run between its turns: an event is handled or everything pending is discarded.
LEMMA QueueStep ==
  ASSUME IInv, TakeEvent \/ DrainEvent \/ DrainDone \/ Tick
  PROVE  IInv'
<1>0. TypeOK /\ OrphanInv /\ WaitingInv
  BY DEF IInv
<1> USE DEF turnVars, outside
<1>1. ASSUME pc \in {"idle", "drain"}, pc' \in {"idle", "drain"}, inbox # <<>>,
             inbox' = Tail(inbox), runTurn' \in BOOLEAN,
             UNCHANGED <<turnCtx, turnVars, halved, outside>>,
             \/ Handle(Head(inbox))
             \/ pending' = {} /\ history' = history /\ (GiveUp(pending) \/ GiveUp(Items))
      PROVE  IInv'
  <2>1. Head(inbox) \in Events /\ inbox' \in BoundedSeq(Events, InboxCap)
    BY <1>0, <1>1, QueueFacts
  <2>2. /\ history' \in Seq(Message(MaxCalls, MaxMsgs))
        /\ ResultsHaveCalls(history) => ResultsHaveCalls(history')
        /\ pending' \subseteq Workers
        /\ fate' \in [Items -> {"none", "taken", "answered", "excused"}]
        /\ Waiting' \subseteq Told(history') \cup pending' \cup context
    <3>1. CASE Handle(Head(inbox))
      BY <2>1, <3>1, HandleFacts
    <3>2. CASE pending' = {} /\ history' = history /\ (GiveUp(pending) \/ GiveUp(Items))
      <4>1. /\ fate' \in [Items -> {"none", "taken", "answered", "excused"}]
            /\ Waiting' = Waiting \ pending \/ Waiting' = Waiting \ Items
        BY <1>0, <3>2, GiveUpFacts
      <4>2. Waiting \subseteq Items
        BY DEF Waiting
      <4> QED
        BY <1>0, <3>2, <4>1, <4>2 DEF TypeOK, WaitingInv, NothingForgotten
    <3> QED
      BY <1>1, <3>1, <3>2
  <2>3. TypeOK'
    BY <1>0, <1>1, <2>1, <2>2 DEF TypeOK
  <2>4. LoopInv' /\ OrphanInv'
    BY <1>0, <1>1, <2>2 DEF LoopInv, OrphanInv
  <2>5. WaitingInv'
    BY <1>0, <1>1, <2>2 DEF WaitingInv, InTurns, NothingForgotten
  <2> QED
    BY <2>3, <2>4, <2>5 DEF IInv
<1>2. CASE TakeEvent
  <2>1. runTurn' \in BOOLEAN
    <3>1. runTurn' = runTurn \/ runTurn' = Triggers(Head(inbox))
      BY <1>2, Zenon DEF TakeEvent
    <3>2. runTurn \in BOOLEAN
      BY <1>0, Zenon DEF TypeOK
    <3>3. Triggers(Head(inbox)) \in BOOLEAN
      BY DEF Triggers
    <3> QED
      BY <3>1, <3>2, <3>3, Zenon
  <2> QED
    BY <1>1, <1>2, <2>1 DEF TakeEvent
<1>3. CASE DrainEvent
  <2>1. runTurn' \in BOOLEAN
    BY <1>3 DEF DrainEvent, Drain, Triggers
  <2> QED
    BY <1>1, <1>3, <2>1 DEF DrainEvent, Drain
<1>4. CASE DrainDone \/ Tick
  <2>1. /\ pc \in {"idle", "drain"} /\ pc' \in {"idle", "begin"}
        /\ runTurn' \in BOOLEAN /\ stirs' \in 0..MaxStirs
        /\ UNCHANGED <<inbox, turnCtx, history, pending, context, turn, tries, calls, halved,
                       paused, wstate, esc, sent>>
    <3>1. CASE DrainDone
      BY <1>0, <3>1, Zenon DEF DrainDone, TypeOK
    <3>2. CASE Tick
      <4>1. stirs' \in 0..MaxStirs
        BY <1>0, <3>2, Constants DEF Tick, Stir, TypeOK
      <4> QED
        BY <1>0, <3>2, <4>1, Zenon DEF Tick, TypeOK, ghosts
    <3> QED
      BY <1>4, <3>1, <3>2
  <2>2. /\ fate' \in [Items -> {"none", "taken", "answered", "excused"}]
        /\ Waiting' \subseteq Waiting
    <3>1. ASSUME UNCHANGED fate
          PROVE  /\ fate' \in [Items -> {"none", "taken", "answered", "excused"}]
                 /\ Waiting' = Waiting
      BY <1>0, <3>1 DEF TypeOK, Waiting
    <3>2. UNCHANGED fate \/ \E items : GiveUp(items)
      BY <1>4 DEF DrainDone, Tick, ghosts
    <3> QED
      BY <1>0, <3>1, <3>2, GiveUpFacts
  <2>3. TypeOK'
    BY <1>0, <2>1, <2>2 DEF TypeOK
  <2>4. LoopInv' /\ OrphanInv'
    BY <1>0, <2>1 DEF LoopInv, OrphanInv
  <2>5. WaitingInv'
    BY <1>0, <2>1, <2>2 DEF WaitingInv, InTurns, NothingForgotten
  <2> QED
    BY <2>3, <2>4, <2>5 DEF IInv
<1> QED
  BY <1>2, <1>3, <1>4

\* takeTurns.
LEMMA TurnsStep ==
  ASSUME IInv, TakeTurns
  PROVE  IInv'
<1> USE DEF turnVars, ghosts, outside
<1>0. /\ TypeOK /\ LoopInv /\ OrphanInv /\ WaitingInv
      /\ history \in Seq(Message(MaxCalls, MaxMsgs)) /\ history \in History
  BY HistoryFacts DEF IInv, TypeOK
<1>1. CASE BeginTurns
  <2>1. TypeOK'
    BY <1>0, <1>1, Constants DEF BeginTurns, Begin, TypeOK, NoTries
  <2>2. LoopInv' /\ OrphanInv'
    BY <1>0, <1>1 DEF BeginTurns, Begin, LoopInv, OrphanInv
  <2>3. WaitingInv'
    BY <1>0, <1>1
       DEF BeginTurns, Begin, WaitingInv, InTurns, NothingForgotten, Waiting
  <2> QED
    BY <2>1, <2>2, <2>3 DEF IInv
<1>2. CASE TurnLimit \/ TurnCancelled \/ StreamCancelled \/ StreamFails
  <2>1. /\ pc \in {"head", "stream"} /\ pc' = "idle" /\ turnCtx' = "none"
        /\ context' = {} /\ turn' = 0 /\ tries' = NoTries /\ calls' = 0
        /\ GiveUp(Items)
        /\ UNCHANGED <<inbox, runTurn, history, pending, halved, outside>>
    BY <1>2 DEF TurnLimit, TurnCancelled, StreamCancelled, StreamFails, ReturnUnanswered,
                Return
  <2>2. /\ fate' \in [Items -> {"none", "taken", "answered", "excused"}]
        /\ Waiting' = {}
    BY <1>0, <2>1, GiveUpFacts DEF Waiting
  <2>3. TypeOK'
    BY <1>0, <2>1, <2>2, Constants DEF TypeOK, NoTries
  <2>4. LoopInv' /\ OrphanInv' /\ WaitingInv'
    BY <1>0, <2>1, <2>2
       DEF LoopInv, OrphanInv, WaitingInv, InTurns, NothingForgotten
  <2> QED
    BY <2>3, <2>4 DEF IInv
<1>3. CASE Request
  <2>1. TypeOK'
    BY <1>0, <1>3 DEF Request, TypeOK
  <2>2. LoopInv' /\ OrphanInv' /\ WaitingInv'
    BY <1>0, <1>3, Constants
       DEF Request, TypeOK, LoopInv, OrphanInv, WaitingInv, InTurns, NothingForgotten,
           Waiting
  <2> QED
    BY <2>1, <2>2 DEF IInv
<1>4. CASE StreamTooLong
  <2>1. /\ pc = "stream" /\ pc' = "head" /\ turn' = turn + 1 /\ tries.trim < MaxTrims
        /\ tries' = [tries EXCEPT !.trim = @ + 1]
        /\ history' = MasterTrimmed(history) /\ CanTrim(history)
        /\ halved' = (halved \/ Boundaries(history) = {})
        /\ GiveUp(Told(history) \ Told(history'))
        /\ UNCHANGED <<inbox, runTurn, turnCtx, pending, context, calls, outside>>
    BY <1>4 DEF StreamTooLong, TrimAndRetry, NextTurn
  <2>2. /\ history' \in Seq(Message(MaxCalls, MaxMsgs))
        /\ Boundaries(history) # {} /\ ResultsHaveCalls(history) => ResultsHaveCalls(history')
    BY <1>0, <2>1, CutFacts
  <2>3. /\ fate' \in [Items -> {"none", "taken", "answered", "excused"}]
        /\ Waiting' = Waiting \ (Told(history) \ Told(history'))
    BY <1>0, <2>1, GiveUpFacts
  <2>4. turn' \in 0..MaxTurns
    BY <1>0, <2>1, Constants DEF TypeOK, LoopInv
  <2>5. tries' \in [trim : 0..MaxTrims, idle : 0..MaxIdleRetries, transient : 0..MaxTransient]
    <3>1. tries \in [trim : 0..MaxTrims, idle : 0..MaxIdleRetries, transient : 0..MaxTransient]
      BY <1>0 DEF TypeOK
    <3>2. tries.trim + 1 \in 0..MaxTrims
      BY <2>1, <3>1, Constants
    <3>3. tries' = [tries EXCEPT !.trim = tries.trim + 1]
      BY <2>1
    <3> QED
      BY <3>1, <3>2, <3>3
  <2>6. halved' \in BOOLEAN /\ (~halved' => ~halved /\ Boundaries(history) # {})
    BY <2>1, Zenon
  <2>7. TypeOK'
    <3>1. pc' \in {"idle", "drain", "begin", "head", "stream", "tools", "compact"}
      BY <2>1
    <3> QED
      BY <1>0, <2>1, <2>2, <2>3, <2>4, <2>5, <2>6, <3>1, Zenon DEF TypeOK
  <2>8. LoopInv' /\ OrphanInv'
    BY <1>0, <2>1, <2>2, <2>6 DEF LoopInv, OrphanInv
  <2>9. WaitingInv'
    BY <1>0, <2>1, <2>3 DEF WaitingInv, InTurns, NothingForgotten
  <2> QED
    BY <2>7, <2>8, <2>9 DEF IInv
<1>5. ASSUME NEW why \in {"idle", "transient"}, StreamRetries(why)
      PROVE  IInv'
  <2>1. /\ pc = "stream" /\ pc' = "head" /\ turn' = turn + 1
        /\ tries[why] < RetryLimit[why] /\ tries' = [tries EXCEPT ![why] = @ + 1]
        /\ UNCHANGED <<inbox, runTurn, turnCtx, history, pending, context, calls, ghosts,
                       outside>>
    BY <1>5 DEF StreamRetries, NextTurn
  <2>2. turn' \in 0..MaxTurns
    BY <1>0, <2>1, Constants DEF TypeOK, LoopInv
  <2>3. tries' \in [trim : 0..MaxTrims, idle : 0..MaxIdleRetries, transient : 0..MaxTransient]
    <3>1. CASE why = "idle"
      BY <1>0, <2>1, <3>1, Constants DEF TypeOK, RetryLimit
    <3>2. CASE why = "transient"
      BY <1>0, <2>1, <3>2, Constants DEF TypeOK, RetryLimit
    <3> QED
      BY <3>1, <3>2
  <2>4. TypeOK'
    <3>1. pc' \in {"idle", "drain", "begin", "head", "stream", "tools", "compact"}
      BY <2>1
    <3> QED
      BY <1>0, <2>1, <2>2, <2>3, <3>1, Zenon DEF TypeOK
  <2>5. LoopInv' /\ OrphanInv' /\ WaitingInv'
    BY <1>0, <2>1
       DEF LoopInv, OrphanInv, WaitingInv, InTurns, NothingForgotten, Waiting
  <2> QED
    BY <2>4, <2>5 DEF IInv
<1>6. ASSUME NEW empty \in BOOLEAN, NEW large \in BOOLEAN, StreamAnswers(empty, large)
      PROVE  IInv'
  <2>1. /\ pc = "stream"
        /\ history' = history \/ history' = Append(history, Assistant(0))
        /\ fate' = [x \in Items |-> IF x \in InRequest THEN "answered" ELSE fate[x]]
        /\ \/ pc' = "compact" /\ UNCHANGED <<context, turn, tries, calls, turnCtx>>
           \/ /\ pc' = "idle" /\ turnCtx' = "none"
              /\ context' = {} /\ turn' = 0 /\ tries' = NoTries /\ calls' = 0
        /\ UNCHANGED <<inbox, runTurn, pending, halved, outside>>
    BY <1>6 DEF StreamAnswers, Return
  <2>2. /\ fate' \in [Items -> {"none", "taken", "answered", "excused"}]
        /\ Waiting' = Waiting \ (context \cup Told(history))
    BY <1>0, <2>1, AnsweredFacts DEF InRequest
  <2>3. Waiting' = {} /\ pending = {}
    BY <1>0, <2>1, <2>2 DEF WaitingInv, InTurns, NothingForgotten
  <2>4. /\ history' \in Seq(Message(MaxCalls, MaxMsgs))
        /\ ResultsHaveCalls(history) => ResultsHaveCalls(history')
    <3> DEFINE m == Assistant(0)
    <3>1. /\ m \in Message(MaxCalls, MaxMsgs) /\ m.role = "assistant" /\ m.calls \in Nat
          /\ m \in [role : {"user", "assistant", "tool"}, calls : Nat, msg : Nat]
      BY MessageFacts, Constants DEF Assistant, Message
    <3> HIDE DEF m
    <3>2. /\ Append(history, m) \in Seq(Message(MaxCalls, MaxMsgs))
          /\ ResultsHaveCalls(history) => ResultsHaveCalls(Append(history, m))
      BY <1>0, <3>1, AppendProperties, AppendMessage
    <3>3. history' = history \/ history' = Append(history, m)
      BY <2>1 DEF m
    <3> QED
      BY <1>0, <3>2, <3>3
  <2>5. TypeOK'
    <3>1. /\ pc' \in {"idle", "drain", "begin", "head", "stream", "tools", "compact"}
          /\ turnCtx' \in {"none", "live", "canceled"} /\ context' \subseteq Workers
      BY <1>0, <2>1 DEF TypeOK
    <3>2. /\ turn' \in 0..MaxTurns /\ calls' \in 0..MaxCalls
          /\ tries' \in [trim : 0..MaxTrims, idle : 0..MaxIdleRetries, transient : 0..MaxTransient]
      BY <1>0, <2>1, Constants DEF TypeOK, NoTries
    <3> QED
      BY <1>0, <2>1, <2>2, <2>4, <3>1, <3>2, Zenon DEF TypeOK
  <2>6. LoopInv' /\ OrphanInv'
    BY <1>0, <2>1, <2>4 DEF LoopInv, OrphanInv
  <2>7. WaitingInv'
    BY <2>1, <2>3 DEF WaitingInv, InTurns, NothingForgotten
  <2> QED
    BY <2>5, <2>6, <2>7 DEF IInv
<1>7. ASSUME NEW n \in 1..MaxCalls, StreamCallsTools(n)
      PROVE  IInv'
  <2> DEFINE m == Assistant(n)
  <2>1. /\ pc = "stream" /\ pc' = "tools" /\ calls' = n /\ history' = Append(history, m)
        /\ fate' = [x \in Items |-> IF x \in InRequest THEN "answered" ELSE fate[x]]
        /\ UNCHANGED <<inbox, runTurn, turnCtx, pending, context, turn, tries, halved, outside>>
    BY <1>7 DEF StreamCallsTools
  <2>2. /\ fate' \in [Items -> {"none", "taken", "answered", "excused"}]
        /\ Waiting' = Waiting \ (context \cup Told(history))
    BY <1>0, <2>1, AnsweredFacts DEF InRequest
  <2>3. Waiting' = {} /\ pending = {}
    BY <1>0, <2>1, <2>2 DEF WaitingInv, InTurns, NothingForgotten
  <2>4. /\ m \in Message(MaxCalls, MaxMsgs) /\ m.role = "assistant" /\ m.calls = n /\ n \in Nat
        /\ m \in [role : {"user", "assistant", "tool"}, calls : Nat, msg : Nat]
    BY Constants DEF Assistant, Message
  <2> HIDE DEF m
  <2>5. /\ history' \in Seq(Message(MaxCalls, MaxMsgs))
        /\ ResultsHaveCalls(history) => ResultsHaveCalls(history')
        /\ Owes(history', n)
    BY <1>0, <2>1, <2>4, AppendProperties, AppendMessage
  <2>6. TypeOK'
    <3>1. /\ pc' \in {"idle", "drain", "begin", "head", "stream", "tools", "compact"}
          /\ calls' \in 0..MaxCalls
      BY <2>1, Constants
    <3> QED
      BY <1>0, <2>1, <2>2, <2>5, <3>1, Zenon DEF TypeOK
  <2>7. LoopInv' /\ OrphanInv'
    BY <1>0, <2>1, <2>5 DEF LoopInv, OrphanInv
  <2>8. WaitingInv'
    BY <2>1, <2>3 DEF WaitingInv, InTurns, NothingForgotten
  <2> QED
    BY <2>6, <2>7, <2>8 DEF IInv
<1>8. ASSUME NEW spawned, Execute(spawned)
      PROVE  IInv'
  <2>1. /\ pc = "tools" /\ calls > 0 /\ calls' = calls - 1
        /\ history' = Append(history, Result)
        /\ wstate' = [w \in Workers |-> IF w \in spawned THEN "running" ELSE wstate[w]]
        /\ UNCHANGED <<pc, inbox, runTurn, turnCtx, pending, context, turn, tries, ghosts,
                       paused, esc, sent, stirs>>
    BY <1>8 DEF Execute
  <2>2. calls \in Nat \ {0} /\ calls' \in 0..MaxCalls
    BY <1>0, <2>1, Constants DEF TypeOK
  <2>3. /\ history' \in Seq(Message(MaxCalls, MaxMsgs))
        /\ ResultsHaveCalls(history) => ResultsHaveCalls(history')
        /\ Owes(history', calls')
    <3>1. Owes(history, calls)
      BY <1>0, <2>1 DEF OrphanInv
    <3> QED
      BY <1>0, <2>1, <2>2, <3>1, MessageFacts, AppendProperties, AppendResult
  <2>4. Told(history') = Told(history)
    <3>1. Told(history') = Told(history) \cup ({Result.msg} \ {0})
      BY <1>0, <2>1, MessageFacts, ToldAppend
    <3>2. Result.msg = 0
      BY DEF Result
    <3> QED
      BY <3>1, <3>2
  <2>5. TypeOK'
    <3>1. wstate' \in [Workers -> {"unborn", "running", "cancelled", "ended", "stopped"}]
      BY <1>0, <2>1 DEF TypeOK
    <3> QED
      BY <1>0, <2>1, <2>2, <2>3, <3>1, Zenon DEF TypeOK
  <2>6. LoopInv' /\ OrphanInv'
    BY <1>0, <2>1, <2>3 DEF LoopInv, OrphanInv
  <2>7. WaitingInv'
    BY <1>0, <2>1, <2>4 DEF WaitingInv, InTurns, NothingForgotten, Waiting
  <2> QED
    BY <2>5, <2>6, <2>7 DEF IInv
<1>9. CASE ToolsDone
  <2>1. /\ pc = "tools" /\ pc' = "head" /\ calls' = 0 /\ turn' = turn + 1
        /\ UNCHANGED <<inbox, runTurn, turnCtx, history, pending, context, tries, ghosts,
                       outside>>
    BY <1>9 DEF ToolsDone, NextTurn
  <2>2. turn' \in 0..MaxTurns /\ calls' \in 0..MaxCalls
    BY <1>0, <2>1, Constants DEF TypeOK, LoopInv
  <2>3. TypeOK'
    <3>1. pc' \in {"idle", "drain", "begin", "head", "stream", "tools", "compact"}
      BY <2>1
    <3> QED
      BY <1>0, <2>1, <2>2, <3>1, Zenon DEF TypeOK
  <2>4. LoopInv' /\ OrphanInv' /\ WaitingInv'
    BY <1>0, <2>1
       DEF LoopInv, OrphanInv, WaitingInv, InTurns, NothingForgotten, Waiting
  <2> QED
    BY <2>3, <2>4 DEF IInv
<1>10. ASSUME NEW ok \in BOOLEAN, Compact(ok)
       PROVE  IInv'
  <2>1. /\ pc = "compact" /\ pc' = "idle" /\ turnCtx' = "none"
        /\ context' = {} /\ turn' = 0 /\ tries' = NoTries /\ calls' = 0
        /\ history' = history \/ history' = Compacted(history, KeepExchanges)
        /\ UNCHANGED <<inbox, runTurn, pending, ghosts, outside>>
    BY <1>10 DEF Compact, Return
  <2>2. /\ history' \in Seq(Message(MaxCalls, MaxMsgs))
        /\ ResultsHaveCalls(history) => ResultsHaveCalls(history')
    BY <1>0, <2>1, CutFacts
  <2>3. TypeOK'
    <3>1. /\ pc' \in {"idle", "drain", "begin", "head", "stream", "tools", "compact"}
          /\ turnCtx' \in {"none", "live", "canceled"} /\ context' \subseteq Workers
      BY <2>1
    <3>2. /\ turn' \in 0..MaxTurns /\ calls' \in 0..MaxCalls
          /\ tries' \in [trim : 0..MaxTrims, idle : 0..MaxIdleRetries, transient : 0..MaxTransient]
      BY <2>1, Constants DEF NoTries
    <3> QED
      BY <1>0, <2>1, <2>2, <3>1, <3>2, Zenon DEF TypeOK
  <2>4. LoopInv' /\ OrphanInv'
    BY <1>0, <2>1, <2>2 DEF LoopInv, OrphanInv
  <2>5. WaitingInv'
    BY <1>0, <2>1 DEF WaitingInv, InTurns, NothingForgotten, Waiting
  <2> QED
    BY <2>3, <2>4, <2>5 DEF IInv
<1> QED
  BY <1>1, <1>2, <1>3, <1>4, <1>5, <1>6, <1>7, <1>8, <1>9, <1>10 DEF TakeTurns

\* IInv is inductive, hence an invariant of the specification.
LEMMA Invariance == Spec => []IInv
<1>1. IInv /\ [Next]_vars => IInv'
  <2> SUFFICES ASSUME IInv, [Next]_vars PROVE IInv'
    OBVIOUS
  <2>1. CASE UNCHANGED vars
    BY <2>1 DEF vars, IInv, TypeOK, LoopInv, OrphanInv, WaitingInv, InTurns,
                NothingForgotten, Waiting
  <2>2. CASE Next
    BY <2>2, OutsideStep, QueueStep, TurnsStep DEF Next, Run, WorkerSteps
  <2> QED
    BY <2>1, <2>2
<1> QED
  BY InitIInv, <1>1, PTL DEF Spec

-----------------------------------------------------------------------------
(* What the runs check, for every value of the constants. *)

\* Every variable of the master's goroutine keeps its type: masterIn never holds
\* more than it can, no turn, trim or retry counter leaves its range.
THEOREM TypeCorrect == Spec => []TypeOK
<1>1. IInv => TypeOK
  BY DEF IInv
<1> QED
  BY Invariance, <1>1, PTL

\* What is sent answers every call it makes, whatever was cancelled between two
\* calls: the repair of buildParams works on every history.
THEOREM RequestsComplete == Spec => []RequestComplete
<1>1. IInv => RequestComplete
  BY HistoryFacts, RepairWorks DEF IInv, TypeOK, RequestComplete
<1> QED
  BY Invariance, <1>1, PTL

\* No result is sent without its call, unless trimHistory had to halve.
THEOREM RequestsHaveNoOrphans == Spec => []RequestHasNoOrphans
<1>1. IInv => RequestHasNoOrphans
  BY HistoryFacts, RepairWorks DEF IInv, TypeOK, OrphanInv, RequestHasNoOrphans
<1> QED
  BY Invariance, <1>1, PTL

\* What Run has taken in waits where the next request finds it.
THEOREM NothingIsForgotten == Spec => []NothingForgotten
<1>1. IInv => NothingForgotten
  BY DEF IInv, WaitingInv
<1> QED
  BY Invariance, <1>1, PTL
=============================================================================
