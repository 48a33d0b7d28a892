----------------------------- MODULE LspProofs ------------------------------
(***************************************************************************)
(* Proofs about Lsp for every number of callers, servers, calls and        *)
(* requests of a server, with servers that may die at any moment.          *)
(*                                                                         *)
(* IInv follows an answer on its whole way: what a server owes, what it    *)
(* has written, what the reader holds and what lies in a caller's channel. *)
(* At each station the answer that bears the number a caller waits for is  *)
(* the answer to the very request that caller has made last.  It is so     *)
(* because a client gives out a number once (nextID only grows), because   *)
(* two who wait on one client have different numbers, and because nothing  *)
(* is left on the way to a caller when its call is over.                   *)
(***************************************************************************)
EXTENDS Lsp, TLAPS

Answer == [kind : {"answer"}, id : Nat, by : Callers, nr : Nat]
Other == [kind : {"ask", "diagnostics"}, id : Nat]
Message == Answer \cup Other

ServerState ==
  [alive : BOOLEAN, done : BOOLEAN, nextID : Nat, pending : SUBSET [id : Nat, by : Callers],
   owed : SUBSET [id : Nat, by : Callers, nr : Nat], out : Seq(Message),
   held : [to : {Nobody, Stuck}] \cup [to : Callers, msg : Message], asks : Nat, doc : Nat]

CallerState ==
  [pc : {"idle", "look", "start", "register", "write", "wait", "initialized", "publish", "have", "send"},
   op : {"none", "query", "update"}, init : BOOLEAN, on : 0..MaxServers, id : Nat, nr : Nat,
   wasOpen : BOOLEAN, ver : Nat, ch : Seq(Message), calls : Nat, got : {"none", "own", "foreign", "error"}]

\* The caller has no client yet.
Clientless == {"idle", "look", "start"}

Types ==
  /\ clients \in 0..MaxServers /\ born \in 0..MaxServers
  /\ starter \in [Servers -> Callers \cup {Nobody}]
  /\ server \in [Servers -> ServerState]
  /\ caller \in [Callers -> CallerState]
  /\ gone \in SUBSET Callers /\ open \in Nat /\ diags \in Nat
  /\ \A c \in Callers : caller[c].pc \notin Clientless => caller[c].on \in Servers

\* The caller has a request on the client of server s.
Asking == {"write", "wait"}
Waits(c, s) == caller[c].pc \in Asking /\ caller[c].on = s

\* If r answers the number that c waits for, it answers c's last request.
Fits(c, r) == r.id = caller[c].id => r.by = c /\ r.nr = caller[c].nr

\* What a caller may find in its channel.
Own(c, m) ==
  \/ m.kind = "ask"
  \/ m.kind = "answer" /\ m.by = c /\ m.nr = caller[c].nr

\* A client's number is given out once.
NumberInv ==
  /\ \A c \in Callers, s \in Servers : Waits(c, s) => caller[c].id <= server[s].nextID
  /\ \A c, d \in Callers, s \in Servers :
       Waits(c, s) /\ Waits(d, s) /\ caller[c].id = caller[d].id => c = d

PendingInv ==
  \A s \in Servers : \A p \in server[s].pending : Waits(p.by, s) /\ caller[p.by].id = p.id

\* What a server owes or has written, seen from those who wait on its client.
AnswerInv ==
  \A s \in Servers :
    /\ \A r \in server[s].owed :
         r.id <= server[s].nextID /\ \A c \in Callers : Waits(c, s) => Fits(c, r)
    /\ \A i \in DOMAIN server[s].out : server[s].out[i].kind = "answer" =>
         /\ server[s].out[i].id <= server[s].nextID
         /\ \A c \in Callers : Waits(c, s) => Fits(c, server[s].out[i])

\* What the reader holds, and what it has delivered.
HeldInv ==
  \A s \in Servers, c \in Callers : server[s].held.to = c => Waits(c, s) /\ Own(c, server[s].held.msg)

ChannelInv ==
  \A c \in Callers :
    /\ Len(caller[c].ch) <= 1
    /\ caller[c].ch # << >> => caller[c].pc \in Asking /\ Own(c, caller[c].ch[1])

IInv ==
  /\ Types
  /\ NumberInv
  /\ PendingInv
  /\ AnswerInv
  /\ HeldInv
  /\ ChannelInv
  /\ AnswersAreOwn

-----------------------------------------------------------------------------
\* The constants.
LEMMA ConstantFacts ==
  /\ MaxServers \in Nat /\ MaxCalls \in Nat /\ MaxAsks \in Nat
  /\ Nobody \notin Callers /\ Stuck \notin Callers
BY LspConstants

\* No server was started and nobody has called.
LEMMA InitIInv == ASSUME Init PROVE IInv
<1> USE ConstantFacts DEF Init
<1>1. AtRest \in CallerState /\ AtRest.ch = << >> /\ AtRest.pc = "idle" /\ AtRest.got = "none"
  BY DEF AtRest, CallerState
<1>2. /\ Unstarted \in ServerState /\ Unstarted.pending = {} /\ Unstarted.owed = {}
      /\ Unstarted.out = << >> /\ Unstarted.held.to = Nobody
  BY DEF Unstarted, ServerState
<1>3. Types
  BY <1>1, <1>2 DEF Types, Clientless
<1>4. ChannelInv /\ AnswersAreOwn /\ \A c \in Callers, s \in Servers : ~Waits(c, s)
  BY <1>1 DEF ChannelInv, AnswersAreOwn, Waits, Asking
<1>5. NumberInv /\ PendingInv /\ AnswerInv /\ HeldInv
  BY <1>2, <1>4 DEF NumberInv, PendingInv, AnswerInv, HeldInv
<1> QED
  BY <1>3, <1>4, <1>5 DEF IInv

-----------------------------------------------------------------------------
(* Steps of callers that have no request on the way, or end the one they have. *)

\* Nothing is added to what is on the way through y, which x has become.
Shrinks(x, y) ==
  /\ y.nextID = x.nextID /\ y.pending \subseteq x.pending /\ y.owed \subseteq x.owed
  /\ y.out = x.out \/ y.out = << >>
  /\ y.held = x.held \/ y.held.to \notin Callers

\* A step after which c has no request, and nothing is on the way to c.
LEMMA QuietStep ==
  ASSUME IInv, NEW c \in Callers, NEW r \in CallerState,
         caller' = [caller EXCEPT ![c] = r],
         r.pc \notin Asking, r.ch = << >>, r.got # "foreign",
         r.pc \notin Clientless => r.on \in Servers,
         server' \in [Servers -> ServerState],
         \A s \in Servers : /\ Shrinks(server[s], server'[s])
                            /\ \A p \in server'[s].pending : p.by # c
                            /\ server'[s].held.to # c,
         clients' \in 0..MaxServers, born' \in 0..MaxServers,
         starter' \in [Servers -> Callers \cup {Nobody}], gone' \in SUBSET Callers,
         open' \in Nat, diags' \in Nat
  PROVE  IInv'
<1> USE ConstantFacts DEF IInv
<1>1. /\ caller' \in [Callers -> CallerState]
      /\ caller'[c] = r /\ \A d \in Callers \ {c} : caller'[d] = caller[d]
  BY DEF Types
<1>2. Types'
  BY <1>1 DEF Types
<1>3. \A s \in Servers, d \in Callers : Waits(d, s)' => d # c /\ Waits(d, s) /\ caller'[d] = caller[d]
  BY <1>1 DEF Waits
<1>4. NumberInv'
  BY <1>3 DEF NumberInv, Shrinks
<1>5. PendingInv'
  <2> SUFFICES ASSUME NEW s \in Servers, NEW p \in server'[s].pending
               PROVE  Waits(p.by, s)' /\ caller'[p.by].id = p.id
    BY DEF PendingInv
  <2>1. p \in server[s].pending /\ p.by # c
    BY DEF Shrinks
  <2>2. p.by \in Callers
    BY <2>1 DEF Types, ServerState
  <2>3. Waits(p.by, s) /\ caller[p.by].id = p.id
    BY <2>1 DEF PendingInv
  <2> QED
    BY <1>1, <2>1, <2>2, <2>3 DEF Waits
<1>6. AnswerInv'
  <2>1. ASSUME NEW s \in Servers, NEW q \in server'[s].owed
        PROVE  /\ q.id <= server'[s].nextID
               /\ \A d \in Callers : Waits(d, s)' =>
                    (q.id = caller'[d].id => q.by = d /\ q.nr = caller'[d].nr)
    <3>1. q \in server[s].owed /\ server'[s].nextID = server[s].nextID
      BY DEF Shrinks
    <3> QED
      BY <1>3, <3>1 DEF AnswerInv, Fits
  <2>2. ASSUME NEW s \in Servers, NEW i \in DOMAIN server'[s].out,
               server'[s].out[i].kind = "answer"
        PROVE  /\ server'[s].out[i].id <= server'[s].nextID
               /\ \A d \in Callers : Waits(d, s)' =>
                    (server'[s].out[i].id = caller'[d].id
                       => server'[s].out[i].by = d /\ server'[s].out[i].nr = caller'[d].nr)
    <3>1. server'[s].out = server[s].out /\ server'[s].nextID = server[s].nextID
      BY DEF Shrinks
    <3> QED
      BY <1>3, <2>2, <3>1 DEF AnswerInv, Fits
  <2> QED
    BY <2>1, <2>2 DEF AnswerInv, Fits
<1>7. HeldInv'
  <2> SUFFICES ASSUME NEW s \in Servers, NEW d \in Callers, server'[s].held.to = d
               PROVE  Waits(d, s)' /\ Own(d, server[s].held.msg)'
    BY DEF HeldInv
  <2>1. d # c /\ server'[s].held = server[s].held
    BY DEF Shrinks
  <2>2. Waits(d, s) /\ Own(d, server[s].held.msg)
    BY <2>1 DEF HeldInv
  <2> QED
    BY <1>1, <2>1, <2>2 DEF Waits, Own
<1>8. ChannelInv' /\ AnswersAreOwn'
  BY <1>1 DEF ChannelInv, AnswersAreOwn, Own
<1> QED
  BY <1>2, <1>4, <1>5, <1>6, <1>7, <1>8

\* What is in a client's state.
LEMMA ClientFacts ==
  ASSUME IInv, NEW s \in Servers
  PROVE  /\ server[s] \in ServerState /\ server[s].nextID \in Nat
         /\ \A p \in server[s].pending : p.by \in Callers /\ p.id \in Nat
         /\ \A q \in server[s].owed : q.by \in Callers /\ q.id \in Nat /\ q.nr \in Nat
         /\ \A i \in DOMAIN server[s].out :
              server[s].out[i] \in Message /\ server[s].out[i].id \in Nat
<1>1. server[s] \in ServerState
  BY DEF IInv, Types
<1>2. /\ server[s].nextID \in Nat /\ server[s].out \in Seq(Message)
      /\ server[s].pending \in SUBSET [id : Nat, by : Callers]
      /\ server[s].owed \in SUBSET [id : Nat, by : Callers, nr : Nat]
  BY <1>1 DEF ServerState
<1>3. \A i \in DOMAIN server[s].out : server[s].out[i] \in Message
  BY <1>2
<1>4. \A m \in Message : m.id \in Nat
  BY DEF Message, Answer, Other
<1> QED
  BY <1>1, <1>2, <1>3, <1>4

\* Nothing is on the way to a caller that has no request.
LEMMA NothingUnderWay ==
  ASSUME IInv, NEW c \in Callers, caller[c].pc \notin Asking
  PROVE  /\ caller[c].ch = << >>
         /\ \A s \in Servers : /\ Shrinks(server[s], server[s])
                               /\ \A p \in server[s].pending : p.by # c
                               /\ server[s].held.to # c
<1>1. \A s \in Servers : ~Waits(c, s)
  BY DEF Waits
<1>2. \A s \in Servers : server[s].held.to # c
  BY <1>1 DEF IInv, HeldInv
<1>3. \A s \in Servers : \A p \in server[s].pending : p.by # c
  BY <1>1 DEF IInv, PendingInv
<1> QED
  BY <1>2, <1>3 DEF IInv, ChannelInv, Shrinks

\* A step of a caller that has no request and makes none.
LEMMA IdleStep ==
  ASSUME IInv, NEW c \in Callers, NEW r \in CallerState,
         caller' = [caller EXCEPT ![c] = r], caller[c].pc \notin Asking,
         r.pc \notin Asking, r.ch = caller[c].ch \/ r.ch = << >>, r.got # "foreign",
         r.pc \notin Clientless => r.on \in Servers,
         UNCHANGED server, clients' \in 0..MaxServers, born' \in 0..MaxServers,
         starter' \in [Servers -> Callers \cup {Nobody}], gone' \in SUBSET Callers,
         open' \in Nat, diags' \in Nat
  PROVE  IInv'
<1>1. server' \in [Servers -> ServerState] /\ r.ch = << >>
  BY NothingUnderWay DEF IInv, Types
<1>2. \A s \in Servers : /\ Shrinks(server[s], server'[s])
                         /\ \A p \in server'[s].pending : p.by # c
                         /\ server'[s].held.to # c
  BY NothingUnderWay
<1> QED
  BY <1>1, <1>2, QuietStep

\* A caller whose request was on one client leaves that client as y.
LEMMA LeaveStep ==
  ASSUME IInv, NEW c \in Callers, NEW s \in Servers, caller[c].on = s,
         NEW y \in ServerState, server' = [server EXCEPT ![s] = y], Shrinks(server[s], y),
         \A p \in y.pending : p.by # c, y.held.to # c,
         NEW r \in CallerState, caller' = [caller EXCEPT ![c] = r],
         r.pc \notin Asking, r.ch = << >>, r.got # "foreign",
         r.pc \notin Clientless => r.on \in Servers,
         UNCHANGED <<clients, born, starter, gone, open, diags>>
  PROVE  IInv'
<1>1. /\ server' \in [Servers -> ServerState] /\ server'[s] = y
      /\ \A t \in Servers \ {s} : server'[t] = server[t]
  BY DEF IInv, Types
<1>2. ASSUME NEW t \in Servers
      PROVE  /\ Shrinks(server[t], server'[t])
             /\ \A p \in server'[t].pending : p.by # c
             /\ server'[t].held.to # c
  <2>1. CASE t = s
    BY <1>1, <2>1
  <2>2. CASE t # s
    <3>1. ~Waits(c, t) /\ server'[t] = server[t]
      BY <1>1, <2>2 DEF Waits
    <3>2. \A p \in server[t].pending : p.by # c
      BY <3>1 DEF IInv, PendingInv
    <3>3. server[t].held.to # c
      BY <3>1 DEF IInv, HeldInv
    <3> QED
      BY <3>1, <3>2, <3>3 DEF Shrinks
  <2> QED
    BY <2>1, <2>2
<1>3. /\ clients' \in 0..MaxServers /\ born' \in 0..MaxServers
      /\ starter' \in [Servers -> Callers \cup {Nobody}] /\ gone' \in SUBSET Callers
      /\ open' \in Nat /\ diags' \in Nat
  BY DEF IInv, Types
<1> QED
  BY <1>1, <1>2, <1>3, QuietStep

\* What Over and Closed leave of a client.
LEMMA OverFacts ==
  ASSUME IInv, NEW c \in Callers, NEW s \in Servers, NEW left
  PROVE  /\ Over(s, c, left) \in ServerState /\ Shrinks(server[s], Over(s, c, left))
         /\ \A p \in Over(s, c, left).pending : p.by # c
         /\ Over(s, c, left).held.to # c
         /\ [Closed(s) EXCEPT !.held = Over(s, c, left).held] \in ServerState
         /\ Shrinks(server[s], [Closed(s) EXCEPT !.held = Over(s, c, left).held])
         /\ [Closed(s) EXCEPT !.held = Over(s, c, left).held].pending = {}
         /\ [Closed(s) EXCEPT !.held = Over(s, c, left).held].held.to # c
<1> DEFINE o == Over(s, c, left)
           h == IF server[s].held.to # c THEN server[s].held
                ELSE IF left = << >> THEN [to |-> Nobody] ELSE [to |-> Stuck]
<1>1. server[s] \in ServerState
  BY DEF IInv, Types
<1>2. /\ h \in [to : {Nobody, Stuck}] \cup [to : Callers, msg : Message]
      /\ h.to # c /\ (h = server[s].held \/ h.to \notin Callers)
  BY <1>1, ConstantFacts DEF ServerState
<1>3. o = [server[s] EXCEPT !.pending = {p \in @ : p.by # c}, !.held = h]
  BY DEF Over
<1> HIDE DEF h
<1>4. o \in ServerState /\ o.held = h
  BY <1>1, <1>2, <1>3 DEF ServerState
<1>5. /\ o.pending = {p \in server[s].pending : p.by # c} /\ o.owed = server[s].owed
      /\ o.nextID = server[s].nextID /\ o.out = server[s].out
  BY <1>1, <1>3 DEF ServerState
<1> HIDE DEF o
<1> DEFINE z == [Closed(s) EXCEPT !.held = o.held]
<1>6. /\ z \in ServerState /\ z.held = h /\ z.pending = {} /\ z.owed = {} /\ z.out = << >>
      /\ z.nextID = server[s].nextID
  <2> DEFINE k == Closed(s)
  <2>1. /\ k \in ServerState /\ k.pending = {} /\ k.owed = {} /\ k.out = << >>
        /\ k.nextID = server[s].nextID
    <3>1. << >> \in Seq(Message)
      OBVIOUS
    <3>2. k = [server[s] EXCEPT !.alive = FALSE, !.done = TRUE, !.pending = {}, !.out = << >>, !.owed = {}]
      BY DEF Closed
    <3> HIDE DEF k
    <3>3. k.pending = {} /\ k.owed = {} /\ k.out = << >> /\ k.nextID = server[s].nextID
      BY <1>1, <3>2 DEF ServerState
    <3>4. k \in ServerState
      BY <1>1, <3>1, <3>2 DEF ServerState
    <3> QED
      BY <3>3, <3>4
  <2>2. z = [k EXCEPT !.held = h]
    BY <1>4
  <2> HIDE DEF k, z
  <2> QED
    BY <1>2, <2>1, <2>2 DEF ServerState
<1> HIDE DEF z
<1>7. Shrinks(server[s], o) /\ Shrinks(server[s], z)
  BY <1>2, <1>4, <1>5, <1>6 DEF Shrinks
<1>8. /\ o \in ServerState /\ Shrinks(server[s], o) /\ (\A p \in o.pending : p.by # c) /\ o.held.to # c
      /\ z \in ServerState /\ Shrinks(server[s], z) /\ z.pending = {} /\ z.held.to # c
  BY <1>2, <1>4, <1>5, <1>6, <1>7
<1> QED
  BY <1>8 DEF o, z

\* A caller at rest.
LEMMA RestFacts ==
  ASSUME NEW calls \in Nat, NEW nr \in Nat, NEW got \in {"none", "own", "foreign", "error"}
  PROVE  LET r == [AtRest EXCEPT !.calls = calls, !.nr = nr, !.got = got]
         IN  r \in CallerState /\ r.pc = "idle" /\ r.ch = << >> /\ r.got = got
<1>1. AtRest \in CallerState /\ AtRest.pc = "idle" /\ AtRest.ch = << >>
  BY ConstantFacts DEF AtRest, CallerState
<1> QED
  BY <1>1 DEF CallerState

\* The tool call returns.
LEMMA ReturnStep ==
  ASSUME IInv, NEW c \in Callers, caller[c].pc \notin Clientless, NEW left,
         ReturnsLeaving(c, "error", left), UNCHANGED <<clients, born, starter, gone, open, diags>>
  PROVE  IInv'
<1> DEFINE s == caller[c].on
           o == Over(s, c, left)
           y == IF caller[c].init THEN [Closed(s) EXCEPT !.held = o.held] ELSE o
           r == [AtRest EXCEPT !.calls = caller[c].calls, !.nr = caller[c].nr, !.got = "error"]
<1>1. s \in Servers /\ caller[c] \in CallerState
  BY DEF IInv, Types
<1>2. caller' = [caller EXCEPT ![c] = r] /\ server' = [server EXCEPT ![s] = y]
  BY DEF ReturnsLeaving
<1>3. r \in CallerState /\ r.pc = "idle" /\ r.ch = << >> /\ r.got = "error"
  <2>1. caller[c].calls \in Nat /\ caller[c].nr \in Nat
    BY <1>1 DEF CallerState
  <2> QED
    BY <2>1, RestFacts
<1>4. /\ y \in ServerState /\ Shrinks(server[s], y)
      /\ (\A p \in y.pending : p.by # c) /\ y.held.to # c
  BY <1>1, OverFacts
<1> HIDE DEF s, y, r
<1>5. r.pc \notin Asking /\ r.pc \in Clientless /\ r.got # "foreign"
  BY <1>3 DEF Asking, Clientless
<1>6. caller[c].on = s
  BY DEF s
<1> QED
  BY <1>1, <1>2, <1>3, <1>4, <1>5, <1>6, LeaveStep

-----------------------------------------------------------------------------
(* The steps of a caller. *)

\* The steps outside a request that only move the caller, and those that leave it at rest.
LEMMA MoveStep ==
  ASSUME IInv, NEW c \in Callers,
         \/ \E op \in {"query", "update"} : Call(c, op)
         \/ GetClient(c) \/ StartFails(c) \/ Publishes(c) \/ Asks(c) \/ UpdateFile(c)
  PROVE  IInv'
<1>1. caller[c] \in CallerState /\ (caller[c].pc \notin Clientless => caller[c].on \in Servers)
  BY DEF IInv, Types
<1>2. /\ clients \in 0..MaxServers /\ born \in 0..MaxServers
      /\ starter \in [Servers -> Callers \cup {Nobody}] /\ gone \in SUBSET Callers
      /\ open \in Nat /\ diags \in Nat
  BY DEF IInv, Types
<1>3. caller[c].got # "foreign"
  BY DEF IInv, AnswersAreOwn
<1>4. ASSUME NEW op \in {"query", "update"}, Call(c, op) PROVE IInv'
  <2> DEFINE tracked == open > 0
             r == [caller[c] EXCEPT !.pc = "look", !.op = op, !.calls = @ + 1, !.wasOpen = tracked,
                                    !.got = "none"]
  <2>1. caller' = [caller EXCEPT ![c] = r] /\ caller[c].pc = "idle"
    BY <1>4 DEF Call, At
  <2>2. r \in CallerState /\ r.pc = "look" /\ r.ch = caller[c].ch /\ r.got = "none"
    <3> DEFINE calls == caller[c].calls + 1
               q == [caller[c] EXCEPT !.pc = "look", !.op = op, !.calls = calls, !.got = "none"]
    <3>1. tracked \in BOOLEAN
      BY <1>2
    <3>2. calls \in Nat
      BY <1>1 DEF CallerState
    <3>3. r = [q EXCEPT !.wasOpen = tracked]
      BY <1>1 DEF CallerState
    <3> HIDE DEF tracked, calls, r
    <3>4. q \in CallerState /\ q.pc = "look" /\ q.ch = caller[c].ch /\ q.got = "none"
      BY <1>1, <3>2 DEF CallerState
    <3> HIDE DEF q
    <3> QED
      BY <3>1, <3>3, <3>4 DEF CallerState
  <2> HIDE DEF r
  <2> QED
    BY <1>2, <1>4, <2>1, <2>2, IdleStep DEF Call, Asking, Clientless
<1>5. CASE GetClient(c)
  <2> DEFINE r == IF clients # 0 THEN [caller[c] EXCEPT !.pc = "have", !.on = clients]
                  ELSE [caller[c] EXCEPT !.pc = "start"]
  <2>1. caller' = [caller EXCEPT ![c] = r] /\ caller[c].pc = "look"
    BY <1>5 DEF GetClient, At, Goes
  <2>2. /\ r \in CallerState /\ r.pc \in {"have", "start"} /\ r.ch = caller[c].ch
        /\ r.got = caller[c].got /\ (r.pc = "have" => r.on \in Servers)
    <3>1. CASE clients # 0
      <4>1. clients \in Servers
        BY <1>2, <3>1, ConstantFacts DEF Servers
      <4>2. r = [caller[c] EXCEPT !.pc = "have", !.on = clients]
        BY <3>1
      <4> HIDE DEF r
      <4> QED
        BY <1>1, <1>2, <4>1, <4>2 DEF CallerState
    <3>2. CASE clients = 0
      <4>1. r = [caller[c] EXCEPT !.pc = "start"]
        BY <3>2
      <4> HIDE DEF r
      <4> QED
        BY <1>1, <4>1 DEF CallerState
    <3> QED
      BY <3>1, <3>2
  <2> HIDE DEF r
  <2> QED
    BY <1>2, <1>3, <1>5, <2>1, <2>2, IdleStep DEF GetClient, Asking, Clientless
<1>6. CASE StartFails(c)
  <2> DEFINE r == [AtRest EXCEPT !.calls = caller[c].calls, !.nr = caller[c].nr, !.got = "error"]
  <2>1. caller' = [caller EXCEPT ![c] = r] /\ caller[c].pc = "start"
    BY <1>6 DEF StartFails, At
  <2>2. caller[c].calls \in Nat /\ caller[c].nr \in Nat
    BY <1>1 DEF CallerState
  <2>3. r \in CallerState /\ r.pc = "idle" /\ r.ch = << >> /\ r.got = "error"
    BY <2>2, RestFacts
  <2> HIDE DEF r
  <2> QED
    BY <1>2, <1>6, <2>1, <2>3, IdleStep DEF StartFails, Asking, Clientless
<1>7. CASE Publishes(c)
  <2> DEFINE r == [caller[c] EXCEPT !.pc = "have", !.init = FALSE, !.got = "none"]
  <2>1. caller' = [caller EXCEPT ![c] = r] /\ caller[c].pc = "publish" /\ clients' = caller[c].on
    BY <1>7 DEF Publishes, At
  <2>2. /\ r \in CallerState /\ r.pc = "have" /\ r.ch = caller[c].ch /\ r.got = "none"
        /\ r.on = caller[c].on /\ r.on \in Servers
    BY <1>1, <2>1 DEF CallerState, Clientless
  <2>3. clients' \in 0..MaxServers
    BY <2>1, <2>2, ConstantFacts DEF Servers
  <2> HIDE DEF r
  <2> QED
    BY <1>2, <1>7, <2>1, <2>2, <2>3, IdleStep DEF Publishes, Asking
<1>8. CASE Asks(c)
  <2> DEFINE r == [caller[c] EXCEPT !.pc = "register"]
  <2>1. caller' = [caller EXCEPT ![c] = r] /\ caller[c].pc = "have"
    BY <1>8 DEF Asks, At, Goes
  <2>2. /\ r \in CallerState /\ r.pc = "register" /\ r.ch = caller[c].ch /\ r.got = caller[c].got
        /\ r.on \in Servers
    BY <1>1, <2>1 DEF CallerState, Clientless
  <2> HIDE DEF r
  <2> QED
    BY <1>2, <1>3, <1>8, <2>1, <2>2, IdleStep DEF Asks, Asking
<1>9. CASE UpdateFile(c)
  <2> DEFINE r == [caller[c] EXCEPT !.pc = "send", !.ver = open']
  <2>1. /\ caller' = [caller EXCEPT ![c] = r] /\ caller[c].pc = "have"
        /\ open' = IF caller[c].wasOpen THEN open + 1 ELSE 1
    BY <1>9 DEF UpdateFile, At
  <2>2. open' \in Nat
    BY <1>2, <2>1
  <2>3. /\ r \in CallerState /\ r.pc = "send" /\ r.ch = caller[c].ch /\ r.got = caller[c].got
        /\ r.on \in Servers
    BY <1>1, <2>1, <2>2 DEF CallerState, Clientless
  <2> HIDE DEF r
  <2> QED
    BY <1>2, <1>3, <1>9, <2>1, <2>2, <2>3, IdleStep DEF UpdateFile, Asking
<1> QED
  BY <1>4, <1>5, <1>6, <1>7, <1>8, <1>9

\* The steps that touch a client but have nothing on the way: a server is started, the
\* handshake is over, a document is sent.
LEMMA TouchStep ==
  ASSUME IInv, NEW c \in Callers, NewClient(c) \/ Initialized(c) \/ Notify(c)
  PROVE  IInv'
<1>1. caller[c] \in CallerState /\ (caller[c].pc \notin Clientless => caller[c].on \in Servers)
  BY DEF IInv, Types
<1>2. /\ clients \in 0..MaxServers /\ born \in 0..MaxServers
      /\ starter \in [Servers -> Callers \cup {Nobody}] /\ gone \in SUBSET Callers
      /\ open \in Nat /\ diags \in Nat /\ server \in [Servers -> ServerState]
  BY DEF IInv, Types
<1>3. caller[c].got # "foreign"
  BY DEF IInv, AnswersAreOwn
\* What a client is but for its server's life and document.
<1>4. ASSUME NEW s \in Servers, NEW y \in ServerState, server' = [server EXCEPT ![s] = y],
             y.nextID = server[s].nextID, y.pending = server[s].pending, y.owed = server[s].owed,
             y.out = server[s].out, y.held = server[s].held, caller[c].pc \notin Asking
      PROVE  /\ server' \in [Servers -> ServerState]
             /\ \A t \in Servers : /\ Shrinks(server[t], server'[t])
                                   /\ \A p \in server'[t].pending : p.by # c
                                   /\ server'[t].held.to # c
  <2>1. /\ server' \in [Servers -> ServerState] /\ server'[s] = y
        /\ \A t \in Servers \ {s} : server'[t] = server[t]
    BY <1>2, <1>4
  <2> QED
    BY <1>4, <2>1, NothingUnderWay DEF Shrinks
<1>5. CASE NewClient(c)
  <2> DEFINE r == [caller[c] EXCEPT !.pc = "register", !.init = TRUE, !.on = born']
             y == [server[born'] EXCEPT !.alive = TRUE]
  <2>1. /\ born' = born + 1 /\ born < MaxServers /\ caller[c].pc = "start"
        /\ starter' = [starter EXCEPT ![born'] = c]
        /\ server' = [server EXCEPT ![born'] = y] /\ caller' = [caller EXCEPT ![c] = r]
        /\ UNCHANGED <<clients, gone, open, diags>>
    BY <1>5 DEF NewClient, At
  <2>2. born' \in Servers /\ born' \in 0..MaxServers
    BY <1>2, <2>1, ConstantFacts DEF Servers
  <2>3. /\ r \in CallerState /\ r.pc = "register" /\ r.ch = caller[c].ch /\ r.got = caller[c].got
        /\ r.on = born'
    BY <1>1, <2>2 DEF CallerState
  <2>4. /\ y \in ServerState /\ y.nextID = server[born'].nextID /\ y.pending = server[born'].pending
        /\ y.owed = server[born'].owed /\ y.out = server[born'].out /\ y.held = server[born'].held
    BY <1>2, <2>2 DEF ServerState
  <2>5. starter' \in [Servers -> Callers \cup {Nobody}]
    BY <1>2, <2>1
  <2> HIDE DEF r, y
  <2>6. caller[c].pc \notin Asking /\ r.pc \notin Asking /\ r.ch = << >>
    BY <2>1, <2>3, NothingUnderWay DEF Asking
  <2>7. /\ server' \in [Servers -> ServerState]
        /\ \A t \in Servers : /\ Shrinks(server[t], server'[t])
                              /\ \A p \in server'[t].pending : p.by # c
                              /\ server'[t].held.to # c
    BY <1>4, <2>1, <2>2, <2>4, <2>6
  <2> QED
    BY <1>2, <1>3, <2>1, <2>2, <2>3, <2>5, <2>6, <2>7, QuietStep
<1>6. CASE Initialized(c)
  <2>1. caller[c].pc = "initialized" /\ UNCHANGED <<clients, born, starter, gone, open, diags>>
    BY <1>6 DEF Initialized, At
  <2>2. CASE Returns(c, "error")
    BY <2>1, <2>2, ReturnStep DEF Clientless, Returns
  <2>3. CASE Goes(c, "publish") /\ UNCHANGED server
    <3> DEFINE r == [caller[c] EXCEPT !.pc = "publish"]
    <3>1. caller' = [caller EXCEPT ![c] = r]
      BY <2>3 DEF Goes
    <3>2. /\ r \in CallerState /\ r.pc = "publish" /\ r.ch = caller[c].ch /\ r.got = caller[c].got
          /\ r.on \in Servers
      BY <1>1, <2>1 DEF CallerState, Clientless
    <3> HIDE DEF r
    <3> QED
      BY <1>2, <1>3, <2>1, <2>3, <3>1, <3>2, IdleStep DEF Asking
  <2> QED
    BY <1>6, <2>2, <2>3 DEF Initialized
<1>7. CASE Notify(c)
  <2> DEFINE s == caller[c].on
             got == IF ~server[s].done /\ server[s].alive THEN "none" ELSE "error"
             r == [AtRest EXCEPT !.calls = caller[c].calls, !.nr = caller[c].nr, !.got = got]
             y == [server[s] EXCEPT !.doc = caller[c].ver]
  <2>1. /\ caller[c].pc = "send" /\ UNCHANGED <<clients, born, starter, gone, open, diags>>
        /\ caller' = [caller EXCEPT ![c] = r]
        /\ server' = server \/ server' = [server EXCEPT ![s] = y]
    BY <1>7 DEF Notify, At
  <2>2. caller[c].calls \in Nat /\ caller[c].nr \in Nat /\ caller[c].ver \in Nat /\ s \in Servers
    BY <1>1, <2>1 DEF CallerState, Clientless
  <2>3. got \in {"none", "error"}
    OBVIOUS
  <2>4. /\ y \in ServerState /\ y.nextID = server[s].nextID /\ y.pending = server[s].pending
        /\ y.owed = server[s].owed /\ y.out = server[s].out /\ y.held = server[s].held
    <3> HIDE DEF s
    <3>1. server[s] \in ServerState
      BY <1>2, <2>2
    <3> QED
      BY <2>2, <3>1 DEF ServerState
  <2> HIDE DEF s, got, y
  <2>5. r \in CallerState /\ r.pc = "idle" /\ r.ch = << >> /\ r.got = got
    <3>1. AtRest \in CallerState /\ AtRest.pc = "idle" /\ AtRest.ch = << >>
      BY ConstantFacts DEF AtRest, CallerState
    <3> QED
      BY <2>2, <2>3, <3>1 DEF CallerState
  <2> HIDE DEF r
  <2>6. CASE server' = server
    BY <1>2, <2>1, <2>3, <2>5, <2>6, IdleStep DEF Asking, Clientless
  <2>7. CASE server' = [server EXCEPT ![s] = y]
    <3>1. /\ server' \in [Servers -> ServerState]
          /\ \A t \in Servers : /\ Shrinks(server[t], server'[t])
                                /\ \A p \in server'[t].pending : p.by # c
                                /\ server'[t].held.to # c
      BY <1>4, <2>1, <2>2, <2>4, <2>7 DEF Asking
    <3> QED
      BY <1>2, <2>1, <2>3, <2>5, <3>1, QuietStep DEF Asking, Clientless
  <2> QED
    BY <2>1, <2>6, <2>7
<1> QED
  BY <1>5, <1>6, <1>7

\* A request is registered under a new number, which nothing on the way bears.
LEMMA RegisterStep ==
  ASSUME IInv, NEW c \in Callers, Registers(c)
  PROVE  IInv'
<1> DEFINE s == caller[c].on
           n == server[s].nextID + 1
           y == [server[s] EXCEPT !.nextID = n, !.pending = @ \cup {[id |-> n, by |-> c]}]
           m == caller[c].nr + 1
           r == [caller[c] EXCEPT !.pc = "write", !.id = n, !.nr = m]
<1>1. caller[c].pc = "register" /\ UNCHANGED <<clients, born, starter, gone, open, diags>>
  BY DEF Registers, At
<1>2. s \in Servers /\ caller[c] \in CallerState /\ server[s] \in ServerState
  BY <1>1 DEF IInv, Types, Clientless
<1>3. CASE Returns(c, "error")
  BY <1>1, <1>3, ReturnStep DEF Clientless, Returns
<1>4. CASE server' = [server EXCEPT ![s] = y] /\ caller' = [caller EXCEPT ![c] = r]
  <2>1. n \in Nat /\ n > server[s].nextID /\ server[s].nextID \in Nat /\ m \in Nat
    <3>1. server[s].nextID \in Nat
      BY <1>2 DEF ServerState
    <3>2. caller[c].nr \in Nat
      BY <1>2 DEF CallerState
    <3> QED
      BY <3>1, <3>2
  <2> HIDE DEF n, m
  <2>2. /\ y \in ServerState /\ y.nextID = n /\ y.pending = server[s].pending \cup {[id |-> n, by |-> c]}
        /\ y.owed = server[s].owed /\ y.out = server[s].out /\ y.held = server[s].held
    <3> DEFINE pending == server[s].pending \cup {[id |-> n, by |-> c]}
    <3>1. pending \in SUBSET [id : Nat, by : Callers]
      BY <1>2, <2>1 DEF ServerState
    <3>2. y = [server[s] EXCEPT !.nextID = n, !.pending = pending]
      BY <1>2 DEF ServerState
    <3> HIDE DEF pending, y
    <3>3. /\ y \in ServerState /\ y.nextID = n /\ y.pending = pending
          /\ y.owed = server[s].owed /\ y.out = server[s].out /\ y.held = server[s].held
      BY <1>2, <2>1, <3>1, <3>2 DEF ServerState
    <3> QED
      BY <3>3 DEF pending
  <2>3. /\ r \in CallerState /\ r.pc = "write" /\ r.id = n /\ r.ch = caller[c].ch /\ r.on = s
        /\ r.got = caller[c].got
    BY <1>2, <2>1 DEF CallerState
  <2> HIDE DEF y, r
  <2>4. /\ caller' \in [Callers -> CallerState] /\ caller'[c] = r
        /\ \A d \in Callers \ {c} : caller'[d] = caller[d]
    BY <1>4, <2>3 DEF IInv, Types
  <2>5. /\ server' \in [Servers -> ServerState] /\ server'[s] = y
        /\ \A t \in Servers \ {s} : server'[t] = server[t]
    BY <1>2, <1>4, <2>2 DEF IInv, Types
  <2>6. caller[c].pc \notin Asking
    BY <1>1 DEF Asking
  <2>7. /\ caller[c].ch = << >>
        /\ \A t \in Servers : (\A p \in server[t].pending : p.by # c) /\ server[t].held.to # c
    BY <2>6, NothingUnderWay
  <2>8. /\ \A d \in Callers \ {c}, t \in Servers : Waits(d, t)' <=> Waits(d, t)
        /\ \A t \in Servers : Waits(c, t)' <=> t = s
    BY <2>3, <2>4 DEF Waits, Asking
  <2>9. Types'
    BY <1>1, <1>2, <2>3, <2>4, <2>5 DEF IInv, Types
  <2>10. NumberInv'
    <3>1. ASSUME NEW d \in Callers \ {c}, Waits(d, s)
          PROVE  caller[d].id \in Nat /\ caller[d].id < n
      BY <1>2, <2>1, <3>1 DEF IInv, Types, CallerState, NumberInv
    <3>2. ASSUME NEW d \in Callers, NEW t \in Servers, Waits(d, t)'
          PROVE  caller'[d].id <= server'[t].nextID
      <4>1. CASE d = c
        BY <2>1, <2>2, <2>3, <2>4, <2>5, <2>8, <3>2, <4>1
      <4>2. CASE d # c /\ t = s
        BY <2>1, <2>2, <2>4, <2>5, <2>8, <3>1, <3>2, <4>2
      <4>3. CASE d # c /\ t # s
        BY <2>4, <2>5, <2>8, <3>2, <4>3 DEF IInv, NumberInv
      <4> QED
        BY <4>1, <4>2, <4>3
    <3>3. ASSUME NEW d \in Callers, NEW e \in Callers, NEW t \in Servers,
                 Waits(d, t)', Waits(e, t)', caller'[d].id = caller'[e].id
          PROVE  d = e
      <4>1. CASE d = c /\ e # c
        BY <2>1, <2>3, <2>4, <2>8, <3>1, <3>3, <4>1
      <4>2. CASE d # c /\ e = c
        BY <2>1, <2>3, <2>4, <2>8, <3>1, <3>3, <4>2
      <4>3. CASE d # c /\ e # c
        BY <2>4, <2>8, <3>3, <4>3 DEF IInv, NumberInv
      <4> QED
        BY <4>1, <4>2, <4>3
    <3> QED
      BY <3>2, <3>3 DEF NumberInv
  <2>11. PendingInv'
    <3> SUFFICES ASSUME NEW t \in Servers, NEW p \in server'[t].pending
                 PROVE  Waits(p.by, t)' /\ caller'[p.by].id = p.id
      BY DEF PendingInv
    <3>1. CASE p \in server[t].pending
      <4>1. p.by \in Callers \ {c}
        BY <2>7, <3>1 DEF IInv, Types, ServerState
      <4> QED
        BY <2>4, <2>8, <3>1, <4>1 DEF IInv, PendingInv
    <3>2. CASE p \notin server[t].pending
      <4>1. t = s /\ p = [id |-> n, by |-> c]
        BY <2>2, <2>5, <3>2
      <4> QED
        BY <2>3, <2>4, <2>8, <4>1
    <3> QED
      BY <3>1, <3>2
  <2>12. AnswerInv'
    <3>1. ASSUME NEW t \in Servers, NEW q \in server'[t].owed
          PROVE  /\ q.id <= server'[t].nextID
                 /\ \A d \in Callers : Waits(d, t)' =>
                      (q.id = caller'[d].id => q.by = d /\ q.nr = caller'[d].nr)
      <4>1. q \in server[t].owed /\ q.id \in Nat
        BY <2>2, <2>5, ClientFacts
      <4>2. q.id <= server[t].nextID
        BY <4>1 DEF IInv, AnswerInv
      <4>3. \A d \in Callers \ {c} : Waits(d, t)' =>
              (q.id = caller'[d].id => q.by = d /\ q.nr = caller'[d].nr)
        BY <2>4, <2>8, <4>1 DEF IInv, AnswerInv, Fits
      <4>4. t = s => q.id <= n /\ q.id # n
        BY <2>1, <4>1, <4>2
      <4> QED
        BY <2>2, <2>3, <2>4, <2>5, <2>8, <4>2, <4>3, <4>4
    <3>2. ASSUME NEW t \in Servers, NEW i \in DOMAIN server'[t].out,
                 server'[t].out[i].kind = "answer"
          PROVE  /\ server'[t].out[i].id <= server'[t].nextID
                 /\ \A d \in Callers : Waits(d, t)' =>
                      (server'[t].out[i].id = caller'[d].id
                         => server'[t].out[i].by = d /\ server'[t].out[i].nr = caller'[d].nr)
      <4> DEFINE q == server[t].out[i]
      <4>1. server'[t].out = server[t].out /\ i \in DOMAIN server[t].out /\ q.id \in Nat
        BY <2>2, <2>5, ClientFacts
      <4>2. q.id <= server[t].nextID
        BY <3>2, <4>1 DEF IInv, AnswerInv
      <4>3. \A d \in Callers \ {c} : Waits(d, t)' =>
              (q.id = caller'[d].id => q.by = d /\ q.nr = caller'[d].nr)
        BY <2>4, <2>8, <3>2, <4>1 DEF IInv, AnswerInv, Fits
      <4> HIDE DEF q
      <4>4. t = s => q.id <= n /\ q.id # n
        BY <2>1, <4>1, <4>2
      <4>5. /\ q.id <= server'[t].nextID
            /\ \A d \in Callers : Waits(d, t)' =>
                 (q.id = caller'[d].id => q.by = d /\ q.nr = caller'[d].nr)
        BY <2>2, <2>3, <2>4, <2>5, <2>8, <4>2, <4>3, <4>4
      <4> QED
        BY <4>1, <4>5 DEF q
    <3> QED
      BY <3>1, <3>2 DEF AnswerInv, Fits
  <2>13. HeldInv'
    <3> SUFFICES ASSUME NEW t \in Servers, NEW d \in Callers, server'[t].held.to = d
                 PROVE  Waits(d, t)' /\ Own(d, server[t].held.msg)'
      BY DEF HeldInv
    <3>1. server'[t].held = server[t].held /\ d # c
      BY <2>2, <2>5, <2>7
    <3>2. Waits(d, t) /\ Own(d, server[t].held.msg)
      BY <3>1 DEF IInv, HeldInv
    <3> QED
      BY <2>4, <2>8, <3>1, <3>2 DEF Own
  <2>14. ChannelInv' /\ AnswersAreOwn'
    BY <2>3, <2>4, <2>7 DEF IInv, ChannelInv, AnswersAreOwn, Own
  <2> QED
    BY <2>9, <2>10, <2>11, <2>12, <2>13, <2>14 DEF IInv
<1>5. Returns(c, "error") \/ (server' = [server EXCEPT ![s] = y] /\ caller' = [caller EXCEPT ![c] = r])
  BY <1>2 DEF Registers, NextID, IInv, Types
<1> QED
  BY <1>3, <1>4, <1>5

\* The server owes the answer from when the request has been written.
LEMMA WriteStep ==
  ASSUME IInv, NEW c \in Callers, Writes(c)
  PROVE  IInv'
<1> DEFINE s == caller[c].on
           w == [id |-> caller[c].id, by |-> c, nr |-> caller[c].nr]
           y == [server[s] EXCEPT !.owed = @ \cup {w}]
           r == [caller[c] EXCEPT !.pc = "wait"]
<1>1. caller[c].pc = "write" /\ UNCHANGED <<clients, born, starter, gone, open, diags>>
  BY DEF Writes, At
<1>2. s \in Servers /\ caller[c] \in CallerState /\ server[s] \in ServerState
  BY <1>1 DEF IInv, Types, Clientless
<1>3. CASE Returns(c, "error")
  BY <1>1, <1>3, ReturnStep DEF Clientless, Returns
<1>4. CASE server' = [server EXCEPT ![s] = y] /\ caller' = [caller EXCEPT ![c] = r]
  <2>1. /\ w \in [id : Nat, by : Callers, nr : Nat]
        /\ w.id = caller[c].id /\ w.by = c /\ w.nr = caller[c].nr
    BY <1>2 DEF CallerState
  <2> HIDE DEF w
  <2>2. /\ y \in ServerState /\ y.nextID = server[s].nextID /\ y.pending = server[s].pending
        /\ y.owed = server[s].owed \cup {w} /\ y.out = server[s].out /\ y.held = server[s].held
    BY <1>2, <2>1 DEF ServerState
  <2>3. /\ r \in CallerState /\ r.pc = "wait" /\ r.id = caller[c].id /\ r.nr = caller[c].nr
        /\ r.ch = caller[c].ch /\ r.on = s /\ r.got = caller[c].got
    BY <1>2 DEF CallerState
  <2> HIDE DEF y, r
  <2>4. /\ caller' \in [Callers -> CallerState] /\ caller'[c] = r
        /\ \A d \in Callers \ {c} : caller'[d] = caller[d]
    BY <1>4, <2>3 DEF IInv, Types
  <2>5. /\ server' \in [Servers -> ServerState] /\ server'[s] = y
        /\ \A t \in Servers \ {s} : server'[t] = server[t]
    BY <1>2, <1>4, <2>2 DEF IInv, Types
  <2>6. \A d \in Callers : /\ caller'[d].id = caller[d].id /\ caller'[d].nr = caller[d].nr
                          /\ caller'[d].ch = caller[d].ch /\ caller'[d].got = caller[d].got
                          /\ caller'[d].on = caller[d].on
                          /\ (caller'[d].pc \in Asking <=> caller[d].pc \in Asking)
    BY <1>1, <2>3, <2>4 DEF Asking
  <2>7. \A d \in Callers, t \in Servers : Waits(d, t)' <=> Waits(d, t)
    BY <2>6 DEF Waits
  <2>8. \A t \in Servers : /\ server'[t].nextID = server[t].nextID
                           /\ server'[t].pending = server[t].pending
                           /\ server'[t].out = server[t].out /\ server'[t].held = server[t].held
    BY <2>2, <2>5
  <2>9. Types'
    BY <1>1, <1>2, <2>3, <2>4, <2>5 DEF IInv, Types
  <2>10. NumberInv'
    BY <2>6, <2>7, <2>8 DEF IInv, NumberInv
  <2>11. PendingInv'
    <3>1. \A t \in Servers : \A p \in server[t].pending : p.by \in Callers
      BY ClientFacts
    <3> QED
      BY <2>6, <2>7, <2>8, <3>1 DEF IInv, PendingInv
  <2>12. AnswerInv'
    <3>1. ASSUME NEW t \in Servers, NEW q \in server'[t].owed
          PROVE  /\ q.id <= server'[t].nextID
                 /\ \A d \in Callers : Waits(d, t)' =>
                      (q.id = caller'[d].id => q.by = d /\ q.nr = caller'[d].nr)
      <4>1. CASE q \in server[t].owed
        BY <2>6, <2>7, <2>8, <4>1 DEF IInv, AnswerInv, Fits
      <4>2. CASE q \notin server[t].owed
        <5>1. t = s /\ q = w /\ Waits(c, s)
          BY <1>1, <2>2, <2>5, <4>2 DEF Waits, Asking
        <5> QED
          BY <1>2, <2>1, <2>6, <2>7, <2>8, <5>1 DEF IInv, NumberInv
      <4> QED
        BY <4>1, <4>2
    <3>2. ASSUME NEW t \in Servers, NEW i \in DOMAIN server'[t].out,
                 server'[t].out[i].kind = "answer"
          PROVE  /\ server'[t].out[i].id <= server'[t].nextID
                 /\ \A d \in Callers : Waits(d, t)' =>
                      (server'[t].out[i].id = caller'[d].id
                         => server'[t].out[i].by = d /\ server'[t].out[i].nr = caller'[d].nr)
      BY <2>6, <2>7, <2>8, <3>2 DEF IInv, AnswerInv, Fits
    <3> QED
      BY <3>1, <3>2 DEF AnswerInv, Fits
  <2>13. HeldInv'
    BY <2>6, <2>7, <2>8 DEF IInv, HeldInv, Own
  <2>14. ChannelInv' /\ AnswersAreOwn'
    BY <2>6 DEF IInv, ChannelInv, AnswersAreOwn, Own
  <2> QED
    BY <2>9, <2>10, <2>11, <2>12, <2>13, <2>14 DEF IInv
<1>5. Returns(c, "error") \/ (server' = [server EXCEPT ![s] = y] /\ caller' = [caller EXCEPT ![c] = r])
  BY <1>2 DEF Writes, Goes, IInv, Types
<1> QED
  BY <1>3, <1>4, <1>5

\* What is received is the caller's own, and the number is not waited for any more.
LEMMA ReceiveStep ==
  ASSUME IInv, NEW c \in Callers, Receives(c) \/ GivesUp(c)
  PROVE  IInv'
<1> DEFINE s == caller[c].on
           m == Head(caller[c].ch)
           o == Over(s, c, << >>)
<1>1. caller[c].pc = "wait" /\ UNCHANGED <<clients, born, starter, gone, open, diags>>
  BY DEF Receives, GivesUp, At
<1>2. s \in Servers /\ caller[c] \in CallerState
  BY <1>1 DEF IInv, Types, Clientless
<1>3. CASE Returns(c, "error") \/ ReturnsLeaving(c, "error", << >>)
  BY <1>1, <1>3, ReturnStep DEF Clientless, Returns
<1>4. CASE Receives(c) /\ m.kind # "ask"
  <2>1. m.by = c /\ m.nr = caller[c].nr
    <3>1. caller[c].ch # << >> /\ caller[c].ch \in Seq(Message)
      BY <1>2, <1>4 DEF Receives, CallerState
    <3>2. m = caller[c].ch[1]
      BY <3>1
    <3> QED
      BY <1>4, <3>1, <3>2 DEF IInv, ChannelInv, Own
  <2>2. /\ o \in ServerState /\ Shrinks(server[s], o)
        /\ (\A p \in o.pending : p.by # c) /\ o.held.to # c
    <3>1. o \in ServerState /\ Shrinks(server[s], o) /\ o.held.to # c
      BY <1>2, OverFacts
    <3>2. ASSUME NEW p \in o.pending PROVE p.by # c
      <4>1. o.pending = {q \in server[s].pending : q.by # c}
        BY <1>2, ClientFacts DEF Over, ServerState
      <4> QED
        BY <3>2, <4>1
    <3> QED
      BY <3>1, <3>2
  <2>3. server' = [server EXCEPT ![s] = o]
    BY <1>4 DEF Receives
  <2>4. CASE caller[c].init
    <3> DEFINE r == [caller[c] EXCEPT !.pc = "initialized", !.ch = << >>, !.got = "own"]
    <3>1. caller' = [caller EXCEPT ![c] = r]
      BY <1>4, <2>1, <2>4 DEF Receives
    <3>2. r \in CallerState /\ r.pc = "initialized" /\ r.ch = << >> /\ r.got = "own" /\ r.on = s
      <4>1. << >> \in Seq(Message)
        OBVIOUS
      <4> QED
        BY <1>2, <4>1 DEF CallerState
    <3> HIDE DEF s, o, r
    <3>3. caller[c].on = s
      BY DEF s
    <3> QED
      BY <1>1, <1>2, <2>2, <2>3, <3>1, <3>2, <3>3, LeaveStep DEF Asking
  <2>5. CASE ~caller[c].init
    <3> DEFINE r == [AtRest EXCEPT !.calls = caller[c].calls, !.nr = caller[c].nr, !.got = "own"]
    <3>1. caller' = [caller EXCEPT ![c] = r]
      BY <1>4, <2>1, <2>5 DEF Receives
    <3>2. caller[c].calls \in Nat /\ caller[c].nr \in Nat
      BY <1>2 DEF CallerState
    <3>3. r \in CallerState /\ r.pc = "idle" /\ r.ch = << >> /\ r.got = "own"
      BY <3>2, RestFacts
    <3> HIDE DEF s, o, r
    <3>4. caller[c].on = s
      BY DEF s
    <3> QED
      BY <1>1, <1>2, <2>2, <2>3, <3>1, <3>3, <3>4, LeaveStep DEF Asking, Clientless
  <2> QED
    BY <2>4, <2>5
<1>5. Returns(c, "error") \/ ReturnsLeaving(c, "error", << >>) \/ (Receives(c) /\ m.kind # "ask")
  BY DEF Receives, GivesUp
<1> QED
  BY <1>3, <1>4, <1>5

-----------------------------------------------------------------------------
(* The client's reader and the server. *)

\* The reader puts what it holds into the caller's channel.
LEMMA DeliverStep ==
  ASSUME IInv, NEW s \in Servers, Delivers(s)
  PROVE  IInv'
<1> DEFINE c == server[s].held.to
           m == server[s].held.msg
           y == [server[s] EXCEPT !.held = [to |-> Nobody]]
           r == [caller[c] EXCEPT !.ch = << m >>]
<1>1. /\ c \in Callers /\ caller[c].ch = << >>
      /\ UNCHANGED <<clients, born, starter, gone, open, diags>>
      /\ server' = [server EXCEPT ![s] = y] /\ caller' = [caller EXCEPT ![c] = r]
  BY DEF Delivers, IInv, Types
<1>2. Waits(c, s) /\ Own(c, m)
  BY <1>1 DEF IInv, HeldInv
<1>3. server[s] \in ServerState /\ caller[c] \in CallerState
  BY <1>1 DEF IInv, Types
<1>4. m \in Message
  BY <1>1, <1>3, ConstantFacts DEF ServerState
<1>5. /\ y \in ServerState /\ y.nextID = server[s].nextID /\ y.pending = server[s].pending
      /\ y.owed = server[s].owed /\ y.out = server[s].out /\ y.held.to = Nobody
  BY <1>3 DEF ServerState
<1> HIDE DEF y
<1>6. << m >> \in Seq(Message) /\ Len(<< m >>) = 1 /\ << m >>[1] = m
  BY <1>4
<1>7. /\ r \in CallerState /\ r.pc = caller[c].pc /\ r.id = caller[c].id /\ r.nr = caller[c].nr
      /\ r.ch = << m >> /\ r.on = caller[c].on /\ r.got = caller[c].got
  BY <1>3, <1>6 DEF CallerState
<1> HIDE DEF r, m, c
<1>8. /\ caller' \in [Callers -> CallerState] /\ caller'[c] = r
      /\ \A d \in Callers \ {c} : caller'[d] = caller[d]
  BY <1>1, <1>7 DEF IInv, Types
<1>9. /\ server' \in [Servers -> ServerState] /\ server'[s] = y
      /\ \A t \in Servers \ {s} : server'[t] = server[t]
  BY <1>1, <1>5 DEF IInv, Types
<1>10. \A d \in Callers : /\ caller'[d].id = caller[d].id /\ caller'[d].nr = caller[d].nr
                         /\ caller'[d].got = caller[d].got
                         /\ caller'[d].on = caller[d].on /\ caller'[d].pc = caller[d].pc
  BY <1>7, <1>8
<1>11. \A d \in Callers, t \in Servers : Waits(d, t)' <=> Waits(d, t)
  BY <1>10 DEF Waits
<1>12. \A t \in Servers : /\ server'[t].nextID = server[t].nextID
                          /\ server'[t].pending = server[t].pending
                          /\ server'[t].out = server[t].out /\ server'[t].owed = server[t].owed
                          /\ (server'[t].held = server[t].held \/ server'[t].held.to = Nobody)
  BY <1>5, <1>9
<1>13. Types'
  BY <1>1, <1>8, <1>9, <1>10 DEF IInv, Types
<1>14. NumberInv' /\ PendingInv'
  <2>1. \A t \in Servers : \A p \in server[t].pending : p.by \in Callers
    BY ClientFacts
  <2> QED
    BY <1>10, <1>11, <1>12, <2>1 DEF IInv, NumberInv, PendingInv
<1>15. AnswerInv'
  BY <1>10, <1>11, <1>12 DEF IInv, AnswerInv, Fits
<1>16. HeldInv'
  BY <1>10, <1>11, <1>12, ConstantFacts DEF IInv, HeldInv, Own
<1>17. ChannelInv' /\ AnswersAreOwn'
  <2>1. AnswersAreOwn'
    BY <1>10 DEF IInv, AnswersAreOwn
  <2>2. ASSUME NEW d \in Callers
        PROVE  /\ Len(caller'[d].ch) <= 1
               /\ caller'[d].ch # << >> =>
                    caller'[d].pc \in Asking /\ Own(d, caller[d].ch[1])'
    <3>1. CASE d = c
      <4>1. caller'[d].ch = << m >> /\ caller'[d].ch[1] = m /\ Len(caller'[d].ch) = 1
        BY <1>6, <1>7, <1>8, <3>1
      <4>2. caller'[d].pc \in Asking
        BY <1>2, <1>10, <3>1 DEF Waits
      <4>3. m.kind = "ask" \/ (m.kind = "answer" /\ m.by = d /\ m.nr = caller'[d].nr)
        BY <1>2, <1>10, <3>1 DEF Own
      <4> QED
        BY <4>1, <4>2, <4>3 DEF Own
    <3>2. CASE d # c
      BY <1>8, <3>2 DEF IInv, ChannelInv, Own
    <3> QED
      BY <3>1, <3>2
  <2> QED
    BY <2>1, <2>2 DEF ChannelInv
<1> QED
  BY <1>13, <1>14, <1>15, <1>16, <1>17 DEF IInv

\* Client s becomes y, by the reader or the server; nothing on the way is changed.
LEMMA ClientStep ==
  ASSUME IInv, NEW s \in Servers, NEW y \in ServerState,
         server' = [server EXCEPT ![s] = y],
         y.nextID = server[s].nextID, y.pending \subseteq server[s].pending,
         y.owed \subseteq server[s].owed,
         \A i \in DOMAIN y.out : y.out[i].kind = "answer" =>
           /\ y.out[i].id <= server[s].nextID
           /\ \A c \in Callers : Waits(c, s) => Fits(c, y.out[i]),
         \A c \in Callers : y.held.to = c => Waits(c, s) /\ Own(c, y.held.msg),
         UNCHANGED <<clients, born, starter, caller, gone, open>>, diags' \in Nat
  PROVE  IInv'
<1>1. /\ server' \in [Servers -> ServerState] /\ server'[s] = y
      /\ \A t \in Servers \ {s} : server'[t] = server[t]
  BY DEF IInv, Types
<1>2. \A d \in Callers, t \in Servers : Waits(d, t)' <=> Waits(d, t)
  BY DEF Waits
<1>3. \A t \in Servers : /\ server'[t].nextID = server[t].nextID
                         /\ server'[t].pending \subseteq server[t].pending
                         /\ server'[t].owed \subseteq server[t].owed
  BY <1>1
<1>4. Types'
  BY <1>1 DEF IInv, Types
<1>5. NumberInv' /\ PendingInv'
  BY <1>3 DEF IInv, NumberInv, PendingInv, Waits
<1>6. AnswerInv'
  <2>1. ASSUME NEW t \in Servers, NEW q \in server'[t].owed
        PROVE  q.id <= server'[t].nextID /\ \A d \in Callers : Waits(d, t) => Fits(d, q)
    <3>1. q \in server[t].owed
      BY <1>3
    <3> QED
      BY <1>3, <3>1 DEF IInv, AnswerInv
  <2>2. ASSUME NEW t \in Servers, NEW i \in DOMAIN server'[t].out,
               server'[t].out[i].kind = "answer"
        PROVE  /\ server'[t].out[i].id <= server'[t].nextID
               /\ \A d \in Callers : Waits(d, t) => Fits(d, server'[t].out[i])
    <3>1. CASE t = s
      BY <1>1, <1>3, <2>2, <3>1
    <3>2. CASE t # s
      BY <1>1, <2>2, <3>2 DEF IInv, AnswerInv
    <3> QED
      BY <3>1, <3>2
  <2> QED
    BY <2>1, <2>2 DEF AnswerInv, Waits, Fits
<1>7. HeldInv'
  <2>1. ASSUME NEW t \in Servers, NEW d \in Callers, server'[t].held.to = d
        PROVE  Waits(d, t) /\ Own(d, server'[t].held.msg)
    <3>1. CASE t = s
      BY <1>1, <2>1, <3>1
    <3>2. CASE t # s
      BY <1>1, <2>1, <3>2 DEF IInv, HeldInv
    <3> QED
      BY <3>1, <3>2
  <2> QED
    BY <2>1 DEF HeldInv, Waits, Own
<1>8. ChannelInv' /\ AnswersAreOwn'
  BY DEF IInv, ChannelInv, AnswersAreOwn, Own
<1> QED
  BY <1>4, <1>5, <1>6, <1>7, <1>8 DEF IInv

\* What has been written, before anything is read or added.
LEMMA WrittenFacts ==
  ASSUME IInv, NEW s \in Servers, NEW i \in DOMAIN server[s].out, server[s].out[i].kind = "answer"
  PROVE  /\ server[s].out[i].id <= server[s].nextID
         /\ \A c \in Callers : Waits(c, s) => Fits(c, server[s].out[i])
BY DEF IInv, AnswerInv

\* An answer goes to the one who waits for its number, if anybody does.
LEMMA ReadStep ==
  ASSUME IInv, NEW s \in Servers, Reads(s)
  PROVE  IInv'
<1> DEFINE x == server[s]
           m == Head(x.out)
           awaited == {p \in x.pending : m.kind # "diagnostics" /\ p.id = m.id}
           h == IF awaited = {} THEN x.held ELSE [to |-> (CHOOSE p \in awaited : TRUE).by, msg |-> m]
           y == [x EXCEPT !.out = Tail(@), !.held = h]
<1>1. /\ x.out # << >> /\ x.held.to = Nobody /\ server' = [server EXCEPT ![s] = y]
      /\ diags' = IF m.kind = "diagnostics" THEN m.id ELSE diags
      /\ UNCHANGED <<clients, born, starter, caller, gone, open>>
  BY DEF Reads, IInv, Types
<1>2. /\ x \in ServerState /\ x.out \in Seq(Message)
      /\ x.held \in [to : {Nobody, Stuck}] \cup [to : Callers, msg : Message]
  BY ClientFacts DEF ServerState
<1>3. /\ m \in Message /\ m = x.out[1] /\ 1 \in DOMAIN x.out
      /\ Tail(x.out) \in Seq(Message) /\ Len(Tail(x.out)) = Len(x.out) - 1
      /\ \A i \in DOMAIN Tail(x.out) : i + 1 \in DOMAIN x.out /\ Tail(x.out)[i] = x.out[i + 1]
  BY <1>1, <1>2
<1>4. m.id \in Nat /\ (m.kind = "answer" \/ m.kind = "ask" \/ m.kind = "diagnostics")
  BY <1>3 DEF Message, Answer, Other
<1>5. ASSUME awaited # {}
      PROVE  LET c == (CHOOSE p \in awaited : TRUE).by
             IN  c \in Callers /\ Waits(c, s) /\ Own(c, m)
  <2> DEFINE p == CHOOSE q \in awaited : TRUE
  <2>1. p \in awaited
    BY <1>5
  <2> HIDE DEF p
  <2>2. p \in x.pending /\ m.kind # "diagnostics" /\ p.id = m.id
    BY <2>1
  <2>3. p.by \in Callers /\ Waits(p.by, s) /\ caller[p.by].id = m.id
    BY <2>2, ClientFacts DEF IInv, PendingInv
  <2>4. m.kind = "answer" => Fits(p.by, m)
    BY <1>3, <2>3, WrittenFacts
  <2>5. Own(p.by, m)
    BY <1>4, <2>2, <2>3, <2>4 DEF Own, Fits
  <2> QED
    BY <2>3, <2>5 DEF p
<1>6. /\ h \in [to : {Nobody, Stuck}] \cup [to : Callers, msg : Message]
      /\ \A c \in Callers : h.to = c => Waits(c, s) /\ Own(c, h.msg)
  <2>1. CASE awaited = {}
    BY <1>1, <1>2, <2>1, ConstantFacts
  <2>2. CASE awaited # {}
    <3> DEFINE c == (CHOOSE p \in awaited : TRUE).by
    <3>1. c \in Callers /\ Waits(c, s) /\ Own(c, m)
      BY <1>5, <2>2
    <3>2. h = [to |-> c, msg |-> m]
      BY <2>2
    <3> HIDE DEF c, h, m
    <3> QED
      BY <1>3, <3>1, <3>2
  <2> QED
    BY <2>1, <2>2
<1> HIDE DEF h, awaited
<1>7. /\ y \in ServerState /\ y.nextID = x.nextID /\ y.pending = x.pending /\ y.owed = x.owed
      /\ y.out = Tail(x.out) /\ y.held = h
  <2> HIDE DEF x
  <2> QED
    BY <1>2, <1>3, <1>6 DEF ServerState
<1> HIDE DEF y
<1>8. ASSUME NEW i \in DOMAIN y.out, y.out[i].kind = "answer"
      PROVE  /\ y.out[i].id <= server[s].nextID
             /\ \A c \in Callers : Waits(c, s) => Fits(c, y.out[i])
  <2>1. i + 1 \in DOMAIN x.out /\ y.out[i] = x.out[i + 1]
    BY <1>3, <1>7
  <2> QED
    BY <1>8, <2>1, WrittenFacts
<1>9. diags' \in Nat
  BY <1>1, <1>4 DEF IInv, Types
<1> QED
  BY <1>1, <1>6, <1>7, <1>8, <1>9, ClientStep

\* The reader comes to the end, or the server dies.
LEMMA EndStep ==
  ASSUME IInv, NEW s \in Servers, ReadsEnd(s) \/ ServerDies(s)
  PROVE  IInv'
<1> DEFINE x == server[s]
<1>1. /\ x \in ServerState /\ UNCHANGED <<clients, born, starter, caller, gone, open, diags>>
      /\ diags \in Nat /\ << >> \in Seq(Message)
  BY ClientFacts DEF ReadsEnd, ServerDies, IInv, Types
<1>2. \A c \in Callers : x.held.to = c => Waits(c, s) /\ Own(c, x.held.msg)
  BY DEF IInv, HeldInv
<1>3. CASE ReadsEnd(s)
  <2> DEFINE y == Closed(s)
  <2>1. server' = [server EXCEPT ![s] = y]
    BY <1>3 DEF ReadsEnd
  <2>2. /\ y \in ServerState /\ y.nextID = x.nextID /\ y.pending = {}
        /\ y.owed = {} /\ y.out = << >> /\ y.held = x.held
    BY <1>1 DEF Closed, ServerState
  <2> HIDE DEF y
  <2>3. DOMAIN y.out = {}
    BY <2>2
  <2> QED
    BY <1>1, <1>2, <2>1, <2>2, <2>3, ClientStep
<1>4. CASE ServerDies(s)
  <2> DEFINE y == [x EXCEPT !.alive = FALSE, !.owed = {}]
  <2>1. server' = [server EXCEPT ![s] = y]
    BY <1>4 DEF ServerDies, IInv, Types
  <2>2. /\ y \in ServerState /\ y.nextID = x.nextID /\ y.pending = x.pending
        /\ y.owed = {} /\ y.out = x.out /\ y.held = x.held
    BY <1>1 DEF ServerState
  <2> HIDE DEF y
  <2> QED
    BY <1>1, <1>2, <2>1, <2>2, WrittenFacts, ClientStep
<1> QED
  BY <1>3, <1>4

\* What a server writes: an answer it owes, a request of its own, diagnostics.
LEMMA SayStep ==
  ASSUME IInv, NEW s \in Servers,
         ServerAnswers(s) \/ ServerAsks(s) \/ ServerDiagnoses(s)
  PROVE  IInv'
<1> DEFINE x == server[s]
<1>1. /\ x \in ServerState /\ UNCHANGED <<clients, born, starter, caller, gone, open, diags>>
      /\ diags \in Nat /\ x.out \in Seq(Message)
  BY ClientFacts DEF ServerAnswers, ServerAsks, ServerDiagnoses, IInv, Types, ServerState
<1>2. \A c \in Callers : x.held.to = c => Waits(c, s) /\ Own(c, x.held.msg)
  BY DEF IInv, HeldInv
<1>3. PICK m \in Message, y \in ServerState :
        /\ server' = [server EXCEPT ![s] = y]
        /\ y.nextID = x.nextID /\ y.pending = x.pending
        /\ y.owed \subseteq x.owed /\ y.out = Append(x.out, m) /\ y.held = x.held
        /\ m.kind = "answer" => \E q \in x.owed : m.id = q.id /\ m.by = q.by /\ m.nr = q.nr
  <2>1. CASE ServerAnswers(s)
    <3>1. PICK q \in x.owed :
            server' = [server EXCEPT ![s].owed = @ \ {q},
                                     ![s].out = Append(@, [kind |-> "answer", id |-> q.id, by |-> q.by, nr |-> q.nr])]
      BY <2>1 DEF ServerAnswers
    <3> DEFINE m == [kind |-> "answer", id |-> q.id, by |-> q.by, nr |-> q.nr]
               y == [x EXCEPT !.owed = @ \ {q}, !.out = Append(@, m)]
    <3>2. m \in Message /\ m.id = q.id /\ m.by = q.by /\ m.nr = q.nr
      BY ClientFacts DEF Message, Answer
    <3>3. server' = [server EXCEPT ![s] = y]
      BY <3>1 DEF IInv, Types
    <3> HIDE DEF m
    <3>4. Append(x.out, m) \in Seq(Message)
      BY <1>1, <3>2
    <3>5. /\ y \in ServerState /\ y.nextID = x.nextID /\ y.pending = x.pending
          /\ y.owed \subseteq x.owed /\ y.out = Append(x.out, m) /\ y.held = x.held
      BY <1>1, <3>4 DEF ServerState
    <3> HIDE DEF y
    <3> QED
      BY <3>2, <3>3, <3>5
  <2>2. CASE ServerAsks(s)
    <3> DEFINE n == x.asks + 1
               m == [kind |-> "ask", id |-> n]
               y == [x EXCEPT !.asks = n, !.out = Append(@, m)]
    <3>1. n \in Nat
      BY <1>1 DEF ServerState
    <3>2. m \in Message /\ m.kind # "answer"
      BY <3>1 DEF Message, Other
    <3>3. server' = [server EXCEPT ![s] = y]
      BY <2>2 DEF ServerAsks, IInv, Types
    <3> HIDE DEF m, n
    <3>4. Append(x.out, m) \in Seq(Message)
      BY <1>1, <3>2
    <3>5. /\ y \in ServerState /\ y.nextID = x.nextID /\ y.pending = x.pending
          /\ y.owed \subseteq x.owed /\ y.out = Append(x.out, m) /\ y.held = x.held
      BY <1>1, <3>1, <3>4 DEF ServerState
    <3> HIDE DEF y
    <3> QED
      BY <3>2, <3>3, <3>5
  <2>3. CASE ServerDiagnoses(s)
    <3> DEFINE m == [kind |-> "diagnostics", id |-> x.doc]
               y == [x EXCEPT !.out = Append(@, m)]
    <3>1. x.doc \in Nat
      BY <1>1 DEF ServerState
    <3>2. m \in Message /\ m.kind # "answer"
      BY <3>1 DEF Message, Other
    <3>3. server' = [server EXCEPT ![s] = y]
      BY <2>3 DEF ServerDiagnoses, Says, IInv, Types
    <3> HIDE DEF m
    <3>4. Append(x.out, m) \in Seq(Message)
      BY <1>1, <3>2
    <3>5. /\ y \in ServerState /\ y.nextID = x.nextID /\ y.pending = x.pending
          /\ y.owed \subseteq x.owed /\ y.out = Append(x.out, m) /\ y.held = x.held
      BY <1>1, <3>4 DEF ServerState
    <3> HIDE DEF y
    <3> QED
      BY <3>2, <3>3, <3>5
  <2> QED
    BY <2>1, <2>2, <2>3
<1>4. ASSUME NEW i \in DOMAIN y.out, y.out[i].kind = "answer"
      PROVE  /\ y.out[i].id <= server[s].nextID
             /\ \A c \in Callers : Waits(c, s) => Fits(c, y.out[i])
  <2>1. \/ i \in DOMAIN x.out /\ y.out[i] = x.out[i]
        \/ y.out[i] = m
    BY <1>1, <1>3
  <2>2. CASE i \in DOMAIN x.out /\ y.out[i] = x.out[i]
    BY <1>4, <2>2, WrittenFacts
  <2>3. CASE y.out[i] = m
    <3>1. PICK q \in x.owed : m.id = q.id /\ m.by = q.by /\ m.nr = q.nr
      BY <1>3, <1>4, <2>3
    <3> QED
      BY <2>3, <3>1 DEF IInv, AnswerInv, Fits
  <2> QED
    BY <2>1, <2>2, <2>3
<1> QED
  BY <1>1, <1>2, <1>3, <1>4, ClientStep

\* The end of a context is known to the caller and to the servers it started; it moves
\* nothing by itself.
LEMMA ContextStep ==
  ASSUME IInv, NEW c \in Callers, ContextEnds(c)
  PROVE  IInv'
<1>1. gone' \in SUBSET Callers /\ UNCHANGED <<clients, born, starter, server, caller, open, diags>>
  BY DEF ContextEnds, IInv, Types
<1>2. Types'
  BY <1>1 DEF IInv, Types
<1> QED
  BY <1>1, <1>2 DEF IInv, NumberInv, PendingInv, AnswerInv, HeldInv, ChannelInv, AnswersAreOwn, Waits,
                    Fits, Own

-----------------------------------------------------------------------------
\* Every step preserves the inductive invariant.
LEMMA StepIInv == ASSUME IInv, [Next]_vars PROVE IInv'
<1>1. ASSUME NEW c \in Callers, Step(c) PROVE IInv'
  BY <1>1, MoveStep, TouchStep, RegisterStep, WriteStep, ReceiveStep DEF Step
<1>2. ASSUME NEW c \in Callers, NEW op \in {"query", "update"}, Call(c, op) PROVE IInv'
  BY <1>2, MoveStep
<1>3. ASSUME NEW s \in Servers,
             \/ Reads(s) \/ Delivers(s) \/ ReadsEnd(s)
             \/ ServerAnswers(s) \/ ServerAsks(s) \/ ServerDiagnoses(s) \/ ServerDies(s)
      PROVE  IInv'
  BY <1>3, ReadStep, DeliverStep, EndStep, SayStep
<1>4. CASE Next
  BY <1>1, <1>2, <1>3, <1>4, ContextStep DEF Next
<1>5. CASE UNCHANGED vars
  BY <1>5 DEF vars, IInv, Types, NumberInv, PendingInv, AnswerInv, HeldInv, ChannelInv, AnswersAreOwn,
              Waits, Fits, Own
<1> QED
  BY <1>4, <1>5

\* The inductive invariant holds in every state.
LEMMA Invariance == Spec => []IInv
<1>1. Init => IInv
  BY InitIInv
<1>2. IInv /\ [Next]_vars => IInv'
  BY StepIInv
<1> QED
  BY <1>1, <1>2, PTL DEF Spec

\* The types of the client's state: a number is awaited by one caller, and a caller's
\* channel, which has room for one message, never gets a second.
THEOREM TypeCorrect == Spec => []TypeOK
<1>1. ASSUME IInv, NEW s \in Servers
      PROVE  /\ server[s].alive \in BOOLEAN /\ server[s].done \in BOOLEAN
             /\ \A p, q \in server[s].pending : p.id = q.id => p = q
             /\ server[s].held.to \in Callers \cup {Nobody, Stuck}
  <2>1. server[s] \in ServerState
    BY <1>1, ClientFacts
  <2>2. ASSUME NEW p \in server[s].pending, NEW q \in server[s].pending, p.id = q.id
        PROVE  p = q
    <3>1. p.by \in Callers /\ q.by \in Callers
      BY <1>1, ClientFacts
    <3>2. p.by = q.by
      BY <1>1, <2>2, <3>1 DEF IInv, PendingInv, NumberInv
    <3>3. p \in [id : Nat, by : Callers] /\ q \in [id : Nat, by : Callers]
      BY <2>1 DEF ServerState
    <3> QED
      BY <2>2, <3>2, <3>3
  <2>3. server[s].alive \in BOOLEAN /\ server[s].done \in BOOLEAN
    BY <2>1 DEF ServerState
  <2>4. server[s].held.to \in Callers \cup {Nobody, Stuck}
    BY <2>1 DEF ServerState
  <2> QED
    BY <2>2, <2>3, <2>4
<1>2. ASSUME IInv, NEW c \in Callers
      PROVE  /\ caller[c].pc \in {"idle", "look", "start", "register", "write", "wait", "initialized",
                                  "publish", "have", "send"}
             /\ caller[c].op \in {"none", "query", "update"}
             /\ Len(caller[c].ch) <= 1
             /\ caller[c].got \in {"none", "own", "foreign", "error"}
  BY <1>2 DEF IInv, Types, ChannelInv, CallerState
<1>3. IInv => TypeOK
  BY <1>1, <1>2 DEF IInv, Types, TypeOK
<1> QED
  BY <1>3, Invariance, PTL

\* No caller is given the answer to another request, of its own or of another caller,
\* in whatever order servers answer, ask and die and callers give up and call again.
THEOREM OwnAnswers == Spec => []AnswersAreOwn
<1>1. IInv => AnswersAreOwn
  BY DEF IInv
<1> QED
  BY <1>1, Invariance, PTL
=============================================================================
