--------------------------------- MODULE Lsp ---------------------------------
(***************************************************************************)
(* The language server of one language: the manager that starts it and     *)
(* keeps the versions of open files (internal/lsp/manager.go), the client  *)
(* that speaks to it (internal/lsp/client.go), and the tools that use them *)
(* (internal/tools/lsp.go; the file tools' UpdateFile).                    *)
(*                                                                         *)
(* A caller is a run of a worker or a turn of the master: it makes several *)
(* calls of tools under one context, and the context ends with it.  A      *)
(* server lives under the context of the caller that started it.  The      *)
(* server answers requests in any order, sends notifications and requests  *)
(* of its own, numbered from 1 like the client's, and may die.  It is      *)
(* taken to read what is written to it.                                    *)
(***************************************************************************)
EXTENDS Integers, FiniteSets, Sequences

CONSTANTS Callers,
          MaxServers,   \* bounds the servers started
          MaxCalls,     \* bounds the tools a caller calls
          MaxAsks,      \* bounds the requests a server sends
          Crashes       \* whether a server may die while its context lasts

Servers == 1..MaxServers
Nobody == "nobody"
Stuck == "stuck"

ASSUME LspConstants ==
    /\ {Nobody, Stuck} \cap Callers = {} /\ Crashes \in BOOLEAN
    /\ {MaxServers, MaxCalls, MaxAsks} \subseteq Nat

VARIABLES clients,   \* the server registered for the language, 0 for none
          born,      \* the servers started
          starter,   \* [Servers -> the caller that started it]
          server,    \* [Servers -> the server and its client]
          caller,    \* [Callers -> the tool call the caller is in]
          gone,      \* the callers whose context is done
          open,      \* openFiles: the version of the one file, 0 when it is not tracked
          diags      \* the version the diagnostics held are about

vars == <<clients, born, starter, server, caller, gone, open, diags>>

Unstarted == [alive |-> FALSE, done |-> FALSE, nextID |-> 0, pending |-> {}, owed |-> {}, out |-> << >>,
              held |-> [to |-> Nobody], asks |-> 0, doc |-> 0]
AtRest == [pc |-> "idle", op |-> "none", init |-> FALSE, on |-> 0, id |-> 0, nr |-> 0, wasOpen |-> FALSE, ver |-> 0,
           ch |-> << >>, calls |-> 0, got |-> "none"]

TypeOK ==
    /\ clients \in 0..MaxServers /\ born \in 0..MaxServers
    /\ starter \in [Servers -> Callers \cup {Nobody}]
    /\ \A s \in Servers :
         /\ server[s].alive \in BOOLEAN /\ server[s].done \in BOOLEAN
         /\ \A p, q \in server[s].pending : p.id = q.id => p = q
         /\ server[s].held.to \in Callers \cup {Nobody, Stuck}
    /\ \A c \in Callers :
         /\ caller[c].pc \in {"idle", "look", "start", "register", "write", "wait", "initialized", "publish",
                              "have", "send"}
         /\ caller[c].op \in {"none", "query", "update"}
         /\ Len(caller[c].ch) <= 1
         /\ caller[c].got \in {"none", "own", "foreign", "error"}
    /\ gone \subseteq Callers
    /\ {open, diags} \subseteq Nat

-----------------------------------------------------------------------------
(* The client *)

\* Mutant: a number is taken back when its call is over.
NumberedByPending(s) == Cardinality(server[s].pending) + 1

NextID(s) == server[s].nextID + 1

\* What handleClose leaves of a server: everyone who waits on its client is woken.
Closed(s) == [server[s] EXCEPT !.alive = FALSE, !.done = TRUE, !.pending = {}, !.out = << >>, !.owed = {}]

\* The client when c's call is over and its channel is left with what is in it: a reader about
\* to send there is stuck when the channel is full.
Over(s, c, left) ==
    [server[s] EXCEPT !.pending = {p \in @ : p.by # c},
                      !.held = IF @.to # c THEN @ ELSE IF left = << >> THEN [to |-> Nobody] ELSE [to |-> Stuck]]

\* The caller's tool returns; the call of a server that was being initialized closes it.
ReturnsLeaving(c, got, left) ==
    LET s == caller[c].on
        over == Over(s, c, left)
    IN /\ caller' = [caller EXCEPT ![c] = [AtRest EXCEPT !.calls = caller[c].calls, !.nr = caller[c].nr, !.got = got]]
       /\ server' = [server EXCEPT ![s] = IF caller[c].init THEN [Closed(s) EXCEPT !.held = over.held] ELSE over]

Returns(c, got) == ReturnsLeaving(c, got, caller[c].ch)

At(c, pc) == caller[c].pc = pc
Goes(c, pc) == caller' = [caller EXCEPT ![c].pc = pc]

-----------------------------------------------------------------------------
Init ==
    /\ clients = 0 /\ born = 0
    /\ starter = [s \in Servers |-> Nobody]
    /\ server = [s \in Servers |-> Unstarted]
    /\ caller = [c \in Callers |-> AtRest]
    /\ gone = {}
    /\ open = 0 /\ diags = 0

\* A tool asks about a symbol, or a file tool tells of a file it read or wrote: whether the
\* file is tracked is read now and used when the server has been got.
Call(c, op) ==
    /\ At(c, "idle")
    /\ c \notin gone
    /\ caller[c].calls < MaxCalls
    /\ caller' = [caller EXCEPT ![c].pc = "look", ![c].op = op, ![c].calls = @ + 1, ![c].wasOpen = open > 0,
                                ![c].got = "none"]
    /\ UNCHANGED <<clients, born, starter, server, gone, open, diags>>

GetClient(c) ==
    /\ At(c, "look")
    /\ IF clients # 0 THEN caller' = [caller EXCEPT ![c].pc = "have", ![c].on = clients] ELSE Goes(c, "start")
    /\ UNCHANGED <<clients, born, starter, server, gone, open, diags>>

\* No executable is found, or the context is done.
StartFails(c) ==
    /\ At(c, "start")
    /\ caller' = [caller EXCEPT ![c] = [AtRest EXCEPT !.calls = caller[c].calls, !.nr = caller[c].nr, !.got = "error"]]
    /\ UNCHANGED <<clients, born, starter, server, gone, open, diags>>

NewClient(c) ==
    /\ At(c, "start")
    /\ c \notin gone
    /\ born < MaxServers
    /\ born' = born + 1
    /\ starter' = [starter EXCEPT ![born'] = c]
    /\ server' = [server EXCEPT ![born'].alive = TRUE]
    /\ caller' = [caller EXCEPT ![c].pc = "register", ![c].init = TRUE, ![c].on = born']
    /\ UNCHANGED <<clients, gone, open, diags>>

Registers(c) ==
    /\ At(c, "register")
    /\ LET s == caller[c].on
       IN IF server[s].done THEN Returns(c, "error")
          ELSE /\ server' = [server EXCEPT ![s].nextID = @ + 1, ![s].pending = @ \cup {[id |-> NextID(s), by |-> c]}]
               /\ caller' = [caller EXCEPT ![c].pc = "write", ![c].id = NextID(s), ![c].nr = @ + 1]
    /\ UNCHANGED <<clients, born, starter, gone, open, diags>>

Writes(c) ==
    /\ At(c, "write")
    /\ LET s == caller[c].on
       IN IF server[s].done \/ ~server[s].alive THEN Returns(c, "error")
          ELSE /\ server' = [server EXCEPT ![s].owed = @ \cup {[id |-> caller[c].id, by |-> c, nr |-> caller[c].nr]}]
               /\ Goes(c, "wait")
    /\ UNCHANGED <<clients, born, starter, gone, open, diags>>

\* The caller's select: an answer, the end of the client, the end of its context.  A message
\* without a result cannot be decoded.
Receives(c) ==
    /\ At(c, "wait")
    /\ caller[c].ch # << >>
    /\ LET s == caller[c].on
           m == Head(caller[c].ch)
           own == m.by = c /\ m.nr = caller[c].nr
       IN IF m.kind = "ask" THEN ReturnsLeaving(c, "error", << >>)
          ELSE IF caller[c].init
          THEN /\ caller' = [caller EXCEPT ![c].pc = "initialized", ![c].ch = << >>,
                                           ![c].got = IF own THEN "own" ELSE "foreign"]
               /\ server' = [server EXCEPT ![s] = Over(s, c, << >>)]
          ELSE /\ caller' = [caller EXCEPT ![c] = [AtRest EXCEPT !.calls = caller[c].calls, !.nr = caller[c].nr,
                                                                 !.got = IF own THEN "own" ELSE "foreign"]]
               /\ server' = [server EXCEPT ![s] = Over(s, c, << >>)]
    /\ UNCHANGED <<clients, born, starter, gone, open, diags>>

GivesUp(c) ==
    /\ At(c, "wait")
    /\ server[caller[c].on].done \/ c \in gone
    /\ Returns(c, "error")
    /\ UNCHANGED <<clients, born, starter, gone, open, diags>>

Initialized(c) ==
    /\ At(c, "initialized")
    /\ LET s == caller[c].on
       IN IF server[s].done \/ ~server[s].alive THEN Returns(c, "error") ELSE Goes(c, "publish") /\ UNCHANGED server
    /\ UNCHANGED <<clients, born, starter, gone, open, diags>>

\* The last to get here is the one later callers find.
Publishes(c) ==
    /\ At(c, "publish")
    /\ clients' = caller[c].on
    /\ caller' = [caller EXCEPT ![c].pc = "have", ![c].init = FALSE, ![c].got = "none"]
    /\ UNCHANGED <<born, starter, server, gone, open, diags>>

Asks(c) ==
    /\ At(c, "have")
    /\ caller[c].op = "query"
    /\ Goes(c, "register")
    /\ UNCHANGED <<clients, born, starter, server, gone, open, diags>>

\* OpenFile and ChangeFile: the version is taken under the lock and sent after it.
UpdateFile(c) ==
    /\ At(c, "have")
    /\ caller[c].op = "update"
    /\ open' = IF caller[c].wasOpen THEN open + 1 ELSE 1
    /\ caller' = [caller EXCEPT ![c].pc = "send", ![c].ver = open']
    /\ UNCHANGED <<clients, born, starter, server, gone, diags>>

Notify(c) ==
    /\ At(c, "send")
    /\ LET s == caller[c].on
           sent == ~server[s].done /\ server[s].alive
       IN /\ server' = IF sent THEN [server EXCEPT ![s].doc = caller[c].ver] ELSE server
          /\ caller' = [caller EXCEPT ![c] = [AtRest EXCEPT !.calls = caller[c].calls, !.nr = caller[c].nr,
                                                            !.got = IF sent THEN "none" ELSE "error"]]
    /\ UNCHANGED <<clients, born, starter, gone, open, diags>>

\* The worker's run or the master's turn ends, or is cancelled.
ContextEnds(c) ==
    /\ c \notin gone
    /\ gone' = gone \cup {c}
    /\ UNCHANGED <<clients, born, starter, server, caller, open, diags>>

-----------------------------------------------------------------------------
(* The client's reader *)

\* An answer is one whose number is awaited; a request of the server's is taken for one.
Reads(s) ==
    /\ ~server[s].done
    /\ server[s].held.to = Nobody
    /\ server[s].out # << >>
    /\ LET m == Head(server[s].out)
           awaited == {p \in server[s].pending : m.kind # "diagnostics" /\ p.id = m.id}
       IN /\ server' = [server EXCEPT ![s].out = Tail(@),
                                      ![s].held = IF awaited = {} THEN @
                                                  ELSE [to |-> (CHOOSE p \in awaited : TRUE).by, msg |-> m]]
          /\ diags' = IF m.kind = "diagnostics" THEN m.id ELSE diags
    /\ UNCHANGED <<clients, born, starter, caller, gone, open>>

Delivers(s) ==
    /\ server[s].held.to \in Callers
    /\ LET c == server[s].held.to
       IN /\ caller[c].ch = << >>
          /\ caller' = [caller EXCEPT ![c].ch = << server[s].held.msg >>]
    /\ server' = [server EXCEPT ![s].held = [to |-> Nobody]]
    /\ UNCHANGED <<clients, born, starter, gone, open, diags>>

ReadsEnd(s) ==
    /\ s <= born
    /\ ~server[s].alive /\ ~server[s].done
    /\ server[s].out = << >>
    /\ server[s].held.to = Nobody
    /\ server' = [server EXCEPT ![s] = Closed(s)]
    /\ UNCHANGED <<clients, born, starter, caller, gone, open, diags>>

-----------------------------------------------------------------------------
(* The server; exec.CommandContext kills it when its starter's context ends *)

Says(s, m) == server' = [server EXCEPT ![s].out = Append(@, m)]

ServerAnswers(s) ==
    /\ server[s].alive
    /\ \E r \in server[s].owed :
         server' = [server EXCEPT ![s].owed = @ \ {r},
                                  ![s].out = Append(@, [kind |-> "answer", id |-> r.id, by |-> r.by, nr |-> r.nr])]
    /\ UNCHANGED <<clients, born, starter, caller, gone, open, diags>>

ServerAsks(s) ==
    /\ server[s].alive
    /\ server[s].asks < MaxAsks
    /\ server' = [server EXCEPT ![s].asks = @ + 1, ![s].out = Append(@, [kind |-> "ask", id |-> server[s].asks + 1])]
    /\ UNCHANGED <<clients, born, starter, caller, gone, open, diags>>

ServerDiagnoses(s) ==
    /\ server[s].alive
    /\ server[s].doc > diags
    /\ \A i \in DOMAIN server[s].out : server[s].out[i].kind # "diagnostics"
    /\ Says(s, [kind |-> "diagnostics", id |-> server[s].doc])
    /\ UNCHANGED <<clients, born, starter, caller, gone, open, diags>>

ServerDies(s) ==
    /\ server[s].alive
    /\ Crashes \/ starter[s] \in gone
    /\ server' = [server EXCEPT ![s].alive = FALSE, ![s].owed = {}]
    /\ UNCHANGED <<clients, born, starter, caller, gone, open, diags>>

Step(c) ==
    \/ GetClient(c) \/ StartFails(c) \/ NewClient(c) \/ Registers(c) \/ Writes(c) \/ Receives(c) \/ GivesUp(c)
    \/ Initialized(c) \/ Publishes(c) \/ Asks(c) \/ UpdateFile(c) \/ Notify(c)

Next ==
    \/ \E c \in Callers : Step(c) \/ ContextEnds(c) \/ \E op \in {"query", "update"} : Call(c, op)
    \/ \E s \in Servers :
         \/ Reads(s) \/ Delivers(s) \/ ReadsEnd(s)
         \/ ServerAnswers(s) \/ ServerAsks(s) \/ ServerDiagnoses(s) \/ ServerDies(s)

Spec == Init /\ [][Next]_vars

-----------------------------------------------------------------------------
\* A caller is never given the answer to another request: not to that of another caller, nor to
\* one of its own that it gave up on, whatever the order of answers, cancellations and deaths.
AnswersAreOwn == \A c \in Callers : caller[c].got # "foreign"

\* "GetClient returns an active client for the given language, starting it if necessary."
\* (lsp/manager.go, the comment of GetClient): never one whose server is known to be dead.
ClientIsActive ==
    [][\A c \in Callers : GetClient(c) /\ caller'[c].pc = "have" => ~server[clients].done]_vars

\* "Call makes a synchronous LSP request and decodes the response result" (lsp/client.go): a call
\* fails only for a context that is done or a client that is closed.
DecodesTheResponse ==
    [][\A c \in Callers : Receives(c) => caller'[c].got # "error"]_vars
=============================================================================
