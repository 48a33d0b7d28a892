------------------------------- MODULE Routing -------------------------------
(***************************************************************************)
(* Which service a worker's calls go to: the defaults spawn_subagent fills *)
(* in (agent/tools.go SpawnTool, models/complexity.go), the factory that   *)
(* routes a tier to the master's adapter, the local fleet, the cloud pool  *)
(* or the one sub-agent adapter (cmd/ageni/main.go buildFactory), and the  *)
(* fleet's nodes, each of which counts the streams it serves.              *)
(*                                                                         *)
(* A worker is given its node once, when it is spawned; every call it      *)
(* makes waits there until the node is idle or 15 seconds have passed.     *)
(* The look at the count and the increment are two steps.                  *)
(***************************************************************************)
EXTENDS Integers, FiniteSets

CONSTANTS Workers,
          Nodes,        \* the endpoints of the fleet; {} when none is configured
          FleetMode,    \* "full", "subset" or "off"
          PoolSize,     \* the entries of the cloud pool, 0 when none is configured
          Roles,        \* roles: [tier : a tier or "", caps : a set of capabilities]
          Objectives,   \* what EstimateComplexity counts in an objective
          MaxCalls      \* bounds the calls of a worker

RoutingConstants == IsFiniteSet(Workers) /\ PoolSize \in Nat /\ MaxCalls \in Nat

VARIABLES route,    \* [Workers -> where the worker's calls go, "" before it is spawned]
          active,   \* [Nodes -> activeCount]
          call,     \* [Workers -> the step of the worker's call]
          closing,  \* [Workers -> the forwarders that have closed its channel and hold their count]
          calls,    \* [Workers -> the calls it has made]
          counter   \* the pool's round robin

vars == <<route, active, call, closing, calls, counter>>

PoolEntry(i) == <<"pool", i>>
Node(n) == <<"node", n>>
Routes == {<<"none">>, <<"master">>, <<"sub">>} \cup {PoolEntry(i) : i \in 1..PoolSize} \cup {Node(n) : n \in Nodes}

TypeOK ==
    /\ route \in [Workers -> Routes]
    /\ active \in [Nodes -> Nat]
    /\ call \in [Workers -> {"idle", "waiting", "seenIdle", "counted", "streaming"}]
    /\ closing \in [Workers -> 0..MaxCalls]
    /\ calls \in [Workers -> 0..MaxCalls]
    /\ counter \in 0..(IF PoolSize = 0 THEN 0 ELSE PoolSize - 1)

-----------------------------------------------------------------------------
\* The score of an objective in tenths; its length is counted in tens of characters.
Least(a, b) == IF a < b THEN a ELSE b
RawTenths(o) ==
    o.length + 15 * o.fences + 20 * o.synthesis + Least(5 * o.files, 30) + 5 * o.also - 20 * o.retrieval - 20 * o.trivial

\* The score plus 4, over 12, is compared with 0.30 and 0.65.
EstimateComplexity(o) ==
    CASE o.length = 0 -> "mid"
      [] o.length > 0 /\ RawTenths(o) < -4 -> "fast"
      [] o.length > 0 /\ RawTenths(o) > 38 -> "flagship"
      [] OTHER -> "mid"

\* An explicit parameter comes before the role's, and the role's before the estimate.
TaskTier(tier, role, o) ==
    CASE tier # "" -> tier
      [] tier = "" /\ role.tier # "" -> role.tier
      [] OTHER -> EstimateComplexity(o)

TaskCaps(caps, role, o) ==
    CASE caps # {} -> caps
      [] caps = {} /\ role.caps # {} -> role.caps
      [] OTHER -> o.needs

\* The nodes next() may return: those with the fewest streams.
LeastBusy == {n \in Nodes : \A k \in Nodes : active[n] <= active[k]}

\* What pickForTask returns: the entry of the provider the registry answers with, or the
\* next entry when it has no answer or none that is in the pool.
Picks(known) == IF known # 0 THEN {PoolEntry(known)} ELSE {PoolEntry(counter + 1)}

\* The tier and the mode of the fleet decide; the rest is what is configured.
Factory(tier, known) ==
    LET pool == IF PoolSize > 0 THEN Picks(known) ELSE {<<"sub">>}
        fleet == {Node(n) : n \in LeastBusy}
    IN CASE tier \in {"opus", "flagship"} -> {<<"master">>}
         [] tier \in {"haiku", "fast", "tiny"} ->
              IF Nodes # {} /\ FleetMode \in {"full", "subset"} THEN fleet ELSE pool
         [] OTHER -> IF Nodes # {} /\ FleetMode = "full" THEN fleet ELSE pool

\* The registry knows models for a task only when it has one with the capabilities asked for.
Answers(caps) == IF "rare" \in caps THEN {0} ELSE 0..PoolSize

-----------------------------------------------------------------------------
Init ==
    /\ route = [w \in Workers |-> <<"none">>]
    /\ active = [n \in Nodes |-> 0]
    /\ call = [w \in Workers |-> "idle"]
    /\ closing = [w \in Workers |-> 0]
    /\ calls = [w \in Workers |-> 0]
    /\ counter = 0

Spawn(w) ==
    /\ route[w] = <<"none">>
    /\ \E tier \in {"", "haiku", "sonnet", "opus"}, role \in Roles, o \in Objectives :
       LET caps == TaskCaps({}, role, o)
       IN \E known \in Answers(caps) : \E r \in Factory(TaskTier(tier, role, o), known) :
            /\ route' = [route EXCEPT ![w] = r]
            /\ counter' = IF known = 0 /\ r \in {PoolEntry(i) : i \in 1..PoolSize}
                          THEN (counter + 1) % PoolSize ELSE counter
    /\ UNCHANGED <<active, call, calls, closing>>

\* The master's system prompt asks the factory for a haiku's adapter, and for a sonnet's when
\* that is not a local one, to see whether workers are local: the round robin moves on.
MasterAsks ==
    /\ PoolSize > 0
    /\ \E known \in {{}, {"haiku"}, {"sonnet"}, {"haiku", "sonnet"}} :
       \E haiku \in Factory("haiku", IF "haiku" \in known THEN 1 ELSE 0) :
         LET toPool == haiku[1] = "pool"
             asked == (IF toPool THEN {"haiku", "sonnet"} ELSE {}) \ known
         IN counter' = (counter + Cardinality(asked)) % PoolSize
    /\ UNCHANGED <<route, active, call, calls, closing>>

OnNode(w, n) == route[w] = Node(n)

\* A call of the worker reaches its node.
Stream(w, n) ==
    /\ OnNode(w, n)
    /\ call[w] = "idle"
    /\ calls[w] < MaxCalls
    /\ calls' = [calls EXCEPT ![w] = @ + 1]
    /\ call' = [call EXCEPT ![w] = "waiting"]
    /\ UNCHANGED <<route, active, counter, closing>>

\* The node is seen idle, or the wait is over.
GoesOn(w, n) ==
    /\ OnNode(w, n)
    /\ call[w] = "waiting"
    /\ call' = [call EXCEPT ![w] = "seenIdle"]
    /\ UNCHANGED <<route, active, calls, counter, closing>>

\* The worker is cancelled while it waits.
StopsWaiting(w) ==
    /\ call[w] = "waiting"
    /\ call' = [call EXCEPT ![w] = "idle"]
    /\ UNCHANGED <<route, active, calls, counter, closing>>

Counts(w, n) ==
    /\ OnNode(w, n)
    /\ call[w] = "seenIdle"
    /\ active' = [active EXCEPT ![n] = @ + 1]
    /\ call' = [call EXCEPT ![w] = "counted"]
    /\ UNCHANGED <<route, calls, counter, closing>>

\* Mutant of Refused: the forwarder is started all the same, and takes the count back once more.
RefusedTwice(w, n) ==
    /\ OnNode(w, n)
    /\ call[w] = "counted"
    /\ active' = [active EXCEPT ![n] = @ - 1]
    /\ call' = [call EXCEPT ![w] = "idle"]
    /\ closing' = [closing EXCEPT ![w] = @ + 1]
    /\ UNCHANGED <<route, calls, counter>>

\* The endpoint refuses the call: the count is taken back and the call returns the error.
Refused(w, n) ==
    /\ OnNode(w, n)
    /\ call[w] = "counted"
    /\ active' = [active EXCEPT ![n] = @ - 1]
    /\ call' = [call EXCEPT ![w] = "idle"]
    /\ UNCHANGED <<route, calls, counter, closing>>

Accepted(w) ==
    /\ call[w] = "counted"
    /\ call' = [call EXCEPT ![w] = "streaming"]
    /\ UNCHANGED <<route, active, calls, counter, closing>>

\* The endpoint's channel is closed, or the worker is cancelled: the forwarder closes the
\* worker's channel, which frees the worker, and then takes the count back.
Ends(w) ==
    /\ call[w] = "streaming"
    /\ call' = [call EXCEPT ![w] = "idle"]
    /\ closing' = [closing EXCEPT ![w] = @ + 1]
    /\ UNCHANGED <<route, active, calls, counter>>

\* Mutant of TakesBack: the count of a stream that has ended is not taken back.
KeepsCount(w, n) ==
    /\ OnNode(w, n)
    /\ closing[w] > 0
    /\ closing' = [closing EXCEPT ![w] = @ - 1]
    /\ UNCHANGED <<route, active, call, calls, counter>>

TakesBack(w, n) ==
    /\ OnNode(w, n)
    /\ closing[w] > 0
    /\ closing' = [closing EXCEPT ![w] = @ - 1]
    /\ active' = [active EXCEPT ![n] = @ - 1]
    /\ UNCHANGED <<route, call, calls, counter>>

Next ==
    \/ MasterAsks
    \/ \E w \in Workers : Spawn(w) \/ StopsWaiting(w) \/ Accepted(w) \/ Ends(w)
    \/ \E w \in Workers, n \in Nodes :
         Stream(w, n) \/ GoesOn(w, n) \/ Counts(w, n) \/ Refused(w, n) \/ TakesBack(w, n)

Spec == Init /\ [][Next]_vars

-----------------------------------------------------------------------------
\* When no call is under way no node counts one, so that the choice of the next worker's node
\* is not swayed by streams that ended, failed or were cancelled.
QuietFleetIsIdle ==
    (\A w \in Workers : call[w] \in {"idle", "waiting", "seenIdle"} /\ closing[w] = 0) => \A n \in Nodes : active[n] = 0
=============================================================================
