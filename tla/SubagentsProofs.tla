--------------------------- MODULE SubagentsProofs ---------------------------
(***************************************************************************)
(* Proofs about Subagents for every number of ids, every concurrency       *)
(* limit, turn cap, inbox size and number of tool calls.                   *)
(*                                                                         *)
(* None of the properties is inductive by itself.  IInv adds where the     *)
(* goroutine stands: a worker inside a turn is below the turn cap and one  *)
(* before a tool still has a call to make (so the counters stay in range); *)
(* a worker that nobody has told to stop owes no overrun and one past a    *)
(* gate has not spent its one; a registered worker nobody has ended is     *)
(* running or paused (so the spawn guard counts it); a worker that has not *)
(* begun has no context.                                                   *)
(***************************************************************************)
EXTENDS Subagents, FiniteSetTheorems, TLAPS

LoopInv ==
  \A s \in Ids :
    /\ pc[s] \in {"topWait", "turn", "calls", "callWait", "run"} =>
         turn[s] < HardTurnCap
    /\ pc[s] \in {"callWait", "run"} => calls[s] > 0

OverrunInv ==
  \A s \in Ids :
    /\ overrun[s] <= 1
    /\ ~paused[s] /\ ~Stopped(s) => overrun[s] = 0
    /\ pc[s] = "run" => overrun[s] = 0
    /\ pc[s] = "turn" /\ ~Stopped(s) => overrun[s] = 0

ActiveInv == \A s \in subs \ ended : status[s] \in Active

StartInv ==
  \A s \in Ids :
    /\ s \notin subs => pc[s] = "absent"
    /\ pc[s] \in {"absent", "created"} => ctx[s] = "none"

IInv ==
  /\ TypeOK
  /\ LoopInv
  /\ OverrunInv
  /\ ActiveInv
  /\ StartInv

-----------------------------------------------------------------------------
\* The initial state satisfies the inductive invariant.
LEMMA InitIInv == Init => IInv
<1> SUFFICES ASSUME Init PROVE IInv
  OBVIOUS
<1> USE ConstantsAssumption
<1>1. TypeOK
  BY DEF Init, TypeOK, Ids, Clients, NoId, Statuses, Active, Terminal, Places
<1>2. LoopInv /\ OverrunInv /\ ActiveInv /\ StartInv
  BY DEF Init, LoopInv, OverrunInv, ActiveInv, StartInv
<1> QED
  BY <1>1, <1>2 DEF IInv

\* The manager's own steps: ids, spawning, follow-ups, the start of a kill-all.
LEMMA ManagerIInv ==
  ASSUME IInv,
         \/ \E n \in Ids : SetNextSubagentID(n)
         \/ \E hasAdapter \in BOOLEAN : Spawn(hasAdapter)
         \/ \E s \in Ids : Send(s)
         \/ CancelAll
  PROVE  IInv'
<1> USE ConstantsAssumption
        DEF IInv, TypeOK, LoopInv, OverrunInv, ActiveInv, StartInv, Stopped, worker
<1>1. ASSUME NEW n \in Ids, SetNextSubagentID(n)
      PROVE  IInv'
  BY <1>1 DEF SetNextSubagentID, Ids
<1>2. ASSUME NEW hasAdapter \in BOOLEAN, Spawn(hasAdapter)
      PROVE  IInv'
  <2> DEFINE id == nextID + 1
  <2>1. id \in Ids /\ id \notin subs /\ nextID' = id /\ id \in 0..MaxSpawns
    BY <1>2 DEF Spawn, Ids
  <2>2. CASE hasAdapter
    <3>1. /\ subs' = subs \cup {id}
          /\ status' = [status EXCEPT ![id] = "running"]
          /\ pc' = [pc EXCEPT ![id] = "created"]
          /\ UNCHANGED <<paused, ctx, turn, calls, verdict, inbox, job, ended, overrun>>
      BY <1>2, <2>2 DEF Spawn
    <3>2. TypeOK'
      BY <2>1, <3>1 DEF Statuses, Active, Places
    <3>3. ActiveInv'
      BY <2>1, <3>1 DEF Active, Ids
    <3>4. LoopInv' /\ OverrunInv'
      BY <2>1, <3>1
    <3>5. StartInv'
      BY <2>1, <3>1
    <3> QED
      BY <3>2, <3>3, <3>4, <3>5
  <2>3. CASE ~hasAdapter
    <3>1. UNCHANGED <<subs, status, paused, ctx, pc, turn, calls, verdict, inbox, job,
                      ended, overrun>>
      BY <1>2, <2>3 DEF Spawn
    <3> QED
      BY <2>1, <3>1
  <2> QED
    BY <2>2, <2>3
<1>3. ASSUME NEW s \in Ids, Send(s)
      PROVE  IInv'
  BY <1>3 DEF Send
<1>4. CASE CancelAll
  <2>0. subs \in SUBSET Ids
    <3>1. nextID \in 0..MaxSpawns /\ subs \in SUBSET (1..nextID)
      OBVIOUS
    <3> QED
      BY <3>1, ConstantsAssumption, SMT DEF Ids
  <2>1. RunningSubs \in SUBSET Ids /\ "ui" \in Clients
    BY <2>0 DEF RunningSubs, Clients
  <2>2. /\ job' \in [Clients -> [todo : SUBSET Ids, cur : Ids \cup {NoId}]]
        /\ UNCHANGED <<nextID, subs, status, paused, ctx, worker, inbox, ended, overrun>>
    BY <1>4, <2>1 DEF CancelAll
  <2> QED
    BY <2>2
<1> QED
  BY <1>1, <1>2, <1>3, <1>4

\* Pausing, resuming and the two halves of a kill.
LEMMA ClientIInv ==
  ASSUME IInv, NEW c \in Clients, ClientStep(c)
  PROVE  IInv'
<1> USE DEF IInv, TypeOK, LoopInv, OverrunInv, ActiveInv, StartInv, Stopped, worker,
            Statuses, Active, Terminal
<1>1. ASSUME NEW s \in Ids, Pause(c, s)
      PROVE  IInv'
  BY <1>1 DEF Pause
<1>2. ASSUME NEW s \in Ids, Resume(c, s)
      PROVE  IInv'
  BY <1>2 DEF Resume
<1>3. ASSUME NEW s \in Ids, Kill(c, s)
      PROVE  IInv'
  BY <1>3 DEF Kill
<1>4. ASSUME NEW s \in Ids, Cancel(c, s)
      PROVE  IInv'
  BY <1>4 DEF Cancel
<1>5. ASSUME MarkCancelled(c)
      PROVE  IInv'
  <2>1. job[c].cur \in Ids
    BY <1>5 DEF MarkCancelled
  <2> QED
    BY <1>5, <2>1 DEF MarkCancelled
<1> QED
  BY <1>1, <1>2, <1>3, <1>4, <1>5 DEF ClientStep

\* The steps of a worker's goroutine, and its deadline.
LEMMA WorkerIInv ==
  ASSUME IInv, NEW s \in Ids, WorkerStep(s) \/ Deadline(s)
  PROVE  IInv'
<1> USE ConstantsAssumption
        DEF IInv, TypeOK, LoopInv, OverrunInv, ActiveInv, StartInv, Stopped, Goto,
            EndWith, CountOverrun, Places, Terminal, worker
<1>1. CASE Begin(s)
  BY <1>1 DEF Begin
<1>2. CASE TopOfLoop(s)
  BY <1>2 DEF TopOfLoop
<1>3. CASE StartTurn(s)
  BY <1>3 DEF StartTurn
<1>4. CASE WakeStopped(s)
  BY <1>4 DEF WakeStopped, ContextVerdict
<1>5. CASE TurnFails(s)
  BY <1>5 DEF TurnFails, ContextVerdict
<1>6. ASSUME NEW reminded \in BOOLEAN, TurnAnswers(s, reminded)
      PROVE  IInv'
  <2>1. TypeOK'
    BY <1>6 DEF TurnAnswers
  <2>2. LoopInv' /\ ActiveInv' /\ StartInv'
    BY <1>6 DEF TurnAnswers
  <2>3. OverrunInv'
    BY <1>6 DEF TurnAnswers
  <2> QED
    BY <2>1, <2>2, <2>3
<1>7. ASSUME NEW n \in 1..MaxCalls, TurnCallsTools(s, n)
      PROVE  IInv'
  BY <1>7 DEF TurnCallsTools
<1>8. CASE NextCall(s)
  BY <1>8 DEF NextCall
<1>9. CASE WakeCall(s)
  BY <1>9 DEF WakeCall
<1>10. CASE Execute(s)
  BY <1>10 DEF Execute
<1>11. CASE Finish(s)
  BY <1>11 DEF Finish, Statuses
<1>12. CASE Announce(s)
  BY <1>12 DEF Announce
<1>13. CASE Deadline(s)
  BY <1>13 DEF Deadline
<1> QED
  BY <1>1, <1>2, <1>3, <1>4, <1>5, <1>6, <1>7, <1>8, <1>9, <1>10, <1>11, <1>12,
     <1>13
     DEF WorkerStep

\* IInv is inductive, hence an invariant of the specification.
LEMMA Invariance == Spec => []IInv
<1>1. IInv /\ [Next]_vars => IInv'
  <2> SUFFICES ASSUME IInv, [Next]_vars PROVE IInv'
    OBVIOUS
  <2>1. CASE UNCHANGED vars
    BY <2>1 DEF vars, IInv, TypeOK, LoopInv, OverrunInv, ActiveInv, StartInv, Stopped
  <2>2. CASE Next
    BY <2>2, ManagerIInv, ClientIInv, WorkerIInv DEF Next
  <2> QED
    BY <2>1, <2>2
<1> QED
  BY InitIInv, <1>1, PTL DEF Spec

-----------------------------------------------------------------------------
\* Every variable of the manager and its workers keeps its type: the turn and
\* call counters never leave their range, no id above nextID is registered.
THEOREM TypeCorrect == Spec => []TypeOK
<1>1. IInv => TypeOK
  BY DEF IInv
<1> QED
  BY Invariance, <1>1, PTL

\* A worker told to stop (paused, killed, past its deadline) completes at most
\* one more turn or tool.
THEOREM GateHolds == Spec => []StopsAtNextGate
<1>1. IInv => StopsAtNextGate
  BY DEF IInv, OverrunInv, StopsAtNextGate
<1> QED
  BY Invariance, <1>1, PTL

-----------------------------------------------------------------------------
\* Registered workers that nobody has ended, before and after a step: only a
\* spawn adds one.
LEMMA FiniteSubs == TypeOK => IsFiniteSet(subs)
<1> SUFFICES ASSUME TypeOK PROVE IsFiniteSet(subs)
  OBVIOUS
<1>1. IsFiniteSet(1..nextID)
  BY FS_Interval DEF TypeOK
<1> QED
  BY <1>1, FS_Subset DEF TypeOK

\* No step lets the workers nobody has ended outgrow the limit: a spawn counts
\* them all, every other step can only end some.
LEMMA SlotStep ==
  ASSUME IInv, SlotBound, [Next]_vars
  PROVE  SlotBound'
<1> USE ConstantsAssumption
<1>1. IsFiniteSet(subs) /\ IsFiniteSet(subs \ ended)
  BY FiniteSubs, FS_Subset DEF IInv
<1>2. CASE subs' = subs /\ ended \subseteq ended'
  <2>1. subs' \ ended' \in SUBSET (subs \ ended)
    BY <1>2
  <2>2. Cardinality(subs' \ ended') <= Cardinality(subs \ ended)
    BY <1>1, <2>1, FS_Subset
  <2>3. IsFiniteSet(subs' \ ended')
    BY <1>1, <2>1, FS_Subset
  <2>4. Cardinality(subs' \ ended') \in Nat /\ Cardinality(subs \ ended) \in Nat
    BY <1>1, <2>3, FS_CardinalityType
  <2> QED
    BY <2>2, <2>4 DEF SlotBound
<1>3. ASSUME NEW hasAdapter \in BOOLEAN, Spawn(hasAdapter)
      PROVE  SlotBound'
  <2> DEFINE id == nextID + 1
  <2>1. CASE ~hasAdapter
    BY <1>2, <1>3, <2>1 DEF Spawn
  <2>2. CASE hasAdapter
    <3>1. subs' = subs \cup {id} /\ ended' = ended
      BY <1>3, <2>2 DEF Spawn
    <3>2. Cardinality(ActiveSubs) < MaxConcurrent
      BY <1>3 DEF Spawn
    <3>3. IsFiniteSet(ActiveSubs) /\ Cardinality(ActiveSubs) \in Nat
      BY <1>1, FS_Subset, FS_CardinalityType DEF ActiveSubs
    <3>4. subs' \ ended' \in SUBSET (ActiveSubs \cup {id})
      BY <3>1 DEF IInv, ActiveInv, ActiveSubs
    <3>5. /\ IsFiniteSet(ActiveSubs \cup {id})
          /\ Cardinality(ActiveSubs \cup {id}) <= Cardinality(ActiveSubs) + 1
      BY <3>3, FS_AddElement, SMTT(30)
    <3>6. /\ IsFiniteSet(subs' \ ended')
          /\ Cardinality(subs' \ ended') <= Cardinality(ActiveSubs \cup {id})
      BY <3>4, <3>5, FS_Subset
    <3>7. /\ Cardinality(subs' \ ended') \in Nat
          /\ Cardinality(ActiveSubs \cup {id}) \in Nat
      BY <3>5, <3>6, FS_CardinalityType
    <3> QED
      BY <3>2, <3>3, <3>5, <3>6, <3>7 DEF SlotBound
  <2> QED
    BY <2>1, <2>2
<1>4. ASSUME NEW c \in Clients, ClientStep(c)
      PROVE  SlotBound'
  BY <1>2, <1>4
     DEF ClientStep, Pause, Resume, Kill, Cancel, MarkCancelled
<1>5. ASSUME NEW s \in Ids, WorkerStep(s) \/ Deadline(s)
      PROVE  SlotBound'
  BY <1>2, <1>5
     DEF WorkerStep, Deadline, Begin, TopOfLoop, StartTurn, WakeStopped, TurnFails,
         TurnAnswers, TurnCallsTools, NextCall, WakeCall, Execute, Finish, Announce
<1>6. CASE (\E n \in Ids : SetNextSubagentID(n)) \/ (\E s \in Ids : Send(s)) \/ CancelAll
  BY <1>2, <1>6 DEF SetNextSubagentID, Send, CancelAll
<1>7. CASE UNCHANGED vars
  BY <1>2, <1>7 DEF vars
<1> QED
  BY <1>3, <1>4, <1>5, <1>6, <1>7 DEF Next

\* The concurrency limit: the workers nobody has ended never outnumber
\* maxConcurrent.
THEOREM SlotsBounded == Spec => []SlotBound
<1>1. Init => SlotBound
  <2> SUFFICES ASSUME Init PROVE SlotBound
    OBVIOUS
  <2>1. subs \ ended = {}
    BY DEF Init
  <2> QED
    BY <2>1, FS_EmptySet, ConstantsAssumption DEF SlotBound
<1>2. IInv /\ SlotBound /\ [Next]_vars => SlotBound'
  BY SlotStep
<1> QED
  BY <1>1, <1>2, Invariance, PTL DEF Spec

-----------------------------------------------------------------------------
\* Which way a step maps to the contract of worker s.
Mapped(s) == [Contract(s)!Next]_(Contract(s)!vars)

\* A step that leaves a worker's place, verdict and context alone is a stutter
\* of its contract.
LEMMA Untouched ==
  ASSUME NEW s \in Ids, pc'[s] = pc[s], verdict'[s] = verdict[s], ctx'[s] = ctx[s]
  PROVE  Mapped(s)
BY DEF Mapped, Contract!vars, Phase, StopOf

\* A worker's own step: deciding and announcing are the contract's, every other
\* step is a stutter.
LEMMA WorkerMapped ==
  ASSUME IInv, NEW s \in Ids, WorkerStep(s)
  PROVE  Mapped(s)
<1> USE DEF IInv, TypeOK, StartInv, Stopped, Goto, EndWith, Terminal, Mapped,
            Phase, StopOf, ContextVerdict,
            Contract!Next, Contract!vars, Contract!Decide, Contract!Announce,
            Contract!Outcomes
<1>1. CASE Begin(s)
  BY <1>1 DEF Begin
<1>2. CASE TopOfLoop(s)
  BY <1>2 DEF TopOfLoop
<1>3. CASE StartTurn(s)
  BY <1>3 DEF StartTurn
<1>4. CASE WakeStopped(s)
  BY <1>4 DEF WakeStopped
<1>5. CASE TurnFails(s)
  BY <1>5 DEF TurnFails
<1>6. ASSUME NEW reminded \in BOOLEAN, TurnAnswers(s, reminded)
      PROVE  Mapped(s)
  BY <1>6 DEF TurnAnswers
<1>7. ASSUME NEW n \in 1..MaxCalls, TurnCallsTools(s, n)
      PROVE  Mapped(s)
  BY <1>7 DEF TurnCallsTools
<1>8. CASE NextCall(s)
  BY <1>8 DEF NextCall
<1>9. CASE WakeCall(s)
  BY <1>9 DEF WakeCall
<1>10. CASE Execute(s)
  BY <1>10 DEF Execute
<1>11. CASE Finish(s)
  BY <1>11 DEF Finish
<1>12. CASE Announce(s)
  BY <1>12 DEF Announce
<1> QED
  BY <1>1, <1>2, <1>3, <1>4, <1>5, <1>6, <1>7, <1>8, <1>9, <1>10, <1>11, <1>12
     DEF WorkerStep

\* A step of another worker, or one of the clients that cancels no context.
LEMMA OthersMapped ==
  ASSUME IInv, NEW s \in Ids, NEW w \in Ids, w # s, WorkerStep(w) \/ Deadline(w)
  PROVE  Mapped(s)
<1>1. pc'[s] = pc[s] /\ verdict'[s] = verdict[s] /\ ctx'[s] = ctx[s]
  BY DEF IInv, TypeOK, Goto, EndWith, WorkerStep, Deadline, Begin, TopOfLoop,
         StartTurn, WakeStopped, TurnFails, TurnAnswers, TurnCallsTools, NextCall,
         WakeCall, Execute, Finish, Announce, worker
<1> QED
  BY <1>1, Untouched

\* The context of a worker ends, by a kill or by its deadline: the contract's
\* Stop.  A worker that has not begun has no context to end.
LEMMA StopMapped ==
  ASSUME IInv, NEW s \in Ids, NEW w \in Ids,
         Deadline(w) \/ \E c \in Clients : Cancel(c, w)
  PROVE  Mapped(s)
<1>1. /\ pc' = pc /\ verdict' = verdict
      /\ \/ ctx'[s] = ctx[s]
         \/ ctx[s] = "live" /\ ctx'[s] \in {"canceled", "deadline"}
  BY DEF IInv, TypeOK, Deadline, Cancel, worker
<1>2. CASE ctx'[s] = ctx[s]
  BY <1>1, <1>2, Untouched
<1>3. CASE ctx[s] = "live" /\ ctx'[s] \in {"canceled", "deadline"}
  <2>1. Phase(s) # "absent"
    BY <1>3 DEF IInv, StartInv, Phase
  <2> QED
    BY <1>1, <1>3, <2>1
       DEF Mapped, Phase, StopOf, Contract!Next, Contract!Stop, Contract!vars
<1> QED
  BY <1>1, <1>2, <1>3

\* Every step of the system is, for every worker, a step of the contract or a
\* stutter.
LEMMA StepMapped ==
  ASSUME IInv, [Next]_vars, NEW s \in Ids
  PROVE  Mapped(s)
<1>1. ASSUME NEW hasAdapter \in BOOLEAN, Spawn(hasAdapter)
      PROVE  Mapped(s)
  <2>1. verdict' = verdict /\ ctx' = ctx
    BY <1>1 DEF Spawn
  <2>2. CASE pc'[s] = pc[s]
    BY <2>1, <2>2, Untouched
  <2>3. CASE pc'[s] # pc[s]
    <3>0. pc' = [pc EXCEPT ![nextID + 1] = "created"]
      BY <1>1, <2>3 DEF Spawn
    <3>1. s = nextID + 1 /\ s \notin subs /\ pc'[s] = "created"
      BY <2>3, <3>0 DEF IInv, TypeOK
    <3>2. pc[s] = "absent"
      BY <3>1 DEF IInv, StartInv
    <3> QED
      BY <2>1, <3>1, <3>2
         DEF Mapped, Phase, StopOf, Contract!Next, Contract!Start, Contract!vars
  <2> QED
    BY <2>2, <2>3
<1>2. ASSUME NEW w \in Ids, WorkerStep(w) \/ Deadline(w)
      PROVE  Mapped(s)
  BY <1>2, WorkerMapped, OthersMapped, StopMapped
<1>3. ASSUME NEW c \in Clients, ClientStep(c)
      PROVE  Mapped(s)
  <2>1. ASSUME NEW w \in Ids, Pause(c, w) \/ Resume(c, w) \/ Kill(c, w)
        PROVE  Mapped(s)
    BY <2>1, Untouched DEF Pause, Resume, Kill, worker
  <2>2. CASE MarkCancelled(c)
    BY <2>2, Untouched DEF MarkCancelled, worker
  <2> QED
    BY <1>3, <2>1, <2>2, StopMapped DEF ClientStep
<1>4. CASE (\E n \in Ids : SetNextSubagentID(n)) \/ (\E w \in Ids : Send(w)) \/ CancelAll
  BY <1>4, Untouched DEF SetNextSubagentID, Send, CancelAll, worker
<1>5. CASE UNCHANGED vars
  BY <1>5, Untouched DEF vars
<1> QED
  BY <1>1, <1>2, <1>3, <1>4, <1>5 DEF Next

\* Every worker implements WorkerContract: it is started once, decides once how
\* it ends, says so once, is "done" only if it was not stopped first and
\* "cancelled" only if it was killed.
THEOREM ContractKept == Spec => KeepsContract
<1>1. Init => \A s \in Ids : Contract(s)!Init
  BY DEF Init, Contract!Init, Phase, StopOf
<1>2. IInv /\ [Next]_vars => \A s \in Ids : [Contract(s)!Next]_(Contract(s)!vars)
  BY StepMapped DEF Mapped
<1> QED
  BY <1>1, <1>2, Invariance, PTL DEF Spec, KeepsContract
=============================================================================
