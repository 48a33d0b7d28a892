----------------------------- MODULE WorkerLoop -----------------------------
(***************************************************************************)
(* One sub-agent's Run in detail (internal/agent/subagent.go): the turn    *)
(* loop with its tool-call budget and hard turn cap, the follow-up inbox,  *)
(* the trimming of a history that outgrew the model's context, the four    *)
(* kinds of reminders that keep a worker from finishing too early, and     *)
(* runTurnWithRetry.  Pausing and the manager are in Subagents.            *)
(*                                                                         *)
(* The history is the sequence of messages sent to the model, as in        *)
(* Conversation.  Tools come in three sorts: "look" inspects, "edit" is an *)
(* exact-match edit, "test" runs tests or a build.  A tool of no sort (or  *)
(* one that moves files) earns no reminder and only uses up the budget,    *)
(* as a "look" does once the worker has looked.                            *)
(***************************************************************************)
EXTENDS Conversation

CONSTANTS
  MaxToolCalls,    (* Subagent.maxToolCalls                                *)
  MaxRetries,      (* Subagent.maxRetries                                  *)
  MaxIdleRetries,  (* maxIdleRetries                                       *)
  MaxReminders,    (* maxInspectionReminders and its three siblings        *)
  KeepTurns,       (* the 3 of trimSubagentHistory(messages, 3)            *)
  MaxCalls,        (* bound of the model: tool calls in one answer         *)
  MaxSent          (* bound of the model: follow-ups sent to this worker   *)

ASSUME ConstantsAssumption ==
  /\ MaxToolCalls \in Nat \ {0}
  /\ MaxRetries \in Nat
  /\ MaxIdleRetries \in Nat \ {0}
  /\ MaxReminders \in Nat
  /\ KeepTurns \in Nat \ {0}
  /\ MaxCalls \in Nat \ {0}
  /\ MaxSent \in Nat

HardTurnCap == MaxToolCalls * 2

VARIABLES
  pc,           (* where Run stands                                        *)
  stop,         (* Run's context: "no" error yet, "killed", "expired"      *)
  verdict,      (* how Run has decided to end                              *)
  turn,         (* Run's loop variable                                     *)
  history,      (* messages                                                *)
  inbox,        (* follow-ups accepted and not drained                     *)
  sent,         (* history: number of follow-ups accepted                  *)
  read,         (* history: the follow-ups the model has been given        *)
  bigInput,     (* lastInputTokens is at or over the threshold             *)
  toolCallsUsed,
  wrappingUp,
  needsEdit,    (* taskLikelyNeedsMutation(s.Task)                         *)
  inspected,    (* inspectionComplete                                      *)
  edits,        (* mutationAttempted, mutationSucceeded: "none", "failed", "made" *)
  pending,      (* per reminder with a text: is there one?                 *)
  reminded,     (* per reminder: how often it has been given               *)
  answer,       (* tool calls of the current answer still to run           *)
  results,      (* results of this turn's calls, as <<tool, outcome>>      *)
  attempt,      (* runTurnWithRetry's loop variable                        *)
  idle,         (* idleRetries                                             *)
  streams       (* history: LLM requests issued in this turn               *)

retryVars == <<attempt, idle, streams>>
reminderVars == <<inspected, edits, pending, reminded>>
msgVars == <<inbox, sent, read>>
vars == <<pc, stop, verdict, turn, history, inbox, sent, read, bigInput,
          toolCallsUsed, wrappingUp, needsEdit, inspected, edits, pending, reminded,
          answer, results, attempt, idle, streams>>

Tools == {"look", "edit", "test"}
Outcomes(tool) ==
  CASE tool = "look" -> {"ok"}
    [] tool = "edit" -> {"ok", "lint", "brittle", "error"}
    [] tool = "test" -> {"ok", "fail"}

Reminders == {"inspect", "verify", "recover", "mutate"}

TypeOK ==
  /\ pc \in {"top", "ask", "wait", "tools", "finish", "announce", "over"}
  /\ stop \in {"no", "killed", "expired"}
  /\ verdict \in {"none", "done", "error", "cancelled"}
  /\ turn \in 0..HardTurnCap
  /\ history \in Seq(Message(MaxCalls, MaxSent))
  /\ inbox \in Seq(1..MaxSent)
  /\ sent \in 0..MaxSent
  /\ read \in Seq(1..MaxSent)
  /\ bigInput \in BOOLEAN
  /\ toolCallsUsed \in Nat
  /\ wrappingUp \in BOOLEAN
  /\ needsEdit \in BOOLEAN
  /\ inspected \in BOOLEAN
  /\ edits \in {"none", "failed", "made"}
  /\ pending \in [{"verify", "recover"} -> BOOLEAN]
  /\ reminded \in [Reminders -> 0..MaxReminders]
  /\ answer \in Seq(Tools)
  /\ attempt \in 0..MaxRetries
  /\ idle \in 0..MaxIdleRetries
  /\ streams \in Nat

Init ==
  /\ pc = "top"
  /\ stop = "no"
  /\ verdict = "none"
  /\ turn = 0
  /\ history = <<Note>>
  /\ inbox = <<>>
  /\ sent = 0
  /\ read = <<>>
  /\ bigInput = FALSE
  /\ toolCallsUsed = 0
  /\ wrappingUp = FALSE
  /\ needsEdit \in BOOLEAN
  /\ inspected \in BOOLEAN
  /\ ~inspected => needsEdit
  /\ edits = "none"
  /\ pending = [r \in {"verify", "recover"} |-> FALSE]
  /\ reminded = [r \in Reminders |-> 0]
  /\ answer = <<>>
  /\ results = <<>>
  /\ attempt = 0
  /\ idle = 0
  /\ streams = 0

-----------------------------------------------------------------------------
(* The surroundings: the master sends, somebody kills, the deadline passes. *)

Send ==
  /\ sent < MaxSent
  /\ pc \notin {"announce", "over"}
  /\ sent' = sent + 1
  /\ inbox' = Append(inbox, sent')
  /\ UNCHANGED <<pc, stop, verdict, turn, history, read, bigInput, toolCallsUsed,
                 wrappingUp, needsEdit, reminderVars, answer, results, retryVars>>

Stop ==
  /\ stop = "no"
  /\ pc # "over"
  /\ stop' \in {"killed", "expired"}
  /\ UNCHANGED <<pc, verdict, turn, history, msgVars, bigInput, toolCallsUsed,
                 wrappingUp, needsEdit, reminderVars, answer, results, retryVars>>

-----------------------------------------------------------------------------
(* Helpers. *)

\* Mutant of Drained: only the newest follow-up is kept.
DrainedNewest(h) == IF inbox = <<>> THEN h ELSE Append(h, UserMsg(inbox[Len(inbox)]))

\* drainInbox: the waiting follow-ups, in order, as user messages.
Drained(h) == h \o [i \in 1..Len(inbox) |-> UserMsg(inbox[i])]

\* The follow-ups the model has not been given yet: those after its last answer.
Unread(h) ==
  LET new == {i \in DOMAIN h : h[i].msg # 0 /\ \A j \in AssistantTurns(h) : j < i}
  IN  [k \in 1..Cardinality(new) |-> h[Nth(new, k)].msg]

\* Mutant of Offered: the wrap-up turn keeps the tools.
OfferedAlways == IF inspected THEN Tools ELSE {"look"}

\* The tools offered with the request.
Offered ==
  CASE wrappingUp -> {}
    [] ~wrappingUp /\ ~inspected -> {"look"}
    [] OTHER -> Tools

EndWith(v) ==
  /\ pc' = "finish"
  /\ verdict' = v

\* Mutant of ContextVerdict: every ended context counts as a cancellation.
AlwaysCancelled == "cancelled"

\* fail(err) with the context's error.
ContextVerdict == IF stop = "killed" THEN "cancelled" ELSE "error"

-----------------------------------------------------------------------------
(* The turn loop. *)

\* Head of the loop: the hard cap, else the inbox is drained, the history
\* trimmed when the last request was too big, and the request built.
TopOfLoop ==
  /\ pc = "top"
  /\ IF turn = HardTurnCap
       THEN /\ EndWith("error")
            /\ UNCHANGED <<history, inbox, bigInput, retryVars>>
       ELSE /\ history' = IF bigInput THEN Trimmed(Drained(history), KeepTurns)
                                      ELSE Drained(history)
            /\ inbox' = <<>>
            /\ bigInput' = FALSE
            /\ attempt' = 0 /\ idle' = 0 /\ streams' = 0
            /\ pc' = "ask"
            /\ UNCHANGED verdict
  /\ UNCHANGED <<stop, turn, sent, read, toolCallsUsed, wrappingUp, needsEdit,
                 reminderVars, answer, results>>

\* runTurnWithRetry, one attempt: the context has ended, before the request or
\* while it was streaming.
AskStopped ==
  /\ pc \in {"ask", "wait"}
  /\ stop # "no"
  /\ EndWith(ContextVerdict)
  /\ UNCHANGED <<stop, turn, history, msgVars, bigInput, toolCallsUsed, wrappingUp,
                 needsEdit, reminderVars, answer, results, retryVars>>

\* Mutant of AskIdle: the silent stream is waited for again, uncounted.
AskIdleUncounted ==
  /\ pc = "ask"
  /\ pc' = "wait"
  /\ UNCHANGED <<stop, verdict, turn, history, msgVars, bigInput, toolCallsUsed,
                 wrappingUp, needsEdit, reminderVars, answer, results, retryVars>>

\* Mutant of AskIdle: an idle retry starts the other retries again.
AskIdleRestarting ==
  /\ pc = "ask"
  /\ idle' = idle + 1
  /\ streams' = streams + 1
  /\ attempt' = 0
  /\ IF idle' >= MaxIdleRetries
       THEN EndWith("error")
       ELSE pc' = "wait" /\ UNCHANGED verdict
  /\ UNCHANGED <<stop, turn, history, msgVars, bigInput, toolCallsUsed, wrappingUp,
                 needsEdit, reminderVars, answer, results>>

\* The stream went silent: retried on a count of its own.
AskIdle ==
  /\ pc = "ask"
  /\ idle' = idle + 1
  /\ streams' = streams + 1
  /\ IF idle' >= MaxIdleRetries
       THEN EndWith("error")
       ELSE pc' = "wait" /\ UNCHANGED verdict
  /\ UNCHANGED <<stop, turn, history, msgVars, bigInput, toolCallsUsed, wrappingUp,
                 needsEdit, reminderVars, answer, results, attempt>>

\* Mutant of AskFails: one retry too many.
AskFailsOnceMore(transient) ==
  /\ pc = "ask"
  /\ streams' = streams + 1
  /\ IF ~transient \/ attempt > MaxRetries
       THEN EndWith("error") /\ UNCHANGED attempt
       ELSE pc' = "wait" /\ attempt' = attempt + 1 /\ UNCHANGED verdict
  /\ UNCHANGED <<stop, turn, history, msgVars, bigInput, toolCallsUsed, wrappingUp,
                 needsEdit, reminderVars, answer, results, idle>>

\* A transient failure (rate limit, server, network, turn timeout) is retried
\* with a backoff, any other ends the worker.
AskFails(transient) ==
  /\ pc = "ask"
  /\ streams' = streams + 1
  /\ IF ~transient \/ attempt = MaxRetries
       THEN EndWith("error") /\ UNCHANGED attempt
       ELSE pc' = "wait" /\ attempt' = attempt + 1 /\ UNCHANGED verdict
  /\ UNCHANGED <<stop, turn, history, msgVars, bigInput, toolCallsUsed, wrappingUp,
                 needsEdit, reminderVars, answer, results, idle>>

Retry ==
  /\ pc = "wait"
  /\ stop = "no"
  /\ pc' = "ask"
  /\ UNCHANGED <<stop, verdict, turn, history, msgVars, bigInput, toolCallsUsed,
                 wrappingUp, needsEdit, reminderVars, answer, results, retryVars>>

NextTurn ==
  /\ pc' = "top"
  /\ turn' = turn + 1

\* The reminder a text-only answer earns, in the order the code asks.
Due(r) ==
  /\ ~wrappingUp
  /\ toolCallsUsed < MaxToolCalls
  /\ reminded[r] < MaxReminders
  /\ CASE r = "inspect" -> ~inspected
       [] r = "mutate" -> needsEdit /\ edits = "failed"
       [] OTHER -> pending[r]

\* A text-only answer: a reminder, or the follow-ups that arrived meanwhile, or
\* the end.
AskAnswers(big) ==
  LET said == Append(history, Assistant(0))
      Remind(r) == /\ history' = Append(said, Note)
                   /\ reminded' = [reminded EXCEPT ![r] = @ + 1]
                   /\ NextTurn
                   /\ UNCHANGED <<inbox, verdict>>
  IN
  /\ pc = "ask"
  /\ stop = "no"
  /\ streams' = streams + 1
  /\ bigInput' = big
  /\ read' = read \o Unread(history)
  /\ IF      Due("inspect") THEN Remind("inspect")
     ELSE IF Due("verify")  THEN Remind("verify")
     ELSE IF Due("recover") THEN Remind("recover")
     ELSE IF Due("mutate")  THEN Remind("mutate")
     ELSE /\ history' = Drained(said)
          /\ inbox' = <<>>
          /\ IF inbox # <<>>
               THEN NextTurn /\ UNCHANGED verdict
               ELSE EndWith("done") /\ UNCHANGED turn
          /\ UNCHANGED reminded
  /\ UNCHANGED <<stop, sent, toolCallsUsed, wrappingUp, needsEdit, inspected, edits,
                 pending, answer, results, attempt, idle>>

\* An answer with tool calls, of the tools that were offered.
AskCallsTools(tools, big) ==
  /\ pc = "ask"
  /\ stop = "no"
  /\ \A i \in DOMAIN tools : tools[i] \in Offered
  /\ streams' = streams + 1
  /\ bigInput' = big
  /\ read' = read \o Unread(history)
  /\ history' = Append(history, Assistant(Len(tools)))
  /\ answer' = tools
  /\ results' = <<>>
  /\ pc' = "tools"
  /\ UNCHANGED <<stop, verdict, turn, inbox, sent, toolCallsUsed, wrappingUp, needsEdit,
                 reminderVars, attempt, idle>>

\* One tool call: executed, recorded, counted.
Execute(outcome) ==
  LET tool == Head(answer) IN
  /\ pc = "tools"
  /\ answer # <<>>
  /\ stop = "no"
  /\ outcome \in Outcomes(tool)
  /\ edits' = IF tool # "edit" THEN edits
              ELSE IF outcome \in {"ok", "lint"} \/ edits = "made" THEN "made"
              ELSE "failed"
  /\ history' = Append(history, Result)
  /\ results' = Append(results, <<tool, outcome>>)
  /\ answer' = Tail(answer)
  /\ toolCallsUsed' = toolCallsUsed + 1
  /\ UNCHANGED <<pc, stop, verdict, turn, msgVars, bigInput, wrappingUp, needsEdit,
                 inspected, pending, reminded, retryVars>>

\* updateVerificationState and updateEditRecoveryState on this turn's results:
\* an issue sets the reminder, a relevant result without one clears it, and
\* either starts its count again.
Bears(r, result) == IF r = "verify" THEN result[1] \in {"edit", "test"}
                                    ELSE result[1] = "edit"
IssueOf(r, result) == IF r = "verify" THEN result[2] \in {"lint", "fail"}
                                      ELSE result[2] = "brittle"
Seen == {results[i] : i \in DOMAIN results}
Relevant(r) == \E x \in Seen : Bears(r, x)

\* After the tools: the reminders are brought up to date, and a spent budget
\* asks for the final answer.  The loop is left early when the context ended;
\* a kill that comes later finds the calls all made.
EndTurn ==
  LET looked == ~inspected /\ \E x \in Seen : x[1] = "look"
      spent == ~wrappingUp /\ toolCallsUsed >= MaxToolCalls
      restarted == {r \in {"verify", "recover"} : Relevant(r)}
                     \cup (IF looked THEN {"inspect"} ELSE {})
  IN
  /\ pc = "tools"
  /\ answer = <<>> \/ stop # "no"
  /\ answer' = <<>>
  /\ results' = <<>>
  /\ inspected' = (inspected \/ looked)
  /\ pending' = [r \in DOMAIN pending |->
                   IF Relevant(r) THEN \E x \in Seen : IssueOf(r, x) ELSE pending[r]]
  /\ reminded' = [r \in Reminders |-> IF r \in restarted THEN 0 ELSE reminded[r]]
  /\ wrappingUp' = (wrappingUp \/ spent)
  /\ history' = IF spent THEN Append(history, Note) ELSE history
  /\ NextTurn
  /\ UNCHANGED <<stop, verdict, msgVars, bigInput, toolCallsUsed, needsEdit, edits,
                 retryVars>>

\* The status is stored, then the terminal event is published.
Finish ==
  /\ pc = "finish"
  /\ pc' = "announce"
  /\ UNCHANGED <<stop, verdict, turn, history, msgVars, bigInput, toolCallsUsed,
                 wrappingUp, needsEdit, reminderVars, answer, results, retryVars>>

Announce ==
  /\ pc = "announce"
  /\ pc' = "over"
  /\ UNCHANGED <<stop, verdict, turn, history, msgVars, bigInput, toolCallsUsed,
                 wrappingUp, needsEdit, reminderVars, answer, results, retryVars>>

Run ==
  \/ TopOfLoop
  \/ AskStopped
  \/ AskIdle
  \/ \E transient \in BOOLEAN : AskFails(transient)
  \/ Retry
  \/ \E big \in BOOLEAN : AskAnswers(big)
  \/ \E tools \in BoundedSeq(Tools, MaxCalls) \ {<<>>}, big \in BOOLEAN :
       AskCallsTools(tools, big)
  \/ \E tool \in Tools : \E outcome \in Outcomes(tool) : Execute(outcome)
  \/ EndTurn
  \/ Finish
  \/ Announce

Next == Run \/ Send \/ Stop

Spec == Init /\ [][Next]_vars

\* The goroutine is scheduled; every stream ends, if only by the watchdog or
\* the turn timeout, and every tool returns.
FairSpec == Spec /\ WF_vars(Run)

-----------------------------------------------------------------------------
(* Properties. *)

\* Every request that is sent is one the provider accepts, however the history
\* was trimmed, reminded or interrupted before.
RequestWellFormed == pc = "ask" /\ stop = "no" => WellFormed(history)

\* Every follow-up the worker has taken out of its inbox has been given to the
\* model or stands in the history behind the model's last answer: once each, in
\* the order the master sent them, none lost to trimming or to a reminder.
FollowUpsInOrder ==
  read \o Unread(history) = [i \in 1..(sent - Len(inbox)) |-> i]

\* A worker whose model calls only the tools it is offered overruns its budget
\* by no more than the answer that spent it; and one LLM turn never issues more
\* requests than its two retry counts allow together.
BudgetHolds ==
  /\ toolCallsUsed < MaxToolCalls + MaxCalls
  /\ streams <= (MaxRetries + 1) + (MaxIdleRetries - 1)

\* Without any deadline, reminders, retries and follow-ups still come to an end.
Terminates == <>(pc = "over")

\* Run keeps the same contract towards its waiters as in Subagents.
Contract == INSTANCE WorkerContract
  WITH phase <- CASE pc \in {"finish", "announce"} -> "decided"
                  [] pc = "over" -> "over"
                  [] OTHER -> "live",
       outcome <- verdict

KeepsContract == [][Contract!Next]_(Contract!vars)

\* What the comment at the hard cap says: reaching it takes a model that calls
\* tools although the wrap-up turn offers none.
CapOnlyInWrapUp == pc = "top" /\ turn = HardTurnCap => wrappingUp
=============================================================================
