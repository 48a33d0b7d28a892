---------------------------- MODULE Conversation ----------------------------
(***************************************************************************)
(* Message histories as the agent loops keep them and the providers accept *)
(* them, and the algorithms that shorten or repair them: the worker's      *)
(* trimming (internal/agent/subagent.go), the master's trimming and        *)
(* compaction (internal/agent/master.go), and the repair the OpenAI        *)
(* adapter makes before a request (internal/llm/openai.go).                *)
(*                                                                         *)
(* A message keeps what these look at: who speaks, how many tool calls an  *)
(* assistant message carries, and which of the observed user messages it   *)
(* is (0 for the task, a reminder, a notice or a summary).  Tool results   *)
(* follow their calls in order, so counting them stands for their ids.     *)
(***************************************************************************)
EXTENDS Integers, Sequences, FiniteSets, SequencesExt

UserMsg(k) == [role |-> "user", calls |-> 0, msg |-> k]
Note == UserMsg(0)
Assistant(n) == [role |-> "assistant", calls |-> n, msg |-> 0]
Result == [role |-> "tool", calls |-> 0, msg |-> 0]

Message(maxCalls, maxMsg) ==
  [role : {"user", "assistant", "tool"}, calls : 0..maxCalls, msg : 0..maxMsg]

Speaking(h, r) == {i \in DOMAIN h : h[i].role = r}

\* The k-th of a set of indices.
Nth(indices, k) ==
  CHOOSE i \in indices : Cardinality({j \in indices : j <= i}) = k

\* The index from which on the history holds n messages of the given indices.
LastFrom(indices, n) == Nth(indices, Cardinality(indices) + 1 - n)

\* The messages of a history at the given indices, in their order.
Picked(h, indices) == [k \in 1..Cardinality(indices) |-> h[Nth(indices, k)]]

-----------------------------------------------------------------------------
(* A worker's trimming. *)

AssistantTurns(h) == Speaking(h, "assistant") \ {1}

\* Mutant of Trimmed: the cut falls behind the assistant message.
TrimmedBehind(h, keep) ==
  LET turns == AssistantTurns(h) IN
  IF Cardinality(turns) <= keep THEN h
  ELSE <<h[1], Note>> \o SubSeq(h, 1 + LastFrom(turns, keep), Len(h))

\* trimSubagentHistory: the first message, a note, and everything from the
\* keep-th last assistant message on.
Trimmed(h, keep) ==
  LET turns == AssistantTurns(h) IN
  IF Cardinality(turns) <= keep THEN h
  ELSE <<h[1], Note>> \o SubSeq(h, LastFrom(turns, keep), Len(h))

-----------------------------------------------------------------------------
(* The master's trimming and compaction. *)

\* The user messages at which trimHistory may cut: neither the first message
\* nor the last.
Boundaries(h) == {i \in Speaking(h, "user") : 1 < i /\ i < Len(h)}

CanTrim(h) == Boundaries(h) # {} \/ Len(h) > 4

\* trimHistory: a notice and everything from the first such message on, or the
\* second half of a history that has none.
MasterTrimmed(h) ==
  LET cuts == Boundaries(h)
      from == IF cuts # {} THEN LastFrom(cuts, Cardinality(cuts)) ELSE Len(h) \div 2 + 1
  IN  <<Note>> \o SubSeq(h, from, Len(h))

\* Mutant of Compacted: as many messages as so many exchanges have at least.
CompactedByCount(h, keep) ==
  IF Cardinality(Speaking(h, "user")) <= keep THEN h
  ELSE <<Note>> \o SubSeq(h, Len(h) - 2 * keep + 1, Len(h))

\* compactHistory: a summary and the last exchanges, from their user message on.
Compacted(h, keep) ==
  LET users == Speaking(h, "user") IN
  IF Cardinality(users) <= keep THEN h
  ELSE <<Note>> \o SubSeq(h, LastFrom(users, keep), Len(h))

-----------------------------------------------------------------------------
(* What a provider accepts. *)

\* The tool results that stand directly behind message i.
ResultsOf(h, i) == {j \in i+1..Len(h) : \A k \in i+1..j : h[k].role = "tool"}

Incomplete(h) ==
  {i \in Speaking(h, "assistant") : Cardinality(ResultsOf(h, i)) < h[i].calls}

\* Mutant of Repaired: only a trailing gap is repaired, none in mid-history.
RepairedAtEnd(h) ==
  IF \E i \in Incomplete(h) : i + Cardinality(ResultsOf(h, i)) = Len(h)
    THEN SubSeq(h, 1, LastFrom(Speaking(h, "assistant"), 1) - 1)
    ELSE h

\* buildParams of the OpenAI adapter removes every assistant message whose calls
\* are not all answered, with the results it has.
Repaired(h) ==
  LET dropped == UNION {{i} \cup ResultsOf(h, i) : i \in Incomplete(h)}
  IN  Picked(h, DOMAIN h \ dropped)

\* Every call is answered, directly behind the message that makes it.
CallsAnswered(h) == Incomplete(h) = {}

\* Every tool result belongs to a call.
ResultsHaveCalls(h) ==
  \A j \in Speaking(h, "tool") :
    \E i \in Speaking(h, "assistant") : i < j /\ j <= i + h[i].calls /\ j \in ResultsOf(h, i)

WellFormed(h) ==
  /\ h[1].role = "user"
  /\ CallsAnswered(h)
  /\ ResultsHaveCalls(h)
=============================================================================
