-------------------------------- MODULE Wire --------------------------------
(***************************************************************************)
(* What goes over the wire to a provider and what comes back               *)
(* (internal/llm/openai.go, internal/llm/anthropic.go): the request's      *)
(* messages, from which assistant messages with unanswered calls are cut   *)
(* out, and the tool calls, which arrive in pieces, by index, and are      *)
(* handed on whole.                                                        *)
(*                                                                         *)
(* The caller's history is any that interrupted turns can leave: answers   *)
(* may be missing, and be followed by more turns.  A call is its number;   *)
(* of a call, Pieces pieces arrive.  OpenAI's adapter hands calls on when  *)
(* the provider says "tool_calls" or the answer is over, in the order of a *)
(* Go map, Anthropic's each at its end.                                    *)
(***************************************************************************)
EXTENDS Naturals, Sequences, FiniteSets, SequencesExt, FiniteSetsExt

CONSTANTS
  Api,         (* "openai" or "anthropic"                                  *)
  Pieces,      (* pieces a call arrives in                                 *)
  MaxCalls,    (* bound of the model: calls ever made                      *)
  MaxTurns     (* bound of the model: requests                             *)

WireConstants ==
  /\ Api \in {"openai", "anthropic"}
  /\ Pieces \in Nat \ {0} /\ MaxCalls \in Nat /\ MaxTurns \in Nat

Calls == 1..MaxCalls
Messages == [role : {"user", "assistant", "tool"}, calls : SUBSET Calls]

VARIABLES
  history,     (* the caller's messages; a "tool" message answers one call *)
  wire,        (* params.Messages of the last request                      *)
  phase,       (* "idle", "stream", "tools"                                *)
  pending,     (* per call: the pieces received, 0 when there is no entry  *)
  emitted,     (* StreamEventToolCall, in order: [call, pieces]            *)
  made,        (* history: calls of this answer, in the model's order      *)
  turns        (* history: requests so far                                 *)

vars == <<history, wire, phase, pending, emitted, made, turns>>

TypeOK ==
  /\ history \in Seq(Messages) /\ wire \in Seq(Messages)
  /\ phase \in {"idle", "stream", "tools"}
  /\ pending \in [Calls -> 0..Pieces]
  /\ emitted \in Seq([call : Calls, pieces : 1..Pieces])
  /\ made \in Seq(Calls) /\ turns \in 0..MaxTurns

User == [role |-> "user", calls |-> {}]
Assistant(cs) == [role |-> "assistant", calls |-> cs]
Tool(c) == [role |-> "tool", calls |-> {c}]

Init ==
  /\ history = <<User>> /\ wire = <<>> /\ phase = "idle"
  /\ pending = [c \in Calls |-> 0]
  /\ emitted = <<>> /\ made = <<>> /\ turns = 0

-----------------------------------------------------------------------------
(* The request. *)

\* The tool messages that follow position i.
AnswersEnd(msgs, i) ==
  Max({j \in i..Len(msgs) : \A k \in (i + 1)..j : msgs[k].role = "tool"})

Unanswered(msgs, i) ==
  msgs[i].calls \ UNION {msgs[k].calls : k \in (i + 1)..AnswersEnd(msgs, i)}

Incomplete(msgs, i) == msgs[i].role = "assistant" /\ Unanswered(msgs, i) # {}

\* Mutant of Spliced: the answers that are there are kept.
SplicedAlone(msgs, i) == RemoveAt(msgs, i)

\* An incomplete assistant message goes with the answers that follow it.
Spliced(msgs, i) == SubSeq(msgs, 1, i - 1) \o SubSeq(msgs, AnswersEnd(msgs, i) + 1, Len(msgs))

Cut(msgs, i) == IF Incomplete(msgs, i) THEN Spliced(msgs, i) ELSE msgs

\* The scan of buildParams: one pass, checking a position again after a cut; here it is
\* from the end, where a cut moves no position that is still to be checked.  Anthropic's
\* adapter has none.
WireMessages(msgs) ==
  LET left[k \in 0..Len(msgs)] ==
        IF k = 0 THEN msgs ELSE Cut(left[k - 1], Len(msgs) + 1 - k)
  IN  IF Api = "anthropic" THEN msgs ELSE left[Len(msgs)]

Request ==
  /\ phase = "idle" /\ turns < MaxTurns
  /\ history # <<>> /\ Last(history).role \in {"user", "tool"}
  /\ phase' = "stream" /\ turns' = turns + 1
  /\ wire' = WireMessages(history)
  /\ emitted' = <<>> /\ made' = <<>> /\ pending' = [c \in Calls |-> 0]
  /\ UNCHANGED history

-----------------------------------------------------------------------------
(* The answer. *)

KnownCalls == Calls \cap UNION {m.calls : m \in Range(history)}

\* The model begins a call, with its id and name; the others may be open.
CallBegins ==
  /\ phase = "stream"
  /\ LET c == 1 + Max({0} \cup KnownCalls \cup Range(made))
     IN /\ c \in Calls
        /\ made' = Append(made, c)
        /\ pending' = [pending EXCEPT ![c] = 1]
  /\ UNCHANGED <<history, wire, phase, emitted, turns>>

PieceArrives ==
  /\ phase = "stream"
  /\ \E c \in Range(made) :
       /\ pending[c] \in 1..(Pieces - 1)
       /\ pending' = [pending EXCEPT ![c] = @ + 1]
  /\ UNCHANGED <<history, wire, phase, emitted, made, turns>>

Whole(cs) == \A c \in cs : pending[c] = Pieces

Open == {c \in Calls : pending[c] > 0}

\* emitTools: everything pending, in the order of the map.
EmitAll(order) ==
  /\ order \in SetToSeqs(Open)
  /\ emitted' = emitted \o [k \in DOMAIN order |-> [call |-> order[k], pieces |-> pending[order[k]]]]
  /\ pending' = [c \in Calls |-> 0]

\* A well-behaved provider says "tool_calls", or stops a block, when its calls
\* are whole.
CallsFinish ==
  /\ phase = "stream" /\ Open # {}
  /\ IF Api = "openai"
       THEN Whole(Open) /\ \E order \in SetToSeqs(Open) : EmitAll(order)
       ELSE \E c \in Open :
              /\ Whole({c})
              /\ emitted' = Append(emitted, [call |-> c, pieces |-> pending[c]])
              /\ pending' = [pending EXCEPT ![c] = 0]
  /\ UNCHANGED <<history, wire, phase, made, turns>>

\* What the caller keeps of an answer.
Kept(calls) == history' = Append(history, Assistant({e.call : e \in Range(calls)}))

\* The stream is over: OpenAI's adapter hands on what is left.
StreamEnds ==
  /\ phase = "stream" /\ Whole(Open)
  /\ IF Api = "openai" THEN \E order \in SetToSeqs(Open) : EmitAll(order)
     ELSE Open = {} /\ UNCHANGED <<emitted, pending>>
  /\ Kept(emitted')
  /\ phase' = "tools"
  /\ UNCHANGED <<wire, made, turns>>

\* It breaks off: the caller drops the answer, or keeps it and runs no tool.
StreamBreaks ==
  /\ phase = "stream" /\ phase' = "idle"
  /\ Kept(emitted) \/ UNCHANGED history
  /\ UNCHANGED <<wire, pending, emitted, made, turns>>

Answered == UNION {m.calls : m \in {n \in Range(history) : n.role = "tool"}}

ToolAnswers ==
  /\ phase = "tools"
  /\ \E c \in {e.call : e \in Range(emitted)} \ Answered : history' = Append(history, Tool(c))
  /\ UNCHANGED <<wire, phase, pending, emitted, made, turns>>

\* The turn is over: the calls are answered, or it is interrupted; the user
\* may say something.
TurnOver ==
  /\ phase = "tools" /\ phase' = "idle"
  /\ UNCHANGED <<history, wire, pending, emitted, made, turns>>

UserSays ==
  /\ phase = "idle" /\ turns < MaxTurns /\ Last(history).role # "user"
  /\ history' = Append(history, User)
  /\ UNCHANGED <<wire, phase, pending, emitted, made, turns>>

-----------------------------------------------------------------------------
Stream == CallBegins \/ PieceArrives \/ CallsFinish \/ StreamEnds \/ StreamBreaks
Next == Request \/ Stream \/ ToolAnswers \/ TurnOver \/ UserSays
Spec == Init /\ [][Next]_vars

-----------------------------------------------------------------------------
(* Properties. *)

\* Where the user speaks: messages of the user do not differ.
OfUser(msgs) == {i \in DOMAIN msgs : msgs[i].role = "user"}

\* What the comment in buildParams asks of a request to a strict provider:
\* every assistant message with calls is followed by an answer to each, no
\* answer is without its call, and everything the user said is still there.
RequestIsComplete ==
  Api = "openai" =>
    /\ \A i \in DOMAIN wire :
         /\ ~Incomplete(wire, i)
         /\ wire[i].role = "tool" =>
              \E k \in 1..(i - 1) : wire[k].role = "assistant" /\ wire[i].calls \subseteq wire[k].calls
    /\ phase = "stream" => Cardinality(OfUser(wire)) = Cardinality(OfUser(history))

\* At the end of an answer each call was handed on once, with all its pieces.
CallsAreWhole ==
  phase = "tools" =>
    /\ {e.call : e \in Range(emitted)} = Range(made) /\ Len(emitted) = Len(made)
    /\ \A e \in Range(emitted) : e.pieces = Pieces
=============================================================================
