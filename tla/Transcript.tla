------------------------------ MODULE Transcript ------------------------------
(***************************************************************************)
(* What the chat pane holds of the master and the pane of one worker       *)
(* (internal/tui/app.go handleEvent, appendMasterRender, flushMasterText,  *)
(* flushReasoningBlock, flushSubText, buildChatContent), against what the  *)
(* two streamed (master.go takeTurns, subagent.go runOneTurn).             *)
(*                                                                         *)
(* A pane has a buffer of what is committed and, behind it, the text being *)
(* streamed; of that text the lines that are complete are kept rendered,   *)
(* unless they end inside a code fence.  A piece of text is a number in    *)
(* the order of arrival; events are taken as handled when they are sent.   *)
(***************************************************************************)
EXTENDS Integers, FiniteSets, Sequences, SequencesExt

CONSTANT MaxEvents    \* bounds the pieces, calls and results

TranscriptConstants == MaxEvents \in Nat

Master == "master"
Worker == "s1"
Speakers == {Master, Worker}
Pieces == {"line", "part", "fence"}   \* a whole line, a part of one, a line that opens or closes a fence

VARIABLES step,      \* [Speakers -> where its turn is: "idle", "stream", "tools", "between", "ended"]
          n,         \* the pieces, calls and results so far
          kind,      \* [1..n -> what it is]
          buffer,    \* [Speakers -> its pane's buffer, a sequence of numbers]
          current,   \* [Speakers -> the text being streamed]
          upTo,      \* [Speakers -> how much of it is rendered]
          cache,     \* [Speakers -> the rendered lines]
          thinking,  \* currentReasoning
          queued,    \* a message waits in msgQueue
          dropped    \* the pieces the panes have dropped

vars == <<step, n, kind, buffer, current, upTo, cache, thinking, queued, dropped>>

Numbers == 1..MaxEvents

TypeOK ==
    /\ step \in [Speakers -> {"idle", "stream", "tools", "between", "ended"}]
    /\ n \in 0..MaxEvents
    /\ kind \in [1..n -> Pieces \cup {"thought", "call", "result", "error", "final"}]
    /\ \A s \in Speakers :
         /\ Range(buffer[s]) \cup Range(current[s]) \cup Range(cache[s]) \subseteq 1..n
         /\ upTo[s] \in 0..MaxEvents
    /\ Range(thinking) \subseteq 1..n
    /\ queued \in BOOLEAN
    /\ dropped \subseteq 1..n

-----------------------------------------------------------------------------
Arrives(what) == n < MaxEvents /\ n' = n + 1 /\ kind' = Append(kind, what)

\* How much of text is complete lines, and how much of it may be rendered: none while a fence is open.
Complete(text, k) ==
    LET ends == {i \in DOMAIN text : k[text[i]] \in {"line", "fence"}}
    IN IF ends = {} THEN 0 ELSE CHOOSE i \in ends : \A j \in ends : j <= i
InsideFence(text, k) == Cardinality({i \in DOMAIN text : k[text[i]] = "fence"}) % 2 = 1

\* appendMasterRender, and the same for a worker: text was appended to.
Rerender(s, text, k) ==
    LET done == Complete(text, k)
    IN IF done > upTo[s] /\ ~InsideFence(SubSeq(text, 1, done), k)
       THEN /\ upTo' = [upTo EXCEPT ![s] = done]
            /\ cache' = [cache EXCEPT ![s] = SubSeq(text, 1, done)]
       ELSE UNCHANGED <<upTo, cache>>

\* Mutant: a tool call is written before the text that precedes it.
CommittedAfter(s, last) == buffer[s] \o last \o current[s]

\* The buffer once the streamed text is flushed into it, and what ends it.
Committed(s, last) == buffer[s] \o current[s] \o last

\* The master's thoughts go before the text being streamed.
Thoughts(s) == IF s = Master THEN thinking ELSE << >>

Flush(s, last) ==
    /\ buffer' = [buffer EXCEPT ![s] = IF Thoughts(s) = << >> THEN Committed(s, last)
                                       ELSE buffer[s] \o thinking \o current[s] \o last]
    /\ current' = [current EXCEPT ![s] = << >>]
    /\ IF current[s] = << >> THEN UNCHANGED <<upTo, cache>>
       ELSE upTo' = [upTo EXCEPT ![s] = 0] /\ cache' = [cache EXCEPT ![s] = << >>]
    /\ thinking' = IF s = Master THEN << >> ELSE thinking

-----------------------------------------------------------------------------
Init ==
    /\ step = [s \in Speakers |-> "idle"]
    /\ n = 0 /\ kind = << >>
    /\ buffer = [s \in Speakers |-> << >>]
    /\ current = [s \in Speakers |-> << >>]
    /\ upTo = [s \in Speakers |-> 0]
    /\ cache = [s \in Speakers |-> << >>]
    /\ thinking = << >>
    /\ queued = FALSE
    /\ dropped = {}

\* A turn, an iteration of it, or another attempt at it starts: the master's thoughts are
\* dropped, the text streamed so far is not.
TurnStart(s) ==
    /\ step[s] \in {"idle", "stream", "between"}
    /\ step' = [step EXCEPT ![s] = "stream"]
    /\ thinking' = IF s = Master THEN << >> ELSE thinking
    /\ dropped' = IF s = Master THEN dropped \cup Range(thinking) ELSE dropped
    /\ UNCHANGED <<n, kind, buffer, current, upTo, cache, queued>>

Reasons ==
    /\ step[Master] = "stream"
    /\ Arrives("thought")
    /\ thinking' = Append(thinking, n')
    /\ UNCHANGED <<step, buffer, current, upTo, cache, queued, dropped>>

\* The first text commits the thoughts before it.
Says(s) ==
    /\ step[s] = "stream"
    /\ \E piece \in Pieces :
         /\ Arrives(piece)
         /\ current' = [current EXCEPT ![s] = Append(@, n')]
         /\ Rerender(s, current'[s], kind')
    /\ IF s = Master /\ thinking # << >> /\ current[s] = << >>
       THEN buffer' = [buffer EXCEPT ![s] = @ \o thinking] /\ thinking' = << >>
       ELSE UNCHANGED <<buffer, thinking>>
    /\ UNCHANGED <<step, queued, dropped>>

Calls(s) ==
    /\ step[s] \in {"stream", "tools"}
    /\ Arrives("call")
    /\ Flush(s, << n' >>)
    /\ step' = [step EXCEPT ![s] = "tools"]
    /\ UNCHANGED <<queued, dropped>>

\* The last result of an answer's calls starts another iteration.
ToolDone(s) ==
    /\ step[s] = "tools"
    /\ Arrives("result")
    /\ buffer' = [buffer EXCEPT ![s] = Append(@, n')]
    /\ step' = [step EXCEPT ![s] = "between"]
    /\ UNCHANGED <<current, upTo, cache, thinking, queued, dropped>>

MasterTurnDone ==
    /\ step[Master] = "stream"
    /\ step' = [step EXCEPT ![Master] = "idle"]
    /\ Flush(Master, << >>)
    /\ queued' = FALSE
    /\ UNCHANGED <<n, kind, dropped>>

\* EvError: the streamed text stays, unless a queued message is sent next; what is rendered of
\* it stays in either case.
MasterError ==
    /\ step[Master] = "stream"
    /\ step' = [step EXCEPT ![Master] = "idle"]
    /\ Arrives("error")
    /\ buffer' = [buffer EXCEPT ![Master] = Append(@, n')]
    /\ current' = IF queued THEN [current EXCEPT ![Master] = << >>] ELSE current
    /\ dropped' = IF queued THEN dropped \cup Range(current[Master]) ELSE dropped
    /\ queued' = FALSE
    /\ UNCHANGED <<upTo, cache, thinking>>

\* Esc ends the turn without an event, and forgets the queued messages.
MasterCancelled ==
    /\ step[Master] # "idle"
    /\ step' = [step EXCEPT ![Master] = "idle"]
    /\ queued' = FALSE
    /\ UNCHANGED <<n, kind, buffer, current, upTo, cache, thinking, dropped>>

\* A message to a busy master waits; one to an idle master drops what is left of the streamed text.
Enqueues ==
    /\ ~queued /\ step[Master] # "idle"
    /\ queued' = TRUE
    /\ UNCHANGED <<step, n, kind, buffer, current, upTo, cache, thinking, dropped>>

Submits ==
    /\ step[Master] = "idle"
    /\ current[Master] # << >>
    /\ current' = [current EXCEPT ![Master] = << >>]
    /\ dropped' = dropped \cup Range(current[Master])
    /\ UNCHANGED <<step, n, kind, buffer, upTo, cache, thinking, queued>>

\* EvSubagentDone: the final text takes the place of what was streamed of it; a worker that is
\* cancelled has none.
WorkerDone ==
    /\ step[Worker] \in {"stream", "tools", "between"}
    /\ step' = [step EXCEPT ![Worker] = "ended"]
    /\ \/ step[Worker] = "stream" /\ Arrives("final") /\ buffer' = [buffer EXCEPT ![Worker] = Append(@, n')]
       \/ UNCHANGED <<n, kind, buffer>>
    /\ dropped' = dropped \cup Range(current[Worker])
    /\ current' = [current EXCEPT ![Worker] = << >>]
    /\ UNCHANGED <<upTo, cache, thinking, queued>>

WorkerError ==
    /\ step[Worker] \in {"stream", "tools", "between"}
    /\ step' = [step EXCEPT ![Worker] = "ended"]
    /\ Arrives("error")
    /\ buffer' = [buffer EXCEPT ![Worker] = Append(@, n')]
    /\ UNCHANGED <<current, upTo, cache, thinking, queued, dropped>>

Next ==
    \/ \E s \in Speakers : TurnStart(s) \/ Says(s) \/ Calls(s) \/ ToolDone(s)
    \/ Reasons \/ MasterTurnDone \/ MasterError \/ MasterCancelled \/ Enqueues \/ Submits
    \/ WorkerDone \/ WorkerError

Spec == Init /\ [][Next]_vars

-----------------------------------------------------------------------------
Said == Pieces \cup {"call", "result", "final"}

\* Texts, calls, results and final texts are in a pane in the order they came, however turns
\* fail, are tried again or are cancelled, and none is missing that was not dropped on purpose.
SaidInOrder ==
    /\ \A s \in Speakers :
         LET pane == buffer[s] \o current[s]
         IN \A i, j \in DOMAIN pane :
              i < j /\ {kind[pane[i]], kind[pane[j]]} \subseteq Said => pane[i] < pane[j]
    /\ 1..n = Range(buffer[Master]) \cup Range(current[Master]) \cup Range(buffer[Worker]) \cup Range(current[Worker])
              \cup Range(thinking) \cup dropped

\* "Show glamour-rendered complete lines + raw partial last line." (app.go buildChatContent):
\* what is rendered is the beginning of what is being streamed.
LiveIsTheAnswer ==
    \A s \in Speakers : current[s] # << >> =>
        upTo[s] <= Len(current[s]) /\ cache[s] = SubSeq(current[s], 1, upTo[s])
=============================================================================
