----------------------------- MODULE SessionLog -----------------------------
(***************************************************************************)
(* The session log and what a resumed session makes of it                  *)
(* (internal/session/log.go, replay.go, runtime.go; the resume of          *)
(* cmd/ageni/main.go).  Every published event becomes a line; after a      *)
(* crash the master's history and the numbers of its workers are rebuilt   *)
(* from the lines.                                                         *)
(*                                                                         *)
(* A line is its event's kind, the number of the worker it is about or     *)
(* names, and its sequence number.  A crash may leave a line without its   *)
(* end ("torn"): the next line is written behind it and both are "junk".   *)
(* A message of the rebuilt history keeps the numbers of its calls, of the *)
(* call it answers and of the worker its text names.                       *)
(***************************************************************************)
EXTENDS Naturals, Sequences, FiniteSets, SequencesExt, FiniteSetsExt

CONSTANTS
  MaxLines,    (* bound of the model: lines of the log                     *)
  MaxIds,      (* bound of the model: workers                              *)
  MaxCrashes,  (* bound of the model                                       *)
  MaxUser,     (* bound of the model: messages of the user                 *)
  KeepUser     (* replayKeepExchanges                                      *)

SessionLogConstants ==
  /\ MaxLines \in Nat /\ MaxIds \in Nat /\ MaxCrashes \in Nat /\ MaxUser \in Nat
  /\ KeepUser \in Nat \ {0}

Kinds == {"text", "call", "done", "turnDone", "spawn", "torn", "junk"}
Line == [kind : Kinds, id : 0..MaxIds, seq : Nat]
Message == [role : {"user", "assistant", "tool"}, calls : SUBSET (1..MaxLines),
            of : 0..MaxLines, id : 0..MaxIds]

VARIABLES
  log,        (* log.jsonl                                                  *)
  nextSeq,    (* Logger.nextSeq                                             *)
  nextID,     (* Manager.nextID                                             *)
  phase,      (* "idle", "stream", "tools", "spawned", "down"               *)
  open,       (* calls of this answer that have not run                     *)
  replayed,   (* the history the last resume gave the master                *)
  spawned,    (* history: worker numbers given since                        *)
  said,       (* history: messages of the user the master was given         *)
  crashes     (* history                                                    *)

vars == <<log, nextSeq, nextID, phase, open, replayed, spawned, said, crashes>>

TypeOK ==
  /\ log \in Seq(Line) /\ Len(log) <= MaxLines
  /\ nextSeq \in Nat /\ nextID \in 0..MaxIds
  /\ phase \in {"idle", "stream", "tools", "spawned", "down"}
  /\ open \in 0..MaxLines
  /\ replayed \in Seq(Message)
  /\ spawned \subseteq 1..MaxIds
  /\ said \in 0..MaxUser /\ crashes \in 0..MaxCrashes

Init ==
  /\ log = <<>> /\ nextSeq = 0 /\ nextID = 0 /\ phase = "idle" /\ open = 0
  /\ replayed = <<>> /\ spawned = {} /\ said = 0 /\ crashes = 0

-----------------------------------------------------------------------------
(* Writing. *)

\* WriteEvent.
Write(kind, id) ==
  /\ Len(log) < MaxLines
  /\ nextSeq' = nextSeq + 1
  /\ log' = IF log # <<>> /\ Last(log).kind = "torn"
              THEN Front(log) \o <<[kind |-> "junk", id |-> 0, seq |-> 0]>>
              ELSE Append(log, [kind |-> kind, id |-> id, seq |-> nextSeq'])

\* The user's message starts a turn; it is put into the master's inbox, not on
\* the bus.
UserMessage ==
  /\ phase = "idle" /\ said < MaxUser
  /\ phase' = "stream" /\ said' = said + 1
  /\ UNCHANGED <<log, nextSeq, nextID, open, replayed, spawned, crashes>>

Text ==
  /\ phase = "stream" /\ Write("text", 0)
  /\ UNCHANGED <<nextID, phase, open, replayed, spawned, said, crashes>>

ToolCall ==
  /\ phase = "stream" /\ Write("call", 0)
  /\ open' = open + 1
  /\ UNCHANGED <<nextID, phase, replayed, spawned, said, crashes>>

\* Calls whose answer broke off stay in the log; the answer is asked for again.
StreamBreaks ==
  /\ phase = "stream" /\ open > 0
  /\ open' = 0
  /\ UNCHANGED <<log, nextSeq, nextID, phase, replayed, spawned, said, crashes>>

StreamEnds ==
  /\ phase = "stream"
  /\ IF open > 0 THEN phase' = "tools" /\ UNCHANGED <<log, nextSeq>>
     ELSE phase' = "idle" /\ Write("turnDone", 0)
  /\ UNCHANGED <<nextID, open, replayed, spawned, said, crashes>>

\* Manager.Spawn, from the master's tool or, at any time, from a worker's search.
Spawn(after) ==
  /\ nextID < MaxIds
  /\ nextID' = nextID + 1
  /\ Write("spawn", nextID')
  /\ spawned' = spawned \cup {nextID'}
  /\ phase' = after
  /\ UNCHANGED <<open, replayed, said, crashes>>

MasterSpawns == phase = "tools" /\ Spawn("spawned")
SearchSpawns == phase \notin {"down", "spawned"} /\ Spawn(phase)

ToolDone ==
  /\ phase \in {"tools", "spawned"}
  /\ Write("done", IF phase = "spawned" THEN nextID ELSE 0)
  /\ open' = open - 1
  /\ phase' = IF open = 1 THEN "stream" ELSE "tools"
  /\ UNCHANGED <<nextID, replayed, spawned, said, crashes>>

-----------------------------------------------------------------------------
(* Reading. *)

Fresh == [text |-> FALSE, calls |-> {}, order |-> <<>>, answered |-> 0, emitted |-> FALSE]
Reader == [msgs |-> <<>>, next |-> 0, iter |-> Fresh]

\* emitAssistant.
EmitAssistant(r) ==
  IF r.iter.emitted THEN r
  ELSE [r EXCEPT !.iter.emitted = TRUE,
                 !.msgs = IF r.iter.text \/ r.iter.calls # {}
                            THEN Append(@, [role |-> "assistant", calls |-> r.iter.calls,
                                            of |-> 0, id |-> 0])
                            ELSE @]

\* resetIter, on text or a call behind an emitted message.
NextIteration(r) == IF r.iter.emitted THEN [r EXCEPT !.iter = Fresh] ELSE r

ReadCall(r) ==
  LET q == NextIteration(r)
  IN [q EXCEPT !.next = @ + 1, !.iter.calls = @ \cup {q.next + 1},
               !.iter.order = Append(@, q.next + 1)]

\* Mutant of ReadDone: results answer the first call.
ReadDoneFirst(r, id) ==
  LET q == EmitAssistant(r)
  IN [q EXCEPT !.msgs = Append(@, [role |-> "tool", calls |-> {}, id |-> id,
                                   of |-> IF q.iter.order = <<>> THEN 0 ELSE q.iter.order[1]])]

\* Results answer the calls in their order; one too many has no call's id.
ReadDone(r, id) ==
  LET q == EmitAssistant(r)
      k == q.iter.answered + 1
      call == IF k <= Len(q.iter.order) THEN q.iter.order[k] ELSE 0
  IN [q EXCEPT !.msgs = Append(@, [role |-> "tool", calls |-> {}, of |-> call, id |-> id]),
               !.iter.answered = IF call = 0 THEN @ ELSE k]

ReadLine(line, r) ==
  CASE line.kind = "text"     -> [NextIteration(r) EXCEPT !.iter.text = TRUE]
    [] line.kind = "call"     -> ReadCall(r)
    [] line.kind = "done"     -> ReadDone(r, line.id)
    [] line.kind = "turnDone" -> [EmitAssistant(r) EXCEPT !.iter = Fresh]
    [] OTHER                  -> r

\* compactReplayHistory: a summary and the last exchanges with the user.
CompactReplay(h) ==
  LET users == {i \in DOMAIN h : h[i].role = "user"}
      from == CHOOSE i \in users : Cardinality({j \in users : j >= i}) = KeepUser
  IN IF Cardinality(users) <= KeepUser THEN h
     ELSE <<[role |-> "user", calls |-> {}, of |-> 0, id |-> 0]>> \o SubSeq(h, from, Len(h))

\* The reader behind the last line.
ReadLines(lines) ==
  LET reader[k \in 0..Len(lines)] == IF k = 0 THEN Reader ELSE ReadLine(lines[k], reader[k - 1])
  IN  reader[Len(lines)]

LoadHistory == CompactReplay(EmitAssistant(ReadLines(log)).msgs)

\* PriorSubagentIDs, and the numbers LoadWorkerSnapshots meets.
Mentioned(h) == {h[i].id : i \in DOMAIN h} \ {0}
WorkerIds == {log[i].id : i \in {k \in DOMAIN log : log[k].kind = "spawn"}}

\* detectNextSequence.
DetectNextSequence ==
  LET last[k \in 0..Len(log)] == IF k = 0 THEN 0 ELSE Max({last[k - 1] + 1, log[k].seq})
  IN  last[Len(log)]

\* Mutant of NextSubagentID: the log's workers are counted.
WorkersCounted(h) == Cardinality(WorkerIds)

NextSubagentID(h) == Max({0} \cup WorkerIds \cup Mentioned(h))

\* The line being written may be cut short; lines before it were synced.
Crash ==
  /\ phase # "down" /\ crashes < MaxCrashes
  /\ phase' = "down" /\ crashes' = crashes + 1
  /\ \/ UNCHANGED log
     \/ /\ Len(log) < MaxLines
        /\ \A i \in DOMAIN log : log[i].kind # "torn"
        /\ log' = Append(log, [kind |-> "torn", id |-> 0, seq |-> 0])
  /\ UNCHANGED <<nextSeq, nextID, open, replayed, spawned, said>>

Resume ==
  /\ phase = "down"
  /\ phase' = "idle" /\ open' = 0 /\ spawned' = {}
  /\ replayed' = LoadHistory
  /\ nextID' = NextSubagentID(replayed')
  /\ nextSeq' = DetectNextSequence
  /\ UNCHANGED <<log, said, crashes>>

-----------------------------------------------------------------------------
Turn == UserMessage \/ Text \/ ToolCall \/ StreamBreaks \/ StreamEnds \/ MasterSpawns \/ ToolDone
Next == Turn \/ SearchSpawns \/ Crash \/ Resume
Spec == Init /\ [][Next]_vars

-----------------------------------------------------------------------------
(* Properties. *)

\* As long as no line was lost, a resumed master gets no result without a call
\* and no second answer to one, whatever a crash or a broken answer left open.
ResultsHaveCalls ==
  (\A i \in DOMAIN log : log[i].kind # "junk") =>
  \A i \in DOMAIN replayed : replayed[i].role = "tool" =>
    /\ \E k \in 1..(i - 1) : replayed[i].of \in replayed[k].calls
    /\ \A j \in DOMAIN replayed \ {i} : replayed[j].of = replayed[i].of => replayed[i].of = 0

\* No worker started after a resume has a number that the resumed master knows
\* as that of an older one, although the line of its start may be lost.
NumbersAreFresh == spawned \cap Mentioned(replayed) = {}

\* Lines stay in order over restarts, those of lost lines included.
SequenceGrows ==
  \A i, j \in DOMAIN log : i < j /\ log[i].seq > 0 /\ log[j].seq > 0 => log[i].seq < log[j].seq

\* What the comment at LoadHistory and the README say: the log has every user
\* message, and a resumed session continues with them.
UserIsRemembered ==
  replayed # <<>> => \E i \in DOMAIN replayed : replayed[i].role = "user"
=============================================================================
