---------------------------- MODULE ShellSession ----------------------------
(***************************************************************************)
(* One persistent bash of internal/agent/shellsession.go, shared by every  *)
(* caller that names it or falls back to it: the ring buffer its output    *)
(* goes to, the goroutines that fill it and wait for the process, and the  *)
(* callers of Exec and WaitForPattern.  A token of output stands for a     *)
(* stretch of bytes; the sentinel line is two tokens and the exit code, so *)
(* that the reader may cut it anywhere.                                    *)
(***************************************************************************)
EXTENDS Naturals, Sequences, FiniteSets, SequencesExt

CONSTANTS
  Callers,       (* tool calls that may be in progress at once             *)
  RingBufSize,   (* ringBufSize, in tokens                                 *)
  ChunkSize,     (* size of the reader's buffer, in tokens                 *)
  MaxExecs       (* bound of the model: calls of Exec                      *)

ShellSessionConstants ==
  /\ IsFiniteSet(Callers)
  /\ {RingBufSize, ChunkSize} \subseteq Nat \ {0} /\ MaxExecs \in Nat

VARIABLES
  status,        (* ShellSession.status                                    *)
  buf,           (* ShellSession.buf                                       *)
  head,          (* ShellSession.head                                      *)
  total,         (* ShellSession.total                                     *)
  stdin,         (* lines written to bash and not yet run                  *)
  last,          (* bash's $?                                              *)
  alive,         (* bash runs                                              *)
  pipe,          (* output of bash that the reader has not read            *)
  chunk,         (* what the reader has read and not yet stored            *)
  call,          (* per caller: where it stands and its local variables    *)
  execs,         (* history: number of calls so far                        *)
  log,           (* history: all that was ever stored                      *)
  truth          (* history: per caller, the exit code of its command      *)

ring == <<buf, head, total, log>>
process == <<stdin, last, alive, pipe, truth>>
vars == <<status, ring, process, chunk, call, execs>>

Sentinel == <<"done", "mark">>
Tokens == {"out", "done", "mark", "0", "1"}
Codes == {"0", "1"}

Idle == [pc |-> "idle", start |-> 0, from |-> 0, asleep |-> FALSE, ctx |-> "live",
         reply |-> "none"]

Init ==
  /\ status = "open" /\ alive = TRUE
  /\ buf = [i \in 0..RingBufSize - 1 |-> "out"]
  /\ head = 0 /\ total = 0 /\ log = <<>>
  /\ stdin = <<>> /\ last = "0" /\ pipe = <<>> /\ chunk = <<>>
  /\ call = [c \in Callers |-> Idle] /\ execs = 0
  /\ truth = [c \in Callers |-> "none"]

\* sync.Cond.Broadcast
Awake(calls) == [c \in Callers |-> [calls[c] EXCEPT !.asleep = FALSE]]

-----------------------------------------------------------------------------
(* The ring buffer. *)

\* The oldest offset still held (BaseOffset).
Base == IF total > RingBufSize THEN total - RingBufSize ELSE 0

\* The n tokens from global offset o on.
FromRing(o, n) == [i \in 1..n |-> buf[(o + i - 1) % RingBufSize]]

\* ReadFrom: what is read, and the offset to go on from.
ReadFrom(o, max) ==
  LET first == IF o < Base THEN Base ELSE o
      n == IF total - first < max THEN total - first ELSE max
  IN  IF first >= total
        THEN [data |-> <<>>, next |-> total]
        ELSE [data |-> FromRing(first, n), next |-> first + n]

\* readRangeUnlocked: like ReadFrom, but what has been overwritten is made up for
\* by what comes behind the range.
ReadRange(o, n) ==
  LET first == IF o < Base THEN Base ELSE o
      size == IF n > total - first THEN total - first ELSE n
  IN  FromRing(first, size)

\* write, mutant: the position is not taken modulo the size at the last cell.
WriteOffByOne(data) ==
  /\ buf' = [i \in DOMAIN buf |->
               LET hits == {j \in DOMAIN data : (head + j) % RingBufSize = i}
               IN  IF hits = {} THEN buf[i] ELSE data[CHOOSE j \in hits : \A k \in hits : k <= j]]
  /\ head' = (head + Len(data)) % RingBufSize
  /\ total' = total + Len(data)
  /\ log' = log \o data

\* write: the bytes go to the ring one after the other.
Write(data) ==
  /\ buf' = [i \in DOMAIN buf |->
               LET hits == {j \in DOMAIN data : (head + j - 1) % RingBufSize = i}
               IN  IF hits = {} THEN buf[i] ELSE data[CHOOSE j \in hits : \A k \in hits : k <= j]]
  /\ head' = (head + Len(data)) % RingBufSize
  /\ total' = total + Len(data)
  /\ log' = log \o data

-----------------------------------------------------------------------------
(* The process and the goroutines of newShellSession. *)

\* bash runs a command, whose output and exit code are its own; its children may
\* live on, and a command that never ends is one bash does not come to.
RunCommand(output, code) ==
  /\ alive
  /\ stdin # <<>> /\ Head(stdin).line = "command"
  /\ stdin' = Tail(stdin)
  /\ pipe' = pipe \o output
  /\ last' = code
  /\ truth' = [truth EXCEPT ![Head(stdin).by] = code]
  /\ UNCHANGED <<status, ring, alive, chunk, call, execs>>

\* bash runs the echo of the sentinel.
RunEcho ==
  /\ alive
  /\ stdin # <<>> /\ Head(stdin).line = "echo"
  /\ stdin' = Tail(stdin)
  /\ pipe' = pipe \o Sentinel \o <<last>>
  /\ last' = "0"
  /\ UNCHANGED <<status, ring, alive, chunk, call, execs, truth>>

\* bash ends: an exit in a command, a signal, or an interrupt of its group.
BashDies ==
  /\ alive
  /\ alive' = FALSE
  /\ UNCHANGED <<status, ring, stdin, last, pipe, truth, chunk, call, execs>>

\* The reader goroutine reads what there is, at most a chunk, and stores it.
ReadChunk ==
  /\ chunk = <<>> /\ pipe # <<>>
  /\ LET n == IF Len(pipe) < ChunkSize THEN Len(pipe) ELSE ChunkSize
     IN  chunk' = SubSeq(pipe, 1, n) /\ pipe' = SubSeq(pipe, n + 1, Len(pipe))
  /\ UNCHANGED <<status, ring, stdin, last, alive, truth, call, execs>>

StoreChunk ==
  /\ chunk # <<>>
  /\ Write(chunk)
  /\ chunk' = <<>>
  /\ call' = Awake(call)
  /\ UNCHANGED <<status, process, execs>>

\* Mutant of Exited: nobody is told.
ExitedQuietly ==
  /\ ~alive /\ pipe = <<>> /\ status = "open"
  /\ status' = "exited"
  /\ UNCHANGED <<ring, process, chunk, call, execs>>

\* The other goroutine: the process has ended and its output has been handed to
\* the reader, which may not have stored all of it yet.
Exited ==
  /\ ~alive /\ pipe = <<>> /\ status = "open"
  /\ status' = "exited"
  /\ call' = Awake(call)
  /\ UNCHANGED <<ring, process, chunk, execs>>

\* close: the whole process group is killed.
Close ==
  /\ status = "open"
  /\ status' = "closed"
  /\ alive' = FALSE
  /\ call' = Awake(call)
  /\ UNCHANGED <<ring, stdin, last, pipe, truth, chunk, execs>>

-----------------------------------------------------------------------------
(* Exec and WaitForPattern. *)

Goes(c, to) == call' = [call EXCEPT ![c].pc = to]
Replies(c, what) == call' = [call EXCEPT ![c].pc = "replied", ![c].reply = what]

\* Exec looks at the status, then, under the lock again, at the end of the output.
ExecStarts(c) ==
  /\ call[c].pc = "idle"
  /\ execs < MaxExecs
  /\ execs' = execs + 1
  /\ IF status = "open"
       THEN call' = [call EXCEPT ![c] = [Idle EXCEPT !.pc = "send", !.start = total,
                                                     !.from = total]]
       ELSE Replies(c, "error")
  /\ truth' = [truth EXCEPT ![c] = "none"]
  /\ UNCHANGED <<status, ring, stdin, last, alive, pipe, chunk>>

\* An asynchronous Exec, SendInput or SendKeys writes its line and returns.
ExecAsync(c) ==
  /\ call[c].pc = "idle"
  /\ execs < MaxExecs
  /\ execs' = execs + 1
  /\ status = "open"
  /\ stdin' = Append(stdin, [line |-> "command", by |-> c])
  /\ UNCHANGED <<status, ring, last, alive, pipe, truth, chunk, call>>

\* The command and the echo of the sentinel are written; a closed stdin is an error.
ExecSends(c) ==
  /\ call[c].pc = "send"
  /\ IF status = "closed" \/ ~alive
       THEN Replies(c, "error") /\ UNCHANGED stdin
       ELSE /\ stdin' = stdin \o <<[line |-> "command", by |-> c], [line |-> "echo", by |-> c]>>
            /\ Goes(c, "scan")
  /\ UNCHANGED <<status, ring, last, alive, pipe, truth, chunk, execs>>

\* The time limit passes or the caller is cancelled; a goroutine of its own wakes
\* the waiter, under the lock.
ContextEnds(c) ==
  /\ call[c].pc = "scan" /\ call[c].ctx = "live"
  /\ call' = [call EXCEPT ![c].ctx = "done"]
  /\ UNCHANGED <<status, ring, process, chunk, execs>>

WakeOnContext(c) ==
  /\ call[c].pc = "scan" /\ call[c].ctx = "done" /\ call[c].asleep
  /\ call' = Awake(call)
  /\ UNCHANGED <<status, ring, process, chunk, execs>>

Hits(data) == {i \in 1..Len(data) - 1 : SubSeq(data, i, i + 1) = Sentinel}

\* Mutant of Rescanned: the next scan begins where this one ended.
RescannedFromEnd(first) == total

\* No match: the next scan begins so that a pattern cut by the end is still seen.
Rescanned(first) ==
  LET overlap == Len(Sentinel) - 1
  IN  IF total - first > overlap THEN total - overlap ELSE first

\* One turn of the loop of WaitForPattern.
Scan(c) ==
  /\ call[c].pc = "scan" /\ ~call[c].asleep
  /\ LET first == IF call[c].from < Base THEN Base ELSE call[c].from
         data == FromRing(first, total - first)
     IN  IF call[c].ctx = "done"
           THEN Replies(c, "error")
           ELSE IF Hits(data) # {}
             THEN LET at == CHOOSE i \in Hits(data) : \A j \in Hits(data) : i <= j
                  IN  call' = [call EXCEPT ![c].pc = "read",
                                           ![c].from = first + at - 1 + Len(Sentinel)]
             ELSE IF status # "open"
               THEN Replies(c, "error")
               ELSE call' = [call EXCEPT ![c].asleep = TRUE, ![c].from = Rescanned(first)]
  /\ UNCHANGED <<status, ring, process, chunk, execs>>

\* The answer of Exec: the output is read up to the end of the sentinel and the
\* exit code taken from what follows the sentinel in it.
ExecReads(c) ==
  /\ call[c].pc = "read"
  /\ LET data == ReadRange(call[c].start, call[c].from - call[c].start)
         rest == IF Hits(data) = {} THEN <<>>
                 ELSE SubSeq(data, (CHOOSE i \in Hits(data) : \A j \in Hits(data) : i <= j) + 2,
                             Len(data))
     IN  Replies(c, IF rest # <<>> /\ rest[1] = "1" THEN "1" ELSE "0")
  /\ UNCHANGED <<status, ring, process, chunk, execs>>

Return(c) ==
  /\ call[c].pc = "replied"
  /\ call' = [call EXCEPT ![c] = Idle]
  /\ UNCHANGED <<status, ring, process, chunk, execs>>

-----------------------------------------------------------------------------
Bash ==
  \/ \E code \in Codes : RunCommand(<<"out">>, code)
  \/ RunEcho
  \/ BashDies

Goroutines ==
  \/ ReadChunk
  \/ StoreChunk
  \/ Exited

Caller(c) == ExecSends(c) \/ WakeOnContext(c) \/ Scan(c) \/ ExecReads(c) \/ Return(c)

Next ==
  \/ Bash
  \/ Goroutines
  \/ Close
  \/ \E c \in Callers : Caller(c) \/ ExecStarts(c) \/ ExecAsync(c) \/ ContextEnds(c)

Spec == Init /\ [][Next]_vars

\* The goroutines of the session and of its callers are always scheduled; when a
\* command ends, or a context, is up to the world.
FairSpec == Spec /\ WF_vars(Goroutines) /\ \A c \in Callers : WF_vars(Caller(c))

-----------------------------------------------------------------------------
(* Properties. *)

TypeOK ==
  /\ status \in {"open", "exited", "closed"} /\ alive \in BOOLEAN
  /\ buf \in [0..RingBufSize - 1 -> Tokens] /\ head \in 0..RingBufSize - 1
  /\ total = Len(log)
  /\ \A c \in Callers :
       /\ call[c].pc \in {"idle", "send", "scan", "read", "replied"}
       /\ call[c].start <= total /\ call[c].from <= total

\* Through every wrap of the ring, what a reader gets from any offset it still
\* holds, in pieces of any size, is what bash wrote there, once and in order, and
\* an offset that has been overwritten leads to the oldest one held.
ReadsWhatWasWritten ==
  \A o \in 0..total, max \in 1..RingBufSize :
    LET r == ReadFrom(o, max) IN
      /\ r.data = SubSeq(log, r.next - Len(r.data) + 1, r.next)
      /\ r.next - Len(r.data) = IF o < Base THEN Base ELSE o
      /\ o < total => r.data # <<>>

\* A caller asleep in WaitForPattern has not passed over a sentinel that is
\* still in the ring, however the reader cut the output.
SleeperMissesNothing ==
  \A c \in Callers :
    call[c].pc = "scan" /\ call[c].asleep =>
      \A i \in Hits(log) : i - 1 < call[c].start \/ i - 1 < Base

\* No caller stays in WaitForPattern once the shell has ended or its own context
\* has: no wake-up is lost between its look at the state and its sleep.
WaitersWake ==
  \A c \in Callers :
    call[c].pc = "scan" /\ (status # "open" \/ call[c].ctx = "done") ~> call[c].pc # "scan"

\* What the comment in Exec says: the exit code is extracted from the sentinel
\* line.  Here a caller alone in the shell whose command failed is told so.
ExitCodeReported ==
  \A c \in Callers :
    call[c].pc = "replied" /\ call[c].reply # "error" /\ execs = 1 =>
      call[c].reply = truth[c]
=============================================================================
