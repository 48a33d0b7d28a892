----------------------------- MODULE ReadCache ------------------------------
(***************************************************************************)
(* The read_file tool and its cache (internal/tools/files.go), which the   *)
(* master and all workers share: a range that is read again and has not    *)
(* changed is answered by a note that names the earlier request.  Tools    *)
(* that write hold the file's lock (tools/lock.go); commands of a shell    *)
(* write without it.  Contents are compared by their hash in the code and  *)
(* as they are here.                                                       *)
(***************************************************************************)
EXTENDS Naturals, Sequences, FiniteSets, FiniteSetsExt

CONSTANTS
  Readers,    (* the master and the workers                                 *)
  Lines,      (* contents of a line                                         *)
  MaxReads    (* bound of the model: calls of read_file                     *)

ReadCacheConstants == IsFiniteSet(Readers) /\ MaxReads \in Nat

VARIABLES
  file,       (* the lines on disk                                          *)
  call,       (* per reader: its call                                       *)
  writing,    (* a tool holds the write lock                                *)
  entries,    (* ReadFileCache.entries: per range its fingerprint           *)
  nextSeq,    (* ReadFileCache.nextSeq                                      *)
  reads,      (* history: calls so far                                      *)
  answered,   (* history: what each request that was answered in full said  *)
  context,    (* per reader: the requests whose answers it has in its       *)
              (* history                                                    *)
  notes       (* history: notes given, as <<reader, request, lines>>        *)

vars == <<file, call, writing, entries, nextSeq, reads, answered, context, notes>>

Files == {<<a>> : a \in Lines} \cup {<<a, b>> : a \in Lines, b \in Lines}
\* The whole file, which is what a call without offset and limit asks for, and a part.
Ranges == {[offset |-> 1, limit |-> 500], [offset |-> 2, limit |-> 1]}
Idle == [pc |-> "idle", range |-> [offset |-> 1, limit |-> 500], lines |-> <<>>]

Init ==
  /\ file \in Files /\ writing = FALSE
  /\ call = [r \in Readers |-> Idle]
  /\ entries = [x \in Ranges |-> {}] /\ nextSeq = 0 /\ reads = 0
  /\ answered = <<>> /\ context = [r \in Readers |-> {}] /\ notes = {}

\* RLock: several may read, none while a tool writes.
Begins(r) ==
  /\ call[r].pc = "idle" /\ reads < MaxReads /\ ~writing
  /\ reads' = reads + 1
  /\ \E x \in Ranges : call' = [call EXCEPT ![r] = [Idle EXCEPT !.pc = "scan", !.range = x]]
  /\ UNCHANGED <<file, writing, entries, nextSeq, answered, context, notes>>

\* The scan emits the lines of the range; past the end of the file there are none.
Emitted(x) == SubSeq(file, x.offset, Min({x.offset + x.limit - 1, Len(file)}))

Scans(r) ==
  /\ call[r].pc = "scan"
  /\ LET lines == Emitted(call[r].range) IN
       call' = [call EXCEPT ![r] = IF lines = <<>> THEN Idle
                                   ELSE [@ EXCEPT !.pc = "ask", !.lines = lines]]
  /\ UNCHANGED <<file, writing, entries, nextSeq, reads, answered, context, notes>>

\* Mutant of Fingerprint: a range that has changed keeps the number it was first read as.
FingerprintKept(x, lines) ==
  [hash |-> lines,
   first |-> IF entries[x] = {} THEN nextSeq + 1 ELSE (CHOOSE e \in entries[x] : TRUE).first]

Fingerprint(x, lines) == [hash |-> lines, first |-> nextSeq + 1]

\* cachedReadStub, under the lock of the cache.
CachedReadStub(r) ==
  /\ call[r].pc = "ask"
  /\ LET x == call[r].range
         prior == {e \in entries[x] : e.hash = call[r].lines} IN
       IF prior # {}
       THEN /\ notes' = notes \cup {<<r, e.first, call[r].lines>> : e \in prior}
            /\ UNCHANGED <<entries, nextSeq, answered, context>>
       ELSE /\ nextSeq' = nextSeq + 1
            /\ entries' = [entries EXCEPT ![x] = {Fingerprint(x, call[r].lines)}]
            /\ answered' = Append(answered, call[r].lines)
            /\ context' = [context EXCEPT ![r] = @ \cup {nextSeq'}]
            /\ UNCHANGED notes
  /\ call' = [call EXCEPT ![r] = Idle]
  /\ UNCHANGED <<file, writing, reads>>

\* The tools that write wait for all readers to leave.
Locks ==
  /\ ~writing /\ \A r \in Readers : call[r].pc = "idle"
  /\ writing' = TRUE
  /\ UNCHANGED <<file, call, entries, nextSeq, reads, answered, context, notes>>

Writes ==
  /\ writing /\ writing' = FALSE
  /\ \E f \in Files : file' = f
  /\ UNCHANGED <<call, entries, nextSeq, reads, answered, context, notes>>

\* A command the agents run writes at any moment.
CommandWrites ==
  /\ \E f \in Files \ {file} : file' = f
  /\ UNCHANGED <<call, writing, entries, nextSeq, reads, answered, context, notes>>

\* The history of a reader is trimmed or compacted; the cache does not hear of it.
Forgets(r) ==
  /\ context[r] # {}
  /\ context' = [context EXCEPT ![r] = {}]
  /\ UNCHANGED <<file, call, writing, entries, nextSeq, reads, answered, notes>>

Next ==
  \/ \E r \in Readers : Begins(r) \/ Scans(r) \/ CachedReadStub(r) \/ Forgets(r)
  \/ Locks \/ Writes \/ CommandWrites

Spec == Init /\ [][Next]_vars

TypeOK ==
  /\ file \in Files /\ writing \in BOOLEAN
  /\ call \in [Readers -> [pc : {"idle", "scan", "ask"}, range : Ranges, lines : Files \cup {<<>>}]]
  /\ \A x \in Ranges :
       /\ Cardinality(entries[x]) <= 1
       /\ entries[x] \subseteq [hash : Files, first : 1..nextSeq]
  /\ nextSeq = Len(answered) /\ reads \in 0..MaxReads
  /\ answered \in Seq(Files) /\ context \in [Readers -> SUBSET (1..nextSeq)]
  /\ notes \subseteq Readers \X (1..nextSeq) \X Files

-----------------------------------------------------------------------------

\* A note that says "already read as request #n, content unchanged" is true: the lines
\* just read are the ones request n was answered with, whoever wrote in between.
NotesAreTrue == \A n \in notes : n[2] \in DOMAIN answered /\ answered[n[2]] = n[3]

\* Whoever gets the note has the answer it names.  Fails: the cache is one for all
\* workers and outlives the trimming of a history (cmd/ageni/runtime_helpers.go:66).
NotesAreKnown == [][\A n \in notes' \ notes : n[2] \in context[n[1]]]_vars
=============================================================================
