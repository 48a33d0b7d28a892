-------------------------------- MODULE Todo --------------------------------
(***************************************************************************)
(* The todo list of a session (internal/tools/todo.go): a tool of the      *)
(* master and of its workers at the same time, a file, and the master's    *)
(* release of what a worker held when the worker has ended (the active     *)
(* context in internal/agent/master.go).  Contents and notes are left out. *)
(***************************************************************************)
EXTENDS Naturals, Sequences, FiniteSets, SequencesExt, FiniteSetsExt

CONSTANTS
  Workers,      (* ids of workers                                           *)
  MaxItems,     (* bound of the model: highest id given out                 *)
  MaxCalls,     (* bound of the model: calls that change the list           *)
  MaxCrashes    (* bound of the model: ends of the program                  *)

TodoConstants ==
  IsFiniteSet(Workers) /\ {MaxItems, MaxCalls, MaxCrashes} \subseteq Nat

VARIABLES
  items,        (* TodoWrite.items                                          *)
  nextID,       (* TodoWrite.nextID                                         *)
  loaded,       (* TodoWrite.loaded                                         *)
  file,         (* the file: items and next id                              *)
  resumed,      (* Master.resumed                                           *)
  ended,        (* per worker: "no", "published", "pending", "released" or,  *)
                (* if the end was discarded, "lost"                         *)
  calls,        (* history: calls so far                                    *)
  crashes,      (* history: ends of the program so far                      *)
  seen,         (* history: the list in the last reply or snapshot          *)
  clean         (* history: no claim has failed half way since the last save *)

list == <<items, nextID, loaded>>
vars == <<list, file, resumed, ended, calls, crashes, seen, clean>>

Nobody == "nobody"
States == {"pending", "in_progress", "completed"}
Item(id, s, by) == [id |-> id, status |-> s, by |-> by]

Init ==
  /\ items = <<>> /\ nextID = 0 /\ loaded = FALSE
  /\ file = [items |-> <<>>, nextID |-> 0]
  /\ resumed = FALSE
  /\ ended = [w \in Workers |-> "no"]
  /\ calls = 0 /\ crashes = 0 /\ seen = <<>> /\ clean = TRUE

\* Mutant of Loaded: the next id is not read.
LoadedWithoutID == IF loaded THEN [items |-> items, nextID |-> nextID]
               ELSE [items |-> file.items, nextID |-> 0]

\* The list as any operation finds it: read from the file at the first use.
Loaded == IF loaded THEN [items |-> items, nextID |-> nextID] ELSE file

\* Mutant of Saves: the file is left for later.
SavesLater(l) ==
  /\ items' = l.items /\ nextID' = l.nextID /\ loaded' = TRUE
  /\ seen' = l.items /\ clean' = TRUE /\ UNCHANGED file

\* The list becomes l and is written to the file, all under the lock.
Saves(l) ==
  /\ items' = l.items /\ nextID' = l.nextID /\ loaded' = TRUE
  /\ file' = l
  /\ seen' = l.items /\ clean' = TRUE

Changed(l, Upd(_)) == [l EXCEPT !.items = [n \in DOMAIN l.items |-> Upd(l.items[n])]]
Has(l, ids) == \E n \in DOMAIN l.items : l.items[n].id \in ids

-----------------------------------------------------------------------------
(* The actions of todo_write. *)

Calls ==
  /\ calls < MaxCalls
  /\ calls' = calls + 1
  /\ UNCHANGED <<resumed, ended, crashes>>

Add ==
  /\ Calls /\ Loaded.nextID < MaxItems
  /\ Saves([items |-> Append(Loaded.items, Item(Loaded.nextID + 1, "pending", Nobody)),
            nextID |-> Loaded.nextID + 1])

Update(id, s) ==
  /\ Calls /\ Has(Loaded, {id})
  /\ Saves(Changed(Loaded, LAMBDA it : IF it.id = id THEN [it EXCEPT !.status = s] ELSE it))

\* The sequences that list a set of places in their order; there is one.
InOrder(places) ==
  {f \in [1..Cardinality(places) -> places] :
     \A m, n \in 1..Cardinality(places) : m < n => f[m] < f[n]}

\* Without ids, the completed ones are removed.
RemoveItems(ids) ==
  /\ Calls
  /\ LET l == Loaded
         kept == {n \in DOMAIN l.items : IF ids = {} THEN l.items[n].status # "completed"
                                         ELSE l.items[n].id \notin ids}
     IN  \E f \in InOrder(kept) :
           Saves([l EXCEPT !.items = [n \in 1..Cardinality(kept) |-> l.items[f[n]]]])

\* replace numbers its items anew; clear is replace by nothing.
Replace(n) ==
  /\ Calls /\ n <= MaxItems
  /\ Saves([items |-> [i \in 1..n |-> Item(i, "pending", Nobody)], nextID |-> n])

\* The items claimed before one that belongs to another stay claimed, in memory.
Claim(ids, w) ==
  /\ Calls /\ Has(Loaded, ToSet(ids))
  /\ LET l == Loaded
         taken == {k \in DOMAIN ids : \E n \in DOMAIN l.items :
                     l.items[n].id = ids[k] /\ l.items[n].by \notin {Nobody, w}}
         mine == IF taken = {} THEN ToSet(ids) ELSE {ids[k] : k \in 1..Min(taken) - 1}
         new == Changed(l, LAMBDA it : IF it.id \in mine THEN Item(it.id, "in_progress", w) ELSE it)
     IN  IF taken = {} THEN Saves(new)
         ELSE /\ items' = new.items /\ nextID' = new.nextID /\ loaded' = TRUE
              /\ clean' = (clean /\ new.items = l.items)
              /\ UNCHANGED <<file, seen>>

Freed(it) == Item(it.id, IF it.status = "in_progress" THEN "pending" ELSE it.status, Nobody)

Release(ids) ==
  /\ Calls
  /\ Saves(Changed(Loaded, LAMBDA it : IF it.id \in ids THEN Freed(it) ELSE it))

\* The list is shown: by the tool, in the UI or to the master.
Look ==
  /\ ~loaded
  /\ items' = Loaded.items /\ nextID' = Loaded.nextID /\ loaded' = TRUE
  /\ UNCHANGED <<file, resumed, ended, calls, crashes, seen, clean>>

-----------------------------------------------------------------------------
(* Ends of workers, and the program's. *)

WorkerEnds(w) ==
  /\ ended[w] = "no"
  /\ ended' = [ended EXCEPT ![w] = "published"]
  /\ UNCHANGED <<list, file, resumed, calls, crashes, seen, clean>>

\* The master takes the end in, or drops it: its inbox is full, or EvCancelAll
\* discards what is pending.
EndTaken(w) ==
  /\ ended[w] = "published"
  /\ ended' = [ended EXCEPT ![w] = "pending"]
  /\ UNCHANGED <<list, file, resumed, calls, crashes, seen, clean>>

EndLost(w) ==
  /\ ended[w] \in {"published", "pending"}
  /\ ended' = [ended EXCEPT ![w] = "lost"]
  /\ UNCHANGED <<list, file, resumed, calls, crashes, seen, clean>>

\* AutoRelease of each of the workers: only what is in progress.
AutoReleased(l, ws) ==
  Changed(l, LAMBDA it : IF it.by \in ws /\ it.status = "in_progress" THEN Freed(it) ELSE it)

ReleasedAll(l) == Changed(l, LAMBDA it : IF it.status = "in_progress" THEN Freed(it) ELSE it)

\* The master begins a turn: after a restart every item in progress is released, then
\* the list is shown to it, and then the items of the workers whose ends it is told
\* of are.  The file is written if something changed.
BeginTurn ==
  LET over == {w \in Workers : ended[w] = "pending"}
      first == IF resumed THEN ReleasedAll(Loaded) ELSE Loaded
      new == AutoReleased(first, over)
  IN  /\ resumed \/ over # {}
      /\ resumed' = FALSE
      /\ ended' = [w \in Workers |-> IF w \in over THEN "released" ELSE ended[w]]
      /\ IF new # Loaded
           THEN Saves(new)
           ELSE /\ items' = new.items /\ nextID' = new.nextID /\ loaded' = TRUE
                /\ UNCHANGED <<file, seen, clean>>
      /\ UNCHANGED <<calls, crashes>>

\* The program ends, and all of its workers with it; the session is resumed.
Restarts ==
  /\ crashes < MaxCrashes
  /\ crashes' = crashes + 1
  /\ items' = <<>> /\ nextID' = 0 /\ loaded' = FALSE
  /\ resumed' = TRUE /\ clean' = TRUE
  /\ ended' = [w \in Workers |-> "lost"]
  /\ UNCHANGED calls

Crash == Restarts /\ UNCHANGED <<file, seen>>

\* It ends while the file is being written, which is emptied first; load makes
\* nothing of what it then finds.
CrashInSave ==
  /\ Restarts
  /\ file' = [items |-> <<>>, nextID |-> 0]
  /\ seen' = <<>>

Ids == 1..MaxItems

Next ==
  \/ Add
  \/ \E id \in Ids, s \in States : Update(id, s)
  \/ \E ids \in SUBSET Ids : RemoveItems(ids)
  \/ \E n \in 0..MaxItems : Replace(n)
  \/ \E a \in Ids, b \in Ids, w \in Workers : Claim(IF a = b THEN <<a>> ELSE <<a, b>>, w)
  \/ \E ids \in SUBSET Ids \ {{}} : Release(ids)
  \/ Look
  \/ \E w \in Workers : WorkerEnds(w) \/ EndTaken(w) \/ EndLost(w)
  \/ BeginTurn
  \/ Crash
  \/ CrashInSave

Spec == Init /\ [][Next]_vars

-----------------------------------------------------------------------------
TypeOK ==
  /\ nextID \in 0..MaxItems
  /\ \A n \in DOMAIN items : items[n] \in [id : Ids, status : States, by : Workers \cup {Nobody}]
  /\ loaded \in BOOLEAN /\ resumed \in BOOLEAN

\* No two items have the same id, through removals, rewrites of the list and
\* restarts: an update or a claim never goes to an item it was not meant for while
\* the list is not rewritten.
IdsUnique ==
  /\ \A m, n \in DOMAIN items : items[m].id = items[n].id => m = n
  /\ loaded => \A n \in DOMAIN items : items[n].id <= nextID

\* What a caller was last shown is what a restart finds, at any moment: the list in
\* memory and the one in the file differ only after a claim that failed half way.
ShownSurvives == file.items = seen /\ (loaded /\ clean => items = seen)
=============================================================================
