-------------------------------- MODULE Memory --------------------------------
(***************************************************************************)
(* The memories of the remember, recall and forget tools                   *)
(* (internal/memory): files in the global directory and in the project's,  *)
(* and the registry that a session holds of them.  The master and the      *)
(* workers call the tools at the same time; the file is written outside    *)
(* the registry's lock.  Other sessions write the same directories.        *)
(*                                                                         *)
(* A fact is the words of its description and of its body; a query is the  *)
(* words of the request a prompt is made for.  A file or an entry is a set *)
(* of at most one member.                                                  *)
(***************************************************************************)
EXTENDS Naturals, Sequences, FiniteSets, Functions

CONSTANTS
  Callers,     (* those whose tool calls overlap                           *)
  Names,       (* the keys, in their alphabetical order                    *)
  Words,       (* what the texts are made of                               *)
  Facts,       (* what there is to remember                                *)
  MaxItems,    (* 6 in the code: memories in a prompt                      *)
  MaxCalls,    (* bound of the model: tool calls                           *)
  MaxForeign   (* bound of the model: writes of other sessions             *)

Keys == Range(Names)
Dirs == {"global", "local"}
Fact == [desc : SUBSET Words, body : SUBSET Words]

MemoryConstants ==
  /\ Names \in Seq(Words) /\ Names # <<>>
  /\ \A f \in Facts : f \in Fact /\ f.desc # {}
  /\ {MaxItems, MaxCalls, MaxForeign} \subseteq Nat

VARIABLES
  files,      (* [Dirs -> [Keys -> the file's text]]                       *)
  project,    (* there is an .ageni directory in the working directory     *)
  writeAt,    (* Registry.writeAt                                          *)
  items,      (* Registry.items: the fact, and the file it came from       *)
  call,       (* [Callers -> the call under way]                           *)
  calls,      (* tool calls so far                                         *)
  foreign,    (* writes of other sessions so far                           *)
  said,       (* [Keys -> what a tool said is saved]                       *)
  gone        (* keys of which a tool said that they are deleted           *)

registry == <<writeAt, items>>
history == <<said, gone>>
vars == <<files, project, registry, call, calls, foreign, history>>

Blank == [desc |-> {}, body |-> {}]
Idle == [step |-> "idle", key |-> Names[1], fact |-> Blank, dir |-> "global", alone |-> TRUE]

TypeOK ==
  /\ files \in [Dirs -> [Keys -> SUBSET Fact]]
  /\ project \in BOOLEAN /\ writeAt \in Dirs
  /\ items \in [Keys -> SUBSET [fact : Fact, dir : Dirs]]
  /\ call \in [Callers -> [step : {"idle", "write", "store", "remove"}, key : Keys,
                            fact : Fact, dir : Dirs, alone : BOOLEAN]]
  /\ calls \in 0..MaxCalls /\ foreign \in 0..MaxForeign
  /\ said \in [Keys -> SUBSET Facts] /\ gone \subseteq Keys

-----------------------------------------------------------------------------
(* Loading. *)

\* A file without a description is described by its key.
Read(k, d) ==
  {[fact |-> IF f.desc = {} THEN [f EXCEPT !.desc = {k}] ELSE f, dir |-> d] : f \in files[d][k]}

\* Mutant of Loaded: the directories in the other order.
LoadedGlobalLast == [k \in Keys |-> IF files["global"][k] # {} THEN Read(k, "global") ELSE Read(k, "local")]

\* Load: the global directory first, then the project's over it.
Loaded == [k \in Keys |-> IF files["local"][k] # {} THEN Read(k, "local") ELSE Read(k, "global")]

WriteDir(local) == IF local THEN "local" ELSE "global"

Init ==
  /\ files = [d \in Dirs |-> [k \in Keys |-> {}]]
  /\ project \in BOOLEAN
  /\ writeAt = WriteDir(project) /\ items = Loaded
  /\ call = [c \in Callers |-> Idle]
  /\ calls = 0 /\ foreign = 0
  /\ said = [k \in Keys |-> {}] /\ gone = {}

\* The process ends, whatever is under way, and another one starts; by then
\* the working directory may have an .ageni directory.
Restart(appears) ==
  /\ project' = (project \/ appears)
  /\ writeAt' = WriteDir(project') /\ items' = Loaded
  /\ call' = [c \in Callers |-> Idle]
  /\ UNCHANGED <<files, calls, foreign, history>>

-----------------------------------------------------------------------------
(* The tools. *)

\* A write on key k makes every call under way on it a call among others.
Disturbed(k) == 
  [c \in Callers |->
     IF call[c].step # "idle" /\ call[c].key = k THEN [call[c] EXCEPT !.alone = FALSE] ELSE call[c]]
Alone(k) == \A c \in Callers : call[c].step # "idle" => call[c].key # k

Begins(c, k, step, f, d) ==
  /\ call[c].step = "idle" /\ calls < MaxCalls
  /\ call' = [Disturbed(k) EXCEPT ![c] = [step |-> step, key |-> k, fact |-> f, dir |-> d, alone |-> Alone(k)]]
  /\ calls' = calls + 1
  /\ said' = [said EXCEPT ![k] = {}]
  /\ gone' = gone \ {k}

\* Set opens the file, which empties it, then writes it, then takes the lock.
Set(c, k, f) ==
  /\ Begins(c, k, "write", f, writeAt)
  /\ files' = [files EXCEPT ![writeAt][k] = {Blank}]
  /\ UNCHANGED <<project, registry, foreign>>

SetWrites(c) ==
  /\ call[c].step = "write"
  /\ files' = [files EXCEPT ![call[c].dir][call[c].key] = {call[c].fact}]
  /\ call' = [call EXCEPT ![c].step = "store"]
  /\ UNCHANGED <<project, registry, calls, foreign, history>>

SetStores(c) ==
  /\ call[c].step = "store"
  /\ items' = [items EXCEPT ![call[c].key] = {[fact |-> call[c].fact, dir |-> call[c].dir]}]
  /\ call' = [call EXCEPT ![c] = Idle]
  /\ said' = IF call[c].alone THEN [said EXCEPT ![call[c].key] = {call[c].fact}] ELSE said
  /\ UNCHANGED <<files, project, writeAt, calls, foreign, gone>>

\* Delete takes the entry under the lock and removes its file after it.
Delete(c, k) ==
  \E m \in items[k] :
    /\ Begins(c, k, "remove", Blank, m.dir)
    /\ items' = [items EXCEPT ![k] = {}]
    /\ UNCHANGED <<files, project, writeAt, foreign>>

DeleteRemoves(c) ==
  /\ call[c].step = "remove"
  /\ files' = [files EXCEPT ![call[c].dir][call[c].key] = {}]
  /\ call' = [call EXCEPT ![c] = Idle]
  /\ gone' = IF call[c].alone THEN gone \cup {call[c].key} ELSE gone
  /\ UNCHANGED <<project, registry, calls, foreign, said>>

\* Another session remembers or forgets; this one does not hear of it.
OtherSession(d, k, text) ==
  /\ foreign < MaxForeign
  /\ d = "local" => project
  /\ files[d][k] # text
  /\ files' = [files EXCEPT ![d][k] = text]
  /\ foreign' = foreign + 1
  /\ call' = Disturbed(k)
  /\ said' = [said EXCEPT ![k] = {}] /\ gone' = gone \ {k}
  /\ UNCHANGED <<project, registry, calls>>

-----------------------------------------------------------------------------
(* What a prompt shows. *)

ScoreMemory(k, f, query) ==
  (IF k \in query THEN 4 ELSE 0) + 3 * Cardinality(f.desc \cap query) + Cardinality(f.body \cap query)

Kept == {k \in Keys : items[k] # {}}
Score(k, query) == LET m == CHOOSE m \in items[k] : TRUE IN ScoreMemory(k, m.fact, query)
Place(k) == CHOOSE n \in DOMAIN Names : Names[n] = k

Outranks(j, k, query) ==
  \/ Score(j, query) > Score(k, query)
  \/ Score(j, query) = Score(k, query) /\ Place(j) < Place(k)

\* All of them, if they are few, the request has no words or none of them
\* matches it; else the MaxItems best.
InlineBlockForQuery(query) ==
  LET scored == {k \in Kept : Score(k, query) > 0}
  IN  IF Cardinality(Kept) <= MaxItems \/ query = {} \/ scored = {} THEN Kept
      ELSE {k \in scored : Cardinality({j \in scored : Outranks(j, k, query)}) < MaxItems}

-----------------------------------------------------------------------------
Next ==
  \/ \E appears \in BOOLEAN : Restart(appears)
  \/ \E c \in Callers, k \in Keys : Delete(c, k) \/ \E f \in Facts : Set(c, k, f)
  \/ \E c \in Callers : SetWrites(c) \/ SetStores(c) \/ DeleteRemoves(c)
  \/ \E d \in Dirs, k \in Keys, text \in {{}} \cup {{f} : f \in Facts} : OtherSession(d, k, text)

Spec == Init /\ [][Next]_vars

-----------------------------------------------------------------------------
(* Properties. *)

\* What a remember call said is saved stays saved, in the registry and for every
\* later session, until a call or another session touches the same key; and a
\* request that names the key is shown it, unless MaxItems others match as well.
SavedSurvives ==
  \A k \in Keys : \A f \in said[k] :
    /\ \A m \in items[k] \cup Loaded[k] : m.fact = f
    /\ items[k] # {} /\ Loaded[k] # {}
    /\ \/ k \in InlineBlockForQuery({k})
       \/ Cardinality({j \in Kept \ {k} : Score(j, {k}) >= 4}) >= MaxItems

\* What the description of the remember tool says: the memory is "injected into
\* every future system prompt automatically".
SavedIsInPrompts ==
  \A k \in Keys : said[k] # {} => \A query \in SUBSET Words : k \in InlineBlockForQuery(query)

\* What the comment on Delete says: it removes a memory "from both the in-memory
\* map and disk", so that a later session does not have it.
ForgottenIsGone == \A k \in gone : Loaded[k] = {}
=============================================================================
