------------------------------ MODULE FileEdits ------------------------------
(***************************************************************************)
(* The file tools of concurrent workers (internal/tools: files.go,         *)
(* fileops.go, multiedit.go, applydiff.go, transactional_edit.go), the     *)
(* locks they take (lock.go), the tracker that records and undoes what     *)
(* they do (changes.go).  read_file takes a lock shared and changes        *)
(* nothing.                                                                *)
(*                                                                         *)
(* A file is its path and a content; each tool call that writes has a      *)
(* content of its own, so that a lost or a foreign write shows.  Whether   *)
(* the text to replace occurs in the file is left open.                    *)
(***************************************************************************)
EXTENDS Naturals, Sequences, FiniteSets, SequencesExt, FiniteSetsExt

CONSTANTS
  Workers,     (* agents that call tools concurrently                      *)
  Paths,       (* the files; numbers, in the order of their names          *)
  Kinds,       (* the tools that are used                                  *)
  MaxOps,      (* bound of the model: tool calls that change files         *)
  MaxCrashes   (* bound of the model: ends of the program                  *)

AllKinds == {"write", "edit", "multiEdit", "diff", "delete", "move", "transaction"}

FileEditsConstants ==
  /\ "free" \notin Workers /\ IsFiniteSet(Paths) /\ Paths \subseteq Nat \ {0}
  /\ Kinds \subseteq AllKinds
  /\ MaxOps \in Nat /\ MaxCrashes \in Nat

VARIABLES
  disk,        (* content of every file, Absent if there is none            *)
  lock,        (* per path: the worker that holds its write lock, or "free" *)
  nextStep,    (* ChangeTracker.nextStep                                    *)
  items,       (* ChangeTracker.items, which changes.jsonl repeats          *)
  baseline,    (* snapshots/: content at the first touch, {} before that    *)
  checkpoint,  (* checkpoints/step-N: what BeginMutation saved              *)
  op,          (* per worker: its tool call and where it stands             *)
  ops,         (* history: calls so far                                     *)
  crashes,     (* history: ends of the program so far                       *)
  was,         (* history: per recorded step, the content it replaced       *)
  foreign      (* history: files a rollback changed under another's lock,   *)
               (* or whose change it undid though another made it           *)

tracker == <<nextStep, items, baseline, checkpoint>>
ghosts == <<crashes, was, foreign>>
vars == <<disk, lock, tracker, op, ops, ghosts>>

Absent == 0
Contents == 0..MaxOps + 1
MaxSteps == MaxOps * Cardinality(Paths)
Steps == 1..MaxSteps
NoStep == [p \in Paths |-> Absent]

Idle == [pc |-> "idle", kind |-> "write", todo |-> <<>>, want |-> {}, saw |-> NoStep,
         step |-> 0, first |-> 0, new |-> Absent, ok |-> TRUE, paths |-> <<>>]

Init ==
  /\ disk \in [Paths -> {Absent, MaxOps + 1}]
  /\ lock = [p \in Paths |-> "free"]
  /\ nextStep = 0 /\ items = <<>>
  /\ baseline = [p \in Paths |-> {}] /\ checkpoint = [s \in Steps |-> NoStep]
  /\ op = [w \in Workers |-> Idle]
  /\ ops = 0 /\ crashes = 0 /\ was = [s \in Steps |-> NoStep] /\ foreign = {}

-----------------------------------------------------------------------------
(* The tracker. *)

Touches(c, p) == c.path = p \/ c.from = p

\* Mutant of Earliest: the last change counts.
Latest(n, p) ==
  CHOOSE c \in ToSet(items) : /\ Touches(c, p) /\ c.step >= n
                              /\ \A d \in ToSet(items) :
                                   Touches(d, p) /\ d.step >= n => d.step <= c.step

\* The first change of a path at step n or later.
Earliest(n, p) ==
  CHOOSE c \in ToSet(items) : /\ Touches(c, p) /\ c.step >= n
                              /\ \A d \in ToSet(items) :
                                   Touches(d, p) /\ d.step >= n => c.step <= d.step

Changed(n) == {p \in Paths : \E c \in ToSet(items) : Touches(c, p) /\ c.step >= n}

\* Rewind: a file created by its first change is removed, any other gets its
\* checkpoint back if there is one.
Rewound(n) ==
  [p \in Paths |->
     IF p \notin Changed(n) THEN disk[p]
     ELSE IF Earliest(n, p).kind = "created" THEN Absent
     ELSE IF checkpoint[Earliest(n, p).step][p] = Absent THEN disk[p]
     ELSE checkpoint[Earliest(n, p).step][p]]

\* BeginMutation: the next step, the first-touch baseline and the checkpoint; a
\* file that does not exist leaves what the step's directory held.  MaxSteps bounds
\* the model; no call is kept from its steps, for it has one per file at most.
BeginMutation(p) ==
  /\ nextStep < MaxSteps /\ nextStep' = nextStep + 1
  /\ baseline' = IF baseline[p] = {} THEN [baseline EXCEPT ![p] = {disk[p]}] ELSE baseline
  /\ checkpoint' = IF disk[p] = Absent THEN checkpoint
                   ELSE [checkpoint EXCEPT ![nextStep'][p] = disk[p]]

Record(path, kind, from, step) ==
  items' = Append(items, [path |-> path, kind |-> kind, from |-> from, step |-> step])

-----------------------------------------------------------------------------
(* A tool call takes its locks. *)

Sets(w, o) == op' = [op EXCEPT ![w] = o]

Call(w, kind, paths) ==
  /\ op[w].pc = "idle" /\ ops < MaxOps
  /\ kind \in Kinds
  /\ Len(paths) = IF kind = "move" THEN 2 ELSE IF kind = "transaction" THEN Len(paths) ELSE 1
  /\ ops' = ops + 1
  /\ Sets(w, [Idle EXCEPT !.pc = "lock", !.kind = kind, !.paths = paths, !.todo = paths,
                          !.want = ToSet(paths), !.new = ops'])
  /\ UNCHANGED <<disk, lock, tracker, ghosts>>

\* Mutant of NextLock: the locks are taken in the order of the call.
NextLockAsGiven(w) ==
  op[w].paths[CHOOSE i \in DOMAIN op[w].paths :
                /\ op[w].paths[i] \in op[w].want
                /\ \A j \in DOMAIN op[w].paths : op[w].paths[j] \in op[w].want => i <= j]

\* LockMany takes them in the order of the names.
NextLock(w) == Min(op[w].want)

TakeLock(w) ==
  /\ op[w].pc = "lock"
  /\ LET p == NextLock(w) IN
       /\ lock[p] = "free"
       /\ lock' = [lock EXCEPT ![p] = w]
       /\ Sets(w, [op[w] EXCEPT !.want = @ \ {p},
                                !.pc = IF op[w].want = {p} THEN "check" ELSE "lock"])
  /\ UNCHANGED <<disk, tracker, ops, ghosts>>

(* Under its locks each tool looks at its files, and goes on or gives up. *)

Goes(w) == Sets(w, [op[w] EXCEPT !.saw = disk, !.pc = "begin"])
GivesUp(w) == Sets(w, [op[w] EXCEPT !.saw = disk, !.pc = "unlock", !.ok = FALSE])
Checking(w, kind) == op[w].pc = "check" /\ op[w].kind = kind
Missing(w) == disk[op[w].todo[1]] = Absent
LooksOnly == UNCHANGED <<disk, lock, tracker, ops, ghosts>>

WriteFile(w) == Checking(w, "write") /\ Goes(w) /\ LooksOnly

\* An edit needs its file and exactly one match; several edits all need theirs.
EditFile(w) ==
  /\ Checking(w, "edit")
  /\ (~Missing(w) /\ Goes(w)) \/ GivesUp(w)
  /\ LooksOnly

MultiEdit(w) ==
  /\ Checking(w, "multiEdit")
  /\ (~Missing(w) /\ Goes(w)) \/ GivesUp(w)
  /\ LooksOnly

\* apply_diff replaces the whole file, or blocks of it, or creates it from a content
\* without blocks.
ApplyDiff(w) ==
  /\ Checking(w, "diff")
  /\ Goes(w) \/ GivesUp(w)
  /\ LooksOnly

DeleteFile(w) ==
  /\ Checking(w, "delete")
  /\ IF Missing(w) THEN GivesUp(w) ELSE Goes(w)
  /\ LooksOnly

\* Every change of a transaction is prepared before the first is made.
TransactionalEdit(w) ==
  /\ Checking(w, "transaction")
  /\ Goes(w) \/ GivesUp(w)
  /\ LooksOnly

\* A move needs its source; its destination, if there is one, is removed first or
\* refused.
MoveFile(w) ==
  /\ Checking(w, "move")
  /\ IF Missing(w) THEN GivesUp(w) /\ UNCHANGED disk
     ELSE IF disk[op[w].todo[2]] = Absent THEN Goes(w) /\ UNCHANGED disk
     ELSE \/ GivesUp(w) /\ UNCHANGED disk
          \/ Goes(w) /\ disk' = [disk EXCEPT ![op[w].todo[2]] = Absent]
  /\ UNCHANGED <<lock, tracker, ops, ghosts>>

(* Then, per file, it begins the mutation, writes and records. *)

Begin(w) ==
  /\ op[w].pc = "begin"
  /\ BeginMutation(op[w].todo[1])
  /\ Sets(w, [op[w] EXCEPT !.pc = "write", !.step = nextStep',
                           !.first = IF @ = 0 THEN nextStep' ELSE @])
  /\ was' = [was EXCEPT ![nextStep'] = disk]
  /\ UNCHANGED <<disk, lock, items, ops, crashes, foreign>>

\* The change itself.
Write(w) ==
  /\ op[w].pc = "write"
  /\ disk' = LET o == op[w] IN
             CASE o.kind = "delete" -> [disk EXCEPT ![o.todo[1]] = Absent]
               [] o.kind = "move" -> [disk EXCEPT ![o.todo[1]] = Absent,
                                                  ![o.todo[2]] = disk[o.todo[1]]]
               [] OTHER -> [disk EXCEPT ![o.todo[1]] = o.new]
  /\ Sets(w, [op[w] EXCEPT !.pc = "record"])
  /\ UNCHANGED <<lock, tracker, ops, ghosts>>

\* It fails: the file is as it was, or the content it had is lost to what was written of the
\* new one; a delete or a rename that fails leaves its file.  The step has been begun, and no
\* change is recorded for it.  (In a transaction a failed write rolls back.)
WriteFails(w) ==
  /\ op[w].pc = "write" /\ op[w].kind # "transaction"
  /\ \/ UNCHANGED disk
     \/ /\ op[w].kind \in {"write", "edit", "multiEdit", "diff"}
        /\ disk' = [disk EXCEPT ![op[w].todo[1]] = op[w].new]
  /\ Sets(w, [op[w] EXCEPT !.pc = "unlock", !.ok = FALSE])
  /\ UNCHANGED <<lock, tracker, ops, ghosts>>

KindOf(o) ==
  CASE o.kind = "delete" -> "deleted"
    [] OTHER -> IF o.saw[o.todo[1]] = Absent THEN "created" ELSE "edited"

RecordIt(w) ==
  /\ op[w].pc = "record"
  /\ LET o == op[w] IN
       /\ IF o.kind = "move" THEN Record(o.todo[2], "moved", o.todo[1], o.step)
                             ELSE Record(o.todo[1], KindOf(o), 0, o.step)
       /\ Sets(w, IF o.kind # "transaction" THEN [o EXCEPT !.pc = "unlock"]
                  ELSE IF Len(o.todo) > 1 THEN [o EXCEPT !.pc = "begin", !.todo = Tail(@)]
                  ELSE [o EXCEPT !.pc = "validate"])
  /\ UNCHANGED <<disk, lock, nextStep, baseline, checkpoint, ops, ghosts>>

Validated(w) ==
  /\ op[w].pc = "validate"
  /\ Sets(w, [op[w] EXCEPT !.pc = "unlock"])
  /\ UNCHANGED <<disk, lock, tracker, ops, ghosts>>

\* Mutant of Undone: only the last step of the transaction is undone.
UndoneLast(w) == Rewound(op[w].step)

\* What the workspace is after the rollback of a transaction.
Undone(w) == Rewound(op[w].first)

\* A write fails, or the validation command does: Rewind puts back every file
\* changed since the first step of the transaction, whoever changed it.
RollBack(w) ==
  /\ op[w].kind = "transaction" /\ op[w].pc \in {"write", "validate"}
  /\ disk' = Undone(w)
  /\ foreign' = foreign \cup (Changed(op[w].first) \ ToSet(op[w].paths))
  /\ Sets(w, [op[w] EXCEPT !.pc = "unlock", !.ok = FALSE])
  /\ UNCHANGED <<lock, tracker, ops, crashes, was>>

Unlock(w) ==
  /\ op[w].pc = "unlock"
  /\ lock' = [p \in Paths |-> IF lock[p] = w THEN "free" ELSE lock[p]]
  /\ op' = [op EXCEPT ![w] = Idle]
  /\ UNCHANGED <<disk, tracker, ops, ghosts>>

\* Mutant of LastStep: the lines are counted, though steps undone have none.
LastStepCounted == Len(items)

\* The number the steps go on from after a restart.
LastStep == Max({0} \cup {c.step : c \in ToSet(items)})

\* The program ends anywhere and is started again on the same session: the steps
\* that were recorded are read back, and so are the paths they touched.
Crash ==
  /\ crashes < MaxCrashes
  /\ crashes' = crashes + 1
  /\ lock' = [p \in Paths |-> "free"] /\ op' = [w \in Workers |-> Idle]
  /\ nextStep' = LastStep
  /\ baseline' = [p \in Paths |-> IF p \in Changed(0) THEN baseline[p] ELSE {}]
  /\ UNCHANGED <<disk, items, checkpoint, ops, was, foreign>>

\* `ageni sessions rewind`, while the program does not run.
RewindSession(n) ==
  /\ \A w \in Workers : op[w] = Idle
  /\ n \in {c.step : c \in ToSet(items)}
  /\ disk' = Rewound(n)
  /\ UNCHANGED <<lock, tracker, op, ops, ghosts>>

Tool(w) ==
  \/ TakeLock(w) \/ WriteFile(w) \/ EditFile(w) \/ MultiEdit(w) \/ ApplyDiff(w)
  \/ DeleteFile(w) \/ TransactionalEdit(w) \/ MoveFile(w) \/ Begin(w) \/ Write(w) \/ WriteFails(w) \/ RecordIt(w)
  \/ Validated(w) \/ RollBack(w) \/ Unlock(w)

Calls == {<<p>> : p \in Paths} \cup {<<p, q>> : p \in Paths, q \in Paths}

Next ==
  \/ \E w \in Workers : Tool(w)
  \/ \E w \in Workers, kind \in Kinds, ps \in {ps \in Calls : IsInjective(ps)} : Call(w, kind, ps)
  \/ Crash
  \/ \E n \in Steps : RewindSession(n)

Spec == Init /\ [][Next]_vars

\* A tool call that can go on does.
FairSpec == Spec /\ \A w \in Workers : WF_vars(Tool(w))

-----------------------------------------------------------------------------
(* Properties. *)

TypeOK ==
  /\ disk \in [Paths -> Contents] /\ lock \in [Paths -> Workers \cup {"free"}]
  /\ nextStep \in 0..MaxSteps
  /\ \A c \in ToSet(items) : c.step <= nextStep
  /\ checkpoint \in [Steps -> [Paths -> Contents]]
  /\ \A w \in Workers : op[w].first <= op[w].step /\ op[w].step <= nextStep

FirstSince(n, p) ==
  {c \in ToSet(items) : /\ Touches(c, p) /\ c.step >= n
                        /\ \A d \in ToSet(items) : Touches(d, p) /\ d.step >= n => c.step <= d.step}

\* Rewinding to any step gives every file changed since the content it had when
\* its first change since began, through concurrent calls, transactions rolled
\* back, restarts that give a step number out again and rewinds before this one.
\* A moved file's new name is left out (Rewind leaves the file there), and so is
\* one that another's rollback changed under its lock.
RewindRestores ==
  \A n \in Steps, p \in Paths \ foreign : \A c \in FirstSince(n, p) :
    (c.kind = "moved" /\ c.path = p) \/ Rewound(n)[p] = was[c.step][p]

\* A transaction that is over and still holds its locks has changed all of its
\* files or none, whichever write or validation failed, unless another's rollback
\* went over them.
AllOrNothing ==
  \A w \in Workers :
    op[w].kind = "transaction" /\ op[w].pc = "unlock" =>
      \A p \in ToSet(op[w].paths) \ foreign :
        disk[p] = IF op[w].ok THEN op[w].new ELSE op[w].saw[p]

\* Every tool call comes to its end: no two calls wait for each other's files.
CallsEnd == \A w \in Workers : op[w].pc = "lock" ~> op[w].pc = "idle"

\* What transactional_edit says of itself: it rolls back the files it touched.
RollbackIsPrivate == foreign = {}
=============================================================================
