------------------------------- MODULE Prompt -------------------------------
(***************************************************************************)
(* The input line of the terminal UI: the history of what was submitted,   *)
(* on disk and in memory (internal/tui/history.go), browsing it with Up    *)
(* and Down, and the completion of @paths, which takes the same keys while *)
(* it is open (internal/tui/atcomplete.go and app.go).  Files that are     *)
(* completed are listed once and do not change afterwards.                 *)
(*                                                                         *)
(* A text is a word and what its last @ stands for: nothing, an unfinished *)
(* query, or a file.  The process may die between any two writes.          *)
(***************************************************************************)
EXTENDS Naturals, Sequences, SequencesExt, FiniteSetsExt

CONSTANTS
  Words,        (* what can be typed                                       *)
  Files,        (* the files that match a query, best first                *)
  HistoryMax,   (* historyMax                                              *)
  MaxEntries    (* bound of the model: entries submitted                   *)

PromptConstants ==
  /\ HistoryMax \in Nat \ {0} /\ MaxEntries \in Nat
  /\ Files \in Seq(STRING) /\ Len(Files) > 0

VARIABLES
  input,      (* the text area                                             *)
  items,      (* History.items                                             *)
  disk,       (* the lines of history.txt                                  *)
  writing,    (* persist has appended and is to rewrite the file           *)
  idx,        (* historyIdx, 0 for -1                                      *)
  draft,      (* historyDraft                                              *)
  offer,      (* atComp: whether it is open, and sel                       *)
  entered     (* history: how many entries were submitted                  *)

vars == <<input, items, disk, writing, idx, draft, offer, entered>>

Blank == [word |-> "", at |-> "none"]
Text == [word : Words, at : {"none", "open"} \cup Range(Files)]
Closed == [open |-> FALSE, sel |-> 1]

TypeOK ==
  /\ input \in Text \cup {Blank} /\ draft \in Text \cup {Blank}
  /\ items \in Seq(Text) /\ Len(items) <= HistoryMax
  /\ disk \in Seq(Text)
  /\ writing \in BOOLEAN
  /\ idx \in 0..Len(items)
  /\ offer \in [open : BOOLEAN, sel : DOMAIN Files]
  /\ entered \in 0..MaxEntries

\* The last n of a sequence.
LastOf(s, n) == SubSeq(s, Max({Len(s) - n, 0}) + 1, Len(s))

Init ==
  /\ input = Blank /\ draft = Blank /\ items = <<>> /\ disk = <<>>
  /\ writing = FALSE /\ idx = 0 /\ offer = Closed /\ entered = 0

-----------------------------------------------------------------------------
\* Typing: an unfinished @ opens the completion; its selection starts over.
Type(t) ==
  /\ ~writing
  /\ t.at \in {"none", "open"}
  /\ input' = t
  /\ offer' = [open |-> t.at = "open", sel |-> 1]
  /\ UNCHANGED <<items, disk, writing, idx, draft, entered>>

\* Up and Down while the completion is open.
Choose(to) ==
  /\ ~writing /\ offer.open
  /\ to \in DOMAIN Files /\ (to = offer.sel + 1 \/ offer.sel = to + 1)
  /\ offer' = [offer EXCEPT !.sel = to]
  /\ UNCHANGED <<input, items, disk, writing, idx, draft, entered>>

\* Tab or Enter puts the file in the place of the query, Esc only closes.
Complete ==
  /\ ~writing /\ offer.open
  /\ input' = [input EXCEPT !.at = Files[offer.sel]]
  /\ offer' = Closed
  /\ UNCHANGED <<items, disk, writing, idx, draft, entered>>

Dismiss ==
  /\ ~writing /\ offer.open
  /\ offer' = Closed
  /\ UNCHANGED <<input, items, disk, writing, idx, draft, entered>>

\* historyPrev: the first step back keeps the draft.
PrevEntry ==
  /\ ~writing /\ ~offer.open
  /\ items # <<>> /\ idx # 1
  /\ idx' = IF idx = 0 THEN Len(items) ELSE idx - 1
  /\ draft' = IF idx = 0 THEN input ELSE draft
  /\ input' = items[idx']
  /\ UNCHANGED <<items, disk, writing, offer, entered>>

\* historyNext: past the newest entry the draft is back.
NextEntry ==
  /\ ~writing /\ ~offer.open
  /\ idx # 0
  /\ IF idx = Len(items)
       THEN idx' = 0 /\ input' = draft /\ draft' = Blank
       ELSE idx' = idx + 1 /\ input' = items[idx'] /\ UNCHANGED draft
  /\ UNCHANGED <<items, disk, writing, offer, entered>>

\* Mutant of Kept: the oldest entries are kept at the limit.
KeptOldest(all) == SubSeq(all, 1, Min({Len(all), HistoryMax}))

\* Mutant of Kept: the limit is only the file's.
KeptAll(all) == all

\* The entries kept of all those there are.
Kept(all) == LastOf(all, HistoryMax)

\* Enter: the entry is remembered and appended to the file, unless it repeats
\* the newest; at the limit the file is then to be rewritten.
Submit ==
  /\ ~writing /\ ~offer.open
  /\ input # Blank
  /\ entered < MaxEntries
  /\ entered' = entered + 1
  /\ input' = Blank /\ idx' = 0 /\ draft' = Blank
  /\ IF items # <<>> /\ Last(items) = input
       THEN UNCHANGED <<items, disk, writing>>
       ELSE /\ items' = Kept(Append(items, input))
            /\ disk' = Append(disk, input)
            /\ writing' = (Len(items') % HistoryMax = 0)
  /\ UNCHANGED offer

\* rewrite: a new file with what is in memory is renamed over the old one.
Rewrite ==
  /\ writing
  /\ writing' = FALSE
  /\ disk' = items
  /\ UNCHANGED <<input, items, idx, draft, offer, entered>>

\* The process ends at any point and the next one loads the file.
Restart ==
  /\ items' = LastOf(disk, HistoryMax)
  /\ input' = Blank /\ draft' = Blank /\ idx' = 0 /\ offer' = Closed /\ writing' = FALSE
  /\ UNCHANGED <<disk, entered>>

-----------------------------------------------------------------------------
Next ==
  \/ \E t \in Text : Type(t)
  \/ \E to \in DOMAIN Files : Choose(to)
  \/ Complete \/ Dismiss \/ PrevEntry \/ NextEntry \/ Submit \/ Rewrite \/ Restart

Spec == Init /\ [][Next]_vars

-----------------------------------------------------------------------------
(* Properties. *)

\* At any point, in the middle of a write too, the next process finds exactly
\* the entries this one has, in their order, however often the limit was passed;
\* and an entry being browsed is one of them.
HistoryIsOnDisk ==
  /\ LastOf(disk, HistoryMax) = items
  /\ idx = 0 \/ idx \in DOMAIN items
=============================================================================
