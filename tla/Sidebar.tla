------------------------------ MODULE Sidebar -------------------------------
(***************************************************************************)
(* The selection in the terminal UI (internal/tui/app.go): the rows of the *)
(* side pane, Tab and Shift+Tab through them, and the popovers behind the  *)
(* "... more" rows.  Todos, shells and workers come and go while a row is  *)
(* selected or a popover is open.  The list of rows is computed three      *)
(* times in the code: for drawing, for Tab and for the popovers.           *)
(*                                                                         *)
(* A row is a pair of a kind and an id: "todo", "shell" and "sub" rows,    *)
(* "moreTodos", "moreShells" and "moreSubs", and "master" for the master's *)
(* own.  Workers and shells are numbered in the order in which they came.  *)
(***************************************************************************)
EXTENDS Integers, Sequences, FiniteSets, SequencesExt, FiniteSetsExt

CONSTANTS
  SidebarMax,   (* App.sidebarMaxSubs                                      *)
  MaxRows       (* bound of the model: workers, shells, todos, of each     *)

SidebarConstants == SidebarMax \in Nat \ {0} /\ MaxRows \in Nat

VARIABLES
  subs,       (* length of subOrder                                        *)
  shells,     (* length of shellOrder                                      *)
  todos,      (* the items of the todo list, done or not, with notes or not *)
  view,       (* App.viewSub                                               *)
  popup,      (* showMorePopup: "" or what the open popover lists          *)
  items,      (* popoverItems                                              *)
  sel,        (* popoverSel, from 1 here                                   *)
  prev        (* popoverPrevSub                                            *)

agents == <<subs, shells, todos>>
popover == <<popup, items, sel, prev>>
vars == <<agents, view, popover>>

Row(kind, id) == <<kind, id>>
Master == Row("master", 0)
MoreRows == {Row("moreTodos", 0), Row("moreShells", 0), Row("moreSubs", 0)}
Rows == {Master} \cup MoreRows \cup ({"todo", "shell", "sub"} \X (1..MaxRows))

TypeOK ==
  /\ subs \in 0..MaxRows /\ shells \in 0..MaxRows
  /\ todos \in Seq([id : 1..MaxRows, done : BOOLEAN, notes : BOOLEAN])
  /\ view \in Rows /\ prev \in Rows
  /\ popup \in {"", "shell", "sub", "todo", "detail"}
  /\ items \in Seq(1..MaxRows)
  /\ sel \in 1..(MaxRows + 1)

Init ==
  /\ subs = 0 /\ shells = 0 /\ todos = <<>>
  /\ view = Master /\ prev = Master
  /\ popup = "" /\ items = <<>> /\ sel = 1

-----------------------------------------------------------------------------
(* The rows. *)

\* sortedTodos: the unfinished items first, each half in the order of the list.
Ahead(i, j) == IF todos[i].done = todos[j].done THEN i < j ELSE ~todos[i].done
Place(i) == Cardinality({j \in DOMAIN todos : Ahead(j, i)}) + 1
Sorted == [k \in DOMAIN todos |-> todos[CHOOSE i \in DOMAIN todos : Place(i) = k]]
Active == Cardinality({i \in DOMAIN todos : ~todos[i].done})

\* The window of todos: every unfinished one that fits and at most two others.
VisibleCap ==
  LET slots == IF Active > SidebarMax THEN 0 ELSE Min({SidebarMax - Active, 2}) IN
  Max({Min({Active + slots, SidebarMax}), 1})

Visible == SubSeq(Sorted, 1, Min({VisibleCap, Len(Sorted)}))

\* The newest rows of a section, newest first, and a row for the rest.
Section(kind, count, more) ==
  LET start == IF count > SidebarMax THEN count - SidebarMax ELSE 0 IN
  [k \in 1..(count - start) |-> Row(kind, count + 1 - k)]
    \o IF count > SidebarMax THEN <<Row(more, 0)>> ELSE <<>>

\* What refreshSide draws below the master's row, section by section: it takes
\* the newest part of each order and goes through it backwards.
TodoRows ==
  [k \in DOMAIN Visible |-> Row("todo", Visible[k].id)]
    \o IF Len(Sorted) - Len(Visible) > 0 THEN <<Row("moreTodos", 0)>> ELSE <<>>

Drawn(kind, count, more) ==
  LET start == Max({count - SidebarMax, 0})
      newest == SubSeq([id \in 1..count |-> Row(kind, id)], start + 1, count)
  IN  Reverse(newest) \o IF start > 0 THEN <<Row(more, 0)>> ELSE <<>>

ShellRows == Drawn("shell", shells, "moreShells")
SubRows == Drawn("sub", subs, "moreSubs")

SideRows == TodoRows \o ShellRows \o SubRows

\* Mutant of CycleList: the sections in the order of an older layout.
CycleListShuffled ==
  Section("shell", shells, "moreShells")
    \o Section("sub", subs, "moreSubs")
    \o [k \in DOMAIN Visible |-> Row("todo", Visible[k].id)]
    \o (IF Len(Sorted) > Len(Visible) THEN <<Row("moreTodos", 0)>> ELSE <<>>)

\* What Tab steps through.
CycleList ==
  [k \in DOMAIN Visible |-> Row("todo", Visible[k].id)]
    \o (IF Len(Sorted) > Len(Visible) THEN <<Row("moreTodos", 0)>> ELSE <<>>)
    \o Section("shell", shells, "moreShells")
    \o Section("sub", subs, "moreSubs")

\* Mutant of Older: one too few.
OlderButOne(count) ==
  LET last == IF count > SidebarMax THEN count - SidebarMax - 1 ELSE 0 IN
  [k \in 1..last |-> last + 1 - k]

\* The popover's list: the workers or shells past the newest ones, newest first,
\* and the sorted todos past the first SidebarMax, whatever the window shows.
Older(count) ==
  LET last == IF count > SidebarMax THEN count - SidebarMax ELSE 0 IN
  [k \in 1..last |-> last + 1 - k]

OlderTodos ==
  [k \in 1..(IF Len(Sorted) > SidebarMax THEN Len(Sorted) - SidebarMax ELSE 0) |->
     Sorted[SidebarMax + k].id]

-----------------------------------------------------------------------------
(* What comes and goes. *)

NewSub ==
  /\ subs < MaxRows
  /\ subs' = subs + 1
  /\ UNCHANGED <<shells, todos, view, popover>>

NewShell ==
  /\ shells < MaxRows
  /\ shells' = shells + 1
  /\ UNCHANGED <<subs, todos, view, popover>>

NewTodo(notes) ==
  /\ Len(todos) < MaxRows
  /\ todos' = Append(todos, [id |-> Len(todos) + 1, done |-> FALSE, notes |-> notes])
  /\ UNCHANGED <<subs, shells, view, popover>>

FinishTodo ==
  /\ \E k \in DOMAIN todos : ~todos[k].done /\ todos' = [todos EXCEPT ![k].done = TRUE]
  /\ UNCHANGED <<subs, shells, view, popover>>

\* The kill switch, and the todo tool.
ClearTodos ==
  /\ todos # <<>>
  /\ todos' = <<>>
  /\ UNCHANGED <<subs, shells, view, popover>>

-----------------------------------------------------------------------------
(* Keys. *)

\* cycleView: past either end, and from a row that is gone, to the master.
Cycled(dir) ==
  LET list == CycleList
      at == IF Contains(list, view) THEN CHOOSE k \in DOMAIN list : list[k] = view ELSE 0
  IN  IF list = <<>> THEN view
      ELSE IF view = Master THEN (IF dir = "down" THEN list[1] ELSE list[Len(list)])
      ELSE IF at = 0 THEN Master
      ELSE IF dir = "down" THEN (IF at = Len(list) THEN Master ELSE list[at + 1])
      ELSE IF at = 1 THEN Master ELSE list[at - 1]

\* Tab and Shift+Tab; an open popover is closed first.
Tab(dir) ==
  /\ view' = Cycled(dir)
  /\ popup' = ""
  /\ UNCHANGED <<agents, items, sel, prev>>

\* Enter on a "more" row opens its popover; its first worker or shell is viewed.
OpenMore ==
  /\ popup = "" /\ view \in MoreRows
  /\ prev' = view /\ sel' = 1
  /\ popup' = CASE view[1] = "moreShells" -> "shell"
                [] view[1] = "moreSubs" -> "sub"
                [] view[1] = "moreTodos" -> "todo"
  /\ items' = CASE popup' = "shell" -> Older(shells)
                [] popup' = "sub" -> Older(subs)
                [] popup' = "todo" -> OlderTodos
  /\ view' = IF popup' # "todo" /\ items' # <<>> THEN Row(popup', items'[1]) ELSE view
  /\ UNCHANGED agents

\* Enter on a todo that has notes.
OpenDetail ==
  /\ popup = "" /\ view[1] = "todo"
  /\ \E k \in DOMAIN todos : todos[k].id = view[2] /\ todos[k].notes
  /\ prev' = view /\ sel' = 1
  /\ popup' = "detail" /\ items' = <<view[2]>>
  /\ UNCHANGED <<agents, view>>

\* Up and Down in a popover; workers and shells are viewed at once.
Move(to) ==
  /\ popup # ""
  /\ to \in DOMAIN items /\ (to = sel + 1 \/ sel = to + 1)
  /\ sel' = to
  /\ view' = IF popup = "todo" THEN view ELSE Row(popup, items[to])
  /\ UNCHANGED <<agents, popup, items, prev>>

\* Enter keeps what is viewed, Esc goes back.
Close(keep) ==
  /\ popup # ""
  /\ popup' = ""
  /\ view' = IF keep THEN view ELSE prev
  /\ UNCHANGED <<agents, items, sel, prev>>

-----------------------------------------------------------------------------
Next ==
  \/ NewSub \/ NewShell \/ FinishTodo \/ ClearTodos
  \/ \E notes \in BOOLEAN : NewTodo(notes)
  \/ \E dir \in {"up", "down"} : Tab(dir)
  \/ OpenMore \/ OpenDetail
  \/ \E to \in 1..MaxRows : Move(to)
  \/ \E keep \in BOOLEAN : Close(keep)

Spec == Init /\ [][Next]_vars

-----------------------------------------------------------------------------
(* Properties. *)

Offers(kind, older) ==
  {r[2] : r \in {q \in Range(CycleList) : q[1] = kind}} \cup Range(older)

\* Tab stops are the rows on the screen, in their order; every worker and every
\* shell is behind a row or in the popover behind the last one; and an open
\* popover views the entry it marks, whatever has come or gone since it opened.
SelectionIsTrue ==
  /\ CycleList = SideRows
  /\ Offers("sub", Older(subs)) = 1..subs
  /\ Offers("shell", Older(shells)) = 1..shells
  /\ popup \in {"shell", "sub"} => sel \in DOMAIN items /\ view = Row(popup, items[sel])

\* What the comment in sidebarCycleList says of todos: what the window does not
\* show is behind the "more" row.
HiddenTodosAreOffered ==
  Offers("todo", OlderTodos) = {todos[k].id : k \in DOMAIN todos}
=============================================================================
