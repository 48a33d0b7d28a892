------------------------------- MODULE MCUi -------------------------------
(***************************************************************************)
(* What the user sees and types, side by side for TLC: the queue of        *)
(* messages and the turns, the panes of the workers, the sidebar, the      *)
(* settings, the prompt and its history, the texts of the panes, the two   *)
(* parsers of streamed text that they pass through, and the supervisor     *)
(* whose states the panes show. The components share no variable, so a     *)
(* behaviour is one of one of them, chosen at the start; the others stay   *)
(* as they begin. The supervisor is extended, so that its properties have  *)
(* their own names here; the others are instantiated.                      *)
(***************************************************************************)
EXTENDS Supervisor

CONSTANTS
  MaxMsgs, MaxStirs, InboxCap, MaxTurns,               (* of Tui        *)
  MaxKeys,                                             (* of Panes      *)
  SidebarMax, MaxRows,                                 (* of Sidebar    *)
  Keyed, Local, GoodKeys, BadKeys, NoKey, MaxEdits,    (* of Settings   *)
  Words, Files, HistoryMax, MaxEntries,                (* of Prompt     *)
  MaxEvents,                                           (* of Transcript *)
  MaxInput, MaxThoughts                                (* of the parsers *)

\* The files of TLC's instance.
MCFiles == <<"f", "g">>

VARIABLES
  which,   (* the component that this behaviour is one of *)
  queue, busy, stopping, tuiInbox, tuiEvents, phase, turnCtx, turn,
  tuiPaused, typed, read, tuiSilent, stirs,
  status, panesPaused, killed, end, saying, client, panesEvents, shown,
  late, keys,
  subs, shells, todos, view, popup, sidebarItems, sel, prev,
  page, rows, editing, verifying, enabled, keyPtrs, master, fallbacks, form,
  file, running, edits,
  input, promptItems, disk, writing, idx, draft, offer, entered,
  step, n, kind, buffer, current, upTo, cache, thinking, queued, dropped,
  parser, llamaWhole, llamaEnded,
  inThink, buf, thinkStripperShown, thinkStripperWhole, thinkStripperEnded

Tui == INSTANCE Tui WITH
  inbox <- tuiInbox, events <- tuiEvents, paused <- tuiPaused, silent <- tuiSilent
Panes == INSTANCE Panes WITH
  paused <- panesPaused, events <- panesEvents
Sidebar == INSTANCE Sidebar WITH items <- sidebarItems
Settings == INSTANCE Settings
Prompt == INSTANCE Prompt WITH items <- promptItems
Transcript == INSTANCE Transcript
LlamaDSL == INSTANCE LlamaDSL WITH whole <- llamaWhole, ended <- llamaEnded
ThinkStripper == INSTANCE ThinkStripper WITH
  MaxInput <- MaxThoughts, shown <- thinkStripperShown, whole <- thinkStripperWhole,
  ended <- thinkStripperEnded

\* What the components ask of their constants.
ASSUME MCUiConstants ==
  /\ Tui!TuiConstants /\ Panes!PanesConstants /\ Sidebar!SidebarConstants
  /\ Settings!SettingsConstants /\ Prompt!PromptConstants
  /\ Transcript!TranscriptConstants /\ LlamaDSL!LlamaDSLConstants

tuiVars == <<queue, busy, stopping, tuiInbox, tuiEvents, phase, turnCtx, turn,
  tuiPaused, typed, read, tuiSilent, stirs>>
panesVars == <<status, panesPaused, killed, end, saying, client, panesEvents, shown,
  late, keys>>
sidebarVars == <<subs, shells, todos, view, popup, sidebarItems, sel, prev>>
settingsVars == <<page, rows, editing, verifying, enabled, keyPtrs, master, fallbacks,
  form, file, running, edits>>
promptVars == <<input, promptItems, disk, writing, idx, draft, offer, entered>>
transcriptVars == <<step, n, kind, buffer, current, upTo, cache, thinking, queued,
  dropped>>
llamaVars == <<parser, llamaWhole, llamaEnded>>
thinkStripperVars == <<inThink, buf, thinkStripperShown, thinkStripperWhole,
  thinkStripperEnded>>
MCVars == <<which, tuiVars, panesVars, sidebarVars, settingsVars, promptVars,
  transcriptVars, llamaVars, thinkStripperVars, vars>>

MCInit ==
  /\ which \in {"tui", "panes", "sidebar", "settings", "prompt", "transcript",
                "llama", "thinkStripper", "supervisor"}
  /\ Tui!Init
  /\ Panes!Init
  /\ Sidebar!Init
  /\ Settings!Init /\ (which # "settings" => master \in Local)
  /\ Prompt!Init
  /\ Transcript!Init
  /\ LlamaDSL!Init
  /\ ThinkStripper!Init
  /\ Init

\* Only the chosen component moves.
MCNext ==
  /\ UNCHANGED which
  /\ IF which = "tui" THEN Tui!Next ELSE UNCHANGED tuiVars
  /\ IF which = "panes" THEN Panes!Next ELSE UNCHANGED panesVars
  /\ IF which = "sidebar" THEN Sidebar!Next ELSE UNCHANGED sidebarVars
  /\ IF which = "settings" THEN Settings!Next ELSE UNCHANGED settingsVars
  /\ IF which = "prompt" THEN Prompt!Next ELSE UNCHANGED promptVars
  /\ IF which = "transcript" THEN Transcript!Next ELSE UNCHANGED transcriptVars
  /\ IF which = "llama" THEN LlamaDSL!Next ELSE UNCHANGED llamaVars
  /\ IF which = "thinkStripper" THEN ThinkStripper!Next ELSE UNCHANGED thinkStripperVars
  /\ IF which = "supervisor" THEN Next ELSE UNCHANGED vars

\* Each component with the fairness of its own FairSpec.
MCFairness ==
  /\ WF_tuiVars(which = "tui" /\ Tui!Ui)
  /\ WF_tuiVars(which = "tui" /\ Tui!Run)
  /\ WF_vars(which = "supervisor" /\ Observe)
  /\ WF_vars(which = "supervisor" /\ (TickNudges \/ TickEscalates))
  /\ \A w \in Workers : WF_vars(which = "supervisor" /\ TimePasses(w))

MCSpec == MCInit /\ [][MCNext]_MCVars /\ MCFairness

--------------------------------------------------------------------------
MCTypeOK ==
  /\ Tui!TypeOK /\ Panes!TypeOK /\ Sidebar!TypeOK /\ Settings!TypeOK
  /\ Prompt!TypeOK /\ Transcript!TypeOK /\ LlamaDSL!TypeOK /\ ThinkStripper!TypeOK
  /\ TypeOK

\* A queued message is released, unless a turn went by that nobody reported.
QueueMoves == which = "tui" => Tui!QueueMoves

\* What the screen says of workers is true: a worker that has ended is shown so
\* however its events overtook each other, and every row, tab stop and popover
\* leads to the worker or shell that it names.
PanesAreTrue == Panes!EndIsShown /\ Sidebar!SelectionIsTrue

\* What is said stays in order: the master reads what the user typed as it was
\* typed, through the queue or past it, and a pane has every text, call and result
\* in the order it came and loses none, through errors, retries and Esc.
SaidInOrder == Tui!ReadInOrder /\ Transcript!SaidInOrder

\* However the provider cuts an answer, the user sees the same text and the same
\* tools run: no marker, call or thought that spans pieces is missed, and no text
\* that only begins like one is lost (llamaDSLParser, thinkStripper).
CutsDoNotMatter == LlamaDSL!CutsDoNotMatter /\ ThinkStripper!ThoughtsAreTakenOut

\* What was entered is what is used: the settings form is made for the providers
\* that are checked now, and the history file has the entries of this session,
\* between the two writes of a rewrite, too.
EntriesAreKept == Settings!FormIsCurrent /\ Prompt!HistoryIsOnDisk
=============================================================================
