------------------------------ MODULE Settings ------------------------------
(***************************************************************************)
(* The settings pages of the terminal UI (internal/tui/settings.go,        *)
(* settings_providers.go and their handlers in app.go): the provider list  *)
(* with its keys and the verification of each key in the background, the   *)
(* form behind it that is kept while one pages to and fro, and what is     *)
(* written to ~/.ageni/.env at the end.                                    *)
(*                                                                         *)
(* Of the form's fields the master's provider and its fallbacks stand for  *)
(* all; of a key only which one it is.  Models, limits, layout and         *)
(* scrolling are left out.                                                 *)
(***************************************************************************)
EXTENDS Naturals, FiniteSets

CONSTANTS
  Keyed, Local,   (* the providers that need a key, and those that do not  *)
  GoodKeys,       (* keys that their provider accepts                      *)
  BadKeys,        (* keys that it does not                                 *)
  NoKey,          (* an empty key                                          *)
  MaxEdits        (* bound of the model: keys typed, boxes toggled         *)

SettingsConstants == NoKey \notin GoodKeys \cup BadKeys /\ MaxEdits \in Nat

Providers == Keyed \cup Local
Keys == GoodKeys \cup BadKeys \cup {NoKey}

VARIABLES
  page,       (* "chat", "list" or "form"                                  *)
  rows,       (* the provider list: per provider whether it is checked,    *)
              (* its key and the badge of the verification                 *)
  editing,    (* the rows in edit mode: one or none                        *)
  verifying,  (* verifications under way: provider and key                 *)
  enabled,    (* settingsState.enabled                                     *)
  keyPtrs,    (* settingsState.keyPtrs                                     *)
  master,     (* settingsState.masterProvider                              *)
  fallbacks,  (* settingsState.masterFallbacks                             *)
  form,       (* the form: none, or the providers and the master its       *)
              (* options were made for                                     *)
  file,       (* ~/.ageni/.env                                             *)
  running,    (* the configuration of the running adapters                 *)
  edits       (* history: how often something was edited                   *)

state == <<enabled, keyPtrs, master, fallbacks>>
vars == <<page, rows, editing, verifying, state, form, file, running, edits>>

NoForm == [for |-> {}, master |-> "none"]

Row == [checked : BOOLEAN, key : Keys, badge : {"none", "pending", "ok", "fail"}]
File == [keys : [Keyed -> Keys], disabled : SUBSET Local, master : Providers,
         fallbacks : SUBSET Providers]

TypeOK ==
  /\ page \in {"chat", "list", "form"}
  /\ rows \in [Providers -> Row]
  /\ editing \subseteq Keyed /\ Cardinality(editing) <= 1
  /\ verifying \subseteq Keyed \X (Keys \ {NoKey})
  /\ enabled \subseteq Providers /\ fallbacks \subseteq Providers
  /\ keyPtrs \in [Keyed -> Keys] /\ master \in Providers
  /\ form.for \subseteq Providers
  /\ file \in File /\ running \in File
  /\ edits \in 0..MaxEdits

Checked == {p \in Providers : rows[p].checked}

\* newProviderListModel: a provider is checked if it has a key or needs none.
ListOf(f) ==
  [p \in Providers |->
    [checked |-> p \in Local \/ f.keys[p] # NoKey,
     key |-> IF p \in Local THEN NoKey ELSE f.keys[p],
     badge |-> "none"]]

\* newSettingsState: the providers the last session unchecked stay out.
EnabledIn(f) == {p \in Keyed : f.keys[p] # NoKey} \cup (Local \ f.disabled)

Init ==
  /\ page = "chat" /\ editing = {} /\ verifying = {} /\ edits = 0
  /\ \E p \in Providers :
       file = [keys |-> [q \in Keyed |-> NoKey], disabled |-> {}, master |-> p,
               fallbacks |-> {}]
  /\ rows = ListOf(file) /\ enabled = EnabledIn(file)
  /\ keyPtrs = file.keys /\ master = file.master /\ fallbacks = file.fallbacks
  /\ form = NoForm
  /\ running = file

-----------------------------------------------------------------------------
\* openSettings.
Open ==
  /\ page = "chat"
  /\ page' = "list"
  /\ rows' = ListOf(file)
  /\ editing' = {}
  /\ enabled' = EnabledIn(file)
  /\ keyPtrs' = file.keys /\ master' = file.master /\ fallbacks' = file.fallbacks
  /\ form' = NoForm
  /\ UNCHANGED <<verifying, file, running, edits>>

Edit ==
  /\ edits < MaxEdits
  /\ edits' = edits + 1

\* Space on a row.
Toggle(p) ==
  /\ page = "list" /\ editing = {}
  /\ Edit
  /\ rows' = [rows EXCEPT ![p].checked = ~@]
  /\ UNCHANGED <<page, editing, verifying, state, form, file, running>>

\* Tab enters the key of a row; what is typed there checks the box.
EnterKey(p) ==
  /\ page = "list" /\ editing = {}
  /\ editing' = {p}
  /\ UNCHANGED <<page, rows, verifying, state, form, file, running, edits>>

TypeKey(p, k) ==
  /\ p \in editing
  /\ Edit
  /\ rows' = [rows EXCEPT ![p].key = k, ![p].checked = @ \/ k # NoKey]
  /\ UNCHANGED <<page, editing, verifying, state, form, file, running>>

\* leaveEditMode: a key is verified in the background.
LeaveKey(p) ==
  /\ p \in editing
  /\ editing' = {}
  /\ IF rows[p].key # NoKey
       THEN /\ rows' = [rows EXCEPT ![p].badge = "pending"]
            /\ verifying' = verifying \cup {<<p, rows[p].key>>}
       ELSE UNCHANGED <<rows, verifying>>
  /\ UNCHANGED <<page, state, form, file, running, edits>>

\* A providerVerifyMsg arrives, in whatever order and wherever the user is by
\* then: it names the provider only.
Verified(v) ==
  /\ verifying' = verifying \ {v}
  /\ rows' = [rows EXCEPT ![v[1]].badge = IF v[2] \in GoodKeys THEN "ok" ELSE "fail"]
  /\ UNCHANGED <<page, editing, state, form, file, running, edits>>

\* applyProviderList.
ApplyList ==
  /\ enabled' = Checked
  /\ keyPtrs' = [p \in Keyed |-> rows[p].key]

\* Mutant of Rebuild: a form that exists is good enough.
RebuildNever(providers) == form = NoForm

\* Whether a kept form has to be made anew for these providers.
Rebuild(providers) == form = NoForm \/ providers # enabled

\* enterSettingsForm.
ToForm ==
  /\ page = "list" /\ editing = {}
  /\ page' = "form"
  /\ ApplyList
  /\ form' = IF Rebuild(enabled') THEN [for |-> enabled', master |-> master] ELSE form
  /\ UNCHANGED <<rows, editing, verifying, master, fallbacks, file, running, edits>>

BackToList ==
  /\ page = "form"
  /\ page' = "list"
  /\ UNCHANGED <<rows, editing, verifying, state, form, file, running, edits>>

\* The role pages follow the enabled providers; the fallback page was made with
\* the form.
ChooseMaster(p) ==
  /\ page = "form" /\ p \in enabled
  /\ Edit
  /\ master' = p
  /\ UNCHANGED <<page, rows, editing, verifying, enabled, keyPtrs, fallbacks, form, file,
                 running>>

ChooseFallback(p) ==
  /\ page = "form" /\ p \in form.for \ {form.master}
  /\ Edit
  /\ fallbacks' = fallbacks \cup {p}
  /\ UNCHANGED <<page, rows, editing, verifying, enabled, keyPtrs, master, form, file,
                 running>>

\* Mutant of Saved: blank keys are written, too.
SavedBlank(on, keys) ==
  [keys |-> keys, disabled |-> Local \ on, master |-> master, fallbacks |-> fallbacks]

\* save: blank keys leave what the file has, and the providers without a key
\* that are not checked are remembered.
Saved(on, keys) ==
  [keys |-> [p \in Keyed |-> IF keys[p] = NoKey THEN file.keys[p] ELSE keys[p]],
   disabled |-> Local \ on, master |-> master, fallbacks |-> fallbacks]

\* Esc, or the end of the form: save, and reload unless the new configuration is
\* refused.
SaveAndExit(accepted) ==
  /\ page # "chat" /\ editing = {}
  /\ page' = "chat"
  /\ IF page = "list" THEN ApplyList ELSE UNCHANGED <<enabled, keyPtrs>>
  /\ file' = Saved(enabled', keyPtrs')
  /\ running' = IF accepted THEN file' ELSE running
  /\ UNCHANGED <<rows, editing, verifying, master, fallbacks, form, edits>>

-----------------------------------------------------------------------------
Next ==
  \/ Open \/ ToForm \/ BackToList
  \/ \E p \in Providers : Toggle(p) \/ ChooseMaster(p) \/ ChooseFallback(p)
  \/ \E p \in Keyed : EnterKey(p) \/ LeaveKey(p) \/ \E k \in Keys : TypeKey(p, k)
  \/ \E v \in verifying : Verified(v)
  \/ \E accepted \in BOOLEAN : SaveAndExit(accepted)

Spec == Init /\ [][Next]_vars

-----------------------------------------------------------------------------
(* Properties. *)

\* However often one pages between list and form, the form that is shown was
\* made for the providers checked now, so that no page offers one that is not.
FormIsCurrent == page = "form" => form.for = enabled

\* What the comment in save says: the list opens the next time with the
\* providers checked as they were saved.
ListOpensAsSaved == page = "list" /\ rows = ListOf(file) => Local \ Checked = file.disabled
=============================================================================
