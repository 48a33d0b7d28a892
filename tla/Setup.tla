------------------------------- MODULE Setup --------------------------------
(***************************************************************************)
(* The first-time setup (cmd/ageni/init.go) and the two ways to reach it,  *)
(* "ageni init" and a start that finds no provider (cmd/ageni/main.go).    *)
(* The wizard reads ~/.ageni/.env once, asks for both roles and writes     *)
(* the file at its end; a start loads the file into the process's          *)
(* environment, where what is set stays, and resolves the roles from it.   *)
(*                                                                         *)
(* "" is a variable that is not set.  Nothing is exported and there is no  *)
(* project file: Config has those.  Values need no quotes in the file.     *)
(***************************************************************************)
EXTENDS Naturals, FiniteSets

CONSTANTS
  Keyed,    (* providers that need a key                                   *)
  Local,    (* providers that need none                                    *)
  ModelNames, (* names of models                                           *)
  Default,  (* DefaultModel of each provider but "custom"                  *)
  Keys,     (* keys a user may have                                        *)
  URLs,     (* addresses a user may give                                   *)
  Settings, (* bound of the model: variables set before the first wizard   *)
  MaxRuns   (* bound of the model: wizards run                             *)

SetupConstants ==
  /\ {"custom", ""} \cap (Keyed \cup Local) = {} /\ Keyed \cap Local = {}
  /\ "" \notin Keys \cup URLs \cup ModelNames
  /\ Default \in [Keyed \cup Local -> ModelNames]
  /\ Settings \in Nat /\ MaxRuns \in Nat

WizardRoles == {"MASTER", "SUBAGENT"}
Providers == Keyed \cup Local \cup {"custom"}
Fields == {"provider", "model", "url", "key"}

Role == [provider : Providers \cup {""}, model : ModelNames \cup {""}, url : URLs \cup {""}, key : Keys \cup {""}]
EnvFile == [role : [WizardRoles -> Role], keys : [Keyed -> Keys \cup {""}]]
Answer == [provider : Providers \cup {""}, model : ModelNames \cup {""}, url : URLs \cup {""},
           roleKey : Keys \cup {""}, providerKey : Keys \cup {""}]
Used == [provider : Providers, model : ModelNames, url : URLs \cup {"preset"}, key : Keys \cup {""}]

VARIABLES
  file,      (* ~/.ageni/.env                                              *)
  env,       (* the process's environment                                  *)
  state,     (* "down", "init" or "first run" in the wizard, "up", "failed" *)
  at,        (* the role and the prompt that the wizard is at              *)
  existing,  (* runInit: the file as it was when the wizard began          *)
  answers,   (* masterRole and subRole of the last wizard                  *)
  used,      (* what Load has resolved                                     *)
  written,   (* history: the file is that of the last wizard               *)
  fresh,     (* history: this process has read no other file               *)
  runs       (* wizards so far                                             *)

vars == <<file, env, state, at, existing, answers, used, written, fresh, runs>>

Prompts == (WizardRoles \X {"provider", "url", "key", "model"}) \cup {<<"both", "write">>}

TypeOK ==
  /\ {file, env, existing} \subseteq EnvFile
  /\ state \in {"down", "init", "first run", "up", "failed"}
  /\ at \in Prompts /\ answers \in [WizardRoles -> Answer]
  /\ used = <<>> \/ used \in [WizardRoles -> Used]
  /\ written \in BOOLEAN /\ fresh \in BOOLEAN /\ runs \in 0..MaxRuns

NoRole == [x \in Fields |-> ""]
Empty == [role |-> [r \in WizardRoles |-> NoRole], keys |-> [p \in Keyed |-> ""]]
NoAnswer == [provider |-> "", model |-> "", url |-> "", roleKey |-> "", providerKey |-> ""]

\* How many variables a file sets.
Size(f) ==
  Cardinality({x \in WizardRoles \X Fields : f.role[x[1]][x[2]] # ""})
    + Cardinality({p \in Keyed : f.keys[p] # ""})

Init ==
  /\ file \in {f \in EnvFile : Size(f) <= Settings}
  /\ env = Empty /\ existing = Empty
  /\ state = "down" /\ at = <<"MASTER", "provider">>
  /\ answers = [r \in WizardRoles |-> NoAnswer] /\ used = <<>>
  /\ written = FALSE /\ fresh = FALSE /\ runs = 0

-----------------------------------------------------------------------------
(* Load. *)

FirstOf(a, b) == IF a = "" THEN b ELSE a

\* godotenv: a file sets what is not set.
Over(e, f) ==
  [role |-> [r \in WizardRoles |-> [x \in Fields |-> FirstOf(e.role[r][x], f.role[r][x])]],
   keys |-> [p \in Keyed |-> FirstOf(e.keys[p], f.keys[p])]]

Preset(p) == IF p = "custom" THEN "" ELSE "preset"

\* resolveRole: a key of the role goes before that of the provider.
Resolved(e, r) ==
  LET p == e.role[r].provider
  IN [provider |-> p,
      model |-> IF e.role[r].model = "" /\ p \in DOMAIN Default THEN Default[p] ELSE e.role[r].model,
      url |-> FirstOf(e.role[r].url, Preset(p)),
      key |-> IF p \in Keyed THEN FirstOf(e.role[r].key, e.keys[p]) ELSE e.role[r].key]

Resolves(e, r) ==
  LET u == Resolved(e, r)
  IN u.provider # "" /\ u.model # "" /\ u.url # "" /\ (u.provider \in Keyed => u.key # "")

NotConfigured(e) == \A r \in WizardRoles : e.role[r].provider = ""

\* What a start makes of an environment that names a provider.
Loads(e) ==
  IF \A r \in WizardRoles : Resolves(e, r)
    THEN state' = "up" /\ used' = [r \in WizardRoles |-> Resolved(e, r)]
    ELSE state' = "failed" /\ used' = <<>>

-----------------------------------------------------------------------------
(* The wizard, prompt by prompt. *)

Opens(way) ==
  /\ runs < MaxRuns /\ runs' = runs + 1
  /\ state' = way /\ at' = <<"MASTER", "provider">>
  /\ existing' = file /\ answers' = [r \in WizardRoles |-> NoAnswer]
  /\ written' = FALSE /\ fresh' = FALSE
  /\ UNCHANGED <<file, used>>

RunInit == state = "down" /\ Opens("init") /\ UNCHANGED env

\* run: without a provider the wizard opens, over the environment just loaded.
Run ==
  /\ state = "down" /\ env' = Over(env, file)
  /\ \/ NotConfigured(env') /\ Opens("first run")
     \/ /\ ~NotConfigured(env') /\ Loads(env')
        /\ fresh' = written
        /\ UNCHANGED <<file, at, existing, answers, written, runs>>

Asking == state \in {"init", "first run"}
Of(r, prompt) == Asking /\ at = <<r, prompt>>

Answers(r, field, value, next) ==
  /\ answers' = [answers EXCEPT ![r][field] = value]
  /\ at' = next
  /\ UNCHANGED <<file, env, state, existing, used, written, fresh, runs>>

After(r) == IF r = "MASTER" THEN <<"SUBAGENT", "provider">> ELSE <<"both", "write">>

\* The address is asked for first, the key before the model.
PickProvider(r, p) ==
  /\ Of(r, "provider")
  /\ Answers(r, "provider", p,
       <<r, CASE p = "custom" -> "url" [] p \in Keyed -> "key" [] p \in Local -> "model">>)

GiveURL(r, u) == Of(r, "url") /\ Answers(r, "url", u, <<r, "key">>)

\* Enter keeps the provider's key, else the role's, that the file had.
KeptKey(r) == FirstOf(existing.keys[answers[r].provider], existing.role[r].key)

EnterKey(r, k) ==
  /\ Of(r, "key") /\ answers[r].provider \in Keyed
  /\ FirstOf(k, KeptKey(r)) # ""
  /\ Answers(r, "providerKey", FirstOf(k, KeptKey(r)), <<r, "model">>)

\* A custom endpoint may need a key.
EnterRoleKey(r, k) ==
  /\ Of(r, "key") /\ answers[r].provider = "custom"
  /\ Answers(r, "roleKey", k, <<r, "model">>)

\* selectModel: from the list, or typed.
PickModel(r, m) == Of(r, "model") /\ Answers(r, "model", m, After(r))

\* The end of the wizard without its file: Ctrl-C at a prompt, or no key.
GiveUp ==
  /\ Asking /\ state' = "down" /\ env' = Empty
  /\ UNCHANGED <<file, at, existing, answers, used, written, fresh, runs>>

-----------------------------------------------------------------------------
(* The file. *)

\* SetOrClear: cs.spec was copied before the address was put into spec, so that of a
\* custom endpoint differs from the preset.
SetOrClear(value, default) == IF value = default THEN "" ELSE value

\* Mutant of WrittenRole: the address is in the preset when they are compared.
WrittenRoleOfPreset(a) ==
  [provider |-> a.provider, model |-> a.model, url |-> SetOrClear(a.url, a.url),
   key |-> SetOrClear(a.roleKey, "")]

WrittenRole(a) ==
  [provider |-> a.provider, model |-> a.model,
   url |-> SetOrClear(a.url, Preset(a.provider)), key |-> SetOrClear(a.roleKey, "")]

\* The key of the sub-agents' provider is written after that of the master's.
WrittenKey(p) ==
  CASE answers["SUBAGENT"].provider = p -> answers["SUBAGENT"].providerKey
    [] answers["SUBAGENT"].provider # p /\ answers["MASTER"].provider = p -> answers["MASTER"].providerKey
    [] OTHER -> existing.keys[p]

\* WriteEnvFile; a first run goes on to load it, over what it had loaded.
Write ==
  /\ Of("both", "write")
  /\ file' = [role |-> [r \in WizardRoles |-> WrittenRole(answers[r])], keys |-> [p \in Keyed |-> WrittenKey(p)]]
  /\ written' = TRUE
  /\ IF state = "init"
       THEN state' = "down" /\ UNCHANGED <<env, used>>
       ELSE env' = Over(env, file') /\ Loads(env')
  /\ UNCHANGED <<at, existing, answers, fresh, runs>>

Exit ==
  /\ state \in {"up", "failed"} /\ state' = "down"
  /\ env' = Empty /\ used' = <<>> /\ fresh' = FALSE
  /\ UNCHANGED <<file, at, existing, answers, written, runs>>

-----------------------------------------------------------------------------
Next ==
  \/ RunInit \/ Run \/ GiveUp \/ Write \/ Exit
  \/ \E r \in WizardRoles :
       \/ \E p \in Providers : PickProvider(r, p)
       \/ \E u \in URLs : GiveURL(r, u)
       \/ \E k \in Keys \cup {""} : EnterKey(r, k) \/ EnterRoleKey(r, k)
       \/ \E m \in ModelNames : PickModel(r, m)

Spec == Init /\ [][Next]_vars

-----------------------------------------------------------------------------
(* Properties. *)

GivenKeys(p) == {answers[r].providerKey : r \in {s \in WizardRoles : answers[s].provider = p}}

\* A start after the wizard never fails, not even the one that opened it; and one that
\* has read nothing but the wizard's file runs on the provider, the model and the
\* address that each role was given, and on a key that was given for that provider in
\* this wizard, whatever the file had held.
AnswersAreUsed ==
  /\ written => state # "failed"
  /\ state = "up" /\ fresh =>
       \A r \in WizardRoles :
         /\ used[r].provider = answers[r].provider /\ used[r].model = answers[r].model
         /\ used[r].url = FirstOf(answers[r].url, Preset(answers[r].provider))
         /\ IF used[r].provider \in Keyed
              THEN used[r].key \in GivenKeys(used[r].provider)
              ELSE used[r].key = answers[r].roleKey

\* What the prompt for a key says: "Press Enter to keep, or type a new one."  The key
\* that a role was given is the one that it runs on.
GivenKeyIsUsed ==
  state = "up" /\ written =>
    \A r \in WizardRoles : used[r].provider \in Keyed => used[r].key = answers[r].providerKey
=============================================================================
