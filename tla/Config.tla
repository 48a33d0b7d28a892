-------------------------------- MODULE Config --------------------------------
(***************************************************************************)
(* The configuration and its hot reload (internal/config, the reload       *)
(* function of cmd/ageni/main.go, the saving of the settings page): the    *)
(* variables of two .env files are loaded into the process's environment,  *)
(* where what is set already stays; the roles are resolved from it and     *)
(* their adapters put in force one after the other.                        *)
(*                                                                         *)
(* Four variables stand for all: MASTER, the provider of a required role;  *)
(* KEY, the API key of the provider "cloud" ("local" needs none);          *)
(* FALLBACKS, a list that is "cloud" or "off"; LEAD, the provider of an    *)
(* optional role.  "absent" is a variable that is not set, "off" one that  *)
(* is set to nothing.                                                      *)
(***************************************************************************)
EXTENDS Naturals, Sequences

CONSTANTS
  GlobalKeys,   (* the keys a user may type                                *)
  MaxSaves      (* bound of the model: settings saved                      *)

ConfigConstants == MaxSaves \in Nat

Vars == {"MASTER", "KEY", "FALLBACKS", "LEAD"}

Values == [MASTER |-> {"local", "cloud"}, KEY |-> GlobalKeys, FALLBACKS |-> {"cloud", "off"},
           LEAD |-> {"local", "cloud", "off"}]

Unset == [v \in Vars |-> "absent"]

VARIABLES
  exported,   (* the environment the process was started with              *)
  project,    (* ./.env                                                    *)
  global,     (* ~/.ageni/.env                                             *)
  env,        (* the process's environment                                 *)
  phase,      (* where the process is                                      *)
  next,       (* the configuration that the reload is putting in force     *)
  chain, lead, factory,   (* what is in force                              *)
  reread,     (* the last load was a reload and nothing was saved since    *)
  saves       (* settings saved so far                                     *)

inForce == <<chain, lead, factory>>
files == <<exported, project, global>>
vars == <<files, env, phase, next, inForce, reread, saves>>

Entry == [provider : {"local", "cloud"}, key : GlobalKeys \cup {"none"}]
Chain == [main : Entry, fallbacks : SUBSET Entry]
Environment == [Vars -> {"absent", "off", "local", "cloud"} \cup GlobalKeys]

TypeOK ==
  /\ {exported, project, global, env} \subseteq Environment
  /\ phase \in {"down", "failed", "up", "cleared", "loaded", "chain set", "lead set"}
  /\ next.chain \in SUBSET Chain /\ next.lead \in SUBSET Entry
  /\ chain \in SUBSET Chain /\ lead \in SUBSET Entry /\ factory \in SUBSET Chain
  /\ reread \in BOOLEAN /\ saves \in 0..MaxSaves

\* At most one variable is exported and at most one is in the project's file.
Few == {Unset} \cup {[Unset EXCEPT ![v] = x] : v \in Vars, x \in UNION {Values[w] : w \in Vars}}
Proper == {f \in Few : \A v \in Vars : f[v] = "absent" \/ f[v] \in Values[v]}

Init ==
  /\ exported \in Proper /\ project \in Proper
  /\ global = [Unset EXCEPT !["MASTER"] = "local"]
  /\ env = Unset /\ phase = "down"
  /\ next = [chain |-> {}, lead |-> {}]
  /\ chain = {} /\ lead = {} /\ factory = {}
  /\ reread = FALSE /\ saves = 0

-----------------------------------------------------------------------------
(* Load. *)

\* godotenv: a file sets what is not set, if only to nothing.
Over(e, file) == [v \in Vars |-> IF e[v] = "absent" THEN file[v] ELSE e[v]]

\* loadDotenvChain: the project's file, then the global one.
LoadDotenvChain(e) == Over(Over(e, project), global)

Key(e) == IF e["KEY"] \in {"absent", "off"} THEN "none" ELSE e["KEY"]

\* resolveRole: none when the provider is not set or has no key.
ResolveRole(e, provider) ==
  CASE provider \in {"absent", "off"} -> {}
    [] provider = "local" -> {[provider |-> "local", key |-> "none"]}
    [] provider = "cloud" -> IF Key(e) = "none" THEN {} ELSE {[provider |-> "cloud", key |-> Key(e)]}

\* parseFallbacks: an entry that cannot be authenticated is dropped.
ParseFallbacks(e) == ResolveRole(e, e["FALLBACKS"])

\* Load: nothing at all without the required role; an optional one that does not
\* resolve is left out.
Load(e) ==
  [chain |-> {[main |-> m, fallbacks |-> ParseFallbacks(e)] : m \in ResolveRole(e, e["MASTER"])},
   lead |-> ResolveRole(e, e["LEAD"])]

Start ==
  /\ phase = "down"
  /\ env' = LoadDotenvChain(exported)
  /\ phase' = IF Load(env').chain = {} THEN "failed" ELSE "up"
  /\ chain' = Load(env').chain /\ lead' = Load(env').lead /\ factory' = Load(env').chain
  /\ reread' = FALSE
  /\ UNCHANGED <<files, next, saves>>

Exit ==
  /\ phase \in {"up", "failed"}
  /\ phase' = "down" /\ env' = Unset
  /\ chain' = {} /\ lead' = {} /\ factory' = {} /\ reread' = FALSE
  /\ UNCHANGED <<files, next, saves>>

-----------------------------------------------------------------------------
(* The settings page and the reload it asks for. *)

\* save: a blank key is left as it is, no fallbacks take the variable out of the
\* file, no lead is written as nothing.
Save(master, key, fallbacks, leader) ==
  /\ phase = "up" /\ saves < MaxSaves
  /\ global' = [v \in Vars |->
       CASE v = "MASTER" -> master
         [] v = "KEY" -> IF key = "none" THEN global[v] ELSE key
         [] v = "FALLBACKS" -> IF fallbacks = "off" THEN "absent" ELSE fallbacks
         [] v = "LEAD" -> leader]
  /\ saves' = saves + 1
  /\ reread' = FALSE
  /\ phase' = "cleared" /\ env' = env
  /\ UNCHANGED <<exported, project, next, inForce>>

\* What clearAgeniEnv takes out: of the variables modelled, these two.
Managed == {"MASTER", "KEY"}

\* Mutant of ClearAgeniEnv.
ClearsNothing(e) == e

ClearAgeniEnv(e) == [v \in Vars |-> IF v \in Managed THEN "absent" ELSE e[v]]

\* A reload that fails leaves the environment as it has made it.
ReloadLoads ==
  /\ phase = "cleared"
  /\ env' = LoadDotenvChain(ClearAgeniEnv(env))
  /\ next' = Load(env')
  /\ phase' = IF next'.chain = {} THEN "up" ELSE "loaded"
  /\ UNCHANGED <<files, inForce, reread, saves>>

\* UpdateAdapter, SetLead and UpdateFactory, while turns and spawns go on.
UpdateAdapter ==
  /\ phase = "loaded" /\ phase' = "chain set"
  /\ chain' = next.chain
  /\ UNCHANGED <<files, env, next, lead, factory, reread, saves>>

SetLead ==
  /\ phase = "chain set" /\ phase' = "lead set"
  /\ lead' = next.lead
  /\ UNCHANGED <<files, env, next, chain, factory, reread, saves>>

UpdateFactory ==
  /\ phase = "lead set" /\ phase' = "up"
  /\ factory' = next.chain
  /\ reread' = TRUE
  /\ UNCHANGED <<files, env, next, chain, lead, saves>>

-----------------------------------------------------------------------------
Next ==
  \/ Start \/ Exit
  \/ \E m \in {"local", "cloud"}, k \in GlobalKeys \cup {"none"}, f \in Values["FALLBACKS"], l \in Values["LEAD"] :
       Save(m, k, f, l)
  \/ ReloadLoads \/ UpdateAdapter \/ SetLead \/ UpdateFactory

Spec == Init /\ [][Next]_vars

-----------------------------------------------------------------------------
(* Properties. *)

File(v) == IF project[v] = "absent" THEN global[v] ELSE project[v]
Authenticated(e) == e.provider = "cloud" => e.key = File("KEY")

\* After a reload the master runs on the provider and the key that the files hold
\* now, whatever the environment held before, and so do the workers' adapters; and
\* whatever else the reload kept from before, the old lead and the old fallbacks,
\* none of it runs on a key that is no longer there.
ReloadReadsFiles ==
  /\ reread =>
       /\ \A c \in chain : c.main.provider = File("MASTER") /\ \A e \in {c.main} \cup c.fallbacks : Authenticated(e)
       /\ \A e \in lead : Authenticated(e)
       /\ factory = chain
  /\ phase = "up" => chain # {} /\ factory # {}

\* What the comment on clearAgeniEnv says: it "unsets all ageni-managed env vars so
\* a subsequent config.Load() re-reads them".
ReloadRereadsAll ==
  reread => \A v \in Vars : env[v] = File(v)

\* What the comment on Load says: of the files and the real environment, the "real
\* environment (always wins)".
RealEnvironmentWins ==
  phase = "up" => \A v \in Vars : exported[v] # "absent" => env[v] = exported[v]
=============================================================================
