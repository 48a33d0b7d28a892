--------------------------- MODULE RequestsProofs ---------------------------
(***************************************************************************)
(* Proofs about the components of MCRequests, for all chains, pools,       *)
(* workers, models, prices, blocks, keys and bounds: each component with   *)
(* its inductive invariant, and at the end the invariants of MCRequests.   *)
(* The lemmas of a component speak of its instance in MCRequests, whose    *)
(* variables and constants have the names they have there.                 *)
(*                                                                         *)
(* Setup.  SetupInv: what the wizard has been told so far is complete up   *)
(* to the prompt it is at, and a file it has written resolves to what it   *)
(* was told, with the keys and addresses of an older file cleared.         *)
(*                                                                         *)
(* Chain.  ChainInv: what an entry was asked for is among the models the   *)
(* chain has passed in it, and no list of models names one twice.          *)
(*                                                                         *)
(* Models.  ModelsInv: except between the pricing of a refresh and its     *)
(* thinking pricing the returns are those of the prices, and the listing's *)
(* provider is listed for a model only if the last listing has it.         *)
(* RankInv: the ranking has every model once (the ids order those whose    *)
(* scores are the same, so that a ranking exists).                         *)
(*                                                                         *)
(* Routing.  RoutingInv: a node counts one stream for every call that is   *)
(* counted and one for every forwarder that holds its count.               *)
(*                                                                         *)
(* SystemPrompt.  PromptInv: what was written and what is left of the      *)
(* budget add up, to within the rounding of tokens, at every block.        *)
(*                                                                         *)
(* MasterContext.  ContextInv: the end that is kept is the one the worker  *)
(* came to, until a turn takes it in or Esc discards it; the supervisor's  *)
(* state is an end's as well, unless a pause or resume came behind it.     *)
(*                                                                         *)
(* Config.  ConfigInv: at every step of a reload what is in force so far   *)
(* is what the configuration it is putting in force says.                  *)
(*                                                                         *)
(* Wire.  WireInv: every answer in the history and on the wire belongs to  *)
(* the assistant's message before it, no message on the wire lacks one,    *)
(* and while an answer streams each of its calls is open or handed on.     *)
(*                                                                         *)
(* SessionLog.  SessionInv: while no line was lost, the reader of the log  *)
(* as it is written answers every call at most once, and owes a result to  *)
(* every call the master still runs; and no number of the history is above *)
(* the last that was given out.                                            *)
(*                                                                         *)
(* Restore.  RestoreInv: whoever is live or has an event waiting is of     *)
(* this run, with no word of an earlier one in the log; and whoever was    *)
(* restored is of an earlier run, with the end the log has last.           *)
(***************************************************************************)
EXTENDS MCRequests, Integers, FiniteSetTheorems, SequenceTheorems,
        WellFoundedInduction, TLAPS

-----------------------------------------------------------------------------
(* Numbers. *)

\* A nonempty set of numbers has a least one.
LEMMA Least == ASSUME NEW T \in SUBSET Nat, T # {} PROVE \E x \in T : \A y \in T : x <= y
<1>1. PICK x \in T : \A y \in T : ~(<<y, x>> \in OpToRel(<, Nat))
  BY NatLessThanWellFounded, WFMin
<1>2. \A y \in T : ~(y < x)
  BY <1>1 DEF OpToRel
<1> QED
  BY <1>2

\* A nonempty set of numbers up to n has a greatest element.
LEMMA Highest ==
  ASSUME NEW n \in Nat, NEW S, S \subseteq 0..n, S # {}
  PROVE  \E x \in S : \A m \in S : x >= m
<1> DEFINE T == {x \in Nat : \E m \in S : x = n - m}
<1>1. T # {}
  <2>1. PICK m \in S : TRUE
    OBVIOUS
  <2>2. n - m \in T
    BY <2>1
  <2> QED
    BY <2>2
<1>2. PICK x \in T : \A y \in T : x <= y
  BY <1>1, Least
<1>3. PICK m \in S : x = n - m
  BY <1>2
<1>4. ASSUME NEW k \in S PROVE k <= m
  <2>1. n - k \in T
    BY <1>4
  <2> QED
    BY <2>1, <1>2, <1>3
<1>5. \A k \in S : m >= k
  BY <1>4
<1> QED
  BY <1>5

\* Numbers up to n, one after the other.
LEMMA UpTo ==
  ASSUME NEW n \in Nat, NEW P, 0 \in P, \A k \in 1..n : k - 1 \in P => k \in P
  PROVE  \A k \in 0..n : k \in P
<1> SUFFICES ASSUME NEW j \in 0..n, j \notin P PROVE FALSE
  OBVIOUS
<1> DEFINE T == {k \in 0..n : k \notin P}
<1>1. T \in SUBSET Nat /\ j \in T
  OBVIOUS
<1>2. PICK k \in T : \A m \in T : k <= m
  BY <1>1, Least
<1>3. k \in 1..n
  BY <1>2
<1>4. k - 1 \in P
  <2>1. k - 1 \notin T
    BY <1>2, <1>3
  <2> QED
    BY <2>1, <1>3
<1> QED
  BY <1>2, <1>3, <1>4

\* A recursion over 0..n has a solution, of the type of its values.
Recursive(n, S, base, step) ==
  \E f \in [0..n -> S] : f[0] = base /\ \A k \in 1..n : f[k] = step[k][f[k - 1]]

LEMMA Recursion ==
  ASSUME NEW n \in Nat, NEW S, NEW base \in S, NEW step \in [1..n -> [S -> S]]
  PROVE  Recursive(n, S, base, step)
<1> DEFINE P == {m \in 0..n : \E f \in [0..m -> S] : f[0] = base /\ \A k \in 1..m : f[k] = step[k][f[k - 1]]}
<1>1. 0 \in P
  <2> DEFINE g == [k \in 0..0 |-> base]
  <2>1. g \in [0..0 -> S] /\ g[0] = base
    OBVIOUS
  <2> HIDE DEF g
  <2>2. \A k \in 1..0 : g[k] = step[k][g[k - 1]]
    OBVIOUS
  <2>3. \E f \in [0..0 -> S] : f[0] = base /\ \A k \in 1..0 : f[k] = step[k][f[k - 1]]
    BY <2>1, <2>2
  <2> QED
    BY <2>3
<1>2. ASSUME NEW m \in 1..n, m - 1 \in P PROVE m \in P
  <2>1. PICK f \in [0..(m - 1) -> S] : f[0] = base /\ \A k \in 1..(m - 1) : f[k] = step[k][f[k - 1]]
    BY <1>2
  <2> DEFINE g == [k \in 0..m |-> IF k = m THEN step[m][f[m - 1]] ELSE f[k]]
  <2>2. m - 1 \in 0..(m - 1) /\ f[m - 1] \in S
    BY <2>1
  <2>3. step[m] \in [S -> S]
    OBVIOUS
  <2>4. step[m][f[m - 1]] \in S
    BY <2>3
  <2>5. \A k \in 0..m : k # m => k \in 0..(m - 1)
    OBVIOUS
  <2>6. g \in [0..m -> S]
    BY <2>1, <2>4, <2>5
  <2>7. g[0] = base
    BY <2>1
  <2>8. \A k \in 1..m : g[k] = step[k][g[k - 1]]
    <3> TAKE k \in 1..m
    <3>1. CASE k = m
      <4>1. g[k] = step[m][f[m - 1]] /\ g[k - 1] = f[m - 1]
        BY <3>1
      <4> QED
        BY <3>1, <4>1
    <3>2. CASE k # m
      <4>1. k \in 1..(m - 1)
        BY <3>2
      <4>2. g[k] = f[k] /\ g[k - 1] = f[k - 1]
        BY <3>2, <4>1
      <4> QED
        BY <2>1, <4>1, <4>2
    <3> QED
      BY <3>1, <3>2
  <2> HIDE DEF g
  <2>9. \E h \in [0..m -> S] : h[0] = base /\ \A k \in 1..m : h[k] = step[k][h[k - 1]]
    BY <2>6, <2>7, <2>8
  <2>10. m \in 0..n
    OBVIOUS
  <2> QED
    BY ONLY <2>9, <2>10
<1>3. n \in P
  BY <1>1, <1>2, UpTo, n \in 0..n
<1> QED
  BY <1>3 DEF Recursive

-----------------------------------------------------------------------------
(* Setup. *)

\* What Setup asks of its constants.
LEMMA SetupBounds == Setup!SetupConstants
BY MCRequestsConstants

\* What a role's answer has when the wizard is past the address and the key.
Asked(a) ==
  /\ a \in Setup!Answer /\ a.provider \in Setup!Providers
  /\ \/ a.provider \in Keyed /\ a.url = "" /\ a.roleKey = "" /\ a.providerKey \in Keys
     \/ a.provider = "custom" /\ a.url \in URLs /\ a.providerKey = ""
     \/ a.provider \in Local /\ a.url = "" /\ a.roleKey = "" /\ a.providerKey = ""

Complete(a) == Asked(a) /\ a.model \in ModelNames

\* What a role's answer has when the wizard is at one of its prompts.
Given(a, prompt) ==
  /\ a \in Setup!Answer
  /\ prompt = "provider" => a = Setup!NoAnswer
  /\ prompt = "url" => a.provider = "custom" /\ a.roleKey = "" /\ a.providerKey = ""
  /\ prompt = "key" => \/ a.provider \in Keyed /\ a.url = "" /\ a.roleKey = ""
                       \/ a.provider = "custom" /\ a.url \in URLs /\ a.providerKey = ""
  /\ prompt = "model" => Asked(a)

Progress ==
  /\ at[1] = "MASTER" => Given(answers["MASTER"], at[2]) /\ answers["SUBAGENT"] = Setup!NoAnswer
  /\ at[1] = "SUBAGENT" => Complete(answers["MASTER"]) /\ Given(answers["SUBAGENT"], at[2])
  /\ at[1] = "both" => Complete(answers["MASTER"]) /\ Complete(answers["SUBAGENT"])

\* The file that the wizard writes.
WrittenFile ==
  [role |-> [r \in Setup!WizardRoles |-> Setup!WrittenRole(answers[r])], keys |-> [p \in Keyed |-> Setup!WrittenKey(p)]]

SetupTypes ==
  /\ file \in Setup!EnvFile /\ setupEnv \in Setup!EnvFile /\ existing \in Setup!EnvFile
  /\ state \in {"down", "init", "first run", "up", "failed"}
  /\ at \in Setup!Prompts /\ answers \in [Setup!WizardRoles -> Setup!Answer]
  /\ used = <<>> \/ used \in [Setup!WizardRoles -> Setup!Used]
  /\ written \in BOOLEAN /\ fresh \in BOOLEAN /\ runs \in 0..MaxWizards

SetupInv ==
  /\ SetupTypes
  /\ state \in {"down", "init"} => setupEnv = Setup!Empty
  /\ state = "first run" => Setup!NotConfigured(setupEnv)
  /\ Setup!Asking => Progress /\ ~written
  /\ written => /\ file = WrittenFile /\ state # "failed"
                /\ \A r \in Setup!WizardRoles : Complete(answers[r])
  /\ fresh => state \in {"up", "failed"}
  /\ fresh /\ state = "up" => written /\ \A r \in Setup!WizardRoles : used[r] = Setup!Resolved(file, r)

\* Nothing set is a file.
LEMMA EmptyTyped == Setup!Empty \in Setup!EnvFile /\ Setup!NoAnswer \in Setup!Answer
<1>1. Setup!NoRole \in Setup!Role
  <2>1. Setup!NoRole = [x \in {"provider", "model", "url", "key"} |-> ""]
    BY DEF Setup!NoRole, Setup!Fields
  <2>2. Setup!NoRole = [provider |-> "", model |-> "", url |-> "", key |-> ""]
    BY <2>1
  <2> QED
    BY <2>2 DEF Setup!Role
<1>2. [r \in Setup!WizardRoles |-> Setup!NoRole] \in [Setup!WizardRoles -> Setup!Role] /\ [p \in Keyed |-> ""] \in [Keyed -> Keys \cup {""}]
  BY <1>1
<1>3. Setup!Empty \in Setup!EnvFile
  BY <1>2 DEF Setup!Empty, Setup!EnvFile
<1>4. Setup!NoAnswer \in Setup!Answer
  BY DEF Setup!NoAnswer, Setup!Answer
<1> QED
  BY <1>3, <1>4

\* The two parts of a file.
LEMMA FileParts ==
  ASSUME NEW f \in Setup!EnvFile
  PROVE  /\ f.role \in [Setup!WizardRoles -> Setup!Role] /\ f.keys \in [Keyed -> Keys \cup {""}]
         /\ f = [role |-> f.role, keys |-> f.keys]
         /\ \A r \in Setup!WizardRoles : /\ f.role[r] \in Setup!Role
              /\ f.role[r] = [provider |-> f.role[r].provider, model |-> f.role[r].model, url |-> f.role[r].url, key |-> f.role[r].key]
<1>1. f.role \in [Setup!WizardRoles -> Setup!Role] /\ f.keys \in [Keyed -> Keys \cup {""}] /\ f = [role |-> f.role, keys |-> f.keys]
  BY DEF Setup!EnvFile
<1>2. ASSUME NEW x \in Setup!Role PROVE x = [provider |-> x.provider, model |-> x.model, url |-> x.url, key |-> x.key]
  BY DEF Setup!Role
<1> QED
  BY <1>1, <1>2

\* The fields of a role that is put together from two.
LEMMA OverRole ==
  ASSUME NEW a \in Setup!Role, NEW b \in Setup!Role
  PROVE  [x \in Setup!Fields |-> Setup!FirstOf(a[x], b[x])]
           = [provider |-> Setup!FirstOf(a.provider, b.provider), model |-> Setup!FirstOf(a.model, b.model),
              url |-> Setup!FirstOf(a.url, b.url), key |-> Setup!FirstOf(a.key, b.key)]
BY DEF Setup!Fields

\* A file over an environment is one again; what it gives to each variable.
LEMMA SetupOverTyped ==
  ASSUME NEW e \in Setup!EnvFile, NEW f \in Setup!EnvFile
  PROVE  /\ Setup!Over(e, f) \in Setup!EnvFile
         /\ \A p \in Keyed : Setup!Over(e, f).keys[p] = Setup!FirstOf(e.keys[p], f.keys[p])
         /\ \A r \in Setup!WizardRoles : /\ Setup!Over(e, f).role[r].provider = Setup!FirstOf(e.role[r].provider, f.role[r].provider)
                                   /\ Setup!Over(e, f).role[r].model = Setup!FirstOf(e.role[r].model, f.role[r].model)
                                   /\ Setup!Over(e, f).role[r].url = Setup!FirstOf(e.role[r].url, f.role[r].url)
                                   /\ Setup!Over(e, f).role[r].key = Setup!FirstOf(e.role[r].key, f.role[r].key)
<1> DEFINE rs == [r \in Setup!WizardRoles |-> [x \in Setup!Fields |-> Setup!FirstOf(e.role[r][x], f.role[r][x])]]
           ks == [p \in Keyed |-> Setup!FirstOf(e.keys[p], f.keys[p])]
<1>1. Setup!Over(e, f) = [role |-> rs, keys |-> ks]
  BY DEF Setup!Over
<1>2. \A r \in Setup!WizardRoles : e.role[r] \in Setup!Role /\ f.role[r] \in Setup!Role
  BY FileParts
<1>3. \A r \in Setup!WizardRoles :
       rs[r] = [provider |-> Setup!FirstOf(e.role[r].provider, f.role[r].provider), model |-> Setup!FirstOf(e.role[r].model, f.role[r].model),
                url |-> Setup!FirstOf(e.role[r].url, f.role[r].url), key |-> Setup!FirstOf(e.role[r].key, f.role[r].key)]
  BY <1>2, OverRole
<1>4. ASSUME NEW a \in Setup!Role, NEW b \in Setup!Role
      PROVE  [provider |-> Setup!FirstOf(a.provider, b.provider), model |-> Setup!FirstOf(a.model, b.model),
              url |-> Setup!FirstOf(a.url, b.url), key |-> Setup!FirstOf(a.key, b.key)] \in Setup!Role
  BY DEF Setup!Role, Setup!FirstOf
<1>5. \A r \in Setup!WizardRoles : rs[r] \in Setup!Role
  BY <1>2, <1>3, <1>4
<1>6. rs \in [Setup!WizardRoles -> Setup!Role]
  BY <1>5
<1>61. \A r \in Setup!WizardRoles : /\ rs[r].provider = Setup!FirstOf(e.role[r].provider, f.role[r].provider)
                              /\ rs[r].model = Setup!FirstOf(e.role[r].model, f.role[r].model)
                              /\ rs[r].url = Setup!FirstOf(e.role[r].url, f.role[r].url)
                              /\ rs[r].key = Setup!FirstOf(e.role[r].key, f.role[r].key)
  <2> HIDE DEF rs
  <2> TAKE r \in Setup!WizardRoles
  <2> DEFINE x == rs[r]
  <2>1. x = [provider |-> Setup!FirstOf(e.role[r].provider, f.role[r].provider), model |-> Setup!FirstOf(e.role[r].model, f.role[r].model),
             url |-> Setup!FirstOf(e.role[r].url, f.role[r].url), key |-> Setup!FirstOf(e.role[r].key, f.role[r].key)]
    BY <1>3
  <2> HIDE DEF x
  <2>2. /\ x.provider = Setup!FirstOf(e.role[r].provider, f.role[r].provider) /\ x.model = Setup!FirstOf(e.role[r].model, f.role[r].model)
        /\ x.url = Setup!FirstOf(e.role[r].url, f.role[r].url) /\ x.key = Setup!FirstOf(e.role[r].key, f.role[r].key)
    BY <2>1
  <2> QED
    BY <2>2 DEF x
<1>7. \A p \in Keyed : ks[p] = Setup!FirstOf(e.keys[p], f.keys[p])
  OBVIOUS
<1>8. ks \in [Keyed -> Keys \cup {""}]
  BY FileParts DEF Setup!FirstOf
<1> HIDE DEF rs, ks
<1> DEFINE o == Setup!Over(e, f)
<1>9. o = [role |-> rs, keys |-> ks]
  BY <1>1
<1> HIDE DEF o
<1>10. o \in Setup!EnvFile /\ o.role = rs /\ o.keys = ks
  BY <1>6, <1>8, <1>9 DEF Setup!EnvFile
<1>11. /\ o \in Setup!EnvFile
       /\ \A p \in Keyed : o.keys[p] = Setup!FirstOf(e.keys[p], f.keys[p])
       /\ \A r \in Setup!WizardRoles : /\ o.role[r].provider = Setup!FirstOf(e.role[r].provider, f.role[r].provider)
                                 /\ o.role[r].model = Setup!FirstOf(e.role[r].model, f.role[r].model)
                                 /\ o.role[r].url = Setup!FirstOf(e.role[r].url, f.role[r].url)
                                 /\ o.role[r].key = Setup!FirstOf(e.role[r].key, f.role[r].key)
  BY <1>61, <1>7, <1>10
<1> QED
  BY <1>11 DEF o

\* A file over nothing.
LEMMA OverEmpty == ASSUME NEW f \in Setup!EnvFile PROVE Setup!Over(Setup!Empty, f) = f
<1>1. /\ Setup!Over(Setup!Empty, f) \in Setup!EnvFile
      /\ \A p \in Keyed : Setup!Over(Setup!Empty, f).keys[p] = Setup!FirstOf(Setup!Empty.keys[p], f.keys[p])
      /\ \A r \in Setup!WizardRoles : /\ Setup!Over(Setup!Empty, f).role[r].provider = Setup!FirstOf(Setup!Empty.role[r].provider, f.role[r].provider)
                                /\ Setup!Over(Setup!Empty, f).role[r].model = Setup!FirstOf(Setup!Empty.role[r].model, f.role[r].model)
                                /\ Setup!Over(Setup!Empty, f).role[r].url = Setup!FirstOf(Setup!Empty.role[r].url, f.role[r].url)
                                /\ Setup!Over(Setup!Empty, f).role[r].key = Setup!FirstOf(Setup!Empty.role[r].key, f.role[r].key)
  BY EmptyTyped, SetupOverTyped
<1>2. \A p \in Keyed : Setup!Empty.keys[p] = ""
  BY DEF Setup!Empty
<1>3. \A r \in Setup!WizardRoles : Setup!Empty.role[r].provider = "" /\ Setup!Empty.role[r].model = "" /\ Setup!Empty.role[r].url = "" /\ Setup!Empty.role[r].key = ""
  BY DEF Setup!Empty, Setup!NoRole, Setup!Fields
<1> DEFINE o == Setup!Over(Setup!Empty, f)
<1>4. \A p \in Keyed : o.keys[p] = f.keys[p]
  BY <1>1, <1>2 DEF Setup!FirstOf
<1>5. \A r \in Setup!WizardRoles : /\ o.role[r].provider = f.role[r].provider /\ o.role[r].model = f.role[r].model
                             /\ o.role[r].url = f.role[r].url /\ o.role[r].key = f.role[r].key
  BY <1>1, <1>3 DEF Setup!FirstOf
<1>6. o \in Setup!EnvFile
  BY <1>1
<1> HIDE DEF o
<1>7. \A r \in Setup!WizardRoles : o.role[r] = f.role[r]
  BY <1>5, <1>6, FileParts
<1>8. o.role = f.role /\ o.keys = f.keys
  <2>1. o.role \in [Setup!WizardRoles -> Setup!Role] /\ f.role \in [Setup!WizardRoles -> Setup!Role]
    BY <1>6, FileParts
  <2>2. o.keys \in [Keyed -> Keys \cup {""}] /\ f.keys \in [Keyed -> Keys \cup {""}]
    BY <1>6, FileParts
  <2> DEFINE a == o.role  b == f.role  c == o.keys  d == f.keys
  <2>3. /\ a \in [Setup!WizardRoles -> Setup!Role] /\ b \in [Setup!WizardRoles -> Setup!Role] /\ \A r \in Setup!WizardRoles : a[r] = b[r]
        /\ c \in [Keyed -> Keys \cup {""}] /\ d \in [Keyed -> Keys \cup {""}] /\ \A p \in Keyed : c[p] = d[p]
    BY <1>4, <1>7, <2>1, <2>2
  <2> HIDE DEF a, b, c, d
  <2>4. a = b
    <3>1. a \in [Setup!WizardRoles -> Setup!Role] /\ b \in [Setup!WizardRoles -> Setup!Role] /\ \A r \in Setup!WizardRoles : a[r] = b[r]
      BY <2>3
    <3> QED
      BY <3>1
  <2>5. c = d
    <3>1. \A p \in Keyed : c[p] = d[p]
      BY <2>3
    <3>2. c = [p \in Keyed |-> c[p]] /\ d = [p \in Keyed |-> d[p]]
      BY <2>3
    <3> QED
      BY <3>1, <3>2
  <2> QED
    BY <2>4, <2>5 DEF a, b, c, d
<1>9. o = f
  BY <1>6, <1>8, FileParts
<1> QED
  BY <1>9 DEF o

\* What a role that resolves has.
LEMMA ResolvedTyped ==
  ASSUME NEW e \in Setup!EnvFile, NEW r \in Setup!WizardRoles, Setup!Resolves(e, r)
  PROVE  Setup!Resolved(e, r) \in Setup!Used
<1>1. e.role[r] \in Setup!Role /\ e.keys \in [Keyed -> Keys \cup {""}]
  BY FileParts
<1> DEFINE p == e.role[r].provider
           m == IF e.role[r].model = "" /\ p \in DOMAIN Default THEN Default[p] ELSE e.role[r].model
           u == Setup!FirstOf(e.role[r].url, Setup!Preset(p))
           k == IF p \in Keyed THEN Setup!FirstOf(e.role[r].key, e.keys[p]) ELSE e.role[r].key
<1>2. Setup!Resolved(e, r) = [provider |-> p, model |-> m, url |-> u, key |-> k]
  BY DEF Setup!Resolved
<1>3. p # "" /\ m # "" /\ u # ""
  <2> DEFINE x == Setup!Resolved(e, r)
  <2>1. x.provider # "" /\ x.model # "" /\ x.url # "" /\ x = [provider |-> p, model |-> m, url |-> u, key |-> k]
    BY <1>2 DEF Setup!Resolves
  <2> HIDE DEF x, p, m, u, k
  <2> QED
    BY <2>1
<1>4. p \in Setup!Providers
  BY <1>1, <1>3 DEF Setup!Role
<1>5. m \in ModelNames
  BY <1>1, <1>3, SetupBounds DEF Setup!Role, Setup!SetupConstants
<1>6. u \in URLs \cup {"preset"}
  BY <1>1, <1>3 DEF Setup!Role, Setup!FirstOf, Setup!Preset
<1>7. k \in Keys \cup {""}
  BY <1>1 DEF Setup!Role, Setup!FirstOf
<1> HIDE DEF p, m, u, k
<1>8. [provider |-> p, model |-> m, url |-> u, key |-> k] \in Setup!Used
  BY <1>4, <1>5, <1>6, <1>7 DEF Setup!Used
<1> QED
  BY <1>2, <1>8

\* A role as the wizard writes it.
LEMMA WrittenTyped ==
  ASSUME NEW a, Complete(a)
  PROVE  /\ Setup!WrittenRole(a) \in Setup!Role
         /\ Setup!WrittenRole(a).provider = a.provider /\ Setup!WrittenRole(a).model = a.model /\ Setup!WrittenRole(a).key = a.roleKey
         /\ Setup!WrittenRole(a).url = (IF a.provider = "custom" THEN a.url ELSE "")
<1>1. /\ a.provider \in Setup!Providers /\ a.model \in ModelNames /\ a.url \in URLs \cup {""} /\ a.roleKey \in Keys \cup {""}
      /\ a.provider # "custom" => a.url = ""
      /\ a.provider = "custom" => a.url \in URLs
  BY SetupBounds DEF Complete, Asked, Setup!Answer, Setup!SetupConstants
<1> DEFINE u == Setup!SetOrClear(a.url, Setup!Preset(a.provider))
           k == Setup!SetOrClear(a.roleKey, "")
<1>2. Setup!WrittenRole(a) = [provider |-> a.provider, model |-> a.model, url |-> u, key |-> k]
  BY DEF Setup!WrittenRole
<1>3. u = IF a.provider = "custom" THEN a.url ELSE ""
  BY <1>1, SetupBounds DEF Setup!SetOrClear, Setup!Preset, Setup!SetupConstants
<1>4. k = a.roleKey
  BY DEF Setup!SetOrClear
<1>5. u \in URLs \cup {""}
  BY <1>1, <1>3
<1> DEFINE w == Setup!WrittenRole(a)
<1>6. w = [provider |-> a.provider, model |-> a.model, url |-> u, key |-> k]
  BY <1>2
<1> HIDE DEF u, k, w
<1>7. w \in Setup!Role /\ w.provider = a.provider /\ w.model = a.model /\ w.key = k /\ w.url = u
  BY <1>1, <1>4, <1>5, <1>6 DEF Setup!Role
<1> QED
  BY <1>3, <1>4, <1>7 DEF w

\* The key of a provider that was picked is one that was given for it.
LEMMA WrittenKeyGiven ==
  ASSUME \A r \in Setup!WizardRoles : Complete(answers[r]), NEW p \in Keyed
  PROVE  /\ (\E r \in Setup!WizardRoles : answers[r].provider = p) => Setup!WrittenKey(p) \in Keys /\ Setup!WrittenKey(p) \in Setup!GivenKeys(p)
         /\ existing \in Setup!EnvFile => Setup!WrittenKey(p) \in Keys \cup {""}
<1>1. \A r \in Setup!WizardRoles : answers[r].provider = p => answers[r].providerKey \in Keys
  BY SetupBounds DEF Complete, Asked, Setup!SetupConstants
<1>2. "MASTER" \in Setup!WizardRoles /\ "SUBAGENT" \in Setup!WizardRoles /\ \A r \in Setup!WizardRoles : r = "MASTER" \/ r = "SUBAGENT"
  BY DEF Setup!WizardRoles
<1>3. \A r \in Setup!WizardRoles : answers[r].provider = p => answers[r].providerKey \in Setup!GivenKeys(p)
  BY DEF Setup!GivenKeys
<1>4. CASE answers["SUBAGENT"].provider = p
  <2>1. Setup!WrittenKey(p) = answers["SUBAGENT"].providerKey
    BY <1>4 DEF Setup!WrittenKey
  <2> QED
    BY <1>1, <1>2, <1>3, <1>4, <2>1
<1>5. CASE answers["SUBAGENT"].provider # p /\ answers["MASTER"].provider = p
  <2>1. Setup!WrittenKey(p) = answers["MASTER"].providerKey
    BY <1>5 DEF Setup!WrittenKey
  <2> QED
    BY <1>1, <1>2, <1>3, <1>5, <2>1
<1>6. CASE answers["SUBAGENT"].provider # p /\ answers["MASTER"].provider # p
  <2>1. Setup!WrittenKey(p) = existing.keys[p]
    BY <1>6 DEF Setup!WrittenKey
  <2>2. ~\E r \in Setup!WizardRoles : answers[r].provider = p
    BY <1>2, <1>6
  <2>3. existing \in Setup!EnvFile => existing.keys[p] \in Keys \cup {""}
    BY FileParts
  <2> QED
    BY <2>1, <2>2, <2>3
<1> QED
  BY <1>4, <1>5, <1>6

\* The file that the wizard writes is one, and over an environment that names no provider both
\* roles resolve.
LEMMA WrittenResolves ==
  ASSUME existing \in Setup!EnvFile, \A r \in Setup!WizardRoles : Complete(answers[r])
  PROVE  /\ WrittenFile \in Setup!EnvFile
         /\ \A r \in Setup!WizardRoles : WrittenFile.role[r] = Setup!WrittenRole(answers[r])
         /\ \A p \in Keyed : WrittenFile.keys[p] = Setup!WrittenKey(p)
         /\ \A e \in Setup!EnvFile : Setup!NotConfigured(e) => \A r \in Setup!WizardRoles : Setup!Resolves(Setup!Over(e, WrittenFile), r)
<1>1. WrittenFile \in Setup!EnvFile
  BY WrittenTyped, WrittenKeyGiven DEF WrittenFile, Setup!EnvFile
<1>2. /\ \A r \in Setup!WizardRoles : WrittenFile.role[r] = Setup!WrittenRole(answers[r])
      /\ \A p \in Keyed : WrittenFile.keys[p] = Setup!WrittenKey(p)
  BY DEF WrittenFile
<1>3. ASSUME NEW e \in Setup!EnvFile, Setup!NotConfigured(e), NEW r \in Setup!WizardRoles PROVE Setup!Resolves(Setup!Over(e, WrittenFile), r)
  <2> DEFINE o == Setup!Over(e, WrittenFile)
             a == answers[r]
  <2>1. /\ \A p \in Keyed : o.keys[p] = Setup!FirstOf(e.keys[p], Setup!WrittenKey(p))
        /\ o.role[r].provider = Setup!FirstOf(e.role[r].provider, a.provider)
        /\ o.role[r].model = Setup!FirstOf(e.role[r].model, a.model)
        /\ o.role[r].url = Setup!FirstOf(e.role[r].url, IF a.provider = "custom" THEN a.url ELSE "")
        /\ o.role[r].key = Setup!FirstOf(e.role[r].key, a.roleKey)
    <3> DEFINE w == WrittenFile
               v == Setup!WrittenRole(a)
    <3>1. w \in Setup!EnvFile /\ w.role[r] = v /\ \A p \in Keyed : w.keys[p] = Setup!WrittenKey(p)
      BY <1>1, <1>2
    <3>2. v.provider = a.provider /\ v.model = a.model /\ v.key = a.roleKey /\ v.url = (IF a.provider = "custom" THEN a.url ELSE "")
      BY WrittenTyped
    <3> HIDE DEF w, v
    <3>3. /\ \A p \in Keyed : Setup!Over(e, w).keys[p] = Setup!FirstOf(e.keys[p], w.keys[p])
          /\ Setup!Over(e, w).role[r].provider = Setup!FirstOf(e.role[r].provider, w.role[r].provider)
          /\ Setup!Over(e, w).role[r].model = Setup!FirstOf(e.role[r].model, w.role[r].model)
          /\ Setup!Over(e, w).role[r].url = Setup!FirstOf(e.role[r].url, w.role[r].url)
          /\ Setup!Over(e, w).role[r].key = Setup!FirstOf(e.role[r].key, w.role[r].key)
      BY <3>1, SetupOverTyped
    <3>4. /\ \A p \in Keyed : Setup!Over(e, w).keys[p] = Setup!FirstOf(e.keys[p], Setup!WrittenKey(p))
          /\ Setup!Over(e, w).role[r].provider = Setup!FirstOf(e.role[r].provider, a.provider)
          /\ Setup!Over(e, w).role[r].model = Setup!FirstOf(e.role[r].model, a.model)
          /\ Setup!Over(e, w).role[r].url = Setup!FirstOf(e.role[r].url, IF a.provider = "custom" THEN a.url ELSE "")
          /\ Setup!Over(e, w).role[r].key = Setup!FirstOf(e.role[r].key, a.roleKey)
      BY <3>1, <3>2, <3>3
    <3> QED
      BY <3>4 DEF w
  <2>2. o.role[r].provider = a.provider
    BY <1>3, <2>1 DEF Setup!NotConfigured, Setup!FirstOf
  <2>3. a.provider \in Setup!Providers /\ a.provider # "" /\ a.model # ""
    BY SetupBounds DEF Complete, Asked, Setup!SetupConstants, Setup!Providers
  <2>4. o.role[r].model # ""
    BY <2>1, <2>3 DEF Setup!FirstOf
  <2>5. a.provider = "custom" => a.url # ""
    BY SetupBounds DEF Complete, Asked, Setup!SetupConstants
  <2>6. Setup!FirstOf(o.role[r].url, Setup!Preset(a.provider)) # ""
    BY <2>1, <2>5 DEF Setup!FirstOf, Setup!Preset
  <2>7. a.provider \in Keyed => Setup!FirstOf(o.role[r].key, o.keys[a.provider]) # ""
    <3>1. a.provider \in Keyed => Setup!WrittenKey(a.provider) # ""
      BY WrittenKeyGiven, SetupBounds DEF Setup!SetupConstants
    <3> QED
      BY <2>1, <3>1 DEF Setup!FirstOf
  <2> HIDE DEF o
  <2> QED
    BY <2>2, <2>3, <2>4, <2>6, <2>7 DEF Setup!Resolves, Setup!Resolved, o
<1> QED
  BY <1>1, <1>2, <1>3

\* What a role runs on that was resolved from the wizard's file alone.
LEMMA WrittenUsed ==
  ASSUME existing \in Setup!EnvFile, \A r \in Setup!WizardRoles : Complete(answers[r]), NEW r \in Setup!WizardRoles
  PROVE  LET u == Setup!Resolved(WrittenFile, r)
         IN /\ u.provider = answers[r].provider /\ u.model = answers[r].model
            /\ u.url = Setup!FirstOf(answers[r].url, Setup!Preset(answers[r].provider))
            /\ IF u.provider \in Keyed THEN u.key \in Setup!GivenKeys(u.provider) ELSE u.key = answers[r].roleKey
<1> DEFINE a == answers[r]
<1>1. /\ WrittenFile.role[r].provider = a.provider /\ WrittenFile.role[r].model = a.model
      /\ WrittenFile.role[r].key = a.roleKey /\ WrittenFile.role[r].url = (IF a.provider = "custom" THEN a.url ELSE "")
      /\ \A p \in Keyed : WrittenFile.keys[p] = Setup!WrittenKey(p)
  BY WrittenResolves, WrittenTyped
<1>2. a.model # "" /\ (a.provider # "custom" => a.url = "") /\ (a.provider \in Keyed => a.roleKey = "")
  BY SetupBounds DEF Complete, Asked, Setup!SetupConstants
<1>3. a.provider \in Keyed => Setup!WrittenKey(a.provider) \in Setup!GivenKeys(a.provider)
  BY WrittenKeyGiven
<1> HIDE DEF a
<1> DEFINE u == Setup!Resolved(WrittenFile, r)
<1>4. /\ u.provider = a.provider /\ u.model = a.model
      /\ u.url = Setup!FirstOf(IF a.provider = "custom" THEN a.url ELSE "", Setup!Preset(a.provider))
      /\ u.key = IF a.provider \in Keyed THEN Setup!FirstOf(a.roleKey, Setup!WrittenKey(a.provider)) ELSE a.roleKey
  BY <1>1, <1>2 DEF Setup!Resolved
<1>5. u.url = Setup!FirstOf(a.url, Setup!Preset(a.provider))
  BY <1>2, <1>4
<1>6. IF u.provider \in Keyed THEN u.key \in Setup!GivenKeys(u.provider) ELSE u.key = a.roleKey
  BY <1>2, <1>3, <1>4 DEF Setup!FirstOf
<1> HIDE DEF u
<1> QED
  BY <1>4, <1>5, <1>6 DEF a, u

\* The setup before anything was run.
LEMMA SetupInit == ASSUME Setup!Init PROVE SetupInv
<1>1. MaxWizards \in Nat
  BY SetupBounds DEF Setup!SetupConstants
<1>2. file \in Setup!EnvFile /\ setupEnv = Setup!Empty /\ existing = Setup!Empty /\ state = "down"
  BY DEF Setup!Init
<1>3. answers \in [Setup!WizardRoles -> Setup!Answer]
  BY EmptyTyped DEF Setup!Init
<1>4. at \in Setup!Prompts
  BY DEF Setup!Init, Setup!Prompts, Setup!WizardRoles
<1>5. used = <<>> /\ written = FALSE /\ fresh = FALSE /\ runs \in 0..MaxWizards
  BY <1>1 DEF Setup!Init
<1> QED
  BY <1>2, <1>3, <1>4, <1>5, EmptyTyped DEF SetupInv, SetupTypes, Setup!Asking

\* One more, below a bound.
LEMMA OneMore == ASSUME NEW n \in Nat, NEW k \in 0..n, k < n PROVE k + 1 \in 0..n
OBVIOUS

\* A wizard opens.
LEMMA OpenStep ==
  ASSUME SetupInv, state = "down", NEW way \in {"init", "first run"}, Setup!Opens(way), setupEnv' \in Setup!EnvFile,
         way = "init" => setupEnv' = Setup!Empty, way = "first run" => Setup!NotConfigured(setupEnv')
  PROVE  SetupInv'
<1>1. MaxWizards \in Nat
  BY SetupBounds DEF Setup!SetupConstants
<1>2. /\ state' = way /\ at' = <<"MASTER", "provider">> /\ existing' = file /\ answers' = [r \in Setup!WizardRoles |-> Setup!NoAnswer]
      /\ written' = FALSE /\ fresh' = FALSE /\ file' = file /\ used' = used /\ runs < MaxWizards /\ runs' = runs + 1
  BY DEF Setup!Opens
<1>3. answers' \in [Setup!WizardRoles -> Setup!Answer] /\ answers'["MASTER"] = Setup!NoAnswer /\ answers'["SUBAGENT"] = Setup!NoAnswer
  BY <1>2, EmptyTyped DEF Setup!WizardRoles
<1>4. at' \in Setup!Prompts /\ at'[1] = "MASTER" /\ at'[2] = "provider"
  BY <1>2 DEF Setup!Prompts, Setup!WizardRoles
<1>5. runs' \in 0..MaxWizards
  <2>1. runs \in 0..MaxWizards
    BY DEF SetupInv, SetupTypes
  <2>2. runs < MaxWizards /\ runs' = runs + 1
    BY DEF Setup!Opens
  <2> QED
    BY <1>1, <2>1, <2>2, OneMore
<1>6. Progress'
  BY <1>3, <1>4, EmptyTyped DEF Progress, Given
<1>7. Setup!NotConfigured(setupEnv')  => Setup!NotConfigured(setupEnv)'
  BY DEF Setup!NotConfigured
<1> QED
  BY <1>2, <1>3, <1>4, <1>5, <1>6, <1>7 DEF SetupInv, SetupTypes

\* A start, without a wizard: what it loads is the file.
LEMMA LoadStep ==
  ASSUME SetupInv, state = "down", setupEnv' = Setup!Over(setupEnv, file), Setup!Loads(setupEnv'), fresh' = written,
         UNCHANGED <<file, at, existing, answers, written, runs>>
  PROVE  SetupInv'
<1>1. file \in Setup!EnvFile /\ setupEnv = Setup!Empty
  BY DEF SetupInv, SetupTypes
<1>2. setupEnv' = file /\ setupEnv' \in Setup!EnvFile
  BY <1>1, OverEmpty
<1>3. written => \A r \in Setup!WizardRoles : Setup!Resolves(file, r)
  <2>1. SUFFICES ASSUME written PROVE \A r \in Setup!WizardRoles : Setup!Resolves(file, r)
    OBVIOUS
  <2>2. file = WrittenFile /\ existing \in Setup!EnvFile /\ \A r \in Setup!WizardRoles : Complete(answers[r])
    BY <2>1 DEF SetupInv, SetupTypes
  <2>3. Setup!NotConfigured(Setup!Empty)
    BY DEF Setup!NotConfigured, Setup!Empty, Setup!NoRole, Setup!Fields
  <2>4. \A r \in Setup!WizardRoles : Setup!Resolves(Setup!Over(Setup!Empty, WrittenFile), r)
    BY <2>2, <2>3, EmptyTyped, WrittenResolves
  <2> QED
    BY <1>1, <2>2, <2>4, OverEmpty
<1>4. CASE \A r \in Setup!WizardRoles : Setup!Resolves(file, r)
  <2>1. state' = "up" /\ used' = [r \in Setup!WizardRoles |-> Setup!Resolved(file, r)]
    BY <1>2, <1>4 DEF Setup!Loads
  <2>2. used' \in [Setup!WizardRoles -> Setup!Used] /\ \A r \in Setup!WizardRoles : used'[r] = Setup!Resolved(file, r)
    BY <1>1, <1>4, <2>1, ResolvedTyped
  <2>3. (Setup!Resolved(file, "MASTER"))' = Setup!Resolved(file, "MASTER") /\ (Setup!Resolved(file, "SUBAGENT"))' = Setup!Resolved(file, "SUBAGENT")
    BY DEF Setup!Resolved
  <2>4. \A r \in Setup!WizardRoles : used'[r] = (Setup!Resolved(file, r))'
    BY <2>2, <2>3 DEF Setup!WizardRoles
  <2>5. WrittenFile' = WrittenFile
    BY DEF WrittenFile, Setup!WrittenKey
  <2>6. SetupTypes'
    BY <1>2, <2>1, <2>2 DEF SetupInv, SetupTypes
  <2> QED
    BY <2>1, <2>4, <2>5, <2>6 DEF SetupInv, Setup!Asking
<1>5. CASE ~\A r \in Setup!WizardRoles : Setup!Resolves(file, r)
  <2>1. state' = "failed" /\ used' = <<>> /\ ~written
    BY <1>2, <1>3, <1>5 DEF Setup!Loads
  <2> QED
    BY <1>2, <2>1 DEF SetupInv, SetupTypes, Setup!Asking
<1> QED
  BY <1>4, <1>5

\* A prompt is answered.
LEMMA AnswerStep ==
  ASSUME SetupInv, Setup!Asking, NEW r \in Setup!WizardRoles, at[1] = r, NEW b \in Setup!Answer, NEW next,
         answers' = [answers EXCEPT ![r] = b], at' = next,
         \/ \E n \in {"url", "key", "model"} : next = <<r, n>> /\ Given(b, n)
         \/ next = Setup!After(r) /\ Complete(b),
         UNCHANGED <<file, setupEnv, state, existing, used, written, fresh, runs>>
  PROVE  SetupInv'
<1>1. answers \in [Setup!WizardRoles -> Setup!Answer] /\ Progress /\ ~written
  BY DEF SetupInv, SetupTypes
<1>2. answers' \in [Setup!WizardRoles -> Setup!Answer] /\ answers'[r] = b /\ \A q \in Setup!WizardRoles \ {r} : answers'[q] = answers[q]
  BY <1>1
<1>3. Setup!Asking'
  BY DEF Setup!Asking
<1>4. at' \in Setup!Prompts /\ Progress'
  <2>1. CASE \E n \in {"url", "key", "model"} : next = <<r, n>> /\ Given(b, n)
    <3>1. PICK n \in {"url", "key", "model"} : next = <<r, n>> /\ Given(b, n)
      BY <2>1
    <3>2. at' \in Setup!Prompts /\ at'[1] = r /\ at'[2] = n
      BY <3>1 DEF Setup!Prompts
    <3> QED
      BY <1>1, <1>2, <3>1, <3>2 DEF Progress, Setup!WizardRoles
  <2>2. CASE next = Setup!After(r) /\ Complete(b) /\ r = "MASTER"
    <3>1. at' = <<"SUBAGENT", "provider">>
      BY <2>2 DEF Setup!After
    <3>2. at' \in Setup!Prompts /\ at'[1] = "SUBAGENT" /\ at'[2] = "provider"
      BY <3>1 DEF Setup!Prompts, Setup!WizardRoles
    <3>3. answers'["MASTER"] = b /\ answers'["SUBAGENT"] = Setup!NoAnswer
      BY <1>1, <1>2, <2>2 DEF Progress, Setup!WizardRoles
    <3> QED
      BY <2>2, <3>2, <3>3, EmptyTyped DEF Progress, Given
  <2>3. CASE next = Setup!After(r) /\ Complete(b) /\ r = "SUBAGENT"
    <3>1. at' = <<"both", "write">>
      BY <2>3 DEF Setup!After
    <3>2. at' \in Setup!Prompts /\ at'[1] = "both"
      BY <3>1 DEF Setup!Prompts
    <3>3. answers'["SUBAGENT"] = b /\ answers'["MASTER"] = answers["MASTER"] /\ Complete(answers["MASTER"])
      BY <1>1, <1>2, <2>3 DEF Progress, Setup!WizardRoles
    <3> QED
      BY <2>3, <3>2, <3>3 DEF Progress
  <2> QED
    BY <2>1, <2>2, <2>3 DEF Setup!WizardRoles
<1> QED
  BY <1>1, <1>2, <1>3, <1>4 DEF SetupInv, SetupTypes, Setup!NotConfigured, Setup!Asking

\* What an answered prompt leaves of a role's answer.
LEMMA FieldSet ==
  ASSUME NEW a \in Setup!Answer, NEW v
  PROVE  /\ v \in Setup!Providers =>
              LET b == [a EXCEPT !["provider"] = v]
              IN b \in Setup!Answer /\ b.provider = v /\ b.model = a.model /\ b.url = a.url /\ b.roleKey = a.roleKey /\ b.providerKey = a.providerKey
         /\ v \in ModelNames =>
              LET b == [a EXCEPT !["model"] = v]
              IN b \in Setup!Answer /\ b.provider = a.provider /\ b.model = v /\ b.url = a.url /\ b.roleKey = a.roleKey /\ b.providerKey = a.providerKey
         /\ v \in URLs =>
              LET b == [a EXCEPT !["url"] = v]
              IN b \in Setup!Answer /\ b.provider = a.provider /\ b.model = a.model /\ b.url = v /\ b.roleKey = a.roleKey /\ b.providerKey = a.providerKey
         /\ v \in Keys \cup {""} =>
              LET b == [a EXCEPT !["roleKey"] = v]
              IN b \in Setup!Answer /\ b.provider = a.provider /\ b.model = a.model /\ b.url = a.url /\ b.roleKey = v /\ b.providerKey = a.providerKey
         /\ v \in Keys \cup {""} =>
              LET b == [a EXCEPT !["providerKey"] = v]
              IN b \in Setup!Answer /\ b.provider = a.provider /\ b.model = a.model /\ b.url = a.url /\ b.roleKey = a.roleKey /\ b.providerKey = v
<1>1. a = [provider |-> a.provider, model |-> a.model, url |-> a.url, roleKey |-> a.roleKey, providerKey |-> a.providerKey]
  BY DEF Setup!Answer
<1> QED
  BY <1>1 DEF Setup!Answer

\* The five prompts.
LEMMA AnswerPromptStep ==
  ASSUME SetupInv, NEW r \in Setup!WizardRoles,
         \/ \E p \in Setup!Providers : Setup!PickProvider(r, p)
         \/ \E u \in URLs : Setup!GiveURL(r, u)
         \/ \E k \in Keys \cup {""} : Setup!EnterKey(r, k) \/ Setup!EnterRoleKey(r, k)
         \/ \E m \in ModelNames : Setup!PickModel(r, m)
  PROVE  SetupInv'
<1> DEFINE a == answers[r]
<1>1. a \in Setup!Answer /\ answers \in [Setup!WizardRoles -> Setup!Answer] /\ (Setup!Asking => Progress) /\ existing \in Setup!EnvFile
  BY DEF SetupInv, SetupTypes
<1>2. ASSUME NEW n, Setup!Of(r, n) PROVE Setup!Asking /\ at[1] = r /\ (Given(a, n) \/ n \notin {"provider", "url", "key", "model"})
  BY <1>1, <1>2 DEF Setup!Of, Progress, Setup!WizardRoles
<1> HIDE DEF a
<1>3. ASSUME NEW f, NEW v, NEW n, Setup!Asking, at[1] = r, Setup!Answers(r, f, v, n),
             NEW b \in Setup!Answer, b = [a EXCEPT ![f] = v],
             \/ \E q \in {"url", "key", "model"} : n = <<r, q>> /\ Given(b, q)
             \/ n = Setup!After(r) /\ Complete(b)
      PROVE  SetupInv'
  <2>1. /\ answers' = [answers EXCEPT ![r] = b] /\ at' = n
        /\ UNCHANGED <<file, setupEnv, state, existing, used, written, fresh, runs>>
    BY <1>1, <1>3 DEF Setup!Answers, a
  <2> QED
    BY <1>3, <2>1, AnswerStep
<1>4. ASSUME NEW p \in Setup!Providers, Setup!PickProvider(r, p) PROVE SetupInv'
  <2> DEFINE b == [a EXCEPT !["provider"] = p]
             n == <<r, CASE p = "custom" -> "url" [] p \in Keyed -> "key" [] p \in Local -> "model">>
  <2>1. Setup!Asking /\ at[1] = r /\ a = Setup!NoAnswer
    BY <1>2, <1>4 DEF Setup!PickProvider, Given
  <2>2. Setup!Answers(r, "provider", p, n)
    BY <1>4 DEF Setup!PickProvider
  <2>3. b \in Setup!Answer /\ b.provider = p /\ b.url = "" /\ b.roleKey = "" /\ b.providerKey = ""
    BY <1>1, <2>1, FieldSet DEF Setup!NoAnswer
  <2>4. \E q \in {"url", "key", "model"} : n = <<r, q>> /\ Given(b, q)
    <3> HIDE DEF b
    <3>1. CASE p = "custom"
      <4>1. n = <<r, "url">>
        BY <3>1, SetupBounds DEF Setup!SetupConstants
      <4>2. Given(b, "url")
        BY <2>3, <3>1 DEF Given
      <4> QED
        BY <4>1, <4>2
    <3>2. CASE p \in Keyed
      <4>1. p # "custom" /\ n = <<r, "key">>
        BY <3>2, SetupBounds DEF Setup!SetupConstants
      <4>2. Given(b, "key")
        BY <2>3, <3>2 DEF Given
      <4> QED
        BY <4>1, <4>2
    <3>3. CASE p \in Local
      <4>1. p # "custom" /\ p \notin Keyed /\ n = <<r, "model">>
        BY <3>3, SetupBounds DEF Setup!SetupConstants
      <4>2. Given(b, "model")
        BY <2>3, <3>3 DEF Given, Asked
      <4> QED
        BY <4>1, <4>2
    <3> QED
      BY <3>1, <3>2, <3>3 DEF Setup!Providers
  <2>5. b = [a EXCEPT !["provider"] = p] /\ b \in Setup!Answer
    BY <2>3
  <2>6. \/ \E q \in {"url", "key", "model"} : n = <<r, q>> /\ Given(b, q)
        \/ n = Setup!After(r) /\ Complete(b)
    BY <2>4
  <2> HIDE DEF n, b
  <2> QED
    BY <2>1, <2>2, <2>5, <2>6, <1>3
<1>5. ASSUME NEW u \in URLs, Setup!GiveURL(r, u) PROVE SetupInv'
  <2> DEFINE b == [a EXCEPT !["url"] = u]
  <2>1. Setup!Asking /\ at[1] = r /\ Given(a, "url") /\ Setup!Answers(r, "url", u, <<r, "key">>)
    BY <1>2, <1>5 DEF Setup!GiveURL
  <2>2. b \in Setup!Answer /\ b.provider = "custom" /\ b.url = u /\ b.roleKey = "" /\ b.providerKey = ""
    BY <1>1, <2>1, FieldSet DEF Given
  <2>3. Given(b, "key")
    <3> HIDE DEF b
    <3> QED
      BY <2>2 DEF Given
  <2>7. b = [a EXCEPT !["url"] = u] /\ \E q \in {"url", "key", "model"} : <<r, "key">> = <<r, q>> /\ Given(b, q)
    <3> HIDE DEF b
    <3> DEFINE q == "key"
    <3>1. <<r, "key">> = <<r, q>> /\ q \in {"url", "key", "model"} /\ Given(b, q)
      BY <2>3
    <3>2. b = [a EXCEPT !["url"] = u]
      BY DEF b
    <3> HIDE DEF q
    <3> QED
      BY <3>1, <3>2
  <2> HIDE DEF b
  <2> QED
    BY <2>1, <2>2, <2>3, <2>7, <1>3
<1>6. ASSUME NEW k \in Keys \cup {""}, Setup!EnterKey(r, k) PROVE SetupInv'
  <2> DEFINE v == Setup!FirstOf(k, Setup!KeptKey(r))
             b == [a EXCEPT !["providerKey"] = v]
  <2>1. Setup!Asking /\ at[1] = r /\ Given(a, "key") /\ Setup!Answers(r, "providerKey", v, <<r, "model">>) /\ a.provider \in Keyed /\ v # ""
    BY <1>2, <1>6 DEF Setup!EnterKey, a
  <2>2. v \in Keys \cup {""}
    <3>1. existing.keys[a.provider] \in Keys \cup {""} /\ existing.role[r] \in Setup!Role
      BY <1>1, <2>1, FileParts
    <3>2. existing.role[r].key \in Keys \cup {""}
      BY <3>1 DEF Setup!Role
    <3> QED
      BY <3>1, <3>2 DEF Setup!FirstOf, Setup!KeptKey, a
  <2>3. a.url = "" /\ a.roleKey = ""
    <3>1. a.provider # "custom"
      BY <2>1, SetupBounds DEF Setup!SetupConstants
    <3>2. Given(a, "key")
      BY <2>1
    <3>3. (a.provider \in Keyed /\ a.url = "" /\ a.roleKey = "") \/ a.provider = "custom"
      BY <3>2 DEF Given
    <3> QED
      BY <3>1, <3>3
  <2> HIDE DEF v
  <2>4. b \in Setup!Answer /\ b.provider = a.provider /\ b.url = "" /\ b.roleKey = "" /\ b.providerKey = v
    <3>1. b \in Setup!Answer /\ b.provider = a.provider /\ b.url = a.url /\ b.roleKey = a.roleKey /\ b.providerKey = v
      BY <1>1, <2>2, FieldSet
    <3> HIDE DEF b
    <3> QED
      BY <2>3, <3>1
  <2>5. v \in Keys /\ a.provider \in Setup!Providers
    BY <2>1, <2>2 DEF Setup!Providers
  <2>6. Given(b, "model")
    <3> HIDE DEF b
    <3> QED
      BY <2>1, <2>4, <2>5 DEF Given, Asked
  <2>7. b = [a EXCEPT !["providerKey"] = v] /\ \E q \in {"url", "key", "model"} : <<r, "model">> = <<r, q>> /\ Given(b, q)
    <3> HIDE DEF b
    <3> DEFINE q == "model"
    <3>1. <<r, "model">> = <<r, q>> /\ q \in {"url", "key", "model"} /\ Given(b, q)
      BY <2>6
    <3>2. b = [a EXCEPT !["providerKey"] = v]
      BY DEF b
    <3> HIDE DEF q
    <3> QED
      BY <3>1, <3>2
  <2> HIDE DEF b
  <2> QED
    BY <2>1, <2>4, <2>6, <2>7, <1>3
<1>7. ASSUME NEW k \in Keys \cup {""}, Setup!EnterRoleKey(r, k) PROVE SetupInv'
  <2> DEFINE b == [a EXCEPT !["roleKey"] = k]
  <2>1. Setup!Asking /\ at[1] = r /\ Given(a, "key") /\ Setup!Answers(r, "roleKey", k, <<r, "model">>) /\ a.provider = "custom"
    BY <1>2, <1>7 DEF Setup!EnterRoleKey, a
  <2>2. a.url \in URLs /\ a.providerKey = ""
    BY <2>1, SetupBounds DEF Given, Setup!SetupConstants
  <2>3. b \in Setup!Answer /\ b.provider = "custom" /\ b.url \in URLs /\ b.providerKey = ""
    BY <1>1, <2>1, <2>2, FieldSet
  <2>4. Given(b, "model")
    <3> HIDE DEF b
    <3> QED
      BY <2>3 DEF Given, Asked, Setup!Providers
  <2>7. b = [a EXCEPT !["roleKey"] = k] /\ \E q \in {"url", "key", "model"} : <<r, "model">> = <<r, q>> /\ Given(b, q)
    <3> HIDE DEF b
    <3> DEFINE q == "model"
    <3>1. <<r, "model">> = <<r, q>> /\ q \in {"url", "key", "model"} /\ Given(b, q)
      BY <2>4
    <3>2. b = [a EXCEPT !["roleKey"] = k]
      BY DEF b
    <3> HIDE DEF q
    <3> QED
      BY <3>1, <3>2
  <2> HIDE DEF b
  <2> QED
    BY <2>1, <2>3, <2>4, <2>7, <1>3
<1>8. ASSUME NEW m \in ModelNames, Setup!PickModel(r, m) PROVE SetupInv'
  <2> DEFINE b == [a EXCEPT !["model"] = m]
  <2>1. Setup!Asking /\ at[1] = r /\ Given(a, "model") /\ Setup!Answers(r, "model", m, Setup!After(r))
    BY <1>2, <1>8 DEF Setup!PickModel
  <2>2. b \in Setup!Answer /\ b.provider = a.provider /\ b.model = m /\ b.url = a.url /\ b.roleKey = a.roleKey /\ b.providerKey = a.providerKey
    BY <1>1, FieldSet
  <2>3. Complete(b)
    <3> HIDE DEF b
    <3> QED
      BY <2>1, <2>2 DEF Given, Asked, Complete
  <2>4. b = [a EXCEPT !["model"] = m]
    OBVIOUS
  <2> HIDE DEF b
  <2> QED
    BY <2>1, <2>2, <2>3, <2>4, <1>3
<1> QED
  BY <1>4, <1>5, <1>6, <1>7, <1>8

\* The wizard's file, and what a first run makes of it.
LEMMA WriteStep == ASSUME SetupInv, Setup!Write PROVE SetupInv'
<1>1. /\ Setup!Asking /\ at = <<"both", "write">> /\ file' = WrittenFile /\ written' = TRUE
      /\ UNCHANGED <<at, existing, answers, fresh, runs>>
  BY DEF Setup!Write, Setup!Of, WrittenFile
<1>2. at[1] = "both"
  BY <1>1
<1>3. \A r \in Setup!WizardRoles : Complete(answers[r])
  BY <1>1, <1>2 DEF SetupInv, Progress, Setup!WizardRoles
<1>4. existing \in Setup!EnvFile /\ setupEnv \in Setup!EnvFile /\ ~fresh
  BY <1>1 DEF SetupInv, SetupTypes, Setup!Asking
<1>5. /\ WrittenFile \in Setup!EnvFile
      /\ \A e \in Setup!EnvFile : Setup!NotConfigured(e) => \A r \in Setup!WizardRoles : Setup!Resolves(Setup!Over(e, WrittenFile), r)
  BY <1>3, <1>4, WrittenResolves
<1>6. WrittenFile' = WrittenFile
  BY <1>1 DEF WrittenFile, Setup!WrittenKey
<1>7. CASE state = "init"
  <2>1. state' = "down" /\ setupEnv' = setupEnv /\ used' = used
    BY <1>7 DEF Setup!Write
  <2> QED
    BY <1>1, <1>3, <1>4, <1>5, <1>6, <1>7, <2>1 DEF SetupInv, SetupTypes, Setup!Asking
<1>8. CASE state # "init"
  <2>1. state = "first run" /\ setupEnv' = Setup!Over(setupEnv, file') /\ Setup!Loads(setupEnv')
    BY <1>1, <1>8 DEF Setup!Write, Setup!Asking
  <2>2. Setup!NotConfigured(setupEnv)
    BY <2>1 DEF SetupInv
  <2>3. setupEnv' \in Setup!EnvFile /\ \A r \in Setup!WizardRoles : Setup!Resolves(setupEnv', r)
    BY <1>1, <1>4, <1>5, <2>1, <2>2, SetupOverTyped
  <2>4. state' = "up" /\ used' = [r \in Setup!WizardRoles |-> Setup!Resolved(setupEnv', r)]
    BY <2>1, <2>3 DEF Setup!Loads
  <2>5. used' \in [Setup!WizardRoles -> Setup!Used]
    BY <2>3, <2>4, ResolvedTyped
  <2> QED
    BY <1>1, <1>3, <1>4, <1>5, <1>6, <2>3, <2>4, <2>5 DEF SetupInv, SetupTypes, Setup!Asking
<1> QED
  BY <1>7, <1>8

\* The end of a wizard, or of a process.
LEMMA EndStep == ASSUME SetupInv, Setup!GiveUp \/ Setup!Exit PROVE SetupInv'
<1>1. state' = "down" /\ setupEnv' = Setup!Empty /\ UNCHANGED <<file, at, existing, answers, written, runs>>
  BY DEF Setup!GiveUp, Setup!Exit
<1>2. (used' = <<>> /\ ~fresh') \/ (used' = used /\ fresh' = fresh /\ Setup!Asking)
  BY DEF Setup!GiveUp, Setup!Exit
<1>3. Setup!Asking => ~fresh
  BY DEF SetupInv, Setup!Asking
<1>4. WrittenFile' = WrittenFile
  BY <1>1 DEF WrittenFile, Setup!WrittenKey
<1>5. fresh' \in BOOLEAN
  BY DEF SetupInv, SetupTypes, Setup!GiveUp, Setup!Exit
<1>6. SetupTypes'
  BY <1>1, <1>2, <1>5, EmptyTyped DEF SetupInv, SetupTypes
<1>7. ~fresh'
  BY <1>2, <1>3
<1> QED
  BY <1>1, <1>4, <1>6, <1>7 DEF SetupInv, Setup!Asking

\* Every step of the setup keeps the invariant.
LEMMA SetupStep == ASSUME SetupInv, [Setup!Next]_Setup!vars PROVE SetupInv'
<1>1. file \in Setup!EnvFile /\ (state = "down" => setupEnv = Setup!Empty /\ setupEnv \in Setup!EnvFile)
  BY EmptyTyped DEF SetupInv, SetupTypes
<1>2. CASE Setup!RunInit
  <2>1. state = "down" /\ Setup!Opens("init") /\ setupEnv' = setupEnv
    BY <1>2 DEF Setup!RunInit
  <2> QED
    BY <1>1, <2>1, OpenStep
<1>3. CASE Setup!Run
  <2>1. state = "down" /\ setupEnv' = Setup!Over(setupEnv, file) /\ setupEnv' \in Setup!EnvFile
    BY <1>1, <1>3, SetupOverTyped DEF Setup!Run
  <2>2. CASE Setup!NotConfigured(setupEnv') /\ Setup!Opens("first run")
    BY <2>1, <2>2, OpenStep
  <2>3. CASE Setup!Loads(setupEnv') /\ fresh' = written /\ UNCHANGED <<file, at, existing, answers, written, runs>>
    BY <2>1, <2>3, LoadStep
  <2> QED
    BY <1>3, <2>2, <2>3 DEF Setup!Run
<1>4. CASE UNCHANGED Setup!vars
  <2>1. WrittenFile' = WrittenFile /\ Progress' = Progress
    BY <1>4 DEF Setup!vars, WrittenFile, Setup!WrittenKey, Progress
  <2>2. \A r \in Setup!WizardRoles : Setup!Resolved(file, r)' = Setup!Resolved(file, r)
    BY <1>4 DEF Setup!vars
  <2> QED
    BY <1>4, <2>1, <2>2 DEF Setup!vars, SetupInv, SetupTypes, Setup!Asking, Setup!NotConfigured
<1> QED
  BY <1>2, <1>3, <1>4, AnswerPromptStep, WriteStep, EndStep DEF Setup!Next

\* A start after the wizard runs on what the user answered.
LEMMA SetupTold == ASSUME SetupInv PROVE Setup!TypeOK /\ Setup!AnswersAreUsed
<1>1. Setup!TypeOK
  BY DEF SetupInv, SetupTypes, Setup!TypeOK
<1>2. written => state # "failed"
  BY DEF SetupInv
<1>3. ASSUME state = "up", fresh, NEW r \in Setup!WizardRoles
      PROVE  /\ used[r].provider = answers[r].provider /\ used[r].model = answers[r].model
             /\ used[r].url = Setup!FirstOf(answers[r].url, Setup!Preset(answers[r].provider))
             /\ IF used[r].provider \in Keyed
                  THEN used[r].key \in Setup!GivenKeys(used[r].provider)
                  ELSE used[r].key = answers[r].roleKey
  <2>1. /\ file = WrittenFile /\ existing \in Setup!EnvFile /\ \A q \in Setup!WizardRoles : Complete(answers[q])
        /\ used[r] = Setup!Resolved(file, r)
    BY <1>3 DEF SetupInv, SetupTypes
  <2> QED
    BY <2>1, WrittenUsed
<1> QED
  BY <1>1, <1>2, <1>3 DEF Setup!AnswersAreUsed

-----------------------------------------------------------------------------
(* Chain. *)

\* What Chain asks of its constants.
LEMMA ChainBounds == Chain!ChainConstants
BY MCRequestsConstants

Asking == (1..Entries) \X Chain!Models \X BOOLEAN
Distinct(s) == \A i, j \in DOMAIN s : s[i] = s[j] => i = j

\* Of the entry that the chain is at, only models up to the position were asked, and none of an
\* entry behind it.
AskedSoFar ==
  /\ \A a \in DOMAIN asked : asked[a][1] <= chainEntry
  /\ chainPhase = "entry" => \A a \in DOMAIN asked : asked[a][1] < chainEntry
  /\ chainPhase \in {"peek", "capped"} =>
       /\ pos \in DOMAIN models /\ Distinct(models)
       /\ \A a \in DOMAIN asked : asked[a][1] = chainEntry => \E k \in 1..pos : asked[a][2] = models[k]
  /\ chainPhase = "peek" => \A a \in DOMAIN asked : asked[a] # <<chainEntry, models[pos], TRUE>>

ChainTypes ==
  /\ chainPhase \in {"entry", "peek", "capped", "stream", "over"}
  /\ chainEntry \in 1..Entries /\ models \in Seq(Chain!Models) /\ fetched \in BOOLEAN /\ canceled \in BOOLEAN
  /\ fits \in [1..Entries -> BOOLEAN] /\ asked \in Seq(Asking) /\ pos \in 0..Len(models)
  /\ outcome \in Chain!Classes \cup {"none", "content", "done", "closed", "broken", "idle"}

ChainInv == ChainTypes /\ Distinct(asked) /\ AskedSoFar /\ Chain!TriesEachOnce

\* Finite sets and their sizes are the library's.
LEMMA ChainSizes == \A S : Chain!IsFiniteSet(S) = IsFiniteSet(S) /\ Chain!Cardinality(S) = Cardinality(S)
BY DEF Chain!IsFiniteSet, IsFiniteSet, Chain!Cardinality, Cardinality

\* A finite set as a sequence has each of its elements once.
LEMMA SeqOfSet ==
  ASSUME NEW S, IsFiniteSet(S)
  PROVE  /\ Chain!SetToSeq(S) \in Seq(S) /\ Distinct(Chain!SetToSeq(S))
<1> DEFINE n == Cardinality(S)
<1>1. n \in Nat /\ ExistsBijection(1..n, S)
  BY FS_CardinalityType
<1> HIDE DEF n
<1>2. PICK f \in [1..n -> S] : Chain!IsInjective(f)
  BY <1>1 DEF ExistsBijection, Bijection, Injection, IsInjective, Chain!IsInjective
<1>3. Chain!SetToSeq(S) \in [1..n -> S] /\ Chain!IsInjective(Chain!SetToSeq(S))
  <2>1. Chain!SetToSeq(S) = CHOOSE g \in [1..n -> S] : Chain!IsInjective(g)
    BY ChainSizes DEF Chain!SetToSeq, n
  <2> QED
    BY <1>2, <2>1
<1>4. Chain!SetToSeq(S) \in Seq(S)
  BY <1>1, <1>3
<1> QED
  BY <1>3, <1>4 DEF Chain!IsInjective, Distinct

\* What is asked next goes behind what was asked.
LEMMA AskType ==
  ASSUME asked \in Seq(Asking), NEW i \in 1..Entries, NEW m \in Chain!Models, NEW c \in BOOLEAN, Chain!Ask(i, m, c)
  PROVE  /\ asked' \in Seq(Asking) /\ DOMAIN asked' = DOMAIN asked \cup {Len(asked) + 1}
         /\ Len(asked) + 1 \notin DOMAIN asked
         /\ \A a \in DOMAIN asked : asked'[a] = asked[a]
         /\ asked'[Len(asked) + 1] = <<i, m, c>>
         /\ \A a \in DOMAIN asked' : \/ a \in DOMAIN asked /\ asked'[a] = asked[a]
                                     \/ asked'[a][1] = i /\ asked'[a][2] = m /\ asked'[a][3] = c
<1>1. <<i, m, c>> \in Asking
  BY DEF Asking
<1>2. asked' = Append(asked, <<i, m, c>>)
  BY DEF Chain!Ask
<1> DEFINE x == <<i, m, c>>
<1> HIDE DEF x
<1>3. x \in Asking /\ asked' = Append(asked, x)
  BY <1>1, <1>2 DEF x
<1>4. /\ asked' \in Seq(Asking) /\ Len(asked') = Len(asked) + 1 /\ Len(asked) \in Nat
      /\ \A a \in 1..Len(asked) : asked'[a] = asked[a] /\ asked'[Len(asked) + 1] = x
      /\ asked'[Len(asked) + 1] = x
  BY <1>3, AppendProperties
<1>5. DOMAIN asked = 1..Len(asked) /\ DOMAIN asked' = 1..Len(asked) + 1
  BY <1>4
<1>6. asked'[Len(asked) + 1] = <<i, m, c>>
  BY <1>4 DEF x
<1>7. x[1] = i /\ x[2] = m /\ x[3] = c
  BY DEF x
<1>8. \A a \in DOMAIN asked' : \/ a \in DOMAIN asked /\ asked'[a] = asked[a]
                               \/ a = Len(asked) + 1
  BY <1>4, <1>5
<1> QED
  BY <1>4, <1>5, <1>6, <1>7, <1>8

\* The entry of what was asked is one.
LEMMA AskedEntry == ASSUME asked \in Seq(Asking) PROVE \A a \in DOMAIN asked : asked[a][1] \in 1..Entries
<1> SUFFICES ASSUME NEW a \in DOMAIN asked PROVE asked[a][1] \in 1..Entries
  OBVIOUS
<1>1. asked[a] \in Asking
  OBVIOUS
<1> QED
  BY <1>1 DEF Asking

\* What was asked, once the entry is asked once more.
LEMMA AskedEntryNext == ASSUME asked' \in Seq(Asking) PROVE \A a \in DOMAIN asked' : asked'[a][1] \in Int
<1> SUFFICES ASSUME NEW a \in DOMAIN asked' PROVE asked'[a][1] \in Int
  OBVIOUS
<1>1. asked'[a] \in Asking
  OBVIOUS
<1> QED
  BY <1>1 DEF Asking

\* What was not asked yet is asked once.
LEMMA AskOnce ==
  ASSUME asked \in Seq(Asking), NEW x \in Asking, asked' = Append(asked, x),
         Distinct(asked), \A a \in DOMAIN asked : asked[a] # x
  PROVE  Distinct(asked')
<1>1. /\ asked' \in Seq(Asking) /\ Len(asked') = Len(asked) + 1 /\ Len(asked) \in Nat
      /\ \A a \in 1..Len(asked) : asked'[a] = asked[a]
      /\ asked'[Len(asked) + 1] = x
  BY AppendProperties
<1>2. DOMAIN asked = 1..Len(asked) /\ DOMAIN asked' = 1..Len(asked) + 1
  BY <1>1
<1>3. \A a \in DOMAIN asked' : (a \in DOMAIN asked /\ asked'[a] = asked[a]) \/ a = Len(asked) + 1
  BY <1>1, <1>2
<1> QED
  BY <1>1, <1>2, <1>3 DEF Distinct

\* The chain begins.
LEMMA InitChain == ASSUME Chain!Init PROVE ChainInv
<1>1. Entries \in Nat /\ Entries # 0 /\ 1 \in 1..Entries
  BY ChainBounds DEF Chain!ChainConstants
<1>2. <<>> \in Seq(Chain!Models) /\ <<>> \in Seq(Asking) /\ Len(<<>>) = 0 /\ DOMAIN asked = {}
  BY DEF Chain!Init
<1>3. ChainTypes
  <2>1. /\ chainPhase = (IF Entries = 1 THEN "stream" ELSE "entry") /\ chainEntry = 1 /\ models = <<>> /\ pos = 0
        /\ fetched = FALSE /\ canceled = FALSE /\ asked = <<>> /\ outcome = "none" /\ fits \in [1..Entries -> BOOLEAN]
    BY DEF Chain!Init
  <2>2. pos \in 0..Len(models)
    BY <1>2, <2>1
  <2> QED
    BY <1>1, <1>2, <2>1, <2>2 DEF ChainTypes
<1>4. chainPhase \in {"stream", "entry"} /\ asked = <<>>
  BY DEF Chain!Init
<1> QED
  BY <1>2, <1>3, <1>4 DEF ChainInv, Distinct, AskedSoFar, Chain!TriesEachOnce

\* What stays asked stays asked once.
LEMMA OncePart == ChainInv => \A a, b \in DOMAIN asked : a # b => asked[a] # asked[b]
BY DEF ChainInv, Distinct

\* The chain comes to an entry.
LEMMA EnterStep == ASSUME ChainInv, Chain!SkipEntry \/ Chain!EnterEntry PROVE ChainInv'
<1>1. /\ Entries \in Nat \ {0} /\ Configured \in Nat \ {0} /\ Live \in Nat /\ 1 \in Chain!Models
  BY ChainBounds DEF Chain!ChainConstants, Chain!Models
<1>2. CASE Chain!SkipEntry
  <2>1. /\ chainPhase = "entry" /\ chainEntry < Entries /\ chainEntry' = chainEntry + 1
        /\ UNCHANGED <<chainPhase, models, pos, fetched, fits, canceled, asked, outcome>>
    BY <1>2 DEF Chain!SkipEntry
  <2>2. chainEntry \in 1..Entries /\ asked \in Seq(Asking) /\ \A a \in DOMAIN asked : asked[a][1] < chainEntry
    BY <2>1 DEF ChainInv, ChainTypes, AskedSoFar
  <2>3. \A a \in DOMAIN asked : asked[a][1] \in 1..Entries
    BY <2>2, AskedEntry
  <2>4. \A a \in DOMAIN asked : asked[a][1] < chainEntry + 1 /\ asked[a][1] <= chainEntry + 1
    BY <2>2, <2>3
  <2>5. chainEntry + 1 \in 1..Entries
    BY <1>1, <2>1, <2>2
  <2> QED
    BY <2>1, <2>4, <2>5 DEF ChainInv, ChainTypes, Distinct, AskedSoFar, Chain!TriesEachOnce
<1>3. CASE Chain!EnterEntry
  <2> DEFINE s == [m \in 1..Configured |-> m]
  <2>1. s \in Seq(Chain!Models) /\ Len(s) = Configured /\ DOMAIN s = 1..Configured /\ Distinct(s) /\ 1 \in DOMAIN s /\ s[1] = 1
    BY <1>1 DEF Chain!Models, Distinct
  <2>2. models' = s /\ pos' = 1 /\ chainPhase' = "peek" /\ chainEntry' = chainEntry /\ chainPhase = "entry" /\ fetched' = FALSE
        /\ UNCHANGED <<fits, canceled, outcome>> /\ Chain!Ask(chainEntry, 1, FALSE)
    BY <1>3 DEF Chain!EnterEntry
  <2> HIDE DEF s
  <2>3. chainEntry \in 1..Entries /\ asked \in Seq(Asking)
    BY DEF ChainInv, ChainTypes
  <2>4. /\ asked' \in Seq(Asking) /\ DOMAIN asked' = DOMAIN asked \cup {Len(asked) + 1}
        /\ \A a \in DOMAIN asked : asked'[a] = asked[a]
        /\ asked'[Len(asked) + 1] = <<chainEntry, 1, FALSE>>
        /\ \A a \in DOMAIN asked' : \/ a \in DOMAIN asked /\ asked'[a] = asked[a]
                                    \/ asked'[a][1] = chainEntry /\ asked'[a][2] = 1 /\ asked'[a][3] = FALSE
    BY <1>1, <2>2, <2>3, AskType
  <2>5. \A a \in DOMAIN asked : asked[a][1] < chainEntry
    BY <2>2 DEF ChainInv, AskedSoFar
  <2>6. Distinct(asked')
    <3>1. \A a \in DOMAIN asked : asked[a] # <<chainEntry, 1, FALSE>>
      <4> SUFFICES ASSUME NEW a \in DOMAIN asked, asked[a] = <<chainEntry, 1, FALSE>> PROVE FALSE
        OBVIOUS
      <4>1. asked[a][1] = chainEntry
        OBVIOUS
      <4> QED
        BY <2>3, <2>5, <4>1
    <3> QED
      BY <1>1, <2>2, <2>3, <3>1, AskOnce DEF ChainInv, Chain!Ask, Asking
  <2>7. AskedSoFar'
    <3>1. \A a \in DOMAIN asked' : \/ asked'[a][1] < chainEntry
                                   \/ asked'[a][1] = chainEntry /\ asked'[a][2] = 1 /\ asked'[a][3] = FALSE
      BY <2>4, <2>5
    <3>0. \A a \in DOMAIN asked' : asked'[a][1] \in Int
      BY <2>4, AskedEntryNext
    <3>2. \A a \in DOMAIN asked' : asked'[a][1] <= chainEntry
      BY <2>3, <3>0, <3>1
    <3>3. \A a \in DOMAIN asked' : asked'[a][1] = chainEntry => asked'[a][2] = 1 /\ asked'[a][3] = FALSE
      BY <2>3, <3>0, <3>1
    <3>5. \A a \in DOMAIN asked' : asked'[a][1] = chainEntry => \E k \in 1..1 : asked'[a][2] = s[k]
      BY <2>1, <3>3
    <3>4. \A a \in DOMAIN asked' : asked'[a] # <<chainEntry, s[1], TRUE>>
      <4> SUFFICES ASSUME NEW a \in DOMAIN asked', asked'[a] = <<chainEntry, s[1], TRUE>> PROVE FALSE
        OBVIOUS
      <4>1. asked'[a][1] = chainEntry /\ asked'[a][3] = TRUE
        OBVIOUS
      <4> QED
        BY <3>3, <4>1
    <3> QED
      BY <2>1, <2>2, <3>2, <3>4, <3>5 DEF AskedSoFar
  <2>8. ChainTypes'
    <3>1. 1 \in 0..Len(s)
      BY <1>1, <2>1
    <3> QED
      BY <2>1, <2>2, <2>4, <3>1 DEF ChainInv, ChainTypes
  <2>9. Chain!TriesEachOnce'
    BY <2>2, <2>6 DEF Chain!TriesEachOnce, Distinct
  <2> QED
    BY <2>6, <2>7, <2>8, <2>9 DEF ChainInv
<1> QED
  BY <1>2, <1>3

\* The queue of models may get longer; it has no model twice.
LEMMA Extended ==
  ASSUME ChainInv, chainPhase = "peek"
  PROVE  /\ Chain!ExtendedModels \in Seq(Chain!Models) /\ Distinct(Chain!ExtendedModels)
         /\ Len(models) <= Len(Chain!ExtendedModels) /\ \A k \in DOMAIN models : Chain!ExtendedModels[k] = models[k]
<1>1. models \in Seq(Chain!Models) /\ Distinct(models) /\ Len(models) \in Nat /\ DOMAIN models = 1..Len(models)
  BY DEF ChainInv, ChainTypes, AskedSoFar
<1> DEFINE F == Chain!Models \ Chain!Range(models)
           t == Chain!SetToSeq(F)
<1>2. IsFiniteSet(F)
  <2>1. IsFiniteSet(Chain!Models)
    BY ChainBounds, FS_Interval DEF Chain!ChainConstants, Chain!Models
  <2> QED
    BY <2>1, FS_Subset
<1>3. t \in Seq(F) /\ Distinct(t)
  BY <1>2, SeqOfSet
<1>4. Chain!FreshModels = t
  BY DEF Chain!FreshModels
<1>5. \A k \in DOMAIN models : models[k] \notin F
  BY DEF Chain!Range
<1>6. F \subseteq Chain!Models
  OBVIOUS
<1> HIDE DEF F, t
<1>7. t \in Seq(Chain!Models) /\ Len(t) \in Nat /\ DOMAIN t = 1..Len(t) /\ \A k \in DOMAIN t : t[k] \in F
  BY <1>3, <1>6
<1> DEFINE u == models \o t
<1>8. /\ u \in Seq(Chain!Models) /\ Len(u) = Len(models) + Len(t)
      /\ \A i \in 1..Len(models) + Len(t) : u[i] = IF i <= Len(models) THEN models[i] ELSE t[i - Len(models)]
  BY <1>1, <1>7, ConcatProperties
<1>9. DOMAIN u = 1..Len(models) + Len(t)
  BY <1>8
<1> DEFINE p == Len(models)
           q == Len(t)
<1>10. p \in Nat /\ q \in Nat /\ DOMAIN models = 1..p /\ DOMAIN t = 1..q /\ DOMAIN u = 1..p + q
       /\ \A i \in 1..p + q : u[i] = IF i <= p THEN models[i] ELSE t[i - p]
  BY <1>1, <1>7, <1>8, <1>9
<1> HIDE DEF u, p, q
<1>11. Distinct(u)
  <2> SUFFICES ASSUME NEW i \in 1..p + q, NEW j \in 1..p + q, u[i] = u[j] PROVE i = j
    BY <1>10 DEF Distinct
  <2>1. CASE i <= p /\ j <= p
    <3>1. models[i] = models[j] /\ i \in 1..p /\ j \in 1..p
      BY <1>10, <2>1
    <3> QED
      BY <1>1, <1>10, <3>1 DEF Distinct
  <2>2. CASE i > p /\ j > p
    <3>1. t[i - p] = t[j - p] /\ i - p \in 1..q /\ j - p \in 1..q
      BY <1>10, <2>2
    <3>2. i - p = j - p
      BY <1>3, <1>10, <3>1 DEF Distinct
    <3> QED
      BY <1>10, <3>2
  <2>3. CASE i <= p /\ j > p
    <3>1. models[i] = t[j - p] /\ i \in 1..p /\ j - p \in 1..q
      BY <1>10, <2>3
    <3> QED
      BY <1>5, <1>7, <1>10, <3>1
  <2>4. CASE i > p /\ j <= p
    <3>1. models[j] = t[i - p] /\ j \in 1..p /\ i - p \in 1..q
      BY <1>10, <2>4
    <3> QED
      BY <1>5, <1>7, <1>10, <3>1
  <2> QED
    BY <1>10, <2>1, <2>2, <2>3, <2>4
<1>12. Len(models) <= Len(u) /\ \A k \in DOMAIN models : u[k] = models[k]
  <2>1. Len(u) = p + q /\ p = Len(models)
    BY <1>8 DEF p, q, u
  <2>2. \A k \in 1..p : u[k] = models[k]
    BY <1>10
  <2> QED
    BY <1>10, <2>1, <2>2
<1>13. Chain!ExtendedModels = models \/ Chain!ExtendedModels = u
  BY <1>4 DEF Chain!ExtendedModels, u
<1>14. u \in Seq(Chain!Models)
  BY <1>8 DEF u
<1> QED
  BY <1>1, <1>11, <1>12, <1>13, <1>14

\* The next model of the entry is asked.
LEMMA RotateStep == ASSUME ChainInv, chainPhase = "peek", Chain!Rotate, UNCHANGED <<fits, canceled>> PROVE ChainInv'
<1> DEFINE s == Chain!ExtendedModels
<1>1. /\ s \in Seq(Chain!Models) /\ Distinct(s) /\ Len(models) <= Len(s) /\ \A k \in DOMAIN models : s[k] = models[k]
  BY Extended
<1>2. /\ pos < Len(s) /\ models' = s /\ pos' = pos + 1 /\ chainPhase' = "peek" /\ chainEntry' = chainEntry /\ outcome' = outcome
      /\ Chain!Ask(chainEntry, models'[pos'], FALSE) /\ fetched' = (fetched \/ pos = Len(models))
  BY DEF Chain!Rotate
<1> HIDE DEF s
<1>3. /\ chainEntry \in 1..Entries /\ asked \in Seq(Asking) /\ pos \in 1..Len(models) /\ Len(models) \in Nat /\ Len(s) \in Nat
      /\ DOMAIN s = 1..Len(s) /\ DOMAIN models = 1..Len(models)
      /\ \A a \in DOMAIN asked : asked[a][1] = chainEntry => \E k \in 1..pos : asked[a][2] = models[k]
      /\ \A a \in DOMAIN asked : asked[a][1] <= chainEntry
  BY <1>1 DEF ChainInv, ChainTypes, AskedSoFar
<1>4. pos' \in DOMAIN s /\ s[pos'] \in Chain!Models
  BY <1>1, <1>2, <1>3
<1>5. \A a \in DOMAIN asked : asked[a][1] = chainEntry => \E k \in 1..pos : asked[a][2] = s[k]
  BY <1>1, <1>3
<1>6. \A k \in 1..pos : s[k] # s[pos']
  <2> SUFFICES ASSUME NEW k \in 1..pos PROVE s[k] # s[pos']
    OBVIOUS
  <2>0. pos \in Nat /\ pos + 1 \in 1..Len(s) /\ pos' = pos + 1
    <3>1. pos \in 1..Len(models) /\ Len(models) \in Nat /\ Len(s) \in Nat
      BY <1>3
    <3>2. pos < Len(s) /\ pos' = pos + 1
      BY <1>2
    <3> QED
      BY <3>1, <3>2
  <2>1. k \in DOMAIN s /\ k # pos'
    BY <1>3, <2>0
  <2> QED
    BY <1>1, <1>4, <2>1 DEF Distinct
<1>7. Chain!Ask(chainEntry, s[pos'], FALSE)
  BY <1>2
<1>8. /\ asked' \in Seq(Asking) /\ DOMAIN asked' = DOMAIN asked \cup {Len(asked) + 1}
      /\ \A a \in DOMAIN asked : asked'[a] = asked[a]
      /\ asked'[Len(asked) + 1] = <<chainEntry, s[pos'], FALSE>>
      /\ \A a \in DOMAIN asked' : \/ a \in DOMAIN asked /\ asked'[a] = asked[a]
                                  \/ asked'[a][1] = chainEntry /\ asked'[a][2] = s[pos'] /\ asked'[a][3] = FALSE
  BY <1>3, <1>4, <1>7, AskType
<1>9. Distinct(asked')
  <2>1. \A a \in DOMAIN asked : asked[a] # <<chainEntry, s[pos'], FALSE>>
    <3> SUFFICES ASSUME NEW a \in DOMAIN asked, asked[a] = <<chainEntry, s[pos'], FALSE>> PROVE FALSE
      OBVIOUS
    <3>1. asked[a][1] = chainEntry /\ asked[a][2] = s[pos']
      OBVIOUS
    <3> QED
      BY <1>5, <1>6, <3>1
  <2> QED
    BY <1>3, <1>4, <1>7, <2>1, AskOnce DEF ChainInv, Chain!Ask, Asking
<1>10. AskedSoFar'
  <2>1. \A a \in DOMAIN asked' : \/ a \in DOMAIN asked /\ asked'[a] = asked[a]
                                 \/ asked'[a][1] = chainEntry /\ asked'[a][2] = s[pos'] /\ asked'[a][3] = FALSE
    BY <1>8
  <2>2. \A a \in DOMAIN asked' : asked'[a][1] <= chainEntry
    <3>1. chainEntry <= chainEntry
      BY <1>3
    <3> QED
      BY <1>3, <2>1, <3>1
  <2>3. \A a \in DOMAIN asked' : asked'[a][1] = chainEntry => \E k \in 1..pos' : asked'[a][2] = s[k]
    <3> SUFFICES ASSUME NEW a \in DOMAIN asked', asked'[a][1] = chainEntry PROVE \E k \in 1..pos' : asked'[a][2] = s[k]
      OBVIOUS
    <3>0. pos \in Nat /\ pos' = pos + 1
      <4>1. pos' = pos + 1
        BY <1>2
      <4>2. pos \in Nat
        BY <1>3
      <4> QED
        BY <4>1, <4>2
    <3>1. pos \in Nat /\ 1..pos \subseteq 1..pos' /\ pos' \in 1..pos'
      BY <3>0
    <3> QED
      BY <1>5, <2>1, <3>1
  <2>4. \A a \in DOMAIN asked' : asked'[a] # <<chainEntry, s[pos'], TRUE>>
    <3> SUFFICES ASSUME NEW a \in DOMAIN asked', asked'[a] = <<chainEntry, s[pos'], TRUE>> PROVE FALSE
      OBVIOUS
    <3>1. asked'[a][1] = chainEntry /\ asked'[a][2] = s[pos'] /\ asked'[a][3] = TRUE
      OBVIOUS
    <3> QED
      BY <1>5, <1>6, <2>1, <3>1
  <2> QED
    BY <1>1, <1>2, <1>4, <2>2, <2>3, <2>4 DEF AskedSoFar
<1>11. ChainTypes'
  <2>1. pos' \in 0..Len(s)
    BY <1>3, <1>4
  <2> QED
    BY <1>1, <1>2, <1>8, <2>1 DEF ChainInv, ChainTypes
<1>12. Chain!TriesEachOnce'
  BY <1>2, <1>9 DEF Chain!TriesEachOnce, Distinct
<1> QED
  BY <1>9, <1>10, <1>11, <1>12 DEF ChainInv

\* The chain moves on to the next entry, gives up, or is committed.
LEMMA MoveStep ==
  ASSUME ChainInv, chainPhase \in {"peek", "capped"}, NEW failure \in Chain!Classes \cup {"closed"},
         NEW first \in {"content", "done"},
         \/ Chain!FallThrough(failure)
         \/ failure \in {"permission", "cancelled"} /\ Chain!GiveUp(failure)
         \/ Chain!Commit(first),
         UNCHANGED <<fits, canceled>>
  PROVE  ChainInv'
<1>0. Entries \in Nat /\ chainEntry \in 1..Entries
  BY ChainBounds DEF Chain!ChainConstants, ChainInv, ChainTypes
<1>1. asked' = asked /\ models' = models /\ pos' = pos /\ fetched' = fetched
  BY DEF Chain!FallThrough, Chain!GiveUp, Chain!Commit
<1>2. CASE Chain!FallThrough(failure)
  <2>1. asked \in Seq(Asking) /\ \A a \in DOMAIN asked : asked[a][1] <= chainEntry
    BY DEF ChainInv, ChainTypes, AskedSoFar
  <2>2. \A a \in DOMAIN asked : asked[a][1] \in 1..Entries
    BY <2>1, AskedEntry
  <2>3. \A a \in DOMAIN asked : asked[a][1] < chainEntry + 1 /\ asked[a][1] <= chainEntry + 1
    BY <1>0, <2>1, <2>2
  <2>4. CASE chainEntry < Entries
    <3>1. chainPhase' = "entry" /\ chainEntry' = chainEntry + 1 /\ outcome' = outcome
      BY <1>2, <2>4 DEF Chain!FallThrough
    <3>2. chainEntry + 1 \in 1..Entries
      BY <1>0, <2>4
    <3> QED
      BY <1>1, <2>3, <3>1, <3>2 DEF ChainInv, ChainTypes, Distinct, AskedSoFar, Chain!TriesEachOnce
  <2>5. CASE ~(chainEntry < Entries)
    <3>1. chainPhase' = "over" /\ outcome' = failure /\ chainEntry' = chainEntry
      BY <1>2, <2>5 DEF Chain!FallThrough
    <3>2. chainEntry = Entries
      BY <1>0, <2>5
    <3> QED
      BY <1>1, <3>1, <3>2 DEF ChainInv, ChainTypes, Distinct, AskedSoFar, Chain!TriesEachOnce
  <2> QED
    BY <2>4, <2>5
<1>3. CASE failure \in {"permission", "cancelled"} /\ Chain!GiveUp(failure)
  BY <1>0, <1>1, <1>3 DEF Chain!GiveUp, ChainInv, ChainTypes, Distinct, AskedSoFar, Chain!TriesEachOnce, Chain!Fallbackable
<1>4. CASE Chain!Commit(first)
  BY <1>0, <1>1, <1>4 DEF Chain!Commit, ChainInv, ChainTypes, Distinct, AskedSoFar, Chain!TriesEachOnce, Chain!Fallbackable
<1> QED
  BY <1>2, <1>3, <1>4

\* A model is asked once more, with fewer tokens.
LEMMA CapStep ==
  ASSUME ChainInv, chainPhase = "peek", chainPhase' = "capped", Chain!Ask(chainEntry, models[pos], TRUE),
         UNCHANGED <<chainEntry, models, pos, fetched, outcome, fits, canceled>>
  PROVE  ChainInv'
<1>1. chainEntry \in 1..Entries /\ asked \in Seq(Asking) /\ pos \in DOMAIN models /\ models[pos] \in Chain!Models /\ pos \in 1..pos
  BY DEF ChainInv, ChainTypes, AskedSoFar
<1>2. \A a \in DOMAIN asked : asked[a] # <<chainEntry, models[pos], TRUE>>
  BY DEF ChainInv, AskedSoFar
<1>3. Distinct(asked')
  BY <1>1, <1>2, AskOnce DEF ChainInv, Chain!Ask, Asking
<1>4. /\ asked' \in Seq(Asking) /\ DOMAIN asked' = DOMAIN asked \cup {Len(asked) + 1}
      /\ \A a \in DOMAIN asked : asked'[a] = asked[a]
      /\ asked'[Len(asked) + 1] = <<chainEntry, models[pos], TRUE>>
  BY <1>1, AskType
<1>5. \A a \in DOMAIN asked' : \/ a \in DOMAIN asked /\ asked'[a] = asked[a]
                               \/ asked'[a][1] = chainEntry /\ asked'[a][2] = models[pos]
  BY <1>4
<1>6. AskedSoFar'
  <2>1. \A a \in DOMAIN asked' : asked'[a][1] <= chainEntry
    BY <1>1, <1>5 DEF ChainInv, AskedSoFar
  <2>2. \A a \in DOMAIN asked' : asked'[a][1] = chainEntry => \E k \in 1..pos : asked'[a][2] = models[k]
    BY <1>1, <1>5 DEF ChainInv, AskedSoFar
  <2> QED
    BY <2>1, <2>2 DEF ChainInv, AskedSoFar
<1> QED
  BY <1>3, <1>4, <1>6 DEF ChainInv, ChainTypes, Chain!TriesEachOnce, Distinct

\* Every step of the chain and of the watchdog keeps the invariant.
LEMMA ChainStep == ASSUME ChainInv, [Chain!Next]_Chain!vars PROVE ChainInv'
<1>1. CASE Chain!PeekFirst
  <2>1. chainPhase = "peek" /\ UNCHANGED <<fits, canceled>>
    BY <1>1 DEF Chain!PeekFirst
  <2>2. PICK first \in {"content", "done", "closed"} \cup (Chain!Classes \ {"cancelled"}) :
       \/ first \in {"content", "done"} /\ Chain!Commit(first)
       \/ first \in {"unsupported", "closed"} /\ Chain!Rotate
       \/ first \in {"unsupported", "closed"} /\ Chain!CannotRotate /\ Chain!FallThrough(first)
       \/ first \in {"auth", "rateLimit"} /\ Chain!FallThrough(first)
       \/ first = "permission" /\ Chain!GiveUp(first)
       \/ /\ first = "affordable"
          /\ chainPhase' = "capped" /\ Chain!Ask(chainEntry, models[pos], TRUE)
          /\ UNCHANGED <<chainEntry, models, pos, fetched, outcome>>
    BY <1>1 DEF Chain!PeekFirst
  <2>3. CASE first \in {"content", "done"} /\ Chain!Commit(first)
    <3>1. "closed" \in Chain!Classes \cup {"closed"}
      OBVIOUS
    <3> QED
      BY <2>1, <2>3, <3>1, MoveStep
  <2>4. CASE first \in {"unsupported", "closed"} /\ Chain!Rotate
    BY <2>1, <2>4, RotateStep
  <2>5. CASE Chain!FallThrough(first) /\ first \notin {"content", "done"}
    <3>1. first \in Chain!Classes \cup {"closed"}
      BY <2>5
    <3>2. "done" \in {"content", "done"}
      OBVIOUS
    <3> QED
      BY <2>1, <2>5, <3>1, <3>2, MoveStep
  <2>6. CASE first = "permission" /\ Chain!GiveUp(first)
    <3>1. first \in Chain!Classes \cup {"closed"}
      BY <2>6 DEF Chain!Classes
    <3>2. "done" \in {"content", "done"}
      OBVIOUS
    <3> QED
      BY <2>1, <2>6, <3>1, <3>2, MoveStep
  <2>7. CASE chainPhase' = "capped" /\ Chain!Ask(chainEntry, models[pos], TRUE) /\ UNCHANGED <<chainEntry, models, pos, fetched, outcome>>
    BY <2>1, <2>7, CapStep
  <2> QED
    BY <2>2, <2>3, <2>4, <2>5, <2>6, <2>7
<1>2. CASE Chain!PeekCapped
  <2>1. chainPhase = "capped" /\ UNCHANGED <<fits, canceled>>
    BY <1>2 DEF Chain!PeekCapped
  <2>2. (\E first \in {"content", "done"} : Chain!Commit(first)) \/ Chain!FallThrough("affordable")
    BY <1>2 DEF Chain!PeekCapped
  <2>3. "affordable" \in Chain!Classes \cup {"closed"}
    BY DEF Chain!Classes, Chain!Fallbackable
  <2> QED
    BY <2>1, <2>2, <2>3, MoveStep
<1>3. CASE Chain!PeekCancelled
  <2>1. UNCHANGED <<fits, canceled>> /\ ((chainPhase = "peek" /\ Chain!GiveUp("cancelled")) \/ (chainPhase = "capped" /\ Chain!FallThrough("affordable")))
    BY <1>3 DEF Chain!PeekCancelled
  <2>2. "cancelled" \in Chain!Classes \cup {"closed"} /\ "affordable" \in Chain!Classes \cup {"closed"} /\ "done" \in {"content", "done"}
    BY DEF Chain!Classes, Chain!Fallbackable
  <2>3. CASE chainPhase = "peek" /\ Chain!GiveUp("cancelled")
    BY <2>1, <2>2, <2>3, MoveStep
  <2>4. CASE chainPhase = "capped" /\ Chain!FallThrough("affordable")
    BY <2>1, <2>2, <2>4, MoveStep
  <2> QED
    BY <2>1, <2>3, <2>4
<1>4. CASE Chain!Streamed
  BY <1>4 DEF Chain!Streamed, ChainInv, ChainTypes, Distinct, AskedSoFar, Chain!TriesEachOnce, Chain!Fallbackable
<1>5. CASE Chain!WatchdogFires
  BY <1>5 DEF Chain!WatchdogFires, ChainInv, ChainTypes, Distinct, AskedSoFar, Chain!TriesEachOnce, Chain!Fallbackable
<1>6. CASE Chain!Cancel
  BY <1>6 DEF Chain!Cancel, ChainInv, ChainTypes, Distinct, AskedSoFar, Chain!TriesEachOnce
<1>7. CASE UNCHANGED Chain!vars
  BY <1>7 DEF Chain!vars, ChainInv, ChainTypes, Distinct, AskedSoFar, Chain!TriesEachOnce
<1> QED
  BY <1>1, <1>2, <1>3, <1>4, <1>5, <1>6, <1>7, EnterStep DEF Chain!Next, Chain!Step, Chain!Provider

\* No model of an entry is asked twice.
LEMMA ChainTold == ASSUME ChainInv PROVE Chain!TypeOK /\ Chain!TriesEachOnce
BY DEF ChainInv, ChainTypes, Asking, Chain!TypeOK

-----------------------------------------------------------------------------
(* Models. *)

\* What Models asks of its constants.
LEMMA ModelsBounds == Models!ModelsConstants
BY MCRequestsConstants

\* A model of the registry; its list of providers is the place of each.
Places == UNION {[S -> Nat] : S \in SUBSET ({Models!OpenRouter} \cup UNION {SeedOf[m].providers : m \in Known})}
Model == [scores : [{"aider", "seed"} -> Nat], price : Nat, thinking : Nat, blended : Nat, roi : Nat \X Nat,
          caps : SUBSET Models!Caps, window : Nat, available : Places]

\* The returns that the registry holds are those of its prices and scores.
Fresh(e) == \A m \in Known : e[m].roi = Models!ROI(e[m])

\* The listing's provider serves the models that the last listing lists, unless it lists none.
ServedAreListed ==
  covers => \A m \in Known : Models!OpenRouter \in DOMAIN modelsEntry[m].available => m \in DOMAIN listing

ModelsInv ==
  /\ modelsEntry \in [Known -> Model]
  /\ DOMAIN listing \subseteq Known /\ \A m \in DOMAIN listing : listing[m] \in Models!Offers
  /\ modelsPhase \notin {"capabilities", "windows", "thinking"} => Fresh(modelsEntry)
  /\ modelsPhase # "availability" => ServedAreListed

\* Finite sets and their sizes are the library's.
LEMMA ModelsSizes == \A S : Models!IsFiniteSet(S) = IsFiniteSet(S) /\ Models!Cardinality(S) = Cardinality(S)
BY DEF Models!IsFiniteSet, IsFiniteSet, Models!Cardinality, Cardinality

\* Scores and returns are numbers.
LEMMA BlendIsNat == ASSUME NEW s \in [{"aider", "seed"} -> Nat] PROVE Models!Blend(s) \in Nat
<1>1. s["aider"] \in Nat /\ s["seed"] \in Nat
  OBVIOUS
<1> QED
  BY <1>1 DEF Models!Blend

\* The return of a model is a fraction.
LEMMA ROIIsPair == ASSUME NEW m \in Model PROVE Models!ROI(m) \in Nat \X Nat
<1>1. m.price \in Nat /\ m.thinking \in Nat /\ m.scores \in [{"aider", "seed"} -> Nat]
  BY DEF Model
<1>2. Models!Blend(m.scores) \in Nat /\ Models!EffectiveCost(m) \in Nat
  BY <1>1, BlendIsNat DEF Models!EffectiveCost
<1> QED
  BY <1>2 DEF Models!ROI

\* What recomputeUnsafe leaves is typed and fresh, and only scores and returns change.
LEMMA RescoredIs ==
  ASSUME NEW e \in [Known -> Model]
  PROVE  /\ Models!Rescored(e) \in [Known -> Model] /\ Fresh(Models!Rescored(e))
         /\ \A m \in Known : Models!Rescored(e)[m].available = e[m].available
<1> SUFFICES ASSUME NEW m \in Known
    PROVE  /\ Models!Rescored(e)[m] \in Model /\ Models!Rescored(e)[m].roi = Models!ROI(Models!Rescored(e)[m])
           /\ Models!Rescored(e)[m].available = e[m].available
  BY DEF Models!Rescored, Fresh
<1> DEFINE o == e[m]
           n == [o EXCEPT !.blended = Models!Blend(o.scores), !.roi = Models!ROI(o)]
<1>1. o \in Model /\ Models!Rescored(e)[m] = n
  BY DEF Models!Rescored
<1> HIDE DEF o
<1>2. Models!Blend(o.scores) \in Nat /\ Models!ROI(o) \in Nat \X Nat
  BY <1>1, ROIIsPair, BlendIsNat DEF Model
<1>3. n \in Model /\ n.roi = Models!ROI(o) /\ n.scores = o.scores /\ n.price = o.price /\ n.thinking = o.thinking
      /\ n.available = o.available
  BY <1>1, <1>2 DEF Model
<1> HIDE DEF n
<1>4. Models!ROI(n) = Models!ROI(o)
  BY <1>3 DEF Models!ROI, Models!EffectiveCost
<1> QED
  BY <1>1, <1>3, <1>4 DEF o

\* The seed data is typed.
LEMMA SeededIs ==
  ASSUME NEW e \in Models!seedModels PROVE e \in [Known -> Model]
<1>1. PICK order \in {o \in [Known -> UNION {Models!Orders(SeedOf[m].providers) : m \in Known}] :
                        \A m \in Known : o[m] \in Models!Orders(SeedOf[m].providers)} :
        e = [m \in Known |-> Models!Seeded(m, order[m])]
  BY DEF Models!seedModels
<1> SUFFICES ASSUME NEW m \in Known PROVE Models!Seeded(m, order[m]) \in Model
  BY <1>1
<1>2. IsFiniteSet(SeedOf[m].providers)
  BY ModelsBounds, ModelsSizes DEF Models!ModelsConstants
<1>3. order[m] \in [SeedOf[m].providers -> 1..Cardinality(SeedOf[m].providers)]
  BY <1>1, ModelsSizes DEF Models!Orders
<1>4. Cardinality(SeedOf[m].providers) \in Nat
  BY <1>2, FS_CardinalityType
<1>5. order[m] \in [SeedOf[m].providers -> Nat]
  BY <1>3, <1>4
<1>6. order[m] \in Places
  BY <1>5 DEF Places
<1>7. SeedOf[m].score \in Nat /\ SeedOf[m].price \in Nat /\ SeedOf[m].window \in Nat /\ SeedOf[m].caps \in SUBSET Models!Caps
  BY ModelsBounds DEF Models!ModelsConstants, Models!Caps
<1>8. [aider |-> 0, seed |-> SeedOf[m].score] \in [{"aider", "seed"} -> Nat]
  BY <1>7
<1> QED
  BY <1>6, <1>7, <1>8 DEF Models!Seeded, Model

\* The registry is seeded.
LEMMA ModelsInit == ASSUME Models!Init PROVE ModelsInv
<1>1. PICK e \in Models!seedModels : modelsEntry = Models!Rescored(e)
  BY DEF Models!Init
<1>2. modelsEntry \in [Known -> Model] /\ Fresh(modelsEntry)
  BY <1>1, SeededIs, RescoredIs
<1>3. DOMAIN listing = {} /\ ~covers
  BY DEF Models!Init
<1> QED
  BY <1>2, <1>3 DEF ModelsInv, ServedAreListed

\* Models whose prices and scores stay keep their returns.
LEMMA FreshKept ==
  ASSUME NEW e \in [Known -> Model], NEW f \in [Known -> Model], Fresh(e),
         \A m \in Known : /\ f[m].scores = e[m].scores /\ f[m].price = e[m].price /\ f[m].thinking = e[m].thinking
                          /\ f[m].roi = e[m].roi
  PROVE  Fresh(f)
<1> SUFFICES ASSUME NEW m \in Known PROVE f[m].roi = Models!ROI(f[m])
  BY DEF Fresh
<1> DEFINE a == e[m]
           b == f[m]
<1>1. b.scores = a.scores /\ b.price = a.price /\ b.thinking = a.thinking /\ b.roi = a.roi /\ a.roi = Models!ROI(a)
  BY DEF Fresh
<1> HIDE DEF a, b
<1>2. Models!ROI(b) = Models!ROI(a)
  BY <1>1 DEF Models!ROI, Models!EffectiveCost
<1> QED
  BY <1>1, <1>2 DEF b

\* A model that gained a score is one.
LEMMA ScoredIs ==
  ASSUME NEW m \in Model, NEW s \in Nat
  PROVE  [m EXCEPT !.scores["aider"] = s] \in Model /\ [m EXCEPT !.scores["aider"] = s].available = m.available
<1> DEFINE sc == [m.scores EXCEPT !["aider"] = s]
<1>1. sc \in [{"aider", "seed"} -> Nat]
  BY DEF Model
<1>2. [m EXCEPT !.scores["aider"] = s] = [m EXCEPT !.scores = sc]
  BY DEF Model
<1> HIDE DEF sc
<1> QED
  BY <1>1, <1>2 DEF Model

\* The benchmark's scores are kept, or none came.
LEMMA AiderStep == ASSUME ModelsInv, Models!ApplyAiderScores \/ Models!AiderFetchFails \/ Models!Refresh PROVE ModelsInv'
<1>1. CASE Models!ApplyAiderScores
  <2>0. PICK named \in SUBSET Known : \E score \in [named -> LiveScores] :
          Models!Recompute([m \in Known |->
             IF m \in named /\ score[m] > modelsEntry[m].scores["aider"]
             THEN [modelsEntry[m] EXCEPT !.scores["aider"] = score[m]] ELSE modelsEntry[m]])
    BY <1>1 DEF Models!ApplyAiderScores
  <2>1. PICK score \in [named -> LiveScores] :
          Models!Recompute([m \in Known |->
             IF m \in named /\ score[m] > modelsEntry[m].scores["aider"]
             THEN [modelsEntry[m] EXCEPT !.scores["aider"] = score[m]] ELSE modelsEntry[m]])
    BY <2>0
  <2> DEFINE e == [m \in Known |->
             IF m \in named /\ score[m] > modelsEntry[m].scores["aider"]
             THEN [modelsEntry[m] EXCEPT !.scores["aider"] = score[m]] ELSE modelsEntry[m]]
  <2>2. modelsPhase = "aider" /\ modelsPhase' = "fetch" /\ UNCHANGED <<listing, covers>> /\ modelsEntry' = Models!Rescored(e)
    BY <1>1, <2>1 DEF Models!ApplyAiderScores, Models!Recompute
  <2>3. ASSUME NEW m \in Known PROVE e[m] \in Model /\ e[m].available = modelsEntry[m].available
    <3>1. modelsEntry[m] \in Model
      BY DEF ModelsInv
    <3>2. CASE m \in named /\ score[m] > modelsEntry[m].scores["aider"]
      <4>1. score[m] \in Nat
        BY <3>2, ModelsBounds DEF Models!ModelsConstants
      <4>2. e[m] = [modelsEntry[m] EXCEPT !.scores["aider"] = score[m]]
        BY <3>2
      <4> HIDE DEF e
      <4> QED
        BY <3>1, <4>1, <4>2, ScoredIs
    <3>3. CASE ~(m \in named /\ score[m] > modelsEntry[m].scores["aider"])
      BY <3>1, <3>3
    <3> QED
      BY <3>2, <3>3
  <2>4. e \in [Known -> Model]
    BY <2>3
  <2> HIDE DEF e
  <2>5. modelsEntry' \in [Known -> Model] /\ Fresh(modelsEntry') /\ \A m \in Known : modelsEntry'[m].available = modelsEntry[m].available
    BY <2>2, <2>3, <2>4, RescoredIs
  <2> QED
    BY <2>2, <2>5 DEF ModelsInv, ServedAreListed
<1>2. CASE Models!AiderFetchFails \/ Models!Refresh
  BY <1>2 DEF Models!AiderFetchFails, Models!Refresh, ModelsInv, ServedAreListed
<1> QED
  BY <1>1, <1>2

\* A listing comes, or none.
LEMMA FetchStep == ASSUME ModelsInv, Models!FetchOpenRouterAvailability \/ Models!ListingFetchFails PROVE ModelsInv'
<1>1. CASE Models!FetchOpenRouterAvailability
  <2>1. PICK listed \in SUBSET {m \in Known : Models!OpenRouter \in SeedOf[m].providers} : listing' \in [listed -> Models!Offers]
    BY <1>1 DEF Models!FetchOpenRouterAvailability
  <2>2. modelsPhase = "fetch" /\ modelsPhase' = "availability" /\ UNCHANGED modelsEntry
    BY <1>1 DEF Models!FetchOpenRouterAvailability
  <2>3. DOMAIN listing' \subseteq Known /\ \A m \in DOMAIN listing' : listing'[m] \in Models!Offers
    BY <2>1
  <2> QED
    BY <2>2, <2>3 DEF ModelsInv
<1>2. CASE Models!ListingFetchFails
  BY <1>2 DEF Models!ListingFetchFails, ModelsInv, ServedAreListed
<1> QED
  BY <1>1, <1>2

\* What a listing leaves of a model's providers.
LEMMA AvailabilityIs ==
  ASSUME ModelsInv, NEW m \in Known
  PROVE  /\ Models!Availability(m) \in Places
         /\ covers /\ Models!OpenRouter \in DOMAIN Models!Availability(m) => m \in DOMAIN listing
<1> DEFINE place == modelsEntry[m].available
           P == {Models!OpenRouter} \cup UNION {SeedOf[x].providers : x \in Known}
           kept == (DOMAIN place \ {Models!OpenRouter}) \cup (IF m \in DOMAIN listing THEN {Models!OpenRouter} ELSE {})
           c == Cardinality(SeedOf[m].providers) + 1
<1>1. place \in Places
  BY DEF ModelsInv, Model
<1>2. PICK S \in SUBSET P : place \in [S -> Nat]
  BY <1>1 DEF Places
<1>3. c \in Nat
  BY ModelsBounds, ModelsSizes, FS_CardinalityType DEF Models!ModelsConstants
<1>4. Models!Availability(m) = (IF ~covers THEN place
                               ELSE [p \in kept |-> IF p = Models!OpenRouter THEN c ELSE place[p]])
  BY ModelsSizes DEF Models!Availability
<1>5. kept \in SUBSET P /\ DOMAIN place = S /\ (Models!OpenRouter \in kept => m \in DOMAIN listing)
  BY <1>2
<1> HIDE DEF c, place
<1>6. \A p \in kept : p # Models!OpenRouter => place[p] \in Nat
  BY <1>2
<1> HIDE DEF kept, P
<1>7. [p \in kept |-> IF p = Models!OpenRouter THEN c ELSE place[p]] \in [kept -> Nat]
  BY <1>3, <1>6
<1>8. [p \in kept |-> IF p = Models!OpenRouter THEN c ELSE place[p]] \in Places
  BY <1>5, <1>7 DEF Places, P
<1> QED
  BY <1>1, <1>4, <1>5, <1>8

\* The listing's provider is taken from every model, and given to those it lists.
LEMMA AvailabilityStep == ASSUME ModelsInv, Models!ApplyAvailability PROVE ModelsInv'
<1> DEFINE e == [m \in Known |-> [modelsEntry[m] EXCEPT !.available = Models!Availability(m)]]
<1>1. modelsPhase = "availability" /\ modelsPhase' = "pricing" /\ UNCHANGED <<listing, covers>> /\ modelsEntry' = Models!Rescored(e)
  BY DEF Models!ApplyAvailability, Models!Recompute
<1>2. ASSUME NEW m \in Known
      PROVE  e[m] \in Model /\ (covers /\ Models!OpenRouter \in DOMAIN e[m].available => m \in DOMAIN listing)
  <2> DEFINE o == modelsEntry[m]
             n == [o EXCEPT !.available = Models!Availability(m)]
  <2>1. o \in Model /\ e[m] = n
    BY DEF ModelsInv
  <2>2. Models!Availability(m) \in Places /\ (covers /\ Models!OpenRouter \in DOMAIN Models!Availability(m) => m \in DOMAIN listing)
    BY AvailabilityIs
  <2> HIDE DEF o, e
  <2>3. n \in Model /\ n.available = Models!Availability(m)
    BY <2>1, <2>2 DEF Model
  <2> HIDE DEF n
  <2> QED
    BY <2>1, <2>2, <2>3
<1>3. e \in [Known -> Model]
  BY <1>2
<1> HIDE DEF e
<1>4. modelsEntry' \in [Known -> Model] /\ Fresh(modelsEntry') /\ \A m \in Known : modelsEntry'[m].available = e[m].available
  BY <1>1, <1>3, RescoredIs
<1>5. ServedAreListed'
  BY <1>1, <1>2, <1>4 DEF ServedAreListed
<1> QED
  BY <1>1, <1>4, <1>5 DEF ModelsInv

\* A listed entry has numbers, and capabilities.
LEMMA EntryIs ==
  ASSUME ModelsInv, NEW m \in DOMAIN listing
  PROVE  /\ listing[m].price \in Nat /\ listing[m].thinking \in Nat /\ listing[m].window \in Nat
         /\ listing[m].caps \in SUBSET Models!Caps
<1>1. listing[m] \in Models!Offers /\ LivePrices \subseteq Nat
  BY ModelsBounds DEF ModelsInv, Models!ModelsConstants
<1> DEFINE l == listing[m]
<1>2. l \in [price : LivePrices, thinking : LivePrices, caps : {{}, Models!Caps}, window : {0, 2}]
  BY <1>1 DEF Models!Offers
<1> SUFFICES l.price \in Nat /\ l.thinking \in Nat /\ l.window \in Nat /\ l.caps \in SUBSET Models!Caps
  OBVIOUS
<1> HIDE DEF l
<1>3. l.caps \in {{}, Models!Caps} /\ l.price \in LivePrices /\ l.thinking \in LivePrices /\ l.window \in {0, 2}
  BY <1>2
<1>4. l.window \in Nat
  BY <1>3
<1>5. l.caps \in SUBSET Models!Caps
  BY <1>3
<1> QED
  BY <1>1, <1>3, <1>4, <1>5

\* The prices of the listing: the returns are stale until the next computation.
LEMMA PricingStep == ASSUME ModelsInv, Models!ApplyPricing \/ Models!ApplyWindowSizes PROVE ModelsInv'
<1>1. ASSUME NEW m \in Known
      PROVE  modelsEntry'[m] \in Model /\ modelsEntry'[m].available = modelsEntry[m].available
  <2> DEFINE o == modelsEntry[m]
             l == listing[m]
  <2>1. o \in Model
    BY DEF ModelsInv
  <2>2. m \in DOMAIN listing => l.price \in Nat /\ l.window \in Nat
    BY EntryIs
  <2>3. \/ modelsEntry'[m] = o
        \/ m \in DOMAIN listing /\ modelsEntry'[m] = [o EXCEPT !.price = l.price]
        \/ m \in DOMAIN listing /\ modelsEntry'[m] = [o EXCEPT !.window = l.window]
    BY DEF Models!ApplyPricing, Models!ApplyWindowSizes
  <2> SUFFICES modelsEntry'[m] \in Model /\ modelsEntry'[m].available = o.available
    OBVIOUS
  <2> HIDE DEF o, l
  <2> QED
    BY <2>1, <2>2, <2>3 DEF Model
<1>2. modelsEntry' \in [Known -> Model]
  <2>1. DOMAIN modelsEntry' = Known /\ modelsEntry' = [m \in Known |-> modelsEntry'[m]]
    BY DEF Models!ApplyPricing, Models!ApplyWindowSizes
  <2> QED
    BY <1>1, <2>1
<1>3. modelsPhase # "availability" /\ modelsPhase' \in {"capabilities", "thinking"} /\ UNCHANGED <<listing, covers>>
  BY DEF Models!ApplyPricing, Models!ApplyWindowSizes
<1> QED
  BY <1>1, <1>2, <1>3 DEF ModelsInv, ServedAreListed

\* A model gains a capability.
LEMMA GainsStep == ASSUME ModelsInv, Models!ApplyCapabilities \/ Models!ApplySupportedParams PROVE ModelsInv'
<1>1. ASSUME NEW m \in Known
      PROVE  /\ modelsEntry'[m] \in Model /\ modelsEntry'[m].available = modelsEntry[m].available
             /\ modelsEntry'[m].scores = modelsEntry[m].scores /\ modelsEntry'[m].price = modelsEntry[m].price
             /\ modelsEntry'[m].thinking = modelsEntry[m].thinking /\ modelsEntry'[m].roi = modelsEntry[m].roi
  <2> DEFINE o == modelsEntry[m]
             l == listing[m]
  <2>1. o \in Model
    BY DEF ModelsInv
  <2>2. m \in DOMAIN listing => l.caps \in SUBSET Models!Caps
    BY EntryIs
  <2>3. \/ modelsEntry'[m] = o
        \/ m \in DOMAIN listing /\ \E cap : modelsEntry'[m] = [o EXCEPT !.caps = @ \cup (l.caps \cap {cap})]
    BY DEF Models!ApplyCapabilities, Models!ApplySupportedParams, Models!Gains
  <2> SUFFICES /\ modelsEntry'[m] \in Model /\ modelsEntry'[m].available = o.available
               /\ modelsEntry'[m].scores = o.scores /\ modelsEntry'[m].price = o.price
               /\ modelsEntry'[m].thinking = o.thinking /\ modelsEntry'[m].roi = o.roi
    OBVIOUS
  <2> HIDE DEF o, l
  <2> QED
    BY <2>1, <2>2, <2>3 DEF Model
<1>2. modelsEntry' \in [Known -> Model]
  <2>1. DOMAIN modelsEntry' = Known /\ modelsEntry' = [m \in Known |-> modelsEntry'[m]]
    BY DEF Models!ApplyCapabilities, Models!ApplySupportedParams, Models!Gains
  <2> QED
    BY <1>1, <2>1
<1>3. /\ modelsPhase # "availability" /\ modelsPhase' \notin {"availability"} /\ UNCHANGED <<listing, covers>>
      /\ modelsPhase' \notin {"capabilities", "windows", "thinking"} => modelsPhase = "params"
  BY DEF Models!ApplyCapabilities, Models!ApplySupportedParams
<1>4. Fresh(modelsEntry) => Fresh(modelsEntry')
  BY <1>1, <1>2, FreshKept DEF ModelsInv
<1> QED
  BY <1>1, <1>2, <1>3, <1>4 DEF ModelsInv, ServedAreListed

\* The prices of thinking, after which everything is computed again.
LEMMA ThinkingStep == ASSUME ModelsInv, Models!ApplyThinkingPricing PROVE ModelsInv'
<1> DEFINE e == Models!WithThinking
<1>1. modelsPhase = "thinking" /\ modelsPhase' = "params" /\ UNCHANGED <<listing, covers>> /\ modelsEntry' = Models!Rescored(e)
  BY DEF Models!ApplyThinkingPricing, Models!Recompute
<1>2. ASSUME NEW m \in Known PROVE e[m] \in Model /\ e[m].available = modelsEntry[m].available
  <2> DEFINE o == modelsEntry[m]
             l == listing[m]
  <2>1. o \in Model
    BY DEF ModelsInv
  <2>2. m \in DOMAIN listing => l.thinking \in Nat
    BY EntryIs
  <2>3. \/ e[m] = o
        \/ m \in DOMAIN listing /\ e[m] = [o EXCEPT !.thinking = l.thinking]
    BY DEF Models!WithThinking
  <2> SUFFICES e[m] \in Model /\ e[m].available = o.available
    OBVIOUS
  <2> HIDE DEF o, l, e
  <2> QED
    BY <2>1, <2>2, <2>3 DEF Model
<1>3. e \in [Known -> Model]
  <2>1. DOMAIN e = Known /\ e = [m \in Known |-> e[m]]
    BY DEF Models!WithThinking
  <2> QED
    BY <1>2, <2>1
<1> HIDE DEF e
<1>4. modelsEntry' \in [Known -> Model] /\ Fresh(modelsEntry') /\ \A m \in Known : modelsEntry'[m].available = e[m].available
  BY <1>1, <1>3, RescoredIs
<1> QED
  BY <1>1, <1>2, <1>4 DEF ModelsInv, ServedAreListed

\* Every step keeps the invariant.
LEMMA ModelsStep == ASSUME ModelsInv, [Models!Next]_Models!vars PROVE ModelsInv'
<1>1. CASE UNCHANGED Models!vars
  BY <1>1 DEF Models!vars, ModelsInv, ServedAreListed
<1> QED
  BY <1>1, AiderStep, FetchStep, AvailabilityStep, PricingStep, GainsStep, ThinkingStep DEF Models!Next

\* The provider that a model is served by is one of those that list it.
LEMMA ServedIsListed ==
  ASSUME ModelsInv, NEW m \in Known, NEW ps, Models!ServedBy(modelsEntry, m, ps) = Models!OpenRouter
  PROVE  Models!OpenRouter \in DOMAIN modelsEntry[m].available
<1> DEFINE place == modelsEntry[m].available
           found == DOMAIN place \cap ps
<1>1. found # {} /\ Models!OpenRouter = CHOOSE p \in found : \A q \in found : place[p] <= place[q]
  BY DEF Models!ServedBy, Models!OpenRouter
<1>2. \A p \in DOMAIN place : place[p] \in Nat
  <2>1. place \in Places
    BY DEF ModelsInv, Model
  <2> QED
    BY <2>1 DEF Places
<1> HIDE DEF place
<1>3. \E p \in found : \A q \in found : place[p] <= place[q]
  <2> DEFINE T == {place[p] : p \in found}
  <2>1. T \in SUBSET Nat /\ T # {}
    BY <1>1, <1>2
  <2>2. PICK x \in T : \A y \in T : x <= y
    BY <2>1, Least
  <2> QED
    BY <2>2
<1>4. Models!OpenRouter \in found
  BY <1>1, <1>3
<1> QED
  BY <1>4 DEF place

\* A fraction that is more than another is not less.
LEMMA MoreIsStrict == ASSUME NEW a \in Nat \X Nat, NEW b \in Nat \X Nat, Models!More(a, b) PROVE ~Models!More(b, a)
<1>1. a[1] * b[2] \in Nat /\ b[1] * a[2] \in Nat
  OBVIOUS
<1> DEFINE x == a[1] * b[2]
           y == b[1] * a[2]
<1>2. x > y /\ x \in Nat /\ y \in Nat /\ (Models!More(b, a) <=> y > x)
  BY <1>1 DEF Models!More
<1> HIDE DEF x, y
<1> QED
  BY <1>2

\* Between refreshes the choice is the best buy.
LEMMA ModelsTold == ASSUME ModelsInv PROVE Models!ChoiceIsBestBuy
<1> SUFFICES ASSUME modelsPhase = "rest", NEW req \in Models!Requirements, NEW m \in Models!BestForTask(modelsEntry, ranked, req, Pool)
    PROVE  /\ \A n \in Models!Candidates(modelsEntry, req, Pool, SeedOf[m].tier) :
                (Models!ROI(modelsEntry[m])[1] > 0 /\ Models!ROI(modelsEntry[n])[1] > 0) => ~Models!More(Models!ROI(modelsEntry[n]), Models!ROI(modelsEntry[m]))
           /\ Models!ServedBy(modelsEntry, m, Pool) = Models!OpenRouter =>
                refreshes = 0 \/ m \in DOMAIN listing \/ ~covers
  BY DEF Models!ChoiceIsBestBuy
<1>1. Fresh(modelsEntry) /\ ServedAreListed /\ modelsEntry \in [Known -> Model] /\ req.cheap = TRUE
  BY DEF ModelsInv, Models!Requirements
<1> DEFINE rankOf(x) == CHOOSE i \in DOMAIN ranked : ranked[i] = x
           better(x, y) == LET a == Models!Merit(modelsEntry[x], req.cheap)
                               b == Models!Merit(modelsEntry[y], req.cheap)
                           IN Models!More(a, b) \/ (~Models!More(b, a) /\ rankOf(x) < rankOf(y))
<1>2. \E t : /\ m \in Models!Candidates(modelsEntry, req, Pool, t)
             /\ \A n \in Models!Candidates(modelsEntry, req, Pool, t) \ {m} : better(m, n)
  <2> DEFINE tiers == {i \in DOMAIN Models!TierOrder : i >= Models!TierRank(req.tier)
                                           /\ Models!Candidates(modelsEntry, req, Pool, Models!TierOrder[i]) # {}}
             t == Models!TierOrder[CHOOSE i \in tiers : \A j \in tiers : i <= j]
             found == Models!Candidates(modelsEntry, req, Pool, t)
  <2>1. m \in (IF tiers = {} THEN {} ELSE {x \in found : \A n \in found \ {x} : better(x, n)})
    BY DEF Models!BestForTask
  <2>2. m \in {x \in found : \A n \in found \ {x} : better(x, n)}
    BY <2>1
  <2> HIDE DEF t, better
  <2> QED
    BY <2>2
<1>3. PICK t : /\ m \in Models!Candidates(modelsEntry, req, Pool, t)
               /\ \A n \in Models!Candidates(modelsEntry, req, Pool, t) \ {m} : better(m, n)
  BY <1>2
<1>4. m \in Known /\ SeedOf[m].tier = t
  BY <1>3 DEF Models!Candidates
<1>5. ASSUME NEW n \in Models!Candidates(modelsEntry, req, Pool, t), Models!ROI(modelsEntry[m])[1] > 0, Models!ROI(modelsEntry[n])[1] > 0
      PROVE  ~Models!More(Models!ROI(modelsEntry[n]), Models!ROI(modelsEntry[m]))
  <2>1. n \in Known
    BY DEF Models!Candidates
  <2>2. modelsEntry[m] \in Model /\ modelsEntry[n] \in Model /\ modelsEntry[m].roi = Models!ROI(modelsEntry[m]) /\ modelsEntry[n].roi = Models!ROI(modelsEntry[n])
    BY <1>1, <1>4, <2>1 DEF Fresh
  <2>3. Models!ROI(modelsEntry[m]) \in Nat \X Nat /\ Models!ROI(modelsEntry[n]) \in Nat \X Nat
    BY <2>2, ROIIsPair
  <2>4. Models!Merit(modelsEntry[m], req.cheap) = Models!ROI(modelsEntry[m]) /\ Models!Merit(modelsEntry[n], req.cheap) = Models!ROI(modelsEntry[n])
    BY <1>1, <1>5, <2>2 DEF Models!Merit
  <2> DEFINE a == Models!ROI(modelsEntry[m])
             b == Models!ROI(modelsEntry[n])
  <2>5. CASE n = m
    <3>1. a = b /\ a \in Nat \X Nat
      BY <2>3, <2>5
    <3> HIDE DEF a, b
    <3> QED
      BY <3>1, MoreIsStrict DEF a, b
  <2>6. CASE n # m
    <3>1. better(m, n)
      BY <1>3, <2>6
    <3>2. Models!More(a, b) \/ ~Models!More(b, a)
      BY <2>4, <3>1
    <3>3. a \in Nat \X Nat /\ b \in Nat \X Nat
      BY <2>3
    <3> HIDE DEF a, b
    <3>4. ~Models!More(b, a)
      BY <3>2, <3>3, MoreIsStrict
    <3> QED
      BY <3>4 DEF a, b
  <2> QED
    BY <2>5, <2>6
<1>6. ASSUME Models!ServedBy(modelsEntry, m, Pool) = Models!OpenRouter PROVE m \in DOMAIN listing \/ ~covers
  BY <1>1, <1>4, <1>6, ServedIsListed DEF ServedAreListed
<1> QED
  BY <1>4, <1>5, <1>6

\* A finite set with a strict total order can be written down in that order.
LEMMA OrderIsListed ==
  ASSUME NEW K, IsFiniteSet(K), NEW R,
         \A x \in K : <<x, x>> \notin R,
         \A x, y, z \in K : <<x, y>> \in R /\ <<y, z>> \in R => <<x, z>> \in R,
         \A x, y \in K : x = y \/ <<x, y>> \in R \/ <<y, x>> \in R
  PROVE  \E s \in [1..Cardinality(K) -> K] :
           \A i, j \in 1..Cardinality(K) : i < j => <<s[i], s[j]>> \in R
<1> DEFINE N == Cardinality(K)
           Below(x) == {y \in K : <<y, x>> \in R}
           f == [x \in K |-> Cardinality(Below(x)) + 1]
<1>0. N \in Nat
  BY FS_CardinalityType
<1>1. ASSUME NEW x \in K
      PROVE  IsFiniteSet(Below(x)) /\ Cardinality(Below(x)) \in Nat /\ f[x] \in 1..N
  <2>1. Below(x) \in SUBSET K /\ Below(x) # K
    OBVIOUS
  <2> HIDE DEF Below
  <2>2. IsFiniteSet(Below(x)) /\ Cardinality(Below(x)) <= Cardinality(K) /\ Cardinality(K) # Cardinality(Below(x))
    BY <2>1, FS_Subset
  <2>3. Cardinality(Below(x)) \in Nat
    BY <2>2, FS_CardinalityType
  <2>4. f[x] = Cardinality(Below(x)) + 1
    OBVIOUS
  <2> HIDE DEF f
  <2> QED
    BY <1>0, <2>2, <2>3, <2>4
<1>2. ASSUME NEW x \in K, NEW y \in K, <<x, y>> \in R PROVE f[x] < f[y]
  <2>1. Below(x) \in SUBSET (Below(y) \ {x}) /\ x \in Below(y)
    BY <1>2
  <2>2. f[x] = Cardinality(Below(x)) + 1 /\ f[y] = Cardinality(Below(y)) + 1
    OBVIOUS
  <2>3. /\ IsFiniteSet(Below(y)) /\ Cardinality(Below(y)) \in Nat /\ Cardinality(Below(x)) \in Nat
    BY <1>1
  <2> HIDE DEF f, Below
  <2>4. IsFiniteSet(Below(y) \ {x}) /\ Cardinality(Below(y) \ {x}) = Cardinality(Below(y)) - 1
    BY <2>1, <2>3, FS_RemoveElement
  <2>5. Cardinality(Below(x)) <= Cardinality(Below(y) \ {x})
    BY <2>1, <2>4, FS_Subset
  <2> QED
    BY <2>2, <2>3, <2>4, <2>5
<1>3. \A x, y \in K : f[x] = f[y] => x = y
  <2> SUFFICES ASSUME NEW x \in K, NEW y \in K, f[x] = f[y], x # y PROVE FALSE
    OBVIOUS
  <2>1. f[x] \in Int /\ f[y] \in Int
    <3>1. f[x] \in 1..N /\ f[y] \in 1..N
      BY <1>1
    <3> HIDE DEF f
    <3> QED
      BY <1>0, <3>1
  <2>2. f[x] < f[y] \/ f[y] < f[x]
    BY <1>2
  <2> HIDE DEF f
  <2> QED
    BY <2>1, <2>2
<1>4. f \in [K -> 1..N]
  <2>1. \A x \in K : f[x] \in 1..N
    BY <1>1
  <2> QED
    BY <2>1
<1> HIDE DEF f
<1>5. f \in Injection(K, 1..N)
  BY <1>3, <1>4 DEF Injection, IsInjective
<1>6. IsFiniteSet(1..N) /\ Cardinality(1..N) = N
  BY <1>0, FS_Interval
<1>7. f \in Surjection(K, 1..N)
  BY <1>5, <1>6, FS_Injection
<1>8. \A i \in 1..N : \E x \in K : f[x] = i
  BY <1>7 DEF Surjection
<1> DEFINE s == [i \in 1..N |-> CHOOSE x \in K : f[x] = i]
<1>9. \A i \in 1..N : s[i] \in K /\ f[s[i]] = i
  BY <1>8
<1>10. s \in [1..N -> K]
  BY <1>9
<1> HIDE DEF s
<1>11. ASSUME NEW i \in 1..N, NEW j \in 1..N, i < j PROVE <<s[i], s[j]>> \in R
  <2>1. s[i] \in K /\ f[s[i]] = i /\ s[j] \in K /\ f[s[j]] = j
    BY <1>9
  <2>2. s[i] # s[j]
    BY <2>1, <1>11, <1>0
  <2>3. <<s[j], s[i]>> \in R => j < i
    BY <2>1, <1>2
  <2>4. ~(j < i)
    BY <1>11, <1>0
  <2> QED
    BY <2>1, <2>2, <2>3, <2>4
<1> QED
  BY <1>10, <1>11

\* A list as long as a finite set, of different members of it, has them all.
LEMMA ListHasAll ==
  ASSUME NEW K, IsFiniteSet(K), NEW s \in [1..Cardinality(K) -> K],
         \A i, j \in 1..Cardinality(K) : i < j => s[i] # s[j]
  PROVE  \A x \in K : \E i \in 1..Cardinality(K) : s[i] = x
<1>0. Cardinality(K) \in Nat
  BY FS_CardinalityType
<1>1. IsFiniteSet(1..Cardinality(K)) /\ Cardinality(1..Cardinality(K)) = Cardinality(K)
  BY <1>0, FS_Interval
<1>2. \A i, j \in 1..Cardinality(K) : s[i] = s[j] => i = j
  BY <1>0
<1>3. s \in Injection(1..Cardinality(K), K)
  BY <1>2 DEF Injection, IsInjective
<1>4. s \in Surjection(1..Cardinality(K), K)
  BY <1>1, <1>3, FS_Injection
<1> QED
  BY <1>4 DEF Surjection

\* The ranking of a registry lists every model once.
LEMMA RankingIs ==
  ASSUME NEW e \in [Known -> Model]
  PROVE  /\ Models!Ranking(e) \in [1..Cardinality(Known) -> Known]
         /\ \A m \in Known : \E i \in 1..Cardinality(Known) : Models!Ranking(e)[i] = m
<1> DEFINE N == Cardinality(Known)
           R == {p \in Known \X Known : Models!Before(e, p[1], p[2])}
<1>1. IsFiniteSet(Known) /\ \A m \in Known : SeedOf[m].id \in Nat
  BY ModelsBounds, ModelsSizes DEF Models!ModelsConstants
<1>2. \A m, n \in Known : SeedOf[m].id = SeedOf[n].id => m = n
  BY ModelsBounds DEF Models!ModelsConstants
<1>3. \A m \in Known : e[m].blended \in Nat
  BY DEF Model
<1>4. \A m, n \in Known : <<m, n>> \in R <=> Models!Before(e, m, n)
  OBVIOUS
<1> HIDE DEF R
<1>5. \A x \in Known : <<x, x>> \notin R
  BY <1>1, <1>3, <1>4 DEF Models!Before
<1>6. \A x, y, z \in Known : <<x, y>> \in R /\ <<y, z>> \in R => <<x, z>> \in R
  BY <1>1, <1>3, <1>4 DEF Models!Before
<1>7. \A x, y \in Known : x = y \/ <<x, y>> \in R \/ <<y, x>> \in R
  <2> SUFFICES ASSUME NEW x \in Known, NEW y \in Known, x # y
               PROVE  Models!Before(e, x, y) \/ Models!Before(e, y, x)
    BY <1>4
  <2>1. SeedOf[x].id # SeedOf[y].id /\ SeedOf[x].id \in Nat /\ SeedOf[y].id \in Nat
    BY <1>1, <1>2
  <2>2. e[x].blended \in Nat /\ e[y].blended \in Nat
    BY <1>3
  <2> QED
    BY <2>1, <2>2 DEF Models!Before
<1>8. \E s \in [1..N -> Known] : \A i, j \in 1..N : i < j => <<s[i], s[j]>> \in R
  BY <1>1, <1>5, <1>6, <1>7, OrderIsListed
<1>9. \E s \in [1..N -> Known] : \A i, j \in DOMAIN s : i < j => Models!Before(e, s[i], s[j])
  BY <1>4, <1>8
<1> DEFINE s == Models!Ranking(e)
<1>10. s \in [1..N -> Known] /\ \A i, j \in DOMAIN s : i < j => Models!Before(e, s[i], s[j])
  BY <1>9, ModelsSizes DEF Models!Ranking
<1> HIDE DEF s
<1>11. \A i, j \in 1..N : i < j => s[i] # s[j]
  BY <1>4, <1>5, <1>10
<1>12. \A m \in Known : \E i \in 1..N : s[i] = m
  BY <1>1, <1>10, <1>11, ListHasAll
<1> QED
  BY <1>10, <1>12 DEF s

\* The models as last ranked are those of the registry, each once.
RankInv ==
  /\ ranked \in [1..Cardinality(Known) -> Known]
  /\ \A m \in Known : \E i \in 1..Cardinality(Known) : ranked[i] = m
  /\ modelsPhase \in Models!Range(Models!Refreshing) \cup {"rest"}
  /\ refreshes \in 0..MaxRefreshes /\ covers \in BOOLEAN

\* The steps of a refresh have these names.
LEMMA PhaseNames ==
  Models!Range(Models!Refreshing) =
    {"aider", "fetch", "availability", "pricing", "capabilities", "windows", "thinking", "params"}
<1> DEFINE s == Models!Refreshing
<1>1. DOMAIN s = 1..8 /\ s[1] = "aider" /\ s[2] = "fetch" /\ s[3] = "availability" /\ s[4] = "pricing" 
      /\ s[5] = "capabilities" /\ s[6] = "windows" /\ s[7] = "thinking" /\ s[8] = "params"
  BY DEF Models!Refreshing
<1> HIDE DEF s
<1>2. \A i \in 1..8 : i = 1 \/ i = 2 \/ i = 3 \/ i = 4 \/ i = 5 \/ i = 6 \/ i = 7 \/ i = 8
  OBVIOUS
<1>3. Models!Range(s) = {s[i] : i \in 1..8}
  BY <1>1 DEF Models!Range
<1>4. Models!Range(s) = {s[1], s[2], s[3], s[4], s[5], s[6], s[7], s[8]}
  BY <1>2, <1>3
<1> QED
  BY <1>1, <1>4 DEF s

\* The seeded registry is ranked.
LEMMA RankInit == ASSUME Models!Init PROVE RankInv
<1>1. PICK e \in Models!seedModels : modelsEntry = Models!Rescored(e) /\ ranked = Models!Ranking(Models!Rescored(e))
  BY DEF Models!Init
<1>2. modelsEntry \in [Known -> Model]
  BY ModelsInit DEF ModelsInv
<1>3. ranked = Models!Ranking(modelsEntry)
  BY <1>1
<1>4. MaxRefreshes \in Nat
  BY ModelsBounds DEF Models!ModelsConstants
<1>5. modelsPhase = "rest" /\ refreshes = 0 /\ covers = FALSE
  BY DEF Models!Init
<1>6. /\ ranked \in [1..Cardinality(Known) -> Known]
      /\ \A m \in Known : \E i \in 1..Cardinality(Known) : ranked[i] = m
  BY <1>2, <1>3, RankingIs
<1>7. refreshes \in 0..MaxRefreshes
  <2>1. refreshes = 0 /\ MaxRefreshes \in Nat
    BY <1>4, <1>5
  <2>2. \A k \in Nat : 0 \in 0..k
    OBVIOUS
  <2> QED
    BY <2>1, <2>2
<1> QED
  BY <1>5, <1>6, <1>7 DEF RankInv

\* Every recomputation ranks the registry that it leaves.
LEMMA RankStep == ASSUME ModelsInv, RankInv, [Models!Next]_Models!vars PROVE RankInv'
<1> DEFINE names == {"aider", "fetch", "availability", "pricing", "capabilities", "windows", "thinking", "params"}
<1>0. modelsEntry' \in [Known -> Model]
  BY ModelsStep DEF ModelsInv
<1>1. MaxRefreshes \in Nat
  BY ModelsBounds DEF Models!ModelsConstants
<1>2. /\ modelsPhase' \in names \cup {"rest"}
      /\ refreshes' \in 0..MaxRefreshes /\ covers' \in BOOLEAN
  <2>1. modelsPhase \in names \cup {"rest"} /\ refreshes \in 0..MaxRefreshes /\ covers \in BOOLEAN
    BY PhaseNames DEF RankInv
  <2>2. CASE Models!Refresh
    <3>1. modelsPhase' = "aider" /\ refreshes' = refreshes + 1 /\ refreshes < MaxRefreshes /\ UNCHANGED covers
      BY <2>2 DEF Models!Refresh
    <3>2. refreshes' \in 0..MaxRefreshes
      BY <1>1, <2>1, <3>1
    <3> QED
      BY <2>1, <3>1, <3>2
  <2>3. CASE Models!ApplyAiderScores \/ Models!AiderFetchFails \/ Models!FetchOpenRouterAvailability \/ Models!ListingFetchFails
    BY <2>1, <2>3 DEF Models!ApplyAiderScores, Models!AiderFetchFails, Models!FetchOpenRouterAvailability, Models!ListingFetchFails
  <2>4. CASE Models!ApplyAvailability \/ Models!ApplyPricing \/ Models!ApplyCapabilities
    BY <2>1, <2>4 DEF Models!ApplyAvailability, Models!ApplyPricing, Models!ApplyCapabilities
  <2>5. CASE Models!ApplyWindowSizes \/ Models!ApplyThinkingPricing \/ Models!ApplySupportedParams
    BY <2>1, <2>5 DEF Models!ApplyWindowSizes, Models!ApplyThinkingPricing, Models!ApplySupportedParams
  <2>6. CASE UNCHANGED Models!vars
    BY <2>1, <2>6 DEF Models!vars
  <2> QED
    BY <2>2, <2>3, <2>4, <2>5, <2>6 DEF Models!Next
<1>3. ranked' = Models!Ranking(modelsEntry') \/ ranked' = ranked
  <2>1. CASE Models!ApplyAiderScores \/ Models!ApplyAvailability \/ Models!ApplyThinkingPricing
    BY <2>1 DEF Models!ApplyAiderScores, Models!ApplyAvailability, Models!ApplyThinkingPricing, Models!Recompute
  <2>2. CASE Models!Refresh \/ Models!AiderFetchFails \/ Models!FetchOpenRouterAvailability \/ Models!ListingFetchFails
    BY <2>2 DEF Models!Refresh, Models!AiderFetchFails, Models!FetchOpenRouterAvailability, Models!ListingFetchFails
  <2>3. CASE Models!ApplyPricing \/ Models!ApplyCapabilities \/ Models!ApplyWindowSizes \/ Models!ApplySupportedParams
    BY <2>3 DEF Models!ApplyPricing, Models!ApplyCapabilities, Models!ApplyWindowSizes, Models!ApplySupportedParams
  <2>4. CASE UNCHANGED Models!vars
    BY <2>4 DEF Models!vars
  <2> QED
    BY <2>1, <2>2, <2>3, <2>4 DEF Models!Next
<1>4. /\ ranked' \in [1..Cardinality(Known) -> Known]
      /\ \A m \in Known : \E i \in 1..Cardinality(Known) : ranked'[i] = m
  <2>1. CASE ranked' = Models!Ranking(modelsEntry')
    BY <1>0, <2>1, RankingIs
  <2>2. CASE ranked' = ranked
    BY <2>2 DEF RankInv
  <2> QED
    BY <1>3, <2>1, <2>2
<1> QED
  BY <1>2, <1>4, PhaseNames DEF RankInv

\* The registry, its ranking and its updater are typed.
LEMMA RankTold == ASSUME ModelsInv, RankInv PROVE Models!TypeOK
<1>0. Cardinality(Known) \in Nat
  BY ModelsBounds, ModelsSizes, FS_CardinalityType DEF Models!ModelsConstants
<1>1. Len(ranked) = Cardinality(Known) /\ DOMAIN ranked = 1..Cardinality(Known)
  BY <1>0 DEF RankInv
<1>2. Models!Range(ranked) = Known
  BY <1>1 DEF RankInv, Models!Range
<1>3. ASSUME NEW m \in Known
      PROVE  /\ modelsEntry[m].scores \in [{"aider", "seed"} -> Nat]
             /\ {modelsEntry[m].price, modelsEntry[m].thinking, modelsEntry[m].blended, modelsEntry[m].window} \subseteq Nat
             /\ modelsEntry[m].roi \in Nat \X Nat
             /\ modelsEntry[m].caps \subseteq Models!Caps
  <2>1. modelsEntry[m] \in Model
    BY DEF ModelsInv
  <2> QED
    BY <2>1 DEF Model
<1>4. DOMAIN listing \subseteq Known
  BY DEF ModelsInv
<1> QED
  BY <1>1, <1>2, <1>3, <1>4, ModelsSizes DEF Models!TypeOK, RankInv

-----------------------------------------------------------------------------
(* Routing. *)

\* What Routing asks of its constants.
LEMMA RoutingBounds == Routing!RoutingConstants
BY MCRequestsConstants

RoutingTypes ==
  /\ route \in [Workers -> Routing!Routes]
  /\ active \in [Nodes -> Nat]
  /\ call \in [Workers -> {"idle", "waiting", "seenIdle", "counted", "streaming"}]
  /\ closing \in [Workers -> Nat]
  /\ calls \in [Workers -> 0..MaxStreams]
  /\ counter \in 0..(IF PoolSize = 0 THEN 0 ELSE PoolSize - 1)

\* Every call has at most one forwarder, and a worker without a node has none.
CallsAreFew ==
  \A w \in Workers : /\ closing[w] + (IF call[w] = "idle" THEN 0 ELSE 1) <= calls[w]
                     /\ route[w] = <<"none">> => call[w] = "idle" /\ closing[w] = 0

\* What a node should count: the calls that it was asked for, as 0, and the forwarders that hold
\* their count, numbered from 1.
Held(n) ==
  {x \in Workers \X (0..MaxStreams) :
     /\ route[x[1]] = Routing!Node(n)
     /\ \/ x[2] = 0 /\ call[x[1]] \in {"counted", "streaming"}
        \/ x[2] \in 1..closing[x[1]]}

CountsAreTrue == \A n \in Nodes : active[n] = Cardinality(Held(n))

RoutingInv == RoutingTypes /\ CallsAreFew /\ CountsAreTrue

\* Finite sets and their sizes are the library's.
LEMMA RoutingSizes == \A S : Routing!IsFiniteSet(S) = IsFiniteSet(S) /\ Routing!Cardinality(S) = Cardinality(S)
BY DEF Routing!IsFiniteSet, IsFiniteSet, Routing!Cardinality, Cardinality

\* What a node should count is finite.
LEMMA HeldFinite == ASSUME NEW n PROVE IsFiniteSet(Held(n)) /\ Cardinality(Held(n)) \in Nat
<1>1. IsFiniteSet(Workers) /\ IsFiniteSet(0..MaxStreams)
  BY RoutingBounds, RoutingSizes, FS_Interval DEF Routing!RoutingConstants
<1>2. IsFiniteSet(Workers \X (0..MaxStreams))
  BY <1>1, FS_Product
<1>3. Held(n) \subseteq Workers \X (0..MaxStreams)
  BY DEF Held
<1> QED
  BY <1>2, <1>3, FS_Subset, FS_CardinalityType

\* Two nodes are two routes.
LEMMA NodesDiffer == ASSUME NEW n, NEW m, Routing!Node(n) = Routing!Node(m) PROVE n = m
BY DEF Routing!Node

\* A set with one element more, and one less.
LEMMA OneMoreHeld ==
  ASSUME NEW S, IsFiniteSet(S), NEW x
  PROVE  /\ x \notin S => Cardinality(S \cup {x}) = Cardinality(S) + 1
         /\ x \in S => Cardinality(S \ {x}) = Cardinality(S) - 1 /\ IsFiniteSet(S \ {x})
BY FS_AddElement, FS_RemoveElement

\* The round robin points into the pool.
LEMMA CounterBound ==
  ASSUME RoutingTypes
  PROVE  /\ PoolSize \in Nat /\ counter \in Nat /\ (PoolSize > 0 => counter \in 0..PoolSize - 1)
         /\ PoolSize = 0 => counter = 0
BY RoutingBounds DEF RoutingTypes, Routing!RoutingConstants

\* A remainder.
LEMMA Remainder == ASSUME NEW a \in Nat, NEW b \in Nat, b > 0 PROVE a % b \in 0..b - 1
OBVIOUS

\* The round robin stays within the pool.
LEMMA CounterMoves ==
  ASSUME NEW p \in Nat, NEW c \in 0..(IF p = 0 THEN 0 ELSE p - 1), NEW d,
         d = c \/ (d = (c + 1) % p /\ \E i \in 1..p : TRUE)
  PROVE  d \in 0..(IF p = 0 THEN 0 ELSE p - 1)
<1>1. CASE d = c
  BY <1>1
<1>2. CASE d = (c + 1) % p /\ \E i \in 1..p : TRUE
  <2>1. p > 0
    BY <1>2
  <2>2. (c + 1) % p \in 0..p - 1
    BY <2>1, Remainder
  <2> QED
    BY <1>2, <2>1, <2>2
<1> QED
  BY <1>1, <1>2

\* What the registry answers is an entry of the pool or none.
LEMMA AnswersArePool == ASSUME NEW caps, NEW k \in Routing!Answers(caps) PROVE k \in 0..PoolSize
BY RoutingBounds DEF Routing!RoutingConstants, Routing!Answers

\* A worker without calls holds no count.
LEMMA IdleHoldsNothing ==
  ASSUME NEW x, NEW i, call[x] = "idle", closing[x] = 0
  PROVE  ~(i = 0 /\ call[x] \in {"counted", "streaming"}) /\ i \notin 1..closing[x]
<1>1. 1..closing[x] = {}
  OBVIOUS
<1> QED
  BY <1>1

\* One call more leaves room for the forwarders.
LEMMA CallMore == ASSUME NEW a \in Nat, NEW b \in Nat, a <= b PROVE a + 1 <= b + 1 /\ a + 0 <= b + 1
OBVIOUS

\* Before any worker.
LEMMA RoutingInit == ASSUME Routing!Init PROVE RoutingInv
<1>1. RoutingTypes /\ CallsAreFew
  BY RoutingBounds DEF Routing!Init, RoutingTypes, CallsAreFew, Routing!RoutingConstants, Routing!Routes
<1>2. \A n \in Nodes : Held(n) = {}
  BY DEF Routing!Init, Held
<1>3. \A n \in Nodes : active[n] = 0
  BY DEF Routing!Init
<1> QED
  BY <1>1, <1>2, <1>3, FS_EmptySet DEF RoutingInv, CountsAreTrue

\* A step that leaves the routes, the counted calls and the forwarders leaves what nodes should count.
LEMMA HeldSame ==
  ASSUME NEW n, UNCHANGED <<route, closing>>,
         \A w \in Workers : call'[w] \in {"counted", "streaming"} <=> call[w] \in {"counted", "streaming"}
  PROVE  Held(n)' = Held(n)
<1>1. \A x \in Workers \X (0..MaxStreams) : x[1] \in Workers
  OBVIOUS
<1> QED
  BY <1>1 DEF Held

\* The route that the factory gives is one.
LEMMA FactoryRoutes ==
  ASSUME RoutingTypes, NEW tier, NEW known \in 0..PoolSize, NEW r \in Routing!Factory(tier, known)
  PROVE  r \in Routing!Routes /\ r # <<"none">>
<1>1. PoolSize \in Nat /\ counter \in Nat /\ (PoolSize > 0 => counter + 1 \in 1..PoolSize)
  BY RoutingBounds DEF RoutingTypes, Routing!RoutingConstants
<1>2. PoolSize > 0 => \A x \in Routing!Picks(known) : \E i \in 1..PoolSize : x = Routing!PoolEntry(i)
  BY <1>1 DEF Routing!Picks
<1>3. \A n \in Routing!LeastBusy : n \in Nodes
  BY DEF Routing!LeastBusy
<1>4. \/ r = <<"master">> \/ r = <<"sub">> \/ \E i \in 1..PoolSize : r = Routing!PoolEntry(i)
      \/ \E n \in Nodes : r = Routing!Node(n)
  <2> DEFINE pool == IF PoolSize > 0 THEN Routing!Picks(known) ELSE {<<"sub">>}
             fleet == {Routing!Node(n) : n \in Routing!LeastBusy}
  <2>1. r \in {<<"master">>} \/ r \in fleet \/ r \in pool
    <3>1. Routing!Factory(tier, known) =
            CASE tier \in {"opus", "flagship"} -> {<<"master">>}
              [] tier \in {"haiku", "fast", "tiny"} ->
                   IF Nodes # {} /\ FleetMode \in {"full", "subset"} THEN fleet ELSE pool
              [] OTHER -> IF Nodes # {} /\ FleetMode = "full" THEN fleet ELSE pool
      BY DEF Routing!Factory
    <3> HIDE DEF pool, fleet
    <3> QED
      BY <3>1
  <2> QED
    BY <1>2, <1>3, <2>1
<1>5. r # <<"none">>
  BY <1>4 DEF Routing!PoolEntry, Routing!Node
<1> QED
  BY <1>4, <1>5 DEF Routing!Routes

\* A worker is given its route.
LEMMA SpawnStep == ASSUME RoutingInv, NEW w \in Workers, Routing!Spawn(w) PROVE RoutingInv'
<1>1. RoutingTypes /\ CallsAreFew /\ CountsAreTrue
  BY DEF RoutingInv
<1>2. PICK tier \in {"", "haiku", "sonnet", "opus"}, role \in Roles, o \in Objectives :
        \E known \in Routing!Answers(Routing!TaskCaps({}, role, o)) : \E r \in Routing!Factory(Routing!TaskTier(tier, role, o), known) :
            /\ route' = [route EXCEPT ![w] = r]
            /\ counter' = IF known = 0 /\ r \in {Routing!PoolEntry(i) : i \in 1..PoolSize}
                          THEN (counter + 1) % PoolSize ELSE counter
  BY DEF Routing!Spawn
<1>3. PICK known \in Routing!Answers(Routing!TaskCaps({}, role, o)) : \E r \in Routing!Factory(Routing!TaskTier(tier, role, o), known) :
            /\ route' = [route EXCEPT ![w] = r]
            /\ counter' = IF known = 0 /\ r \in {Routing!PoolEntry(i) : i \in 1..PoolSize}
                          THEN (counter + 1) % PoolSize ELSE counter
  BY <1>2
<1>4. PICK r \in Routing!Factory(Routing!TaskTier(tier, role, o), known) :
            /\ route' = [route EXCEPT ![w] = r]
            /\ counter' = IF known = 0 /\ r \in {Routing!PoolEntry(i) : i \in 1..PoolSize}
                          THEN (counter + 1) % PoolSize ELSE counter
  BY <1>3
<1>5. known \in 0..PoolSize
  BY AnswersArePool
<1>6. r \in Routing!Routes /\ r # <<"none">>
  BY <1>1, <1>5, FactoryRoutes
<1>7. route' \in [Workers -> Routing!Routes] /\ route'[w] = r /\ \A v \in Workers \ {w} : route'[v] = route[v]
  BY <1>1, <1>4, <1>6 DEF RoutingTypes
<1>8. UNCHANGED <<active, call, calls, closing>> /\ route[w] = <<"none">>
  BY DEF Routing!Spawn
<1>9. counter' \in 0..(IF PoolSize = 0 THEN 0 ELSE PoolSize - 1)
  <2>1. counter \in 0..(IF PoolSize = 0 THEN 0 ELSE PoolSize - 1) /\ PoolSize \in Nat
    BY <1>1, RoutingBounds DEF RoutingTypes, Routing!RoutingConstants
  <2>2. counter' = counter \/ (counter' = (counter + 1) % PoolSize /\ \E i \in 1..PoolSize : TRUE)
    <3>1. counter' = counter \/ (counter' = (counter + 1) % PoolSize /\ r \in {Routing!PoolEntry(i) : i \in 1..PoolSize})
      BY <1>4
    <3> QED
      BY <3>1
  <2> QED
    BY <2>1, <2>2, CounterMoves
<1>10. call[w] = "idle" /\ closing[w] = 0
  BY <1>1, <1>8 DEF CallsAreFew
<1>11. \A n \in Nodes : Held(n)' = Held(n)
  <2>1. \A x \in Workers \X (0..MaxStreams) : x[1] = w => ~(\/ x[2] = 0 /\ call[x[1]] \in {"counted", "streaming"}
                                                           \/ x[2] \in 1..closing[x[1]])
    BY <1>10, IdleHoldsNothing
  <2>2. \A x \in Workers \X (0..MaxStreams) : x[1] # w => x[1] \in Workers \ {w}
    OBVIOUS
  <2>3. \A x \in Workers \X (0..MaxStreams) : x[1] # w => route'[x[1]] = route[x[1]]
    BY <1>7, <2>2
  <2> QED
    BY <1>8, <2>1, <2>3 DEF Held
<1>12. RoutingTypes'
  BY <1>1, <1>7, <1>8, <1>9 DEF RoutingTypes
<1>13. CallsAreFew'
  BY <1>1, <1>6, <1>7, <1>8 DEF CallsAreFew
<1>14. CountsAreTrue'
  BY <1>1, <1>8, <1>11 DEF CountsAreTrue
<1> QED
  BY <1>12, <1>13, <1>14 DEF RoutingInv

\* The round robin moves on.
LEMMA AskStep == ASSUME RoutingInv, Routing!MasterAsks PROVE RoutingInv'
<1>1. RoutingTypes /\ CallsAreFew /\ CountsAreTrue
  BY DEF RoutingInv
<1>2. UNCHANGED <<route, active, call, calls, closing>> /\ PoolSize > 0 /\ PoolSize \in Nat /\ counter \in Nat
  BY <1>1, RoutingBounds DEF Routing!MasterAsks, RoutingTypes, Routing!RoutingConstants
<1>3. \E S \in SUBSET {"haiku", "sonnet"} : counter' = (counter + Cardinality(S)) % PoolSize
  <2>1. PICK known \in {{}, {"haiku"}, {"sonnet"}, {"haiku", "sonnet"}} :
         \E haiku \in Routing!Factory("haiku", IF "haiku" \in known THEN 1 ELSE 0) :
           LET toPool == haiku[1] = "pool"
               wanted == (IF toPool THEN {"haiku", "sonnet"} ELSE {}) \ known
           IN counter' = (counter + Cardinality(wanted)) % PoolSize
    BY RoutingSizes DEF Routing!MasterAsks
  <2>2. PICK haiku \in Routing!Factory("haiku", IF "haiku" \in known THEN 1 ELSE 0) :
           counter' = (counter + Cardinality((IF haiku[1] = "pool" THEN {"haiku", "sonnet"} ELSE {}) \ known)) % PoolSize
    BY <2>1
  <2> DEFINE S == (IF haiku[1] = "pool" THEN {"haiku", "sonnet"} ELSE {}) \ known
  <2>3. S \in SUBSET {"haiku", "sonnet"} /\ counter' = (counter + Cardinality(S)) % PoolSize
    BY <2>2
  <2> QED
    BY <2>3
<1>4. PICK S \in SUBSET {"haiku", "sonnet"} : counter' = (counter + Cardinality(S)) % PoolSize
  BY <1>3
<1>5. Cardinality(S) \in Nat
  <2>1. IsFiniteSet({"haiku", "sonnet"})
    <3>1. IsFiniteSet({"haiku"})
      BY FS_Singleton
    <3>2. {"haiku", "sonnet"} = {"haiku"} \cup {"sonnet"}
      OBVIOUS
    <3> QED
      BY <3>1, <3>2, FS_AddElement
  <2> QED
    BY <2>1, FS_Subset, FS_CardinalityType
<1>6. counter' \in 0..PoolSize - 1
  BY <1>2, <1>4, <1>5
<1>7. \A n \in Nodes : Held(n)' = Held(n)
  BY <1>2, HeldSame
<1> QED
  BY <1>1, <1>2, <1>6, <1>7 DEF RoutingInv, RoutingTypes, CallsAreFew, CountsAreTrue

\* A step of a call before it is counted, or after it is accepted.
LEMMA CallStep ==
  ASSUME RoutingInv, NEW w \in Workers,
         Routing!StopsWaiting(w) \/ Routing!Accepted(w) \/ \E n \in Nodes : Routing!Stream(w, n) \/ Routing!GoesOn(w, n)
  PROVE  RoutingInv'
<1>1. RoutingTypes /\ CallsAreFew /\ CountsAreTrue
  BY DEF RoutingInv
<1>2. UNCHANGED <<route, active, closing, counter>>
  BY DEF Routing!StopsWaiting, Routing!Accepted, Routing!Stream, Routing!GoesOn
<1>3. /\ call' \in [Workers -> {"idle", "waiting", "seenIdle", "counted", "streaming"}]
      /\ \A v \in Workers \ {w} : call'[v] = call[v]
      /\ call'[w] \in {"counted", "streaming"} <=> call[w] \in {"counted", "streaming"}
  BY <1>1 DEF RoutingTypes, Routing!StopsWaiting, Routing!Accepted, Routing!Stream, Routing!GoesOn
<1>4. \A n \in Nodes : Held(n)' = Held(n)
  BY <1>2, <1>3, HeldSame
<1>5. CASE Routing!StopsWaiting(w) \/ Routing!Accepted(w) \/ \E n \in Nodes : Routing!GoesOn(w, n)
  <2>1. calls' = calls /\ call[w] # "idle"
    BY <1>5 DEF Routing!StopsWaiting, Routing!Accepted, Routing!GoesOn
  <2>2. CallsAreFew'
    <3> SUFFICES ASSUME NEW v \in Workers
        PROVE  /\ closing'[v] + (IF call'[v] = "idle" THEN 0 ELSE 1) <= calls'[v]
               /\ route'[v] = <<"none">> => call'[v] = "idle" /\ closing'[v] = 0
      BY DEF CallsAreFew
    <3>1. closing[v] \in Nat /\ calls[v] \in Nat
      BY <1>1, RoutingBounds DEF RoutingTypes, Routing!RoutingConstants
    <3> QED
      BY <1>1, <1>2, <1>3, <2>1, <3>1 DEF CallsAreFew
  <2> QED
    BY <1>1, <1>2, <1>3, <1>4, <2>1, <2>2 DEF RoutingInv, RoutingTypes, CountsAreTrue
<1>6. CASE \E n \in Nodes : Routing!Stream(w, n)
  <2>1. PICK n \in Nodes : Routing!Stream(w, n)
    BY <1>6
  <2>2. /\ calls' = [calls EXCEPT ![w] = @ + 1] /\ calls[w] < MaxStreams /\ call[w] = "idle" /\ route[w] = Routing!Node(n)
    BY <2>1 DEF Routing!Stream, Routing!OnNode
  <2>3. calls \in [Workers -> 0..MaxStreams] /\ MaxStreams \in Nat
    BY <1>1, RoutingBounds DEF RoutingTypes, Routing!RoutingConstants
  <2>4. calls' \in [Workers -> 0..MaxStreams] /\ calls'[w] = calls[w] + 1 /\ \A v \in Workers \ {w} : calls'[v] = calls[v]
    BY <2>2, <2>3
  <2>5. Routing!Node(n) # <<"none">>
    BY DEF Routing!Node
  <2>6. CallsAreFew'
    <3> SUFFICES ASSUME NEW v \in Workers
        PROVE  /\ closing'[v] + (IF call'[v] = "idle" THEN 0 ELSE 1) <= calls'[v]
               /\ route'[v] = <<"none">> => call'[v] = "idle" /\ closing'[v] = 0
      BY DEF CallsAreFew
    <3>1. closing[v] \in Nat /\ calls[v] \in Nat
      BY <1>1, RoutingBounds DEF RoutingTypes, Routing!RoutingConstants
    <3>2. CASE v = w
      <4>1. closing[w] <= calls[w]
        BY <1>1, <2>2, <3>1, <3>2 DEF CallsAreFew
      <4> QED
        <5>1. closing'[v] = closing[w] /\ calls'[v] = calls[w] + 1 /\ route'[v] # <<"none">> /\ closing[w] \in Nat /\ calls[w] \in Nat
          BY <1>2, <2>2, <2>4, <2>5, <3>1, <3>2
        <5>2. closing[w] + 1 <= calls[w] + 1 /\ closing[w] + 0 <= calls[w] + 1
          BY <4>1, <5>1, CallMore
        <5> QED
          BY <5>1, <5>2
    <3>3. CASE v # w
      BY <1>1, <1>2, <1>3, <2>4, <3>3 DEF CallsAreFew
    <3> QED
      BY <3>2, <3>3
  <2> QED
    BY <1>1, <1>2, <1>3, <1>4, <2>4, <2>6 DEF RoutingInv, RoutingTypes, CountsAreTrue
<1> QED
  BY <1>5, <1>6

\* What a node should count when a call of w is counted, refused or taken back: one more, or less.
LEMMA CountStep ==
  ASSUME RoutingInv, NEW w \in Workers, NEW n \in Nodes, Routing!Counts(w, n) \/ Routing!Refused(w, n) \/ Routing!TakesBack(w, n)
  PROVE  RoutingInv'
<1>1. RoutingTypes /\ CallsAreFew /\ CountsAreTrue
  BY DEF RoutingInv
<1>2. UNCHANGED <<route, calls, counter>> /\ route[w] = Routing!Node(n)
  BY DEF Routing!Counts, Routing!Refused, Routing!TakesBack, Routing!OnNode
<1>3. \A m \in Nodes \ {n} : route[w] # Routing!Node(m)
  BY <1>2, NodesDiffer
<1>4. /\ \A v \in Workers \ {w} : call'[v] = call[v] /\ closing'[v] = closing[v]
      /\ \A m \in Nodes \ {n} : active'[m] = active[m]
  BY <1>1 DEF RoutingTypes, Routing!Counts, Routing!Refused, Routing!TakesBack
<1>5. \A m \in Nodes \ {n} : Held(m)' = Held(m)
  <2> SUFFICES ASSUME NEW m \in Nodes \ {n}, NEW x \in Workers \X (0..MaxStreams), route[x[1]] = Routing!Node(m)
      PROVE  call'[x[1]] = call[x[1]] /\ closing'[x[1]] = closing[x[1]]
    BY <1>2 DEF Held
  <2>1. x[1] \in Workers /\ x[1] # w
    BY <1>3
  <2> QED
    BY <1>4, <2>1
<1>6. active[n] = Cardinality(Held(n)) /\ active[n] \in Nat /\ active \in [Nodes -> Nat]
  BY <1>1 DEF CountsAreTrue, RoutingTypes
<1>7. closing[w] \in Nat /\ calls[w] \in 0..MaxStreams /\ MaxStreams \in Nat /\ closing \in [Workers -> Nat]
  BY <1>1, RoutingBounds DEF RoutingTypes, Routing!RoutingConstants
<1>8. \A v \in Workers : closing[v] + (IF call[v] = "idle" THEN 0 ELSE 1) <= calls[v]
  BY <1>1 DEF CallsAreFew
<1>9. CASE Routing!Counts(w, n)
  <2>1. active' = [active EXCEPT ![n] = @ + 1] /\ call[w] = "seenIdle" /\ call' = [call EXCEPT ![w] = "counted"] /\ closing' = closing
    BY <1>9 DEF Routing!Counts
  <2>2. call' \in [Workers -> {"idle", "waiting", "seenIdle", "counted", "streaming"}] /\ call'[w] = "counted"
    BY <1>1, <2>1 DEF RoutingTypes
  <2>3. active' \in [Nodes -> Nat] /\ active'[n] = active[n] + 1
    BY <1>6, <2>1
  <2>4. <<w, 0>> \notin Held(n) /\ Held(n)' = Held(n) \cup {<<w, 0>>}
    <3>1. <<w, 0>> \in Workers \X (0..MaxStreams)
      BY <1>7
    <3>2. \A x \in Workers \X (0..MaxStreams) : x[1] = w /\ x[2] = 0 <=> x = <<w, 0>>
      OBVIOUS
    <3>3. <<w, 0>> \notin Held(n)
      BY <1>7, <2>1 DEF Held
    <3>4. ASSUME NEW x \in Workers \X (0..MaxStreams) PROVE x \in Held(n)' <=> x \in Held(n) \/ x = <<w, 0>>
      <4>1. CASE x[1] # w
        BY <1>2, <1>4, <3>2, <4>1 DEF Held
      <4>2. CASE x[1] = w
        BY <1>2, <2>1, <2>2, <3>2, <4>2 DEF Held
      <4> QED
        BY <4>1, <4>2
    <3>5. Held(n)' \subseteq Workers \X (0..MaxStreams) /\ Held(n) \subseteq Workers \X (0..MaxStreams)
      BY DEF Held
    <3> QED
      BY <3>1, <3>3, <3>4, <3>5
  <2>5. Cardinality(Held(n)') = active'[n]
    BY <1>6, <2>3, <2>4, HeldFinite, OneMoreHeld
  <2>6. CountsAreTrue'
    BY <1>1, <1>4, <1>5, <2>5 DEF CountsAreTrue
  <2>7. CallsAreFew'
    BY <1>1, <1>2, <1>4, <2>1, <2>2, <1>8 DEF CallsAreFew
  <2> QED
    BY <1>1, <1>2, <2>1, <2>2, <2>3, <2>6, <2>7 DEF RoutingInv, RoutingTypes
<1>10. CASE Routing!Refused(w, n)
  <2>1. active' = [active EXCEPT ![n] = @ - 1] /\ call[w] = "counted" /\ call' = [call EXCEPT ![w] = "idle"] /\ closing' = closing
    BY <1>10 DEF Routing!Refused
  <2>2. call' \in [Workers -> {"idle", "waiting", "seenIdle", "counted", "streaming"}] /\ call'[w] = "idle"
    BY <1>1, <2>1 DEF RoutingTypes
  <2>3. <<w, 0>> \in Held(n) /\ Held(n)' = Held(n) \ {<<w, 0>>}
    <3>1. <<w, 0>> \in Workers \X (0..MaxStreams)
      BY <1>7
    <3>2. \A x \in Workers \X (0..MaxStreams) : x[1] = w /\ x[2] = 0 <=> x = <<w, 0>>
      OBVIOUS
    <3>3. <<w, 0>> \in Held(n)
      BY <1>2, <2>1, <3>1 DEF Held
    <3>4. ASSUME NEW x \in Workers \X (0..MaxStreams) PROVE x \in Held(n)' <=> x \in Held(n) /\ x # <<w, 0>>
      <4>1. CASE x[1] # w
        BY <1>2, <1>4, <3>2, <4>1 DEF Held
      <4>2. CASE x[1] = w
        <5>1. x \in Held(n)' <=> x[2] \in 1..closing[w]
          BY <1>2, <2>1, <2>2, <4>2 DEF Held
        <5>2. x \in Held(n) <=> x[2] = 0 \/ x[2] \in 1..closing[w]
          BY <1>2, <2>1, <4>2 DEF Held
        <5> QED
          BY <1>7, <3>2, <4>2, <5>1, <5>2
      <4> QED
        BY <4>1, <4>2
    <3>5. Held(n)' \subseteq Workers \X (0..MaxStreams) /\ Held(n) \subseteq Workers \X (0..MaxStreams)
      BY DEF Held
    <3> QED
      BY <3>1, <3>3, <3>4, <3>5
  <2>4. Cardinality(Held(n)') = active[n] - 1 /\ Cardinality(Held(n)') \in Nat
    <3>1. IsFiniteSet(Held(n) \ {<<w, 0>>})
      BY <2>3, HeldFinite, OneMoreHeld
    <3> QED
      BY <1>6, <2>3, <3>1, HeldFinite, OneMoreHeld, FS_CardinalityType
  <2>5. active' \in [Nodes -> Nat] /\ active'[n] = active[n] - 1
    BY <1>6, <2>1, <2>4
  <2>6. CountsAreTrue'
    BY <1>1, <1>4, <1>5, <2>4, <2>5 DEF CountsAreTrue
  <2>7. CallsAreFew'
    <3> SUFFICES ASSUME NEW v \in Workers
        PROVE  /\ closing'[v] + (IF call'[v] = "idle" THEN 0 ELSE 1) <= calls'[v]
               /\ route'[v] = <<"none">> => call'[v] = "idle" /\ closing'[v] = 0
      BY DEF CallsAreFew
    <3>1. closing[v] \in Nat /\ calls[v] \in Nat
      BY <1>1, RoutingBounds DEF RoutingTypes, Routing!RoutingConstants
    <3> QED
      BY <1>1, <1>2, <1>4, <2>1, <2>2, <1>8, <3>1 DEF CallsAreFew
  <2> QED
    BY <1>1, <1>2, <2>1, <2>2, <2>5, <2>6, <2>7 DEF RoutingInv, RoutingTypes
<1>11. CASE Routing!TakesBack(w, n)
  <2>1. /\ active' = [active EXCEPT ![n] = @ - 1] /\ closing[w] > 0 /\ closing' = [closing EXCEPT ![w] = @ - 1] /\ call' = call
    BY <1>11 DEF Routing!TakesBack
  <2> DEFINE k == closing[w]
  <2>2. closing' \in [Workers -> Nat] /\ closing'[w] = k - 1 /\ k \in Nat /\ k > 0
    BY <1>7, <2>1
  <2>3. k <= MaxStreams
    BY <1>7, <1>8
  <2>4. <<w, k>> \in Held(n) /\ Held(n)' = Held(n) \ {<<w, k>>}
    <3> HIDE DEF k
    <3>1. <<w, k>> \in Workers \X (0..MaxStreams)
      BY <1>7, <2>2, <2>3
    <3>2. \A x \in Workers \X (0..MaxStreams) : x[1] = w /\ x[2] = k <=> x = <<w, k>>
      OBVIOUS
    <3>3. <<w, k>> \in Held(n)
      BY <1>2, <2>2, <3>1 DEF Held, k
    <3>4. ASSUME NEW x \in Workers \X (0..MaxStreams) PROVE x \in Held(n)' <=> x \in Held(n) /\ x # <<w, k>>
      <4>1. CASE x[1] # w
        BY <1>2, <1>4, <3>2, <4>1 DEF Held
      <4>2. CASE x[1] = w
        <5>1. x \in Held(n)' <=> (x[2] = 0 /\ call[w] \in {"counted", "streaming"}) \/ x[2] \in 1..k - 1
          BY <1>2, <2>1, <2>2, <4>2 DEF Held
        <5>2. x \in Held(n) <=> (x[2] = 0 /\ call[w] \in {"counted", "streaming"}) \/ x[2] \in 1..k
          BY <1>2, <4>2 DEF Held, k
        <5>3. x[2] \in 0..MaxStreams
          OBVIOUS
        <5> QED
          BY <1>7, <2>2, <3>2, <4>2, <5>1, <5>2, <5>3
      <4> QED
        BY <4>1, <4>2
    <3>5. Held(n)' \subseteq Workers \X (0..MaxStreams) /\ Held(n) \subseteq Workers \X (0..MaxStreams)
      BY DEF Held
    <3> QED
      BY <3>1, <3>3, <3>4, <3>5
  <2> HIDE DEF k
  <2>5. Cardinality(Held(n)') = active[n] - 1 /\ Cardinality(Held(n)') \in Nat
    <3>1. IsFiniteSet(Held(n) \ {<<w, k>>})
      BY <2>4, HeldFinite, OneMoreHeld
    <3> QED
      BY <1>6, <2>4, <3>1, HeldFinite, OneMoreHeld, FS_CardinalityType
  <2>6. active' \in [Nodes -> Nat] /\ active'[n] = active[n] - 1
    BY <1>6, <2>1, <2>5
  <2>7. CountsAreTrue'
    BY <1>1, <1>4, <1>5, <2>5, <2>6 DEF CountsAreTrue
  <2>8. CallsAreFew'
    <3> SUFFICES ASSUME NEW v \in Workers
        PROVE  /\ closing'[v] + (IF call'[v] = "idle" THEN 0 ELSE 1) <= calls'[v]
               /\ route'[v] = <<"none">> => call'[v] = "idle" /\ closing'[v] = 0
      BY DEF CallsAreFew
    <3>1. closing[v] \in Nat /\ calls[v] \in Nat
      BY <1>1, RoutingBounds DEF RoutingTypes, Routing!RoutingConstants
    <3>2. route[w] # <<"none">>
      BY <1>2 DEF Routing!Node
    <3> QED
      BY <1>1, <1>2, <1>4, <2>1, <2>2, <1>8, <3>1, <3>2 DEF CallsAreFew, k
  <2> QED
    BY <1>1, <1>2, <2>1, <2>2, <2>6, <2>7, <2>8 DEF RoutingInv, RoutingTypes
<1> QED
  BY <1>9, <1>10, <1>11

\* A stream ends: its forwarder holds the count that the call had.
LEMMA EndsStep == ASSUME RoutingInv, NEW w \in Workers, Routing!Ends(w) PROVE RoutingInv'
<1>1. RoutingTypes /\ CallsAreFew /\ CountsAreTrue
  BY DEF RoutingInv
<1>2. /\ call[w] = "streaming" /\ call' = [call EXCEPT ![w] = "idle"] /\ closing' = [closing EXCEPT ![w] = @ + 1]
      /\ UNCHANGED <<route, active, calls, counter>>
  BY DEF Routing!Ends
<1> DEFINE k == closing[w] + 1
<1>3. closing[w] \in Nat /\ calls[w] \in 0..MaxStreams /\ MaxStreams \in Nat /\ closing[w] + 1 <= calls[w]
  BY <1>1, <1>2, RoutingBounds DEF RoutingTypes, Routing!RoutingConstants, CallsAreFew
<1>4. /\ call' \in [Workers -> {"idle", "waiting", "seenIdle", "counted", "streaming"}] /\ call'[w] = "idle"
      /\ closing' \in [Workers -> Nat] /\ closing'[w] = k
      /\ \A v \in Workers \ {w} : call'[v] = call[v] /\ closing'[v] = closing[v]
  BY <1>1, <1>2 DEF RoutingTypes
<1>5. k \in Nat /\ k <= MaxStreams /\ k > 0 /\ closing[w] = k - 1
  BY <1>3
<1> HIDE DEF k
<1>6. ASSUME NEW n \in Nodes PROVE Cardinality(Held(n)') = Cardinality(Held(n))
  <2>1. CASE route[w] # Routing!Node(n)
    <3>1. Held(n)' = Held(n)
      <4> SUFFICES ASSUME NEW x \in Workers \X (0..MaxStreams), route[x[1]] = Routing!Node(n)
          PROVE  call'[x[1]] = call[x[1]] /\ closing'[x[1]] = closing[x[1]]
        BY <1>2 DEF Held
      <4>1. x[1] \in Workers /\ x[1] # w
        BY <2>1
      <4> QED
        BY <1>4, <4>1
    <3> QED
      BY <3>1
  <2>2. CASE route[w] = Routing!Node(n)
    <3> DEFINE R == Held(n) \ {<<w, 0>>}
    <3>1. <<w, 0>> \in Workers \X (0..MaxStreams) /\ <<w, k>> \in Workers \X (0..MaxStreams)
      BY <1>3, <1>5
    <3>2. \A x \in Workers \X (0..MaxStreams) : /\ x[1] = w /\ x[2] = 0 <=> x = <<w, 0>>
                                                /\ x[1] = w /\ x[2] = k <=> x = <<w, k>>
      OBVIOUS
    <3>3. <<w, 0>> \in Held(n) /\ <<w, k>> \notin R
      <4>1. <<w, 0>> \in Held(n)
        BY <1>2, <2>2, <3>1 DEF Held
      <4>2. <<w, k>> \notin Held(n)
        BY <1>5 DEF Held
      <4> QED
        BY <4>1, <4>2
    <3>4. ASSUME NEW x \in Workers \X (0..MaxStreams) PROVE x \in Held(n)' <=> (x \in Held(n) /\ x # <<w, 0>>) \/ x = <<w, k>>
      <4>1. CASE x[1] # w
        BY <1>2, <1>4, <3>2, <4>1 DEF Held
      <4>2. CASE x[1] = w
        <5>1. x \in Held(n)' <=> x[2] \in 1..k
          BY <1>2, <1>4, <2>2, <4>2 DEF Held
        <5>2. x \in Held(n) <=> x[2] = 0 \/ x[2] \in 1..k - 1
          BY <1>2, <1>5, <2>2, <4>2 DEF Held
        <5>3. x[2] \in 0..MaxStreams
          OBVIOUS
        <5> QED
          BY <1>3, <1>5, <3>2, <4>2, <5>1, <5>2, <5>3
      <4> QED
        BY <4>1, <4>2
    <3>5. Held(n)' \subseteq Workers \X (0..MaxStreams) /\ Held(n) \subseteq Workers \X (0..MaxStreams)
      BY DEF Held
    <3>6. Held(n)' = R \cup {<<w, k>>}
      BY <3>1, <3>4, <3>5
    <3>7. Cardinality(R) = Cardinality(Held(n)) - 1 /\ IsFiniteSet(R)
      BY <3>3, HeldFinite, OneMoreHeld
    <3>8. Cardinality(R \cup {<<w, k>>}) = Cardinality(R) + 1
      BY <3>3, <3>7, OneMoreHeld
    <3> QED
      BY <3>6, <3>7, <3>8, HeldFinite
  <2> QED
    BY <2>1, <2>2
<1>7. CountsAreTrue'
  BY <1>1, <1>2, <1>6 DEF CountsAreTrue
<1>8. CallsAreFew'
  <2> SUFFICES ASSUME NEW v \in Workers
      PROVE  /\ closing'[v] + (IF call'[v] = "idle" THEN 0 ELSE 1) <= calls'[v]
             /\ route'[v] = <<"none">> => call'[v] = "idle" /\ closing'[v] = 0
    BY DEF CallsAreFew
  <2>1. closing[v] \in Nat /\ calls[v] \in Nat
    BY <1>1, RoutingBounds DEF RoutingTypes, Routing!RoutingConstants
  <2>2. CASE v = w
    BY <1>1, <1>2, <1>3, <1>4, <1>5, <2>2 DEF CallsAreFew
  <2>3. CASE v # w
    BY <1>1, <1>2, <1>4, <2>1, <2>3 DEF CallsAreFew
  <2> QED
    BY <2>2, <2>3
<1> QED
  BY <1>1, <1>2, <1>4, <1>7, <1>8 DEF RoutingInv, RoutingTypes

\* Every step keeps the invariant.
LEMMA RoutingStep == ASSUME RoutingInv, [Routing!Next]_Routing!vars PROVE RoutingInv'
<1>1. CASE UNCHANGED Routing!vars
  <2>1. \A n \in Nodes : Held(n)' = Held(n)
    BY <1>1, HeldSame DEF Routing!vars
  <2> QED
    BY <1>1, <2>1 DEF Routing!vars, RoutingInv, RoutingTypes, CallsAreFew, CountsAreTrue
<1> QED
  BY <1>1, SpawnStep, AskStep, CallStep, CountStep, EndsStep DEF Routing!Next

\* A node counts calls only while some are under way.
LEMMA RoutingTold == ASSUME RoutingInv PROVE Routing!TypeOK /\ Routing!QuietFleetIsIdle
<1>1. Routing!TypeOK
  <2>1. \A w \in Workers : closing[w] \in 0..MaxStreams
    <3> SUFFICES ASSUME NEW w \in Workers PROVE closing[w] \in 0..MaxStreams
      OBVIOUS
    <3>1. closing[w] \in Nat /\ calls[w] \in 0..MaxStreams /\ MaxStreams \in Nat /\ closing[w] + (IF call[w] = "idle" THEN 0 ELSE 1) <= calls[w]
      BY RoutingBounds DEF RoutingInv, RoutingTypes, CallsAreFew, Routing!RoutingConstants
    <3> QED
      BY <3>1
  <2>2. closing \in [Workers -> 0..MaxStreams]
    BY <2>1 DEF RoutingInv, RoutingTypes
  <2> QED
    BY <2>2 DEF RoutingInv, RoutingTypes, Routing!TypeOK
<1>2. ASSUME \A w \in Workers : call[w] \in {"idle", "waiting", "seenIdle"} /\ closing[w] = 0, NEW n \in Nodes PROVE active[n] = 0
  <2>1. Held(n) = {}
    BY <1>2 DEF Held
  <2> QED
    BY <2>1, FS_EmptySet DEF RoutingInv, CountsAreTrue
<1> QED
  BY <1>1, <1>2 DEF Routing!QuietFleetIsIdle

-----------------------------------------------------------------------------
(* SystemPrompt. *)

\* What SystemPrompt asks of its constants.
LEMMA PromptBounds == SystemPrompt!SystemPromptConstants
BY MCRequestsConstants

\* There are five optional blocks.
LEMMA FiveBlocks == SystemPrompt!N = 5
<1>1. Len(Tags) = 5
  BY PromptBounds DEF SystemPrompt!SystemPromptConstants
<1> QED
  BY <1>1 DEF SystemPrompt!N

\* A token is four characters, and a text has one at least.
LEMMA TokensBound ==
  ASSUME NEW c \in Nat
  PROVE  /\ SystemPrompt!Tokens(c) \in Nat /\ SystemPrompt!Tokens(c) >= 1 /\ c <= 4 * SystemPrompt!Tokens(c) + 3
         /\ \A t \in Nat : t >= 1 /\ c <= 4 * t + 3 => SystemPrompt!Tokens(c) <= t
BY DEF SystemPrompt!Tokens

Shown == {"open", "empty", "whole", "cut", "omitted"}

\* How long the list of the blocks of a kind is: no less than the name of one of them.
LEMMA ListedBound ==
  ASSUME systemPromptShown \in [1..5 -> Shown], NEW kind
  PROVE  SystemPrompt!Listed(kind) \in Int /\ (SystemPrompt!Some(kind) => SystemPrompt!Listed(kind) > 6)
<1> DEFINE x == [k \in 1..5 |-> IF systemPromptShown[k] = kind THEN Names[k] + 2 ELSE 0]
           Sums(f) == [k \in 0..5 |-> IF k = 0 THEN 0 ELSE f[k - 1] + x[k]]
           sums == CHOOSE f : f = Sums(f)
<1>1. /\ x \in [1..5 -> Nat]
      /\ \A k \in 1..5 : systemPromptShown[k] = kind => x[k] > 8
  BY PromptBounds DEF SystemPrompt!SystemPromptConstants
<1>2. SystemPrompt!Listed(kind) = sums[5] - 2
  BY FiveBlocks DEF SystemPrompt!Listed
<1>3. SystemPrompt!Some(kind) => \E k \in 1..5 : systemPromptShown[k] = kind
  BY FiveBlocks DEF SystemPrompt!Some
<1> HIDE DEF x
<1>4. \E f : f = Sums(f)
  <2> DEFINE g == [k \in 0..5 |-> IF k = 0 THEN 0 ELSE IF k = 1 THEN x[1] ELSE IF k = 2 THEN x[1] + x[2]
                    ELSE IF k = 3 THEN x[1] + x[2] + x[3] ELSE IF k = 4 THEN x[1] + x[2] + x[3] + x[4]
                    ELSE x[1] + x[2] + x[3] + x[4] + x[5]]
  <2>1. \A k \in 0..5 : g[k] = IF k = 0 THEN 0 ELSE g[k - 1] + x[k]
    BY <1>1
  <2>2. g = Sums(g)
    BY <2>1
  <2> QED
    BY <2>2
<1>5. sums = Sums(sums)
  BY <1>4
<1> HIDE DEF sums
<1>6. /\ sums[0] = 0 /\ sums[1] = sums[0] + x[1] /\ sums[2] = sums[1] + x[2] /\ sums[3] = sums[2] + x[3]
      /\ sums[4] = sums[3] + x[4] /\ sums[5] = sums[4] + x[5]
  BY <1>5
<1>7. sums[5] = x[1] + x[2] + x[3] + x[4] + x[5]
  BY <1>1, <1>6
<1>8. x[1] \in Nat /\ x[2] \in Nat /\ x[3] \in Nat /\ x[4] \in Nat /\ x[5] \in Nat
  BY <1>1
<1>9. SystemPrompt!Listed(kind) \in Int
  BY <1>2, <1>7, <1>8
<1>10. ASSUME SystemPrompt!Some(kind) PROVE SystemPrompt!Listed(kind) > 6
  <2>1. x[1] > 8 \/ x[2] > 8 \/ x[3] > 8 \/ x[4] > 8 \/ x[5] > 8
    BY <1>1, <1>3, <1>10
  <2> QED
    BY <1>2, <1>7, <1>8, <2>1
<1> QED
  BY <1>9, <1>10

\* A notice that names a block is longer than what is set aside for a notice without names.
LEMMA NoticeBound ==
  ASSUME systemPromptShown \in [1..5 -> Shown]
  PROVE  SystemPrompt!NoticeLength \in Nat /\ (SystemPrompt!Some("cut") \/ SystemPrompt!Some("omitted") => SystemPrompt!NoticeLength > 187)
<1> DEFINE c == SystemPrompt!Listed("cut")  o == SystemPrompt!Listed("omitted")
<1>1. c \in Int /\ o \in Int /\ (SystemPrompt!Some("cut") => c > 6) /\ (SystemPrompt!Some("omitted") => o > 6)
  BY ListedBound
<1>2. SystemPrompt!NoticeLength = 138 + (IF SystemPrompt!Some("cut") THEN 43 + c ELSE 0) + (IF SystemPrompt!Some("omitted") THEN 49 + o ELSE 0)
                                      + (IF SystemPrompt!Some("cut") /\ SystemPrompt!Some("omitted") THEN 7 ELSE 0)
  BY DEF SystemPrompt!NoticeLength, SystemPrompt!Frame, SystemPrompt!Cut, SystemPrompt!Left, SystemPrompt!Also
<1> HIDE DEF c, o
<1>3. CASE SystemPrompt!Some("cut") /\ SystemPrompt!Some("omitted")
  BY <1>1, <1>2, <1>3
<1>4. CASE SystemPrompt!Some("cut") /\ ~SystemPrompt!Some("omitted")
  BY <1>1, <1>2, <1>4
<1>5. CASE ~SystemPrompt!Some("cut") /\ SystemPrompt!Some("omitted")
  BY <1>1, <1>2, <1>5
<1>6. CASE ~SystemPrompt!Some("cut") /\ ~SystemPrompt!Some("omitted")
  BY <1>1, <1>2, <1>6
<1> QED
  BY <1>3, <1>4, <1>5, <1>6

\* What the blocks may take, and what is set aside for the notice.
LEMMA BudgetBound ==
  ASSUME NEW f \in Nat, fixed = f
  PROVE  /\ SystemPrompt!NoticeReserve = 46 /\ SystemPrompt!OptionalBudget \in Nat /\ SystemPrompt!FitBudget \in Nat
         /\ SystemPrompt!OptionalBudget = IF Budget - SystemPrompt!Tokens(f) - 32 < 0 THEN 0 ELSE Budget - SystemPrompt!Tokens(f) - 32
         /\ SystemPrompt!FitBudget = IF SystemPrompt!OptionalBudget > 8 THEN SystemPrompt!OptionalBudget - 8 ELSE SystemPrompt!OptionalBudget
<1>1. SystemPrompt!Tokens(f) \in Nat /\ Budget \in Nat
  BY TokensBound, PromptBounds DEF SystemPrompt!SystemPromptConstants
<1>2. SystemPrompt!NoticeReserve = 46
  BY DEF SystemPrompt!NoticeReserve, SystemPrompt!Tokens, SystemPrompt!Frame
<1>3. SystemPrompt!OptionalBudget = IF Budget - SystemPrompt!Tokens(f) - 32 < 0 THEN 0 ELSE Budget - SystemPrompt!Tokens(f) - 32
  BY DEF SystemPrompt!OptionalBudget, SystemPrompt!Margin
<1>4. SystemPrompt!OptionalBudget \in Nat
  BY <1>1, <1>3
<1>5. SystemPrompt!FitBudget = IF SystemPrompt!OptionalBudget > 8 THEN SystemPrompt!OptionalBudget - 8 ELSE SystemPrompt!OptionalBudget
  BY DEF SystemPrompt!FitBudget, SystemPrompt!Headroom
<1> QED
  BY <1>2, <1>3, <1>4, <1>5

\* A block that is cut takes no more than the room there is.
LEMMA CutFits ==
  ASSUME NEW k \in 1..5, NEW room \in Nat, bodies \in [1..5 -> Bodies], SystemPrompt!TruncatePromptContextBlock(k, room) > 0
  PROVE  SystemPrompt!TruncatePromptContextBlock(k, room) \in Nat /\ SystemPrompt!Tokens(SystemPrompt!TruncatePromptContextBlock(k, room)) <= room
<1> DEFINE bare == 4 + Tags[k] + 36
           most == 4 * room + 3 - (bare + 1)
           c == SystemPrompt!TruncatePromptContextBlock(k, room)
<1>1. Tags[k] \in Nat /\ bodies[k] \in Nat
  BY PromptBounds DEF SystemPrompt!SystemPromptConstants
<1>2. bare \in Nat /\ most \in Int /\ bare > 7
  BY <1>1
<1>3. c = CASE room <= 0 \/ SystemPrompt!Tokens(bare) > room -> 0
             [] room > 0 /\ SystemPrompt!Tokens(bare) <= room /\ most < 1 -> bare
             [] OTHER -> bare + 1 + SystemPrompt!Lesser(most, bodies[k])
  BY DEF SystemPrompt!TruncatePromptContextBlock, SystemPrompt!Marker
<1>4. SystemPrompt!Tokens(bare) \in Nat
  BY <1>2, TokensBound
<1>5. c > 0
  OBVIOUS
<1> HIDE DEF c
<1>6. ~(room <= 0 \/ SystemPrompt!Tokens(bare) > room)
  <2>1. room <= 0 \/ SystemPrompt!Tokens(bare) > room => c = 0
    <3>1. room <= 0 \/ SystemPrompt!Tokens(bare) > room => ~(room > 0 /\ SystemPrompt!Tokens(bare) <= room /\ most < 1)
      BY <1>4
    <3> HIDE DEF bare, most
    <3> QED
      BY <1>3, <3>1
  <2> QED
    BY <1>5, <2>1
<1>7. room > 0 /\ SystemPrompt!Tokens(bare) <= room
  BY <1>4, <1>6
<1>8. CASE most < 1
  <2>1. c = bare
    <3> HIDE DEF bare, most
    <3> QED
      BY <1>3, <1>6, <1>7, <1>8
  <2> QED
    BY <1>2, <1>7, <2>1 DEF c
<1>9. CASE ~(most < 1)
  <2>1. c = bare + 1 + SystemPrompt!Lesser(most, bodies[k])
    <3> HIDE DEF bare, most
    <3> QED
      BY <1>3, <1>6, <1>7, <1>9
  <2>2. SystemPrompt!Lesser(most, bodies[k]) \in Nat /\ SystemPrompt!Lesser(most, bodies[k]) <= most
    <3> HIDE DEF bare, most
    <3> QED
      BY <1>1, <1>2, <1>9 DEF SystemPrompt!Lesser
  <2>3. c \in Nat /\ c <= 4 * room + 3
    BY <1>2, <2>1, <2>2
  <2> QED
    BY <1>7, <2>3, TokensBound DEF c
<1> QED
  BY <1>8, <1>9

First == IF SystemPrompt!NoticeReserve < SystemPrompt!FitBudget THEN SystemPrompt!FitBudget - SystemPrompt!NoticeReserve ELSE SystemPrompt!FitBudget

PromptTypes ==
  /\ bodies \in [1..5 -> Bodies] /\ fixed \in Fixed /\ systemPromptNext \in 1..6
  /\ working \in Nat /\ length \in Nat /\ systemPromptShown \in [1..5 -> Shown]
  /\ notice \in {"open", "given", "none needed", "no room"}

\* What was written takes the room that is gone, but for less than a token of each block; the
\* notice comes after the last block.
Accounted ==
  /\ working <= First
  /\ notice # "open" => systemPromptNext = 6
  /\ LET noted == IF notice = "given" THEN SystemPrompt!NoticeLength ELSE 0
     IN length - noted <= 4 * (First - working) + 3 * (systemPromptNext - 1)
  /\ SystemPrompt!OptionalBudget = 0 => length = 0
  /\ notice = "given" => /\ SystemPrompt!Some("cut") \/ SystemPrompt!Some("omitted")
                         /\ SystemPrompt!OptionalBudget > 0 /\ SystemPrompt!Tokens(SystemPrompt!NoticeLength) <= SystemPrompt!FitBudget - working

PromptInv == PromptTypes /\ Accounted

\* The prompt before its first block.
LEMMA PromptInit == ASSUME SystemPrompt!Init PROVE PromptInv
<1>1. /\ bodies \in [1..5 -> Bodies] /\ fixed \in Fixed /\ systemPromptNext = 1 /\ length = 0 /\ notice = "open"
      /\ systemPromptShown = [k \in 1..5 |-> "open"] /\ working = First
  BY FiveBlocks DEF SystemPrompt!Init, First
<1>2. fixed \in Nat
  BY <1>1, PromptBounds DEF SystemPrompt!SystemPromptConstants
<1>3. First \in Nat
  BY <1>2, BudgetBound DEF First
<1> HIDE DEF First
<1> QED
  BY <1>1, <1>3 DEF PromptInv, PromptTypes, Accounted, Shown

\* A block is taken.
LEMMA FitStep == ASSUME PromptInv, SystemPrompt!FitBlock PROVE PromptInv'
<1>1. PromptTypes /\ Accounted
  BY DEF PromptInv
<1>2. fixed \in Nat /\ Tags[systemPromptNext] \in Nat /\ bodies[systemPromptNext] \in Nat /\ systemPromptNext \in 1..5
  <2>1. systemPromptNext \in 1..6 /\ fixed \in Fixed /\ bodies \in [1..5 -> Bodies]
    BY <1>1 DEF PromptTypes
  <2>2. systemPromptNext <= SystemPrompt!N
    BY DEF SystemPrompt!FitBlock
  <2>3. systemPromptNext \in 1..5
    BY <2>1, <2>2, FiveBlocks
  <2>4. Tags \in [1..5 -> Nat] /\ Fixed \subseteq Nat /\ Bodies \subseteq Nat
    BY PromptBounds DEF SystemPrompt!SystemPromptConstants
  <2> QED
    BY <2>1, <2>3, <2>4
<1>3. First \in Nat /\ SystemPrompt!OptionalBudget \in Nat
  BY <1>2, BudgetBound DEF First
<1>4. systemPromptNext' = systemPromptNext + 1 /\ UNCHANGED <<bodies, fixed, notice>> /\ notice = "open"
  BY <1>1, <1>2 DEF SystemPrompt!FitBlock, Accounted
<1>5. First' = First /\ SystemPrompt!OptionalBudget' = SystemPrompt!OptionalBudget /\ SystemPrompt!FitBudget' = SystemPrompt!FitBudget
  BY <1>4 DEF First, SystemPrompt!FitBudget, SystemPrompt!OptionalBudget
<1>6. ASSUME NEW chars \in Nat, NEW as \in Shown, SystemPrompt!Tokens(chars) <= working, SystemPrompt!OptionalBudget # 0, SystemPrompt!Writes(chars, as)
      PROVE  PromptInv'
  <2>1. length' = length + chars /\ working' = working - SystemPrompt!Tokens(chars) /\ systemPromptShown' = [systemPromptShown EXCEPT ![systemPromptNext] = as]
    BY <1>6 DEF SystemPrompt!Writes
  <2>2. SystemPrompt!Tokens(chars) \in Nat /\ chars <= 4 * SystemPrompt!Tokens(chars) + 3
    BY TokensBound
  <2>3. working \in Nat /\ length \in Nat /\ working <= First /\ length <= 4 * (First - working) + 3 * (systemPromptNext - 1)
    BY <1>1, <1>4 DEF PromptTypes, Accounted
  <2>4. working' \in Nat /\ length' \in Nat /\ working' <= First /\ length' <= 4 * (First - working') + 3 * (systemPromptNext' - 1)
    BY <1>2, <1>3, <1>4, <1>6, <2>1, <2>2, <2>3
  <2>5. systemPromptShown' \in [1..5 -> Shown] /\ systemPromptNext' \in 1..6
    <3>1. systemPromptShown \in [1..5 -> Shown]
      BY <1>1 DEF PromptTypes
    <3>2. systemPromptNext' \in 1..6
      BY <1>2, <1>4
    <3> QED
      BY <3>1, <3>2, <2>1
  <2> QED
    BY <1>1, <1>4, <1>5, <1>6, <2>4, <2>5 DEF PromptInv, PromptTypes, Accounted
<1>7. ASSUME NEW as \in Shown, systemPromptShown' = [systemPromptShown EXCEPT ![systemPromptNext] = as], UNCHANGED <<working, length>>
      PROVE  PromptInv'
  <2>1. working \in Nat /\ length \in Nat /\ working <= First /\ length <= 4 * (First - working) + 3 * (systemPromptNext - 1)
    BY <1>1, <1>4 DEF PromptTypes, Accounted
  <2>2. length <= 4 * (First - working) + 3 * (systemPromptNext' - 1)
    BY <1>2, <1>3, <1>4, <2>1
  <2>3. systemPromptShown' \in [1..5 -> Shown] /\ systemPromptNext' \in 1..6
    <3>1. systemPromptShown \in [1..5 -> Shown]
      BY <1>1 DEF PromptTypes
    <3>2. systemPromptNext' \in 1..6
      BY <1>2, <1>4
    <3> QED
      BY <3>1, <3>2, <1>7
  <2> QED
    <3>1. PromptTypes'
      BY <1>1, <1>4, <1>7, <2>3 DEF PromptTypes
    <3>2. length - 0 <= 4 * (First - working) + 3 * (systemPromptNext' - 1)
      BY <2>1, <2>2
    <3>3. Accounted'
      BY <1>1, <1>4, <1>5, <1>7, <2>1, <3>2 DEF Accounted
    <3> QED
      BY <3>1, <3>3 DEF PromptInv
<1>8. "empty" \in Shown /\ "omitted" \in Shown /\ "whole" \in Shown /\ "cut" \in Shown
  BY DEF Shown
<1>9. CASE SystemPrompt!OptionalBudget = 0 \/ bodies[systemPromptNext] = 0
  <2>1. systemPromptShown' = [systemPromptShown EXCEPT ![systemPromptNext] = IF bodies[systemPromptNext] = 0 THEN "empty" ELSE "omitted"] /\ UNCHANGED <<working, length>>
    BY <1>9 DEF SystemPrompt!FitBlock
  <2> QED
    BY <1>7, <1>8, <2>1
<1>10. CASE ~(SystemPrompt!OptionalBudget = 0 \/ bodies[systemPromptNext] = 0) /\ SystemPrompt!Fits(systemPromptNext)
  <2>1. SystemPrompt!Writes(SystemPrompt!Rendered(systemPromptNext), "whole") /\ SystemPrompt!Tokens(SystemPrompt!Rendered(systemPromptNext)) <= working
    BY <1>10 DEF SystemPrompt!FitBlock, SystemPrompt!Fits
  <2>2. SystemPrompt!Rendered(systemPromptNext) \in Nat
    BY <1>2 DEF SystemPrompt!Rendered
  <2> QED
    BY <1>6, <1>8, <1>10, <2>1, <2>2
<1>11. CASE ~(SystemPrompt!OptionalBudget = 0 \/ bodies[systemPromptNext] = 0) /\ ~SystemPrompt!Fits(systemPromptNext) /\ SystemPrompt!TruncatePromptContextBlock(systemPromptNext, working) > 0
  <2>1. SystemPrompt!Writes(SystemPrompt!TruncatePromptContextBlock(systemPromptNext, working), "cut")
    BY <1>11 DEF SystemPrompt!FitBlock
  <2>2. SystemPrompt!TruncatePromptContextBlock(systemPromptNext, working) \in Nat /\ SystemPrompt!Tokens(SystemPrompt!TruncatePromptContextBlock(systemPromptNext, working)) <= working
    BY <1>1, <1>2, <1>11, CutFits DEF PromptTypes
  <2> QED
    BY <1>6, <1>8, <1>11, <2>1, <2>2
<1>12. CASE ~(SystemPrompt!OptionalBudget = 0 \/ bodies[systemPromptNext] = 0) /\ ~SystemPrompt!Fits(systemPromptNext) /\ ~(SystemPrompt!TruncatePromptContextBlock(systemPromptNext, working) > 0)
  <2>1. systemPromptShown' = [systemPromptShown EXCEPT ![systemPromptNext] = "omitted"] /\ UNCHANGED <<working, length>>
    BY <1>12 DEF SystemPrompt!FitBlock
  <2> QED
    BY <1>7, <1>8, <2>1
<1> QED
  BY <1>9, <1>10, <1>11, <1>12

\* The notice is written, or left out.
LEMMA NoticeStep == ASSUME PromptInv, SystemPrompt!Notice PROVE PromptInv'
<1>1. PromptTypes /\ Accounted
  BY DEF PromptInv
<1>2. systemPromptNext = 6 /\ notice = "open" /\ UNCHANGED <<bodies, fixed, systemPromptNext, working, systemPromptShown>>
  <2>1. systemPromptNext \in 1..6
    BY <1>1 DEF PromptTypes
  <2>2. systemPromptNext > SystemPrompt!N /\ notice = "open" /\ UNCHANGED <<bodies, fixed, systemPromptNext, working, systemPromptShown>>
    BY DEF SystemPrompt!Notice
  <2> QED
    BY <2>1, <2>2, FiveBlocks
<1> DEFINE noted == SystemPrompt!Some("cut") \/ SystemPrompt!Some("omitted")
           room == SystemPrompt!OptionalBudget > 0 /\ SystemPrompt!Tokens(SystemPrompt!NoticeLength) <= SystemPrompt!FitBudget - working
<1>3. /\ notice' = IF ~noted THEN "none needed" ELSE IF room THEN "given" ELSE "no room"
      /\ length' = IF noted /\ room THEN length + SystemPrompt!NoticeLength ELSE length
  BY DEF SystemPrompt!Notice
<1>4. SystemPrompt!NoticeLength \in Nat
  BY <1>1, NoticeBound DEF PromptTypes
<1>5. /\ First' = First /\ SystemPrompt!OptionalBudget' = SystemPrompt!OptionalBudget /\ SystemPrompt!FitBudget' = SystemPrompt!FitBudget /\ SystemPrompt!NoticeLength' = SystemPrompt!NoticeLength
      /\ SystemPrompt!Some("cut")' = SystemPrompt!Some("cut") /\ SystemPrompt!Some("omitted")' = SystemPrompt!Some("omitted")
  BY <1>2 DEF First, SystemPrompt!FitBudget, SystemPrompt!OptionalBudget, SystemPrompt!NoticeLength, SystemPrompt!Some, SystemPrompt!Listed
<1>6. length \in Nat /\ length <= 4 * (First - working) + 3 * (systemPromptNext - 1)
  BY <1>1, <1>2 DEF PromptTypes, Accounted
<1>7. CASE noted /\ room
  <2>1. notice' = "given" /\ length' = length + SystemPrompt!NoticeLength
    BY <1>3, <1>7
  <2>2. length' \in Nat /\ length' - SystemPrompt!NoticeLength = length
    BY <1>4, <1>6, <2>1
  <2>3. SystemPrompt!OptionalBudget > 0 /\ SystemPrompt!OptionalBudget # 0
    <3>1. fixed \in Nat
      BY <1>1, PromptBounds DEF PromptTypes, SystemPrompt!SystemPromptConstants
    <3> QED
      BY <1>7, <3>1, BudgetBound
  <2> QED
    BY <1>1, <1>2, <1>5, <1>6, <1>7, <2>1, <2>2, <2>3 DEF PromptInv, PromptTypes, Accounted
<1>8. CASE ~(noted /\ room)
  <2>1. notice' \in {"none needed", "no room"} /\ length' = length
    BY <1>3, <1>8
  <2>2. length - 0 = length
    BY <1>6
  <2>3. PromptTypes'
    BY <1>1, <1>2, <2>1 DEF PromptTypes
  <2>4. Accounted'
    BY <1>1, <1>2, <1>5, <1>6, <2>1, <2>2 DEF Accounted
  <2> QED
    BY <2>3, <2>4 DEF PromptInv
<1> QED
  BY <1>7, <1>8

\* Every step keeps the invariant.
LEMMA PromptStep == ASSUME PromptInv, [SystemPrompt!Next]_SystemPrompt!vars PROVE PromptInv'
<1>1. CASE UNCHANGED SystemPrompt!vars
  <2>1. /\ First' = First /\ SystemPrompt!OptionalBudget' = SystemPrompt!OptionalBudget /\ SystemPrompt!FitBudget' = SystemPrompt!FitBudget /\ SystemPrompt!NoticeLength' = SystemPrompt!NoticeLength
        /\ SystemPrompt!Some("cut")' = SystemPrompt!Some("cut") /\ SystemPrompt!Some("omitted")' = SystemPrompt!Some("omitted")
    BY <1>1 DEF SystemPrompt!vars, First, SystemPrompt!FitBudget, SystemPrompt!OptionalBudget, SystemPrompt!NoticeLength, SystemPrompt!Some, SystemPrompt!Listed
  <2> QED
    BY <1>1, <2>1 DEF SystemPrompt!vars, PromptInv, PromptTypes, Accounted
<1> QED
  BY <1>1, FitStep, NoticeStep DEF SystemPrompt!Next

\* The arithmetic of the budget, without a notice and with one.
LEMMA WithinBudget ==
  ASSUME NEW b \in Nat, NEW f \in Nat, NEW t \in Nat, f <= 4 * t + 3, t >= 1, t <= b, NEW opt \in Nat, NEW fit \in Nat,
         opt = IF b - t - 32 < 0 THEN 0 ELSE b - t - 32, fit = IF opt > 8 THEN opt - 8 ELSE opt,
         NEW first \in Nat, first = IF 46 < fit THEN fit - 46 ELSE fit,
         NEW w \in Nat, w <= first, NEW len \in Nat, NEW n \in Nat, NEW m \in Nat, m > 46, n <= 4 * m + 3,
         opt = 0 => len = 0
  PROVE  /\ len <= 4 * (first - w) + 15 => f + len <= 4 * b + 3
         /\ opt > 0 /\ m <= fit - w /\ len - n <= 4 * (first - w) + 15 => f + len <= 4 * (b + m - 46) + 3 /\ b + m - 46 >= 1
<1>1. CASE opt = 0
  BY <1>1
<1>2. CASE opt > 0
  <2>1. b = t + 32 + opt
    BY <1>2
  <2>2. fit <= opt /\ first <= fit
    BY <1>2
  <2>3. len <= 4 * (first - w) + 15 => f + len <= 4 * b + 3
    BY <2>1, <2>2
  <2>4. m <= fit - w => first = fit - 46
    BY <1>2
  <2>5. m <= fit - w /\ len - n <= 4 * (first - w) + 15 => f + len <= 4 * (b + m - 46) + 3
    BY <2>1, <2>2, <2>4
  <2> QED
    BY <2>3, <2>5
<1> QED
  BY <1>1, <1>2

\* The prompt is over its budget by the notice only.
LEMMA PromptTold == ASSUME PromptInv PROVE SystemPrompt!TypeOK /\ SystemPrompt!OverByTheNoticeOnly
<1>1. SystemPrompt!TypeOK
  <2>1. 1..SystemPrompt!N = 1..5 /\ 1..SystemPrompt!N + 1 = 1..6
    BY FiveBlocks
  <2> QED
    BY <2>1 DEF PromptInv, PromptTypes, SystemPrompt!TypeOK, Shown
<1>2. SUFFICES ASSUME SystemPrompt!Tokens(fixed) <= Budget
      PROVE  SystemPrompt!Tokens(fixed + length) <= Budget + (IF notice = "given" THEN SystemPrompt!Tokens(SystemPrompt!NoticeLength) - SystemPrompt!NoticeReserve ELSE 0)
  BY <1>1 DEF SystemPrompt!OverByTheNoticeOnly
<1> DEFINE t == SystemPrompt!Tokens(fixed)  n == SystemPrompt!NoticeLength  m == SystemPrompt!Tokens(n)
<1>3. fixed \in Nat /\ length \in Nat /\ working \in Nat /\ Budget \in Nat /\ systemPromptNext \in 1..6 /\ systemPromptShown \in [1..5 -> Shown]
  BY PromptBounds DEF PromptInv, PromptTypes, SystemPrompt!SystemPromptConstants
<1>4. t \in Nat /\ t >= 1 /\ fixed <= 4 * t + 3 /\ t <= Budget
  BY <1>2, <1>3, TokensBound
<1>5. /\ SystemPrompt!NoticeReserve = 46 /\ SystemPrompt!OptionalBudget \in Nat /\ SystemPrompt!FitBudget \in Nat
      /\ SystemPrompt!OptionalBudget = (IF Budget - t - 32 < 0 THEN 0 ELSE Budget - t - 32)
      /\ SystemPrompt!FitBudget = (IF SystemPrompt!OptionalBudget > 8 THEN SystemPrompt!OptionalBudget - 8 ELSE SystemPrompt!OptionalBudget)
  BY <1>3, BudgetBound
<1>6. First \in Nat /\ First = IF 46 < SystemPrompt!FitBudget THEN SystemPrompt!FitBudget - 46 ELSE SystemPrompt!FitBudget
  BY <1>5 DEF First
<1>7. n \in Nat /\ (SystemPrompt!Some("cut") \/ SystemPrompt!Some("omitted") => n > 187)
  BY <1>3, NoticeBound
<1>8. m \in Nat /\ n <= 4 * m + 3 /\ (n > 187 => m > 46)
  BY <1>7, TokensBound
<1>9. fixed + length \in Nat
  BY <1>3
<1> HIDE DEF t, m, n
<1>10. CASE notice = "given"
  <2>1. /\ working <= First /\ length - n <= 4 * (First - working) + 3 * (systemPromptNext - 1) /\ systemPromptNext = 6
        /\ SystemPrompt!OptionalBudget > 0 /\ m <= SystemPrompt!FitBudget - working /\ n > 187 /\ (SystemPrompt!OptionalBudget = 0 => length = 0)
    BY <1>7, <1>10 DEF PromptInv, Accounted, m, n
  <2>2. length - n <= 4 * (First - working) + 15 /\ m > 46
    BY <1>3, <1>6, <1>8, <2>1
  <2>3. fixed + length <= 4 * (Budget + m - 46) + 3 /\ Budget + m - 46 >= 1
    BY <1>3, <1>4, <1>5, <1>6, <1>7, <1>8, <2>1, <2>2, WithinBudget
  <2>4. Budget + m - 46 \in Nat
    BY <1>3, <1>8, <2>3
  <2>5. SystemPrompt!Tokens(fixed + length) <= Budget + m - 46
    BY <1>9, <2>3, <2>4, TokensBound
  <2>6. Budget + m - 46 = Budget + (m - 46)
    BY <1>3, <1>8
  <2> QED
    BY <1>5, <1>10, <2>5, <2>6 DEF m, n
<1>11. CASE notice # "given"
  <2>1. working <= First /\ length - 0 <= 4 * (First - working) + 3 * (systemPromptNext - 1) /\ (SystemPrompt!OptionalBudget = 0 => length = 0)
    BY <1>11 DEF PromptInv, Accounted
  <2>2. length <= 4 * (First - working) + 15
    BY <1>3, <1>6, <2>1
  <2>3. 188 \in Nat /\ 47 \in Nat /\ 47 > 46 /\ 188 <= 4 * 47 + 3
    OBVIOUS
  <2>4. fixed + length <= 4 * Budget + 3
    BY <1>3, <1>4, <1>5, <1>6, <2>1, <2>2, <2>3, WithinBudget
  <2>5. Budget >= 1
    BY <1>3, <1>4
  <2>6. SystemPrompt!Tokens(fixed + length) <= Budget
    BY <1>3, <1>9, <2>4, <2>5, TokensBound
  <2> QED
    BY <1>3, <1>11, <2>6
<1> QED
  BY <1>10, <1>11

-----------------------------------------------------------------------------
(* MasterContext. *)

\* What MasterContext asks of its constants.
LEMMA ContextBounds == MasterContext!MasterContextConstants
BY MCRequestsConstants

\* A todo item.
Item == [by : Reporters \cup {"nobody", "other"}, status : MasterContext!Statuses]

ContextTypes ==
  /\ life \in [Reporters -> {"unborn", "running"} \cup MasterContext!Ends]
  /\ masterContextEmitted \in [Reporters -> 0..MaxEvents]
  /\ late \in [Reporters -> SUBSET {"paused", "resumed"}]
  /\ pendingEvs \in Seq([of : Reporters, kind : MasterContext!Kinds]) /\ Len(pendingEvs) <= MaxPending
  /\ snap \in [Reporters -> {"absent", "running", "thinking", "waitingOnTool", "paused", "doneUnintegrated", "errorTerminal"}]
  /\ items \in [Items -> Item] /\ resumed \in BOOLEAN
  /\ reclaimed \in SUBSET Items /\ overtaken \in SUBSET Reporters
  /\ told \in [Reporters -> {"no", "line", "state", "nothing", "discarded"}]

\* Between the end of a worker and the turn that takes it in, the end that is kept is the end that
\* the worker came to; the supervisor's state is that of an end unless something overtook it.
EndIsKept ==
  \A w \in Reporters :
    /\ \A kind \in MasterContext!Ends : MasterContext!Has(w, kind) => life[w] = kind
    /\ told[w] # "no" => life[w] \in MasterContext!Ends /\ ~MasterContext!EndTaken(w)
    /\ life[w] \in MasterContext!Ends /\ told[w] = "no" => MasterContext!EndTaken(w)
    /\ life[w] \in MasterContext!Ends /\ w \notin overtaken => snap[w] \in {"doneUnintegrated", "errorTerminal"}

ContextInv == ContextTypes /\ EndIsKept /\ MasterContext!EndIsTold /\ MasterContext!EndedHoldNothing

\* What is kept once one more event was taken.
LEMMA TakesHas ==
  ASSUME ContextTypes, NEW w \in Reporters, NEW kind \in MasterContext!Kinds, MasterContext!Takes(w, kind)
  PROVE  /\ pendingEvs' \in Seq([of : Reporters, kind : MasterContext!Kinds]) /\ Len(pendingEvs') <= MaxPending
         /\ snap' = [snap EXCEPT ![w] = MasterContext!StateAfter(kind)]
         /\ MasterContext!StateAfter(kind) \in {"running", "thinking", "waitingOnTool", "paused", "doneUnintegrated", "errorTerminal"}
         /\ \A v \in Reporters : \A k \in MasterContext!Kinds : MasterContext!Has(v, k)' <=> MasterContext!Has(v, k) \/ (v = w /\ k = kind)
<1> DEFINE e == [of |-> w, kind |-> kind]
<1>1. e \in [of : Reporters, kind : MasterContext!Kinds] /\ pendingEvs \in Seq([of : Reporters, kind : MasterContext!Kinds])
  BY DEF ContextTypes
<1>2. pendingEvs' = Append(pendingEvs, e) /\ Len(pendingEvs) < MaxPending
  BY DEF MasterContext!Takes
<1>3. \A v \in Reporters : \A k \in MasterContext!Kinds : [of |-> v, kind |-> k] = e <=> v = w /\ k = kind
  OBVIOUS
<1> HIDE DEF e
<1>4. /\ pendingEvs' \in Seq([of : Reporters, kind : MasterContext!Kinds]) /\ Len(pendingEvs') = Len(pendingEvs) + 1 /\ Len(pendingEvs) \in Nat
      /\ \A i \in 1..Len(pendingEvs) : pendingEvs'[i] = pendingEvs[i]
      /\ pendingEvs'[Len(pendingEvs) + 1] = e
  BY <1>1, <1>2, AppendProperties
<1>5. DOMAIN pendingEvs = 1..Len(pendingEvs) /\ DOMAIN pendingEvs' = 1..Len(pendingEvs) + 1
  BY <1>1, <1>4
<1>6. ASSUME NEW x PROVE (\E i \in DOMAIN pendingEvs' : pendingEvs'[i] = x) <=> (\E i \in DOMAIN pendingEvs : pendingEvs[i] = x) \/ x = e
  <2>1. \A i \in DOMAIN pendingEvs' : i \in DOMAIN pendingEvs \/ i = Len(pendingEvs) + 1
    BY <1>4, <1>5
  <2>2. \A i \in DOMAIN pendingEvs : i \in DOMAIN pendingEvs' /\ pendingEvs'[i] = pendingEvs[i]
    BY <1>4, <1>5
  <2>3. Len(pendingEvs) + 1 \in DOMAIN pendingEvs'
    BY <1>4, <1>5
  <2> QED
    BY <1>4, <2>1, <2>2, <2>3
<1>7. \A v \in Reporters : \A k \in MasterContext!Kinds : MasterContext!Has(v, k)' <=> MasterContext!Has(v, k) \/ (v = w /\ k = kind)
  BY <1>3, <1>6 DEF MasterContext!Has
<1>8. Len(pendingEvs') <= MaxPending
  BY <1>2, <1>4, ContextBounds DEF MasterContext!MasterContextConstants
<1>9. MasterContext!StateAfter(kind) \in {"running", "thinking", "waitingOnTool", "paused", "doneUnintegrated", "errorTerminal"}
  BY DEF MasterContext!StateAfter
<1> QED
  BY <1>4, <1>7, <1>8, <1>9 DEF MasterContext!Takes

\* The context before anything happened.
LEMMA ContextInit == ASSUME MasterContext!Init PROVE ContextInv
<1>1. pendingEvs = <<>> /\ pendingEvs \in Seq([of : Reporters, kind : MasterContext!Kinds]) /\ Len(pendingEvs) = 0
  BY DEF MasterContext!Init
<1>2. \A w \in Reporters : \A k : ~MasterContext!Has(w, k)
  BY <1>1 DEF MasterContext!Has
<1>3. items \in [Items -> Item] /\ resumed \in BOOLEAN
  BY DEF MasterContext!Init, Item, MasterContext!Nobodys, MasterContext!Statuses
<1>4. ContextTypes
  BY <1>1, <1>3, ContextBounds DEF MasterContext!Init, ContextTypes, MasterContext!MasterContextConstants
<1>5. \A w \in Reporters : life[w] = "unborn" /\ told[w] = "no"
  BY DEF MasterContext!Init
<1> QED
  BY <1>2, <1>4, <1>5 DEF ContextInv, EndIsKept, MasterContext!EndIsTold, MasterContext!EndedHoldNothing, MasterContext!Ends

\* An event of a worker that has not come to its end.
LEMMA GoesOnStep ==
  ASSUME ContextInv, NEW w \in Reporters, MasterContext!Spawned(w) \/ MasterContext!Does(w)
  PROVE  ContextInv'
<1>1. ContextTypes /\ EndIsKept
  BY DEF ContextInv
<1>2. PICK kind \in MasterContext!Progress : MasterContext!Takes(w, kind)
  BY DEF MasterContext!Spawned, MasterContext!Does, MasterContext!Progress
<1>3. kind \in MasterContext!Kinds /\ kind \notin MasterContext!Ends
  BY DEF MasterContext!Kinds, MasterContext!Progress, MasterContext!Ends
<1>4. /\ pendingEvs' \in Seq([of : Reporters, kind : MasterContext!Kinds]) /\ Len(pendingEvs') <= MaxPending
      /\ snap' = [snap EXCEPT ![w] = MasterContext!StateAfter(kind)]
      /\ MasterContext!StateAfter(kind) \in {"running", "thinking", "waitingOnTool", "paused", "doneUnintegrated", "errorTerminal"}
      /\ \A v \in Reporters : \A k \in MasterContext!Kinds : MasterContext!Has(v, k)' <=> MasterContext!Has(v, k) \/ (v = w /\ k = kind)
  BY <1>1, <1>2, <1>3, TakesHas
<1>5. /\ \A v \in Reporters : \A k \in MasterContext!Ends : MasterContext!Has(v, k)' <=> MasterContext!Has(v, k)
      /\ \A v \in Reporters : MasterContext!EndTaken(v)' <=> MasterContext!EndTaken(v)
  BY <1>3, <1>4 DEF MasterContext!Kinds, MasterContext!Ends, MasterContext!EndTaken
<1>6. life[w] \in {"unborn", "running"} /\ life'[w] = "running" /\ \A v \in Reporters \ {w} : life'[v] = life[v]
  BY <1>1 DEF ContextTypes, MasterContext!Spawned, MasterContext!Does
<1>7. life' \in [Reporters -> {"unborn", "running"} \cup MasterContext!Ends]
  BY <1>1 DEF ContextTypes, MasterContext!Spawned, MasterContext!Does
<1>8. masterContextEmitted' \in [Reporters -> 0..MaxEvents]
  <2>1. CASE MasterContext!Spawned(w)
    BY <1>1, <2>1 DEF ContextTypes, MasterContext!Spawned
  <2>2. CASE MasterContext!Does(w)
    <3>1. masterContextEmitted' = [masterContextEmitted EXCEPT ![w] = @ + 1] /\ masterContextEmitted[w] < MaxEvents /\ masterContextEmitted \in [Reporters -> 0..MaxEvents] /\ MaxEvents \in Nat
      BY <1>1, <2>2, ContextBounds DEF MasterContext!Does, ContextTypes, MasterContext!MasterContextConstants
    <3> QED
      BY <3>1
  <2> QED
    BY <2>1, <2>2
<1>9. UNCHANGED <<items, reclaimed, overtaken>>
  BY DEF MasterContext!Spawned, MasterContext!Does
<1>10. UNCHANGED <<late, resumed, told>>
  BY DEF MasterContext!Spawned, MasterContext!Does
<1>11. told[w] = "no"
  BY <1>1, <1>6 DEF EndIsKept, MasterContext!Ends
<1>12. snap' \in [Reporters -> {"absent", "running", "thinking", "waitingOnTool", "paused", "doneUnintegrated", "errorTerminal"}]
      /\ \A v \in Reporters \ {w} : snap'[v] = snap[v]
  BY <1>1, <1>4 DEF ContextTypes
<1>13. ContextTypes'
  BY <1>1, <1>4, <1>7, <1>8, <1>9, <1>10, <1>12 DEF ContextTypes
<1>14. "running" \notin MasterContext!Ends
  BY DEF MasterContext!Ends
<1>15. EndIsKept'
  <2> SUFFICES ASSUME NEW v \in Reporters
      PROVE  /\ \A k \in MasterContext!Ends : MasterContext!Has(v, k)' => life'[v] = k
             /\ told'[v] # "no" => life'[v] \in MasterContext!Ends /\ ~MasterContext!EndTaken(v)'
             /\ life'[v] \in MasterContext!Ends /\ told'[v] = "no" => MasterContext!EndTaken(v)'
             /\ life'[v] \in MasterContext!Ends /\ v \notin overtaken' => snap'[v] \in {"doneUnintegrated", "errorTerminal"}
    BY DEF EndIsKept
  <2>1. CASE v = w
    <3>1. \A k \in MasterContext!Ends : ~MasterContext!Has(v, k)'
      BY <1>1, <1>5, <1>6, <1>14, <2>1 DEF EndIsKept, MasterContext!Ends
    <3> QED
      BY <1>6, <1>10, <1>11, <1>14, <2>1, <3>1
  <2>2. CASE v # w
    BY <1>1, <1>5, <1>6, <1>9, <1>10, <1>12, <2>2 DEF EndIsKept
  <2> QED
    BY <2>1, <2>2
<1>16. MasterContext!EndIsTold' /\ MasterContext!EndedHoldNothing'
  BY <1>6, <1>9, <1>10, <1>11 DEF ContextInv, MasterContext!EndIsTold, MasterContext!EndedHoldNothing
<1> QED
  BY <1>13, <1>15, <1>16 DEF ContextInv

\* A pause or a resume, before its event is published.
LEMMA QuietStep == ASSUME ContextInv, NEW w \in Reporters, MasterContext!Interrupted(w) PROVE ContextInv'
<1>1. ContextTypes /\ EndIsKept
  BY DEF ContextInv
<1>2. UNCHANGED <<life, pendingEvs, snap, items, resumed, told, reclaimed, overtaken>>
  BY DEF MasterContext!Interrupted
<1>3. \A v \in Reporters : \A k : MasterContext!Has(v, k)' <=> MasterContext!Has(v, k)
  BY <1>2 DEF MasterContext!Has
<1>4. \A v \in Reporters : MasterContext!EndTaken(v)' <=> MasterContext!EndTaken(v)
  BY <1>3 DEF MasterContext!EndTaken
<1>5. PICK kind \in {"paused", "resumed"} : late' = [late EXCEPT ![w] = @ \cup {kind}]
  BY DEF MasterContext!Interrupted
<1>6. masterContextEmitted' = [masterContextEmitted EXCEPT ![w] = @ + 1] /\ masterContextEmitted[w] < MaxEvents
  BY DEF MasterContext!Interrupted
<1>7. masterContextEmitted \in [Reporters -> 0..MaxEvents] /\ MaxEvents \in Nat /\ late \in [Reporters -> SUBSET {"paused", "resumed"}]
  BY <1>1, ContextBounds DEF ContextTypes, MasterContext!MasterContextConstants
<1>8. masterContextEmitted' \in [Reporters -> 0..MaxEvents] /\ late' \in [Reporters -> SUBSET {"paused", "resumed"}]
  BY <1>5, <1>6, <1>7
<1>9. ContextTypes'
  BY <1>1, <1>2, <1>8 DEF ContextTypes
<1>10. EndIsKept'
  BY <1>1, <1>2, <1>3, <1>4 DEF EndIsKept
<1>11. MasterContext!EndIsTold' /\ MasterContext!EndedHoldNothing'
  BY <1>2 DEF ContextInv, MasterContext!EndIsTold, MasterContext!EndedHoldNothing
<1> QED
  BY <1>9, <1>10, <1>11 DEF ContextInv

\* An item becomes another: what is put in progress for a worker already told of is noted.
LEMMA NotesStep == ASSUME ContextInv, NEW i \in Items, NEW item \in Item, MasterContext!Notes(i, item) PROVE ContextInv'
<1>1. ContextTypes /\ EndIsKept
  BY DEF ContextInv
<1>2. UNCHANGED <<life, masterContextEmitted, late, pendingEvs, snap, resumed, told, overtaken>>
  BY DEF MasterContext!Notes
<1>3. /\ items' = [items EXCEPT ![i] = item]
      /\ reclaimed' = IF item.status = "inProgress" /\ item.by \in Reporters /\ told[item.by] # "no"
                      THEN reclaimed \cup {i} ELSE reclaimed \ {i}
  BY DEF MasterContext!Notes
<1>4. items \in [Items -> Item] /\ reclaimed \in SUBSET Items
  BY <1>1 DEF ContextTypes
<1>5. items' \in [Items -> Item] /\ reclaimed' \in SUBSET Items
  BY <1>3, <1>4
<1>6. \A v \in Reporters : \A k : MasterContext!Has(v, k)' <=> MasterContext!Has(v, k)
  BY <1>2 DEF MasterContext!Has
<1>7. \A v \in Reporters : MasterContext!EndTaken(v)' <=> MasterContext!EndTaken(v)
  BY <1>6 DEF MasterContext!EndTaken
<1>8. ContextTypes'
  BY <1>1, <1>2, <1>5 DEF ContextTypes
<1>9. EndIsKept'
  BY <1>1, <1>2, <1>6, <1>7 DEF EndIsKept
<1>10. MasterContext!EndIsTold'
  BY <1>2 DEF ContextInv, MasterContext!EndIsTold
<1>11. ASSUME NEW j \in Items, items'[j].status = "inProgress", items'[j].by \in Reporters,
              told[items'[j].by] \in {"line", "state", "nothing"}
       PROVE  j \in reclaimed'
  <2>1. CASE j = i
    <3>1. items'[j] = item
      BY <1>3, <1>4, <2>1
    <3> QED
      BY <1>3, <1>11, <2>1, <3>1
  <2>2. CASE j # i
    <3>1. items'[j] = items[j]
      BY <1>3, <1>4, <2>2
    <3>2. j \in reclaimed
      BY <1>11, <3>1 DEF ContextInv, MasterContext!EndedHoldNothing
    <3> QED
      BY <1>3, <2>2, <3>2
  <2> QED
    BY <2>1, <2>2
<1>12. MasterContext!EndedHoldNothing'
  BY <1>2, <1>11 DEF MasterContext!EndedHoldNothing
<1> QED
  BY <1>8, <1>9, <1>10, <1>12 DEF ContextInv

\* The calls of the todo tool.
LEMMA TodoStep ==
  ASSUME ContextInv, NEW i \in Items,
         \/ \E owner \in Reporters \cup {"other"} : MasterContext!Claims(i, owner)
         \/ \E status \in MasterContext!Statuses : MasterContext!Updates(i, status) \/ MasterContext!Renews(i, status)
         \/ MasterContext!Releases(i)
  PROVE  ContextInv'
<1> SUFFICES \E item \in Item : MasterContext!Notes(i, item)
  BY NotesStep
<1>1. items[i] \in Item
  BY DEF ContextInv, ContextTypes
<1>2. CASE \E owner \in Reporters \cup {"other"} : MasterContext!Claims(i, owner)
  <2>1. PICK owner \in Reporters \cup {"other"} : MasterContext!Notes(i, [by |-> owner, status |-> "inProgress"])
    BY <1>2 DEF MasterContext!Claims
  <2>2. [by |-> owner, status |-> "inProgress"] \in Item
    BY DEF Item, MasterContext!Statuses
  <2> QED
    BY <2>1, <2>2
<1>3. ASSUME NEW status \in MasterContext!Statuses, MasterContext!Updates(i, status)
      PROVE  \E item \in Item : MasterContext!Notes(i, item)
  <2>1. MasterContext!Notes(i, [items[i] EXCEPT !.status = status])
    BY <1>3 DEF MasterContext!Updates
  <2>2. [items[i] EXCEPT !.status = status] \in Item
    BY <1>1 DEF Item
  <2> QED
    BY <2>1, <2>2
<1>4. ASSUME NEW status \in MasterContext!Statuses, MasterContext!Renews(i, status)
      PROVE  \E item \in Item : MasterContext!Notes(i, item)
  <2>1. [by |-> "nobody", status |-> status] \in Item
    BY DEF Item
  <2> QED
    BY <1>4, <2>1 DEF MasterContext!Renews
<1>5. CASE MasterContext!Releases(i)
  <2> DEFINE status == IF items[i].status = "inProgress" THEN "pending" ELSE items[i].status
  <2>1. status \in MasterContext!Statuses
    BY <1>1 DEF Item, MasterContext!Statuses
  <2>2. MasterContext!Notes(i, [by |-> "nobody", status |-> status])
    BY <1>5 DEF MasterContext!Releases
  <2> HIDE DEF status
  <2>3. [by |-> "nobody", status |-> status] \in Item
    BY <2>1 DEF Item
  <2> QED
    BY <2>2, <2>3
<1> QED
  BY <1>2, <1>3, <1>4, <1>5

\* The event of a pause or a resume, which may come after the end.
LEMMA PublishedStep == ASSUME ContextInv, NEW w \in Reporters, MasterContext!Published(w) PROVE ContextInv'
<1>1. ContextTypes /\ EndIsKept
  BY DEF ContextInv
<1>2. PICK kind \in late[w] : MasterContext!Takes(w, kind) /\ late' = [late EXCEPT ![w] = @ \ {kind}]
  BY DEF MasterContext!Published
<1>3. /\ UNCHANGED <<life, masterContextEmitted, items, resumed, told, reclaimed>>
      /\ overtaken' = IF life[w] \in MasterContext!Ends THEN overtaken \cup {w} ELSE overtaken
  BY DEF MasterContext!Published
<1>4. late \in [Reporters -> SUBSET {"paused", "resumed"}] /\ kind \in {"paused", "resumed"}
  BY <1>1, <1>2 DEF ContextTypes
<1>5. kind \in MasterContext!Kinds /\ kind \notin MasterContext!Ends /\ MasterContext!StateAfter(kind) \in {"paused", "running"}
  BY <1>4 DEF MasterContext!Kinds, MasterContext!Ends, MasterContext!StateAfter
<1>6. /\ pendingEvs' \in Seq([of : Reporters, kind : MasterContext!Kinds]) /\ Len(pendingEvs') <= MaxPending
      /\ snap' = [snap EXCEPT ![w] = MasterContext!StateAfter(kind)]
      /\ \A v \in Reporters : \A k \in MasterContext!Kinds : MasterContext!Has(v, k)' <=> MasterContext!Has(v, k) \/ (v = w /\ k = kind)
  BY <1>1, <1>2, <1>5, TakesHas
<1>7. /\ \A v \in Reporters : \A k \in MasterContext!Ends : MasterContext!Has(v, k)' <=> MasterContext!Has(v, k)
      /\ \A v \in Reporters : MasterContext!EndTaken(v)' <=> MasterContext!EndTaken(v)
  BY <1>5, <1>6 DEF MasterContext!Kinds, MasterContext!Ends, MasterContext!EndTaken
<1>8. snap' \in [Reporters -> {"absent", "running", "thinking", "waitingOnTool", "paused", "doneUnintegrated", "errorTerminal"}]
      /\ \A v \in Reporters \ {w} : snap'[v] = snap[v]
  BY <1>1, <1>5, <1>6 DEF ContextTypes
<1>9. late' \in [Reporters -> SUBSET {"paused", "resumed"}] /\ overtaken' \in SUBSET Reporters /\ overtaken \subseteq overtaken'
  BY <1>1, <1>2, <1>3, <1>4 DEF ContextTypes
<1>10. ContextTypes'
  BY <1>1, <1>3, <1>6, <1>8, <1>9 DEF ContextTypes
<1>11. EndIsKept'
  BY <1>1, <1>3, <1>7, <1>8, <1>9 DEF EndIsKept
<1>12. MasterContext!EndIsTold' /\ MasterContext!EndedHoldNothing'
  BY <1>3, <1>9 DEF ContextInv, MasterContext!EndIsTold, MasterContext!EndedHoldNothing
<1> QED
  BY <1>10, <1>11, <1>12 DEF ContextInv

\* A worker ends.
LEMMA EndedStep == ASSUME ContextInv, NEW w \in Reporters, MasterContext!Ended(w) PROVE ContextInv'
<1>1. ContextTypes /\ EndIsKept
  BY DEF ContextInv
<1>2. PICK kind \in MasterContext!Ends : MasterContext!Takes(w, kind) /\ life' = [life EXCEPT ![w] = kind]
  BY DEF MasterContext!Ended
<1>3. UNCHANGED <<masterContextEmitted, late, items, resumed, told, reclaimed, overtaken>> /\ life[w] = "running"
  BY DEF MasterContext!Ended
<1>4. kind \in MasterContext!Kinds /\ MasterContext!StateAfter(kind) \in {"doneUnintegrated", "errorTerminal"}
  BY <1>2 DEF MasterContext!Kinds, MasterContext!Ends, MasterContext!StateAfter
<1>5. /\ pendingEvs' \in Seq([of : Reporters, kind : MasterContext!Kinds]) /\ Len(pendingEvs') <= MaxPending
      /\ snap' = [snap EXCEPT ![w] = MasterContext!StateAfter(kind)]
      /\ \A v \in Reporters : \A k \in MasterContext!Kinds : MasterContext!Has(v, k)' <=> MasterContext!Has(v, k) \/ (v = w /\ k = kind)
  BY <1>1, <1>2, <1>4, TakesHas
<1>6. told[w] = "no" /\ \A k \in MasterContext!Ends : ~MasterContext!Has(w, k)
  BY <1>1, <1>3 DEF EndIsKept, MasterContext!Ends
<1>7. /\ \A v \in Reporters \ {w} : \A k \in MasterContext!Ends : MasterContext!Has(v, k)' <=> MasterContext!Has(v, k)
      /\ \A v \in Reporters \ {w} : MasterContext!EndTaken(v)' <=> MasterContext!EndTaken(v)
      /\ \A k \in MasterContext!Ends : MasterContext!Has(w, k)' => k = kind
      /\ MasterContext!EndTaken(w)'
  <2>1. MasterContext!Ends \subseteq MasterContext!Kinds
    BY DEF MasterContext!Ends, MasterContext!Kinds
  <2> QED
    BY <1>2, <1>5, <1>6, <2>1 DEF MasterContext!EndTaken
<1>8. snap' \in [Reporters -> {"absent", "running", "thinking", "waitingOnTool", "paused", "doneUnintegrated", "errorTerminal"}]
      /\ snap'[w] \in {"doneUnintegrated", "errorTerminal"} /\ \A v \in Reporters \ {w} : snap'[v] = snap[v]
  BY <1>1, <1>4, <1>5 DEF ContextTypes
<1>9. life' \in [Reporters -> {"unborn", "running"} \cup MasterContext!Ends] /\ life'[w] = kind /\ \A v \in Reporters \ {w} : life'[v] = life[v]
  BY <1>1, <1>2 DEF ContextTypes
<1>10. ContextTypes'
  BY <1>1, <1>3, <1>5, <1>8, <1>9 DEF ContextTypes
<1>11. EndIsKept'
  <2> SUFFICES ASSUME NEW v \in Reporters
      PROVE  /\ \A k \in MasterContext!Ends : MasterContext!Has(v, k)' => life'[v] = k
             /\ told'[v] # "no" => life'[v] \in MasterContext!Ends /\ ~MasterContext!EndTaken(v)'
             /\ life'[v] \in MasterContext!Ends /\ told'[v] = "no" => MasterContext!EndTaken(v)'
             /\ life'[v] \in MasterContext!Ends /\ v \notin overtaken' => snap'[v] \in {"doneUnintegrated", "errorTerminal"}
    BY DEF EndIsKept
  <2>1. CASE v = w
    BY <1>1, <1>2, <1>3, <1>6, <1>7, <1>8, <1>9, <2>1 DEF EndIsKept
  <2>2. CASE v # w
    BY <1>1, <1>3, <1>7, <1>8, <1>9, <2>2 DEF EndIsKept
  <2> QED
    BY <2>1, <2>2
<1>12. MasterContext!EndIsTold' /\ MasterContext!EndedHoldNothing'
  BY <1>3, <1>6, <1>9 DEF ContextInv, MasterContext!EndIsTold, MasterContext!EndedHoldNothing
<1> QED
  BY <1>10, <1>11, <1>12 DEF ContextInv

\* The kept events are discarded, or a turn is told of them.
LEMMA TurnStep == ASSUME ContextInv, MasterContext!CancelAll \/ MasterContext!BuildActiveContext PROVE ContextInv'
<1>1. ContextTypes /\ EndIsKept
  BY DEF ContextInv
<1>2. pendingEvs' = <<>> /\ UNCHANGED <<life, masterContextEmitted, late, snap, overtaken>>
  BY DEF MasterContext!CancelAll, MasterContext!BuildActiveContext
<1>3. \A w \in Reporters : \A k : ~MasterContext!Has(w, k)'
  BY <1>2 DEF MasterContext!Has
<1>4. \A w \in Reporters : ~MasterContext!EndTaken(w)'
  BY <1>3 DEF MasterContext!EndTaken
<1>5. pendingEvs' \in Seq([of : Reporters, kind : MasterContext!Kinds]) /\ Len(pendingEvs') <= MaxPending
  BY <1>2, ContextBounds DEF MasterContext!MasterContextConstants
<1>6. CASE MasterContext!CancelAll
  <2>1. told' = [w \in Reporters |-> IF MasterContext!EndTaken(w) THEN "discarded" ELSE told[w]] /\ UNCHANGED <<items, resumed, reclaimed>>
    BY <1>6 DEF MasterContext!CancelAll
  <2>2. told' \in [Reporters -> {"no", "line", "state", "nothing", "discarded"}]
    BY <1>1, <2>1 DEF ContextTypes
  <2>3. ContextTypes'
    BY <1>1, <1>2, <1>5, <2>1, <2>2 DEF ContextTypes
  <2>4. \A w \in Reporters : told'[w] = IF MasterContext!EndTaken(w) THEN "discarded" ELSE told[w]
    BY <2>1
  <2>5. EndIsKept'
    BY <1>1, <1>2, <1>3, <1>4, <2>4 DEF EndIsKept, MasterContext!EndTaken
  <2>6. MasterContext!EndIsTold' /\ MasterContext!EndedHoldNothing'
    BY <1>2, <2>1, <2>4 DEF ContextInv, MasterContext!EndIsTold, MasterContext!EndedHoldNothing
  <2> QED
    BY <2>3, <2>5, <2>6 DEF ContextInv
<1>7. CASE MasterContext!BuildActiveContext
  <2> DEFINE how(w) == IF ~MasterContext!EndTaken(w) THEN told[w]
                       ELSE IF MasterContext!Line(w) \in {"done", "error"} THEN "line"
                       ELSE IF snap[w] \in {"doneUnintegrated", "errorTerminal"} THEN "state" ELSE "nothing"
             left(i) == IF MasterContext!Freed(i) THEN MasterContext!Nobodys ELSE items[i]
  <2>1. /\ told' = [w \in Reporters |-> how(w)] /\ items' = [i \in Items |-> left(i)] /\ resumed' = FALSE
        /\ reclaimed' = {i \in reclaimed : ~MasterContext!Freed(i)}
    BY <1>7 DEF MasterContext!BuildActiveContext
  <2>2. /\ \A w \in Reporters : how(w) \in {"no", "line", "state", "nothing", "discarded"}
        /\ \A i \in Items : left(i) \in Item
    BY <1>1 DEF ContextTypes, Item, MasterContext!Nobodys, MasterContext!Statuses
  <2>3. \A w \in Reporters : /\ ~MasterContext!EndTaken(w) => how(w) = told[w]
                             /\ MasterContext!EndTaken(w) => /\ how(w) # "no" /\ life[w] \in MasterContext!Ends
                                                             /\ life[w] \in {"done", "error"} => how(w) = "line"
                                                             /\ how(w) = "nothing" => snap[w] \notin {"doneUnintegrated", "errorTerminal"}
    <3> SUFFICES ASSUME NEW w \in Reporters
        PROVE  /\ ~MasterContext!EndTaken(w) => how(w) = told[w]
               /\ MasterContext!EndTaken(w) => /\ how(w) # "no" /\ life[w] \in MasterContext!Ends
                                               /\ life[w] \in {"done", "error"} => how(w) = "line"
                                               /\ how(w) = "nothing" => snap[w] \notin {"doneUnintegrated", "errorTerminal"}
      OBVIOUS
    <3>1. MasterContext!EndTaken(w) => life[w] \in MasterContext!Ends /\ MasterContext!Has(w, life[w])
      BY <1>1 DEF EndIsKept, MasterContext!EndTaken
    <3>2. MasterContext!Has(w, "done") => MasterContext!Line(w) = "done"
      BY DEF MasterContext!Line
    <3>3. ~MasterContext!Has(w, "done") /\ MasterContext!Has(w, "error") => MasterContext!Line(w) = "error"
      BY DEF MasterContext!Line
    <3> QED
      BY <3>1, <3>2, <3>3
  <2>4. \A i \in Items : /\ left(i).status = "inProgress" => ~MasterContext!Freed(i) /\ left(i) = items[i]
                         /\ ~MasterContext!Freed(i) /\ items[i].status = "inProgress" /\ items[i].by \in Reporters
                              => ~MasterContext!EndTaken(items[i].by)
    BY DEF MasterContext!Freed, MasterContext!Nobodys
  <2> HIDE DEF how, left
  <2>5. /\ told' \in [Reporters -> {"no", "line", "state", "nothing", "discarded"}] /\ \A w \in Reporters : told'[w] = how(w)
        /\ items' \in [Items -> Item] /\ \A i \in Items : items'[i] = left(i)
        /\ reclaimed' \in SUBSET Items
    BY <1>1, <2>1, <2>2 DEF ContextTypes
  <2>6. ContextTypes'
    <3>1. /\ life' \in [Reporters -> {"unborn", "running"} \cup MasterContext!Ends]
          /\ masterContextEmitted' \in [Reporters -> 0..MaxEvents]
          /\ late' \in [Reporters -> SUBSET {"paused", "resumed"}]
          /\ snap' \in [Reporters -> {"absent", "running", "thinking", "waitingOnTool", "paused", "doneUnintegrated", "errorTerminal"}]
          /\ overtaken' \in SUBSET Reporters
      BY <1>1, <1>2 DEF ContextTypes
    <3>2. /\ told' \in [Reporters -> {"no", "line", "state", "nothing", "discarded"}]
          /\ items' \in [Items -> Item] /\ reclaimed' \in SUBSET Items
      BY <2>5
    <3>3. resumed' \in BOOLEAN
      BY <2>1
    <3> QED
      BY ONLY <1>5, <3>1, <3>2, <3>3 DEF ContextTypes
  <2>7. EndIsKept'
    <3> SUFFICES ASSUME NEW w \in Reporters
        PROVE  /\ \A k \in MasterContext!Ends : MasterContext!Has(w, k)' => life'[w] = k
               /\ told'[w] # "no" => life'[w] \in MasterContext!Ends /\ ~MasterContext!EndTaken(w)'
               /\ life'[w] \in MasterContext!Ends /\ told'[w] = "no" => MasterContext!EndTaken(w)'
               /\ life'[w] \in MasterContext!Ends /\ w \notin overtaken' => snap'[w] \in {"doneUnintegrated", "errorTerminal"}
      BY DEF EndIsKept
    <3>1. /\ told[w] # "no" => life[w] \in MasterContext!Ends
          /\ life[w] \in MasterContext!Ends /\ told[w] = "no" => MasterContext!EndTaken(w)
          /\ life[w] \in MasterContext!Ends /\ w \notin overtaken => snap[w] \in {"doneUnintegrated", "errorTerminal"}
      BY <1>1 DEF EndIsKept
    <3>2. told'[w] # "no" => life[w] \in MasterContext!Ends
      BY <2>3, <2>5, <3>1
    <3>3. life[w] \in MasterContext!Ends => told'[w] # "no"
      BY <2>3, <2>5, <3>1
    <3> QED
      BY <1>2, <1>3, <1>4, <3>1, <3>2, <3>3
  <2>8. MasterContext!EndIsTold'
    <3> SUFFICES ASSUME NEW w \in Reporters
        PROVE  /\ told'[w] # "no" /\ life[w] \in {"done", "error"} => told'[w] \in {"line", "discarded"}
               /\ told'[w] = "nothing" => life[w] = "doneEmpty" /\ w \in overtaken
      BY <1>2 DEF MasterContext!EndIsTold
    <3>1. /\ told[w] # "no" /\ life[w] \in {"done", "error"} => told[w] \in {"line", "discarded"}
          /\ told[w] = "nothing" => life[w] = "doneEmpty" /\ w \in overtaken
      BY DEF ContextInv, MasterContext!EndIsTold
    <3>2. CASE ~MasterContext!EndTaken(w)
      BY <2>3, <2>5, <3>1, <3>2
    <3>3. CASE MasterContext!EndTaken(w)
      <4>1. told'[w] = how(w) /\ life[w] \in {"done", "doneEmpty", "error"}
        BY <2>3, <2>5, <3>3 DEF MasterContext!Ends
      <4>2. life[w] \in {"done", "error"} => told'[w] = "line"
        BY <2>3, <3>3, <4>1
      <4>3. how(w) = "nothing" => w \in overtaken
        BY <1>1, <2>3, <3>3 DEF EndIsKept
      <4> QED
        BY <4>1, <4>2, <4>3
    <3> QED
      BY <3>2, <3>3
  <2>9. MasterContext!EndedHoldNothing'
    <3> SUFFICES ASSUME NEW i \in Items, items'[i].status = "inProgress", items'[i].by \in Reporters,
                        told'[items'[i].by] \in {"line", "state", "nothing"}
                 PROVE  i \in reclaimed'
      BY DEF MasterContext!EndedHoldNothing
    <3>1. items'[i] = items[i] /\ ~MasterContext!Freed(i) /\ ~MasterContext!EndTaken(items[i].by)
      BY <2>4, <2>5
    <3>2. told'[items[i].by] = told[items[i].by]
      BY <2>3, <2>5, <3>1
    <3>3. i \in reclaimed
      BY <3>1, <3>2 DEF ContextInv, MasterContext!EndedHoldNothing
    <3> QED
      BY <2>1, <3>1, <3>3
  <2> QED
    BY <2>6, <2>7, <2>8, <2>9 DEF ContextInv
<1> QED
  BY <1>6, <1>7

\* Every step keeps the invariant.
LEMMA ContextStep == ASSUME ContextInv, [MasterContext!Next]_MasterContext!vars PROVE ContextInv'
<1>1. CASE UNCHANGED MasterContext!vars
  <2>1. \A w \in Reporters : \A k : MasterContext!Has(w, k)' <=> MasterContext!Has(w, k)
    BY <1>1 DEF MasterContext!vars, MasterContext!Has
  <2>2. \A w \in Reporters : MasterContext!EndTaken(w)' <=> MasterContext!EndTaken(w)
    BY <2>1 DEF MasterContext!EndTaken
  <2> QED
    BY <1>1, <2>1, <2>2 DEF MasterContext!vars, ContextInv, ContextTypes, EndIsKept, MasterContext!EndIsTold, MasterContext!EndedHoldNothing
<1> QED
  BY <1>1, GoesOnStep, QuietStep, TodoStep, PublishedStep, EndedStep, TurnStep DEF MasterContext!Next

\* The turn that takes a worker's end is told of it, and gives its todo items back.
LEMMA ContextTold == ASSUME ContextInv PROVE MasterContext!TypeOK /\ MasterContext!EndIsTold /\ MasterContext!EndedHoldNothing
<1>1. \A i \in DOMAIN pendingEvs : pendingEvs[i].of \in Reporters /\ pendingEvs[i].kind \in MasterContext!Kinds
  <2>1. pendingEvs \in Seq([of : Reporters, kind : MasterContext!Kinds])
    BY DEF ContextInv, ContextTypes
  <2>2. \A i \in DOMAIN pendingEvs : pendingEvs[i] \in [of : Reporters, kind : MasterContext!Kinds]
    <3> DEFINE E == [of : Reporters, kind : MasterContext!Kinds]
    <3>1. pendingEvs \in Seq(E)
      BY <2>1
    <3> HIDE DEF E
    <3>2. \A i \in DOMAIN pendingEvs : pendingEvs[i] \in E
      BY <3>1
    <3> QED
      BY <3>2 DEF E
  <2> QED
    BY <2>2
<1>2. items \in [Items -> [by : Reporters \cup {"nobody", "other"}, status : MasterContext!Statuses]]
  BY DEF ContextInv, ContextTypes, Item
<1> QED
  BY <1>1, <1>2 DEF ContextInv, ContextTypes, MasterContext!TypeOK

-----------------------------------------------------------------------------
(* Config. *)

\* What Config asks of its constants.
LEMMA ConfigBounds == Config!ConfigConstants
BY MCRequestsConstants

Typed(f) == f \in [Config!Vars -> {"absent", "off", "local", "cloud"} \cup GlobalKeys]
            /\ \A v \in Config!Vars : f[v] = "absent" \/ f[v] \in Config!Values[v]

\* Of a reload that has loaded, what the environment has of the two variables that were cleared
\* is what the files hold.
ReadAnew ==
  /\ configEnv["MASTER"] = Config!File("MASTER") /\ configEnv["KEY"] = Config!File("KEY")
  /\ configNext = Config!Load(configEnv) /\ configNext.chain # {}

Reloading == configPhase \in {"cleared", "loaded", "chain set", "lead set"}

ConfigInv ==
  /\ Typed(exported) /\ Typed(project) /\ Typed(global) /\ Typed(configEnv)
  /\ chain \in SUBSET Config!Chain /\ lead \in SUBSET Config!Entry /\ factory \in SUBSET Config!Chain
  /\ configNext.chain \in SUBSET Config!Chain /\ configNext.lead \in SUBSET Config!Entry
  /\ configPhase \in {"down", "failed", "up", "cleared", "loaded", "chain set", "lead set"}
  /\ reread \in BOOLEAN /\ saves \in 0..MaxSaves
  /\ configPhase = "up" \/ Reloading => chain # {} /\ factory # {}
  /\ reread => configPhase = "up"
  /\ configPhase \in {"loaded", "chain set", "lead set"} => ReadAnew
  /\ configPhase \in {"chain set", "lead set"} => chain = configNext.chain
  /\ configPhase = "lead set" => lead = configNext.lead
  /\ Config!ReloadReadsFiles

\* A file with no variable set, or with one, holds what its variable may.
LEMMA ProperTyped == ASSUME NEW f \in Config!Proper PROVE Typed(f)
<1>1. Config!Unset \in [Config!Vars -> {"absent", "off", "local", "cloud"} \cup GlobalKeys]
  BY DEF Config!Unset
<1>2. f \in Config!Few /\ \A v \in Config!Vars : f[v] = "absent" \/ f[v] \in Config!Values[v]
  BY DEF Config!Proper
<1>3. f \in [Config!Vars -> {"absent", "off", "local", "cloud"} \cup GlobalKeys]
  <2>1. CASE f = Config!Unset
    BY <1>1, <2>1
  <2>2. CASE \E v \in Config!Vars, x \in UNION {Config!Values[w] : w \in Config!Vars} : f = [Config!Unset EXCEPT ![v] = x]
    <3>1. PICK v \in Config!Vars, x \in UNION {Config!Values[w] : w \in Config!Vars} : f = [Config!Unset EXCEPT ![v] = x]
      BY <2>2
    <3>2. x \in {"off", "local", "cloud"} \cup GlobalKeys
      BY DEF Config!Vars, Config!Values
    <3> QED
      BY <1>1, <3>1, <3>2
  <2> QED
    BY <1>2, <2>1, <2>2 DEF Config!Few
<1> QED
  BY <1>2, <1>3 DEF Typed

\* A file over an environment has in every variable what one of the two had.
LEMMA OverTyped ==
  ASSUME NEW e, NEW f, Typed(e), Typed(f)
  PROVE  Typed(Config!Over(e, f)) /\ \A v \in Config!Vars : Config!Over(e, f)[v] = IF e[v] = "absent" THEN f[v] ELSE e[v]
BY DEF Typed, Config!Over

\* The files give the environment what it has not.
LEMMA LoadTyped ==
  ASSUME NEW e, Typed(e), Typed(project), Typed(global)
  PROVE  /\ Typed(Config!LoadDotenvChain(e))
         /\ \A v \in Config!Vars : e[v] = "absent" => Config!LoadDotenvChain(e)[v] = Config!File(v)
<1>1. Typed(Config!Over(e, project)) /\ \A v \in Config!Vars : Config!Over(e, project)[v] = IF e[v] = "absent" THEN project[v] ELSE e[v]
  BY OverTyped
<1> DEFINE o == Config!Over(e, project)
<1> HIDE DEF o
<1>2. Typed(o) /\ \A v \in Config!Vars : o[v] = IF e[v] = "absent" THEN project[v] ELSE e[v]
  BY <1>1 DEF o
<1>3. Typed(Config!Over(o, global)) /\ \A v \in Config!Vars : Config!Over(o, global)[v] = IF o[v] = "absent" THEN global[v] ELSE o[v]
  BY <1>2, OverTyped
<1>4. Config!LoadDotenvChain(e) = Config!Over(o, global)
  BY DEF Config!LoadDotenvChain, o
<1> QED
  BY <1>2, <1>3, <1>4 DEF Config!File

\* A role that resolves has the provider it was asked for and, in the cloud, the key of the
\* environment.
LEMMA RoleResolved ==
  ASSUME NEW e, Typed(e), NEW p \in {"absent", "off", "local", "cloud"}
  PROVE  /\ Config!ResolveRole(e, p) \in SUBSET Config!Entry
         /\ \A x \in Config!ResolveRole(e, p) : x.provider = p /\ (x.provider = "cloud" => x.key = e["KEY"])
<1>1. "KEY" \in Config!Vars
  BY DEF Config!Vars
<1>2. e["KEY"] = "absent" \/ e["KEY"] \in GlobalKeys
  BY <1>1 DEF Typed, Config!Values
<1>3. Config!Key(e) = "none" \/ (Config!Key(e) = e["KEY"] /\ Config!Key(e) \in GlobalKeys)
  BY <1>2 DEF Config!Key
<1>4. CASE p \in {"absent", "off"}
  BY <1>4 DEF Config!ResolveRole
<1>5. CASE p = "local"
  <2>1. Config!ResolveRole(e, p) = {[provider |-> "local", key |-> "none"]}
    BY <1>5 DEF Config!ResolveRole
  <2> QED
    BY <1>5, <2>1 DEF Config!Entry
<1>6. CASE p = "cloud"
  <2>1. Config!ResolveRole(e, p) = IF Config!Key(e) = "none" THEN {} ELSE {[provider |-> "cloud", key |-> Config!Key(e)]}
    BY <1>6 DEF Config!ResolveRole
  <2> QED
    BY <1>3, <1>6, <2>1 DEF Config!Entry
<1> QED
  BY <1>4, <1>5, <1>6

\* What Load makes of an environment: adapters for its provider, with its key.
LEMMA Loaded ==
  ASSUME NEW e, Typed(e)
  PROVE  /\ Config!Load(e).chain \in SUBSET Config!Chain /\ Config!Load(e).lead \in SUBSET Config!Entry
         /\ \A c \in Config!Load(e).chain : /\ c.main.provider = e["MASTER"]
                                            /\ \A x \in {c.main} \cup c.fallbacks : x.provider = "cloud" => x.key = e["KEY"]
         /\ \A x \in Config!Load(e).lead : x.provider = "cloud" => x.key = e["KEY"]
<1>1. /\ e["MASTER"] \in {"absent", "off", "local", "cloud"} /\ e["FALLBACKS"] \in {"absent", "off", "local", "cloud"}
      /\ e["LEAD"] \in {"absent", "off", "local", "cloud"}
  BY DEF Typed, Config!Vars, Config!Values
<1> DEFINE ms == Config!ResolveRole(e, e["MASTER"])
           fb == Config!ResolveRole(e, e["FALLBACKS"])
           ls == Config!ResolveRole(e, e["LEAD"])
<1>2. /\ ms \in SUBSET Config!Entry /\ fb \in SUBSET Config!Entry /\ ls \in SUBSET Config!Entry
      /\ \A x \in ms : x.provider = e["MASTER"]
      /\ \A x \in ms \cup fb \cup ls : x.provider = "cloud" => x.key = e["KEY"]
  BY <1>1, RoleResolved
<1>3. Config!Load(e) = [chain |-> {[main |-> m, fallbacks |-> fb] : m \in ms}, lead |-> ls]
  BY DEF Config!Load, Config!ParseFallbacks
<1> HIDE DEF ms, fb, ls
<1> DEFINE cs == {[main |-> m, fallbacks |-> fb] : m \in ms}
<1>4. Config!Load(e).chain = cs /\ Config!Load(e).lead = ls
  BY <1>3
<1>5. \A c \in cs : c \in Config!Chain /\ c.main \in ms /\ c.fallbacks = fb
  BY <1>2 DEF Config!Chain
<1> HIDE DEF cs
<1> QED
  BY <1>2, <1>4, <1>5

\* The configuration before the process is started.
LEMMA ConfigInit == ASSUME Config!Init, MaxSaves \in Nat PROVE ConfigInv
<1>1. Typed(exported) /\ Typed(project)
  BY ProperTyped DEF Config!Init
<1>2. Typed(Config!Unset)
  BY DEF Typed, Config!Unset
<1>3. Typed(global) /\ Typed(configEnv)
  BY <1>2 DEF Config!Init, Typed, Config!Unset, Config!Vars, Config!Values
<1>4. configNext.chain = {} /\ configNext.lead = {}
  BY DEF Config!Init
<1>5. configPhase = "down" /\ chain = {} /\ lead = {} /\ factory = {} /\ reread = FALSE /\ saves \in 0..MaxSaves
  BY DEF Config!Init
<1> QED
  BY <1>1, <1>3, <1>4, <1>5 DEF ConfigInv, Reloading, Config!ReloadReadsFiles

\* A start, or an end, of the process.
LEMMA ProcessStep == ASSUME ConfigInv, Config!Start \/ Config!Exit PROVE ConfigInv'
<1>1. Typed(exported) /\ Typed(project) /\ Typed(global)
  BY DEF ConfigInv
<1>2. UNCHANGED <<exported, project, global, configNext, saves>> /\ reread' = FALSE
  BY DEF Config!Start, Config!Exit, Config!files
<1>3. CASE Config!Start
  <2>1. Typed(configEnv')
    BY <1>1, <1>3, LoadTyped DEF Config!Start
  <2>2. Config!Load(configEnv').chain \in SUBSET Config!Chain /\ Config!Load(configEnv').lead \in SUBSET Config!Entry
    BY <2>1, Loaded
  <2>3. /\ chain' = Config!Load(configEnv').chain /\ lead' = Config!Load(configEnv').lead /\ factory' = Config!Load(configEnv').chain
        /\ configPhase' = IF Config!Load(configEnv').chain = {} THEN "failed" ELSE "up"
    BY <1>3 DEF Config!Start
  <2> QED
    BY <1>2, <2>1, <2>2, <2>3 DEF ConfigInv, Reloading, Config!ReloadReadsFiles, Typed
<1>4. CASE Config!Exit
  <2>1. Typed(Config!Unset)
    BY DEF Typed, Config!Unset
  <2>2. configPhase' = "down" /\ configEnv' = Config!Unset /\ chain' = {} /\ lead' = {} /\ factory' = {}
    BY <1>4 DEF Config!Exit
  <2> QED
    BY <1>2, <2>1, <2>2 DEF ConfigInv, Reloading, Config!ReloadReadsFiles, Typed
<1> QED
  BY <1>3, <1>4

\* Settings are saved.
LEMMA SaveStep ==
  ASSUME ConfigInv, MaxSaves \in Nat, NEW m \in {"local", "cloud"}, NEW k \in GlobalKeys \cup {"none"},
         NEW f \in Config!Values["FALLBACKS"], NEW l \in Config!Values["LEAD"], Config!Save(m, k, f, l)
  PROVE  ConfigInv'
<1>1. Typed(global)
  BY DEF ConfigInv
<1>2. Typed(global')
  <2>1. \A v \in Config!Vars : global'[v] = CASE v = "MASTER" -> m
         [] v = "KEY" -> IF k = "none" THEN global[v] ELSE k
         [] v = "FALLBACKS" -> IF f = "off" THEN "absent" ELSE f
         [] v = "LEAD" -> l
    BY DEF Config!Save
  <2>2. /\ global'["MASTER"] = m /\ global'["KEY"] = (IF k = "none" THEN global["KEY"] ELSE k)
        /\ global'["FALLBACKS"] = (IF f = "off" THEN "absent" ELSE f) /\ global'["LEAD"] = l
    BY <2>1 DEF Config!Vars
  <2>3. \E g : global' = [v \in Config!Vars |-> g[v]]
    <3>1. global' = [v \in Config!Vars |-> global'[v]]
      BY <2>1 DEF Config!Save
    <3> QED
      BY <3>1
  <2>4. \A v \in Config!Vars : global'[v] = "absent" \/ global'[v] \in Config!Values[v]
    BY <1>1, <2>2 DEF Config!Vars, Config!Values, Typed
  <2>5. \A v \in Config!Vars : Config!Values[v] \subseteq {"absent", "off", "local", "cloud"} \cup GlobalKeys
    BY DEF Config!Vars, Config!Values
  <2>6. global' \in [Config!Vars -> {"absent", "off", "local", "cloud"} \cup GlobalKeys]
    BY <2>3, <2>4, <2>5
  <2> QED
    BY <2>4, <2>6 DEF Typed
<1>3. /\ configPhase = "up" /\ configPhase' = "cleared" /\ reread' = FALSE /\ configEnv' = configEnv /\ saves' = saves + 1 /\ saves < MaxSaves
      /\ UNCHANGED <<exported, project, configNext, chain, lead, factory>>
  BY DEF Config!Save, Config!inForce
<1>4. saves' \in 0..MaxSaves
  BY <1>3 DEF ConfigInv
<1> QED
  BY <1>2, <1>3, <1>4 DEF ConfigInv, Reloading, Config!ReloadReadsFiles, Typed

\* The reload reads the files.
LEMMA ReloadStep == ASSUME ConfigInv, Config!ReloadLoads PROVE ConfigInv'
<1>1. Typed(exported) /\ Typed(project) /\ Typed(global) /\ Typed(configEnv)
  BY DEF ConfigInv
<1> DEFINE e == Config!ClearAgeniEnv(configEnv)
<1>2. Typed(e) /\ e["MASTER"] = "absent" /\ e["KEY"] = "absent"
  BY <1>1 DEF Typed, Config!ClearAgeniEnv, Config!Managed, Config!Vars
<1> HIDE DEF e
<1>3. configEnv' = Config!LoadDotenvChain(e)
  BY DEF Config!ReloadLoads, e
<1>4. "MASTER" \in Config!Vars /\ "KEY" \in Config!Vars
  BY DEF Config!Vars
<1>5. Typed(configEnv') /\ configEnv'["MASTER"] = Config!File("MASTER") /\ configEnv'["KEY"] = Config!File("KEY")
  BY <1>1, <1>2, <1>3, <1>4, LoadTyped
<1>6. Config!Load(configEnv').chain \in SUBSET Config!Chain /\ Config!Load(configEnv').lead \in SUBSET Config!Entry
  BY <1>5, Loaded
<1>7. /\ configNext' = Config!Load(configEnv') /\ configPhase' = (IF configNext'.chain = {} THEN "up" ELSE "loaded") /\ configPhase = "cleared"
      /\ UNCHANGED <<exported, project, global, chain, lead, factory, reread, saves>>
  BY DEF Config!ReloadLoads, Config!files, Config!inForce
<1>8. ~reread
  BY <1>7 DEF ConfigInv
<1>9. Config!File("MASTER")' = Config!File("MASTER") /\ Config!File("KEY")' = Config!File("KEY")
  BY <1>7 DEF Config!File
<1>10. configPhase' = "loaded" => ReadAnew'
  BY <1>5, <1>7, <1>9 DEF ReadAnew
<1>11. Typed(exported)' /\ Typed(project)' /\ Typed(global)' /\ Typed(configEnv)'
  BY <1>1, <1>5, <1>7 DEF Typed
<1> QED
  BY <1>6, <1>7, <1>8, <1>10, <1>11 DEF ConfigInv, Reloading, Config!ReloadReadsFiles

\* What was loaded is put in force, one part after the other.
LEMMA ForceStep == ASSUME ConfigInv, Config!UpdateAdapter \/ Config!SetLead \/ Config!UpdateFactory PROVE ConfigInv'
<1>1. Typed(exported) /\ Typed(project) /\ Typed(global) /\ Typed(configEnv) /\ ReadAnew
  BY DEF ConfigInv, Config!UpdateAdapter, Config!SetLead, Config!UpdateFactory
<1>2. UNCHANGED <<exported, project, global, configEnv, configNext, saves>>
  BY DEF Config!UpdateAdapter, Config!SetLead, Config!UpdateFactory, Config!files
<1>3. ReadAnew' /\ Typed(exported)' /\ Typed(project)' /\ Typed(global)' /\ Typed(configEnv)'
  <2>1. Typed(exported)' /\ Typed(project)' /\ Typed(global)' /\ Typed(configEnv)'
    BY <1>1, <1>2 DEF Typed
  <2>2. Config!Load(configEnv') = Config!Load(configEnv) /\ Config!File("MASTER")' = Config!File("MASTER") /\ Config!File("KEY")' = Config!File("KEY")
    BY <1>2 DEF Config!File
  <2> QED
    BY <1>1, <1>2, <2>1, <2>2 DEF ReadAnew
<1>4. CASE Config!UpdateAdapter
  <2>1. /\ configPhase = "loaded" /\ configPhase' = "chain set" /\ chain' = configNext.chain
        /\ UNCHANGED <<lead, factory, reread>>
    BY <1>4 DEF Config!UpdateAdapter
  <2>2. reread = FALSE /\ configNext.chain # {} /\ factory # {}
    BY <1>1, <2>1 DEF ConfigInv, ReadAnew, Reloading
  <2>3. reread' = FALSE /\ chain' # {} /\ factory' # {}
    BY <2>1, <2>2
  <2>4. Config!ReloadReadsFiles'
    BY <2>3 DEF Config!ReloadReadsFiles
  <2> QED
    BY <1>2, <1>3, <2>1, <2>3, <2>4 DEF ConfigInv
<1>5. CASE Config!SetLead
  <2>1. /\ configPhase = "chain set" /\ configPhase' = "lead set" /\ lead' = configNext.lead
        /\ UNCHANGED <<chain, factory, reread>>
    BY <1>5 DEF Config!SetLead
  <2>2. ~reread
    BY <2>1 DEF ConfigInv
  <2> QED
    BY <1>2, <1>3, <2>1, <2>2 DEF ConfigInv, Reloading, Config!ReloadReadsFiles
<1>6. CASE Config!UpdateFactory
  <2>1. configPhase = "lead set" /\ configPhase' = "up" /\ factory' = configNext.chain /\ reread' = TRUE /\ UNCHANGED <<chain, lead>>
    BY <1>6 DEF Config!UpdateFactory
  <2>2. chain = configNext.chain /\ lead = configNext.lead /\ configNext.chain # {} /\ configNext = Config!Load(configEnv)
    BY <1>1, <2>1 DEF ConfigInv, ReadAnew
  <2>3. /\ \A c \in chain : /\ c.main.provider = Config!File("MASTER")
                           /\ \A x \in {c.main} \cup c.fallbacks : Config!Authenticated(x)
        /\ \A x \in lead : Config!Authenticated(x)
    BY <1>1, <2>2, Loaded DEF ReadAnew, Config!Authenticated
  <2>4. Config!ReloadReadsFiles'
    <3>1. \A x : Config!Authenticated(x)' = Config!Authenticated(x)
      BY <1>2 DEF Config!Authenticated, Config!File
    <3>2. Config!File("MASTER")' = Config!File("MASTER")
      BY <1>2 DEF Config!File
    <3> QED
      BY <2>1, <2>2, <2>3, <3>1, <3>2 DEF Config!ReloadReadsFiles, ConfigInv, Config!Authenticated, Config!File
  <2> QED
    BY <1>2, <1>3, <2>1, <2>2, <2>4 DEF ConfigInv, Reloading
<1> QED
  BY <1>4, <1>5, <1>6

\* Every step of the process and of the settings page keeps the invariant.
LEMMA ConfigStep == ASSUME ConfigInv, MaxSaves \in Nat, [Config!Next]_Config!vars PROVE ConfigInv'
<1>1. CASE \E m \in {"local", "cloud"}, k \in GlobalKeys \cup {"none"}, f \in Config!Values["FALLBACKS"], l \in Config!Values["LEAD"] :
       Config!Save(m, k, f, l)
  BY <1>1, SaveStep
<1>2. CASE UNCHANGED Config!vars
  BY <1>2 DEF Config!vars, Config!files, Config!inForce, ConfigInv, Typed, Reloading, ReadAnew, Config!File, Config!Load, Config!ResolveRole,
     Config!ParseFallbacks, Config!Key, Config!ReloadReadsFiles, Config!Authenticated
<1> QED
  BY <1>1, <1>2, ProcessStep, ReloadStep, ForceStep DEF Config!Next

\* After a reload the master and its workers run on what the files hold.
LEMMA ConfigTold == ASSUME ConfigInv PROVE Config!TypeOK /\ Config!ReloadReadsFiles
BY DEF ConfigInv, Typed, Config!TypeOK, Config!Environment

-----------------------------------------------------------------------------
(* Wire. *)

\* What Wire asks of its constants.
LEMMA WireBounds == Wire!WireConstants
BY MCRequestsConstants

\* Finite sets, their sizes and ranges are the library's.
LEMMA WireLibrary ==
  /\ \A S : Wire!Cardinality(S) = Cardinality(S)
  /\ \A f : Wire!Range(f) = Range(f)
BY DEF Wire!Cardinality, Cardinality, Wire!Range, Range

\* The greatest of a nonempty set of numbers up to n.
LEMMA WireHighest ==
  ASSUME NEW n \in Nat, NEW S, S \subseteq 0..n, S # {}
  PROVE  Wire!Max(S) \in S /\ \A m \in S : m <= Wire!Max(S)
BY Highest DEF Wire!Max

\* The constants of the wire.
LEMMA WireNumbers ==
  /\ Pieces \in Nat /\ Pieces >= 1 /\ MaxCalls \in Nat /\ MaxTurns \in Nat
  /\ Wire!Calls \subseteq Nat /\ IsFiniteSet(Wire!Calls)
<1>1. Pieces \in Nat /\ Pieces >= 1 /\ MaxCalls \in Nat /\ MaxTurns \in Nat
  BY WireBounds DEF Wire!WireConstants
<1>2. IsFiniteSet(Wire!Calls)
  BY <1>1, FS_Interval DEF Wire!Calls
<1> QED
  BY <1>1, <1>2 DEF Wire!Calls

\* The answers that follow position i end at a.
EndsAt(msgs, i, a) ==
  /\ a \in i..Len(msgs)
  /\ \A k \in (i + 1)..a : msgs[k].role = "tool"
  /\ a < Len(msgs) => msgs[a + 1].role # "tool"

\* AnswersEnd is where the answers end.
LEMMA EndIs ==
  ASSUME NEW msgs \in Seq(Wire!Messages), NEW i \in DOMAIN msgs
  PROVE  EndsAt(msgs, i, Wire!AnswersEnd(msgs, i))
<1> DEFINE n == Len(msgs)
           S == {j \in i..n : \A k \in (i + 1)..j : msgs[k].role = "tool"}
           a == Wire!AnswersEnd(msgs, i)
<1>1. n \in Nat /\ i \in 1..n
  BY LenProperties
<1> HIDE DEF n
<1>2. S \subseteq 0..n /\ i \in S
  BY <1>1
<1>3. a = Wire!Max(S)
  BY DEF Wire!AnswersEnd, n
<1>4. a \in S /\ \A m \in S : m <= a
  BY <1>1, <1>2, <1>3, WireHighest
<1> HIDE DEF a
<1>5. a < n => msgs[a + 1].role # "tool"
  <2> SUFFICES ASSUME a < n, msgs[a + 1].role = "tool" PROVE FALSE
    OBVIOUS
  <2>1. a + 1 \in i..n
    BY <1>1, <1>4
  <2>2. \A k \in (i + 1)..(a + 1) : k \in (i + 1)..a \/ k = a + 1
    BY <1>1, <1>4
  <2>3. a + 1 \in S
    BY <2>1, <2>2, <1>4
  <2> QED
    BY <2>3, <1>1, <1>4
<1> QED
  BY <1>4, <1>5 DEF EndsAt, a, n

\* They end at one position only.
LEMMA EndOnly ==
  ASSUME NEW msgs, Len(msgs) \in Nat, NEW i \in Nat, NEW a, EndsAt(msgs, i, a), NEW b, EndsAt(msgs, i, b)
  PROVE  a = b
<1>1. a \in Nat /\ b \in Nat
  BY DEF EndsAt
<1>2. CASE a < b
  <2>1. a + 1 \in (i + 1)..b /\ a < Len(msgs)
    BY <1>1, <1>2 DEF EndsAt
  <2> QED
    BY <2>1 DEF EndsAt
<1>3. CASE b < a
  <2>1. b + 1 \in (i + 1)..a /\ b < Len(msgs)
    BY <1>1, <1>3 DEF EndsAt
  <2> QED
    BY <2>1 DEF EndsAt
<1> QED
  BY <1>1, <1>2, <1>3

\* What is cut out of a request: d messages from c on.
Shifted(g, l, c, d) ==
  /\ Len(g) = Len(l) - d /\ d >= 1 /\ Len(g) >= c - 1
  /\ \A j \in 1..(c - 1) : g[j] = l[j]
  /\ \A j \in c..Len(g) : g[j] = l[j + d]

\* A position behind the cut, and the one it had.
LEMMA BehindCut ==
  ASSUME NEW n \in Nat, NEW a \in Nat, NEW c \in Nat, NEW d \in Nat, NEW j \in c..(n - d),
         c >= 1, d >= 1, a <= n, a = c + d - 1
  PROVE  /\ j \in 1..((c - 1) + (n - a)) /\ ~(j <= c - 1)
         /\ j - (c - 1) \in 1..(n - a) /\ a + (j - (c - 1)) = j + d
OBVIOUS

\* What is cut out of a request is one stretch: a message and the answers that follow it.
LEMMA SplicedIs ==
  ASSUME NEW l \in Seq(Wire!Messages), NEW c \in DOMAIN l
  PROVE  /\ Wire!Spliced(l, c) \in Seq(Wire!Messages)
         /\ \E d \in Nat : Shifted(Wire!Spliced(l, c), l, c, d) /\ Wire!AnswersEnd(l, c) = c + d - 1
<1> DEFINE n == Len(l)
           a == Wire!AnswersEnd(l, c)
           s == SubSeq(l, 1, c - 1)
           t == SubSeq(l, a + 1, n)
           g == Wire!Spliced(l, c)
<1>1. n \in Nat /\ c \in 1..n /\ \A k \in 1..n : l[k] \in Wire!Messages
  BY LenProperties, ElementOfSeq
<1>2. a \in c..n
  BY EndIs DEF EndsAt
<1>3. g = s \o t
  BY DEF Wire!Spliced
<1> HIDE DEF a, g
<1>4. s \in Seq(Wire!Messages) /\ Len(s) = c - 1 /\ \A j \in 1..(c - 1) : s[j] = l[j]
  <2>1. \A k \in 1..(c - 1) : l[k] \in Wire!Messages
    BY <1>1
  <2>2. /\ s \in Seq(Wire!Messages)
        /\ Len(s) = IF 1 <= c - 1 THEN (c - 1) - 1 + 1 ELSE 0
        /\ \A k \in 1..((c - 1) - 1 + 1) : s[k] = l[1 + k - 1]
    BY <2>1, <1>1, SubSeqProperties
  <2> HIDE DEF s
  <2>3. (IF 1 <= c - 1 THEN (c - 1) - 1 + 1 ELSE 0) = c - 1 /\ (c - 1) - 1 + 1 = c - 1
    BY <1>1
  <2>4. \A k \in 1..(c - 1) : 1 + k - 1 = k
    OBVIOUS
  <2> QED
    BY <2>2, <2>3, <2>4
<1>5. t \in Seq(Wire!Messages) /\ Len(t) = n - a /\ \A j \in 1..(n - a) : t[j] = l[a + j]
  <2>1. \A k \in (a + 1)..n : l[k] \in Wire!Messages
    BY <1>1, <1>2
  <2>2. /\ t \in Seq(Wire!Messages)
        /\ Len(t) = IF a + 1 <= n THEN n - (a + 1) + 1 ELSE 0
        /\ \A k \in 1..(n - (a + 1) + 1) : t[k] = l[(a + 1) + k - 1]
    BY <2>1, <1>1, <1>2, SubSeqProperties
  <2> HIDE DEF t, n
  <2>3. (IF a + 1 <= n THEN n - (a + 1) + 1 ELSE 0) = n - a /\ n - (a + 1) + 1 = n - a
    BY <1>1, <1>2
  <2>4. \A k \in 1..(n - a) : (a + 1) + k - 1 = a + k
    BY <1>1, <1>2
  <2> QED
    BY <2>2, <2>3, <2>4
<1> HIDE DEF s, t, n
<1>6. /\ g \in Seq(Wire!Messages) /\ Len(g) = Len(s) + Len(t)
      /\ \A k \in 1..(Len(s) + Len(t)) : g[k] = IF k <= Len(s) THEN s[k] ELSE t[k - Len(s)]
  BY <1>3, <1>4, <1>5, ConcatProperties
<1> DEFINE d == a - c + 1
<1>7. d \in Nat /\ d >= 1 /\ a = c + d - 1 /\ Len(g) = n - d /\ Len(g) >= c - 1
  BY <1>1, <1>2, <1>4, <1>5, <1>6
<1> HIDE DEF d
<1>8. \A j \in 1..(c - 1) : g[j] = l[j]
  <2> TAKE j \in 1..(c - 1)
  <2>1. j \in 1..(Len(s) + Len(t)) /\ j <= Len(s)
    BY <1>1, <1>2, <1>4, <1>5
  <2> QED
    BY <2>1, <1>4, <1>6
<1>9. \A j \in c..Len(g) : g[j] = l[j + d]
  <2> TAKE j \in c..Len(g)
  <2>1. j \in 1..(Len(s) + Len(t)) /\ ~(j <= Len(s)) /\ j - Len(s) \in 1..(n - a) /\ a + (j - Len(s)) = j + d
    <3>1. Len(s) = c - 1 /\ Len(t) = n - a /\ Len(g) = n - d /\ a = c + d - 1
      BY <1>4, <1>5, <1>7
    <3>2. n \in Nat /\ a \in Nat /\ a <= n /\ c \in Nat /\ c >= 1
      BY <1>1, <1>2
    <3>3. j \in c..(n - d)
      BY <3>1
    <3>4. d \in Nat /\ d >= 1
      BY <1>7
    <3>5. a = c + d - 1
      BY <3>1
    <3>6. /\ j \in 1..((c - 1) + (n - a)) /\ ~(j <= c - 1)
          /\ j - (c - 1) \in 1..(n - a) /\ a + (j - (c - 1)) = j + d
      BY ONLY <3>2, <3>3, <3>4, <3>5, BehindCut
    <3> QED
      BY ONLY <3>1, <3>6
  <2>2. g[j] = t[j - Len(s)]
    BY <2>1, <1>6
  <2>3. t[j - Len(s)] = l[a + (j - Len(s))]
    BY <2>1, <1>5
  <2> QED
    BY <2>1, <2>2, <2>3
<1>10. Shifted(g, l, c, d)
  BY <1>7, <1>8, <1>9 DEF Shifted, n
<1> QED
  BY <1>6, <1>7, <1>10 DEF a, g

\* A tool's message belongs to the assistant's before it, with tools only between them.
HeadOf(l, h, i) ==
  /\ h \in 1..(i - 1) /\ l[h].role = "assistant" /\ l[i].calls \subseteq l[h].calls
  /\ \A j \in (h + 1)..i : l[j].role = "tool"

Grouped(l) == \A i \in DOMAIN l : l[i].role = "tool" => \E h \in DOMAIN l : HeadOf(l, h, i)

CompleteFrom(l, m) == \A i \in DOMAIN l : i >= m => ~Wire!Incomplete(l, i)

\* A shift keeps what belongs together.
LEMMA ShiftedGrouped ==
  ASSUME NEW l \in Seq(Wire!Messages), NEW g \in Seq(Wire!Messages), NEW c \in DOMAIN l, NEW d \in Nat,
         Shifted(g, l, c, d), EndsAt(l, c, c + d - 1), Grouped(l)
  PROVE  Grouped(g)
<1>1. /\ Len(l) \in Nat /\ DOMAIN l = 1..Len(l) /\ Len(g) \in Nat /\ DOMAIN g = 1..Len(g) /\ c \in 1..Len(l)
      /\ Len(g) = Len(l) - d /\ d >= 1 /\ Len(g) >= c - 1
  BY LenProperties DEF Shifted
<1> SUFFICES ASSUME NEW i \in DOMAIN g, g[i].role = "tool" PROVE \E h \in DOMAIN g : HeadOf(g, h, i)
  BY DEF Grouped
<1>2. CASE i < c
  <2>1. i \in DOMAIN l /\ i \in 1..(c - 1) /\ g[i] = l[i]
    BY <1>1, <1>2 DEF Shifted
  <2>2. PICK h \in DOMAIN l : HeadOf(l, h, i)
    BY <2>1 DEF Grouped
  <2>3. h \in 1..(i - 1) /\ h \in 1..(c - 1) /\ h \in DOMAIN g
    BY <2>2, <1>1, <1>2 DEF HeadOf
  <2>4. g[h] = l[h]
    BY <2>3 DEF Shifted
  <2>5. \A j \in (h + 1)..i : g[j].role = "tool"
    <3> TAKE j \in (h + 1)..i
    <3>1. j \in 1..(c - 1)
      BY <2>3, <1>1, <1>2
    <3>2. g[j] = l[j]
      BY <3>1 DEF Shifted
    <3> QED
      BY <3>2, <2>2 DEF HeadOf
  <2>6. HeadOf(g, h, i)
    BY <2>1, <2>2, <2>3, <2>4, <2>5 DEF HeadOf
  <2> QED
    BY <2>3, <2>6
<1>3. CASE i >= c
  <2>1. i \in c..Len(g) /\ i + d \in DOMAIN l /\ g[i] = l[i + d]
    <3>1. i \in c..Len(g) /\ i + d \in 1..Len(l)
      BY <1>1, <1>3
    <3> QED
      BY <3>1, <1>1 DEF Shifted
  <2>2. PICK h \in DOMAIN l : HeadOf(l, h, i + d)
    BY <2>1 DEF Grouped
  <2>3. h \in 1..(i + d - 1)
    BY <2>2 DEF HeadOf
  <2>4. h >= c + d
    <3> SUFFICES ASSUME h < c + d PROVE FALSE
      BY <1>1, <2>3
    <3>1. c + d \in (h + 1)..(i + d) /\ c + d - 1 < Len(l) /\ (c + d - 1) + 1 = c + d
      BY <1>1, <2>1, <2>3
    <3>2. l[c + d].role = "tool"
      BY <3>1, <2>2 DEF HeadOf
    <3> QED
      BY <3>1, <3>2 DEF EndsAt
  <2>5. h - d \in c..Len(g) /\ h - d \in 1..(i - 1) /\ h - d \in DOMAIN g /\ (h - d) + d = h
    BY <1>1, <2>1, <2>3, <2>4
  <2>6. g[h - d] = l[h]
    BY <2>5 DEF Shifted
  <2>7. \A j \in (h - d + 1)..i : g[j].role = "tool"
    <3> TAKE j \in (h - d + 1)..i
    <3>1. j \in c..Len(g) /\ j + d \in (h + 1)..(i + d)
      BY <1>1, <2>1, <2>3, <2>4
    <3>2. g[j] = l[j + d]
      BY <3>1 DEF Shifted
    <3> QED
      BY <3>1, <3>2, <2>2 DEF HeadOf
  <2>8. HeadOf(g, h - d, i)
    BY <2>1, <2>2, <2>5, <2>6, <2>7 DEF HeadOf
  <2> QED
    BY <2>5, <2>8
<1> QED
  BY <1>1, <1>2, <1>3

\* BehindCut the cut every message has the answers it had.
LEMMA ShiftedComplete ==
  ASSUME NEW l \in Seq(Wire!Messages), NEW g \in Seq(Wire!Messages), NEW c \in DOMAIN l, NEW d \in Nat,
         Shifted(g, l, c, d), CompleteFrom(l, c + 1)
  PROVE  CompleteFrom(g, c)
<1>1. /\ Len(l) \in Nat /\ DOMAIN l = 1..Len(l) /\ Len(g) \in Nat /\ DOMAIN g = 1..Len(g) /\ c \in 1..Len(l)
      /\ Len(g) = Len(l) - d /\ d >= 1 /\ Len(g) >= c - 1
  BY LenProperties DEF Shifted
<1> SUFFICES ASSUME NEW i \in DOMAIN g, i >= c PROVE ~Wire!Incomplete(g, i)
  BY DEF CompleteFrom
<1>2. i \in c..Len(g) /\ i + d \in DOMAIN l /\ i + d >= c + 1 /\ i \in Nat /\ i + d \in Nat
  BY <1>1
<1>3. ~Wire!Incomplete(l, i + d)
  BY <1>2 DEF CompleteFrom
<1> DEFINE a == Wire!AnswersEnd(g, i)
           b == Wire!AnswersEnd(l, i + d)
<1>4. EndsAt(g, i, a) /\ EndsAt(l, i + d, b)
  BY <1>2, EndIs
<1> HIDE DEF a, b
<1>5. a \in i..Len(g)
  BY <1>4 DEF EndsAt
<1>6. \A k \in i..Len(g) : g[k] = l[k + d]
  <2> TAKE k \in i..Len(g)
  <2>1. k \in c..Len(g)
    BY <1>1, <1>2
  <2> QED
    BY <2>1 DEF Shifted
<1>7. EndsAt(l, i + d, a + d)
  <2>1. a + d \in (i + d)..Len(l)
    BY <1>1, <1>2, <1>5
  <2>2. \A k \in (i + d + 1)..(a + d) : l[k].role = "tool"
    <3> TAKE k \in (i + d + 1)..(a + d)
    <3>1. k - d \in (i + 1)..a /\ k - d \in i..Len(g) /\ (k - d) + d = k
      BY <1>1, <1>2, <1>5
    <3> QED
      BY <3>1, <1>4, <1>6 DEF EndsAt
  <2>3. a + d < Len(l) => l[a + d + 1].role # "tool"
    <3> SUFFICES ASSUME a + d < Len(l) PROVE l[a + d + 1].role # "tool"
      OBVIOUS
    <3>1. a < Len(g) /\ a + 1 \in i..Len(g) /\ (a + 1) + d = a + d + 1
      BY <1>1, <1>2, <1>5
    <3> QED
      BY <3>1, <1>4, <1>6 DEF EndsAt
  <2> QED
    BY <2>1, <2>2, <2>3 DEF EndsAt
<1>8. b = a + d
  BY <1>1, <1>2, <1>4, <1>7, EndOnly
<1>9. Wire!Unanswered(g, i) = Wire!Unanswered(l, i + d)
  <2>1. g[i] = l[i + d]
    BY <1>2, <1>6
  <2>2. \A k \in (i + 1)..a : k + d \in (i + d + 1)..b /\ g[k].calls = l[k + d].calls
    <3> TAKE k \in (i + 1)..a
    <3>1. k \in i..Len(g) /\ k + d \in (i + d + 1)..b
      BY <1>1, <1>2, <1>5, <1>8
    <3> QED
      BY <3>1, <1>6
  <2>3. \A m \in (i + d + 1)..b : m - d \in (i + 1)..a /\ g[m - d].calls = l[m].calls
    <3> TAKE m \in (i + d + 1)..b
    <3>1. m - d \in i..Len(g) /\ m - d \in (i + 1)..a /\ (m - d) + d = m
      BY <1>1, <1>2, <1>5, <1>8
    <3> QED
      BY <3>1, <1>6
  <2>4. UNION {g[k].calls : k \in (i + 1)..a} = UNION {l[k].calls : k \in (i + d + 1)..b}
    BY <2>2, <2>3
  <2> QED
    BY <2>1, <2>4 DEF Wire!Unanswered, a, b
<1>10. g[i] = l[i + d]
  BY <1>2, <1>6
<1> QED
  BY <1>3, <1>9, <1>10 DEF Wire!Incomplete

\* No message of the user is cut out.
LEMMA ShiftedUsers ==
  ASSUME NEW l \in Seq(Wire!Messages), NEW g \in Seq(Wire!Messages), NEW c \in DOMAIN l, NEW d \in Nat,
         Shifted(g, l, c, d), EndsAt(l, c, c + d - 1), l[c].role = "assistant"
  PROVE  Cardinality(Wire!OfUser(g)) = Cardinality(Wire!OfUser(l))
<1>1. /\ Len(l) \in Nat /\ DOMAIN l = 1..Len(l) /\ Len(g) \in Nat /\ DOMAIN g = 1..Len(g) /\ c \in 1..Len(l)
      /\ Len(g) = Len(l) - d /\ d >= 1 /\ Len(g) >= c - 1
  BY LenProperties DEF Shifted
<1> DEFINE f == [i \in Wire!OfUser(g) |-> IF i < c THEN i ELSE i + d]
<1>2. \A i \in Wire!OfUser(g) : i \in 1..Len(g) /\ g[i].role = "user"
  BY <1>1 DEF Wire!OfUser
<1>3. \A i \in Wire!OfUser(l) : i \in 1..Len(l) /\ l[i].role = "user"
  BY <1>1 DEF Wire!OfUser
<1>4. \A i \in 1..(c - 1) : i \in Wire!OfUser(g) <=> i \in Wire!OfUser(l)
  <2> TAKE i \in 1..(c - 1)
  <2>1. i \in DOMAIN g /\ i \in DOMAIN l /\ g[i] = l[i]
    BY <1>1 DEF Shifted
  <2> QED
    BY <2>1 DEF Wire!OfUser
<1>5. \A i \in c..Len(g) : i \in Wire!OfUser(g) <=> i + d \in Wire!OfUser(l)
  <2> TAKE i \in c..Len(g)
  <2>1. i \in 1..Len(g) /\ i + d \in 1..Len(l) /\ g[i] = l[i + d]
    BY <1>1 DEF Shifted
  <2> QED
    BY <2>1, <1>1 DEF Wire!OfUser
<1>6. \A i \in Wire!OfUser(g) : i \in 1..(c - 1) \/ i \in c..Len(g)
  BY <1>1, <1>2
<1>7. \A i \in Wire!OfUser(g) : f[i] \in Wire!OfUser(l)
  <2> TAKE i \in Wire!OfUser(g)
  <2>1. CASE i \in 1..(c - 1)
    <3>1. f[i] = i
      BY <2>1, <1>1
    <3> QED
      BY <2>1, <3>1, <1>4
  <2>2. CASE i \in c..Len(g)
    <3>1. f[i] = i + d
      BY <2>2, <1>1
    <3> QED
      BY <2>2, <3>1, <1>5
  <2> QED
    BY <2>1, <2>2, <1>6
<1>8. f \in [Wire!OfUser(g) -> Wire!OfUser(l)]
  BY <1>7
<1>9. \A i, j \in Wire!OfUser(g) : f[i] = f[j] => i = j
  <2> SUFFICES ASSUME NEW i \in Wire!OfUser(g), NEW j \in Wire!OfUser(g), f[i] = f[j] PROVE i = j
    OBVIOUS
  <2>1. i \in Nat /\ j \in Nat
    BY <1>1, <1>2
  <2> QED
    BY <2>1, <1>1
<1>10. \A m \in Wire!OfUser(l) : \E i \in Wire!OfUser(g) : f[i] = m
  <2> TAKE m \in Wire!OfUser(l)
  <2>1. CASE m < c
    <3>1. m \in 1..(c - 1)
      BY <2>1, <1>1, <1>3
    <3>2. m \in Wire!OfUser(g) /\ f[m] = m
      BY <3>1, <2>1, <1>4
    <3> QED
      BY <3>2
  <2>2. CASE m \in c..(c + d - 1)
    <3>1. m = c \/ m \in (c + 1)..(c + d - 1)
      BY <2>2, <1>1
    <3>2. l[m].role # "user"
      BY <3>1 DEF EndsAt
    <3> QED
      BY <3>2, <1>3
  <2>3. CASE m >= c + d
    <3>1. m - d \in c..Len(g) /\ (m - d) + d = m /\ ~(m - d < c)
      BY <2>3, <1>1, <1>3
    <3>2. m - d \in Wire!OfUser(g)
      BY <3>1, <1>5
    <3>3. f[m - d] = m
      BY <3>1, <3>2
    <3> QED
      BY <3>2, <3>3
  <2> QED
    BY <2>1, <2>2, <2>3, <1>1, <1>3
<1> HIDE DEF f
<1>11. f \in Bijection(Wire!OfUser(g), Wire!OfUser(l))
  BY <1>8, <1>9, <1>10 DEF Bijection, Injection, Surjection, IsInjective
<1>12. IsFiniteSet(Wire!OfUser(g))
  <2>1. Wire!OfUser(g) \in SUBSET (1..Len(g)) /\ IsFiniteSet(1..Len(g))
    BY <1>1, <1>2, FS_Interval
  <2> QED
    BY <2>1, FS_Subset
<1>13. ExistsBijection(Wire!OfUser(g), Wire!OfUser(l))
  BY <1>11 DEF ExistsBijection
<1> QED
  BY <1>12, <1>13, FS_Bijection

\* One position more is checked.
LEMMA CutOnce ==
  ASSUME NEW l \in Seq(Wire!Messages), NEW c \in DOMAIN l, Grouped(l), CompleteFrom(l, c + 1)
  PROVE  LET g == Wire!Cut(l, c)
         IN  /\ g \in Seq(Wire!Messages) /\ Grouped(g) /\ CompleteFrom(g, c) /\ Len(g) >= c - 1
             /\ Cardinality(Wire!OfUser(g)) = Cardinality(Wire!OfUser(l))
<1>1. Len(l) \in Nat /\ DOMAIN l = 1..Len(l) /\ c \in 1..Len(l)
  BY LenProperties
<1>2. CASE Wire!Incomplete(l, c)
  <2>1. Wire!Cut(l, c) = Wire!Spliced(l, c) /\ l[c].role = "assistant"
    BY <1>2 DEF Wire!Cut, Wire!Incomplete
  <2>2. PICK d \in Nat : Shifted(Wire!Spliced(l, c), l, c, d) /\ Wire!AnswersEnd(l, c) = c + d - 1
    BY SplicedIs
  <2>3. EndsAt(l, c, c + d - 1)
    BY <2>2, EndIs
  <2>4. Wire!Spliced(l, c) \in Seq(Wire!Messages)
    BY SplicedIs
  <2>5. Grouped(Wire!Spliced(l, c))
    BY <2>2, <2>3, <2>4, ShiftedGrouped
  <2>6. CompleteFrom(Wire!Spliced(l, c), c)
    BY <2>2, <2>4, ShiftedComplete
  <2>7. Cardinality(Wire!OfUser(Wire!Spliced(l, c))) = Cardinality(Wire!OfUser(l))
    BY <2>1, <2>2, <2>3, <2>4, ShiftedUsers
  <2>8. Len(Wire!Spliced(l, c)) >= c - 1
    BY <2>2 DEF Shifted
  <2> QED
    BY <2>1, <2>4, <2>5, <2>6, <2>7, <2>8
<1>3. CASE ~Wire!Incomplete(l, c)
  <2>1. Wire!Cut(l, c) = l
    BY <1>3 DEF Wire!Cut
  <2>2. CompleteFrom(l, c)
    <3> SUFFICES ASSUME NEW i \in DOMAIN l, i >= c PROVE ~Wire!Incomplete(l, i)
      BY DEF CompleteFrom
    <3>1. i = c \/ i >= c + 1
      BY <1>1
    <3> QED
      BY <3>1, <1>3 DEF CompleteFrom
  <2> QED
    BY <1>1, <2>1, <2>2
<1> QED
  BY <1>2, <1>3

\* What is left of the request when all positions behind m are checked.
CheckedTo(l, m, msgs) ==
  /\ l \in Seq(Wire!Messages) /\ Grouped(l) /\ CompleteFrom(l, m + 1) /\ Len(l) >= m
  /\ Cardinality(Wire!OfUser(l)) = Cardinality(Wire!OfUser(msgs))

\* After the scan of all positions nothing in the request is incomplete.
LEMMA AllChecked ==
  ASSUME NEW msgs \in Seq(Wire!Messages), Grouped(msgs), Api # "anthropic"
  PROVE  CheckedTo(Wire!WireMessages(msgs), 0, msgs)
<1> DEFINE n == Len(msgs)
           step == [k \in 1..n |-> [l \in Seq(Wire!Messages) |-> IF Len(l) >= n + 1 - k THEN Wire!Cut(l, n + 1 - k) ELSE l]]
           Solves(g) == g = [k \in 0..n |-> IF k = 0 THEN msgs ELSE Wire!Cut(g[k - 1], n + 1 - k)]
<1>1. n \in Nat /\ DOMAIN msgs = 1..n
  BY LenProperties
<1> HIDE DEF n
<1>2. ASSUME NEW k \in 1..n, NEW l \in Seq(Wire!Messages), Len(l) >= n + 1 - k
      PROVE  Wire!Cut(l, n + 1 - k) \in Seq(Wire!Messages)
  <2>1. n + 1 - k \in DOMAIN l
    <3>1. Len(l) \in Nat /\ DOMAIN l = 1..Len(l)
      BY LenProperties
    <3> QED
      BY <3>1, <1>1, <1>2
  <2>2. Wire!Spliced(l, n + 1 - k) \in Seq(Wire!Messages)
    BY <2>1, SplicedIs
  <2> QED
    BY <2>2 DEF Wire!Cut
<1>3. step \in [1..n -> [Seq(Wire!Messages) -> Seq(Wire!Messages)]]
  BY <1>2
<1>4. \A k \in 1..n : \A l \in Seq(Wire!Messages) :
        step[k][l] = IF Len(l) >= n + 1 - k THEN Wire!Cut(l, n + 1 - k) ELSE l
  OBVIOUS
<1> HIDE DEF step
<1>5. PICK f \in [0..n -> Seq(Wire!Messages)] : f[0] = msgs /\ \A k \in 1..n : f[k] = step[k][f[k - 1]]
  <2>1. Recursive(n, Seq(Wire!Messages), msgs, step)
    BY <1>1, <1>3, Recursion
  <2> QED
    BY <2>1 DEF Recursive
<1> DEFINE P == {k \in 0..n : CheckedTo(f[k], n - k, msgs)}
<1>6. 0 \in P
  <2>1. CompleteFrom(msgs, n + 1)
    <3>1. \A i \in DOMAIN msgs : ~(i >= n + 1)
      BY <1>1
    <3> QED
      BY <3>1 DEF CompleteFrom
  <2>2. n - 0 = n /\ Len(msgs) >= n /\ 0 \in 0..n
    BY <1>1 DEF n
  <2>3. CheckedTo(msgs, n, msgs)
    BY <2>1, <2>2 DEF CheckedTo
  <2> QED
    BY <2>2, <2>3, <1>5
<1>7. ASSUME NEW k \in 1..n, k - 1 \in P PROVE k \in P /\ f[k] = Wire!Cut(f[k - 1], n + 1 - k)
  <2> DEFINE l == f[k - 1]
             c == n + 1 - k
  <2>1. CheckedTo(l, n - (k - 1), msgs)
    BY <1>7
  <2>2. n - (k - 1) = c /\ c \in Nat /\ c >= 1 /\ c - 1 = n - k /\ n - k + 1 = c /\ k \in 0..n /\ k - 1 \in 0..n
    BY <1>1
  <2> HIDE DEF c, l
  <2>3. l \in Seq(Wire!Messages) /\ Grouped(l) /\ CompleteFrom(l, c + 1) /\ Len(l) >= c
        /\ Cardinality(Wire!OfUser(l)) = Cardinality(Wire!OfUser(msgs))
    BY <2>1, <2>2 DEF CheckedTo
  <2>4. c \in DOMAIN l
    <3>1. Len(l) \in Nat /\ DOMAIN l = 1..Len(l)
      BY <2>3, LenProperties
    <3> QED
      BY <3>1, <2>2, <2>3
  <2>5. f[k] = Wire!Cut(l, c)
    <3>1. f[k] = step[k][l]
      BY <1>5 DEF l
    <3>2. step[k][l] = Wire!Cut(l, n + 1 - k)
      BY <1>4, <2>3 DEF c
    <3> QED
      BY <3>1, <3>2 DEF c
  <2>6. /\ Wire!Cut(l, c) \in Seq(Wire!Messages) /\ Grouped(Wire!Cut(l, c)) /\ CompleteFrom(Wire!Cut(l, c), c) /\ Len(Wire!Cut(l, c)) >= c - 1
        /\ Cardinality(Wire!OfUser(Wire!Cut(l, c))) = Cardinality(Wire!OfUser(l))
    BY <2>3, <2>4, CutOnce
  <2>7. CheckedTo(f[k], n - k, msgs)
    BY <2>2, <2>3, <2>5, <2>6 DEF CheckedTo
  <2> QED
    BY <2>2, <2>5, <2>7 DEF l, c
<1> HIDE DEF P
<1>8. \A k \in 0..n : k \in P
  BY <1>1, <1>6, <1>7, UpTo
<1>9. \A k \in 0..n : f[k] = IF k = 0 THEN msgs ELSE Wire!Cut(f[k - 1], n + 1 - k)
  <2> TAKE k \in 0..n
  <2>1. CASE k = 0
    BY <2>1, <1>5
  <2>2. CASE k # 0
    <3>1. k \in 1..n /\ k - 1 \in 0..n
      BY <2>2, <1>1
    <3>2. k - 1 \in P
      BY <3>1, <1>8
    <3> QED
      BY <2>2, <3>1, <3>2, <1>7
  <2> QED
    BY <2>1, <2>2
<1>10. Solves(f)
  BY <1>5, <1>9
<1> DEFINE g == CHOOSE h : Solves(h)
<1>11. Solves(g)
  BY <1>10
<1>12. Wire!WireMessages(msgs) = g[n]
  BY DEF Wire!WireMessages, n
<1>13. \A k \in 0..n : g[k] = IF k = 0 THEN msgs ELSE Wire!Cut(g[k - 1], n + 1 - k)
  <2> HIDE DEF g
  <2> QED
    BY <1>11
<1> HIDE DEF g, Solves
<1>14. g[n] = f[n]
  <2> DEFINE Q == {k \in 0..n : g[k] = f[k]}
  <2>1. 0 \in Q
    BY <1>1, <1>5, <1>13
  <2>2. \A k \in 1..n : k - 1 \in Q => k \in Q
    <3> SUFFICES ASSUME NEW k \in 1..n, k - 1 \in Q PROVE k \in Q
      OBVIOUS
    <3>1. k \in 0..n /\ k # 0 /\ g[k - 1] = f[k - 1]
      BY <1>1
    <3>2. g[k] = f[k]
      BY <3>1, <1>9, <1>13
    <3> QED
      BY <3>1, <3>2
  <2> HIDE DEF Q
  <2>3. \A k \in 0..n : k \in Q
    BY <1>1, <2>1, <2>2, UpTo
  <2>4. n \in Q
    BY <2>3, <1>1
  <2> QED
    BY <2>4 DEF Q
<1>15. CheckedTo(f[n], n - n, msgs)
  <2>1. n \in P
    BY <1>1, <1>8
  <2> QED
    BY <2>1 DEF P
<1>16. n - n = 0
  BY <1>1
<1> QED
  BY <1>12, <1>14, <1>15, <1>16

-----------------------------------------------------------------------------
HandedOn(es) == {e.call : e \in Range(es)}

\* The last answer's message: only tools have spoken since.
Awaiting(l, h, cs) ==
  /\ l[h].role = "assistant" /\ cs \subseteq l[h].calls
  /\ \A j \in (h + 1)..Len(l) : l[j].role = "tool"

HistoryPart ==
  /\ history \in Seq(Wire!Messages) /\ history # <<>> /\ Grouped(history)
  /\ wirePhase = "tools" => \E h \in DOMAIN history : Awaiting(history, h, HandedOn(wireEmitted))

WirePart ==
  /\ wire \in Seq(Wire!Messages)
  /\ Api # "anthropic" =>
       /\ Grouped(wire) /\ CompleteFrom(wire, 1)
       /\ wirePhase = "stream" => Cardinality(Wire!OfUser(wire)) = Cardinality(Wire!OfUser(history))

\* The calls of the answer: handed on, with all their pieces, or open.
CallsCounted(es, ms, op) ==
  /\ HandedOn(es) \cup op = Range(ms) /\ Len(ms) = Len(es) + Cardinality(op)
  /\ \A e \in Range(es) : e.pieces = Pieces

CallEvents == [call : Wire!Calls, pieces : 1..Pieces]

CallPart ==
  /\ wirePhase \in {"idle", "stream", "tools"}
  /\ pending \in [Wire!Calls -> 0..Pieces] /\ wireEmitted \in Seq(CallEvents) /\ made \in Seq(Wire!Calls)
  /\ turns \in 0..MaxTurns
  /\ wirePhase = "stream" => CallsCounted(wireEmitted, made, Wire!Open)
  /\ wirePhase = "tools" => CallsCounted(wireEmitted, made, {})

WireInv == HistoryPart /\ WirePart /\ CallPart

\* What is in a sequence with one element more.
LEMMA RangeAppend ==
  ASSUME NEW S, NEW s \in Seq(S), NEW x \in S
  PROVE  Range(Append(s, x)) = Range(s) \cup {x}
<1> DEFINE t == Append(s, x)
           n == Len(s)
<1>1. n \in Nat /\ DOMAIN s = 1..n
  BY LenProperties
<1>2. t \in Seq(S) /\ Len(t) = n + 1 /\ (\A i \in 1..n : t[i] = s[i]) /\ t[n + 1] = x
  BY AppendProperties
<1> HIDE DEF t, n
<1>3. DOMAIN t = 1..(n + 1)
  BY <1>2, LenProperties
<1>4. \A i \in 1..(n + 1) : i \in 1..n \/ i = n + 1
  BY <1>1
<1>5. \A i \in 1..n : i \in 1..(n + 1)
  BY <1>1
<1>6. n + 1 \in 1..(n + 1)
  BY <1>1
<1>7. ASSUME NEW y \in Range(t) PROVE y \in Range(s) \cup {x}
  <2>1. PICK i \in 1..(n + 1) : y = t[i]
    BY <1>3, <1>7 DEF Range
  <2> QED
    BY <2>1, <1>1, <1>2, <1>4 DEF Range
<1>8. ASSUME NEW y \in Range(s) \cup {x} PROVE y \in Range(t)
  <2>1. CASE y = x
    BY <2>1, <1>2, <1>3, <1>6 DEF Range
  <2>2. CASE y \in Range(s)
    <3>1. PICK i \in 1..n : y = s[i]
      BY <2>2, <1>1 DEF Range
    <3>2. i \in 1..(n + 1) /\ y = t[i]
      BY <3>1, <1>2, <1>5
    <3> QED
      BY <3>2, <1>3 DEF Range
  <2> QED
    BY <2>1, <2>2, <1>8
<1> QED
  BY <1>7, <1>8 DEF t

\* Before any call.
LEMMA Nothing == Range(<<>>) = {} /\ HandedOn(<<>>) = {} /\ Len(<<>>) = 0 /\ CallsCounted(<<>>, <<>>, {})
<1>1. Range(<<>>) = {}
  BY DEF Range
<1>2. HandedOn(<<>>) = {}
  BY <1>1 DEF HandedOn
<1>3. Len(<<>>) = 0
  BY EmptySeq
<1>4. Cardinality({}) = 0
  BY FS_EmptySet
<1>5. HandedOn(<<>>) \cup {} = Range(<<>>)
  BY <1>1, <1>2
<1>6. Len(<<>>) = Len(<<>>) + Cardinality({})
  BY <1>3, <1>4
<1>7. \A e \in Range(<<>>) : e.pieces = Pieces
  BY <1>1
<1>8. CallsCounted(<<>>, <<>>, {})
  BY ONLY <1>5, <1>6, <1>7 DEF CallsCounted
<1> QED
  BY ONLY <1>1, <1>2, <1>3, <1>8

\* One message more.
LEMMA GroupedGrows ==
  ASSUME NEW l \in Seq(Wire!Messages), Grouped(l), NEW m \in Wire!Messages,
         m.role = "tool" => \E h \in DOMAIN l : Awaiting(l, h, m.calls)
  PROVE  /\ Append(l, m) \in Seq(Wire!Messages) /\ Append(l, m) # <<>> /\ Grouped(Append(l, m))
         /\ Len(Append(l, m)) = Len(l) + 1
         /\ \A i \in 1..Len(l) : Append(l, m)[i] = l[i]
         /\ Append(l, m)[Len(l) + 1] = m
<1> DEFINE g == Append(l, m)
           n == Len(l)
<1>1. n \in Nat /\ DOMAIN l = 1..n
  BY LenProperties
<1>2. g \in Seq(Wire!Messages) /\ g # <<>> /\ Len(g) = n + 1 /\ (\A i \in 1..n : g[i] = l[i]) /\ g[n + 1] = m
  BY AppendProperties
<1> HIDE DEF g, n
<1>3. DOMAIN g = 1..(n + 1)
  BY <1>2, LenProperties
<1>4. ASSUME NEW i \in DOMAIN g, g[i].role = "tool" PROVE \E h \in DOMAIN g : HeadOf(g, h, i)
  <2>1. CASE i \in 1..n
    <3>1. i \in DOMAIN l /\ g[i] = l[i]
      BY <2>1, <1>1, <1>2
    <3>2. PICK h \in DOMAIN l : HeadOf(l, h, i)
      BY <3>1, <1>4 DEF Grouped
    <3>3. h \in 1..(i - 1)
      BY <3>2 DEF HeadOf
    <3>4. h \in 1..n /\ h \in 1..(n + 1) /\ \A j \in (h + 1)..i : j \in 1..n
      BY <2>1, <3>3, <1>1
    <3>5. HeadOf(g, h, i)
      BY <3>1, <3>2, <3>4, <1>2 DEF HeadOf
    <3> QED
      BY <3>4, <3>5, <1>3
  <2>2. CASE i = n + 1
    <3>1. g[i] = m
      BY <2>2, <1>2
    <3>2. PICK h \in DOMAIN l : Awaiting(l, h, m.calls)
      BY <3>1, <1>4
    <3>3. h \in 1..n /\ h \in 1..(n + 1) /\ h \in 1..(i - 1) /\ \A j \in (h + 1)..i : j \in (h + 1)..n \/ j = i
      BY <3>2, <2>2, <1>1
    <3>4. \A j \in (h + 1)..n : j \in 1..n
      BY <3>3, <1>1
    <3>5. \A j \in (h + 1)..i : g[j].role = "tool"
      <4> TAKE j \in (h + 1)..i
      <4>1. CASE j = i
        BY <4>1, <1>4
      <4>2. CASE j \in (h + 1)..n
        <5>1. g[j] = l[j]
          BY <4>2, <3>4, <1>2
        <5> QED
          BY <5>1, <4>2, <3>2 DEF Awaiting, n
      <4> QED
        BY <4>1, <4>2, <3>3
    <3>6. g[h] = l[h]
      BY <3>3, <1>2
    <3>7. HeadOf(g, h, i)
      BY <3>1, <3>2, <3>3, <3>5, <3>6 DEF HeadOf, Awaiting
    <3> QED
      BY <3>3, <3>7, <1>3
  <2> QED
    BY <2>1, <2>2, <1>1, <1>3, <1>4
<1>5. Grouped(g)
  BY <1>4 DEF Grouped
<1> QED
  BY <1>2, <1>5 DEF g, n

\* Every call open is handed on, once.
LEMMA AllHandedOn ==
  ASSUME NEW es \in Seq(CallEvents), NEW ms, NEW left \in [Wire!Calls -> 0..Pieces], NEW op \in SUBSET Wire!Calls,
         \A c \in op : left[c] = Pieces, NEW order \in Wire!SetToSeqs(op), CallsCounted(es, ms, op)
  PROVE  LET all == es \o [k \in DOMAIN order |-> [call |-> order[k], pieces |-> left[order[k]]]]
         IN  all \in Seq(CallEvents) /\ CallsCounted(all, ms, {})
<1> DEFINE n == Cardinality(op)
           t == [k \in DOMAIN order |-> [call |-> order[k], pieces |-> left[order[k]]]]
           all == es \o t
<1>1. IsFiniteSet(op) /\ n \in Nat
  BY WireNumbers, FS_Subset, FS_CardinalityType
<1>2. order \in [1..n -> op] /\ \A i, j \in 1..n : i # j => order[i] # order[j]
  BY WireLibrary DEF Wire!SetToSeqs
<1> HIDE DEF n
<1>3. order \in Surjection(1..n, op)
  <2>1. order \in Injection(1..n, op)
    BY <1>2 DEF Injection, IsInjective
  <2>2. Cardinality(1..n) = n
    BY <1>1, FS_Interval
  <2> QED
    BY <1>1, <2>1, <2>2, FS_Injection DEF n
<1>4. \A c \in op : \E k \in 1..n : order[k] = c
  BY <1>3 DEF Surjection
<1>5. \A k \in 1..n : [call |-> order[k], pieces |-> left[order[k]]] \in CallEvents
  <2> TAKE k \in 1..n
  <2>1. order[k] \in op /\ order[k] \in Wire!Calls
    BY <1>2
  <2>2. Pieces \in 1..Pieces
    BY WireNumbers
  <2>3. left[order[k]] = Pieces
    BY <2>1
  <2> QED
    BY <2>1, <2>2, <2>3 DEF CallEvents
<1>6. t = [k \in 1..n |-> [call |-> order[k], pieces |-> left[order[k]]]]
  BY <1>2
<1>7. \A k \in 1..n : t[k] = [call |-> order[k], pieces |-> left[order[k]]]
  BY <1>6
<1>8. t \in [1..n -> CallEvents] /\ DOMAIN t = 1..n
  BY <1>5, <1>6
<1> HIDE DEF t, all
<1>9. t \in Seq(CallEvents) /\ Len(t) = n
  BY <1>1, <1>8
<1>10. all \in Seq(CallEvents) /\ Len(all) = Len(es) + n /\ Range(all) = Range(es) \cup Range(t)
  <2>1. all \in Seq(CallEvents) /\ Len(all) = Len(es) + Len(t)
    BY <1>9, ConcatProperties DEF all
  <2>2. Range(all) = Range(es) \cup Range(t)
    BY <1>9, RangeConcatenation DEF all
  <2> QED
    BY <2>1, <2>2, <1>9
<1>11. \A e \in Range(t) : e.call \in op /\ e.pieces = Pieces
  <2> TAKE e \in Range(t)
  <2>1. PICK k \in 1..n : e = t[k]
    BY <1>8 DEF Range
  <2>2. order[k] \in op
    BY <1>2
  <2>3. t[k] = [call |-> order[k], pieces |-> left[order[k]]]
    BY <1>7
  <2>4. t[k].call = order[k] /\ t[k].pieces = left[order[k]]
    BY ONLY <2>3
  <2>5. left[order[k]] = Pieces
    BY <2>2
  <2> QED
    BY <2>1, <2>2, <2>4, <2>5
<1>12. \A c \in op : \E e \in Range(t) : e.call = c
  <2> TAKE c \in op
  <2>1. PICK k \in 1..n : order[k] = c
    BY <1>4
  <2>2. t[k].call = c /\ t[k] \in Range(t)
    BY <2>1, <1>7, <1>8 DEF Range
  <2> QED
    BY <2>2
<1>13. HandedOn(all) = HandedOn(es) \cup op
  BY <1>10, <1>11, <1>12 DEF HandedOn
<1>14. Cardinality({}) = 0 /\ Len(es) \in Nat
  BY FS_EmptySet, LenProperties
<1>15. HandedOn(all) \cup {} = Range(ms)
  BY <1>13 DEF CallsCounted
<1>16. Len(ms) = Len(all) + Cardinality({})
  <2>1. Len(ms) = Len(es) + n
    BY DEF CallsCounted, n
  <2> QED
    BY <2>1, <1>1, <1>10, <1>14
<1>17. \A e \in Range(all) : e.pieces = Pieces
  BY <1>10, <1>11 DEF CallsCounted
<1> QED
  BY <1>10, <1>15, <1>16, <1>17 DEF CallsCounted, all, t

-----------------------------------------------------------------------------
\* A message that may join the history.
LEMMA CallsOf ==
  ASSUME NEW es \in Seq(CallEvents)
  PROVE  HandedOn(es) \in SUBSET Wire!Calls /\ Wire!Assistant(HandedOn(es)) \in Wire!Messages
<1>1. Range(es) \in SUBSET CallEvents
  BY RangeOfSeq
<1>2. HandedOn(es) \in SUBSET Wire!Calls
  BY <1>1 DEF HandedOn, CallEvents
<1> QED
  BY <1>2 DEF Wire!Assistant, Wire!Messages

\* The messages of the user and of the tools.
LEMMA Speakers ==
  /\ Wire!User \in Wire!Messages /\ Wire!User.role = "user"
  /\ \A c \in Wire!Calls : Wire!Tool(c) \in Wire!Messages /\ Wire!Tool(c).calls = {c} /\ Wire!Tool(c).role = "tool"
BY DEF Wire!User, Wire!Tool, Wire!Messages

\* The answer joins the history, and the tools may speak.
LEMMA AnswerKept ==
  ASSUME NEW l \in Seq(Wire!Messages), Grouped(l), NEW es \in Seq(CallEvents)
  PROVE  LET g == Append(l, Wire!Assistant(HandedOn(es)))
         IN  /\ g \in Seq(Wire!Messages) /\ g # <<>> /\ Grouped(g)
             /\ \E h \in DOMAIN g : Awaiting(g, h, HandedOn(es))
<1> DEFINE m == Wire!Assistant(HandedOn(es))
           g == Append(l, m)
<1>1. m \in Wire!Messages
  BY CallsOf
<1>2. m.role = "assistant" /\ m.calls = HandedOn(es)
  BY DEF Wire!Assistant
<1>3. m.role # "tool"
  BY <1>2
<1> HIDE DEF m
<1>4. g \in Seq(Wire!Messages) /\ g # <<>> /\ Grouped(g) /\ Len(g) = Len(l) + 1 /\ g[Len(l) + 1] = m
  BY <1>1, <1>3, GroupedGrows
<1> HIDE DEF g
<1>5. Len(l) \in Nat /\ DOMAIN g = 1..(Len(l) + 1)
  BY <1>4, LenProperties
<1>6. Len(l) + 1 \in DOMAIN g
  BY <1>5
<1>7. (Len(l) + 1 + 1)..Len(g) = {}
  BY <1>4, <1>5
<1>8. Awaiting(g, Len(l) + 1, HandedOn(es))
  BY <1>2, <1>4, <1>7 DEF Awaiting
<1> QED
  BY <1>4, <1>6, <1>8 DEF g, m

\* A request is sent: what goes over the wire is checked, and the calls begin anew.
LEMMA RequestOnWire ==
  ASSUME WireInv, Wire!Request
  PROVE  WireInv'
<1>1. /\ wirePhase = "idle" /\ turns < MaxTurns /\ wirePhase' = "stream" /\ turns' = turns + 1
      /\ wire' = Wire!WireMessages(history) /\ wireEmitted' = <<>> /\ made' = <<>>
      /\ pending' = [c \in Wire!Calls |-> 0] /\ history' = history
  BY DEF Wire!Request
<1>2. /\ history \in Seq(Wire!Messages) /\ history # <<>> /\ Grouped(history) /\ turns \in 0..MaxTurns
  BY DEF WireInv, HistoryPart, CallPart
<1>3. HistoryPart'
  BY <1>1, <1>2 DEF HistoryPart
<1>4. WirePart'
  <2>1. CASE Api = "anthropic"
    <3>1. wire' = history
      BY <1>1, <2>1 DEF Wire!WireMessages
    <3> QED
      BY <2>1, <3>1, <1>2 DEF WirePart
  <2>2. CASE Api # "anthropic"
    <3>1. CheckedTo(wire', 0, history)
      BY <2>2, <1>1, <1>2, AllChecked
    <3>2. 0 + 1 = 1
      OBVIOUS
    <3> QED
      BY <3>1, <3>2, <1>1 DEF CheckedTo, WirePart
  <2> QED
    BY <2>1, <2>2
<1>5. CallPart'
  <2>1. pending' \in [Wire!Calls -> 0..Pieces]
    BY <1>1, WireNumbers
  <2>2. Wire!Open' = {}
    BY <1>1 DEF Wire!Open
  <2>3. CallsCounted(wireEmitted', made', Wire!Open')
    BY <2>2, <1>1, Nothing
  <2>4. wireEmitted' \in Seq(CallEvents) /\ made' \in Seq(Wire!Calls)
    BY <1>1, EmptySeq
  <2>5. turns' \in 0..MaxTurns
    BY <1>1, <1>2, WireNumbers
  <2>6. wirePhase' \in {"idle", "stream", "tools"} /\ wirePhase' # "tools"
    BY <1>1
  <2> QED
    BY <2>1, <2>3, <2>4, <2>5, <2>6 DEF CallPart
<1> QED
  BY <1>3, <1>4, <1>5 DEF WireInv

\* While the answer streams, the caller's messages stay.
LEMMA Streaming ==
  ASSUME WireInv, UNCHANGED <<history, wire>>, wirePhase' = wirePhase, wirePhase = "stream"
  PROVE  HistoryPart' /\ WirePart'
<1>1. HistoryPart'
  BY DEF WireInv, HistoryPart
<1>2. WirePart'
  BY DEF WireInv, WirePart
<1> QED
  BY <1>1, <1>2

\* A call begins: its number is above all that are known.
LEMMA CallBeginsOnWire ==
  ASSUME WireInv, Wire!CallBegins
  PROVE  WireInv'
<1> DEFINE S == {0} \cup Wire!KnownCalls \cup Range(made)
           b == 1 + Wire!Max(S)
<1>1. /\ wirePhase = "stream" /\ wirePhase' = wirePhase /\ UNCHANGED <<history, wire, wireEmitted, turns>>
      /\ b \in Wire!Calls /\ made' = Append(made, b) /\ pending' = [pending EXCEPT ![b] = 1]
  BY WireLibrary DEF Wire!CallBegins
<1>2. /\ pending \in [Wire!Calls -> 0..Pieces] /\ wireEmitted \in Seq(CallEvents) /\ made \in Seq(Wire!Calls)
      /\ turns \in 0..MaxTurns /\ CallsCounted(wireEmitted, made, Wire!Open)
  BY <1>1 DEF WireInv, CallPart
<1>3. b \notin Range(made)
  <2>1. Range(made) \in SUBSET Wire!Calls
    BY <1>2, RangeOfSeq
  <2>2. S \subseteq 0..MaxCalls /\ S # {}
    BY <2>1, WireNumbers, WireLibrary DEF Wire!KnownCalls, Wire!Calls
  <2>3. Wire!Max(S) \in S /\ \A m \in S : m <= Wire!Max(S)
    BY <2>2, WireHighest, WireNumbers
  <2>4. Wire!Max(S) \in Nat /\ S \subseteq Nat
    BY <2>2, <2>3, WireNumbers
  <2>5. \A m \in S : m # b
    <3> HIDE DEF S
    <3> QED
      BY <2>3, <2>4
  <2> QED
    BY <2>5
<1> HIDE DEF b
<1>4. b \notin Wire!Open
  BY <1>2, <1>3 DEF CallsCounted
<1>5. Wire!Open' = Wire!Open \cup {b}
  <2>1. \A c \in Wire!Calls : pending'[c] = IF c = b THEN 1 ELSE pending[c]
    BY <1>1, <1>2
  <2> QED
    BY <2>1, <1>1 DEF Wire!Open
<1>6. IsFiniteSet(Wire!Open) /\ Cardinality(Wire!Open) \in Nat
  BY WireNumbers, FS_Subset, FS_CardinalityType DEF Wire!Open
<1>7. Cardinality(Wire!Open') = Cardinality(Wire!Open) + 1
  BY <1>4, <1>5, <1>6, FS_AddElement
<1>8. made' \in Seq(Wire!Calls) /\ Len(made') = Len(made) + 1 /\ Range(made') = Range(made) \cup {b}
  BY <1>1, <1>2, AppendProperties, RangeAppend
<1>9. CallsCounted(wireEmitted', made', Wire!Open')
  <2>1. HandedOn(wireEmitted) \cup Wire!Open = Range(made) /\ Len(made) = Len(wireEmitted) + Cardinality(Wire!Open)
        /\ \A e \in Range(wireEmitted) : e.pieces = Pieces
    BY <1>2 DEF CallsCounted
  <2>2. HandedOn(wireEmitted') \cup Wire!Open' = Range(made')
    BY <2>1, <1>1, <1>5, <1>8
  <2>3. Len(wireEmitted) \in Nat
    BY <1>2, LenProperties
  <2>4. Len(made') = Len(wireEmitted) + Cardinality(Wire!Open')
    BY <2>1, <2>3, <1>6, <1>7, <1>8
  <2> QED
    BY <2>1, <2>2, <2>4, <1>1 DEF CallsCounted
<1>10. pending' \in [Wire!Calls -> 0..Pieces]
  <2>1. 1 \in 0..Pieces
    BY WireNumbers
  <2> QED
    BY <2>1, <1>1, <1>2
<1>11. CallPart'
  BY <1>1, <1>2, <1>8, <1>9, <1>10 DEF CallPart
<1>12. HistoryPart' /\ WirePart'
  BY <1>1, Streaming
<1> QED
  BY <1>11, <1>12 DEF WireInv

\* A piece arrives: the same calls are open.
LEMMA PieceArrivesOnWire ==
  ASSUME WireInv, Wire!PieceArrives
  PROVE  WireInv'
<1>1. wirePhase = "stream" /\ wirePhase' = wirePhase /\ UNCHANGED <<history, wire, wireEmitted, made, turns>>
  BY WireLibrary DEF Wire!PieceArrives
<1>2. /\ pending \in [Wire!Calls -> 0..Pieces] /\ wireEmitted \in Seq(CallEvents) /\ made \in Seq(Wire!Calls)
      /\ turns \in 0..MaxTurns /\ CallsCounted(wireEmitted, made, Wire!Open)
  BY <1>1 DEF WireInv, CallPart
<1>3. PICK b \in Range(made) : pending[b] \in 1..(Pieces - 1) /\ pending' = [pending EXCEPT ![b] = @ + 1]
  BY WireLibrary DEF Wire!PieceArrives
<1>4. b \in Wire!Calls
  BY <1>2, RangeOfSeq
<1>5. pending[b] + 1 \in 0..Pieces /\ pending[b] + 1 > 0 /\ pending[b] > 0
  BY <1>3, WireNumbers
<1>6. pending' \in [Wire!Calls -> 0..Pieces] /\ \A c \in Wire!Calls : pending'[c] = IF c = b THEN pending[b] + 1 ELSE pending[c]
  BY <1>2, <1>3, <1>4, <1>5
<1>7. Wire!Open' = Wire!Open
  BY <1>4, <1>5, <1>6 DEF Wire!Open
<1>8. CallPart'
  BY <1>1, <1>2, <1>6, <1>7 DEF CallPart
<1>9. HistoryPart' /\ WirePart'
  BY <1>1, Streaming
<1> QED
  BY <1>8, <1>9 DEF WireInv

\* Everything that is open is handed on.
LEMMA EverythingOut ==
  ASSUME NEW order, Wire!EmitAll(order), Wire!Whole(Wire!Open), CallsCounted(wireEmitted, made, Wire!Open),
         pending \in [Wire!Calls -> 0..Pieces], wireEmitted \in Seq(CallEvents)
  PROVE  /\ wireEmitted' \in Seq(CallEvents) /\ CallsCounted(wireEmitted', made, {})
         /\ pending' \in [Wire!Calls -> 0..Pieces] /\ Wire!Open' = {}
<1>1. /\ order \in Wire!SetToSeqs(Wire!Open)
      /\ wireEmitted' = wireEmitted \o [k \in DOMAIN order |-> [call |-> order[k], pieces |-> pending[order[k]]]]
      /\ pending' = [c \in Wire!Calls |-> 0]
  BY WireLibrary DEF Wire!EmitAll
<1>2. Wire!Open \in SUBSET Wire!Calls /\ \A c \in Wire!Open : pending[c] = Pieces
  BY DEF Wire!Whole, Wire!Open
<1> DEFINE all == wireEmitted \o [k \in DOMAIN order |-> [call |-> order[k], pieces |-> pending[order[k]]]]
<1>3. wireEmitted' \in Seq(CallEvents) /\ CallsCounted(wireEmitted', made, {})
  <2>1. order \in Wire!SetToSeqs(Wire!Open)
    BY <1>1
  <2>2. all \in Seq(CallEvents) /\ CallsCounted(all, made, {})
    BY <1>2, <2>1, AllHandedOn
  <2>3. wireEmitted' = all
    BY <1>1
  <2> HIDE DEF all
  <2> QED
    BY ONLY <2>2, <2>3
<1>4. pending' \in [Wire!Calls -> 0..Pieces] /\ Wire!Open' = {}
  BY <1>1, WireNumbers DEF Wire!Open
<1> QED
  BY <1>3, <1>4

\* A call at its end.
LEMMA OneOut ==
  ASSUME NEW b \in Wire!Open, Wire!Whole({b}), wireEmitted' = Append(wireEmitted, [call |-> b, pieces |-> pending[b]]),
         pending' = [pending EXCEPT ![b] = 0],
         CallsCounted(wireEmitted, made, Wire!Open), pending \in [Wire!Calls -> 0..Pieces], wireEmitted \in Seq(CallEvents)
  PROVE  /\ wireEmitted' \in Seq(CallEvents) /\ CallsCounted(wireEmitted', made, Wire!Open')
         /\ pending' \in [Wire!Calls -> 0..Pieces]
<1>1. b \in Wire!Calls /\ pending[b] = Pieces /\ 0 \in 0..Pieces /\ Pieces \in 1..Pieces
  BY WireNumbers DEF Wire!Open, Wire!Whole
<1>2. pending' \in [Wire!Calls -> 0..Pieces] /\ \A c \in Wire!Calls : pending'[c] = IF c = b THEN 0 ELSE pending[c]
  BY <1>1
<1>3. Wire!Open' = Wire!Open \ {b}
  BY <1>2 DEF Wire!Open
<1>4. IsFiniteSet(Wire!Open) /\ Cardinality(Wire!Open) \in Nat
  BY WireNumbers, FS_Subset, FS_CardinalityType DEF Wire!Open
<1>5. IsFiniteSet(Wire!Open') /\ Cardinality(Wire!Open') = Cardinality(Wire!Open) - 1
  BY <1>3, <1>4, FS_RemoveElement
<1> DEFINE e == [call |-> b, pieces |-> pending[b]]
<1>6. e \in CallEvents /\ e.call = b /\ e.pieces = Pieces
  BY <1>1 DEF CallEvents
<1> HIDE DEF e
<1>7. wireEmitted' \in Seq(CallEvents) /\ Len(wireEmitted') = Len(wireEmitted) + 1 /\ Range(wireEmitted') = Range(wireEmitted) \cup {e}
  BY <1>6, AppendProperties, RangeAppend DEF e
<1>8. HandedOn(wireEmitted') = HandedOn(wireEmitted) \cup {b}
  BY <1>6, <1>7 DEF HandedOn
<1>9. HandedOn(wireEmitted) \cup Wire!Open = Range(made) /\ Len(made) = Len(wireEmitted) + Cardinality(Wire!Open)
      /\ \A f \in Range(wireEmitted) : f.pieces = Pieces
  BY DEF CallsCounted
<1>10. HandedOn(wireEmitted') \cup Wire!Open' = Range(made)
  BY <1>3, <1>8, <1>9
<1>11. Len(made) = Len(wireEmitted') + Cardinality(Wire!Open')
  <2>1. Len(wireEmitted) \in Nat
    BY LenProperties
  <2> QED
    BY <2>1, <1>4, <1>5, <1>7, <1>9
<1>12. \A f \in Range(wireEmitted') : f.pieces = Pieces
  BY <1>6, <1>7, <1>9
<1> QED
  BY <1>2, <1>7, <1>10, <1>11, <1>12 DEF CallsCounted

\* Calls are handed on: what was open is with the events.
LEMMA CallsFinishOnWire ==
  ASSUME WireInv, Wire!CallsFinish
  PROVE  WireInv'
<1>1. wirePhase = "stream" /\ wirePhase' = wirePhase /\ UNCHANGED <<history, wire, made, turns>>
  BY WireLibrary DEF Wire!CallsFinish
<1>2. /\ pending \in [Wire!Calls -> 0..Pieces] /\ wireEmitted \in Seq(CallEvents) /\ made \in Seq(Wire!Calls)
      /\ turns \in 0..MaxTurns /\ CallsCounted(wireEmitted, made, Wire!Open)
  BY <1>1 DEF WireInv, CallPart
<1>3. /\ wireEmitted' \in Seq(CallEvents) /\ CallsCounted(wireEmitted', made, Wire!Open')
      /\ pending' \in [Wire!Calls -> 0..Pieces]
  <2>1. CASE Api = "openai"
    <3>1. Wire!Whole(Wire!Open) /\ \E order \in Wire!SetToSeqs(Wire!Open) : Wire!EmitAll(order)
      BY <2>1, WireLibrary DEF Wire!CallsFinish
    <3>2. PICK order : Wire!EmitAll(order)
      BY <3>1
    <3>3. /\ wireEmitted' \in Seq(CallEvents) /\ CallsCounted(wireEmitted', made, {})
          /\ pending' \in [Wire!Calls -> 0..Pieces] /\ Wire!Open' = {}
      BY <3>1, <3>2, <1>2, EverythingOut
    <3> QED
      BY <3>3
  <2>2. CASE Api # "openai"
    <3>1. PICK b \in Wire!Open : /\ Wire!Whole({b}) /\ wireEmitted' = Append(wireEmitted, [call |-> b, pieces |-> pending[b]])
                                 /\ pending' = [pending EXCEPT ![b] = 0]
      BY <2>2, WireLibrary DEF Wire!CallsFinish
    <3> QED
      BY <3>1, <1>2, OneOut
  <2> QED
    BY <2>1, <2>2
<1>4. CallPart'
  BY <1>1, <1>2, <1>3 DEF CallPart
<1>5. HistoryPart' /\ WirePart'
  BY <1>1, Streaming
<1> QED
  BY <1>4, <1>5 DEF WireInv

\* When the answer is over, what the wire holds stays.
LEMMA WireStays ==
  ASSUME WirePart, wire' = wire, wirePhase' # "stream"
  PROVE  WirePart'
BY DEF WirePart

\* The stream is over: the tools answer the answer's message.
LEMMA StreamEndsOnWire ==
  ASSUME WireInv, Wire!StreamEnds
  PROVE  WireInv'
<1>1. /\ wirePhase = "stream" /\ wirePhase' = "tools" /\ UNCHANGED <<wire, made, turns>> /\ Wire!Whole(Wire!Open)
      /\ history' = Append(history, Wire!Assistant(HandedOn(wireEmitted')))
  BY WireLibrary DEF Wire!StreamEnds, Wire!Kept, HandedOn
<1>2. /\ pending \in [Wire!Calls -> 0..Pieces] /\ wireEmitted \in Seq(CallEvents) /\ made \in Seq(Wire!Calls)
      /\ turns \in 0..MaxTurns /\ CallsCounted(wireEmitted, made, Wire!Open)
      /\ history \in Seq(Wire!Messages) /\ Grouped(history) /\ WirePart
  BY <1>1 DEF WireInv, CallPart, HistoryPart
<1>3. /\ wireEmitted' \in Seq(CallEvents) /\ CallsCounted(wireEmitted', made, {})
      /\ pending' \in [Wire!Calls -> 0..Pieces]
  <2>1. CASE Api = "openai"
    <3>1. PICK order : Wire!EmitAll(order)
      BY <2>1, WireLibrary DEF Wire!StreamEnds
    <3> QED
      BY <3>1, <1>1, <1>2, EverythingOut
  <2>2. CASE Api # "openai"
    <3>1. Wire!Open = {} /\ wireEmitted' = wireEmitted /\ pending' = pending
      BY <2>2, WireLibrary DEF Wire!StreamEnds
    <3> QED
      BY <3>1, <1>2
  <2> QED
    BY <2>1, <2>2
<1>4. CallPart'
  BY <1>1, <1>2, <1>3 DEF CallPart
<1>5. HistoryPart'
  BY <1>1, <1>2, <1>3, AnswerKept DEF HistoryPart
<1>6. WirePart'
  BY <1>1, <1>2, WireStays
<1> QED
  BY <1>4, <1>5, <1>6 DEF WireInv

\* The stream breaks: the tools answer nothing.
LEMMA StreamBreaksOnWire ==
  ASSUME WireInv, Wire!StreamBreaks
  PROVE  WireInv'
<1>1. /\ wirePhase' = "idle" /\ UNCHANGED <<wire, pending, wireEmitted, made, turns>>
      /\ history' = Append(history, Wire!Assistant(HandedOn(wireEmitted))) \/ history' = history
  BY WireLibrary DEF Wire!StreamBreaks, Wire!Kept, HandedOn
<1>2. /\ pending \in [Wire!Calls -> 0..Pieces] /\ wireEmitted \in Seq(CallEvents) /\ made \in Seq(Wire!Calls)
      /\ turns \in 0..MaxTurns
      /\ history \in Seq(Wire!Messages) /\ history # <<>> /\ Grouped(history) /\ WirePart
  BY DEF WireInv, CallPart, HistoryPart
<1>3. HistoryPart'
  <2>1. CASE history' = history
    BY <2>1, <1>1, <1>2 DEF HistoryPart
  <2>2. CASE history' = Append(history, Wire!Assistant(HandedOn(wireEmitted)))
    BY <2>2, <1>1, <1>2, AnswerKept DEF HistoryPart
  <2> QED
    BY <2>1, <2>2, <1>1
<1>4. CallPart'
  BY <1>1, <1>2 DEF CallPart
<1>5. WirePart'
  BY <1>1, <1>2, WireStays
<1> QED
  BY <1>3, <1>4, <1>5 DEF WireInv

\* A tool answers: its call is of the last answer.
LEMMA ToolAnswersOnWire ==
  ASSUME WireInv, Wire!ToolAnswers
  PROVE  WireInv'
<1>1. wirePhase = "tools" /\ wirePhase' = wirePhase /\ UNCHANGED <<wire, pending, wireEmitted, made, turns>>
  BY WireLibrary DEF Wire!ToolAnswers
<1>2. PICK b \in HandedOn(wireEmitted) : history' = Append(history, Wire!Tool(b))
  BY WireLibrary DEF Wire!ToolAnswers, HandedOn
<1>3. /\ pending \in [Wire!Calls -> 0..Pieces] /\ wireEmitted \in Seq(CallEvents) /\ made \in Seq(Wire!Calls)
      /\ turns \in 0..MaxTurns /\ CallsCounted(wireEmitted, made, {})
      /\ history \in Seq(Wire!Messages) /\ Grouped(history) /\ WirePart
  BY <1>1 DEF WireInv, CallPart, HistoryPart
<1>4. PICK h \in DOMAIN history : Awaiting(history, h, HandedOn(wireEmitted))
  BY <1>1 DEF WireInv, HistoryPart
<1>5. b \in Wire!Calls
  BY <1>2, <1>3, CallsOf
<1>6. Wire!Tool(b) \in Wire!Messages /\ Wire!Tool(b).calls = {b} /\ Wire!Tool(b).role = "tool"
  BY <1>5, Speakers
<1>7. Awaiting(history, h, Wire!Tool(b).calls)
  BY <1>2, <1>4, <1>6 DEF Awaiting
<1>8. /\ history' \in Seq(Wire!Messages) /\ history' # <<>> /\ Grouped(history') /\ Len(history') = Len(history) + 1
      /\ \A i \in 1..Len(history) : history'[i] = history[i]
      /\ history'[Len(history) + 1] = Wire!Tool(b)
  BY <1>2, <1>3, <1>6, <1>7, GroupedGrows
<1>9. Len(history) \in Nat /\ h \in 1..Len(history) /\ DOMAIN history' = 1..(Len(history) + 1)
  BY <1>3, <1>8, LenProperties
<1>10. h \in DOMAIN history' /\ history'[h] = history[h]
  BY <1>8, <1>9
<1>11. \A j \in (h + 1)..Len(history') : history'[j].role = "tool"
  <2> TAKE j \in (h + 1)..Len(history')
  <2>1. (j \in 1..Len(history) /\ j \in (h + 1)..Len(history)) \/ j = Len(history) + 1
    BY <1>8, <1>9
  <2>2. CASE j \in 1..Len(history) /\ j \in (h + 1)..Len(history)
    <3>1. history'[j] = history[j]
      BY <2>2, <1>8
    <3> QED
      BY <3>1, <2>2, <1>4 DEF Awaiting
  <2>3. CASE j = Len(history) + 1
    BY <2>3, <1>6, <1>8
  <2> QED
    BY <2>1, <2>2, <2>3
<1>12. Awaiting(history', h, HandedOn(wireEmitted))
  BY <1>4, <1>10, <1>11 DEF Awaiting
<1>13. HistoryPart'
  BY <1>1, <1>8, <1>10, <1>12 DEF HistoryPart
<1>14. CallPart'
  BY <1>1, <1>3 DEF CallPart
<1>15. WirePart'
  BY <1>1, <1>3, WireStays
<1> QED
  BY <1>13, <1>14, <1>15 DEF WireInv

\* The turn is over: nothing else changes.
LEMMA TurnOverOnWire ==
  ASSUME WireInv, Wire!TurnOver
  PROVE  WireInv'
<1>1. wirePhase' = "idle" /\ UNCHANGED <<history, wire, pending, wireEmitted, made, turns>>
  BY DEF Wire!TurnOver
<1>2. HistoryPart'
  BY <1>1 DEF WireInv, HistoryPart
<1>3. CallPart'
  BY <1>1 DEF WireInv, CallPart
<1>4. WirePart'
  BY <1>1, WireStays DEF WireInv
<1> QED
  BY <1>2, <1>3, <1>4 DEF WireInv

\* The user speaks.
LEMMA UserSaysOnWire ==
  ASSUME WireInv, Wire!UserSays
  PROVE  WireInv'
<1>1. /\ wirePhase = "idle" /\ wirePhase' = "idle" /\ history' = Append(history, Wire!User)
      /\ UNCHANGED <<wire, pending, wireEmitted, made, turns>>
  BY DEF Wire!UserSays
<1>2. history \in Seq(Wire!Messages) /\ Grouped(history)
  BY DEF WireInv, HistoryPart
<1>3. Wire!User \in Wire!Messages /\ Wire!User.role # "tool"
  BY Speakers
<1>4. history' \in Seq(Wire!Messages) /\ history' # <<>> /\ Grouped(history')
  BY <1>1, <1>2, <1>3, GroupedGrows
<1>5. HistoryPart'
  BY <1>1, <1>4 DEF HistoryPart
<1>6. CallPart'
  BY <1>1 DEF WireInv, CallPart
<1>7. WirePart'
  BY <1>1, WireStays DEF WireInv
<1> QED
  BY <1>5, <1>6, <1>7 DEF WireInv

\* Nothing changes.
LEMMA WireStutter ==
  ASSUME WireInv, UNCHANGED Wire!vars
  PROVE  WireInv'
<1>1. UNCHANGED <<history, wire, wirePhase, pending, wireEmitted, made, turns>>
  BY DEF Wire!vars
<1>2. Wire!Open' = Wire!Open
  BY <1>1 DEF Wire!Open
<1>3. HistoryPart'
  BY <1>1 DEF WireInv, HistoryPart
<1>4. WirePart'
  BY <1>1 DEF WireInv, WirePart
<1>5. CallPart'
  BY <1>1, <1>2 DEF WireInv, CallPart
<1> QED
  BY <1>3, <1>4, <1>5 DEF WireInv

\* A history with one message, and no request.
LEMMA WireInit ==
  ASSUME Wire!Init
  PROVE  WireInv
<1>1. /\ history = <<Wire!User>> /\ wire = <<>> /\ wirePhase = "idle" /\ pending = [c \in Wire!Calls |-> 0]
      /\ wireEmitted = <<>> /\ made = <<>> /\ turns = 0
  BY DEF Wire!Init
<1>2. Wire!User \in Wire!Messages /\ Wire!User.role = "user"
  BY Speakers
<1>3. history \in Seq(Wire!Messages) /\ history # <<>> /\ DOMAIN history = {1} /\ history[1] = Wire!User
  BY <1>1, <1>2
<1>4. Grouped(history)
  BY <1>2, <1>3 DEF Grouped
<1>5. HistoryPart
  BY <1>1, <1>3, <1>4 DEF HistoryPart
<1>6. WirePart
  <2>1. wire \in Seq(Wire!Messages) /\ DOMAIN wire = {}
    BY <1>1
  <2> QED
    BY <2>1, <1>1 DEF WirePart, Grouped, CompleteFrom
<1>7. CallPart
  <2>1. wireEmitted \in Seq(CallEvents) /\ made \in Seq(Wire!Calls)
    BY <1>1, EmptySeq
  <2>2. pending \in [Wire!Calls -> 0..Pieces] /\ turns \in 0..MaxTurns
    BY <1>1, WireNumbers
  <2> QED
    BY <2>1, <2>2, <1>1 DEF CallPart
<1> QED
  BY <1>5, <1>6, <1>7 DEF WireInv

\* Every step keeps the invariant of the wire.
LEMMA WireStep ==
  ASSUME WireInv, [Wire!Next]_Wire!vars
  PROVE  WireInv'
<1>1. CASE UNCHANGED Wire!vars
  BY <1>1, WireStutter
<1>2. CASE Wire!Next
  <2>1. \/ Wire!Request \/ Wire!CallBegins \/ Wire!PieceArrives \/ Wire!CallsFinish \/ Wire!StreamEnds \/ Wire!StreamBreaks
        \/ Wire!ToolAnswers \/ Wire!TurnOver \/ Wire!UserSays
    BY <1>2 DEF Wire!Next, Wire!Stream
  <2> QED
    BY <2>1, RequestOnWire, CallBeginsOnWire, PieceArrivesOnWire, CallsFinishOnWire, StreamEndsOnWire,
       StreamBreaksOnWire, ToolAnswersOnWire, TurnOverOnWire, UserSaysOnWire
<1> QED
  BY <1>1, <1>2

\* What the invariant says of requests and calls.
LEMMA WireTold ==
  ASSUME WireInv
  PROVE  Wire!TypeOK /\ Wire!RequestIsComplete /\ Wire!CallsAreWhole
<1>1. Wire!TypeOK
  BY DEF WireInv, HistoryPart, WirePart, CallPart, Wire!TypeOK, CallEvents
<1>2. Wire!RequestIsComplete
  <2> SUFFICES ASSUME Api = "openai"
      PROVE  /\ \A i \in DOMAIN wire :
                  /\ ~Wire!Incomplete(wire, i)
                  /\ wire[i].role = "tool" =>
                       \E k \in 1..(i - 1) : wire[k].role = "assistant" /\ wire[i].calls \subseteq wire[k].calls
             /\ wirePhase = "stream" => Cardinality(Wire!OfUser(wire)) = Cardinality(Wire!OfUser(history))
    BY WireLibrary DEF Wire!RequestIsComplete
  <2>1. /\ wire \in Seq(Wire!Messages) /\ Grouped(wire) /\ CompleteFrom(wire, 1)
        /\ wirePhase = "stream" => Cardinality(Wire!OfUser(wire)) = Cardinality(Wire!OfUser(history))
    BY DEF WireInv, WirePart
  <2>2. ASSUME NEW i \in DOMAIN wire PROVE ~Wire!Incomplete(wire, i)
    <3>1. i >= 1
      <4>1. DOMAIN wire = 1..Len(wire) /\ Len(wire) \in Nat
        BY <2>1, LenProperties
      <4> QED
        BY <4>1, <2>2
    <3> QED
      BY <3>1, <2>1, <2>2 DEF CompleteFrom
  <2>3. ASSUME NEW i \in DOMAIN wire, wire[i].role = "tool"
        PROVE  \E k \in 1..(i - 1) : wire[k].role = "assistant" /\ wire[i].calls \subseteq wire[k].calls
    BY <2>1, <2>3 DEF Grouped, HeadOf
  <2> QED
    BY <2>1, <2>2, <2>3
<1>3. Wire!CallsAreWhole
  <2> SUFFICES ASSUME wirePhase = "tools"
      PROVE  /\ {e.call : e \in Range(wireEmitted)} = Range(made) /\ Len(wireEmitted) = Len(made)
             /\ \A e \in Range(wireEmitted) : e.pieces = Pieces
    BY WireLibrary DEF Wire!CallsAreWhole
  <2>1. CallsCounted(wireEmitted, made, {}) /\ wireEmitted \in Seq(CallEvents)
    BY DEF WireInv, CallPart
  <2>2. Cardinality({}) = 0 /\ Len(wireEmitted) \in Nat
    BY <2>1, FS_EmptySet, LenProperties
  <2> QED
    BY <2>1, <2>2 DEF CallsCounted, HandedOn
<1> QED
  BY <1>1, <1>2, <1>3

-----------------------------------------------------------------------------
(* SessionLog. *)

\* What SessionLog asks of its constants.
LEMMA SessionBounds == SessionLog!SessionLogConstants
BY MCRequestsConstants

\* Finite sets and their sizes are the library's.
LEMMA SessionSizes == \A S : SessionLog!Cardinality(S) = Cardinality(S)
BY DEF SessionLog!Cardinality, Cardinality

\* The greatest of a nonempty set of numbers up to n.
LEMMA SessionHighest ==
  ASSUME NEW n \in Nat, NEW S, S \subseteq 0..n, S # {}
  PROVE  SessionLog!Max(S) \in S /\ \A m \in S : m <= SessionLog!Max(S)
BY Highest DEF SessionLog!Max

\* What a reader may be at any line.
Replayables == [role : {"assistant", "tool"}, calls : SUBSET Nat, of : Nat, id : 0..MaxIds]
Readers ==
  [msgs : Seq(Replayables), next : Nat,
   iter : [text : BOOLEAN, calls : SUBSET Nat, order : Seq(Nat), answered : Nat, emitted : BOOLEAN]]

\* A reader that has read nothing is one.
LEMMA FreshTypes ==
  /\ SessionLog!Fresh \in [text : BOOLEAN, calls : SUBSET Nat, order : Seq(Nat), answered : Nat, emitted : BOOLEAN]
  /\ SessionLog!Reader \in Readers
<1>1. SessionLog!Fresh \in [text : BOOLEAN, calls : SUBSET Nat, order : Seq(Nat), answered : Nat, emitted : BOOLEAN]
  BY DEF SessionLog!Fresh
<1>2. <<>> \in Seq(Replayables)
  OBVIOUS
<1> QED
  BY <1>1, <1>2 DEF SessionLog!Reader, Readers

\* The fields of a reader.
LEMMA ReaderFields ==
  ASSUME NEW r \in Readers
  PROVE  /\ r.msgs \in Seq(Replayables) /\ r.next \in Nat
         /\ r.iter \in [text : BOOLEAN, calls : SUBSET Nat, order : Seq(Nat), answered : Nat, emitted : BOOLEAN]
         /\ r.iter.text \in BOOLEAN /\ r.iter.calls \in SUBSET Nat /\ r.iter.order \in Seq(Nat)
         /\ r.iter.answered \in Nat /\ r.iter.emitted \in BOOLEAN
         /\ Len(r.msgs) \in Nat /\ DOMAIN r.msgs = 1..Len(r.msgs)
         /\ Len(r.iter.order) \in Nat /\ DOMAIN r.iter.order = 1..Len(r.iter.order)
<1>1. r.msgs \in Seq(Replayables) /\ r.next \in Nat
      /\ r.iter \in [text : BOOLEAN, calls : SUBSET Nat, order : Seq(Nat), answered : Nat, emitted : BOOLEAN]
  BY DEF Readers
<1>2. /\ r.iter.text \in BOOLEAN /\ r.iter.calls \in SUBSET Nat /\ r.iter.order \in Seq(Nat)
      /\ r.iter.answered \in Nat /\ r.iter.emitted \in BOOLEAN
  BY <1>1
<1> QED
  BY <1>1, <1>2, LenProperties

\* What emitting the assistant's message does.
LEMMA Emitted ==
  ASSUME NEW r \in Readers
  PROVE  LET q == SessionLog!EmitAssistant(r)
             m == [role |-> "assistant", calls |-> r.iter.calls, of |-> 0, id |-> 0]
         IN  /\ q \in Readers /\ q.next = r.next
             /\ q.iter.calls = r.iter.calls /\ q.iter.order = r.iter.order /\ q.iter.answered = r.iter.answered
             /\ q.iter.emitted = TRUE
             /\ \/ q.msgs = r.msgs /\ (r.iter.emitted \/ r.iter.calls = {})
                \/ q.msgs = Append(r.msgs, m) /\ ~r.iter.emitted
<1> DEFINE q == SessionLog!EmitAssistant(r)
           m == [role |-> "assistant", calls |-> r.iter.calls, of |-> 0, id |-> 0]
           it == [r.iter EXCEPT !.emitted = TRUE]
           ms == IF r.iter.text \/ r.iter.calls # {} THEN Append(r.msgs, m) ELSE r.msgs
<1>0. /\ r.msgs \in Seq(Replayables) /\ r.next \in Nat
      /\ r.iter \in [text : BOOLEAN, calls : SUBSET Nat, order : Seq(Nat), answered : Nat, emitted : BOOLEAN]
      /\ r.iter.calls \in SUBSET Nat
  BY ReaderFields
<1>1. m \in Replayables
  BY <1>0, SessionBounds DEF Replayables, SessionLog!SessionLogConstants
<1>2. /\ it \in [text : BOOLEAN, calls : SUBSET Nat, order : Seq(Nat), answered : Nat, emitted : BOOLEAN]
      /\ it.calls = r.iter.calls /\ it.order = r.iter.order /\ it.answered = r.iter.answered /\ it.emitted = TRUE
  BY <1>0
<1>3. ms \in Seq(Replayables)
  BY <1>0, <1>1, AppendProperties
<1>4. CASE r.iter.emitted
  BY <1>4 DEF SessionLog!EmitAssistant
<1>5. CASE ~r.iter.emitted
  <2>1. q = [r EXCEPT !.iter = it, !.msgs = ms]
    BY <1>5, <1>0 DEF SessionLog!EmitAssistant, Readers
  <2> HIDE DEF it
  <2>2. q.iter = it /\ q.msgs = ms /\ q.next = r.next
    BY <2>1 DEF Readers
  <2>3. q \in Readers
    BY <2>1, <1>2, <1>3 DEF Readers
  <2>4. q.msgs = Append(r.msgs, m) \/ (q.msgs = r.msgs /\ r.iter.calls = {})
    BY <2>2
  <2> HIDE DEF q
  <2> QED
    BY <1>2, <1>5, <2>2, <2>3, <2>4 DEF q
<1> QED
  BY <1>4, <1>5

\* A new answer begins with the text or the whom behind an emitted message.
LEMMA NextIterationIs ==
  ASSUME NEW r \in Readers
  PROVE  LET q == SessionLog!NextIteration(r)
         IN  /\ q \in Readers /\ q.next = r.next /\ q.msgs = r.msgs
             /\ q.iter = IF r.iter.emitted THEN SessionLog!Fresh ELSE r.iter
<1>1. CASE r.iter.emitted
  <2>1. SessionLog!NextIteration(r) = [r EXCEPT !.iter = SessionLog!Fresh]
    BY <1>1 DEF SessionLog!NextIteration
  <2> QED
    BY <1>1, <2>1, FreshTypes DEF Readers
<1>2. CASE ~r.iter.emitted
  BY <1>2 DEF SessionLog!NextIteration
<1> QED
  BY <1>1, <1>2

\* A call begins an answer behind an emitted message, and is one more of it.
LEMMA ReadCallIs ==
  ASSUME NEW r \in Readers
  PROVE  LET p == SessionLog!ReadCall(r)
             before == IF r.iter.emitted THEN SessionLog!Fresh ELSE r.iter
         IN  /\ p \in Readers /\ p.next = r.next + 1 /\ p.msgs = r.msgs
             /\ p.iter.calls = before.calls \cup {r.next + 1}
             /\ p.iter.order = Append(before.order, r.next + 1)
             /\ p.iter.answered = before.answered /\ p.iter.emitted = FALSE
<1> DEFINE q == SessionLog!NextIteration(r)
           p == SessionLog!ReadCall(r)
           it == [q.iter EXCEPT !.calls = @ \cup {q.next + 1}, !.order = Append(@, q.next + 1)]
<1>1. /\ q \in Readers /\ q.next = r.next /\ q.msgs = r.msgs
      /\ q.iter = IF r.iter.emitted THEN SessionLog!Fresh ELSE r.iter
  BY NextIterationIs
<1>2. p = [q EXCEPT !.next = @ + 1, !.iter.calls = @ \cup {q.next + 1}, !.iter.order = Append(@, q.next + 1)]
  BY DEF SessionLog!ReadCall
<1> HIDE DEF q, p
<1>3. /\ q.iter \in [text : BOOLEAN, calls : SUBSET Nat, order : Seq(Nat), answered : Nat, emitted : BOOLEAN]
      /\ q.iter.calls \in SUBSET Nat /\ q.iter.order \in Seq(Nat) /\ q.iter.answered \in Nat /\ q.next \in Nat
  BY <1>1, ReaderFields
<1>4. q.iter.calls \cup {q.next + 1} \in SUBSET Nat /\ Append(q.iter.order, q.next + 1) \in Seq(Nat)
  BY <1>3, AppendProperties
<1>5. /\ it \in [text : BOOLEAN, calls : SUBSET Nat, order : Seq(Nat), answered : Nat, emitted : BOOLEAN]
      /\ it.calls = q.iter.calls \cup {q.next + 1} /\ it.order = Append(q.iter.order, q.next + 1)
      /\ it.answered = q.iter.answered /\ it.emitted = q.iter.emitted
  BY <1>3, <1>4
<1>6. p = [q EXCEPT !.next = @ + 1, !.iter = it]
  BY <1>2, <1>1 DEF Readers
<1> HIDE DEF it
<1>7. p \in Readers /\ p.next = q.next + 1 /\ p.iter = it /\ p.msgs = q.msgs
  BY <1>6, <1>5, <1>1, <1>3 DEF Readers
<1>8. ~q.iter.emitted
  BY <1>1 DEF SessionLog!Fresh
<1>9. q.iter.emitted = FALSE
  BY <1>8, <1>3
<1> QED
  BY <1>1, <1>5, <1>7, <1>9 DEF p

\* A result answers the next whom of the answer, if there is one.
LEMMA ReadDoneIs ==
  ASSUME NEW r \in Readers, NEW id \in 0..MaxIds
  PROVE  LET q == SessionLog!EmitAssistant(r)
             p == SessionLog!ReadDone(r, id)
             k == r.iter.answered + 1
             whom == IF k <= Len(r.iter.order) THEN r.iter.order[k] ELSE 0
         IN  /\ p \in Readers /\ p.next = r.next
             /\ p.msgs = Append(q.msgs, [role |-> "tool", calls |-> {}, of |-> whom, id |-> id])
             /\ p.iter.calls = r.iter.calls /\ p.iter.order = r.iter.order /\ p.iter.emitted = TRUE
             /\ p.iter.answered = IF whom = 0 THEN r.iter.answered ELSE k
<1> DEFINE q == SessionLog!EmitAssistant(r)
           p == SessionLog!ReadDone(r, id)
           k == r.iter.answered + 1
           whom == IF k <= Len(r.iter.order) THEN r.iter.order[k] ELSE 0
           n == IF whom = 0 THEN r.iter.answered ELSE k
           m == [role |-> "tool", calls |-> {}, of |-> whom, id |-> id]
           it == [q.iter EXCEPT !.answered = n]
<1>1. /\ q \in Readers /\ q.next = r.next
      /\ q.iter.calls = r.iter.calls /\ q.iter.order = r.iter.order /\ q.iter.answered = r.iter.answered
      /\ q.iter.emitted = TRUE
  BY Emitted
<1>2. p = [q EXCEPT !.msgs = Append(@, m), !.iter.answered = IF whom = 0 THEN @ ELSE k]
  BY <1>1 DEF SessionLog!ReadDone
<1>3. r.iter.answered \in Nat /\ r.iter.order \in Seq(Nat) /\ Len(r.iter.order) \in Nat
  BY ReaderFields
<1>4. whom \in Nat /\ n \in Nat /\ k \in Nat
  BY <1>3
<1> HIDE DEF q, p, k, whom
<1>5. m \in Replayables
  BY <1>4 DEF Replayables
<1>6. /\ q.iter \in [text : BOOLEAN, calls : SUBSET Nat, order : Seq(Nat), answered : Nat, emitted : BOOLEAN]
      /\ q.msgs \in Seq(Replayables)
  BY <1>1, ReaderFields
<1>7. p = [q EXCEPT !.msgs = Append(q.msgs, m), !.iter = it]
  BY <1>1, <1>2, <1>6 DEF Readers
<1>8. Append(q.msgs, m) \in Seq(Replayables)
  BY <1>5, <1>6, AppendProperties
<1>9. /\ it \in [text : BOOLEAN, calls : SUBSET Nat, order : Seq(Nat), answered : Nat, emitted : BOOLEAN]
      /\ it.calls = q.iter.calls /\ it.order = q.iter.order /\ it.answered = n /\ it.emitted = q.iter.emitted
  BY <1>4, <1>6
<1> HIDE DEF it, m, n
<1>10. p \in Readers /\ p.next = q.next /\ p.iter = it /\ p.msgs = Append(q.msgs, m)
  BY <1>1, <1>7, <1>8, <1>9 DEF Readers
<1> QED
  BY <1>1, <1>9, <1>10 DEF p, q, m, n, k, whom

\* Every line leaves a reader.
LEMMA ReadLineTypes ==
  ASSUME NEW r \in Readers, NEW line \in SessionLog!Line
  PROVE  SessionLog!ReadLine(line, r) \in Readers
<1>0. line.id \in 0..MaxIds
  BY DEF SessionLog!Line
<1>1. CASE line.kind = "text"
  <2>1. SessionLog!NextIteration(r) \in Readers
    BY NextIterationIs
  <2>2. [SessionLog!NextIteration(r) EXCEPT !.iter.text = TRUE] \in Readers
    BY <2>1 DEF Readers
  <2> QED
    BY <1>1, <2>2 DEF SessionLog!ReadLine
<1>2. CASE line.kind = "call"
  BY <1>2, ReadCallIs DEF SessionLog!ReadLine
<1>3. CASE line.kind = "done"
  BY <1>0, <1>3, ReadDoneIs DEF SessionLog!ReadLine
<1>4. CASE line.kind = "turnDone"
  <2>1. SessionLog!EmitAssistant(r) \in Readers
    BY Emitted
  <2>2. [SessionLog!EmitAssistant(r) EXCEPT !.iter = SessionLog!Fresh] \in Readers
    BY <2>1, FreshTypes DEF Readers
  <2> QED
    BY <1>4, <2>2 DEF SessionLog!ReadLine
<1>5. CASE line.kind \notin {"text", "call", "done", "turnDone"}
  BY <1>5 DEF SessionLog!ReadLine
<1> QED
  BY <1>1, <1>2, <1>3, <1>4, <1>5

\* The reader, line for line.
LEMMA ReadSolved ==
  ASSUME NEW lines \in Seq(SessionLog!Line)
  PROVE  \E g : /\ g[0] = SessionLog!Reader /\ \A k \in 1..Len(lines) : g[k] = SessionLog!ReadLine(lines[k], g[k - 1])
                /\ \A k \in 0..Len(lines) : g[k] \in Readers
                /\ SessionLog!ReadLines(lines) = g[Len(lines)]
<1> DEFINE n == Len(lines)
           step == [k \in 1..n |-> [r \in Readers |-> SessionLog!ReadLine(lines[k], r)]]
           Solves(g) == g = [k \in 0..n |-> IF k = 0 THEN SessionLog!Reader ELSE SessionLog!ReadLine(lines[k], g[k - 1])]
<1>1. n \in Nat /\ \A k \in 1..n : lines[k] \in SessionLog!Line
  BY LenProperties, ElementOfSeq
<1>2. step \in [1..n -> [Readers -> Readers]]
  BY <1>1, ReadLineTypes
<1>3. \A k \in 1..n : \A r \in Readers : step[k][r] = SessionLog!ReadLine(lines[k], r)
  OBVIOUS
<1> HIDE DEF step, n, Solves
<1>4. PICK f \in [0..n -> Readers] : f[0] = SessionLog!Reader /\ \A k \in 1..n : f[k] = step[k][f[k - 1]]
  <2>1. Recursive(n, Readers, SessionLog!Reader, step)
    BY <1>1, <1>2, FreshTypes, Recursion
  <2> QED
    BY <2>1 DEF Recursive
<1>5. \A k \in 1..n : f[k] = SessionLog!ReadLine(lines[k], f[k - 1])
  <2> TAKE k \in 1..n
  <2>1. k - 1 \in 0..n
    BY <1>1
  <2>2. f[k - 1] \in Readers
    BY <2>1
  <2> QED
    BY <2>2, <1>3, <1>4
<1>6. \A k \in 0..n : f[k] = IF k = 0 THEN SessionLog!Reader ELSE SessionLog!ReadLine(lines[k], f[k - 1])
  BY <1>1, <1>4, <1>5
<1>7. Solves(f)
  BY <1>4, <1>6 DEF Solves
<1> DEFINE g == CHOOSE h : Solves(h)
<1>8. SessionLog!ReadLines(lines) = g[n]
  BY DEF SessionLog!ReadLines, n, Solves
<1>9. Solves(g)
  BY <1>7
<1> HIDE DEF g
<1>10. g[0] = SessionLog!Reader /\ \A k \in 1..n : g[k] = SessionLog!ReadLine(lines[k], g[k - 1])
  BY <1>1, <1>9 DEF Solves
<1>11. \A k \in 0..n : k \in {j \in 0..n : g[j] = f[j]}
  <2> DEFINE P == {j \in 0..n : g[j] = f[j]}
  <2>1. 0 \in P
    BY <1>1, <1>4, <1>10
  <2>2. \A k \in 1..n : k - 1 \in P => k \in P
    BY <1>1, <1>5, <1>10
  <2> HIDE DEF P
  <2>3. \A k \in 0..n : k \in P
    BY <1>1, <2>1, <2>2, UpTo
  <2> QED
    BY <2>3 DEF P
<1>12. \A k \in 0..n : g[k] \in Readers
  BY <1>11
<1> QED
  BY <1>8, <1>10, <1>12 DEF n

\* A function that follows the reader through the first n lines; lines that read alike.
Follows(g, lines, n) == g[0] = SessionLog!Reader /\ \A k \in 1..n : g[k] = SessionLog!ReadLine(lines[k], g[k - 1])
Alike(l1, l2, n) == \A k \in 1..n : \A r : SessionLog!ReadLine(l1[k], r) = SessionLog!ReadLine(l2[k], r)

\* Two logs that begin with the same number of lines that read alike.
LEMMA ReadAlike ==
  ASSUME NEW n \in Nat, NEW l1, NEW l2, NEW g1, NEW g2,
         Follows(g1, l1, n), Follows(g2, l2, n), Alike(l1, l2, n)
  PROVE  g1[n] = g2[n]
<1> DEFINE P == {j \in 0..n : g1[j] = g2[j]}
<1>1. 0 \in P
  BY DEF Follows
<1>2. \A k \in 1..n : k - 1 \in P => k \in P
  <2> SUFFICES ASSUME NEW k \in 1..n, k - 1 \in P PROVE k \in P
    OBVIOUS
  <2>1. g1[k - 1] = g2[k - 1]
    OBVIOUS
  <2>2. g1[k] = g2[k]
    BY <2>1 DEF Follows, Alike
  <2> QED
    BY <2>2, k \in 0..n
<1> HIDE DEF P
<1>3. \A k \in 0..n : k \in P
  BY <1>1, <1>2, UpTo
<1>4. n \in P
  BY <1>3, n \in 0..n
<1> QED
  BY <1>4 DEF P

\* Logs that read alike line for line.
LEMMA ReadSame ==
  ASSUME NEW l1 \in Seq(SessionLog!Line), NEW l2 \in Seq(SessionLog!Line), Len(l1) = Len(l2),
         \A k \in 1..Len(l1) : \A r : SessionLog!ReadLine(l1[k], r) = SessionLog!ReadLine(l2[k], r)
  PROVE  SessionLog!ReadLines(l1) = SessionLog!ReadLines(l2)
<1> DEFINE n == Len(l1)
<1>1. PICK g1 : Follows(g1, l1, n) /\ SessionLog!ReadLines(l1) = g1[n]
  BY ReadSolved DEF Follows
<1>2. PICK g2 : Follows(g2, l2, n) /\ SessionLog!ReadLines(l2) = g2[n]
  BY ReadSolved DEF Follows
<1>3. n \in Nat /\ Alike(l1, l2, n)
  BY LenProperties DEF Alike
<1> HIDE DEF n
<1>4. g1[n] = g2[n]
  BY <1>1, <1>2, <1>3, ReadAlike
<1> QED
  BY <1>1, <1>2, <1>4

\* One line more.
LEMMA ReadOneMore ==
  ASSUME NEW lines \in Seq(SessionLog!Line), NEW line \in SessionLog!Line
  PROVE  /\ SessionLog!ReadLines(Append(lines, line)) = SessionLog!ReadLine(line, SessionLog!ReadLines(lines))
         /\ SessionLog!ReadLines(lines) \in Readers
<1> DEFINE more == Append(lines, line)
           n == Len(lines)
<1>1. more \in Seq(SessionLog!Line) /\ Len(more) = n + 1 /\ n \in Nat /\ more[n + 1] = line /\ \A k \in 1..n : more[k] = lines[k]
  BY AppendProperties, LenProperties
<1> HIDE DEF more
<1>2. PICK g1 : Follows(g1, lines, n) /\ (\A k \in 0..n : g1[k] \in Readers) /\ SessionLog!ReadLines(lines) = g1[n]
  BY ReadSolved DEF Follows
<1>3. PICK g2 : /\ g2[0] = SessionLog!Reader /\ \A k \in 1..(n + 1) : g2[k] = SessionLog!ReadLine(more[k], g2[k - 1])
                /\ SessionLog!ReadLines(more) = g2[n + 1]
  BY ReadSolved, <1>1
<1>4. Follows(g2, more, n)
  BY <1>3, <1>1 DEF Follows
<1>5. Alike(lines, more, n)
  BY <1>1 DEF Alike
<1> HIDE DEF n
<1>6. g1[n] = g2[n]
  BY <1>1, <1>2, <1>4, <1>5, ReadAlike
<1>7. g2[n + 1] = SessionLog!ReadLine(line, g2[n])
  <2>1. n + 1 \in 1..(n + 1) /\ (n + 1) - 1 = n
    BY <1>1
  <2> QED
    BY <2>1, <1>1, <1>3
<1>8. n \in 0..n
  BY <1>1
<1> QED
  BY <1>2, <1>3, <1>6, <1>7, <1>8 DEF more

\* Before the first line.
LEMMA ReadNone == SessionLog!ReadLines(<<>>) = SessionLog!Reader
<1>1. <<>> \in Seq(SessionLog!Line) /\ Len(<<>>) = 0
  OBVIOUS
<1> QED
  BY <1>1, ReadSolved

\* The next sequence number is behind those of all lines.
LEMMA NextIsHighest ==
  ASSUME sessionLogLog \in Seq(SessionLog!Line)
  PROVE  /\ SessionLog!DetectNextSequence \in Nat
         /\ \A k \in DOMAIN sessionLogLog : sessionLogLog[k].seq <= SessionLog!DetectNextSequence
<1> DEFINE n == Len(sessionLogLog)
           step == [k \in 1..n |-> [m \in Nat |-> SessionLog!Max({m + 1, sessionLogLog[k].seq})]]
           Solves(g) == g = [k \in 0..n |-> IF k = 0 THEN 0 ELSE SessionLog!Max({g[k - 1] + 1, sessionLogLog[k].seq})]
<1>1. n \in Nat /\ DOMAIN sessionLogLog = 1..n /\ \A k \in 1..n : sessionLogLog[k].seq \in Nat
  <2>1. \A k \in 1..n : sessionLogLog[k] \in SessionLog!Line
    BY ElementOfSeq
  <2> QED
    BY <2>1, LenProperties DEF SessionLog!Line
<1>2. ASSUME NEW a \in Nat, NEW b \in Nat
      PROVE  SessionLog!Max({a + 1, b}) \in Nat /\ SessionLog!Max({a + 1, b}) >= a + 1 /\ SessionLog!Max({a + 1, b}) >= b
  <2> DEFINE S == {a + 1, b}
  <2>1. \E x \in S : \A y \in S : x >= y
    <3>1. CASE a + 1 >= b
      BY <3>1
    <3>2. CASE ~(a + 1 >= b)
      BY <3>2
    <3> QED
      BY <3>1, <3>2
  <2>2. SessionLog!Max(S) \in S /\ \A y \in S : SessionLog!Max(S) >= y
    BY <2>1 DEF SessionLog!Max
  <2>3. SessionLog!Max(S) >= a + 1 /\ SessionLog!Max(S) >= b /\ (SessionLog!Max(S) = a + 1 \/ SessionLog!Max(S) = b)
    BY <2>2
  <2> HIDE DEF S
  <2> QED
    BY <2>3 DEF S
<1>3. step \in [1..n -> [Nat -> Nat]]
  BY <1>1, <1>2
<1>4. \A k \in 1..n : \A m \in Nat : step[k][m] = SessionLog!Max({m + 1, sessionLogLog[k].seq})
  OBVIOUS
<1> HIDE DEF step, n, Solves
<1>5. PICK f \in [0..n -> Nat] : f[0] = 0 /\ \A k \in 1..n : f[k] = step[k][f[k - 1]]
  <2>1. Recursive(n, Nat, 0, step)
    BY <1>1, <1>3, Recursion
  <2> QED
    BY <2>1 DEF Recursive
<1>6. \A k \in 1..n : f[k - 1] \in Nat /\ f[k] = SessionLog!Max({f[k - 1] + 1, sessionLogLog[k].seq})
  <2> TAKE k \in 1..n
  <2>1. k - 1 \in 0..n
    BY <1>1
  <2>2. f[k - 1] \in Nat
    BY <2>1
  <2> QED
    BY <2>2, <1>4, <1>5
<1>7. \A k \in 0..n : f[k] = IF k = 0 THEN 0 ELSE SessionLog!Max({f[k - 1] + 1, sessionLogLog[k].seq})
  BY <1>1, <1>5, <1>6
<1>8. Solves(f)
  BY <1>5, <1>7 DEF Solves
<1> DEFINE g == CHOOSE h : Solves(h)
<1>9. SessionLog!DetectNextSequence = g[n]
  BY DEF SessionLog!DetectNextSequence, n, Solves
<1>10. Solves(g)
  BY <1>8
<1> HIDE DEF g
<1>11. g[0] = 0 /\ \A k \in 1..n : g[k] = SessionLog!Max({g[k - 1] + 1, sessionLogLog[k].seq})
  <2>1. \A k \in 0..n : g[k] = IF k = 0 THEN 0 ELSE SessionLog!Max({g[k - 1] + 1, sessionLogLog[k].seq})
    BY <1>10 DEF Solves
  <2>2. 0 \in 0..n /\ \A k \in 1..n : k \in 0..n /\ k # 0
    BY <1>1
  <2> HIDE DEF Solves
  <2> QED
    BY <2>1, <2>2
<1> DEFINE P == {j \in 0..n : g[j] \in Nat /\ \A k \in 1..j : sessionLogLog[k].seq <= g[j]}
<1>12. 0 \in P
  BY <1>1, <1>11
<1>13. ASSUME NEW k \in 1..n, k - 1 \in P PROVE k \in P
  <2>1. g[k - 1] \in Nat /\ \A j \in 1..(k - 1) : sessionLogLog[j].seq <= g[k - 1]
    BY <1>13
  <2>2. g[k] \in Nat /\ g[k] >= g[k - 1] + 1 /\ g[k] >= sessionLogLog[k].seq
    BY <1>1, <1>2, <1>11, <2>1
  <2>3. \A j \in 1..k : sessionLogLog[j].seq <= g[k]
    <3> TAKE j \in 1..k
    <3>1. CASE j = k
      BY <3>1, <2>2
    <3>2. CASE j # k
      <4>1. j \in 1..(k - 1) /\ j \in 1..n
        BY <3>2, <1>1
      <4> QED
        BY <4>1, <2>1, <2>2, <1>1
    <3> QED
      BY <3>1, <3>2
  <2>4. k \in 0..n
    OBVIOUS
  <2> QED
    BY <2>2, <2>3, <2>4
<1> HIDE DEF P
<1>14. \A k \in 0..n : k \in P
  BY <1>1, <1>12, <1>13, UpTo
<1>15. n \in P
  BY <1>1, <1>14
<1> QED
  BY <1>1, <1>9, <1>15 DEF P

\* The numbers a reader has are those it has given out.
Bounded(r) ==
  /\ r.iter.calls \subseteq 1..r.next
  /\ \A a \in DOMAIN r.iter.order : r.iter.order[a] \in 1..r.next
  /\ \A i \in DOMAIN r.msgs : r.msgs[i].calls \subseteq 1..r.next /\ r.msgs[i].of \in 0..r.next

\* Each result answers a whom of an earlier message, and no two the same.
Answers(h) ==
  \A i \in DOMAIN h : h[i].role = "tool" =>
    /\ \E k \in 1..(i - 1) : h[i].of \in h[k].calls
    /\ \A j \in DOMAIN h \ {i} : h[j].of # h[i].of

\* The calls that are still to be answered are calls of the last message, or of the one that
\* will be emitted with the first result.
Paired(r) ==
  /\ Answers(r.msgs)
  /\ \A a, b \in DOMAIN r.iter.order : a # b => r.iter.order[a] # r.iter.order[b]
  /\ \A a \in DOMAIN r.iter.order : r.iter.order[a] \in r.iter.calls
  /\ r.iter.answered <= Len(r.iter.order)
  /\ r.iter.emitted /\ r.iter.calls # {} => \E k \in DOMAIN r.msgs : r.msgs[k].calls = r.iter.calls
  /\ \A a \in DOMAIN r.iter.order : a > r.iter.answered =>
       \A j \in DOMAIN r.msgs : r.msgs[j].of # r.iter.order[a]

Due(r) == Len(r.iter.order) - r.iter.answered

\* One message more.
LEMMA OneMessage ==
  ASSUME NEW h \in Seq(Replayables), NEW m \in Replayables
  PROVE  LET g == Append(h, m)
         IN  /\ g \in Seq(Replayables) /\ Len(h) \in Nat /\ DOMAIN h = 1..Len(h) /\ DOMAIN g = 1..(Len(h) + 1)
             /\ \A i \in DOMAIN h : i \in DOMAIN g /\ g[i] = h[i]
             /\ g[Len(h) + 1] = m
             /\ \A i \in DOMAIN g : i \in DOMAIN h \/ i = Len(h) + 1
<1> DEFINE g == Append(h, m)
<1>1. g \in Seq(Replayables) /\ Len(g) = Len(h) + 1 /\ Len(h) \in Nat /\ DOMAIN h = 1..Len(h) /\ DOMAIN g = 1..Len(g)
  BY AppendProperties, LenProperties
<1>2. (\A i \in 1..Len(h) : g[i] = h[i]) /\ g[Len(h) + 1] = m
  BY AppendProperties
<1> HIDE DEF g
<1>3. /\ \A i \in DOMAIN h : i \in DOMAIN g /\ g[i] = h[i]
      /\ \A i \in DOMAIN g : i \in DOMAIN h \/ i = Len(h) + 1
  BY <1>1, <1>2
<1> QED
  BY <1>1, <1>2, <1>3 DEF g

\* Emitting the assistant's message.
LEMMA EmittedPaired ==
  ASSUME NEW r \in Readers, Bounded(r)
  PROVE  /\ Bounded(SessionLog!EmitAssistant(r))
         /\ Paired(r) => Paired(SessionLog!EmitAssistant(r))
<1> DEFINE q == SessionLog!EmitAssistant(r)
           m == [role |-> "assistant", calls |-> r.iter.calls, of |-> 0, id |-> 0]
<1>1. /\ q \in Readers /\ q.next = r.next
      /\ q.iter.calls = r.iter.calls /\ q.iter.order = r.iter.order /\ q.iter.answered = r.iter.answered
      /\ q.iter.emitted = TRUE
      /\ \/ q.msgs = r.msgs /\ (r.iter.emitted \/ r.iter.calls = {})
         \/ q.msgs = Append(r.msgs, m) /\ ~r.iter.emitted
  BY Emitted
<1> HIDE DEF q
<1>2. /\ r.msgs \in Seq(Replayables) /\ r.next \in Nat /\ r.iter.calls \in SUBSET Nat
      /\ Len(r.msgs) \in Nat /\ DOMAIN r.msgs = 1..Len(r.msgs)
  BY ReaderFields
<1>3. m \in Replayables
  BY <1>2, SessionBounds DEF Replayables, SessionLog!SessionLogConstants
<1>4. m.role = "assistant" /\ m.calls = r.iter.calls /\ m.of = 0
  OBVIOUS
<1> HIDE DEF m
<1>5. CASE q.msgs = r.msgs /\ (r.iter.emitted \/ r.iter.calls = {})
  <2>1. Bounded(q)
    BY <1>1, <1>5 DEF Bounded
  <2>2. Paired(r) => Paired(q)
    BY <1>1, <1>5 DEF Paired
  <2> QED
    BY <2>1, <2>2 DEF q
<1>6. CASE q.msgs = Append(r.msgs, m)
  <2> DEFINE n == Len(r.msgs)
  <2>1. /\ DOMAIN q.msgs = 1..(n + 1)
        /\ \A i \in DOMAIN r.msgs : i \in DOMAIN q.msgs /\ q.msgs[i] = r.msgs[i]
        /\ q.msgs[n + 1] = m
        /\ \A i \in DOMAIN q.msgs : i \in DOMAIN r.msgs \/ i = n + 1
    BY <1>2, <1>3, <1>6, OneMessage
  <2>2. Bounded(q)
    <3>1. \A i \in DOMAIN q.msgs : q.msgs[i].calls \subseteq 1..q.next /\ q.msgs[i].of \in 0..q.next
      <4> TAKE i \in DOMAIN q.msgs
      <4>1. CASE i \in DOMAIN r.msgs
        BY <4>1, <2>1, <1>1 DEF Bounded
      <4>2. CASE i = n + 1
        BY <4>2, <2>1, <1>1, <1>2, <1>4 DEF Bounded
      <4> QED
        BY <4>1, <4>2, <2>1
    <3> QED
      BY <3>1, <1>1 DEF Bounded
  <2>3. ASSUME Paired(r) PROVE Paired(q)
    <3> HIDE DEF n
    <3>1. Answers(q.msgs)
      <4> SUFFICES ASSUME NEW i \in DOMAIN q.msgs, q.msgs[i].role = "tool"
                   PROVE  /\ \E k \in 1..(i - 1) : q.msgs[i].of \in q.msgs[k].calls
                          /\ \A j \in DOMAIN q.msgs \ {i} : q.msgs[j].of # q.msgs[i].of
        BY DEF Answers
      <4>1. i \in DOMAIN r.msgs /\ q.msgs[i] = r.msgs[i]
        BY <2>1, <1>4
      <4>2. PICK k \in 1..(i - 1) : r.msgs[i].of \in r.msgs[k].calls
        BY <4>1, <2>3 DEF Paired, Answers
      <4>3. k \in DOMAIN r.msgs
        BY <4>1, <1>2
      <4>4. q.msgs[k] = r.msgs[k]
        BY <4>3, <2>1
      <4>5. q.msgs[i].of # 0
        <5>1. r.msgs[i].of \in 1..r.next
          BY <4>2, <4>3 DEF Bounded
        <5> QED
          BY <5>1, <4>1
      <4>6. \A j \in DOMAIN q.msgs \ {i} : q.msgs[j].of # q.msgs[i].of
        <5> TAKE j \in DOMAIN q.msgs \ {i}
        <5>1. CASE j \in DOMAIN r.msgs
          BY <5>1, <4>1, <2>1, <2>3 DEF Paired, Answers
        <5>2. CASE j = n + 1
          BY <5>2, <2>1, <1>4, <4>5
        <5> QED
          BY <5>1, <5>2, <2>1
      <4> QED
        BY <4>1, <4>2, <4>4, <4>6
    <3>2. n + 1 \in DOMAIN q.msgs /\ q.msgs[n + 1].calls = q.iter.calls
      BY <1>1, <1>2, <1>4, <2>1 DEF n
    <3>3. \A a \in DOMAIN r.iter.order : a > r.iter.answered =>
            \A j \in DOMAIN q.msgs : q.msgs[j].of # r.iter.order[a]
      <4> SUFFICES ASSUME NEW a \in DOMAIN r.iter.order, a > r.iter.answered, NEW j \in DOMAIN q.msgs
                   PROVE  q.msgs[j].of # r.iter.order[a]
        OBVIOUS
      <4>1. CASE j \in DOMAIN r.msgs
        BY <4>1, <2>1, <2>3 DEF Paired
      <4>2. CASE j = n + 1
        <5>1. r.iter.order[a] # 0
          BY <1>2 DEF Bounded
        <5> QED
          BY <4>2, <5>1, <2>1, <1>4
      <4> QED
        BY <4>1, <4>2, <2>1
    <3> QED
      BY <1>1, <2>3, <3>1, <3>2, <3>3 DEF Paired
  <2> QED
    BY <2>2, <2>3 DEF q
<1> QED
  BY <1>1, <1>5, <1>6

\* Nothing of an answer is left.
LEMMA FreshIs ==
  /\ SessionLog!Fresh.calls = {} /\ SessionLog!Fresh.order = <<>> /\ SessionLog!Fresh.answered = 0 /\ SessionLog!Fresh.emitted = FALSE
  /\ Len(<<>>) = 0 /\ DOMAIN <<>> = {}
BY DEF SessionLog!Fresh

\* A reader whose answer begins anew.
LEMMA NewAnswer ==
  ASSUME NEW r \in Readers, Bounded(r), NEW q \in Readers, q.next = r.next, q.msgs = r.msgs,
         q.iter.calls = {}, q.iter.order = <<>>, q.iter.answered = 0
  PROVE  Bounded(q) /\ (Paired(r) => Paired(q)) /\ Due(q) = 0
<1>1. DOMAIN q.iter.order = {} /\ Len(q.iter.order) = 0
  BY FreshIs
<1>2. Bounded(q)
  BY <1>1 DEF Bounded
<1>3. Paired(r) => Paired(q)
  BY <1>1 DEF Paired
<1> QED
  BY <1>1, <1>2, <1>3 DEF Due

\* A new answer owes nothing; what an old one owes stays paired.
LEMMA NextIterationPaired ==
  ASSUME NEW r \in Readers, Bounded(r)
  PROVE  LET q == SessionLog!NextIteration(r)
         IN  /\ Bounded(q) /\ (Paired(r) => Paired(q)) /\ q.iter.emitted = FALSE
             /\ Due(q) = IF r.iter.emitted THEN 0 ELSE Due(r)
<1> DEFINE q == SessionLog!NextIteration(r)
<1>1. /\ q \in Readers /\ q.next = r.next /\ q.msgs = r.msgs
      /\ q.iter = IF r.iter.emitted THEN SessionLog!Fresh ELSE r.iter
  BY NextIterationIs
<1> HIDE DEF q
<1>2. CASE r.iter.emitted
  <2>1. q.iter.calls = {} /\ q.iter.order = <<>> /\ q.iter.answered = 0 /\ q.iter.emitted = FALSE
    BY <1>1, <1>2, FreshIs
  <2>2. Bounded(q) /\ (Paired(r) => Paired(q)) /\ Due(q) = 0
    BY <1>1, <2>1, NewAnswer
  <2> QED
    BY <1>2, <2>1, <2>2 DEF q
<1>3. CASE ~r.iter.emitted
  <2>1. q.iter = r.iter
    BY <1>1, <1>3
  <2>2. r.iter.emitted = FALSE
    BY <1>3, ReaderFields
  <2>3. Bounded(q) /\ (Paired(r) => Paired(q)) /\ Due(q) = Due(r)
    BY <1>1, <2>1 DEF Bounded, Paired, Due
  <2> QED
    BY <1>3, <2>1, <2>2, <2>3 DEF q
<1> QED
  BY <1>2, <1>3

\* Text owes nothing.
LEMMA TextPaired ==
  ASSUME NEW r \in Readers, Bounded(r)
  PROVE  LET p == [SessionLog!NextIteration(r) EXCEPT !.iter.text = TRUE]
         IN  /\ p.next = r.next /\ Bounded(p) /\ (Paired(r) => Paired(p)) /\ p.iter.emitted = FALSE
             /\ Due(p) = IF r.iter.emitted THEN 0 ELSE Due(r)
<1> DEFINE q == SessionLog!NextIteration(r)
           p == [SessionLog!NextIteration(r) EXCEPT !.iter.text = TRUE]
<1>1. q \in Readers /\ q.next = r.next
  BY NextIterationIs
<1>2. /\ Bounded(q) /\ (Paired(r) => Paired(q)) /\ q.iter.emitted = FALSE
      /\ Due(q) = IF r.iter.emitted THEN 0 ELSE Due(r)
  BY NextIterationPaired
<1>3. p = [q EXCEPT !.iter.text = TRUE]
  OBVIOUS
<1> HIDE DEF p, q
<1>4. /\ p.next = q.next /\ p.msgs = q.msgs /\ p.iter.calls = q.iter.calls /\ p.iter.order = q.iter.order
      /\ p.iter.answered = q.iter.answered /\ p.iter.emitted = q.iter.emitted
  BY <1>1, <1>3 DEF Readers
<1>5. Bounded(p) /\ (Paired(q) => Paired(p)) /\ Due(p) = Due(q)
  BY <1>2, <1>4 DEF Bounded, Paired, Due
<1> QED
  BY <1>1, <1>2, <1>4, <1>5 DEF p

\* A whom is a new number.
LEMMA CallPaired ==
  ASSUME NEW r \in Readers, Bounded(r)
  PROVE  LET p == SessionLog!ReadCall(r)
         IN  /\ p.next = r.next + 1 /\ Bounded(p) /\ (Paired(r) => Paired(p)) /\ p.iter.emitted = FALSE
             /\ Due(p) = (IF r.iter.emitted THEN 0 ELSE Due(r)) + 1
<1> DEFINE q == SessionLog!NextIteration(r)
           p == SessionLog!ReadCall(r)
           c == r.next + 1
           n == Len(q.iter.order)
<1>1. /\ q \in Readers /\ q.next = r.next /\ q.msgs = r.msgs
      /\ q.iter = IF r.iter.emitted THEN SessionLog!Fresh ELSE r.iter
  BY NextIterationIs
<1>2. /\ Bounded(q) /\ (Paired(r) => Paired(q)) /\ q.iter.emitted = FALSE
      /\ Due(q) = IF r.iter.emitted THEN 0 ELSE Due(r)
  BY NextIterationPaired
<1>3. /\ p \in Readers /\ p.next = c /\ p.msgs = q.msgs
      /\ p.iter.calls = q.iter.calls \cup {c} /\ p.iter.order = Append(q.iter.order, c)
      /\ p.iter.answered = q.iter.answered /\ p.iter.emitted = FALSE
  BY <1>1, ReadCallIs
<1> HIDE DEF p, q
<1>4. /\ q.iter.order \in Seq(Nat) /\ q.next \in Nat /\ q.iter.answered \in Nat
      /\ n \in Nat /\ DOMAIN q.iter.order = 1..n
  BY <1>1, ReaderFields
<1>5. c \in Nat /\ c = q.next + 1
  BY <1>1, <1>4
<1> HIDE DEF c
<1>6. /\ Len(p.iter.order) = n + 1 /\ DOMAIN p.iter.order = 1..(n + 1)
      /\ p.iter.order[n + 1] = c
      /\ \A a \in 1..n : p.iter.order[a] = q.iter.order[a]
  <2>1. /\ Len(p.iter.order) = n + 1 /\ p.iter.order[n + 1] = c
        /\ \A a \in 1..n : p.iter.order[a] = q.iter.order[a]
        /\ p.iter.order \in Seq(Nat)
    BY <1>3, <1>4, <1>5, AppendProperties
  <2> QED
    BY <2>1, LenProperties
<1>7. \A a \in DOMAIN p.iter.order : a = n + 1 \/ (a \in DOMAIN q.iter.order /\ p.iter.order[a] = q.iter.order[a])
  BY <1>4, <1>6
<1> HIDE DEF n
<1>8. \A a \in DOMAIN q.iter.order : q.iter.order[a] \in 1..q.next /\ q.iter.order[a] # c
  <2> TAKE a \in DOMAIN q.iter.order
  <2>1. q.iter.order[a] \in 1..q.next
    BY <1>2 DEF Bounded
  <2> QED
    BY <2>1, <1>4, <1>5
<1>9. Bounded(p)
  <2>1. p.iter.calls \subseteq 1..p.next
    BY <1>2, <1>3, <1>4, <1>5 DEF Bounded
  <2>2. \A a \in DOMAIN p.iter.order : p.iter.order[a] \in 1..p.next
    BY <1>3, <1>4, <1>5, <1>6, <1>7, <1>8
  <2>3. \A i \in DOMAIN p.msgs : p.msgs[i].calls \subseteq 1..p.next /\ p.msgs[i].of \in 0..p.next
    BY <1>2, <1>3, <1>4, <1>5 DEF Bounded
  <2> QED
    BY <2>1, <2>2, <2>3 DEF Bounded
<1>10. ASSUME Paired(r) PROVE Paired(p)
  <2>0. Paired(q)
    BY <1>2, <1>10
  <2>1. Answers(p.msgs)
    BY <2>0, <1>3 DEF Paired
  <2>2. \A a, b \in DOMAIN p.iter.order : a # b => p.iter.order[a] # p.iter.order[b]
    <3> SUFFICES ASSUME NEW a \in DOMAIN p.iter.order, NEW b \in DOMAIN p.iter.order, a # b
                 PROVE  p.iter.order[a] # p.iter.order[b]
      OBVIOUS
    <3>1. CASE a = n + 1
      BY <3>1, <1>6, <1>7, <1>8
    <3>2. CASE b = n + 1
      BY <3>2, <1>6, <1>7, <1>8
    <3>3. CASE a # n + 1 /\ b # n + 1
      BY <3>3, <1>7, <2>0 DEF Paired
    <3> QED
      BY <3>1, <3>2, <3>3
  <2>3. \A a \in DOMAIN p.iter.order : p.iter.order[a] \in p.iter.calls
    BY <1>3, <1>6, <1>7, <2>0 DEF Paired
  <2>4. p.iter.answered <= Len(p.iter.order)
    BY <1>3, <1>4, <1>6, <2>0 DEF Paired, n
  <2>5. \A a \in DOMAIN p.iter.order : a > p.iter.answered =>
          \A j \in DOMAIN p.msgs : p.msgs[j].of # p.iter.order[a]
    <3> SUFFICES ASSUME NEW a \in DOMAIN p.iter.order, a > p.iter.answered, NEW j \in DOMAIN p.msgs
                 PROVE  p.msgs[j].of # p.iter.order[a]
      OBVIOUS
    <3>1. CASE a = n + 1
      <4>1. q.msgs[j].of \in 0..q.next
        BY <1>2, <1>3 DEF Bounded
      <4> QED
        BY <3>1, <4>1, <1>3, <1>4, <1>5, <1>6
    <3>2. CASE a # n + 1
      BY <3>2, <1>3, <1>7, <2>0 DEF Paired
    <3> QED
      BY <3>1, <3>2
  <2> QED
    BY <1>3, <2>1, <2>2, <2>3, <2>4, <2>5 DEF Paired
<1>11. Due(p) = Due(q) + 1
  BY <1>3, <1>4, <1>6 DEF Due, n
<1> QED
  BY <1>2, <1>3, <1>9, <1>10, <1>11 DEF p, c

\* A result answers the first whom that is due.
LEMMA DonePaired ==
  ASSUME NEW r \in Readers, Bounded(r), NEW id \in 0..MaxIds
  PROVE  LET p == SessionLog!ReadDone(r, id)
         IN  /\ p.next = r.next /\ Bounded(p) /\ p.iter.emitted = TRUE
             /\ Paired(r) /\ Due(r) >= 1 => Paired(p) /\ Due(p) = Due(r) - 1
<1> DEFINE q == SessionLog!EmitAssistant(r)
           p == SessionLog!ReadDone(r, id)
           k == r.iter.answered + 1
           whom == IF k <= Len(r.iter.order) THEN r.iter.order[k] ELSE 0
           m == [role |-> "tool", calls |-> {}, of |-> whom, id |-> id]
           n == Len(q.msgs)
<1>1. /\ q \in Readers /\ q.next = r.next
      /\ q.iter.calls = r.iter.calls /\ q.iter.order = r.iter.order /\ q.iter.answered = r.iter.answered
      /\ q.iter.emitted = TRUE
  BY Emitted
<1>2. Bounded(q) /\ (Paired(r) => Paired(q))
  BY EmittedPaired
<1>3. /\ p \in Readers /\ p.next = r.next /\ p.msgs = Append(q.msgs, m)
      /\ p.iter.calls = r.iter.calls /\ p.iter.order = r.iter.order /\ p.iter.emitted = TRUE
      /\ p.iter.answered = IF whom = 0 THEN r.iter.answered ELSE k
  BY ReadDoneIs
<1> HIDE DEF p, q
<1>4. /\ r.iter.order \in Seq(Nat) /\ r.next \in Nat /\ r.iter.answered \in Nat /\ k \in Nat
      /\ Len(r.iter.order) \in Nat /\ DOMAIN r.iter.order = 1..Len(r.iter.order)
      /\ q.msgs \in Seq(Replayables) /\ n \in Nat /\ DOMAIN q.msgs = 1..n
  BY <1>1, ReaderFields
<1>5. k <= Len(r.iter.order) => k \in DOMAIN r.iter.order
  BY <1>4
<1>6. whom \in 0..r.next
  BY <1>1, <1>2, <1>4, <1>5 DEF Bounded
<1>0. k = r.iter.answered + 1 /\ (k <= Len(r.iter.order) => whom = r.iter.order[k])
  OBVIOUS
<1> HIDE DEF k, whom
<1>7. m \in Replayables
  BY <1>4, <1>6 DEF Replayables
<1>8. m.role = "tool" /\ m.calls = {} /\ m.of = whom
  OBVIOUS
<1> HIDE DEF m
<1>9. /\ DOMAIN p.msgs = 1..(n + 1)
      /\ \A i \in DOMAIN q.msgs : i \in DOMAIN p.msgs /\ p.msgs[i] = q.msgs[i]
      /\ p.msgs[n + 1] = m
      /\ \A i \in DOMAIN p.msgs : i \in DOMAIN q.msgs \/ i = n + 1
  BY <1>3, <1>4, <1>7, OneMessage
<1> HIDE DEF n
<1>10. Bounded(p)
  <2>1. \A i \in DOMAIN p.msgs : p.msgs[i].calls \subseteq 1..p.next /\ p.msgs[i].of \in 0..p.next
    <3> TAKE i \in DOMAIN p.msgs
    <3>1. CASE i \in DOMAIN q.msgs
      BY <3>1, <1>1, <1>2, <1>3, <1>9 DEF Bounded
    <3>2. CASE i = n + 1
      BY <3>2, <1>3, <1>6, <1>8, <1>9
    <3> QED
      BY <3>1, <3>2, <1>9
  <2> QED
    BY <2>1, <1>1, <1>2, <1>3 DEF Bounded
<1>11. ASSUME Paired(r), Due(r) >= 1 PROVE Paired(p) /\ Due(p) = Due(r) - 1
  <2>1. k \in DOMAIN r.iter.order /\ whom = r.iter.order[k] /\ k > r.iter.answered
    <3>1. k <= Len(r.iter.order)
      BY <1>0, <1>4, <1>11 DEF Due
    <3>2. k > r.iter.answered
      BY <1>0, <1>4
    <3> QED
      BY <3>1, <3>2, <1>0, <1>5
  <2>2. whom \in 1..r.next
    BY <1>1, <1>2, <2>1 DEF Bounded
  <2>3. p.iter.answered = k
    BY <1>3, <1>4, <2>2
  <2>4. Paired(q)
    BY <1>2, <1>11
  <2>5. whom \in r.iter.calls
    BY <1>1, <2>1, <2>4 DEF Paired
  <2>6. PICK e \in DOMAIN q.msgs : q.msgs[e].calls = r.iter.calls
    BY <1>1, <2>4, <2>5 DEF Paired
  <2>7. \A j \in DOMAIN q.msgs : q.msgs[j].of # whom
    BY <1>1, <2>1, <2>4 DEF Paired
  <2>8. Answers(p.msgs)
    <3> SUFFICES ASSUME NEW i \in DOMAIN p.msgs, p.msgs[i].role = "tool"
                 PROVE  /\ \E l \in 1..(i - 1) : p.msgs[i].of \in p.msgs[l].calls
                        /\ \A j \in DOMAIN p.msgs \ {i} : p.msgs[j].of # p.msgs[i].of
      BY DEF Answers
    <3>1. CASE i \in DOMAIN q.msgs
      <4>1. p.msgs[i] = q.msgs[i]
        BY <3>1, <1>9
      <4>2. PICK l \in 1..(i - 1) : q.msgs[i].of \in q.msgs[l].calls
        BY <3>1, <4>1, <2>4 DEF Paired, Answers
      <4>3. l \in DOMAIN q.msgs
        BY <3>1, <1>4
      <4>4. p.msgs[i].of \in p.msgs[l].calls
        BY <4>1, <4>2, <4>3, <1>9
      <4>5. \A j \in DOMAIN p.msgs \ {i} : p.msgs[j].of # p.msgs[i].of
        <5> TAKE j \in DOMAIN p.msgs \ {i}
        <5>1. CASE j \in DOMAIN q.msgs
          BY <5>1, <3>1, <4>1, <1>9, <2>4 DEF Paired, Answers
        <5>2. CASE j = n + 1
          BY <5>2, <3>1, <4>1, <1>8, <1>9, <2>7
        <5> QED
          BY <5>1, <5>2, <1>9
      <4> QED
        BY <4>4, <4>5
    <3>2. CASE i = n + 1
      <4>1. p.msgs[i].of = whom
        BY <3>2, <1>8, <1>9
      <4>2. e \in 1..(i - 1) /\ whom \in p.msgs[e].calls
        BY <3>2, <1>4, <1>9, <2>5, <2>6
      <4>3. \A j \in DOMAIN p.msgs \ {i} : p.msgs[j].of # whom
        BY <3>2, <1>9, <2>7
      <4> QED
        BY <4>1, <4>2, <4>3
    <3> QED
      BY <3>1, <3>2, <1>9
  <2>9. \A a \in DOMAIN p.iter.order : a > p.iter.answered =>
          \A j \in DOMAIN p.msgs : p.msgs[j].of # p.iter.order[a]
    <3> SUFFICES ASSUME NEW a \in DOMAIN r.iter.order, a > k, NEW j \in DOMAIN p.msgs
                 PROVE  p.msgs[j].of # r.iter.order[a]
      BY <1>3, <2>3
    <3>1. a > r.iter.answered
      BY <1>4, <2>1
    <3>2. CASE j \in DOMAIN q.msgs
      BY <3>1, <3>2, <1>1, <1>9, <2>4 DEF Paired
    <3>3. CASE j = n + 1
      <4>1. a # k
        BY <1>4
      <4>2. r.iter.order[a] # whom
        BY <4>1, <2>1, <1>11 DEF Paired
      <4> QED
        BY <3>3, <4>2, <1>8, <1>9
    <3> QED
      BY <3>2, <3>3, <1>9
  <2>10. p.iter.answered <= Len(p.iter.order)
    BY <1>3, <1>4, <2>1, <2>3
  <2>11. \E l \in DOMAIN p.msgs : p.msgs[l].calls = p.iter.calls
    BY <1>3, <1>9, <2>6
  <2>12. Paired(p)
    BY <1>1, <1>3, <2>4, <2>8, <2>9, <2>10, <2>11 DEF Paired
  <2>13. Due(p) = Due(r) - 1
    <3>1. Due(p) = Len(r.iter.order) - k
      BY <1>3, <2>3 DEF Due
    <3> QED
      BY <3>1, <1>0, <1>4 DEF Due
  <2> QED
    BY <2>12, <2>13
<1> QED
  BY <1>3, <1>10, <1>11 DEF p

\* The end of a turn forgets what is due.
LEMMA TurnDonePaired ==
  ASSUME NEW r \in Readers, Bounded(r)
  PROVE  LET p == [SessionLog!EmitAssistant(r) EXCEPT !.iter = SessionLog!Fresh]
         IN  /\ p.next = r.next /\ Bounded(p) /\ (Paired(r) => Paired(p)) /\ p.iter.emitted = FALSE
             /\ Due(p) = 0
<1> DEFINE q == SessionLog!EmitAssistant(r)
           p == [SessionLog!EmitAssistant(r) EXCEPT !.iter = SessionLog!Fresh]
<1>1. q \in Readers /\ q.next = r.next
  BY Emitted
<1>2. Bounded(q) /\ (Paired(r) => Paired(q))
  BY EmittedPaired
<1>3. p = [q EXCEPT !.iter = SessionLog!Fresh]
  OBVIOUS
<1> HIDE DEF p, q
<1>4. p \in Readers /\ p.next = q.next /\ p.msgs = q.msgs /\ p.iter = SessionLog!Fresh
  BY <1>1, <1>3, FreshTypes DEF Readers
<1>5. p.iter.calls = {} /\ p.iter.order = <<>> /\ p.iter.answered = 0 /\ p.iter.emitted = FALSE
  BY <1>4, FreshIs
<1>6. Bounded(p) /\ (Paired(q) => Paired(p)) /\ Due(p) = 0
  BY <1>1, <1>2, <1>4, <1>5, NewAnswer
<1> QED
  BY <1>1, <1>2, <1>4, <1>5, <1>6 DEF p

\* What a line does to a reader.
LEMMA LineRead ==
  ASSUME NEW r \in Readers, Bounded(r), NEW line \in SessionLog!Line
  PROVE  LET p == SessionLog!ReadLine(line, r)
             before == IF r.iter.emitted THEN 0 ELSE Due(r)
         IN  /\ p \in Readers /\ p.next \in {r.next, r.next + 1} /\ Bounded(p)
             /\ Paired(r) /\ (line.kind = "done" => Due(r) >= 1) => Paired(p)
             /\ line.kind = "text" => Due(p) = before /\ ~p.iter.emitted
             /\ line.kind = "call" => Due(p) = before + 1 /\ ~p.iter.emitted
             /\ line.kind = "turnDone" => Due(p) = 0 /\ ~p.iter.emitted
             /\ line.kind = "done" /\ Paired(r) /\ Due(r) >= 1 => Due(p) = Due(r) - 1
             /\ line.kind \in {"spawn", "torn", "junk"} => p = r
<1>0. SessionLog!ReadLine(line, r) \in Readers /\ line.id \in 0..MaxIds /\ line.kind \in SessionLog!Kinds
  BY ReadLineTypes DEF SessionLog!Line
<1>1. CASE line.kind = "text"
  <2>1. SessionLog!ReadLine(line, r) = [SessionLog!NextIteration(r) EXCEPT !.iter.text = TRUE]
    BY <1>1 DEF SessionLog!ReadLine
  <2> QED
    BY <1>0, <1>1, <2>1, TextPaired
<1>2. CASE line.kind = "call"
  <2>1. SessionLog!ReadLine(line, r) = SessionLog!ReadCall(r)
    BY <1>2 DEF SessionLog!ReadLine
  <2> QED
    BY <1>0, <1>2, <2>1, CallPaired
<1>3. CASE line.kind = "done"
  <2>1. SessionLog!ReadLine(line, r) = SessionLog!ReadDone(r, line.id)
    BY <1>3 DEF SessionLog!ReadLine
  <2> QED
    BY <1>0, <1>3, <2>1, DonePaired
<1>4. CASE line.kind = "turnDone"
  <2>1. SessionLog!ReadLine(line, r) = [SessionLog!EmitAssistant(r) EXCEPT !.iter = SessionLog!Fresh]
    BY <1>4 DEF SessionLog!ReadLine
  <2> QED
    BY <1>0, <1>4, <2>1, TurnDonePaired
<1>5. CASE line.kind \in {"spawn", "torn", "junk"}
  <2>1. SessionLog!ReadLine(line, r) = r
    BY <1>5 DEF SessionLog!ReadLine
  <2> QED
    BY <1>0, <1>5, <2>1
<1> QED
  BY <1>0, <1>1, <1>2, <1>3, <1>4, <1>5 DEF SessionLog!Kinds

-----------------------------------------------------------------------------
Junkless == \A k \in DOMAIN sessionLogLog : sessionLogLog[k].kind # "junk"
Torn == sessionLogLog # <<>> /\ SessionLog!Last(sessionLogLog).kind = "torn"
WholeLines == Len(sessionLogLog) - (IF Torn THEN 1 ELSE 0)
Behind == SessionLog!ReadLines(sessionLogLog)

LogPart ==
  /\ sessionLogLog \in Seq(SessionLog!Line) /\ Len(sessionLogLog) <= MaxLines /\ nextSeq \in Nat
  /\ SessionLog!SequenceGrows /\ \A k \in DOMAIN sessionLogLog : sessionLogLog[k].seq <= nextSeq
  /\ Behind.next <= Len(sessionLogLog) /\ Bounded(Behind)

IdPart ==
  /\ nextID \in 0..MaxIds /\ replayed \in Seq(SessionLog!Message) /\ spawned \subseteq 1..MaxIds
  /\ \A i \in DOMAIN replayed : replayed[i].id <= nextID
  /\ SessionLog!NumbersAreFresh

OpenPart ==
  /\ sessionLogPhase \in {"idle", "stream", "tools", "spawned", "down"} /\ open \in Nat
  /\ said \in 0..MaxUser /\ crashes \in 0..MaxCrashes
  /\ open <= WholeLines
  /\ sessionLogPhase = "idle" => open = 0
  /\ sessionLogPhase \in {"tools", "spawned"} => open >= 1

\* As long as no line was lost, every whom that the master still runs is due, and
\* text is written behind an emitted message only when none is.
DuePart ==
  Junkless => /\ Paired(Behind) /\ Answers(replayed)
              /\ sessionLogPhase # "down" => /\ open <= Due(Behind)
                                             /\ sessionLogPhase = "stream" /\ Behind.iter.emitted => open = 0

SessionInv == LogPart /\ IdPart /\ OpenPart /\ DuePart

\* The constants of the session log.
LEMMA SessionNumbers ==
  /\ MaxLines \in Nat /\ MaxIds \in Nat /\ MaxCrashes \in Nat /\ MaxUser \in Nat /\ KeepUser \in Nat /\ KeepUser > 0
BY SessionBounds DEF SessionLog!SessionLogConstants

\* The log from line to line.
LEMMA LogTyped ==
  ASSUME sessionLogLog \in Seq(SessionLog!Line)
  PROVE  /\ Len(sessionLogLog) \in Nat /\ DOMAIN sessionLogLog = 1..Len(sessionLogLog)
         /\ \A k \in DOMAIN sessionLogLog : sessionLogLog[k] \in SessionLog!Line /\ sessionLogLog[k].seq \in Nat /\ sessionLogLog[k].id \in 0..MaxIds
         /\ Behind \in Readers
         /\ WholeLines \in Int /\ WholeLines <= Len(sessionLogLog)
<1>1. Len(sessionLogLog) \in Nat /\ DOMAIN sessionLogLog = 1..Len(sessionLogLog)
  BY LenProperties
<1>2. \A k \in DOMAIN sessionLogLog : sessionLogLog[k] \in SessionLog!Line
  BY <1>1, ElementOfSeq
<1>3. \A k \in DOMAIN sessionLogLog : sessionLogLog[k].seq \in Nat /\ sessionLogLog[k].id \in 0..MaxIds
  BY <1>2 DEF SessionLog!Line
<1>4. [kind |-> "text", id |-> 0, seq |-> 0] \in SessionLog!Line
  BY SessionNumbers DEF SessionLog!Line, SessionLog!Kinds
<1>5. Behind \in Readers
  BY <1>4, ReadOneMore DEF Behind
<1>6. WholeLines \in Int /\ WholeLines <= Len(sessionLogLog)
  BY <1>1 DEF WholeLines
<1> QED
  BY <1>1, <1>2, <1>3, <1>5, <1>6

\* A line at the end: its number is the next, or none.
LEMMA LineAppended ==
  ASSUME LogPart, NEW line \in SessionLog!Line, sessionLogLog' = Append(sessionLogLog, line), Len(sessionLogLog) < MaxLines,
         nextSeq' \in Nat, nextSeq <= nextSeq', line.seq = 0 \/ (line.seq = nextSeq' /\ nextSeq < nextSeq')
  PROVE  /\ LogPart' /\ Behind' = SessionLog!ReadLine(line, Behind)
         /\ Junkless' => Junkless /\ line.kind # "junk"
         /\ Junkless /\ line.kind # "junk" => Junkless'
         /\ WholeLines' = Len(sessionLogLog) + (IF line.kind = "torn" THEN 0 ELSE 1)
<1> DEFINE n == Len(sessionLogLog)
<1>0. sessionLogLog \in Seq(SessionLog!Line) /\ MaxLines \in Nat /\ nextSeq \in Nat
  BY SessionNumbers DEF LogPart
<1>1. /\ n \in Nat /\ DOMAIN sessionLogLog = 1..n /\ Behind \in Readers
      /\ \A k \in DOMAIN sessionLogLog : sessionLogLog[k].seq \in Nat
  BY <1>0, LogTyped
<1>2. /\ sessionLogLog' \in Seq(SessionLog!Line) /\ Len(sessionLogLog') = n + 1 /\ sessionLogLog' # <<>>
      /\ \A k \in 1..n : sessionLogLog'[k] = sessionLogLog[k]
      /\ sessionLogLog'[n + 1] = line
  BY <1>0, AppendProperties
<1>3. DOMAIN sessionLogLog' = 1..(n + 1)
  BY <1>2, LenProperties
<1>4. Behind' = SessionLog!ReadLine(line, Behind)
  BY <1>0, ReadOneMore DEF Behind
<1>5. \A k \in DOMAIN sessionLogLog' : (k \in DOMAIN sessionLogLog /\ sessionLogLog'[k] = sessionLogLog[k]) \/ (k = n + 1 /\ sessionLogLog'[k] = line)
  BY <1>1, <1>2, <1>3
<1>6. \A k \in DOMAIN sessionLogLog : k \in DOMAIN sessionLogLog' /\ sessionLogLog'[k] = sessionLogLog[k]
  BY <1>1, <1>2, <1>3
<1>7. (Junkless' => Junkless /\ line.kind # "junk") /\ (Junkless /\ line.kind # "junk" => Junkless')
  <2>1. n + 1 \in DOMAIN sessionLogLog'
    BY <1>1, <1>3
  <2> QED
    BY <2>1, <1>2, <1>5, <1>6 DEF Junkless
<1>8. \A k \in DOMAIN sessionLogLog' : sessionLogLog'[k].seq <= nextSeq'
  <2> TAKE k \in DOMAIN sessionLogLog'
  <2>1. CASE k \in DOMAIN sessionLogLog /\ sessionLogLog'[k] = sessionLogLog[k]
    <3>1. sessionLogLog[k].seq <= nextSeq /\ sessionLogLog[k].seq \in Nat
      BY <2>1, <1>1 DEF LogPart
    <3> QED
      BY <2>1, <3>1, <1>0
  <2>2. CASE sessionLogLog'[k] = line
    BY <2>2
  <2> QED
    BY <2>1, <2>2, <1>5
<1>9. SessionLog!SequenceGrows'
  <2> SUFFICES ASSUME NEW i \in DOMAIN sessionLogLog', NEW j \in DOMAIN sessionLogLog', i < j, sessionLogLog'[i].seq > 0, sessionLogLog'[j].seq > 0
               PROVE  sessionLogLog'[i].seq < sessionLogLog'[j].seq
    BY DEF SessionLog!SequenceGrows
  <2>1. i \in DOMAIN sessionLogLog /\ sessionLogLog'[i] = sessionLogLog[i]
    BY <1>1, <1>3, <1>5
  <2>2. CASE j \in DOMAIN sessionLogLog /\ sessionLogLog'[j] = sessionLogLog[j]
    BY <2>1, <2>2 DEF LogPart, SessionLog!SequenceGrows
  <2>3. CASE sessionLogLog'[j] = line
    <3>1. sessionLogLog[i].seq <= nextSeq /\ sessionLogLog[i].seq \in Nat
      BY <2>1, <1>1 DEF LogPart
    <3>2. line.seq = nextSeq' /\ nextSeq < nextSeq'
      BY <2>3
    <3> QED
      BY <2>1, <2>3, <3>1, <3>2, <1>0
  <2> QED
    BY <2>2, <2>3, <1>5
<1>10. Behind' \in Readers /\ Behind'.next \in {Behind.next, Behind.next + 1} /\ Bounded(Behind')
  BY <1>1, <1>4, LineRead DEF LogPart
<1>11. Behind'.next <= Len(sessionLogLog')
  <2>1. Behind.next \in Nat /\ Behind.next <= n
    BY <1>1, ReaderFields DEF LogPart
  <2> QED
    BY <2>1, <1>10, <1>2, <1>1
<1>12. Len(sessionLogLog') <= MaxLines
  BY <1>0, <1>1, <1>2
<1>13. LogPart'
  BY <1>2, <1>8, <1>9, <1>10, <1>11, <1>12 DEF LogPart
<1>14. SessionLog!Last(sessionLogLog') = line
  BY <1>2 DEF SessionLog!Last
<1>15. WholeLines' = n + (IF line.kind = "torn" THEN 0 ELSE 1)
  <2>1. Torn' <=> (line.kind = "torn")
    BY <1>2, <1>14 DEF Torn
  <2> HIDE DEF n
  <2>2. CASE line.kind = "torn"
    <3>1. WholeLines' = (n + 1) - 1
      BY <2>1, <2>2, <1>2 DEF WholeLines
    <3> QED
      BY <3>1, <2>2, <1>1
  <2>3. CASE line.kind # "torn"
    <3>1. WholeLines' = (n + 1) - 0
      BY <2>1, <2>3, <1>2 DEF WholeLines
    <3> QED
      BY <3>1, <2>3, <1>1
  <2> QED
    BY <2>2, <2>3
<1> QED
  BY <1>4, <1>7, <1>13, <1>15

\* A torn line becomes junk.
LEMMA LineLost ==
  ASSUME LogPart, Torn, sessionLogLog' = SessionLog!Front(sessionLogLog) \o <<[kind |-> "junk", id |-> 0, seq |-> 0]>>, nextSeq' = nextSeq + 1
  PROVE  LogPart' /\ ~Junkless' /\ WholeLines' = Len(sessionLogLog) /\ WholeLines = Len(sessionLogLog) - 1
<1> DEFINE n == Len(sessionLogLog)
           junk == [kind |-> "junk", id |-> 0, seq |-> 0]
<1>0. sessionLogLog \in Seq(SessionLog!Line) /\ MaxLines \in Nat /\ nextSeq \in Nat /\ junk \in SessionLog!Line
  BY SessionNumbers DEF LogPart, SessionLog!Line, SessionLog!Kinds
<1>1. /\ n \in Nat /\ DOMAIN sessionLogLog = 1..n /\ Behind \in Readers
      /\ \A k \in DOMAIN sessionLogLog : sessionLogLog[k] \in SessionLog!Line /\ sessionLogLog[k].seq \in Nat
  BY <1>0, LogTyped
<1>2. n >= 1 /\ sessionLogLog[n].kind = "torn"
  <2>1. sessionLogLog # <<>> /\ sessionLogLog[n].kind = "torn"
    BY DEF Torn, SessionLog!Last
  <2>2. n # 0
    BY <2>1, <1>0, EmptySeq
  <2> QED
    BY <2>1, <2>2, <1>1
<1>3. /\ SessionLog!Front(sessionLogLog) \in Seq(SessionLog!Line) /\ Len(SessionLog!Front(sessionLogLog)) = n - 1
      /\ \A k \in 1..(n - 1) : SessionLog!Front(sessionLogLog)[k] = sessionLogLog[k]
  <2>1. SessionLog!Front(sessionLogLog) = SubSeq(sessionLogLog, 1, n - 1)
    BY DEF SessionLog!Front
  <2>2. \A k \in 1..(n - 1) : sessionLogLog[k] \in SessionLog!Line
    BY <1>1
  <2>3. /\ SubSeq(sessionLogLog, 1, n - 1) \in Seq(SessionLog!Line)
        /\ Len(SubSeq(sessionLogLog, 1, n - 1)) = IF 1 <= n - 1 THEN (n - 1) - 1 + 1 ELSE 0
        /\ \A k \in 1..((n - 1) - 1 + 1) : SubSeq(sessionLogLog, 1, n - 1)[k] = sessionLogLog[1 + k - 1]
    BY <2>2, <1>1, SubSeqProperties
  <2> HIDE DEF n
  <2>4. (IF 1 <= n - 1 THEN (n - 1) - 1 + 1 ELSE 0) = n - 1
    BY <1>1, <1>2
  <2>5. (n - 1) - 1 + 1 = n - 1
    BY <1>1, <1>2
  <2>6. \A k \in 1..(n - 1) : 1 + k - 1 = k
    OBVIOUS
  <2>7. Len(SessionLog!Front(sessionLogLog)) = n - 1 /\ SessionLog!Front(sessionLogLog) \in Seq(SessionLog!Line)
    BY <2>1, <2>3, <2>4
  <2>8. \A k \in 1..(n - 1) : SessionLog!Front(sessionLogLog)[k] = sessionLogLog[k]
    BY <2>1, <2>3, <2>5, <2>6
  <2> QED
    BY <2>7, <2>8
<1> HIDE DEF junk, n
<1>4. /\ sessionLogLog' \in Seq(SessionLog!Line) /\ Len(sessionLogLog') = n
      /\ \A k \in 1..(n - 1) : sessionLogLog'[k] = sessionLogLog[k]
      /\ sessionLogLog'[n] = junk
  <2>0. sessionLogLog \in Seq(SessionLog!Line) /\ junk \in SessionLog!Line
    BY <1>0
  <2>1. <<junk>> \in Seq(SessionLog!Line) /\ Len(<<junk>>) = 1 /\ <<junk>>[1] = junk
    BY <2>0
  <2>2. sessionLogLog' = SessionLog!Front(sessionLogLog) \o <<junk>>
    BY DEF junk
  <2>3. /\ SessionLog!Front(sessionLogLog) \o <<junk>> \in Seq(SessionLog!Line)
        /\ Len(SessionLog!Front(sessionLogLog) \o <<junk>>) = Len(SessionLog!Front(sessionLogLog)) + 1
        /\ \A k \in 1..(Len(SessionLog!Front(sessionLogLog)) + 1) :
             (SessionLog!Front(sessionLogLog) \o <<junk>>)[k] = IF k <= Len(SessionLog!Front(sessionLogLog)) THEN SessionLog!Front(sessionLogLog)[k] ELSE <<junk>>[k - Len(SessionLog!Front(sessionLogLog))]
    BY <1>3, <2>1, ConcatProperties
  <2>4. \A k \in 1..n : sessionLogLog'[k] = IF k <= n - 1 THEN SessionLog!Front(sessionLogLog)[k] ELSE <<junk>>[k - (n - 1)]
    BY <2>2, <2>3, <1>1, <1>2, <1>3
  <2>5. n \in 1..n /\ ~(n <= n - 1) /\ n - (n - 1) = 1
    BY <1>1, <1>2
  <2>6. sessionLogLog'[n] = junk
    BY <2>4, <2>5, <2>1
  <2>7. \A k \in 1..(n - 1) : sessionLogLog'[k] = sessionLogLog[k]
    BY <2>4, <1>3, <1>1
  <2>8. Len(sessionLogLog') = n
    BY <2>2, <2>3, <1>1, <1>3
  <2> QED
    BY <2>2, <2>3, <2>6, <2>7, <2>8
<1>5. DOMAIN sessionLogLog' = 1..n
  BY <1>4, LenProperties
<1>6. junk.kind = "junk" /\ junk.seq = 0
  BY DEF junk
<1>7. \A k \in 1..n : (k \in 1..(n - 1) /\ sessionLogLog'[k] = sessionLogLog[k]) \/ (k = n /\ sessionLogLog'[k] = junk)
  <2>1. \A k \in 1..n : k \in 1..(n - 1) \/ k = n
    BY <1>1, <1>2
  <2> QED
    BY <2>1, <1>4
<1>8. Behind' = Behind
  <2>1. \A k \in 1..n : \A r : SessionLog!ReadLine(sessionLogLog[k], r) = SessionLog!ReadLine(sessionLogLog'[k], r)
    <3> TAKE k \in 1..n
    <3>1. CASE sessionLogLog'[k] = sessionLogLog[k]
      BY <3>1
    <3>2. CASE k = n
      BY <3>2, <1>2, <1>4, <1>6 DEF SessionLog!ReadLine
    <3> QED
      BY <3>1, <3>2, <1>7
  <2>2. SessionLog!ReadLines(sessionLogLog) = SessionLog!ReadLines(sessionLogLog')
    BY <2>1, <1>0, <1>4, ReadSame DEF n
  <2> QED
    BY <2>2 DEF Behind
<1>9. \A k \in DOMAIN sessionLogLog' : sessionLogLog'[k].seq <= nextSeq'
  <2> TAKE k \in DOMAIN sessionLogLog'
  <2>1. CASE k \in 1..(n - 1) /\ sessionLogLog'[k] = sessionLogLog[k]
    <3>1. sessionLogLog[k].seq <= nextSeq /\ sessionLogLog[k].seq \in Nat
      BY <2>1, <1>1 DEF LogPart
    <3> QED
      BY <2>1, <3>1, <1>0
  <2>2. CASE sessionLogLog'[k] = junk
    BY <2>2, <1>6, <1>0
  <2> QED
    BY <2>1, <2>2, <1>5, <1>7
<1>10. SessionLog!SequenceGrows'
  <2> SUFFICES ASSUME NEW i \in DOMAIN sessionLogLog', NEW j \in DOMAIN sessionLogLog', i < j, sessionLogLog'[i].seq > 0, sessionLogLog'[j].seq > 0
               PROVE  sessionLogLog'[i].seq < sessionLogLog'[j].seq
    BY DEF SessionLog!SequenceGrows
  <2>0. i \in DOMAIN sessionLogLog /\ j \in DOMAIN sessionLogLog /\ i \in 1..n /\ j \in 1..n
    BY <1>1, <1>5
  <2>1. sessionLogLog'[i] # junk /\ sessionLogLog'[j] # junk
    BY <1>6
  <2>2. sessionLogLog'[i] = sessionLogLog[i] /\ sessionLogLog'[j] = sessionLogLog[j]
    BY <2>0, <2>1, <1>7
  <2> QED
    BY <2>0, <2>2 DEF LogPart, SessionLog!SequenceGrows
<1>11. LogPart'
  <2>1. Len(sessionLogLog') = Len(sessionLogLog)
    BY <1>4 DEF n
  <2>2. Bounded(Behind) /\ Behind.next <= Len(sessionLogLog) /\ Len(sessionLogLog) <= MaxLines
    BY DEF LogPart
  <2>3. Bounded(Behind') /\ Behind'.next <= Len(sessionLogLog') /\ Len(sessionLogLog') <= MaxLines /\ nextSeq' \in Nat
    BY <2>1, <2>2, <1>8, <1>0
  <2> QED
    BY <2>3, <1>4, <1>9, <1>10 DEF LogPart
<1>12. ~Junkless'
  <2>1. n \in 1..n
    BY <1>1, <1>2
  <2>2. n \in DOMAIN sessionLogLog'
    BY <2>1, <1>5
  <2> QED
    BY <2>2, <1>4, <1>6 DEF Junkless
<1>13. WholeLines' = n /\ WholeLines = n - 1
  <2>1. SessionLog!Last(sessionLogLog') = junk
    BY <1>4 DEF SessionLog!Last
  <2>2. ~Torn'
    BY <2>1, <1>6 DEF Torn
  <2>3. WholeLines' = n - 0
    BY <2>2, <1>4 DEF WholeLines
  <2>4. WholeLines = n - 1
    BY DEF WholeLines, n
  <2> QED
    BY <2>3, <2>4, <1>1
<1> QED
  BY <1>11, <1>12, <1>13 DEF n

\* WriteEvent: one whole line more, or one lost with the torn one.
LEMMA Written ==
  ASSUME LogPart, NEW kind \in SessionLog!Kinds \ {"torn", "junk"}, NEW id \in 0..MaxIds, SessionLog!Write(kind, id)
  PROVE  /\ LogPart' /\ WholeLines' = WholeLines + 1
         /\ Junkless' => /\ Junkless
                         /\ \E line \in SessionLog!Line : line.kind = kind /\ Behind' = SessionLog!ReadLine(line, Behind)
<1>1. nextSeq \in Nat /\ nextSeq' = nextSeq + 1 /\ Len(sessionLogLog) < MaxLines /\ Len(sessionLogLog) \in Nat
  BY LenProperties DEF LogPart, SessionLog!Write
<1>2. CASE Torn
  <2>1. sessionLogLog' = SessionLog!Front(sessionLogLog) \o <<[kind |-> "junk", id |-> 0, seq |-> 0]>>
    BY <1>2 DEF Torn, SessionLog!Write
  <2> QED
    BY <2>1, <1>1, <1>2, LineLost
<1>3. CASE ~Torn
  <2> DEFINE line == [kind |-> kind, id |-> id, seq |-> nextSeq']
  <2>1. sessionLogLog' = Append(sessionLogLog, line)
    BY <1>3 DEF Torn, SessionLog!Write
  <2>2. line \in SessionLog!Line /\ line.kind = kind /\ line.seq = nextSeq'
    BY <1>1 DEF SessionLog!Line
  <2> HIDE DEF line
  <2>3. /\ LogPart' /\ Behind' = SessionLog!ReadLine(line, Behind)
        /\ Junkless' => Junkless
        /\ WholeLines' = Len(sessionLogLog) + 1
    BY <1>1, <2>1, <2>2, LineAppended
  <2>4. WholeLines = Len(sessionLogLog)
    BY <1>1, <1>3 DEF WholeLines
  <2> QED
    BY <2>2, <2>3, <2>4
<1> QED
  BY <1>2, <1>3

\* What steps leave alone.
LEMMA LogKept ==
  ASSUME LogPart, UNCHANGED <<sessionLogLog, nextSeq>>
  PROVE  LogPart' /\ WholeLines' = WholeLines /\ Behind' = Behind /\ (Junkless' <=> Junkless)
<1>1. Behind' = Behind /\ (Junkless' <=> Junkless) /\ (Torn' <=> Torn)
  BY DEF Behind, Junkless, Torn
<1>2. WholeLines' = WholeLines
  BY <1>1 DEF WholeLines
<1>3. SessionLog!SequenceGrows'
  BY DEF LogPart, SessionLog!SequenceGrows
<1> QED
  BY <1>1, <1>2, <1>3 DEF LogPart

\* Steps that give out no number.
LEMMA IdsKept == IdPart /\ UNCHANGED <<nextID, replayed, spawned>> => IdPart'
BY DEF IdPart, SessionLog!NumbersAreFresh, SessionLog!Mentioned

\* No answer has more results than calls.
LEMMA DueTyped ==
  ASSUME NEW r \in Readers
  PROVE  Due(r) \in Int /\ (Paired(r) => Due(r) >= 0)
<1>1. Len(r.iter.order) \in Nat /\ r.iter.answered \in Nat
  BY ReaderFields
<1>2. Paired(r) => r.iter.answered <= Len(r.iter.order)
  BY DEF Paired
<1>3. Due(r) = Len(r.iter.order) - r.iter.answered
  BY DEF Due
<1> QED
  BY <1>1, <1>2, <1>3

\* An empty log.
LEMMA InitSession == SessionLog!Init => SessionInv
<1> SUFFICES ASSUME SessionLog!Init PROVE SessionInv
  OBVIOUS
<1>1. /\ sessionLogLog = <<>> /\ nextSeq = 0 /\ nextID = 0 /\ sessionLogPhase = "idle" /\ open = 0
      /\ replayed = <<>> /\ spawned = {} /\ said = 0 /\ crashes = 0
  BY DEF SessionLog!Init
<1>2. Len(sessionLogLog) = 0 /\ DOMAIN sessionLogLog = {} /\ sessionLogLog \in Seq(SessionLog!Line)
  BY <1>1
<1>3. Behind = SessionLog!Reader
  BY <1>1, ReadNone DEF Behind
<1>4. /\ Behind.msgs = <<>> /\ Behind.next = 0
      /\ Behind.iter.calls = {} /\ Behind.iter.order = <<>> /\ Behind.iter.answered = 0
      /\ Behind.iter.emitted = FALSE
  BY <1>3, FreshIs DEF SessionLog!Reader
<1>5. DOMAIN Behind.msgs = {} /\ DOMAIN Behind.iter.order = {} /\ Len(Behind.iter.order) = 0
  BY <1>4, FreshIs
<1>6. Bounded(Behind)
  BY <1>4, <1>5 DEF Bounded
<1>7. Paired(Behind)
  BY <1>4, <1>5 DEF Paired, Answers
<1>8. LogPart
  BY <1>1, <1>2, <1>4, <1>6, SessionNumbers DEF LogPart, SessionLog!SequenceGrows
<1>9. DOMAIN replayed = {} /\ replayed \in Seq(SessionLog!Message)
  BY <1>1
<1>10. IdPart
  BY <1>1, <1>9, SessionNumbers DEF IdPart, SessionLog!NumbersAreFresh
<1>11. OpenPart
  <2>1. ~Torn
    BY <1>1 DEF Torn
  <2>2. WholeLines = Len(sessionLogLog) - 0
    BY <2>1 DEF WholeLines
  <2>3. WholeLines = 0
    BY <2>2, <1>2
  <2> QED
    BY <1>1, <2>3, SessionNumbers DEF OpenPart
<1>12. DuePart
  <2>1. Answers(replayed)
    BY <1>9 DEF Answers
  <2>2. Due(Behind) = 0
    BY <1>4, <1>5 DEF Due
  <2> QED
    BY <1>1, <1>4, <1>7, <2>1, <2>2 DEF DuePart
<1> QED
  BY <1>8, <1>10, <1>11, <1>12 DEF SessionInv

\* The user's message starts a turn without calls.
LEMMA UserMessageKeeps == SessionInv /\ SessionLog!UserMessage => SessionInv'
<1> SUFFICES ASSUME SessionInv, SessionLog!UserMessage PROVE SessionInv'
  OBVIOUS
<1>1. /\ sessionLogPhase = "idle" /\ said < MaxUser /\ sessionLogPhase' = "stream" /\ said' = said + 1
      /\ UNCHANGED <<sessionLogLog, nextSeq, nextID, open, replayed, spawned, crashes>>
  BY DEF SessionLog!UserMessage
<1>2. LogPart' /\ WholeLines' = WholeLines /\ Behind' = Behind /\ (Junkless' <=> Junkless)
  BY <1>1, LogKept DEF SessionInv
<1>3. IdPart'
  BY <1>1, IdsKept DEF SessionInv
<1>4. OpenPart'
  BY <1>1, <1>2, SessionNumbers DEF SessionInv, OpenPart
<1>5. DuePart'
  <2> SUFFICES ASSUME Junkless' PROVE /\ Paired(Behind') /\ Answers(replayed')
                                      /\ open' <= Due(Behind') /\ open' = 0
    BY <1>1 DEF DuePart
  <2>1. Paired(Behind) /\ Answers(replayed) /\ open <= Due(Behind) /\ open = 0
    BY <1>1, <1>2 DEF SessionInv, DuePart, OpenPart
  <2> QED
    BY <2>1, <1>1, <1>2
<1> QED
  BY <1>2, <1>3, <1>4, <1>5 DEF SessionInv

\* Text behind an emitted message begins an answer without calls.
LEMMA TextKeeps == SessionInv /\ SessionLog!Text => SessionInv'
<1> SUFFICES ASSUME SessionInv, SessionLog!Text PROVE SessionInv'
  OBVIOUS
<1>1. /\ sessionLogPhase = "stream" /\ SessionLog!Write("text", 0)
      /\ UNCHANGED <<nextID, sessionLogPhase, open, replayed, spawned, said, crashes>>
  BY DEF SessionLog!Text
<1>2. /\ LogPart' /\ WholeLines' = WholeLines + 1
      /\ Junkless' => /\ Junkless
                      /\ \E line \in SessionLog!Line : line.kind = "text" /\ Behind' = SessionLog!ReadLine(line, Behind)
  BY <1>1, SessionNumbers, Written DEF SessionInv, SessionLog!Kinds
<1>3. IdPart'
  BY <1>1, IdsKept DEF SessionInv
<1>4. WholeLines \in Int /\ Behind \in Readers /\ open \in Nat
  BY LogTyped DEF SessionInv, LogPart, OpenPart
<1>5. OpenPart'
  BY <1>1, <1>2, <1>4 DEF SessionInv, OpenPart
<1>6. DuePart'
  <2> SUFFICES ASSUME Junkless' PROVE /\ Paired(Behind') /\ Answers(replayed')
                                      /\ open' <= Due(Behind') /\ (Behind'.iter.emitted => open' = 0)
    BY <1>1 DEF DuePart
  <2>1. /\ Junkless /\ Paired(Behind) /\ Answers(replayed) /\ open <= Due(Behind)
        /\ Behind.iter.emitted => open = 0
    BY <1>1, <1>2 DEF SessionInv, DuePart
  <2>2. PICK line \in SessionLog!Line : line.kind = "text" /\ Behind' = SessionLog!ReadLine(line, Behind)
    BY <1>2
  <2>3. /\ Paired(Behind') /\ ~Behind'.iter.emitted
        /\ Due(Behind') = IF Behind.iter.emitted THEN 0 ELSE Due(Behind)
    BY <2>1, <2>2, <1>4, LineRead DEF SessionInv, LogPart
  <2> QED
    BY <2>1, <2>3, <1>1, <1>4
<1> QED
  BY <1>2, <1>3, <1>5, <1>6 DEF SessionInv

\* A whom is one more that is due.
LEMMA ToolCallKeeps == SessionInv /\ SessionLog!ToolCall => SessionInv'
<1> SUFFICES ASSUME SessionInv, SessionLog!ToolCall PROVE SessionInv'
  OBVIOUS
<1>1. /\ sessionLogPhase = "stream" /\ SessionLog!Write("call", 0) /\ open' = open + 1
      /\ UNCHANGED <<nextID, sessionLogPhase, replayed, spawned, said, crashes>>
  BY DEF SessionLog!ToolCall
<1>2. /\ LogPart' /\ WholeLines' = WholeLines + 1
      /\ Junkless' => /\ Junkless
                      /\ \E line \in SessionLog!Line : line.kind = "call" /\ Behind' = SessionLog!ReadLine(line, Behind)
  BY <1>1, SessionNumbers, Written DEF SessionInv, SessionLog!Kinds
<1>3. IdPart'
  BY <1>1, IdsKept DEF SessionInv
<1>4. WholeLines \in Int /\ Behind \in Readers /\ open \in Nat
  BY LogTyped DEF SessionInv, LogPart, OpenPart
<1>5. OpenPart'
  BY <1>1, <1>2, <1>4 DEF SessionInv, OpenPart
<1>6. DuePart'
  <2> SUFFICES ASSUME Junkless' PROVE /\ Paired(Behind') /\ Answers(replayed')
                                      /\ open' <= Due(Behind') /\ ~Behind'.iter.emitted
    BY <1>1 DEF DuePart
  <2>1. /\ Junkless /\ Paired(Behind) /\ Answers(replayed) /\ open <= Due(Behind)
        /\ Behind.iter.emitted => open = 0
    BY <1>1, <1>2 DEF SessionInv, DuePart
  <2>2. PICK line \in SessionLog!Line : line.kind = "call" /\ Behind' = SessionLog!ReadLine(line, Behind)
    BY <1>2
  <2>3. /\ Paired(Behind') /\ ~Behind'.iter.emitted
        /\ Due(Behind') = (IF Behind.iter.emitted THEN 0 ELSE Due(Behind)) + 1
    BY <2>1, <2>2, <1>4, LineRead DEF SessionInv, LogPart
  <2>4. Due(Behind) \in Int
    BY <1>4, DueTyped
  <2>5. open' <= Due(Behind')
    BY <2>1, <2>3, <2>4, <1>1, <1>4
  <2> QED
    BY <2>1, <2>3, <2>5, <1>1
<1> QED
  BY <1>2, <1>3, <1>5, <1>6 DEF SessionInv

\* The calls of a broken answer stay due.
LEMMA StreamBreaksKeeps == SessionInv /\ SessionLog!StreamBreaks => SessionInv'
<1> SUFFICES ASSUME SessionInv, SessionLog!StreamBreaks PROVE SessionInv'
  OBVIOUS
<1>1. /\ sessionLogPhase = "stream" /\ open' = 0
      /\ UNCHANGED <<sessionLogLog, nextSeq, nextID, sessionLogPhase, replayed, spawned, said, crashes>>
  BY DEF SessionLog!StreamBreaks
<1>2. LogPart' /\ WholeLines' = WholeLines /\ Behind' = Behind /\ (Junkless' <=> Junkless)
  BY <1>1, LogKept DEF SessionInv
<1>3. IdPart'
  BY <1>1, IdsKept DEF SessionInv
<1>4. WholeLines \in Int /\ Behind \in Readers /\ open \in Nat
  BY LogTyped DEF SessionInv, LogPart, OpenPart
<1>5. OpenPart'
  BY <1>1, <1>2, <1>4 DEF SessionInv, OpenPart
<1>6. DuePart'
  <2> SUFFICES ASSUME Junkless' PROVE /\ Paired(Behind') /\ Answers(replayed')
                                      /\ open' <= Due(Behind') /\ open' = 0
    BY <1>1 DEF DuePart
  <2>1. Paired(Behind) /\ Answers(replayed)
    BY <1>2 DEF SessionInv, DuePart
  <2>2. Due(Behind) >= 0
    BY <2>1, <1>4, DueTyped
  <2> QED
    BY <2>1, <2>2, <1>1, <1>2
<1> QED
  BY <1>2, <1>3, <1>5, <1>6 DEF SessionInv

\* An answer without calls ends the turn.
LEMMA StreamEndsKeeps == SessionInv /\ SessionLog!StreamEnds => SessionInv'
<1> SUFFICES ASSUME SessionInv, SessionLog!StreamEnds PROVE SessionInv'
  OBVIOUS
<1>0. WholeLines \in Int /\ Behind \in Readers /\ open \in Nat
  BY LogTyped DEF SessionInv, LogPart, OpenPart
<1>1. /\ sessionLogPhase = "stream" /\ UNCHANGED <<nextID, open, replayed, spawned, said, crashes>>
  BY DEF SessionLog!StreamEnds
<1>2. IdPart'
  BY <1>1, IdsKept DEF SessionInv
<1>3. CASE open > 0
  <2>1. sessionLogPhase' = "tools" /\ UNCHANGED <<sessionLogLog, nextSeq>>
    BY <1>3 DEF SessionLog!StreamEnds
  <2>2. LogPart' /\ WholeLines' = WholeLines /\ Behind' = Behind /\ (Junkless' <=> Junkless)
    BY <2>1, LogKept DEF SessionInv
  <2>3. OpenPart'
    BY <1>0, <1>1, <1>3, <2>1, <2>2 DEF SessionInv, OpenPart
  <2>4. DuePart'
    BY <1>1, <2>1, <2>2 DEF SessionInv, DuePart
  <2> QED
    BY <1>2, <2>2, <2>3, <2>4 DEF SessionInv
<1>4. CASE ~(open > 0)
  <2>1. sessionLogPhase' = "idle" /\ SessionLog!Write("turnDone", 0) /\ open = 0
    BY <1>0, <1>4 DEF SessionLog!StreamEnds
  <2>2. /\ LogPart' /\ WholeLines' = WholeLines + 1
        /\ Junkless' => /\ Junkless
                        /\ \E line \in SessionLog!Line : line.kind = "turnDone" /\ Behind' = SessionLog!ReadLine(line, Behind)
    BY <2>1, SessionNumbers, Written DEF SessionInv, SessionLog!Kinds
  <2>3. OpenPart'
    BY <1>0, <1>1, <2>1, <2>2 DEF SessionInv, OpenPart
  <2>4. DuePart'
    <3> SUFFICES ASSUME Junkless' PROVE /\ Paired(Behind') /\ Answers(replayed') /\ open' <= Due(Behind')
      BY <2>1 DEF DuePart
    <3>1. Junkless /\ Paired(Behind) /\ Answers(replayed)
      BY <2>2 DEF SessionInv, DuePart
    <3>2. PICK line \in SessionLog!Line : line.kind = "turnDone" /\ Behind' = SessionLog!ReadLine(line, Behind)
      BY <2>2
    <3>3. Paired(Behind') /\ Due(Behind') = 0
      BY <3>1, <3>2, <1>0, LineRead DEF SessionInv, LogPart
    <3> QED
      BY <3>1, <3>3, <1>1, <2>1
  <2> QED
    BY <1>2, <2>2, <2>3, <2>4 DEF SessionInv
<1> QED
  BY <1>3, <1>4

\* A worker's number is above all that the master knows.
LEMMA SpawnKeeps ==
  ASSUME SessionInv, NEW after, SessionLog!Spawn(after),
         \/ sessionLogPhase = "tools" /\ after = "spawned"
         \/ sessionLogPhase \notin {"down", "spawned"} /\ after = sessionLogPhase
  PROVE  SessionInv'
<1>0. WholeLines \in Int /\ Behind \in Readers /\ open \in Nat /\ nextID \in 0..MaxIds
  BY LogTyped DEF SessionInv, LogPart, OpenPart, IdPart
<1>1. /\ nextID < MaxIds /\ nextID' = nextID + 1 /\ SessionLog!Write("spawn", nextID')
      /\ spawned' = spawned \cup {nextID'} /\ sessionLogPhase' = after
      /\ UNCHANGED <<open, replayed, said, crashes>>
  BY DEF SessionLog!Spawn
<1>2. nextID' \in 0..MaxIds /\ nextID' \in 1..MaxIds
  BY <1>0, <1>1, SessionNumbers
<1>3. /\ LogPart' /\ WholeLines' = WholeLines + 1
      /\ Junkless' => /\ Junkless
                      /\ \E line \in SessionLog!Line : line.kind = "spawn" /\ Behind' = SessionLog!ReadLine(line, Behind)
  BY <1>1, <1>2, Written DEF SessionInv, SessionLog!Kinds
<1>4. IdPart'
  <2>1. replayed \in Seq(SessionLog!Message) /\ \A i \in DOMAIN replayed : replayed[i].id <= nextID /\ replayed[i].id \in 0..MaxIds
    <3>1. replayed \in Seq(SessionLog!Message) /\ \A i \in DOMAIN replayed : replayed[i].id <= nextID
      BY DEF SessionInv, IdPart
    <3>2. \A i \in DOMAIN replayed : replayed[i] \in SessionLog!Message
      BY <3>1, LenProperties, ElementOfSeq
    <3> QED
      BY <3>1, <3>2 DEF SessionLog!Message
  <2>2. \A i \in DOMAIN replayed' : replayed'[i].id <= nextID' /\ replayed'[i].id # nextID'
    BY <2>1, <1>0, <1>1
  <2>3. nextID' \notin SessionLog!Mentioned(replayed')
    BY <2>2 DEF SessionLog!Mentioned
  <2>4. spawned \cap SessionLog!Mentioned(replayed) = {} /\ spawned \subseteq 1..MaxIds
    BY DEF SessionInv, IdPart, SessionLog!NumbersAreFresh
  <2>5. SessionLog!NumbersAreFresh'
    BY <2>3, <2>4, <1>1 DEF SessionLog!NumbersAreFresh
  <2> QED
    BY <1>1, <1>2, <2>1, <2>2, <2>4, <2>5 DEF IdPart
<1>5. OpenPart'
  BY <1>0, <1>1, <1>3 DEF SessionInv, OpenPart
<1>6. DuePart'
  <2> SUFFICES ASSUME Junkless' PROVE /\ Paired(Behind') /\ Answers(replayed')
                                      /\ open' <= Due(Behind')
                                      /\ sessionLogPhase' = "stream" /\ Behind'.iter.emitted => open' = 0
    BY DEF DuePart
  <2>1. /\ Junkless /\ Paired(Behind) /\ Answers(replayed) /\ open <= Due(Behind)
        /\ sessionLogPhase = "stream" /\ Behind.iter.emitted => open = 0
    BY <1>3 DEF SessionInv, DuePart
  <2>2. PICK line \in SessionLog!Line : line.kind = "spawn" /\ Behind' = SessionLog!ReadLine(line, Behind)
    BY <1>3
  <2>3. Behind' = Behind
    BY <2>2, <1>0, LineRead DEF SessionInv, LogPart
  <2> QED
    BY <2>1, <2>3, <1>1
<1> QED
  BY <1>3, <1>4, <1>5, <1>6 DEF SessionInv

\* The result answers the first whom that is due, of which there is one.
LEMMA ToolDoneKeeps == SessionInv /\ SessionLog!ToolDone => SessionInv'
<1> SUFFICES ASSUME SessionInv, SessionLog!ToolDone PROVE SessionInv'
  OBVIOUS
<1>0. WholeLines \in Int /\ Behind \in Readers /\ open \in Nat /\ nextID \in 0..MaxIds
  BY LogTyped DEF SessionInv, LogPart, OpenPart, IdPart
<1>1. /\ sessionLogPhase \in {"tools", "spawned"}
      /\ SessionLog!Write("done", IF sessionLogPhase = "spawned" THEN nextID ELSE 0)
      /\ open' = open - 1 /\ sessionLogPhase' = IF open = 1 THEN "stream" ELSE "tools"
      /\ UNCHANGED <<nextID, replayed, spawned, said, crashes>>
  BY DEF SessionLog!ToolDone
<1>2. (IF sessionLogPhase = "spawned" THEN nextID ELSE 0) \in 0..MaxIds
  BY <1>0, SessionNumbers
<1>3. /\ LogPart' /\ WholeLines' = WholeLines + 1
      /\ Junkless' => /\ Junkless
                      /\ \E line \in SessionLog!Line : line.kind = "done" /\ Behind' = SessionLog!ReadLine(line, Behind)
  BY <1>1, <1>2, Written DEF SessionInv, SessionLog!Kinds
<1>4. IdPart'
  BY <1>1, IdsKept DEF SessionInv
<1>5. open >= 1
  BY <1>1 DEF SessionInv, OpenPart
<1>6. OpenPart'
  BY <1>0, <1>1, <1>3, <1>5 DEF SessionInv, OpenPart
<1>7. DuePart'
  <2> SUFFICES ASSUME Junkless' PROVE /\ Paired(Behind') /\ Answers(replayed')
                                      /\ open' <= Due(Behind') /\ (sessionLogPhase' = "stream" => open' = 0)
    BY DEF DuePart
  <2>1. Junkless /\ Paired(Behind) /\ Answers(replayed) /\ open <= Due(Behind)
    BY <1>1, <1>3 DEF SessionInv, DuePart
  <2>2. PICK line \in SessionLog!Line : line.kind = "done" /\ Behind' = SessionLog!ReadLine(line, Behind)
    BY <1>3
  <2>3. Due(Behind) \in Int
    BY <1>0, DueTyped
  <2>4. Due(Behind) >= 1
    BY <2>1, <2>3, <1>0, <1>5
  <2>5. Paired(Behind') /\ Due(Behind') = Due(Behind) - 1
    BY <2>1, <2>2, <2>4, <1>0, LineRead DEF SessionInv, LogPart
  <2>6. open' <= Due(Behind')
    BY <2>1, <2>3, <2>5, <1>0, <1>1
  <2>7. sessionLogPhase' = "stream" => open' = 0
    BY <1>0, <1>1
  <2> QED
    BY <2>1, <2>5, <2>6, <2>7, <1>1
<1> QED
  BY <1>3, <1>4, <1>6, <1>7 DEF SessionInv

\* A torn line is not read.
LEMMA CrashKeeps == SessionInv /\ SessionLog!Crash => SessionInv'
<1> SUFFICES ASSUME SessionInv, SessionLog!Crash PROVE SessionInv'
  OBVIOUS
<1>0. /\ WholeLines \in Int /\ WholeLines <= Len(sessionLogLog) /\ Behind \in Readers /\ open \in Nat
      /\ Len(sessionLogLog) \in Nat /\ nextSeq \in Nat /\ sessionLogLog \in Seq(SessionLog!Line)
  BY LogTyped DEF SessionInv, LogPart, OpenPart
<1>1. /\ sessionLogPhase' = "down" /\ crashes < MaxCrashes /\ crashes' = crashes + 1
      /\ UNCHANGED <<nextSeq, nextID, open, replayed, spawned, said>>
  BY DEF SessionLog!Crash
<1>2. IdPart'
  BY <1>1, IdsKept DEF SessionInv
<1>3. /\ LogPart' /\ WholeLines' \in Int /\ WholeLines' >= WholeLines
      /\ Behind' = Behind /\ (Junkless' => Junkless)
  <2>1. CASE UNCHANGED sessionLogLog
    BY <2>1, <1>0, <1>1, LogKept DEF SessionInv
  <2>2. CASE /\ Len(sessionLogLog) < MaxLines
             /\ sessionLogLog' = Append(sessionLogLog, [kind |-> "torn", id |-> 0, seq |-> 0])
    <3> DEFINE line == [kind |-> "torn", id |-> 0, seq |-> 0]
    <3>1. line \in SessionLog!Line /\ line.kind = "torn" /\ line.seq = 0
      BY SessionNumbers DEF SessionLog!Line, SessionLog!Kinds
    <3>2. sessionLogLog' = Append(sessionLogLog, line)
      BY <2>2
    <3> HIDE DEF line
    <3>3. /\ LogPart' /\ Behind' = SessionLog!ReadLine(line, Behind) /\ (Junkless' => Junkless)
          /\ WholeLines' = Len(sessionLogLog) + 0
      BY <1>0, <1>1, <2>2, <3>1, <3>2, LineAppended DEF SessionInv
    <3>4. Behind' = Behind
      BY <3>1, <3>3, <1>0, LineRead DEF SessionInv, LogPart
    <3> QED
      BY <3>3, <3>4, <1>0
  <2> QED
    BY <2>1, <2>2 DEF SessionLog!Crash
<1>4. OpenPart'
  <2>1. open <= WholeLines /\ said \in 0..MaxUser /\ crashes \in 0..MaxCrashes
    BY DEF SessionInv, OpenPart
  <2>2. open' <= WholeLines' /\ crashes' \in 0..MaxCrashes
    BY <2>1, <1>0, <1>1, <1>3, SessionNumbers
  <2> QED
    BY <2>1, <2>2, <1>0, <1>1 DEF OpenPart
<1>5. DuePart'
  BY <1>1, <1>3 DEF SessionInv, DuePart
<1> QED
  BY <1>2, <1>3, <1>4, <1>5 DEF SessionInv

\* The highest of some numbers up to MaxIds.
LEMMA HighestId ==
  ASSUME NEW S, S \subseteq 0..MaxIds, 0 \in S
  PROVE  SessionLog!Max(S) \in 0..MaxIds /\ \A m \in S : m <= SessionLog!Max(S)
BY SessionNumbers, SessionHighest

\* The master's history is the reader's messages: it has none of the user.
LEMMA HistoryIs ==
  ASSUME LogPart
  PROVE  /\ SessionLog!LoadHistory = SessionLog!EmitAssistant(Behind).msgs
         /\ SessionLog!LoadHistory \in Seq(SessionLog!Message) /\ Bounded(SessionLog!EmitAssistant(Behind))
<1> DEFINE q == SessionLog!EmitAssistant(Behind)
           h == q.msgs
           users == {i \in DOMAIN h : h[i].role = "user"}
<1>1. Behind \in Readers /\ Bounded(Behind) /\ Len(sessionLogLog) \in Nat
  BY LogTyped DEF LogPart
<1>2. q \in Readers /\ q.next = Behind.next /\ Bounded(q)
  BY <1>1, Emitted, EmittedPaired
<1>3. h \in Seq(Replayables) /\ DOMAIN h = 1..Len(h) /\ q.next \in Nat
  BY <1>2, ReaderFields
<1> HIDE DEF q
<1>4. \A i \in DOMAIN h : h[i] \in Replayables
  BY <1>3, ElementOfSeq
<1>5. users = {}
  BY <1>4 DEF Replayables
<1>6. SessionLog!Cardinality(users) = 0
  BY <1>5, SessionSizes, FS_EmptySet
<1>7. SessionLog!LoadHistory = SessionLog!CompactReplay(h)
  BY DEF SessionLog!LoadHistory, Behind, q
<1>8. SessionLog!CompactReplay(h) = h
  <2>1. SessionLog!Cardinality(users) <= KeepUser
    BY <1>6, SessionNumbers
  <2> HIDE DEF h
  <2> QED
    BY <2>1 DEF SessionLog!CompactReplay
<1>9. q.next <= MaxLines
  BY <1>1, <1>2, <1>3, SessionNumbers DEF LogPart
<1>10. \A i \in DOMAIN h : h[i] \in SessionLog!Message
  <2> TAKE i \in DOMAIN h
  <2>1. h[i].calls \subseteq 1..q.next /\ h[i].of \in 0..q.next
    BY <1>2 DEF Bounded
  <2>2. 1..q.next \subseteq 1..MaxLines /\ 0..q.next \subseteq 0..MaxLines
    BY <1>3, <1>9, SessionNumbers
  <2>3. h[i].calls \subseteq 1..MaxLines /\ h[i].of \in 0..MaxLines
    BY <2>1, <2>2
  <2>4. h[i] \in Replayables
    BY <1>4
  <2> HIDE DEF h
  <2> QED
    BY <2>3, <2>4 DEF SessionLog!Message, Replayables
<1>11. h \in Seq(SessionLog!Message)
  <2> HIDE DEF h
  <2>1. Len(h) \in Nat /\ h = [i \in 1..Len(h) |-> h[i]]
    BY <1>3, LenProperties
  <2> QED
    BY <2>1, <1>3, <1>10, SeqDef
<1> QED
  BY <1>2, <1>7, <1>8, <1>11 DEF q

\* The next worker's number is behind those of the log and of the history.
LEMMA ResumeKeeps == SessionInv /\ SessionLog!Resume => SessionInv'
<1> SUFFICES ASSUME SessionInv, SessionLog!Resume PROVE SessionInv'
  OBVIOUS
<1>0. /\ Behind \in Readers /\ sessionLogLog \in Seq(SessionLog!Line) /\ open \in Nat /\ WholeLines \in Int
      /\ Len(sessionLogLog) \in Nat /\ \A k \in DOMAIN sessionLogLog : sessionLogLog[k].id \in 0..MaxIds
  BY LogTyped DEF SessionInv, LogPart, OpenPart
<1>1. /\ sessionLogPhase' = "idle" /\ open' = 0 /\ spawned' = {} /\ replayed' = SessionLog!LoadHistory
      /\ nextID' = SessionLog!NextSubagentID(replayed') /\ nextSeq' = SessionLog!DetectNextSequence
      /\ UNCHANGED <<sessionLogLog, said, crashes>>
  BY DEF SessionLog!Resume
<1>2. SessionLog!LoadHistory = SessionLog!EmitAssistant(Behind).msgs /\ SessionLog!LoadHistory \in Seq(SessionLog!Message)
  BY HistoryIs DEF SessionInv
<1>3. Behind' = Behind /\ (Junkless' <=> Junkless) /\ WholeLines' = WholeLines
  BY <1>1 DEF Behind, Junkless, WholeLines, Torn
<1>4. LogPart'
  <2>1. nextSeq' \in Nat /\ \A k \in DOMAIN sessionLogLog : sessionLogLog[k].seq <= nextSeq'
    BY <1>0, <1>1, NextIsHighest
  <2>2. SessionLog!SequenceGrows'
    BY <1>1 DEF SessionInv, LogPart, SessionLog!SequenceGrows
  <2> QED
    BY <2>1, <2>2, <1>1, <1>3 DEF SessionInv, LogPart
<1>5. IdPart'
  <2> DEFINE S == {0} \cup SessionLog!WorkerIds \cup SessionLog!Mentioned(replayed')
  <2>1. \A i \in DOMAIN replayed' : replayed'[i].id \in 0..MaxIds
    <3>1. \A i \in DOMAIN replayed' : replayed'[i] \in SessionLog!Message
      BY <1>1, <1>2, LenProperties, ElementOfSeq
    <3> QED
      BY <3>1 DEF SessionLog!Message
  <2>2. S \subseteq 0..MaxIds /\ 0 \in S
    BY <2>1, <1>0, SessionNumbers DEF SessionLog!WorkerIds, SessionLog!Mentioned
  <2>3. nextID' = SessionLog!Max(S)
    BY <1>1 DEF SessionLog!NextSubagentID
  <2>4. \A i \in DOMAIN replayed' : replayed'[i].id \in S
    BY DEF SessionLog!Mentioned
  <2> HIDE DEF S
  <2>5. nextID' \in 0..MaxIds /\ \A m \in S : m <= nextID'
    BY <2>2, <2>3, HighestId
  <2>6. \A i \in DOMAIN replayed' : replayed'[i].id <= nextID'
    BY <2>4, <2>5
  <2>7. SessionLog!NumbersAreFresh'
    BY <1>1 DEF SessionLog!NumbersAreFresh
  <2> QED
    BY <1>1, <1>2, <2>5, <2>6, <2>7 DEF IdPart
<1>6. OpenPart'
  <2>1. open <= WholeLines /\ said \in 0..MaxUser /\ crashes \in 0..MaxCrashes
    BY DEF SessionInv, OpenPart
  <2>2. open' <= WholeLines'
    BY <2>1, <1>0, <1>1, <1>3
  <2> QED
    BY <2>1, <2>2, <1>1 DEF OpenPart
<1>7. DuePart'
  <2> SUFFICES ASSUME Junkless' PROVE Paired(Behind') /\ Answers(replayed') /\ open' <= Due(Behind') /\ open' = 0
    BY DEF DuePart
  <2>1. Paired(Behind) /\ Bounded(Behind)
    BY <1>3 DEF SessionInv, LogPart, DuePart
  <2>2. Paired(SessionLog!EmitAssistant(Behind)) /\ Due(Behind) >= 0
    BY <2>1, <1>0, EmittedPaired, DueTyped
  <2>3. Answers(SessionLog!EmitAssistant(Behind).msgs)
    BY <2>2 DEF Paired
  <2> QED
    BY <2>1, <2>2, <2>3, <1>1, <1>2, <1>3
<1> QED
  BY <1>4, <1>5, <1>6, <1>7 DEF SessionInv

\* Every step of the session keeps its invariant.
LEMMA SessionStep == SessionInv /\ [SessionLog!Next]_SessionLog!vars => SessionInv'
<1> SUFFICES ASSUME SessionInv, [SessionLog!Next]_SessionLog!vars PROVE SessionInv'
  OBVIOUS
<1>1. CASE SessionLog!MasterSpawns
  BY <1>1, SpawnKeeps DEF SessionLog!MasterSpawns
<1>2. CASE SessionLog!SearchSpawns
  BY <1>2, SpawnKeeps DEF SessionLog!SearchSpawns
<1>3. CASE UNCHANGED SessionLog!vars
  <2>1. UNCHANGED <<sessionLogLog, nextSeq>> /\ UNCHANGED <<nextID, replayed, spawned>>
        /\ UNCHANGED <<sessionLogPhase, open, said, crashes>>
    BY <1>3 DEF SessionLog!vars
  <2>2. LogPart' /\ WholeLines' = WholeLines /\ Behind' = Behind /\ (Junkless' <=> Junkless)
    BY <2>1, LogKept DEF SessionInv
  <2>3. IdPart'
    BY <2>1, IdsKept DEF SessionInv
  <2>4. OpenPart' /\ DuePart'
    BY <2>1, <2>2 DEF SessionInv, OpenPart, DuePart
  <2> QED
    BY <2>2, <2>3, <2>4 DEF SessionInv
<1> QED
  BY <1>1, <1>2, <1>3, UserMessageKeeps, TextKeeps, ToolCallKeeps, StreamBreaksKeeps, StreamEndsKeeps,
     ToolDoneKeeps, CrashKeeps, ResumeKeeps DEF SessionLog!Next, SessionLog!Turn

\* What the invariant says of the session log.
LEMMA SessionTold == SessionInv => SessionLog!TypeOK /\ SessionLog!ResultsHaveCalls /\ SessionLog!NumbersAreFresh /\ SessionLog!SequenceGrows
<1> SUFFICES ASSUME SessionInv PROVE SessionLog!TypeOK /\ SessionLog!ResultsHaveCalls /\ SessionLog!NumbersAreFresh /\ SessionLog!SequenceGrows
  OBVIOUS
<1>1. SessionLog!NumbersAreFresh /\ SessionLog!SequenceGrows
  BY DEF SessionInv, LogPart, IdPart
<1>2. SessionLog!ResultsHaveCalls
  BY DEF SessionInv, DuePart, Junkless, Answers, SessionLog!ResultsHaveCalls
<1>3. open \in 0..MaxLines
  <2>1. /\ open \in Nat /\ open <= WholeLines /\ Len(sessionLogLog) <= MaxLines
        /\ WholeLines \in Int /\ WholeLines <= Len(sessionLogLog) /\ Len(sessionLogLog) \in Nat
    BY LogTyped DEF SessionInv, LogPart, OpenPart
  <2> QED
    BY <2>1, SessionNumbers
<1>4. SessionLog!TypeOK
  BY <1>3 DEF SessionInv, LogPart, IdPart, OpenPart, SessionLog!TypeOK
<1> QED
  BY <1>1, <1>2, <1>4

-----------------------------------------------------------------------------
(* Restore. *)

\* What Restore asks of its constants.
LEMMA RestoreBounds == Restore!RestoreConstants
BY MCRequestsConstants

\* The greatest of a nonempty set of numbers up to n.
LEMMA RestoreHighest ==
  ASSUME NEW n \in Nat, NEW S, S \subseteq 0..n, S # {}
  PROVE  Restore!Max(S) \in S /\ \A m \in S : m <= Restore!Max(S)
BY Highest DEF Restore!Max

\* What may be said of an id, and what it may be.
KindsOf(i) == IF i.type = "s" THEN Restore!WorkerKinds ELSE Restore!ShellKinds
StatusesOf(i) ==
  IF i.type = "s" THEN {"none", "new", "running", "paused", "done", "error"}
  ELSE {"none", "open", "closed", "gone"}

Lines == [id : Restore!Ids, kind : Restore!WorkerKinds \cup Restore!ShellKinds, run : 1..MaxRuns]
Results == {"none", "done", "error", "cancelled", "exited", "closed"}

\* The id i belongs to this run: its number was given out, and the log has nothing of an
\* earlier run under it.
Mine(i) == i.nr <= restoreNext[i.type] /\ \A k \in Restore!Said(i) : restoreLog[k].run = run

\* What was restored is of earlier runs, and a worker has the end that the log has last.
RestoredAs(i) ==
  /\ Restore!Said(i) # {} /\ \A k \in Restore!Said(i) : restoreLog[k].run < run
  /\ i.type = "s" => /\ Restore!LastWord(i) = "done" <=> restored[i] = "done"
                     /\ Restore!LastWord(i) = "error" => restored[i] = "error"

LogTypes ==
  /\ restoreLog \in Seq(Lines) /\ restorePhase \in {"down", "starting", "up"} /\ run \in 1..MaxRuns
  /\ restoreNext \in [Restore!Types -> Nat] /\ \A t \in Restore!Types : restoreNext[t] <= Restore!Most[t]
  /\ restored \in [Restore!Ids -> Results]

LogInv ==
  /\ LogTypes
  /\ \A k \in DOMAIN restoreLog : /\ restoreLog[k].kind \in KindsOf(restoreLog[k].id) /\ restoreLog[k].run <= run
                                  /\ restoreLog[k].id.nr <= restoreNext[restoreLog[k].id.type]
  /\ Restore!NamesAreOfOneRun
  /\ restorePhase # "down" => \A i \in Restore!Ids : restored[i] # "none" => RestoredAs(i)

LiveInv ==
  /\ live \in [Restore!Ids -> {"none", "new", "running", "paused", "done", "error", "open", "closed", "gone"}]
  /\ \A i \in Restore!Ids : live[i] \in StatusesOf(i) /\ (live[i] # "none" => Mine(i))
  /\ saying \subseteq [id : Restore!Ids, kind : Restore!WorkerKinds \cup Restore!ShellKinds]
  /\ \A e \in saying : e.kind \in KindsOf(e.id) /\ Mine(e.id)
  /\ restorePhase = "down" => live = Restore!Nothing /\ saying = {}

RestoreInv == LogInv /\ LiveInv

\* Ids are a type and a number up to what the session has of it.
LEMMA IdTypes ==
  /\ MaxWorkers \in Nat \ {0} /\ MaxShells \in Nat \ {0} /\ MaxLogged \in Nat \ {0} /\ MaxRuns \in Nat \ {0}
  /\ Restore!Most["s"] = MaxWorkers /\ Restore!Most["sh"] = MaxShells
  /\ \A i \in Restore!Ids : i.type \in Restore!Types /\ i.nr \in 1..Restore!Most[i.type] /\ i.nr \in Nat
  /\ \A i \in Restore!Ids : i = [type |-> i.type, nr |-> i.nr]
  /\ \A t \in Restore!Types : \A n \in 1..Restore!Most[t] : [type |-> t, nr |-> n] \in Restore!Ids
<1>1. MaxWorkers \in Nat \ {0} /\ MaxShells \in Nat \ {0} /\ MaxLogged \in Nat \ {0} /\ MaxRuns \in Nat \ {0}
  BY RestoreBounds DEF Restore!RestoreConstants
<1>2. Restore!Most["s"] = MaxWorkers /\ Restore!Most["sh"] = MaxShells
  BY DEF Restore!Most
<1>3. \A i \in Restore!Ids : \E t \in Restore!Types : i \in [type : {t}, nr : 1..Restore!Most[t]]
  BY DEF Restore!Ids
<1>4. \A i \in Restore!Ids : i.type \in Restore!Types /\ i.nr \in 1..Restore!Most[i.type] /\ i = [type |-> i.type, nr |-> i.nr]
  BY <1>3
<1>5. \A t \in Restore!Types : Restore!Most[t] \in Nat
  BY <1>1, <1>2 DEF Restore!Types
<1>6. \A i \in Restore!Ids : i.nr \in Nat
  BY <1>4, <1>5
<1>7. \A t \in Restore!Types : \A n \in 1..Restore!Most[t] : [type |-> t, nr |-> n] \in Restore!Ids
  BY DEF Restore!Ids
<1> QED
  BY <1>1, <1>2, <1>4, <1>6, <1>7

\* A line appended leaves the others where they are.
LEMMA LogAppended ==
  ASSUME restoreLog \in Seq(Lines), NEW line \in Lines, restoreLog' = Append(restoreLog, line)
  PROVE  /\ restoreLog' \in Seq(Lines) /\ Len(restoreLog) \in Nat /\ DOMAIN restoreLog = 1..Len(restoreLog) /\ DOMAIN restoreLog' = 1..(Len(restoreLog) + 1)
         /\ \A k \in DOMAIN restoreLog : k \in DOMAIN restoreLog' /\ restoreLog'[k] = restoreLog[k]
         /\ restoreLog'[Len(restoreLog) + 1] = line
         /\ \A k \in DOMAIN restoreLog' : k \in DOMAIN restoreLog \/ k = Len(restoreLog) + 1
         /\ Len(restoreLog) + 1 \notin DOMAIN restoreLog
         /\ \A i : i # line.id => Restore!Said(i)' = Restore!Said(i)
         /\ \A i : Restore!Said(i)' \subseteq Restore!Said(i) \cup {Len(restoreLog) + 1}
         /\ \A i : Restore!Said(i) \subseteq DOMAIN restoreLog
<1>1. /\ restoreLog' \in Seq(Lines) /\ Len(restoreLog') = Len(restoreLog) + 1 /\ Len(restoreLog) \in Nat
      /\ DOMAIN restoreLog = 1..Len(restoreLog) /\ DOMAIN restoreLog' = 1..Len(restoreLog')
  BY AppendProperties, LenProperties
<1>2. /\ \A k \in 1..Len(restoreLog) : restoreLog'[k] = restoreLog[k]
      /\ restoreLog'[Len(restoreLog) + 1] = line
  BY AppendProperties
<1>3. /\ \A k \in DOMAIN restoreLog : k \in DOMAIN restoreLog' /\ restoreLog'[k] = restoreLog[k]
      /\ \A k \in DOMAIN restoreLog' : k \in DOMAIN restoreLog \/ k = Len(restoreLog) + 1
      /\ Len(restoreLog) + 1 \notin DOMAIN restoreLog
  BY <1>1, <1>2
<1>4. ASSUME NEW i, i # line.id PROVE Restore!Said(i)' = Restore!Said(i)
  BY <1>2, <1>3, <1>4 DEF Restore!Said
<1>5. ASSUME NEW i PROVE Restore!Said(i)' \subseteq Restore!Said(i) \cup {Len(restoreLog) + 1} /\ Restore!Said(i) \subseteq DOMAIN restoreLog
  BY <1>2, <1>3 DEF Restore!Said
<1> QED
  BY <1>1, <1>2, <1>3, <1>4, <1>5

\* A line of this run keeps what is known of the log, and of who belongs to this run.
LEMMA LoggedStep ==
  ASSUME LogInv, NEW i \in Restore!Ids, NEW kind \in KindsOf(i), Mine(i), Restore!Published(i, kind),
         UNCHANGED <<restorePhase, run, restoreNext, restored>>
  PROVE  LogInv' /\ \A j \in Restore!Ids : Mine(j) => Mine(j)'
<1>1. CASE restorePhase # "up"
  <2>1. restoreLog' = restoreLog
    BY <1>1 DEF Restore!Published
  <2>2. \A j : Restore!Said(j)' = Restore!Said(j) /\ Restore!LastWord(j)' = Restore!LastWord(j)
    BY <2>1 DEF Restore!Said, Restore!LastWord
  <2>3. \A j \in Restore!Ids : RestoredAs(j) => RestoredAs(j)'
    BY <2>1, <2>2 DEF RestoredAs
  <2>4. Restore!NamesAreOfOneRun'
    BY <2>1 DEF Restore!NamesAreOfOneRun, LogInv
  <2>5. LogTypes'
    BY <2>1 DEF LogTypes, LogInv
  <2>6. LogInv'
    BY <2>1, <2>3, <2>4, <2>5 DEF LogInv
  <2> QED
    BY <2>1, <2>2, <2>6 DEF Mine
<1>2. CASE restorePhase = "up"
  <2> DEFINE line == [id |-> i, kind |-> kind, run |-> run]
  <2>1. restoreLog' = Append(restoreLog, line)
    BY <1>2 DEF Restore!Published
  <2>2. line \in Lines
    BY DEF Lines, LogInv, LogTypes, KindsOf
  <2>3. line.id = i /\ line.kind = kind /\ line.run = run
    OBVIOUS
  <2> HIDE DEF line
  <2>4. restoreLog \in Seq(Lines)
    BY DEF LogInv, LogTypes
  <2>5. /\ restoreLog' \in Seq(Lines) /\ Len(restoreLog) \in Nat
        /\ \A k \in DOMAIN restoreLog : k \in DOMAIN restoreLog' /\ restoreLog'[k] = restoreLog[k]
        /\ restoreLog'[Len(restoreLog) + 1] = line
        /\ \A k \in DOMAIN restoreLog' : k \in DOMAIN restoreLog \/ k = Len(restoreLog) + 1
        /\ Len(restoreLog) + 1 \notin DOMAIN restoreLog
        /\ \A j : j # i => Restore!Said(j)' = Restore!Said(j)
        /\ \A j : Restore!Said(j)' \subseteq Restore!Said(j) \cup {Len(restoreLog) + 1}
        /\ \A j : Restore!Said(j) \subseteq DOMAIN restoreLog
    BY <2>1, <2>2, <2>3, <2>4, LogAppended
  <2>6. LogTypes'
    BY <2>5 DEF LogInv, LogTypes
  <2>7. ASSUME NEW k \in DOMAIN restoreLog'
        PROVE  /\ restoreLog'[k].kind \in KindsOf(restoreLog'[k].id) /\ restoreLog'[k].run <= run'
               /\ restoreLog'[k].id.nr <= restoreNext'[restoreLog'[k].id.type]
    <3>1. CASE k \in DOMAIN restoreLog
      BY <3>1, <2>5 DEF LogInv
    <3>2. CASE k = Len(restoreLog) + 1
      BY <3>2, <2>5, <2>3 DEF Mine, LogInv, LogTypes
    <3> QED
      BY <3>1, <3>2, <2>5
  <2>8. ASSUME NEW j \in Restore!Ids, Mine(j) PROVE Mine(j)'
    <3> SUFFICES ASSUME NEW k \in Restore!Said(j)' PROVE restoreLog'[k].run = run'
      BY <2>8 DEF Mine
    <3>1. CASE k \in Restore!Said(j)
      BY <3>1, <2>5, <2>8 DEF Mine
    <3>2. CASE k = Len(restoreLog) + 1
      BY <3>2, <2>5, <2>3
    <3> QED
      BY <3>1, <3>2, <2>5
  <2>9. Restore!NamesAreOfOneRun'
    <3> SUFFICES ASSUME NEW j \in DOMAIN restoreLog', NEW k \in DOMAIN restoreLog', restoreLog'[j].id = restoreLog'[k].id
                 PROVE  restoreLog'[j].run = restoreLog'[k].run
      BY DEF Restore!NamesAreOfOneRun
    <3>1. CASE j \in DOMAIN restoreLog /\ k \in DOMAIN restoreLog
      BY <3>1, <2>5 DEF LogInv, Restore!NamesAreOfOneRun
    <3>2. \A m \in DOMAIN restoreLog' : restoreLog'[m].id = i => restoreLog'[m].run = run'
      <4> SUFFICES ASSUME NEW m \in DOMAIN restoreLog', restoreLog'[m].id = i PROVE restoreLog'[m].run = run'
        OBVIOUS
      <4>1. m \in Restore!Said(i)'
        BY DEF Restore!Said
      <4> QED
        BY <4>1, <2>8 DEF Mine
    <3>3. CASE ~(j \in DOMAIN restoreLog /\ k \in DOMAIN restoreLog)
      BY <3>2, <3>3, <2>5, <2>3
    <3> QED
      BY <3>1, <3>3
  <2>10. ASSUME NEW j \in Restore!Ids, RestoredAs(j) PROVE RestoredAs(j)'
    <3>1. j # i
      <4>1. \A k \in Restore!Said(i) : restoreLog[k].run = run
        BY DEF Mine
      <4>2. run \in Nat
        BY IdTypes DEF LogInv, LogTypes
      <4> QED
        BY <4>1, <4>2, <2>10 DEF RestoredAs
    <3>2. Restore!Said(j)' = Restore!Said(j) /\ \A k \in Restore!Said(j) : restoreLog'[k] = restoreLog[k]
      BY <3>1, <2>5
    <3>3. Restore!Said(j) # {} /\ Restore!Said(j) \subseteq DOMAIN restoreLog
      BY <2>10, <2>5 DEF RestoredAs
    <3>4. Restore!Max(Restore!Said(j)) \in Restore!Said(j)
      BY <3>3, <2>4, LenProperties, RestoreHighest
    <3>5. Restore!LastWord(j)' = Restore!LastWord(j)
      BY <3>2, <3>4 DEF Restore!LastWord
    <3> QED
      BY <3>2, <3>5, <2>10 DEF RestoredAs
  <2>11. LogInv'
    BY <2>6, <2>7, <2>9, <2>10 DEF LogInv
  <2> QED
    BY <2>8, <2>11
<1> QED
  BY <1>1, <1>2

Statuses == {"none", "new", "running", "paused", "done", "error", "open", "closed", "gone"}
Events == [id : Restore!Ids, kind : Restore!WorkerKinds \cup Restore!ShellKinds]

\* Who belongs to this run may get a status, and an event to be published.
LEMMA LiveStep ==
  ASSUME LiveInv, restorePhase # "down", restorePhase' = restorePhase, \A j \in Restore!Ids : Mine(j) => Mine(j)',
         NEW i \in Restore!Ids, Mine(i)', NEW status \in StatusesOf(i), live' = [live EXCEPT ![i] = status],
         \A e \in saying' \ saying : e \in Events /\ e.id = i /\ e.kind \in KindsOf(i)
  PROVE  LiveInv'
<1>1. status \in Statuses
  BY DEF Statuses, StatusesOf
<1>2. live' \in [Restore!Ids -> Statuses]
  BY <1>1 DEF LiveInv, Statuses
<1>3. ASSUME NEW j \in Restore!Ids PROVE live'[j] \in StatusesOf(j) /\ (live'[j] # "none" => Mine(j)')
  <2>1. CASE j = i
    BY <2>1 DEF LiveInv
  <2>2. CASE j # i
    BY <2>2 DEF LiveInv
  <2> QED
    BY <2>1, <2>2
<1>4. ASSUME NEW e \in saying' PROVE e \in Events /\ e.kind \in KindsOf(e.id) /\ Mine(e.id)'
  <2>1. CASE e \in saying
    <3>1. e \in Events
      BY <2>1 DEF LiveInv, Events
    <3>2. e.id \in Restore!Ids /\ e.kind \in KindsOf(e.id) /\ Mine(e.id)
      BY <3>1, <2>1 DEF LiveInv, Events
    <3> QED
      BY <3>1, <3>2
  <2>2. CASE e \notin saying
    BY <2>2
  <2> QED
    BY <2>1, <2>2
<1>5. saying' \subseteq Events
  BY <1>4
<1> QED
  BY <1>2, <1>3, <1>4, <1>5 DEF LiveInv, Statuses, Events

\* Without a change of the log nobody changes the run they belong to.
LEMMA LogUnchanged ==
  ASSUME LogInv, UNCHANGED <<restoreLog, restorePhase, run, restoreNext, restored>>
  PROVE  LogInv' /\ \A j \in Restore!Ids : Mine(j) => Mine(j)'
<1>1. \A j : Restore!Said(j)' = Restore!Said(j) /\ Restore!LastWord(j)' = Restore!LastWord(j)
  BY DEF Restore!Said, Restore!LastWord
<1>2. \A j \in Restore!Ids : RestoredAs(j) => RestoredAs(j)'
  BY <1>1 DEF RestoredAs
<1>3. Restore!NamesAreOfOneRun'
  BY DEF Restore!NamesAreOfOneRun, LogInv
<1>4. LogTypes'
  BY DEF LogTypes, LogInv
<1>5. LogInv'
  BY <1>2, <1>3, <1>4 DEF LogInv
<1> QED
  BY <1>1, <1>5 DEF Mine

\* A first run begins with no log.
LEMMA InitRestore == ASSUME Restore!Init PROVE RestoreInv
<1>1. restoreLog \in Seq(Lines) /\ DOMAIN restoreLog = {}
  BY DEF Restore!Init
<1>2. Restore!Nothing \in [Restore!Ids -> Results] /\ Restore!Nothing \in [Restore!Ids -> Statuses]
  BY DEF Restore!Nothing, Results, Statuses
<1>3. 1 \in 1..MaxRuns
  BY IdTypes
<1>4. \A t \in Restore!Types : Restore!Most[t] \in Nat
  BY IdTypes DEF Restore!Types
<1>5. restoreNext \in [Restore!Types -> Nat] /\ \A t \in Restore!Types : restoreNext[t] <= Restore!Most[t]
  BY <1>4 DEF Restore!Init
<1>6. LogTypes
  BY <1>1, <1>2, <1>3, <1>5 DEF Restore!Init, LogTypes
<1>7. \A i \in Restore!Ids : restored[i] = "none" /\ live[i] = "none" /\ "none" \in StatusesOf(i)
  BY DEF Restore!Init, Restore!Nothing, StatusesOf
<1>8. LogInv
  BY <1>1, <1>6, <1>7 DEF LogInv, Restore!NamesAreOfOneRun
<1>9. LiveInv
  BY <1>2, <1>7 DEF LiveInv, Restore!Init, Statuses
<1> QED
  BY <1>8, <1>9 DEF RestoreInv

\* A new id has a number that nobody had.
LEMMA NewStep == ASSUME RestoreInv, NEW t \in Restore!Types, Restore!New(t) PROVE RestoreInv'
<1>1. /\ restoreNext[t] \in Nat /\ restoreNext'[t] = restoreNext[t] + 1 /\ restoreNext'[t] <= Restore!Most[t]
      /\ \A u \in Restore!Types : u # t => restoreNext'[u] = restoreNext[u]
      /\ restoreNext' \in [Restore!Types -> Nat] /\ \A u \in Restore!Types : restoreNext'[u] \in Nat /\ restoreNext[u] \in Nat /\ restoreNext[u] <= Restore!Most[u]
  <2>1. restoreNext \in [Restore!Types -> Nat] /\ \A u \in Restore!Types : restoreNext[u] \in Nat /\ restoreNext[u] <= Restore!Most[u]
    BY DEF RestoreInv, LogInv, LogTypes
  <2>2. restoreNext' = [restoreNext EXCEPT ![t] = @ + 1] /\ restoreNext[t] < Restore!Most[t]
    BY DEF Restore!New
  <2>3. Restore!Most[t] \in Nat
    BY IdTypes DEF Restore!Types
  <2>4. restoreNext'[t] = restoreNext[t] + 1
    BY <2>1, <2>2
  <2> QED
    BY <2>1, <2>2, <2>3, <2>4
<1>2. restoreNext'[t] \in 1..Restore!Most[t]
  <2>1. Restore!Most[t] \in Nat
    BY IdTypes DEF Restore!Types
  <2> QED
    BY <1>1, <2>1
<1>3. PICK i \in Restore!Ids : i = [type |-> t, nr |-> restoreNext'[t]]
  BY <1>2, IdTypes
<1>4. \A u \in Restore!Types : restoreNext[u] <= restoreNext'[u] /\ restoreNext'[u] <= Restore!Most[u]
  BY <1>1
<1>5. UNCHANGED <<restoreLog, restorePhase, run, restored>> /\ restorePhase # "down"
  BY DEF Restore!New, Restore!Running
<1>6. \A j : Restore!Said(j)' = Restore!Said(j) /\ Restore!LastWord(j)' = Restore!LastWord(j)
  BY <1>5 DEF Restore!Said, Restore!LastWord
<1>7. \A k \in DOMAIN restoreLog : restoreLog[k].id \in Restore!Ids /\ restoreLog[k].id.type \in Restore!Types /\ restoreLog[k].id.nr \in Nat
  <2>1. restoreLog \in Seq(Lines)
    BY DEF RestoreInv, LogInv, LogTypes
  <2>2. \A k \in DOMAIN restoreLog : restoreLog[k] \in Lines
    BY <2>1
  <2> QED
    BY <2>2, IdTypes DEF Lines
<1>8. \A k \in DOMAIN restoreLog : restoreLog[k].id # i
  <2> SUFFICES ASSUME NEW k \in DOMAIN restoreLog, restoreLog[k].id = i PROVE FALSE
    OBVIOUS
  <2>1. i.nr <= restoreNext[i.type]
    BY DEF RestoreInv, LogInv
  <2> QED
    BY <2>1, <1>1, <1>3
<1>9. \A j \in Restore!Ids : Mine(j) => Mine(j)'
  <2> SUFFICES ASSUME NEW j \in Restore!Ids, Mine(j) PROVE Mine(j)'
    OBVIOUS
  <2>1. j.nr \in Nat /\ j.type \in Restore!Types
    BY IdTypes
  <2>2. j.nr <= restoreNext'[j.type]
    <3>1. j.nr <= restoreNext[j.type]
      BY DEF Mine
    <3> QED
      BY <2>1, <3>1, <1>1, <1>4
  <2> QED
    BY <2>2, <1>5, <1>6 DEF Mine
<1>10. Mine(i)'
  <2>1. Restore!Said(i) = {}
    BY <1>8 DEF Restore!Said
  <2>2. i.nr <= restoreNext'[i.type]
    BY <1>1, <1>3
  <2> QED
    BY <2>1, <2>2, <1>6 DEF Mine
<1>11. LogInv'
  <2>1. LogTypes'
    BY <1>1, <1>4, <1>5 DEF RestoreInv, LogInv, LogTypes
  <2>2. Restore!NamesAreOfOneRun'
    BY <1>5 DEF RestoreInv, LogInv, Restore!NamesAreOfOneRun
  <2>3. \A j \in Restore!Ids : RestoredAs(j) => RestoredAs(j)'
    BY <1>5, <1>6 DEF RestoredAs
  <2>4. \A k \in DOMAIN restoreLog : restoreLog[k].id.nr <= restoreNext'[restoreLog[k].id.type]
    <3> TAKE k \in DOMAIN restoreLog
    <3>1. restoreLog[k].id.nr <= restoreNext[restoreLog[k].id.type]
      BY DEF RestoreInv, LogInv
    <3> QED
      BY <3>1, <1>1, <1>4, <1>7
  <2> QED
    BY <2>1, <2>2, <2>3, <2>4, <1>5 DEF RestoreInv, LogInv
<1>12. PICK status \in StatusesOf(i) : live' = [live EXCEPT ![i] = status]
  <2>1. live' = [live EXCEPT ![i] = IF t = "s" THEN "new" ELSE "open"]
    BY <1>3 DEF Restore!New
  <2>2. (IF t = "s" THEN "new" ELSE "open") \in StatusesOf(i)
    BY <1>3 DEF StatusesOf
  <2> QED
    BY <2>1, <2>2
<1>13. ASSUME NEW e \in saying' \ saying PROVE e \in Events /\ e.id = i /\ e.kind \in KindsOf(i)
  <2>1. t # "s" /\ e = [id |-> i, kind |-> "shell_opened"]
    BY <1>13, <1>3 DEF Restore!New
  <2>2. "shell_opened" \in Restore!ShellKinds
    BY DEF Restore!ShellKinds
  <2> QED
    BY <2>1, <2>2, <1>3 DEF Events, KindsOf
<1>14. LiveInv'
  BY <1>3, <1>5, <1>9, <1>10, <1>12, <1>13, LiveStep DEF RestoreInv
<1> QED
  BY <1>11, <1>14 DEF RestoreInv

\* The same status, or one that its type has, and a line: of an id at work.
LEMMA WorkStep ==
  ASSUME RestoreInv, restorePhase # "down", NEW i \in Restore!Ids, live[i] # "none", NEW status \in StatusesOf(i),
         live' = [live EXCEPT ![i] = status], UNCHANGED <<restorePhase, run, restoreNext, restored>>,
         \/ \E kind \in KindsOf(i) : Restore!Published(i, kind) /\ saying' = saying
         \/ restoreLog' = restoreLog /\ \E kind \in KindsOf(i) : saying' = saying \cup {[id |-> i, kind |-> kind]}
  PROVE  RestoreInv'
<1>1. Mine(i)
  BY DEF RestoreInv, LiveInv
<1>2. CASE \E kind \in KindsOf(i) : Restore!Published(i, kind) /\ saying' = saying
  <2>1. LogInv' /\ \A j \in Restore!Ids : Mine(j) => Mine(j)'
    BY <1>1, <1>2, LoggedStep DEF RestoreInv
  <2>2. saying' = saying
    BY <1>2
  <2>3. \A e \in saying' \ saying : e \in Events /\ e.id = i /\ e.kind \in KindsOf(i)
    BY <2>2
  <2>4. LiveInv'
    BY <1>1, <2>1, <2>3, LiveStep DEF RestoreInv
  <2> QED
    BY <2>1, <2>4 DEF RestoreInv
<1>3. CASE restoreLog' = restoreLog /\ \E kind \in KindsOf(i) : saying' = saying \cup {[id |-> i, kind |-> kind]}
  <2>1. LogInv' /\ \A j \in Restore!Ids : Mine(j) => Mine(j)'
    BY <1>3, LogUnchanged DEF RestoreInv
  <2>2. \A e \in saying' \ saying : e \in Events /\ e.id = i /\ e.kind \in KindsOf(i)
    <3> TAKE e \in saying' \ saying
    <3>1. PICK kind \in KindsOf(i) : e = [id |-> i, kind |-> kind]
      BY <1>3
    <3>2. kind \in Restore!WorkerKinds \cup Restore!ShellKinds
      BY DEF KindsOf
    <3> QED
      BY <3>1, <3>2 DEF Events
  <2>3. LiveInv'
    BY <1>1, <2>1, <2>2, LiveStep DEF RestoreInv
  <2> QED
    BY <2>1, <2>3 DEF RestoreInv
<1> QED
  BY <1>2, <1>3

States == {"", "running", "waiting_on_tool", "paused", "done_unintegrated", "error_terminal"}

\* Any was becomes one of those that a replay can leave.
LEMMA StateTypes ==
  ASSUME NEW was \in States, NEW kind
  PROVE  Restore!StateAfter(was, kind) \in States
BY DEF Restore!StateAfter, States

\* Of a worker only the last line counts.
LEMMA ReplayedLast ==
  ASSUME restoreLog \in Seq(Lines), NEW i, Restore!Said(i) # {}, \A k \in Restore!Said(i) : restoreLog[k].kind \in Restore!WorkerKinds
  PROVE  Restore!LastWord(i) \in Restore!WorkerKinds /\ \E was : Restore!Replayed(i) = Restore!StateAfter(was, Restore!LastWord(i))
<1> DEFINE n == Len(restoreLog)
           m == Restore!Max(Restore!Said(i))
           step == [k \in 1..n |-> [was \in States |->
                      IF k \in Restore!Said(i) THEN Restore!StateAfter(was, restoreLog[k].kind) ELSE was]]
           Solves(g) == g = [k \in 0..n |->
                          IF k = 0 THEN ""
                          ELSE IF k \in Restore!Said(i) THEN Restore!StateAfter(g[k - 1], restoreLog[k].kind) ELSE g[k - 1]]
<1>1. n \in Nat /\ DOMAIN restoreLog = 1..n
  BY LenProperties
<1>2. Restore!Said(i) \subseteq 1..n
  BY <1>1 DEF Restore!Said
<1>3. m \in Restore!Said(i) /\ \A k \in Restore!Said(i) : k <= m
  BY <1>1, <1>2, RestoreHighest
<1>4. step \in [1..n -> [States -> States]]
  BY StateTypes
<1>5. \A k \in 1..n : \A was \in States :
        step[k][was] = IF k \in Restore!Said(i) THEN Restore!StateAfter(was, restoreLog[k].kind) ELSE was
  OBVIOUS
<1> HIDE DEF n, m, step
<1>6. "" \in States
  BY DEF States
<1>7. PICK f \in [0..n -> States] : f[0] = "" /\ \A k \in 1..n : f[k] = step[k][f[k - 1]]
  <2>1. Recursive(n, States, "", step)
    BY <1>1, <1>4, <1>6, Recursion
  <2> QED
    BY <2>1 DEF Recursive
<1>8. \A k \in 0..n : f[k] = IF k = 0 THEN ""
                             ELSE IF k \in Restore!Said(i) THEN Restore!StateAfter(f[k - 1], restoreLog[k].kind) ELSE f[k - 1]
  <2> TAKE k \in 0..n
  <2>1. CASE k = 0
    BY <2>1, <1>7
  <2>2. CASE k # 0
    <3>1. k \in 1..n /\ k - 1 \in 0..n
      BY <2>2, <1>1
    <3>2. f[k - 1] \in States
      BY <3>1, <1>7
    <3> QED
      BY <2>2, <3>1, <3>2, <1>5, <1>7
  <2> QED
    BY <2>1, <2>2
<1>9. Solves(f)
  BY <1>7, <1>8
<1> DEFINE g == CHOOSE h : Solves(h)
<1>10. Restore!Replayed(i) = g[n]
  BY DEF Restore!Replayed, n
<1>11. Solves(g)
  BY <1>9
<1> HIDE DEF g
<1>12. g[m] = Restore!StateAfter(g[m - 1], restoreLog[m].kind)
  <2>1. m \in 0..n /\ m # 0
    BY <1>2, <1>3, <1>1
  <2> QED
    BY <2>1, <1>3, <1>11
<1>13. \A k \in 0..n : k \in {j \in 0..n : j < m \/ g[j] = g[m]}
  <2> DEFINE P == {j \in 0..n : j < m \/ g[j] = g[m]}
  <2>0. m \in 1..n
    BY <1>2, <1>3
  <2>1. 0 \in P
    BY <2>0, <1>1
  <2>2. ASSUME NEW k \in 1..n, k - 1 \in P PROVE k \in P
    <3>1. CASE k <= m
      <4>1. k = m \/ k < m
        BY <3>1, <2>0
      <4> QED
        BY <4>1, <1>1
    <3>2. CASE k > m
      <4>1. k \notin Restore!Said(i)
        BY <3>2, <1>3, <2>0
      <4>0. k \in 0..n /\ k # 0
        BY <1>1
      <4>2. g[k] = g[k - 1]
        BY <4>0, <4>1, <1>11
      <4>3. ~(k - 1 < m)
        BY <3>2, <2>0
      <4>4. g[k - 1] = g[m]
        BY <2>2, <4>3
      <4>5. k \in 0..n
        OBVIOUS
      <4> QED
        BY <4>2, <4>4, <4>5
    <3> QED
      BY <3>1, <3>2, <2>0
  <2> HIDE DEF P
  <2>3. \A k \in 0..n : k \in P
    BY <1>1, <2>1, <2>2, UpTo
  <2> QED
    BY <2>3 DEF P
<1>14. g[n] = g[m]
  <2>1. n \in 0..n /\ ~(n < m)
    BY <1>1, <1>2, <1>3
  <2> QED
    BY <2>1, <1>13
<1>15. Restore!LastWord(i) = restoreLog[m].kind
  BY DEF Restore!LastWord, m
<1> QED
  BY <1>3, <1>10, <1>12, <1>14, <1>15

\* What is shown of a worker is its end, if the log has its end last.
LEMMA EndIsRead ==
  ASSUME restoreLog \in Seq(Lines), NEW i, Restore!Said(i) # {}, \A k \in Restore!Said(i) : restoreLog[k].kind \in Restore!WorkerKinds,
         NEW stalled, stalled \subseteq Restore!Silent,
         NEW status, status = Restore!SupervisorStatus(IF i \in stalled THEN "stalled" ELSE Restore!Replayed(i))
  PROVE  /\ status \in {"done", "error", "cancelled"}
         /\ Restore!LastWord(i) = "done" <=> status = "done"
         /\ Restore!LastWord(i) = "error" => status = "error"
<1>1. Restore!LastWord(i) \in Restore!WorkerKinds /\ \E was : Restore!Replayed(i) = Restore!StateAfter(was, Restore!LastWord(i))
  BY ReplayedLast
<1>2. /\ Restore!LastWord(i) = "done" => Restore!Replayed(i) = "done_unintegrated"
      /\ Restore!LastWord(i) = "error" => Restore!Replayed(i) = "error_terminal"
      /\ Restore!LastWord(i) \notin {"done", "error"} => Restore!Replayed(i) \in {"running", "waiting_on_tool", "paused"}
  BY <1>1 DEF Restore!StateAfter, Restore!WorkerKinds
<1>3. i \in stalled => Restore!Replayed(i) \in {"running", "waiting_on_tool"}
  BY DEF Restore!Silent
<1>4. CASE i \in stalled
  BY <1>2, <1>3, <1>4 DEF Restore!SupervisorStatus
<1>5. CASE i \notin stalled
  BY <1>2, <1>5 DEF Restore!SupervisorStatus
<1> QED
  BY <1>4, <1>5

\* An event that waits is published: nobody's status changes.
LEMMA PublishesStep == ASSUME RestoreInv, NEW e \in saying, Restore!Publishes(e) PROVE RestoreInv'
<1>1. e.id \in Restore!Ids /\ e.kind \in KindsOf(e.id) /\ Mine(e.id)
  BY DEF RestoreInv, LiveInv
<1>2. Restore!Published(e.id, e.kind) /\ UNCHANGED <<restorePhase, run, restoreNext, live, restored>> /\ saying' = saying \ {e} /\ restorePhase # "down"
  BY DEF Restore!Publishes, Restore!Running
<1>3. LogInv' /\ \A j \in Restore!Ids : Mine(j) => Mine(j)'
  BY <1>1, <1>2, LoggedStep DEF RestoreInv
<1>4. live[e.id] \in StatusesOf(e.id) /\ live' = [live EXCEPT ![e.id] = live[e.id]]
  BY <1>1, <1>2 DEF RestoreInv, LiveInv
<1>5. \A x \in saying' \ saying : x \in Events /\ x.id = e.id /\ x.kind \in KindsOf(e.id)
  BY <1>2
<1>6. LiveInv'
  BY <1>1, <1>2, <1>3, <1>4, <1>5, LiveStep DEF RestoreInv
<1> QED
  BY <1>3, <1>6 DEF RestoreInv

\* A crash, and the sink.
LEMMA StopStep == ASSUME RestoreInv, Restore!Crash \/ Restore!AddSink PROVE RestoreInv'
<1>1. restoreLog' = restoreLog /\ run' = run /\ restoreNext' = restoreNext
  BY DEF Restore!Crash, Restore!AddSink
<1>2. \A j : Restore!Said(j)' = Restore!Said(j) /\ Restore!LastWord(j)' = Restore!LastWord(j)
  BY <1>1 DEF Restore!Said, Restore!LastWord
<1>3. Restore!NamesAreOfOneRun'
  BY <1>1 DEF Restore!NamesAreOfOneRun, RestoreInv, LogInv
<1>4. \A j : Mine(j) => Mine(j)'
  BY <1>1, <1>2 DEF Mine
<1>5. Restore!Nothing \in [Restore!Ids -> Results] /\ Restore!Nothing \in [Restore!Ids -> Statuses] /\ \A i \in Restore!Ids : Restore!Nothing[i] = "none" /\ "none" \in StatusesOf(i)
  BY DEF Restore!Nothing, Results, Statuses, StatusesOf
<1>6. CASE Restore!Crash
  <2>1. LogTypes'
    BY <1>1, <1>5, <1>6 DEF Restore!Crash, RestoreInv, LogInv, LogTypes
  <2>2. LogInv'
    BY <1>1, <1>3, <2>1, <1>6 DEF Restore!Crash, RestoreInv, LogInv
  <2>3. Restore!Nothing' = Restore!Nothing
    BY DEF Restore!Nothing
  <2>4. LiveInv'
    BY <1>5, <1>6, <2>3 DEF Restore!Crash, LiveInv, Statuses
  <2> QED
    BY <2>2, <2>4 DEF RestoreInv
<1>7. CASE Restore!AddSink
  <2>1. LogTypes'
    BY <1>1, <1>7 DEF Restore!AddSink, RestoreInv, LogInv, LogTypes
  <2>2. \A j \in Restore!Ids : RestoredAs(j) => RestoredAs(j)'
    BY <1>1, <1>2, <1>7 DEF RestoredAs, Restore!AddSink
  <2>3. LogInv'
    BY <1>1, <1>3, <2>1, <2>2, <1>7 DEF Restore!AddSink, RestoreInv, LogInv
  <2>4. live' = live /\ saying' = saying /\ restorePhase' # "down"
    BY <1>7 DEF Restore!AddSink
  <2>5. \A e \in saying : e.id \in Restore!Ids
    BY DEF RestoreInv, LiveInv
  <2>6. LiveInv'
    BY <1>4, <2>4, <2>5 DEF RestoreInv, LiveInv
  <2> QED
    BY <2>3, <2>6 DEF RestoreInv
<1> QED
  BY <1>6, <1>7

\* The highest number of the log is the last that was given out.
LEMMA LastIsHighest ==
  ASSUME LogInv, NEW t \in Restore!Types
  PROVE  /\ Restore!LastNumber(t) \in Nat /\ Restore!LastNumber(t) <= Restore!Most[t]
         /\ \A k \in DOMAIN restoreLog : restoreLog[k].id.type = t => restoreLog[k].id.nr <= Restore!LastNumber(t)
<1> DEFINE S == {i.nr : i \in {j \in Restore!InLog : j.type = t}} \cup {0}
<1>1. Restore!Most[t] \in Nat
  BY IdTypes DEF Restore!Types
<1>2. \A k \in DOMAIN restoreLog : restoreLog[k].id \in Restore!Ids
  <2>1. restoreLog \in Seq(Lines)
    BY DEF LogInv, LogTypes
  <2>2. \A k \in DOMAIN restoreLog : restoreLog[k] \in Lines
    BY <2>1
  <2> QED
    BY <2>2 DEF Lines
<1>3. S \subseteq 0..Restore!Most[t]
  <2> SUFFICES ASSUME NEW i \in Restore!InLog, i.type = t PROVE i.nr \in 0..Restore!Most[t]
    BY <1>1
  <2>1. i \in Restore!Ids
    BY <1>2 DEF Restore!InLog
  <2> QED
    BY <2>1, IdTypes, <1>1
<1>4. Restore!Max(S) \in S /\ \A m \in S : m <= Restore!Max(S)
  BY <1>1, <1>3, RestoreHighest
<1>5. \A k \in DOMAIN restoreLog : restoreLog[k].id.type = t => restoreLog[k].id.nr \in S
  BY DEF Restore!InLog
<1>6. Restore!LastNumber(t) = Restore!Max(S)
  BY DEF Restore!LastNumber
<1> HIDE DEF S
<1> QED
  BY <1>1, <1>3, <1>4, <1>5, <1>6

\* A resumed session shows each worker with its end.
LEMMA ResumeStep == ASSUME RestoreInv, Restore!Resume PROVE RestoreInv'
<1>1. PICK stalled \in SUBSET Restore!Silent :
        restored' = [i \in Restore!Ids |->
            IF i \notin Restore!InLog THEN "none"
            ELSE IF i.type = "sh" THEN Restore!ShellStatus(i)
            ELSE Restore!SupervisorStatus(IF i \in stalled THEN "stalled" ELSE Restore!Replayed(i))]
  BY DEF Restore!Resume
<1>2. /\ restorePhase = "down" /\ run < MaxRuns /\ restorePhase' = "starting" /\ run' = run + 1
      /\ restoreNext' = [t \in Restore!Types |-> Restore!LastNumber(t)] /\ UNCHANGED <<restoreLog, live, saying>>
  BY DEF Restore!Resume
<1>3. restoreLog \in Seq(Lines) /\ run \in 1..MaxRuns /\ run \in Nat /\ MaxRuns \in Nat
  BY IdTypes DEF RestoreInv, LogInv, LogTypes
<1>4. \A k \in DOMAIN restoreLog : /\ restoreLog[k] \in Lines /\ restoreLog[k].id \in Restore!Ids /\ restoreLog[k].id.type \in Restore!Types
                                   /\ restoreLog[k].run \in Nat /\ restoreLog[k].run <= run /\ restoreLog[k].kind \in KindsOf(restoreLog[k].id)
  <2>1. \A k \in DOMAIN restoreLog : restoreLog[k] \in Lines
    BY <1>3
  <2>2. \A k \in DOMAIN restoreLog : restoreLog[k].id \in Restore!Ids /\ restoreLog[k].run \in 1..MaxRuns
    BY <2>1 DEF Lines
  <2>3. \A k \in DOMAIN restoreLog : restoreLog[k].run <= run /\ restoreLog[k].kind \in KindsOf(restoreLog[k].id)
    BY DEF RestoreInv, LogInv
  <2> QED
    BY <2>1, <2>2, <2>3, <1>3, IdTypes
<1>5. \A j : Restore!Said(j)' = Restore!Said(j) /\ Restore!LastWord(j)' = Restore!LastWord(j)
  BY <1>2 DEF Restore!Said, Restore!LastWord
<1>6. \A i \in Restore!Ids : i \in Restore!InLog => Restore!Said(i) # {}
  BY DEF Restore!InLog, Restore!Said
<1>7. \A i \in Restore!Ids : Restore!Said(i) \subseteq DOMAIN restoreLog /\ \A k \in Restore!Said(i) : restoreLog[k].id = i
  BY DEF Restore!Said
<1>8. ASSUME NEW i \in Restore!Ids, i \in Restore!InLog
      PROVE  RestoredAs(i)' /\ restored'[i] \in Results
  <2>1. \A k \in Restore!Said(i) : restoreLog[k].run < run'
    BY <1>2, <1>3, <1>4, <1>7
  <2>2. CASE i.type = "sh"
    <3>1. restored'[i] = Restore!ShellStatus(i)
      BY <1>1, <1>8, <2>2
    <3>2. Restore!ShellStatus(i) \in Results
      BY DEF Restore!ShellStatus, Results
    <3> QED
      BY <2>1, <2>2, <3>1, <3>2, <1>2, <1>5, <1>6, <1>8 DEF RestoredAs
  <2>3. CASE i.type # "sh"
    <3>1. restored'[i] = Restore!SupervisorStatus(IF i \in stalled THEN "stalled" ELSE Restore!Replayed(i))
      BY <1>1, <1>8, <2>3
    <3>2. i.type = "s"
      BY <2>3, IdTypes DEF Restore!Types
    <3>3. \A k \in Restore!Said(i) : restoreLog[k].kind \in Restore!WorkerKinds
      BY <3>2, <1>4, <1>7 DEF KindsOf
    <3>4. Restore!Said(i) # {}
      BY <1>6, <1>8
    <3>5. /\ restored'[i] \in {"done", "error", "cancelled"}
          /\ Restore!LastWord(i) = "done" <=> restored'[i] = "done"
          /\ Restore!LastWord(i) = "error" => restored'[i] = "error"
      BY <3>1, <3>3, <3>4, <1>3, EndIsRead
    <3> QED
      BY <3>4, <3>5, <2>1, <1>2, <1>5 DEF RestoredAs, Results
  <2> QED
    BY <2>2, <2>3
<1>9. \A i \in Restore!Ids : i \notin Restore!InLog => restored'[i] = "none"
  BY <1>1
<1>10. restored' \in [Restore!Ids -> Results]
  <2>1. \A i \in Restore!Ids : restored'[i] \in Results
    BY <1>8, <1>9 DEF Results
  <2>2. \E F : restored' = [i \in Restore!Ids |-> F[i]]
    <3> DEFINE F == [i \in Restore!Ids |-> restored'[i]]
    <3>1. restored' = F
      BY <1>1
    <3>2. F = [i \in Restore!Ids |-> F[i]]
      OBVIOUS
    <3> HIDE DEF F
    <3> QED
      BY <3>1, <3>2
  <2> QED
    BY <2>1, <2>2
<1>11. LogTypes'
  <2>1. \A t \in Restore!Types : Restore!LastNumber(t) \in Nat /\ Restore!LastNumber(t) <= Restore!Most[t]
    BY LastIsHighest DEF RestoreInv
  <2>2. restoreNext' \in [Restore!Types -> Nat] /\ \A t \in Restore!Types : restoreNext'[t] <= Restore!Most[t]
    BY <1>2, <2>1
  <2> QED
    BY <1>2, <1>3, <1>10, <2>2 DEF LogTypes
<1>12. \A k \in DOMAIN restoreLog : restoreLog[k].id.nr <= restoreNext'[restoreLog[k].id.type]
  BY <1>2, <1>4, LastIsHighest DEF RestoreInv
<1>13. Restore!NamesAreOfOneRun'
  BY <1>2 DEF Restore!NamesAreOfOneRun, RestoreInv, LogInv
<1>14. \A i \in Restore!Ids : restored'[i] # "none" => RestoredAs(i)'
  BY <1>8, <1>9
<1>15. \A k \in DOMAIN restoreLog : restoreLog[k].run <= run'
  BY <1>2, <1>3, <1>4
<1>16. LogInv'
  BY <1>2, <1>4, <1>11, <1>12, <1>13, <1>14, <1>15 DEF LogInv
<1>17. live' = Restore!Nothing /\ saying' = {} /\ restorePhase' # "down"
  BY <1>2 DEF RestoreInv, LiveInv
<1>18. \A i \in Restore!Ids : Restore!Nothing[i] = "none" /\ "none" \in StatusesOf(i)
  BY DEF Restore!Nothing, StatusesOf
<1>19. Restore!Nothing \in [Restore!Ids -> Statuses]
  BY DEF Restore!Nothing, Statuses
<1>20. LiveInv'
  BY <1>17, <1>18, <1>19 DEF LiveInv, Statuses
<1> QED
  BY <1>16, <1>20 DEF RestoreInv

\* Every step keeps the invariant of the log and of the live.
LEMMA RestoreStep == ASSUME RestoreInv, [Restore!Next]_Restore!vars PROVE RestoreInv'
<1>1. ASSUME NEW t \in Restore!Types, Restore!New(t) PROVE RestoreInv'
  BY <1>1, NewStep
<1>2. \A i \in Restore!Ids : live[i] \in StatusesOf(i)
  BY DEF RestoreInv, LiveInv
<1>3. ASSUME NEW i \in Restore!Ids, Restore!Begins(i) PROVE RestoreInv'
  <2>1. live[i] = "new" /\ i.type = "s"
    BY <1>2, <1>3 DEF Restore!Begins, StatusesOf
  <2>2. "spawn" \in KindsOf(i) /\ "running" \in StatusesOf(i)
    BY <2>1 DEF KindsOf, Restore!WorkerKinds, StatusesOf
  <2> QED
    BY <2>1, <2>2, <1>3, WorkStep DEF Restore!Begins, Restore!Running
<1>4. ASSUME NEW i \in Restore!Ids, i.type = "s", Restore!Works(i) PROVE RestoreInv'
  <2>1. live[i] \in StatusesOf(i) /\ live[i] # "none"
    BY <1>2, <1>4 DEF Restore!Works
  <2>2. live' = [live EXCEPT ![i] = live[i]]
    BY <1>4 DEF Restore!Works, RestoreInv, LiveInv
  <2>3. {"tool_call", "tool_done"} \subseteq KindsOf(i)
    BY <1>4 DEF KindsOf, Restore!WorkerKinds
  <2> QED
    BY <2>1, <2>2, <2>3, <1>4, WorkStep DEF Restore!Works, Restore!Running
<1>5. ASSUME NEW i \in Restore!Ids, i.type = "s", Restore!Changes(i) PROVE RestoreInv'
  <2>1. live[i] # "none" /\ restorePhase # "down"
    BY <1>5 DEF Restore!Changes, Restore!Running
  <2>2. {"paused", "running", "done", "error"} \subseteq StatusesOf(i) /\ {"paused", "resumed", "done", "error"} \subseteq KindsOf(i)
    BY <1>5 DEF KindsOf, Restore!WorkerKinds, StatusesOf
  <2>3. PICK status \in StatusesOf(i), kind \in KindsOf(i) : Restore!Becomes(i, status, kind)
    BY <2>2, <1>5 DEF Restore!Changes
  <2> QED
    BY <2>1, <2>3, WorkStep DEF Restore!Becomes
<1>6. ASSUME NEW i \in Restore!Ids, Restore!ShellEnds(i) PROVE RestoreInv'
  <2>1. live[i] # "none" /\ i.type # "s"
    BY <1>2, <1>6 DEF Restore!ShellEnds, StatusesOf
  <2>2. "shell_exited" \in KindsOf(i) /\ "gone" \in StatusesOf(i)
    BY <2>1 DEF KindsOf, Restore!ShellKinds, StatusesOf
  <2> QED
    BY <2>1, <2>2, <1>6, WorkStep DEF Restore!ShellEnds, Restore!Running
<1>7. ASSUME NEW i \in Restore!Ids, Restore!CloseShell(i) PROVE RestoreInv'
  <2>1. live[i] # "none" /\ i.type # "s"
    BY <1>2, <1>7 DEF Restore!CloseShell, StatusesOf
  <2>2. "shell_closed" \in KindsOf(i) /\ "closed" \in StatusesOf(i)
    BY <2>1 DEF KindsOf, Restore!ShellKinds, StatusesOf
  <2> QED
    BY <2>1, <2>2, <1>7, WorkStep DEF Restore!CloseShell, Restore!Running
<1>8. CASE UNCHANGED Restore!vars
  <2>1. UNCHANGED <<restoreLog, restorePhase, run, restoreNext, live, saying, restored>>
    BY <1>8 DEF Restore!vars
  <2>2. LogInv' /\ \A j \in Restore!Ids : Mine(j) => Mine(j)'
    BY <2>1, LogUnchanged DEF RestoreInv
  <2>3. \A e \in saying : e.id \in Restore!Ids
    BY DEF RestoreInv, LiveInv
  <2>4. Restore!Nothing' = Restore!Nothing
    BY DEF Restore!Nothing
  <2>5. LiveInv'
    BY <2>1, <2>2, <2>3, <2>4 DEF LiveInv, RestoreInv
  <2> QED
    BY <2>2, <2>5 DEF RestoreInv
<1> QED
  BY <1>1, <1>3, <1>4, <1>5, <1>6, <1>7, <1>8, PublishesStep, StopStep, ResumeStep DEF Restore!Next

\* What the invariant says of the session.
LEMMA RestoreTold == ASSUME RestoreInv PROVE Restore!TypeOK /\ Restore!NamesAreOfOneRun /\ Restore!EndsAreRestored
<1>1. restoreNext \in [Restore!Types -> 0..MaxWorkers + MaxShells]
  <2>1. \A t \in Restore!Types : restoreNext[t] \in 0..MaxWorkers + MaxShells
    <3> TAKE t \in Restore!Types
    <3>1. restoreNext[t] \in Nat /\ restoreNext[t] <= Restore!Most[t]
      BY DEF RestoreInv, LogInv, LogTypes
    <3>2. Restore!Most[t] = MaxWorkers \/ Restore!Most[t] = MaxShells
      BY IdTypes DEF Restore!Types
    <3> QED
      BY <3>1, <3>2, IdTypes
  <2> QED
    BY <2>1 DEF RestoreInv, LogInv, LogTypes
<1>2. Restore!TypeOK
  BY <1>1 DEF Restore!TypeOK, RestoreInv, LogInv, LogTypes, LiveInv, Lines, Results
<1>3. Restore!NamesAreOfOneRun
  BY DEF RestoreInv, LogInv
<1>4. ASSUME restorePhase # "down", NEW w \in Restore!WorkerIds, restored[w] # "none"
      PROVE  LET before == {k \in Restore!Said(w) : restoreLog[k].run < run}
                 last == restoreLog[Restore!Max(before)].kind
             IN /\ before # {} /\ (last = "done" <=> restored[w] = "done")
                /\ last = "error" => restored[w] = "error"
  <2>1. w \in Restore!Ids /\ w.type = "s"
    BY DEF Restore!WorkerIds
  <2>2. RestoredAs(w)
    BY <1>4, <2>1 DEF RestoreInv, LogInv
  <2>3. {k \in Restore!Said(w) : restoreLog[k].run < run} = Restore!Said(w)
    BY <2>2 DEF RestoredAs
  <2> QED
    BY <2>1, <2>2, <2>3 DEF RestoredAs, Restore!LastWord
<1>5. Restore!EndsAreRestored
  BY <1>4 DEF Restore!EndsAreRestored
<1> QED
  BY <1>2, <1>3, <1>5

-----------------------------------------------------------------------------
(* All of them. *)

\* Each component begins as it does alone.
LEMMA InitAll ==
  ASSUME Init
  PROVE  /\ SetupInv /\ ChainInv /\ ModelsInv /\ RoutingInv
         /\ PromptInv /\ ContextInv /\ ConfigInv /\ WireInv /\ SessionInv /\ RestoreInv
         /\ RankInv
<1>1. /\ Setup!Init /\ Chain!Init /\ Models!Init /\ Routing!Init
      /\ SystemPrompt!Init /\ MasterContext!Init /\ Config!Init
      /\ Wire!Init /\ SessionLog!Init /\ Restore!Init
  BY DEF Init
<1> QED
  BY <1>1, SetupInit, InitChain, ModelsInit, RoutingInit, PromptInit, ContextInit,
     RankInit, ConfigInit, WireInit, InitSession, InitRestore, ConfigBounds DEF Config!ConfigConstants

\* A step is one of the component that was chosen, and no step of the others.
LEMMA StepOfEach ==
  ASSUME [Next]_vars
  PROVE  /\ [Setup!Next]_Setup!vars /\ [Chain!Next]_Chain!vars /\ [Models!Next]_Models!vars
         /\ [Routing!Next]_Routing!vars /\ [SystemPrompt!Next]_SystemPrompt!vars
         /\ [MasterContext!Next]_MasterContext!vars /\ [Config!Next]_Config!vars
         /\ [SessionLog!Next]_SessionLog!vars /\ [Restore!Next]_Restore!vars
         /\ [Wire!Next]_Wire!vars
<1>1. [Setup!Next]_Setup!vars
  BY DEF Next, vars, setupVars, Setup!vars
<1>2. [Chain!Next]_Chain!vars
  BY DEF Next, vars, chainVars, Chain!vars
<1>3. [Models!Next]_Models!vars
  BY DEF Next, vars, modelsVars, Models!vars
<1>4. [Routing!Next]_Routing!vars
  BY DEF Next, vars, routingVars, Routing!vars
<1>5. [SystemPrompt!Next]_SystemPrompt!vars
  BY DEF Next, vars, systemPromptVars, SystemPrompt!vars
<1>6. [MasterContext!Next]_MasterContext!vars
  BY DEF Next, vars, masterContextVars, MasterContext!vars
<1>7. [Config!Next]_Config!vars
  BY DEF Next, vars, configVars, Config!vars, Config!files, Config!inForce
<1>8. [SessionLog!Next]_SessionLog!vars
  BY DEF Next, vars, sessionLogVars, SessionLog!vars
<1>9. [Restore!Next]_Restore!vars
  BY DEF Next, vars, restoreVars, Restore!vars
<1>10. [Wire!Next]_Wire!vars
  BY DEF Next, vars, wireVars, Wire!vars
<1> QED
  BY <1>1, <1>2, <1>3, <1>4, <1>5, <1>6, <1>7, <1>8, <1>9, <1>10

\* Every component keeps its inductive invariant.
LEMMA AllInvariant ==
  Spec => [](/\ SetupInv /\ ChainInv /\ ModelsInv /\ RoutingInv
             /\ PromptInv /\ ContextInv /\ ConfigInv /\ WireInv /\ SessionInv /\ RestoreInv
             /\ RankInv)
<1> DEFINE Inv == /\ SetupInv /\ ChainInv /\ ModelsInv /\ RoutingInv
                  /\ PromptInv /\ ContextInv /\ ConfigInv /\ WireInv /\ SessionInv /\ RestoreInv
                  /\ RankInv
<1>1. Init => Inv
  BY InitAll
<1>2. Inv /\ [Next]_vars => Inv'
  <2> SUFFICES ASSUME Inv, [Next]_vars PROVE Inv'
    OBVIOUS
  <2>1. SetupInv' /\ ChainInv' /\ ModelsInv' /\ RoutingInv'
    BY StepOfEach, SetupStep, ChainStep, ModelsStep, RoutingStep
  <2>2. PromptInv' /\ ContextInv' /\ ConfigInv'
    BY StepOfEach, PromptStep, ContextStep, ConfigStep, ConfigBounds DEF Config!ConfigConstants
  <2>3. WireInv' /\ SessionInv' /\ RestoreInv'
    BY StepOfEach, WireStep, SessionStep, RestoreStep
  <2>4. RankInv'
    BY StepOfEach, RankStep
  <2> QED
    BY <2>1, <2>2, <2>3, <2>4
<1> HIDE DEF Inv
<1>3. Spec => []Inv
  BY <1>1, <1>2, PTL DEF Spec
<1> QED
  BY <1>3 DEF Inv

\* The types of every component: what each of them keeps is what its code can hold, within
\* the bounds of its constants, and the ranking of the registry has every model once.
THEOREM RequestsTypeCorrect == Spec => []TypeOK
<1>1. SetupInv /\ ChainInv /\ RoutingInv => Setup!TypeOK /\ Chain!TypeOK /\ Routing!TypeOK
  BY SetupTold, ChainTold, RoutingTold
<1>2. ModelsInv /\ RankInv => Models!TypeOK
  BY RankTold
<1>3. PromptInv /\ ContextInv /\ ConfigInv => SystemPrompt!TypeOK /\ MasterContext!TypeOK /\ Config!TypeOK
  BY PromptTold, ContextTold, ConfigTold
<1>4. WireInv /\ SessionInv /\ RestoreInv => Wire!TypeOK /\ SessionLog!TypeOK /\ Restore!TypeOK
  BY WireTold, SessionTold, RestoreTold
<1>5. ASSUME /\ SetupInv /\ ChainInv /\ ModelsInv /\ RoutingInv
             /\ PromptInv /\ ContextInv /\ ConfigInv /\ WireInv /\ SessionInv /\ RestoreInv
             /\ RankInv
      PROVE  TypeOK
  <2>1. Setup!TypeOK /\ Chain!TypeOK /\ Routing!TypeOK
    BY ONLY <1>1, <1>5
  <2>2. Models!TypeOK /\ SystemPrompt!TypeOK /\ MasterContext!TypeOK /\ Config!TypeOK
    BY ONLY <1>2, <1>3, <1>5
  <2>3. Wire!TypeOK /\ SessionLog!TypeOK /\ Restore!TypeOK
    BY ONLY <1>4, <1>5
  <2> QED
    BY <2>1, <2>2, <2>3 DEF TypeOK
<1> QED
  BY <1>5, AllInvariant, PTL

\* However long the chain, however many models a provider lists and in whatever order its
\* requests fail: no model of an entry is asked twice, and an error that another provider may
\* not have ends the request only after the last entry.
THEOREM EachOnce == Spec => []TriesEachOnce
<1>1. ChainInv => TriesEachOnce
  BY ChainTold DEF TriesEachOnce
<1> QED
  BY <1>1, AllInvariant, PTL

\* Whatever the refreshes did and failed to do, between them the model chosen for a task is
\* the best buy at the prices of the registry and is served; and a node of the fleet on which
\* no call is under way counts none, through refusals, cancelled calls and streams that ended.
THEOREM FairChoice == Spec => []ChoiceIsFair
<1>1. ModelsInv /\ RoutingInv => ChoiceIsFair
  BY ModelsTold, RoutingTold DEF ChoiceIsFair
<1> QED
  BY <1>1, AllInvariant, PTL

\* The first turn after a worker's end, unless Esc discarded the end, is told of it: of a result or
\* an error by a line whatever events are kept beside it, of an empty result by the worker's state
\* unless a pause or resume came behind it.  What the worker held in progress is given back by then,
\* except what was put in progress after it was told.  The prompt of a turn is over the budget by no
\* more than the notice.
THEOREM TurnTold == Spec => []TurnIsTold
<1>1. ContextInv /\ PromptInv => TurnIsTold
  BY ContextTold, PromptTold DEF TurnIsTold
<1> QED
  BY <1>1, AllInvariant, PTL

\* After a reload, and after a start that follows the setup, what runs is what the files say.
THEOREM FilesAreRead == Spec => []ReloadReadsFiles
<1>1. ConfigInv /\ SetupInv => ReloadReadsFiles
  BY ConfigTold, SetupTold DEF ReloadReadsFiles
<1> QED
  BY <1>1, AllInvariant, PTL

\* However often the process dies, and with whatever line cut short: as long as no line was
\* lost, a resumed master has no result without its call; numbers and sequence go on, no name
\* is of two runs, and a worker comes back with the end that the log has of it.
THEOREM LogReplayed == Spec => []LogIsReplayed
<1>1. SessionInv /\ RestoreInv => LogIsReplayed
  BY SessionTold, RestoreTold DEF LogIsReplayed
<1> QED
  BY <1>1, AllInvariant, PTL

\* Whatever interrupted turns left in the history, a request to a strict provider answers
\* every call in it and holds all that the user said; and however the calls of an answer
\* overlap, each is handed on once, with all its pieces.
THEOREM RequestWhole == Spec => []RequestIsWhole
<1>1. WireInv => RequestIsWhole
  BY WireTold DEF RequestIsWhole
<1> QED
  BY <1>1, AllInvariant, PTL
=============================================================================
