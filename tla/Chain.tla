------------------------------- MODULE Chain --------------------------------
(***************************************************************************)
(* One request through the fallback chain (internal/llm/fallback.go) under *)
(* the idle watchdog (internal/llm/watchdog.go).  The chain asks one model *)
(* after the other and looks at the first event of each answer; with the   *)
(* first good one it commits and the rest is passed through.  The watchdog *)
(* wraps the channel that Stream returns, so it is on only from then.      *)
(* Without fallbacks (Entries = 1) there is no chain and the watchdog is   *)
(* on from the start (buildChain, cmd/ageni/main.go).                      *)
(*                                                                         *)
(* A provider's answer is the kind of its first event: "content", "done",  *)
(* an error by its class (internal/llm/errors.go), "closed" for a channel  *)
(* closed without one, or nothing at all.                                  *)
(***************************************************************************)
EXTENDS Naturals, Sequences, SequencesExt

CONSTANTS
  Entries,     (* length of the chain                                      *)
  Configured,  (* models named per entry: Model and FallbackModels         *)
  Live         (* further models in a provider's live list                 *)

ChainConstants ==
  Entries \in Nat \ {0} /\ Configured \in Nat \ {0} /\ Live \in Nat

\* "affordable": a 402 that names a number of tokens below the request's.
Fallbackable == {"auth", "rateLimit", "unsupported", "affordable"}
Classes == Fallbackable \cup {"permission", "cancelled"}
Models == 1..(Configured + Live)

VARIABLES
  phase,      (* "entry": head of tryFrom's outer loop; "peek", "capped":   *)
              (* waiting for a first event, the second with fewer tokens;   *)
              (* "stream": committed; "over"                                *)
  entry,      (* tryFrom's i                                                *)
  models,     (* tryFrom's models                                           *)
  pos,        (* tryFrom's mi, from 1                                       *)
  fetched,    (* liveFetched                                                *)
  fits,       (* which entries' context windows the request fits            *)
  canceled,   (* the request's context                                      *)
  asked,      (* history: <<entry, model, capped>>, in order                *)
  outcome     (* what the caller saw last: "none", "content", "done",       *)
              (* "closed", "broken", "idle" or a class                      *)

vars == <<phase, entry, models, pos, fetched, fits, canceled, asked, outcome>>

TypeOK ==
  /\ phase \in {"entry", "peek", "capped", "stream", "over"}
  /\ entry \in 1..Entries
  /\ models \in Seq(Models) /\ pos \in 0..Len(models)
  /\ fetched \in BOOLEAN /\ canceled \in BOOLEAN
  /\ fits \in [1..Entries -> BOOLEAN]
  /\ asked \in Seq((1..Entries) \X Models \X BOOLEAN)
  /\ outcome \in Classes \cup {"none", "content", "done", "closed", "broken", "idle"}

Init ==
  /\ phase = IF Entries = 1 THEN "stream" ELSE "entry"
  /\ entry = 1 /\ models = <<>> /\ pos = 0
  /\ fetched = FALSE /\ canceled = FALSE
  /\ fits \in [1..Entries -> BOOLEAN]
  /\ asked = <<>> /\ outcome = "none"

-----------------------------------------------------------------------------
(* The chain. *)

Ask(i, m, capped) == asked' = Append(asked, <<i, m, capped>>)

\* The pre-flight check; the last entry is asked in any case.
SkipEntry ==
  /\ phase = "entry" /\ ~fits[entry] /\ entry < Entries
  /\ entry' = entry + 1
  /\ UNCHANGED <<phase, models, pos, fetched, fits, canceled, asked, outcome>>

EnterEntry ==
  /\ phase = "entry" /\ (fits[entry] \/ entry = Entries)
  /\ phase' = "peek"
  /\ models' = [m \in 1..Configured |-> m] /\ pos' = 1 /\ fetched' = FALSE
  /\ Ask(entry, 1, FALSE)
  /\ UNCHANGED <<entry, fits, canceled, outcome>>

\* Mutant of FreshModels: the live list as it comes.
WholeLiveList == [m \in Models |-> m]

\* The live list without the models of the queue; the order does not matter here.
FreshModels == SetToSeq(Models \ Range(models))

\* nextModel: the queue goes on, or is extended by the live list, once.
ExtendedModels ==
  IF pos = Len(models) /\ ~fetched THEN models \o FreshModels ELSE models

Rotate ==
  /\ pos < Len(ExtendedModels)
  /\ models' = ExtendedModels
  /\ fetched' = (fetched \/ pos = Len(models))
  /\ pos' = pos + 1
  /\ Ask(entry, models'[pos'], FALSE)
  /\ phase' = "peek"
  /\ UNCHANGED <<entry, outcome>>

CannotRotate == pos = Len(ExtendedModels)

\* On to the next entry, or the caller is given what the last one said.
FallThrough(failure) ==
  /\ IF entry < Entries
       THEN phase' = "entry" /\ entry' = entry + 1 /\ UNCHANGED outcome
       ELSE phase' = "over" /\ outcome' = failure /\ UNCHANGED entry
  /\ UNCHANGED <<models, pos, fetched, asked>>

GiveUp(failure) ==
  /\ phase' = "over" /\ outcome' = failure
  /\ UNCHANGED <<entry, models, pos, fetched, asked>>

Commit(first) ==
  /\ phase' = IF first = "done" THEN "over" ELSE "stream"
  /\ outcome' = first
  /\ UNCHANGED <<entry, models, pos, fetched, asked>>

\* What the first event makes the chain do.
PeekFirst ==
  /\ phase = "peek" /\ ~canceled
  /\ \E first \in {"content", "done", "closed"} \cup (Classes \ {"cancelled"}) :
       \/ first \in {"content", "done"} /\ Commit(first)
       \/ first \in {"unsupported", "closed"} /\ Rotate
       \/ first \in {"unsupported", "closed"} /\ CannotRotate /\ FallThrough(first)
       \/ first \in {"auth", "rateLimit"} /\ FallThrough(first)
       \/ first = "permission" /\ GiveUp(first)
       \/ /\ first = "affordable"
          /\ phase' = "capped" /\ Ask(entry, models[pos], TRUE)
          /\ UNCHANGED <<entry, models, pos, fetched, outcome>>
  /\ UNCHANGED <<fits, canceled>>

\* The retry with fewer tokens is committed to unless it fails, in any way.
PeekCapped ==
  /\ phase = "capped"
  /\ \/ ~canceled /\ \E first \in {"content", "done"} : Commit(first)
     \/ ~canceled /\ FallThrough("affordable")
  /\ UNCHANGED <<fits, canceled>>

\* A cancelled wait; the retry's is taken for a failed retry.
PeekCancelled ==
  /\ canceled
  /\ \/ phase = "peek" /\ GiveUp("cancelled")
     \/ phase = "capped" /\ FallThrough("affordable")
  /\ UNCHANGED <<fits, canceled>>

-----------------------------------------------------------------------------
(* After the commitment, and the rest of the world. *)

\* An error in the middle of an answer is the caller's.
Streamed ==
  /\ phase = "stream"
  /\ \E ev \in {"content", "done", "broken"} :
       /\ outcome' = ev
       /\ phase' = IF ev = "content" THEN "stream" ELSE "over"
  /\ UNCHANGED <<entry, models, pos, fetched, fits, canceled, asked>>

\* Two minutes without an event.
WatchdogFires ==
  /\ phase = "stream"
  /\ phase' = "over" /\ outcome' = "idle"
  /\ UNCHANGED <<entry, models, pos, fetched, fits, canceled, asked>>

Cancel ==
  /\ ~canceled /\ phase # "over"
  /\ canceled' = TRUE
  /\ UNCHANGED <<phase, entry, models, pos, fetched, fits, asked, outcome>>

-----------------------------------------------------------------------------
Provider == PeekFirst \/ PeekCapped \/ Streamed
Step == SkipEntry \/ EnterEntry \/ PeekCancelled

Next == Step \/ Provider \/ WatchdogFires \/ Cancel

Spec == Init /\ [][Next]_vars

\* The chain and the watchdog go on; a provider may stop answering.
FairSpec == Spec /\ WF_vars(Step) /\ WF_vars(WatchdogFires)

-----------------------------------------------------------------------------
(* Properties. *)

\* The chain asks no model of an entry twice, whatever the configured and the
\* live list share, except with fewer tokens; and it gives up on an error that
\* another provider might not have only after the last one.
TriesEachOnce ==
  /\ \A a, b \in DOMAIN asked : a # b => asked[a] # asked[b]
  /\ (phase = "over" /\ asked # <<>> /\ outcome \in Fallbackable)
       => (entry = Entries)

\* What the comment at StreamIdleTimeout says: the watchdog covers hangs before
\* the first token, too.
HangsEnd == <>(phase = "over" \/ outcome = "content")
=============================================================================
