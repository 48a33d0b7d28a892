---------------------------- MODULE MCRequests ----------------------------
(***************************************************************************)
(* What a request to a model is made of, where it goes and what is kept of *)
(* its answer, side by side for TLC: the first-time setup, the fallback    *)
(* chain, the conversion of messages and streamed calls, the session log   *)
(* and its replay, the restored workers and shells, the model registry,    *)
(* the routing of workers, the system prompt, the context of the master,   *)
(* and the configuration with its reload. The components share no          *)
(* variable, so a behaviour is one of one of them, chosen at the start;    *)
(* the others stay as they begin.                                          *)
(***************************************************************************)
EXTENDS Naturals, Sequences

CONSTANTS
  Keyed, Local, ModelNames, Default, Keys, URLs, Settings, MaxWizards,   (* of Setup         *)
  Entries, Configured, Live,                                             (* of Chain         *)
  Api, Pieces, MaxCalls, MaxTurns,                                       (* of Wire          *)
  MaxLines, MaxIds, MaxCrashes, MaxUser, KeepUser,                       (* of SessionLog    *)
  MaxWorkers, MaxShells, MaxLogged, MaxRuns,                             (* of Restore       *)
  Known, SeedOf, Pool, LiveScores, LivePrices, MaxRefreshes,             (* of Models        *)
  Workers, Nodes, FleetMode, PoolSize, Roles, Objectives, MaxStreams,    (* of Routing       *)
  Budget, Fixed, Tags, Names, Bodies,                                    (* of SystemPrompt  *)
  Reporters, Items, MaxEvents, MaxPending,                               (* of MasterContext *)
  GlobalKeys, MaxSaves                                                   (* of Config        *)

(* The larger values of TLC's instance. *)
MCDefault == [cloud |-> "m1", local |-> "m1"]
Seed(id, score, price, caps, window, providers) ==
  [id |-> id, tier |-> "fast", score |-> score, price |-> price, caps |-> caps,
   window |-> window, providers |-> providers]
MCSeeds == [a |-> Seed(1, 4, 2, {}, 1, {"direct", "openrouter"}),
            b |-> Seed(2, 3, 1, {"vision"}, 0, {"openrouter"})]

MCRoles == {[tier |-> "", caps |-> {}], [tier |-> "haiku", caps |-> {"rare"}]}
Objective(length, fences, synthesis, files, retrieval, needs) ==
  [length |-> length, fences |-> fences, synthesis |-> synthesis, files |-> files,
   also |-> 0, retrieval |-> retrieval, trivial |-> 0, needs |-> needs]
MCObjectives == {Objective(0, 0, 0, 0, 0, {}), Objective(10, 0, 0, 0, 1, {"vision"}),
                 Objective(20, 1, 1, 9, 0, {})}
MCTags == <<64, 30, 37, 35, 21>>
MCNames == <<30, 19, 24, 23, 14>>

VARIABLES
  which,   (* the component that this behaviour is one of *)
  file, setupEnv, state, at, existing, answers, used, written, fresh, runs,
  chainPhase, chainEntry, models, pos, fetched, fits, canceled, asked,
  outcome,
  history, wire, wirePhase, pending, wireEmitted, made, turns,
  sessionLogLog, nextSeq, nextID, sessionLogPhase, open, replayed, spawned,
  said, crashes,
  restoreLog, restorePhase, run, restoreNext, live, saying, restored,
  modelsEntry, ranked, modelsPhase, listing, refreshes, covers,
  route, active, call, closing, calls, counter,
  bodies, fixed, systemPromptNext, working, length, systemPromptShown,
  notice,
  life, masterContextEmitted, late, pendingEvs, snap, items, resumed,
  context, told, reclaimed, overtaken,
  exported, project, global, configEnv, configPhase, configNext, chain,
  lead, factory, reread, saves

Setup == INSTANCE Setup WITH MaxRuns <- MaxWizards, env <- setupEnv
Chain == INSTANCE Chain WITH phase <- chainPhase, entry <- chainEntry
Wire == INSTANCE Wire WITH phase <- wirePhase, emitted <- wireEmitted
SessionLog == INSTANCE SessionLog WITH log <- sessionLogLog, phase <- sessionLogPhase
Restore == INSTANCE Restore WITH
  MaxLines <- MaxLogged, log <- restoreLog, phase <- restorePhase, next <- restoreNext
Models == INSTANCE Models WITH
  Configured <- Pool, entry <- modelsEntry, phase <- modelsPhase
Routing == INSTANCE Routing WITH MaxCalls <- MaxStreams
SystemPrompt == INSTANCE SystemPrompt WITH
  next <- systemPromptNext, shown <- systemPromptShown
MasterContext == INSTANCE MasterContext WITH
  Workers <- Reporters, emitted <- masterContextEmitted
Config == INSTANCE Config WITH
  env <- configEnv, phase <- configPhase, next <- configNext

\* What the components ask of their constants.
ASSUME MCRequestsConstants ==
  /\ Setup!SetupConstants /\ Chain!ChainConstants
  /\ Wire!WireConstants /\ SessionLog!SessionLogConstants /\ Restore!RestoreConstants
  /\ Models!ModelsConstants /\ Routing!RoutingConstants /\ SystemPrompt!SystemPromptConstants
  /\ MasterContext!MasterContextConstants /\ Config!ConfigConstants

setupVars == <<file, setupEnv, state, at, existing, answers, used, written, fresh,
  runs>>
chainVars == <<chainPhase, chainEntry, models, pos, fetched, fits, canceled, asked,
  outcome>>
wireVars == <<history, wire, wirePhase, pending, wireEmitted, made, turns>>
sessionLogVars == <<sessionLogLog, nextSeq, nextID, sessionLogPhase, open, replayed,
  spawned, said, crashes>>
restoreVars == <<restoreLog, restorePhase, run, restoreNext, live, saying, restored>>
modelsVars == <<modelsEntry, ranked, modelsPhase, listing, refreshes, covers>>
routingVars == <<route, active, call, closing, calls, counter>>
systemPromptVars == <<bodies, fixed, systemPromptNext, working, length,
  systemPromptShown, notice>>
masterContextVars == <<life, masterContextEmitted, late, pendingEvs, snap, items,
  resumed, context, told, reclaimed, overtaken>>
configVars == <<exported, project, global, configEnv, configPhase, configNext, chain,
  lead, factory, reread, saves>>
vars == <<which, setupVars, chainVars, wireVars, sessionLogVars,
  restoreVars, modelsVars, routingVars, systemPromptVars,
  masterContextVars, configVars>>

Init ==
  /\ which \in {"setup", "chain", "wire", "sessionLog",
                "restore", "models", "routing", "systemPrompt",
                "masterContext", "config"}
  /\ Setup!Init /\ (which # "setup" => file = Setup!Empty)
  /\ Chain!Init /\ (which # "chain" => fits = [i \in 1..Entries |-> TRUE])
  /\ Wire!Init
  /\ SessionLog!Init
  /\ Restore!Init
  /\ Models!Init /\ (which # "models" => modelsEntry = Models!Rescored(CHOOSE e \in Models!seedModels : TRUE))
  /\ Routing!Init
  /\ SystemPrompt!Init /\ (which # "systemPrompt" =>
       fixed = (CHOOSE f \in Fixed : TRUE) /\ bodies = (CHOOSE b \in [1..Len(Tags) -> Bodies] : TRUE))
  /\ MasterContext!Init /\ (which # "masterContext" => ~resumed)
  /\ Config!Init /\ (which # "config" => exported = Config!Unset /\ project = Config!Unset)

\* Only the chosen component moves.
Next ==
  /\ UNCHANGED which
  /\ IF which = "setup" THEN Setup!Next ELSE UNCHANGED setupVars
  /\ IF which = "chain" THEN Chain!Next ELSE UNCHANGED chainVars
  /\ IF which = "wire" THEN Wire!Next ELSE UNCHANGED wireVars
  /\ IF which = "sessionLog" THEN SessionLog!Next ELSE UNCHANGED sessionLogVars
  /\ IF which = "restore" THEN Restore!Next ELSE UNCHANGED restoreVars
  /\ IF which = "models" THEN Models!Next ELSE UNCHANGED modelsVars
  /\ IF which = "routing" THEN Routing!Next ELSE UNCHANGED routingVars
  /\ IF which = "systemPrompt" THEN SystemPrompt!Next ELSE UNCHANGED systemPromptVars
  /\ IF which = "masterContext" THEN MasterContext!Next ELSE UNCHANGED masterContextVars
  /\ IF which = "config" THEN Config!Next ELSE UNCHANGED configVars

Spec == Init /\ [][Next]_vars

--------------------------------------------------------------------------
TypeOK ==
  /\ Chain!TypeOK /\ Wire!TypeOK
  /\ SessionLog!TypeOK /\ Restore!TypeOK /\ Models!TypeOK /\ Routing!TypeOK
  /\ SystemPrompt!TypeOK /\ MasterContext!TypeOK /\ Config!TypeOK
  /\ Setup!TypeOK

\* No model of an entry is asked twice, and the chain gives up on an error that
\* another provider may not have only after its last entry (fallback.go).
TriesEachOnce == Chain!TriesEachOnce

\* A request answers every call and no other, keeps what the user said, and each
\* streamed call is handed on once and whole (the adapters of internal/llm).
RequestIsWhole == Wire!RequestIsComplete /\ Wire!CallsAreWhole

\* What is read back from a session's log fits together: results have their calls,
\* numbers and sequence go on over restarts, no id names a worker or a shell of
\* two runs, and a worker comes back with the end that the log has of it.
LogIsReplayed ==
  /\ SessionLog!ResultsHaveCalls /\ SessionLog!NumbersAreFresh /\ SessionLog!SequenceGrows
  /\ Restore!NamesAreOfOneRun /\ Restore!EndsAreRestored

\* A worker gets the model and the node it should: between refreshes no model of the
\* chosen tier that would do is a better buy, and a node that counts calls has some.
ChoiceIsFair == Models!ChoiceIsBestBuy /\ Routing!QuietFleetIsIdle

\* A turn of the master is told what it must know: of the end of a worker that Esc did not
\* discard, by a line or by its state unless a late pause or resume hides an empty result;
\* it gives back what the worker held until then; and its prompt is over the budget by the
\* notice only.
TurnIsTold ==
  /\ MasterContext!EndIsTold /\ MasterContext!EndedHoldNothing
  /\ SystemPrompt!OverByTheNoticeOnly

\* After a reload the master and its workers run on what the files hold, and nothing
\* that was kept from before runs on a key that is gone (main.go, reload); a start
\* after the setup runs on what the user answered, whatever the file held before.
ReloadReadsFiles == Config!ReloadReadsFiles /\ Setup!AnswersAreUsed
==============================================================================
