------------------------------- MODULE Models -------------------------------
(***************************************************************************)
(* The registry of models (internal/models/registry.go), the updater that  *)
(* refreshes it (updater.go, fetch.go), and the choice of a model for a    *)
(* worker's task (BestForTask, cmd/ageni/main.go pickForTask).             *)
(*                                                                         *)
(* A refresh asks two services and then changes the registry in seven      *)
(* calls, each under the registry's lock, so that a worker may be given    *)
(* its model between any two of them.  Names of models at the services are *)
(* taken as resolved; the input and output prices of a model are one       *)
(* number, and scores and prices are small integers.                       *)
(***************************************************************************)
EXTENDS Integers, FiniteSets, Sequences, Functions

CONSTANTS Known,         \* the models of the seed data
          SeedOf,        \* [Known -> the seed entry of the model]
          Configured,    \* the providers of the sub-agent pool
          LiveScores,    \* the scores a benchmark may report
          LivePrices,    \* the prices a listing may report, 0 for none
          MaxRefreshes   \* bounds the refreshes

ModelsConstants ==
    /\ IsFiniteSet(Known)
    /\ \A m \in Known : /\ {SeedOf[m].id, SeedOf[m].score, SeedOf[m].price, SeedOf[m].window} \subseteq Nat
                        /\ SeedOf[m].caps \subseteq {"vision", "reasoning"} /\ IsFiniteSet(SeedOf[m].providers)
    /\ \A m, n \in Known : SeedOf[m].id = SeedOf[n].id => m = n
    /\ LiveScores \subseteq Nat /\ LivePrices \subseteq Nat /\ MaxRefreshes \in Nat

OpenRouter == "openrouter"
TierOrder == <<"tiny", "fast", "mid", "flagship">>
Caps == {"vision", "reasoning"}

VARIABLES entry,      \* the registry's models: [Known -> the model]
          ranked,     \* the models by blended score, as last computed
          phase,      \* the step of the refresh, "rest" between refreshes
          listing,    \* what the listing service returned, by model
          refreshes,  \* the refreshes begun
          covers      \* whether it listed any model, one of the registry or another

vars == <<entry, ranked, phase, listing, refreshes, covers>>

Refreshing == <<"aider", "fetch", "availability", "pricing", "capabilities", "windows", "thinking", "params">>

TypeOK ==
    /\ \A m \in Known :
         /\ entry[m].scores \in [{"aider", "seed"} -> Nat]
         /\ {entry[m].price, entry[m].thinking, entry[m].blended, entry[m].window} \subseteq Nat
         /\ entry[m].roi \in Nat \X Nat
         /\ entry[m].caps \subseteq Caps
    /\ Len(ranked) = Cardinality(Known)
    /\ Range(ranked) = Known
    /\ phase \in Range(Refreshing) \cup {"rest"}
    /\ DOMAIN listing \subseteq Known
    /\ refreshes \in 0..MaxRefreshes
    /\ covers \in BOOLEAN

-----------------------------------------------------------------------------
(* Scores are in fifths and costs in tenths; 0 stands for unknown. *)

Blend(scores) ==
    IF scores["aider"] > 0 /\ scores["seed"] > 0 THEN 3 * scores["aider"] + 2 * scores["seed"]
    ELSE 5 * (scores["aider"] + scores["seed"])

EffectiveCost(m) == IF m.thinking > 0 THEN 9 * m.price + m.thinking ELSE 10 * m.price

\* The return on investment, as a fraction; <<0, 1>> when it is not known.
ROI(m) ==
    IF EffectiveCost(m) > 0 /\ Blend(m.scores) > 0 THEN <<2 * Blend(m.scores), EffectiveCost(m)>> ELSE <<0, 1>>

More(a, b) == a[1] * b[2] > b[1] * a[2]

Rescored(e) == [m \in Known |-> [e[m] EXCEPT !.blended = Blend(e[m].scores), !.roi = ROI(e[m])]]

\* Ties are broken by the id; the order of the seed entries stands for it.
Before(e, m, n) ==
    \/ e[m].blended > e[n].blended
    \/ e[m].blended = e[n].blended /\ SeedOf[m].id < SeedOf[n].id

Ranking(e) ==
    CHOOSE s \in [1..Cardinality(Known) -> Known] :
        \A i, j \in DOMAIN s : i < j => Before(e, s[i], s[j])

\* What recomputeUnsafe leaves of the registry e.
Recompute(e) == entry' = Rescored(e) /\ ranked' = Ranking(Rescored(e))

-----------------------------------------------------------------------------
(* The choice of a model *)

TierRank(tier) == CHOOSE i \in DOMAIN TierOrder : TierOrder[i] = tier

\* The first available provider of the model among the given ones, "" for none.
ServedBy(e, m, providers) ==
    LET place == e[m].available
        found == DOMAIN place \cap providers
    IN IF found = {} THEN "" ELSE CHOOSE p \in found : \A q \in found : place[p] <= place[q]

Candidates(e, req, providers, tier) ==
    {m \in Known : /\ SeedOf[m].tier = tier
                   /\ req.tokens > 0 /\ e[m].window > 0 => e[m].window >= req.tokens
                   /\ req.caps \subseteq e[m].caps
                   /\ ServedBy(e, m, providers) # ""}

\* What candidates are compared by: the blended score stands in for an unknown return.
Merit(m, cheap) == IF ~cheap \/ m.roi[1] = 0 THEN <<m.blended, 5>> ELSE m.roi

\* The models BestForTask may return: at most one, from the lowest tier that has a candidate.
BestForTask(e, order, req, providers) ==
    LET tiers == {i \in DOMAIN TierOrder : i >= TierRank(req.tier)
                                           /\ Candidates(e, req, providers, TierOrder[i]) # {}}
        found == Candidates(e, req, providers, TierOrder[CHOOSE i \in tiers : \A j \in tiers : i <= j])
        at(m) == CHOOSE i \in DOMAIN order : order[i] = m
        better(m, n) == LET a == Merit(e[m], req.cheap)
                            b == Merit(e[n], req.cheap)
                        IN More(a, b) \/ (~More(b, a) /\ at(m) < at(n))
    IN IF tiers = {} THEN {} ELSE {m \in found : \A n \in found \ {m} : better(m, n)}

-----------------------------------------------------------------------------

\* The seed entry of m, its providers in the order a map happened to give them: the list of
\* available providers is kept as the place of each in it.
Seeded(m, place) ==
    [scores |-> [aider |-> 0, seed |-> SeedOf[m].score], price |-> SeedOf[m].price, thinking |-> 0, blended |-> 0,
     roi |-> <<0, 1>>, caps |-> SeedOf[m].caps, window |-> SeedOf[m].window, available |-> place]

\* The places of the providers S in a list of them.
Orders(S) == {place \in [S -> 1..Cardinality(S)] : \A p, q \in S : place[p] = place[q] => p = q}

seedModels ==
    {[m \in Known |-> Seeded(m, order[m])] :
        order \in {o \in [Known -> UNION {Orders(SeedOf[m].providers) : m \in Known}] :
                     \A m \in Known : o[m] \in Orders(SeedOf[m].providers)}}

Init ==
    /\ \E e \in seedModels : entry = Rescored(e) /\ ranked = Ranking(Rescored(e))
    /\ phase = "rest"
    /\ listing = << >>
    /\ refreshes = 0
    /\ covers = FALSE

Refresh ==
    /\ phase = "rest"
    /\ refreshes < MaxRefreshes
    /\ refreshes' = refreshes + 1
    /\ phase' = "aider"
    /\ UNCHANGED <<entry, ranked, listing, covers>>

\* The highest of the scores a model ever had is kept.
ApplyAiderScores ==
    /\ phase = "aider"
    /\ phase' = "fetch"
    /\ \E named \in SUBSET Known : \E score \in [named -> LiveScores] :
         Recompute([m \in Known |->
             IF m \in named /\ score[m] > entry[m].scores["aider"]
             THEN [entry[m] EXCEPT !.scores["aider"] = score[m]] ELSE entry[m]])
    /\ UNCHANGED <<listing, refreshes, covers>>

AiderFetchFails ==
    /\ phase = "aider"
    /\ phase' = "fetch"
    /\ UNCHANGED <<entry, ranked, listing, refreshes, covers>>

\* An entry of the listing: its price, the price of its thinking, what it accepts, and its window.
Offers == [price : LivePrices, thinking : LivePrices, caps : {{}, Caps}, window : {0, 2}]

FetchOpenRouterAvailability ==
    /\ phase = "fetch"
    /\ phase' = "availability"
    /\ \E listed \in SUBSET {m \in Known : OpenRouter \in SeedOf[m].providers} :
         listing' \in [listed -> Offers] /\ covers' \in BOOLEAN /\ (listed # {} => covers')
    /\ UNCHANGED <<entry, ranked, refreshes>>

ListingFetchFails ==
    /\ phase = "fetch"
    /\ phase' = "rest"
    /\ UNCHANGED <<entry, ranked, listing, refreshes, covers>>

\* An empty listing covers no provider and takes nothing away; any other, also one of models that
\* the registry does not know, takes its provider from every model, and puts it after the others
\* of those that it lists.
Availability(m) ==
    LET place == entry[m].available
        kept == (DOMAIN place \ {OpenRouter}) \cup (IF m \in DOMAIN listing THEN {OpenRouter} ELSE {})
    IN IF ~covers THEN place
       ELSE [p \in kept |-> IF p = OpenRouter THEN Cardinality(SeedOf[m].providers) + 1 ELSE place[p]]

ApplyAvailability ==
    /\ phase = "availability"
    /\ phase' = "pricing"
    /\ Recompute([m \in Known |-> [entry[m] EXCEPT !.available = Availability(m)]])
    /\ UNCHANGED <<listing, refreshes, covers>>

\* The returns are not computed again here: ApplyThinkingPricing does.
ApplyPricing ==
    /\ phase = "pricing"
    /\ phase' = "capabilities"
    /\ entry' = [m \in Known |-> IF m \in DOMAIN listing /\ listing[m].price > 0
                                 THEN [entry[m] EXCEPT !.price = listing[m].price] ELSE entry[m]]
    /\ UNCHANGED <<ranked, listing, refreshes, covers>>

\* Capabilities are only ever added: vision here, reasoning from the supported parameters.
Gains(cap) ==
    entry' = [m \in Known |-> IF m \in DOMAIN listing
                              THEN [entry[m] EXCEPT !.caps = @ \cup (listing[m].caps \cap {cap})] ELSE entry[m]]

ApplyCapabilities ==
    /\ phase = "capabilities"
    /\ phase' = "windows"
    /\ Gains("vision")
    /\ UNCHANGED <<ranked, listing, refreshes, covers>>

ApplyWindowSizes ==
    /\ phase = "windows"
    /\ phase' = "thinking"
    /\ entry' = [m \in Known |-> IF m \in DOMAIN listing /\ listing[m].window > 0
                                 THEN [entry[m] EXCEPT !.window = listing[m].window] ELSE entry[m]]
    /\ UNCHANGED <<ranked, listing, refreshes, covers>>

WithThinking ==
    [m \in Known |-> IF m \in DOMAIN listing /\ listing[m].thinking > 0
                     THEN [entry[m] EXCEPT !.thinking = listing[m].thinking] ELSE entry[m]]

\* Mutant: the prices are stored and nothing is computed again.
ThinkingPricingStored ==
    /\ phase = "thinking"
    /\ phase' = "params"
    /\ entry' = WithThinking
    /\ UNCHANGED <<ranked, listing, refreshes, covers>>

ApplyThinkingPricing ==
    /\ phase = "thinking"
    /\ phase' = "params"
    /\ Recompute(WithThinking)
    /\ UNCHANGED <<listing, refreshes, covers>>

ApplySupportedParams ==
    /\ phase = "params"
    /\ phase' = "rest"
    /\ Gains("reasoning")
    /\ UNCHANGED <<ranked, listing, refreshes, covers>>

Next ==
    \/ Refresh \/ ApplyAiderScores \/ AiderFetchFails \/ FetchOpenRouterAvailability \/ ListingFetchFails
    \/ ApplyAvailability \/ ApplyPricing \/ ApplyCapabilities \/ ApplyWindowSizes \/ ApplyThinkingPricing
    \/ ApplySupportedParams

Spec == Init /\ [][Next]_vars

-----------------------------------------------------------------------------
Requirements == [tier : {"fast", "mid"}, tokens : {0, 2}, caps : {{}, {"vision"}}, cheap : {TRUE}]

\* Between refreshes the model chosen for a task is the best buy at the prices the registry holds:
\* no other model of its tier that would do for the task returns more for its price, and the
\* choice is served, by a provider of the pool that the seed data names or the last listing lists.
\* (The choice reads returns that only some of a refresh's calls compute again.)
ChoiceIsBestBuy ==
    phase = "rest" =>
        \A req \in Requirements : \A m \in BestForTask(entry, ranked, req, Configured) :
            /\ \A n \in Candidates(entry, req, Configured, SeedOf[m].tier) :
                 (ROI(entry[m])[1] > 0 /\ ROI(entry[n])[1] > 0) => ~More(ROI(entry[n]), ROI(entry[m]))
            /\ ServedBy(entry, m, Configured) = OpenRouter =>
                 refreshes = 0 \/ m \in DOMAIN listing \/ ~covers

=============================================================================
