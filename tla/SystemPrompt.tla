----------------------------- MODULE SystemPrompt -----------------------------
(***************************************************************************)
(* The master's system prompt (internal/agent/master.go systemPrompt,      *)
(* fitPromptBlocks, truncatePromptContextBlock): the fixed blocks, and     *)
(* between them as much of five optional blocks as the budget holds.       *)
(*                                                                         *)
(* A text is its length in characters; a token is four of them, as in      *)
(* EstimateTokens.  A behaviour is one call: fitPromptBlocks takes the     *)
(* blocks one by one.  The fixed blocks are one length.                    *)
(***************************************************************************)
EXTENDS Integers, Sequences

CONSTANTS Budget,     \* the tokens of the whole prompt: systemPromptBudgetTokens
          Fixed,      \* the lengths the fixed blocks may have
          Tags,       \* the lengths of the optional blocks' opening and closing tags
          Names,      \* the lengths of their names
          Bodies      \* the lengths their bodies may have, 0 for an empty block

N == Len(Tags)

\* The code has five optional blocks; a name is longer than what a notice leaves of its reserve.
SystemPromptConstants ==
    /\ Budget \in Nat /\ Fixed \subseteq Nat /\ Bodies \subseteq Nat
    /\ Tags \in [1..5 -> Nat] /\ Names \in [1..5 -> Nat] /\ \A k \in 1..5 : Names[k] > 6

Marker == 36          \* "... (truncated to fit prompt budget)"
Frame == 138          \* the notice without what it tells
Cut == 43             \* "truncated to fit the system prompt budget: "
Left == 49            \* "omitted to stay within the system prompt budget: "
Also == 7             \* ". Also "
Margin == 32
Headroom == 8

VARIABLES bodies,     \* the bodies of the blocks
          fixed,      \* the length of the fixed blocks
          next,       \* the block fitPromptBlocks comes to
          working,    \* workingBudget
          length,     \* the characters written
          shown,      \* [1..N -> what became of the block]
          notice      \* "open", "given", "none needed" or "no room"

vars == <<bodies, fixed, next, working, length, shown, notice>>

TypeOK ==
    /\ bodies \in [1..N -> Bodies]
    /\ fixed \in Fixed
    /\ next \in 1..N + 1
    /\ working \in Nat /\ length \in Nat
    /\ shown \in [1..N -> {"open", "empty", "whole", "cut", "omitted"}]
    /\ notice \in {"open", "given", "none needed", "no room"}

-----------------------------------------------------------------------------
Tokens(chars) == IF chars < 8 THEN 1 ELSE chars \div 4
Lesser(a, b) == IF a < b THEN a ELSE b

\* A block with its tags and the line breaks around its body.
Rendered(k) == 4 + Tags[k] + bodies[k]

\* The longest cut of block k that fits, 0 when not even its tags and the marker do.
TruncatePromptContextBlock(k, room) ==
    LET bare == 4 + Tags[k] + Marker
        most == 4 * room + 3 - (bare + 1)
    IN CASE room <= 0 \/ Tokens(bare) > room -> 0
         [] room > 0 /\ Tokens(bare) <= room /\ most < 1 -> bare
         [] OTHER -> bare + 1 + Lesser(most, bodies[k])

\* The names of the blocks of a kind, with ", " between them.
Listed(kind) ==
    LET at[k \in 0..N] == IF k = 0 THEN 0 ELSE at[k - 1] + (IF shown[k] = kind THEN Names[k] + 2 ELSE 0)
    IN at[N] - 2
Some(kind) == \E k \in 1..N : shown[k] = kind

NoticeLength ==
    Frame + (IF Some("cut") THEN Cut + Listed("cut") ELSE 0)
          + (IF Some("omitted") THEN Left + Listed("omitted") ELSE 0)
          + (IF Some("cut") /\ Some("omitted") THEN Also ELSE 0)

\* What is set aside for the notice is what a notice without names would take.
NoticeReserve == Tokens(Frame + 47)

OptionalBudget ==
    LET left == Budget - Tokens(fixed) - Margin IN IF left < 0 THEN 0 ELSE left

FitBudget == IF OptionalBudget > Headroom THEN OptionalBudget - Headroom ELSE OptionalBudget

-----------------------------------------------------------------------------
Init ==
    /\ bodies \in [1..N -> Bodies]
    /\ fixed \in Fixed
    /\ next = 1
    /\ working = IF NoticeReserve < FitBudget THEN FitBudget - NoticeReserve ELSE FitBudget
    /\ length = 0
    /\ shown = [k \in 1..N |-> "open"]
    /\ notice = "open"

Writes(chars, as) ==
    /\ length' = length + chars
    /\ working' = working - Tokens(chars)
    /\ shown' = [shown EXCEPT ![next] = as]

\* Mutant: a block is written whole whatever room is left.
FitsAlways(k) == TRUE

Fits(k) == Tokens(Rendered(k)) <= working

\* fitPromptBlocks' loop; without a budget it returns at once.
FitBlock ==
    /\ next <= N
    /\ next' = next + 1
    /\ IF OptionalBudget = 0 \/ bodies[next] = 0
       THEN shown' = [shown EXCEPT ![next] = IF bodies[next] = 0 THEN "empty" ELSE "omitted"]
            /\ UNCHANGED <<working, length>>
       ELSE IF Fits(next) THEN Writes(Rendered(next), "whole")
       ELSE IF TruncatePromptContextBlock(next, working) > 0
       THEN Writes(TruncatePromptContextBlock(next, working), "cut")
       ELSE shown' = [shown EXCEPT ![next] = "omitted"] /\ UNCHANGED <<working, length>>
    /\ UNCHANGED <<bodies, fixed, notice>>

\* The notice is written when it takes no more than what was written and set aside so far.
Notice ==
    /\ next > N
    /\ notice = "open"
    /\ LET told == Some("cut") \/ Some("omitted")
           room == OptionalBudget > 0 /\ Tokens(NoticeLength) <= FitBudget - working
       IN /\ notice' = IF ~told THEN "none needed" ELSE IF room THEN "given" ELSE "no room"
          /\ length' = IF told /\ room THEN length + NoticeLength ELSE length
    /\ UNCHANGED <<bodies, fixed, next, working, shown>>

Next == FitBlock \/ Notice

Spec == Init /\ [][Next]_vars

-----------------------------------------------------------------------------
\* Whatever the sizes, the prompt is over the budget by no more than the notice is over what is
\* set aside for it, unless the fixed blocks are over it by themselves.
OverByTheNoticeOnly ==
    Tokens(fixed) <= Budget =>
        Tokens(fixed + length) <= Budget + (IF notice = "given" THEN Tokens(NoticeLength) - NoticeReserve ELSE 0)

\* "system prompt estimated at %d tokens, want <= %d" (fake_test.go): the prompt is never
\* estimated at more than systemPromptBudgetTokens, unless the fixed blocks alone are.
PromptRespectsBudget ==
    notice # "open" => Tokens(fixed + length) <= Budget \/ Tokens(fixed) > Budget
=============================================================================
