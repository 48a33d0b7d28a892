----------------------------- MODULE ThinkStripper -----------------------------
(***************************************************************************)
(* The filter that takes a local model's thoughts out of its text          *)
(* (internal/agent/subagent.go, thinkStripper): the text between <think>   *)
(* and </think> is dropped, wherever the stream cuts it into pieces.       *)
(*                                                                         *)
(* The tags are written in three characters each: <, t, > and <, /, >.     *)
(* What matters is kept: both begin with the same character, which is      *)
(* nowhere else in them, and neither is a part of the other.               *)
(***************************************************************************)
EXTENDS Naturals, Sequences, SequencesExt

CONSTANT MaxInput   (* bound of the model: characters of an answer *)

Open == <<"<", "t", ">">>
Close == <<"<", "/", ">">>
Chars == {"<", "/", "t", ">"}

VARIABLES
  inThink, buf,   (* the fields of thinkStripper                           *)
  shown,          (* what Feed and Flush have returned                     *)
  whole,          (* the answer so far, as the model wrote it              *)
  ended           (* Flush has been called                                 *)

vars == <<inThink, buf, shown, whole, ended>>

TypeOK ==
  /\ inThink \in BOOLEAN /\ ended \in BOOLEAN
  /\ buf \in Seq(Chars) /\ shown \in Seq(Chars) /\ whole \in Seq(Chars)

Init == inThink = FALSE /\ buf = <<>> /\ shown = <<>> /\ whole = <<>> /\ ended = FALSE

-----------------------------------------------------------------------------
Tag(in) == IF in THEN Close ELSE Open
Starts(text, tag) == {k \in 1..Len(text) : IsPrefix(tag, SubSeq(text, k, Len(text)))}
Index(text, tag) == CHOOSE k \in Starts(text, tag) : \A j \in Starts(text, tag) : k <= j

\* How much of the end may be the beginning of the tag: the shortest that is.
Keep(text, tag) ==
  LET fits == {n \in 1..(Len(tag) - 1) : n <= Len(text) /\ IsSuffix(SubSeq(tag, 1, n), text)}
  IN  IF fits = {} THEN 0 ELSE CHOOSE n \in fits : \A m \in fits : n <= m

\* Mutant of Kept: what may be the beginning of a tag is not held back.
KeptNothing(in, text) == [in |-> in, buf |-> <<>>, out |-> IF in THEN <<>> ELSE text]

\* The last round of Feed: no tag is left.
Kept(in, text) ==
  LET n == Len(text) - Keep(text, Tag(in)) IN
  [in |-> in, buf |-> SubSeq(text, n + 1, Len(text)), out |-> IF in THEN <<>> ELSE SubSeq(text, 1, n)]

\* One round of Feed: a tag is taken out and what comes before it is shown, if it is
\* no thought.
Round(r) ==
  IF Starts(r.buf, Tag(r.in)) = {} THEN r
  ELSE LET at == Index(r.buf, Tag(r.in)) IN
       [in |-> ~r.in, buf |-> SubSeq(r.buf, at + Len(Tag(r.in)), Len(r.buf)),
        out |-> r.out \o (IF r.in THEN <<>> ELSE SubSeq(r.buf, 1, at - 1))]

\* The rounds of Feed, until no tag is left: each takes some of the text.
Rounds(in, text) ==
  LET after[k \in 0..Len(text)] ==
        IF k = 0 THEN [in |-> in, buf |-> text, out |-> <<>>] ELSE Round(after[k - 1])
      r == after[Len(text)]
      rest == Kept(r.in, r.buf)
  IN [rest EXCEPT !.out = r.out \o @]

Feed(delta) ==
  /\ ~ended /\ Len(whole) + Len(delta) <= MaxInput
  /\ LET r == Rounds(inThink, buf \o delta) IN
       inThink' = r.in /\ buf' = r.buf /\ shown' = shown \o r.out
  /\ whole' = whole \o delta
  /\ UNCHANGED ended

Flush ==
  /\ ~ended
  /\ shown' = IF inThink THEN shown ELSE shown \o buf
  /\ ended' = TRUE
  /\ UNCHANGED <<inThink, buf, whole>>

Next == Flush \/ \E n \in 1..2 : \E delta \in [1..n -> Chars] : Feed(delta)

Spec == Init /\ [][Next]_vars

-----------------------------------------------------------------------------
\* What an answer is without its thoughts, read from its first character to its
\* last: position k is a thought or part of a tag, or it is shown.
Text(text) ==
  LET \* where the reading stands after k characters: outside, inside, and the
      \* characters to skip before the next one counts
      state[k \in 0..Len(text)] ==
        IF k = 0 THEN [in |-> FALSE, skip |-> 0, out |-> <<>>]
        ELSE LET s == state[k - 1] IN
             IF s.skip > 0 THEN [s EXCEPT !.skip = @ - 1]
             ELSE IF k \in Starts(text, Tag(s.in))
                  THEN [s EXCEPT !.in = ~@, !.skip = Len(Tag(s.in)) - 1]
                  ELSE IF s.in THEN s ELSE [s EXCEPT !.out = Append(@, text[k])]
  IN  state[Len(text)].out

\* Wherever the stream is cut, what has been shown at the end is the answer
\* without its thoughts, and what is shown before is never taken back: no piece of
\* a tag, no character of a thought, and no character of the answer is lost.
ThoughtsAreTakenOut ==
  IF ended THEN shown = Text(whole) ELSE IsPrefix(shown, Text(whole \o <<"x">>))
=============================================================================
