------------------------------ MODULE LlamaDSL ------------------------------
(***************************************************************************)
(* The parser that finds tool calls in the text of a local model           *)
(* (llamaDSLParser, internal/llm/openai.go).  The text arrives in chunks   *)
(* cut anywhere, also inside the marker "@call:", which is here the two    *)
(* characters "@", "c".  A call ends at a newline outside its braces and   *)
(* quotes; "x" is any other character, of a tool name too.                 *)
(*                                                                         *)
(* One chunk is fed at a time; a second parser, which gets the same text   *)
(* in one piece, says what the first should have found.                    *)
(***************************************************************************)
EXTENDS Naturals, Sequences, FiniteSets, SequencesExt

CONSTANT MaxInput   \* bound of the model: characters of the answer

LlamaDSLConstants == MaxInput \in Nat

Chars == {"@", "c", "{", "}", "q", "n", "x"}   \* q: a quote, n: a newline
Marker == <<"@", "c">>

VARIABLES
  parser,    (* the parser of the stream                                    *)
  whole,     (* the parser of the text in one piece                         *)
  ended      (* the stream is over, Flush was called                        *)

vars == <<parser, whole, ended>>

Parsers == [buffer : Seq(Chars), inCall : BOOLEAN, call : Seq(Chars),
            text : Seq(Chars), tools : Seq([name : Seq(Chars), args : Seq(Chars)]),
            read : 0..MaxInput]

TypeOK == parser \in Parsers /\ whole \in Parsers /\ ended \in BOOLEAN

Empty == [buffer |-> <<>>, inCall |-> FALSE, call |-> <<>>, text |-> <<>>,
          tools |-> <<>>, read |-> 0]

Init == parser = Empty /\ whole = Empty /\ ended = FALSE

-----------------------------------------------------------------------------
\* The quotes before position i of s.
InString(s, i) == Cardinality({k \in 1..(i - 1) : s[k] = "q"}) % 2 = 1

Count(s, c) == Cardinality({k \in DOMAIN s : s[k] = c /\ ~InString(s, k)})

\* Where the arguments of a call begin, 0 when it has none.
Brace(s) == SelectInSeq(s, LAMBDA c : c = "{")

\* isCallComplete, of the part from the first brace on.
IsCallComplete(s) ==
  /\ Contains(s, "{")
  /\ LET json == SubSeq(s, Brace(s), Len(s))
     IN Count(json, "{") <= Count(json, "}") /\ ~InString(json, Len(json) + 1)

\* The tool of a call, none when it has no arguments.
Tools(call) ==
  LET brace == Brace(call)
  IN IF brace = 0 THEN <<>>
     ELSE <<[name |-> SubSeq(call, 1, brace - 1), args |-> SubSeq(call, brace, Len(call))]>>

EmitBuffer(p) == [p EXCEPT !.text = @ \o p.buffer, !.buffer = <<>>]

\* A character outside a call: "@" begins a marker; what cannot become one is
\* text.
TextChar(p, c) ==
  LET q == IF c = "@" THEN [EmitBuffer(p) EXCEPT !.buffer = <<c>>]
           ELSE [p EXCEPT !.buffer = Append(@, c)]
  IN IF q.buffer = Marker THEN [q EXCEPT !.buffer = <<>>, !.inCall = TRUE, !.call = <<>>]
     ELSE IF q.buffer[1] = "@" /\ ~IsPrefix(q.buffer, Marker) THEN EmitBuffer(q)
     ELSE q

CallChar(p, c) ==
  IF c = "n" /\ (~Contains(p.call, "{") \/ IsCallComplete(p.call))
    THEN [p EXCEPT !.inCall = FALSE, !.call = <<>>, !.buffer = <<>>,
                   !.tools = @ \o Tools(p.call)]
    ELSE [p EXCEPT !.call = Append(@, c)]

Char(p, c) == [(IF p.inCall THEN CallChar(p, c) ELSE TextChar(p, c)) EXCEPT !.read = @ + 1]

\* Mutant of ChunkEnd: all text is shown at once.
ChunkEndShowsAll(p) == IF p.inCall THEN p ELSE EmitBuffer(p)

\* The end of Feed: text is shown at once, the beginning of a marker is kept.
ChunkEnd(p) == IF p.inCall \/ IsPrefix(p.buffer, Marker) THEN p ELSE EmitBuffer(p)

\* Flush: an unfinished call is one.
Flushed(p) ==
  IF p.inCall
    THEN [p EXCEPT !.inCall = FALSE, !.call = <<>>, !.buffer = <<>>,
                   !.tools = @ \o Tools(p.call)]
    ELSE EmitBuffer(p)

-----------------------------------------------------------------------------
\* The next character of the stream, and whether its chunk ends with it.
Feed ==
  /\ ~ended /\ parser.read < MaxInput
  /\ \E c \in Chars :
       /\ parser' \in {Char(parser, c), ChunkEnd(Char(parser, c))}
       /\ whole' = Char(whole, c)
  /\ UNCHANGED ended

Flush ==
  /\ ~ended /\ ended' = TRUE
  /\ parser' = Flushed(parser)
  /\ whole' = Flushed(ChunkEnd(whole))

Next == Feed \/ Flush
Spec == Init /\ [][Next]_vars

-----------------------------------------------------------------------------
(* The user sees the same text and the same tools run however the provider  *)
(* cuts the answer: a marker or a call over several chunks is found, text   *)
(* that only begins like a marker is not lost.                              *)
CutsDoNotMatter ==
  ended => parser = whole
=============================================================================
