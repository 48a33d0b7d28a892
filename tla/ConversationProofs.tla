------------------------- MODULE ConversationProofs -------------------------
(***************************************************************************)
(* What the operators of Conversation do to any history, of any length:    *)
(* how Nth enumerates a set of indices; what appending a message or a      *)
(* result, cutting a history and repairing it do to the pairs of calls and *)
(* results. The proofs about both loops rest on these lemmas.              *)
(*                                                                         *)
(* CallsAnswered and ResultsHaveCalls count over a whole history.          *)
(* AnsweredIff and OrphansIff turn them into facts about the messages at   *)
(* single indices, which the other lemmas carry from one history to the    *)
(* next.                                                                   *)
(***************************************************************************)
EXTENDS Conversation, FiniteSetTheorems, SequenceTheorems, TLAPS

\* The enumeration of a finite set of integers in its order is unique.
LEMMA NthUnique ==
  ASSUME NEW S \in SUBSET Int, NEW n \in Nat, NEW f \in [1..n -> S],
         \A i, j \in 1..n : i < j => f[i] < f[j],
         \A x \in S : \E i \in 1..n : f[i] = x
  PROVE  /\ IsFiniteSet(S)
         /\ Cardinality(S) = n
         /\ \A k \in 1..n : Nth(S, k) = f[k]
<1>0. \A i \in 1..n : f[i] \in S /\ f[i] \in Int
  OBVIOUS
<1>1. f \in Bijection(1..n, S)
  <2>1. ASSUME NEW i \in 1..n, NEW j \in 1..n, f[i] = f[j]
        PROVE  i = j
    <3>1. ~(i < j) /\ ~(j < i)
      BY <1>0, <2>1
    <3> QED
      BY <3>1
  <2> QED
    BY <2>1 DEF Bijection, Injection, Surjection, IsInjective
<1>2. IsFiniteSet(S) /\ Cardinality(S) = n
  <2>1. IsFiniteSet(1..n) /\ Cardinality(1..n) = n
    BY FS_Interval
  <2>2. ExistsBijection(1..n, S)
    BY <1>1 DEF ExistsBijection
  <2> QED
    BY <2>1, <2>2, FS_Bijection
<1>3. ASSUME NEW k \in 1..n
      PROVE  Cardinality({j \in S : j <= f[k]}) = k
  <2> DEFINE T == {j \in S : j <= f[k]}
             g == [i \in 1..k |-> f[i]]
  <2>1. g \in Bijection(1..k, T)
    <3>1. ASSUME NEW i \in 1..k
          PROVE  g[i] = f[i] /\ i \in 1..n /\ f[i] \in T
      <4>1. i \in 1..n /\ (i < k \/ i = k)
        OBVIOUS
      <4>2. f[i] <= f[k]
        BY <1>0, <4>1
      <4> QED
        BY <1>0, <4>1, <4>2
    <3>2. ASSUME NEW x \in T
          PROVE  \E i \in 1..k : g[i] = x
      <4>1. PICK i \in 1..n : f[i] = x
        OBVIOUS
      <4>2. ~(k < i)
        BY <1>0, <4>1
      <4> QED
        BY <4>1, <4>2
    <3>3. \A i, j \in 1..k : g[i] = g[j] => i = j
      BY <1>1, <3>1 DEF Bijection, Injection, IsInjective
    <3>4. g \in [1..k -> T]
      BY <3>1
    <3> QED
      BY <3>2, <3>3, <3>4 DEF Bijection, Injection, Surjection, IsInjective
  <2>2. ExistsBijection(1..k, T)
    BY <2>1 DEF ExistsBijection
  <2>3. IsFiniteSet(1..k) /\ Cardinality(1..k) = k
    BY FS_Interval
  <2> QED
    BY <2>2, <2>3, FS_Bijection
<1>4. ASSUME NEW k \in 1..n
      PROVE  Nth(S, k) = f[k]
  <2>1. f[k] \in S /\ Cardinality({j \in S : j <= f[k]}) = k
    BY <1>3
  <2>2. ASSUME NEW x \in S, Cardinality({j \in S : j <= x}) = k
        PROVE  x = f[k]
    <3>1. PICK i \in 1..n : f[i] = x
      OBVIOUS
    <3> QED
      BY <1>3, <2>2, <3>1
  <2> QED
    BY <2>1, <2>2 DEF Nth
<1> QED
  BY <1>2, <1>4

\* Every finite set of integers is enumerated by Nth: in order, and all of it.
LEMMA NthEnumerates ==
  ASSUME NEW S \in SUBSET Int, IsFiniteSet(S)
  PROVE  /\ Cardinality(S) \in Nat
         /\ \A k \in 1..Cardinality(S) :
              /\ Nth(S, k) \in S
              /\ Cardinality({j \in S : j <= Nth(S, k)}) = k
         /\ \A i, j \in 1..Cardinality(S) : i < j => Nth(S, i) < Nth(S, j)
         /\ \A x \in S : \E k \in 1..Cardinality(S) : Nth(S, k) = x
<1> DEFINE n == Cardinality(S)
           Below(x) == {j \in S : j <= x}
           rank == [x \in S |-> Cardinality(Below(x))]
<1>1. n \in Nat
  BY FS_CardinalityType
<1>2. \A x \in S : IsFiniteSet(Below(x)) /\ rank[x] \in Nat /\ rank[x] \in 1..n
  <2> SUFFICES ASSUME NEW x \in S
               PROVE  IsFiniteSet(Below(x)) /\ rank[x] \in Nat /\ rank[x] \in 1..n
    OBVIOUS
  <2>1. Below(x) \in SUBSET S
    OBVIOUS
  <2>2. IsFiniteSet(Below(x)) /\ Cardinality(Below(x)) <= n
    BY <2>1, FS_Subset
  <2>3. Cardinality(Below(x)) \in Nat
    BY <2>2, FS_CardinalityType
  <2>4. Cardinality(Below(x)) # 0
    <3>1. x \in Below(x)
      OBVIOUS
    <3> QED
      BY <2>2, <3>1, FS_EmptySet
  <2> QED
    BY <1>1, <2>2, <2>3, <2>4
<1>3. ASSUME NEW x \in S, NEW y \in S, x < y
      PROVE  rank[x] < rank[y]
  <2>1. Below(x) \in SUBSET Below(y) /\ y \in Below(y) /\ y \notin Below(x)
    <3>1. \A z \in S : z \in Int
      OBVIOUS
    <3>2. \A z \in S : z <= x => z <= y
      BY <1>3, <3>1
    <3>3. ~(y <= x) /\ y <= y
      BY <1>3, <3>1
    <3> QED
      BY <3>2, <3>3
  <2>2. Cardinality(Below(x)) <= Cardinality(Below(y))
    BY <1>2, <2>1, FS_Subset
  <2>3. Cardinality(Below(x)) # Cardinality(Below(y))
    BY <1>2, <2>1, FS_Subset
  <2> QED
    BY <1>2, <2>2, <2>3
<1>4. rank \in Injection(S, 1..n)
  <2>1. rank \in [S -> 1..n]
    BY <1>2
  <2>2. \A x, y \in S : rank[x] = rank[y] => x = y
    <3> SUFFICES ASSUME NEW x \in S, NEW y \in S, rank[x] = rank[y], x # y
                 PROVE  FALSE
      OBVIOUS
    <3>1. x < y \/ y < x
      OBVIOUS
    <3> QED
      BY <1>2, <1>3, <3>1
  <2> QED
    BY <2>1, <2>2 DEF Injection, IsInjective
<1>5. rank \in Surjection(S, 1..n)
  <2>1. IsFiniteSet(1..n) /\ Cardinality(1..n) = n
    BY <1>1, FS_Interval
  <2> QED
    BY <1>4, <2>1, FS_Injection
<1>6. ASSUME NEW k \in 1..n
      PROVE  Nth(S, k) \in S /\ rank[Nth(S, k)] = k
  <2>1. \E x \in S : rank[x] = k
    BY <1>5 DEF Surjection
  <2>2. \E x \in S : Cardinality({j \in S : j <= x}) = k
    BY <2>1
  <2>3. Nth(S, k) \in S /\ Cardinality({j \in S : j <= Nth(S, k)}) = k
    BY <2>2 DEF Nth
  <2> QED
    BY <2>3
<1>7. \A x \in S : \E k \in 1..n : Nth(S, k) = x
  <2> SUFFICES ASSUME NEW x \in S
               PROVE  \E k \in 1..n : Nth(S, k) = x
    OBVIOUS
  <2>1. rank[x] \in 1..n /\ rank[Nth(S, rank[x])] = rank[x] /\ Nth(S, rank[x]) \in S
    BY <1>2, <1>6
  <2> QED
    BY <1>4, <2>1 DEF Injection, IsInjective
<1>8. \A i, j \in 1..n : i < j => Nth(S, i) < Nth(S, j)
  <2> SUFFICES ASSUME NEW i \in 1..n, NEW j \in 1..n, i < j
               PROVE  Nth(S, i) < Nth(S, j)
    OBVIOUS
  <2>1. /\ Nth(S, i) \in S /\ rank[Nth(S, i)] = i
        /\ Nth(S, j) \in S /\ rank[Nth(S, j)] = j
    BY <1>6
  <2>2. Nth(S, i) \in Int /\ Nth(S, j) \in Int
    BY <2>1
  <2> QED
    BY <1>3, <2>1, <2>2
<1> QED
  BY <1>1, <1>6, <1>7, <1>8

\* An element of such a set is the n-th from the top for every n it has elements for.
LEMMA LastFromIsIn ==
  ASSUME NEW S \in SUBSET Int, IsFiniteSet(S), NEW n \in 1..Cardinality(S)
  PROVE  LastFrom(S, n) \in S
<1>1. Cardinality(S) \in Nat /\ Cardinality(S) + 1 - n \in 1..Cardinality(S)
  BY NthEnumerates
<1> QED
  BY <1>1, NthEnumerates DEF LastFrom

\* Neighbours in the set are neighbours in its enumeration.
LEMMA NthConsecutive ==
  ASSUME NEW S \in SUBSET Int, IsFiniteSet(S), NEW p \in 1..Cardinality(S),
         NEW d \in Nat, Nth(S, p) + 1 .. Nth(S, p) + d \in SUBSET S
  PROVE  p + d <= Cardinality(S) /\ Nth(S, p + d) = Nth(S, p) + d
<1> DEFINE i == Nth(S, p)
           Below(x) == {j \in S : j <= x}
<1>1. Cardinality(S) \in Nat /\ i \in S /\ i \in Int /\ Cardinality(Below(i)) = p
  BY NthEnumerates
<1>2. i + d \in S
  <2>1. CASE d = 0
    BY <1>1, <2>1
  <2>2. CASE d > 0
    <3>1. i + d \in i + 1 .. i + d
      BY <1>1, <2>2
    <3> QED
      BY <3>1
  <2> QED
    BY <2>1, <2>2
<1>3. PICK q \in 1..Cardinality(S) : Nth(S, q) = i + d
  BY <1>2, NthEnumerates
<1>4. Cardinality(Below(i + d)) = q
  BY <1>3, NthEnumerates
<1>5. Below(i + d) = Below(i) \cup (i + 1 .. i + d)
  <2>1. \A x \in S : x \in Int
    OBVIOUS
  <2>2. \A x \in S : x <= i + d <=> x <= i \/ x \in i + 1 .. i + d
    BY <1>1, <2>1
  <2> QED
    BY <2>2
<1>6. Below(i) \cap (i + 1 .. i + d) = {}
  BY <1>1
<1>7. IsFiniteSet(i + 1 .. i + d) /\ Cardinality(i + 1 .. i + d) = d
  <2>1. i + 1 \in Int /\ i + d \in Int
    BY <1>1
  <2>2. (IF i + 1 > i + d THEN 0 ELSE (i + d) - (i + 1) + 1) = d
    BY <1>1
  <2> HIDE DEF i
  <2> QED
    BY <2>1, <2>2, FS_Interval
<1>8. IsFiniteSet(Below(i))
  BY FS_Subset
<1>9. q = p + d
  <2>1. Cardinality(Below(i) \cup (i + 1 .. i + d)) = p + d - Cardinality(Below(i) \cap (i + 1 .. i + d))
    BY <1>1, <1>7, <1>8, FS_Union
  <2>2. Cardinality(Below(i) \cap (i + 1 .. i + d)) = 0
    BY <1>6, FS_EmptySet
  <2> QED
    BY <1>4, <1>5, <2>1, <2>2
<1> QED
  BY <1>1, <1>3, <1>9

-----------------------------------------------------------------------------
\* Histories of messages with any number of calls.
History == Seq([role : {"user", "assistant", "tool"}, calls : Nat, msg : Nat])

\* The histories of a bounded instance are such histories.
LEMMA HistoryType ==
  ASSUME NEW maxCalls \in Nat, NEW maxMsg \in Nat,
         NEW h \in Seq(Message(maxCalls, maxMsg))
  PROVE  h \in History
<1>1. Message(maxCalls, maxMsg) \subseteq [role : {"user", "assistant", "tool"}, calls : Nat, msg : Nat]
  BY DEF Message
<1> QED
  BY <1>1, SeqMonotonic DEF History

\* The elements of a history are messages.
LEMMA MessagesOf ==
  ASSUME NEW h \in History
  PROVE  /\ Len(h) \in Nat /\ DOMAIN h = 1..Len(h)
         /\ \A i \in 1..Len(h) :
              /\ h[i] \in [role : {"user", "assistant", "tool"}, calls : Nat, msg : Nat]
              /\ h[i].role \in {"user", "assistant", "tool"}
              /\ h[i].calls \in Nat
              /\ h[i].msg \in Nat
<1>1. Len(h) \in Nat /\ DOMAIN h = 1..Len(h)
  BY LenProperties DEF History
<1>2. \A i \in 1..Len(h) :
        h[i] \in [role : {"user", "assistant", "tool"}, calls : Nat, msg : Nat]
  BY ElementOfSeq DEF History
<1> QED
  BY <1>1, <1>2

\* Message i has at least n results behind it just when the next n messages are
\* tool results.
LEMMA ResultsCount ==
  ASSUME NEW h \in History, NEW i \in 1..Len(h), NEW n \in Nat
  PROVE  /\ Cardinality(ResultsOf(h, i)) \in Nat
         /\ Cardinality(ResultsOf(h, i)) >= n
              <=> \A k \in i+1..i+n : k <= Len(h) /\ h[k].role = "tool"
<1> DEFINE R == ResultsOf(h, i)
<1>1. Len(h) \in Nat /\ R \in SUBSET (i+1..Len(h))
  BY MessagesOf DEF ResultsOf
<1>2. IsFiniteSet(R) /\ Cardinality(R) \in Nat
  <2>1. IsFiniteSet(i+1..Len(h))
    BY <1>1, FS_Interval
  <2>2. IsFiniteSet(R)
    BY <1>1, <2>1, FS_Subset
  <2> QED
    BY <2>2, FS_CardinalityType
<1>3. ASSUME \A k \in i+1..i+n : k <= Len(h) /\ h[k].role = "tool"
      PROVE  Cardinality(R) >= n
  <2>1. i+1..i+n \in SUBSET R
    BY <1>1, <1>3 DEF ResultsOf
  <2>2. Cardinality(i+1..i+n) = n
    BY FS_Interval
  <2> QED
    BY <1>2, <2>1, <2>2, FS_Subset
<1>4. ASSUME NEW k \in i+1..i+n, ~(k <= Len(h) /\ h[k].role = "tool")
      PROVE  Cardinality(R) < n
  <2>1. R \in SUBSET (i+1..k-1)
    <3> SUFFICES ASSUME NEW j \in R PROVE j \in i+1..k-1
      OBVIOUS
    <3>1. j \in i+1..Len(h) /\ \A l \in i+1..j : h[l].role = "tool"
      BY DEF ResultsOf
    <3>2. ~(k <= j)
      BY <1>1, <1>4, <3>1
    <3> QED
      BY <1>1, <3>1, <3>2
  <2>2. IsFiniteSet(i+1..k-1) /\ Cardinality(i+1..k-1) = k-1-i
    <3>1. i+1 \in Int /\ k-1 \in Int /\ ~(i+1 > k-1+1)
      OBVIOUS
    <3> QED
      BY <3>1, FS_Interval
  <2>3. Cardinality(R) <= k-1-i
    BY <2>1, <2>2, FS_Subset
  <2> QED
    BY <1>2, <2>3
<1> QED
  BY <1>2, <1>3, <1>4

-----------------------------------------------------------------------------
\* The result at j stands behind the message that makes its call, with nothing
\* but results in between.
Called(h, j) ==
  \E i \in 1..Len(h) : /\ h[i].role = "assistant"
                        /\ i < j /\ j <= i + h[i].calls
                        /\ \A k \in i+1..j : h[k].role = "tool"

\* Message by message: every call is answered but the last n.
AnsweredBut(h, n) ==
  \A i \in 1..Len(h) : h[i].role = "assistant" =>
    /\ i + h[i].calls <= Len(h) + n
    /\ \A k \in i+1..i+h[i].calls : k <= Len(h) => h[k].role = "tool"

\* The last n calls of the last answer have no result yet.
Owes(h, n) ==
  n > 0 => \E i \in 1..Len(h) : /\ h[i].role = "assistant"
                                 /\ i + h[i].calls = Len(h) + n
                                 /\ \A k \in i+1..Len(h) : h[k].role = "tool"

\* What the provider asks, without counting.
LEMMA AnsweredIff ==
  ASSUME NEW h \in History
  PROVE  CallsAnswered(h) <=> AnsweredBut(h, 0)
<1>1. ASSUME NEW i \in 1..Len(h)
      PROVE  /\ Cardinality(ResultsOf(h, i)) \in Nat
             /\ ~(Cardinality(ResultsOf(h, i)) < h[i].calls)
                  <=> \A k \in i+1..i+h[i].calls : k <= Len(h) /\ h[k].role = "tool"
  <2>1. h[i].calls \in Nat
    BY MessagesOf
  <2>2. /\ Cardinality(ResultsOf(h, i)) \in Nat
        /\ Cardinality(ResultsOf(h, i)) >= h[i].calls
             <=> \A k \in i+1..i+h[i].calls : k <= Len(h) /\ h[k].role = "tool"
    BY <2>1, ResultsCount
  <2> QED
    BY <2>1, <2>2
<1>2. ASSUME NEW i \in 1..Len(h)
      PROVE  (\A k \in i+1..i+h[i].calls : k <= Len(h) /\ h[k].role = "tool")
               <=> /\ i + h[i].calls <= Len(h) + 0
                   /\ \A k \in i+1..i+h[i].calls : k <= Len(h) => h[k].role = "tool"
  <2>1. h[i].calls \in Nat /\ Len(h) \in Nat /\ i \in Nat /\ i <= Len(h)
    BY MessagesOf
  <2>2. ASSUME \A k \in i+1..i+h[i].calls : k <= Len(h)
        PROVE  i + h[i].calls <= Len(h)
    <3>1. CASE h[i].calls = 0
      BY <2>1, <3>1
    <3>2. CASE h[i].calls > 0
      <4>1. i + h[i].calls \in i+1..i+h[i].calls
        BY <2>1, <3>2
      <4> QED
        BY <2>2, <4>1
    <3> QED
      BY <2>1, <3>1, <3>2
  <2> QED
    BY <2>1, <2>2
<1>3. CallsAnswered(h) <=> \A i \in 1..Len(h) : h[i].role = "assistant" =>
                             ~(Cardinality(ResultsOf(h, i)) < h[i].calls)
  BY MessagesOf DEF CallsAnswered, Incomplete, Speaking
<1> QED
  BY <1>1, <1>2, <1>3 DEF AnsweredBut

\* No result is an orphan, message by message.
LEMMA OrphansIff ==
  ASSUME NEW h \in History
  PROVE  ResultsHaveCalls(h) <=> \A j \in 1..Len(h) : h[j].role = "tool" => Called(h, j)
<1>1. Len(h) \in Nat /\ DOMAIN h = 1..Len(h) /\ \A i \in 1..Len(h) : h[i].calls \in Nat
  BY MessagesOf
<1>2. ASSUME NEW j \in 1..Len(h), NEW i \in 1..Len(h), i < j
      PROVE  j \in ResultsOf(h, i) <=> \A k \in i+1..j : h[k].role = "tool"
  BY <1>1, <1>2 DEF ResultsOf
<1> QED
  BY <1>1, <1>2 DEF ResultsHaveCalls, Speaking, Called

\* A message that is no result leaves the results of a history where they are, and
\* its calls are the ones now open.
LEMMA AppendMessage ==
  ASSUME NEW h \in History, NEW m, m.role \in {"user", "assistant"}, m.calls \in Nat,
         m \in [role : {"user", "assistant", "tool"}, calls : Nat, msg : Nat]
  PROVE  /\ Append(h, m) \in History
         /\ ResultsHaveCalls(h) => ResultsHaveCalls(Append(h, m))
         /\ AnsweredBut(h, 0) => AnsweredBut(Append(h, m), m.calls)
         /\ m.role = "assistant" => Owes(Append(h, m), m.calls)
<1> DEFINE g == Append(h, m)
<1>1. /\ g \in History /\ Len(g) = Len(h) + 1 /\ g[Len(h) + 1] = m
      /\ \A i \in 1..Len(h) : g[i] = h[i]
  BY AppendProperties DEF History
<1>2. Len(h) \in Nat /\ \A i \in 1..Len(h) : h[i].calls \in Nat
  BY MessagesOf
<1> HIDE DEF g
<1>3. ResultsHaveCalls(h) => ResultsHaveCalls(g)
  <2> SUFFICES ASSUME ResultsHaveCalls(h), NEW j \in 1..Len(g), g[j].role = "tool"
               PROVE  Called(g, j)
    BY <1>1, OrphansIff
  <2>1. j \in 1..Len(h) /\ h[j].role = "tool"
    BY <1>1, <1>2
  <2>2. PICK i \in 1..Len(h) : /\ h[i].role = "assistant"
                               /\ i < j /\ j <= i + h[i].calls
                               /\ \A k \in i+1..j : h[k].role = "tool"
    BY <2>1, OrphansIff DEF Called
  <2>3. i \in 1..Len(g) /\ g[i] = h[i] /\ \A k \in i+1..j : g[k] = h[k]
    BY <1>1, <1>2, <2>1
  <2> QED
    BY <2>2, <2>3 DEF Called
<1>4. AnsweredBut(h, 0) => AnsweredBut(g, m.calls)
  <2> SUFFICES ASSUME AnsweredBut(h, 0), NEW i \in 1..Len(g), g[i].role = "assistant"
               PROVE  /\ i + g[i].calls <= Len(g) + m.calls
                      /\ \A k \in i+1..i+g[i].calls : k <= Len(g) => g[k].role = "tool"
    BY DEF AnsweredBut
  <2>1. CASE i = Len(h) + 1
    BY <1>1, <1>2, <2>1
  <2>2. CASE i \in 1..Len(h)
    <3>1. /\ i + h[i].calls <= Len(h)
          /\ \A k \in i+1..i+h[i].calls : k <= Len(h) => h[k].role = "tool"
      BY <1>1, <1>2, <2>2 DEF AnsweredBut
    <3> QED
      BY <1>1, <1>2, <2>2, <3>1
  <2> QED
    BY <1>1, <1>2, <2>1, <2>2
<1>5. m.role = "assistant" => Owes(g, m.calls)
  BY <1>1, <1>2 DEF Owes
<1> QED
  BY <1>1, <1>3, <1>4, <1>5 DEF g

\* A result is the one that the last answer waits for.
LEMMA AppendResult ==
  ASSUME NEW h \in History, NEW n \in Nat \ {0}, Owes(h, n)
  PROVE  /\ Append(h, Result) \in History
         /\ ResultsHaveCalls(h) => ResultsHaveCalls(Append(h, Result))
         /\ AnsweredBut(h, n) => AnsweredBut(Append(h, Result), n - 1)
         /\ Owes(Append(h, Result), n - 1)
<1> DEFINE g == Append(h, Result)
<1>1. /\ g \in History /\ Len(g) = Len(h) + 1 /\ g[Len(h) + 1] = Result
      /\ \A i \in 1..Len(h) : g[i] = h[i]
  <2>1. Result \in [role : {"user", "assistant", "tool"}, calls : Nat, msg : Nat]
    BY DEF Result
  <2> QED
    BY <2>1, AppendProperties DEF History
<1>2. Len(h) \in Nat /\ \A i \in 1..Len(h) : h[i].calls \in Nat
  BY MessagesOf
<1>3. Result.role = "tool"
  BY DEF Result
<1>4. PICK a \in 1..Len(h) : /\ h[a].role = "assistant"
                             /\ a + h[a].calls = Len(h) + n
                             /\ \A k \in a+1..Len(h) : h[k].role = "tool"
  BY DEF Owes
<1> HIDE DEF g
<1>5. /\ g[a].role = "assistant" /\ g[a].calls = h[a].calls
      /\ \A k \in a+1..Len(g) : g[k].role = "tool"
  <2>1. g[a] = h[a]
    BY <1>1
  <2>2. ASSUME NEW k \in a+1..Len(g)
        PROVE  g[k].role = "tool"
    <3>1. CASE k = Len(h) + 1
      BY <1>1, <1>3, <3>1
    <3>2. CASE k # Len(h) + 1
      <4>1. k \in a+1..Len(h) /\ k \in 1..Len(h)
        BY <1>1, <1>2, <3>2
      <4> QED
        BY <1>1, <1>4, <4>1
    <3> QED
      BY <3>1, <3>2
  <2> QED
    BY <1>4, <2>1, <2>2
<1>6. ResultsHaveCalls(h) => ResultsHaveCalls(g)
  <2> SUFFICES ASSUME ResultsHaveCalls(h), NEW j \in 1..Len(g), g[j].role = "tool"
               PROVE  Called(g, j)
    BY <1>1, OrphansIff
  <2>1. CASE j = Len(h) + 1
    <3>1. a < j /\ j <= a + g[a].calls
      BY <1>2, <1>4, <1>5, <2>1
    <3> QED
      BY <1>1, <1>2, <1>5, <2>1, <3>1 DEF Called
  <2>2. CASE j \in 1..Len(h)
    <3>1. PICK i \in 1..Len(h) : /\ h[i].role = "assistant"
                                 /\ i < j /\ j <= i + h[i].calls
                                 /\ \A k \in i+1..j : h[k].role = "tool"
      BY <1>1, <2>2, OrphansIff DEF Called
    <3>2. i \in 1..Len(g) /\ g[i] = h[i] /\ \A k \in i+1..j : g[k] = h[k]
      BY <1>1, <1>2, <2>2
    <3> QED
      BY <3>1, <3>2 DEF Called
  <2> QED
    BY <1>1, <1>2, <2>1, <2>2
<1>7. AnsweredBut(h, n) => AnsweredBut(g, n - 1)
  <2> SUFFICES ASSUME AnsweredBut(h, n), NEW i \in 1..Len(g), g[i].role = "assistant"
               PROVE  /\ i + g[i].calls <= Len(g) + (n - 1)
                      /\ \A k \in i+1..i+g[i].calls : k <= Len(g) => g[k].role = "tool"
    BY DEF AnsweredBut
  <2>1. i \in 1..Len(h) /\ h[i] = g[i]
    BY <1>1, <1>2, <1>3, SMTT(30)
  <2>2. /\ i + h[i].calls <= Len(h) + n
        /\ \A k \in i+1..i+h[i].calls : k <= Len(h) => h[k].role = "tool"
    BY <2>1 DEF AnsweredBut
  <2>3. ASSUME NEW k \in i+1..i+h[i].calls, k <= Len(g)
        PROVE  g[k].role = "tool"
    <3>1. k \in 1..Len(h) \/ k = Len(h) + 1
      BY <1>1, <1>2, <2>1, <2>3, SMTT(30)
    <3> QED
      BY <1>1, <1>3, <2>2, <3>1
  <2>4. h[i].calls \in Nat
    BY <1>2, <2>1
  <2> QED
    BY <1>1, <1>2, <2>1, <2>2, <2>3, <2>4
<1>8. Owes(g, n - 1)
  <2>1. a \in 1..Len(g) /\ a + g[a].calls = Len(g) + (n - 1)
    BY <1>1, <1>2, <1>4, <1>5
  <2> QED
    BY <1>5, <2>1 DEF Owes
<1> QED
  BY <1>1, <1>6, <1>7, <1>8 DEF g

\* User messages behind a history leave its calls and results as they are.
LEMMA AppendUsers ==
  ASSUME NEW h \in History, NEW u \in History,
         \A i \in 1..Len(u) : u[i].role = "user"
  PROVE  /\ h \o u \in History
         /\ ResultsHaveCalls(h) => ResultsHaveCalls(h \o u)
         /\ AnsweredBut(h, 0) => AnsweredBut(h \o u, 0)
<1> DEFINE g == h \o u
<1>1. /\ g \in History /\ Len(g) = Len(h) + Len(u)
      /\ \A i \in 1..Len(h) + Len(u) : g[i] = IF i <= Len(h) THEN h[i] ELSE u[i - Len(h)]
  BY ConcatProperties DEF History
<1>2. Len(h) \in Nat /\ Len(u) \in Nat /\ \A i \in 1..Len(h) : h[i].calls \in Nat
  BY MessagesOf
<1> HIDE DEF g
<1>3. ASSUME NEW i \in 1..Len(g)
      PROVE  \/ i \in 1..Len(h) /\ g[i] = h[i]
             \/ i > Len(h) /\ g[i].role = "user"
  <2>1. CASE i <= Len(h)
    BY <1>1, <1>2, <2>1
  <2>2. CASE i > Len(h)
    <3>1. i - Len(h) \in 1..Len(u) /\ g[i] = u[i - Len(h)]
      BY <1>1, <1>2, <2>2
    <3> QED
      BY <2>2, <3>1
  <2> QED
    BY <1>2, <2>1, <2>2
<1>4. \A i \in 1..Len(h) : i \in 1..Len(g) /\ g[i] = h[i]
  BY <1>1, <1>2
<1>5. ResultsHaveCalls(h) => ResultsHaveCalls(g)
  <2> SUFFICES ASSUME ResultsHaveCalls(h), NEW j \in 1..Len(g), g[j].role = "tool"
               PROVE  Called(g, j)
    BY <1>1, OrphansIff
  <2>1. j \in 1..Len(h) /\ h[j].role = "tool"
    BY <1>3
  <2>2. PICK i \in 1..Len(h) : /\ h[i].role = "assistant"
                               /\ i < j /\ j <= i + h[i].calls
                               /\ \A k \in i+1..j : h[k].role = "tool"
    BY <2>1, OrphansIff DEF Called
  <2>3. i \in 1..Len(g) /\ g[i] = h[i] /\ \A k \in i+1..j : g[k] = h[k]
    BY <1>2, <1>4, <2>1
  <2> QED
    BY <2>2, <2>3 DEF Called
<1>6. AnsweredBut(h, 0) => AnsweredBut(g, 0)
  <2> SUFFICES ASSUME AnsweredBut(h, 0), NEW i \in 1..Len(g), g[i].role = "assistant"
               PROVE  /\ i + g[i].calls <= Len(g) + 0
                      /\ \A k \in i+1..i+g[i].calls : k <= Len(g) => g[k].role = "tool"
    BY DEF AnsweredBut
  <2>1. i \in 1..Len(h) /\ g[i] = h[i]
    BY <1>3
  <2>2. /\ i + h[i].calls <= Len(h) /\ h[i].calls \in Nat
        /\ \A k \in i+1..i+h[i].calls : k <= Len(h) => h[k].role = "tool"
    BY <1>2, <2>1 DEF AnsweredBut
  <2>3. \A k \in i+1..i+h[i].calls : k \in 1..Len(h)
    BY <1>2, <2>1, <2>2
  <2> QED
    BY <1>1, <1>2, <1>4, <2>1, <2>2, <2>3
<1> QED
  BY <1>1, <1>5, <1>6 DEF g

\* A history that is cut in front of a message that is no result, and gets user
\* messages in place of what is cut off, keeps each call with its results.
LEMMA CutHistory ==
  ASSUME NEW h \in History, NEW p \in History, NEW from \in 1..Len(h),
         h[from].role # "tool", \A i \in 1..Len(p) : p[i].role = "user"
  PROVE  /\ p \o SubSeq(h, from, Len(h)) \in History
         /\ Len(p \o SubSeq(h, from, Len(h))) = Len(p) + (Len(h) + 1 - from)
         /\ \A i \in 1..Len(p) : (p \o SubSeq(h, from, Len(h)))[i] = p[i]
         /\ \A i \in from..Len(h) :
              (p \o SubSeq(h, from, Len(h)))[i + (Len(p) + 1 - from)] = h[i]
         /\ ResultsHaveCalls(h) => ResultsHaveCalls(p \o SubSeq(h, from, Len(h)))
         /\ AnsweredBut(h, 0) => AnsweredBut(p \o SubSeq(h, from, Len(h)), 0)
<1> DEFINE tail == SubSeq(h, from, Len(h))
           g == p \o tail
           d == Len(p) + 1 - from
<1>1. Len(h) \in Nat /\ Len(p) \in Nat /\ \A i \in 1..Len(h) : h[i].calls \in Nat
  BY MessagesOf
<1>2. /\ tail \in History /\ Len(tail) = Len(h) + 1 - from
      /\ \A i \in 1..Len(tail) : tail[i] = h[from + i - 1]
  <2>1. \A i \in from..Len(h) : h[i] \in [role : {"user", "assistant", "tool"}, calls : Nat, msg : Nat]
    BY MessagesOf
  <2> QED
    BY <1>1, <2>1, SubSeqProperties DEF History
<1> HIDE DEF tail
<1>3. /\ g \in History /\ Len(g) = Len(p) + Len(tail)
      /\ \A i \in 1..Len(p) + Len(tail) : g[i] = IF i <= Len(p) THEN p[i] ELSE tail[i - Len(p)]
  BY <1>2, ConcatProperties DEF History
<1>0. Len(g) \in Nat /\ Len(g) = Len(p) + (Len(h) + 1 - from)
  BY <1>1, <1>2, <1>3
<1> HIDE DEF g
<1>4. \A i \in 1..Len(p) : i \in 1..Len(g) /\ g[i] = p[i]
  BY <1>1, <1>2, <1>3
<1>5. ASSUME NEW i \in from..Len(h)
      PROVE  i + d \in 1..Len(g) /\ g[i + d] = h[i]
  <2>1. i + d - Len(p) \in 1..Len(tail) /\ from + (i + d - Len(p)) - 1 = i
    BY <1>1, <1>2
  <2>2. tail[i + d - Len(p)] = h[i]
    BY <1>2, <2>1
  <2>3. i + d \in 1..Len(p) + Len(tail) /\ ~(i + d <= Len(p))
    BY <1>1, <1>2
  <2> QED
    BY <1>3, <2>2, <2>3
<1>6. ASSUME NEW i \in 1..Len(g)
      PROVE  \/ i \in 1..Len(p)
             \/ \E l \in from..Len(h) : i = l + d /\ g[i] = h[l]
  <2>1. CASE i <= Len(p)
    BY <1>1, <2>1
  <2>2. CASE i > Len(p)
    <3>1. i - d \in from..Len(h) /\ (i - d) + d = i
      BY <1>1, <1>2, <1>3, <2>2
    <3> QED
      BY <1>5, <3>1
  <2> QED
    BY <1>1, <2>1, <2>2
<1>7. ResultsHaveCalls(h) => ResultsHaveCalls(g)
  <2> SUFFICES ASSUME ResultsHaveCalls(h), NEW j \in 1..Len(g), g[j].role = "tool"
               PROVE  Called(g, j)
    BY <1>3, OrphansIff
  <2>1. PICK l \in from..Len(h) : j = l + d /\ g[j] = h[l]
    BY <1>4, <1>6
  <2>2. l \in 1..Len(h) /\ h[l].role = "tool"
    BY <1>1, <2>1
  <2>3. PICK i \in 1..Len(h) : /\ h[i].role = "assistant"
                               /\ i < l /\ l <= i + h[i].calls
                               /\ \A k \in i+1..l : h[k].role = "tool"
    BY <2>2, OrphansIff DEF Called
  <2>4. i \in from..Len(h)
    <3>1. ~(from \in i+1..l)
      BY <2>3
    <3> QED
      BY <1>1, <2>2, <2>3, <3>1
  <2>5. i + d \in 1..Len(g) /\ g[i + d] = h[i]
    BY <1>5, <2>4
  <2>6. i + d < j /\ j <= (i + d) + g[i + d].calls
    BY <1>1, <2>1, <2>3, <2>5
  <2>7. ASSUME NEW k \in (i + d)+1..j
        PROVE  g[k].role = "tool"
    <3> DEFINE m == k - d
    <3>1. m \in i+1..l /\ m \in from..Len(h) /\ m + d = k
      BY <1>1, <2>1, <2>4
    <3> HIDE DEF m
    <3>2. g[m + d] = h[m] /\ h[m].role = "tool"
      BY <1>5, <2>3, <3>1
    <3> QED
      BY <3>1, <3>2
  <2> QED
    BY <2>3, <2>5, <2>6, <2>7 DEF Called
<1>8. AnsweredBut(h, 0) => AnsweredBut(g, 0)
  <2> SUFFICES ASSUME AnsweredBut(h, 0), NEW i \in 1..Len(g), g[i].role = "assistant"
               PROVE  /\ i + g[i].calls <= Len(g) + 0
                      /\ \A k \in i+1..i+g[i].calls : k <= Len(g) => g[k].role = "tool"
    BY DEF AnsweredBut
  <2>1. PICK l \in from..Len(h) : i = l + d /\ g[i] = h[l]
    BY <1>4, <1>6
  <2>2. /\ l \in 1..Len(h) /\ l + h[l].calls <= Len(h) /\ h[l].calls \in Nat
        /\ \A k \in l+1..l+h[l].calls : k <= Len(h) => h[k].role = "tool"
    BY <1>1, <2>1 DEF AnsweredBut
  <2>3. ASSUME NEW k \in i+1..i+g[i].calls
        PROVE  g[k].role = "tool"
    <3> DEFINE m == k - d
    <3>0. /\ i = l + d /\ g[i] = h[l] /\ h[l].calls \in Nat
          /\ l \in Int /\ d \in Int /\ from \in Int /\ Len(h) \in Int /\ k \in Int
          /\ from <= l /\ l + h[l].calls <= Len(h)
      BY <1>1, <2>1, <2>2
    <3> HIDE DEF d
    <3>1. m \in l+1..l+h[l].calls /\ m \in from..Len(h) /\ m + d = k
      <4> DEFINE c == h[l].calls
                 n == Len(h)
      <4>1. /\ c \in Nat /\ n \in Int /\ l + c <= n
            /\ k \in (l + d) + 1..(l + d) + c
        BY <3>0
      <4> HIDE DEF c, n
      <4>2. m \in l+1..l+c /\ m \in from..n /\ m + d = k
        BY <3>0, <4>1
      <4> QED
        BY <4>2 DEF c, n
    <3> HIDE DEF m
    <3>2. g[m + d] = h[m] /\ h[m].role = "tool"
      BY <1>1, <1>5, <2>2, <3>1
    <3> QED
      BY <3>1, <3>2
  <2>4. i + g[i].calls <= Len(g)
    BY <1>0, <1>1, <2>1, <2>2
  <2>5. Len(g) + 0 = Len(g)
    BY <1>0
  <2> QED
    BY <2>3, <2>4, <2>5
<1> QED
  BY <1>0, <1>3, <1>4, <1>5, <1>7, <1>8 DEF g, tail

-----------------------------------------------------------------------------
\* The messages of a history at some of its indices are a history.
LEMMA PickedHistory ==
  ASSUME NEW h \in History, NEW K \in SUBSET (1..Len(h))
  PROVE  /\ IsFiniteSet(K) /\ K \in SUBSET Int
         /\ Picked(h, K) \in History /\ Len(Picked(h, K)) = Cardinality(K)
         /\ \A k \in 1..Cardinality(K) : Picked(h, K)[k] = h[Nth(K, k)]
<1>1. IsFiniteSet(K) /\ K \in SUBSET Int /\ Cardinality(K) \in Nat
  <2>1. Len(h) \in Nat
    BY MessagesOf
  <2>2. IsFiniteSet(1..Len(h)) /\ 1..Len(h) \subseteq Int
    BY <2>1, FS_Interval
  <2> QED
    BY <2>2, FS_Subset, FS_CardinalityType
<1>2. \A k \in 1..Cardinality(K) :
        h[Nth(K, k)] \in [role : {"user", "assistant", "tool"}, calls : Nat, msg : Nat]
  <2>1. \A k \in 1..Cardinality(K) : Nth(K, k) \in K
    BY <1>1, NthEnumerates
  <2> QED
    BY <2>1, MessagesOf
<1>3. Picked(h, K) \in [1..Cardinality(K) -> [role : {"user", "assistant", "tool"}, calls : Nat, msg : Nat]]
  BY <1>2 DEF Picked
<1>4. Picked(h, K) \in History /\ Len(Picked(h, K)) = Cardinality(K)
  <2>1. Picked(h, K) \in History
    <3> DEFINE M == [role : {"user", "assistant", "tool"}, calls : Nat, msg : Nat]
    <3>1. Cardinality(K) \in Nat /\ Picked(h, K) \in [1..Cardinality(K) -> M] /\ History = Seq(M)
      BY <1>1, <1>3 DEF History
    <3> HIDE DEF M
    <3>2. Seq(M) = UNION {[1..n -> M] : n \in Nat}
      BY SeqDef
    <3> QED
      BY <3>1, <3>2
  <2>2. /\ DOMAIN Picked(h, K) = 1..Len(Picked(h, K)) /\ Len(Picked(h, K)) \in Nat
        /\ DOMAIN Picked(h, K) = 1..Cardinality(K)
    BY <1>3, <2>1, MessagesOf
  <2> QED
    BY <1>1, <2>1, <2>2
<1> QED
  BY <1>1, <1>4 DEF Picked

\* buildParams' repair: whatever the history, every call of what it sends is answered;
\* and it makes no result an orphan that was none.
THEOREM RepairWorks ==
  ASSUME NEW h \in History
  PROVE  /\ CallsAnswered(Repaired(h))
         /\ ResultsHaveCalls(h) => ResultsHaveCalls(Repaired(h))
<1> DEFINE dropped == UNION {{i} \cup ResultsOf(h, i) : i \in Incomplete(h)}
           K == DOMAIN h \ dropped
           g == Repaired(h)
           e(k) == Nth(K, k)
<1>1. /\ Len(h) \in Nat /\ DOMAIN h = 1..Len(h)
      /\ \A i \in 1..Len(h) : h[i].calls \in Nat
  BY MessagesOf
<1>2. K \in SUBSET (1..Len(h))
  BY <1>1
<1>3. /\ IsFiniteSet(K) /\ K \in SUBSET Int
      /\ g \in History /\ Len(g) = Cardinality(K)
      /\ \A k \in 1..Len(g) : g[k] = h[e(k)]
  BY <1>2, PickedHistory DEF Repaired
<1>4. /\ Len(g) \in Nat
      /\ \A k \in 1..Len(g) : e(k) \in K /\ e(k) \in 1..Len(h)
      /\ \A i, j \in 1..Len(g) : i < j => e(i) < e(j)
      /\ \A x \in K : \E k \in 1..Len(g) : e(k) = x
  BY <1>2, <1>3, NthEnumerates
\* A call that stays has all of its results, and they stay.
<1>5. ASSUME NEW i \in K, h[i].role = "assistant"
      PROVE  \A k \in i+1..i+h[i].calls : k \in K /\ h[k].role = "tool"
  <2>1. i \in 1..Len(h) /\ i \notin Incomplete(h)
    BY <1>2
  <2>2. ~(Cardinality(ResultsOf(h, i)) < h[i].calls)
    BY <1>1, <1>5, <2>1 DEF Incomplete, Speaking
  <2>3. h[i].calls \in Nat /\ Cardinality(ResultsOf(h, i)) \in Nat
    BY <1>1, <2>1, ResultsCount
  <2>4. Cardinality(ResultsOf(h, i)) >= h[i].calls
    BY <2>2, <2>3
  <2>5. \A k \in i+1..i+h[i].calls : k <= Len(h) /\ h[k].role = "tool"
    BY <2>1, <2>3, <2>4, ResultsCount
  <2>6. ASSUME NEW k \in i+1..i+h[i].calls, NEW a \in Incomplete(h)
        PROVE  k # a /\ k \notin ResultsOf(h, a)
    <3>1. a \in 1..Len(h) /\ h[a].role = "assistant" /\ a # i
      BY <1>1, <2>1 DEF Incomplete, Speaking
    <3>2. h[k].role = "tool"
      BY <2>5
    <3>3. k # a
      BY <3>1, <3>2
    <3>4. ASSUME k \in ResultsOf(h, a)
          PROVE  FALSE
      <4>1. k \in a+1..Len(h) /\ \A l \in a+1..k : h[l].role = "tool"
        BY <3>4 DEF ResultsOf
      <4>2. CASE a < i
        <5>1. i \in a+1..k
          BY <1>1, <2>1, <3>1, <4>2
        <5> QED
          BY <1>5, <4>1, <5>1
      <4>3. CASE i < a
        <5>1. a \in i+1..i+h[i].calls
          BY <1>1, <2>1, <2>3, <3>1, <4>1, <4>3
        <5> QED
          BY <2>5, <3>1, <5>1
      <4> QED
        BY <2>1, <3>1, <4>2, <4>3
    <3> QED
      BY <3>3, <3>4
  <2>7. \A k \in i+1..i+h[i].calls : k \in 1..Len(h)
    BY <1>1, <2>1, <2>5
  <2> QED
    BY <1>1, <2>5, <2>6, <2>7
\* In what is sent they stand directly behind the call.
<1>6. ASSUME NEW p \in 1..Len(g), g[p].role = "assistant", NEW d \in 0..g[p].calls
      PROVE  p + d <= Len(g) /\ e(p + d) = e(p) + d
  <2>1. e(p) \in K /\ e(p) \in 1..Len(h) /\ g[p] = h[e(p)] /\ g[p].calls \in Nat
    BY <1>1, <1>3, <1>4
  <2>2. \A k \in e(p)+1..e(p)+d : k \in e(p)+1..e(p)+h[e(p)].calls
    BY <1>1, <2>1
  <2>3. e(p)+1..e(p)+d \in SUBSET K
    BY <1>5, <1>6, <2>1, <2>2
  <2>4. d \in Nat /\ p \in 1..Cardinality(K)
    BY <1>3, <2>1
  <2> HIDE DEF K, g
  <2> QED
    BY <1>3, <2>3, <2>4, NthConsecutive
<1>7. CallsAnswered(g)
  <2> SUFFICES ASSUME NEW p \in 1..Len(g), g[p].role = "assistant"
               PROVE  /\ p + g[p].calls <= Len(g) + 0
                      /\ \A k \in p+1..p+g[p].calls : k <= Len(g) => g[k].role = "tool"
    BY <1>3, AnsweredIff DEF AnsweredBut
  <2>1. e(p) \in K /\ e(p) \in 1..Len(h) /\ g[p] = h[e(p)] /\ g[p].calls \in Nat
    BY <1>1, <1>3, <1>4
  <2>2. p + g[p].calls <= Len(g)
    BY <1>6, <2>1
  <2>3. ASSUME NEW k \in p+1..p+g[p].calls
        PROVE  g[k].role = "tool"
    <3> DEFINE d == k - p
    <3>1. d \in 0..g[p].calls /\ d > 0 /\ p + d = k /\ k \in 1..Len(g)
      BY <1>4, <2>1, <2>2
    <3> HIDE DEF d
    <3>2. g[k] = h[e(p) + d]
      BY <1>3, <1>6, <3>1
    <3>3. e(p) + d \in e(p)+1..e(p)+h[e(p)].calls
      BY <2>1, <3>1
    <3> QED
      BY <1>5, <2>1, <3>2, <3>3
  <2> QED
    BY <1>4, <2>2, <2>3
<1>8. ResultsHaveCalls(h) => ResultsHaveCalls(g)
  <2> SUFFICES ASSUME ResultsHaveCalls(h), NEW q \in 1..Len(g), g[q].role = "tool"
               PROVE  Called(g, q)
    BY <1>3, OrphansIff
  <2>1. PICK j \in 1..Len(h) : j = e(q) /\ j \in K /\ h[j].role = "tool"
    BY <1>3, <1>4
  <2>2. PICK i \in 1..Len(h) : /\ h[i].role = "assistant"
                               /\ i < j /\ j <= i + h[i].calls
                               /\ \A k \in i+1..j : h[k].role = "tool"
    BY <2>1, OrphansIff DEF Called
  <2>3. i \in K
    <3>1. j \in ResultsOf(h, i)
      <4> HIDE DEF K, e, g
      <4> QED
        BY <1>1, <2>2 DEF ResultsOf
    <3>2. i \notin Incomplete(h)
      <4>1. j \notin dropped
        BY <2>1
      <4> QED
        BY <3>1, <4>1
    <3>3. \A a \in Incomplete(h) : i \notin ResultsOf(h, a)
      <4> SUFFICES ASSUME NEW a \in Incomplete(h), i \in ResultsOf(h, a)
                   PROVE  FALSE
        OBVIOUS
      <4>1. a \in 1..Len(h) /\ i \in a+1..Len(h) /\ \A l \in a+1..i : h[l].role = "tool"
        BY <1>1 DEF Incomplete, Speaking, ResultsOf
      <4>2. i \in a+1..i
        BY <4>1
      <4> QED
        BY <2>2, <4>1, <4>2
    <3> QED
      BY <1>1, <3>2, <3>3
  <2>4. PICK p \in 1..Len(g) : e(p) = i
    BY <1>4, <2>3
  <2>5. g[p] = h[i] /\ g[p].role = "assistant" /\ g[p].calls \in Nat
    BY <1>1, <1>3, <2>2, <2>4
  <2> DEFINE d == j - i
  <2>6. d \in 0..g[p].calls /\ d > 0 /\ i + d = j
    BY <2>2, <2>5
  <2> HIDE DEF d
  <2>7. p + d \in 1..Len(g) /\ e(p + d) = e(q)
    <3>1. p + d <= Len(g) /\ e(p + d) = e(p) + d
      BY <1>6, <2>5, <2>6
    <3> HIDE DEF K, e, g
    <3> QED
      BY <1>4, <2>1, <2>4, <2>5, <2>6, <3>1
  <2>8. q = p + d
    <3>1. ~(q < p + d) /\ ~(p + d < q)
      BY <1>4, <2>7, <2>1
    <3> QED
      BY <2>7, <3>1
  <2>9. p < q /\ q <= p + g[p].calls
    BY <1>4, <2>5, <2>6, <2>8
  <2>10. ASSUME NEW k \in p+1..q
         PROVE  g[k].role = "tool"
    <3> DEFINE c == k - p
    <3>1. c \in 0..g[p].calls /\ c > 0 /\ p + c = k /\ k \in 1..Len(g) /\ c <= d
      BY <1>4, <2>5, <2>6, <2>8, <2>9
    <3> HIDE DEF c
    <3>2. g[k] = h[i + c]
      BY <1>3, <1>6, <2>4, <2>5, <3>1
    <3>3. i + c \in i+1..j
      BY <2>6, <3>1
    <3> QED
      BY <2>2, <3>2, <3>3
  <2> QED
    BY <2>5, <2>9, <2>10 DEF Called
<1> QED
  BY <1>7, <1>8

-----------------------------------------------------------------------------
\* A cut history is made of the same messages.
LEMMA CutType ==
  ASSUME NEW M, NEW h \in Seq(M), NEW p \in Seq(M), NEW from \in 1..Len(h)
  PROVE  p \o SubSeq(h, from, Len(h)) \in Seq(M)
<1>1. \A i \in from..Len(h) : h[i] \in M
  BY LenProperties, ElementOfSeq
<1>2. Len(h) \in Int
  BY LenProperties
<1>3. SubSeq(h, from, Len(h)) \in Seq(M)
  BY <1>1, <1>2, SubSeqProperties
<1> QED
  BY <1>3, ConcatProperties

\* The indices of the messages of one role.
LEMMA SpeakingType ==
  ASSUME NEW h \in History, NEW r
  PROVE  /\ Speaking(h, r) \in SUBSET Int /\ IsFiniteSet(Speaking(h, r))
         /\ Cardinality(Speaking(h, r)) \in Nat
         /\ \A i \in Speaking(h, r) : i \in 1..Len(h) /\ h[i].role = r
<1>1. Len(h) \in Nat /\ Speaking(h, r) \in SUBSET (1..Len(h))
  BY MessagesOf DEF Speaking
<1>2. IsFiniteSet(1..Len(h)) /\ 1..Len(h) \subseteq Int
  BY <1>1, FS_Interval
<1> QED
  BY <1>1, <1>2, FS_Subset, FS_CardinalityType DEF Speaking

\* trimSubagentHistory leaves the history, or cuts it in front of an assistant message.
LEMMA TrimmedIsCut ==
  ASSUME NEW h \in History, NEW keep \in Nat \ {0}
  PROVE  \/ Trimmed(h, keep) = h
         \/ \E from \in AssistantTurns(h) :
              Trimmed(h, keep) = <<h[1], Note>> \o SubSeq(h, from, Len(h))
<1> DEFINE turns == AssistantTurns(h)
<1>1. turns \in SUBSET Int /\ IsFiniteSet(turns) /\ Cardinality(turns) \in Nat
  BY SpeakingType, FS_RemoveElement, FS_CardinalityType DEF AssistantTurns
<1>2. CASE Cardinality(turns) <= keep
  BY <1>2 DEF Trimmed
<1>3. CASE ~(Cardinality(turns) <= keep)
  <2>1. keep \in 1..Cardinality(turns)
    BY <1>1, <1>3
  <2>2. LastFrom(turns, keep) \in turns
    BY <1>1, <2>1, LastFromIsIn
  <2> QED
    BY <1>3, <2>2 DEF Trimmed
<1> QED
  BY <1>2, <1>3

\* It keeps what the provider asks, and the task in front.
LEMMA TrimmedKeeps ==
  ASSUME NEW h \in History, Len(h) > 0, h[1].role = "user", NEW keep \in Nat \ {0}
  PROVE  /\ Trimmed(h, keep) \in History
         /\ Len(Trimmed(h, keep)) > 0 /\ Trimmed(h, keep)[1] = h[1]
         /\ ResultsHaveCalls(h) => ResultsHaveCalls(Trimmed(h, keep))
         /\ AnsweredBut(h, 0) => AnsweredBut(Trimmed(h, keep), 0)
<1>1. CASE Trimmed(h, keep) = h
  BY <1>1
<1>2. ASSUME NEW from \in AssistantTurns(h),
             Trimmed(h, keep) = <<h[1], Note>> \o SubSeq(h, from, Len(h))
      PROVE  /\ Trimmed(h, keep) \in History
             /\ Len(Trimmed(h, keep)) > 0 /\ Trimmed(h, keep)[1] = h[1]
             /\ ResultsHaveCalls(h) => ResultsHaveCalls(Trimmed(h, keep))
             /\ AnsweredBut(h, 0) => AnsweredBut(Trimmed(h, keep), 0)
  <2> DEFINE p == <<h[1], Note>>
  <2>1. from \in 1..Len(h) /\ h[from].role # "tool" /\ Len(h) \in Nat
    BY SpeakingType, MessagesOf DEF AssistantTurns
  <2>2. /\ p \in History /\ Len(p) = 2 /\ p[1] = h[1] /\ p[2] = Note
        /\ \A i \in 1..Len(p) : p[i].role = "user"
    <3>1. h[1] \in [role : {"user", "assistant", "tool"}, calls : Nat, msg : Nat]
      BY MessagesOf
    <3>2. Note \in [role : {"user", "assistant", "tool"}, calls : Nat, msg : Nat] /\ Note.role = "user"
      BY DEF Note, UserMsg
    <3> QED
      BY <3>1, <3>2 DEF History
  <2> HIDE DEF p
  <2>3. Len(p \o SubSeq(h, from, Len(h))) > 0
    BY <2>1, <2>2, CutHistory
  <2>4. (p \o SubSeq(h, from, Len(h)))[1] = h[1]
    BY <2>1, <2>2, CutHistory
  <2>5. /\ p \o SubSeq(h, from, Len(h)) \in History
        /\ ResultsHaveCalls(h) => ResultsHaveCalls(p \o SubSeq(h, from, Len(h)))
        /\ AnsweredBut(h, 0) => AnsweredBut(p \o SubSeq(h, from, Len(h)), 0)
    BY <2>1, <2>2, CutHistory
  <2>6. Trimmed(h, keep) = p \o SubSeq(h, from, Len(h))
    BY <1>2 DEF p
  <2> QED
    BY <2>3, <2>4, <2>5, <2>6
<1> QED
  BY <1>1, <1>2, TrimmedIsCut

\* compactHistory leaves the history, or cuts it in front of a user message.
LEMMA CompactedIsCut ==
  ASSUME NEW h \in History, NEW keep \in Nat \ {0}
  PROVE  \/ Compacted(h, keep) = h
         \/ \E from \in 1..Len(h) :
              /\ h[from].role # "tool"
              /\ Compacted(h, keep) = <<Note>> \o SubSeq(h, from, Len(h))
<1> DEFINE users == Speaking(h, "user")
<1>1. CASE Cardinality(users) <= keep
  BY <1>1 DEF Compacted
<1>2. CASE ~(Cardinality(users) <= keep)
  <2>1. keep \in 1..Cardinality(users)
    BY <1>2, SpeakingType
  <2>2. LastFrom(users, keep) \in users
    BY <2>1, SpeakingType, LastFromIsIn
  <2>3. LastFrom(users, keep) \in 1..Len(h) /\ h[LastFrom(users, keep)].role # "tool"
    BY <2>2, SpeakingType
  <2> QED
    BY <1>2, <2>3 DEF Compacted
<1> QED
  BY <1>1, <1>2

\* trimHistory cuts in front of a user message, if one serves, and anywhere else
\* in the middle.
LEMMA MasterTrimmedIsCut ==
  ASSUME NEW h \in History, CanTrim(h)
  PROVE  \E from \in 1..Len(h) :
           /\ Boundaries(h) # {} => h[from].role # "tool"
           /\ MasterTrimmed(h) = <<Note>> \o SubSeq(h, from, Len(h))
<1> DEFINE cuts == Boundaries(h)
<1>1. CASE cuts # {}
  <2>1. cuts \in SUBSET Speaking(h, "user")
    BY DEF Boundaries
  <2>2. cuts \in SUBSET Int /\ IsFiniteSet(cuts) /\ Cardinality(cuts) \in Nat
    BY <2>1, SpeakingType, FS_Subset, FS_CardinalityType
  <2>3. Cardinality(cuts) \in 1..Cardinality(cuts)
    BY <1>1, <2>2, FS_EmptySet
  <2>4. LastFrom(cuts, Cardinality(cuts)) \in cuts
    BY <2>2, <2>3, LastFromIsIn
  <2>5. /\ LastFrom(cuts, Cardinality(cuts)) \in 1..Len(h)
        /\ h[LastFrom(cuts, Cardinality(cuts))].role # "tool"
    BY <2>1, <2>4, SpeakingType
  <2> QED
    BY <1>1, <2>5 DEF MasterTrimmed
<1>2. CASE cuts = {}
  <2>1. Len(h) \in Nat /\ Len(h) > 4
    BY <1>2, MessagesOf DEF CanTrim
  <2>2. Len(h) \div 2 + 1 \in 1..Len(h)
    BY <2>1
  <2> QED
    BY <1>2, <2>2 DEF MasterTrimmed
<1> QED
  BY <1>1, <1>2

\* Cut behind a notice, a history keeps its type and, if the cut is clean, no result
\* is without its call.
LEMMA CutBehindNote ==
  ASSUME NEW h \in History, NEW from \in 1..Len(h)
  PROVE  /\ \A M : h \in Seq(M) /\ Note \in M => <<Note>> \o SubSeq(h, from, Len(h)) \in Seq(M)
         /\ h[from].role # "tool" /\ ResultsHaveCalls(h) =>
              ResultsHaveCalls(<<Note>> \o SubSeq(h, from, Len(h)))
<1>1. ASSUME NEW M, h \in Seq(M), Note \in M
      PROVE  <<Note>> \o SubSeq(h, from, Len(h)) \in Seq(M)
  <2>1. <<Note>> \in Seq(M)
    BY <1>1
  <2> QED
    BY <1>1, <2>1, CutType
<1>2. <<Note>> \in History /\ \A i \in 1..Len(<<Note>>) : <<Note>>[i].role = "user"
  BY DEF Note, UserMsg, History
<1> QED
  BY <1>1, <1>2, CutHistory
=============================================================================
