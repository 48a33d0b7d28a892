-------------------------- MODULE WorkerLoopProofs --------------------------
(***************************************************************************)
(* Proofs about WorkerLoop for every budget, number of retries and         *)
(* reminders, number of calls in an answer and of messages sent to the     *)
(* worker, and every number of turns that trimming keeps.                  *)
(*                                                                         *)
(* IInv adds to the types what the checked properties rest on: where the   *)
(* loop stands bounds its turn counter, its two retry counts and the calls *)
(* used; the calls without a result are those of the last answer; the      *)
(* follow-ups are numbered through what the model has read, what waits in  *)
(* the history behind its last answer and what waits in the inbox. The     *)
(* last part needs what drainInbox and trimming do to the follow-ups in a  *)
(* history, which the lemmas about Unread say.                             *)
(***************************************************************************)
EXTENDS WorkerLoop, ConversationProofs

\* The indices of the follow-ups that stand behind the model's last answer.
NewIn(h) == {i \in DOMAIN h : h[i].msg # 0 /\ \A j \in AssistantTurns(h) : j < i}

\* They are finitely many, and Unread tells their numbers in order.
LEMMA NewInType ==
  ASSUME NEW h \in History
  PROVE  /\ NewIn(h) \in SUBSET (1..Len(h)) /\ NewIn(h) \in SUBSET Int
         /\ IsFiniteSet(NewIn(h)) /\ Cardinality(NewIn(h)) \in Nat
         /\ Unread(h) = [k \in 1..Cardinality(NewIn(h)) |-> h[Nth(NewIn(h), k)].msg]
<1>1. Len(h) \in Nat /\ NewIn(h) \in SUBSET (1..Len(h))
  BY MessagesOf DEF NewIn
<1>2. IsFiniteSet(1..Len(h)) /\ 1..Len(h) \subseteq Int
  BY <1>1, FS_Interval
<1>3. Unread(h) = [k \in 1..Cardinality(NewIn(h)) |-> h[Nth(NewIn(h), k)].msg]
  BY DEF Unread, NewIn
<1> QED
  BY <1>1, <1>2, <1>3, FS_Subset, FS_CardinalityType

\* Whatever enumerates them in order tells what Unread tells.
LEMMA UnreadIs ==
  ASSUME NEW h \in History, NEW n \in Nat, NEW f \in [1..n -> NewIn(h)],
         \A i, j \in 1..n : i < j => f[i] < f[j],
         \A x \in NewIn(h) : \E i \in 1..n : f[i] = x
  PROVE  Unread(h) = [k \in 1..n |-> h[f[k]].msg]
<1>1. /\ Cardinality(NewIn(h)) = n
      /\ \A k \in 1..n : Nth(NewIn(h), k) = f[k]
  BY NewInType, NthUnique
<1> QED
  BY <1>1, NewInType

\* What moves a history's follow-ups in step, and adds none, changes nothing.
LEMMA UnreadMoved ==
  ASSUME NEW h \in History, NEW g \in History, NEW d \in Int,
         \A i \in NewIn(h) : i + d \in NewIn(g) /\ g[i + d].msg = h[i].msg,
         \A x \in NewIn(g) : \E i \in NewIn(h) : x = i + d
  PROVE  Unread(g) = Unread(h)
<1> DEFINE n == Cardinality(NewIn(h))
           e == [k \in 1..n |-> Nth(NewIn(h), k)]
           f == [k \in 1..n |-> e[k] + d]
<1>1. /\ n \in Nat /\ NewIn(h) \in SUBSET Int /\ IsFiniteSet(NewIn(h))
      /\ Unread(h) = [k \in 1..n |-> h[e[k]].msg]
  BY NewInType
<1>2. /\ \A k \in 1..n : e[k] \in NewIn(h) /\ e[k] \in Int
      /\ \A i, j \in 1..n : i < j => e[i] < e[j]
      /\ \A x \in NewIn(h) : \E k \in 1..n : e[k] = x
  BY <1>1, NthEnumerates
<1> HIDE DEF n, e
<1>3. f \in [1..n -> NewIn(g)]
  BY <1>2
<1>4. \A i, j \in 1..n : i < j => f[i] < f[j]
  BY <1>2
<1>5. ASSUME NEW x \in NewIn(g)
      PROVE  \E k \in 1..n : f[k] = x
  <2>1. PICK i \in NewIn(h) : x = i + d
    OBVIOUS
  <2>2. PICK k \in 1..n : e[k] = i
    BY <1>2
  <2> QED
    BY <2>1, <2>2
<1>6. Unread(g) = [k \in 1..n |-> g[f[k]].msg]
  <2> HIDE DEF f
  <2> QED
    BY <1>1, <1>3, <1>4, <1>5, UnreadIs
<1>7. \A k \in 1..n : g[f[k]].msg = h[e[k]].msg
  BY <1>2
<1> QED
  BY <1>1, <1>6, <1>7

\* A reminder, a notice or a result is no follow-up.
LEMMA UnreadAfterNote ==
  ASSUME NEW h \in History, Len(h) > 0, NEW m,
         m \in [role : {"user", "tool"}, calls : {0}, msg : {0}]
  PROVE  Unread(Append(h, m)) = Unread(h)
<1> DEFINE g == Append(h, m)
<1>1. /\ g \in History /\ Len(g) = Len(h) + 1 /\ g[Len(h) + 1] = m
      /\ \A i \in 1..Len(h) : g[i] = h[i]
  <2>1. m \in [role : {"user", "assistant", "tool"}, calls : Nat, msg : Nat]
    OBVIOUS
  <2> QED
    BY <2>1, AppendProperties DEF History
<1>2. Len(h) \in Nat /\ DOMAIN h = 1..Len(h) /\ DOMAIN g = 1..Len(g)
  BY <1>1, MessagesOf
<1> HIDE DEF g
<1>3. AssistantTurns(g) = AssistantTurns(h)
  <2>1. m.role # "assistant"
    OBVIOUS
  <2> QED
    BY <1>1, <1>2, <2>1 DEF AssistantTurns, Speaking
<1>4. NewIn(g) = NewIn(h)
  <2>1. m.msg = 0
    OBVIOUS
  <2> QED
    BY <1>1, <1>2, <1>3, <2>1 DEF NewIn
<1>5. \A i \in NewIn(h) : i + 0 = i /\ g[i].msg = h[i].msg
  BY <1>1, NewInType
<1>6. /\ \A i \in NewIn(h) : i + 0 \in NewIn(g) /\ g[i + 0].msg = h[i].msg
      /\ \A x \in NewIn(g) : \E i \in NewIn(h) : x = i + 0
  BY <1>4, <1>5
<1>7. Unread(g) = Unread(h)
  BY <1>1, <1>6, UnreadMoved
<1> QED
  BY <1>7 DEF g

\* An answer has been given everything before it.
LEMMA UnreadAfterAnswer ==
  ASSUME NEW h \in History, Len(h) > 0, NEW n \in Nat
  PROVE  Unread(Append(h, Assistant(n))) = <<>>
<1> DEFINE g == Append(h, Assistant(n))
<1>1. /\ g \in History /\ Len(g) = Len(h) + 1 /\ g[Len(h) + 1] = Assistant(n)
  <2>1. Assistant(n) \in [role : {"user", "assistant", "tool"}, calls : Nat, msg : Nat]
    BY DEF Assistant
  <2> QED
    BY <2>1, AppendProperties DEF History
<1>2. Len(h) \in Nat /\ DOMAIN g = 1..Len(g)
  BY <1>1, MessagesOf
<1> HIDE DEF g
<1>3. Len(g) \in AssistantTurns(g)
  BY <1>1, <1>2 DEF AssistantTurns, Speaking, Assistant
<1>4. NewIn(g) = {}
  BY <1>1, <1>2, <1>3 DEF NewIn
<1>5. Cardinality(NewIn(g)) = 0
  BY <1>4, FS_EmptySet
<1>6. Unread(g) = [k \in 1..0 |-> g[Nth(NewIn(g), k)].msg]
  BY <1>1, <1>5, NewInType
<1> QED
  BY <1>6 DEF g

\* The drained follow-ups are unread behind those that were.
LEMMA UnreadAfterDrain ==
  ASSUME NEW h \in History, Len(h) > 0, NEW w \in Seq(Nat \ {0})
  PROVE  Unread(h \o [i \in 1..Len(w) |-> UserMsg(w[i])]) = Unread(h) \o w
<1> DEFINE u == [i \in 1..Len(w) |-> UserMsg(w[i])]
           g == h \o u
           c == Cardinality(NewIn(h))
           e == [k \in 1..c |-> Nth(NewIn(h), k)]
           f == [k \in 1..(c + Len(w)) |-> IF k <= c THEN e[k] ELSE Len(h) + (k - c)]
<1>1. /\ Len(w) \in Nat /\ \A i \in 1..Len(w) : w[i] \in Nat \ {0}
  BY LenProperties, ElementOfSeq
<1>2. u \in History /\ Len(u) = Len(w)
  <2>1. \A i \in 1..Len(w) : UserMsg(w[i]) \in [role : {"user", "assistant", "tool"}, calls : Nat, msg : Nat]
    BY <1>1 DEF UserMsg
  <2> QED
    BY <1>1, <2>1 DEF History
<1>3. \A i \in 1..Len(w) : u[i].role = "user" /\ u[i].msg = w[i]
  BY <1>1 DEF UserMsg
<1> HIDE DEF u
<1>4. /\ g \in History /\ Len(g) = Len(h) + Len(w)
      /\ \A i \in 1..Len(h) + Len(w) : g[i] = IF i <= Len(h) THEN h[i] ELSE u[i - Len(h)]
  <2>1. /\ h \o u \in History /\ Len(h \o u) = Len(h) + Len(u)
        /\ \A i \in 1..Len(h) + Len(u) : (h \o u)[i] = IF i <= Len(h) THEN h[i] ELSE u[i - Len(h)]
    BY <1>2, ConcatProperties DEF History
  <2> QED
    BY <1>2, <2>1
<1>5. Len(h) \in Nat /\ DOMAIN h = 1..Len(h) /\ DOMAIN g = 1..Len(g)
  BY <1>4, MessagesOf
<1> HIDE DEF g
<1>6. /\ \A i \in 1..Len(h) : g[i] = h[i]
      /\ \A i \in 1..Len(w) : g[Len(h) + i].role = "user" /\ g[Len(h) + i].msg = w[i]
  <2>1. ASSUME NEW i \in 1..Len(w)
        PROVE  g[Len(h) + i] = u[i]
    <3>1. Len(h) + i \in 1..Len(h) + Len(w) /\ ~(Len(h) + i <= Len(h)) /\ (Len(h) + i) - Len(h) = i
      BY <1>1, <1>5
    <3> QED
      BY <1>4, <3>1
  <2> QED
    BY <1>1, <1>3, <1>4, <1>5, <2>1
<1>7. ASSUME NEW i \in 1..Len(g)
      PROVE  \/ i \in 1..Len(h)
             \/ \E k \in 1..Len(w) : i = Len(h) + k
  <2> DEFINE k == i - Len(h)
  <2>1. i \in 1..Len(h) \/ (k \in 1..Len(w) /\ i = Len(h) + k)
    BY <1>1, <1>4, <1>5
  <2> QED
    BY <2>1
<1>8. AssistantTurns(g) = AssistantTurns(h)
  BY <1>1, <1>4, <1>5, <1>6, <1>7 DEF AssistantTurns, Speaking
<1>9. \A j \in AssistantTurns(h) : j \in 1..Len(h)
  BY <1>5 DEF AssistantTurns, Speaking
<1>10. /\ \A i \in NewIn(h) : i \in NewIn(g) /\ i \in 1..Len(h)
       /\ \A k \in 1..Len(w) : Len(h) + k \in NewIn(g)
       /\ \A x \in NewIn(g) : x \in NewIn(h) \/ \E k \in 1..Len(w) : x = Len(h) + k
  <2>1. ASSUME NEW k \in 1..Len(w)
        PROVE  Len(h) + k \in NewIn(g)
    BY <1>1, <1>4, <1>5, <1>6, <1>8, <1>9 DEF NewIn
  <2>2. \A i \in NewIn(h) : i \in NewIn(g) /\ i \in 1..Len(h)
    BY <1>1, <1>4, <1>5, <1>6, <1>8 DEF NewIn
  <2>3. \A x \in NewIn(g) : x \in NewIn(h) \/ \E k \in 1..Len(w) : x = Len(h) + k
    BY <1>5, <1>6, <1>7, <1>8 DEF NewIn
  <2> QED
    BY <2>1, <2>2, <2>3
<1>11. /\ c \in Nat /\ NewIn(h) \in SUBSET Int /\ IsFiniteSet(NewIn(h))
       /\ Unread(h) = [k \in 1..c |-> h[e[k]].msg]
  BY NewInType
<1>12. /\ \A k \in 1..c : e[k] \in NewIn(h) /\ e[k] \in 1..Len(h)
       /\ \A i, j \in 1..c : i < j => e[i] < e[j]
       /\ \A x \in NewIn(h) : \E k \in 1..c : e[k] = x
  BY <1>10, <1>11, NthEnumerates
<1> HIDE DEF c, e
<1>13. ASSUME NEW k \in 1..(c + Len(w))
       PROVE  \/ k \in 1..c /\ f[k] = e[k]
              \/ k > c /\ f[k] = Len(h) + (k - c) /\ k - c \in 1..Len(w)
  BY <1>1, <1>11
<1>14. f \in [1..(c + Len(w)) -> NewIn(g)]
  <2>1. \A k \in 1..(c + Len(w)) : f[k] \in NewIn(g)
    BY <1>10, <1>12, <1>13
  <2> QED
    BY <2>1
<1>15. ASSUME NEW i \in 1..(c + Len(w)), NEW j \in 1..(c + Len(w)), i < j
       PROVE  f[i] < f[j]
  BY <1>1, <1>5, <1>11, <1>12, <1>13, <1>15
<1>16. ASSUME NEW x \in NewIn(g)
       PROVE  \E k \in 1..(c + Len(w)) : f[k] = x
  <2>1. CASE x \in NewIn(h)
    <3>1. PICK k \in 1..c : e[k] = x
      BY <1>12, <2>1
    <3>2. k \in 1..(c + Len(w)) /\ f[k] = e[k]
      BY <1>1, <1>11
    <3> QED
      BY <3>1, <3>2
  <2>2. ASSUME NEW l \in 1..Len(w), x = Len(h) + l
        PROVE  \E k \in 1..(c + Len(w)) : f[k] = x
    <3>1. c + l \in 1..(c + Len(w)) /\ ~(c + l <= c) /\ (c + l) - c = l
      BY <1>1, <1>11
    <3> QED
      BY <2>2, <3>1
  <2> QED
    BY <1>10, <2>1, <2>2
<1>17. Unread(g) = [k \in 1..(c + Len(w)) |-> g[f[k]].msg]
  <2>1. c + Len(w) \in Nat
    BY <1>1, <1>11
  <2> HIDE DEF f
  <2> QED
    BY <1>4, <1>14, <1>15, <1>16, <2>1, UnreadIs
<1>18. ASSUME NEW k \in 1..(c + Len(w))
       PROVE  g[f[k]].msg = IF k <= c THEN h[e[k]].msg ELSE w[k - c]
  BY <1>6, <1>11, <1>12, <1>13
<1>19. Unread(h) \in Seq(Nat) /\ Len(Unread(h)) = c
  <2>1. \A k \in 1..c : h[e[k]].msg \in Nat
    BY <1>12, MessagesOf
  <2> QED
    BY <1>11, <2>1
<1>20. Unread(h) \o w = [k \in 1..(c + Len(w)) |-> IF k <= c THEN h[e[k]].msg ELSE w[k - c]]
  <2>1. w \in Seq(Nat)
    BY SeqMonotonic
  <2>2. /\ Unread(h) \o w \in Seq(Nat) /\ Len(Unread(h) \o w) = c + Len(w)
        /\ \A k \in 1..(c + Len(w)) :
             (Unread(h) \o w)[k] = IF k <= c THEN Unread(h)[k] ELSE w[k - c]
    BY <1>19, <2>1, ConcatProperties
  <2>3. DOMAIN (Unread(h) \o w) = 1..(c + Len(w))
    BY <2>2, LenProperties
  <2>4. \A k \in 1..c : Unread(h)[k] = h[e[k]].msg
    BY <1>11
  <2>5. \A k \in 1..(c + Len(w)) : k <= c => k \in 1..c
    BY <1>1, <1>11
  <2>6. \A k \in 1..(c + Len(w)) :
          (Unread(h) \o w)[k] = IF k <= c THEN h[e[k]].msg ELSE w[k - c]
    BY <2>2, <2>4, <2>5
  <2> DEFINE s == Unread(h) \o w
  <2>7. s \in Seq(Nat) /\ DOMAIN s = 1..(c + Len(w))
    BY <2>2, <2>3
  <2>8. \A k \in 1..(c + Len(w)) : s[k] = IF k <= c THEN h[e[k]].msg ELSE w[k - c]
    BY <2>6
  <2> HIDE DEF s
  <2>9. s = [k \in 1..(c + Len(w)) |-> s[k]]
    BY <2>7
  <2>10. s = [k \in 1..(c + Len(w)) |-> IF k <= c THEN h[e[k]].msg ELSE w[k - c]]
    BY <2>8, <2>9
  <2> QED
    BY <2>10 DEF s
<1> QED
  BY <1>17, <1>18, <1>20 DEF g, u

\* Trimming cuts in front of an answer: what is unread stands behind it.
LEMMA UnreadAfterTrim ==
  ASSUME NEW h \in History, Len(h) > 0, h[1].role = "user", NEW keep \in Nat \ {0}
  PROVE  Unread(Trimmed(h, keep)) = Unread(h)
<1>1. CASE Trimmed(h, keep) = h
  BY <1>1
<1>2. ASSUME NEW from \in AssistantTurns(h),
             Trimmed(h, keep) = <<h[1], Note>> \o SubSeq(h, from, Len(h))
      PROVE  Unread(Trimmed(h, keep)) = Unread(h)
  <2> DEFINE p == <<h[1], Note>>
             g == p \o SubSeq(h, from, Len(h))
             d == 3 - from
  <2>1. /\ Len(h) \in Nat /\ DOMAIN h = 1..Len(h)
        /\ from \in 2..Len(h) /\ h[from].role = "assistant"
    <3>1. Len(h) \in Nat /\ DOMAIN h = 1..Len(h)
      BY MessagesOf
    <3>2. from \in DOMAIN h /\ from # 1 /\ h[from].role = "assistant"
      BY DEF AssistantTurns, Speaking
    <3> QED
      BY <3>1, <3>2
  <2>2. /\ p \in History /\ Len(p) = 2
        /\ \A i \in 1..Len(p) : p[i].role = "user" /\ p[2].role = "user"
    <3>1. Note \in [role : {"user", "assistant", "tool"}, calls : Nat, msg : Nat]
          /\ Note.role = "user"
      BY DEF Note, UserMsg
    <3>2. h[1] \in [role : {"user", "assistant", "tool"}, calls : Nat, msg : Nat]
      BY <2>1, MessagesOf
    <3> QED
      BY <3>1, <3>2 DEF History
  <2> HIDE DEF p
  <2>3. /\ g \in History /\ Len(g) = 2 + (Len(h) + 1 - from)
        /\ \A i \in 1..2 : g[i].role = "user"
        /\ \A i \in from..Len(h) : g[i + (2 + 1 - from)] = h[i]
    <3>1. from \in 1..Len(h) /\ h[from].role # "tool"
      BY <2>1
    <3>2. /\ g \in History /\ Len(g) = Len(p) + (Len(h) + 1 - from)
          /\ \A i \in 1..Len(p) : g[i] = p[i]
          /\ \A i \in from..Len(h) : g[i + (Len(p) + 1 - from)] = h[i]
      BY <2>2, <3>1, CutHistory
    <3> HIDE DEF g
    <3> QED
      BY <2>2, <3>2
  <2>4. d \in Int /\ DOMAIN g = 1..Len(g) /\ \A i \in from..Len(h) : g[i + d] = h[i]
    BY <2>1, <2>3, MessagesOf
  <2>5. \A i \in from..Len(h) : i + d \in 3..Len(g) /\ (i + d) - d = i
    BY <2>1, <2>3
  <2>6. \A x \in 3..Len(g) : x - d \in from..Len(h) /\ (x - d) + d = x /\ g[x] = h[x - d]
    <3>1. \A x \in 3..Len(g) : x - d \in from..Len(h) /\ (x - d) + d = x
      BY <2>1, <2>3
    <3> QED
      BY <2>4, <3>1
  <2> HIDE DEF g, d
  <2>7. \A j \in AssistantTurns(g) : j \in 3..Len(g) /\ j - d \in AssistantTurns(h)
    BY <2>1, <2>3, <2>4, <2>6 DEF AssistantTurns, Speaking
  <2>8. \A j \in AssistantTurns(h) : j \in 1..Len(h) /\ (j >= from => j + d \in AssistantTurns(g))
    BY <2>1, <2>3, <2>4, <2>5 DEF AssistantTurns, Speaking
  <2>9. ASSUME NEW i \in NewIn(h)
        PROVE  i + d \in NewIn(g) /\ g[i + d].msg = h[i].msg
    <3>1. i \in from..Len(h) /\ h[i].msg # 0 /\ \A j \in AssistantTurns(h) : j < i
      BY <2>1 DEF NewIn
    <3>2. i + d \in DOMAIN g /\ g[i + d] = h[i]
      BY <2>4, <2>5, <3>1
    <3>3. \A j \in AssistantTurns(g) : j < i + d
      BY <2>1, <2>3, <2>4, <2>7, <3>1
    <3> QED
      BY <3>1, <3>2, <3>3 DEF NewIn
  <2>10. ASSUME NEW x \in NewIn(g)
         PROVE  \E i \in NewIn(h) : x = i + d
    <3>1. x \in 1..Len(g) /\ g[x].msg # 0 /\ \A j \in AssistantTurns(g) : j < x
      BY <2>4 DEF NewIn
    <3>2. from + d \in AssistantTurns(g) /\ from + d \in 3..Len(g)
      BY <2>1, <2>5, <2>8
    <3>3. x \in 3..Len(g)
      BY <2>3, <2>1, <3>1, <3>2
    <3>4. x - d \in from..Len(h) /\ (x - d) + d = x /\ g[x] = h[x - d]
      BY <2>6, <3>3
    <3>5. \A j \in AssistantTurns(h) : j < x - d
      BY <2>1, <2>4, <2>8, <3>1, <3>4
    <3>6. x - d \in NewIn(h)
      BY <2>1, <3>1, <3>4, <3>5 DEF NewIn
    <3> QED
      BY <3>4, <3>6
  <2>11. Unread(g) = Unread(h)
    BY <2>3, <2>4, <2>9, <2>10, UnreadMoved
  <2> QED
    BY <1>2, <2>11 DEF g, p
<1> QED
  BY <1>1, <1>2, TrimmedIsCut

\* Numbers counted on from a, and then on: one count.
LEMMA CountedOn ==
  ASSUME NEW a \in Nat, NEW n \in Nat, NEW m \in Nat, NEW w \in Seq(Nat), Len(w) = m,
         \A i \in 1..m : w[i] = a + n + i
  PROVE  /\ [k \in 1..n |-> a + k] \o w = [k \in 1..(n + m) |-> a + k]
         /\ Len([k \in 1..n |-> a + k] \o w) = n + m
<1> DEFINE v == [k \in 1..n |-> a + k]
           s == v \o w
<1>1. v \in Seq(Nat) /\ Len(v) = n /\ \A k \in 1..n : v[k] = a + k
  OBVIOUS
<1> HIDE DEF v
<1>2. /\ s \in Seq(Nat) /\ Len(s) = n + m
      /\ \A k \in 1..(n + m) : s[k] = IF k <= n THEN v[k] ELSE w[k - n]
  BY <1>1, ConcatProperties
<1> HIDE DEF s
<1>3. ASSUME NEW k \in 1..(n + m)
      PROVE  s[k] = a + k
  <2>1. CASE k <= n
    BY <1>1, <1>2, <2>1
  <2>2. CASE ~(k <= n)
    <3>1. k - n \in 1..m /\ n + (k - n) = k
      BY <2>2
    <3>2. w[k - n] = a + n + (k - n)
      BY <3>1
    <3> QED
      BY <1>2, <2>2, <3>1, <3>2
  <2> QED
    BY <2>1, <2>2
<1>4. DOMAIN s = 1..(n + m)
  BY <1>2, LenProperties
<1>5. s = [k \in 1..(n + m) |-> s[k]]
  BY <1>2, <1>4
<1>6. s = [k \in 1..(n + m) |-> a + k]
  BY <1>3, <1>5
<1> QED
  BY <1>2, <1>6 DEF s, v

-----------------------------------------------------------------------------
(* The inductive invariant. *)

\* No answer is awaited past the hard cap.
LoopInv == pc \in {"ask", "wait", "tools"} => turn < HardTurnCap

\* What runTurnWithRetry has asked so far its two counts account for.
RetryInv ==
  /\ streams <= MaxRetries + MaxIdleRetries
  /\ pc \in {"ask", "wait"} => idle < MaxIdleRetries /\ streams <= attempt + idle

\* Tools are called, and calls counted, only before the wrap-up turn; an answer is
\* asked for only while the budget lasts.
BudgetInv ==
  /\ toolCallsUsed + Len(answer) < MaxToolCalls + MaxCalls
  /\ pc # "tools" => answer = <<>>
  /\ ~wrappingUp /\ pc \in {"top", "ask", "wait"} => toolCallsUsed < MaxToolCalls

\* The calls of the current answer that have no result yet.
Open == IF pc = "tools" THEN Len(answer) ELSE 0

\* A worker that nobody stopped has answered every call but the open ones, which
\* are those of its last answer; one that was stopped may have left some, but
\* no result without a call.
HistoryInv ==
  /\ Len(history) > 0
  /\ history[1] = Note
  /\ ResultsHaveCalls(history)
  /\ stop = "no" => AnsweredBut(history, Open) /\ Owes(history, Open)

\* The follow-ups taken out of the inbox.
Taken == sent - Len(inbox)

\* The follow-ups are numbered through: read, then unread in the history, then in
\* the inbox.
FollowUpInv ==
  /\ Len(read) <= Taken
  /\ \A i \in 1..Len(read) : read[i] = i
  /\ Unread(history) = [k \in 1..(Taken - Len(read)) |-> Len(read) + k]
  /\ \A i \in 1..Len(inbox) : inbox[i] = Taken + i

IInv ==
  /\ TypeOK
  /\ LoopInv
  /\ RetryInv
  /\ BudgetInv
  /\ HistoryInv
  /\ FollowUpInv

-----------------------------------------------------------------------------
(* What the helpers do to the history. *)

\* A history of the worker's is one of Conversation's.
LEMMA HistoryFacts ==
  ASSUME NEW h \in Seq(Message(MaxCalls, MaxSent))
  PROVE  h \in History /\ Len(h) \in Nat
BY ConstantsAssumption, HistoryType, MessagesOf

\* Draining the inbox appends the waiting follow-ups as user messages.
LEMMA DrainedFacts ==
  ASSUME TypeOK, NEW h \in Seq(Message(MaxCalls, MaxSent)), Len(h) > 0
  PROVE  /\ Drained(h) \in Seq(Message(MaxCalls, MaxSent))
         /\ Len(Drained(h)) > 0 /\ Drained(h)[1] = h[1]
         /\ ResultsHaveCalls(h) => ResultsHaveCalls(Drained(h))
         /\ AnsweredBut(h, 0) => AnsweredBut(Drained(h), 0)
         /\ Unread(Drained(h)) = Unread(h) \o inbox
<1> DEFINE u == [i \in 1..Len(inbox) |-> UserMsg(inbox[i])]
<1>1. h \in History /\ Len(h) \in Nat
  BY HistoryFacts
<1>2. inbox \in Seq(1..MaxSent) /\ Len(inbox) \in Nat /\ \A i \in 1..Len(inbox) : inbox[i] \in 1..MaxSent
  BY LenProperties, ElementOfSeq DEF TypeOK
<1>3. \A i \in 1..Len(inbox) : UserMsg(inbox[i]) \in Message(MaxCalls, MaxSent) /\ UserMsg(inbox[i]).role = "user"
  BY <1>2, ConstantsAssumption DEF UserMsg, Message
<1>4. /\ u \in Seq(Message(MaxCalls, MaxSent)) /\ Len(u) = Len(inbox)
      /\ \A i \in 1..Len(u) : u[i].role = "user"
  BY <1>2, <1>3
<1>5. u \in History
  BY <1>4, HistoryFacts
<1>6. inbox \in Seq(Nat \ {0})
  <2>1. 1..MaxSent \subseteq Nat \ {0}
    BY ConstantsAssumption
  <2> QED
    BY <1>2, <2>1, SeqMonotonic
<1>7. Unread(h \o u) = Unread(h) \o inbox
  BY <1>1, <1>6, UnreadAfterDrain
<1> HIDE DEF u
<1>8. /\ h \o u \in Seq(Message(MaxCalls, MaxSent)) /\ Len(h \o u) = Len(h) + Len(u)
      /\ (h \o u)[1] = h[1]
  <2>1. Len(u) \in Nat /\ 1 \in 1..(Len(h) + Len(u)) /\ 1 <= Len(h)
    BY <1>1, <1>2, <1>4
  <2>2. /\ h \o u \in Seq(Message(MaxCalls, MaxSent)) /\ Len(h \o u) = Len(h) + Len(u)
        /\ \A i \in 1..(Len(h) + Len(u)) : (h \o u)[i] = IF i <= Len(h) THEN h[i] ELSE u[i - Len(h)]
    BY <1>4, ConcatProperties
  <2> QED
    BY <2>1, <2>2
<1>9. /\ ResultsHaveCalls(h) => ResultsHaveCalls(h \o u)
      /\ AnsweredBut(h, 0) => AnsweredBut(h \o u, 0)
  BY <1>1, <1>4, <1>5, AppendUsers
<1>10. Len(h \o u) > 0
  BY <1>1, <1>2, <1>4, <1>8
<1> QED
  BY <1>7, <1>8, <1>9, <1>10 DEF u, Drained

\* So does the head of the loop, whether or not it trims.
LEMMA TopFacts ==
  ASSUME IInv, NEW g,
         g = Drained(history) \/ g = Trimmed(Drained(history), KeepTurns)
  PROVE  /\ g \in Seq(Message(MaxCalls, MaxSent))
         /\ Len(g) > 0 /\ g[1] = Note
         /\ ResultsHaveCalls(g)
         /\ AnsweredBut(history, 0) => AnsweredBut(g, 0)
         /\ Unread(g) = Unread(history) \o inbox
<1> DEFINE h == Drained(history)
<1>1. /\ h \in Seq(Message(MaxCalls, MaxSent)) /\ Len(h) > 0 /\ h[1] = Note
      /\ ResultsHaveCalls(h)
      /\ AnsweredBut(history, 0) => AnsweredBut(h, 0)
      /\ Unread(h) = Unread(history) \o inbox
  BY DrainedFacts DEF IInv, TypeOK, HistoryInv
<1> HIDE DEF h
<1>2. h \in History /\ Len(h) \in Nat /\ Note.role = "user"
  BY <1>1, HistoryFacts DEF Note, UserMsg
<1>3. KeepTurns \in Nat \ {0}
  BY ConstantsAssumption
<1>4. /\ Len(Trimmed(h, KeepTurns)) > 0 /\ Trimmed(h, KeepTurns)[1] = Note
      /\ ResultsHaveCalls(Trimmed(h, KeepTurns))
      /\ AnsweredBut(h, 0) => AnsweredBut(Trimmed(h, KeepTurns), 0)
      /\ Unread(Trimmed(h, KeepTurns)) = Unread(h)
  BY <1>1, <1>2, <1>3, TrimmedKeeps, UnreadAfterTrim
<1>5. Trimmed(h, KeepTurns) \in Seq(Message(MaxCalls, MaxSent))
  <2>1. ASSUME NEW from \in AssistantTurns(h)
        PROVE  <<h[1], Note>> \o SubSeq(h, from, Len(h)) \in Seq(Message(MaxCalls, MaxSent))
    <3>1. from \in 1..Len(h)
      BY <1>2, SpeakingType DEF AssistantTurns
    <3>2. Note \in Message(MaxCalls, MaxSent)
      BY ConstantsAssumption DEF Note, UserMsg, Message
    <3>3. <<h[1], Note>> \in Seq(Message(MaxCalls, MaxSent))
      BY <1>1, <3>2
    <3> QED
      BY <1>1, <3>1, <3>3, CutType
  <2> QED
    BY <1>1, <1>2, <1>3, <2>1, TrimmedIsCut
<1> QED
  BY <1>1, <1>4, <1>5 DEF h

\* A reminder or the wrap-up notice behind the history.
LEMMA NoteFacts ==
  ASSUME NEW h \in Seq(Message(MaxCalls, MaxSent)), Len(h) > 0
  PROVE  /\ Append(h, Note) \in Seq(Message(MaxCalls, MaxSent))
         /\ Len(Append(h, Note)) > 0 /\ Append(h, Note)[1] = h[1]
         /\ ResultsHaveCalls(h) => ResultsHaveCalls(Append(h, Note))
         /\ AnsweredBut(h, 0) => AnsweredBut(Append(h, Note), 0)
         /\ Unread(Append(h, Note)) = Unread(h)
<1>1. h \in History /\ Len(h) \in Nat
  BY HistoryFacts
<1>2. /\ Note \in Message(MaxCalls, MaxSent)
      /\ Note \in [role : {"user", "assistant", "tool"}, calls : Nat, msg : Nat]
      /\ Note \in [role : {"user", "tool"}, calls : {0}, msg : {0}]
      /\ Note.role = "user" /\ Note.calls = 0
  BY ConstantsAssumption DEF Note, UserMsg, Message
<1>3. /\ Append(h, Note) \in Seq(Message(MaxCalls, MaxSent))
      /\ Len(Append(h, Note)) = Len(h) + 1 /\ Append(h, Note)[1] = h[1]
  BY <1>1, <1>2, AppendProperties
<1>4. /\ ResultsHaveCalls(h) => ResultsHaveCalls(Append(h, Note))
      /\ AnsweredBut(h, 0) => AnsweredBut(Append(h, Note), 0)
  BY <1>1, <1>2, AppendMessage
<1>5. Unread(Append(h, Note)) = Unread(h)
  BY <1>1, <1>2, UnreadAfterNote
<1>6. Len(Append(h, Note)) > 0
  BY <1>1, <1>3
<1> QED
  BY <1>3, <1>4, <1>5, <1>6

\* An answer behind the history: its calls are the open ones, and everything before
\* it has been read.
LEMMA AnswerFacts ==
  ASSUME NEW h \in Seq(Message(MaxCalls, MaxSent)), Len(h) > 0, NEW n \in 0..MaxCalls
  PROVE  /\ Append(h, Assistant(n)) \in Seq(Message(MaxCalls, MaxSent))
         /\ Len(Append(h, Assistant(n))) > 0 /\ Append(h, Assistant(n))[1] = h[1]
         /\ ResultsHaveCalls(h) => ResultsHaveCalls(Append(h, Assistant(n)))
         /\ AnsweredBut(h, 0) => AnsweredBut(Append(h, Assistant(n)), n)
         /\ Owes(Append(h, Assistant(n)), n)
         /\ Unread(Append(h, Assistant(n))) = <<>>
<1>1. h \in History /\ Len(h) \in Nat /\ n \in Nat
  BY HistoryFacts, ConstantsAssumption
<1>2. /\ Assistant(n) \in Message(MaxCalls, MaxSent)
      /\ Assistant(n) \in [role : {"user", "assistant", "tool"}, calls : Nat, msg : Nat]
      /\ Assistant(n).role = "assistant" /\ Assistant(n).calls = n
  BY ConstantsAssumption DEF Assistant, Message
<1>3. /\ Append(h, Assistant(n)) \in Seq(Message(MaxCalls, MaxSent))
      /\ Len(Append(h, Assistant(n))) = Len(h) + 1 /\ Append(h, Assistant(n))[1] = h[1]
  BY <1>1, <1>2, AppendProperties
<1>4. /\ ResultsHaveCalls(h) => ResultsHaveCalls(Append(h, Assistant(n)))
      /\ AnsweredBut(h, 0) => AnsweredBut(Append(h, Assistant(n)), n)
      /\ Owes(Append(h, Assistant(n)), n)
  BY <1>1, <1>2, AppendMessage
<1>5. Unread(Append(h, Assistant(n))) = <<>>
  BY <1>1, UnreadAfterAnswer
<1>6. Len(Append(h, Assistant(n))) > 0
  BY <1>1, <1>3
<1> QED
  BY <1>3, <1>4, <1>5, <1>6

\* A result behind the history answers the first open call.
LEMMA ResultFacts ==
  ASSUME NEW h \in Seq(Message(MaxCalls, MaxSent)), Len(h) > 0,
         NEW n \in Nat \ {0}, Owes(h, n)
  PROVE  /\ Append(h, Result) \in Seq(Message(MaxCalls, MaxSent))
         /\ Len(Append(h, Result)) > 0 /\ Append(h, Result)[1] = h[1]
         /\ ResultsHaveCalls(h) => ResultsHaveCalls(Append(h, Result))
         /\ AnsweredBut(h, n) => AnsweredBut(Append(h, Result), n - 1)
         /\ Owes(Append(h, Result), n - 1)
         /\ Unread(Append(h, Result)) = Unread(h)
<1>1. h \in History /\ Len(h) \in Nat
  BY HistoryFacts
<1>2. /\ Result \in Message(MaxCalls, MaxSent)
      /\ Result \in [role : {"user", "tool"}, calls : {0}, msg : {0}]
  BY ConstantsAssumption DEF Result, Message
<1>3. /\ Append(h, Result) \in Seq(Message(MaxCalls, MaxSent))
      /\ Len(Append(h, Result)) = Len(h) + 1 /\ Append(h, Result)[1] = h[1]
  BY <1>1, <1>2, AppendProperties
<1>4. Unread(Append(h, Result)) = Unread(h)
  BY <1>1, <1>2, UnreadAfterNote
<1>5. Len(Append(h, Result)) > 0
  BY <1>1, <1>3
<1> QED
  BY <1>1, <1>3, <1>4, <1>5, AppendResult

-----------------------------------------------------------------------------
(* Every step keeps the inductive invariant. *)

\* A run starts with its task alone in the history, and every counter at zero.
LEMMA InitIInv == Init => IInv
<1> SUFFICES ASSUME Init PROVE IInv
  OBVIOUS
<1> USE ConstantsAssumption DEF Init
<1>1. TypeOK
  <2>1. HardTurnCap \in Nat
    BY DEF HardTurnCap
  <2>2. history \in Seq(Message(MaxCalls, MaxSent))
    BY DEF Note, UserMsg, Message
  <2>3. /\ pending \in [{"verify", "recover"} -> BOOLEAN]
        /\ reminded \in [Reminders -> 0..MaxReminders]
    OBVIOUS
  <2>4. /\ inbox \in Seq(1..MaxSent) /\ read \in Seq(1..MaxSent) /\ answer \in Seq(Tools)
    OBVIOUS
  <2>5. /\ turn \in 0..HardTurnCap /\ attempt \in 0..MaxRetries /\ idle \in 0..MaxIdleRetries
        /\ sent \in 0..MaxSent /\ streams \in Nat /\ toolCallsUsed \in Nat
    BY <2>1
  <2>6. /\ bigInput \in BOOLEAN /\ wrappingUp \in BOOLEAN /\ needsEdit \in BOOLEAN
        /\ inspected \in BOOLEAN /\ edits \in {"none", "failed", "made"}
        /\ pc \in {"top", "ask", "wait", "tools", "finish", "announce", "over"}
        /\ stop \in {"no", "killed", "expired"}
        /\ verdict \in {"none", "done", "error", "cancelled"}
    BY Zenon
  <2> QED
    BY <2>2, <2>3, <2>4, <2>5, <2>6, Zenon DEF TypeOK
<1>2. LoopInv /\ RetryInv /\ BudgetInv
  BY DEF LoopInv, RetryInv, BudgetInv
<1>3. history \in History /\ Len(history) = 1 /\ history[1] = Note /\ Note.role = "user"
  BY DEF History, Note, UserMsg
<1>4. HistoryInv
  <2>1. ResultsHaveCalls(history)
    BY <1>3, OrphansIff
  <2>2. AnsweredBut(history, 0) /\ Owes(history, 0)
    BY <1>3 DEF AnsweredBut, Owes
  <2> QED
    BY <1>3, <2>1, <2>2 DEF HistoryInv, Open
<1>5. FollowUpInv
  <2>1. NewIn(history) = {}
    BY <1>3, MessagesOf DEF NewIn, Note, UserMsg
  <2>2. Unread(history) = [k \in 1..0 |-> history[Nth(NewIn(history), k)].msg]
    BY <1>3, <2>1, NewInType, FS_EmptySet
  <2>3. Unread(history) = <<>>
    BY <2>2
  <2> QED
    BY <2>3 DEF FollowUpInv, Taken
<1> QED
  BY <1>1, <1>2, <1>4, <1>5 DEF IInv

\* What the calls of an answer are.
LEMMA AnswerType ==
  ASSUME NEW tools \in BoundedSeq(Tools, MaxCalls) \ {<<>>}
  PROVE  tools \in Seq(Tools) /\ Len(tools) \in 1..MaxCalls
<1>1. PICK m \in 0..MaxCalls : tools \in [1..m -> Tools]
  BY DEF BoundedSeq, SeqOf
<1>2. tools \in Seq(Tools) /\ Len(tools) = m
  BY <1>1, ConstantsAssumption
<1>3. m # 0
  BY <1>1, <1>2
<1> QED
  BY <1>2, <1>3, ConstantsAssumption

\* The counters: every action but EndTurn, Execute and the answers leaves the
\* budget alone, every action but the attempts leaves the retries.
LEMMA CountersStep ==
  ASSUME IInv, Next
  PROVE  LoopInv' /\ RetryInv' /\ BudgetInv'
<1> USE ConstantsAssumption
        DEF IInv, TypeOK, LoopInv, RetryInv, BudgetInv, EndWith, NextTurn, HardTurnCap
<1>1. CASE TopOfLoop
  <2>1. CASE turn = HardTurnCap
    <3>1. pc' = "finish" /\ UNCHANGED <<streams, wrappingUp, toolCallsUsed, answer>>
      BY <1>1, <2>1 DEF TopOfLoop, retryVars
    <3> QED
      BY <1>1, <3>1 DEF TopOfLoop
  <2>2. CASE turn # HardTurnCap
    <3>1. /\ pc' = "ask" /\ attempt' = 0 /\ idle' = 0 /\ streams' = 0
          /\ UNCHANGED <<turn, wrappingUp, toolCallsUsed, answer>>
      BY <1>1, <2>2 DEF TopOfLoop
    <3> QED
      BY <1>1, <2>2, <3>1 DEF TopOfLoop
  <2> QED
    BY <2>1, <2>2
<1>2. CASE AskStopped
  BY <1>2 DEF AskStopped, retryVars
<1>3. CASE AskIdle
  BY <1>3 DEF AskIdle
<1>4. ASSUME NEW transient \in BOOLEAN, AskFails(transient)
      PROVE  LoopInv' /\ RetryInv' /\ BudgetInv'
  BY <1>4 DEF AskFails
<1>5. CASE Retry
  BY <1>5 DEF Retry, retryVars
<1>6. ASSUME NEW big \in BOOLEAN, AskAnswers(big)
      PROVE  LoopInv' /\ RetryInv' /\ BudgetInv'
  <2>1. /\ pc = "ask" /\ pc' \in {"top", "finish"}
        /\ streams' = streams + 1
        /\ UNCHANGED <<idle, attempt, wrappingUp, toolCallsUsed, answer>>
    BY <1>6 DEF AskAnswers, retryVars
  <2> QED
    BY <2>1
<1>7. ASSUME NEW tools \in BoundedSeq(Tools, MaxCalls) \ {<<>>}, NEW big \in BOOLEAN,
             AskCallsTools(tools, big)
      PROVE  LoopInv' /\ RetryInv' /\ BudgetInv'
  <2>1. Len(tools) \in 1..MaxCalls /\ 1 \in DOMAIN tools
    BY AnswerType
  <2>2. ~wrappingUp
    BY <1>7, <2>1 DEF AskCallsTools, Offered
  <2> QED
    BY <1>7, <2>1, <2>2 DEF AskCallsTools
<1>8. ASSUME NEW outcome, Execute(outcome)
      PROVE  LoopInv' /\ RetryInv' /\ BudgetInv'
  <2>1. Len(Tail(answer)) = Len(answer) - 1
    BY <1>8, HeadTailProperties DEF Execute
  <2> QED
    BY <1>8, <2>1 DEF Execute, retryVars
<1>9. CASE EndTurn
  <2>1. /\ pc = "tools" /\ pc' = "top" /\ answer' = <<>>
        /\ ~wrappingUp' => toolCallsUsed < MaxToolCalls
        /\ UNCHANGED <<toolCallsUsed, attempt, idle, streams>>
    <3>1. wrappingUp' = (wrappingUp \/ (~wrappingUp /\ toolCallsUsed >= MaxToolCalls))
      BY <1>9, Zenon DEF EndTurn
    <3>2. ~wrappingUp' => ~(toolCallsUsed >= MaxToolCalls)
      BY <3>1, Zenon
    <3>3. ~(toolCallsUsed >= MaxToolCalls) => toolCallsUsed < MaxToolCalls
      OBVIOUS
    <3>4. /\ pc = "tools" /\ pc' = "top" /\ answer' = <<>>
          /\ UNCHANGED <<toolCallsUsed, attempt, idle, streams>>
      BY <1>9, Zenon DEF EndTurn, retryVars, NextTurn
    <3> QED
      BY <3>2, <3>3, <3>4, Zenon
  <2> QED
    BY <2>1
<1>10. CASE Finish
  BY <1>10 DEF Finish, retryVars
<1>11. CASE Announce
  BY <1>11 DEF Announce, retryVars
<1>12. CASE Send
  BY <1>12 DEF Send, retryVars
<1>13. CASE Stop
  BY <1>13 DEF Stop, retryVars
<1> QED
  BY <1>1, <1>2, <1>3, <1>4, <1>5, <1>6, <1>7, <1>8, <1>9, <1>10, <1>11, <1>12, <1>13
     DEF Next, Run

\* What the model has not been given is part of the numbering.
LEMMA UnreadType ==
  ASSUME IInv
  PROVE  /\ Len(read) \in Nat /\ Len(inbox) \in Nat /\ Taken \in Len(read)..MaxSent
         /\ Unread(history) = [k \in 1..(Taken - Len(read)) |-> Len(read) + k]
         /\ Unread(history) \in Seq(1..MaxSent) /\ Len(Unread(history)) = Taken - Len(read)
<1>1. Len(read) \in Nat /\ Len(inbox) \in Nat
  BY LenProperties DEF IInv, TypeOK
<1>2. Taken \in Len(read)..MaxSent
  BY <1>1, ConstantsAssumption DEF IInv, TypeOK, FollowUpInv, Taken
<1>3. Unread(history) = [k \in 1..(Taken - Len(read)) |-> Len(read) + k]
  BY DEF IInv, FollowUpInv
<1>4. /\ Taken - Len(read) \in Nat
      /\ \A k \in 1..(Taken - Len(read)) : Len(read) + k \in 1..MaxSent
  BY <1>1, <1>2, ConstantsAssumption
<1> QED
  BY <1>1, <1>2, <1>3, <1>4

\* Types.
LEMMA TypeStep ==
  ASSUME IInv, Next
  PROVE  TypeOK'
<1> USE ConstantsAssumption DEF TypeOK, EndWith, NextTurn, HardTurnCap,
        msgVars, reminderVars, retryVars
<1>0. TypeOK /\ Len(history) > 0
  BY DEF IInv, HistoryInv
<1>1. CASE TopOfLoop
  <2>1. CASE turn = HardTurnCap
    BY <1>0, <1>1, <2>1 DEF TopOfLoop
  <2>2. CASE turn # HardTurnCap
    <3>1. history' \in Seq(Message(MaxCalls, MaxSent))
      BY <1>1, <2>2, TopFacts DEF TopOfLoop
    <3>2. /\ inbox' = <<>> /\ bigInput' = FALSE /\ attempt' = 0 /\ idle' = 0 /\ streams' = 0
          /\ pc' = "ask"
          /\ UNCHANGED <<verdict, stop, turn, sent, read, toolCallsUsed, wrappingUp,
                         needsEdit, inspected, edits, pending, reminded, answer>>
      BY <1>1, <2>2 DEF TopOfLoop
    <3>3. /\ inbox' \in Seq(1..MaxSent) /\ attempt' \in 0..MaxRetries
          /\ idle' \in 0..MaxIdleRetries /\ streams' \in Nat
      BY <3>2
    <3>4. /\ turn' \in 0..HardTurnCap /\ sent' \in 0..MaxSent /\ read' \in Seq(1..MaxSent)
          /\ toolCallsUsed' \in Nat /\ answer' \in Seq(Tools)
          /\ pending' \in [{"verify", "recover"} -> BOOLEAN]
          /\ reminded' \in [Reminders -> 0..MaxReminders]
      BY <1>0, <3>2, Zenon
    <3>5. /\ bigInput' \in BOOLEAN /\ wrappingUp' \in BOOLEAN /\ needsEdit' \in BOOLEAN
          /\ inspected' \in BOOLEAN /\ edits' \in {"none", "failed", "made"}
          /\ verdict' \in {"none", "done", "error", "cancelled"}
          /\ stop' \in {"no", "killed", "expired"}
          /\ pc' \in {"top", "ask", "wait", "tools", "finish", "announce", "over"}
      BY <1>0, <3>2, Zenon
    <3> QED
      BY <3>1, <3>3, <3>4, <3>5, Zenon
  <2> QED
    BY <2>1, <2>2
<1>2. CASE AskStopped
  BY <1>0, <1>2 DEF AskStopped, ContextVerdict
<1>3. CASE AskIdle
  BY <1>0, <1>3 DEF AskIdle, IInv, RetryInv
<1>4. ASSUME NEW transient \in BOOLEAN, AskFails(transient)
      PROVE  TypeOK'
  BY <1>0, <1>4 DEF AskFails
<1>5. CASE Retry
  BY <1>0, <1>5 DEF Retry
<1>6. ASSUME NEW big \in BOOLEAN, AskAnswers(big)
      PROVE  TypeOK'
  <2> DEFINE said == Append(history, Assistant(0))
  <2>1. /\ said \in Seq(Message(MaxCalls, MaxSent)) /\ Len(said) > 0
        /\ Append(said, Note) \in Seq(Message(MaxCalls, MaxSent))
    <3>1. 0 \in 0..MaxCalls /\ history \in Seq(Message(MaxCalls, MaxSent))
      BY <1>0
    <3>2. said \in Seq(Message(MaxCalls, MaxSent)) /\ Len(said) > 0
      BY <1>0, <3>1, AnswerFacts
    <3> HIDE DEF said
    <3> QED
      BY <3>2, NoteFacts
  <2>2. Drained(said) \in Seq(Message(MaxCalls, MaxSent))
    BY <1>0, <2>1, DrainedFacts
  <2>3. read' \in Seq(1..MaxSent)
    BY <1>0, <1>6, UnreadType, ConcatProperties DEF AskAnswers
  <2>4. turn < HardTurnCap
    BY <1>6 DEF AskAnswers, IInv, LoopInv
  <2>5. /\ pc' \in {"top", "finish"} /\ verdict' \in {verdict, "done"}
        /\ turn' \in {turn, turn + 1} /\ inbox' \in {inbox, <<>>}
        /\ history' \in {Append(said, Note), Drained(said)}
        /\ bigInput' = big /\ streams' = streams + 1
        /\ UNCHANGED <<stop, sent, toolCallsUsed, wrappingUp, needsEdit, inspected, edits,
                       pending, answer, attempt, idle>>
    BY <1>6 DEF AskAnswers
  <2>6. reminded' \in [Reminders -> 0..MaxReminders]
    <3>1. ASSUME NEW r \in Reminders, Due(r), reminded' = [reminded EXCEPT ![r] = @ + 1]
          PROVE  reminded' \in [Reminders -> 0..MaxReminders]
      BY <1>0, <3>1, SMTT(30) DEF Due
    <3>2. \/ reminded' = reminded
          \/ \E r \in Reminders : Due(r) /\ reminded' = [reminded EXCEPT ![r] = @ + 1]
      BY <1>6 DEF AskAnswers, Reminders
    <3> QED
      BY <1>0, <3>1, <3>2
  <2> HIDE DEF said
  <2>7. /\ history' \in Seq(Message(MaxCalls, MaxSent)) /\ inbox' \in Seq(1..MaxSent)
        /\ turn' \in 0..HardTurnCap /\ streams' \in Nat
    <3>1. history' \in Seq(Message(MaxCalls, MaxSent))
      BY <2>1, <2>2, <2>5
    <3>2. inbox' \in Seq(1..MaxSent)
      <4>1. <<>> \in Seq(1..MaxSent) /\ inbox \in Seq(1..MaxSent)
        BY <1>0
      <4> QED
        BY <2>5, <4>1
    <3>3. turn' \in 0..HardTurnCap /\ streams' \in Nat
      BY <1>0, <2>4, <2>5
    <3> QED
      BY <3>1, <3>2, <3>3
  <2> QED
    BY <1>0, <2>3, <2>5, <2>6, <2>7
<1>7. ASSUME NEW tools \in BoundedSeq(Tools, MaxCalls) \ {<<>>}, NEW big \in BOOLEAN,
             AskCallsTools(tools, big)
      PROVE  TypeOK'
  <2>1. tools \in Seq(Tools) /\ Len(tools) \in 0..MaxCalls
    BY AnswerType
  <2>2. history' \in Seq(Message(MaxCalls, MaxSent))
    BY <1>0, <1>7, <2>1, AnswerFacts DEF AskCallsTools
  <2>3. read' \in Seq(1..MaxSent)
    BY <1>0, <1>7, UnreadType, ConcatProperties DEF AskCallsTools
  <2> QED
    BY <1>0, <1>7, <2>1, <2>2, <2>3 DEF AskCallsTools
<1>8. ASSUME NEW outcome, Execute(outcome)
      PROVE  TypeOK'
  <2>1. Tail(answer) \in Seq(Tools)
    BY <1>0, <1>8, HeadTailProperties DEF Execute
  <2>2. history' \in Seq(Message(MaxCalls, MaxSent))
    <3>1. Result \in Message(MaxCalls, MaxSent)
      BY DEF Result, Message
    <3> QED
      BY <1>0, <1>8, <3>1, AppendProperties DEF Execute
  <2> QED
    BY <1>0, <1>8, <2>1, <2>2 DEF Execute
<1>9. CASE EndTurn
  <2>1. history' \in Seq(Message(MaxCalls, MaxSent))
    BY <1>0, <1>9, NoteFacts DEF EndTurn
  <2>2. turn' \in 0..HardTurnCap
    BY <1>0, <1>9 DEF EndTurn, IInv, LoopInv
  <2>3. pending' \in [{"verify", "recover"} -> BOOLEAN]
    BY <1>0, <1>9 DEF EndTurn
  <2>4. reminded' \in [Reminders -> 0..MaxReminders]
    BY <1>0, <1>9 DEF EndTurn
  <2>5. inspected' \in BOOLEAN /\ wrappingUp' \in BOOLEAN
    BY <1>9, Zenon DEF EndTurn
  <2>6. /\ pc' = "top" /\ answer' = <<>>
        /\ UNCHANGED <<stop, verdict, inbox, sent, read, bigInput, toolCallsUsed, needsEdit,
                       edits, attempt, idle, streams>>
    BY <1>9 DEF EndTurn
  <2> QED
    BY <1>0, <2>1, <2>2, <2>3, <2>4, <2>5, <2>6
<1>10. CASE Finish
  BY <1>0, <1>10 DEF Finish
<1>11. CASE Announce
  BY <1>0, <1>11 DEF Announce
<1>12. CASE Send
  <2>1. inbox' \in Seq(1..MaxSent)
    BY <1>0, <1>12, AppendProperties DEF Send
  <2> QED
    BY <1>0, <1>12, <2>1 DEF Send
<1>13. CASE Stop
  BY <1>0, <1>13 DEF Stop
<1> QED
  BY <1>1, <1>2, <1>3, <1>4, <1>5, <1>6, <1>7, <1>8, <1>9, <1>10, <1>11, <1>12, <1>13
     DEF Next, Run

\* The history: results only for open calls, and no call left open but by a stop.
LEMMA HistoryStep ==
  ASSUME IInv, Next
  PROVE  HistoryInv'
<1> USE DEF HistoryInv, Open
<1>0. /\ history \in Seq(Message(MaxCalls, MaxSent)) /\ HistoryInv
      /\ answer \in Seq(Tools) /\ Len(answer) \in Nat /\ TypeOK
  BY LenProperties DEF IInv, TypeOK
<1>1. ASSUME pc # "tools", pc' # "tools", history' = history,
             stop' = stop \/ stop' # "no"
      PROVE  HistoryInv'
  BY <1>0, <1>1
<1>2. CASE TopOfLoop
  <2>1. CASE turn = HardTurnCap
    BY <1>1, <1>2, <2>1 DEF TopOfLoop, EndWith
  <2>2. CASE turn # HardTurnCap
    <3>1. /\ pc = "top" /\ pc' = "ask" /\ stop' = stop
          /\ \/ history' = Drained(history)
             \/ history' = Trimmed(Drained(history), KeepTurns)
      BY <1>2, <2>2 DEF TopOfLoop
    <3>2. /\ Len(history') > 0 /\ history'[1] = Note /\ ResultsHaveCalls(history')
          /\ AnsweredBut(history, 0) => AnsweredBut(history', 0)
      BY <3>1, TopFacts
    <3> QED
      BY <1>0, <3>1, <3>2 DEF Owes
  <2> QED
    BY <2>1, <2>2
<1>3. CASE AskStopped
  BY <1>1, <1>3 DEF AskStopped, EndWith
<1>4. CASE AskIdle
  BY <1>1, <1>4 DEF AskIdle, EndWith
<1>5. ASSUME NEW transient \in BOOLEAN, AskFails(transient)
      PROVE  HistoryInv'
  BY <1>1, <1>5 DEF AskFails, EndWith
<1>6. CASE Retry
  BY <1>1, <1>6 DEF Retry
<1>7. ASSUME NEW big \in BOOLEAN, AskAnswers(big)
      PROVE  HistoryInv'
  <2> DEFINE said == Append(history, Assistant(0))
  <2>1. /\ pc = "ask" /\ pc' \in {"top", "finish"} /\ stop = "no" /\ stop' = stop
        /\ history' \in {Append(said, Note), Drained(said)}
    BY <1>7 DEF AskAnswers, EndWith, NextTurn
  <2>2. 0 \in 0..MaxCalls
    BY ConstantsAssumption
  <2>3. /\ said \in Seq(Message(MaxCalls, MaxSent)) /\ Len(said) > 0 /\ said[1] = Note
        /\ ResultsHaveCalls(said) /\ AnsweredBut(said, 0)
    BY <1>0, <2>1, <2>2, AnswerFacts
  <2> HIDE DEF said
  <2>4. /\ Len(history') > 0 /\ history'[1] = Note
        /\ ResultsHaveCalls(history') /\ AnsweredBut(history', 0)
    BY <1>0, <2>1, <2>3, NoteFacts, DrainedFacts
  <2> QED
    BY <2>1, <2>4 DEF Owes
<1>8. ASSUME NEW tools \in BoundedSeq(Tools, MaxCalls) \ {<<>>}, NEW big \in BOOLEAN,
             AskCallsTools(tools, big)
      PROVE  HistoryInv'
  <2>1. /\ pc = "ask" /\ pc' = "tools" /\ stop = "no" /\ stop' = stop /\ answer' = tools
        /\ history' = Append(history, Assistant(Len(tools)))
    BY <1>8 DEF AskCallsTools
  <2>2. Len(tools) \in 0..MaxCalls
    BY AnswerType
  <2> QED
    BY <1>0, <2>1, <2>2, AnswerFacts
<1>9. ASSUME NEW outcome, Execute(outcome)
      PROVE  HistoryInv'
  <2>1. /\ pc = "tools" /\ pc' = "tools" /\ stop = "no" /\ stop' = stop
        /\ answer # <<>> /\ answer' = Tail(answer)
        /\ history' = Append(history, Result)
    BY <1>9 DEF Execute
  <2>2. Len(answer) \in Nat \ {0} /\ Len(answer') = Len(answer) - 1
    BY <1>0, <2>1, HeadTailProperties, EmptySeq
  <2> QED
    BY <1>0, <2>1, <2>2, ResultFacts
<1>10. CASE EndTurn
  <2>1. /\ pc = "tools" /\ pc' = "top" /\ stop' = stop
        /\ stop = "no" => answer = <<>>
        /\ history' \in {history, Append(history, Note)}
    BY <1>10 DEF EndTurn, NextTurn
  <2>2. stop = "no" => AnsweredBut(history, 0)
    BY <1>0, <2>1
  <2>3. /\ Len(history') > 0 /\ history'[1] = Note /\ ResultsHaveCalls(history')
        /\ stop = "no" => AnsweredBut(history', 0)
    <3> DEFINE g == Append(history, Note)
    <3>1. /\ Len(g) > 0 /\ g[1] = Note /\ ResultsHaveCalls(g)
          /\ stop = "no" => AnsweredBut(g, 0)
      BY <1>0, <2>2, NoteFacts
    <3> HIDE DEF g
    <3>2. history' = history \/ history' = g
      BY <2>1 DEF g
    <3> QED
      BY <1>0, <2>2, <3>1, <3>2
  <2> QED
    BY <2>1, <2>3 DEF Owes
<1>11. CASE Finish
  BY <1>1, <1>11 DEF Finish
<1>12. CASE Announce
  BY <1>1, <1>12 DEF Announce
<1>13. CASE Send
  BY <1>0, <1>13 DEF Send
<1>14. CASE Stop
  BY <1>0, <1>14 DEF Stop
<1> QED
  BY <1>2, <1>3, <1>4, <1>5, <1>6, <1>7, <1>8, <1>9, <1>10, <1>11, <1>12, <1>13, <1>14
     DEF Next, Run

-----------------------------------------------------------------------------
\* What has been read and what is unread number the follow-ups taken, one by one.
LEMMA ReadInOrder ==
  ASSUME IInv
  PROVE  /\ read \o Unread(history) = [k \in 1..Taken |-> k]
         /\ Len(read \o Unread(history)) = Taken
<1> DEFINE a == 0
           r == Len(read)
           u == Unread(history)
           n == Taken - r
<1>1. /\ a \in Nat /\ r \in Nat /\ n \in Nat /\ r + n = Taken
      /\ u = [k \in 1..n |-> r + k]
  BY UnreadType
<1>2. read = [k \in 1..r |-> a + k]
  <2>1. 1..MaxSent \subseteq Nat
    BY ConstantsAssumption
  <2>2. read \in Seq(Nat)
    BY <2>1, SeqMonotonic DEF IInv, TypeOK
  <2>3. DOMAIN read = 1..r /\ read \in [1..r -> Nat]
    BY <2>2, LenProperties
  <2>4. read = [k \in 1..r |-> read[k]]
    BY <2>3
  <2>5. \A k \in 1..r : read[k] = a + k
    BY <1>1 DEF IInv, FollowUpInv
  <2> QED
    BY <2>4, <2>5
<1> HIDE DEF r, n
<1>3. u \in Seq(Nat) /\ Len(u) = n /\ \A i \in 1..n : u[i] = a + r + i
  BY <1>1
<1> HIDE DEF a, u
<1>4. /\ [k \in 1..r |-> a + k] \o u = [k \in 1..(r + n) |-> a + k]
      /\ Len([k \in 1..r |-> a + k] \o u) = r + n
  BY <1>1, <1>3, CountedOn
<1>5. [k \in 1..(r + n) |-> a + k] = [k \in 1..Taken |-> k]
  BY <1>1 DEF a
<1> QED
  BY <1>1, <1>2, <1>4, <1>5 DEF u

\* Draining and reading move the follow-ups along, in order.
LEMMA FollowUpStep ==
  ASSUME IInv, Next
  PROVE  FollowUpInv'
<1> DEFINE n == Taken - Len(read)
<1>0. /\ history \in Seq(Message(MaxCalls, MaxSent)) /\ Len(history) > 0
      /\ inbox \in Seq(Nat) /\ read \in Seq(Nat) /\ sent \in Nat
      /\ Len(read) \in Nat /\ Len(inbox) \in Nat
      /\ TypeOK /\ FollowUpInv
  <2>1. 1..MaxSent \subseteq Nat /\ 0..MaxSent \subseteq Nat
    BY ConstantsAssumption
  <2> QED
    BY <2>1, LenProperties, SeqMonotonic DEF IInv, TypeOK, HistoryInv
<1>1. n \in Nat /\ Taken = Len(read) + n /\ sent = Len(read) + n + Len(inbox)
  BY <1>0, UnreadType DEF Taken
<1>2. /\ Unread(history) = [k \in 1..n |-> Len(read) + k]
      /\ \A i \in 1..Len(inbox) : inbox[i] = Len(read) + n + i
      /\ \A i \in 1..Len(read) : read[i] = i
  BY <1>0, <1>1 DEF FollowUpInv
<1> HIDE DEF n
<1>3. Len(<<>>) = 0 /\ \A i \in 1..Len(<<>>) : FALSE
  OBVIOUS
\* Nothing moves.
<1>4. ASSUME Unread(history') = Unread(history), UNCHANGED msgVars
      PROVE  FollowUpInv'
  BY <1>0, <1>4 DEF FollowUpInv, Taken, msgVars
\* The inbox is drained.
<1>5. ASSUME Unread(history') = Unread(history) \o inbox, inbox' = <<>>,
             UNCHANGED <<sent, read>>
      PROVE  FollowUpInv'
  <2>1. Unread(history') = [k \in 1..(n + Len(inbox)) |-> Len(read) + k]
    BY <1>0, <1>1, <1>2, <1>5, CountedOn
  <2>2. Taken' = Len(read) + n + Len(inbox) /\ Taken' - Len(read) = n + Len(inbox)
    BY <1>0, <1>1, <1>3, <1>5 DEF Taken
  <2>3. Len(read) <= Taken'
    BY <1>0, <1>1, <2>2
  <2> QED
    BY <1>2, <1>3, <1>5, <2>1, <2>2, <2>3 DEF FollowUpInv
\* What was unread is read.
<1>6. /\ read \o Unread(history) = [k \in 1..(Len(read) + n) |-> k]
      /\ Len(read \o Unread(history)) = Len(read) + n
  BY <1>1, ReadInOrder
<1>7. \A i \in 1..(Len(read) + n) : (read \o Unread(history))[i] = i
  BY <1>0, <1>1, <1>6
<1>8. ASSUME read' = read \o Unread(history), Unread(history') = <<>>,
             UNCHANGED <<sent, inbox>>
      PROVE  FollowUpInv'
  <2>1. Taken' = Len(read) + n /\ Len(read') = Len(read) + n
    BY <1>0, <1>1, <1>6, <1>8 DEF Taken
  <2>2. Taken' - Len(read') = 0 /\ Len(read') <= Taken'
    BY <1>0, <1>1, <2>1
  <2>3. Unread(history') = [k \in 1..0 |-> Len(read') + k]
    BY <1>8
  <2> QED
    BY <1>2, <1>7, <1>8, <2>1, <2>2, <2>3 DEF FollowUpInv
<1>9. ASSUME read' = read \o Unread(history), Unread(history') = inbox, inbox' = <<>>,
             UNCHANGED sent
      PROVE  FollowUpInv'
  <2>1. Taken' = Len(read) + n + Len(inbox) /\ Len(read') = Len(read) + n
    BY <1>0, <1>1, <1>3, <1>6, <1>9 DEF Taken
  <2>2. Taken' - Len(read') = Len(inbox) /\ Len(read') <= Taken'
    BY <1>0, <1>1, <2>1
  <2>3. inbox = [k \in 1..Len(inbox) |-> Len(read') + k]
    <3>1. DOMAIN inbox = 1..Len(inbox) /\ inbox \in [1..Len(inbox) -> Nat]
      BY <1>0, LenProperties
    <3>2. inbox = [k \in 1..Len(inbox) |-> inbox[k]]
      BY <3>1
    <3>3. \A k \in 1..Len(inbox) : inbox[k] = Len(read') + k
      BY <1>2, <2>1
    <3> QED
      BY <3>2, <3>3
  <2> QED
    BY <1>3, <1>7, <1>9, <2>1, <2>2, <2>3 DEF FollowUpInv
<1>10. CASE TopOfLoop
  <2>1. CASE turn = HardTurnCap
    BY <1>4, <1>10, <2>1 DEF TopOfLoop, msgVars
  <2>2. CASE turn # HardTurnCap
    <3>1. Unread(history') = Unread(history) \o inbox
      BY <1>10, <2>2, TopFacts DEF TopOfLoop
    <3> QED
      BY <1>5, <1>10, <2>2, <3>1 DEF TopOfLoop
  <2> QED
    BY <2>1, <2>2
<1>11. ASSUME NEW big \in BOOLEAN, AskAnswers(big)
       PROVE  FollowUpInv'
  <2> DEFINE said == Append(history, Assistant(0))
  <2>1. /\ read' = read \o Unread(history) /\ sent' = sent
        /\ \/ history' = Append(said, Note) /\ inbox' = inbox
           \/ history' = Drained(said) /\ inbox' = <<>>
    BY <1>11 DEF AskAnswers
  <2>2. 0 \in 0..MaxCalls
    BY ConstantsAssumption
  <2>3. /\ said \in Seq(Message(MaxCalls, MaxSent)) /\ Len(said) > 0
        /\ Unread(said) = <<>>
    BY <1>0, <2>2, AnswerFacts
  <2> HIDE DEF said
  <2>4. Unread(Append(said, Note)) = <<>>
    BY <2>3, NoteFacts
  <2>5. Unread(Drained(said)) = inbox
    BY <1>0, <2>3, DrainedFacts, ConcatEmptySeq
  <2> QED
    BY <1>8, <1>9, <2>1, <2>4, <2>5
<1>12. ASSUME NEW tools \in BoundedSeq(Tools, MaxCalls) \ {<<>>}, NEW big \in BOOLEAN,
              AskCallsTools(tools, big)
       PROVE  FollowUpInv'
  <2>1. Len(tools) \in 0..MaxCalls
    BY AnswerType
  <2>2. Unread(Append(history, Assistant(Len(tools)))) = <<>>
    BY <1>0, <2>1, AnswerFacts
  <2> QED
    BY <1>8, <1>12, <2>2 DEF AskCallsTools
<1>13. ASSUME NEW outcome, Execute(outcome)
       PROVE  FollowUpInv'
  <2>1. Unread(Append(history, Result)) = Unread(history)
    <3>1. history \in History
      BY <1>0, HistoryFacts
    <3>2. Result \in [role : {"user", "tool"}, calls : {0}, msg : {0}]
      BY DEF Result
    <3> QED
      BY <1>0, <3>1, <3>2, UnreadAfterNote
  <2> QED
    BY <1>4, <1>13, <2>1 DEF Execute
<1>14. CASE EndTurn
  <2>1. Unread(Append(history, Note)) = Unread(history)
    BY <1>0, NoteFacts
  <2> QED
    BY <1>4, <1>14, <2>1 DEF EndTurn
<1>15. CASE Send
  <2>1. sent' = sent + 1 /\ inbox' = Append(inbox, sent + 1) /\ UNCHANGED <<history, read>>
    BY <1>15 DEF Send
  <2>2. /\ Len(inbox') = Len(inbox) + 1
        /\ \A i \in 1..Len(inbox) : inbox'[i] = inbox[i]
        /\ inbox'[Len(inbox) + 1] = sent + 1
    BY <1>0, <2>1, AppendProperties
  <2>3. Taken' = Taken
    BY <1>0, <2>1, <2>2 DEF Taken
  <2>4. \A i \in 1..Len(inbox') : inbox'[i] = Taken' + i
    <3>1. Taken = sent - Len(inbox) /\ \A i \in 1..Len(inbox) : inbox[i] = Taken + i
      BY <1>0 DEF FollowUpInv, Taken
    <3>2. Taken \in Int /\ sent + 1 = Taken + (Len(inbox) + 1)
      BY <1>0, <3>1
    <3>3. ASSUME NEW i \in 1..Len(inbox')
          PROVE  i \in 1..Len(inbox) \/ i = Len(inbox) + 1
      BY <1>0, <2>2
    <3> QED
      BY <2>2, <2>3, <3>1, <3>2, <3>3
  <2> QED
    BY <1>0, <2>1, <2>3, <2>4 DEF FollowUpInv
<1>16. CASE AskStopped \/ AskIdle \/ (\E transient \in BOOLEAN : AskFails(transient))
            \/ Retry \/ Finish \/ Announce \/ Stop
  <2>1. UNCHANGED history /\ UNCHANGED msgVars
    BY <1>16 DEF AskStopped, AskIdle, AskFails, Retry, Finish, Announce, Stop, msgVars
  <2> QED
    BY <1>4, <2>1
<1> QED
  BY <1>10, <1>11, <1>12, <1>13, <1>14, <1>15, <1>16 DEF Next, Run

\* IInv is inductive, hence an invariant of the specification.
LEMMA Invariance == Spec => []IInv
<1>1. IInv /\ [Next]_vars => IInv'
  <2> SUFFICES ASSUME IInv, [Next]_vars PROVE IInv'
    OBVIOUS
  <2>1. CASE UNCHANGED vars
    BY <2>1 DEF vars, IInv, TypeOK, LoopInv, RetryInv, BudgetInv, HistoryInv, Open,
       FollowUpInv, Taken
  <2>2. CASE Next
    BY <2>2, TypeStep, CountersStep, HistoryStep, FollowUpStep DEF IInv
  <2> QED
    BY <2>1, <2>2
<1> QED
  BY InitIInv, <1>1, PTL DEF Spec

-----------------------------------------------------------------------------
(* What the runs check, for every value of the constants. *)

\* Every variable of Run keeps its type: neither the turn counter, nor a retry
\* count, nor a reminder's count leaves its range.
THEOREM TypeCorrect == Spec => []TypeOK
<1>1. IInv => TypeOK
  BY DEF IInv
<1> QED
  BY Invariance, <1>1, PTL

\* The tool-call budget is overrun by no more than the answer that spent it, and a
\* turn issues no more requests than runTurnWithRetry's two counts allow.
THEOREM BudgetKept == Spec => []BudgetHolds
<1>1. IInv => BudgetHolds
  <2> SUFFICES ASSUME IInv PROVE BudgetHolds
    OBVIOUS
  <2>1. Len(answer) \in Nat
    BY LenProperties DEF IInv, TypeOK
  <2> QED
    BY <2>1, ConstantsAssumption DEF IInv, TypeOK, BudgetInv, RetryInv, BudgetHolds
<1> QED
  BY Invariance, <1>1, PTL

\* However the history was trimmed, reminded or interrupted, the request made of
\* it is one the provider accepts.
THEOREM RequestsAccepted == Spec => []RequestWellFormed
<1>1. IInv => RequestWellFormed
  <2> SUFFICES ASSUME IInv, pc = "ask", stop = "no" PROVE WellFormed(history)
    BY DEF RequestWellFormed
  <2>1. history \in History
    BY HistoryFacts DEF IInv, TypeOK
  <2>2. /\ history[1] = Note /\ ResultsHaveCalls(history)
        /\ AnsweredBut(history, 0)
    BY DEF IInv, HistoryInv, Open
  <2> QED
    BY <2>1, <2>2, AnsweredIff DEF WellFormed, Note, UserMsg
<1> QED
  BY Invariance, <1>1, PTL

\* Follow-ups reach the model once each, in the order they were sent, whatever
\* trimming, reminders, retries and drains come in between.
THEOREM FollowUpsKept == Spec => []FollowUpsInOrder
<1>1. IInv => FollowUpsInOrder
  BY ReadInOrder DEF FollowUpsInOrder, Taken
<1> QED
  BY Invariance, <1>1, PTL

\* Every step of Run is one of the contract the waiters rely on, or a stutter of
\* it: it decides once, never for "done" when stopped, never for "cancelled" when
\* nobody killed it, and announces what it decided.
THEOREM ContractKept == Spec => KeepsContract
<1> DEFINE Mapped == [Contract!Next]_(Contract!vars)
<1>1. ASSUME IInv, [Next]_vars
      PROVE  Mapped
  <2> USE DEF Contract!Next, Contract!vars, Contract!Decide, Contract!Announce,
              Contract!Stop, Contract!Outcomes, EndWith, NextTurn, ContextVerdict
  <2>1. CASE TopOfLoop
    BY <2>1 DEF TopOfLoop, IInv, TypeOK
  <2>2. CASE AskStopped
    BY <2>2 DEF AskStopped, IInv, TypeOK
  <2>3. CASE AskIdle
    BY <2>3 DEF AskIdle, IInv, TypeOK
  <2>4. ASSUME NEW transient \in BOOLEAN, AskFails(transient)
        PROVE  Mapped
    BY <2>4 DEF AskFails, IInv, TypeOK
  <2>5. CASE Retry
    BY <2>5 DEF Retry
  <2>6. ASSUME NEW big \in BOOLEAN, AskAnswers(big)
        PROVE  Mapped
    <3>1. /\ pc = "ask" /\ stop = "no" /\ stop' = stop
          /\ \/ pc' = "top" /\ verdict' = verdict
             \/ pc' = "finish" /\ verdict' = "done"
      BY <2>6 DEF AskAnswers
    <3> QED
      BY <3>1
  <2>7. ASSUME NEW tools, NEW big, AskCallsTools(tools, big)
        PROVE  Mapped
    BY <2>7 DEF AskCallsTools
  <2>8. ASSUME NEW outcome, Execute(outcome)
        PROVE  Mapped
    BY <2>8 DEF Execute
  <2>9. CASE EndTurn
    <3>1. pc = "tools" /\ pc' = "top" /\ UNCHANGED <<verdict, stop>>
      BY <2>9 DEF EndTurn
    <3> QED
      BY <3>1
  <2>10. CASE Finish
    BY <2>10 DEF Finish
  <2>11. CASE Announce
    BY <2>11 DEF Announce
  <2>12. CASE Send
    BY <2>12 DEF Send
  <2>13. CASE Stop
    BY <2>13 DEF Stop, IInv, TypeOK
  <2>14. CASE UNCHANGED vars
    BY <2>14 DEF vars
  <2> QED
    BY <1>1, <2>1, <2>2, <2>3, <2>4, <2>5, <2>6, <2>7, <2>8, <2>9, <2>10, <2>11, <2>12,
       <2>13, <2>14
       DEF Next, Run
<1> QED
  BY Invariance, <1>1, PTL DEF Spec, KeepsContract
=============================================================================
