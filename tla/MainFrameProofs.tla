--------------------------- MODULE MainFrameProofs ---------------------------
(***************************************************************************)
(* Proofs about MainFrame, for any messages, filters and sizes of buckets: *)
(* lines are logged in the order in which they came, and the view shows    *)
(* lines of the log, in their order and once.                              *)
(***************************************************************************)
EXTENDS MainFrame, SequenceTheorems, FunctionTheorems, FiniteSetTheorems,
        WellFoundedInduction, TLAPS

Message == [n : Nat, kind : Kinds]

Typed ==
  /\ m_linebuffer \in Seq(Message) /\ m_incomingMessages \in Seq(Seq(Message))
  /\ batch \in Seq(Message) /\ m_logFile \in Seq(Message)
  /\ received \in Nat /\ updating \in BOOLEAN /\ timers \in Nat
  /\ ~updating => batch = <<>>

\* Lines in their order, and all of s before all of t.
Sorted(s) == \A i, j \in 1 .. Len(s) : i < j => s[i].n < s[j].n
Before(s, t) == \A i \in 1 .. Len(s), j \in 1 .. Len(t) : s[i].n < t[j].n
UpTo(s, max) == \A i \in 1 .. Len(s) : s[i].n <= max

\* The buckets ss, after s and before t.
Between(s, ss, t) ==
  /\ \A k \in 1 .. Len(ss) : Sorted(ss[k]) /\ Before(s, ss[k]) /\ Before(ss[k], t)
  /\ \A k, l \in 1 .. Len(ss) : k < l => Before(ss[k], ss[l])

\* OrderIsKept, by the places that the lines pass.
InOrder ==
  /\ Sorted(m_logFile) /\ Sorted(batch) /\ Sorted(m_linebuffer)
  /\ Before(m_logFile, batch) /\ Before(m_logFile, m_linebuffer)
  /\ Before(batch, m_linebuffer)
  /\ Between(m_logFile, m_incomingMessages, m_linebuffer)
  /\ Between(batch, m_incomingMessages, m_linebuffer)
  /\ UpTo(m_logFile, received) /\ UpTo(batch, received)
  /\ UpTo(m_linebuffer, received)
  /\ \A k \in 1 .. Len(m_incomingMessages) : UpTo(m_incomingMessages[k], received)

------------------------------------------------------------------------------
(* Naturals and recursion *)

LEMMA LeastNatural ==
  ASSUME NEW S, S \subseteq Nat, S # {}
  PROVE  \E n \in S : \A m \in S : n <= m
<1> DEFINE R == OpToRel(<, Nat)
<1>1. IsWellFoundedOn(R, Nat)
  BY NatLessThanWellFounded
<1> HIDE DEF R
<1>2. PICK n \in S : \A m \in S : ~ (<<m, n>> \in R)
  BY <1>1, WFMin
<1>3. ASSUME NEW m \in S PROVE n <= m
  <2>1. m < n => <<m, n>> \in R
    BY DEF R, OpToRel
  <2> QED BY <1>2, <2>1
<1> QED BY <1>3

\* f computes, step by step from a, what the functions G[1] to G[n] make of it.
IsRun(f, n, S, a, G) ==
  /\ f \in [0 .. n -> S] /\ f[0] = a
  /\ \A i \in 1 .. n : f[i] = G[i][f[i - 1]]

LEMMA Recursion ==
  ASSUME NEW S, NEW n \in Nat, NEW a \in S, NEW G \in [1 .. n -> [S -> S]]
  PROVE  \E f : IsRun(f, n, S, a, G)
<1> DEFINE Run(f, k) == /\ f \in [0 .. k -> S] /\ f[0] = a
                        /\ \A i \in 1 .. k : f[i] = G[i][f[i - 1]]
           Bad == {k \in 0 .. n : ~ \E f : Run(f, k)}
<1>1. Run([i \in 0 .. 0 |-> a], 0)
  OBVIOUS
<1>2. ASSUME NEW k \in 1 .. n, NEW g, Run(g, k - 1)
      PROVE  \E f : Run(f, k)
  <2> DEFINE f == [i \in 0 .. k |-> IF i = k THEN G[k][g[k - 1]] ELSE g[i]]
  <2>1. g[k - 1] \in S /\ G[k] \in [S -> S]
    BY <1>2
  <2>2. f \in [0 .. k -> S]
    BY <1>2, <2>1
  <2>3. f[0] = a
    BY <1>2
  <2>4. ASSUME NEW i \in 1 .. k PROVE f[i] = G[i][f[i - 1]]
    BY <1>2, <2>4
  <2> QED BY <2>2, <2>3, <2>4
<1>3. Bad = {}
  <2> SUFFICES ASSUME Bad # {} PROVE FALSE
    OBVIOUS
  <2>1. Bad \subseteq Nat
    OBVIOUS
  <2>2. \A m \in 0 .. n : m \notin Bad => \E f : Run(f, m)
    OBVIOUS
  <2>3. \A m \in Bad : m \in 0 .. n /\ ~ \E f : Run(f, m)
    OBVIOUS
  <2> HIDE DEF Bad, Run
  <2>4. PICK k \in Bad : \A m \in Bad : k <= m
    BY <2>1, LeastNatural
  <2>5. k # 0
    BY <1>1, <2>3, <2>4
  <2>6. k \in 1 .. n /\ k - 1 \in 0 .. n /\ k - 1 \notin Bad
    BY <2>3, <2>4, <2>5
  <2>7. PICK g : Run(g, k - 1)
    BY <2>2, <2>6
  <2>8. \E f : Run(f, k)
    BY <1>2, <2>6, <2>7
  <2> QED BY <2>3, <2>4, <2>8
<1>4. n \in 0 .. n
  OBVIOUS
<1>5. PICK f : Run(f, n)
  BY <1>3, <1>4
<1> QED BY <1>5 DEF IsRun

\* The steps in which FlattenSeq puts its result together.
LEMMA FlattenSteps ==
  ASSUME NEW S, NEW ss \in Seq(Seq(S)), ss # <<>>
  PROVE  \E f \in [1 .. Len(ss) -> Seq(S)] :
           /\ f[1] = ss[1] /\ FlattenSeq(ss) = f[Len(ss)]
           /\ \A i \in 2 .. Len(ss) : f[i] = f[i - 1] \o ss[i]
<1> DEFINE n == Len(ss)
           flat(g) == [i \in 1 .. n |-> IF i = 1 THEN ss[i] ELSE g[i - 1] \o ss[i]]
           flatten == CHOOSE g : g = flat(g)
           G == [i \in 1 .. n |-> [s \in Seq(S) |-> s \o ss[i]]]
<1>1. n \in Nat /\ n # 0 /\ \A i \in 1 .. n : ss[i] \in Seq(S)
  BY LenProperties, EmptySeq, ElementOfSeq
<1>2. FlattenSeq(ss) = flatten[n]
  BY <1>1 DEF FlattenSeq
<1> HIDE DEF n, flat, flatten
<1>3. G \in [1 .. n -> [Seq(S) -> Seq(S)]] /\ <<>> \in Seq(S)
  BY <1>1, ConcatProperties, EmptySeq
<1>g. \A i \in 1 .. n, s \in Seq(S) : G[i][s] = s \o ss[i]
  OBVIOUS
<1> HIDE DEF G
<1>4. PICK f \in [0 .. n -> Seq(S)] : f[0] = <<>> /\ \A i \in 1 .. n : f[i] = G[i][f[i - 1]]
  <2>1. n \in Nat /\ G \in [1 .. n -> [Seq(S) -> Seq(S)]] /\ <<>> \in Seq(S)
    BY <1>1, <1>3
  <2>2. PICK f : IsRun(f, n, Seq(S), <<>>, G)
    BY <2>1, Recursion
  <2> QED BY <2>2 DEF IsRun
<1>5. ASSUME NEW i \in 1 .. n PROVE f[i] = f[i - 1] \o ss[i]
  <2>1. i - 1 \in 0 .. n
    BY <1>1
  <2>2. f[i - 1] \in Seq(S)
    BY <2>1
  <2> QED BY <1>4, <1>g, <2>2
<1>6. f[1] = ss[1]
  <2>1. 1 \in 1 .. n /\ 1 - 1 = 0
    BY <1>1
  <2>2. f[1] = <<>> \o ss[1] /\ ss[1] \in Seq(S)
    BY <1>1, <1>4, <1>5, <2>1
  <2> QED BY <2>2, ConcatEmptySeq
<1> DEFINE g == [i \in 1 .. n |-> f[i]]
<1>7. g = flat(g)
  <2>1. \A i \in 1 .. n : i # 1 => i - 1 \in 1 .. n
    BY <1>1
  <2> QED BY <1>5, <1>6, <2>1 DEF flat
<1>8. flatten = flat(flatten)
  <2> HIDE DEF g
  <2> QED BY <1>7 DEF flatten
<1>9. \A i \in 1 .. n : flatten[i] = IF i = 1 THEN ss[i] ELSE flatten[i - 1] \o ss[i]
  <2> DEFINE F == flatten
  <2>1. F = flat(F)
    BY <1>8
  <2> HIDE DEF F
  <2>2. \A i \in 1 .. n : F[i] = IF i = 1 THEN ss[i] ELSE F[i - 1] \o ss[i]
    BY <2>1 DEF flat
  <2> QED BY <2>2 DEF F
<1> HIDE DEF g
<1>10. \A i \in 1 .. n : flatten[i] = f[i]
  <2> DEFINE Bad == {i \in 1 .. n : flatten[i] # f[i]}
  <2> SUFFICES ASSUME Bad # {} PROVE FALSE
    OBVIOUS
  <2>1. Bad \subseteq Nat /\ \A i \in Bad : i \in 1 .. n /\ flatten[i] # f[i]
    OBVIOUS
  <2>2. \A i \in 1 .. n : i \notin Bad => flatten[i] = f[i]
    OBVIOUS
  <2> HIDE DEF Bad
  <2>3. PICK i \in Bad : \A j \in Bad : i <= j
    BY <2>1, LeastNatural
  <2>4. i # 1 /\ i \in 1 .. n
    BY <1>1, <1>6, <1>9, <2>1, <2>3
  <2>5. i - 1 \in 1 .. n /\ i - 1 \notin Bad
    BY <1>1, <2>3, <2>4
  <2>6. flatten[i] = flatten[i - 1] \o ss[i]
    BY <1>9, <2>4
  <2>7. f[i] = f[i - 1] \o ss[i]
    BY <1>5, <2>4
  <2>8. flatten[i - 1] = f[i - 1]
    BY <2>2, <2>5
  <2> QED BY <2>1, <2>3, <2>6, <2>7, <2>8
<1>11. n \in 1 .. n /\ 1 \in 1 .. n
  BY <1>1
<1>12. \A i \in 2 .. n : i \in 1 .. n
  OBVIOUS
<1>13. g \in [1 .. n -> Seq(S)] /\ \A i \in 1 .. n : g[i] = f[i]
  <2>1. \A i \in 1 .. n : i \in 0 .. n
    BY <1>1
  <2> QED BY <2>1 DEF g
<1>14. g[1] = ss[1] /\ FlattenSeq(ss) = g[n]
  BY <1>2, <1>6, <1>10, <1>11, <1>13
<1>15. \A i \in 2 .. n : g[i] = g[i - 1] \o ss[i]
  <2>1. \A i \in 2 .. n : i - 1 \in 1 .. n
    BY <1>1
  <2> QED BY <1>5, <1>12, <1>13, <2>1
<1> QED BY <1>13, <1>14, <1>15 DEF n

------------------------------------------------------------------------------
(* Sorted lines *)

LEMMA ConcatSorted ==
  ASSUME NEW s \in Seq(Message), NEW t \in Seq(Message),
         Sorted(s), Sorted(t), Before(s, t)
  PROVE  s \o t \in Seq(Message) /\ Sorted(s \o t)
<1>1. /\ Len(s) \in Nat /\ Len(t) \in Nat
      /\ s \o t \in Seq(Message) /\ Len(s \o t) = Len(s) + Len(t)
      /\ \A i \in 1 .. Len(s) + Len(t) :
           (s \o t)[i] = IF i <= Len(s) THEN s[i] ELSE t[i - Len(s)]
  BY LenProperties, ConcatProperties
<1>2. ASSUME NEW i \in 1 .. Len(s \o t), NEW j \in 1 .. Len(s \o t), i < j
      PROVE  (s \o t)[i].n < (s \o t)[j].n
  <2>1. CASE j <= Len(s)
    <3>1. i \in 1 .. Len(s) /\ j \in 1 .. Len(s)
      BY <1>1, <1>2, <2>1
    <3>3. (s \o t)[i] = s[i] /\ (s \o t)[j] = s[j]
      BY <1>1, <1>2, <2>1, <3>1
    <3> QED BY <1>2, <3>1, <3>3 DEF Sorted
  <2>2. CASE i <= Len(s) /\ j > Len(s)
    <3>1. i \in 1 .. Len(s) /\ j - Len(s) \in 1 .. Len(t)
      BY <1>1, <1>2, <2>2
    <3>2. (s \o t)[i] = s[i] /\ (s \o t)[j] = t[j - Len(s)]
      BY <1>1, <1>2, <2>2
    <3> QED BY <3>1, <3>2 DEF Before
  <2>3. CASE i > Len(s)
    <3>1. i - Len(s) \in 1 .. Len(t) /\ j - Len(s) \in 1 .. Len(t) /\ i - Len(s) < j - Len(s)
      BY <1>1, <1>2, <2>3
    <3>2. (s \o t)[i] = t[i - Len(s)] /\ (s \o t)[j] = t[j - Len(s)]
      BY <1>1, <1>2, <2>3
    <3> QED BY <3>1, <3>2 DEF Sorted
  <2> QED BY <1>1, <2>1, <2>2, <2>3
<1> QED BY <1>1, <1>2 DEF Sorted

LEMMA ConcatBefore ==
  ASSUME NEW s \in Seq(Message), NEW t \in Seq(Message), NEW u \in Seq(Message)
  PROVE  /\ Before(s, u) /\ Before(t, u) => Before(s \o t, u)
         /\ Before(u, s) /\ Before(u, t) => Before(u, s \o t)
<1>1. /\ Len(s) \in Nat /\ Len(t) \in Nat
      /\ s \o t \in Seq(Message) /\ Len(s \o t) = Len(s) + Len(t)
      /\ \A i \in 1 .. Len(s) + Len(t) :
           (s \o t)[i] = IF i <= Len(s) THEN s[i] ELSE t[i - Len(s)]
  BY LenProperties, ConcatProperties
<1>2. ASSUME NEW i \in 1 .. Len(s \o t)
      PROVE  \/ \E j \in 1 .. Len(s) : (s \o t)[i] = s[j]
             \/ \E j \in 1 .. Len(t) : (s \o t)[i] = t[j]
  <2>1. CASE i <= Len(s)
    BY <1>1, <2>1
  <2>2. CASE i > Len(s)
    <3>1. i - Len(s) \in 1 .. Len(t) /\ (s \o t)[i] = t[i - Len(s)]
      BY <1>1, <2>2
    <3> QED BY <3>1
  <2> QED BY <1>1, <2>1, <2>2
<1> QED BY <1>2 DEF Before

LEMMA FlattenSorted ==
  ASSUME NEW s \in Seq(Message), NEW ss \in Seq(Seq(Message)), NEW t \in Seq(Message),
         Between(s, ss, t)
  PROVE  /\ FlattenSeq(ss) \in Seq(Message) /\ Sorted(FlattenSeq(ss))
         /\ Before(s, FlattenSeq(ss)) /\ Before(FlattenSeq(ss), t)
<1>1. CASE ss = <<>>
  <2>1. FlattenSeq(ss) = <<>> /\ Len(<<>>) = 0
    BY <1>1 DEF FlattenSeq
  <2> QED BY <2>1, EmptySeq DEF Sorted, Before
<1>2. CASE ss # <<>>
  <2> DEFINE n == Len(ss)
  <2>1. n \in Nat /\ n # 0 /\ \A i \in 1 .. n : ss[i] \in Seq(Message)
    BY <1>2, LenProperties, EmptySeq, ElementOfSeq
  <2>2. PICK f \in [1 .. n -> Seq(Message)] :
           /\ f[1] = ss[1] /\ FlattenSeq(ss) = f[n]
           /\ \A i \in 2 .. n : f[i] = f[i - 1] \o ss[i]
    BY <1>2, FlattenSteps
  <2> DEFINE Good(i) == /\ Sorted(f[i]) /\ Before(s, f[i]) /\ Before(f[i], t)
                        /\ \A k \in i + 1 .. n : Before(f[i], ss[k])
             Bad == {i \in 1 .. n : ~Good(i)}
  <2>3. Good(1)
    <3>1. 1 \in 1 .. n /\ \A k \in 1 + 1 .. n : k \in 1 .. n /\ 1 < k
      BY <2>1
    <3> QED BY <2>2, <3>1 DEF Between
  <2>4. ASSUME NEW i \in 2 .. n, Good(i - 1) PROVE Good(i)
    <3>1. /\ i \in 1 .. n /\ i - 1 \in 1 .. n /\ i \in (i - 1) + 1 .. n
          /\ \A k \in i + 1 .. n : k \in 1 .. n /\ i < k /\ k \in (i - 1) + 1 .. n
      BY <2>1
    <3>2. f[i] = f[i - 1] \o ss[i] /\ f[i - 1] \in Seq(Message) /\ ss[i] \in Seq(Message)
      BY <2>1, <2>2, <3>1
    <3>3. Sorted(f[i])
      BY <2>4, <3>1, <3>2, ConcatSorted DEF Between
    <3>4. Before(s, f[i]) /\ Before(f[i], t)
      BY <2>4, <3>1, <3>2, ConcatBefore DEF Between
    <3>5. ASSUME NEW k \in i + 1 .. n PROVE Before(f[i], ss[k])
      <4>1. k \in 1 .. n /\ Before(f[i - 1], ss[k]) /\ Before(ss[i], ss[k])
        BY <2>4, <3>1 DEF Between
      <4>2. ss[k] \in Seq(Message)
        BY <2>1, <4>1
      <4> QED BY <3>2, <4>1, <4>2, ConcatBefore
    <3> QED BY <3>3, <3>4, <3>5
  <2>5. Bad \subseteq Nat /\ \A i \in Bad : i \in 1 .. n /\ ~Good(i)
    OBVIOUS
  <2>6. \A i \in 1 .. n : i \notin Bad => Good(i)
    OBVIOUS
  <2> HIDE DEF Bad, Good
  <2>7. Bad = {}
    <3> SUFFICES ASSUME Bad # {} PROVE FALSE
      OBVIOUS
    <3>1. PICK i \in Bad : \A j \in Bad : i <= j
      BY <2>5, LeastNatural
    <3>2. i \in 2 .. n
      BY <2>3, <2>5, <3>1
    <3>3. i - 1 \in 1 .. n /\ i - 1 \notin Bad
      BY <2>1, <3>1, <3>2
    <3> QED BY <2>4, <2>5, <2>6, <3>1, <3>2, <3>3
  <2>8. n \in 1 .. n
    BY <2>1
  <2>9. Good(n) /\ f[n] \in Seq(Message)
    BY <2>2, <2>6, <2>7, <2>8
  <2> QED BY <2>2, <2>9 DEF Good
<1> QED BY <1>1, <1>2

\* The lines a to b of s.
LEMMA PartOf ==
  ASSUME NEW s \in Seq(Message), NEW a \in Int, NEW b \in Int, 1 <= a, b <= Len(s)
  PROVE  /\ SubSeq(s, a, b) \in Seq(Message)
         /\ \A i \in 1 .. Len(SubSeq(s, a, b)) :
              a + i - 1 \in a .. b /\ SubSeq(s, a, b)[i] = s[a + i - 1]
<1>1. Len(s) \in Nat
  BY LenProperties
<1>2. CASE a <= b + 1
  <2>1. /\ SubSeq(s, a, b) \in Seq(Message)
        /\ Len(SubSeq(s, a, b)) = IF a <= b THEN b - a + 1 ELSE 0
        /\ \A i \in 1 .. b - a + 1 : SubSeq(s, a, b)[i] = s[a + i - 1]
    BY <1>1, <1>2, SubSeqProperties
  <2>2. Len(SubSeq(s, a, b)) = b - a + 1
    BY <1>1, <1>2, <2>1
  <2> QED BY <1>1, <2>1, <2>2
<1>3. CASE ~(a <= b + 1)
  <2>1. SubSeq(s, a, b) = <<>>
    BY <1>1, <1>3, SubSeqEmpty
  <2> QED BY <2>1, EmptySeq
<1> QED BY <1>2, <1>3

\* Every line of t is one of s.
Within(t, s) == \A i \in 1 .. Len(t) : \E p \in 1 .. Len(s) : t[i] = s[p]

LEMMA WithinKeeps ==
  ASSUME NEW s, NEW t, NEW u, NEW max, Within(t, s)
  PROVE  /\ Before(s, u) => Before(t, u)
         /\ Before(u, s) => Before(u, t)
         /\ UpTo(s, max) => UpTo(t, max)
BY DEF Within, Before, UpTo

LEMMA Order ==
  ASSUME NEW w \in Nat, NEW k \in Nat, NEW l \in Nat, k < l
  PROVE  k * w <= (l - 1) * w
<1>1. PICK d \in Nat : l - 1 = k + d
  <2>1. l - 1 - k \in Nat /\ l - 1 = k + (l - 1 - k)
    OBVIOUS
  <2> QED BY <2>1
<1>2. (k + d) * w = k * w + d * w
  OBVIOUS
<1>3. d * w \in Nat /\ k * w \in Nat
  OBVIOUS
<1> QED BY <1>1, <1>2, <1>3

\* Bucket k has the lines after (k - 1) * width and before k * width.
LEMMA CutParts ==
  ASSUME NEW s \in Seq(Message), NEW w \in Nat \ {0}, Sorted(s)
  PROVE  /\ Cut(s, w) \in Seq(Seq(Message))
         /\ \A k \in 1 .. Len(Cut(s, w)) :
              /\ Sorted(Cut(s, w)[k])
              /\ \A i \in 1 .. Len(Cut(s, w)[k]) : \E p \in 1 .. Len(s) :
                   Cut(s, w)[k][i] = s[p] /\ (k - 1) * w < p /\ p < k * w
<1> DEFINE n == (Len(s) + w - 1) \div w
           End(k) == IF k * w - 1 < Len(s) THEN k * w - 1 ELSE Len(s)
           part(k) == SubSeq(s, (k - 1) * w + 1, End(k))
<1>1. Len(s) \in Nat
  BY LenProperties
<1>2. n \in Nat
  <2>1. Len(s) + w - 1 \in Nat /\ w > 0
    BY <1>1
  <2> HIDE DEF n
  <2> DEFINE m == Len(s) + w - 1
  <2>2. n = m \div w
    BY DEF n
  <2>3. m \in Nat
    BY <2>1
  <2> HIDE DEF m
  <2> QED BY <2>1, <2>2, <2>3
<1> HIDE DEF n
<1>3. Cut(s, w) = [k \in 1 .. n |-> part(k)]
  BY DEF Cut, n
<1>4. ASSUME NEW k \in 1 .. n
      PROVE  /\ part(k) \in Seq(Message) /\ Sorted(part(k))
             /\ \A i \in 1 .. Len(part(k)) : \E p \in 1 .. Len(s) :
                  part(k)[i] = s[p] /\ (k - 1) * w < p /\ p < k * w
  <2> DEFINE a == (k - 1) * w + 1
             b == End(k)
             t == SubSeq(s, a, b)
  <2>1. k \in Nat /\ k - 1 \in Nat
    BY <1>2
  <2>2. (k - 1) * w \in Nat /\ k * w \in Nat
    BY <2>1
  <2>3. a \in Int /\ b \in Int /\ 1 <= a /\ b <= Len(s) /\ b < k * w /\ (k - 1) * w < a
    BY <1>1, <2>2
  <2> HIDE DEF a, b
  <2>4. /\ t \in Seq(Message)
        /\ \A i \in 1 .. Len(t) : a + i - 1 \in a .. b /\ t[i] = s[a + i - 1]
    BY <2>3, PartOf
  <2>5. Len(t) \in Nat
    BY <2>4, LenProperties
  <2>6. part(k) = t
    BY DEF a, b
  <2> HIDE DEF t
  <2>7. \A i \in 1 .. Len(t) :
          /\ a + i - 1 \in 1 .. Len(s) /\ (k - 1) * w < a + i - 1 /\ a + i - 1 < k * w
    BY <1>1, <2>2, <2>3, <2>4, <2>5
  <2>8. Sorted(t)
    <3> SUFFICES ASSUME NEW i \in 1 .. Len(t), NEW j \in 1 .. Len(t), i < j
                 PROVE  t[i].n < t[j].n
      BY DEF Sorted
    <3>1. a + i - 1 < a + j - 1
      BY <2>3, <2>5
    <3>2. s[a + i - 1].n < s[a + j - 1].n
      BY <2>7, <3>1 DEF Sorted
    <3> QED BY <2>4, <3>2
  <2> HIDE DEF part
  <2> QED BY <2>4, <2>6, <2>7, <2>8
<1> HIDE DEF part
<1>5. Cut(s, w) \in Seq(Seq(Message)) /\ Len(Cut(s, w)) = n
  <2>1. \A k \in 1 .. n : part(k) \in Seq(Message)
    BY <1>4
  <2> HIDE DEF part
  <2> DEFINE c == [k \in 1 .. n |-> part(k)]
  <2>2. c \in [1 .. n -> Seq(Message)]
    BY <2>1
  <2>3. c \in Seq(Seq(Message))
    BY <1>2, <2>2, SeqDef
  <2>4. Len(c) = n
    BY <1>2, <2>2, <2>3, LenProperties
  <2> QED BY <1>3, <2>3, <2>4
<1> QED BY <1>3, <1>4, <1>5

LEMMA SubSeqKeeps ==
  ASSUME NEW s \in Seq(Message), NEW a \in 1 .. Len(s), NEW b \in 1 .. Len(s)
  PROVE  /\ SubSeq(s, a, b) \in Seq(Message) /\ Within(SubSeq(s, a, b), s)
         /\ Sorted(s) => Sorted(SubSeq(s, a, b))
<1> DEFINE t == SubSeq(s, a, b)
<1>1. Len(s) \in Nat
  BY LenProperties
<1>2. /\ t \in Seq(Message)
      /\ \A i \in 1 .. Len(t) : a + i - 1 \in a .. b /\ t[i] = s[a + i - 1]
  BY <1>1, PartOf
<1>3. Len(t) \in Nat
  BY <1>2, LenProperties
<1> HIDE DEF t
<1>4. \A i \in 1 .. Len(t) : a + i - 1 \in 1 .. Len(s)
  BY <1>1, <1>2, <1>3
<1>5. Within(t, s)
  BY <1>2, <1>4 DEF Within
<1>6. Sorted(s) => Sorted(t)
  <2> SUFFICES ASSUME Sorted(s), NEW i \in 1 .. Len(t), NEW j \in 1 .. Len(t), i < j
               PROVE  t[i].n < t[j].n
    BY DEF Sorted
  <2>1. a + i - 1 < a + j - 1
    BY <1>1, <1>3
  <2>2. s[a + i - 1].n < s[a + j - 1].n
    BY <1>4, <2>1 DEF Sorted
  <2> QED BY <1>2, <2>2
<1> QED BY <1>2, <1>5, <1>6 DEF t

LEMMA TailKeeps ==
  ASSUME NEW S, NEW s \in Seq(S), s # <<>>
  PROVE  /\ Head(s) \in S /\ Head(s) = s[1] /\ 1 \in 1 .. Len(s)
         /\ Tail(s) \in Seq(S) /\ Len(Tail(s)) \in Nat
         /\ \A i \in 1 .. Len(Tail(s)) : /\ i + 1 \in 1 .. Len(s) /\ i \in Nat /\ 1 < i + 1
                                         /\ Tail(s)[i] = s[i + 1]
<1>1. /\ Len(s) \in Nat /\ Len(s) # 0 /\ \A i \in 1 .. Len(s) : s[i] \in S
  BY LenProperties, EmptySeq, ElementOfSeq
<1>2. /\ Head(s) \in S /\ Tail(s) \in Seq(S) /\ Head(s) = s[1]
      /\ Len(Tail(s)) = Len(s) - 1
      /\ \A i \in 1 .. Len(Tail(s)) : Tail(s)[i] = s[i + 1]
  BY HeadTailProperties
<1> QED BY <1>1, <1>2

LEMMA AppendKeeps ==
  ASSUME NEW s \in Seq(Message), NEW m \in Message
  PROVE  /\ Append(s, m) \in Seq(Message)
         /\ Sorted(s) /\ (\A i \in 1 .. Len(s) : s[i].n < m.n) => Sorted(Append(s, m))
         /\ \A t : Before(s, t) /\ (\A j \in 1 .. Len(t) : m.n < t[j].n)
                    => Before(Append(s, m), t)
         /\ \A t : Before(t, s) /\ (\A i \in 1 .. Len(t) : t[i].n < m.n)
                    => Before(t, Append(s, m))
         /\ \A max : UpTo(s, max) /\ m.n <= max => UpTo(Append(s, m), max)
<1>1. /\ Len(s) \in Nat /\ Append(s, m) \in Seq(Message)
      /\ Len(Append(s, m)) = Len(s) + 1
      /\ \A i \in 1 .. Len(s) : Append(s, m)[i] = s[i]
      /\ Append(s, m)[Len(s) + 1] = m
  BY LenProperties, AppendProperties
<1>2. \A i \in 1 .. Len(Append(s, m)) : i \in 1 .. Len(s) \/ i = Len(s) + 1
  BY <1>1
<1>3. ASSUME Sorted(s), \A i \in 1 .. Len(s) : s[i].n < m.n,
             NEW i \in 1 .. Len(Append(s, m)), NEW j \in 1 .. Len(Append(s, m)), i < j
      PROVE  Append(s, m)[i].n < Append(s, m)[j].n
  <2>1. i \in 1 .. Len(s)
    BY <1>1, <1>3
  <2> QED BY <1>1, <1>2, <1>3, <2>1 DEF Sorted
<1>4. ASSUME NEW t, Before(s, t), \A j \in 1 .. Len(t) : m.n < t[j].n
      PROVE  Before(Append(s, m), t)
  BY <1>1, <1>2, <1>4 DEF Before
<1>5. ASSUME NEW t, Before(t, s), \A i \in 1 .. Len(t) : t[i].n < m.n
      PROVE  Before(t, Append(s, m))
  BY <1>1, <1>2, <1>5 DEF Before
<1>6. ASSUME NEW max, UpTo(s, max), m.n <= max PROVE UpTo(Append(s, m), max)
  BY <1>1, <1>2, <1>6 DEF UpTo
<1> QED BY <1>1, <1>3, <1>4, <1>5, <1>6 DEF Sorted

LEMMA EmptyInOrder ==
  ASSUME NEW t, NEW max
  PROVE  /\ <<>> \in Seq(Message) /\ Sorted(<<>>) /\ UpTo(<<>>, max)
         /\ Before(<<>>, t) /\ Before(t, <<>>)
<1>1. Len(<<>>) = 0 /\ <<>> \in Seq(Message)
  BY EmptySeq
<1> QED BY <1>1 DEF Sorted, UpTo, Before

------------------------------------------------------------------------------
(* OrderIsKept *)

\* What an update will process, in buckets.
LEMMA PendingInOrder ==
  ASSUME Typed, InOrder
  PROVE  /\ Pending \in Seq(Seq(Message))
         /\ Between(m_logFile, Pending, <<>>)
         /\ \A k \in 1 .. Len(Pending) : UpTo(Pending[k], received)
<1> DEFINE s == m_incomingMessages
           t == Buckets(m_linebuffer)
           w == BucketSize + 1
<1>1. w \in Nat \ {0}
  BY BucketAssumption
<1>2. /\ t \in Seq(Seq(Message))
      /\ \A k \in 1 .. Len(t) :
           /\ Sorted(t[k])
           /\ \A i \in 1 .. Len(t[k]) : \E p \in 1 .. Len(m_linebuffer) :
                t[k][i] = m_linebuffer[p] /\ (k - 1) * w < p /\ p < k * w
  BY <1>1, CutParts DEF Buckets, Typed, InOrder
<1>3. s \in Seq(Seq(Message))
  BY DEF Typed
<1>4. /\ Len(s) \in Nat /\ Len(t) \in Nat
      /\ s \o t \in Seq(Seq(Message)) /\ Len(s \o t) = Len(s) + Len(t)
      /\ \A i \in 1 .. Len(s) + Len(t) :
           (s \o t)[i] = IF i <= Len(s) THEN s[i] ELSE t[i - Len(s)]
  BY <1>2, <1>3, LenProperties, ConcatProperties
<1> HIDE DEF s, t, w
<1>5. ASSUME NEW k \in 1 .. Len(t)
      PROVE  /\ Sorted(t[k]) /\ Within(t[k], m_linebuffer)
  BY <1>2 DEF Within
<1>6. ASSUME NEW k \in 1 .. Len(t), NEW l \in 1 .. Len(t), k < l
      PROVE  Before(t[k], t[l])
  <2> SUFFICES ASSUME NEW i \in 1 .. Len(t[k]), NEW j \in 1 .. Len(t[l])
               PROVE  t[k][i].n < t[l][j].n
    BY DEF Before
  <2>1. PICK p \in 1 .. Len(m_linebuffer) : t[k][i] = m_linebuffer[p] /\ p < k * w
    BY <1>2
  <2>2. PICK q \in 1 .. Len(m_linebuffer) : t[l][j] = m_linebuffer[q] /\ (l - 1) * w < q
    BY <1>2
  <2>3. k * w <= (l - 1) * w /\ k * w \in Int /\ (l - 1) * w \in Int
    <3>1. w \in Nat /\ k \in Nat /\ l \in Nat
      BY <1>1, <1>4
    <3>2. k * w \in Int /\ (l - 1) * w \in Int
      BY <3>1
    <3> QED BY <1>6, <3>1, <3>2, Order
  <2>4. p < q
    BY <2>1, <2>2, <2>3
  <2> QED BY <2>1, <2>2, <2>4 DEF InOrder, Sorted
<1>7. ASSUME NEW k \in 1 .. Len(s \o t)
      PROVE  \/ /\ k \in 1 .. Len(s) /\ (s \o t)[k] = s[k]
             \/ /\ k > Len(s) /\ k - Len(s) \in 1 .. Len(t)
                /\ (s \o t)[k] = t[k - Len(s)]
  BY <1>4
<1>8. ASSUME NEW k \in 1 .. Len(s)
      PROVE  /\ Sorted(s[k]) /\ Before(m_logFile, s[k]) /\ UpTo(s[k], received)
             /\ Before(s[k], m_linebuffer)
             /\ \A l \in 1 .. Len(s) : k < l => Before(s[k], s[l])
  BY DEF InOrder, Between, s
<1>9. ASSUME NEW k \in 1 .. Len(t)
      PROVE  /\ Sorted(t[k]) /\ Before(m_logFile, t[k]) /\ UpTo(t[k], received)
             /\ \A l \in 1 .. Len(s) : Before(s[l], t[k])
  BY <1>5, <1>8, WithinKeeps DEF InOrder
<1>10. ASSUME NEW k \in 1 .. Len(s \o t)
       PROVE  /\ Sorted((s \o t)[k]) /\ Before(m_logFile, (s \o t)[k])
              /\ UpTo((s \o t)[k], received)
  BY <1>7, <1>8, <1>9
<1>11. ASSUME NEW k \in 1 .. Len(s \o t), NEW l \in 1 .. Len(s \o t), k < l
       PROVE  Before((s \o t)[k], (s \o t)[l])
  <2>1. CASE k \in 1 .. Len(s) /\ l \in 1 .. Len(s)
    <3>1. (s \o t)[k] = s[k] /\ (s \o t)[l] = s[l]
      BY <1>4, <2>1
    <3> QED BY <1>8, <1>11, <2>1, <3>1
  <2>2. CASE k \in 1 .. Len(s) /\ l > Len(s)
    <3>1. (s \o t)[k] = s[k] /\ (s \o t)[l] = t[l - Len(s)] /\ l - Len(s) \in 1 .. Len(t)
      BY <1>4, <1>7, <2>2
    <3> QED BY <1>9, <2>2, <3>1
  <2>3. CASE k > Len(s)
    <3>1. /\ k - Len(s) \in 1 .. Len(t) /\ l - Len(s) \in 1 .. Len(t)
          /\ k - Len(s) < l - Len(s)
          /\ (s \o t)[k] = t[k - Len(s)] /\ (s \o t)[l] = t[l - Len(s)]
      BY <1>4, <1>11, <2>3
    <3> QED BY <1>6, <3>1
  <2>4. k \in Int /\ l \in Int /\ (k \in 1 .. Len(s) \/ k > Len(s))
        /\ (l \in 1 .. Len(s) \/ l > Len(s))
    BY <1>4
  <2> QED BY <2>1, <2>2, <2>3, <2>4
<1>12. Pending = s \o t
  BY DEF Pending, s, t
<1> QED BY <1>4, <1>10, <1>11, <1>12, EmptyInOrder DEF Between

LEMMA ReceiveInOrder ==
  ASSUME Typed, InOrder, NEW kind \in Kinds, Receive(kind)
  PROVE  Typed' /\ InOrder'
<1> DEFINE m == [n |-> received', kind |-> kind]
<1>1. /\ received' = received + 1 /\ received \in Nat
      /\ m_linebuffer' = Append(m_linebuffer, m) /\ m_linebuffer \in Seq(Message)
      /\ m_incomingMessages' = m_incomingMessages /\ timers' = timers
      /\ updating' = updating /\ batch' = batch /\ m_logFile' = m_logFile
  BY DEF Receive, Typed
<1>2. m \in Message /\ m.n = received + 1
  BY <1>1 DEF Message
<1> HIDE DEF m
<1>3. ASSUME NEW s \in Seq(Message), UpTo(s, received)
      PROVE  UpTo(s, received') /\ \A i \in 1 .. Len(s) : s[i].n < m.n
  <2>1. ASSUME NEW i \in 1 .. Len(s) PROVE s[i].n <= received /\ s[i].n \in Nat
    <3>1. s[i] \in Message
      BY ElementOfSeq
    <3> QED BY <1>3, <3>1 DEF UpTo, Message
  <2> QED BY <1>1, <1>2, <2>1 DEF UpTo
<1>4. ASSUME NEW s \in Seq(Message), UpTo(s, received), Before(s, m_linebuffer)
      PROVE  UpTo(s, received') /\ Before(s, m_linebuffer')
  BY <1>1, <1>2, <1>3, <1>4, AppendKeeps
<1>5. \A k \in 1 .. Len(m_incomingMessages) : m_incomingMessages[k] \in Seq(Message)
  BY ElementOfSeq DEF Typed
<1>6. Typed'
  BY <1>1, <1>2, AppendKeeps DEF Typed
<1>7. Sorted(m_linebuffer') /\ UpTo(m_linebuffer', received')
  BY <1>1, <1>2, <1>3, AppendKeeps DEF InOrder
<1>8. /\ Before(m_logFile', m_linebuffer') /\ UpTo(m_logFile', received')
      /\ Before(batch', m_linebuffer') /\ UpTo(batch', received')
  BY <1>1, <1>4 DEF Typed, InOrder
<1>9. \A k \in 1 .. Len(m_incomingMessages) :
        /\ UpTo(m_incomingMessages[k], received')
        /\ Before(m_incomingMessages[k], m_linebuffer')
  BY <1>4, <1>5 DEF InOrder, Between
<1>10. /\ Between(m_logFile, m_incomingMessages, m_linebuffer')
       /\ Between(batch, m_incomingMessages, m_linebuffer')
  BY <1>9 DEF InOrder, Between
<1> QED BY <1>1, <1>6, <1>7, <1>8, <1>9, <1>10 DEF InOrder

LEMMA OnUpdateInOrder ==
  ASSUME Typed, InOrder, OnUpdate, timers' \in Nat
  PROVE  Typed' /\ InOrder'
<1>1. /\ ~updating /\ m_linebuffer' = <<>> /\ batch = <<>>
      /\ m_logFile' = m_logFile /\ received' = received
  BY DEF OnUpdate, Typed
<1>2. CASE Pending = <<>>
  <2>1. /\ m_incomingMessages' = m_incomingMessages /\ batch' = <<>>
        /\ updating' = updating
    BY <1>1, <1>2 DEF OnUpdate
  <2>2. Typed'
    BY <1>1, <2>1, EmptyInOrder DEF Typed
  <2>3. /\ Between(m_logFile, m_incomingMessages, <<>>)
        /\ Between(<<>>, m_incomingMessages, <<>>)
    BY EmptyInOrder DEF InOrder, Between
  <2> QED BY <1>1, <2>1, <2>2, <2>3, EmptyInOrder DEF InOrder
<1>3. CASE Pending # <<>>
  <2> DEFINE p == Pending
  <2>1. /\ batch' = Head(p) /\ m_incomingMessages' = Tail(p) /\ updating' = TRUE
    BY <1>3 DEF OnUpdate
  <2>2. /\ p \in Seq(Seq(Message)) /\ Between(m_logFile, p, <<>>)
        /\ \A k \in 1 .. Len(p) : UpTo(p[k], received)
    BY PendingInOrder
  <2> HIDE DEF p
  <2>3. /\ batch' \in Seq(Message) /\ batch' = p[1] /\ 1 \in 1 .. Len(p)
        /\ m_incomingMessages' \in Seq(Seq(Message))
        /\ Len(m_incomingMessages') \in Nat
        /\ \A i \in 1 .. Len(m_incomingMessages') :
             /\ i + 1 \in 1 .. Len(p) /\ i \in Nat /\ 1 < i + 1
             /\ m_incomingMessages'[i] = p[i + 1]
    <3>1. p # <<>>
      BY <1>3 DEF p
    <3> QED BY <2>1, <2>2, <3>1, TailKeeps
  <2>4. Typed'
    BY <1>1, <2>1, <2>3, EmptyInOrder DEF Typed
  <2>5. \A i, j \in 1 .. Len(m_incomingMessages') :
          i < j => i + 1 < j + 1 /\ i + 1 \in 1 .. Len(p) /\ j + 1 \in 1 .. Len(p)
    BY <2>3
  <2>6. /\ Between(m_logFile, m_incomingMessages', <<>>)
        /\ Between(batch', m_incomingMessages', <<>>)
    BY <2>2, <2>3, <2>5, EmptyInOrder DEF Between
  <2>7. /\ Sorted(batch') /\ Before(m_logFile, batch') /\ UpTo(batch', received)
        /\ \A k \in 1 .. Len(m_incomingMessages') : UpTo(m_incomingMessages'[k], received)
    BY <2>2, <2>3 DEF Between
  <2> QED BY <1>1, <2>4, <2>6, <2>7, EmptyInOrder DEF InOrder
<1> QED BY <1>2, <1>3

\* A log that is a part of the old one.
LEMMA LogInOrder ==
  ASSUME Typed, InOrder, m_logFile' \in Seq(Message), Sorted(m_logFile'),
         Within(m_logFile', m_logFile), UNCHANGED incoming
  PROVE  Typed' /\ InOrder'
<1>1. /\ m_linebuffer' = m_linebuffer /\ m_incomingMessages' = m_incomingMessages
      /\ timers' = timers /\ updating' = updating /\ batch' = batch
      /\ received' = received
  BY DEF incoming
<1>2. Typed'
  BY <1>1 DEF Typed
<1>3. \A u, max : /\ Before(m_logFile, u) => Before(m_logFile', u)
                  /\ UpTo(m_logFile, max) => UpTo(m_logFile', max)
  BY WithinKeeps
<1> QED BY <1>1, <1>2, <1>3 DEF InOrder, Between

LEMMA AddMessageInOrder ==
  ASSUME Typed, InOrder, AddMessage
  PROVE  Typed' /\ InOrder'
<1> DEFINE h == Head(batch)
           t == Tail(batch)
<1>1. /\ batch # <<>> /\ batch' = t
      /\ m_logFile' \in {<<>>, Append(m_logFile, h)}
      /\ m_linebuffer' = m_linebuffer /\ m_incomingMessages' = m_incomingMessages
      /\ timers' = timers /\ updating' = updating /\ received' = received
  BY DEF AddMessage, Cleared
<1>2. /\ h \in Message /\ h = batch[1] /\ 1 \in 1 .. Len(batch)
      /\ t \in Seq(Message) /\ Len(t) \in Nat
      /\ \A i \in 1 .. Len(t) : /\ i + 1 \in 1 .. Len(batch) /\ i \in Nat /\ 1 < i + 1
                                /\ t[i] = batch[i + 1]
  BY <1>1, TailKeeps DEF Typed
<1> HIDE DEF h, t
<1>3. Within(t, batch)
  BY <1>2 DEF Within
<1>4. Sorted(t) /\ \A i \in 1 .. Len(t) : h.n < t[i].n
  <2>1. \A i, j \in 1 .. Len(t) : i < j => i + 1 < j + 1
    BY <1>2
  <2> QED BY <1>2, <2>1 DEF InOrder, Sorted
<1>5. m_logFile' \in Seq(Message) /\ Sorted(m_logFile')
      /\ Before(m_logFile', t) /\ UpTo(m_logFile', received)
      /\ \A u : Before(m_logFile, u) /\ Before(batch, u) => Before(m_logFile', u)
  <2>1. CASE m_logFile' = <<>>
    BY <2>1, EmptyInOrder
  <2>2. CASE m_logFile' = Append(m_logFile, h)
    <3> DEFINE l == Append(m_logFile, h)
    <3>1. m_logFile \in Seq(Message)
      BY DEF Typed
    <3>2. l \in Seq(Message)
      BY <1>2, <3>1, AppendKeeps
    <3>3. Sorted(l)
      <4>1. \A i \in 1 .. Len(m_logFile) : m_logFile[i].n < h.n
        BY <1>2 DEF InOrder, Before
      <4> QED BY <1>2, <3>1, <4>1, AppendKeeps DEF InOrder
    <3>4. \A u : Before(m_logFile, u) /\ Before(batch, u) => Before(l, u)
      <4> SUFFICES ASSUME NEW u, Before(m_logFile, u), Before(batch, u)
                   PROVE  Before(l, u)
        OBVIOUS
      <4>1. \A j \in 1 .. Len(u) : h.n < u[j].n
        BY <1>2 DEF Before
      <4> QED BY <1>2, <3>1, <4>1, AppendKeeps
    <3>5. Before(l, t)
      <4>1. Before(m_logFile, t)
        BY <1>3, WithinKeeps DEF InOrder
      <4> QED BY <1>2, <1>4, <3>1, <4>1, AppendKeeps
    <3>6. UpTo(l, received)
      <4>1. h.n <= received
        BY <1>2 DEF InOrder, UpTo
      <4> QED BY <1>2, <3>1, <4>1, AppendKeeps DEF InOrder
    <3> HIDE DEF l
    <3> QED BY <2>2, <3>2, <3>3, <3>4, <3>5, <3>6 DEF l
  <2> QED BY <1>1, <2>1, <2>2
<1>6. Typed'
  <2>1. ~updating => FALSE
    BY <1>1 DEF Typed
  <2> QED BY <1>1, <1>2, <1>5, <2>1 DEF Typed
<1>7. UpTo(t, received) /\ \A u : Before(batch, u) => Before(t, u)
  BY <1>3, WithinKeeps DEF InOrder
<1>8. /\ Between(m_logFile', m_incomingMessages, m_linebuffer)
      /\ Between(t, m_incomingMessages, m_linebuffer)
      /\ Before(m_logFile', m_linebuffer) /\ Before(t, m_linebuffer)
  BY <1>5, <1>7 DEF InOrder, Between
<1> QED BY <1>1, <1>4, <1>5, <1>6, <1>7, <1>8 DEF InOrder

LEMMA InitInOrder ==
  ASSUME Init
  PROVE  Typed /\ InOrder
<1>1. Typed
  <2>1. <<>> \in Seq(Seq(Message))
    BY EmptySeq
  <2> QED BY <2>1, EmptyInOrder DEF Init, Typed
<1>2. InOrder
  <2>1. \A s, t : Between(s, <<>>, t)
    <3>1. Len(<<>>) = 0
      BY EmptySeq
    <3> QED BY <3>1 DEF Between
  <2>2. Len(<<>>) = 0
    BY EmptySeq
  <2> QED BY <2>1, <2>2, EmptyInOrder DEF Init, InOrder
<1> QED BY <1>1, <1>2

LEMMA NextInOrder ==
  ASSUME Typed, InOrder, [Next]_vars
  PROVE  Typed' /\ InOrder'
<1>1. ASSUME NEW kind \in Kinds, Receive(kind) PROVE Typed' /\ InOrder'
  BY <1>1, ReceiveInOrder
<1>2. CASE Update
  <2>1. OnUpdate /\ timers' \in Nat
    BY <1>2 DEF Update, Typed
  <2> QED BY <2>1, OnUpdateInOrder
<1>3. CASE Timer
  <2>1. OnUpdate /\ timers' \in Nat
    BY <1>3 DEF Timer, Typed
  <2> QED BY <2>1, OnUpdateInOrder
<1>4. CASE AddMessage
  BY <1>4, AddMessageInOrder
<1>5. ASSUME /\ m_linebuffer' = m_linebuffer /\ m_incomingMessages' = m_incomingMessages
             /\ timers' \in Nat /\ batch' = batch /\ m_logFile' = m_logFile
             /\ received' = received
             /\ \/ updating' = FALSE /\ batch = <<>>
                \/ updating' = updating
      PROVE  Typed' /\ InOrder'
  <2>1. /\ m_linebuffer' \in Seq(Message) /\ m_incomingMessages' \in Seq(Seq(Message))
        /\ batch' \in Seq(Message) /\ m_logFile' \in Seq(Message)
        /\ received' \in Nat
    BY <1>5 DEF Typed
  <2>2. updating' \in BOOLEAN /\ (~updating' => batch' = <<>>)
    <3>1. CASE updating' = FALSE /\ batch = <<>>
      BY <1>5, <3>1
    <3>2. CASE updating' = updating
      <4>1. updating \in BOOLEAN /\ (~updating => batch = <<>>) /\ batch' = batch
        BY <1>5 DEF Typed
      <4> QED BY <3>2, <4>1, Zenon
    <3> QED BY <1>5, <3>1, <3>2, Zenon
  <2>3. Typed'
    BY <1>5, <2>1, <2>2, Zenon DEF Typed
  <2> QED BY <1>5, <2>3 DEF InOrder
<1>6. CASE EndProcessLines
  <2>1. timers \in Nat /\ timers + 1 \in Nat
    BY DEF Typed
  <2>2. timers' \in Nat
    BY <1>6, <2>1 DEF EndProcessLines
  <2> QED BY <1>5, <1>6, <2>2 DEF EndProcessLines
<1>7. ASSUME UNCHANGED <<incoming, m_logFile>> PROVE Typed' /\ InOrder'
  BY <1>5, <1>7 DEF incoming, Typed
<1>8. ASSUME m_logFile' = <<>>, UNCHANGED incoming PROVE Typed' /\ InOrder'
  <2>1. Within(<<>>, m_logFile)
    BY EmptySeq DEF Within
  <2> QED BY <1>8, <2>1, EmptyInOrder, LogInOrder
<1>9. ASSUME NEW begin \in DOMAIN m_logFile, NEW end \in DOMAIN m_logFile,
             LogCrop(begin, end)
      PROVE  Typed' /\ InOrder'
  <2>1. m_logFile' = SubSeq(m_logFile, begin, end) /\ UNCHANGED incoming
    BY <1>9 DEF LogCrop
  <2>2. m_logFile \in Seq(Message) /\ DOMAIN m_logFile = 1 .. Len(m_logFile)
    BY LenProperties DEF Typed
  <2>3. /\ m_logFile' \in Seq(Message) /\ Sorted(m_logFile')
        /\ Within(m_logFile', m_logFile)
    BY <2>1, <2>2, SubSeqKeeps DEF InOrder
  <2> QED BY <2>1, <2>3, LogInOrder
<1>10. CASE User
  <2>1. \/ m_logFile' = <<>> /\ UNCHANGED incoming
        \/ UNCHANGED <<incoming, m_logFile>>
        \/ \E begin, end \in DOMAIN m_logFile : LogCrop(begin, end)
    BY <1>10 DEF User, ClearLog, Cleared, ViewClear, ViewReset, ViewResetToLine,
         ViewFilter, ViewAddFilter, ViewBookmark, Select, ViewFindBookmark,
         ViewFindProcess, ViewFind, ViewClearBookmarks, ViewAutoScroll,
         ViewAutoScrollStop, EscapeKey, ChangeTab, Becomes, Apply
  <2> QED BY <1>7, <1>8, <1>9, <2>1
<1>11. CASE UNCHANGED vars
  BY <1>7, <1>11 DEF vars, incoming
<1> QED BY <1>1, <1>2, <1>3, <1>4, <1>6, <1>10, <1>11 DEF Next, ProcessLines

LEMMA AllInOrder ==
  ASSUME Typed, InOrder
  PROVE  OrderIsKept
<1> DEFINE f == FlattenSeq(m_incomingMessages)
           s == m_logFile \o batch
           all == m_logFile \o batch \o FlattenSeq(m_incomingMessages) \o m_linebuffer
<1>1. /\ m_logFile \in Seq(Message) /\ batch \in Seq(Message)
      /\ m_linebuffer \in Seq(Message) /\ m_incomingMessages \in Seq(Seq(Message))
  BY DEF Typed
<1>2. s \in Seq(Message) /\ Sorted(s) /\ Before(s, m_linebuffer)
  BY <1>1, ConcatSorted, ConcatBefore DEF InOrder
<1>3. Between(s, m_incomingMessages, m_linebuffer)
  <2>1. ASSUME NEW k \in 1 .. Len(m_incomingMessages)
        PROVE  Before(s, m_incomingMessages[k])
    <3>1. m_incomingMessages[k] \in Seq(Message)
      BY <1>1, ElementOfSeq
    <3> QED BY <1>1, <3>1, ConcatBefore DEF InOrder, Between
  <2> HIDE DEF s
  <2> QED BY <2>1 DEF InOrder, Between
<1> HIDE DEF s
<1>4. f \in Seq(Message) /\ Sorted(f) /\ Before(s, f) /\ Before(f, m_linebuffer)
  BY <1>1, <1>2, <1>3, FlattenSorted
<1> HIDE DEF f
<1>5. s \o f \in Seq(Message) /\ Sorted(s \o f) /\ Before(s \o f, m_linebuffer)
  BY <1>1, <1>2, <1>4, ConcatSorted, ConcatBefore
<1>6. s \o f \o m_linebuffer \in Seq(Message) /\ Sorted(s \o f \o m_linebuffer)
  BY <1>1, <1>5, ConcatSorted DEF InOrder
<1>7. all \in Seq(Message) /\ Sorted(all)
  BY <1>6 DEF s, f
<1> HIDE DEF all
<1>8. DOMAIN all = 1 .. Len(all)
  BY <1>7, LenProperties
<1>9. \A i, j \in DOMAIN all : i < j => all[i].n < all[j].n
  BY <1>7, <1>8 DEF Sorted
<1> QED BY <1>9 DEF OrderIsKept, all

(* Lines are logged in the order in which they were received, whatever the     *)
(* lines are, however many make a bucket, and whenever the user clears or      *)
(* crops the log (CMainFrame::OnUpdate, ProcessLines and AddMessage).          *)
THEOREM LinesInOrder == Spec => []OrderIsKept
<1>1. Init => Typed /\ InOrder
  BY InitInOrder
<1>2. Typed /\ InOrder /\ [Next]_vars => Typed' /\ InOrder'
  BY NextInOrder
<1>3. Typed /\ InOrder => OrderIsKept
  BY AllInOrder
<1> QED BY <1>1, <1>2, <1>3, PTL DEF Spec

------------------------------------------------------------------------------
(* Views *)

Fields == {"firstLine", "lines", "filter", "focus", "autoScrollDown",
           "autoScrollStop", "dirty", "stop", "track"}
Item(n) == [line : 1 .. n, bookmark : BOOLEAN]
Rising(lines) ==
  \A i, j \in 1 .. Len(lines) : i < j => lines[i].line < lines[j].line

\* A view of a log of n lines.
ViewOf(v, n) ==
  /\ DOMAIN v = Fields
  /\ v.lines \in Seq(Item(n)) /\ Rising(v.lines)
  /\ v.focus \in 0 .. Len(v.lines)
  /\ v.firstLine \in 1 .. n + 1

\* w is v, scrolled.
Scrolled(v, w) ==
  /\ DOMAIN w = Fields
  /\ w.lines = v.lines /\ w.firstLine = v.firstLine /\ w.filter = v.filter
  /\ w.stop = v.stop /\ w.track = v.track /\ w.dirty = v.dirty
  /\ w.focus \in 0 .. Len(v.lines)

\* w shows what v shows; a change of bookmarks is none of the filters.
Alike(v, w) ==
  /\ DOMAIN w = Fields
  /\ w.firstLine = v.firstLine /\ w.stop = v.stop
  /\ w.filter \in {v.filter, DisableTrack(v.filter)}
  /\ w.focus \in 0 .. Len(v.lines)
  /\ \/ w.lines = v.lines
     \/ /\ w.filter = v.filter /\ Len(w.lines) = Len(v.lines)
        /\ \A n : v.lines \in Seq(Item(n)) => w.lines \in Seq(Item(n))
        /\ \A i \in 1 .. Len(v.lines) : w.lines[i].line = v.lines[i].line

LEMMA LinesOf ==
  ASSUME NEW v, NEW n, ViewOf(v, n)
  PROVE  /\ Len(v.lines) \in Nat /\ DOMAIN v.lines = 1 .. Len(v.lines)
         /\ \A i \in 1 .. Len(v.lines) : /\ v.lines[i] \in Item(n)
                                         /\ v.lines[i].line \in 1 .. n
<1>1. v.lines \in Seq(Item(n))
  BY DEF ViewOf
<1>2. \A i \in 1 .. Len(v.lines) : v.lines[i] \in Item(n)
  BY <1>1, ElementOfSeq
<1> QED BY <1>1, <1>2, LenProperties DEF Item

LEMMA AlikeView ==
  ASSUME NEW v, NEW n, ViewOf(v, n), NEW w, Alike(v, w)
  PROVE  ViewOf(w, n)
BY DEF ViewOf, Alike, Rising

LEMMA ScrollToIndexKeeps ==
  ASSUME NEW v, NEW n, ViewOf(v, n), NEW i
  PROVE  Scrolled(v, ScrollToIndex(v, i))
<1>1. DOMAIN v.lines = 1 .. Len(v.lines) /\ Len(v.lines) \in Nat
  BY LinesOf
<1> QED BY <1>1 DEF ViewOf, ScrollToIndex, Focus, Scrolled, Fields

LEMMA ScrolledView ==
  ASSUME NEW v, NEW n, ViewOf(v, n), NEW w, Scrolled(v, w)
  PROVE  ViewOf(w, n) /\ Alike(v, w)
BY DEF ViewOf, Scrolled, Alike

LEMMA StopTrackingKeeps ==
  ASSUME NEW v, NEW n, ViewOf(v, n)
  PROVE  /\ Alike(v, StopTracking(v)) /\ ViewOf(StopTracking(v), n)
         /\ StopTracking(v).filter = v.filter /\ StopTracking(v).lines = v.lines
         /\ StopTracking(v).track = 0 /\ StopTracking(v).focus = v.focus
BY DEF ViewOf, StopTracking, Alike, Fields

LEMMA StopScrollingKeeps ==
  ASSUME NEW v, NEW n, ViewOf(v, n)
  PROVE  /\ Alike(v, StopScrolling(v)) /\ ViewOf(StopScrolling(v), n)
         /\ StopScrolling(v).filter = DisableTrack(v.filter)
         /\ StopScrolling(v).lines = v.lines
BY DEF ViewOf, StopScrolling, StopTracking, Alike, Fields

\* EndUpdate scrolls, stops or does neither.
LEMMA EndUpdateKeeps ==
  ASSUME NEW v, NEW n, ViewOf(v, n)
  PROVE  /\ ViewOf(EndUpdate(v), n) /\ EndUpdate(v).stop = 0
         /\ EndUpdate(v).lines = v.lines /\ EndUpdate(v).firstLine = v.firstLine
         /\ EndUpdate(v).filter \in {v.filter, DisableTrack(v.filter)}
         /\ ~v.autoScrollDown /\ v.stop = 0 /\ v.track = 0
              => EndUpdate(v).focus = v.focus
<1> DEFINE a == IF v.dirty /\ v.autoScrollDown THEN ScrollDown(v) ELSE v
           b == [a EXCEPT !.dirty = FALSE]
           c == RunStop(b)
           d == RunTrack(c)
<1>1. /\ ViewOf(a, n) /\ a.lines = v.lines /\ a.firstLine = v.firstLine
      /\ a.filter = v.filter /\ a.stop = v.stop /\ a.track = v.track
      /\ ~v.autoScrollDown => a.focus = v.focus
  <2>1. Scrolled(v, ScrollDown(v))
    BY ScrollToIndexKeeps DEF ScrollDown
  <2>2. ViewOf(ScrollDown(v), n)
    BY <2>1, ScrolledView
  <2> QED BY <2>1, <2>2 DEF Scrolled
<1> HIDE DEF a
<1>2. /\ ViewOf(b, n) /\ b.lines = a.lines /\ b.firstLine = a.firstLine
      /\ b.filter = a.filter /\ b.stop = a.stop /\ b.track = a.track
      /\ b.focus = a.focus
  BY <1>1 DEF ViewOf, Fields
<1> HIDE DEF b
<1>3. /\ ViewOf(c, n) /\ c.stop = 0 /\ c.lines = b.lines /\ c.firstLine = b.firstLine
      /\ c.filter \in {b.filter, DisableTrack(b.filter)}
      /\ b.stop = 0 => c = b
  <2> DEFINE s == StopScrolling(b)
             t == ScrollToIndex(s, b.stop)
  <2>1. /\ ViewOf(s, n) /\ Alike(b, s) /\ s.filter = DisableTrack(b.filter)
        /\ s.lines = b.lines
    BY <1>2, StopScrollingKeeps
  <2>2. Scrolled(s, t) /\ ViewOf(t, n)
    <3> HIDE DEF s
    <3> QED BY <2>1, ScrollToIndexKeeps, ScrolledView
  <2>3. c = IF b.stop = 0 THEN b ELSE [t EXCEPT !.stop = 0]
    BY DEF RunStop
  <2> HIDE DEF s, t, c
  <2>4. CASE b.stop = 0
    BY <1>2, <2>3, <2>4
  <2>5. CASE b.stop # 0
    <3>1. c = [t EXCEPT !.stop = 0]
      BY <2>3, <2>5
    <3> QED BY <2>1, <2>2, <2>5, <3>1 DEF ViewOf, Fields, Scrolled, Alike
  <2> QED BY <2>4, <2>5
<1> HIDE DEF c
<1>4. /\ ViewOf(d, n) /\ d.stop = 0 /\ d.lines = c.lines /\ d.firstLine = c.firstLine
      /\ d.filter = c.filter
      /\ c.track = 0 => d = c
  <2> DEFINE t == ScrollToIndex(c, c.track)
  <2>1. Scrolled(c, t) /\ ViewOf(t, n)
    BY <1>3, ScrollToIndexKeeps, ScrolledView
  <2>2. d \in {c, t, StopTracking(t)} /\ (c.track = 0 => d = c)
    BY DEF RunTrack
  <2> HIDE DEF t, d
  <2>3. /\ ViewOf(StopTracking(t), n) /\ Alike(t, StopTracking(t))
        /\ StopTracking(t).filter = t.filter /\ StopTracking(t).lines = t.lines
    BY <2>1, StopTrackingKeeps
  <2> QED BY <1>3, <2>1, <2>2, <2>3 DEF Scrolled, Alike
<1> HIDE DEF d
<1>5. EndUpdate(v) = d
  BY DEF EndUpdate, a, b, c, d
<1> QED BY <1>1, <1>2, <1>3, <1>4, <1>5

------------------------------------------------------------------------------
(* Lines are added to a view and filtered anew *)

LEMMA ClearKeeps ==
  ASSUME NEW log \in Seq(Message), NEW v, NEW n, ViewOf(v, n)
  PROVE  /\ ViewOf(Clear(log, v), Len(log)) /\ Clear(log, v).lines = <<>>
         /\ Clear(log, v).stop = v.stop /\ Clear(log, v).track = v.track
         /\ v.autoScrollDown => Clear(log, v).autoScrollDown
         /\ Clear(log, v).firstLine = Len(log) + 1
         /\ Clear(log, v).filter = ResetFilters(v.filter)
<1> DEFINE w == Clear(log, v)
<1>1. /\ DOMAIN w = Fields /\ w.lines = <<>> /\ w.focus = 0
      /\ w.firstLine = Len(log) + 1 /\ w.stop = v.stop /\ w.track = v.track
      /\ v.autoScrollDown => w.autoScrollDown
      /\ w.filter = ResetFilters(v.filter)
  BY DEF ViewOf, Clear, Fields
<1> HIDE DEF w
<1>2. Len(log) \in Nat /\ <<>> \in Seq(Item(Len(log))) /\ Len(<<>>) = 0
  BY LenProperties, EmptySeq
<1>3. ViewOf(w, Len(log))
  BY <1>1, <1>2 DEF ViewOf, Rising
<1> QED BY <1>1, <1>3 DEF w

LEMMA MatchesBoolean ==
  ASSUME NEW filter, NEW type, NEW kind
  PROVE  Matches(filter, type, kind) \in BOOLEAN
BY DEF Matches, MatchFilterType

LEMMA MoreLines ==
  ASSUME NEW n \in Nat, NEW s \in Seq(Item(n))
  PROVE  s \in Seq(Item(n + 1))
<1>1. Item(n) \subseteq Item(n + 1)
  BY DEF Item
<1>2. Len(s) \in Nat /\ s \in [1 .. Len(s) -> Item(n)]
  BY LenProperties
<1>3. s \in [1 .. Len(s) -> Item(n + 1)]
  BY <1>1, <1>2
<1> QED BY <1>2, <1>3, SeqDef

\* Line n + 1, which may have cleared the view, is added to the lines of v.
LEMMA AppendedKeeps ==
  ASSUME NEW v, NEW n \in Nat, NEW kind,
         DOMAIN v = Fields, v.lines \in Seq(Item(n)), Rising(v.lines),
         v.focus \in 0 .. Len(v.lines), v.firstLine \in 1 .. n + 2
  PROVE  /\ ViewOf(Appended(v, n + 1, kind), n + 1)
         /\ Appended(v, n + 1, kind).firstLine = v.firstLine
         /\ Appended(v, n + 1, kind).filter = MarkFilters(v.filter, kind)
         /\ Appended(v, n + 1, kind).stop = v.stop
         /\ Appended(v, n + 1, kind).track = v.track
         /\ v.autoScrollDown => Appended(v, n + 1, kind).autoScrollDown
         /\ Appended(v, n + 1, kind).lines =
              IF IsIncluded(v.filter, kind)
              THEN Append(v.lines, [line |-> n + 1,
                                    bookmark |-> Matches(v.filter, "bookmark", kind)])
              ELSE v.lines
<1> DEFINE item == [line |-> n + 1, bookmark |-> Matches(v.filter, "bookmark", kind)]
           w == [v EXCEPT !.filter = MarkFilters(v.filter, kind)]
           x == [w EXCEPT !.dirty = TRUE, !.lines = Append(@, item)]
<1>1. item \in Item(n + 1) /\ item.line = n + 1
  BY MatchesBoolean DEF Item
<1> HIDE DEF item
<1>2. /\ ViewOf(w, n + 1) /\ w.lines = v.lines /\ w.firstLine = v.firstLine
      /\ w.filter = MarkFilters(v.filter, kind) /\ w.stop = v.stop
      /\ w.track = v.track /\ (v.autoScrollDown => w.autoScrollDown)
      /\ DOMAIN w = Fields /\ w.focus = v.focus
  <2>1. ViewOf(v, n + 1)
    BY MoreLines DEF ViewOf
  <2> QED BY <2>1 DEF ViewOf, Fields
<1>3. /\ Len(v.lines) \in Nat
      /\ \A i \in 1 .. Len(v.lines) : v.lines[i].line \in 1 .. n
  <2>1. \A i \in 1 .. Len(v.lines) : v.lines[i] \in Item(n)
    BY ElementOfSeq
  <2> QED BY <2>1, LenProperties DEF Item
<1>4. /\ Append(v.lines, item) \in Seq(Item(n + 1))
      /\ Len(Append(v.lines, item)) = Len(v.lines) + 1
      /\ \A i \in 1 .. Len(v.lines) : Append(v.lines, item)[i] = v.lines[i]
      /\ Append(v.lines, item)[Len(v.lines) + 1] = item
  <2>1. v.lines \in Seq(Item(n + 1))
    BY MoreLines
  <2> QED BY <1>1, <2>1, AppendProperties
<1>5. Rising(Append(v.lines, item))
  <2> SUFFICES ASSUME NEW i \in 1 .. Len(v.lines) + 1, NEW j \in 1 .. Len(v.lines) + 1,
                      i < j
               PROVE  Append(v.lines, item)[i].line < Append(v.lines, item)[j].line
    BY <1>4 DEF Rising
  <2>1. i \in 1 .. Len(v.lines)
    BY <1>3
  <2>2. CASE j = Len(v.lines) + 1
    BY <1>1, <1>3, <1>4, <2>1, <2>2
  <2>3. CASE j # Len(v.lines) + 1
    <3>1. j \in 1 .. Len(v.lines)
      BY <1>3, <2>3
    <3> QED BY <1>4, <2>1, <3>1 DEF Rising
  <2> QED BY <2>2, <2>3
<1> HIDE DEF w
<1>6. /\ x.lines = Append(v.lines, item) /\ x.firstLine = w.firstLine
      /\ x.filter = w.filter /\ x.stop = w.stop /\ x.track = w.track
      /\ x.autoScrollDown = w.autoScrollDown /\ DOMAIN x = Fields
      /\ x.focus = w.focus
  BY <1>2 DEF Fields
<1> HIDE DEF x
<1>7. ViewOf(x, n + 1)
  <2>1. x.focus \in 0 .. Len(x.lines)
    BY <1>2, <1>3, <1>4, <1>6 DEF ViewOf
  <2> QED BY <1>2, <1>4, <1>5, <1>6, <2>1 DEF ViewOf
<1>8. Appended(v, n + 1, kind) = IF IsIncluded(v.filter, kind) THEN x ELSE w
  BY DEF Appended, x, w, item
<1> QED BY <1>2, <1>6, <1>7, <1>8 DEF item

LEMMA MarkKeeps ==
  ASSUME NEW v, NEW n, ViewOf(v, n), Len(v.lines) # 0, NEW kind,
         v.stop # 0 => v.autoScrollDown \/ v.track # 0
  PROVE  /\ ViewOf(Mark(v, kind), n) /\ Mark(v, kind).lines = v.lines
         /\ Mark(v, kind).firstLine = v.firstLine
         /\ Mark(v, kind).filter = v.filter
         /\ Mark(v, kind).stop # 0
              => Mark(v, kind).autoScrollDown \/ Mark(v, kind).track # 0
<1> DEFINE w == Mark(v, kind)
<1>1. \/ w = v
      \/ v.autoScrollDown /\ w = [v EXCEPT !.stop = Len(v.lines)]
      \/ w = [v EXCEPT !.autoScrollDown = FALSE, !.track = Len(v.lines)]
  BY DEF Mark
<1> HIDE DEF w
<1>2. CASE w = v
  BY <1>2 DEF w
<1>3. CASE v.autoScrollDown /\ w = [v EXCEPT !.stop = Len(v.lines)]
  BY <1>3 DEF ViewOf, Fields, w
<1>4. CASE w = [v EXCEPT !.autoScrollDown = FALSE, !.track = Len(v.lines)]
  BY <1>4 DEF ViewOf, Fields, w
<1> QED BY <1>1, <1>2, <1>3, <1>4

\* Listed puts the lines in their order, every one once.
LEMMA ListedLines ==
  ASSUME NEW n \in Nat, NEW shown \in SUBSET (1 .. n)
  PROVE  /\ Cardinality(shown) \in Nat
         /\ Listed(shown) \in [1 .. Cardinality(shown) -> shown]
         /\ \A i, j \in 1 .. Cardinality(shown) : i < j => Listed(shown)[i] < Listed(shown)[j]
         /\ \A l \in shown : \E i \in 1 .. Cardinality(shown) : Listed(shown)[i] = l
<1> DEFINE c == Cardinality(shown)
           upTo(l) == {k \in shown : k <= l}
           place == [l \in shown |-> Place(shown, l)]
<1>1. IsFiniteSet(shown) /\ c \in Nat
  <2>1. IsFiniteSet(1 .. n)
    BY FS_Interval
  <2>2. IsFiniteSet(shown)
    BY <2>1, FS_Subset
  <2> QED BY <2>2, FS_CardinalityType
<1>2. ASSUME NEW l \in shown
      PROVE  /\ IsFiniteSet(upTo(l)) /\ Cardinality(upTo(l)) \in 1 .. c
  <2>1. upTo(l) \in SUBSET shown /\ upTo(l) # {}
    BY <1>1
  <2>2. IsFiniteSet(upTo(l)) /\ Cardinality(upTo(l)) <= c
    BY <1>1, <2>1, FS_Subset
  <2> HIDE DEF upTo
  <2>3. Cardinality(upTo(l)) \in Nat /\ Cardinality(upTo(l)) # 0
    BY <2>1, <2>2, FS_CardinalityType, FS_EmptySet
  <2> QED BY <1>1, <2>2, <2>3
<1>3. ASSUME NEW l \in shown, NEW m \in shown, l < m
      PROVE  Cardinality(upTo(l)) < Cardinality(upTo(m))
  <2>1. upTo(l) \in SUBSET upTo(m) /\ m \in upTo(m) /\ m \notin upTo(l)
    <3>1. l \in Int /\ m \in Int /\ \A k \in shown : k \in Int
      OBVIOUS
    <3>2. \A k \in shown : k <= l => k <= m
      BY <1>3, <3>1
    <3>3. m <= m /\ ~(m <= l)
      BY <1>3, <3>1
    <3>4. upTo(l) \subseteq upTo(m)
      BY <3>2
    <3> QED BY <3>3, <3>4
  <2>2. upTo(l) # upTo(m)
    BY <2>1
  <2>3. /\ IsFiniteSet(upTo(m)) /\ Cardinality(upTo(m)) \in Nat
        /\ Cardinality(upTo(l)) \in Nat
    BY <1>1, <1>2
  <2> HIDE DEF upTo
  <2>4. /\ Cardinality(upTo(l)) <= Cardinality(upTo(m))
        /\ Cardinality(upTo(l)) # Cardinality(upTo(m))
    BY <2>1, <2>2, <2>3, FS_Subset
  <2> QED BY <2>3, <2>4
<1>4. \A l \in shown : Place(shown, l) = Cardinality(upTo(l))
  BY DEF Place
<1>5. /\ place \in [shown -> 1 .. c]
      /\ \A l \in shown : place[l] = Cardinality(upTo(l))
  BY <1>2, <1>4
<1> HIDE DEF upTo, place
<1>6. \A l, m \in shown : place[l] = place[m] => l = m
  <2> SUFFICES ASSUME NEW l \in shown, NEW m \in shown, l # m
               PROVE  place[l] # place[m]
    OBVIOUS
  <2>1. /\ l \in Int /\ m \in Int /\ place[l] \in Int /\ place[m] \in Int
    BY <1>1, <1>5
  <2>2. l < m \/ m < l
    BY <2>1
  <2>3. place[l] < place[m] \/ place[m] < place[l]
    BY <1>3, <1>5, <2>2
  <2> QED BY <2>1, <2>3
<1>7. \A i \in 1 .. c : \E l \in shown : place[l] = i
  <2>1. place \in Injection(shown, 1 .. c)
    BY <1>5, <1>6, Fun_IsInj
  <2>2. IsFiniteSet(1 .. c) /\ Cardinality(1 .. c) = c
    BY <1>1, FS_Interval
  <2>3. place \in Surjection(shown, 1 .. c)
    BY <2>1, <2>2, FS_Injection
  <2> QED BY <2>3, Fun_SurjectionProperties
<1>8. ASSUME NEW i \in 1 .. c
      PROVE  Listed(shown)[i] \in shown /\ place[Listed(shown)[i]] = i
  <2>1. \E l \in shown : Place(shown, l) = i
    BY <1>4, <1>5, <1>7
  <2>2. Listed(shown)[i] = CHOOSE l \in shown : Place(shown, l) = i
    BY DEF Listed
  <2>3. Listed(shown)[i] \in shown /\ Place(shown, Listed(shown)[i]) = i
    BY <2>1, <2>2
  <2> QED BY <1>4, <1>5, <2>3
<1>9. Listed(shown) \in [1 .. c -> shown]
  <2>1. Listed(shown) = [i \in 1 .. c |-> Listed(shown)[i]]
    BY DEF Listed
  <2> QED BY <1>8, <2>1
<1>10. ASSUME NEW i \in 1 .. c, NEW j \in 1 .. c, i < j
       PROVE  Listed(shown)[i] < Listed(shown)[j]
  <2> DEFINE l == Listed(shown)[i]
             m == Listed(shown)[j]
  <2>1. l \in shown /\ m \in shown /\ place[l] = i /\ place[m] = j
    BY <1>8
  <2> HIDE DEF l, m
  <2>2. l # m /\ l \in Int /\ m \in Int
    BY <1>10, <2>1
  <2>3. ~(m < l)
    <3> SUFFICES ASSUME m < l PROVE FALSE
      OBVIOUS
    <3>1. place[m] < place[l]
      BY <1>3, <1>5, <2>1
    <3> QED BY <1>1, <1>10, <2>1, <3>1
  <2> QED BY <2>2, <2>3 DEF l, m
<1>11. ASSUME NEW l \in shown PROVE \E i \in 1 .. c : Listed(shown)[i] = l
  <2>1. place[l] \in 1 .. c
    BY <1>5
  <2>2. Listed(shown)[place[l]] = l
    BY <1>6, <1>8, <2>1
  <2> QED BY <2>1, <2>2
<1> HIDE DEF c
<1> QED BY <1>1, <1>9, <1>10, <1>11 DEF c

LEMMA ShownIn ==
  ASSUME NEW log \in Seq(Message), NEW filter, NEW first \in 1 .. Len(log) + 1
  PROVE  ShownOf(log, filter, Reached(log, filter, first)) \subseteq first .. Len(log)
BY DEF ShownOf, Reached, Passed

\* What Refiltered shows.
LEMMA RefilteredKeeps ==
  ASSUME NEW log \in Seq(Message), NEW v, NEW n, ViewOf(v, n),
         v.firstLine \in 1 .. Len(log) + 1,
         NEW reached, NEW shown \in SUBSET (1 .. Len(log))
  PROVE  LET w == Refiltered(log, v, reached, shown)
         IN /\ ViewOf(w, Len(log))
            /\ w.firstLine = v.firstLine
            /\ w.filter = MarkedFilters(log, v.filter, v.firstLine, reached)
            /\ w.stop = v.stop
            /\ Lines(w) = shown
            /\ Bookmarked(w) = BookmarksKept(v, shown) \cap shown
<1> DEFINE lines == Listed(shown)
           c == Cardinality(shown)
           items == [i \in DOMAIN lines |->
                      [line |-> lines[i],
                       bookmark |-> lines[i] \in BookmarksKept(v, shown)]]
           marked == MarkedFilters(log, v.filter, v.firstLine, reached)
           u == ClearSelection(v)
           w == [u EXCEPT !.filter = marked, !.lines = items, !.focus = 0]
           x == ScrollToIndex(w, Place(shown, FocusLine(v)))
<1>1. Len(log) \in Nat
  BY LenProperties
<1>2. /\ c \in Nat /\ lines \in [1 .. c -> shown]
      /\ \A i, j \in 1 .. c : i < j => lines[i] < lines[j]
      /\ \A l \in shown : \E i \in 1 .. c : lines[i] = l
  BY <1>1, ListedLines
<1> HIDE DEF lines, c
<1>3. DOMAIN lines = 1 .. c /\ \A i \in 1 .. c : lines[i] \in 1 .. Len(log)
  BY <1>2
<1>4. /\ DOMAIN items = 1 .. c
      /\ \A i \in 1 .. c : /\ items[i] \in Item(Len(log)) /\ items[i].line = lines[i]
                           /\ items[i].bookmark = (lines[i] \in BookmarksKept(v, shown))
  BY <1>3 DEF Item
<1>5. items \in [1 .. c -> Item(Len(log))]
  <2>1. items = [i \in 1 .. c |-> items[i]]
    BY <1>3
  <2> HIDE DEF items
  <2> QED BY <1>4, <2>1
<1> HIDE DEF items
<1>6. items \in Seq(Item(Len(log))) /\ Len(items) = c
  <2>1. items \in Seq(Item(Len(log)))
    BY <1>2, <1>5, SeqDef
  <2> QED BY <1>2, <1>5, <2>1, LenProperties
<1>7. /\ DOMAIN u = Fields /\ u.firstLine = v.firstLine /\ u.stop = v.stop
  BY ScrollToIndexKeeps DEF ClearSelection, Scrolled
<1> HIDE DEF u, marked
<1>8. /\ DOMAIN w = Fields /\ w.lines = items /\ w.focus = 0 /\ w.filter = marked
      /\ w.firstLine = v.firstLine /\ w.stop = v.stop
  BY <1>7 DEF Fields
<1> HIDE DEF w
<1>9. ViewOf(w, Len(log))
  BY <1>2, <1>4, <1>6, <1>8 DEF ViewOf, Rising
<1>10. /\ ViewOf(x, Len(log)) /\ x.lines = items /\ x.filter = marked
       /\ x.firstLine = v.firstLine /\ x.stop = v.stop
  BY <1>8, <1>9, ScrollToIndexKeeps, ScrolledView DEF Scrolled
<1>11. Lines(x) = shown
  <2>1. Lines(x) = {items[i].line : i \in 1 .. c}
    BY <1>4, <1>10 DEF Lines
  <2>2. ASSUME NEW i \in 1 .. c PROVE items[i].line \in shown
    BY <1>2, <1>4
  <2>3. ASSUME NEW l \in shown PROVE \E i \in 1 .. c : items[i].line = l
    BY <1>2, <1>4
  <2> QED BY <2>1, <2>2, <2>3
<1>12. Bookmarked(x) = BookmarksKept(v, shown) \cap shown
  <2>1. Bookmarked(x) = {items[i].line : i \in {j \in 1 .. c : items[j].bookmark}}
    BY <1>4, <1>10 DEF Bookmarked
  <2>2. ASSUME NEW i \in 1 .. c, items[i].bookmark
        PROVE  items[i].line \in BookmarksKept(v, shown) \cap shown
    BY <1>2, <1>4, <2>2
  <2>3. ASSUME NEW l \in BookmarksKept(v, shown) \cap shown
        PROVE  \E i \in 1 .. c : items[i].bookmark /\ items[i].line = l
    <3>1. PICK i \in 1 .. c : lines[i] = l
      BY <1>2
    <3> QED BY <1>4, <3>1
  <2> QED BY <2>1, <2>2, <2>3
<1>13. x = Refiltered(log, v, reached, shown)
  BY DEF Refiltered, x, w, u, marked, items, lines
<1> HIDE DEF x
<1> QED BY <1>10, <1>11, <1>12, <1>13 DEF marked

------------------------------------------------------------------------------
(* What the user does to a view that is not filtered anew *)

LEMMA OtherBookmarks ==
  ASSUME NEW n, NEW s \in Seq(Item(n)), NEW t,
         DOMAIN t = DOMAIN s, t = [i \in DOMAIN t |-> t[i]],
         \A i \in DOMAIN s : t[i] \in [line : {s[i].line}, bookmark : BOOLEAN]
  PROVE  /\ t \in Seq(Item(n)) /\ Len(t) = Len(s)
         /\ \A i \in 1 .. Len(s) : t[i].line = s[i].line
<1>1. /\ Len(s) \in Nat /\ DOMAIN s = 1 .. Len(s)
      /\ \A i \in 1 .. Len(s) : s[i] \in Item(n)
  BY LenProperties, ElementOfSeq
<1>2. ASSUME NEW i \in 1 .. Len(s) PROVE t[i] \in Item(n) /\ t[i].line = s[i].line
  <2>1. s[i].line \in 1 .. n
    BY <1>1 DEF Item
  <2>2. t[i] \in [line : {s[i].line}, bookmark : BOOLEAN]
    BY <1>1
  <2> QED BY <2>1, <2>2 DEF Item
<1>3. t \in [1 .. Len(s) -> Item(n)]
  BY <1>1, <1>2
<1>4. t \in Seq(Item(n))
  BY <1>1, <1>3, SeqDef
<1> QED BY <1>1, <1>2, <1>3, <1>4, LenProperties

LEMMA ToggleAlike ==
  ASSUME NEW v, NEW n, ViewOf(v, n), NEW i \in DOMAIN v.lines
  PROVE  Alike(v, ToggleBookmark(v, i))
<1> DEFINE s == v.lines
           t == [s EXCEPT ![i].bookmark = ~@]
           w == ToggleBookmark(v, i)
<1>1. s \in Seq(Item(n)) /\ i \in DOMAIN s
  BY DEF ViewOf
<1>2. /\ DOMAIN w = Fields /\ w.lines = t /\ w.filter = v.filter
      /\ w.firstLine = v.firstLine /\ w.focus = v.focus /\ w.stop = v.stop
  BY DEF ViewOf, Fields, ToggleBookmark
<1> HIDE DEF s, w
<1>3. ASSUME NEW m, s \in Seq(Item(m))
      PROVE  /\ t \in Seq(Item(m)) /\ Len(t) = Len(s)
             /\ \A j \in 1 .. Len(s) : t[j].line = s[j].line
  <2>1. s = [j \in DOMAIN s |-> s[j]] /\ DOMAIN s = 1 .. Len(s)
    BY <1>3, LenProperties
  <2>2. ASSUME NEW j \in DOMAIN s
        PROVE  t[j] \in [line : {s[j].line}, bookmark : BOOLEAN]
    <3>1. s[j] \in [line : 1 .. m, bookmark : BOOLEAN]
      BY <1>3, <2>1, <2>2, ElementOfSeq DEF Item
    <3>2. CASE j = i
      <4>1. t[j] = [s[j] EXCEPT !.bookmark = ~@]
        BY <1>1, <3>2
      <4>2. (~s[j].bookmark) \in BOOLEAN
        BY <3>1
      <4> QED BY <3>1, <4>1, <4>2
    <3>3. CASE j # i
      <4>1. t[j] = s[j]
        BY <2>1, <3>3
      <4> QED BY <3>1, <4>1
    <3> QED BY <3>2, <3>3
  <2>3. DOMAIN t = DOMAIN s /\ t = [j \in DOMAIN t |-> t[j]]
    BY <2>1
  <2> HIDE DEF t
  <2> QED BY <1>3, <2>2, <2>3, OtherBookmarks
<1> HIDE DEF t
<1>4. v.focus \in 0 .. Len(v.lines)
  BY DEF ViewOf
<1>5. \A m : v.lines \in Seq(Item(m)) => w.lines \in Seq(Item(m))
  BY <1>2, <1>3 DEF s
<1>6. /\ Len(w.lines) = Len(v.lines)
      /\ \A j \in 1 .. Len(v.lines) : w.lines[j].line = v.lines[j].line
  BY <1>1, <1>2, <1>3 DEF s
<1>7. Alike(v, w)
  BY <1>2, <1>4, <1>5, <1>6 DEF Alike
<1> QED BY <1>7 DEF w

LEMMA ClearBookmarksAlike ==
  ASSUME NEW v, NEW n, ViewOf(v, n)
  PROVE  Alike(v, ClearBookmarks(v))
<1> DEFINE s == v.lines
           t == [i \in DOMAIN s |-> [s[i] EXCEPT !.bookmark = FALSE]]
           w == ClearBookmarks(v)
<1>1. s \in Seq(Item(n))
  BY DEF ViewOf
<1>2. /\ DOMAIN w = Fields /\ w.lines = t /\ w.filter = v.filter
      /\ w.firstLine = v.firstLine /\ w.focus = v.focus /\ w.stop = v.stop
  BY DEF ViewOf, Fields, ClearBookmarks
<1> HIDE DEF s, w
<1>3. ASSUME NEW m, s \in Seq(Item(m))
      PROVE  /\ t \in Seq(Item(m)) /\ Len(t) = Len(s)
             /\ \A j \in 1 .. Len(s) : t[j].line = s[j].line
  <2>1. DOMAIN s = 1 .. Len(s)
    BY <1>3, LenProperties
  <2>2. ASSUME NEW j \in DOMAIN s
        PROVE  t[j] \in [line : {s[j].line}, bookmark : BOOLEAN]
    <3>1. s[j] \in [line : 1 .. m, bookmark : BOOLEAN]
      BY <1>3, <2>1, <2>2, ElementOfSeq DEF Item
    <3> QED BY <3>1
  <2>3. DOMAIN t = DOMAIN s /\ t = [j \in DOMAIN t |-> t[j]]
    OBVIOUS
  <2> HIDE DEF t
  <2> QED BY <1>3, <2>2, <2>3, OtherBookmarks
<1> HIDE DEF t
<1>4. v.focus \in 0 .. Len(v.lines)
  BY DEF ViewOf
<1>5. \A m : v.lines \in Seq(Item(m)) => w.lines \in Seq(Item(m))
  BY <1>2, <1>3 DEF s
<1>6. /\ Len(w.lines) = Len(v.lines)
      /\ \A j \in 1 .. Len(v.lines) : w.lines[j].line = v.lines[j].line
  BY <1>1, <1>2, <1>3 DEF s
<1>7. Alike(v, w)
  BY <1>2, <1>4, <1>5, <1>6 DEF Alike
<1> QED BY <1>7 DEF w

LEMMA ScrolledAlike ==
  ASSUME NEW v, NEW n, ViewOf(v, n), NEW u, Alike(v, u), u.lines = v.lines,
         ViewOf(u, n), NEW i
  PROVE  Alike(v, ScrollToIndex(u, i))
<1>1. Scrolled(u, ScrollToIndex(u, i))
  BY ScrollToIndexKeeps
<1> QED BY <1>1 DEF Scrolled, Alike

LEMMA FindAlike ==
  ASSUME NEW v, NEW n, ViewOf(v, n), NEW log, NEW text, NEW direction
  PROVE  /\ Alike(v, FindBookmark(v, direction))
         /\ Alike(v, Find(log, v, text, direction))
         /\ Alike(v, FindProcess(log, v, direction))
<1>1. Alike(v, v)
  BY DEF Alike, ViewOf
<1>2. /\ Alike(v, StopTracking(v)) /\ StopTracking(v).lines = v.lines
      /\ ViewOf(StopTracking(v), n)
  BY StopTrackingKeeps
<1>3. ASSUME NEW i
      PROVE  Alike(v, ScrollToIndex(v, i)) /\ Alike(v, ScrollToIndex(StopTracking(v), i))
  <2>1. Alike(v, ScrollToIndex(v, i))
    BY <1>1, ScrolledAlike
  <2>2. Alike(v, ScrollToIndex(StopTracking(v), i))
    BY <1>2, ScrolledAlike
  <2> QED BY <2>1, <2>2
<1>4. Alike(v, FindBookmark(v, direction))
  BY <1>3 DEF FindBookmark
<1>5. Alike(v, Find(log, v, text, direction))
  BY <1>2, <1>3 DEF Find
<1>6. Alike(v, FindProcess(log, v, direction))
  BY <1>1, <1>3 DEF FindProcess
<1> QED BY <1>4, <1>5, <1>6

LEMMA ScrollAlike ==
  ASSUME NEW v, NEW n, ViewOf(v, n), NEW enable, NEW line
  PROVE  /\ Alike(v, SetAutoScroll(v, enable)) /\ Alike(v, SetAutoScrollStop(v, enable))
         /\ Alike(v, SetFocusLine(v, line))
         /\ \A i \in DOMAIN v.lines : Alike(v, Focus(v, i))
<1>1. Alike(v, v)
  BY DEF Alike, ViewOf
<1>2. Alike(v, SetAutoScroll(v, enable))
  <2> DEFINE u == [v EXCEPT !.autoScrollDown = enable]
  <2>1. Alike(v, u) /\ ViewOf(u, n) /\ u.lines = v.lines
    BY DEF Alike, ViewOf, Fields
  <2>2. SetAutoScroll(v, enable) = IF enable THEN ScrollDown(u) ELSE u
    BY DEF SetAutoScroll
  <2> HIDE DEF u
  <2>3. Alike(v, ScrollDown(u))
    BY <2>1, ScrolledAlike DEF ScrollDown
  <2> QED BY <2>1, <2>2, <2>3
<1>3. Alike(v, SetAutoScrollStop(v, enable))
  BY DEF Alike, ViewOf, Fields, SetAutoScrollStop
<1>4. Alike(v, SetFocusLine(v, line))
  <2>1. \A i : Alike(v, ScrollToIndex(v, i))
    BY <1>1, ScrolledAlike
  <2> QED BY <1>1, <2>1 DEF SetFocusLine
<1>5. ASSUME NEW i \in DOMAIN v.lines PROVE Alike(v, Focus(v, i))
  <2>1. Focus(v, i) = ScrollToIndex(v, i)
    BY DEF ScrollToIndex
  <2> QED BY <1>1, <2>1, ScrolledAlike
<1> QED BY <1>2, <1>3, <1>4, <1>5

------------------------------------------------------------------------------
(* The steps of the program, by what they do to the view *)

NewFilters(log, v) ==
  MarkedFilters(log, v.filter, v.firstLine, Reached(log, v.filter, v.firstLine))

LEMMA FilteredView ==
  ASSUME NEW log \in Seq(Message), NEW v, NEW n, ViewOf(v, n),
         v.firstLine \in 1 .. Len(log) + 1, BecomesFiltered(log, v)
  PROVE  LET shown == ShownLines(log, v.filter, v.firstLine)
         IN /\ ViewOf(view', Len(log)) /\ view'.stop = 0
            /\ view'.firstLine = v.firstLine
            /\ Lines(view') = shown
            /\ Bookmarked(view') = BookmarksKept(v, shown) \cap shown
            /\ view'.filter \in {NewFilters(log, v), DisableTrack(NewFilters(log, v))}
<1> DEFINE reached == Reached(log, v.filter, v.firstLine)
           shown == ShownOf(log, v.filter, reached)
           w == Refiltered(log, v, reached, shown)
<1>1. view' = EndUpdate(w)
  BY DEF BecomesFiltered
<1>2. shown \in SUBSET (1 .. Len(log))
  <2>1. shown \subseteq v.firstLine .. Len(log)
    BY ShownIn
  <2>2. \A i \in v.firstLine .. Len(log) : i \in 1 .. Len(log)
    BY LenProperties
  <2> QED BY <2>1, <2>2
<1> HIDE DEF shown
<1>3. /\ ViewOf(w, Len(log)) /\ w.firstLine = v.firstLine
      /\ w.filter = MarkedFilters(log, v.filter, v.firstLine, reached)
      /\ w.stop = v.stop /\ Lines(w) = shown
      /\ Bookmarked(w) = BookmarksKept(v, shown) \cap shown
  BY <1>2, RefilteredKeeps
<1> HIDE DEF w
<1>4. /\ ViewOf(view', Len(log)) /\ view'.stop = 0 /\ view'.lines = w.lines
      /\ view'.firstLine = w.firstLine
      /\ view'.filter \in {w.filter, DisableTrack(w.filter)}
  BY <1>1, <1>3, EndUpdateKeeps
<1>5. Lines(view') = Lines(w) /\ Bookmarked(view') = Bookmarked(w)
  BY <1>4 DEF Lines, Bookmarked
<1>6. shown = ShownLines(log, v.filter, v.firstLine)
  BY DEF ShownLines, shown
<1> QED BY <1>3, <1>4, <1>5, <1>6 DEF NewFilters

\* Filtered anew, with other filters or another first line.
Reapplied(v, n) ==
  /\ ~updating /\ m_logFile' = m_logFile
  /\ ViewOf(v, n) /\ v.lines = view.lines
  /\ view.filter \in LogFilter => v.filter \in LogFilter
  /\ BecomesFiltered(m_logFile, v)

\* A message is added.
Added(h) ==
  /\ updating /\ updating' = updating
  /\ h \in Message
  /\ m_logFile' = Append(m_logFile, h) /\ AddToView(m_logFile', h)

LEMMA FocusLineIn ==
  ASSUME NEW v, NEW n, ViewOf(v, n), v.focus # 0
  PROVE  FocusLine(v) \in 1 .. n
<1>1. v.focus \in 1 .. Len(v.lines)
  <2>1. Len(v.lines) \in Nat
    BY LinesOf
  <2> QED BY <2>1 DEF ViewOf
<1> QED BY <1>1, LinesOf DEF FocusLine

LEMMA FilterFrom ==
  /\ Filters \subseteq LogFilter
  /\ \A a \in Additions, g \in LogFilter :
       [g EXCEPT ![a.list] = Append(@, a.filter)] \in LogFilter
<1>1. NewFilter \subseteq Filter
  BY DEF NewFilter
<1>2. Seq(NewFilter) \subseteq Seq(Filter)
  <2>1. ASSUME NEW s \in Seq(NewFilter) PROVE s \in Seq(Filter)
    <3>1. Len(s) \in Nat /\ s \in [1 .. Len(s) -> NewFilter]
      BY LenProperties
    <3>2. s \in [1 .. Len(s) -> Filter]
      BY <1>1, <3>1
    <3> QED BY <3>1, <3>2, SeqDef
  <2> QED BY <2>1
<1>3. Filters \subseteq LogFilter
  BY <1>2, FilterAssumption DEF LogFilter
<1>4. ASSUME NEW a \in Additions, NEW g \in LogFilter
      PROVE  [g EXCEPT ![a.list] = Append(@, a.filter)] \in LogFilter
  <2>1. a.filter \in Filter
    BY FilterAssumption
  <2>2. CASE a.list = "process"
    <3>1. Append(g.process, a.filter) \in Seq(Filter)
      BY <2>1, AppendProperties DEF LogFilter
    <3> QED BY <2>2, <3>1 DEF LogFilter
  <2>3. CASE a.list = "message"
    <3>1. Append(g.message, a.filter) \in Seq(Filter)
      BY <2>1, AppendProperties DEF LogFilter
    <3> QED BY <2>3, <3>1 DEF LogFilter
  <2> QED BY <2>2, <2>3, FilterAssumption
<1> QED BY <1>3, <1>4

LEMMA ViewSteps ==
  ASSUME Typed, NEW n \in Nat, n = Len(m_logFile), ViewOf(view, n), [Next]_vars
  PROVE  \/ UNCHANGED <<view, m_logFile>> /\ (~updating' => ~updating)
         \/ EndProcessLines
         \/ Cleared /\ (~updating' => ~updating)
         \/ \E h : Added(h)
         \/ ~updating /\ m_logFile' = m_logFile /\ Alike(view, view')
         \/ ~updating /\ m_logFile' = m_logFile /\ view' = Clear(m_logFile, view)
         \/ \E v : Reapplied(v, n)
         \/ \E begin, end \in 1 .. n : LogCrop(begin, end)
<1> DEFINE Goal == \/ UNCHANGED <<view, m_logFile>> /\ (~updating' => ~updating)
                   \/ EndProcessLines
                   \/ Cleared /\ (~updating' => ~updating)
                   \/ \E h : Added(h)
                   \/ ~updating /\ m_logFile' = m_logFile /\ Alike(view, view')
                   \/ ~updating /\ m_logFile' = m_logFile /\ view' = Clear(m_logFile, view)
                   \/ \E v : Reapplied(v, n)
                   \/ \E begin, end \in 1 .. n : LogCrop(begin, end)
<1> SUFFICES Goal
  OBVIOUS
<1>1. CASE \E kind \in Kinds : Receive(kind)
  <2>1. UNCHANGED <<view, m_logFile, updating>>
    BY <1>1 DEF Receive
  <2> QED BY <2>1
<1>2. CASE Update \/ Timer
  <2>1. UNCHANGED <<view, m_logFile>> /\ ~updating
    BY <1>2 DEF Update, Timer, OnUpdate
  <2> QED BY <2>1
<1>3. CASE AddMessage
  <2>1. batch # <<>> /\ updating /\ updating' = updating
    BY <1>3 DEF AddMessage, Typed
  <2>2. CASE Cleared
    BY <2>1, <2>2
  <2>3. CASE m_logFile' = Append(m_logFile, Head(batch)) /\ AddToView(m_logFile', Head(batch))
    <3>1. Head(batch) \in Message
      BY <2>1, TailKeeps DEF Typed
    <3>2. Added(Head(batch))
      BY <2>1, <2>3, <3>1 DEF Added
    <3> QED BY <3>2
  <2> QED BY <1>3, <2>2, <2>3 DEF AddMessage
<1>4. CASE UNCHANGED vars
  BY <1>4 DEF vars
<1>5. CASE ClearLog
  BY <1>5 DEF ClearLog
<1>6. CASE ViewClear
  BY <1>6 DEF ViewClear, Becomes
<1>7. ASSUME NEW v, Apply(v), ViewOf(v, n), v.lines = view.lines,
             view.filter \in LogFilter => v.filter \in LogFilter
      PROVE  Goal
  <2>1. Reapplied(v, n)
    BY <1>7 DEF Apply, Reapplied
  <2> QED BY <2>1
<1>8. ASSUME NEW line \in 1 .. n + 1
      PROVE  /\ ViewOf(ResetToLine(view, line), n)
             /\ ResetToLine(view, line).lines = view.lines
             /\ ResetToLine(view, line).filter = view.filter
  <2> DEFINE u == StopTracking(view)
             w == [u EXCEPT !.firstLine = line]
  <2>1. ViewOf(u, n) /\ u.lines = view.lines /\ u.filter = view.filter
    BY StopTrackingKeeps
  <2>2. ResetToLine(view, line) = w
    BY DEF ResetToLine
  <2> HIDE DEF u
  <2>3. ViewOf(w, n) /\ w.lines = view.lines /\ w.filter = view.filter
    BY <2>1 DEF ViewOf, Fields
  <2> HIDE DEF w
  <2> QED BY <2>2, <2>3
<1>9. CASE ViewReset
  BY <1>7, <1>8, <1>9 DEF ViewReset
<1>10. CASE ViewResetToLine
  <2>1. FocusLine(view) \in 1 .. n
    BY <1>10, FocusLineIn DEF ViewResetToLine
  <2> QED BY <1>7, <1>8, <1>10, <2>1 DEF ViewResetToLine
<1>11. ASSUME NEW filter \in Filters, ViewFilter(filter) PROVE Goal
  <2> DEFINE u == StopTracking(view)
             w == [u EXCEPT !.filter = filter]
  <2>1. ViewOf(u, n) /\ u.lines = view.lines
    BY StopTrackingKeeps
  <2>2. SetFilters(view, filter) = w
    BY DEF SetFilters
  <2> HIDE DEF u
  <2>3. ViewOf(w, n) /\ w.lines = view.lines /\ w.filter = filter
    BY <2>1 DEF ViewOf, Fields
  <2> HIDE DEF w
  <2>4. filter \in LogFilter
    BY FilterFrom
  <2> QED BY <1>7, <1>11, <2>2, <2>3, <2>4 DEF ViewFilter
<1>12. ASSUME NEW a \in Additions, ViewAddFilter(a.list, a.filter) PROVE Goal
  <2> DEFINE w == AddFilter(view, a.list, a.filter)
             g == [view.filter EXCEPT ![a.list] = Append(@, a.filter)]
  <2>1. ViewOf(w, n) /\ w.lines = view.lines /\ w.filter = g
    BY DEF AddFilter, ViewOf, Fields
  <2>2. view.filter \in LogFilter => g \in LogFilter
    BY FilterFrom
  <2> HIDE DEF g, w
  <2>3. Apply(w)
    BY <1>12 DEF ViewAddFilter, w
  <2> QED BY <1>7, <2>1, <2>2, <2>3
<1>13. ASSUME NEW v, Becomes(v), Alike(view, v) PROVE Goal
  BY <1>13 DEF Becomes
<1>14. ASSUME NEW i \in DOMAIN view.lines, ViewBookmark(i) \/ Select(i) PROVE Goal
  BY <1>13, <1>14, ToggleAlike, ScrollAlike DEF ViewBookmark, Select
<1>15. ASSUME NEW direction,
              \/ ViewFindBookmark(direction) \/ ViewFindProcess(direction)
              \/ \E kind \in Kinds : ViewFind(Text[kind], direction)
       PROVE  Goal
  BY <1>13, <1>15, FindAlike DEF ViewFindBookmark, ViewFindProcess, ViewFind
<1>16. CASE ViewClearBookmarks \/ ViewAutoScroll \/ ViewAutoScrollStop \/ EscapeKey
  <2>1. Alike(view, ClearBookmarks(view)) /\ Alike(view, StopScrolling(view))
    BY ClearBookmarksAlike, StopScrollingKeeps
  <2> QED BY <1>13, <1>16, <2>1, ScrollAlike
        DEF ViewClearBookmarks, ViewAutoScroll, ViewAutoScrollStop, EscapeKey
<1>17. ASSUME NEW line, ChangeTab(line) PROVE Goal
  BY <1>13, <1>17, ScrollAlike DEF ChangeTab
<1> HIDE DEF Goal
<1>18. DOMAIN m_logFile = 1 .. n
  BY LenProperties DEF Typed
<1>19. CASE \E begin, end \in DOMAIN m_logFile : LogCrop(begin, end)
  BY <1>18, <1>19 DEF Goal
<1>20. CASE User
  <2> QED BY <1>5, <1>6, <1>9, <1>10, <1>11, <1>12, <1>14, <1>15, <1>16, <1>17,
             <1>19, <1>20 DEF User
<1>21. CASE EndProcessLines
  BY <1>21 DEF Goal
<1> QED BY <1>1, <1>2, <1>3, <1>4, <1>20, <1>21 DEF Next, ProcessLines

------------------------------------------------------------------------------
(* LinesAreInLog and SelectionStays *)

Waiting(v) == v.stop # 0 => v.autoScrollDown \/ v.track # 0

\* The view shows lines of the log; it is scrolled to a line where it stopped
\* before the user can do anything.
ViewIn ==
  /\ ViewOf(view, Len(m_logFile))
  /\ Waiting(view)
  /\ ~updating => view.stop = 0

\* A line that a clear filter matches, or any other, is added to the view.
LEMMA AddedView ==
  ASSUME Typed, NEW n \in Nat, n = Len(m_logFile), ViewOf(view, n), Waiting(view),
         NEW h, Added(h)
  PROVE  LET v == ClearedFor(m_logFile', view)
             item == [line |-> n + 1,
                      bookmark |-> Matches(v.filter, "bookmark", h.kind)]
         IN /\ Len(m_logFile') = n + 1 /\ m_logFile' \in Seq(Message)
            /\ ViewOf(view', n + 1) /\ Waiting(view')
            /\ view'.firstLine = v.firstLine
            /\ view'.filter = MarkFilters(v.filter, h.kind)
            /\ view'.lines = IF IsIncluded(v.filter, h.kind)
                             THEN Append(v.lines, item) ELSE v.lines
<1> DEFINE log == m_logFile'
           kind == h.kind
           v == ClearedFor(log, view)
           w == Appended(v, n + 1, kind)
           item == [line |-> n + 1, bookmark |-> Matches(v.filter, "bookmark", h.kind)]
<1>1. /\ Len(log) = n + 1 /\ log \in Seq(Message)
  BY AppendProperties DEF Added, Typed
<1>2. view' = IF w.lines = v.lines THEN w ELSE Mark(w, kind)
  BY <1>1 DEF Added, AddToView
<1>3. v \in {view, Clear(log, view)}
  BY DEF ClearedFor
<1>4. /\ ViewOf(Clear(log, view), n + 1) /\ Clear(log, view).lines = <<>>
      /\ Clear(log, view).stop = view.stop /\ Clear(log, view).track = view.track
      /\ view.autoScrollDown => Clear(log, view).autoScrollDown
      /\ Clear(log, view).firstLine = n + 2
  BY <1>1, ClearKeeps
<1> HIDE DEF log, v
<1>5. /\ DOMAIN v = Fields /\ v.lines \in Seq(Item(n)) /\ Rising(v.lines)
      /\ v.focus \in 0 .. Len(v.lines) /\ v.firstLine \in 1 .. n + 2 /\ Waiting(v)
  <2>1. CASE v = view
    BY <2>1 DEF ViewOf
  <2>2. CASE v = Clear(log, view)
    <3>1. <<>> \in Seq(Item(n)) /\ v.lines = <<>>
      BY <1>4, <2>2, EmptySeq
    <3>2. /\ DOMAIN v = Fields /\ Rising(v.lines) /\ v.focus \in 0 .. Len(v.lines)
      BY <1>4, <2>2 DEF ViewOf
    <3>3. v.firstLine \in 1 .. n + 2
      BY <1>4, <2>2
    <3>4. Waiting(v)
      BY <1>4, <2>2 DEF Waiting
    <3> QED BY <3>1, <3>2, <3>3, <3>4
  <2> QED BY <1>3, <2>1, <2>2
<1>6. /\ ViewOf(w, n + 1) /\ w.firstLine = v.firstLine
      /\ w.filter = MarkFilters(v.filter, kind)
      /\ w.stop = v.stop /\ w.track = v.track
      /\ v.autoScrollDown => w.autoScrollDown
      /\ w.lines = IF IsIncluded(v.filter, kind) THEN Append(v.lines, item) ELSE v.lines
  <2> HIDE DEF kind
  <2>1. item = [line |-> n + 1, bookmark |-> Matches(v.filter, "bookmark", kind)]
    BY DEF kind
  <2> HIDE DEF item
  <2> QED BY <1>5, <2>1, AppendedKeeps
<1> HIDE DEF w, item
<1>7. Waiting(w)
  BY <1>5, <1>6 DEF Waiting
<1>8. CASE w.lines = v.lines
  BY <1>1, <1>2, <1>6, <1>7, <1>8 DEF v, log, item
<1>9. CASE w.lines # v.lines
  <2>1. w.lines = Append(v.lines, item) /\ IsIncluded(v.filter, kind)
    BY <1>6, <1>9
  <2>2. Len(w.lines) # 0
    <3>1. /\ Len(Append(v.lines, item)) = Len(v.lines) + 1 /\ Len(v.lines) \in Nat
      <4>1. v.lines \in Seq(Item(n) \cup {item})
        <5>1. Len(v.lines) \in Nat /\ v.lines \in [1 .. Len(v.lines) -> Item(n)]
          BY <1>5, LenProperties
        <5>2. v.lines \in [1 .. Len(v.lines) -> Item(n) \cup {item}]
          BY <5>1
        <5> QED BY <5>1, <5>2, SeqDef
      <4> QED BY <4>1, AppendProperties, LenProperties
    <3> QED BY <2>1, <3>1
  <2>3. /\ ViewOf(Mark(w, kind), n + 1) /\ Mark(w, kind).lines = w.lines
        /\ Mark(w, kind).firstLine = w.firstLine
        /\ Mark(w, kind).filter = w.filter
        /\ Waiting(Mark(w, kind))
    <3>1. w.stop # 0 => w.autoScrollDown \/ w.track # 0
      BY <1>7 DEF Waiting
    <3> QED BY <1>6, <2>2, <3>1, MarkKeeps DEF Waiting
  <2>4. view' = Mark(w, kind)
    BY <1>2, <1>9
  <2> QED BY <1>1, <1>6, <2>1, <2>3, <2>4 DEF v, log, item
<1> QED BY <1>8, <1>9

\* A crop begins at the first line of the new log.
LEMMA CroppedView ==
  ASSUME Typed, NEW n \in Nat, n = Len(m_logFile), ViewOf(view, n),
         NEW begin \in 1 .. n, NEW end \in 1 .. n, LogCrop(begin, end)
  PROVE  \E v : /\ m_logFile' \in Seq(Message)
                /\ ViewOf(v, Len(m_logFile')) /\ v.firstLine = 1 /\ v.lines = <<>>
                /\ v.filter = ResetFilters(view.filter)
                /\ BecomesFiltered(m_logFile', v)
<1> DEFINE c == Clear(m_logFile', view)
           u == StopTracking(c)
           v == ResetToLine(c, 1)
<1>1. /\ m_logFile' = SubSeq(m_logFile, begin, end)
      /\ BecomesFiltered(m_logFile', v)
  BY DEF LogCrop
<1>2. m_logFile' \in Seq(Message) /\ Len(m_logFile') \in Nat
  BY <1>1, SubSeqKeeps, LenProperties DEF Typed
<1>3. ViewOf(c, Len(m_logFile')) /\ c.lines = <<>> /\ c.filter = ResetFilters(view.filter)
  BY <1>2, ClearKeeps
<1> HIDE DEF c
<1>4. ViewOf(u, Len(m_logFile')) /\ u.lines = <<>> /\ u.filter = ResetFilters(view.filter)
  BY <1>3, StopTrackingKeeps
<1>5. v = [u EXCEPT !.firstLine = 1]
  BY DEF ResetToLine
<1> HIDE DEF u, v
<1>6. ASSUME NEW m \in Nat, ViewOf(u, m)
      PROVE  ViewOf(v, m) /\ v.firstLine = 1 /\ v.lines = u.lines /\ v.filter = u.filter
  BY <1>5, <1>6 DEF ViewOf, Fields
<1> QED BY <1>1, <1>2, <1>4, <1>6

LEMMA InitViewIn ==
  ASSUME Init
  PROVE  ViewIn
<1>1. PICK filter : view = InitView(filter)
  BY DEF Init
<1>2. /\ DOMAIN view = Fields /\ view.lines = <<>> /\ view.focus = 0
      /\ view.firstLine = 1 /\ view.stop = 0
  BY <1>1 DEF InitView, Fields
<1>3. <<>> \in Seq(Item(0)) /\ Len(<<>>) = 0
  BY EmptySeq
<1>4. m_logFile = <<>>
  BY DEF Init
<1> QED BY <1>2, <1>3, <1>4 DEF ViewIn, ViewOf, Rising, Waiting

LEMMA NextViewIn ==
  ASSUME Typed, ViewIn, [Next]_vars
  PROVE  ViewIn'
<1> DEFINE n == Len(m_logFile)
<1>1. n \in Nat /\ m_logFile \in Seq(Message)
  BY LenProperties DEF Typed
<1>2. ViewOf(view, n) /\ Waiting(view) /\ (~updating => view.stop = 0)
  BY DEF ViewIn
<1> HIDE DEF n
<1>n. n = Len(m_logFile)
  BY DEF n
<1>3. ASSUME ViewOf(view', Len(m_logFile')), view'.stop = 0 PROVE ViewIn'
  BY <1>3 DEF ViewIn, Waiting
<1>4. CASE UNCHANGED <<view, m_logFile>> /\ (~updating' => ~updating)
  <2>1. ViewOf(view', Len(m_logFile')) /\ Waiting(view') /\ (~updating' => view'.stop = 0)
    BY <1>2, <1>4, <1>n
  <2> QED BY <2>1 DEF ViewIn
<1>5. CASE EndProcessLines
  <2>1. view' = EndUpdate(view) /\ m_logFile' = m_logFile
    BY <1>5 DEF EndProcessLines
  <2> QED BY <1>2, <1>3, <1>n, <2>1, EndUpdateKeeps
<1>6. CASE Cleared /\ (~updating' => ~updating)
  <2>1. m_logFile' = <<>> /\ view' = Clear(<<>>, view)
    BY <1>6 DEF Cleared
  <2>2. <<>> \in Seq(Message)
    BY EmptySeq
  <2>3. /\ ViewOf(view', Len(m_logFile')) /\ view'.stop = view.stop
        /\ view'.track = view.track /\ (view.autoScrollDown => view'.autoScrollDown)
    BY <1>2, <2>1, <2>2, ClearKeeps
  <2>4. Waiting(view')
    BY <1>2, <2>3 DEF Waiting
  <2> QED BY <1>2, <1>6, <2>3, <2>4 DEF ViewIn
<1>7. ASSUME NEW h, Added(h) PROVE ViewIn'
  <2>1. Len(m_logFile') = n + 1 /\ ViewOf(view', n + 1) /\ Waiting(view')
    BY <1>1, <1>2, <1>7, <1>n, AddedView
  <2>2. updating'
    BY <1>7 DEF Added
  <2> QED BY <2>1, <2>2 DEF ViewIn
<1>8. CASE ~updating /\ m_logFile' = m_logFile /\ Alike(view, view')
  <2>1. ViewOf(view', n)
    BY <1>2, <1>8, AlikeView
  <2>2. view'.stop = 0
    BY <1>2, <1>8 DEF Alike
  <2> QED BY <1>3, <1>8, <1>n, <2>1, <2>2
<1>9. CASE ~updating /\ m_logFile' = m_logFile /\ view' = Clear(m_logFile, view)
  <2>1. ViewOf(view', n) /\ view'.stop = view.stop
    BY <1>1, <1>2, <1>9, <1>n, ClearKeeps
  <2> QED BY <1>2, <1>3, <1>9, <1>n, <2>1
<1>10. ASSUME NEW v, Reapplied(v, n) PROVE ViewIn'
  <2>1. v.firstLine \in 1 .. Len(m_logFile) + 1
    BY <1>10, <1>n DEF Reapplied, ViewOf
  <2>2. ViewOf(view', Len(m_logFile)) /\ view'.stop = 0 /\ m_logFile' = m_logFile
    BY <1>1, <1>10, <2>1, FilteredView DEF Reapplied
  <2> QED BY <1>3, <2>2
<1>11. ASSUME NEW begin \in 1 .. n, NEW end \in 1 .. n, LogCrop(begin, end)
       PROVE  ViewIn'
  <2>1. PICK v : /\ m_logFile' \in Seq(Message)
                 /\ ViewOf(v, Len(m_logFile')) /\ v.firstLine = 1 /\ v.lines = <<>>
                 /\ BecomesFiltered(m_logFile', v)
    BY <1>1, <1>2, <1>11, <1>n, CroppedView
  <2>2. v.firstLine \in 1 .. Len(m_logFile') + 1
    BY <2>1 DEF ViewOf
  <2>3. ViewOf(view', Len(m_logFile')) /\ view'.stop = 0
    BY <2>1, <2>2, FilteredView
  <2> QED BY <1>3, <2>3
<1> QED BY <1>1, <1>2, <1>4, <1>5, <1>6, <1>7, <1>8, <1>9, <1>10, <1>11, <1>n, ViewSteps

LEMMA ViewInShows ==
  ASSUME Typed, ViewIn
  PROVE  LinesAreInLog
<1> DEFINE n == Len(m_logFile)
<1>1. DOMAIN m_logFile = 1 .. n
  BY LenProperties DEF Typed
<1>2. ViewOf(view, n)
  BY DEF ViewIn
<1> HIDE DEF n
<1>3. /\ Len(view.lines) \in Nat /\ DOMAIN view.lines = 1 .. Len(view.lines)
      /\ \A i \in 1 .. Len(view.lines) : view.lines[i].line \in 1 .. n
  BY <1>2, LinesOf
<1>4. Lines(view) \subseteq 1 .. n
  BY <1>3 DEF Lines
<1>5. view.focus \in DOMAIN view.lines \cup {0}
  BY <1>2, <1>3 DEF ViewOf
<1> QED BY <1>1, <1>2, <1>3, <1>4, <1>5 DEF LinesAreInLog, ViewOf, Rising

(* However the log is filled, cleared and cropped and whatever the filters are, *)
(* a view shows lines that are in the log, in their order and once, and its     *)
(* focus is on one of them (CLogView::Add, Clear and ApplyFilters).             *)
THEOREM ViewShowsLogLines == Spec => []LinesAreInLog
<1>1. Init => Typed /\ InOrder /\ ViewIn
  BY InitInOrder, InitViewIn
<1>2. (Typed /\ InOrder /\ ViewIn) /\ [Next]_vars => (Typed /\ InOrder /\ ViewIn)'
  BY NextInOrder, NextViewIn
<1>3. Typed /\ ViewIn => LinesAreInLog
  BY ViewInShows
<1> QED BY <1>1, <1>2, <1>3, PTL DEF Spec

(* New lines do not move the focus of a view that does not scroll, unless a     *)
(* track filter found a line (CLogView::EndUpdate, m_stop and m_track).         *)
THEOREM FocusStays == Spec => SelectionStays
<1> DEFINE Stays == EndProcessLines /\ ~view.autoScrollDown /\ view.track = 0
                      => FocusLine(view') = FocusLine(view)
<1>1. Init => Typed /\ InOrder /\ ViewIn
  BY InitInOrder, InitViewIn
<1>2. (Typed /\ InOrder /\ ViewIn) /\ [Next]_vars => (Typed /\ InOrder /\ ViewIn)'
  BY NextInOrder, NextViewIn
<1>3. Typed /\ ViewIn => Stays
  <2> SUFFICES ASSUME ViewIn, EndProcessLines, ~view.autoScrollDown, view.track = 0
               PROVE  FocusLine(view') = FocusLine(view)
    OBVIOUS
  <2>1. view.stop = 0 /\ ViewOf(view, Len(m_logFile))
    BY DEF ViewIn, Waiting
  <2>2. view' = EndUpdate(view)
    BY DEF EndProcessLines
  <2>3. view'.focus = view.focus /\ view'.lines = view.lines
    BY <2>1, <2>2, EndUpdateKeeps
  <2> QED BY <2>3 DEF FocusLine
<1>4. Typed /\ InOrder /\ ViewIn /\ [Next]_vars => [Stays]_vars
  BY <1>3
<1> HIDE DEF Stays
<1>5. Spec => [][Stays]_vars
  BY <1>1, <1>2, <1>4, PTL DEF Spec
<1> QED BY <1>5 DEF SelectionStays, Stays

------------------------------------------------------------------------------
(* BookmarksStay *)

LEMMA NoLines ==
  ASSUME NEW v, v.lines = <<>>
  PROVE  Lines(v) = {} /\ Bookmarked(v) = {}
<1>1. DOMAIN v.lines = {}
  BY EmptySeq
<1> QED BY <1>1 DEF Lines, Bookmarked

LEMMA BookmarksStep ==
  ASSUME Typed, ViewIn, [Next]_vars, m_logFile' = m_logFile,
         view.filter' # view.filter \/ view.firstLine' # view.firstLine,
         Bookmarked(view) \subseteq Lines(view')
  PROVE  Bookmarked(view') = Bookmarked(view) \/ LogCrop(1, Len(m_logFile))
<1> DEFINE n == Len(m_logFile)
           Goal == Bookmarked(view') = Bookmarked(view) \/ LogCrop(1, n)
<1> SUFFICES Goal
  OBVIOUS
<1>1. n \in Nat /\ m_logFile \in Seq(Message)
  BY LenProperties DEF Typed
<1>2. ViewOf(view, n)
  BY DEF ViewIn
<1> HIDE DEF n
<1>n. n = Len(m_logFile)
  BY DEF n
<1>3. ASSUME view'.lines = view.lines PROVE Goal
  BY <1>3 DEF Bookmarked
<1>4. ASSUME view'.lines = <<>> PROVE Goal
  BY <1>4, NoLines
<1>5. CASE UNCHANGED <<view, m_logFile>> /\ (~updating' => ~updating)
  BY <1>5
<1>6. CASE EndProcessLines
  BY <1>2, <1>3, <1>6, EndUpdateKeeps DEF EndProcessLines
<1>7. CASE Cleared /\ (~updating' => ~updating)
  <2>1. <<>> \in Seq(Message) /\ view' = Clear(<<>>, view)
    BY <1>7, EmptySeq DEF Cleared
  <2> QED BY <1>2, <1>4, <2>1, ClearKeeps
<1>8. ASSUME NEW h, Added(h) PROVE Goal
  <2>1. h \in Message /\ m_logFile = Append(m_logFile, h)
    BY <1>8 DEF Added
  <2>2. Len(m_logFile) = Len(m_logFile) + 1
    BY <1>1, <2>1, AppendProperties
  <2> QED BY <1>1, <1>n, <2>2
<1>9. CASE ~updating /\ m_logFile' = m_logFile /\ Alike(view, view')
  BY <1>3, <1>9 DEF Alike
<1>10. CASE ~updating /\ m_logFile' = m_logFile /\ view' = Clear(m_logFile, view)
  BY <1>1, <1>2, <1>4, <1>10, ClearKeeps
<1>11. ASSUME NEW v, Reapplied(v, n) PROVE Goal
  <2> DEFINE shown == ShownLines(m_logFile, v.filter, v.firstLine)
  <2>1. v.firstLine \in 1 .. Len(m_logFile) + 1
    BY <1>11, <1>n DEF Reapplied, ViewOf
  <2>2. Lines(view') = shown /\ Bookmarked(view') = BookmarksKept(v, shown) \cap shown
    BY <1>1, <1>11, <2>1, FilteredView DEF Reapplied
  <2> HIDE DEF shown
  <2>3. Bookmarked(v) = Bookmarked(view)
    BY <1>11 DEF Reapplied, Bookmarked
  <2>4. BookmarksKept(v, shown) = Bookmarked(v)
    BY <2>2, <2>3 DEF BookmarksKept
  <2> QED BY <2>2, <2>3, <2>4
<1>12. ASSUME NEW begin \in 1 .. n, NEW end \in 1 .. n, LogCrop(begin, end)
       PROVE  Goal
  <2>1. m_logFile = SubSeq(m_logFile, begin, end) /\ begin < end
    BY <1>12 DEF LogCrop
  <2>2. Len(SubSeq(m_logFile, begin, end)) = end - begin + 1
    BY <1>1, <1>n, <2>1, SubSeqProperties
  <2>3. begin = 1 /\ end = n
    BY <1>1, <1>n, <2>1, <2>2
  <2> QED BY <1>12, <2>3
<1> HIDE DEF Goal
<1> QED BY <1>1, <1>2, <1>5, <1>6, <1>7, <1>8, <1>9, <1>10, <1>11, <1>12, <1>n, ViewSteps

(* Other filters or another first line leave the bookmarks where they are, if  *)
(* all lines that have one are still shown (CLogView::ApplyFilters).           *)
THEOREM FiltersKeepBookmarks == Spec => BookmarksStay
<1> DEFINE Stay == /\ m_logFile' = m_logFile
                   /\ view.filter' # view.filter \/ view.firstLine' # view.firstLine
                   /\ Bookmarked(view) \subseteq Lines(view')
                   => \/ Bookmarked(view') = Bookmarked(view)
                      \/ LogCrop(1, Len(m_logFile))
<1>1. Init => Typed /\ InOrder /\ ViewIn
  BY InitInOrder, InitViewIn
<1>2. (Typed /\ InOrder /\ ViewIn) /\ [Next]_vars => (Typed /\ InOrder /\ ViewIn)'
  BY NextInOrder, NextViewIn
<1>3. Typed /\ InOrder /\ ViewIn /\ [Next]_vars => [Stay]_vars
  BY BookmarksStep
<1> HIDE DEF Stay
<1>4. Spec => [][Stay]_vars
  BY <1>1, <1>2, <1>3, PTL DEF Spec
<1> QED BY <1>4 DEF BookmarksStay, Stay

------------------------------------------------------------------------------
(* ShowsWhatItShould: filters *)

\* Filters that are the same but for what they matched and for track filters.
SameFilters(fs, gs) ==
  /\ DOMAIN gs = DOMAIN fs
  /\ \A k \in DOMAIN fs :
       /\ gs[k].type = fs[k].type /\ gs[k].re = fs[k].re
       /\ fs[k].type # "track" => gs[k].enable = fs[k].enable

\* The once filters have matched what they have seen, the lines of reach.
Told(fs, reach, T) ==
  \A k \in DOMAIN fs :
    fs[k].enable /\ fs[k].type = "once"
      => (fs[k].matched <=> \E i \in reach : /\ Hits(fs[k], "once", T[i])
                                             /\ ~Excluded(fs, T[i]))

LEMMA SameMatches ==
  ASSUME NEW fs, NEW gs, SameFilters(fs, gs), NEW text
  PROVE  /\ \A type \in FilterTypes \ {"track"} :
              /\ \A k \in DOMAIN fs : Hits(gs[k], type, text) <=> Hits(fs[k], type, text)
              /\ MatchFilterType(gs, type, text) <=> MatchFilterType(fs, type, text)
         /\ Excluded(gs, text) <=> Excluded(fs, text)
<1>1. ASSUME NEW type \in FilterTypes \ {"track"}, NEW k \in DOMAIN fs
      PROVE  Hits(gs[k], type, text) <=> Hits(fs[k], type, text)
  <2>1. CASE fs[k].type = type
    BY <2>1 DEF SameFilters, Hits
  <2>2. CASE fs[k].type # type
    BY <2>2 DEF SameFilters, Hits
  <2> QED BY <2>1, <2>2
<1>2. ASSUME NEW type \in FilterTypes \ {"track"}
      PROVE  MatchFilterType(gs, type, text) <=> MatchFilterType(fs, type, text)
  BY <1>1 DEF SameFilters, MatchFilterType
<1>3. "exclude" \in FilterTypes \ {"track"}
  BY DEF FilterTypes
<1> QED BY <1>1, <1>2, <1>3 DEF Excluded

LEMMA SamePassed ==
  ASSUME NEW fs, NEW gs, SameFilters(fs, gs), NEW reach, NEW T
  PROVE  Passed(gs, reach, T) = Passed(fs, reach, T)
<1>1. "once" \in FilterTypes \ {"track"} /\ "include" \in FilterTypes \ {"track"}
  BY DEF FilterTypes
<1>2. \A text : /\ Excluded(gs, text) <=> Excluded(fs, text)
                /\ MatchFilterType(gs, "include", text) <=> MatchFilterType(fs, "include", text)
                /\ \A k \in DOMAIN fs : Hits(gs[k], "once", text) <=> Hits(fs[k], "once", text)
  BY <1>1, SameMatches
<1>3. (\A k \in DOMAIN gs : ~(gs[k].enable /\ gs[k].type = "include"))
        <=> (\A k \in DOMAIN fs : ~(fs[k].enable /\ fs[k].type = "include"))
  <2>1. ASSUME NEW k \in DOMAIN fs
        PROVE  (gs[k].enable /\ gs[k].type = "include")
                 <=> (fs[k].enable /\ fs[k].type = "include")
    BY DEF SameFilters
  <2> QED BY <2>1 DEF SameFilters
<1>4. DOMAIN gs = DOMAIN fs
  BY DEF SameFilters
<1> QED BY <1>2, <1>3, <1>4 DEF Passed

LEMMA SameTold ==
  ASSUME NEW fs, NEW gs, SameFilters(fs, gs), NEW reach, NEW T, Told(fs, reach, T),
         \A k \in DOMAIN fs : gs[k].matched = fs[k].matched
  PROVE  Told(gs, reach, T)
<1> SUFFICES ASSUME NEW k \in DOMAIN fs, gs[k].enable, gs[k].type = "once"
             PROVE  gs[k].matched <=> \E i \in reach : /\ Hits(gs[k], "once", T[i])
                                                       /\ ~Excluded(gs, T[i])
  BY DEF Told, SameFilters
<1>1. "once" \in FilterTypes \ {"track"}
  BY DEF FilterTypes
<1>2. \A text : /\ Excluded(gs, text) <=> Excluded(fs, text)
                /\ Hits(gs[k], "once", text) <=> Hits(fs[k], "once", text)
  BY <1>1, SameMatches
<1>3. fs[k].enable /\ fs[k].type = "once" /\ (gs[k].matched <=> fs[k].matched)
  BY DEF SameFilters
<1> QED BY <1>2, <1>3 DEF Told

\* One more line: IsIncluded decides what Passed says of it.
IfIncluded(fs, text, l) == IF Included(fs, text) THEN {l} ELSE {}

LEMMA PassedMore ==
  ASSUME NEW fs, NEW reach \in SUBSET Int, NEW l \in Int, \A i \in reach : i < l,
         NEW T, NEW U, \A i \in reach : U[i] = T[i], Told(fs, reach, T),
         NEW more, more = reach \cup {l}
  PROVE  Passed(fs, more, U) = Passed(fs, reach, T) \cup IfIncluded(fs, U[l], l)
<1> DEFINE Open == \A k \in DOMAIN fs : ~(fs[k].enable /\ fs[k].type = "include")
           First(R, V, i) == \E k \in DOMAIN fs :
                               /\ Hits(fs[k], "once", V[i])
                               /\ \A j \in R : j < i /\ Hits(fs[k], "once", V[j])
                                                  => Excluded(fs, V[j])
           Pass(R, V, i) == /\ ~Excluded(fs, V[i])
                            /\ Open \/ MatchFilterType(fs, "include", V[i]) \/ First(R, V, i)
<1>1. \A R, V : Passed(fs, R, V) = {i \in R : Pass(R, V, i)}
  BY DEF Passed
<1>2. ASSUME NEW i \in reach PROVE First(more, U, i) <=> First(reach, T, i)
  <2>1. ~(l < i) /\ U[i] = T[i]
    OBVIOUS
  <2>2. \A j \in more : j < i => j \in reach /\ U[j] = T[j]
    BY <2>1
  <2> QED BY <2>1, <2>2
<1>3. First(more, U, l)
        <=> \E k \in DOMAIN fs : Hits(fs[k], "once", U[l]) /\ ~fs[k].matched
  <2>1. ASSUME NEW k \in DOMAIN fs, Hits(fs[k], "once", U[l])
        PROVE  (\A j \in more : j < l /\ Hits(fs[k], "once", U[j]) => Excluded(fs, U[j]))
                 <=> ~fs[k].matched
    <3>1. fs[k].enable /\ fs[k].type = "once"
      BY <2>1 DEF Hits
    <3>2. fs[k].matched <=> \E i \in reach : Hits(fs[k], "once", T[i]) /\ ~Excluded(fs, T[i])
      BY <3>1 DEF Told
    <3>3. \A j \in more : j < l <=> j \in reach
      OBVIOUS
    <3> QED BY <3>2, <3>3
  <2> QED BY <2>1
<1>4. Pass(more, U, l) <=> Included(fs, U[l])
  BY <1>3 DEF Included
<1>5. \A i \in reach : Pass(more, U, i) <=> Pass(reach, T, i)
  BY <1>2
<1> HIDE DEF Pass
<1>6. /\ Passed(fs, more, U) = {i \in more : Pass(more, U, i)}
      /\ Passed(fs, reach, T) = {i \in reach : Pass(reach, T, i)}
  BY <1>1
<1>7. l \notin reach
  OBVIOUS
<1>8. CASE Included(fs, U[l])
  <2>1. Pass(more, U, l)
    BY <1>4, <1>8
  <2>2. {i \in more : Pass(more, U, i)} = {i \in reach : Pass(reach, T, i)} \cup {l}
    BY <1>5, <1>7, <2>1
  <2> QED BY <1>6, <1>8, <2>2 DEF IfIncluded
<1>9. CASE ~Included(fs, U[l])
  <2>1. ~Pass(more, U, l)
    BY <1>4, <1>9
  <2>2. {i \in more : Pass(more, U, i)} = {i \in reach : Pass(reach, T, i)}
    BY <1>5, <1>7, <2>1
  <2> QED BY <1>6, <1>9, <2>2 DEF IfIncluded
<1> QED BY <1>8, <1>9

PassedUpTo(fs, first, n, T, l, U) ==
  Passed(fs, first .. l, U)
    = Passed(fs, first .. n, T) \cup IfIncluded(fs, U[l], l)

LEMMA PassedNext ==
  ASSUME NEW fs, NEW n \in Int, NEW first \in Int, first <= n + 1, NEW l, l = n + 1,
         NEW T, NEW U, \A i \in first .. n : U[i] = T[i], Told(fs, first .. n, T)
  PROVE  PassedUpTo(fs, first, n, T, l, U)
<1>1. \E R : R = first .. n
  OBVIOUS
<1>2. PICK R : R = first .. n
  BY <1>1, Zenon
<1>3. \E more : more = first .. l
  OBVIOUS
<1>4. PICK more : more = first .. l
  BY <1>3, Zenon
<1>5. R \in SUBSET Int /\ l \in Int /\ (\A i \in R : i < l) /\ more = R \cup {l}
  BY <1>2, <1>4
<1>6. (\A i \in R : U[i] = T[i]) /\ Told(fs, R, T)
  BY <1>2, Zenon
<1>7. Passed(fs, more, U) = Passed(fs, R, T) \cup IfIncluded(fs, U[l], l)
  BY <1>5, <1>6, PassedMore
<1> QED BY <1>2, <1>4, <1>7, Zenon DEF PassedUpTo

LEMMA ToldMore ==
  ASSUME NEW fs \in Seq(Filter), NEW reach, NEW l,
         NEW T, NEW U, \A i \in reach : U[i] = T[i], Told(fs, reach, T)
  PROVE  /\ Told(MarkOnce(fs, U[l]), reach \cup {l}, U)
         /\ SameFilters(fs, MarkOnce(fs, U[l]))
         /\ MarkOnce(fs, U[l]) \in Seq(Filter)
<1> DEFINE gs == MarkOnce(fs, U[l])
<1>1. Len(fs) \in Nat /\ DOMAIN fs = 1 .. Len(fs) /\ \A k \in DOMAIN fs : fs[k] \in Filter
  BY LenProperties, ElementOfSeq
<1>2. DOMAIN gs = DOMAIN fs
  BY DEF MarkOnce
<1>3. ASSUME NEW k \in DOMAIN fs
      PROVE  /\ gs[k].type = fs[k].type /\ gs[k].re = fs[k].re
             /\ gs[k].enable = fs[k].enable
             /\ gs[k].matched <=> \/ fs[k].matched
                                  \/ Hits(fs[k], "once", U[l]) /\ ~Excluded(fs, U[l])
             /\ gs[k] \in Filter
  <2> DEFINE new == \/ fs[k].matched
                    \/ Hits(fs[k], "once", U[l]) /\ ~Excluded(fs, U[l])
  <2>1. gs[k] = [fs[k] EXCEPT !.matched = new]
    BY DEF MarkOnce
  <2>2. new \in BOOLEAN
    OBVIOUS
  <2> HIDE DEF new, gs
  <2>3. fs[k] \in Filter
    BY <1>1
  <2> QED BY <2>1, <2>2, <2>3 DEF Filter, new
<1>4. SameFilters(fs, gs)
  BY <1>2, <1>3 DEF SameFilters
<1>5. gs \in Seq(Filter)
  <2>1. gs = [k \in 1 .. Len(fs) |-> gs[k]]
    BY <1>1 DEF MarkOnce
  <2> HIDE DEF gs
  <2>2. gs \in [1 .. Len(fs) -> Filter]
    BY <1>1, <1>3, <2>1
  <2> QED BY <1>1, <2>2, SeqDef
<1> HIDE DEF gs
<1>6. Told(gs, reach \cup {l}, U)
  <2> SUFFICES ASSUME NEW k \in DOMAIN fs, gs[k].enable, gs[k].type = "once"
               PROVE  gs[k].matched <=> \E i \in reach \cup {l} :
                                           /\ Hits(gs[k], "once", U[i])
                                           /\ ~Excluded(gs, U[i])
    BY <1>2 DEF Told
  <2>1. \A text : /\ Excluded(gs, text) <=> Excluded(fs, text)
                  /\ Hits(gs[k], "once", text) <=> Hits(fs[k], "once", text)
    <3>1. "once" \in FilterTypes \ {"track"}
      BY DEF FilterTypes
    <3> QED BY <1>4, <3>1, SameMatches
  <2>2. fs[k].matched <=> \E i \in reach : Hits(fs[k], "once", T[i]) /\ ~Excluded(fs, T[i])
    BY <1>3 DEF Told
  <2> QED BY <1>3, <2>1, <2>2
<1> QED BY <1>4, <1>5, <1>6 DEF gs

LEMMA FilterList ==
  ASSUME NEW fs \in Seq(Filter), NEW gs, DOMAIN gs = DOMAIN fs,
         gs = [k \in DOMAIN gs |-> gs[k]],
         \A k \in DOMAIN fs : gs[k] \in Filter
  PROVE  gs \in Seq(Filter)
<1>1. Len(fs) \in Nat /\ DOMAIN fs = 1 .. Len(fs)
  BY LenProperties
<1>2. gs \in [1 .. Len(fs) -> Filter]
  BY <1>1
<1> QED BY <1>1, <1>2, SeqDef

LEMMA Disarming ==
  ASSUME NEW fs \in Seq(Filter)
  PROVE  /\ Disarmed(fs) \in Seq(Filter) /\ SameFilters(fs, Disarmed(fs))
         /\ \A k \in DOMAIN fs : Disarmed(fs)[k].matched = fs[k].matched
<1> DEFINE gs == Disarmed(fs)
<1>1. DOMAIN gs = DOMAIN fs /\ gs = [k \in DOMAIN gs |-> gs[k]]
  BY DEF Disarmed
<1>2. ASSUME NEW k \in DOMAIN fs
      PROVE  /\ gs[k] \in Filter /\ gs[k].type = fs[k].type /\ gs[k].re = fs[k].re
             /\ gs[k].matched = fs[k].matched
             /\ fs[k].type # "track" => gs[k].enable = fs[k].enable
  <2> DEFINE new == fs[k].enable /\ fs[k].type # "track"
  <2>1. fs[k] \in Filter
    BY LenProperties, ElementOfSeq
  <2>2. gs[k] = [fs[k] EXCEPT !.enable = new] /\ new \in BOOLEAN
    BY DEF Disarmed
  <2>3. fs[k].type # "track" => new = fs[k].enable
    <3>1. fs[k].enable \in BOOLEAN
      BY <2>1 DEF Filter
    <3> QED BY <3>1, Zenon
  <2> HIDE DEF new, gs
  <2> QED BY <2>1, <2>2, <2>3 DEF Filter
<1> HIDE DEF gs
<1>3. gs \in Seq(Filter)
  BY <1>1, <1>2, FilterList
<1>4. SameFilters(fs, gs)
  BY <1>1, <1>2 DEF SameFilters
<1> QED BY <1>2, <1>3, <1>4 DEF gs

LEMMA Rearming ==
  ASSUME NEW fs \in Seq(Filter)
  PROVE  /\ Rearmed(fs) \in Seq(Filter) /\ SameFilters(fs, Rearmed(fs))
         /\ \A k \in DOMAIN fs : fs[k].type = "once" => ~Rearmed(fs)[k].matched
<1> DEFINE gs == Rearmed(fs)
<1>1. DOMAIN gs = DOMAIN fs /\ gs = [k \in DOMAIN gs |-> gs[k]]
  BY DEF Rearmed
<1>2. ASSUME NEW k \in DOMAIN fs
      PROVE  /\ gs[k] \in Filter /\ gs[k].type = fs[k].type /\ gs[k].re = fs[k].re
             /\ gs[k].enable = fs[k].enable
             /\ fs[k].type = "once" => ~gs[k].matched
  <2> DEFINE new == fs[k].matched /\ fs[k].type # "once"
  <2>1. fs[k] \in Filter
    BY LenProperties, ElementOfSeq
  <2>2. gs[k] = [fs[k] EXCEPT !.matched = new] /\ new \in BOOLEAN
    BY DEF Rearmed
  <2>3. fs[k].type = "once" => ~new
    OBVIOUS
  <2> HIDE DEF new, gs
  <2> QED BY <2>1, <2>2, <2>3 DEF Filter
<1> HIDE DEF gs
<1>3. gs \in Seq(Filter)
  BY <1>1, <1>2, FilterList
<1>4. SameFilters(fs, gs)
  BY <1>1, <1>2 DEF SameFilters
<1> QED BY <1>2, <1>3, <1>4 DEF gs

LEMMA Marking ==
  ASSUME NEW fs \in Seq(Filter), NEW reach, NEW T
  PROVE  /\ Marked(fs, reach, T) \in Seq(Filter)
         /\ SameFilters(fs, Marked(fs, reach, T))
         /\ Told(Marked(fs, reach, T), reach, T)
<1> DEFINE hs == Rearmed(fs)
           gs == Marked(fs, reach, T)
<1>1. /\ hs \in Seq(Filter) /\ SameFilters(fs, hs)
      /\ \A k \in DOMAIN fs : fs[k].type = "once" => ~hs[k].matched
  BY Rearming
<1>2. DOMAIN gs = DOMAIN fs /\ gs = [k \in DOMAIN gs |-> gs[k]]
  BY DEF Marked
<1>3. ASSUME NEW k \in DOMAIN fs
      PROVE  /\ gs[k] \in Filter /\ gs[k].type = fs[k].type /\ gs[k].re = fs[k].re
             /\ fs[k].type # "track" => gs[k].enable = fs[k].enable
             /\ gs[k].matched <=> \/ hs[k].matched
                                  \/ \E i \in reach : /\ Hits(fs[k], "once", T[i])
                                                      /\ ~Excluded(fs, T[i])
  <2> DEFINE new == \/ hs[k].matched
                    \/ \E i \in reach : /\ Hits(fs[k], "once", T[i])
                                        /\ ~Excluded(fs, T[i])
  <2>1. hs[k] \in Filter
    BY <1>1, LenProperties, ElementOfSeq DEF SameFilters
  <2>2. gs[k] = [hs[k] EXCEPT !.matched = new]
    BY DEF Marked
  <2>3. new \in BOOLEAN
    OBVIOUS
  <2> HIDE DEF new, gs, hs
  <2>4. /\ gs[k] \in Filter /\ gs[k].type = hs[k].type /\ gs[k].re = hs[k].re
        /\ gs[k].enable = hs[k].enable /\ gs[k].matched = new
    BY <2>1, <2>2, <2>3 DEF Filter
  <2>5. /\ hs[k].type = fs[k].type /\ hs[k].re = fs[k].re
        /\ fs[k].type # "track" => hs[k].enable = fs[k].enable
    BY <1>1 DEF SameFilters
  <2> QED BY <2>4, <2>5 DEF new
<1> HIDE DEF gs, hs
<1>4. gs \in Seq(Filter)
  BY <1>2, <1>3, FilterList
<1>5. SameFilters(fs, gs)
  BY <1>2, <1>3 DEF SameFilters
<1>6. Told(gs, reach, T)
  <2> SUFFICES ASSUME NEW k \in DOMAIN fs, gs[k].enable, gs[k].type = "once"
               PROVE  gs[k].matched <=> \E i \in reach : /\ Hits(gs[k], "once", T[i])
                                                         /\ ~Excluded(gs, T[i])
    BY <1>2 DEF Told
  <2>1. \A text : /\ Excluded(gs, text) <=> Excluded(fs, text)
                  /\ Hits(gs[k], "once", text) <=> Hits(fs[k], "once", text)
    <3>1. "once" \in FilterTypes \ {"track"}
      BY DEF FilterTypes
    <3> QED BY <1>5, <3>1, SameMatches
  <2>2. ~hs[k].matched
    BY <1>1, <1>3
  <2> QED BY <1>3, <2>1, <2>2
<1> QED BY <1>4, <1>5, <1>6 DEF gs

------------------------------------------------------------------------------
(* ShowsWhatItShould: the lines that a view has collected *)

SameFilter(f, g) ==
  SameFilters(f.process, g.process) /\ SameFilters(f.message, g.message)

\* The lines of the log from the first one on are filtered, and the once filters
\* have matched what they say.
Collects(log, v, first) ==
  LET reached == Reached(log, v.filter, first)
  IN /\ Lines(v) = ShownOf(log, v.filter, reached)
     /\ Told(v.filter.process, first .. Len(log), ProcessesOf(log, first))
     /\ Told(v.filter.message, reached, TextsOf(log, reached))

CollectsAll(log, v) ==
  \/ Collects(log, v, v.firstLine)
  \/ /\ v.firstLine - 1 \in 1 .. Len(log)
     /\ IsClearMessage(v.filter, log[v.firstLine - 1].kind)
     /\ Collects(log, v, v.firstLine - 1)

LEMMA SameShown ==
  ASSUME NEW f, NEW g, SameFilter(f, g), NEW log
  PROVE  /\ \A first : Reached(log, g, first) = Reached(log, f, first)
         /\ \A reached : ShownOf(log, g, reached) = ShownOf(log, f, reached)
         /\ \A kind : IsClearMessage(g, kind) <=> IsClearMessage(f, kind)
<1>1. "clear" \in FilterTypes \ {"track"}
  BY DEF FilterTypes
<1>2. \A kind : IsClearMessage(g, kind) <=> IsClearMessage(f, kind)
  BY <1>1, SameMatches DEF SameFilter, IsClearMessage
<1> QED BY <1>2, SamePassed DEF SameFilter, Reached, ShownOf

LEMMA SameCollects ==
  ASSUME NEW log, NEW v, NEW w, SameFilter(v.filter, w.filter), Lines(w) = Lines(v),
         w.firstLine = v.firstLine,
         \A k \in DOMAIN v.filter.process :
           w.filter.process[k].matched = v.filter.process[k].matched,
         \A k \in DOMAIN v.filter.message :
           w.filter.message[k].matched = v.filter.message[k].matched,
         CollectsAll(log, v)
  PROVE  CollectsAll(log, w)
<1>1. ASSUME NEW first, Collects(log, v, first) PROVE Collects(log, w, first)
  <2> DEFINE reached == Reached(log, v.filter, first)
  <2>1. reached = Reached(log, w.filter, first)
    BY SameShown
  <2> HIDE DEF reached
  <2>2. ShownOf(log, w.filter, reached) = ShownOf(log, v.filter, reached)
    BY SameShown
  <2>3. /\ Told(v.filter.process, first .. Len(log), ProcessesOf(log, first))
        /\ Told(v.filter.message, reached, TextsOf(log, reached))
        /\ Lines(v) = ShownOf(log, v.filter, reached)
    BY <1>1 DEF Collects, reached
  <2>4. /\ Told(w.filter.process, first .. Len(log), ProcessesOf(log, first))
        /\ Told(w.filter.message, reached, TextsOf(log, reached))
    BY <2>3, SameTold DEF SameFilter
  <2> QED BY <2>1, <2>2, <2>3, <2>4 DEF Collects
<1>2. \A kind : IsClearMessage(w.filter, kind) <=> IsClearMessage(v.filter, kind)
  BY SameShown
<1> QED BY <1>1, <1>2 DEF CollectsAll

NoneMatched(f) ==
  /\ \A k \in DOMAIN f.process : f.process[k].type = "once" => ~f.process[k].matched
  /\ \A k \in DOMAIN f.message : f.message[k].type = "once" => ~f.message[k].matched

\* Nothing is shown of a log that ends before the first line.
LEMMA NothingCollected ==
  ASSUME NEW log \in Seq(Message), NEW v, Lines(v) = {}, NoneMatched(v.filter),
         NEW first \in Int, first > Len(log)
  PROVE  Collects(log, v, first)
<1>1. Len(log) \in Nat
  BY LenProperties
<1>2. first .. Len(log) = {}
  BY <1>1
<1>3. Reached(log, v.filter, first) = {}
  BY <1>2 DEF Reached, Passed
<1>4. ShownOf(log, v.filter, {}) = {}
  BY DEF ShownOf, Passed
<1>5. /\ Told(v.filter.process, {}, ProcessesOf(log, first))
      /\ Told(v.filter.message, {}, TextsOf(log, {}))
  BY DEF Told, NoneMatched
<1> QED BY <1>2, <1>3, <1>4, <1>5 DEF Collects

LEMMA FilterKeeps ==
  ASSUME NEW f \in LogFilter
  PROVE  /\ ResetFilters(f) \in LogFilter /\ SameFilter(f, ResetFilters(f))
         /\ NoneMatched(ResetFilters(f))
         /\ DisableTrack(f) \in LogFilter /\ SameFilter(f, DisableTrack(f))
         /\ \A k \in DOMAIN f.process :
              DisableTrack(f).process[k].matched = f.process[k].matched
         /\ \A k \in DOMAIN f.message :
              DisableTrack(f).message[k].matched = f.message[k].matched
<1>1. f.process \in Seq(Filter) /\ f.message \in Seq(Filter)
  BY DEF LogFilter
<1>2. /\ ResetFilters(f).process = Rearmed(f.process)
      /\ ResetFilters(f).message = Rearmed(f.message)
      /\ ResetFilters(f) = [process |-> Rearmed(f.process), message |-> Rearmed(f.message)]
      /\ DisableTrack(f).process = Disarmed(f.process)
      /\ DisableTrack(f).message = Disarmed(f.message)
      /\ DisableTrack(f) = [process |-> Disarmed(f.process), message |-> Disarmed(f.message)]
  BY DEF ResetFilters, DisableTrack
<1>3. ResetFilters(f) \in LogFilter /\ SameFilter(f, ResetFilters(f))
  <2>1. /\ Rearmed(f.process) \in Seq(Filter) /\ Rearmed(f.message) \in Seq(Filter)
        /\ SameFilters(f.process, Rearmed(f.process))
        /\ SameFilters(f.message, Rearmed(f.message))
    BY <1>1, Rearming
  <2> QED BY <1>2, <2>1 DEF LogFilter, SameFilter
<1>4. NoneMatched(ResetFilters(f))
  <2>1. ASSUME NEW fs \in Seq(Filter), NEW k \in DOMAIN Rearmed(fs), Rearmed(fs)[k].type = "once"
        PROVE  ~Rearmed(fs)[k].matched
    <3>1. k \in DOMAIN fs
      BY DEF Rearmed
    <3>2. Rearmed(fs)[k].type = fs[k].type
      BY <3>1, Rearming DEF SameFilters
    <3> QED BY <2>1, <3>1, <3>2, Rearming
  <2> QED BY <1>1, <1>2, <2>1 DEF NoneMatched
<1>5. DisableTrack(f) \in LogFilter /\ SameFilter(f, DisableTrack(f))
  <2>1. /\ Disarmed(f.process) \in Seq(Filter) /\ Disarmed(f.message) \in Seq(Filter)
        /\ SameFilters(f.process, Disarmed(f.process))
        /\ SameFilters(f.message, Disarmed(f.message))
    BY <1>1, Disarming
  <2> QED BY <1>2, <2>1 DEF LogFilter, SameFilter
<1>6. /\ \A k \in DOMAIN f.process :
           DisableTrack(f).process[k].matched = f.process[k].matched
      /\ \A k \in DOMAIN f.message :
           DisableTrack(f).message[k].matched = f.message[k].matched
  BY <1>1, <1>2, Disarming
<1> QED BY <1>3, <1>4, <1>5, <1>6

\* What ApplyFilters shows is what the filters let pass, and the once filters
\* have matched what they say.
LEMMA FilteredCollects ==
  ASSUME NEW log \in Seq(Message), NEW v, NEW n, ViewOf(v, n), v.filter \in LogFilter,
         v.firstLine \in 1 .. Len(log) + 1, BecomesFiltered(log, v)
  PROVE  view'.filter \in LogFilter /\ CollectsAll(log, view')
<1> DEFINE first == v.firstLine
           R == Reached(log, v.filter, first)
           f == NewFilters(log, v)
           u == [filter |-> f, lines |-> view'.lines, firstLine |-> first]
<1>1. /\ view'.firstLine = first /\ view'.filter \in {f, DisableTrack(f)}
      /\ Lines(view') = ShownOf(log, v.filter, R)
  BY FilteredView DEF ShownLines
<1>2. v.filter.process \in Seq(Filter) /\ v.filter.message \in Seq(Filter)
  BY DEF LogFilter
<1>3. /\ f = [process |-> f.process, message |-> f.message]
      /\ f.process = Marked(v.filter.process, first .. Len(log), ProcessesOf(log, first))
      /\ f.message = Marked(v.filter.message, R, TextsOf(log, R))
  BY DEF NewFilters, MarkedFilters
<1> HIDE DEF first, R, f
<1>4. /\ f.process \in Seq(Filter) /\ SameFilters(v.filter.process, f.process)
      /\ Told(f.process, first .. Len(log), ProcessesOf(log, first))
  BY <1>2, <1>3, Marking
<1>5. /\ f.message \in Seq(Filter) /\ SameFilters(v.filter.message, f.message)
      /\ Told(f.message, R, TextsOf(log, R))
  BY <1>2, <1>3, Marking
<1>6. f \in LogFilter
  BY <1>3, <1>4, <1>5 DEF LogFilter
<1>7. SameFilter(v.filter, f)
  BY <1>4, <1>5 DEF SameFilter
<1>8. Reached(log, f, first) = R /\ ShownOf(log, f, R) = ShownOf(log, v.filter, R)
  BY <1>7, SameShown DEF R
<1>9. u.filter = f /\ u.firstLine = first /\ Lines(u) = Lines(view')
  BY DEF Lines
<1> HIDE DEF u
<1>10. CollectsAll(log, u)
  BY <1>1, <1>4, <1>5, <1>8, <1>9 DEF Collects, CollectsAll
<1>11. SameFilter(f, f)
  BY DEF SameFilter, SameFilters
<1>12. CASE view'.filter = f
  <2>1. CollectsAll(log, view')
    BY <1>1, <1>9, <1>10, <1>11, <1>12, SameCollects
  <2> QED BY <1>6, <1>12, <2>1
<1>13. CASE view'.filter = DisableTrack(f)
  <2>1. CollectsAll(log, view')
    BY <1>1, <1>6, <1>9, <1>10, <1>13, FilterKeeps, SameCollects
  <2> QED BY <1>6, <1>13, <2>1, FilterKeeps
<1> QED BY <1>1, <1>12, <1>13

LEMMA MarkFiltersKeep ==
  ASSUME NEW f \in LogFilter, NEW kind
  PROVE  /\ MarkFilters(f, kind).process = MarkOnce(f.process, Process[kind])
         /\ MarkFilters(f, kind).message = IF Included(f.process, Process[kind])
                                           THEN MarkOnce(f.message, Text[kind])
                                           ELSE f.message
         /\ MarkFilters(f, kind) \in LogFilter /\ SameFilter(f, MarkFilters(f, kind))
<1> DEFINE g == MarkFilters(f, kind)
<1>1. /\ g.process = MarkOnce(f.process, Process[kind])
      /\ g.message = IF Included(f.process, Process[kind])
                     THEN MarkOnce(f.message, Text[kind]) ELSE f.message
      /\ g = [process |-> g.process, message |-> g.message]
  BY DEF MarkFilters
<1> HIDE DEF g
<1>2. f.process \in Seq(Filter) /\ f.message \in Seq(Filter)
  BY DEF LogFilter
<1>3. ASSUME NEW fs \in Seq(Filter), NEW text
      PROVE  SameFilters(fs, MarkOnce(fs, text)) /\ MarkOnce(fs, text) \in Seq(Filter)
  <2> DEFINE gs == MarkOnce(fs, text)
  <2>1. DOMAIN gs = DOMAIN fs /\ gs = [k \in DOMAIN gs |-> gs[k]]
    BY DEF MarkOnce
  <2>2. ASSUME NEW k \in DOMAIN fs
        PROVE  /\ gs[k] \in Filter /\ gs[k].type = fs[k].type /\ gs[k].re = fs[k].re
               /\ gs[k].enable = fs[k].enable
    <3> DEFINE new == \/ fs[k].matched
                      \/ Hits(fs[k], "once", text) /\ ~Excluded(fs, text)
    <3>1. fs[k] \in Filter
      BY LenProperties, ElementOfSeq
    <3>2. gs[k] = [fs[k] EXCEPT !.matched = new] /\ new \in BOOLEAN
      BY DEF MarkOnce
    <3> HIDE DEF new, gs
    <3> QED BY <3>1, <3>2 DEF Filter
  <2> HIDE DEF gs
  <2>3. gs \in Seq(Filter)
    BY <2>1, <2>2, FilterList
  <2> QED BY <2>1, <2>2, <2>3 DEF SameFilters, gs
<1>4. \A fs : SameFilters(fs, fs)
  BY DEF SameFilters
<1>5. g.process \in Seq(Filter) /\ g.message \in Seq(Filter) /\ SameFilter(f, g)
  BY <1>1, <1>2, <1>3, <1>4 DEF SameFilter
<1>6. g \in LogFilter
  BY <1>1, <1>5 DEF LogFilter
<1> QED BY <1>1, <1>5, <1>6 DEF g

\* What Add collects is what filtering the log with its new line would.
LEMMA AddedCollects ==
  ASSUME NEW log \in Seq(Message), NEW h \in Message, NEW first \in 1 .. Len(log) + 1,
         NEW v, v.filter \in LogFilter, Collects(log, v, first),
         NEW w, w.filter = MarkFilters(v.filter, h.kind),
         Lines(w) = Lines(v) \cup (IF IsIncluded(v.filter, h.kind) THEN {Len(log) + 1} ELSE {})
  PROVE  Collects(Append(log, h), w, first)
<1> DEFINE n == Len(log)
           last == n + 1
           new == Append(log, h)
           ps == v.filter.process
           ms == v.filter.message
           P == Process[h.kind]
           X == Text[h.kind]
           R == Reached(log, v.filter, first)
           S == Reached(new, w.filter, first)
<1>1. /\ n \in Nat /\ Len(new) = last /\ new[last] = h
      /\ \A i \in 1 .. n : new[i] = log[i]
  BY LenProperties, AppendProperties
<1>2. /\ ps \in Seq(Filter) /\ ms \in Seq(Filter)
      /\ w.filter.process = MarkOnce(ps, P)
      /\ w.filter.message = IF Included(ps, P) THEN MarkOnce(ms, X) ELSE ms
  BY MarkFiltersKeep DEF LogFilter
<1>3. /\ Lines(v) = ShownOf(log, v.filter, R)
      /\ Told(ps, first .. n, ProcessesOf(log, first))
      /\ Told(ms, R, TextsOf(log, R))
  BY DEF Collects
<1>4. /\ ProcessesOf(new, first)[last] = P
      /\ \A i \in first .. n : ProcessesOf(new, first)[i] = ProcessesOf(log, first)[i]
  <2>1. last \in first .. Len(new) /\ \A i \in first .. n : i \in first .. Len(new) /\ i \in 1 .. n
    BY <1>1
  <2> HIDE DEF last, new, n
  <2>2. ProcessesOf(new, first)[last] = P
    BY <1>1, <2>1 DEF ProcessesOf
  <2>3. ASSUME NEW i \in first .. n
        PROVE  ProcessesOf(new, first)[i] = ProcessesOf(log, first)[i]
    BY <1>1, <2>1 DEF ProcessesOf, n
  <2> QED BY <2>2, <2>3
<1>5. R \subseteq first .. n
  BY DEF Reached, Passed
<1>6. /\ last \in Int /\ first .. n \in SUBSET Int /\ (\A i \in first .. n : i < last)
      /\ Len(new) = last
  BY <1>1
<1> HIDE DEF last, new, n, P, X, R, S, ps, ms
<1>7. /\ Passed(ps, first .. last, ProcessesOf(new, first))
           = Passed(ps, first .. n, ProcessesOf(log, first)) \cup IfIncluded(ps, P, last)
      /\ Told(MarkOnce(ps, P), first .. last, ProcessesOf(new, first))
      /\ SameFilters(ps, MarkOnce(ps, P))
  <2> DEFINE B == ProcessesOf(new, first)
             A == ProcessesOf(log, first)
  <2>1. n \in Int /\ first \in Int /\ first <= n + 1 /\ last = n + 1
    BY <1>1 DEF n, last
  <2>2. Told(ps, first .. n, A) /\ ps \in Seq(Filter)
    BY <1>2, <1>3 DEF n, ps
  <2>3. B[last] = P /\ (\A i \in first .. n : B[i] = A[i])
    BY <1>4
  <2> HIDE DEF A, B
  <2>4. PassedUpTo(ps, first, n, A, last, B)
    BY <2>1, <2>2, <2>3, PassedNext, Zenon
  <2>5. first .. last = first .. n \cup {last}
    BY <2>1
  <2>6. /\ Told(MarkOnce(ps, B[last]), first .. n \cup {last}, B)
        /\ SameFilters(ps, MarkOnce(ps, B[last]))
    BY <2>2, <2>3, ToldMore, Zenon
  <2> QED BY <2>3, <2>4, <2>5, <2>6, Zenon DEF A, B, PassedUpTo
<1>8. /\ S = R \cup IfIncluded(ps, P, last)
      /\ Told(w.filter.process, first .. Len(new), ProcessesOf(new, first))
  <2>1. S = Passed(MarkOnce(ps, P), first .. last, ProcessesOf(new, first))
    BY <1>2, <1>6 DEF Reached, S
  <2>2. S = Passed(ps, first .. last, ProcessesOf(new, first))
    BY <1>7, <2>1, SamePassed
  <2>3. R = Passed(ps, first .. n, ProcessesOf(log, first))
    BY DEF Reached, n, R, ps
  <2> QED BY <1>2, <1>6, <1>7, <2>2, <2>3
<1>9. Lines(w) = Lines(v) \cup (IF Included(ps, P) /\ Included(ms, X) THEN {last} ELSE {})
  BY DEF IsIncluded, last, n, P, X, ps, ms
<1>10. CASE Included(ps, P)
  <2> DEFINE B == TextsOf(new, S)
             A == TextsOf(log, R)
  <2>1. S = R \cup {last} /\ w.filter.message = MarkOnce(ms, X)
    BY <1>2, <1>8, <1>10 DEF IfIncluded
  <2>2. /\ R \in SUBSET Int /\ last \in Int /\ (\A i \in R : i < last)
    BY <1>5, <1>6
  <2>3. B[last] = X
    BY <1>1, <2>1 DEF TextsOf, X
  <2>4. ASSUME NEW i \in R PROVE B[i] = A[i]
    <3>1. i \in 1 .. n
      BY <1>1, <1>5
    <3> QED BY <1>1, <2>1, <3>1 DEF TextsOf
  <2>5. Told(ms, R, A) /\ ms \in Seq(Filter)
    BY <1>2, <1>3
  <2> HIDE DEF B, A, ms
  <2>6. Passed(ms, R \cup {last}, B) = Passed(ms, R, A) \cup IfIncluded(ms, B[last], last)
    BY <2>2, <2>4, <2>5, PassedMore
  <2>7. Told(MarkOnce(ms, B[last]), R \cup {last}, B) /\ SameFilters(ms, MarkOnce(ms, B[last]))
    BY <2>4, <2>5, ToldMore
  <2>8. ShownOf(new, w.filter, S) = Passed(ms, R \cup {last}, B)
    <3>1. ShownOf(new, w.filter, S) = Passed(MarkOnce(ms, X), R \cup {last}, B)
      BY <2>1 DEF ShownOf, B
    <3> QED BY <2>3, <2>7, <3>1, SamePassed
  <2>9. ShownOf(log, v.filter, R) = Passed(ms, R, A)
    BY DEF ShownOf, A, ms
  <2>10. Lines(w) = ShownOf(new, w.filter, S)
    BY <1>3, <1>9, <1>10, <2>3, <2>6, <2>8, <2>9 DEF IfIncluded
  <2>11. Told(w.filter.message, S, B)
    BY <2>1, <2>3, <2>7
  <2> QED BY <1>8, <2>10, <2>11 DEF Collects, S, B, new
<1>11. CASE ~Included(ps, P)
  <2>1. S = R /\ w.filter.message = ms
    BY <1>2, <1>8, <1>11 DEF IfIncluded
  <2>2. TextsOf(new, R) = TextsOf(log, R)
    <3>1. ASSUME NEW i \in R PROVE new[i] = log[i]
      <4>1. i \in 1 .. n
        BY <1>1, <1>5
      <4> QED BY <1>1, <4>1
    <3> QED BY <3>1 DEF TextsOf
  <2>3. ShownOf(new, w.filter, S) = ShownOf(log, v.filter, R)
    BY <2>1, <2>2 DEF ShownOf, ms
  <2>4. Lines(w) = ShownOf(new, w.filter, S)
    BY <1>3, <1>9, <1>11, <2>3
  <2>5. Told(w.filter.message, S, TextsOf(new, S))
    BY <1>3, <2>1, <2>2
  <2> QED BY <1>8, <2>4, <2>5 DEF Collects, S, new
<1> QED BY <1>10, <1>11

LEMMA AppendedLines ==
  ASSUME NEW n, NEW v, v.lines \in Seq(Item(n)), NEW item, NEW w,
         w.lines = Append(v.lines, item)
  PROVE  Lines(w) = Lines(v) \cup {item.line}
<1>1. Len(v.lines) \in Nat /\ v.lines \in [1 .. Len(v.lines) -> Item(n)]
  BY LenProperties
<1>2. v.lines \in Seq(Item(n) \cup {item})
  <2>1. v.lines \in [1 .. Len(v.lines) -> Item(n) \cup {item}]
    BY <1>1
  <2> QED BY <1>1, <2>1, SeqDef
<1>3. /\ Len(w.lines) = Len(v.lines) + 1 /\ w.lines[Len(v.lines) + 1] = item
      /\ \A i \in 1 .. Len(v.lines) : w.lines[i] = v.lines[i]
      /\ DOMAIN w.lines = 1 .. Len(w.lines) /\ DOMAIN v.lines = 1 .. Len(v.lines)
  BY <1>2, AppendProperties, LenProperties
<1>4. DOMAIN w.lines = DOMAIN v.lines \cup {Len(v.lines) + 1}
  BY <1>1, <1>3
<1>5. \A i \in DOMAIN v.lines : w.lines[i] = v.lines[i]
  BY <1>3
<1> QED BY <1>3, <1>4, <1>5 DEF Lines

LEMMA AddedCollected ==
  ASSUME Typed, NEW n \in Nat, n = Len(m_logFile), ViewOf(view, n), Waiting(view),
         view.filter \in LogFilter, CollectsAll(m_logFile, view), NEW h, Added(h)
  PROVE  view'.filter \in LogFilter /\ CollectsAll(m_logFile', view')
<1> DEFINE v == ClearedFor(m_logFile', view)
           item == [line |-> n + 1, bookmark |-> Matches(v.filter, "bookmark", h.kind)]
<1>1. /\ Len(m_logFile') = n + 1
      /\ view'.firstLine = v.firstLine
      /\ view'.filter = MarkFilters(v.filter, h.kind)
      /\ view'.lines = IF IsIncluded(v.filter, h.kind)
                       THEN Append(v.lines, item) ELSE v.lines
  BY AddedView
<1>2. /\ m_logFile \in Seq(Message) /\ h \in Message /\ m_logFile' = Append(m_logFile, h)
      /\ m_logFile'[n + 1] = h /\ \A i \in 1 .. n : m_logFile'[i] = m_logFile[i]
  BY AppendProperties DEF Typed, Added
<1> DEFINE c == Clear(m_logFile', view)
<1>3. /\ v = IF IsClearMessage(view.filter, h.kind) THEN c ELSE view
      /\ c.lines = <<>> /\ c.firstLine = n + 2 /\ c.filter = ResetFilters(view.filter)
  <2>1. m_logFile' \in Seq(Message)
    BY AddedView
  <2>2. /\ c.lines = <<>> /\ c.firstLine = Len(m_logFile') + 1
        /\ c.filter = ResetFilters(view.filter)
    BY <2>1, ClearKeeps
  <2>3. v = IF IsClearMessage(view.filter, h.kind) THEN c ELSE view
    BY <1>1, <1>2 DEF ClearedFor
  <2> HIDE DEF c, v
  <2> QED BY <1>1, <2>2, <2>3
<1> HIDE DEF v, c
<1>4. v.lines \in Seq(Item(n)) /\ v.filter \in LogFilter
  <2>1. <<>> \in Seq(Item(n))
    BY EmptySeq
  <2> QED BY <1>3, <2>1, FilterKeeps DEF ViewOf
<1>5. Lines(view') = Lines(v) \cup (IF IsIncluded(v.filter, h.kind) THEN {n + 1} ELSE {})
  <2>1. CASE IsIncluded(v.filter, h.kind)
    <3>1. view'.lines = Append(v.lines, item) /\ item.line = n + 1
      BY <1>1, <2>1
    <3> HIDE DEF item
    <3> QED BY <1>4, <2>1, <3>1, AppendedLines
  <2>2. CASE ~IsIncluded(v.filter, h.kind)
    BY <1>1, <2>2 DEF Lines
  <2> QED BY <2>1, <2>2
<1>6. view'.filter \in LogFilter /\ SameFilter(v.filter, view'.filter)
  BY <1>1, <1>4, MarkFiltersKeep
<1>7. ASSUME NEW first \in 1 .. n + 1, Collects(m_logFile, v, first)
      PROVE  Collects(m_logFile', view', first)
  BY <1>1, <1>2, <1>4, <1>5, <1>7, AddedCollects
<1>8. CASE IsClearMessage(view.filter, h.kind)
  <2>1. v.lines = <<>> /\ v.firstLine = n + 2 /\ v.filter = ResetFilters(view.filter)
    BY <1>3, <1>8
  <2>2. Lines(v) = {}
    BY <2>1 DEF Lines
  <2>3. Collects(m_logFile, v, n + 1)
    BY <1>2, <2>1, <2>2, FilterKeeps, NothingCollected
  <2>4. Collects(m_logFile', view', n + 1)
    BY <1>7, <2>3
  <2>5. IsClearMessage(view'.filter, h.kind)
    <3>1. IsClearMessage(v.filter, h.kind)
      BY <1>8, <2>1, FilterKeeps, SameShown
    <3> QED BY <1>6, <3>1, SameShown
  <2>6. view'.firstLine - 1 = n + 1
    BY <1>1, <2>1
  <2> QED BY <1>1, <1>2, <1>6, <2>4, <2>5, <2>6 DEF CollectsAll
<1>9. CASE ~IsClearMessage(view.filter, h.kind)
  <2>1. v = view
    BY <1>3, <1>9
  <2>2. view.firstLine \in 1 .. n + 1 /\ view'.firstLine = view.firstLine
    BY <1>1, <2>1 DEF ViewOf
  <2>3. CASE Collects(m_logFile, view, view.firstLine)
    <3>1. Collects(m_logFile', view', view'.firstLine)
      BY <1>7, <2>1, <2>2, <2>3
    <3> QED BY <1>6, <3>1 DEF CollectsAll
  <2>4. CASE /\ view.firstLine - 1 \in 1 .. Len(m_logFile)
             /\ IsClearMessage(view.filter, m_logFile[view.firstLine - 1].kind)
             /\ Collects(m_logFile, view, view.firstLine - 1)
    <3>1. view.firstLine - 1 \in 1 .. n /\ view.firstLine - 1 \in 1 .. n + 1
      BY <2>4
    <3>2. Collects(m_logFile', view', view'.firstLine - 1)
      BY <1>7, <2>1, <2>2, <2>4, <3>1
    <3>3. m_logFile'[view.firstLine - 1] = m_logFile[view.firstLine - 1]
      BY <1>2, <3>1
    <3>4. IsClearMessage(view'.filter, m_logFile'[view'.firstLine - 1].kind)
      BY <1>6, <2>1, <2>2, <2>4, <3>3, SameShown
    <3> QED BY <1>1, <1>6, <2>2, <3>1, <3>2, <3>4 DEF CollectsAll
  <2> QED BY <2>3, <2>4 DEF CollectsAll
<1> QED BY <1>8, <1>9

\* Whatever the view goes through, its lines are those that filtering would show.
Collected == view.filter \in LogFilter /\ CollectsAll(m_logFile, view)

LEMMA InitCollected ==
  ASSUME Init
  PROVE  Collected
<1>1. PICK filter \in Filters : view = InitView(filter)
  BY DEF Init
<1>2. m_logFile = <<>> /\ <<>> \in Seq(Message) /\ Len(<<>>) = 0
  BY EmptySeq DEF Init
<1>3. view.filter = filter /\ view.lines = <<>> /\ view.firstLine = 1
  BY <1>1 DEF InitView
<1>4. filter \in LogFilter
  BY FilterFrom
<1>5. NoneMatched(filter)
  <2>1. filter.process \in Seq(NewFilter) /\ filter.message \in Seq(NewFilter)
    BY FilterAssumption
  <2>2. ASSUME NEW fs \in Seq(NewFilter), NEW k \in DOMAIN fs PROVE ~fs[k].matched
    <3>1. fs[k] \in NewFilter
      BY LenProperties, ElementOfSeq
    <3> QED BY <3>1 DEF NewFilter
  <2> QED BY <2>1, <2>2 DEF NoneMatched
<1>6. Lines(view) = {}
  BY <1>3 DEF Lines
<1>7. Collects(m_logFile, view, 1)
  <2>1. m_logFile \in Seq(Message) /\ 1 \in Int /\ 1 > Len(m_logFile)
    BY <1>2
  <2>2. NoneMatched(view.filter)
    BY <1>3, <1>5
  <2> QED BY <1>6, <2>1, <2>2, NothingCollected
<1> QED BY <1>3, <1>4, <1>7 DEF Collected, CollectsAll

LEMMA NextCollected ==
  ASSUME Typed, ViewIn, Collected, [Next]_vars
  PROVE  Collected'
<1> DEFINE n == Len(m_logFile)
<1>1. n \in Nat /\ m_logFile \in Seq(Message)
  BY LenProperties DEF Typed
<1>2. ViewOf(view, n) /\ Waiting(view)
  BY DEF ViewIn
<1>3. view.filter \in LogFilter /\ CollectsAll(m_logFile, view)
  BY DEF Collected
<1> HIDE DEF n
<1>n. n = Len(m_logFile)
  BY DEF n
<1>4. CASE UNCHANGED <<view, m_logFile>>
  BY <1>3, <1>4 DEF Collected
<1>5. ASSUME m_logFile' = m_logFile, Lines(view') = Lines(view),
             view'.firstLine = view.firstLine,
             view'.filter \in {view.filter, DisableTrack(view.filter)}
      PROVE  Collected'
  <2>1. SameFilter(view.filter, view.filter)
    BY DEF SameFilter, SameFilters
  <2>2. CASE view'.filter = view.filter
    <3>1. CollectsAll(m_logFile, view')
      BY <1>3, <1>5, <2>1, <2>2, SameCollects
    <3> QED BY <1>3, <1>5, <2>2, <3>1 DEF Collected
  <2>3. CASE view'.filter = DisableTrack(view.filter)
    <3>1. CollectsAll(m_logFile, view') /\ view'.filter \in LogFilter
      BY <1>3, <1>5, <2>3, FilterKeeps, SameCollects
    <3> QED BY <1>5, <3>1 DEF Collected
  <2> QED BY <1>5, <2>2, <2>3
<1>6. CASE EndProcessLines
  <2>1. view' = EndUpdate(view) /\ m_logFile' = m_logFile
    BY <1>6 DEF EndProcessLines
  <2>2. /\ view'.lines = view.lines /\ view'.firstLine = view.firstLine
        /\ view'.filter \in {view.filter, DisableTrack(view.filter)}
    BY <1>2, <2>1, EndUpdateKeeps
  <2> QED BY <1>5, <2>1, <2>2 DEF Lines
<1>7. ASSUME m_logFile' = m_logFile, Alike(view, view')
      PROVE  Collected'
  <2>1. /\ view'.firstLine = view.firstLine
        /\ view'.filter \in {view.filter, DisableTrack(view.filter)}
    BY <1>7 DEF Alike
  <2>2. Lines(view') = Lines(view)
    <3>1. CASE view'.lines = view.lines
      BY <3>1 DEF Lines
    <3>2. CASE view'.lines # view.lines
      <4>1. /\ Len(view'.lines) = Len(view.lines)
            /\ \A i \in 1 .. Len(view.lines) : view'.lines[i].line = view.lines[i].line
        BY <1>7, <3>2 DEF Alike
      <4>2. /\ DOMAIN view'.lines = 1 .. Len(view'.lines)
            /\ DOMAIN view.lines = 1 .. Len(view.lines)
        BY <1>2, <1>7, AlikeView, LinesOf
      <4> QED BY <4>1, <4>2 DEF Lines
    <3> QED BY <3>1, <3>2
  <2> QED BY <1>5, <1>7, <2>1, <2>2
<1>8. ASSUME NEW log \in Seq(Message), m_logFile' = log, view' = Clear(log, view)
      PROVE  Collected'
  <2>1. /\ view'.lines = <<>> /\ view'.firstLine = Len(log) + 1
        /\ view'.filter = ResetFilters(view.filter) /\ Len(log) \in Nat
    BY <1>2, <1>8, ClearKeeps, LenProperties
  <2>2. Lines(view') = {}
    BY <2>1 DEF Lines
  <2>3. view'.filter \in LogFilter /\ NoneMatched(view'.filter)
    BY <1>3, <2>1, FilterKeeps
  <2>4. Collects(log, view', view'.firstLine)
    BY <2>1, <2>2, <2>3, NothingCollected
  <2> QED BY <1>8, <2>3, <2>4 DEF Collected, CollectsAll
<1>9. CASE Cleared
  <2>1. m_logFile' = <<>> /\ view' = Clear(<<>>, view) /\ <<>> \in Seq(Message)
    BY <1>9, EmptySeq DEF Cleared
  <2> QED BY <1>8, <2>1
<1>10. CASE m_logFile' = m_logFile /\ view' = Clear(m_logFile, view)
  BY <1>1, <1>8, <1>10
<1>11. ASSUME NEW h, Added(h) PROVE Collected'
  BY <1>1, <1>2, <1>3, <1>11, <1>n, AddedCollected DEF Collected
<1>12. ASSUME NEW v, Reapplied(v, n) PROVE Collected'
  <2>1. v.firstLine \in 1 .. Len(m_logFile) + 1 /\ v.filter \in LogFilter
    BY <1>3, <1>12, <1>n DEF Reapplied, ViewOf
  <2>2. m_logFile' = m_logFile /\ ViewOf(v, n) /\ BecomesFiltered(m_logFile, v)
    BY <1>12 DEF Reapplied
  <2> QED BY <1>1, <2>1, <2>2, FilteredCollects DEF Collected
<1>13. ASSUME NEW begin \in 1 .. n, NEW end \in 1 .. n, LogCrop(begin, end)
       PROVE  Collected'
  <2>1. PICK v : /\ m_logFile' \in Seq(Message)
                 /\ ViewOf(v, Len(m_logFile')) /\ v.firstLine = 1 /\ v.lines = <<>>
                 /\ v.filter = ResetFilters(view.filter)
                 /\ BecomesFiltered(m_logFile', v)
    BY <1>1, <1>2, <1>13, <1>n, CroppedView
  <2>2. v.firstLine \in 1 .. Len(m_logFile') + 1 /\ v.filter \in LogFilter
    BY <1>3, <2>1, FilterKeeps DEF ViewOf
  <2>3. view'.filter \in LogFilter /\ CollectsAll(m_logFile', view')
    BY <2>1, <2>2, FilteredCollects
  <2> QED BY <2>3 DEF Collected
<1> QED BY <1>1, <1>2, <1>4, <1>6, <1>7, <1>9, <1>10, <1>11, <1>12, <1>13, <1>n, ViewSteps

(* What a view shows is what its filters let through from its first line on, *)
(* line by line or all at once; the once filters, which remember what they   *)
(* matched, make no difference (CLogView::Add, IsIncluded, ApplyFilters).    *)
THEOREM ViewFilters == Spec => []ShowsWhatItShould
<1>1. Init => Typed /\ InOrder /\ ViewIn /\ Collected
  BY InitInOrder, InitViewIn, InitCollected
<1>2. Typed /\ InOrder /\ ViewIn /\ Collected /\ [Next]_vars
        => (Typed /\ InOrder /\ ViewIn /\ Collected)'
  BY NextInOrder, NextViewIn, NextCollected
<1>3. Typed /\ Collected => ShowsWhatItShould
  <2> SUFFICES ASSUME Typed, Collected PROVE ShowsWhatItShould
    OBVIOUS
  <2>1. DOMAIN m_logFile = 1 .. Len(m_logFile)
    BY LenProperties DEF Typed
  <2> QED BY <2>1 DEF Collected, CollectsAll, Collects, ShowsWhatItShould, ShownLines
<1> QED BY <1>1, <1>2, <1>3, PTL DEF Spec
=============================================================================
