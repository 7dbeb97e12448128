---------------------------- MODULE ReadersProofs ----------------------------
(***************************************************************************)
(* What a pipe delivers in pieces and a file that grows and shrinks is     *)
(* read as it was written, for inputs of any length.                       *)
(***************************************************************************)
EXTENDS Readers, SequenceTheorems, FunctionTheorems, WellFoundedInduction, TLAPS

------------------------------------------------------------------------------
(* Naturals and recursion *)

LEMMA LeastNatural ==
  ASSUME NEW S, S \subseteq Nat, S # {}
  PROVE  \E n \in S : \A m \in S : n <= m
<1> DEFINE R == OpToRel(<, Nat)
<1>1. IsWellFoundedOn(R, Nat)
  BY NatLessThanWellFounded
<1> HIDE DEF R
<1>2. PICK n \in S : \A m \in S : ~ (<<m, n>> \in R)
  BY <1>1, WFMin
<1>3. ASSUME NEW m \in S PROVE n <= m
  <2>1. m < n => <<m, n>> \in R
    BY DEF R, OpToRel
  <2> QED BY <1>2, <2>1
<1> QED BY <1>3

\* Induction up to n, for a property that is a set.
LEMMA Steps ==
  ASSUME NEW n \in Nat, NEW S, 0 \in S, \A i \in 1 .. n : i - 1 \in S => i \in S
  PROVE  0 .. n \subseteq S
<1> DEFINE Bad == (0 .. n) \ S
<1> SUFFICES ASSUME Bad # {} PROVE FALSE
  OBVIOUS
<1>1. Bad \subseteq Nat
  OBVIOUS
<1>2. PICK k \in Bad : \A m \in Bad : k <= m
  <2> HIDE DEF Bad
  <2> QED BY <1>1, LeastNatural
<1>3. k \in 1 .. n /\ k - 1 \in 0 .. n /\ ~(k <= k - 1)
  BY <1>2
<1>4. k - 1 \in S
  BY <1>2, <1>3
<1> QED BY <1>2, <1>3, <1>4

\* f computes, step by step from a, what the functions G[1] to G[n] make of it.
IsRun(f, n, S, a, G) ==
  /\ f \in [0 .. n -> S] /\ f[0] = a
  /\ \A i \in 1 .. n : f[i] = G[i][f[i - 1]]

LEMMA Recursion ==
  ASSUME NEW S, NEW n \in Nat, NEW a \in S, NEW G \in [1 .. n -> [S -> S]]
  PROVE  \E f : IsRun(f, n, S, a, G)
<1> DEFINE Run(f, k) == /\ f \in [0 .. k -> S] /\ f[0] = a
                        /\ \A i \in 1 .. k : f[i] = G[i][f[i - 1]]
           Good == {k \in 0 .. n : \E f : Run(f, k)}
<1>1. Run([i \in 0 .. 0 |-> a], 0)
  OBVIOUS
<1>2. ASSUME NEW k \in 1 .. n, NEW g, Run(g, k - 1)
      PROVE  \E f : Run(f, k)
  <2> DEFINE f == [i \in 0 .. k |-> IF i = k THEN G[k][g[k - 1]] ELSE g[i]]
  <2>1. g[k - 1] \in S /\ G[k] \in [S -> S]
    BY <1>2
  <2>2. f \in [0 .. k -> S]
    BY <1>2, <2>1
  <2>3. f[0] = a
    BY <1>2
  <2>4. ASSUME NEW i \in 1 .. k PROVE f[i] = G[i][f[i - 1]]
    BY <1>2, <2>4
  <2> QED BY <2>2, <2>3, <2>4
<1> HIDE DEF Run
<1>3. 0 \in Good
  BY <1>1
<1>4. ASSUME NEW k \in 1 .. n, k - 1 \in Good PROVE k \in Good
  <2>1. PICK g : Run(g, k - 1)
    BY <1>4
  <2> QED BY <1>2, <2>1
<1> HIDE DEF Good
<1>5. 0 .. n \subseteq Good
  BY <1>3, <1>4, Steps
<1>6. n \in Good
  BY <1>5
<1>7. PICK f : Run(f, n)
  BY <1>6 DEF Good
<1> QED BY <1>7 DEF IsRun, Run

------------------------------------------------------------------------------
(* Cut *)

Texts == Seq(Int)
CutOf == [lines : Seq(Texts), rest : Texts]

LEMMA AppendText ==
  ASSUME NEW x \in Seq(Texts), NEW y \in Seq(Texts), NEW e \in Texts
  PROVE  Append(x \o y, e) = x \o Append(y, e)
<1>1. x \o y \in Seq(Texts) /\ <<e>> \in Seq(Texts)
  BY ConcatProperties
<1>2. Append(x \o y, e) = (x \o y) \o <<e>> /\ Append(y, e) = y \o <<e>>
  BY <1>1, AppendIsConcat
<1>3. (x \o y) \o <<e>> = x \o (y \o <<e>>)
  BY <1>1, ConcatAssociative
<1> QED BY <1>2, <1>3

LEMMA CutAtOne ==
  ASSUME NEW cut \in CutOf, NEW c \in Int
  PROVE  CutAt(cut, c) \in CutOf
<1>1. <<>> \in Texts /\ Append(cut.rest, c) \in Texts /\ Append(cut.lines, cut.rest) \in Seq(Texts)
  BY EmptySeq, AppendProperties DEF CutOf, Texts
<1>2. CASE c = NewLine \/ Len(cut.rest) > maxLine
  <2>1. CutAt(cut, c) = [lines |-> Append(cut.lines, cut.rest), rest |-> <<>>]
    BY <1>2 DEF CutAt
  <2> QED BY <1>1, <2>1 DEF CutOf
<1>3. CASE ~(c = NewLine \/ Len(cut.rest) > maxLine)
  <2>1. CutAt(cut, c) = [cut EXCEPT !.rest = Append(@, c)]
    BY <1>3 DEF CutAt
  <2> QED BY <1>1, <2>1 DEF CutOf
<1> QED BY <1>2, <1>3

\* f[n] is what the first n characters of the text are cut to.
IsCut(f, rest, text) ==
  /\ f \in [0 .. Len(text) -> CutOf]
  /\ f[0] = [lines |-> <<>>, rest |-> rest]
  /\ \A i \in 1 .. Len(text) : f[i] = CutAt(f[i - 1], text[i])

LEMMA CutSteps ==
  ASSUME NEW rest \in Texts, NEW text \in Texts
  PROVE  \E f : IsCut(f, rest, text) /\ Cut(rest, text) = f[Len(text)]
<1> DEFINE n == Len(text)
           none == [lines |-> <<>>, rest |-> rest]
           step(g) == [i \in 0 .. n |-> IF i = 0 THEN none ELSE CutAt(g[i - 1], text[i])]
           cut == CHOOSE g : g = step(g)
           G == [i \in 1 .. n |-> [s \in CutOf |-> CutAt(s, text[i])]]
<1>1. n \in Nat /\ \A i \in 1 .. n : text[i] \in Int
  BY LenProperties, ElementOfSeq DEF Texts
<1>2. Cut(rest, text) = cut[n]
  BY DEF Cut
<1>3. none \in CutOf
  BY EmptySeq DEF CutOf
<1> HIDE DEF n, none, step, cut
<1>4. G \in [1 .. n -> [CutOf -> CutOf]]
  <2>1. ASSUME NEW i \in 1 .. n PROVE [s \in CutOf |-> CutAt(s, text[i])] \in [CutOf -> CutOf]
    <3>1. \A s \in CutOf : CutAt(s, text[i]) \in CutOf
      BY <1>1, CutAtOne
    <3> QED BY <3>1
  <2> QED BY <2>1
<1>5. \A i \in 1 .. n, s \in CutOf : G[i][s] = CutAt(s, text[i])
  OBVIOUS
<1> HIDE DEF G
<1>6. PICK f : IsRun(f, n, CutOf, none, G)
  BY <1>1, <1>3, <1>4, Recursion
<1>7. f \in [0 .. n -> CutOf] /\ f[0] = none /\ \A i \in 1 .. n : f[i] = G[i][f[i - 1]]
  BY <1>6 DEF IsRun
<1>8. \A i \in 1 .. n : f[i] = CutAt(f[i - 1], text[i])
  <2>1. \A i \in 1 .. n : i - 1 \in 0 .. n
    BY <1>1
  <2> QED BY <1>5, <1>7, <2>1
<1>9. f = step(f)
  <2>1. \A i \in 0 .. n : i # 0 => i \in 1 .. n
    OBVIOUS
  <2>2. \A i \in 0 .. n : f[i] = IF i = 0 THEN none ELSE CutAt(f[i - 1], text[i])
    BY <1>7, <1>8, <2>1
  <2>3. f = [i \in 0 .. n |-> f[i]]
    BY <1>7
  <2> QED BY <2>2, <2>3 DEF step
<1>10. cut = step(cut)
  BY <1>9 DEF cut
<1>11. \A i \in 0 .. n : cut[i] = IF i = 0 THEN none ELSE CutAt(cut[i - 1], text[i])
  <2> DEFINE F == cut
  <2>1. F = step(F)
    BY <1>10
  <2> HIDE DEF F
  <2>2. \A i \in 0 .. n : F[i] = IF i = 0 THEN none ELSE CutAt(F[i - 1], text[i])
    BY <2>1 DEF step
  <2> QED BY <2>2 DEF F
<1> DEFINE Same == {i \in 0 .. n : cut[i] = f[i]}
<1>12. 0 .. n \subseteq Same
  <2>1. 0 \in Same
    BY <1>1, <1>7, <1>11
  <2>2. ASSUME NEW i \in 1 .. n, i - 1 \in Same PROVE i \in Same
    <3>1. i \in 0 .. n /\ i # 0
      BY <1>1
    <3>2. cut[i] = CutAt(cut[i - 1], text[i]) /\ f[i] = CutAt(f[i - 1], text[i])
      BY <1>8, <1>11, <3>1
    <3> QED BY <2>2, <3>1, <3>2
  <2> HIDE DEF Same
  <2> QED BY <1>1, <2>1, <2>2, Steps
<1>13. cut[n] = f[n]
  BY <1>1, <1>12
<1> QED BY <1>2, <1>7, <1>8, <1>13 DEF IsCut, n, none

\* A text is cut as its parts are, one after the other.
LEMMA CutMore ==
  ASSUME NEW rest \in Texts, NEW s \in Texts, NEW t \in Texts
  PROVE  /\ Cut(rest, s) \in CutOf
         /\ Cut(rest, s \o t)
              = [lines |-> Cut(rest, s).lines \o Cut(Cut(rest, s).rest, t).lines,
                 rest |-> Cut(Cut(rest, s).rest, t).rest]
<1> DEFINE m == Len(s)
           n == Len(t)
           u == s \o t
<1>1. /\ m \in Nat /\ n \in Nat /\ u \in Texts /\ Len(u) = m + n
      /\ \A i \in 1 .. m : u[i] = s[i]
      /\ \A j \in 1 .. n : u[m + j] = t[j]
  <2>1. /\ m \in Nat /\ n \in Nat /\ u \in Texts /\ Len(u) = m + n
        /\ \A i \in 1 .. Len(s) + Len(t) :
             u[i] = IF i <= Len(s) THEN s[i] ELSE t[i - Len(s)]
    BY ConcatProperties, LenProperties DEF Texts
  <2> HIDE DEF u
  <2> QED BY <2>1
<1>2. PICK f : IsCut(f, rest, u) /\ Cut(rest, u) = f[Len(u)]
  <2> HIDE DEF u
  <2> QED BY <1>1, CutSteps
<1>3. PICK g : IsCut(g, rest, s) /\ Cut(rest, s) = g[Len(s)]
  BY CutSteps
<1> DEFINE a == Cut(rest, s)
<1>4. a = g[m] /\ a \in CutOf
  BY <1>1, <1>3 DEF IsCut
<1> HIDE DEF a
<1>5. a.rest \in Texts /\ a.lines \in Seq(Texts)
  BY <1>4 DEF CutOf
<1>6. PICK h : IsCut(h, a.rest, t) /\ Cut(a.rest, t) = h[Len(t)]
  BY <1>5, CutSteps
<1> HIDE DEF m, n, u
<1> DEFINE Same == {i \in 0 .. m : f[i] = g[i]}
<1>7. f[m] = a
  <2>1. 0 \in Same
    BY <1>1, <1>2, <1>3 DEF IsCut
  <2>2. ASSUME NEW i \in 1 .. m, i - 1 \in Same PROVE i \in Same
    <3>1. i \in 1 .. Len(u) /\ i \in 0 .. m
      BY <1>1
    <3>2. f[i] = CutAt(f[i - 1], u[i])
      BY <1>2, <3>1 DEF IsCut
    <3>3. g[i] = CutAt(g[i - 1], s[i])
      BY <1>3 DEF IsCut, m
    <3> QED BY <1>1, <2>2, <3>1, <3>2, <3>3
  <2>3. 0 .. m \subseteq Same
    <3> HIDE DEF Same
    <3> QED BY <1>1, <2>1, <2>2, Steps
  <2> QED BY <1>1, <1>4, <2>3
<1> DEFINE Then(j) == [lines |-> a.lines \o h[j].lines, rest |-> h[j].rest]
           Goes == {j \in 0 .. n : f[m + j] = Then(j)}
<1>8. 0 \in Goes
  <2>1. h[0] = [lines |-> <<>>, rest |-> a.rest]
    BY <1>6 DEF IsCut
  <2>2. a.lines \o <<>> = a.lines
    BY <1>5, ConcatEmptySeq
  <2>3. a = [lines |-> a.lines, rest |-> a.rest]
    BY <1>4 DEF CutOf
  <2>4. Then(0) = a
    BY <2>1, <2>2, <2>3
  <2>5. m + 0 = m /\ 0 \in 0 .. n
    BY <1>1
  <2> HIDE DEF Then
  <2>6. f[m + 0] = Then(0)
    BY <1>7, <2>4, <2>5, Zenon
  <2> QED BY <2>5, <2>6, Zenon
<1>9. ASSUME NEW j \in 1 .. n, j - 1 \in Goes PROVE j \in Goes
  <2>1. m + j \in 1 .. Len(u) /\ (m + j) - 1 = m + (j - 1) /\ j - 1 \in 0 .. n /\ j \in 0 .. n
    BY <1>1
  <2>2. f[m + j] = CutAt(f[m + (j - 1)], t[j])
    BY <1>1, <1>2, <2>1 DEF IsCut
  <2>3. h[j] = CutAt(h[j - 1], t[j]) /\ h[j - 1] \in CutOf
    BY <1>6, <2>1 DEF IsCut, n
  <2>4. f[m + (j - 1)] = Then(j - 1)
    BY <1>9
  <2> DEFINE k == h[j - 1]
             c == t[j]
  <2>5. k \in CutOf /\ k.lines \in Seq(Texts) /\ k.rest \in Texts
    BY <2>3 DEF CutOf
  <2>6. f[m + j] = CutAt([lines |-> a.lines \o k.lines, rest |-> k.rest], c)
    BY <2>2, <2>4
  <2>7. h[j] = CutAt(k, c)
    BY <2>3
  <2> HIDE DEF k, c
  <2>8. CASE c = NewLine \/ Len(k.rest) > maxLine
    <3>1. f[m + j] = [lines |-> Append(a.lines \o k.lines, k.rest), rest |-> <<>>]
      BY <2>6, <2>8 DEF CutAt
    <3>2. h[j] = [lines |-> Append(k.lines, k.rest), rest |-> <<>>]
      BY <2>7, <2>8 DEF CutAt
    <3>3. Append(a.lines \o k.lines, k.rest) = a.lines \o Append(k.lines, k.rest)
      <4>1. a.lines \in Seq(Texts) /\ k.lines \in Seq(Texts) /\ k.rest \in Texts
        BY <1>5, <2>5
      <4> QED BY <4>1, AppendText
    <3>4. h[j].lines = Append(k.lines, k.rest) /\ h[j].rest = <<>>
      BY <3>2
    <3>5. f[m + j] = Then(j)
      BY <3>1, <3>3, <3>4
    <3> QED BY <2>1, <3>5
  <2>9. CASE ~(c = NewLine \/ Len(k.rest) > maxLine)
    <3>1. f[m + j] = [lines |-> a.lines \o k.lines, rest |-> Append(k.rest, c)]
      BY <2>6, <2>9 DEF CutAt
    <3>2. h[j] = [lines |-> k.lines, rest |-> Append(k.rest, c)]
      BY <2>5, <2>7, <2>9 DEF CutAt, CutOf
    <3>3. h[j].lines = k.lines /\ h[j].rest = Append(k.rest, c)
      BY <3>2
    <3>4. f[m + j] = Then(j)
      BY <3>1, <3>3
    <3> QED BY <2>1, <3>4
  <2> QED BY <2>8, <2>9
<1>10. f[m + n] = Then(n)
  <2>1. 0 .. n \subseteq Goes
    <3> HIDE DEF Goes
    <3> QED BY <1>1, <1>8, <1>9, Steps
  <2>2. n \in Goes
    <3> HIDE DEF Goes
    <3> QED BY <1>1, <2>1
  <2> HIDE DEF Then
  <2> QED BY <2>2
<1>11. Cut(rest, u) = Then(n) /\ Cut(a.rest, t) = h[n]
  BY <1>1, <1>2, <1>6, <1>10 DEF n
<1> QED BY <1>4, <1>11 DEF a, u

------------------------------------------------------------------------------
(* PiecesDontMatter *)

PipeInv ==
  /\ kind \in Kinds
  /\ written \in Nat /\ input \in Texts /\ pos \in 0 .. Len(input)
  /\ added \in Seq(Texts) /\ buf \in Texts /\ m_buffer \in Texts
  /\ pc \in {"idle", "poll", "done"}
  /\ Cut(<<>>, SubSeq(input, 1, pos))
       = [lines |-> added, rest |-> IF At("poll") THEN buf ELSE m_buffer]

LEMMA NothingIsCut ==
  ASSUME NEW rest \in Texts
  PROVE  Cut(rest, <<>>) = [lines |-> <<>>, rest |-> rest]
<1>1. <<>> \in Texts /\ Len(<<>>) = 0
  BY EmptySeq DEF Texts
<1>2. PICK f : IsCut(f, rest, <<>>) /\ Cut(rest, <<>>) = f[0]
  BY <1>1, CutSteps
<1> QED BY <1>2 DEF IsCut

LEMMA WriteOneKeeps ==
  ASSUME written \in Nat, input \in Texts, WriteOne
  PROVE  /\ written' \in Nat /\ input' \in Texts /\ Len(input') = Len(input) + 1
         /\ \A i \in 1 .. Len(input) : input'[i] = input[i]
<1>1. PICK c \in {NewLine, written + 1} : input' = Append(input, c)
  BY DEF WriteOne
<1>2. c \in Int
  BY DEF NewLine
<1>3. written' \in Nat
  BY DEF WriteOne
<1> QED BY <1>1, <1>2, <1>3, AppendProperties DEF Texts

\* What was read stays what it is when more is written.
LEMMA SubSeqStays ==
  ASSUME NEW s \in Texts, NEW t, NEW m \in Nat \ {0}, NEW n \in Nat, n <= Len(s),
         \A i \in 1 .. n : t[i] = s[i]
  PROVE  SubSeq(t, m, n) = SubSeq(s, m, n)
<1>1. Len(s) \in Nat /\ \A i \in 1 .. Len(s) : s[i] \in Int
  BY LenProperties, ElementOfSeq DEF Texts
<1>2. \A i \in m .. n : t[i] = s[i] /\ s[i] \in Int
  BY <1>1
<1>3. /\ SubSeq(s, m, n) \in Seq(Int)
      /\ Len(SubSeq(s, m, n)) = IF m <= n THEN n - m + 1 ELSE 0
      /\ \A i \in 1 .. n - m + 1 : SubSeq(s, m, n)[i] = s[m + i - 1]
  BY <1>2, SubSeqProperties
<1>4. /\ SubSeq(t, m, n) \in Seq(Int)
      /\ Len(SubSeq(t, m, n)) = IF m <= n THEN n - m + 1 ELSE 0
      /\ \A i \in 1 .. n - m + 1 : SubSeq(t, m, n)[i] = t[m + i - 1]
  BY <1>2, SubSeqProperties
<1>5. \A i \in 1 .. Len(SubSeq(s, m, n)) : SubSeq(t, m, n)[i] = SubSeq(s, m, n)[i]
  <2>1. ASSUME NEW i \in 1 .. Len(SubSeq(s, m, n))
        PROVE  i \in 1 .. n - m + 1 /\ m + i - 1 \in m .. n
    BY <1>3
  <2> QED BY <1>2, <1>3, <1>4, <2>1
<1> QED BY <1>3, <1>4, <1>5, SeqEqual

\* What is read next comes behind what was read.
LEMMA ReadMore ==
  ASSUME NEW s \in Texts, NEW p \in 0 .. Len(s), NEW m \in 1 .. p + 1,
         NEW n \in 0 .. Len(SubSeq(s, p + 1, Len(s)))
  PROVE  /\ SubSeq(s, p + 1, Len(s)) \in Texts
         /\ SubSeq(SubSeq(s, p + 1, Len(s)), 1, n) \in Texts
         /\ p + n \in 0 .. Len(s)
         /\ SubSeq(s, m, p + n)
              = SubSeq(s, m, p) \o SubSeq(SubSeq(s, p + 1, Len(s)), 1, n)
<1> DEFINE unread == SubSeq(s, p + 1, Len(s))
<1>1. Len(s) \in Nat /\ \A i \in 1 .. Len(s) : s[i] \in Int
  BY LenProperties, ElementOfSeq DEF Texts
<1>2. \A i \in p + 1 .. Len(s) : s[i] \in Int
  BY <1>1
<1>3. /\ unread \in Seq(Int) /\ Len(unread) = Len(s) - p
      /\ \A i \in 1 .. Len(s) - p : unread[i] = s[p + i]
  <2>1. /\ unread \in Seq(Int)
        /\ Len(unread) = IF p + 1 <= Len(s) THEN Len(s) - (p + 1) + 1 ELSE 0
        /\ \A i \in 1 .. Len(s) - (p + 1) + 1 : unread[i] = s[p + 1 + i - 1]
    BY <1>1, <1>2, SubSeqProperties
  <2> QED BY <1>1, <2>1
<1>in. n \in 0 .. Len(unread)
  OBVIOUS
<1> HIDE DEF unread
<1>4. p + n \in p .. Len(s)
  BY <1>1, <1>3, <1>in
<1>5. SubSeq(unread, 1, n) = SubSeq(s, p + 1, p + n)
  <2>1. \A i \in 1 .. n : unread[i] = s[p + i] /\ s[p + i] \in Int
    BY <1>1, <1>3, <1>in
  <2>2. /\ SubSeq(unread, 1, n) \in Seq(Int) /\ Len(SubSeq(unread, 1, n)) = n
        /\ \A i \in 1 .. n : SubSeq(unread, 1, n)[i] = s[p + i]
    <3>1. \A i \in 1 .. n : unread[i] \in Int
      BY <2>1
    <3>2. /\ SubSeq(unread, 1, n) \in Seq(Int)
          /\ Len(SubSeq(unread, 1, n)) = IF 1 <= n THEN n - 1 + 1 ELSE 0
          /\ \A i \in 1 .. n - 1 + 1 : SubSeq(unread, 1, n)[i] = unread[1 + i - 1]
      BY <1>3, <1>in, <3>1, SubSeqProperties
    <3> QED BY <1>3, <1>in, <2>1, <3>2
  <2>3. /\ SubSeq(s, p + 1, p + n) \in Seq(Int) /\ Len(SubSeq(s, p + 1, p + n)) = n
        /\ \A i \in 1 .. n : SubSeq(s, p + 1, p + n)[i] = s[p + i]
    <3>1. \A i \in p + 1 .. p + n : s[i] \in Int
      BY <1>1, <1>4
    <3>2. /\ SubSeq(s, p + 1, p + n) \in Seq(Int)
          /\ Len(SubSeq(s, p + 1, p + n))
               = IF p + 1 <= p + n THEN (p + n) - (p + 1) + 1 ELSE 0
          /\ \A i \in 1 .. (p + n) - (p + 1) + 1 :
               SubSeq(s, p + 1, p + n)[i] = s[p + 1 + i - 1]
      BY <1>4, <3>1, SubSeqProperties
    <3> QED BY <1>3, <3>2
  <2> QED BY <2>2, <2>3, SeqEqual
<1>6. SubSeq(unread, 1, n) \in Seq(Int)
  <2>1. \A i \in 1 .. n : unread[i] \in Int
    BY <1>1, <1>3, <1>in
  <2> QED BY <1>3, <1>in, <2>1, SubSeqProperties
<1>7. SubSeq(s, m, p) \o SubSeq(s, p + 1, p + n) = SubSeq(s, m, p + n)
  <2>1. s \in Seq(Int) /\ m \in 1 .. Len(s) + 1 /\ p \in m - 1 .. Len(s)
    BY <1>1 DEF Texts
  <2> QED BY <1>4, <2>1, ConcatAdjacentSubSeq
<1>8. p + n \in 0 .. Len(s)
  BY <1>1, <1>4
<1>9. SubSeq(s, m, p + n) = SubSeq(s, m, p) \o SubSeq(unread, 1, n)
  BY <1>5, <1>7, Zenon
<1>10. unread \in Texts /\ SubSeq(unread, 1, n) \in Texts
  BY <1>3, <1>6 DEF Texts
<1> QED BY <1>8, <1>9, <1>10 DEF unread

LEMMA ReadPipeKeeps ==
  ASSUME PipeInv, ReadPipe
  PROVE  PipeInv'
<1> DEFINE read == SubSeq(input, 1, pos)
<1>1. PICK n \in 1 .. Len(Unread) :
        LET cut == Cut(buf, SubSeq(Unread, 1, n))
        IN  added' = added \o cut.lines /\ buf' = cut.rest /\ pos' = pos + n
  BY DEF ReadPipe
<1> DEFINE t == SubSeq(Unread, 1, n)
           cut == Cut(buf, t)
<1>2. /\ kind' = kind /\ input' = input /\ written' = written /\ m_buffer' = m_buffer
      /\ pc = "poll" /\ pc' = "poll"
  BY DEF ReadPipe, At
<1>3. /\ t \in Texts /\ pos + n \in 0 .. Len(input)
      /\ SubSeq(input, 1, pos + n) = read \o t
  <2>1. /\ 1 \in 1 .. pos + 1 /\ n \in 0 .. Len(Unread) /\ pos \in 0 .. Len(input)
        /\ input \in Texts
    BY DEF PipeInv
  <2>2. Unread = SubSeq(input, pos + 1, Len(input))
    BY DEF Unread
  <2> HIDE DEF read
  <2>3. n \in 0 .. Len(SubSeq(input, pos + 1, Len(input)))
    BY <2>1, <2>2
  <2>4. /\ SubSeq(SubSeq(input, pos + 1, Len(input)), 1, n) \in Texts
        /\ pos + n \in 0 .. Len(input)
        /\ SubSeq(input, 1, pos + n)
             = SubSeq(input, 1, pos) \o SubSeq(SubSeq(input, pos + 1, Len(input)), 1, n)
    BY <2>1, <2>3, ReadMore, Zenon
  <2> QED BY <2>2, <2>4 DEF read
<1>4. read \in Texts
  <2>1. Len(input) \in Nat /\ \A i \in 1 .. pos : input[i] \in Int
    BY LenProperties, ElementOfSeq DEF PipeInv, Texts
  <2> QED BY <2>1, SubSeqProperties DEF PipeInv, Texts
<1>5. /\ Cut(<<>>, read).lines = added /\ Cut(<<>>, read).rest = buf
  BY <1>2 DEF PipeInv, At
<1> HIDE DEF read, t
<1>6. Cut(<<>>, read \o t) = [lines |-> added \o cut.lines, rest |-> cut.rest]
  <2>1. <<>> \in Texts
    BY EmptySeq DEF Texts
  <2> QED BY <1>3, <1>4, <1>5, <2>1, CutMore
<1>7. cut.lines \in Seq(Texts) /\ cut.rest \in Texts
  <2>1. cut \in CutOf
    <3>1. <<>> \in Texts /\ buf \in Texts
      BY EmptySeq DEF PipeInv, Texts
    <3> QED BY <1>3, <3>1, CutMore
  <2> QED BY <2>1 DEF CutOf
<1>8. added' = added \o cut.lines /\ buf' = cut.rest /\ pos' = pos + n
  BY <1>1 DEF t
<1> HIDE DEF cut
<1>9. added' \in Seq(Texts)
  BY <1>7, <1>8, ConcatProperties DEF PipeInv
<1>10. Cut(<<>>, SubSeq(input', 1, pos')) = [lines |-> added', rest |-> buf']
  BY <1>2, <1>3, <1>6, <1>8
<1> QED BY <1>2, <1>3, <1>7, <1>8, <1>9, <1>10 DEF PipeInv, At

LEMMA PipeKeeps ==
  ASSUME PipeInv, PipeNext
  PROVE  PipeInv'
<1>1. CASE WritePipe
  <2>1. UNCHANGED <<kind, pos, added, pc, buf, m_buffer>> /\ WriteOne
    BY <1>1 DEF WritePipe, pipeVars
  <2>2. /\ written' \in Nat /\ input' \in Texts /\ Len(input') = Len(input) + 1
        /\ \A i \in 1 .. Len(input) : input'[i] = input[i]
    BY <2>1, WriteOneKeeps DEF PipeInv
  <2>3. Len(input) \in Nat /\ pos \in Nat /\ pos <= Len(input)
    BY LenProperties DEF PipeInv, Texts
  <2>4. SubSeq(input', 1, pos) = SubSeq(input, 1, pos)
    <3>1. \A i \in 1 .. pos : input'[i] = input[i]
      BY <2>2, <2>3
    <3>2. ASSUME NEW t, \A i \in 1 .. pos : t[i] = input[i]
          PROVE  SubSeq(t, 1, pos) = SubSeq(input, 1, pos)
      BY <2>3, <3>2, SubSeqStays DEF PipeInv
    <3> QED BY <3>1, <3>2
  <2>5. pos \in 0 .. Len(input')
    BY <2>2, <2>3
  <2> QED BY <2>1, <2>2, <2>4, <2>5 DEF PipeInv, At
<1>2. CASE AbortPipe
  BY <1>2 DEF AbortPipe, PipeInv, pipeVars, At
<1>3. CASE BeginPoll
  BY <1>3 DEF BeginPoll, PipeInv, At, Goto
<1>4. CASE EndPoll
  BY <1>4 DEF EndPoll, PipeInv, At, Goto
<1>5. CASE ReadPipe
  BY <1>5, ReadPipeKeeps
<1>6. CASE WriteOn
  <2>1. written \in Nat /\ written' = written + 1
    BY <1>6 DEF WriteOn, PipeInv
  <2> QED BY <1>6, <2>1 DEF WriteOn, PipeInv, pipeVars, At
<1>7. CASE ReadOn
  <2>1. kind \in Kinds /\ written' = MaxInput[kind]
    BY <1>7 DEF ReadOn, PipeInv
  <2>2. written' \in Nat
    BY <2>1, InputAssumption
  <2> QED BY <1>7, <2>2 DEF ReadOn, PipeInv, pipeVars, At
<1> QED BY <1>1, <1>2, <1>3, <1>4, <1>5, <1>6, <1>7 DEF PipeNext, Poll

(* However a pipe is filled and wherever what is read of it ends, the lines   *)
(* are those that its whole text is cut into (PipeReader::Poll and m_buffer). *)
THEOREM PiecesMakeNoDifference == Spec => []PiecesDontMatter
<1> DEFINE Inv == kind = "pipe" => PipeInv
<1>1. Init => Inv
  <2> SUFFICES ASSUME Init, kind = "pipe" PROVE PipeInv
    OBVIOUS
  <2>1. /\ kind \in Kinds
        /\ written = 0 /\ pos = 0 /\ input = <<>> /\ added = <<>> /\ pc = "idle"
        /\ buf = <<>> /\ m_buffer = <<>>
    BY DEF Init, InputInit, PipeInit, Start
  <2>2. /\ <<>> \in Texts /\ <<>> \in Seq(Texts) /\ Len(<<>>) = 0
        /\ SubSeq(<<>>, 1, 0) = <<>>
    BY EmptySeq, SubSeqEmpty DEF Texts
  <2>3. Cut(<<>>, <<>>) = [lines |-> <<>>, rest |-> <<>>]
    BY <2>2, NothingIsCut
  <2>4. Cut(<<>>, SubSeq(input, 1, pos)) = [lines |-> <<>>, rest |-> <<>>]
    BY <2>1, <2>2, <2>3
  <2>5. pos \in 0 .. Len(input)
    BY <2>1, <2>2
  <2>6. ~At("poll")
    BY <2>1 DEF At
  <2> QED BY <2>1, <2>2, <2>4, <2>5, <2>6 DEF PipeInv
<1>2. Inv /\ [Next]_vars => Inv'
  <2> SUFFICES ASSUME Inv, [Next]_vars, kind' = "pipe" PROVE PipeInv'
    OBVIOUS
  <2>1. CASE UNCHANGED vars
    BY <2>1 DEF vars, common, pipeVars, PipeInv, At
  <2>2. CASE kind = "pipe" /\ PipeNext
    BY <2>2, PipeKeeps
  <2>3. CASE kind \in {"file", "socket", "dbgview"} /\ kind' = kind
    BY <2>3
  <2>4. FileNext => kind' = kind
    BY DEF FileNext, WriteFile, Truncate, Construct, AbortFile, PollThread, FirstSize,
           GetLine, GetRest, Resync, TimedOut, ReadError, Notified, common
  <2>5. SocketNext => kind' = kind
    BY DEF SocketNext, Send, Complete, Notify, Woken, CompleteReceive, BeginReceive
  <2>6. DbgviewNext => kind' = kind
    BY DEF DbgviewNext, Answer, SendPacket, Hangup, AbortDbgview, ReaderThread, Connect,
           Frequency, Connected, Continue, ReadPacket, ReadMessage, SignalAndGo, Round, HandOver, common
  <2> QED BY <2>1, <2>2, <2>3, <2>4, <2>5, <2>6 DEF Next
<1>3. Inv => PiecesDontMatter
  BY DEF PipeInv, PiecesDontMatter
<1> QED BY <1>1, <1>2, <1>3, PTL DEF Spec

------------------------------------------------------------------------------
(* Joined *)

Flat(ss) == FlattenSeq(ss)

\* The steps in which FlattenSeq puts its result together.
LEMMA FlattenSteps ==
  ASSUME NEW ss \in Seq(Texts), ss # <<>>
  PROVE  \E f \in [0 .. Len(ss) -> Texts] :
           /\ f[0] = <<>> /\ Flat(ss) = f[Len(ss)]
           /\ \A i \in 1 .. Len(ss) : f[i] = f[i - 1] \o ss[i]
<1> DEFINE n == Len(ss)
           flat(g) == [i \in 1 .. n |-> IF i = 1 THEN ss[i] ELSE g[i - 1] \o ss[i]]
           flatten == CHOOSE g : g = flat(g)
           G == [i \in 1 .. n |-> [s \in Texts |-> s \o ss[i]]]
<1>1. n \in Nat /\ n # 0 /\ \A i \in 1 .. n : ss[i] \in Texts
  BY LenProperties, EmptySeq, ElementOfSeq
<1>2. Flat(ss) = flatten[n]
  BY <1>1 DEF Flat, FlattenSeq
<1> HIDE DEF n, flat, flatten
<1>3. G \in [1 .. n -> [Texts -> Texts]] /\ <<>> \in Texts
  BY <1>1, ConcatProperties, EmptySeq DEF Texts
<1>4. \A i \in 1 .. n, s \in Texts : G[i][s] = s \o ss[i]
  OBVIOUS
<1> HIDE DEF G
<1>5. PICK f : IsRun(f, n, Texts, <<>>, G)
  BY <1>1, <1>3, Recursion
<1>6. f \in [0 .. n -> Texts] /\ f[0] = <<>> /\ \A i \in 1 .. n : f[i] = G[i][f[i - 1]]
  BY <1>5 DEF IsRun
<1>7. ASSUME NEW i \in 1 .. n PROVE f[i] = f[i - 1] \o ss[i]
  <2>1. i - 1 \in 0 .. n
    BY <1>1
  <2>2. f[i - 1] \in Texts
    BY <1>6, <2>1
  <2> QED BY <1>4, <1>6, <2>2
<1>8. f[1] = ss[1]
  <2>1. 1 \in 1 .. n /\ 1 - 1 = 0
    BY <1>1
  <2>2. f[1] = <<>> \o ss[1] /\ ss[1] \in Texts
    BY <1>1, <1>6, <1>7, <2>1
  <2> QED BY <2>2, ConcatEmptySeq DEF Texts
<1> DEFINE g == [i \in 1 .. n |-> f[i]]
<1>9. g = flat(g)
  <2>1. \A i \in 1 .. n : i # 1 => i - 1 \in 1 .. n
    BY <1>1
  <2> QED BY <1>7, <1>8, <2>1 DEF flat
<1>10. flatten = flat(flatten)
  <2> HIDE DEF g
  <2> QED BY <1>9 DEF flatten
<1>11. \A i \in 1 .. n : flatten[i] = IF i = 1 THEN ss[i] ELSE flatten[i - 1] \o ss[i]
  <2> DEFINE F == flatten
  <2>1. F = flat(F)
    BY <1>10
  <2> HIDE DEF F
  <2>2. \A i \in 1 .. n : F[i] = IF i = 1 THEN ss[i] ELSE F[i - 1] \o ss[i]
    BY <2>1 DEF flat
  <2> QED BY <2>2 DEF F
<1> DEFINE Same == {i \in 0 .. n : i = 0 \/ flatten[i] = f[i]}
<1>12. 0 .. n \subseteq Same
  <2>1. 0 \in Same
    BY <1>1
  <2>2. ASSUME NEW i \in 1 .. n, i - 1 \in Same PROVE i \in Same
    <3>1. i \in 0 .. n
      BY <1>1
    <3>2. CASE i = 1
      BY <1>8, <1>11, <3>1, <3>2
    <3>3. CASE i # 1
      <4>1. flatten[i - 1] = f[i - 1]
        BY <2>2, <3>3
      <4> QED BY <1>7, <1>11, <3>1, <3>3, <4>1
    <3> QED BY <3>2, <3>3
  <2> HIDE DEF Same
  <2> QED BY <1>1, <2>1, <2>2, Steps
<1>13. flatten[n] = f[n]
  <2>1. n \in 0 .. n
    BY <1>1
  <2> QED BY <1>1, <1>12, <2>1
<1> QED BY <1>2, <1>6, <1>7, <1>13 DEF n

LEMMA FlatEmpty == Flat(<<>>) = <<>>
BY EmptySeq DEF Flat, FlattenSeq

LEMMA FlatMore ==
  ASSUME NEW ss \in Seq(Texts), NEW s \in Texts
  PROVE  Flat(ss) \in Texts /\ Flat(Append(ss, s)) = Flat(ss) \o s
<1> DEFINE n == Len(ss)
           tt == Append(ss, s)
<1>1. /\ n \in Nat /\ tt \in Seq(Texts) /\ tt # <<>> /\ Len(tt) = n + 1
      /\ \A i \in 1 .. n : tt[i] = ss[i]
      /\ tt[n + 1] = s
  BY LenProperties, AppendProperties
<1> HIDE DEF tt
<1>2. PICK g \in [0 .. Len(tt) -> Texts] :
        /\ g[0] = <<>> /\ Flat(tt) = g[Len(tt)]
        /\ \A i \in 1 .. Len(tt) : g[i] = g[i - 1] \o tt[i]
  BY <1>1, FlattenSteps
<1>3. Flat(ss) = g[n]
  <2>1. CASE ss = <<>>
    <3>1. n = 0
      BY <2>1, EmptySeq
    <3> QED BY <1>2, <2>1, <3>1, FlatEmpty
  <2>2. CASE ss # <<>>
    <3>1. PICK f \in [0 .. Len(ss) -> Texts] :
            /\ f[0] = <<>> /\ Flat(ss) = f[Len(ss)]
            /\ \A i \in 1 .. Len(ss) : f[i] = f[i - 1] \o ss[i]
      BY <2>2, FlattenSteps
    <3> DEFINE Same == {i \in 0 .. n : f[i] = g[i]}
    <3>2. 0 \in Same
      BY <1>1, <1>2, <3>1
    <3>3. ASSUME NEW i \in 1 .. n, i - 1 \in Same PROVE i \in Same
      <4>1. i \in 0 .. n /\ i \in 1 .. Len(tt)
        BY <1>1
      <4>2. g[i] = g[i - 1] \o tt[i] /\ f[i] = f[i - 1] \o ss[i]
        BY <1>2, <3>1, <4>1
      <4> QED BY <1>1, <3>3, <4>1, <4>2
    <3>4. 0 .. n \subseteq Same
      <4> HIDE DEF Same
      <4> QED BY <1>1, <3>2, <3>3, Steps
    <3>5. n \in 0 .. n
      BY <1>1
    <3> QED BY <3>1, <3>4, <3>5
  <2> QED BY <2>1, <2>2
<1>4. n \in 0 .. Len(tt) /\ n + 1 \in 1 .. Len(tt) /\ (n + 1) - 1 = n
  BY <1>1
<1>5. g[n + 1] = g[n] \o tt[n + 1] /\ g[n] \in Texts
  BY <1>2, <1>4
<1> QED BY <1>1, <1>2, <1>3, <1>5 DEF tt

Ended(lines) == [i \in DOMAIN lines |-> Append(lines[i], NewLine)]

LEMMA EndedMore ==
  ASSUME NEW lines \in Seq(Texts), NEW line \in Texts
  PROVE  /\ Ended(lines) \in Seq(Texts)
         /\ Append(line, NewLine) \in Texts
         /\ Ended(Append(lines, line)) = Append(Ended(lines), Append(line, NewLine))
<1>1. ASSUME NEW ls \in Seq(Texts)
      PROVE  /\ Ended(ls) \in Seq(Texts) /\ Len(Ended(ls)) = Len(ls) /\ Len(ls) \in Nat
             /\ \A i \in 1 .. Len(ls) : Ended(ls)[i] = Append(ls[i], NewLine)
  <2>1. DOMAIN ls = 1 .. Len(ls) /\ Len(ls) \in Nat
        /\ \A i \in 1 .. Len(ls) : ls[i] \in Texts
    BY LenProperties, ElementOfSeq
  <2>2. \A i \in 1 .. Len(ls) : Append(ls[i], NewLine) \in Texts
    BY <2>1, AppendProperties DEF Texts, NewLine
  <2>3. Ended(ls) \in [1 .. Len(ls) -> Texts]
    BY <2>1, <2>2 DEF Ended
  <2>4. Ended(ls) \in Seq(Texts)
    BY <2>1, <2>3, IsASeq
  <2>5. Len(Ended(ls)) = Len(ls)
    <3>1. DOMAIN Ended(ls) = 1 .. Len(ls)
      BY <2>3
    <3>2. DOMAIN Ended(ls) = 1 .. Len(Ended(ls)) /\ Len(Ended(ls)) \in Nat
      BY <2>4, LenProperties
    <3> QED BY <2>1, <3>1, <3>2
  <2> QED BY <2>1, <2>4, <2>5 DEF Ended
<1>2. Append(line, NewLine) \in Texts
  BY AppendProperties DEF Texts, NewLine
<1> DEFINE more == Append(lines, line)
           a == Ended(more)
           b == Append(Ended(lines), Append(line, NewLine))
<1>3. /\ more \in Seq(Texts) /\ Len(more) = Len(lines) + 1
      /\ \A i \in 1 .. Len(lines) : more[i] = lines[i]
      /\ more[Len(lines) + 1] = line
  BY AppendProperties
<1>4. /\ b \in Seq(Texts) /\ Len(b) = Len(Ended(lines)) + 1
      /\ \A i \in 1 .. Len(Ended(lines)) : b[i] = Ended(lines)[i]
      /\ b[Len(Ended(lines)) + 1] = Append(line, NewLine)
  BY <1>1, <1>2, AppendProperties
<1> HIDE DEF more, b
<1>5. /\ a \in Seq(Texts) /\ Len(a) = Len(more)
      /\ \A i \in 1 .. Len(more) : a[i] = Append(more[i], NewLine)
  BY <1>1, <1>3
<1> HIDE DEF a
<1>6. \A i \in 1 .. Len(a) : a[i] = b[i]
  <2> SUFFICES ASSUME NEW i \in 1 .. Len(a) PROVE a[i] = b[i]
    OBVIOUS
  <2>1. i \in 1 .. Len(lines) \/ i = Len(lines) + 1
    BY <1>1, <1>3, <1>5
  <2>2. a[i] = Append(more[i], NewLine)
    BY <1>5
  <2> QED BY <1>1, <1>3, <1>4, <2>1, <2>2
<1>7. a = b
  BY <1>1, <1>3, <1>4, <1>5, <1>6, SeqEqual
<1> QED BY <1>1, <1>2, <1>7 DEF a, b, more

LEMMA TextsAssociate ==
  \A s, t, u \in Seq(Int) : (s \o t) \o u = s \o (t \o u)
<1> SUFFICES ASSUME NEW s \in Seq(Int), NEW t \in Seq(Int), NEW u \in Seq(Int)
             PROVE  (s \o t) \o u = s \o (t \o u)
  OBVIOUS
<1> QED BY ConcatAssociative

LEMMA JoinedMore ==
  ASSUME NEW lines \in Seq(Texts), NEW rest \in Texts, NEW t \in Texts
  PROVE  /\ Joined(lines, rest) \in Texts
         /\ Joined(lines, rest \o t) = Joined(lines, rest) \o t
         /\ Joined(Append(lines, rest \o t), <<>>)
              = Joined(lines, rest) \o Append(t, NewLine)
<1> DEFINE whole == Flat(Ended(lines))
           line == rest \o t
<1>1. \A ls, r : Joined(ls, r) = Flat(Ended(ls)) \o r
  BY DEF Joined, Flat, Ended
<1>2. line \in Texts
  BY ConcatProperties DEF Texts
<1>3. Ended(lines) \in Seq(Texts) /\ Append(line, NewLine) \in Texts
      /\ Ended(Append(lines, line)) = Append(Ended(lines), Append(line, NewLine))
  BY <1>2, EndedMore
<1>4. whole \in Texts /\ Flat(Ended(Append(lines, line))) = whole \o Append(line, NewLine)
  BY <1>3, FlatMore
<1> HIDE DEF whole
<1>5. whole \o rest \in Texts /\ (whole \o rest) \o t = whole \o (rest \o t)
  <2>1. whole \in Seq(Int) /\ rest \in Seq(Int) /\ t \in Seq(Int)
    BY <1>4 DEF Texts
  <2>2. (whole \o rest) \o t = whole \o (rest \o t)
    BY <2>1, TextsAssociate
  <2>3. whole \o rest \in Texts
    BY <2>1, ConcatProperties DEF Texts
  <2> QED BY <2>2, <2>3
<1>6. <<NewLine>> \in Texts /\ Append(t, NewLine) = t \o <<NewLine>>
      /\ Append(line, NewLine) = line \o <<NewLine>>
  BY <1>2, AppendIsConcat DEF Texts, NewLine
<1>7. whole \o (line \o <<NewLine>>) = (whole \o rest) \o (t \o <<NewLine>>)
  <2>1. line \o <<NewLine>> = rest \o (t \o <<NewLine>>)
    BY <1>6, ConcatAssociative DEF Texts
  <2>2. t \o <<NewLine>> \in Texts
    BY <1>6, ConcatProperties DEF Texts
  <2>3. whole \o (rest \o (t \o <<NewLine>>)) = (whole \o rest) \o (t \o <<NewLine>>)
    <3>1. whole \in Seq(Int) /\ rest \in Seq(Int) /\ t \o <<NewLine>> \in Seq(Int)
      BY <1>4, <2>2 DEF Texts
    <3> QED BY <3>1, TextsAssociate
  <2> QED BY <2>1, <2>3
<1>8. (whole \o Append(line, NewLine)) \o <<>> = whole \o Append(line, NewLine)
  <2>1. whole \o Append(line, NewLine) \in Seq(Int)
    BY <1>3, <1>4, ConcatProperties DEF Texts
  <2> QED BY <2>1, ConcatEmptySeq
<1>9. Joined(lines, rest) = whole \o rest
  BY <1>1 DEF whole
<1>10. Joined(lines, line) = whole \o line
  BY <1>1 DEF whole
<1>11. Joined(Append(lines, line), <<>>) = whole \o Append(line, NewLine)
  BY <1>1, <1>4, <1>8
<1>12. Joined(lines, rest \o t) = Joined(lines, rest) \o t
  BY <1>5, <1>9, <1>10
<1>13. Joined(Append(lines, line), <<>>) = Joined(lines, rest) \o Append(t, NewLine)
  BY <1>6, <1>7, <1>9, <1>11
<1> QED BY <1>5, <1>9, <1>12, <1>13

LEMMA NothingJoined == Joined(<<>>, <<>>) = <<>>
<1>1. [i \in DOMAIN <<>> |-> Append(<<>>[i], NewLine)] = <<>>
  BY EmptySeq
<1>2. Joined(<<>>, <<>>) = Flat(<<>>) \o <<>>
  BY <1>1 DEF Joined, Flat
<1>3. <<>> \o <<>> = <<>>
  BY ConcatEmptySeq, EmptySeq
<1> QED BY <1>2, <1>3, FlatEmpty

------------------------------------------------------------------------------
(* RemoveAt *)

LEMMA RemoveOne ==
  ASSUME NEW s \in Seq(Texts), NEW k \in 1 .. Len(s)
  PROVE  /\ RemoveAt(s, k) \in Seq(Texts)
         /\ Len(RemoveAt(s, k)) = Len(s) - 1
         /\ \A i \in 1 .. Len(s) - 1 : RemoveAt(s, k)[i] = IF i < k THEN s[i] ELSE s[i + 1]
<1> DEFINE a == SubSeq(s, 1, k - 1)
           b == SubSeq(s, k + 1, Len(s))
<1>1. Len(s) \in Nat /\ \A i \in 1 .. Len(s) : s[i] \in Texts
  BY LenProperties, ElementOfSeq
<1>2. /\ a \in Seq(Texts) /\ Len(a) = k - 1
      /\ \A i \in 1 .. k - 1 : a[i] = s[i]
  <2>1. \A i \in 1 .. k - 1 : s[i] \in Texts
    BY <1>1
  <2>2. /\ a \in Seq(Texts)
        /\ Len(a) = IF 1 <= k - 1 THEN (k - 1) - 1 + 1 ELSE 0
        /\ \A i \in 1 .. (k - 1) - 1 + 1 : a[i] = s[1 + i - 1]
    BY <2>1, SubSeqProperties
  <2> HIDE DEF a
  <2> QED BY <1>1, <2>2
<1>3. /\ b \in Seq(Texts) /\ Len(b) = Len(s) - k
      /\ \A i \in 1 .. Len(s) - k : b[i] = s[k + i]
  <2>1. \A i \in k + 1 .. Len(s) : s[i] \in Texts
    BY <1>1
  <2>2. /\ b \in Seq(Texts)
        /\ Len(b) = IF k + 1 <= Len(s) THEN Len(s) - (k + 1) + 1 ELSE 0
        /\ \A i \in 1 .. Len(s) - (k + 1) + 1 : b[i] = s[k + 1 + i - 1]
    BY <1>1, <2>1, SubSeqProperties
  <2> HIDE DEF b
  <2> QED BY <1>1, <2>2
<1> HIDE DEF a, b
<1>4. /\ a \o b \in Seq(Texts) /\ Len(a \o b) = Len(a) + Len(b)
      /\ \A i \in 1 .. Len(a) + Len(b) :
           (a \o b)[i] = IF i <= Len(a) THEN a[i] ELSE b[i - Len(a)]
  BY <1>2, <1>3, ConcatProperties
<1> DEFINE r == RemoveAt(s, k)
<1>5. r = a \o b
  BY DEF RemoveAt, a, b
<1> HIDE DEF r
<1>6. Len(a) + Len(b) = Len(s) - 1
  BY <1>1, <1>2, <1>3
<1>7. ASSUME NEW i \in 1 .. Len(s) - 1 PROVE r[i] = IF i < k THEN s[i] ELSE s[i + 1]
  <2>1. r[i] = IF i <= k - 1 THEN a[i] ELSE b[i - (k - 1)]
    BY <1>2, <1>4, <1>5, <1>6
  <2>2. CASE i < k
    <3>1. i \in 1 .. k - 1
      BY <1>1, <2>2
    <3> QED BY <1>2, <2>1, <2>2, <3>1
  <2>3. CASE ~(i < k)
    <3>1. i - (k - 1) \in 1 .. Len(s) - k /\ k + (i - (k - 1)) = i + 1
      BY <1>1, <2>3
    <3>2. b[i - (k - 1)] = s[i + 1]
      BY <1>3, <3>1
    <3> QED BY <1>1, <2>1, <2>3, <3>2
  <2> QED BY <2>2, <2>3
<1> QED BY <1>4, <1>5, <1>6, <1>7 DEF r

LEMMA RemoveLast ==
  ASSUME NEW s \in Seq(Texts), NEW e \in Texts
  PROVE  RemoveAt(Append(s, e), Len(s) + 1) = s
<1> DEFINE t == Append(s, e)
           r == RemoveAt(t, Len(s) + 1)
<1>1. /\ t \in Seq(Texts) /\ Len(t) = Len(s) + 1 /\ Len(s) \in Nat
      /\ \A i \in 1 .. Len(s) : t[i] = s[i]
  BY AppendProperties, LenProperties
<1> HIDE DEF t
<1>2. /\ r \in Seq(Texts) /\ Len(r) = Len(t) - 1
      /\ \A i \in 1 .. Len(t) - 1 : r[i] = IF i < Len(s) + 1 THEN t[i] ELSE t[i + 1]
  <2>1. Len(s) + 1 \in 1 .. Len(t)
    BY <1>1
  <2> QED BY <1>1, <2>1, RemoveOne
<1> HIDE DEF r
<1>3. Len(r) = Len(s) /\ \A i \in 1 .. Len(r) : r[i] = s[i]
  BY <1>1, <1>2
<1>4. r = s
  BY <1>2, <1>3, SeqEqual
<1> QED BY <1>4 DEF r, t

LEMMA RemoveBefore ==
  ASSUME NEW s \in Seq(Texts), NEW e \in Texts, NEW k \in 1 .. Len(s)
  PROVE  RemoveAt(Append(s, e), k) = Append(RemoveAt(s, k), e)
<1> DEFINE t == Append(s, e)
           r == RemoveAt(t, k)
           u == RemoveAt(s, k)
           v == Append(u, e)
<1>1. /\ t \in Seq(Texts) /\ Len(t) = Len(s) + 1 /\ Len(s) \in Nat
      /\ \A i \in 1 .. Len(s) : t[i] = s[i]
      /\ t[Len(s) + 1] = e
  BY AppendProperties, LenProperties
<1> HIDE DEF t
<1>2. /\ r \in Seq(Texts) /\ Len(r) = Len(t) - 1
      /\ \A i \in 1 .. Len(t) - 1 : r[i] = IF i < k THEN t[i] ELSE t[i + 1]
  <2>1. k \in 1 .. Len(t)
    BY <1>1
  <2> QED BY <1>1, <2>1, RemoveOne
<1>3. /\ u \in Seq(Texts) /\ Len(u) = Len(s) - 1
      /\ \A i \in 1 .. Len(s) - 1 : u[i] = IF i < k THEN s[i] ELSE s[i + 1]
  BY RemoveOne
<1> HIDE DEF r, u
<1>4. /\ v \in Seq(Texts) /\ Len(v) = Len(u) + 1
      /\ \A i \in 1 .. Len(u) : v[i] = u[i]
      /\ v[Len(u) + 1] = e
  BY <1>3, AppendProperties
<1> HIDE DEF v
<1>5. Len(r) = Len(s) /\ Len(v) = Len(s)
  BY <1>1, <1>2, <1>3, <1>4
<1>6. \A i \in 1 .. Len(r) : r[i] = v[i]
  <2> SUFFICES ASSUME NEW i \in 1 .. Len(s) PROVE r[i] = v[i]
    BY <1>5
  <2>1. r[i] = IF i < k THEN t[i] ELSE t[i + 1]
    BY <1>1, <1>2
  <2>2. CASE i = Len(s)
    <3>1. ~(i < k)
      BY <1>1, <2>2
    <3>2. v[i] = e
      BY <1>1, <1>3, <1>4, <2>2
    <3> QED BY <1>1, <2>1, <2>2, <3>1, <3>2
  <2>3. CASE i # Len(s)
    <3>1. i \in 1 .. Len(s) - 1 /\ i + 1 \in 1 .. Len(s)
      BY <1>1, <2>3
    <3>2. v[i] = IF i < k THEN s[i] ELSE s[i + 1]
      BY <1>3, <1>4, <3>1
    <3> QED BY <1>1, <2>1, <3>1, <3>2
  <2> QED BY <2>2, <2>3
<1>7. r = v
  BY <1>2, <1>4, <1>5, <1>6, SeqEqual
<1> QED BY <1>7 DEF r, v, t, u

------------------------------------------------------------------------------
(* ReadsWhatIsWritten *)

\* One line of the file was not added, or two.
One(a, s) == \E i \in DOMAIN s : a = RemoveAt(s, i)
Two(a, s) == \E i \in DOMAIN s : \E j \in 1 .. Len(s) - 1 : a = RemoveAt(RemoveAt(s, i), j)

LEMMA MissingMore ==
  ASSUME NEW s \in Seq(Texts), NEW e \in Texts, NEW a
  PROVE  /\ One(s, Append(s, e))
         /\ One(a, s) => One(Append(a, e), Append(s, e)) /\ Two(a, Append(s, e))
         /\ Two(a, s) => Two(Append(a, e), Append(s, e))
<1> DEFINE t == Append(s, e)
<1>1. /\ t \in Seq(Texts) /\ Len(t) = Len(s) + 1 /\ Len(s) \in Nat
      /\ DOMAIN t = 1 .. Len(s) + 1 /\ DOMAIN s = 1 .. Len(s)
  <2>1. t \in Seq(Texts) /\ Len(t) = Len(s) + 1
    BY AppendProperties
  <2> HIDE DEF t
  <2> QED BY <2>1, LenProperties
<1>2. RemoveAt(t, Len(s) + 1) = s
  BY RemoveLast
<1>3. ASSUME NEW i \in DOMAIN s
      PROVE  /\ RemoveAt(t, i) = Append(RemoveAt(s, i), e) /\ i \in DOMAIN t
             /\ RemoveAt(s, i) \in Seq(Texts) /\ Len(RemoveAt(s, i)) = Len(s) - 1
  <2>1. i \in 1 .. Len(s)
    BY <1>1
  <2>2. RemoveAt(t, i) = Append(RemoveAt(s, i), e)
    BY <2>1, RemoveBefore
  <2>3. RemoveAt(s, i) \in Seq(Texts) /\ Len(RemoveAt(s, i)) = Len(s) - 1
    BY <2>1, RemoveOne
  <2>4. i \in DOMAIN t
    BY <1>1, <2>1
  <2> QED BY <2>2, <2>3, <2>4
<1> HIDE DEF t
<1>4. One(s, t)
  <2>1. Len(s) + 1 \in DOMAIN t
    BY <1>1
  <2> QED BY <1>2, <2>1 DEF One
<1>5. ASSUME NEW i \in DOMAIN s, a = RemoveAt(s, i)
      PROVE  One(Append(a, e), t) /\ Two(a, t)
  <2>1. Append(a, e) = RemoveAt(t, i) /\ i \in DOMAIN t
    BY <1>3, <1>5
  <2>2. RemoveAt(Append(a, e), Len(a) + 1) = a
    <3>1. a \in Seq(Texts)
      BY <1>3, <1>5
    <3> QED BY <3>1, RemoveLast
  <2>3. Len(a) + 1 \in 1 .. Len(t) - 1
    <3>1. Len(a) = Len(s) - 1 /\ i \in 1 .. Len(s)
      BY <1>1, <1>3, <1>5
    <3> QED BY <1>1, <3>1
  <2>4. a = RemoveAt(RemoveAt(t, i), Len(a) + 1)
    BY <2>1, <2>2
  <2> QED BY <2>1, <2>3, <2>4 DEF One, Two
<1>6. ASSUME NEW i \in DOMAIN s, NEW j \in 1 .. Len(s) - 1, a = RemoveAt(RemoveAt(s, i), j)
      PROVE  Two(Append(a, e), t)
  <2> DEFINE r == RemoveAt(s, i)
  <2>1. r \in Seq(Texts) /\ j \in 1 .. Len(r) /\ RemoveAt(t, i) = Append(r, e)
        /\ i \in DOMAIN t /\ j \in 1 .. Len(t) - 1
    <3>1. r \in Seq(Texts) /\ Len(r) = Len(s) - 1 /\ RemoveAt(t, i) = Append(r, e)
          /\ i \in DOMAIN t
      BY <1>3
    <3> HIDE DEF r
    <3>2. j \in 1 .. Len(r)
      BY <1>1, <3>1
    <3>3. j \in 1 .. Len(t) - 1
      BY <1>1
    <3> QED BY <3>1, <3>2, <3>3
  <2> HIDE DEF r
  <2>2. RemoveAt(Append(r, e), j) = Append(RemoveAt(r, j), e)
    BY <2>1, RemoveBefore
  <2>3. Append(a, e) = RemoveAt(RemoveAt(t, i), j)
    BY <1>6, <2>1, <2>2 DEF r
  <2> QED BY <2>1, <2>3 DEF Two
<1>7. One(a, s) => One(Append(a, e), t) /\ Two(a, t)
  BY <1>5 DEF One
<1>8. Two(a, s) => Two(Append(a, e), t)
  BY <1>6 DEF Two
<1> QED BY <1>4, <1>7, <1>8 DEF t

\* What was added is what was seen; but for the header, which is skipped only
\* where AnyFileReader's AddLine counts to one.  It counts from 0 once, or twice
\* if the constructor sets m_linenumber after lines have been counted.
HeaderInv ==
  \/ added = seen
  \/ /\ m_fileType = "log"
     /\ \/ constructed # "FileReader" /\ m_linenumber # 0 /\ One(added, seen)
        \/ constructed = "done" /\ One(added, seen)
        \/ constructed = "done" /\ m_linenumber # 0 /\ Two(added, seen)

FileInv ==
  /\ written \in Nat /\ input \in Texts /\ pos \in Nat /\ base \in Nat
  /\ m_line \in Texts /\ seen \in Seq(Texts) /\ added \in Seq(Texts)
  /\ m_linenumber \in Nat
  /\ ~unseen => /\ base <= pos /\ pos <= Len(input)
                /\ Joined(seen, m_line) = SubSeq(input, base + 1, pos)
  /\ HeaderInv

LEMMA AddLineKeeps ==
  ASSUME NEW line \in Texts, FileInv, AddLine(line), seen' = Append(seen, line),
         UNCHANGED <<m_fileType, constructed>>
  PROVE  /\ seen' \in Seq(Texts) /\ added' \in Seq(Texts)
         /\ m_linenumber' \in Nat /\ HeaderInv'
<1>1. seen \in Seq(Texts) /\ added \in Seq(Texts) /\ m_linenumber \in Nat
  BY DEF FileInv
<1>2. Append(seen, line) \in Seq(Texts) /\ Append(added, line) \in Seq(Texts)
  BY <1>1, AppendProperties
<1>3. /\ One(seen, seen')
      /\ One(added, seen) => One(Append(added, line), seen') /\ Two(added, seen')
      /\ Two(added, seen) => Two(Append(added, line), seen')
  BY <1>1, MissingMore
<1>4. /\ seen' \in Seq(Texts) /\ added' \in Seq(Texts) /\ m_linenumber' \in Nat
  <2>1. \/ added' = Append(added, line) /\ m_linenumber' = m_linenumber
        \/ added' \in {added, Append(added, line)} /\ m_linenumber' = m_linenumber + 1
    BY DEF AddLine
  <2>2. added' \in Seq(Texts)
    BY <1>1, <1>2, <2>1
  <2>3. m_linenumber' \in Nat
    BY <1>1, <2>1
  <2>4. seen' \in Seq(Texts)
    BY <1>2
  <2> QED BY <2>2, <2>3, <2>4
<1>5. CASE constructed = "FileReader"
  <2>1. added' = Append(added, line) /\ added = seen
    BY <1>5 DEF AddLine, FileInv, HeaderInv
  <2> QED BY <1>4, <2>1 DEF HeaderInv
<1>6. CASE constructed # "FileReader" /\ m_fileType = "log" /\ m_linenumber' = 1
  <2>1. added' = added /\ m_linenumber = 0
    BY <1>1, <1>6 DEF AddLine
  <2>2. added = seen \/ (constructed = "done" /\ One(added, seen))
    BY <2>1 DEF FileInv, HeaderInv
  <2>3. One(added', seen') \/ (constructed = "done" /\ Two(added', seen'))
    BY <1>3, <2>1, <2>2
  <2> QED BY <1>4, <1>6, <2>3 DEF HeaderInv
<1>7. CASE constructed # "FileReader" /\ ~(m_fileType = "log" /\ m_linenumber' = 1)
  <2>1. added' = Append(added, line) /\ m_linenumber' # 0
    BY <1>1, <1>7 DEF AddLine
  <2> QED BY <1>3, <1>4, <1>7, <2>1 DEF FileInv, HeaderInv
<1> QED BY <1>4, <1>5, <1>6, <1>7

\* What is unread, for any pos.
LEMMA UnreadProperties ==
  ASSUME input \in Texts, pos \in Nat
  PROVE  /\ Unread \in Texts
         /\ \A n \in 0 .. Len(Unread) : SubSeq(Unread, 1, n) \in Texts
         /\ \A n \in 0 .. Len(Unread), m \in 1 .. pos + 1 : pos <= Len(input) =>
              /\ pos + n \in 0 .. Len(input)
              /\ SubSeq(input, m, pos + n) = SubSeq(input, m, pos) \o SubSeq(Unread, 1, n)
<1>1. Len(input) \in Nat /\ \A i \in 1 .. Len(input) : input[i] \in Int
  BY LenProperties, ElementOfSeq DEF Texts
<1>2. Unread \in Seq(Int)
  <2>1. \A i \in pos + 1 .. Len(input) : input[i] \in Int
    BY <1>1
  <2> QED BY <1>1, <2>1, SubSeqProperties DEF Unread
<1>3. ASSUME NEW n \in 0 .. Len(Unread) PROVE SubSeq(Unread, 1, n) \in Texts
  <2>1. \A i \in 1 .. Len(Unread) : Unread[i] \in Int
    BY <1>2, ElementOfSeq
  <2>2. \A i \in 1 .. n : Unread[i] \in Int
    BY <1>2, <2>1, LenProperties
  <2> QED BY <2>2, SubSeqProperties DEF Texts
<1>4. ASSUME NEW n \in 0 .. Len(Unread), NEW m \in 1 .. pos + 1, pos <= Len(input)
      PROVE  /\ pos + n \in 0 .. Len(input)
             /\ SubSeq(input, m, pos + n) = SubSeq(input, m, pos) \o SubSeq(Unread, 1, n)
  <2>1. n \in 0 .. Len(SubSeq(input, pos + 1, Len(input))) /\ pos \in 0 .. Len(input)
    BY <1>1, <1>4 DEF Unread
  <2>2. /\ pos + n \in 0 .. Len(input)
        /\ SubSeq(input, m, pos + n)
             = SubSeq(input, m, pos) \o SubSeq(SubSeq(input, pos + 1, Len(input)), 1, n)
    BY <1>4, <2>1, ReadMore, Zenon
  <2> QED BY <2>2 DEF Unread
<1> QED BY <1>2, <1>3, <1>4 DEF Texts

LEMMA GetLineKeeps ==
  ASSUME FileInv, GetLine
  PROVE  FileInv'
<1>1. PICK k \in DOMAIN Unread :
        /\ Unread[k] = NewLine
        /\ AddLine(m_line \o SubSeq(Unread, 1, k - 1))
        /\ seen' = Append(seen, m_line \o SubSeq(Unread, 1, k - 1))
        /\ pos' = pos + k
  BY DEF GetLine
<1>2. /\ m_line' = <<>>
      /\ UNCHANGED <<written, input, base, unseen, m_fileType, constructed>>
  BY DEF GetLine
<1>3. /\ input \in Texts /\ pos \in Nat /\ m_line \in Texts /\ base \in Nat
      /\ seen \in Seq(Texts) /\ written \in Nat
  BY DEF FileInv
<1>4. Unread \in Texts /\ Len(Unread) \in Nat /\ k \in 1 .. Len(Unread)
  BY <1>3, UnreadProperties, LenProperties DEF Texts
<1>5. k - 1 \in 0 .. Len(Unread) /\ k \in 0 .. Len(Unread) /\ pos + k \in Nat
  BY <1>3, <1>4
<1> DEFINE t == SubSeq(Unread, 1, k - 1)
           line == m_line \o t
<1>6. t \in Texts
  BY <1>3, <1>5, UnreadProperties
<1> HIDE DEF t
<1>7. SubSeq(Unread, 1, k) = Append(t, NewLine)
  <2>1. Unread \in Seq(Int) /\ 1 \in 1 .. Len(Unread) /\ k \in 1 .. Len(Unread)
    BY <1>4 DEF Texts
  <2>2. SubSeq(Unread, 1, k) = SubSeq(Unread, 1, k - 1) \o <<Unread[k]>>
    BY <2>1, SubSeqRecursiveSecond, Zenon
  <2>3. Append(t, NewLine) = t \o <<NewLine>>
    <3>1. t \in Seq(Int) /\ NewLine \in Int
      BY <1>6 DEF Texts, NewLine
    <3> QED BY <3>1, AppendIsConcat
  <2> QED BY <1>1, <2>2, <2>3 DEF t
<1>8. line \in Texts
  BY <1>3, <1>6, ConcatProperties DEF Texts
<1>9. AddLine(line) /\ seen' = Append(seen, line)
  BY <1>1 DEF t
<1>10. /\ seen' \in Seq(Texts) /\ added' \in Seq(Texts)
       /\ m_linenumber' \in Nat /\ HeaderInv'
  <2> HIDE DEF line
  <2> QED BY <1>2, <1>8, <1>9, AddLineKeeps
<1>11. ASSUME ~unseen
       PROVE  /\ base <= pos + k /\ pos + k <= Len(input)
              /\ Joined(seen', <<>>) = SubSeq(input, base + 1, pos + k)
  <2>1. base <= pos /\ pos <= Len(input) /\ Joined(seen, m_line) = SubSeq(input, base + 1, pos)
    BY <1>11 DEF FileInv
  <2>2. base + 1 \in 1 .. pos + 1
    BY <1>3, <2>1
  <2>3. /\ pos + k \in 0 .. Len(input)
        /\ SubSeq(input, base + 1, pos + k)
             = SubSeq(input, base + 1, pos) \o SubSeq(Unread, 1, k)
    BY <1>3, <1>5, <2>1, <2>2, UnreadProperties, Zenon
  <2>4. Joined(Append(seen, line), <<>>) = Joined(seen, m_line) \o Append(t, NewLine)
    BY <1>3, <1>6, JoinedMore
  <2>5. Joined(seen', <<>>) = SubSeq(input, base + 1, pos + k)
    BY <1>7, <1>9, <2>1, <2>3, <2>4
  <2>6. base <= pos + k
    BY <1>3, <1>4, <2>1
  <2>7. pos + k <= Len(input)
    BY <2>3
  <2> QED BY <2>5, <2>6, <2>7
<1>12. <<>> \in Texts
  BY EmptySeq DEF Texts
<1>13. ~unseen' => /\ base' <= pos' /\ pos' <= Len(input')
                   /\ Joined(seen', m_line') = SubSeq(input', base' + 1, pos')
  BY <1>1, <1>2, <1>11
<1> QED BY <1>1, <1>2, <1>3, <1>5, <1>10, <1>12, <1>13 DEF FileInv

LEMMA GetRestKeeps ==
  ASSUME FileInv, GetRest
  PROVE  FileInv'
<1>1. /\ m_line' = m_line \o Unread /\ pos' = pos + Len(Unread)
      /\ UNCHANGED <<written, input, added, seen, base, unseen, m_fileType, constructed,
                     m_linenumber>>
  BY DEF GetRest
<1>2. /\ input \in Texts /\ pos \in Nat /\ m_line \in Texts /\ base \in Nat
      /\ seen \in Seq(Texts) /\ written \in Nat
  BY DEF FileInv
<1>3. Unread \in Texts /\ Len(Unread) \in Nat /\ SubSeq(Unread, 1, Len(Unread)) = Unread
  <2>1. Unread \in Texts
    BY <1>2, UnreadProperties
  <2> QED BY <2>1, SubSeqFull, LenProperties DEF Texts
<1>4. m_line' \in Texts /\ pos' \in Nat
  BY <1>1, <1>2, <1>3, ConcatProperties DEF Texts
<1>5. ASSUME ~unseen
      PROVE  /\ base <= pos' /\ pos' <= Len(input)
             /\ Joined(seen, m_line \o Unread) = SubSeq(input, base + 1, pos')
  <2>1. base <= pos /\ pos <= Len(input) /\ Joined(seen, m_line) = SubSeq(input, base + 1, pos)
    BY <1>5 DEF FileInv
  <2>2. base + 1 \in 1 .. pos + 1 /\ Len(Unread) \in 0 .. Len(Unread)
    BY <1>2, <1>3, <2>1
  <2>3. /\ pos + Len(Unread) \in 0 .. Len(input)
        /\ SubSeq(input, base + 1, pos + Len(Unread))
             = SubSeq(input, base + 1, pos) \o SubSeq(Unread, 1, Len(Unread))
    BY <1>2, <2>1, <2>2, UnreadProperties, Zenon
  <2>4. Joined(seen, m_line \o Unread) = Joined(seen, m_line) \o Unread
    BY <1>2, <1>3, JoinedMore
  <2>5. base <= pos'
    BY <1>1, <1>2, <1>3, <2>1
  <2>6. Joined(seen, m_line \o Unread) = SubSeq(input, base + 1, pos')
    BY <1>1, <1>3, <2>1, <2>3, <2>4
  <2>7. pos' <= Len(input)
    BY <1>1, <2>3
  <2> QED BY <2>5, <2>6, <2>7
<1>6. ~unseen' => /\ base' <= pos' /\ pos' <= Len(input')
                  /\ Joined(seen', m_line') = SubSeq(input', base' + 1, pos')
  BY <1>1, <1>5
<1>7. HeaderInv'
  BY <1>1 DEF FileInv, HeaderInv
<1> QED BY <1>1, <1>2, <1>4, <1>6, <1>7 DEF FileInv

LEMMA WriteFileKeeps ==
  ASSUME FileInv, WriteFile
  PROVE  FileInv'
<1>1. /\ WriteOne
      /\ UNCHANGED <<pos, added, m_line, seen, base, unseen, m_fileType, constructed,
                     m_linenumber>>
  BY DEF WriteFile, fileVars
<1>2. /\ written \in Nat /\ input \in Texts /\ pos \in Nat /\ base \in Nat
  BY DEF FileInv
<1>3. /\ written' \in Nat /\ input' \in Texts /\ Len(input') = Len(input) + 1
      /\ \A i \in 1 .. Len(input) : input'[i] = input[i]
  BY <1>1, <1>2, WriteOneKeeps
<1>4. Len(input) \in Nat
  BY <1>2, LenProperties DEF Texts
<1>5. ASSUME ~unseen
      PROVE  /\ base <= pos /\ pos <= Len(input')
             /\ Joined(seen, m_line) = SubSeq(input', base + 1, pos)
  <2>1. base <= pos /\ pos <= Len(input) /\ Joined(seen, m_line) = SubSeq(input, base + 1, pos)
    BY <1>5 DEF FileInv
  <2>2. \A i \in 1 .. pos : input'[i] = input[i]
    BY <1>2, <1>3, <1>4, <2>1
  <2>3. ASSUME NEW t, \A i \in 1 .. pos : t[i] = input[i]
        PROVE  SubSeq(t, base + 1, pos) = SubSeq(input, base + 1, pos)
    <3>1. base + 1 \in Nat \ {0}
      BY <1>2
    <3> QED BY <1>2, <2>1, <2>3, <3>1, SubSeqStays
  <2>4. SubSeq(input', base + 1, pos) = SubSeq(input, base + 1, pos)
    BY <2>2, <2>3
  <2>5. pos <= Len(input')
    BY <1>2, <1>3, <1>4, <2>1
  <2> QED BY <2>1, <2>4, <2>5
<1>6. HeaderInv'
  BY <1>1 DEF FileInv, HeaderInv
<1>7. ~unseen' => /\ base' <= pos' /\ pos' <= Len(input')
                  /\ Joined(seen', m_line') = SubSeq(input', base' + 1, pos')
  BY <1>1, <1>5
<1> QED BY <1>1, <1>3, <1>6, <1>7 DEF FileInv

LEMMA TruncateKeeps ==
  ASSUME FileInv, Truncate
  PROVE  FileInv'
<1>1. /\ UNCHANGED <<written, pos, added, m_line, seen, base, m_fileType, constructed,
                     m_linenumber>>
      /\ \E n \in 0 .. Len(input) - 1 :
           input' = SubSeq(input, 1, n) /\ unseen' = (unseen \/ n < pos)
  BY DEF Truncate
<1>2. PICK n \in 0 .. Len(input) - 1 :
        input' = SubSeq(input, 1, n) /\ unseen' = (unseen \/ n < pos)
  BY <1>1
<1>3. /\ input \in Texts /\ pos \in Nat /\ base \in Nat
  BY DEF FileInv
<1>4. Len(input) \in Nat /\ \A i \in 1 .. Len(input) : input[i] \in Int
  BY <1>3, LenProperties, ElementOfSeq DEF Texts
<1>5. n \in Nat /\ n <= Len(input)
  BY <1>4
<1>6. /\ input' \in Seq(Int) /\ Len(input') = n
      /\ \A i \in 1 .. n : input'[i] = input[i]
  <2>1. \A i \in 1 .. n : input[i] \in Int
    BY <1>4, <1>5
  <2>2. /\ SubSeq(input, 1, n) \in Seq(Int)
        /\ Len(SubSeq(input, 1, n)) = IF 1 <= n THEN n - 1 + 1 ELSE 0
        /\ \A i \in 1 .. n - 1 + 1 : SubSeq(input, 1, n)[i] = input[1 + i - 1]
    BY <1>5, <2>1, SubSeqProperties
  <2> QED BY <1>2, <1>5, <2>2
<1>7. ASSUME ~unseen'
      PROVE  /\ base <= pos /\ pos <= Len(input')
             /\ Joined(seen, m_line) = SubSeq(input', base + 1, pos)
  <2>1. ~unseen /\ ~(n < pos)
    BY <1>2, <1>7
  <2>2. base <= pos /\ pos <= Len(input) /\ Joined(seen, m_line) = SubSeq(input, base + 1, pos)
    BY <2>1 DEF FileInv
  <2>3. \A i \in 1 .. pos : input'[i] = input[i]
    BY <1>3, <1>5, <1>6, <2>1
  <2>4. ASSUME NEW t, \A i \in 1 .. pos : t[i] = input[i]
        PROVE  SubSeq(t, base + 1, pos) = SubSeq(input, base + 1, pos)
    <3>1. base + 1 \in Nat \ {0}
      BY <1>3
    <3> QED BY <1>3, <2>2, <2>4, <3>1, SubSeqStays
  <2>5. SubSeq(input', base + 1, pos) = SubSeq(input, base + 1, pos)
    BY <2>3, <2>4
  <2>6. pos <= Len(input')
    BY <1>3, <1>5, <1>6, <2>1
  <2> QED BY <2>2, <2>5, <2>6
<1>8. HeaderInv'
  BY <1>1 DEF FileInv, HeaderInv
<1>9. ~unseen' => /\ base' <= pos' /\ pos' <= Len(input')
                  /\ Joined(seen', m_line') = SubSeq(input', base' + 1, pos')
  BY <1>1, <1>7
<1> QED BY <1>1, <1>6, <1>8, <1>9 DEF FileInv, Texts

LEMMA ResyncKeeps ==
  ASSUME FileInv, Resync
  PROVE  FileInv'
<1>1. UNCHANGED <<written, input, m_fileType, constructed, m_linenumber>>
  BY DEF Resync
<1>2. CASE Len(input) >= pos
  <2>1. UNCHANGED <<pos, added, m_line, seen, base, unseen>>
    BY <1>2 DEF Resync
  <2> QED BY <1>1, <2>1 DEF FileInv, HeaderInv
<1>3. CASE ~(Len(input) >= pos)
  <2>1. /\ pos' = Len(input) /\ base' = Len(input) /\ m_line' = <<>> /\ added' = <<>>
        /\ seen' = <<>>
    BY <1>3 DEF Resync
  <2>2. Len(input) \in Nat /\ input \in Texts /\ written \in Nat /\ m_linenumber \in Nat
    BY LenProperties DEF FileInv, Texts
  <2>3. SubSeq(input, Len(input) + 1, Len(input)) = <<>>
    BY <2>2, SubSeqEmpty
  <2>4. Joined(<<>>, <<>>) = <<>>
    BY NothingJoined
  <2>5. <<>> \in Texts /\ <<>> \in Seq(Texts)
    BY EmptySeq DEF Texts
  <2>6. HeaderInv'
    BY <2>1 DEF HeaderInv
  <2>7. Joined(seen', m_line') = SubSeq(input', base' + 1, pos')
    BY <1>1, <2>1, <2>3, <2>4
  <2>8. base' <= pos' /\ pos' <= Len(input')
    BY <1>1, <2>1, <2>2
  <2> QED BY <1>1, <2>1, <2>2, <2>5, <2>6, <2>7, <2>8 DEF FileInv
<1> QED BY <1>2, <1>3

LEMMA ConstructKeeps ==
  ASSUME FileInv, Construct
  PROVE  FileInv'
<1>1. UNCHANGED <<written, input, pos, added, m_line, seen, base, unseen, m_fileType>>
  BY DEF Construct, common
<1>2. /\ m_linenumber' \in Nat
      /\ \/ /\ constructed = "FileReader" /\ constructed' = "AnyFileReader"
         \/ constructed = "AnyFileReader" /\ constructed' = "done"
  BY DEF Construct, FileInv
<1>3. HeaderInv'
  BY <1>1, <1>2 DEF FileInv, HeaderInv
<1> QED BY <1>1, <1>2, <1>3 DEF FileInv

LEMMA FileKeeps ==
  ASSUME FileInv, FileNext
  PROVE  FileInv'
<1>1. CASE AbortFile \/ FirstSize \/ ReadError \/ Notified \/ TimedOut
  <2>1. UNCHANGED <<written, input, pos, added, m_line, seen, base, unseen, m_fileType,
                    constructed, m_linenumber>>
    BY <1>1 DEF AbortFile, FirstSize, ReadError, Notified, TimedOut, fileVars
  <2> QED BY <2>1 DEF FileInv, HeaderInv
<1> QED
  BY <1>1, WriteFileKeeps, TruncateKeeps, ResyncKeeps, ConstructKeeps, GetLineKeeps,
     GetRestKeeps DEF FileNext, PollThread

(* A file of any length that is written, truncated any number of times and   *)
(* read meanwhile is read as it is written, and its lines are added but for  *)
(* the header (FileReader::ReadUntilEof, AnyFileReader::AddLine).            *)
THEOREM FileIsReadAsWritten == Spec => []ReadsWhatIsWritten
<1> DEFINE Inv == kind = "file" => FileInv
<1>1. Init => Inv
  <2> SUFFICES ASSUME Init, kind = "file" PROVE FileInv
    OBVIOUS
  <2>1. /\ written = 0 /\ pos = 0 /\ input = <<>> /\ added = <<>> /\ base = 0
        /\ m_line = <<>> /\ seen = <<>> /\ m_linenumber \in {0, AnyNumber}
    BY DEF Init, InputInit, FileInit
  <2>2. <<>> \in Texts /\ <<>> \in Seq(Texts) /\ Len(<<>>) = 0
    BY EmptySeq DEF Texts
  <2>3. SubSeq(<<>>, 0 + 1, 0) = <<>>
    BY SubSeqEmpty
  <2>4. Joined(<<>>, <<>>) = <<>>
    BY NothingJoined
  <2>5. m_linenumber \in Nat
    BY <2>1 DEF AnyNumber
  <2>6. Joined(seen, m_line) = SubSeq(input, base + 1, pos)
    BY <2>1, <2>3, <2>4
  <2>7. HeaderInv
    BY <2>1 DEF HeaderInv
  <2> QED BY <2>1, <2>2, <2>5, <2>6, <2>7 DEF FileInv
<1>2. Inv /\ [Next]_vars => Inv'
  <2> SUFFICES ASSUME Inv, [Next]_vars, kind' = "file" PROVE FileInv'
    OBVIOUS
  <2>1. CASE UNCHANGED vars
    BY <2>1 DEF vars, common, fileVars, FileInv, HeaderInv
  <2>2. CASE kind = "file" /\ FileNext
    BY <2>2, FileKeeps
  <2>3. CASE kind \in {"pipe", "socket", "dbgview"} /\ kind' = kind
    BY <2>3
  <2>4. PipeNext => kind' = kind
    BY DEF PipeNext, WritePipe, WriteOn, AbortPipe, Poll, BeginPoll, ReadPipe,
           ReadOn, EndPoll
  <2>5. SocketNext => kind' = kind
    BY DEF SocketNext, Send, Complete, Notify, Woken, CompleteReceive, BeginReceive
  <2>6. DbgviewNext => kind' = kind
    BY DEF DbgviewNext, Answer, SendPacket, Hangup, AbortDbgview, ReaderThread, Connect,
           Frequency, Connected, Continue, ReadPacket, ReadMessage, SignalAndGo, Round, HandOver, common
  <2> QED BY <2>1, <2>2, <2>3, <2>4, <2>5, <2>6 DEF Next
<1>3. Inv => ReadsWhatIsWritten
  <2> SUFFICES ASSUME FileInv PROVE SeenIsWritten /\ SeenIsAdded
    BY DEF ReadsWhatIsWritten
  <2>1. SeenIsWritten
    BY DEF FileInv, SeenIsWritten
  <2>2. SeenIsAdded
    BY DEF FileInv, HeaderInv, SeenIsAdded, One, Two
  <2> QED BY <2>1, <2>2
<1> QED BY <1>1, <1>2, <1>3, PTL DEF Spec
=============================================================================
