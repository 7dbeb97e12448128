---------------------------- MODULE LogFileProofs ----------------------------
(***************************************************************************)
(* The log behaves like a sequence of messages, whatever the size of a     *)
(* block, the number of messages and the texts.                            *)
(***************************************************************************)
EXTENDS LogFile, SequenceTheorems, FunctionTheorems, WellFoundedInduction, TLAPS

------------------------------------------------------------------------------
(* Naturals and recursion *)

LEMMA LeastNatural ==
  ASSUME NEW S, S \subseteq Nat, S # {}
  PROVE  \E n \in S : \A m \in S : n <= m
<1> DEFINE R == OpToRel(<, Nat)
<1>1. IsWellFoundedOn(R, Nat)
  BY NatLessThanWellFounded
<1> HIDE DEF R
<1>2. PICK n \in S : \A m \in S : ~ (<<m, n>> \in R)
  BY <1>1, WFMin
<1>3. ASSUME NEW m \in S PROVE n <= m
  <2>1. m < n => <<m, n>> \in R
    BY DEF R, OpToRel
  <2> QED BY <1>2, <2>1
<1> QED BY <1>3

\* Induction up to n, for a property that is a set.
LEMMA Steps ==
  ASSUME NEW n \in Nat, NEW S, 0 \in S, \A i \in 1 .. n : i - 1 \in S => i \in S
  PROVE  0 .. n \subseteq S
<1> DEFINE Bad == (0 .. n) \ S
<1> SUFFICES ASSUME Bad # {} PROVE FALSE
  OBVIOUS
<1>1. Bad \subseteq Nat
  OBVIOUS
<1>2. PICK k \in Bad : \A m \in Bad : k <= m
  <2> HIDE DEF Bad
  <2> QED BY <1>1, LeastNatural
<1>3. k \in 1 .. n /\ k - 1 \in 0 .. n /\ ~(k <= k - 1)
  BY <1>2
<1>4. k - 1 \in S
  BY <1>2, <1>3
<1> QED BY <1>2, <1>3, <1>4

\* f computes, step by step from a, what the functions G[1] to G[n] make of it.
IsRun(f, n, S, a, G) ==
  /\ f \in [0 .. n -> S] /\ f[0] = a
  /\ \A i \in 1 .. n : f[i] = G[i][f[i - 1]]

LEMMA Recursion ==
  ASSUME NEW S, NEW n \in Nat, NEW a \in S, NEW G \in [1 .. n -> [S -> S]]
  PROVE  \E f : IsRun(f, n, S, a, G)
<1> DEFINE Run(f, k) == /\ f \in [0 .. k -> S] /\ f[0] = a
                        /\ \A i \in 1 .. k : f[i] = G[i][f[i - 1]]
           Good == {k \in 0 .. n : \E f : Run(f, k)}
<1>1. Run([i \in 0 .. 0 |-> a], 0)
  OBVIOUS
<1>2. ASSUME NEW k \in 1 .. n, NEW g, Run(g, k - 1)
      PROVE  \E f : Run(f, k)
  <2> DEFINE f == [i \in 0 .. k |-> IF i = k THEN G[k][g[k - 1]] ELSE g[i]]
  <2>1. g[k - 1] \in S /\ G[k] \in [S -> S]
    BY <1>2
  <2>2. f \in [0 .. k -> S]
    BY <1>2, <2>1
  <2>3. f[0] = a
    BY <1>2
  <2>4. ASSUME NEW i \in 1 .. k PROVE f[i] = G[i][f[i - 1]]
    BY <1>2, <2>4
  <2> QED BY <2>2, <2>3, <2>4
<1> HIDE DEF Run
<1>3. 0 \in Good
  BY <1>1
<1>4. ASSUME NEW k \in 1 .. n, k - 1 \in Good PROVE k \in Good
  <2>1. PICK g : Run(g, k - 1)
    BY <1>4
  <2> QED BY <1>2, <2>1
<1> HIDE DEF Good
<1>5. 0 .. n \subseteq Good
  BY <1>3, <1>4, Steps
<1>6. n \in Good
  BY <1>5
<1>7. PICK f : Run(f, n)
  BY <1>6 DEF Good
<1> QED BY <1>7 DEF IsRun, Run

------------------------------------------------------------------------------
(* FlattenSeq *)

Strings == Seq(Texts)

\* The steps in which FlattenSeq puts its result together.
LEMMA FlattenSteps ==
  ASSUME NEW ss \in Seq(Strings), ss # <<>>
  PROVE  \E f \in [0 .. Len(ss) -> Strings] :
           /\ f[0] = <<>> /\ FlattenSeq(ss) = f[Len(ss)]
           /\ \A i \in 1 .. Len(ss) : f[i] = f[i - 1] \o ss[i]
<1> DEFINE n == Len(ss)
           flat(g) == [i \in 1 .. n |-> IF i = 1 THEN ss[i] ELSE g[i - 1] \o ss[i]]
           flatten == CHOOSE g : g = flat(g)
           G == [i \in 1 .. n |-> [s \in Strings |-> s \o ss[i]]]
<1>1. n \in Nat /\ n # 0 /\ \A i \in 1 .. n : ss[i] \in Strings
  BY LenProperties, EmptySeq, ElementOfSeq
<1>2. FlattenSeq(ss) = flatten[n]
  BY <1>1 DEF FlattenSeq
<1> HIDE DEF n, flat, flatten
<1>3. G \in [1 .. n -> [Strings -> Strings]] /\ <<>> \in Strings
  BY <1>1, ConcatProperties, EmptySeq DEF Strings
<1>4. \A i \in 1 .. n, s \in Strings : G[i][s] = s \o ss[i]
  OBVIOUS
<1> HIDE DEF G
<1>5. PICK f : IsRun(f, n, Strings, <<>>, G)
  BY <1>1, <1>3, Recursion
<1>6. f \in [0 .. n -> Strings] /\ f[0] = <<>> /\ \A i \in 1 .. n : f[i] = G[i][f[i - 1]]
  BY <1>5 DEF IsRun
<1>7. ASSUME NEW i \in 1 .. n PROVE f[i] = f[i - 1] \o ss[i]
  <2>1. i - 1 \in 0 .. n
    BY <1>1
  <2>2. f[i - 1] \in Strings
    BY <1>6, <2>1
  <2> QED BY <1>4, <1>6, <2>2
<1>8. f[1] = ss[1]
  <2>1. 1 \in 1 .. n /\ 1 - 1 = 0
    BY <1>1
  <2>2. f[1] = <<>> \o ss[1] /\ ss[1] \in Strings
    BY <1>1, <1>6, <1>7, <2>1
  <2> QED BY <2>2, ConcatEmptySeq DEF Strings
<1> DEFINE g == [i \in 1 .. n |-> f[i]]
<1>9. g = flat(g)
  <2>1. \A i \in 1 .. n : i # 1 => i - 1 \in 1 .. n
    BY <1>1
  <2> QED BY <1>7, <1>8, <2>1 DEF flat
<1>10. flatten = flat(flatten)
  <2> HIDE DEF g
  <2> QED BY <1>9 DEF flatten
<1>11. \A i \in 1 .. n : flatten[i] = IF i = 1 THEN ss[i] ELSE flatten[i - 1] \o ss[i]
  <2> DEFINE F == flatten
  <2>1. F = flat(F)
    BY <1>10
  <2> HIDE DEF F
  <2>2. \A i \in 1 .. n : F[i] = IF i = 1 THEN ss[i] ELSE F[i - 1] \o ss[i]
    BY <2>1 DEF flat
  <2> QED BY <2>2 DEF F
<1> DEFINE Same == {i \in 0 .. n : i = 0 \/ flatten[i] = f[i]}
<1>12. 0 .. n \subseteq Same
  <2>1. 0 \in Same
    BY <1>1
  <2>2. ASSUME NEW i \in 1 .. n, i - 1 \in Same PROVE i \in Same
    <3>1. i \in 0 .. n
      BY <1>1
    <3>2. CASE i = 1
      BY <1>8, <1>11, <3>1, <3>2
    <3>3. CASE i # 1
      <4>1. flatten[i - 1] = f[i - 1]
        BY <2>2, <3>3
      <4> QED BY <1>7, <1>11, <3>1, <3>3, <4>1
    <3> QED BY <3>2, <3>3
  <2> HIDE DEF Same
  <2> QED BY <1>1, <2>1, <2>2, Steps
<1>13. flatten[n] = f[n]
  <2>1. n \in 0 .. n
    BY <1>1
  <2> QED BY <1>1, <1>12, <2>1
<1> QED BY <1>2, <1>6, <1>7, <1>13 DEF n

LEMMA FlattenTypes ==
  ASSUME NEW ss \in Seq(Strings), ss # <<>>, \A k \in 1 .. Len(ss) : ss[k] # <<>>
  PROVE  /\ FlattenSeq(ss) \in Strings /\ Len(FlattenSeq(ss)) >= Len(ss)
         /\ \A i \in 1 .. Len(ss) :
              (\A j \in 1 .. i : Len(ss[j]) = 1) => FlattenSeq(ss)[i] = ss[i][1]
<1> DEFINE n == Len(ss)
<1>1. n \in Nat /\ n # 0 /\ \A k \in 1 .. n : ss[k] \in Strings
  BY LenProperties, EmptySeq, ElementOfSeq
<1>2. PICK f \in [0 .. n -> Strings] :
        /\ f[0] = <<>> /\ FlattenSeq(ss) = f[n]
        /\ \A k \in 1 .. n : f[k] = f[k - 1] \o ss[k]
  BY FlattenSteps
<1> HIDE DEF n
<1>3. ASSUME NEW k \in 1 .. n
      PROVE  /\ f[k] \in Strings /\ f[k - 1] \in Strings /\ ss[k] \in Strings
             /\ Len(f[k - 1]) \in Nat /\ Len(ss[k]) \in Nat /\ Len(ss[k]) > 0
             /\ Len(f[k]) = Len(f[k - 1]) + Len(ss[k])
             /\ \A m \in 1 .. Len(f[k - 1]) : f[k][m] = f[k - 1][m]
             /\ f[k][Len(f[k - 1]) + 1] = ss[k][1]
  <2>1. k \in 0 .. n /\ k - 1 \in 0 .. n
    BY <1>1
  <2>2. f[k] \in Strings /\ f[k - 1] \in Strings /\ ss[k] \in Strings /\ ss[k] # <<>>
    BY <1>1, <1>2, <2>1 DEF n
  <2>3. f[k] = f[k - 1] \o ss[k]
    BY <1>2
  <2> DEFINE a == f[k - 1]
             b == ss[k]
  <2>4. a \in Seq(Texts) /\ b \in Seq(Texts) /\ b # <<>>
    BY <2>2 DEF Strings
  <2> HIDE DEF a, b
  <2>5. /\ Len(a) \in Nat /\ Len(b) \in Nat /\ Len(b) # 0
        /\ Len(a \o b) = Len(a) + Len(b)
        /\ \A m \in 1 .. Len(a) + Len(b) :
             (a \o b)[m] = IF m <= Len(a) THEN a[m] ELSE b[m - Len(a)]
    BY <2>4, LenProperties, EmptySeq, ConcatProperties
  <2>6. \A m \in 1 .. Len(a) : (a \o b)[m] = a[m]
    BY <2>5
  <2>7. (a \o b)[Len(a) + 1] = b[1]
    BY <2>5
  <2>8. Len(b) > 0
    BY <2>5
  <2> QED BY <2>2, <2>3, <2>5, <2>6, <2>7, <2>8 DEF a, b
<1>4. Len(f[0]) = 0
  BY <1>2, EmptySeq
<1> DEFINE Longer == {k \in 0 .. n : Len(f[k]) >= k}
<1>5. 0 .. n \subseteq Longer
  <2>1. 0 \in Longer
    BY <1>1, <1>4
  <2>2. ASSUME NEW k \in 1 .. n, k - 1 \in Longer PROVE k \in Longer
    <3>1. Len(f[k - 1]) >= k - 1 /\ k \in 0 .. n
      BY <1>1, <2>2
    <3> DEFINE x == Len(f[k - 1])
               y == Len(ss[k])
    <3>2. x \in Nat /\ y \in Nat /\ y > 0 /\ Len(f[k]) = x + y /\ x >= k - 1
      BY <1>3, <3>1
    <3> HIDE DEF x, y
    <3>3. Len(f[k]) >= k
      BY <3>2
    <3> QED BY <3>1, <3>3
  <2> HIDE DEF Longer
  <2> QED BY <1>1, <2>1, <2>2, Steps
<1>6. ASSUME NEW i \in 1 .. n, \A j \in 1 .. i : Len(ss[j]) = 1
      PROVE  f[n][i] = ss[i][1]
  <2> DEFINE Good == {k \in 0 .. n : /\ k < i => Len(f[k]) = k
                                     /\ k >= i => Len(f[k]) >= i /\ f[k][i] = ss[i][1]}
  <2>1. 0 \in Good
    BY <1>1, <1>4
  <2>2. ASSUME NEW k \in 1 .. n, k - 1 \in Good PROVE k \in Good
    <3> DEFINE x == Len(f[k - 1])
               y == Len(ss[k])
    <3>1. /\ x \in Nat /\ y \in Nat /\ y > 0 /\ Len(f[k]) = x + y
          /\ \A m \in 1 .. x : f[k][m] = f[k - 1][m]
          /\ f[k][x + 1] = ss[k][1]
      BY <1>3
    <3>2. /\ k - 1 < i => x = k - 1
          /\ k - 1 >= i => x >= i /\ f[k - 1][i] = ss[i][1]
      BY <2>2
    <3>3. k <= i => y = 1
      BY <1>6
    <3>4. k \in 0 .. n
      BY <1>1
    <3> HIDE DEF x, y
    <3>5. CASE k < i
      BY <3>1, <3>2, <3>3, <3>4, <3>5
    <3>6. CASE k = i
      <4>1. x = k - 1 /\ y = 1
        BY <3>2, <3>3, <3>6
      <4>2. Len(f[k]) = i /\ x + 1 = i
        BY <3>1, <3>6, <4>1
      <4>3. f[k][i] = ss[i][1]
        BY <3>1, <3>6, <4>2
      <4> QED BY <3>4, <3>6, <4>2, <4>3
    <3>7. CASE k > i
      <4>1. x >= i /\ f[k - 1][i] = ss[i][1] /\ i \in 1 .. x
        BY <3>1, <3>2, <3>7
      <4>2. Len(f[k]) >= i /\ f[k][i] = ss[i][1]
        BY <3>1, <4>1
      <4> QED BY <3>4, <3>7, <4>2
    <3> QED BY <3>5, <3>6, <3>7
  <2>3. 0 .. n \subseteq Good
    <3> HIDE DEF Good
    <3> QED BY <1>1, <2>1, <2>2, Steps
  <2>4. n \in Good
    BY <1>1, <2>3
  <2> QED BY <1>1, <2>4
<1>7. n \in Longer /\ f[n] \in Strings
  BY <1>1, <1>2, <1>5
<1> QED BY <1>2, <1>6, <1>7 DEF n

LEMMA Division ==
  ASSUME NEW q \in Nat, NEW r \in 0 .. blockSize - 1
  PROVE  /\ q * blockSize + r \in Nat
         /\ GetBlockIndex(q * blockSize + r) = q
         /\ GetRelativeIndex(q * blockSize + r) = r
BY BlockAssumption DEF GetBlockIndex, GetRelativeIndex

LEMMA BlockAndIndex ==
  ASSUME NEW i \in Nat
  PROVE  /\ GetBlockIndex(i) \in Nat /\ GetRelativeIndex(i) \in 0 .. blockSize - 1
         /\ i = GetBlockIndex(i) * blockSize + GetRelativeIndex(i)
BY BlockAssumption DEF GetBlockIndex, GetRelativeIndex

------------------------------------------------------------------------------
(* Decompress *)

\* The strings that a text comes back as.
Pieces(t) == [w \in DOMAIN t |-> <<t[w]>>]

LEMMA TextsAndPieces ==
  ASSUME NEW t \in Texts
  PROVE  /\ Len(t) \in Nat /\ Len(t) # 0 /\ (~HasNul(t) <=> Len(t) = 1)
         /\ Pieces(t) \in Strings /\ Pieces(t) # <<>> /\ Len(Pieces(t)) = Len(t)
         /\ Len(t) = 1 => Pieces(t)[1] = t
<1>1. t \in Seq(Range(t)) /\ t # <<>> /\ \A w \in Range(t) : <<w>> \in Texts
  BY TextsAssumption
<1>2. /\ Len(t) \in Nat /\ Len(t) # 0 /\ DOMAIN t = 1 .. Len(t)
      /\ \A w \in 1 .. Len(t) : t[w] \in Range(t)
  BY <1>1, LenProperties, EmptySeq, ElementOfSeq
<1>3. ~HasNul(t) <=> Len(t) = 1
  BY <1>2 DEF HasNul
<1>4. Pieces(t) \in [1 .. Len(t) -> Texts]
  BY <1>1, <1>2 DEF Pieces
<1>5. Pieces(t) \in Strings /\ Len(Pieces(t)) = Len(t)
  <2>1. Pieces(t) \in Seq(Texts)
    BY <1>2, <1>4, SeqDef
  <2>2. DOMAIN Pieces(t) = 1 .. Len(Pieces(t)) /\ Len(Pieces(t)) \in Nat
    BY <2>1, LenProperties
  <2>3. DOMAIN Pieces(t) = 1 .. Len(t)
    BY <1>4
  <2>4. Len(Pieces(t)) = Len(t)
    <3> SUFFICES ASSUME NEW m \in Nat, NEW n \in Nat, 1 .. m = 1 .. n PROVE m = n
      BY <1>2, <2>2, <2>3
    <3> QED OBVIOUS
  <2> QED BY <2>1, <2>4 DEF Strings
<1>6. Pieces(t) # <<>>
  BY <1>2, <1>5, EmptySeq
<1>7. ASSUME Len(t) = 1 PROVE Pieces(t)[1] = t
  <2>1. Pieces(t)[1] = <<t[1]>>
    BY <1>2, <1>7 DEF Pieces
  <2>2. <<t[1]>> \in Seq(Range(t)) /\ Len(<<t[1]>>) = 1
    BY <1>2, <1>7
  <2>3. \A w \in 1 .. Len(t) : t[w] = <<t[1]>>[w]
    BY <1>7
  <2>4. t = <<t[1]>>
    BY <1>1, <1>7, <2>2, <2>3, SeqEqual
  <2> QED BY <2>1, <2>4
<1> QED BY <1>2, <1>3, <1>5, <1>6, <1>7

Blocks == [1 .. blockSize -> Texts]

LEMMA BlocksAreStrings ==
  ASSUME NEW block \in Blocks
  PROVE  block \in Seq(Texts) /\ Len(block) = blockSize /\ DOMAIN block = 1 .. blockSize
<1>1. blockSize \in Nat /\ block \in Seq(Texts) /\ DOMAIN block = 1 .. blockSize
  BY BlockAssumption, SeqDef DEF Blocks
<1>2. DOMAIN block = 1 .. Len(block) /\ Len(block) \in Nat
  BY <1>1, LenProperties
<1> QED BY <1>1, <1>2

\* What is read from a block: every string up to the first with a NUL.
LEMMA Decompressed ==
  ASSUME NEW block \in Blocks
  PROVE  /\ Decompress(block) \in Seq(Texts) /\ Len(Decompress(block)) >= blockSize
         /\ \A i \in 1 .. blockSize :
              (\A j \in 1 .. i : ~HasNul(block[j])) => Decompress(block)[i] = block[i]
<1>1. /\ blockSize \in Nat /\ blockSize # 0
      /\ block \in Seq(Texts) /\ Len(block) = blockSize /\ DOMAIN block = 1 .. blockSize
      /\ \A k \in 1 .. blockSize : block[k] \in Texts
  BY BlockAssumption, BlocksAreStrings DEF Blocks
<1>2. CASE ~ \E k \in DOMAIN block : HasNul(block[k])
  <2>1. Decompress(block) = block
    BY <1>2 DEF Decompress
  <2> QED BY <1>1, <2>1
<1>3. CASE \E k \in DOMAIN block : HasNul(block[k])
  <2> DEFINE ss == [k \in DOMAIN block |-> Pieces(block[k])]
  <2>1. Decompress(block) = FlattenSeq(ss)
    BY <1>3 DEF Decompress, Pieces
  <2>2. /\ \A k \in 1 .. blockSize : ss[k] = Pieces(block[k])
        /\ DOMAIN ss = 1 .. blockSize
    BY <1>1
  <2>3. ss \in [1 .. blockSize -> Strings]
    BY <1>1, TextsAndPieces
  <2> HIDE DEF ss
  <2>4. ss \in Seq(Strings) /\ Len(ss) = blockSize
    <3>1. ss \in Seq(Strings)
      BY <1>1, <2>3, SeqDef
    <3>2. DOMAIN ss = 1 .. Len(ss) /\ Len(ss) \in Nat
      BY <3>1, LenProperties
    <3> QED BY <1>1, <2>2, <3>1, <3>2
  <2>5. ss # <<>>
    BY <1>1, <2>4, EmptySeq
  <2>6. \A k \in 1 .. blockSize : ss[k] # <<>> /\ Len(ss[k]) = Len(block[k])
    BY <1>1, <2>2, TextsAndPieces
  <2>7. /\ FlattenSeq(ss) \in Strings /\ Len(FlattenSeq(ss)) >= blockSize
        /\ \A i \in 1 .. blockSize :
             (\A j \in 1 .. i : Len(ss[j]) = 1) => FlattenSeq(ss)[i] = ss[i][1]
    BY <2>4, <2>5, <2>6, FlattenTypes
  <2>8. ASSUME NEW i \in 1 .. blockSize, \A j \in 1 .. i : ~HasNul(block[j])
        PROVE  FlattenSeq(ss)[i] = block[i]
    <3>1. ASSUME NEW j \in 1 .. i PROVE Len(ss[j]) = 1 /\ Len(block[j]) = 1
      <4>1. j \in 1 .. blockSize
        BY <1>1
      <4>2. Len(block[j]) = 1
        BY <1>1, <2>8, <4>1, TextsAndPieces
      <4> QED BY <2>6, <4>1, <4>2
    <3>2. FlattenSeq(ss)[i] = ss[i][1]
      BY <2>7, <3>1
    <3>3. Len(block[i]) = 1
      BY <1>1, <3>1
    <3>4. Pieces(block[i])[1] = block[i]
      BY <1>1, <3>3, TextsAndPieces
    <3> QED BY <2>2, <3>2, <3>4
  <2> QED BY <2>1, <2>7, <2>8 DEF Strings
<1> QED BY <1>2, <1>3

------------------------------------------------------------------------------
(* SnappyStorage as part of a log *)

\* A string is in a block that was written, or in the one that is being filled.
LEMMA WhereStringsAre ==
  ASSUME NEW l, LogOK(l), NEW i \in 0 .. Count(l) - 1
  PROVE  LET b == GetBlockIndex(i)
             r == GetRelativeIndex(i)
         IN  /\ i \in Nat /\ b \in Nat /\ r \in 0 .. blockSize - 1 /\ r + 1 \in 1 .. blockSize
             /\ l.writeBlock \in Nat /\ l.writeBlock = Len(l.storage)
             /\ b <= l.writeBlock
             /\ b < l.writeBlock => l.storage[b + 1] \in Blocks
             /\ b = l.writeBlock => r + 1 \in 1 .. Len(l.writeList)
             /\ i = b * blockSize + r
<1> DEFINE b == GetBlockIndex(i)
           r == GetRelativeIndex(i)
           w == l.writeBlock
           k == Len(l.writeList)
<1>1. /\ blockSize \in Nat /\ blockSize # 0
      /\ k \in Nat /\ k < blockSize
      /\ w = Len(l.storage) /\ w \in Nat
      /\ \A j \in 1 .. w : l.storage[j] \in Blocks
      /\ Count(l) = w * blockSize + k
  BY BlockAssumption, LenProperties, ElementOfSeq DEF LogOK, StorageOK, Blocks
<1> DEFINE n == Count(l)
           x == w * blockSize
<1>2. x \in Nat /\ n = x + k
  BY <1>1
<1> HIDE DEF w, k, x, n
<1>3. n \in Nat /\ i \in Nat /\ i < n
  <2>1. n \in Nat /\ i \in 0 .. n - 1
    BY <1>1, <1>2 DEF n
  <2> QED BY <2>1
<1>10. b \in Nat /\ r \in 0 .. blockSize - 1 /\ i = b * blockSize + r
  BY <1>3, BlockAndIndex
<1> HIDE DEF b, r
<1>4. b <= w
  <2> SUFFICES ASSUME b >= w + 1 PROVE FALSE
    BY <1>1, <1>10
  <2> DEFINE y == b * blockSize
  <2>1. y >= (w + 1) * blockSize
    BY <1>1, <1>10
  <2>2. (w + 1) * blockSize = x + blockSize
    BY <1>1 DEF x
  <2>3. y \in Nat /\ i = y + r
    BY <1>1, <1>10
  <2> HIDE DEF y
  <2> QED BY <1>1, <1>2, <1>3, <1>10, <2>1, <2>2, <2>3
<1>5. b < w => l.storage[b + 1] \in Blocks
  BY <1>1, <1>10
<1>6. b = w => r + 1 \in 1 .. k
  <2> SUFFICES ASSUME b = w PROVE r + 1 \in 1 .. k
    OBVIOUS
  <2>1. i = x + r
    BY <1>10 DEF x
  <2> QED BY <1>1, <1>2, <1>3, <1>10, <2>1
<1>7. r + 1 \in 1 .. blockSize
  BY <1>1, <1>10
<1> QED BY <1>1, <1>2, <1>3, <1>10, <1>4, <1>5, <1>6, <1>7 DEF b, r, w, k

\* A cache for another block than the one that is being filled.
LEMMA CachedProperties ==
  ASSUME NEW l, LogOK(l), NEW i \in 0 .. Count(l) - 1
  PROVE  /\ LogOK(Cached(l, i)) /\ Contents(Cached(l, i)) = Contents(l)
         /\ Count(Cached(l, i)) = Count(l)
         /\ GetBlockIndex(i) # l.writeBlock =>
              Cached(l, i).readList = Decompress(l.storage[GetBlockIndex(i) + 1])
<1> DEFINE b == GetBlockIndex(i)
           n == [l EXCEPT !.readList = Decompress(l.storage[b + 1]), !.readBlock = b]
<1>1. b \in Nat /\ b <= l.writeBlock /\ l.writeBlock \in Nat
  BY WhereStringsAre
<1>2. CASE b \in {l.writeBlock, l.readBlock}
  <2>1. Cached(l, i) = l
    BY <1>2 DEF Cached
  <2>2. b # l.writeBlock => l.readList = Decompress(l.storage[b + 1])
    <3>1. b # Unset
      BY <1>1 DEF Unset
    <3> QED BY <1>2, <3>1 DEF LogOK, StorageOK
  <2> QED BY <2>1, <2>2
<1>3. CASE b \notin {l.writeBlock, l.readBlock}
  <2>1. Cached(l, i) = n
    BY <1>3 DEF Cached
  <2>2. "readList" \in DOMAIN l /\ "readBlock" \in DOMAIN l
    BY DEF LogOK, EmptyLog
  <2>3. /\ DOMAIN n = DOMAIN l
        /\ n.readList = Decompress(l.storage[b + 1]) /\ n.readBlock = b
    BY <2>2
  <2>4. /\ n.storage = l.storage /\ n.writeList = l.writeList
        /\ n.writeBlock = l.writeBlock /\ n.messages = l.messages
        /\ n.processes = l.processes
    BY DEF LogOK, EmptyLog
  <2> HIDE DEF n
  <2>5. n.readBlock \in 0 .. n.writeBlock - 1
    BY <1>1, <1>3, <2>3, <2>4
  <2>6. StorageOK(n)
    BY <2>3, <2>4, <2>5 DEF LogOK, StorageOK
  <2>7. LogOK(n) /\ Count(n) = Count(l)
    BY <2>3, <2>4, <2>6 DEF LogOK, Count
  <2>8. Contents(n) = Contents(l)
    BY <2>4, <2>7 DEF Contents, TextAt
  <2> QED BY <2>1, <2>3, <2>7, <2>8
<1> QED BY <1>2, <1>3

LEMMA TextAtProperties ==
  ASSUME NEW l, LogOK(l), NEW i \in 0 .. Count(l) - 1
  PROVE  TextAt(l, i) \in Texts
<1> DEFINE b == GetBlockIndex(i)
           r == GetRelativeIndex(i)
<1>1. /\ b \in Nat /\ r + 1 \in 1 .. blockSize
      /\ l.writeBlock = Len(l.storage) /\ b <= l.writeBlock /\ l.writeBlock \in Nat
      /\ b < l.writeBlock => l.storage[b + 1] \in Blocks
      /\ b = l.writeBlock => r + 1 \in 1 .. Len(l.writeList)
  BY WhereStringsAre
<1>2. TextAt(l, i) = IF b < l.writeBlock THEN l.storage[b + 1][r + 1]
                                         ELSE l.writeList[r + 1]
  BY <1>1 DEF TextAt
<1> HIDE DEF b, r
<1>3. CASE b < l.writeBlock
  BY <1>1, <1>2, <1>3 DEF Blocks
<1>4. CASE ~(b < l.writeBlock)
  <2>1. b = l.writeBlock
    BY <1>1, <1>4
  <2>2. l.writeList[r + 1] \in Texts
    BY <1>1, <2>1, ElementOfSeq DEF LogOK, StorageOK
  <2> QED BY <1>2, <1>4, <2>2
<1> QED BY <1>3, <1>4

\* GetString: what was put in, if no string before it in its block has a NUL.
LEMMA StringProperties ==
  ASSUME NEW l, LogOK(l), NEW i \in 0 .. Count(l) - 1
  PROVE  /\ GetString(l, i) \in Texts
         /\ (\A j \in 0 .. i : ~HasNul(TextAt(l, j))) => GetString(l, i) = TextAt(l, i)
<1> DEFINE b == GetBlockIndex(i)
           r == GetRelativeIndex(i)
           w == l.writeBlock
<1>1. /\ i \in Nat /\ b \in Nat /\ r \in 0 .. blockSize - 1 /\ r + 1 \in 1 .. blockSize
      /\ w = Len(l.storage) /\ b <= w /\ w \in Nat
      /\ b < w => l.storage[b + 1] \in Blocks
      /\ i = b * blockSize + r
      /\ blockSize \in Nat
  BY WhereStringsAre, BlockAssumption
<1>2. TextAt(l, i) = IF b < w THEN l.storage[b + 1][r + 1] ELSE l.writeList[r + 1]
  BY <1>1 DEF TextAt
<1>3. GetString(l, i) = IF b = w THEN l.writeList[r + 1] ELSE Cached(l, i).readList[r + 1]
  BY DEF GetString
<1>4. b # w => Cached(l, i).readList = Decompress(l.storage[b + 1])
  BY CachedProperties
<1>5. TextAt(l, i) \in Texts
  BY TextAtProperties
<1>6. ASSUME NEW j \in 1 .. r + 1, b < w
      PROVE  (j - 1) + b * blockSize \in 0 .. i /\ TextAt(l, (j - 1) + b * blockSize) = l.storage[b + 1][j]
  <2> DEFINE k == b * blockSize + (j - 1)
  <2>1. j - 1 \in 0 .. blockSize - 1
    BY <1>1
  <2>2. GetBlockIndex(k) = b /\ GetRelativeIndex(k) = j - 1 /\ k \in Nat
    BY <1>1, <2>1, Division
  <2>3. k <= i
    <3> DEFINE x == b * blockSize
    <3>1. i = x + r /\ x \in Nat
      BY <1>1
    <3> HIDE DEF x
    <3>2. x + (j - 1) <= i
      BY <1>1, <3>1
    <3> QED BY <3>2 DEF x
  <2>4. TextAt(l, k) = l.storage[b + 1][j]
    <3>1. (j - 1) + 1 = j
      OBVIOUS
    <3> HIDE DEF k, b
    <3> QED BY <1>1, <1>6, <2>2, <3>1 DEF TextAt
  <2>5. k = (j - 1) + b * blockSize
    <3> DEFINE x == b * blockSize
    <3>1. x \in Nat
      BY <1>1
    <3> HIDE DEF x
    <3>2. x + (j - 1) = (j - 1) + x
      BY <3>1
    <3> QED BY <3>2 DEF x
  <2>6. k \in 0 .. i
    BY <1>1, <2>2, <2>3
  <2> HIDE DEF k
  <2> QED BY <2>4, <2>5, <2>6
<1> HIDE DEF b, r, w
<1>7. CASE b = w
  BY <1>1, <1>2, <1>3, <1>5, <1>7
<1>8. CASE b # w
  <2>1. b < w
    BY <1>1, <1>8
  <2> DEFINE block == l.storage[b + 1]
             d == Decompress(block)
  <2>2. block \in Blocks
    BY <1>1, <2>1
  <2>3. /\ d \in Seq(Texts) /\ Len(d) >= blockSize
        /\ \A m \in 1 .. blockSize :
             (\A j \in 1 .. m : ~HasNul(block[j])) => d[m] = block[m]
    BY <2>2, Decompressed
  <2>4. GetString(l, i) = d[r + 1] /\ TextAt(l, i) = block[r + 1]
    BY <1>2, <1>3, <1>4, <1>8, <2>1
  <2> HIDE DEF block, d
  <2>5. d[r + 1] \in Texts
    <3>1. Len(d) \in Nat
      BY <2>3, LenProperties
    <3>2. r + 1 \in 1 .. Len(d)
      BY <1>1, <2>3, <3>1
    <3> QED BY <2>3, <3>2, ElementOfSeq
  <2>6. ASSUME \A j \in 0 .. i : ~HasNul(TextAt(l, j))
        PROVE  d[r + 1] = block[r + 1]
    <3>1. ASSUME NEW j \in 1 .. r + 1 PROVE ~HasNul(block[j])
      BY <1>6, <2>1, <2>6 DEF block
    <3> QED BY <1>1, <2>3, <3>1
  <2> QED BY <2>4, <2>5, <2>6
<1> QED BY <1>7, <1>8

\* operator[]: a message, and the one that was put in if no text before it has
\* a NUL.
LEMMA AtProperties ==
  ASSUME NEW l, LogOK(l)
  PROVE  /\ Count(l) \in Nat /\ Contents(l) \in Seq(Message) /\ Len(Contents(l)) = Count(l)
         /\ \A i \in 0 .. Count(l) - 1 :
              /\ At(l, i) \in Message
              /\ At(l, i).process = Contents(l)[i + 1].process
              /\ (\A j \in 1 .. i + 1 : ~HasNul(Contents(l)[j].text))
                   => At(l, i) = Contents(l)[i + 1]
<1> DEFINE n == Count(l)
<1>1. /\ n \in Nat
      /\ \A i \in 1 .. n : l.processes[l.messages[i]] \in Processes
  BY LenProperties, ElementOfSeq DEF LogOK, Count
<1> HIDE DEF n
<1>2. ASSUME NEW i \in 0 .. n - 1
      PROVE  /\ i + 1 \in 1 .. n
             /\ Contents(l)[i + 1]
                  = [process |-> l.processes[l.messages[i + 1]], text |-> TextAt(l, i)]
  <2>1. i + 1 \in 1 .. n /\ (i + 1) - 1 = i
    BY <1>1
  <2> QED BY <2>1 DEF Contents, n
<1>3. Contents(l) \in Seq(Message) /\ Len(Contents(l)) = n
  <2>1. ASSUME NEW i \in 1 .. n
        PROVE  [process |-> l.processes[l.messages[i]], text |-> TextAt(l, i - 1)] \in Message
    <3>1. i - 1 \in 0 .. n - 1
      BY <1>1
    <3>2. TextAt(l, i - 1) \in Texts
      BY <3>1, TextAtProperties DEF n
    <3> QED BY <1>1, <3>2 DEF Message
  <2>2. Contents(l) \in [1 .. n -> Message]
    BY <2>1 DEF Contents, n
  <2>3. Contents(l) \in Seq(Message)
    BY <1>1, <2>2, SeqDef
  <2>4. DOMAIN Contents(l) = 1 .. n
    BY <2>2
  <2> DEFINE c == Contents(l)
  <2> HIDE DEF c
  <2>5. c \in Seq(Message) /\ DOMAIN c = 1 .. n
    BY <2>3, <2>4 DEF c
  <2>6. DOMAIN c = 1 .. Len(c) /\ Len(c) \in Nat
    BY <2>5, LenProperties
  <2>7. Len(c) = n
    BY <1>1, <2>5, <2>6
  <2> QED BY <2>5, <2>7 DEF c
<1>4. ASSUME NEW i \in 0 .. n - 1
      PROVE  /\ At(l, i) \in Message
             /\ At(l, i).process = Contents(l)[i + 1].process
             /\ (\A j \in 1 .. i + 1 : ~HasNul(Contents(l)[j].text))
                  => At(l, i) = Contents(l)[i + 1]
  <2>1. /\ GetString(l, i) \in Texts
        /\ (\A j \in 0 .. i : ~HasNul(TextAt(l, j))) => GetString(l, i) = TextAt(l, i)
    BY StringProperties DEF n
  <2>2. At(l, i) = [process |-> l.processes[l.messages[i + 1]], text |-> GetString(l, i)]
    BY DEF At
  <2>3. At(l, i) \in Message /\ At(l, i).process = Contents(l)[i + 1].process
    <3> DEFINE p == l.processes[l.messages[i + 1]]
    <3>1. p \in Processes /\ Contents(l)[i + 1] = [process |-> p, text |-> TextAt(l, i)]
      BY <1>1, <1>2
    <3>2. At(l, i) = [process |-> p, text |-> GetString(l, i)]
      BY <2>2
    <3> HIDE DEF p
    <3>3. Contents(l)[i + 1].process = p
      BY <3>1
    <3> QED BY <2>1, <3>1, <3>2, <3>3 DEF Message
  <2>4. ASSUME \A j \in 1 .. i + 1 : ~HasNul(Contents(l)[j].text)
        PROVE  At(l, i) = Contents(l)[i + 1]
    <3>1. ASSUME NEW j \in 0 .. i PROVE ~HasNul(TextAt(l, j))
      <4>1. j \in 0 .. n - 1 /\ j + 1 \in 1 .. i + 1
        BY <1>1
      <4>2. Contents(l)[j + 1].text = TextAt(l, j)
        <5>1. Contents(l)[j + 1]
                = [process |-> l.processes[l.messages[j + 1]], text |-> TextAt(l, j)]
          BY <1>2, <4>1
        <5> QED BY <5>1
      <4>3. ~HasNul(Contents(l)[j + 1].text)
        BY <2>4, <4>1
      <4> QED BY <4>2, <4>3
    <3> QED BY <1>2, <2>1, <2>2, <3>1
  <2> QED BY <2>3, <2>4
<1> QED BY <1>1, <1>3, <1>4 DEF n

------------------------------------------------------------------------------
(* Adding a message *)

\* ProcessInfo::GetUid: the number stands for the process from then on, and no
\* other number changes.
LEMMA UidProperties ==
  ASSUME NEW l, LogOK(l), NEW p \in Processes
  PROVE  LET q == WithProcess(l, p).processes
             u == GetUid(l, p)
         IN  /\ q \in Seq(Processes) /\ Len(l.processes) \in Nat /\ Len(q) \in Nat
             /\ Len(l.processes) <= Len(q)
             /\ \A k \in 1 .. Len(l.processes) : q[k] = l.processes[k]
             /\ u \in 1 .. Len(q) /\ q[u] = p
<1> DEFINE s == l.processes
           q == WithProcess(l, p).processes
           u == GetUid(l, p)
<1>1. s \in Seq(Processes) /\ Len(s) \in Nat /\ DOMAIN s = 1 .. Len(s)
  BY LenProperties DEF LogOK
<1>2. CASE \E k \in DOMAIN s : s[k] = p
  <2>1. q = s
    BY <1>2 DEF WithProcess
  <2>2. u \in DOMAIN s /\ s[u] = p
    <3>1. u = CHOOSE k \in DOMAIN s : s[k] = p
      BY <1>2 DEF GetUid
    <3> HIDE DEF u, s
    <3> QED BY <1>2, <3>1
  <2> QED BY <1>1, <2>1, <2>2
<1>3. CASE ~ \E k \in DOMAIN s : s[k] = p
  <2>1. q = Append(s, p)
    <3>1. WithProcess(l, p) = [l EXCEPT !.processes = Append(@, p)]
      BY <1>3 DEF WithProcess
    <3>2. "processes" \in DOMAIN l
      BY DEF LogOK, EmptyLog
    <3> QED BY <3>1, <3>2
  <2>2. u = Len(s) + 1
    BY <1>3 DEF GetUid
  <2> HIDE DEF s, q, u
  <2>3. /\ q \in Seq(Processes) /\ Len(q) = Len(s) + 1
        /\ \A k \in 1 .. Len(s) : q[k] = s[k]
        /\ q[Len(s) + 1] = p
    BY <1>1, <2>1, AppendProperties
  <2>4. Len(s) <= Len(q) /\ u \in 1 .. Len(q)
    BY <1>1, <2>2, <2>3
  <2> QED BY <1>1, <2>2, <2>3, <2>4 DEF s, q, u
<1> QED BY <1>2, <1>3

\* What Add assigns.
LEMMA LoggedFields ==
  ASSUME NEW l, LogOK(l), NEW m
  PROVE  LET n == Logged(l, m)
         IN  /\ DOMAIN n = DOMAIN l
             /\ n.processes = WithProcess(l, m.process).processes
             /\ n.messages = Append(l.messages, GetUid(l, m.process))
             /\ n.readList = l.readList /\ n.readBlock = l.readBlock
             /\ Len(l.writeList) = blockSize - 1 =>
                  /\ n.storage = Append(l.storage, Append(l.writeList, m.text))
                  /\ n.writeList = <<>> /\ n.writeBlock = l.writeBlock + 1
             /\ Len(l.writeList) # blockSize - 1 =>
                  /\ n.storage = l.storage /\ n.writeBlock = l.writeBlock
                  /\ n.writeList = Append(l.writeList, m.text)
<1> DEFINE p == m.process
           k == WithProcess(l, p)
           u == GetUid(l, p)
           h == [k EXCEPT !.messages = Append(@, u)]
           n == Stored(h, m.text)
<1>1. DOMAIN l = {"messages", "processes", "storage", "writeList", "writeBlock",
                  "readList", "readBlock"}
  BY DEF LogOK, EmptyLog
<1>2. /\ DOMAIN k = DOMAIN l
      /\ k.messages = l.messages /\ k.storage = l.storage
      /\ k.writeList = l.writeList /\ k.writeBlock = l.writeBlock
      /\ k.readList = l.readList /\ k.readBlock = l.readBlock
  <2>1. k = l \/ k = [l EXCEPT !.processes = Append(@, p)]
    BY DEF WithProcess
  <2> HIDE DEF k
  <2> QED BY <1>1, <2>1
<1>3. Logged(l, m) = n
  BY DEF Logged
<1> HIDE DEF k, u
<1>4. /\ DOMAIN h = DOMAIN l
      /\ h.messages = Append(l.messages, u) /\ h.storage = l.storage
      /\ h.writeList = l.writeList /\ h.writeBlock = l.writeBlock
      /\ h.readList = l.readList /\ h.readBlock = l.readBlock
      /\ h.processes = k.processes
  BY <1>1, <1>2
<1> HIDE DEF h
<1>5. CASE Len(l.writeList) = blockSize - 1
  <2>1. n = [h EXCEPT !.storage = Append(@, Append(h.writeList, m.text)),
                      !.writeList = <<>>, !.writeBlock = @ + 1]
    BY <1>4, <1>5 DEF Stored
  <2> HIDE DEF n
  <2>2. /\ DOMAIN n = DOMAIN l
        /\ n.messages = h.messages /\ n.processes = h.processes
        /\ n.readList = h.readList /\ n.readBlock = h.readBlock
        /\ n.storage = Append(h.storage, Append(h.writeList, m.text))
        /\ n.writeList = <<>> /\ n.writeBlock = h.writeBlock + 1
    BY <1>1, <1>4, <2>1
  <2> QED BY <1>3, <1>4, <1>5, <2>2 DEF k, u
<1>6. CASE Len(l.writeList) # blockSize - 1
  <2>1. n = [h EXCEPT !.writeList = Append(@, m.text)]
    BY <1>4, <1>6 DEF Stored
  <2> HIDE DEF n
  <2>2. /\ DOMAIN n = DOMAIN l
        /\ n.messages = h.messages /\ n.processes = h.processes
        /\ n.readList = h.readList /\ n.readBlock = h.readBlock
        /\ n.storage = h.storage /\ n.writeBlock = h.writeBlock
        /\ n.writeList = Append(h.writeList, m.text)
    BY <1>1, <1>4, <2>1
  <2> QED BY <1>3, <1>4, <1>6, <2>2 DEF k, u
<1> QED BY <1>5, <1>6

\* The string that is added comes last and moves no other, whether it fills the
\* block or not.
LEMMA StoredProperties ==
  ASSUME NEW l, LogOK(l), NEW m \in Message
  PROVE  /\ StorageOK(Logged(l, m))
         /\ Count(l) + 1 = Logged(l, m).writeBlock * blockSize + Len(Logged(l, m).writeList)
         /\ \A i \in 0 .. Count(l) - 1 : TextAt(Logged(l, m), i) = TextAt(l, i)
         /\ TextAt(Logged(l, m), Count(l)) = m.text
<1> DEFINE n == Logged(l, m)
           w == l.writeBlock
           k == Len(l.writeList)
           t == m.text
<1>1. /\ n.readList = l.readList /\ n.readBlock = l.readBlock
      /\ k = blockSize - 1 =>
           /\ n.storage = Append(l.storage, Append(l.writeList, t))
           /\ n.writeList = <<>> /\ n.writeBlock = w + 1
      /\ k # blockSize - 1 =>
           /\ n.storage = l.storage /\ n.writeBlock = w
           /\ n.writeList = Append(l.writeList, t)
  BY LoggedFields
<1>2. /\ l.storage \in Seq(Blocks) /\ l.writeList \in Seq(Texts) /\ t \in Texts
      /\ w = Len(l.storage) /\ w \in Nat
      /\ k \in Nat /\ k < blockSize
      /\ blockSize \in Nat /\ blockSize # 0
      /\ Count(l) = w * blockSize + k
      /\ \/ l.readBlock = Unset
         \/ /\ l.readBlock \in 0 .. w - 1
            /\ l.readList = Decompress(l.storage[l.readBlock + 1])
  BY BlockAssumption, LenProperties DEF LogOK, StorageOK, Blocks, Message
<1>3. /\ Append(l.writeList, t) \in Seq(Texts)
      /\ Len(Append(l.writeList, t)) = k + 1
      /\ \A j \in 1 .. k : Append(l.writeList, t)[j] = l.writeList[j]
      /\ Append(l.writeList, t)[k + 1] = t
  BY <1>2, AppendProperties
<1>4. ASSUME NEW i \in 0 .. Count(l) - 1
      PROVE  /\ GetBlockIndex(i) \in Nat /\ GetBlockIndex(i) <= w
             /\ GetRelativeIndex(i) + 1 \in 1 .. blockSize
             /\ GetBlockIndex(i) = w => GetRelativeIndex(i) + 1 \in 1 .. k
             /\ TextAt(l, i) = IF GetBlockIndex(i) < w
                               THEN l.storage[GetBlockIndex(i) + 1][GetRelativeIndex(i) + 1]
                               ELSE l.writeList[GetRelativeIndex(i) + 1]
  <2>1. /\ GetBlockIndex(i) \in Nat /\ GetBlockIndex(i) <= w
        /\ GetRelativeIndex(i) + 1 \in 1 .. blockSize
        /\ GetBlockIndex(i) = w => GetRelativeIndex(i) + 1 \in 1 .. k
    BY WhereStringsAre
  <2> QED BY <1>2, <2>1 DEF TextAt
<1>5. GetBlockIndex(Count(l)) = w /\ GetRelativeIndex(Count(l)) = k
  <2>1. k \in 0 .. blockSize - 1
    BY <1>2
  <2> QED BY <1>2, <2>1, Division
<1> HIDE DEF n, w, k, t
<1>6. CASE k = blockSize - 1
  <2> DEFINE full == Append(l.writeList, t)
  <2>1. full \in Blocks
    <3>1. full \in Seq(Texts) /\ Len(full) = blockSize
      BY <1>2, <1>3, <1>6
    <3> HIDE DEF full
    <3>2. DOMAIN full = 1 .. blockSize /\ full \in [1 .. Len(full) -> Texts]
      BY <3>1, LenProperties
    <3> QED BY <3>1, <3>2 DEF Blocks
  <2>2. n.storage = Append(l.storage, full) /\ n.writeList = <<>> /\ n.writeBlock = w + 1
    BY <1>1, <1>6
  <2>8. Len(<<>>) = 0 /\ <<>> \in Seq(Texts)
    BY EmptySeq
  <2>3. /\ n.storage \in Seq(Blocks) /\ Len(n.storage) = w + 1
        /\ \A j \in 1 .. w : n.storage[j] = l.storage[j]
        /\ n.storage[w + 1] = full
    <3> HIDE DEF full
    <3> QED BY <1>2, <2>1, <2>2, AppendProperties
  <2>4. StorageOK(n)
    <3>1. n.readBlock = Unset \/ /\ n.readBlock \in 0 .. n.writeBlock - 1
                                 /\ n.readList = Decompress(n.storage[n.readBlock + 1])
      <4>1. CASE l.readBlock = Unset
        BY <1>1, <4>1
      <4>2. CASE /\ l.readBlock \in 0 .. w - 1
                 /\ l.readList = Decompress(l.storage[l.readBlock + 1])
        <5>1. l.readBlock + 1 \in 1 .. w
          BY <1>2, <4>2
        <5>2. n.storage[l.readBlock + 1] = l.storage[l.readBlock + 1]
          BY <2>3, <5>1
        <5>3. n.readBlock \in 0 .. n.writeBlock - 1
          BY <1>1, <1>2, <2>2, <4>2
        <5> QED BY <1>1, <4>2, <5>2, <5>3
      <4> QED BY <1>2, <4>1, <4>2
    <3>2. Len(n.writeList) < blockSize /\ n.writeList \in Seq(Texts)
      BY <1>2, <2>2, <2>8
    <3> QED BY <2>2, <2>3, <3>1, <3>2 DEF StorageOK, Blocks
  <2>5. Count(l) + 1 = n.writeBlock * blockSize + Len(n.writeList)
    <3> DEFINE x == w * blockSize
    <3>1. x \in Nat /\ (w + 1) * blockSize = x + blockSize /\ Count(l) = x + k
      BY <1>2
    <3>2. Len(n.writeList) = 0 /\ n.writeBlock = w + 1
      BY <2>2, <2>8
    <3> HIDE DEF x
    <3> QED BY <1>2, <1>6, <3>1, <3>2
  <2>6. ASSUME NEW i \in 0 .. Count(l) - 1 PROVE TextAt(n, i) = TextAt(l, i)
    <3> DEFINE b == GetBlockIndex(i)
               r == GetRelativeIndex(i)
    <3>1. /\ b \in Nat /\ b <= w /\ r + 1 \in 1 .. blockSize
          /\ b = w => r + 1 \in 1 .. k
          /\ TextAt(l, i) = IF b < w THEN l.storage[b + 1][r + 1] ELSE l.writeList[r + 1]
      BY <1>4
    <3>2. b < Len(n.storage)
      <4> HIDE DEF b
      <4> QED BY <1>2, <2>3, <3>1
    <3>3. TextAt(n, i) = n.storage[b + 1][r + 1]
      BY <3>2 DEF TextAt
    <3> HIDE DEF b, r
    <3>4. CASE b < w
      <4>1. b + 1 \in 1 .. w
        BY <1>2, <3>1, <3>4
      <4> QED BY <2>3, <3>1, <3>3, <3>4, <4>1
    <3>5. CASE b = w
      <4>1. n.storage[b + 1] = full /\ full[r + 1] = l.writeList[r + 1]
        BY <1>3, <2>3, <3>1, <3>5
      <4> HIDE DEF full
      <4> QED BY <1>2, <3>1, <3>3, <3>5, <4>1
    <3> QED BY <1>2, <3>1, <3>4, <3>5
  <2>7. TextAt(n, Count(l)) = t
    <3>1. w < Len(n.storage)
      BY <1>2, <2>3
    <3>2. TextAt(n, Count(l)) = n.storage[w + 1][k + 1]
      BY <1>5, <3>1 DEF TextAt
    <3> QED BY <1>3, <2>3, <3>2
  <2> QED BY <2>4, <2>5, <2>6, <2>7 DEF n, t
<1>7. CASE k # blockSize - 1
  <2>1. n.storage = l.storage /\ n.writeBlock = w /\ n.writeList = Append(l.writeList, t)
    BY <1>1, <1>7
  <2>2. k + 1 < blockSize
    BY <1>2, <1>7
  <2>3. StorageOK(n)
    <3>1. n.readBlock = Unset \/ /\ n.readBlock \in 0 .. n.writeBlock - 1
                                 /\ n.readList = Decompress(n.storage[n.readBlock + 1])
      BY <1>1, <1>2, <2>1
    <3>2. Len(n.writeList) < blockSize /\ n.writeList \in Seq(Texts)
      BY <1>3, <2>1, <2>2
    <3> QED BY <1>2, <2>1, <3>1, <3>2 DEF StorageOK, Blocks
  <2>4. Count(l) + 1 = n.writeBlock * blockSize + Len(n.writeList)
    <3> DEFINE x == w * blockSize
    <3>1. x \in Nat /\ Count(l) = x + k
      BY <1>2
    <3>2. Len(n.writeList) = k + 1 /\ n.writeBlock = w
      BY <1>3, <2>1
    <3>3. n.writeBlock * blockSize = x
      BY <3>2
    <3> HIDE DEF x
    <3>4. Count(l) + 1 = x + (k + 1)
      BY <1>2, <3>1
    <3> QED BY <3>2, <3>3, <3>4
  <2>5. ASSUME NEW i \in 0 .. Count(l) - 1 PROVE TextAt(n, i) = TextAt(l, i)
    <3> DEFINE b == GetBlockIndex(i)
               r == GetRelativeIndex(i)
    <3>1. /\ b \in Nat /\ b <= w /\ r + 1 \in 1 .. blockSize
          /\ b = w => r + 1 \in 1 .. k
          /\ TextAt(l, i) = IF b < w THEN l.storage[b + 1][r + 1] ELSE l.writeList[r + 1]
      BY <1>4
    <3>2. TextAt(n, i) = IF b < w THEN l.storage[b + 1][r + 1] ELSE n.writeList[r + 1]
      BY <1>2, <2>1 DEF TextAt
    <3> HIDE DEF b, r
    <3>3. b = w => n.writeList[r + 1] = l.writeList[r + 1]
      BY <1>3, <2>1, <3>1
    <3> QED BY <1>2, <3>1, <3>2, <3>3
  <2>6. TextAt(n, Count(l)) = t
    <3>1. ~(w < Len(n.storage))
      BY <1>2, <2>1
    <3>2. TextAt(n, Count(l)) = n.writeList[k + 1]
      BY <1>5, <3>1 DEF TextAt
    <3> QED BY <1>3, <2>1, <3>2
  <2> QED BY <2>3, <2>4, <2>5, <2>6 DEF n, t
<1> QED BY <1>6, <1>7

\* Add appends to what the views see.
LEMMA LoggedProperties ==
  ASSUME NEW l, LogOK(l), NEW m \in Message
  PROVE  /\ LogOK(Logged(l, m)) /\ Count(Logged(l, m)) = Count(l) + 1
         /\ Contents(Logged(l, m)) = Append(Contents(l), m)
<1> DEFINE n == Logged(l, m)
           u == GetUid(l, m.process)
           c == Count(l)
<1>1. m.process \in Processes /\ m = [process |-> m.process, text |-> m.text]
  BY DEF Message
<1>2. /\ n.processes \in Seq(Processes)
      /\ Len(l.processes) \in Nat /\ Len(n.processes) \in Nat
      /\ Len(l.processes) <= Len(n.processes)
      /\ \A k \in 1 .. Len(l.processes) : n.processes[k] = l.processes[k]
      /\ u \in 1 .. Len(n.processes) /\ n.processes[u] = m.process
      /\ DOMAIN n = DOMAIN l
      /\ n.messages = Append(l.messages, u)
  <2> DEFINE q == WithProcess(l, m.process).processes
  <2>1. /\ DOMAIN n = DOMAIN l /\ n.processes = q
        /\ n.messages = Append(l.messages, u)
    BY LoggedFields
  <2>2. /\ q \in Seq(Processes)
        /\ Len(l.processes) \in Nat /\ Len(q) \in Nat
        /\ Len(l.processes) <= Len(q)
        /\ \A k \in 1 .. Len(l.processes) : q[k] = l.processes[k]
        /\ u \in 1 .. Len(q) /\ q[u] = m.process
    BY <1>1, UidProperties
  <2> HIDE DEF n, u, q
  <2> QED BY <2>1, <2>2
<1>3. /\ StorageOK(n) /\ c + 1 = n.writeBlock * blockSize + Len(n.writeList)
      /\ \A i \in 0 .. c - 1 : TextAt(n, i) = TextAt(l, i)
      /\ TextAt(n, c) = m.text
  BY StoredProperties
<1>4. /\ c \in Nat /\ c = Len(l.messages)
      /\ \A i \in 1 .. c : l.messages[i] \in 1 .. Len(l.processes)
  BY LenProperties, ElementOfSeq DEF Count, LogOK
<1> HIDE DEF n, u, c
<1>5. /\ n.messages \in Seq(1 .. Len(n.processes)) /\ Len(n.messages) = c + 1
      /\ \A i \in 1 .. c : n.messages[i] = l.messages[i]
      /\ n.messages[c + 1] = u
  <2>1. l.messages \in Seq(1 .. Len(n.processes))
    <3>1. 1 .. Len(l.processes) \subseteq 1 .. Len(n.processes)
      BY <1>2
    <3>2. l.messages \in Seq(1 .. Len(l.processes))
      BY DEF LogOK
    <3> QED BY <3>1, <3>2, SeqMonotonic
  <2> QED BY <1>2, <1>4, <2>1, AppendProperties
<1>6. Count(n) = c + 1
  BY <1>5 DEF Count
<1>7. LogOK(n)
  BY <1>2, <1>3, <1>5, <1>6 DEF LogOK
<1>8. /\ Contents(l) \in Seq(Message) /\ Len(Contents(l)) = c
      /\ Contents(n) \in Seq(Message) /\ Len(Contents(n)) = c + 1
  BY <1>6, <1>7, AtProperties DEF c
<1>9. /\ Append(Contents(l), m) \in Seq(Message)
      /\ Len(Append(Contents(l), m)) = c + 1
      /\ \A i \in 1 .. c : Append(Contents(l), m)[i] = Contents(l)[i]
      /\ Append(Contents(l), m)[c + 1] = m
  BY <1>8, AppendProperties
<1>10. ASSUME NEW i \in 1 .. c PROVE Contents(n)[i] = Contents(l)[i]
  <2>1. Contents(l)[i] = [process |-> l.processes[l.messages[i]], text |-> TextAt(l, i - 1)]
    BY DEF Contents, c
  <2>2. Contents(n)[i] = [process |-> n.processes[n.messages[i]], text |-> TextAt(n, i - 1)]
    <3>1. i \in 1 .. Count(n)
      BY <1>4, <1>6
    <3> QED BY <3>1 DEF Contents
  <2>3. n.processes[n.messages[i]] = l.processes[l.messages[i]]
    BY <1>2, <1>4, <1>5
  <2>4. TextAt(n, i - 1) = TextAt(l, i - 1)
    <3>1. i - 1 \in 0 .. c - 1
      BY <1>4
    <3> QED BY <1>3, <3>1
  <2> QED BY <2>1, <2>2, <2>3, <2>4
<1>11. Contents(n)[c + 1] = m
  <2>1. c + 1 \in 1 .. Count(n) /\ (c + 1) - 1 = c
    BY <1>4, <1>6
  <2>2. Contents(n)[c + 1]
          = [process |-> n.processes[n.messages[c + 1]], text |-> TextAt(n, (c + 1) - 1)]
    BY <2>1 DEF Contents
  <2> QED BY <1>1, <1>2, <1>3, <1>5, <2>1, <2>2
<1>12. \A i \in 1 .. Len(Contents(n)) : Contents(n)[i] = Append(Contents(l), m)[i]
  <2>1. ASSUME NEW i \in 1 .. c + 1 PROVE Contents(n)[i] = Append(Contents(l), m)[i]
    <3>1. i \in 1 .. c \/ i = c + 1
      BY <1>4
    <3> QED BY <1>9, <1>10, <1>11, <3>1
  <2> QED BY <1>8, <2>1
<1>13. Contents(n) = Append(Contents(l), m)
  BY <1>8, <1>9, <1>12, SeqEqual
<1> QED BY <1>6, <1>7, <1>13 DEF n, c

LEMMA EmptyLogProperties ==
  LogOK(EmptyLog) /\ Count(EmptyLog) = 0 /\ Contents(EmptyLog) = <<>>
<1>1. /\ EmptyLog.messages = <<>> /\ EmptyLog.processes = <<>>
      /\ EmptyLog.storage = <<>> /\ EmptyLog.writeList = <<>>
      /\ EmptyLog.writeBlock = 0 /\ EmptyLog.readBlock = Unset
  BY DEF EmptyLog
<1>2. /\ Len(<<>>) = 0 /\ <<>> \in Seq(Texts) /\ <<>> \in Seq(Processes)
      /\ <<>> \in Seq([1 .. blockSize -> Texts]) /\ <<>> \in Seq(1 .. Len(<<>>))
  BY EmptySeq
<1>3. blockSize \in Nat /\ 0 < blockSize /\ 0 = 0 * blockSize + 0
  BY BlockAssumption
<1>4. StorageOK(EmptyLog)
  BY <1>1, <1>2, <1>3 DEF StorageOK
<1>5. Count(EmptyLog) = 0
  BY <1>1, <1>2 DEF Count
<1>6. LogOK(EmptyLog)
  BY <1>1, <1>2, <1>3, <1>4, <1>5 DEF LogOK
<1>7. Contents(EmptyLog) = <<>>
  <2>1. Contents(EmptyLog) \in Seq(Message) /\ Len(Contents(EmptyLog)) = 0
    BY <1>5, <1>6, AtProperties
  <2> QED BY <2>1, EmptySeq
<1> QED BY <1>5, <1>6, <1>7

------------------------------------------------------------------------------
(* The refinement, action by action *)

LEMMA ContentsThen ==
  ASSUME NEW l, m_logFile' = l
  PROVE  /\ LogOK(m_logFile)' = LogOK(l) /\ Contents(m_logFile)' = Contents(l)
         /\ Count(m_logFile)' = Count(l)
BY DEF LogOK, StorageOK, Count, Contents, TextAt, Decompress, HasNul, GetBlockIndex,
       GetRelativeIndex

LEMMA TempThen ==
  ASSUME NEW l, temp' = l
  PROVE  /\ LogOK(temp)' = LogOK(l) /\ Contents(temp)' = Contents(l)
         /\ Count(temp)' = Count(l)
BY DEF LogOK, StorageOK, Count, Contents, TextAt, Decompress, HasNul, GetBlockIndex,
       GetRelativeIndex

\* What operator[] returns is what the contract lets a reader have.
LEMMA AtCopies ==
  ASSUME LogOK(m_logFile), NEW i \in 0 .. Count(m_logFile) - 1
  PROVE  Contract!Copies(At(m_logFile, i), i + 1)
<1> DEFINE l == m_logFile
<1>1. /\ At(l, i) \in Message
      /\ At(l, i).process = Contents(l)[i + 1].process
      /\ (\A j \in 1 .. i + 1 : ~HasNul(Contents(l)[j].text))
           => At(l, i) = Contents(l)[i + 1]
      /\ Contents(l) \in Seq(Message) /\ Len(Contents(l)) = Count(l) /\ Count(l) \in Nat
  BY AtProperties
<1>2. ASSUME Contract!Unharmed(i + 1), NEW j \in 1 .. i + 1
      PROVE  ~HasNul(Contents(l)[j].text)
  <2>1. Contents(l)[j].text \notin {t \in Texts : HasNul(t)}
    BY <1>2 DEF Contract!Unharmed
  <2>2. Contents(l)[j].text \in Texts
    <3>1. j \in 1 .. Len(Contents(l))
      BY <1>1
    <3>2. Contents(l)[j] \in Message
      BY <1>1, <3>1, ElementOfSeq
    <3> QED BY <3>2 DEF Message
  <2> QED BY <2>1, <2>2
<1> QED BY <1>1, <1>2 DEF Contract!Copies

\* Reading moves the cache, which nobody sees.
LEMMA CacheKeeps ==
  ASSUME LogOK(m_logFile), NEW i \in 0 .. Count(m_logFile) - 1,
         m_logFile' = Cached(m_logFile, i)
  PROVE  /\ LogOK(m_logFile)' /\ Contents(m_logFile)' = Contents(m_logFile)
         /\ Count(m_logFile)' = Count(m_logFile)
BY CachedProperties, ContentsThen

LEMMA AddStep ==
  ASSUME LInv, NEW m \in Message, Add(m)
  PROVE  LInv' /\ Contract!Add(m)
<1>1. m_logFile' = Logged(m_logFile, m) /\ answer' = <<>> /\ temp' = temp /\ Idle /\ Idle'
  BY DEF Add, NoAnswer, Idle
<1>2. LogOK(m_logFile)' /\ Contents(m_logFile)' = Append(Contents(m_logFile), m)
  BY <1>1, LoggedProperties, ContentsThen DEF LInv
<1>3. LogOK(temp)'
  BY <1>1, TempThen DEF LInv
<1> QED BY <1>1, <1>2, <1>3 DEF LInv, Contract!Add

LEMMA ClearStep ==
  ASSUME LInv, Clear
  PROVE  LInv' /\ Contract!Clear
<1>1. m_logFile' = EmptyLog /\ answer' = <<>> /\ temp' = temp /\ Idle'
  BY DEF Clear, NoAnswer, Idle
<1>2. LogOK(m_logFile)' /\ Contents(m_logFile)' = <<>>
  BY <1>1, EmptyLogProperties, ContentsThen
<1>3. LogOK(temp)'
  BY <1>1, TempThen DEF LInv
<1> QED BY <1>1, <1>2, <1>3 DEF LInv, Contract!Clear

LEMMA ReadStep ==
  ASSUME LInv, NEW i \in Indices, Read(i)
  PROVE  LInv' /\ \E k \in DOMAIN Contents(m_logFile) : Contract!Read(k)
<1>1. /\ m_logFile' = Cached(m_logFile, i) /\ temp' = temp /\ Idle'
      /\ answer' = <<i + 1, At(m_logFile, i)>>
      /\ i \in 0 .. Count(m_logFile) - 1
  BY DEF Read, Idle, Indices
<1>2. /\ LogOK(m_logFile)' /\ Contents(m_logFile)' = Contents(m_logFile)
  BY <1>1, CacheKeeps DEF LInv
<1>3. LogOK(temp)'
  BY <1>1, TempThen DEF LInv
<1>4. Contract!Copies(At(m_logFile, i), i + 1)
  BY <1>1, AtCopies DEF LInv
<1>5. i + 1 \in 1 .. Len(Contents(m_logFile)) /\ i + 1 \in DOMAIN Contents(m_logFile)
  <2> DEFINE c == Contents(m_logFile)
             n == Count(m_logFile)
  <2>1. c \in Seq(Message) /\ Len(c) = n /\ n \in Nat /\ i \in 0 .. n - 1
    BY <1>1, AtProperties DEF LInv
  <2> HIDE DEF c, n
  <2>2. i + 1 \in 1 .. Len(c)
    BY <2>1
  <2>3. DOMAIN c = 1 .. Len(c)
    BY <2>1, LenProperties
  <2> QED BY <2>2, <2>3 DEF c
<1>6. At(m_logFile, i) \in Message
  BY <1>1, AtProperties DEF LInv
<1>7. Contract!Read(i + 1)
  BY <1>1, <1>2, <1>4, <1>5, <1>6 DEF Contract!Read
<1> QED BY <1>1, <1>2, <1>3, <1>5, <1>7 DEF LInv

\* OnLogCrop forgets what was read, as if it had cropped the log to itself.
LEMMA BeginCropStep ==
  ASSUME LInv, NEW b \in Indices, NEW e \in Indices, BeginCrop(b, e)
  PROVE  /\ LInv'
         /\ \E f, g \in DOMAIN Contents(m_logFile) : Contract!Crop(f, g)
<1> DEFINE c == Contents(m_logFile)
           n == Count(m_logFile)
<1>1. /\ m_logFile' = m_logFile /\ temp' = EmptyLog /\ range' = <<b, e>>
      /\ answer' = <<>> /\ b < e /\ b \in 0 .. n - 1 /\ e \in 0 .. n - 1
  BY DEF BeginCrop, NoAnswer, Indices
<1>2. /\ LogOK(m_logFile)' /\ Contents(m_logFile)' = c
      /\ Count(m_logFile)' = n
  BY <1>1, ContentsThen DEF LInv
<1>3. LogOK(temp)' /\ Count(temp)' = 0
  BY <1>1, TempThen, EmptyLogProperties
<1>4. c \in Seq(Message) /\ Len(c) = n /\ n \in Nat
  BY AtProperties DEF LInv
<1>5. CropOK'
  <2>1. range'[1] = b /\ range'[2] = e /\ range' \in Int \X Int
    BY <1>1
  <2> HIDE DEF n
  <2>2. /\ First' = b /\ b >= 0 /\ b < e /\ e < n /\ b <= e + 1
    BY <1>1, <1>3, <1>4, <2>1 DEF First
  <2>3. 1 .. Count(temp)' = {}
    BY <1>3
  <2>4. answer' = NoAnswer
    BY <1>1 DEF NoAnswer
  <2> QED BY <1>2, <2>1, <2>2, <2>3, <2>4 DEF CropOK
<1>6. LInv'
  BY <1>2, <1>3, <1>5 DEF LInv
<1>7. ASSUME NEW k \in 1 .. Len(c) PROVE Contract!Copies(c[k], k)
  BY <1>4, ElementOfSeq DEF Contract!Copies
<1> HIDE DEF c, n
<1>8. 1 < Len(c) /\ DOMAIN c = 1 .. Len(c) /\ Len(c) \in Nat
  BY <1>1, <1>4, LenProperties
<1>9. Contract!Crop(1, Len(c))
  <2>1. /\ 1 <= 1 /\ Len(c) <= Len(c)
        /\ Len(c) = Len(c) - 1 + 1
    BY <1>8
  <2>2. \A k \in 1 .. Len(c) - 1 + 1 : Contract!Copies(c[k], 1 + k - 1)
    <3>1. ASSUME NEW k \in 1 .. Len(c) PROVE 1 + k - 1 = k
      OBVIOUS
    <3> QED BY <1>7, <2>1, <3>1
  <2> QED BY <1>1, <1>2, <1>8, <2>1, <2>2 DEF Contract!Crop, c
<1>10. 1 \in DOMAIN c /\ Len(c) \in DOMAIN c
  BY <1>8
<1> QED BY <1>6, <1>9, <1>10 DEF c

LEMMA CopiesThen ==
  ASSUME NEW m, NEW i, Contents(m_logFile)' = Contents(m_logFile),
         Contract!Copies(m, i)
  PROVE  /\ m \in Message /\ m.process = Contents(m_logFile)'[i].process
         /\ (\A j \in 1 .. i : Contents(m_logFile)'[j].text \notin {t \in Texts : HasNul(t)})
              => m = Contents(m_logFile)'[i]
BY DEF Contract!Copies, Contract!Unharmed

\* OnLogCrop: the copy grows by what operator[] returns for the next index.
LEMMA CopyMessageStep ==
  ASSUME LInv, CopyMessage
  PROVE  LInv' /\ UNCHANGED Contract!lvars
<1> DEFINE l == m_logFile
           n == Count(m_logFile)
           a == range[1]
           k == Count(temp)
           m == At(m_logFile, a)
<1>1. /\ ~Idle /\ a <= range[2] /\ temp' = Logged(temp, m) /\ l' = Cached(l, a)
      /\ range' = [range EXCEPT ![1] = @ + 1] /\ answer' = answer
      /\ CropOK /\ LogOK(l) /\ LogOK(temp)
  BY DEF CopyMessage, LInv
<1>2. /\ k \in Nat /\ n \in Nat
      /\ Contents(temp) \in Seq(Message) /\ Len(Contents(temp)) = k
  BY <1>1, AtProperties
<1>3. /\ a \in Int /\ range[2] \in Int /\ First = a - k
      /\ 0 <= First /\ First < range[2] /\ range[2] < n
      /\ answer = NoAnswer
      /\ \A j \in 1 .. k : Contract!Copies(Contents(temp)[j], First + j)
  BY <1>1 DEF CropOK, First
<1>4. a \in 0 .. n - 1
  <2> HIDE DEF a, k, n
  <2> QED BY <1>1, <1>2, <1>3 DEF a
<1>5. LogOK(l)' /\ Contents(l)' = Contents(l) /\ Count(l)' = n
  BY <1>1, <1>4, CacheKeeps
<1>6. m \in Message /\ Contract!Copies(m, a + 1)
  BY <1>1, <1>4, AtProperties, AtCopies
<1>7. /\ LogOK(temp)' /\ Count(temp)' = k + 1
      /\ Contents(temp)' = Append(Contents(temp), m)
  BY <1>1, <1>6, LoggedProperties, TempThen
<1>8. range' \in Int \X Int /\ range'[1] = a + 1 /\ range'[2] = range[2]
  <2>1. range = <<range[1], range[2]>> /\ range[1] \in Int /\ range[2] \in Int
    BY <1>1 DEF CropOK
  <2>2. range' = <<range[1] + 1, range[2]>>
    BY <1>1, <2>1
  <2> QED BY <2>1, <2>2
<1> HIDE DEF a, k, n, m
<1>9. First' = First
  <2>1. First' = (a + 1) - (k + 1)
    BY <1>7, <1>8 DEF First
  <2> QED BY <1>2, <1>3, <2>1
<1>10. /\ \A j \in 1 .. k : Contents(temp)'[j] = Contents(temp)[j]
       /\ Contents(temp)'[k + 1] = m
  BY <1>2, <1>6, <1>7, AppendProperties
<1>11. ASSUME NEW j \in 1 .. k + 1
       PROVE  Contract!Copies(Contents(temp)'[j], First + j)
  <2>1. CASE j \in 1 .. k
    BY <1>3, <1>10, <2>1
  <2>2. CASE j = k + 1
    <3>1. First + j = a + 1
      BY <1>2, <1>3, <2>2
    <3> QED BY <1>6, <1>10, <2>2, <3>1
  <2> QED BY <1>2, <2>1, <2>2
<1>12. CropOK'
  <2>1. ASSUME NEW j \in 1 .. Count(temp)'
        PROVE  Contract!Copies(Contents(temp)[j], First + j)'
    <3> DEFINE x == Contents(temp)'[j]
               i == First + j
    <3>1. Contract!Copies(x, i)
      BY <1>7, <1>11
    <3>2. /\ x \in Message /\ x.process = Contents(l)'[i].process
          /\ (\A g \in 1 .. i : Contents(l)'[g].text \notin {t \in Texts : HasNul(t)})
               => x = Contents(l)'[i]
      <4> HIDE DEF x, i
      <4> QED BY <1>5, <3>1, CopiesThen
    <3>3. (First + j)' = i
      BY <1>9
    <3> HIDE DEF i
    <3> QED BY <3>2, <3>3 DEF Contract!Copies, Contract!Unharmed
  <2>2. /\ range' \in Int \X Int /\ answer' = NoAnswer
        /\ 0 <= First' /\ First' < range'[2] /\ range'[2] < Count(l)'
        /\ range'[1] <= range'[2] + 1
    BY <1>1, <1>2, <1>3, <1>5, <1>8, <1>9 DEF a
  <2> QED BY <2>1, <2>2 DEF CropOK
<1>13. LInv'
  BY <1>5, <1>7, <1>12 DEF LInv
<1> QED BY <1>1, <1>5, <1>13 DEF Contract!lvars

\* ... and std::swap: the whole range has been copied.
LEMMA SwapStep ==
  ASSUME LInv, Swap
  PROVE  /\ LInv'
         /\ \E f, g \in DOMAIN Contents(m_logFile) : Contract!Crop(f, g)
<1> DEFINE c == Contents(m_logFile)
           n == Count(m_logFile)
           a == range[1]
           e == range[2]
           k == Count(temp)
<1>1. /\ ~Idle /\ a > e /\ m_logFile' = temp /\ temp' = EmptyLog /\ Idle'
      /\ answer' = answer /\ CropOK /\ LogOK(m_logFile) /\ LogOK(temp)
  BY DEF Swap, LInv, Idle
<1>2. /\ k \in Nat /\ n \in Nat /\ c \in Seq(Message) /\ Len(c) = n
      /\ Contents(temp) \in Seq(Message) /\ Len(Contents(temp)) = k
  BY <1>1, AtProperties
<1>3. /\ a \in Int /\ e \in Int /\ First = a - k
      /\ 0 <= First /\ First < e /\ e < n /\ a <= e + 1
      /\ answer = NoAnswer
      /\ \A j \in 1 .. k : Contract!Copies(Contents(temp)[j], First + j)
  BY <1>1 DEF CropOK, First
<1>4. LogOK(m_logFile)' /\ Contents(m_logFile)' = Contents(temp)
  BY <1>1, ContentsThen
<1>5. LogOK(temp)'
  BY <1>1, EmptyLogProperties, TempThen
<1>6. LInv'
  BY <1>1, <1>4, <1>5 DEF LInv
<1> HIDE DEF c, n, a, e, k
<1> DEFINE f == First + 1
           g == e + 1
<1>7. /\ f \in 1 .. n /\ g \in 1 .. n /\ 1 <= f /\ f < g /\ g <= n
      /\ First \in Int /\ k = g - f + 1
  BY <1>1, <1>2, <1>3
<1>8. ASSUME NEW j \in 1 .. g - f + 1
      PROVE  Contract!Copies(Contents(temp)[j], f + j - 1)
  <2>1. j \in 1 .. k /\ f + j - 1 = First + j
    BY <1>7
  <2> QED BY <1>3, <2>1
<1>9. DOMAIN c = 1 .. n
  BY <1>2, LenProperties
<1> HIDE DEF f, g
<1>10. Contract!Crop(f, g)
  BY <1>1, <1>2, <1>3, <1>4, <1>7, <1>8 DEF Contract!Crop, c, NoAnswer
<1> QED BY <1>6, <1>7, <1>9, <1>10 DEF c

------------------------------------------------------------------------------
(* The theorem *)

LEMMA InitStep == Init => LInv /\ Contract!LInit
BY EmptyLogProperties DEF Init, LInv, Idle, NoAnswer, Contract!LInit

(* LogFile and SnappyStorage implement LogContract: whatever is added, cleared,
   cropped and read, in whatever order, the views find a sequence of messages,
   for any block size, any processes and any texts.  Only texts with a NUL in
   them may displace those that follow. *)
THEOREM LogIsASequence == Spec => KeepsLog
<1>1. Init => LInv /\ Contract!LInit
  BY InitStep
<1>2. LInv /\ [Next]_vars => LInv' /\ [Contract!LNext]_(Contract!lvars)
  <2> SUFFICES ASSUME LInv, [Next]_vars
               PROVE  LInv' /\ [Contract!LNext]_(Contract!lvars)
    OBVIOUS
  <2>1. CASE \E m \in Message : Add(m)
    BY <2>1, AddStep DEF Contract!LNext
  <2>2. CASE Clear
    BY <2>2, ClearStep DEF Contract!LNext
  <2>3. CASE \E i \in Indices : Read(i)
    BY <2>3, ReadStep DEF Contract!LNext
  <2>4. CASE \E b, e \in Indices : BeginCrop(b, e)
    BY <2>4, BeginCropStep DEF Contract!LNext
  <2>5. CASE CopyMessage
    BY <2>5, CopyMessageStep
  <2>6. CASE Swap
    BY <2>6, SwapStep DEF Contract!LNext
  <2>7. CASE UNCHANGED vars
    <3>1. /\ m_logFile' = m_logFile /\ temp' = temp /\ range' = range /\ answer' = answer
      BY <2>7 DEF vars
    <3>2. LogOK(m_logFile)' /\ Contents(m_logFile)' = Contents(m_logFile)
          /\ Count(m_logFile)' = Count(m_logFile)
      BY <3>1, ContentsThen DEF LInv
    <3>3. LogOK(temp)' /\ Contents(temp)' = Contents(temp) /\ Count(temp)' = Count(temp)
      BY <3>1, TempThen DEF LInv
    <3>4. Idle' = Idle /\ CropOK' = CropOK
      BY <3>1, <3>2, <3>3
         DEF Idle, CropOK, First, Contract!Copies, Contract!Unharmed
    <3> QED BY <3>1, <3>2, <3>3, <3>4 DEF LInv, Contract!lvars
  <2> QED BY <2>1, <2>2, <2>3, <2>4, <2>5, <2>6, <2>7 DEF Next
<1> QED BY <1>1, <1>2, PTL DEF Spec, KeepsLog, Contract!LSpec
=============================================================================
