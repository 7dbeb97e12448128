--------------------------- MODULE ExecutorProofs ---------------------------
(***************************************************************************)
(* Proofs about ActiveExecutor for any number of clients and calls.        *)
(***************************************************************************)
EXTENDS Executor, SequenceTheorems, WellFoundedInduction, TLAPS

------------------------------------------------------------------------------
(* Operators on m_scheduledCalls *)

LEMMA FunctionIsSeq ==
  ASSUME NEW S, NEW n \in Nat, NEW f \in [1 .. n -> S]
  PROVE  f \in Seq(S) /\ Len(f) = n /\ DOMAIN f = 1 .. n
<1>1. f \in Seq(S)
  BY SeqDef
<1>2. DOMAIN f = 1 .. n /\ DOMAIN f = 1 .. Len(f) /\ Len(f) \in Nat
  BY <1>1, LenProperties
<1> QED BY <1>1, <1>2

LEMMA LeastNatural ==
  ASSUME NEW S, S \subseteq Nat, S # {}
  PROVE  \E n \in S : \A m \in S : n <= m
<1> DEFINE R == OpToRel(<, Nat)
<1>1. IsWellFoundedOn(R, Nat)
  BY NatLessThanWellFounded
<1> HIDE DEF R
<1>2. PICK n \in S : \A m \in S : ~ (<<m, n>> \in R)
  BY <1>1, WFMin
<1>3. ASSUME NEW m \in S PROVE n <= m
  <2>1. m \in Nat /\ n \in Nat
    OBVIOUS
  <2>2. m < n => <<m, n>> \in R
    BY <2>1 DEF R, OpToRel
  <2>3. ~ (<<m, n>> \in R)
    BY <1>2
  <2> QED BY <2>1, <2>2, <2>3
<1> QED BY <1>3

LEMMA LowerBoundExists ==
  ASSUME NEW s \in Seq(CallData), NEW at \in Nat
  PROVE  /\ LowerBound(s, at) \in 0 .. Len(s)
         /\ \A i \in 1 .. LowerBound(s, at) : s[i].at > at
         /\ LowerBound(s, at) < Len(s) => ~(s[LowerBound(s, at) + 1].at > at)
<1> DEFINE Stops == {k \in 0 .. Len(s) : k < Len(s) => ~(s[k + 1].at > at)}
<1>1. Len(s) \in Nat /\ Len(s) \in Stops /\ Stops \subseteq Nat
  BY LenProperties
<1>2. PICK k \in Stops : \A j \in Stops : k <= j
  BY <1>1, LeastNatural
<1>3. \A i \in 1 .. k : s[i].at > at
  <2> SUFFICES ASSUME NEW i \in 1 .. k PROVE s[i].at > at
    OBVIOUS
  <2>1. k \in 0 .. Len(s) /\ i \in Int /\ 1 <= i /\ i <= k
    BY <1>1
  <2>2. i - 1 \in 0 .. Len(s) /\ ~(k <= i - 1) /\ (i - 1) + 1 = i
    BY <1>1, <2>1
  <2>3. i - 1 \notin Stops
    BY <1>2, <2>2
  <2> QED BY <2>2, <2>3
<1>4. /\ k \in 0 .. Len(s)
      /\ \A i \in 1 .. k : s[i].at > at
      /\ k < Len(s) => ~(s[k + 1].at > at)
  BY <1>2, <1>3
<1> QED BY <1>4 DEF LowerBound

LEMMA InsertAfterProperties ==
  ASSUME NEW s \in Seq(CallData), NEW k \in 0 .. Len(s), NEW call \in CallData
  PROVE  /\ InsertAfter(s, k, call) \in Seq(CallData)
         /\ Len(InsertAfter(s, k, call)) = Len(s) + 1
         /\ \A i \in 1 .. Len(s) + 1 :
              InsertAfter(s, k, call)[i] = IF i <= k THEN s[i]
                                      ELSE IF i = k + 1 THEN call ELSE s[i - 1]
<1>1. Len(s) \in Nat /\ \A i \in 1 .. Len(s) : s[i] \in CallData
  BY LenProperties, ElementOfSeq
<1>2. InsertAfter(s, k, call) \in [1 .. Len(s) + 1 -> CallData]
  BY <1>1 DEF InsertAfter
<1> QED BY <1>1, <1>2, FunctionIsSeq DEF InsertAfter

LEMMA RemoveProperties ==
  ASSUME NEW s \in Seq(CallData), NEW id
  PROVE  /\ Remove(s, id) \in Seq(CallData)
         /\ \/ /\ Remove(s, id) = s
               /\ \A i \in 1 .. Len(s) : s[i].id # id
            \/ \E k \in 1 .. Len(s) :
                 /\ s[k].id = id
                 /\ Len(Remove(s, id)) = Len(s) - 1
                 /\ \A i \in 1 .. Len(s) - 1 :
                      Remove(s, id)[i] = IF i < k THEN s[i] ELSE s[i + 1]
<1>1. Len(s) \in Nat /\ \A i \in 1 .. Len(s) : s[i] \in CallData
  BY LenProperties, ElementOfSeq
<1>2. CASE \A i \in 1 .. Len(s) : s[i].id # id
  BY <1>2 DEF Remove
<1>3. CASE \E i \in 1 .. Len(s) : s[i].id = id
  <2> DEFINE Hits == {i \in 1 .. Len(s) : s[i].id = id}
             k == CHOOSE k \in 1 .. Len(s) :
                    s[k].id = id /\ \A i \in 1 .. k - 1 : s[i].id # id
             r == [i \in 1 .. Len(s) - 1 |-> IF i < k THEN s[i] ELSE s[i + 1]]
  <2>1. Hits # {} /\ Hits \subseteq Nat
    BY <1>1, <1>3
  <2>2. PICK h \in Hits : \A j \in Hits : h <= j
    BY <2>1, LeastNatural
  <2>3. h \in 1 .. Len(s) /\ s[h].id = id /\ \A i \in 1 .. h - 1 : s[i].id # id
    BY <1>1, <2>2
  <2>4. k \in 1 .. Len(s) /\ s[k].id = id
    BY <2>3
  <2>5. r \in [1 .. Len(s) - 1 -> CallData]
    BY <1>1, <2>4
  <2>6. Len(s) - 1 \in Nat
    BY <1>1, <2>4
  <2>7. r \in Seq(CallData) /\ Len(r) = Len(s) - 1
    BY <2>5, <2>6, FunctionIsSeq
  <2>8. Remove(s, id) = r
    BY <1>3 DEF Remove
  <2> QED BY <2>4, <2>7, <2>8
<1> QED BY <1>2, <1>3

LEMMA PopBackProperties ==
  ASSUME NEW s \in Seq(CallData), s # <<>>
  PROVE  /\ Len(s) \in Nat \ {0} /\ s[Len(s)] \in CallData
         /\ PopBack(s) \in Seq(CallData)
         /\ Len(PopBack(s)) = Len(s) - 1
         /\ \A i \in 1 .. Len(s) - 1 : PopBack(s)[i] = s[i]
<1>1. Len(s) \in Nat \ {0} /\ \A i \in 1 .. Len(s) : s[i] \in CallData
  BY EmptySeq, ElementOfSeq
<1>2. PopBack(s) \in [1 .. Len(s) - 1 -> CallData]
  BY <1>1 DEF PopBack
<1> QED BY <1>1, <1>2, FunctionIsSeq DEF PopBack

LEMMA EntriesProperties ==
  ASSUME NEW s \in Seq(CallData)
  PROVE  /\ Entries(s) \subseteq CallData
         /\ DOMAIN s = 1 .. Len(s) /\ Len(s) \in Nat
         /\ \A i \in 1 .. Len(s) : s[i] \in Entries(s)
         /\ \A e \in Entries(s) : \E i \in 1 .. Len(s) : e = s[i]
BY LenProperties, ElementOfSeq DEF Entries

LEMMA InsertProperties ==
  ASSUME NEW s \in Seq(CallData), NEW call \in CallData
  PROVE  /\ Insert(s, call) \in Seq(CallData)
         /\ Entries(Insert(s, call)) = Entries(s) \cup {call}
         /\ (/\ UniqueIds(s)
             /\ \A e \in Entries(s) : e.id # call.id) => UniqueIds(Insert(s, call))
         /\ (/\ DeadlineOrder(s)
             /\ \A e \in Entries(s) :
                  e.at = call.at /\ e.interval = 0 /\ call.interval = 0
                    => call.id > e.id) => DeadlineOrder(Insert(s, call))
<1> DEFINE k == LowerBound(s, call.at)
           t == Insert(s, call)
<1>1. call.at \in Nat
  BY DEF CallData
<1>2. /\ k \in 0 .. Len(s)
      /\ \A i \in 1 .. k : s[i].at > call.at
      /\ k < Len(s) => ~(s[k + 1].at > call.at)
  BY <1>1, LowerBoundExists
<1>3. /\ t \in Seq(CallData)
      /\ Len(t) = Len(s) + 1
      /\ \A i \in 1 .. Len(s) + 1 :
           t[i] = IF i <= k THEN s[i] ELSE IF i = k + 1 THEN call ELSE s[i - 1]
  BY <1>2, InsertAfterProperties DEF Insert
<1>4. /\ Len(s) \in Nat /\ DOMAIN s = 1 .. Len(s) /\ DOMAIN t = 1 .. Len(s) + 1
      /\ \A i \in 1 .. Len(s) : s[i] \in CallData
      /\ \A i \in 1 .. Len(s) : s[i] \in Entries(s)
  BY <1>3, EntriesProperties
<1> HIDE DEF k, t
<1>5. Entries(t) = Entries(s) \cup {call}
  <2>1. ASSUME NEW e \in Entries(t) PROVE e \in Entries(s) \cup {call}
    <3>1. PICK i \in 1 .. Len(s) + 1 : e = t[i]
      BY <1>4 DEF Entries
    <3>2. i <= k => i \in 1 .. Len(s)
      BY <1>2, <1>4
    <3>3. i > k + 1 => i - 1 \in 1 .. Len(s)
      BY <1>2, <1>4
    <3>4. t[i] = s[i] \/ t[i] = call \/ t[i] = s[i - 1]
      BY <1>3
    <3> QED BY <1>2, <1>3, <1>4, <3>1, <3>2, <3>3
  <2>2. ASSUME NEW i \in 1 .. Len(s) PROVE s[i] \in Entries(t)
    <3>1. /\ i <= k => t[i] = s[i] /\ i \in 1 .. Len(s) + 1
          /\ i > k => t[i + 1] = s[i] /\ i + 1 \in 1 .. Len(s) + 1
      BY <1>2, <1>3, <1>4
    <3>2. CASE i <= k
      BY <1>4, <3>1, <3>2 DEF Entries
    <3>3. CASE i > k
      BY <1>4, <3>1, <3>3 DEF Entries
    <3> QED BY <1>2, <3>2, <3>3
  <2>3. call \in Entries(t)
    <3>1. t[k + 1] = call /\ k + 1 \in 1 .. Len(s) + 1
      BY <1>2, <1>3, <1>4
    <3> QED BY <1>4, <3>1 DEF Entries
  <2> QED BY <1>4, <2>1, <2>2, <2>3 DEF Entries
<1>6. ASSUME UniqueIds(s), \A e \in Entries(s) : e.id # call.id
      PROVE  UniqueIds(t)
  <2> SUFFICES ASSUME NEW i \in 1 .. Len(s) + 1, NEW j \in 1 .. Len(s) + 1,
                      t[i].id = t[j].id, i < j
               PROVE  FALSE
    BY <1>4 DEF UniqueIds
  <2>1. \A m \in 1 .. Len(s) : s[m].id # call.id
    BY <1>4, <1>6
  <2>2. \A m, n \in 1 .. Len(s) : s[m].id = s[n].id => m = n
    BY <1>4, <1>6 DEF UniqueIds
  <2> DEFINE Old(m) == IF m <= k THEN m ELSE m - 1
  <2>3. ASSUME NEW m \in 1 .. Len(s) + 1, m # k + 1
        PROVE  Old(m) \in 1 .. Len(s) /\ t[m] = s[Old(m)]
    <3>1. CASE m <= k
      BY <1>2, <1>3, <1>4, <3>1
    <3>2. CASE m > k + 1
      BY <1>2, <1>3, <1>4, <3>2
    <3> QED BY <1>2, <2>3, <3>1, <3>2
  <2>4. t[k + 1] = call
    BY <1>2, <1>3
  <2>5. CASE i = k + 1
    <3>1. j # k + 1
      BY <2>5
    <3> QED BY <2>1, <2>3, <2>4, <2>5, <3>1
  <2>6. CASE j = k + 1
    <3>1. i # k + 1
      BY <2>6
    <3> QED BY <2>1, <2>3, <2>4, <2>6, <3>1
  <2>7. CASE i # k + 1 /\ j # k + 1
    <3>1. Old(i) = Old(j)
      BY <2>2, <2>3, <2>7
    <3> QED BY <1>2, <2>7, <3>1
  <2> QED BY <2>5, <2>6, <2>7
<1>7. ASSUME DeadlineOrder(s),
             \A e \in Entries(s) :
               e.at = call.at /\ e.interval = 0 /\ call.interval = 0
                 => call.id > e.id
      PROVE  DeadlineOrder(t)
  <2> DEFINE Before(a, b) ==
               \/ a.at > b.at
               \/ /\ a.at = b.at
                  /\ a.interval = 0 /\ b.interval = 0 => a.id > b.id
  <2>1. \A m, n \in 1 .. Len(s) : m < n => Before(s[m], s[n])
    BY <1>4, <1>7 DEF DeadlineOrder
  <2>2. \A m \in 1 .. k : Before(s[m], call)
    BY <1>2
  <2>3. \A m \in 1 .. Len(s) : m > k => s[m].at <= call.at
    <3> SUFFICES ASSUME NEW m \in 1 .. Len(s), m > k PROVE s[m].at <= call.at
      OBVIOUS
    <3>1. k + 1 \in 1 .. Len(s) /\ s[k + 1].at <= call.at /\ k + 1 <= m
      BY <1>1, <1>2, <1>4 DEF CallData
    <3>2. s[m].at \in Nat /\ s[k + 1].at \in Nat
      BY <1>4, <3>1 DEF CallData
    <3>3. k + 1 = m \/ s[m].at <= s[k + 1].at
      BY <2>1, <3>1, <3>2
    <3> QED BY <1>1, <3>1, <3>2, <3>3
  <2>4. \A m \in 1 .. Len(s) : m > k => Before(call, s[m])
    <3> SUFFICES ASSUME NEW m \in 1 .. Len(s), m > k PROVE Before(call, s[m])
      OBVIOUS
    <3>1. s[m].at <= call.at /\ s[m].at \in Nat
      BY <1>4, <2>3 DEF CallData
    <3>2. s[m].at = call.at /\ s[m].interval = 0 /\ call.interval = 0
            => call.id > s[m].id
      BY <1>4, <1>7
    <3> QED BY <1>1, <3>1, <3>2
  <2> HIDE DEF Before
  <2>5. ASSUME NEW i \in 1 .. Len(s) + 1, NEW j \in 1 .. Len(s) + 1, i < j
        PROVE  Before(t[i], t[j])
    <3>1. CASE j <= k
      <4>1. t[i] = s[i] /\ t[j] = s[j] /\ i \in 1 .. Len(s) /\ j \in 1 .. Len(s)
        BY <1>2, <1>3, <1>4, <2>5, <3>1
      <4> QED BY <2>1, <2>5, <4>1
    <3>2. CASE j = k + 1
      <4>1. t[i] = s[i] /\ t[j] = call /\ i \in 1 .. k
        BY <1>2, <1>3, <1>4, <2>5, <3>2
      <4> QED BY <2>2, <4>1
    <3>3. CASE j > k + 1 /\ i = k + 1
      <4>1. t[i] = call /\ t[j] = s[j - 1] /\ j - 1 \in 1 .. Len(s) /\ j - 1 > k
        BY <1>2, <1>3, <1>4, <2>5, <3>3
      <4> QED BY <2>4, <4>1
    <3>4. CASE j > k + 1 /\ i <= k
      <4>1. /\ t[i] = s[i] /\ t[j] = s[j - 1]
            /\ i \in 1 .. Len(s) /\ j - 1 \in 1 .. Len(s) /\ i < j - 1
        BY <1>2, <1>3, <1>4, <2>5, <3>4
      <4> QED BY <2>1, <4>1
    <3>5. CASE j > k + 1 /\ i > k + 1
      <4>1. /\ t[i] = s[i - 1] /\ t[j] = s[j - 1]
            /\ i - 1 \in 1 .. Len(s) /\ j - 1 \in 1 .. Len(s) /\ i - 1 < j - 1
        BY <1>2, <1>3, <1>4, <2>5, <3>5
      <4> QED BY <2>1, <4>1
    <3> QED BY <1>2, <1>4, <2>5, <3>1, <3>2, <3>3, <3>4, <3>5
  <2> QED BY <1>4, <2>5 DEF DeadlineOrder, Before
<1> QED BY <1>3, <1>5, <1>6, <1>7 DEF t

\* Taking one element out of a sequence: what Remove and PopBack share.
LEMMA OneLessProperties ==
  ASSUME NEW s \in Seq(CallData), NEW t \in Seq(CallData),
         NEW k \in 1 .. Len(s), Len(t) = Len(s) - 1,
         \A i \in 1 .. Len(s) - 1 : t[i] = IF i < k THEN s[i] ELSE s[i + 1]
  PROVE  /\ Entries(t) \subseteq Entries(s)
         /\ UniqueIds(s) => /\ UniqueIds(t)
                            /\ \A e \in Entries(t) : e.id # s[k].id
         /\ DeadlineOrder(s) => DeadlineOrder(t)
<1> DEFINE pos(i) == IF i < k THEN i ELSE i + 1
<1>1. /\ Len(s) \in Nat /\ DOMAIN s = 1 .. Len(s) /\ DOMAIN t = 1 .. Len(s) - 1
      /\ \A i \in 1 .. Len(s) : s[i] \in Entries(s)
      /\ \A e \in Entries(t) : \E i \in 1 .. Len(s) - 1 : e = t[i]
  BY EntriesProperties
<1>2. \A i \in 1 .. Len(s) - 1 : /\ t[i] = s[pos(i)]
                                /\ pos(i) \in 1 .. Len(s) /\ pos(i) # k
  BY <1>1
<1>3. \A i, j \in 1 .. Len(s) - 1 : /\ i < j => pos(i) < pos(j)
                                   /\ pos(i) = pos(j) => i = j
  BY <1>1
<1> HIDE DEF pos
<1>4. Entries(t) \subseteq Entries(s)
  BY <1>1, <1>2
<1>5. ASSUME UniqueIds(s)
      PROVE  UniqueIds(t) /\ \A e \in Entries(t) : e.id # s[k].id
  <2>1. \A m, n \in 1 .. Len(s) : s[m].id = s[n].id => m = n
    BY <1>1, <1>5 DEF UniqueIds
  <2>2. ASSUME NEW i \in 1 .. Len(s) - 1, NEW j \in 1 .. Len(s) - 1,
               t[i].id = t[j].id
        PROVE  i = j
    <3>1. s[pos(i)].id = s[pos(j)].id
      BY <1>2, <2>2
    <3>2. pos(i) = pos(j)
      BY <1>2, <2>1, <3>1
    <3> QED BY <1>3, <3>2
  <2>3. ASSUME NEW i \in 1 .. Len(s) - 1
        PROVE  t[i].id # s[k].id
    BY <1>2, <2>1
  <2> QED BY <1>1, <2>2, <2>3 DEF UniqueIds
<1>6. ASSUME DeadlineOrder(s)
      PROVE  DeadlineOrder(t)
  <2> SUFFICES ASSUME NEW i \in 1 .. Len(s) - 1, NEW j \in 1 .. Len(s) - 1, i < j
               PROVE  \/ t[i].at > t[j].at
                      \/ /\ t[i].at = t[j].at
                         /\ t[i].interval = 0 /\ t[j].interval = 0
                              => t[i].id > t[j].id
    BY <1>1 DEF DeadlineOrder
  <2>1. pos(i) \in 1 .. Len(s) /\ t[i] = s[pos(i)]
    BY <1>2
  <2>2. pos(j) \in 1 .. Len(s) /\ t[j] = s[pos(j)]
    BY <1>2
  <2>3. pos(i) < pos(j)
    BY <1>1 DEF pos
  <2>4. \A m, n \in 1 .. Len(s) : m < n =>
          \/ s[m].at > s[n].at
          \/ /\ s[m].at = s[n].at
             /\ s[m].interval = 0 /\ s[n].interval = 0 => s[m].id > s[n].id
    BY <1>1, <1>6 DEF DeadlineOrder
  <2> QED BY <2>1, <2>2, <2>3, <2>4
<1> QED BY <1>4, <1>5, <1>6

LEMMA RemoveKeeps ==
  ASSUME NEW s \in Seq(CallData), NEW id
  PROVE  /\ Remove(s, id) \in Seq(CallData)
         /\ Entries(Remove(s, id)) \subseteq Entries(s)
         /\ UniqueIds(s) => /\ UniqueIds(Remove(s, id))
                            /\ \A e \in Entries(Remove(s, id)) : e.id # id
         /\ DeadlineOrder(s) => DeadlineOrder(Remove(s, id))
<1>1. CASE Remove(s, id) = s /\ \A i \in 1 .. Len(s) : s[i].id # id
  BY <1>1, EntriesProperties
<1>2. CASE \E k \in 1 .. Len(s) :
             /\ s[k].id = id
             /\ Len(Remove(s, id)) = Len(s) - 1
             /\ \A i \in 1 .. Len(s) - 1 :
                  Remove(s, id)[i] = IF i < k THEN s[i] ELSE s[i + 1]
  <2>1. PICK k \in 1 .. Len(s) :
          /\ s[k].id = id
          /\ Len(Remove(s, id)) = Len(s) - 1
          /\ \A i \in 1 .. Len(s) - 1 :
               Remove(s, id)[i] = IF i < k THEN s[i] ELSE s[i + 1]
    BY <1>2
  <2>2. Remove(s, id) \in Seq(CallData)
    BY RemoveProperties
  <2> DEFINE t == Remove(s, id)
  <2> HIDE DEF t
  <2>3. /\ t \in Seq(CallData) /\ Len(t) = Len(s) - 1
        /\ \A i \in 1 .. Len(s) - 1 : t[i] = IF i < k THEN s[i] ELSE s[i + 1]
    BY <2>1, <2>2 DEF t
  <2>4. /\ Entries(t) \subseteq Entries(s)
        /\ UniqueIds(s) => UniqueIds(t) /\ \A e \in Entries(t) : e.id # s[k].id
        /\ DeadlineOrder(s) => DeadlineOrder(t)
    BY <2>3, OneLessProperties
  <2> QED BY <2>1, <2>3, <2>4 DEF t
<1> QED BY <1>1, <1>2, RemoveProperties

LEMMA PopBackKeeps ==
  ASSUME NEW s \in Seq(CallData), s # <<>>
  PROVE  /\ s[Len(s)] \in CallData /\ s[Len(s)] \in Entries(s)
         /\ PopBack(s) \in Seq(CallData)
         /\ Entries(PopBack(s)) \subseteq Entries(s)
         /\ UniqueIds(s) => /\ UniqueIds(PopBack(s))
                            /\ \A e \in Entries(PopBack(s)) : e.id # s[Len(s)].id
         /\ DeadlineOrder(s) => DeadlineOrder(PopBack(s))
<1>1. Len(s) \in 1 .. Len(s) /\ s[Len(s)] \in Entries(s)
  BY PopBackProperties, EntriesProperties
<1>2. \A i \in 1 .. Len(s) - 1 :
        PopBack(s)[i] = IF i < Len(s) THEN s[i] ELSE s[i + 1]
  BY PopBackProperties
<1> DEFINE t == PopBack(s)
<1>3. t \in Seq(CallData) /\ Len(t) = Len(s) - 1
  BY PopBackProperties
<1> HIDE DEF t
<1>4. /\ Entries(t) \subseteq Entries(s)
      /\ UniqueIds(s) => UniqueIds(t) /\ \A e \in Entries(t) : e.id # s[Len(s)].id
      /\ DeadlineOrder(s) => DeadlineOrder(t)
  <2>1. \A i \in 1 .. Len(s) - 1 : t[i] = IF i < Len(s) THEN s[i] ELSE s[i + 1]
    BY <1>2 DEF t
  <2> QED BY <1>1, <1>3, <2>1, OneLessProperties
<1> QED BY <1>1, <1>3, <1>4, PopBackProperties DEF t

------------------------------------------------------------------------------
(* The inductive invariant, action by action *)

LEMMA InitIInv == Init => IInv
<1> SUFFICES ASSUME Init PROVE IInv
  OBVIOUS
<1>1. /\ now \in Times /\ lastId \in 0 .. MaxCalls
      /\ m_end \in BOOLEAN /\ exited \in BOOLEAN /\ closing \in BOOLEAN
      /\ blocked \in [Clients -> BOOLEAN]
      /\ current \in Running
  <2>1. now \in Times /\ lastId \in 0 .. MaxCalls /\ 0 \in 0 .. MaxCalls
    BY BoundsAssumption DEF Init, Times
  <2>2. Idle \in Running
    BY <2>1 DEF Running, Idle
  <2> QED BY <2>1, <2>2 DEF Init
<1>2. m_q \in Seq(Task) /\ m_scheduledCalls \in Seq(CallData)
  BY EmptySeq DEF Init
<1>3. ran \in [Ids -> Nat] /\ armed \in [Ids -> Nat]
  BY DEF Init
<1>4. TypeOK
  BY <1>1, <1>2, <1>3 DEF TypeOK, Init
<1>5. Entries(m_scheduledCalls) = {} /\ DOMAIN m_scheduledCalls = {} /\ DOMAIN m_q = {}
  BY DEF Entries, Init
<1>6. Seen = {0} /\ Scheduled = {}
  BY <1>5 DEF Seen, Scheduled, Idle, Init
<1>7. IdsInOrder
  BY <1>5, <1>6 DEF IdsInOrder, Init
<1> QED BY <1>4, <1>5, <1>6, <1>7
       DEF IInv, UniqueIds, InDeadlineOrder, DeadlineOrder, NoDrift, Init

LEMMA IInvTypes ==
  ASSUME IInv
  PROVE  /\ lastId \in Nat /\ Ids \subseteq Nat
         /\ Len(m_q) \in Nat /\ DOMAIN m_q = 1 .. Len(m_q)
         /\ \A i \in 1 .. Len(m_q) : m_q[i] \in Task /\ m_q[i].id \in Nat
         /\ Scheduled \subseteq Ids
         /\ Seen \subseteq Nat
<1>1. lastId \in Nat /\ Ids \subseteq Nat
  BY BoundsAssumption DEF IInv, TypeOK, Ids
<1>2. /\ Len(m_q) \in Nat /\ DOMAIN m_q = 1 .. Len(m_q)
      /\ \A i \in 1 .. Len(m_q) : m_q[i] \in Task
  BY LenProperties, ElementOfSeq DEF IInv, TypeOK
<1>3. \A i \in 1 .. Len(m_q) : m_q[i].id \in Nat
  BY <1>2, BoundsAssumption DEF Task
<1>4. Scheduled \subseteq Ids
  <2>1. Entries(m_scheduledCalls) \subseteq CallData
    BY EntriesProperties DEF IInv, TypeOK
  <2> QED BY <2>1 DEF Scheduled, CallData
<1>5. current.id \in Nat /\ cancelled \subseteq Nat
  BY <1>1, BoundsAssumption DEF IInv, TypeOK, Running
<1> QED BY <1>1, <1>2, <1>3, <1>4, <1>5 DEF Seen

\* Queueing one more lambda: what all the posting actions have in common.
Enqueues(task) ==
  /\ m_q' = Append(m_q, task)
  /\ task \in Task
  /\ \/ Posts(task) /\ task.id = lastId + 1 /\ lastId' = lastId + 1
     \/ ~Posts(task) /\ task.id <= lastId /\ lastId' = lastId
  /\ task.op \notin {"end", "other"} => task.id # 0
  /\ handles' \subseteq 1 .. lastId'
  /\ UNCHANGED <<m_scheduledCalls, current, ran, armed, cancelled>>

LEMMA EnqueuesKeeps ==
  ASSUME IInv, NEW task, Enqueues(task), TypeOK'
  PROVE  IInv'
<1>0. /\ lastId \in Nat /\ Len(m_q) \in Nat /\ Seen \subseteq Nat
      /\ DOMAIN m_q = 1 .. Len(m_q)
      /\ \A i \in 1 .. Len(m_q) : m_q[i].id \in Nat
  BY IInvTypes
<1>1. /\ DOMAIN m_q' = 1 .. Len(m_q) + 1
      /\ \A i \in 1 .. Len(m_q) : m_q'[i] = m_q[i]
      /\ m_q'[Len(m_q) + 1] = task
  BY LenProperties DEF IInv, TypeOK, Enqueues
<1>2. /\ lastId' \in Nat /\ lastId <= lastId' /\ task.id \in Nat
      /\ task.id <= lastId'
      /\ Posts(task) => task.id = lastId + 1
  BY <1>0, BoundsAssumption DEF Enqueues, Task
<1>3. Seen' = Seen
  BY DEF Seen, Scheduled, Entries, Enqueues
<1>4. /\ \A i \in 1 .. Len(m_q) : /\ m_q[i].id <= lastId
                                  /\ m_q[i].op \notin {"end", "other"} => m_q[i].id # 0
      /\ \A id \in Seen : id <= lastId
      /\ \A i, j \in 1 .. Len(m_q) :
           i < j /\ Posts(m_q[j]) => m_q[i].id < m_q[j].id
      /\ \A j \in 1 .. Len(m_q), id \in Seen : Posts(m_q[j]) => id < m_q[j].id
  BY <1>0 DEF IInv, IdsInOrder
<1>5. \A id \in Seen' : id <= lastId'
  BY <1>2, <1>3, <1>4, <1>0
<1>6. ASSUME NEW i \in 1 .. Len(m_q) + 1
      PROVE  m_q'[i].id <= lastId' /\ (m_q'[i].op \notin {"end", "other"} => m_q'[i].id # 0)
  <2>1. CASE i = Len(m_q) + 1
    BY <1>1, <1>2, <2>1 DEF Enqueues
  <2>2. CASE i \in 1 .. Len(m_q)
    BY <1>1, <1>2, <1>4, <2>2, <1>0
  <2> QED BY <2>1, <2>2, <1>0
<1>7. ASSUME NEW i \in 1 .. Len(m_q) + 1, NEW j \in 1 .. Len(m_q) + 1,
             i < j, Posts(m_q'[j])
      PROVE  m_q'[i].id < m_q'[j].id
  <2>1. i \in 1 .. Len(m_q)
    BY <1>7, <1>0
  <2>2. CASE j \in 1 .. Len(m_q)
    <3>1. Posts(m_q[j])
      BY <1>1, <1>7, <2>2
    <3> QED BY <1>1, <1>4, <1>7, <2>1, <2>2, <3>1
  <2>3. CASE j = Len(m_q) + 1
    <3>1. m_q'[j].id = lastId + 1
      BY <1>1, <1>2, <1>7, <2>3
    <3>2. m_q'[i].id = m_q[i].id /\ m_q[i].id <= lastId /\ m_q[i].id \in Nat
      BY <1>1, <1>4, <2>1, <1>0
    <3> QED BY <3>1, <3>2, <1>0
  <2> QED BY <2>2, <2>3, <1>0
<1>8. ASSUME NEW j \in 1 .. Len(m_q) + 1, NEW id \in Seen', Posts(m_q'[j])
      PROVE  id < m_q'[j].id
  <2>1. CASE j \in 1 .. Len(m_q)
    <3>1. Posts(m_q[j]) /\ m_q'[j] = m_q[j]
      BY <1>1, <1>8, <2>1
    <3> QED BY <1>3, <1>4, <2>1, <3>1
  <2>2. CASE j = Len(m_q) + 1
    <3>1. m_q'[j].id = lastId + 1
      BY <1>1, <1>2, <1>8, <2>2
    <3>2. id \in Nat /\ id <= lastId
      BY <1>3, <1>4, <1>0
    <3> QED BY <3>1, <3>2, <1>0
  <2> QED BY <2>1, <2>2, <1>0
<1>9. IdsInOrder'
  BY <1>1, <1>5, <1>6, <1>7, <1>8 DEF IdsInOrder, Enqueues
<1>10. UniqueIds(m_scheduledCalls)' /\ InDeadlineOrder' /\ NoDrift'
  BY DEF IInv, UniqueIds, InDeadlineOrder, DeadlineOrder, NoDrift, Entries, Enqueues
<1>11. /\ (cancelled \cap (Scheduled \cup {current.id}) = {})'
       /\ (\A e \in Entries(m_scheduledCalls) : e.interval = 0 => ran[e.id] = 0)'
  BY DEF IInv, Scheduled, Entries, Enqueues
<1> QED BY <1>9, <1>10, <1>11 DEF IInv

LEMMA PostingKeeps ==
  ASSUME IInv,
         \/ \E p \in Clients \cup {Self} :
              \/ CallAsync(p) \/ CallOther(p)
              \/ \E d \in Times \ {0} : CallAt(p, d) \/ CallEvery(p, d)
         \/ \E c \in Clients :
              \/ Call(c)
              \/ \E id \in Ids : CancelFromClient(c, id)
         \/ Destroy
  PROVE  IInv'
<1>0. /\ TypeOK /\ lastId \in 0 .. MaxCalls /\ MaxCalls \in Nat /\ Times \subseteq Nat
      /\ handles \subseteq 1 .. lastId /\ handles \subseteq Ids
      /\ blocked \in [Clients -> BOOLEAN] /\ m_q \in Seq(Task)
  BY BoundsAssumption DEF IInv, TypeOK, IdsInOrder, Times
<1>1. ASSUME NEW op \in {"fn", "insert"}, NEW at \in Nat, NEW interval \in Nat,
             NEW by \in Clients \cup {NoClient}, NEW id \in Ids, NewCall(id),
             Add([op |-> op, id |-> id, at |-> at, interval |-> interval, by |-> by]),
             handles' \subseteq handles \cup {id}, blocked' \in [Clients -> BOOLEAN],
             UNCHANGED <<now, m_scheduledCalls, current, life, history>>
      PROVE  IInv'
  <2> DEFINE task == [op |-> op, id |-> id, at |-> at, interval |-> interval,
                      by |-> by]
  <2>1. /\ task \in Task /\ Posts(task) /\ task.id = lastId + 1 /\ task.id # 0
        /\ lastId' = lastId + 1 /\ lastId' \in 0 .. MaxCalls
    BY <1>0, <1>1 DEF Task, Posts, NewCall, Ids
  <2>2. m_q' = Append(m_q, task) /\ m_q' \in Seq(Task)
    BY <1>0, <1>1, <2>1, AppendProperties DEF Add
  <2> HIDE DEF task
  <2>3. handles' \subseteq 1 .. lastId' /\ handles' \subseteq Ids
    BY <1>0, <1>1, <2>1 DEF Ids, NewCall
  <2>4. Enqueues(task)
    BY <1>1, <2>1, <2>2, <2>3 DEF Enqueues, history
  <2>5. TypeOK'
    BY <1>0, <1>1, <2>1, <2>2, <2>3 DEF TypeOK, life, history
  <2> QED BY <2>4, <2>5, EnqueuesKeeps
<1>2. ASSUME NEW op \in {"remove", "end", "other"}, NEW by \in Clients \cup {NoClient},
             NEW id \in 0 .. lastId, op \notin {"end", "other"} => id # 0,
             Add([op |-> op, id |-> id, at |-> 0, interval |-> 0, by |-> by]),
             handles' \subseteq handles, blocked' \in [Clients -> BOOLEAN],
             closing' \in BOOLEAN, lastId' = lastId,
             UNCHANGED <<now, m_scheduledCalls, current, m_end, exited, history>>
      PROVE  IInv'
  <2> DEFINE task == [op |-> op, id |-> id, at |-> 0, interval |-> 0, by |-> by]
  <2>1. /\ task \in Task /\ ~Posts(task) /\ task.id <= lastId
        /\ task.op \notin {"end", "other"} => task.id # 0
    BY <1>0, <1>2 DEF Task, Posts
  <2>2. m_q' = Append(m_q, task) /\ m_q' \in Seq(Task)
    BY <1>0, <1>2, <2>1, AppendProperties DEF Add
  <2> HIDE DEF task
  <2>3. handles' \subseteq 1 .. lastId' /\ handles' \subseteq Ids
    BY <1>0, <1>2
  <2>4. Enqueues(task)
    BY <1>2, <2>1, <2>2, <2>3 DEF Enqueues, history
  <2>5. TypeOK'
    BY <1>0, <1>2, <2>2, <2>3 DEF TypeOK, history
  <2> QED BY <2>4, <2>5, EnqueuesKeeps
<1>3. ASSUME NEW p \in Clients \cup {Self}, CallAsync(p) PROVE IInv'
  BY <1>0, <1>1, <1>3 DEF CallAsync
<1>4. ASSUME NEW p \in Clients \cup {Self}, NEW at \in Times, CallAt(p, at)
      PROVE  IInv'
  BY <1>0, <1>1, <1>4 DEF CallAt
<1>5. ASSUME NEW p \in Clients \cup {Self}, NEW interval \in Times \ {0},
             CallEvery(p, interval)
      PROVE  IInv'
  BY <1>0, <1>1, <1>5 DEF CallEvery
<1>6. ASSUME NEW c \in Clients, Call(c) PROVE IInv'
  <2>1. blocked' \in [Clients -> BOOLEAN]
    BY <1>0, <1>6 DEF Call
  <2> QED BY <1>0, <1>1, <1>6, <2>1 DEF Call
<1>7. ASSUME NEW c \in Clients, NEW id \in Ids, CancelFromClient(c, id)
      PROVE  IInv'
  <2>1. blocked' \in [Clients -> BOOLEAN]
    BY <1>0, <1>7 DEF CancelFromClient
  <2>2. id \in 0 .. lastId /\ id # 0
    BY <1>0, <1>7 DEF CancelFromClient
  <2>3. closing' \in BOOLEAN
    BY <1>0, <1>7 DEF CancelFromClient, TypeOK, life
  <2> QED BY <1>2, <1>7, <2>1, <2>2, <2>3 DEF CancelFromClient, life
<1>8. ASSUME Destroy PROVE IInv'
  <2>1. 0 \in 0 .. lastId
    BY <1>0
  <2>2. closing' \in BOOLEAN /\ blocked' \in [Clients -> BOOLEAN]
    BY <1>0, <1>8 DEF Destroy, calls
  <2> QED BY <1>2, <1>8, <2>1, <2>2 DEF Destroy, calls
<1>9. ASSUME NEW p \in Clients \cup {Self}, CallOther(p) PROVE IInv'
  <2>1. 0 \in 0 .. lastId
    BY <1>0
  <2>2. closing' \in BOOLEAN /\ blocked' \in [Clients -> BOOLEAN]
    BY <1>0, <1>9 DEF CallOther, calls, life, TypeOK
  <2> QED BY <1>2, <1>9, <2>1, <2>2 DEF CallOther, calls, life
<1> QED BY <1>3, <1>4, <1>5, <1>6, <1>7, <1>8, <1>9

LEMMA DequeueKeepsOrder ==
  ASSUME IInv, m_q # <<>>, m_q' = Tail(m_q), lastId' = lastId,
         handles' \subseteq handles, Seen' \subseteq Seen \cup {Head(m_q).id}
  PROVE  /\ Head(m_q) \in Task /\ Tail(m_q) \in Seq(Task)
         /\ Head(m_q).op \notin {"end", "other"} => Head(m_q).id \in Ids
         /\ Posts(Head(m_q)) => \A id \in Seen : id < Head(m_q).id
         /\ IdsInOrder'
<1>0. /\ lastId \in Nat /\ Len(m_q) \in Nat \ {0} /\ Seen \subseteq Nat
      /\ DOMAIN m_q = 1 .. Len(m_q)
      /\ \A i \in 1 .. Len(m_q) : m_q[i].id \in Nat
  BY IInvTypes, EmptySeq DEF IInv, TypeOK
<1>1. /\ Head(m_q) = m_q[1] /\ Head(m_q) \in Task /\ Tail(m_q) \in Seq(Task)
      /\ DOMAIN m_q' = 1 .. Len(m_q) - 1
      /\ \A i \in 1 .. Len(m_q) - 1 : m_q'[i] = m_q[i + 1]
  BY <1>0, HeadTailProperties, LenProperties DEF IInv, TypeOK
<1>2. /\ \A i \in 1 .. Len(m_q) : /\ m_q[i].id <= lastId
                                  /\ m_q[i].op \notin {"end", "other"} => m_q[i].id # 0
      /\ \A id \in Seen : id <= lastId
      /\ \A i, j \in 1 .. Len(m_q) :
           i < j /\ Posts(m_q[j]) => m_q[i].id < m_q[j].id
      /\ \A j \in 1 .. Len(m_q), id \in Seen : Posts(m_q[j]) => id < m_q[j].id
  BY <1>0 DEF IInv, IdsInOrder
<1>3. Head(m_q).op \notin {"end", "other"} => Head(m_q).id \in Ids
  BY <1>0, <1>1, <1>2, BoundsAssumption DEF Task, Ids
<1>4. Posts(Head(m_q)) => \A id \in Seen : id < Head(m_q).id
  BY <1>0, <1>1, <1>2
<1>5. \A id \in Seen' : id <= lastId'
  BY <1>0, <1>1, <1>2
<1>6. \A i \in 1 .. Len(m_q) - 1 :
        m_q'[i].id <= lastId' /\ (m_q'[i].op \notin {"end", "other"} => m_q'[i].id # 0)
  BY <1>0, <1>1, <1>2
<1>7. ASSUME NEW i \in 1 .. Len(m_q) - 1, NEW j \in 1 .. Len(m_q) - 1,
             i < j, Posts(m_q'[j])
      PROVE  m_q'[i].id < m_q'[j].id
  <2>1. /\ i + 1 \in 1 .. Len(m_q) /\ j + 1 \in 1 .. Len(m_q) /\ i + 1 < j + 1
        /\ m_q'[i] = m_q[i + 1] /\ m_q'[j] = m_q[j + 1]
    BY <1>0, <1>1, <1>7
  <2> QED BY <1>2, <1>7, <2>1
<1>8. ASSUME NEW j \in 1 .. Len(m_q) - 1, NEW id \in Seen', Posts(m_q'[j])
      PROVE  id < m_q'[j].id
  <2>1. /\ j + 1 \in 1 .. Len(m_q) /\ 1 \in 1 .. Len(m_q) /\ 1 < j + 1
        /\ m_q'[j] = m_q[j + 1]
    BY <1>0, <1>1
  <2> QED BY <1>1, <1>2, <1>8, <2>1
<1>9. handles' \subseteq 1 .. lastId'
  BY DEF IInv, IdsInOrder
<1>10. IdsInOrder'
  BY <1>1, <1>5, <1>6, <1>7, <1>8, <1>9 DEF IdsInOrder
<1> QED BY <1>1, <1>3, <1>4, <1>10

LEMMA SameQueueKeepsOrder ==
  ASSUME IInv, UNCHANGED <<m_q, lastId>>,
         handles' \subseteq handles, Seen' \subseteq Seen \cup {0}
  PROVE  IdsInOrder'
<1>1. /\ lastId \in Nat /\ DOMAIN m_q = 1 .. Len(m_q)
      /\ \A i \in 1 .. Len(m_q) : m_q[i].id \in Nat
  BY IInvTypes
<1>2. \A j \in DOMAIN m_q : Posts(m_q[j]) => m_q[j].id # 0
  BY DEF IInv, IdsInOrder, Posts
<1> QED BY <1>1, <1>2 DEF IInv, IdsInOrder

LEMMA BumpProperties ==
  ASSUME NEW f \in [Ids -> Nat], NEW i \in Ids
  PROVE  /\ [f EXCEPT ![i] = @ + 1] \in [Ids -> Nat]
         /\ f[i] \in Nat /\ (~(f[i] > 0) => f[i] = 0)
  OBVIOUS

LEMMA ThreadKeeps ==
  ASSUME IInv, StartFn \/ RunOther \/ RunInsert \/ RunRemove \/ RunEnd
  PROVE  IInv'
<1>0. /\ TypeOK /\ Scheduled \subseteq Ids /\ Scheduled \subseteq Seen
      /\ cancelled \subseteq Seen /\ Ids \subseteq Nat
      /\ \A id \in Ids : ran[id] > 0 => id \in Seen
      /\ Entries(m_scheduledCalls) \subseteq CallData
      /\ \A e \in Entries(m_scheduledCalls) : e.id \in Scheduled
      /\ Seen \subseteq Nat /\ \A n \in Nat : ~(n < n)
  BY IInvTypes, EntriesProperties DEF IInv, TypeOK, Seen, Scheduled
<1>p. /\ Entries(m_scheduledCalls)' = Entries(m_scheduledCalls')
      /\ UniqueIds(m_scheduledCalls)' = UniqueIds(m_scheduledCalls')
      /\ InDeadlineOrder' = DeadlineOrder(m_scheduledCalls')
  BY DEF Entries, UniqueIds, InDeadlineOrder, DeadlineOrder
<1> DEFINE h == Head(m_q)
<1>1. CASE StartFn
  <2>1. /\ m_q # <<>> /\ m_q' = Tail(m_q) /\ lastId' = lastId /\ handles' = handles
        /\ Posts(h) /\ h.op \notin {"end", "other"}
        /\ current' = [timed |-> FALSE, id |-> h.id, by |-> h.by]
        /\ ran' = [ran EXCEPT ![h.id] = @ + 1]
        /\ UNCHANGED <<m_scheduledCalls, cancelled, armed>>
    BY <1>1 DEF StartFn, TakesTask, Posts, calls
  <2>2. Scheduled' = Scheduled
    BY <2>1 DEF Scheduled, Entries
  <2>3. Seen' \subseteq Seen \cup {h.id}
    BY <1>0, <2>1, <2>2 DEF Seen, TypeOK
  <2>4. /\ h \in Task /\ Tail(m_q) \in Seq(Task) /\ h.id \in Ids
        /\ \A id \in Seen : id < h.id
        /\ IdsInOrder'
    BY <2>1, <2>3, DequeueKeepsOrder
  <2>5. TypeOK'
    <3>1. current' \in Running
      BY <2>1, <2>4 DEF Running, Task
    <3>2. ran' \in [Ids -> Nat]
      BY <1>0, <2>1, <2>4, BumpProperties DEF TypeOK
    <3> QED BY <1>0, <1>1, <2>1, <2>4, <3>1, <3>2 DEF TypeOK, StartFn, life, calls
  <2>6. h.id \notin Seen
    BY <1>0, <2>4
  <2>7. \A e \in Entries(m_scheduledCalls) : ran'[e.id] = ran[e.id]
    BY <1>0, <2>1, <2>6 DEF TypeOK
  <2>8. UniqueIds(m_scheduledCalls)' /\ InDeadlineOrder' /\ NoDrift'
    BY <2>1, <2>7 DEF IInv, UniqueIds, InDeadlineOrder, DeadlineOrder, NoDrift, Entries
  <2>9. /\ (cancelled \cap (Scheduled \cup {current.id}) = {})'
        /\ (\A e \in Entries(m_scheduledCalls) : e.interval = 0 => ran[e.id] = 0)'
    <3>1. current'.id = h.id
      BY <2>1
    <3> QED BY <1>0, <2>1, <2>2, <2>6, <2>7, <3>1 DEF IInv, Entries
  <2> QED BY <2>4, <2>5, <2>8, <2>9 DEF IInv
<1>2. CASE RunInsert
  <2> DEFINE c == [id |-> h.id,
                   at |-> IF h.interval # 0 THEN now + h.interval ELSE h.at,
                   interval |-> h.interval]
  <2>1. /\ m_q # <<>> /\ m_q' = Tail(m_q) /\ lastId' = lastId /\ handles' = handles
        /\ Posts(h) /\ h.op \notin {"end", "other"}
        /\ m_scheduledCalls' = Insert(m_scheduledCalls, c)
        /\ armed' = [armed EXCEPT ![h.id] = now]
        /\ UNCHANGED <<now, current, ran, cancelled>>
    BY <1>2 DEF RunInsert, TakesTask, Posts, calls
  <2>2. h \in Task
    BY <2>1, IInvTypes, HeadTailProperties DEF IInv, TypeOK
  <2>3. now \in Nat /\ h.interval \in Nat /\ h.at \in Nat
    BY <1>0, <2>2, BoundsAssumption DEF TypeOK, Times, Task
  <2>4. h.id \in Ids
    <3>1. h.id \in 0 .. MaxCalls /\ h.id # 0
      BY <2>1, <2>2, EmptySeq, IInvTypes, HeadTailProperties
         DEF IInv, IdsInOrder, TypeOK, Task
    <3> QED BY <3>1, BoundsAssumption DEF Ids
  <2>5. c \in CallData /\ c.id = h.id /\ c.interval = h.interval
    BY <2>3, <2>4 DEF CallData
  <2>6. c.interval # 0 => c.at = now + c.interval
    BY <2>5
  <2> HIDE DEF c
  <2>7. /\ m_scheduledCalls' \in Seq(CallData)
        /\ Entries(m_scheduledCalls)' = Entries(m_scheduledCalls) \cup {c}
    BY <1>0, <1>p, <2>1, <2>5, InsertProperties DEF TypeOK
  <2>8. Scheduled' = Scheduled \cup {h.id}
    BY <2>5, <2>7 DEF Scheduled
  <2>9. Seen' \subseteq Seen \cup {h.id}
    BY <2>1, <2>8 DEF Seen
  <2>10. /\ Tail(m_q) \in Seq(Task)
         /\ \A id \in Seen : id < h.id
         /\ IdsInOrder'
    BY <2>1, <2>9, DequeueKeepsOrder
  <2>11. h.id \notin Seen /\ ran[h.id] = 0
    <3>1. h.id \notin Seen
      BY <1>0, <2>4, <2>10
    <3>2. ran[h.id] \in Nat /\ (~(ran[h.id] > 0) => ran[h.id] = 0)
      BY <1>0, <2>4, BumpProperties DEF TypeOK
    <3> QED BY <1>0, <2>4, <3>1, <3>2
  <2>12. TypeOK'
    <3>1. armed' \in [Ids -> Nat]
      BY <1>0, <2>1, <2>3 DEF TypeOK
    <3> QED BY <1>0, <1>2, <2>1, <2>7, <2>10, <3>1 DEF TypeOK, RunInsert, life, calls
  <2>13. \A e \in Entries(m_scheduledCalls) : e.id # c.id /\ c.id > e.id
    BY <1>0, <2>4, <2>5, <2>10, <2>11
  <2>14. UniqueIds(m_scheduledCalls)'
    BY <1>0, <1>p, <2>1, <2>5, <2>13, InsertProperties DEF IInv, TypeOK
  <2>15. InDeadlineOrder'
    BY <1>0, <1>p, <2>1, <2>5, <2>13, InsertProperties
       DEF IInv, TypeOK, InDeadlineOrder
  <2>16. NoDrift'
    <3>1. ASSUME NEW e \in Entries(m_scheduledCalls), e.interval > 0
          PROVE  e.at = armed'[e.id] + (ran'[e.id] + 1) * e.interval
      <4>1. armed'[e.id] = armed[e.id] /\ ran'[e.id] = ran[e.id]
        BY <1>0, <2>1, <2>5, <2>13 DEF TypeOK
      <4> QED BY <3>1, <4>1 DEF IInv, NoDrift
    <3>2. ASSUME c.interval > 0
          PROVE  c.at = armed'[c.id] + (ran'[c.id] + 1) * c.interval
      <4>1. armed'[c.id] = now /\ ran'[c.id] = 0
        BY <1>0, <2>1, <2>4, <2>5, <2>11 DEF TypeOK
      <4> QED BY <2>3, <2>5, <2>6, <3>2, <4>1
    <3> QED BY <2>7, <3>1, <3>2 DEF NoDrift
  <2>17. (cancelled \cap (Scheduled \cup {current.id}) = {})'
    BY <1>0, <2>1, <2>8, <2>11 DEF IInv
  <2>18. (\A e \in Entries(m_scheduledCalls) : e.interval = 0 => ran[e.id] = 0)'
    BY <2>1, <2>5, <2>7, <2>11 DEF IInv
  <2> QED BY <2>10, <2>12, <2>14, <2>15, <2>16, <2>17, <2>18 DEF IInv
<1>3. CASE RunRemove
  <2>1. /\ m_q # <<>> /\ m_q' = Tail(m_q) /\ lastId' = lastId /\ handles' = handles
        /\ h.op \notin {"end", "other"}
        /\ m_scheduledCalls' = Remove(m_scheduledCalls, h.id)
        /\ cancelled' = cancelled \cup {h.id}
        /\ current = Idle
        /\ UNCHANGED <<current, ran, armed>>
    BY <1>3 DEF RunRemove, TakesTask, InRunOne
  <2>2. /\ m_scheduledCalls' \in Seq(CallData)
        /\ Entries(m_scheduledCalls)' \subseteq Entries(m_scheduledCalls)
        /\ UniqueIds(m_scheduledCalls)'
        /\ \A e \in Entries(m_scheduledCalls)' : e.id # h.id
        /\ InDeadlineOrder'
    BY <1>0, <1>p, <2>1, RemoveKeeps DEF IInv, TypeOK, InDeadlineOrder
  <2>3. Scheduled' \subseteq Scheduled /\ h.id \notin Scheduled'
    BY <2>2 DEF Scheduled
  <2>4. Seen' \subseteq Seen \cup {h.id}
    BY <2>1, <2>3 DEF Seen
  <2>5. Tail(m_q) \in Seq(Task) /\ h.id \in Ids /\ IdsInOrder'
    BY <2>1, <2>4, DequeueKeepsOrder
  <2>6. TypeOK'
    <3>1. blocked' \in [Clients -> BOOLEAN]
      BY <1>3 DEF RunRemove, Release
    <3> QED BY <1>0, <1>3, <2>1, <2>2, <2>5, <3>1 DEF TypeOK, RunRemove, life
  <2>7. NoDrift'
    BY <2>1, <2>2 DEF IInv, NoDrift
  <2>8. (cancelled \cap (Scheduled \cup {current.id}) = {})'
    <3>1. h.id # current'.id
      BY <1>0, <2>1, <2>5 DEF Idle, Ids
    <3> QED BY <2>1, <2>3, <3>1 DEF IInv
  <2>9. (\A e \in Entries(m_scheduledCalls) : e.interval = 0 => ran[e.id] = 0)'
    BY <2>1, <2>2 DEF IInv
  <2> QED BY <2>2, <2>5, <2>6, <2>7, <2>8, <2>9 DEF IInv
<1>4. CASE RunOther \/ RunEnd
  <2>1. /\ m_q # <<>> /\ m_q' = Tail(m_q) /\ lastId' = lastId /\ handles' = handles
        /\ UNCHANGED <<m_scheduledCalls, current, ran, armed, cancelled>>
    BY <1>4 DEF RunOther, RunEnd, TakesTask, calls, history
  <2>2. Seen' = Seen /\ Scheduled' = Scheduled
    BY <2>1 DEF Seen, Scheduled, Entries
  <2>3. Tail(m_q) \in Seq(Task) /\ IdsInOrder'
    BY <2>1, <2>2, DequeueKeepsOrder
  <2>4. TypeOK'
    BY <1>0, <1>4, <2>1, <2>3 DEF TypeOK, RunOther, RunEnd, calls, life, history
  <2>5. UniqueIds(m_scheduledCalls)' /\ InDeadlineOrder' /\ NoDrift'
    BY <2>1 DEF IInv, UniqueIds, InDeadlineOrder, DeadlineOrder, NoDrift, Entries
  <2>6. /\ (cancelled \cap (Scheduled \cup {current.id}) = {})'
        /\ (\A e \in Entries(m_scheduledCalls) : e.interval = 0 => ran[e.id] = 0)'
    BY <2>1, <2>2 DEF IInv, Entries
  <2> QED BY <2>3, <2>4, <2>5, <2>6 DEF IInv
<1> QED BY <1>1, <1>2, <1>3, <1>4

\* Pop takes the last entry out and may put it back one interval later.
LEMMA StartTimedKeeps ==
  ASSUME IInv, StartTimed
  PROVE  IInv'
<1> DEFINE s == m_scheduledCalls
           n == NextCall
           rest == PopBack(s)
           again == [n EXCEPT !.at = @ + n.interval]
<1>0. /\ TypeOK /\ Scheduled \subseteq Ids /\ Scheduled \subseteq Seen
      /\ cancelled \subseteq Seen /\ Ids \subseteq Nat
      /\ \A id \in Ids : ran[id] > 0 => id \in Seen
      /\ \A e \in Entries(s) : e.id \in Scheduled /\ e \in CallData
      /\ UniqueIds(s) /\ DeadlineOrder(s)
  BY IInvTypes, EntriesProperties
     DEF IInv, TypeOK, Seen, Scheduled, InDeadlineOrder
<1>p. /\ Entries(m_scheduledCalls)' = Entries(m_scheduledCalls')
      /\ UniqueIds(m_scheduledCalls)' = UniqueIds(m_scheduledCalls')
      /\ InDeadlineOrder' = DeadlineOrder(m_scheduledCalls')
  BY DEF Entries, UniqueIds, InDeadlineOrder, DeadlineOrder
<1>1. /\ s \in Seq(CallData) /\ s # <<>>
      /\ m_scheduledCalls' = IF n.interval # 0 THEN Insert(rest, again) ELSE rest
      /\ current' = [timed |-> TRUE, id |-> n.id, by |-> NoClient]
      /\ ran' = [ran EXCEPT ![n.id] = @ + 1]
      /\ UNCHANGED <<now, m_q, lastId, handles, cancelled, armed,
                     m_end, exited, closing, blocked>>
  BY <1>0 DEF StartTimed, Popped, calls, life, TypeOK
<1>2. /\ n \in CallData /\ n \in Entries(s)
      /\ rest \in Seq(CallData)
      /\ Entries(rest) \subseteq Entries(s)
      /\ UniqueIds(rest) /\ DeadlineOrder(rest)
      /\ \A e \in Entries(rest) : e.id # n.id
  BY <1>0, <1>1, PopBackKeeps DEF NextCall
<1> HIDE DEF n, rest
<1>3. /\ n.id \in Ids /\ n.at \in Nat /\ n.interval \in Nat
      /\ again \in CallData /\ again.id = n.id /\ again.interval = n.interval
      /\ again.at = n.at + n.interval
  <2>1. n.id \in Ids /\ n.at \in Nat /\ n.interval \in Nat
    BY <1>2 DEF CallData
  <2>2. /\ DOMAIN n = {"id", "at", "interval"}
        /\ n = [id |-> n.id, at |-> n.at, interval |-> n.interval]
    BY <1>2 DEF CallData
  <2>3. again = [id |-> n.id, at |-> n.at + n.interval, interval |-> n.interval]
    BY <2>2
  <2> QED BY <2>1, <2>3 DEF CallData
<1> HIDE DEF again
<1>4. /\ m_scheduledCalls' \in Seq(CallData)
      /\ UniqueIds(m_scheduledCalls)'
      /\ InDeadlineOrder'
      /\ Entries(m_scheduledCalls)' \subseteq
           Entries(rest) \cup (IF n.interval # 0 THEN {again} ELSE {})
  <2>1. CASE n.interval # 0
    <3>1. m_scheduledCalls' = Insert(rest, again)
      BY <1>1, <2>1
    <3>2. \A e \in Entries(rest) :
            /\ e.id # again.id
            /\ ~(e.at = again.at /\ e.interval = 0 /\ again.interval = 0)
      BY <1>2, <1>3, <2>1
    <3> QED BY <1>2, <1>3, <1>p, <2>1, <3>1, <3>2, InsertProperties
  <2>2. CASE n.interval = 0
    <3>1. m_scheduledCalls' = rest
      BY <1>1, <2>2
    <3> QED BY <1>2, <1>p, <3>1
  <2> QED BY <2>1, <2>2
<1>5. Scheduled' \subseteq Scheduled
  BY <1>0, <1>2, <1>3, <1>4 DEF Scheduled
<1>6. n.id \in Scheduled /\ n.id \notin cancelled /\ n.id \in Seen
  BY <1>0, <1>2 DEF IInv
<1>7. Seen' \subseteq Seen
  <2>1. \A id \in Ids : ran'[id] > 0 => id = n.id \/ ran[id] > 0
    BY <1>0, <1>1, <1>3 DEF TypeOK
  <2>2. current'.id = n.id
    BY <1>1
  <2> QED BY <1>0, <1>1, <1>5, <1>6, <2>1, <2>2 DEF Seen
<1>8. IdsInOrder'
  BY <1>1, <1>7, SameQueueKeepsOrder
<1>9. TypeOK'
  <2>1. current' \in Running
    BY <1>1, <1>3, BoundsAssumption DEF Running, Ids
  <2>2. ran' \in [Ids -> Nat]
    BY <1>0, <1>1, <1>3, BumpProperties DEF TypeOK
  <2> QED BY <1>0, <1>1, <1>4, <2>1, <2>2 DEF TypeOK
<1>10. \A e \in Entries(rest) : ran'[e.id] = ran[e.id]
  BY <1>0, <1>1, <1>2, <1>3 DEF TypeOK
<1>11. ran'[n.id] = ran[n.id] + 1 /\ ran[n.id] \in Nat /\ armed[n.id] \in Nat
  BY <1>0, <1>1, <1>3 DEF TypeOK
<1>12. NoDrift'
  <2>1. ASSUME NEW e \in Entries(rest), e.interval > 0
        PROVE  e.at = armed'[e.id] + (ran'[e.id] + 1) * e.interval
    BY <1>1, <1>2, <1>10, <2>1 DEF IInv, NoDrift
  <2>2. ASSUME n.interval # 0
        PROVE  again.at = armed'[again.id] + (ran'[again.id] + 1) * again.interval
    <3>1. n.at = armed[n.id] + (ran[n.id] + 1) * n.interval
      BY <1>2, <1>3, <2>2 DEF IInv, NoDrift
    <3>2. \A r, v, a \in Nat :
            (a + (r + 1) * v) + v = a + ((r + 1) + 1) * v
      OBVIOUS
    <3>3. again.at = (armed[n.id] + (ran[n.id] + 1) * n.interval) + n.interval
      BY <1>3, <3>1
    <3>4. (armed[n.id] + (ran[n.id] + 1) * n.interval) + n.interval
            = armed[n.id] + ((ran[n.id] + 1) + 1) * n.interval
      BY <1>3, <1>11, <3>2
    <3>5. armed' = armed /\ again.id = n.id /\ again.interval = n.interval
      BY <1>1, <1>3
    <3> QED BY <1>11, <3>3, <3>4, <3>5
  <2> QED BY <1>4, <2>1, <2>2 DEF NoDrift
<1>13. (cancelled \cap (Scheduled \cup {current.id}) = {})'
  BY <1>1, <1>5, <1>6 DEF IInv
<1>14. (\A e \in Entries(m_scheduledCalls) : e.interval = 0 => ran[e.id] = 0)'
  BY <1>2, <1>3, <1>4, <1>10 DEF IInv
<1> QED BY <1>4, <1>8, <1>9, <1>12, <1>13, <1>14 DEF IInv

LEMMA OthersKeep ==
  ASSUME IInv,
         \/ Finish \/ Exit \/ Tick \/ UNCHANGED vars
         \/ \E id \in Ids : CancelFromSelf(id)
  PROVE  IInv'
<1>1. CASE Finish \/ Exit \/ Tick \/ UNCHANGED vars
  <2>1. /\ UNCHANGED <<m_q, m_scheduledCalls, lastId, handles, ran, armed, cancelled>>
        /\ current' = current \/ current' = Idle
    BY <1>1 DEF Finish, Exit, Tick, vars, life, calls, history
  <2>2. Scheduled' = Scheduled
    BY <2>1 DEF Scheduled, Entries
  <2>3. current'.id = current.id \/ current'.id = 0
    BY <2>1 DEF Idle
  <2>4. Seen' \subseteq Seen \cup {0}
    BY <2>1, <2>2, <2>3 DEF Seen
  <2>5. IdsInOrder'
    BY <2>1, <2>4, SameQueueKeepsOrder
  <2>6. TypeOK'
    <3>1. Idle \in Running
      BY BoundsAssumption DEF Idle, Running
    <3>2. now' \in Times
      BY <1>1, BoundsAssumption
         DEF IInv, TypeOK, Times, Finish, Exit, Tick, vars, life, calls, history
    <3>3. m_end' \in BOOLEAN /\ exited' \in BOOLEAN /\ closing' \in BOOLEAN
      BY <1>1 DEF IInv, TypeOK, Finish, Exit, Tick, vars, life, calls, history
    <3>4. blocked' \in [Clients -> BOOLEAN]
      BY <1>1 DEF IInv, TypeOK, Finish, Exit, Tick, vars, life, calls, history, Release
    <3> QED BY <2>1, <3>1, <3>2, <3>3, <3>4 DEF IInv, TypeOK
  <2>7. UniqueIds(m_scheduledCalls)' /\ InDeadlineOrder' /\ NoDrift'
    BY <2>1 DEF IInv, UniqueIds, InDeadlineOrder, DeadlineOrder, NoDrift, Entries
  <2>8. (cancelled \cap (Scheduled \cup {current.id}) = {})'
    <3>1. 0 \notin cancelled
      BY DEF IInv, TypeOK, Ids
    <3> QED BY <2>1, <2>2, <2>3, <3>1 DEF IInv
  <2>9. (\A e \in Entries(m_scheduledCalls) : e.interval = 0 => ran[e.id] = 0)'
    BY <2>1 DEF IInv, Entries
  <2> QED BY <2>5, <2>6, <2>7, <2>8, <2>9 DEF IInv
<1>2. ASSUME NEW id \in Ids, CancelFromSelf(id) PROVE IInv'
  <2>0. /\ Entries(m_scheduledCalls)' = Entries(m_scheduledCalls')
        /\ UniqueIds(m_scheduledCalls)' = UniqueIds(m_scheduledCalls')
        /\ InDeadlineOrder' = DeadlineOrder(m_scheduledCalls')
    BY DEF Entries, UniqueIds, InDeadlineOrder, DeadlineOrder
  <2>1. /\ m_scheduledCalls' = Remove(m_scheduledCalls, id)
        /\ handles' \subseteq handles
        /\ UNCHANGED <<m_q, lastId, current, ran, armed, cancelled, now, blocked,
                       m_end, exited, closing>>
    BY <1>2 DEF CancelFromSelf, life
  <2>2. /\ m_scheduledCalls' \in Seq(CallData)
        /\ Entries(m_scheduledCalls)' \subseteq Entries(m_scheduledCalls)
        /\ UniqueIds(m_scheduledCalls)'
        /\ InDeadlineOrder'
    BY <2>0, <2>1, RemoveKeeps DEF IInv, TypeOK, InDeadlineOrder
  <2>3. Scheduled' \subseteq Scheduled
    BY <2>2 DEF Scheduled
  <2>4. Seen' \subseteq Seen \cup {0}
    BY <2>1, <2>3 DEF Seen
  <2>5. IdsInOrder'
    BY <2>1, <2>4, SameQueueKeepsOrder
  <2>6. TypeOK'
    BY <2>1, <2>2 DEF IInv, TypeOK
  <2>7. NoDrift'
    BY <2>1, <2>2 DEF IInv, NoDrift
  <2>8. (cancelled \cap (Scheduled \cup {current.id}) = {})'
    BY <2>1, <2>3 DEF IInv
  <2>9. (\A e \in Entries(m_scheduledCalls) : e.interval = 0 => ran[e.id] = 0)'
    BY <2>1, <2>2 DEF IInv
  <2> QED BY <2>2, <2>5, <2>6, <2>7, <2>8, <2>9 DEF IInv
<1> QED BY <1>1, <1>2

------------------------------------------------------------------------------
(* The theorems *)

(* The inductive invariant holds of ActiveExecutor, for any clients, calls and
   deadlines: Init and every step of Next establish it. *)
THEOREM ExecutorInvariant == Spec => []IInv
<1>1. Init => IInv
  BY InitIInv
<1>2. IInv /\ [Next]_vars => IInv'
  <2> SUFFICES ASSUME IInv, [Next]_vars PROVE IInv'
    OBVIOUS
  <2>1. CASE RunOne
    BY <2>1, ThreadKeeps, StartTimedKeeps, OthersKeep DEF RunOne
  <2>2. CASE Next /\ ~RunOne
    BY <2>2, PostingKeeps, OthersKeep DEF Next
  <2>3. CASE UNCHANGED vars
    BY <2>3, OthersKeep
  <2> QED BY <2>1, <2>2, <2>3
<1> QED BY <1>1, <1>2, PTL DEF Spec

(* Every variable of the executor keeps its type; in particular deadlines are
   never negative and only ids that were drawn are queued or scheduled. *)
THEOREM ExecutorTypeCorrect == Spec => []TypeOK
BY ExecutorInvariant, PTL DEF IInv

(* TimedCalls stays sorted: what RunOne takes from the back of
   m_scheduledCalls is due first, and one-shot calls with one deadline leave
   in the order they came. *)
THEOREM DeadlinesInOrder == Spec => []InDeadlineOrder
BY ExecutorInvariant, PTL DEF IInv

(* A periodic call is never re-armed relative to the time it ran. *)
THEOREM PeriodicCallsDoNotDrift == Spec => []NoDrift
BY ExecutorInvariant, PTL DEF IInv

(* TimedExecutor::Cancel, when it has returned to another thread, has left
   nothing behind that runs the call or could start it. *)
THEOREM CancelledCallsStayCancelled == Spec => []CancelIsFinal
<1>1. IInv => CancelIsFinal
  <2> SUFFICES ASSUME IInv PROVE CancelIsFinal
    OBVIOUS
  <2>1. \A id \in Posted : id \notin cancelled
    <3> SUFFICES ASSUME NEW j \in DOMAIN m_q, Posts(m_q[j]), m_q[j].id \in cancelled
                 PROVE  FALSE
      BY DEF Posted
    <3>1. m_q[j].id \in Seen /\ m_q[j].id \in Nat
      BY IInvTypes DEF Seen
    <3>2. m_q[j].id < m_q[j].id
      BY <3>1 DEF IInv, IdsInOrder
    <3> QED BY <3>1, <3>2
  <2> QED BY <2>1 DEF IInv, CancelIsFinal
<1> QED BY <1>1, ExecutorInvariant, PTL

(* No function is started twice for one post. *)
THEOREM NothingStartsTwice == Spec => []StartedOnce
<1>1. IInv => StartedOnce
  <2> SUFFICES ASSUME IInv, NEW id \in Ids, ran[id] > 0
               PROVE  /\ id \notin Posted
                      /\ \A e \in Entries(m_scheduledCalls) :
                           e.id = id => e.interval > 0
    BY DEF StartedOnce
  <2>1. id \notin Posted
    <3> SUFFICES ASSUME NEW j \in DOMAIN m_q, Posts(m_q[j]), m_q[j].id = id
                 PROVE  FALSE
      BY DEF Posted
    <3>1. id \in Seen /\ id \in Nat
      BY IInvTypes DEF Seen
    <3>2. id < id
      BY <3>1 DEF IInv, IdsInOrder
    <3> QED BY <3>1, <3>2
  <2>2. ASSUME NEW e \in Entries(m_scheduledCalls), e.id = id
        PROVE  e.interval > 0
    <3>1. e.interval \in Nat
      BY EntriesProperties DEF IInv, TypeOK, CallData
    <3> QED BY <2>2, <3>1 DEF IInv
  <2> QED BY <2>1, <2>2
<1> QED BY <1>1, ExecutorInvariant, PTL

------------------------------------------------------------------------------
(* The refinement: what clients wait for *)

\* What m_q holds, its order left out.
Items == Told(m_q)

OneTask(s) ==
  \A i, j \in DOMAIN s : s[i] = s[j] /\ s[i].op # "other" => i = j

\* A client waits for one task at most: one in m_q, or the one that runs.  An id
\* is removed for a client once.
RInv ==
  /\ OneTask(m_q)
  /\ \A t \in Items :
       /\ t.op \in {"insert", "end"} => t.by = NoClient
       /\ t.op = "remove" => /\ t.by \in Clients
                             /\ t.id \notin handles /\ t.id \notin cancelled
       /\ t.by \in Clients => current.by # t.by /\ blocked[t.by]
       /\ t.op = "end" => closing
  /\ \A t, u \in Items :
       \/ t = u
       \/ /\ t.by \in Clients => t.by # u.by
          /\ t.op = "remove" /\ u.op = "remove" => t.id # u.id
  /\ current.by \in Clients => blocked[current.by]
  /\ current = Idle \/ current.id \in Ids
  /\ \A id \in handles : id \notin cancelled

LEMMA EntriesAppend ==
  ASSUME NEW s \in Seq(Task), NEW t \in Task
  PROVE  /\ t.op # "other" => Told(Append(s, t)) = Told(s) \cup {t}
         /\ t.op = "other" => Told(Append(s, t)) = Told(s)
         /\ OneTask(s) /\ (t \notin Told(s)) => OneTask(Append(s, t))
<1> DEFINE u == Append(s, t)
<1>1. /\ Len(s) \in Nat /\ DOMAIN s = 1 .. Len(s)
      /\ \A i \in 1 .. Len(s) : s[i] \in Entries(s)
      /\ \A e \in Entries(s) : \E i \in 1 .. Len(s) : e = s[i]
  BY LenProperties DEF Entries
<1>2. /\ u \in Seq(Task) /\ Len(u) = Len(s) + 1
      /\ \A i \in 1 .. Len(s) : u[i] = s[i]
      /\ u[Len(s) + 1] = t
  BY AppendProperties
<1>3. /\ DOMAIN u = 1 .. Len(s) + 1
      /\ \A e \in Entries(u) : \E i \in 1 .. Len(s) + 1 : e = u[i]
      /\ \A i \in 1 .. Len(s) + 1 : u[i] \in Entries(u)
  <2> HIDE DEF u
  <2>1. DOMAIN u = 1 .. Len(u)
    BY <1>2, LenProperties
  <2> QED BY <1>2, <2>1 DEF Entries
<1> HIDE DEF u
<1>4. \A i \in 1 .. Len(s) + 1 : i \in 1 .. Len(s) \/ i = Len(s) + 1
  BY <1>1
<1>5. \A i \in 1 .. Len(s) : i \in 1 .. Len(s) + 1
  BY <1>1
<1>6. Len(s) + 1 \in 1 .. Len(s) + 1
  BY <1>1
<1>7. Entries(u) \subseteq Entries(s) \cup {t}
  <2> SUFFICES ASSUME NEW e \in Entries(u) PROVE e \in Entries(s) \cup {t}
    OBVIOUS
  <2>1. PICK i \in 1 .. Len(s) + 1 : e = u[i]
    BY <1>3
  <2> QED BY <1>1, <1>2, <1>4, <2>1
<1>8. Entries(s) \cup {t} \subseteq Entries(u)
  <2> SUFFICES ASSUME NEW e \in Entries(s) \cup {t} PROVE e \in Entries(u)
    OBVIOUS
  <2>1. CASE e = t
    BY <1>2, <1>3, <1>6, <2>1
  <2>2. CASE e \in Entries(s)
    <3>1. PICK i \in 1 .. Len(s) : e = s[i]
      BY <1>1, <2>2
    <3> QED BY <1>2, <1>3, <1>5, <3>1
  <2> QED BY <2>1, <2>2
<1>9. ASSUME OneTask(s), t \notin Told(s) PROVE OneTask(u)
  <2> SUFFICES ASSUME NEW i \in 1 .. Len(s) + 1, NEW j \in 1 .. Len(s) + 1, u[i] = u[j],
                      u[i].op # "other"
               PROVE  i = j
    BY <1>3 DEF OneTask
  <2>1. CASE i \in 1 .. Len(s) /\ j \in 1 .. Len(s)
    BY <1>1, <1>2, <1>9, <2>1 DEF OneTask
  <2>2. CASE ~(i \in 1 .. Len(s) /\ j \in 1 .. Len(s))
    BY <1>1, <1>2, <1>4, <1>9, <2>2 DEF Told
  <2> QED BY <2>1, <2>2
<1>10. Entries(u) = Entries(s) \cup {t}
  BY <1>7, <1>8
<1> QED BY <1>9, <1>10 DEF u, Told

LEMMA EntriesTail ==
  ASSUME NEW s \in Seq(Task), s # <<>>
  PROVE  /\ Head(s).op # "other" => Head(s) \in Told(s)
         /\ OneTask(s) => /\ Told(Tail(s)) = Told(s) \ {Head(s)}
                          /\ OneTask(Tail(s))
<1> DEFINE u == Tail(s)
<1>1. /\ Len(s) \in Nat \ {0} /\ DOMAIN s = 1 .. Len(s) /\ 1 \in 1 .. Len(s)
      /\ \A i \in 1 .. Len(s) : s[i] \in Entries(s)
      /\ \A e \in Entries(s) : \E i \in 1 .. Len(s) : e = s[i]
  BY LenProperties, EmptySeq DEF Entries
<1>2. /\ u \in Seq(Task) /\ Len(u) = Len(s) - 1
      /\ \A i \in 1 .. Len(s) - 1 : u[i] = s[i + 1]
  BY HeadTailProperties
<1>3. Head(s) = s[1]
  OBVIOUS
<1> HIDE DEF u
<1>4. /\ DOMAIN u = 1 .. Len(s) - 1
      /\ \A e \in Entries(u) : \E i \in 1 .. Len(s) - 1 : e = u[i]
      /\ \A i \in 1 .. Len(s) - 1 : u[i] \in Entries(u)
  <2>1. DOMAIN u = 1 .. Len(u)
    BY <1>2, LenProperties
  <2> QED BY <1>2, <2>1 DEF Entries
<1>5. \A i \in 1 .. Len(s) - 1 : i + 1 \in 1 .. Len(s) /\ i + 1 # 1
  BY <1>1
<1>6. \A i \in 1 .. Len(s) : i = 1 \/ (i - 1 \in 1 .. Len(s) - 1 /\ (i - 1) + 1 = i)
  BY <1>1
<1>7. ASSUME OneTask(s) PROVE Told(u) = Told(s) \ {Head(s)} /\ OneTask(u)
  <2>1. \A i, j \in 1 .. Len(s) : s[i] = s[j] /\ s[i].op # "other" => i = j
    BY <1>1, <1>7 DEF OneTask
  <2>2. ASSUME NEW e \in Told(u) PROVE e \in Told(s) /\ e # Head(s)
    <3>1. PICK i \in 1 .. Len(s) - 1 : e = u[i]
      BY <1>4 DEF Told
    <3>2. e = s[i + 1] /\ i + 1 \in 1 .. Len(s) /\ i + 1 # 1
      BY <1>2, <1>5, <3>1
    <3> QED BY <1>1, <1>3, <2>1, <3>2 DEF Told
  <2>3. ASSUME NEW e \in Told(s), e # Head(s) PROVE e \in Told(u)
    <3>1. PICK i \in 1 .. Len(s) : e = s[i]
      BY <1>1 DEF Told
    <3>2. i - 1 \in 1 .. Len(s) - 1 /\ (i - 1) + 1 = i
      BY <1>3, <1>6, <2>3, <3>1
    <3>3. u[i - 1] = e
      BY <1>2, <3>1, <3>2
    <3> QED BY <1>4, <3>2, <3>3 DEF Told
  <2>4. ASSUME NEW i \in 1 .. Len(s) - 1, NEW j \in 1 .. Len(s) - 1, u[i] = u[j],
             u[i].op # "other"
        PROVE  i = j
    <3>1. s[i + 1] = s[j + 1] /\ s[i + 1].op # "other" /\ i + 1 \in 1 .. Len(s) /\ j + 1 \in 1 .. Len(s)
      BY <1>2, <1>5, <2>4
    <3>2. i + 1 = j + 1
      BY <2>1, <3>1
    <3> QED BY <3>2
  <2>5. OneTask(u)
    BY <1>4, <2>4 DEF OneTask
  <2> QED BY <2>2, <2>3, <2>5
<1> QED BY <1>1, <1>3, <1>7 DEF u, Told

\* What the proofs below need of IInv.
LEMMA ItemsFacts ==
  ASSUME IInv
  PROVE  /\ m_q \in Seq(Task) /\ Items \subseteq Task /\ lastId \in Nat /\ Ids \subseteq Nat
         /\ \A t \in Items : /\ t.id \in Nat /\ t.id <= lastId
                             /\ t.op \notin {"end", "other"} => t.id \in Ids
                             /\ t.by \in Clients \cup {NoClient}
                             /\ t.op \in {"fn", "insert", "remove", "end"}
         /\ \A t \in Items : Posts(t) => t.id \notin Seen
         /\ \A t, u \in Items : Posts(t) /\ Posts(u) /\ t.id = u.id => t = u
         /\ Posted = {t.id : t \in {u \in Items : Posts(u)}}
         /\ \A id \in Seen : id <= lastId /\ id \in Nat
         /\ Scheduled \subseteq Seen /\ cancelled \subseteq Seen /\ current.id \in Seen
         /\ Scheduled \subseteq Ids
         /\ \A id \in Scheduled : id \notin cancelled
         /\ current.id \notin cancelled /\ current.by \in Clients \cup {NoClient}
         /\ handles \subseteq 1 .. lastId /\ handles \subseteq Ids
<1>1. /\ lastId \in Nat /\ Ids \subseteq Nat /\ Seen \subseteq Nat /\ Scheduled \subseteq Ids
      /\ DOMAIN m_q = 1 .. Len(m_q) /\ Len(m_q) \in Nat
      /\ \A i \in 1 .. Len(m_q) : m_q[i] \in Task /\ m_q[i].id \in Nat
  BY IInvTypes
<1>2. /\ \A e \in Items : (\E i \in 1 .. Len(m_q) : e = m_q[i]) /\ e.op # "other"
      /\ \A i \in 1 .. Len(m_q) : m_q[i].op # "other" => m_q[i] \in Items
  BY <1>1 DEF Items, Told, Entries
<1>3. /\ \A id \in Seen : id <= lastId
      /\ \A i \in 1 .. Len(m_q) : /\ m_q[i].id <= lastId
                                  /\ m_q[i].op \notin {"end", "other"} => m_q[i].id # 0
      /\ \A i, j \in 1 .. Len(m_q) : i < j /\ Posts(m_q[j]) => m_q[i].id < m_q[j].id
      /\ \A j \in 1 .. Len(m_q), id \in Seen : Posts(m_q[j]) => id < m_q[j].id
  BY <1>1 DEF IInv, IdsInOrder
<1>4. ASSUME NEW t \in Items
      PROVE  /\ t \in Task /\ t.id \in Nat /\ t.id <= lastId
             /\ t.op \notin {"end", "other"} => t.id \in Ids
             /\ t.by \in Clients \cup {NoClient}
             /\ t.op \in {"fn", "insert", "remove", "end"}
             /\ Posts(t) => t.id \notin Seen
  <2>1. PICK i \in 1 .. Len(m_q) : t = m_q[i]
    BY <1>2
  <2>2. t \in Task /\ t.id \in Nat /\ t.id <= lastId /\ (t.op \notin {"end", "other"} => t.id # 0)
    BY <1>1, <1>3, <2>1
  <2>3. /\ t.id \in 0 .. MaxCalls /\ t.by \in Clients \cup {NoClient}
        /\ t.op \in {"fn", "insert", "remove", "end"}
    BY <1>2, <2>2 DEF Task
  <2>4. t.op \notin {"end", "other"} => t.id \in Ids
    BY <2>2, <2>3, BoundsAssumption DEF Ids
  <2>5. Posts(t) => t.id \notin Seen
    <3> SUFFICES ASSUME Posts(t), t.id \in Seen PROVE FALSE
      OBVIOUS
    <3>1. t.id < t.id
      BY <1>3, <2>1
    <3> QED BY <2>2, <3>1
  <2> QED BY <2>2, <2>3, <2>4, <2>5
<1>5. ASSUME NEW t \in Items, NEW u \in Items, Posts(t), Posts(u), t.id = u.id
      PROVE  t = u
  <2>1. PICK i \in 1 .. Len(m_q) : t = m_q[i]
    BY <1>2
  <2>2. PICK j \in 1 .. Len(m_q) : u = m_q[j]
    BY <1>2
  <2>3. ~(i < j) /\ ~(j < i)
    <3>1. i < j => t.id < u.id
      BY <1>3, <1>5, <2>1, <2>2
    <3>2. j < i => u.id < t.id
      BY <1>3, <1>5, <2>1, <2>2
    <3>3. t.id \in Nat
      BY <1>4
    <3> QED BY <1>5, <3>1, <3>2, <3>3
  <2>4. i = j
    BY <1>1, <2>3
  <2> QED BY <2>1, <2>2, <2>4
<1>6. Posted = {t.id : t \in {u \in Items : Posts(u)}}
  <2>1. ASSUME NEW id \in Posted PROVE \E t \in Items : Posts(t) /\ id = t.id
    BY <1>1, <1>2 DEF Posted, Posts
  <2>2. ASSUME NEW t \in Items, Posts(t) PROVE t.id \in Posted
    BY <1>1, <1>2, <2>2 DEF Posted
  <2> QED BY <2>1, <2>2
<1>7. /\ Scheduled \subseteq Seen /\ cancelled \subseteq Seen /\ current.id \in Seen
      /\ \A id \in Scheduled : id \notin cancelled
      /\ current.id \notin cancelled
  BY DEF Seen, IInv
<1>8. /\ m_q \in Seq(Task) /\ current.by \in Clients \cup {NoClient}
      /\ handles \subseteq 1 .. lastId /\ handles \subseteq Ids
  BY DEF IInv, TypeOK, IdsInOrder, Running
<1>9. \A id \in Seen : id <= lastId /\ id \in Nat
  BY <1>1, <1>3
<1> QED BY <1>1, <1>4, <1>5, <1>6, <1>7, <1>8, <1>9

\* A task comes: nobody else waits for what it is done for, and a removal is the
\* first one of its id.
LEMMA OneMoreKeeps ==
  ASSUME IInv, RInv, NEW t \in Task, m_q' = Append(m_q, t),
         t \notin Items, t.op # "other", current' = current, cancelled' = cancelled,
         t.op \in {"insert", "end"} => t.by = NoClient,
         t.op = "remove" => /\ t.by \in Clients
                            /\ t.id \notin handles' /\ t.id \notin cancelled
                            /\ t.id \in handles,
         t.by \in Clients => /\ current.by # t.by /\ blocked'[t.by]
                             /\ \A u \in Items : u.by # t.by,
         t.op = "end" => closing',
         \A c \in Clients : blocked[c] => blocked'[c],
         closing => closing',
         \A id \in handles' : id \in handles \/ id = lastId + 1
  PROVE  RInv' /\ Items' = Items \cup {t}
<1>1. /\ m_q \in Seq(Task) /\ lastId \in Nat
      /\ \A u \in Items : u.id \in Nat /\ u.id <= lastId
      /\ \A id \in cancelled : id \in Nat /\ id <= lastId
  BY ItemsFacts
<1>2. Told(m_q)' = Told(m_q') /\ OneTask(m_q)' = OneTask(m_q')
  BY DEF Told, Entries, OneTask
<1>3. Items' = Items \cup {t} /\ OneTask(m_q)'
  BY <1>1, <1>2, EntriesAppend DEF Items, RInv
<1>4. /\ \A u \in Items : u.id # lastId + 1
      /\ \A id \in cancelled : id # lastId + 1
  BY <1>1
<1>5. ASSUME NEW u \in Items
      PROVE  /\ u.op \in {"insert", "end"} => u.by = NoClient
             /\ u.op = "remove" => /\ u.by \in Clients
                                   /\ u.id \notin handles' /\ u.id \notin cancelled'
             /\ u.by \in Clients => current'.by # u.by /\ blocked'[u.by]
             /\ u.op = "end" => closing'
  <2>1. /\ u.op \in {"insert", "end"} => u.by = NoClient
        /\ u.op = "remove" => /\ u.by \in Clients
                              /\ u.id \notin handles /\ u.id \notin cancelled
        /\ u.by \in Clients => current.by # u.by /\ blocked[u.by]
        /\ u.op = "end" => closing
    BY DEF RInv
  <2>2. u.op = "remove" => u.id \notin handles'
    BY <1>4, <2>1
  <2>3. u.by \in Clients => blocked'[u.by]
    BY <2>1
  <2> QED BY <2>1, <2>2, <2>3
<1>6. \A u \in Items' :
        /\ u.op \in {"insert", "end"} => u.by = NoClient
        /\ u.op = "remove" => /\ u.by \in Clients
                              /\ u.id \notin handles' /\ u.id \notin cancelled'
        /\ u.by \in Clients => current'.by # u.by /\ blocked'[u.by]
        /\ u.op = "end" => closing'
  BY <1>3, <1>5
<1>7. ASSUME NEW u \in Items
      PROVE  /\ t.by \in Clients => t.by # u.by
             /\ u.by \in Clients => u.by # t.by
             /\ t.op = "remove" /\ u.op = "remove" => t.id # u.id
  BY DEF RInv
<1>8. \A u, v \in Items' :
        \/ u = v
        \/ /\ u.by \in Clients => u.by # v.by
           /\ u.op = "remove" /\ v.op = "remove" => u.id # v.id
  BY <1>3, <1>7 DEF RInv
<1>9. (current.by \in Clients => blocked[current.by])'
  BY DEF RInv
<1>10. (current = Idle \/ current.id \in Ids)'
  BY DEF RInv, Ids
<1>11. \A id \in handles' : id \notin cancelled'
  BY <1>4 DEF RInv
<1> QED BY <1>3, <1>6, <1>8, <1>9, <1>10, <1>11 DEF RInv

\* The first task goes.
LEMMA OneLessKeeps ==
  ASSUME IInv, RInv, m_q # <<>>, m_q' = Tail(m_q), Head(m_q).op # "other",
         \A c \in Clients : blocked[c] => blocked'[c] \/ c = Head(m_q).by,
         closing' = closing, handles' = handles
  PROVE  /\ Head(m_q) \in Items /\ Items' = Items \ {Head(m_q)} /\ OneTask(m_q)'
         /\ \A t \in Items' :
              /\ t.op \in {"insert", "end"} => t.by = NoClient
              /\ t.op = "remove" => /\ t.by \in Clients
                                    /\ t.id \notin handles' /\ t.id \notin cancelled
                                    /\ Head(m_q).op = "remove" => t.id # Head(m_q).id
              /\ t.by \in Clients => /\ current.by # t.by /\ blocked'[t.by]
                                     /\ t.by # Head(m_q).by
              /\ t.op = "end" => closing'
         /\ \A t, u \in Items' :
              \/ t = u
              \/ /\ t.by \in Clients => t.by # u.by
                 /\ t.op = "remove" /\ u.op = "remove" => t.id # u.id
<1>1. Told(m_q)' = Told(m_q') /\ OneTask(m_q)' = OneTask(m_q')
  BY DEF Told, Entries, OneTask
<1>2. m_q \in Seq(Task) /\ OneTask(m_q)
  BY ItemsFacts DEF RInv
<1>3. Head(m_q) \in Items /\ Items' = Items \ {Head(m_q)} /\ OneTask(m_q)'
  BY <1>1, <1>2, EntriesTail DEF Items
<1>4. ASSUME NEW t \in Items, t # Head(m_q)
      PROVE  /\ t.op \in {"insert", "end"} => t.by = NoClient
             /\ t.op = "remove" => /\ t.by \in Clients
                                   /\ t.id \notin handles' /\ t.id \notin cancelled
                                   /\ Head(m_q).op = "remove" => t.id # Head(m_q).id
             /\ t.by \in Clients => /\ current.by # t.by /\ blocked'[t.by]
                                    /\ t.by # Head(m_q).by
             /\ t.op = "end" => closing'
  <2>1. /\ t.op \in {"insert", "end"} => t.by = NoClient
        /\ t.op = "remove" => /\ t.by \in Clients
                              /\ t.id \notin handles /\ t.id \notin cancelled
        /\ t.by \in Clients => current.by # t.by /\ blocked[t.by]
        /\ t.op = "end" => closing
    BY DEF RInv
  <2>2. /\ t.by \in Clients => t.by # Head(m_q).by
        /\ t.op = "remove" /\ Head(m_q).op = "remove" => t.id # Head(m_q).id
    BY <1>3, <1>4 DEF RInv
  <2>3. t.by \in Clients => blocked'[t.by]
    BY <2>1, <2>2
  <2> QED BY <2>1, <2>2, <2>3
<1>5. \A t, u \in Items' :
        \/ t = u
        \/ /\ t.by \in Clients => t.by # u.by
           /\ t.op = "remove" /\ u.op = "remove" => t.id # u.id
  BY <1>3 DEF RInv
<1> QED BY <1>3, <1>4, <1>5

------------------------------------------------------------------------------
(* The refinement: phases and debts *)

LEMMA PostedIn ==
  ASSUME NEW q
  PROVE  {q[i].id : i \in {j \in DOMAIN q : Posts(q[j])}}
           = {t.id : t \in {u \in Told(q) : Posts(u)}}
<1> DEFINE A == {q[i].id : i \in {j \in DOMAIN q : Posts(q[j])}}
           B == {t.id : t \in {u \in Told(q) : Posts(u)}}
<1>1. ASSUME NEW a \in A PROVE a \in B
  <2>1. PICK i \in DOMAIN q : Posts(q[i]) /\ a = q[i].id
    OBVIOUS
  <2>2. q[i] \in Told(q)
    BY <2>1 DEF Told, Entries, Posts
  <2> QED BY <2>1, <2>2
<1>2. ASSUME NEW b \in B PROVE b \in A
  <2>1. PICK t \in Told(q) : Posts(t) /\ b = t.id
    OBVIOUS
  <2>2. PICK i \in DOMAIN q : t = q[i]
    BY DEF Told, Entries
  <2> QED BY <2>1, <2>2
<1> QED BY <1>1, <1>2

\* Ids and tasks in m_q, and what is owed, before and after a step.
LEMMA PostedThen == Posted' = {t.id : t \in {u \in Items' : Posts(u)}}
<1>1. Told(m_q)' = Told(m_q')
  BY DEF Told, Entries
<1> QED BY <1>1, PostedIn DEF Posted, Items

LEMMA OwedNow ==
  ASSUME NEW c
  PROVE  /\ \A t \in Items : t.by = c => Owes(t) \in OwedTo(c)
         /\ current.by = c => <<"result", current.id>> \in OwedTo(c)
         /\ \A w \in OwedTo(c) : \/ \E t \in Items : t.by = c /\ w = Owes(t)
                                 \/ current.by = c /\ w = <<"result", current.id>>
BY DEF OwedTo, Items

LEMMA OwedThen ==
  ASSUME NEW c
  PROVE  /\ \A t \in Items' : t.by = c => Owes(t) \in OwedTo(c)'
         /\ current'.by = c => <<"result", current'.id>> \in OwedTo(c)'
         /\ \A w \in OwedTo(c)' : \/ \E t \in Items' : t.by = c /\ w = Owes(t)
                                  \/ current'.by = c /\ w = <<"result", current'.id>>
BY DEF OwedTo, Items, Owes

LEMMA OwesOne ==
  ASSUME NEW t, NEW u
  PROVE  /\ Owes(t) = Owes(u) <=> t.id = u.id /\ (t.op = "remove" <=> u.op = "remove")
         /\ \A id : Owes(t) = <<"result", id>> <=> t.id = id /\ t.op # "remove"
         /\ \A id : Owes(t) = <<"cancel", id>> <=> t.id = id /\ t.op = "remove"
BY DEF Owes

LEMMA Enters ==
  ASSUME NEW i \in Ids, NEW from, NEW to, PhaseOf(i) \in from, PhaseOf(i)' = to,
         \A j \in Ids : j # i => PhaseOf(j)' = PhaseOf(j)
  PROVE  Contract!Enter(i, from, to)
BY DEF Contract!Enter

LEMMA SamePhases ==
  ASSUME \A j \in Ids : PhaseOf(j)' = PhaseOf(j)
  PROVE  [i \in Ids |-> PhaseOf(i)]' = [i \in Ids |-> PhaseOf(i)]
OBVIOUS

LEMMA SameDebts ==
  ASSUME \A c \in Clients : OwedTo(c)' = OwedTo(c)
  PROVE  [c \in Clients |-> OwedTo(c)]' = [c \in Clients |-> OwedTo(c)]
OBVIOUS

\* Whoever has no task and does not wait for the running one is owed nothing.
LEMMA NothingOwed ==
  ASSUME RInv, NEW c \in Clients, ~blocked[c]
  PROVE  /\ OwedTo(c) = {} /\ current.by # c
         /\ \A t \in Items : t.by # c
<1>1. current.by # c /\ \A t \in Items : t.by # c
  BY DEF RInv
<1> QED BY <1>1, OwedNow

LEMMA PhaseAlone ==
  ASSUME NEW i, current.id = current'.id, i \in cancelled <=> i \in cancelled',
         i \in Scheduled <=> i \in Scheduled', i \in Posted <=> i \in Posted',
         i > lastId <=> i > lastId'
  PROVE  PhaseOf(i)' = PhaseOf(i)
BY DEF PhaseOf

LEMMA DebtsAlone ==
  ASSUME NEW c, \A t \in Items : t.by = c => t \in Items',
         \A t \in Items' : t.by = c => t \in Items,
         current.by = c <=> current'.by = c, current.by = c => current.id = current'.id
  PROVE  OwedTo(c)' = OwedTo(c)
<1>1. ASSUME NEW w \in OwedTo(c) PROVE w \in OwedTo(c)'
  BY OwedNow, OwedThen
<1>2. ASSUME NEW w \in OwedTo(c)' PROVE w \in OwedTo(c)
  BY OwedNow, OwedThen
<1> QED BY <1>1, <1>2

LEMMA ScheduledStays ==
  ASSUME UNCHANGED m_scheduledCalls
  PROVE  Scheduled' = Scheduled
BY DEF Scheduled, Entries

\* CallAsync, Call, CallAt and CallEvery.
LEMMA PostStep ==
  ASSUME IInv, RInv, NEW t \in Task, Posts(t), t.id = lastId + 1, t.id \in Ids,
         lastId' = lastId + 1, Items' = Items \cup {t},
         UNCHANGED <<m_scheduledCalls, current, cancelled>>,
         t.by \in Clients => ~blocked[t.by]
  PROVE  Contract!Post(t.id)
<1>1. /\ lastId \in Nat /\ Ids \subseteq Nat
      /\ \A id \in Seen : id <= lastId /\ id \in Nat
      /\ \A u \in Items : u.id \in Nat /\ u.id <= lastId
      /\ Scheduled \subseteq Seen /\ cancelled \subseteq Seen /\ current.id \in Seen
      /\ Posted = {u.id : u \in {v \in Items : Posts(v)}}
  BY ItemsFacts
<1>2. t.id \notin Seen /\ t.id \notin Posted
  BY <1>1
<1>3. Posted' = Posted \cup {t.id}
  BY <1>1, PostedThen
<1>4. Scheduled' = Scheduled
  BY ScheduledStays
<1>5. PhaseOf(t.id) = "new"
  BY <1>1, <1>2 DEF PhaseOf
<1>6. PhaseOf(t.id)' = "posted"
  BY <1>1, <1>2, <1>3, <1>4 DEF PhaseOf
<1>7. ASSUME NEW j \in Ids, j # t.id PROVE PhaseOf(j)' = PhaseOf(j)
  <2>1. j > lastId <=> j > lastId'
    BY <1>1, <1>7
  <2> QED BY <1>3, <1>4, <1>7, <2>1, PhaseAlone
<1>8. Contract!Enter(t.id, {"new"}, "posted")
  BY <1>5, <1>6, <1>7, Enters
<1>9. ASSUME NEW c \in Clients, c # t.by PROVE OwedTo(c)' = OwedTo(c)
  BY <1>9, DebtsAlone
<1>10. CASE t.by \in Clients
  <2> DEFINE c == t.by
  <2>1. OwedTo(c) = {} /\ current.by # c /\ \A u \in Items : u.by # c
    BY <1>10, NothingOwed
  <2>2. Owes(t) = <<"result", t.id>>
    BY DEF Owes, Posts
  <2>3. OwedTo(c)' = {<<"result", t.id>>}
    <3>1. <<"result", t.id>> \in OwedTo(c)'
      BY <2>2, OwedThen
    <3>2. ASSUME NEW w \in OwedTo(c)' PROVE w = <<"result", t.id>>
      <4>1. current'.by # c
        BY <2>1
      <4>2. PICK u \in Items' : u.by = c /\ w = Owes(u)
        BY <4>1, OwedThen
      <4> QED BY <2>1, <2>2, <4>2
    <3> QED BY <3>1, <3>2
  <2> HIDE DEF c
  <2>4. c \in Clients /\ \A d \in Clients : d # c => OwedTo(d)' = OwedTo(d)
    BY <1>9, <1>10 DEF c
  <2>5. /\ [d \in Clients |-> OwedTo(d)][c] = {}
        /\ [d \in Clients |-> OwedTo(d)]'
             = [[d \in Clients |-> OwedTo(d)] EXCEPT ![c] = {<<"result", t.id>>}]
    BY <2>1, <2>3, <2>4
  <2> QED BY <1>8, <2>4, <2>5 DEF Contract!Post
<1>11. CASE t.by \notin Clients
  <2>1. [c \in Clients |-> OwedTo(c)]' = [c \in Clients |-> OwedTo(c)]
    BY <1>9, <1>11
  <2> QED BY <1>8, <2>1 DEF Contract!Post
<1> QED BY <1>10, <1>11

\* Cancel from a client.
LEMMA AskStep ==
  ASSUME IInv, RInv, NEW t \in Task, NEW c \in Clients, NEW id \in Ids,
         t.op = "remove", t.id = id, t.by = c, id \in handles, ~blocked[c],
         Items' = Items \cup {t},
         UNCHANGED <<lastId, m_scheduledCalls, current, cancelled>>
  PROVE  Contract!AskCancel(c, id)
<1>1. /\ lastId \in Nat /\ Ids \subseteq Nat
      /\ Posted = {u.id : u \in {v \in Items : Posts(v)}}
      /\ handles \subseteq 1 .. lastId
  BY ItemsFacts
<1>2. Posted' = Posted
  <2>1. ~Posts(t)
    BY DEF Posts
  <2> QED BY <1>1, <2>1, PostedThen
<1>3. Scheduled' = Scheduled
  BY ScheduledStays
<1>4. \A j \in Ids : PhaseOf(j)' = PhaseOf(j)
  BY <1>2, <1>3, PhaseAlone
<1>5. PhaseOf(id) # "new"
  <2>1. ~(id > lastId)
    BY <1>1
  <2> QED BY <2>1 DEF PhaseOf
<1>6. OwedTo(c) = {} /\ current.by # c /\ \A u \in Items : u.by # c
  BY NothingOwed
<1>7. Owes(t) = <<"cancel", id>>
  BY DEF Owes
<1>8. OwedTo(c)' = {<<"cancel", id>>}
  <2>1. <<"cancel", id>> \in OwedTo(c)'
    BY <1>7, OwedThen
  <2>2. ASSUME NEW w \in OwedTo(c)' PROVE w = <<"cancel", id>>
    <3>1. current'.by # c
      BY <1>6
    <3>2. PICK u \in Items' : u.by = c /\ w = Owes(u)
      BY <3>1, OwedThen
    <3> QED BY <1>6, <1>7, <3>2
  <2> QED BY <2>1, <2>2
<1>9. ASSUME NEW d \in Clients, d # c PROVE OwedTo(d)' = OwedTo(d)
  BY <1>9, DebtsAlone
<1>10. /\ [d \in Clients |-> OwedTo(d)][c] = {}
       /\ [d \in Clients |-> OwedTo(d)]'
            = [[d \in Clients |-> OwedTo(d)] EXCEPT ![c] = {<<"cancel", id>>}]
  BY <1>6, <1>8, <1>9
<1>11. [i \in Ids |-> PhaseOf(i)]' = [i \in Ids |-> PhaseOf(i)]
  BY <1>4, SamePhases
<1> QED BY <1>5, <1>10, <1>11 DEF Contract!AskCancel

LEMMA StutterStep ==
  ASSUME Posted' = Posted, Scheduled' = Scheduled,
         UNCHANGED <<lastId, cancelled>>, current'.id = current.id,
         \A c \in Clients : OwedTo(c)' = OwedTo(c)
  PROVE  UNCHANGED Contract!cvars
<1>1. \A j \in Ids : PhaseOf(j)' = PhaseOf(j)
  BY PhaseAlone
<1> QED BY <1>1, SamePhases, SameDebts DEF Contract!cvars

\* StartFn: the first task is a function and runs now.
LEMMA StartFnStep ==
  ASSUME IInv, RInv, StartFn
  PROVE  RInv' /\ \E i \in Ids : Contract!Start(i)
<1> DEFINE h == Head(m_q)
<1>1. /\ m_q # <<>> /\ h.op = "fn" /\ m_q' = Tail(m_q) /\ current = Idle
      /\ current' = [timed |-> FALSE, id |-> h.id, by |-> h.by]
      /\ UNCHANGED <<lastId, m_scheduledCalls, cancelled, blocked, handles, closing>>
  BY DEF StartFn, TakesTask, InRunOne, calls, life
<1>2. /\ h \in Items /\ Items' = Items \ {h} /\ OneTask(m_q)'
      /\ \A t \in Items' :
           /\ t.op \in {"insert", "end"} => t.by = NoClient
           /\ t.op = "remove" => /\ t.by \in Clients
                                 /\ t.id \notin handles' /\ t.id \notin cancelled
           /\ t.by \in Clients => /\ current.by # t.by /\ blocked'[t.by]
                                  /\ t.by # h.by
           /\ t.op = "end" => closing'
      /\ \A t, u \in Items' :
           \/ t = u
           \/ /\ t.by \in Clients => t.by # u.by
              /\ t.op = "remove" /\ u.op = "remove" => t.id # u.id
  BY <1>1, OneLessKeeps
<1>3. /\ h.id \in Ids /\ h.id \notin Seen /\ h.id \in Posted /\ Ids \subseteq Nat
      /\ Posted = {u.id : u \in {v \in Items : Posts(v)}}
      /\ \A t, u \in Items : Posts(t) /\ Posts(u) /\ t.id = u.id => t = u
      /\ Scheduled \subseteq Seen /\ cancelled \subseteq Seen
      /\ h.id \in Nat /\ h.id <= lastId /\ lastId \in Nat
  BY <1>1, <1>2, ItemsFacts DEF Posts
<1>4. /\ current.id = 0 /\ current.by = NoClient /\ 0 \notin Ids /\ current'.id = h.id
      /\ current'.by = h.by
  BY <1>1 DEF Idle, Ids
<1>5. RInv'
  <2>1. (current.by \in Clients => blocked[current.by])'
    BY <1>1, <1>2, <1>4 DEF RInv
  <2>2. (current = Idle \/ current.id \in Ids)'
    BY <1>3, <1>4 DEF Ids
  <2>3. \A id \in handles' : id \notin cancelled'
    BY <1>1 DEF RInv
  <2>4. \A t \in Items' : t.by \in Clients => current'.by # t.by
    BY <1>2, <1>4
  <2> HIDE DEF h
  <2> QED BY <1>1, <1>2, <2>1, <2>2, <2>3, <2>4 DEF RInv
<1>6. Posted' = Posted \ {h.id}
  <2>1. Posts(h)
    BY <1>1 DEF Posts
  <2> QED BY <1>2, <1>3, <2>1, PostedThen
<1>7. Scheduled' = Scheduled
  BY <1>1, ScheduledStays
<1> PICK i \in Ids : i = h.id
  BY <1>3
<1>8. PhaseOf(i) = "posted"
  BY <1>3, <1>4 DEF PhaseOf
<1>9. PhaseOf(i)' = "running"
  BY <1>4 DEF PhaseOf
<1>10. ASSUME NEW j \in Ids, j # i PROVE PhaseOf(j)' = PhaseOf(j)
  BY <1>1, <1>4, <1>6, <1>7, <1>10 DEF PhaseOf
<1>11. Contract!Enter(i, {"posted", "armed"}, "running")
  BY <1>8, <1>9, <1>10, Enters
<1>12. ASSUME NEW j \in Ids PROVE PhaseOf(j) # "running"
  BY <1>4 DEF PhaseOf
<1>13. ASSUME NEW c \in Clients PROVE OwedTo(c)' = OwedTo(c)
  <2>1. current.by # c
    BY <1>4, ClientsAssumption
  <2>2. Owes(h) = <<"result", h.id>>
    BY <1>1 DEF Owes
  <2>3. ASSUME NEW w \in OwedTo(c) PROVE w \in OwedTo(c)'
    <3>1. PICK t \in Items : t.by = c /\ w = Owes(t)
      BY <2>1, OwedNow
    <3> QED BY <1>2, <1>4, <2>2, <3>1, OwedThen
  <2>4. ASSUME NEW w \in OwedTo(c)' PROVE w \in OwedTo(c)
    BY <1>2, <1>4, <2>2, OwedNow, OwedThen
  <2> QED BY <2>3, <2>4
<1>14. Contract!NoneRuns
  BY <1>12 DEF Contract!NoneRuns
<1>15. [c \in Clients |-> OwedTo(c)]' = [c \in Clients |-> OwedTo(c)]
  BY <1>13, SameDebts
<1> QED BY <1>5, <1>11, <1>14, <1>15 DEF Contract!Start

LEMMA OneLessExactly ==
  ASSUME NEW s \in Seq(CallData), NEW t \in Seq(CallData),
         NEW k \in 1 .. Len(s), Len(t) = Len(s) - 1,
         \A i \in 1 .. Len(s) - 1 : t[i] = IF i < k THEN s[i] ELSE s[i + 1]
  PROVE  Entries(s) \subseteq Entries(t) \cup {s[k]}
<1>1. /\ Len(s) \in Nat
      /\ \A e \in Entries(s) : \E i \in 1 .. Len(s) : e = s[i]
      /\ \A i \in 1 .. Len(s) - 1 : t[i] \in Entries(t)
  BY EntriesProperties
<1> SUFFICES ASSUME NEW e \in Entries(s), e # s[k] PROVE e \in Entries(t)
  OBVIOUS
<1>2. PICK i \in 1 .. Len(s) : e = s[i]
  BY <1>1
<1>3. i # k
  BY <1>2
<1>4. CASE i < k
  <2>1. i \in 1 .. Len(s) - 1
    BY <1>1, <1>4
  <2>2. t[i] = e
    BY <1>2, <1>4, <2>1
  <2> QED BY <1>1, <2>1, <2>2
<1>5. CASE ~(i < k)
  <2>1. i - 1 \in 1 .. Len(s) - 1 /\ ~(i - 1 < k) /\ (i - 1) + 1 = i
    BY <1>1, <1>3, <1>5
  <2>2. t[i - 1] = e
    BY <1>2, <2>1
  <2> QED BY <1>1, <2>1, <2>2
<1> QED BY <1>4, <1>5

LEMMA RemoveExactly ==
  ASSUME NEW s \in Seq(CallData), NEW id, UniqueIds(s)
  PROVE  Entries(Remove(s, id)) = {e \in Entries(s) : e.id # id}
<1>1. CASE /\ Remove(s, id) = s
           /\ \A i \in 1 .. Len(s) : s[i].id # id
  <2>1. \A e \in Entries(s) : \E i \in 1 .. Len(s) : e = s[i]
    BY EntriesProperties
  <2> QED BY <1>1, <2>1
<1>2. CASE \E k \in 1 .. Len(s) :
             /\ s[k].id = id
             /\ Len(Remove(s, id)) = Len(s) - 1
             /\ \A i \in 1 .. Len(s) - 1 :
                  Remove(s, id)[i] = IF i < k THEN s[i] ELSE s[i + 1]
  <2> DEFINE t == Remove(s, id)
  <2>1. PICK k \in 1 .. Len(s) :
          /\ s[k].id = id
          /\ Len(t) = Len(s) - 1
          /\ \A i \in 1 .. Len(s) - 1 : t[i] = IF i < k THEN s[i] ELSE s[i + 1]
    BY <1>2
  <2>2. t \in Seq(CallData)
    BY RemoveProperties
  <2> HIDE DEF t
  <2>3. /\ Entries(t) \subseteq Entries(s)
        /\ \A e \in Entries(t) : e.id # s[k].id
    BY <2>1, <2>2, OneLessProperties
  <2>4. Entries(s) \subseteq Entries(t) \cup {s[k]}
    BY <2>1, <2>2, OneLessExactly
  <2>5. Entries(t) = {e \in Entries(s) : e.id # id}
    BY <2>1, <2>3, <2>4
  <2> QED BY <2>5 DEF t
<1> QED BY <1>1, <1>2, RemoveProperties

LEMMA PopBackExactly ==
  ASSUME NEW s \in Seq(CallData), s # <<>>
  PROVE  Entries(s) = Entries(PopBack(s)) \cup {s[Len(s)]}
<1> DEFINE t == PopBack(s)
<1>1. /\ Len(s) \in Nat \ {0} /\ t \in Seq(CallData) /\ Len(t) = Len(s) - 1
      /\ \A i \in 1 .. Len(s) - 1 : t[i] = s[i]
      /\ Entries(t) \subseteq Entries(s) /\ s[Len(s)] \in Entries(s)
  BY PopBackProperties, PopBackKeeps
<1> HIDE DEF t
<1>2. Len(s) \in 1 .. Len(s)
  BY <1>1
<1>3. \A i \in 1 .. Len(s) - 1 : t[i] = IF i < Len(s) THEN s[i] ELSE s[i + 1]
  BY <1>1
<1>4. Entries(s) \subseteq Entries(t) \cup {s[Len(s)]}
  BY <1>1, <1>2, <1>3, OneLessExactly
<1> QED BY <1>1, <1>4 DEF t

\* RunInsert: the first task's call is scheduled.
LEMMA RunInsertStep ==
  ASSUME IInv, RInv, RunInsert
  PROVE  RInv' /\ \E i \in Ids : Contract!Arm(i)
<1> DEFINE h == Head(m_q)
           first == IF h.interval # 0 THEN now + h.interval ELSE h.at
           call == [id |-> h.id, at |-> first, interval |-> h.interval]
<1>1. /\ m_q # <<>> /\ h.op = "insert" /\ m_q' = Tail(m_q) /\ current = Idle
      /\ m_scheduledCalls' = Insert(m_scheduledCalls, call)
      /\ UNCHANGED <<lastId, current, cancelled, blocked, handles, closing>>
  BY DEF RunInsert, TakesTask, InRunOne, calls, life
<1>2. /\ h \in Items /\ Items' = Items \ {h} /\ OneTask(m_q)'
      /\ \A t \in Items' :
           /\ t.op \in {"insert", "end"} => t.by = NoClient
           /\ t.op = "remove" => /\ t.by \in Clients
                                 /\ t.id \notin handles' /\ t.id \notin cancelled
           /\ t.by \in Clients => current.by # t.by /\ blocked'[t.by]
           /\ t.op = "end" => closing'
      /\ \A t, u \in Items' :
           \/ t = u
           \/ /\ t.by \in Clients => t.by # u.by
              /\ t.op = "remove" /\ u.op = "remove" => t.id # u.id
  <2> HIDE DEF h
  <2> QED BY <1>1, OneLessKeeps DEF h
<1>3. /\ h \in Task /\ h.id \in Ids /\ h.id \notin Seen /\ h.id \in Posted
      /\ Posted = {u.id : u \in {v \in Items : Posts(v)}}
      /\ \A t, u \in Items : Posts(t) /\ Posts(u) /\ t.id = u.id => t = u
      /\ Scheduled \subseteq Seen /\ cancelled \subseteq Seen /\ current.id \in Seen
      /\ h.by = NoClient
  BY <1>1, <1>2, ItemsFacts DEF Posts, RInv
<1>4. Entries(m_scheduledCalls)' = Entries(m_scheduledCalls) \cup {call}
  <2>1. now \in Nat /\ m_scheduledCalls \in Seq(CallData)
    BY BoundsAssumption DEF IInv, TypeOK, Times
  <2>2. h.at \in Nat /\ h.interval \in Nat
    BY <1>3 DEF Task
  <2>3. call \in CallData
    BY <1>3, <2>1, <2>2 DEF CallData
  <2> HIDE DEF call
  <2>4. Entries(Insert(m_scheduledCalls, call)) = Entries(m_scheduledCalls) \cup {call}
    BY <2>1, <2>3, InsertProperties
  <2> QED BY <1>1, <2>4 DEF Entries
<1>5. Scheduled' = Scheduled \cup {h.id}
  <2>1. call.id = h.id
    OBVIOUS
  <2> HIDE DEF call, h
  <2>2. Scheduled' = {e.id : e \in Entries(m_scheduledCalls) \cup {call}}
    BY <1>4 DEF Scheduled
  <2>3. {e.id : e \in Entries(m_scheduledCalls) \cup {call}}
          = {e.id : e \in Entries(m_scheduledCalls)} \cup {call.id}
    OBVIOUS
  <2> QED BY <2>1, <2>2, <2>3 DEF Scheduled
<1>6. Posted' = Posted \ {h.id}
  <2>1. Posts(h)
    BY <1>1 DEF Posts
  <2> QED BY <1>2, <1>3, <2>1, PostedThen
<1> HIDE DEF h
<1>7. RInv'
  <2>1. (current.by \in Clients => blocked[current.by])'
    BY <1>1 DEF RInv
  <2>2. (current = Idle \/ current.id \in Ids)'
    BY <1>1 DEF RInv, Ids
  <2>3. \A id \in handles' : id \notin cancelled'
    BY <1>1 DEF RInv
  <2> QED BY <1>1, <1>2, <2>1, <2>2, <2>3 DEF RInv
<1> PICK i \in Ids : i = h.id
  BY <1>3
<1>8. current.id # i
  BY <1>3
<1>9. PhaseOf(i) = "posted"
  BY <1>3, <1>8 DEF PhaseOf
<1>10. PhaseOf(i)' = "armed"
  BY <1>1, <1>3, <1>5, <1>8 DEF PhaseOf
<1>11. ASSUME NEW j \in Ids, j # i PROVE PhaseOf(j)' = PhaseOf(j)
  <2>1. j \in Posted <=> j \in Posted'
    BY <1>6, <1>11
  <2>2. j \in Scheduled <=> j \in Scheduled'
    BY <1>5, <1>11
  <2> QED BY <1>1, <2>1, <2>2, PhaseAlone
<1>12. Contract!Enter(i, {"posted"}, "armed")
  BY <1>9, <1>10, <1>11, Enters
<1>13. ASSUME NEW c \in Clients PROVE OwedTo(c)' = OwedTo(c)
  BY <1>1, <1>2, <1>3, ClientsAssumption, DebtsAlone
<1>14. [c \in Clients |-> OwedTo(c)]' = [c \in Clients |-> OwedTo(c)]
  BY <1>13, SameDebts
<1> QED BY <1>7, <1>12, <1>14 DEF Contract!Arm

\* RunRemove: nothing is left of the call, and the client goes on.
LEMMA RunRemoveStep ==
  ASSUME IInv, RInv, RunRemove
  PROVE  RInv' /\ \E i \in Ids : Contract!Cancelled(i)
<1> DEFINE h == Head(m_q)
<1>1. /\ m_q # <<>> /\ h.op = "remove" /\ m_q' = Tail(m_q) /\ current = Idle
      /\ m_scheduledCalls' = Remove(m_scheduledCalls, h.id)
      /\ blocked' = [d \in Clients |-> blocked[d] /\ d # h.by]
      /\ cancelled' = cancelled \cup {h.id}
      /\ UNCHANGED <<lastId, current, handles, closing>>
  BY DEF RunRemove, TakesTask, InRunOne, life, Release
<1>0. \A c \in Clients : blocked[c] => blocked'[c] \/ c = h.by
  BY <1>1
<1>2. /\ h \in Items /\ Items' = Items \ {h} /\ OneTask(m_q)'
      /\ \A t \in Items' :
           /\ t.op \in {"insert", "end"} => t.by = NoClient
           /\ t.op = "remove" => /\ t.by \in Clients
                                 /\ t.id \notin handles' /\ t.id \notin cancelled
                                 /\ t.id # h.id
           /\ t.by \in Clients => /\ current.by # t.by /\ blocked'[t.by]
                                  /\ t.by # h.by
           /\ t.op = "end" => closing'
      /\ \A t, u \in Items' :
           \/ t = u
           \/ /\ t.by \in Clients => t.by # u.by
              /\ t.op = "remove" /\ u.op = "remove" => t.id # u.id
  <2> HIDE DEF h
  <2> QED BY <1>0, <1>1, OneLessKeeps DEF h
<1>3. /\ h.id \in Ids /\ h.id <= lastId /\ h.id \in Nat
      /\ h.by \in Clients /\ h.id \notin handles /\ h.id \notin cancelled
      /\ Posted = {u.id : u \in {v \in Items : Posts(v)}}
      /\ lastId \in Nat
  BY <1>1, <1>2, ItemsFacts DEF RInv
<1>4. current.id = 0 /\ current.by = NoClient /\ 0 \notin Ids
  BY <1>1 DEF Idle, Ids
<1>5. h.id \notin Posted
  <2>1. /\ Len(m_q) \in Nat \ {0} /\ DOMAIN m_q = 1 .. Len(m_q) /\ h = m_q[1]
        /\ m_q[1].id \in Nat
    <3>1. /\ Len(m_q) \in Nat /\ DOMAIN m_q = 1 .. Len(m_q) /\ m_q \in Seq(Task)
          /\ \A i \in 1 .. Len(m_q) : m_q[i].id \in Nat
      BY IInvTypes, ItemsFacts
    <3>2. Len(m_q) # 0
      BY <1>1, <3>1, EmptySeq
    <3> QED BY <3>1, <3>2
  <2>2. ASSUME NEW j \in DOMAIN m_q, Posts(m_q[j]) PROVE m_q[j].id # h.id
    <3>1. j # 1
      BY <1>1, <2>1, <2>2 DEF Posts
    <3>2. 1 \in DOMAIN m_q /\ 1 < j
      BY <2>1, <3>1
    <3>3. m_q[1].id < m_q[j].id
      BY <2>2, <3>2 DEF IInv, IdsInOrder
    <3> QED BY <2>1, <3>3
  <2> QED BY <2>2 DEF Posted
<1>6. Posted' = Posted
  <2>1. ~Posts(h)
    BY <1>1 DEF Posts
  <2> QED BY <1>2, <1>3, <2>1, PostedThen
<1>7. Scheduled' = Scheduled \ {h.id}
  <2>1. m_scheduledCalls \in Seq(CallData) /\ UniqueIds(m_scheduledCalls)
    BY DEF IInv, TypeOK
  <2>2. Entries(Remove(m_scheduledCalls, h.id)) = {e \in Entries(m_scheduledCalls) : e.id # h.id}
    BY <2>1, RemoveExactly
  <2>3. Entries(m_scheduledCalls)' = {e \in Entries(m_scheduledCalls) : e.id # h.id}
    BY <1>1, <2>2 DEF Entries
  <2> QED BY <2>3 DEF Scheduled
<1> HIDE DEF h
<1>8. RInv'
  <2>1. (current.by \in Clients => blocked[current.by])'
    BY <1>1, <1>4, ClientsAssumption
  <2>2. (current = Idle \/ current.id \in Ids)'
    BY <1>1
  <2>3. \A id \in handles' : id \notin cancelled'
    BY <1>1, <1>3 DEF RInv
  <2>4. \A t \in Items' : t.op = "remove" => t.id \notin cancelled'
    BY <1>1, <1>2
  <2>5. \A t \in Items' : t.by \in Clients => current'.by # t.by
    BY <1>1, <1>2
  <2> QED BY <1>2, <2>1, <2>2, <2>3, <2>4, <2>5 DEF RInv
<1> PICK i \in Ids : i = h.id
  BY <1>3
<1>9. PhaseOf(i) \in {"armed", "over"}
  BY <1>3, <1>4, <1>5 DEF PhaseOf
<1>10. PhaseOf(i)' = "cancelled"
  BY <1>1, <1>4 DEF PhaseOf
<1>11. ASSUME NEW j \in Ids, j # i PROVE PhaseOf(j)' = PhaseOf(j)
  <2>1. j \in Scheduled <=> j \in Scheduled'
    BY <1>7, <1>11
  <2>2. j \in cancelled <=> j \in cancelled'
    BY <1>1, <1>11
  <2> QED BY <1>1, <1>6, <2>1, <2>2, PhaseAlone
<1>12. Contract!Enter(i, {"armed", "over"}, "cancelled")
  BY <1>9, <1>10, <1>11, Enters
<1>13. Contract!NoneRuns
  <2>1. \A j \in Ids : PhaseOf(j) # "running"
    BY <1>4 DEF PhaseOf
  <2> QED BY <2>1 DEF Contract!NoneRuns
<1>14. Owes(h) = <<"cancel", i>>
  BY <1>1 DEF Owes
<1>15. ASSUME NEW c \in Clients PROVE OwedTo(c)' = OwedTo(c) \ {<<"cancel", i>>}
  <2>1. current.by # c /\ current'.by # c
    BY <1>1, <1>4, ClientsAssumption
  <2>2. ASSUME NEW t \in Items' PROVE Owes(t) # <<"cancel", i>>
    BY <1>2, OwesOne
  <2>3. ASSUME NEW w \in OwedTo(c), w # <<"cancel", i>> PROVE w \in OwedTo(c)'
    <3>1. PICK t \in Items : t.by = c /\ w = Owes(t)
      BY <2>1, OwedNow
    <3> QED BY <1>2, <1>14, <2>3, <3>1, OwedThen
  <2>4. ASSUME NEW w \in OwedTo(c)' PROVE w \in OwedTo(c) /\ w # <<"cancel", i>>
    <3>1. PICK t \in Items' : t.by = c /\ w = Owes(t)
      BY <2>1, OwedThen
    <3> QED BY <1>2, <2>2, <3>1, OwedNow
  <2> QED BY <2>3, <2>4
<1>16. Contract!Settled("cancel", i)
  BY <1>15 DEF Contract!Settled
<1>17. \E c \in Clients : <<"cancel", i>> \in OwedTo(c)
  BY <1>2, <1>3, <1>14, OwedNow
<1> QED BY <1>8, <1>12, <1>13, <1>16, <1>17 DEF Contract!Cancelled

\* What neither the queue nor the clients see.
LEMMA QueueKeeps ==
  ASSUME RInv, m_q' = m_q, UNCHANGED <<blocked, closing, cancelled>>,
         handles' \subseteq handles,
         current' = current \/ (current'.by = NoClient /\ current'.id \in Ids)
  PROVE  RInv' /\ Items' = Items
<1>1. Items' = Items /\ OneTask(m_q)' = OneTask(m_q)
  BY DEF Items, Entries, OneTask
<1>2. current'.by \in Clients => current'.by = current.by
  BY ClientsAssumption
<1>3. (current = Idle \/ current.id \in Ids)'
  BY DEF RInv, Ids
<1>4. \A id \in handles' : id \notin cancelled'
  BY DEF RInv
<1>5. (current.by \in Clients => blocked[current.by])'
  BY <1>2 DEF RInv
<1>6. \A t \in Items' :
        /\ t.op \in {"insert", "end"} => t.by = NoClient
        /\ t.op = "remove" => /\ t.by \in Clients
                              /\ t.id \notin handles' /\ t.id \notin cancelled'
        /\ t.by \in Clients => current'.by # t.by /\ blocked'[t.by]
        /\ t.op = "end" => closing'
  BY <1>1, <1>2 DEF RInv
<1> QED BY <1>1, <1>3, <1>4, <1>5, <1>6 DEF RInv

\* StartTimed: the call that is due runs; a periodic one stays scheduled.
LEMMA StartTimedStep ==
  ASSUME IInv, RInv, StartTimed
  PROVE  RInv' /\ \E i \in Ids : Contract!Start(i)
<1> DEFINE s == m_scheduledCalls
           n == NextCall
           rest == PopBack(s)
           again == [n EXCEPT !.at = @ + n.interval]
<1>1. /\ s \in Seq(CallData) /\ s # <<>> /\ current = Idle
      /\ m_scheduledCalls' = IF n.interval # 0 THEN Insert(rest, again) ELSE rest
      /\ current' = [timed |-> TRUE, id |-> n.id, by |-> NoClient]
      /\ UNCHANGED <<m_q, lastId, handles, cancelled, closing, blocked>>
  BY DEF StartTimed, Popped, calls, life, IInv, TypeOK, InRunOne
<1>2. /\ n \in CallData /\ rest \in Seq(CallData)
      /\ Entries(s) = Entries(rest) \cup {n}
  BY <1>1, PopBackKeeps, PopBackExactly DEF NextCall
<1>3. n.id \in Scheduled
  BY <1>2 DEF Scheduled
<1> HIDE DEF n, rest
<1>4. n.id \in Ids /\ again \in CallData /\ again.id = n.id
  <2>1. n.id \in Ids /\ n.at \in Nat /\ n.interval \in Nat
    BY <1>2 DEF CallData
  <2>2. n = [id |-> n.id, at |-> n.at, interval |-> n.interval]
    BY <1>2 DEF CallData
  <2>3. again = [id |-> n.id, at |-> n.at + n.interval, interval |-> n.interval]
    BY <2>2
  <2> QED BY <2>1, <2>3 DEF CallData
<1> HIDE DEF again
<1>5. /\ Entries(rest) \subseteq Entries(m_scheduledCalls)'
      /\ Entries(m_scheduledCalls)' \subseteq Entries(rest) \cup {again}
  <2>1. Entries(m_scheduledCalls)' = Entries(m_scheduledCalls')
    BY DEF Entries
  <2>2. CASE n.interval # 0
    <3>1. m_scheduledCalls' = Insert(rest, again)
      BY <1>1, <2>2
    <3>2. Entries(Insert(rest, again)) = Entries(rest) \cup {again}
      BY <1>2, <1>4, InsertProperties
    <3> QED BY <2>1, <3>1, <3>2
  <2>3. CASE n.interval = 0
    <3>1. m_scheduledCalls' = rest
      BY <1>1, <2>3
    <3> QED BY <2>1, <3>1
  <2> QED BY <2>2, <2>3
<1>6. ASSUME NEW j, j # n.id PROVE j \in Scheduled <=> j \in Scheduled'
  <2>1. ASSUME j \in Scheduled PROVE j \in Scheduled'
    <3>1. PICK e \in Entries(s) : j = e.id
      BY <2>1 DEF Scheduled
    <3>2. e \in Entries(m_scheduledCalls)'
      BY <1>2, <1>5, <1>6, <3>1
    <3> QED BY <3>1, <3>2 DEF Scheduled
  <2>2. ASSUME j \in Scheduled' PROVE j \in Scheduled
    <3>1. PICK e \in Entries(m_scheduledCalls)' : j = e.id
      BY <2>2 DEF Scheduled
    <3>2. e \in Entries(s)
      BY <1>2, <1>4, <1>5, <1>6, <3>1
    <3> QED BY <3>1, <3>2 DEF Scheduled
  <2> QED BY <2>1, <2>2
<1>7. RInv' /\ Items' = Items
  <2>1. current'.by = NoClient /\ current'.id \in Ids
    BY <1>1, <1>4
  <2> QED BY <1>1, <2>1, QueueKeeps
<1>8. /\ current.id = 0 /\ current.by = NoClient /\ 0 \notin Ids /\ current'.id = n.id
      /\ current'.by = NoClient
  BY <1>1 DEF Idle, Ids
<1>9. Posted' = Posted
  BY <1>1 DEF Posted
<1> PICK i \in Ids : i = n.id
  BY <1>4
<1>10. PhaseOf(i) = "armed"
  <2>1. i \notin cancelled
    BY <1>3, ItemsFacts
  <2> QED BY <1>3, <1>8, <2>1 DEF PhaseOf
<1>11. PhaseOf(i)' = "running"
  BY <1>8 DEF PhaseOf
<1>12. ASSUME NEW j \in Ids, j # i PROVE PhaseOf(j)' = PhaseOf(j)
  <2>1. j \in Scheduled <=> j \in Scheduled'
    BY <1>6, <1>12
  <2> QED BY <1>1, <1>8, <1>9, <1>12, <2>1 DEF PhaseOf
<1>13. Contract!Enter(i, {"posted", "armed"}, "running")
  BY <1>10, <1>11, <1>12, Enters
<1>14. Contract!NoneRuns
  <2>1. \A j \in Ids : PhaseOf(j) # "running"
    BY <1>8 DEF PhaseOf
  <2> QED BY <2>1 DEF Contract!NoneRuns
<1>15. ASSUME NEW c \in Clients PROVE OwedTo(c)' = OwedTo(c)
  BY <1>7, <1>8, ClientsAssumption, DebtsAlone
<1>16. [c \in Clients |-> OwedTo(c)]' = [c \in Clients |-> OwedTo(c)]
  BY <1>15, SameDebts
<1> QED BY <1>7, <1>13, <1>14, <1>16 DEF Contract!Start

\* Finish: the client that waits for the function goes on.
LEMMA FinishStep ==
  ASSUME IInv, RInv, Finish
  PROVE  RInv' /\ \E i \in Ids : Contract!Finish(i)
<1>1. /\ current # Idle /\ current' = Idle
      /\ blocked' = [d \in Clients |-> blocked[d] /\ d # current.by]
      /\ UNCHANGED <<m_q, m_scheduledCalls, lastId, handles, cancelled, closing>>
  BY DEF Finish, Release, life, history
<1>2. /\ Items' = Items /\ OneTask(m_q)' = OneTask(m_q)
      /\ Posted' = Posted /\ Scheduled' = Scheduled
  BY <1>1, ScheduledStays DEF Items, Entries, OneTask, Posted
<1>3. /\ current.id \in Ids /\ current.id \in Seen /\ current.id <= lastId
      /\ lastId \in Nat /\ current.id \in Nat /\ current.id \notin cancelled
      /\ \A t \in Items : Posts(t) => t.id \notin Seen
      /\ \A t \in Items : /\ t.op \in {"fn", "insert", "remove", "end"}
                          /\ t.op \in {"insert", "end"} => t.by = NoClient
      /\ Posted = {u.id : u \in {v \in Items : Posts(v)}}
  BY <1>1, ItemsFacts DEF RInv
<1>4. current.id \notin Posted
  BY <1>3
<1>5. current'.id = 0 /\ current'.by = NoClient /\ 0 \notin Ids
  BY <1>1 DEF Idle, Ids
<1>6. RInv'
  <2>1. \A t \in Items : t.by \in Clients => blocked'[t.by]
    <3>1. \A t \in Items : t.by \in Clients => blocked[t.by] /\ t.by # current.by
      BY DEF RInv
    <3> QED BY <1>1, <3>1
  <2>2. \A t \in Items' :
          /\ t.op \in {"insert", "end"} => t.by = NoClient
          /\ t.op = "remove" => /\ t.by \in Clients
                                /\ t.id \notin handles' /\ t.id \notin cancelled'
          /\ t.by \in Clients => current'.by # t.by /\ blocked'[t.by]
          /\ t.op = "end" => closing'
    BY <1>1, <1>2, <1>5, <2>1, ClientsAssumption DEF RInv
  <2>3. (current.by \in Clients => blocked[current.by])'
    BY <1>5, ClientsAssumption
  <2> QED BY <1>1, <1>2, <2>2, <2>3 DEF RInv
<1> PICK i \in Ids : i = current.id
  BY <1>3
<1>7. PhaseOf(i) = "running"
  BY DEF PhaseOf
<1>8. PhaseOf(i)' = "over" \/ PhaseOf(i)' = "armed"
  <2>1. ~(i > lastId') /\ i \notin cancelled' /\ i \notin Posted' /\ current'.id # i
    BY <1>1, <1>2, <1>3, <1>4, <1>5
  <2> QED BY <2>1 DEF PhaseOf
<1>9. ASSUME NEW j \in Ids, j # i PROVE PhaseOf(j)' = PhaseOf(j)
  BY <1>1, <1>2, <1>5, <1>9 DEF PhaseOf
<1>10. Contract!Enter(i, {"running"}, "over") \/ Contract!Enter(i, {"running"}, "armed")
  BY <1>7, <1>8, <1>9, Enters
<1>11. ASSUME NEW c \in Clients PROVE OwedTo(c)' = OwedTo(c) \ {<<"result", i>>}
  <2>1. current'.by # c
    BY <1>5, ClientsAssumption
  <2>2. ASSUME NEW t \in Items, t.by = c PROVE Owes(t) # <<"result", i>>
    <3> SUFFICES ASSUME Owes(t) = <<"result", i>> PROVE FALSE
      OBVIOUS
    <3>1. t.id = i /\ t.op # "remove"
      BY OwesOne
    <3>2. t.op = "fn"
      BY <1>3, <2>2, <3>1, ClientsAssumption
    <3> QED BY <1>3, <3>1, <3>2 DEF Posts
  <2>3. ASSUME NEW w \in OwedTo(c), w # <<"result", i>> PROVE w \in OwedTo(c)'
    <3>1. PICK t \in Items : t.by = c /\ w = Owes(t)
      BY <2>3, OwedNow
    <3> QED BY <1>2, <3>1, OwedThen
  <2>4. ASSUME NEW w \in OwedTo(c)' PROVE w \in OwedTo(c) /\ w # <<"result", i>>
    <3>1. PICK t \in Items' : t.by = c /\ w = Owes(t)
      BY <2>1, OwedThen
    <3> QED BY <1>2, <2>2, <3>1, OwedNow
  <2> QED BY <2>3, <2>4
<1>12. Contract!Settled("result", i)
  BY <1>11 DEF Contract!Settled
<1> QED BY <1>6, <1>10, <1>12 DEF Contract!Finish

\* CancelFromSelf: the function that runs withdraws a call that is scheduled.
LEMMA WithdrawStep ==
  ASSUME IInv, RInv, NEW id \in Ids, CancelFromSelf(id)
  PROVE  RInv' /\ (Contract!Withdraw(id) \/ UNCHANGED Contract!cvars)
<1>1. /\ m_scheduledCalls' = Remove(m_scheduledCalls, id)
      /\ handles' \subseteq handles /\ current # Idle
      /\ UNCHANGED <<m_q, lastId, current, cancelled, blocked, closing>>
  BY DEF CancelFromSelf, life, CanCall, Self, ClientsAssumption
<1>2. RInv' /\ Items' = Items
  BY <1>1, QueueKeeps
<1>3. Scheduled' = Scheduled \ {id}
  <2>1. m_scheduledCalls \in Seq(CallData) /\ UniqueIds(m_scheduledCalls)
    BY DEF IInv, TypeOK
  <2>2. Entries(Remove(m_scheduledCalls, id)) = {e \in Entries(m_scheduledCalls) : e.id # id}
    BY <2>1, RemoveExactly
  <2>3. Entries(m_scheduledCalls)' = {e \in Entries(m_scheduledCalls) : e.id # id}
    BY <1>1, <2>2 DEF Entries
  <2> QED BY <2>3 DEF Scheduled
<1>4. Posted' = Posted
  BY <1>1 DEF Posted
<1>5. ASSUME NEW c \in Clients PROVE OwedTo(c)' = OwedTo(c)
  BY <1>1, <1>2, DebtsAlone
<1>6. [c \in Clients |-> OwedTo(c)]' = [c \in Clients |-> OwedTo(c)]
  BY <1>5, SameDebts
<1>7. ASSUME NEW j \in Ids, j # id \/ id \notin Scheduled \/ current.id = id
      PROVE  PhaseOf(j)' = PhaseOf(j)
  <2>1. CASE j # id \/ id \notin Scheduled
    <3>1. j \in Scheduled <=> j \in Scheduled'
      BY <1>3, <2>1
    <3> QED BY <1>1, <1>4, <3>1, PhaseAlone
  <2>2. CASE j = id /\ current.id = id
    BY <1>1, <2>2 DEF PhaseOf
  <2> QED BY <1>7, <2>1, <2>2
<1>8. CASE id \notin Scheduled \/ current.id = id
  <2>1. [i \in Ids |-> PhaseOf(i)]' = [i \in Ids |-> PhaseOf(i)]
    BY <1>7, <1>8, SamePhases
  <2> QED BY <1>2, <1>6, <2>1 DEF Contract!cvars
<1>9. CASE id \in Scheduled /\ current.id # id
  <2>1. id \notin cancelled /\ id <= lastId /\ id \in Nat /\ lastId \in Nat
        /\ id \notin Posted
    <3>1. id \in Seen
      BY <1>9, ItemsFacts
    <3> QED BY <1>9, <3>1, ItemsFacts
  <2>2. PhaseOf(id) = "armed"
    BY <1>9, <2>1 DEF PhaseOf
  <2>3. PhaseOf(id)' = "over"
    BY <1>1, <1>3, <1>4, <1>9, <2>1 DEF PhaseOf
  <2>4. Contract!Enter(id, {"armed"}, "over")
    BY <1>7, <2>2, <2>3, Enters
  <2>5. ~Contract!NoneRuns
    <3>1. current.id \in Ids
      BY <1>1 DEF RInv
    <3>2. PICK j \in Ids : j = current.id
      BY <3>1
    <3>3. PhaseOf(j) = "running"
      BY <3>2 DEF PhaseOf
    <3> QED BY <3>3 DEF Contract!NoneRuns
  <2> QED BY <1>2, <1>6, <2>4, <2>5 DEF Contract!Withdraw
<1> QED BY <1>8, <1>9

\* RunEnd: the destructor's function; nobody waits for it.
LEMMA RunEndStep ==
  ASSUME IInv, RInv, RunEnd
  PROVE  RInv' /\ UNCHANGED Contract!cvars
<1> DEFINE h == Head(m_q)
<1>1. /\ m_q # <<>> /\ m_q' = Tail(m_q) /\ h.op = "end"
      /\ UNCHANGED <<lastId, m_scheduledCalls, current, cancelled, blocked, handles,
                     closing>>
  BY DEF RunEnd, TakesTask, calls, history
<1>2. /\ h \in Items /\ Items' = Items \ {h} /\ OneTask(m_q)'
      /\ \A t \in Items' :
           /\ t.op \in {"insert", "end"} => t.by = NoClient
           /\ t.op = "remove" => /\ t.by \in Clients
                                 /\ t.id \notin handles' /\ t.id \notin cancelled
           /\ t.by \in Clients => current.by # t.by /\ blocked'[t.by]
           /\ t.op = "end" => closing'
      /\ \A t, u \in Items' :
           \/ t = u
           \/ /\ t.by \in Clients => t.by # u.by
              /\ t.op = "remove" /\ u.op = "remove" => t.id # u.id
  BY <1>1, OneLessKeeps
<1>3. h.by = NoClient /\ ~Posts(h)
  BY <1>1, <1>2 DEF RInv, Posts
<1> HIDE DEF h
<1>4. RInv'
  <2>1. /\ (current.by \in Clients => blocked[current.by])'
        /\ (current = Idle \/ current.id \in Ids)'
        /\ \A id \in handles' : id \notin cancelled'
    BY <1>1 DEF RInv, Ids
  <2> QED BY <1>1, <1>2, <2>1 DEF RInv
<1>5. Posted' = Posted
  <2>1. Posted = {u.id : u \in {v \in Items : Posts(v)}}
    BY ItemsFacts
  <2> QED BY <1>2, <1>3, <2>1, PostedThen
<1>6. Scheduled' = Scheduled
  BY <1>1, ScheduledStays
<1>7. ASSUME NEW c \in Clients PROVE OwedTo(c)' = OwedTo(c)
  <2>1. h.by # c
    BY <1>3, ClientsAssumption
  <2> QED BY <1>1, <1>2, <2>1, DebtsAlone
<1>8. UNCHANGED Contract!cvars
  BY <1>1, <1>5, <1>6, <1>7, StutterStep
<1> QED BY <1>4, <1>8

\* Destroy: the destructor's function comes last, and once.
LEMMA DestroyStep ==
  ASSUME IInv, RInv, Destroy
  PROVE  RInv' /\ UNCHANGED Contract!cvars
<1> DEFINE t == [op |-> "end", id |-> 0, at |-> 0, interval |-> 0, by |-> NoClient]
<1>1. /\ m_q' = Append(m_q, t) /\ ~closing /\ closing'
      /\ UNCHANGED <<lastId, m_scheduledCalls, current, cancelled, blocked, handles>>
  BY DEF Destroy, Add, calls, history
<1>2. /\ t \in Task /\ t.op = "end" /\ t.by = NoClient
  BY BoundsAssumption DEF Task
<1> HIDE DEF t
<1>3. t \notin Items
  BY <1>1, <1>2 DEF RInv
<1>4. RInv' /\ Items' = Items \cup {t}
  BY <1>1, <1>2, <1>3, ClientsAssumption, OneMoreKeeps
<1>5. Posted' = Posted
  <2>1. Posted = {u.id : u \in {v \in Items : Posts(v)}} /\ ~Posts(t)
    BY <1>2, ItemsFacts DEF Posts
  <2> QED BY <1>4, <2>1, PostedThen
<1>6. Scheduled' = Scheduled
  BY <1>1, ScheduledStays
<1>7. ASSUME NEW c \in Clients PROVE OwedTo(c)' = OwedTo(c)
  <2>1. t.by # c
    BY <1>2, ClientsAssumption
  <2> QED BY <1>1, <1>4, <2>1, DebtsAlone
<1>8. UNCHANGED Contract!cvars
  BY <1>1, <1>5, <1>6, <1>7, StutterStep
<1> QED BY <1>4, <1>8

\* A function that nobody waits for comes or goes.
LEMMA AnyOtherStep ==
  ASSUME IInv, RInv, RunOther \/ \E p \in Clients \cup {Self} : CallOther(p)
  PROVE  RInv' /\ UNCHANGED Contract!cvars
<1> DEFINE t == [op |-> "other", id |-> 0, at |-> 0, interval |-> 0, by |-> NoClient]
<1>1. /\ \/ m_q # <<>> /\ m_q' = Tail(m_q) /\ Head(m_q).op = "other"
         \/ m_q' = Append(m_q, t)
      /\ UNCHANGED <<lastId, m_scheduledCalls, current, cancelled, blocked, handles,
                     closing>>
  BY DEF RunOther, CallOther, TakesTask, Add, calls, life, history
<1>2. t \in Task /\ t.op = "other" /\ m_q \in Seq(Task) /\ OneTask(m_q)
  BY BoundsAssumption, ItemsFacts DEF Task, RInv
<1> HIDE DEF t
<1>3. Told(m_q)' = Told(m_q') /\ OneTask(m_q)' = OneTask(m_q')
  BY DEF Told, Entries, OneTask
<1>4. t \notin Told(m_q) /\ \A u \in Told(m_q) : u.op # "other"
  BY <1>2 DEF Told
<1>5. Items' = Items /\ OneTask(m_q)'
  <2>1. CASE m_q # <<>> /\ m_q' = Tail(m_q) /\ Head(m_q).op = "other"
    BY <1>2, <1>3, <1>4, <2>1, EntriesTail DEF Items
  <2>2. CASE m_q' = Append(m_q, t)
    BY <1>2, <1>3, <1>4, <2>2, EntriesAppend DEF Items
  <2> QED BY <1>1, <2>1, <2>2
<1>6. RInv'
  <2>1. \A id \in handles' : id \notin cancelled'
    BY <1>1 DEF RInv
  <2>2. (current.by \in Clients => blocked[current.by])'
        /\ (current = Idle \/ current.id \in Ids)'
    BY <1>1 DEF RInv, Ids
  <2> QED BY <1>1, <1>5, <2>1, <2>2 DEF RInv
<1>7. Posted' = Posted
  BY <1>5, ItemsFacts, PostedThen
<1>8. Scheduled' = Scheduled
  BY <1>1, ScheduledStays
<1>9. ASSUME NEW c \in Clients PROVE OwedTo(c)' = OwedTo(c)
  BY <1>1, <1>5, DebtsAlone
<1> QED BY <1>1, <1>6, <1>7, <1>8, <1>9, StutterStep

\* Exit, the clock, and steps of the rest of the program.
LEMMA OtherStep ==
  ASSUME IInv, RInv, Exit \/ Tick \/ UNCHANGED vars
  PROVE  RInv' /\ UNCHANGED Contract!cvars
<1>1. UNCHANGED <<lastId, m_q, m_scheduledCalls, current, cancelled, blocked, handles,
                  closing>>
  BY DEF Exit, Tick, vars, calls, life, history
<1>2. RInv' /\ Items' = Items
  BY <1>1, QueueKeeps
<1>3. Posted' = Posted
  BY <1>1 DEF Posted
<1>4. Scheduled' = Scheduled
  BY <1>1, ScheduledStays
<1>5. ASSUME NEW c \in Clients PROVE OwedTo(c)' = OwedTo(c)
  BY <1>1, <1>2, DebtsAlone
<1> QED BY <1>1, <1>2, <1>3, <1>4, <1>5, StutterStep

\* CallAsync, Call, CallAt and CallEvery: a new id, so a task like no other.
LEMMA NewCallStep ==
  ASSUME IInv, RInv, NEW t \in Task, m_q' = Append(m_q, t),
         t.op \in {"fn", "insert"}, NewCall(t.id), t.id \in Ids,
         t.op = "insert" => t.by = NoClient,
         t.by \in Clients => ~blocked[t.by] /\ blocked'[t.by],
         \A c \in Clients : blocked[c] => blocked'[c],
         handles' \subseteq handles \cup {t.id},
         UNCHANGED <<m_scheduledCalls, current, cancelled, closing>>
  PROVE  RInv' /\ Contract!Post(t.id)
<1>1. t.id = lastId + 1 /\ lastId' = lastId + 1 /\ Posts(t)
  BY DEF NewCall, Posts
<1>2. \A u \in Items : u.id \in Nat /\ u.id <= lastId
  BY ItemsFacts
<1>3. t \notin Items
  BY <1>1, <1>2, ItemsFacts
<1>4. t.by \in Clients => current.by # t.by /\ \A u \in Items : u.by # t.by
  BY NothingOwed
<1>5. /\ current' = current /\ cancelled' = cancelled
      /\ t.op \in {"insert", "end"} => t.by = NoClient
      /\ t.op # "remove" /\ t.op # "end"
      /\ closing => closing'
      /\ \A id \in handles' : id \in handles \/ id = lastId + 1
  BY <1>1
<1>6. RInv' /\ Items' = Items \cup {t}
  BY <1>3, <1>4, <1>5, OneMoreKeeps
<1> QED BY <1>1, <1>6, PostStep

LEMMA PostingSteps ==
  ASSUME IInv, RInv,
         \/ \E p \in Clients \cup {Self} :
              \/ CallAsync(p)
              \/ \E d \in Times \ {0} : CallAt(p, d) \/ CallEvery(p, d)
         \/ \E c \in Clients : Call(c)
  PROVE  RInv' /\ \E id \in Ids : Contract!Post(id)
<1>0. blocked \in [Clients -> BOOLEAN] /\ Times \subseteq Nat
  BY BoundsAssumption DEF IInv, TypeOK, Times
<1>1. ASSUME NEW op \in {"fn", "insert"}, NEW at \in Nat, NEW interval \in Nat,
             NEW by \in Clients \cup {NoClient}, NEW id \in Ids, NewCall(id),
             Add([op |-> op, id |-> id, at |-> at, interval |-> interval, by |-> by]),
             op = "insert" => by = NoClient,
             by \in Clients => ~blocked[by] /\ blocked'[by],
             \A c \in Clients : blocked[c] => blocked'[c],
             handles' \subseteq handles \cup {id},
             UNCHANGED <<m_scheduledCalls, current, life, history>>
      PROVE  RInv' /\ \E i \in Ids : Contract!Post(i)
  <2> DEFINE t == [op |-> op, id |-> id, at |-> at, interval |-> interval, by |-> by]
  <2>1. t \in Task
    BY BoundsAssumption DEF Task, Ids
  <2>2. m_q' = Append(m_q, t) /\ t.op = op /\ t.id = id /\ t.by = by
    BY <1>1 DEF Add
  <2> HIDE DEF t
  <2>3. UNCHANGED <<m_scheduledCalls, current, cancelled, closing>>
    BY <1>1 DEF life, history
  <2>4. RInv' /\ Contract!Post(t.id)
    BY <1>1, <2>1, <2>2, <2>3, NewCallStep
  <2> QED BY <2>2, <2>4
<1>2. ASSUME NEW p \in Clients \cup {Self}, CallAsync(p)
      PROVE  RInv' /\ \E id \in Ids : Contract!Post(id)
  <2>1. PICK id \in Ids :
          /\ NewCall(id)
          /\ Add([op |-> "fn", id |-> id, at |-> 0, interval |-> 0, by |-> NoClient])
          /\ UNCHANGED <<now, m_scheduledCalls, current, life, blocked, handles, history>>
    BY <1>2 DEF CallAsync
  <2>2. NoClient \in Clients => ~blocked[NoClient] /\ blocked'[NoClient]
    BY ClientsAssumption
  <2> QED BY <1>1, <2>1, <2>2
<1>3. ASSUME NEW p \in Clients \cup {Self}, NEW at \in Times, CallAt(p, at)
      PROVE  RInv' /\ \E id \in Ids : Contract!Post(id)
  <2>1. PICK id \in Ids :
          /\ NewCall(id)
          /\ Add([op |-> "insert", id |-> id, at |-> at, interval |-> 0, by |-> NoClient])
          /\ handles' = handles \cup {id}
          /\ UNCHANGED <<now, m_scheduledCalls, current, life, blocked, history>>
    BY <1>3 DEF CallAt
  <2>2. NoClient \in Clients => ~blocked[NoClient] /\ blocked'[NoClient]
    BY ClientsAssumption
  <2> QED BY <1>0, <1>1, <2>1, <2>2
<1>4. ASSUME NEW p \in Clients \cup {Self}, NEW interval \in Times \ {0},
             CallEvery(p, interval)
      PROVE  RInv' /\ \E id \in Ids : Contract!Post(id)
  <2>1. PICK id \in Ids :
          /\ NewCall(id)
          /\ Add([op |-> "insert", id |-> id, at |-> 0, interval |-> interval,
                  by |-> NoClient])
          /\ handles' = handles \cup {id}
          /\ UNCHANGED <<now, m_scheduledCalls, current, life, blocked, history>>
    BY <1>4 DEF CallEvery
  <2>2. NoClient \in Clients => ~blocked[NoClient] /\ blocked'[NoClient]
    BY ClientsAssumption
  <2> QED BY <1>0, <1>1, <2>1, <2>2
<1>5. ASSUME NEW c \in Clients, Call(c)
      PROVE  RInv' /\ \E id \in Ids : Contract!Post(id)
  <2>1. PICK id \in Ids :
          /\ NewCall(id)
          /\ Add([op |-> "fn", id |-> id, at |-> 0, interval |-> 0, by |-> c])
          /\ blocked' = [blocked EXCEPT ![c] = TRUE]
          /\ UNCHANGED <<now, m_scheduledCalls, current, life, handles, history>>
    BY <1>5 DEF Call
  <2>2. blocked'[c] /\ \A d \in Clients : blocked[d] => blocked'[d]
    BY <1>0, <2>1
  <2>3. ~blocked[c]
    BY <1>5, ClientsAssumption DEF Call, CanCall
  <2> QED BY <1>1, <2>1, <2>2, <2>3
<1> QED BY <1>2, <1>3, <1>4, <1>5

\* Cancel from a client: what it holds a handle of was posted, and nobody else
\* has asked for its removal.
LEMMA CancelStep ==
  ASSUME IInv, RInv, NEW c \in Clients, NEW id \in Ids, CancelFromClient(c, id)
  PROVE  RInv' /\ Contract!AskCancel(c, id)
<1> DEFINE t == [op |-> "remove", id |-> id, at |-> 0, interval |-> 0, by |-> c]
<1>1. /\ m_q' = Append(m_q, t) /\ id \in handles /\ handles' = handles \ {id}
      /\ blocked' = [blocked EXCEPT ![c] = TRUE]
      /\ UNCHANGED <<lastId, m_scheduledCalls, current, cancelled, closing>>
  BY DEF CancelFromClient, Add, life, history
<1>2. t \in Task /\ t.op = "remove" /\ t.id = id /\ t.by = c
  BY BoundsAssumption DEF Task, Ids
<1>3. ~blocked[c]
  BY ClientsAssumption DEF CancelFromClient, CanCall
<1> HIDE DEF t
<1>4. blocked'[c] /\ \A d \in Clients : blocked[d] => blocked'[d]
  BY <1>1 DEF IInv, TypeOK
<1>5. current.by # c /\ \A u \in Items : u.by # c
  BY <1>3, NothingOwed
<1>6. t \notin Items
  BY <1>2, <1>5
<1>7. id \notin cancelled /\ id \notin handles'
  BY <1>1 DEF RInv
<1>8. /\ t.op \notin {"insert", "end"} /\ t.op # "end"
      /\ closing => closing'
      /\ \A i \in handles' : i \in handles
  BY <1>1, <1>2
<1>9. RInv' /\ Items' = Items \cup {t}
  BY <1>1, <1>2, <1>4, <1>5, <1>6, <1>7, <1>8, OneMoreKeeps
<1> QED BY <1>1, <1>2, <1>3, <1>9, AskStep

\* The state a behaviour starts in is the contract's.
LEMMA InitStep == Init => RInv /\ Contract!CInit
<1> SUFFICES ASSUME Init PROVE RInv /\ Contract!CInit
  OBVIOUS
<1>1. /\ m_q = <<>> /\ m_scheduledCalls = <<>> /\ current = Idle /\ lastId = 0
      /\ handles = {} /\ cancelled = {}
  BY DEF Init
<1>2. Items = {} /\ Scheduled = {} /\ Posted = {} /\ DOMAIN m_q = {}
  BY <1>1 DEF Items, Told, Entries, Scheduled, Posted
<1>3. current.id = 0 /\ current.by = NoClient
  BY <1>1 DEF Idle
<1>4. RInv
  BY <1>1, <1>2, <1>3, ClientsAssumption DEF RInv, OneTask
<1>5. ASSUME NEW i \in Ids PROVE PhaseOf(i) = "new"
  <2>1. i # 0 /\ i > 0
    BY BoundsAssumption DEF Ids
  <2> QED BY <1>1, <1>2, <1>3, <2>1 DEF PhaseOf
<1>6. ASSUME NEW c \in Clients PROVE OwedTo(c) = {}
  <2>1. current.by # c
    BY <1>3, ClientsAssumption
  <2> QED BY <1>2, <2>1, OwedNow
<1> QED BY <1>4, <1>5, <1>6 DEF Contract!CInit

(* ActiveExecutor keeps the contract of an executor, for any clients, calls and
   deadlines: every step of it is a step of ExecutorContract or changes nothing
   a client sees. *)
THEOREM ExecutorKeepsContract == Spec => KeepsContract
<1>1. Init => RInv /\ Contract!CInit
  BY InitStep
<1>2. IInv /\ RInv /\ [Next]_vars => RInv' /\ [Contract!CNext]_(Contract!cvars)
  <2> SUFFICES ASSUME IInv, RInv, [Next]_vars
               PROVE  RInv' /\ [Contract!CNext]_(Contract!cvars)
    OBVIOUS
  <2>1. CASE StartFn
    BY <2>1, StartFnStep DEF Contract!CNext
  <2>2. CASE RunInsert
    BY <2>2, RunInsertStep DEF Contract!CNext
  <2>3. CASE RunRemove
    BY <2>3, RunRemoveStep DEF Contract!CNext
  <2>4. CASE RunEnd
    BY <2>4, RunEndStep
  <2>5. CASE StartTimed
    BY <2>5, StartTimedStep DEF Contract!CNext
  <2>6. CASE Finish
    BY <2>6, FinishStep DEF Contract!CNext
  <2>7. CASE Exit \/ Tick \/ UNCHANGED vars
    BY <2>7, OtherStep
  <2>8. CASE Destroy
    BY <2>8, DestroyStep
  <2>9. CASE \E id \in Ids : CancelFromSelf(id)
    <3>1. PICK id \in Ids : CancelFromSelf(id)
      BY <2>9
    <3>2. RInv' /\ (Contract!Withdraw(id) \/ UNCHANGED Contract!cvars)
      BY <3>1, WithdrawStep
    <3> QED BY <3>2 DEF Contract!CNext
  <2>10. CASE \E c \in Clients : \E id \in Ids : CancelFromClient(c, id)
    <3>1. PICK c \in Clients, id \in Ids : CancelFromClient(c, id)
      BY <2>10
    <3>2. RInv' /\ Contract!AskCancel(c, id)
      BY <3>1, CancelStep
    <3> QED BY <3>2 DEF Contract!CNext
  <2>11. CASE \/ \E p \in Clients \cup {Self} :
                   \/ CallAsync(p)
                   \/ \E d \in Times \ {0} : CallAt(p, d) \/ CallEvery(p, d)
              \/ \E c \in Clients : Call(c)
    BY <2>11, PostingSteps DEF Contract!CNext
  <2>12. CASE RunOther \/ \E p \in Clients \cup {Self} : CallOther(p)
    BY <2>12, AnyOtherStep
  <2> QED BY <2>1, <2>2, <2>3, <2>4, <2>5, <2>6, <2>7, <2>8, <2>9, <2>10, <2>11,
             <2>12 DEF Next, RunOne
<1> QED BY <1>1, <1>2, ExecutorInvariant, PTL DEF Spec, KeepsContract, Contract!CSpec
=============================================================================
