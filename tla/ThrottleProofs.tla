--------------------------- MODULE ThrottleProofs ---------------------------
(***************************************************************************)
(* Proofs about Throttle, for any callers: one PendingCall at a time, and  *)
(* no call forgotten while clock readings stay in order and m_fn returns.  *)
(***************************************************************************)
EXTENDS Throttle, SequenceTheorems, FiniteSetTheorems, TLAPS

LEMMA DeltaIsPositive == Delta \in Nat /\ Delta > 0 /\ History \in Nat
  BY DeltaAssumption, BoundsAssumption

LEMMA SumIsNat == \A x, y \in Nat : x + y \in Nat
  OBVIOUS

LEMMA LaterIsLater ==
  \A x, n \in Nat : /\ n <= n
                    /\ x <= n => x <= n + 1
                    /\ n > x => n + 1 > x
  OBVIOUS

LEMMA PastTheDeadline ==
  \A d, x, t, n \in Nat : d > 0 /\ t >= x + d /\ t <= n => n > x
  OBVIOUS

LEMMA LaterStillFresh ==
  \A x, y, z \in Nat : x >= y /\ y > z => x > z
  OBVIOUS

LEMMA WithoutProperties ==
  ASSUME NEW s \in Seq(Nat), NEW k \in DOMAIN s
  PROVE  /\ Without(s, k) \in Seq(Nat)
         /\ Len(Without(s, k)) = Len(s) - 1
         /\ Len(s) \in Nat \ {0}
<1>1. Len(s) \in Nat /\ DOMAIN s = 1 .. Len(s) /\ \A i \in 1 .. Len(s) : s[i] \in Nat
  BY LenProperties, ElementOfSeq
<1>2. Len(s) \in Nat \ {0} /\ Len(s) - 1 \in Nat
  BY <1>1
<1>3. Without(s, k) \in [1 .. Len(s) - 1 -> Nat]
  BY <1>1 DEF Without
<1>4. Without(s, k) \in Seq(Nat)
  BY <1>2, <1>3, SeqDef
<1>5. DOMAIN Without(s, k) = 1 .. Len(s) - 1 /\ Len(Without(s, k)) \in Nat
      /\ DOMAIN Without(s, k) = 1 .. Len(Without(s, k))
  BY <1>3, <1>4, LenProperties
<1> QED BY <1>2, <1>4, <1>5

\* What holds of an append to an empty list of deadlines.
LEMMA AppendToNone ==
  ASSUME NEW s \in Seq(Nat), s = <<>>, NEW t \in Nat
  PROVE  /\ Append(s, t) \in Seq(Nat) /\ Len(Append(s, t)) = 1
         /\ Append(s, t) # <<>> /\ DOMAIN Append(s, t) = {1} /\ Append(s, t)[1] = t
<1>1. Len(s) = 0
  BY EmptySeq
<1>2. /\ Append(s, t) \in Seq(Nat) /\ Len(Append(s, t)) = Len(s) + 1
      /\ Append(s, t)[Len(s) + 1] = t
  BY AppendProperties
<1>3. DOMAIN Append(s, t) = 1 .. 1
  BY <1>1, <1>2, LenProperties
<1> QED BY <1>1, <1>2, <1>3, EmptySeq

LEMMA OneLeft ==
  ASSUME NEW s \in Seq(Nat), Len(s) <= 1, NEW k \in DOMAIN s
  PROVE  Without(s, k) \in Seq(Nat) /\ Without(s, k) = <<>> /\ s # <<>>
<1>1. Len(Without(s, k)) = 0 /\ Without(s, k) \in Seq(Nat) /\ Len(s) # 0
  BY WithoutProperties
<1> QED BY <1>1, EmptySeq

LEMMA RememberIsSeq ==
  ASSUME starts \in Seq(Nat), NEW t \in Nat, Remember(t)
  PROVE  starts' \in Seq(Nat)
<1>1. Len(starts) \in Nat /\ History \in Nat
  BY LenProperties, DeltaIsPositive
<1>2. CASE Len(starts) < History \/ History = 0
  BY <1>2, AppendProperties DEF Remember
<1>3. CASE ~(Len(starts) < History) /\ History # 0
  <2>1. Len(starts) # 0
    BY <1>1, <1>3
  <2>2. Tail(starts) \in Seq(Nat)
    BY <2>1, HeadTailProperties, EmptySeq
  <2> QED BY <1>3, <2>2, AppendProperties DEF Remember
<1> QED BY <1>2, <1>3

------------------------------------------------------------------------------
(* At most one PendingCall *)

LEMMA PInvInit == Init => PInv
<1> SUFFICES ASSUME Init PROVE PInv
  OBVIOUS
<1>1. scheduled \in Seq(Nat) /\ Len(scheduled) = 0 /\ starts \in Seq(Nat)
  BY EmptySeq DEF Init
<1>2. TypeOK
  BY <1>1 DEF Init, TypeOK
<1> QED BY <1>1, <1>2 DEF Init, PInv, AtMostOnePending, PendingIsMarked, Held,
                          Busy, Posting, At

LEMMA PInvStep == PInv /\ [Next]_vars => PInv'
<1> SUFFICES ASSUME PInv, [Next]_vars PROVE PInv'
  OBVIOUS
<1>t. /\ now \in Nat /\ Delta \in Nat /\ Delta > 0 /\ stamp \in [Callers -> Nat]
      /\ pc \in [Callers -> {"idle", "stamped", "posting"}]
      /\ m_lastCallTime \in Nat /\ m_lastSchedulingTime \in Nat
      /\ m_callPending \in BOOLEAN
      /\ runner \in {"idle", "in fn", "stamped", "posting"}
      /\ runnerStamp \in Nat /\ scheduled \in Seq(Nat) /\ starts \in Seq(Nat)
      /\ unserved \subseteq Callers /\ regular \in BOOLEAN
  BY DeltaIsPositive DEF PInv, TypeOK
<1> USE DEF AtMostOnePending, PendingIsMarked, Held, Busy, Posting, At, Goto
<1>p. AtMostOnePending /\ PendingIsMarked
  BY DEF PInv
<1>1. ASSUME NEW c \in Callers, Stamp(c) PROVE PInv'
  <2>1. TypeOK'
    BY <1>1, <1>t DEF Stamp, TypeOK, members, executor
  <2> QED BY <1>1, <1>t, <1>p, <2>1 DEF Stamp, PInv, members, executor
<1>2. ASSUME NEW c \in Callers, Schedule(c) PROVE PInv'
  <2>1. TypeOK'
    BY <1>2, <1>t DEF Schedule, TypeOK, executor, history
  <2> QED BY <1>2, <1>t, <1>p, <2>1 DEF Schedule, PInv, executor, history
<1>3. ASSUME NEW c \in Callers, Post(c) PROVE PInv'
  <2>1. scheduled = <<>> /\ runner = "idle" /\ m_callPending
    BY <1>3, <1>p DEF Post
  <2>2. stamp[c] + Delta \in Nat
    BY <1>t, SumIsNat
  <2>3. scheduled' \in Seq(Nat) /\ Len(scheduled') = 1
    BY <1>3, <2>1, <2>2, <1>t, AppendToNone DEF Post
  <2>4. TypeOK'
    BY <1>3, <2>3, <1>t DEF Post, TypeOK, members, history
  <2>5. ~Posting'
    BY <1>3, <1>t, <1>p DEF Post
  <2> QED BY <1>3, <2>1, <2>3, <2>4, <2>5 DEF Post, PInv, members
<1>4. CASE StartFn
  <2>1. PICK k \in DOMAIN scheduled : scheduled' = Without(scheduled, k)
    BY <1>4 DEF StartFn
  <2>2. scheduled' \in Seq(Nat) /\ scheduled' = <<>> /\ scheduled # <<>>
    BY <2>1, <1>t, <1>p, OneLeft
  <2>3. Len(scheduled') = 0
    BY <2>2, EmptySeq
  <2>4. starts' \in Seq(Nat)
    BY <1>4, <1>t, RememberIsSeq DEF StartFn
  <2>5. TypeOK'
    BY <1>4, <2>2, <2>4, <1>t DEF StartFn, TypeOK, locals, members
  <2>6. ~Posting'
    BY <1>4, <1>p, <2>2 DEF StartFn, locals
  <2>7. m_callPending
    BY <1>p, <2>2
  <2>8. m_callPending' = m_callPending /\ runner' = "in fn"
    BY <1>4 DEF StartFn, members
  <2>9. PendingIsMarked'
    BY <2>7, <2>8
  <2>10. AtMostOnePending'
    BY <2>2, <2>3, <2>6
  <2> QED BY <2>5, <2>9, <2>10 DEF PInv
<1>5. CASE FnReturns
  <2>1. TypeOK'
    BY <1>5, <1>t DEF FnReturns, TypeOK, locals, members, history
  <2> QED BY <1>5, <1>p, <2>1 DEF FnReturns, PInv, locals, members
<1>6. CASE FnThrows
  <2>1. TypeOK'
    BY <1>6, <1>t DEF FnThrows, TypeOK, locals, members, history
  <2> QED BY <1>6, <1>p, <2>1 DEF FnThrows, PInv, locals, members
<1>7. CASE Decide
  <2>1. TypeOK'
    BY <1>7, <1>t DEF Decide, TypeOK, locals, history
  <2> QED BY <1>7, <1>p, <2>1 DEF Decide, PInv, locals
<1>8. CASE PostAgain
  <2>1. scheduled = <<>> /\ ~Posting /\ m_callPending
    BY <1>8, <1>p DEF PostAgain
  <2>2. runnerStamp + Delta \in Nat
    BY <1>t, SumIsNat
  <2>3. scheduled' \in Seq(Nat) /\ Len(scheduled') = 1
    BY <1>8, <2>1, <2>2, <1>t, AppendToNone DEF PostAgain
  <2>4. TypeOK'
    BY <1>8, <2>3, <1>t DEF PostAgain, TypeOK, locals, members, history
  <2> QED BY <1>8, <2>1, <2>3, <2>4 DEF PostAgain, PInv, locals, members
<1>9. CASE Tick
  <2>1. TypeOK'
    BY <1>9, <1>t, SumIsNat DEF Tick, TypeOK, locals, members, executor, history
  <2> QED BY <1>9, <1>p, <2>1 DEF Tick, PInv, locals, members, executor
<1>10. CASE UNCHANGED vars
  <2>1. TypeOK'
    BY <1>10 DEF vars, PInv, TypeOK, locals, members, executor, history
  <2> QED BY <1>10, <1>p, <2>1 DEF vars, PInv, locals, members, executor
<1> QED BY <1>1, <1>2, <1>3, <1>4, <1>5, <1>6, <1>7, <1>8, <1>9, <1>10 DEF Next

(* However many threads call the throttle, and whether or not m_fn throws, at
   most one PendingCall is posted, held or running: operator() and PendingCall
   never schedule two. *)
THEOREM OnePendingCall == Spec => []AtMostOnePending
<1>1. PInv => AtMostOnePending
  BY DEF PInv
<1> QED BY <1>1, PInvInit, PInvStep, PTL DEF Spec

------------------------------------------------------------------------------
(* No call forgotten *)

LEMMA SInvInit == Init => SInv
<1> SUFFICES ASSUME Init PROVE SInv
  OBVIOUS
<1>1. PInv
  BY PInvInit
<1>2. DOMAIN scheduled = {}
  BY DEF Init
<1> QED BY <1>1, <1>2 DEF Init, SInv, RegularCallsAreServed, NoCallForgotten, InCall, Posting, At, Fresh

LEMMA SInvStep ==
  ASSUME SInv, [Next]_vars
  PROVE  SInv'
<1>0. PInv'
  BY PInvStep DEF SInv
<1>t. /\ now \in Nat /\ Delta \in Nat /\ Delta > 0 /\ stamp \in [Callers -> Nat]
      /\ pc \in [Callers -> {"idle", "stamped", "posting"}]
      /\ m_lastCallTime \in Nat /\ m_lastSchedulingTime \in Nat
      /\ m_callPending \in BOOLEAN
      /\ runner \in {"idle", "in fn", "stamped", "posting"}
      /\ runnerStamp \in Nat /\ scheduled \in Seq(Nat)
      /\ unserved \subseteq Callers /\ regular \in BOOLEAN
  BY DeltaIsPositive DEF SInv, PInv, TypeOK
<1>p. AtMostOnePending /\ PendingIsMarked
  BY DEF SInv, PInv
<1> USE DEF AtMostOnePending, PendingIsMarked, RegularCallsAreServed,
            NoCallForgotten, Held, Busy, Posting,
            InCall, Fresh, At, Goto
<1>s. /\ RegularCallsAreServed
      /\ regular /\ m_callPending => Held \/ Busy \/ Posting
      /\ \A c \in Callers : stamp[c] <= now
      /\ runnerStamp <= now
      /\ InCall => Fresh(now)
      /\ \A c \in Callers : At(c, "posting") => stamp[c] = m_lastSchedulingTime
      /\ runner = "posting" => runnerStamp = m_lastSchedulingTime
      /\ regular /\ InCall => \A c \in unserved :
           IF At(c, "idle") THEN Fresh(m_lastCallTime) ELSE Fresh(stamp[c])
  BY DEF SInv
<1>d. \A i \in DOMAIN scheduled :
        scheduled[i] \in Nat /\ scheduled[i] >= m_lastSchedulingTime + Delta
  <2>1. \A i \in DOMAIN scheduled : scheduled[i] \in Nat
    BY <1>t, ElementOfSeq, LenProperties
  <2> QED BY <2>1 DEF SInv
<1>1. ASSUME NEW c \in Callers, Stamp(c) PROVE SInv'
  <2>1. /\ pc[c] = "idle" /\ pc' = [pc EXCEPT ![c] = "stamped"]
        /\ stamp' = [stamp EXCEPT ![c] = now] /\ unserved' = unserved \cup {c}
        /\ now' = now /\ scheduled' = scheduled /\ runner' = runner
        /\ runnerStamp' = runnerStamp /\ m_callPending' = m_callPending
        /\ m_lastCallTime' = m_lastCallTime /\ regular' = regular
        /\ m_lastSchedulingTime' = m_lastSchedulingTime
    BY <1>1 DEF Stamp, members, executor
  <2>2. pc'[c] = "stamped" /\ stamp'[c] = now /\ now <= now
    BY <2>1, <1>t, LaterIsLater
  <2>3. \A d \in Callers : d # c => pc'[d] = pc[d] /\ stamp'[d] = stamp[d]
    BY <2>1, <1>t
  <2>4. Posting' <=> Posting
    BY <2>1, <2>2, <2>3
  <2>5. \A d \in Callers : stamp'[d] <= now
    BY <2>2, <2>3, <1>s
  <2>6. RegularCallsAreServed'
    BY <2>1, <2>2, <2>3, <2>4, <1>s, <1>t
  <2>7. \A d \in Callers : At(d, "posting")' => stamp'[d] = m_lastSchedulingTime
    BY <2>2, <2>3, <1>s
  <2>8. regular /\ InCall => \A d \in unserved' :
          IF At(d, "idle")' THEN Fresh(m_lastCallTime) ELSE Fresh(stamp'[d])
    BY <2>1, <2>2, <2>3, <1>s, <1>t
  <2> QED BY <1>0, <1>s, <1>d, <2>1, <2>4, <2>5, <2>6, <2>7, <2>8 DEF SInv
<1>2. ASSUME NEW c \in Callers, Schedule(c) PROVE SInv'
  <2>1. /\ pc[c] = "stamped" /\ m_lastCallTime' = stamp[c] /\ m_callPending'
        /\ regular' = (regular /\ stamp[c] >= m_lastCallTime)
        /\ now' = now /\ stamp' = stamp /\ scheduled' = scheduled
        /\ runner' = runner /\ runnerStamp' = runnerStamp /\ unserved' = unserved
    BY <1>2 DEF Schedule, executor
  <2>2. \A d \in Callers : d # c => pc'[d] = pc[d]
    BY <1>2, <1>t DEF Schedule
  <2>3. CASE m_callPending
    <3>1. pc'[c] = "idle" /\ m_lastSchedulingTime' = m_lastSchedulingTime
      BY <1>2, <2>3, <1>t DEF Schedule
    <3>2. Posting' <=> Posting
      BY <2>1, <2>2, <3>1
    <3>3. regular' => Held' \/ Busy' \/ Posting'
      BY <2>1, <2>3, <3>2, <1>s
    <3>4. ASSUME regular', InCall', NEW d \in unserved'
          PROVE  IF At(d, "idle")' THEN Fresh(m_lastCallTime)' ELSE Fresh(stamp[d])'
      <4>1. /\ d \in Callers /\ d \in unserved /\ regular /\ stamp[d] \in Nat
            /\ stamp[c] \in Nat /\ stamp[c] >= m_lastCallTime /\ InCall
        BY <3>4, <2>1, <1>t
      <4>2. IF At(d, "idle") THEN Fresh(m_lastCallTime) ELSE Fresh(stamp[d])
        BY <4>1, <1>s
      <4>3. CASE d = c
        BY <4>1, <4>2, <4>3, <2>1, <3>1
      <4>4. CASE d # c
        <5>1. stamp[c] > m_lastSchedulingTime \/ ~Fresh(m_lastCallTime)
          BY <4>1, <1>t, LaterStillFresh
        <5>2. At(d, "idle")' <=> At(d, "idle")
          BY <4>1, <4>4, <2>2
        <5> QED BY <4>2, <5>1, <5>2, <2>1, <3>1
      <4> QED BY <4>3, <4>4
    <3>5. \A d \in Callers : At(d, "posting")' => stamp[d] = m_lastSchedulingTime
      BY <2>2, <3>1, <1>s
    <3>6. RegularCallsAreServed'
      BY <3>3
    <3> QED BY <1>0, <1>s, <1>d, <2>1, <3>1, <3>3, <3>4, <3>5, <3>6 DEF SInv
  <2>4. CASE ~m_callPending
    <3>1. scheduled = <<>> /\ runner = "idle" /\ ~Posting
      BY <2>4, <1>p, <1>t
    <3>2. pc'[c] = "posting" /\ m_lastSchedulingTime' = stamp[c]
      BY <1>2, <2>4, <1>t DEF Schedule
    <3>3. Posting' /\ \A d \in Callers : At(d, "posting")' => d = c
      BY <2>2, <3>1, <3>2
    <3>4. DOMAIN scheduled' = {} /\ ~InCall' /\ runner' # "posting"
      BY <2>1, <3>1
    <3> QED BY <1>0, <1>s, <2>1, <3>2, <3>3, <3>4 DEF SInv
  <2> QED BY <2>3, <2>4
<1>3. ASSUME NEW c \in Callers, Post(c) PROVE SInv'
  <2>1. scheduled = <<>> /\ runner = "idle" /\ m_callPending
    BY <1>3, <1>p DEF Post
  <2>2. stamp[c] + Delta \in Nat /\ stamp[c] = m_lastSchedulingTime
    BY <1>3, <1>t, <1>s, SumIsNat DEF Post
  <2>3. scheduled' # <<>> /\ DOMAIN scheduled' = {1} /\ scheduled'[1] = stamp[c] + Delta
    BY <1>3, <2>1, <2>2, AppendToNone, <1>t DEF Post
  <2> QED BY <1>0, <1>3, <2>1, <2>2, <2>3, <1>t, <1>s DEF Post, SInv, members, history
<1>4. CASE StartFn
  <2>1. PICK k \in DOMAIN scheduled :
          scheduled' = Without(scheduled, k) /\ scheduled[k] <= now
    BY <1>4 DEF StartFn
  <2>2. scheduled' = <<>> /\ scheduled # <<>>
    BY <2>1, <1>t, <1>p, OneLeft
  <2>3. DOMAIN scheduled' = {} /\ ~Posting
    BY <2>2, <1>p
  <2>4. now > m_lastSchedulingTime
    BY <2>1, <1>t, <1>d, PastTheDeadline
  <2> QED BY <1>0, <1>4, <2>2, <2>3, <2>4, <1>t, <1>s DEF StartFn, SInv, locals, members
<1>5. CASE FnReturns
  BY <1>0, <1>5, <1>t, <1>s, <1>d, LaterIsLater DEF FnReturns, SInv, locals, members, history
<1>6. CASE FnThrows
  <2>1. /\ pc' = pc /\ stamp' = stamp /\ now' = now /\ scheduled' = scheduled
        /\ runner' = "idle" /\ runnerStamp' = runnerStamp /\ ~regular'
        /\ m_lastSchedulingTime' = m_lastSchedulingTime
    BY <1>6 DEF FnThrows, locals, members
  <2> QED BY <1>0, <1>s, <1>d, <2>1 DEF SInv
<1>7. CASE Decide
  <2>1. scheduled = <<>> /\ ~Posting
    BY <1>7, <1>p DEF Decide
  <2>2. DOMAIN scheduled = {} /\ scheduled' = scheduled
    BY <1>7, <2>1 DEF Decide
  <2> QED BY <1>0, <1>7, <2>1, <2>2, <1>t, <1>s DEF Decide, SInv, locals, history
<1>8. CASE PostAgain
  <2>1. scheduled = <<>> /\ ~Posting
    BY <1>8, <1>p DEF PostAgain
  <2>2. runnerStamp + Delta \in Nat /\ runnerStamp = m_lastSchedulingTime
    BY <1>8, <1>t, <1>s DEF PostAgain
  <2>3. scheduled' # <<>> /\ DOMAIN scheduled' = {1} /\ scheduled'[1] = runnerStamp + Delta
    BY <1>8, <2>1, <2>2, AppendToNone, <1>t DEF PostAgain
  <2> QED BY <1>0, <1>8, <2>1, <2>2, <2>3, <1>t, <1>s
          DEF PostAgain, SInv, locals, members, history
<1>9. CASE Tick
  <2>1. /\ now' = now + 1 /\ scheduled' = scheduled /\ runner' = runner
        /\ pc' = pc /\ stamp' = stamp /\ unserved' = unserved
        /\ runnerStamp' = runnerStamp /\ m_callPending' = m_callPending
        /\ m_lastCallTime' = m_lastCallTime /\ regular' = regular
        /\ m_lastSchedulingTime' = m_lastSchedulingTime
    BY <1>9 DEF Tick, locals, members, executor, history
  <2>2. (\A c \in Callers : stamp[c] <= now + 1) /\ runnerStamp <= now + 1
    BY <1>t, <1>s, LaterIsLater
  <2>3. InCall => Fresh(now + 1)
    BY <1>t, <1>s, LaterIsLater
  <2> QED BY <1>0, <1>s, <1>d, <2>1, <2>2, <2>3 DEF SInv
<1>10. CASE UNCHANGED vars
  BY <1>0, <1>10, <1>t, <1>s, <1>d DEF vars, SInv, locals, members, executor, history
<1> QED BY <1>1, <1>2, <1>3, <1>4, <1>5, <1>6, <1>7, <1>8, <1>9, <1>10 DEF Next

(* However many threads call the throttle: as long as no caller has moved
   m_lastCallTime back and m_fn has not thrown, m_fn was started after the
   entry of every call that returned, whenever nothing is pending; for every
   m_delta of at least one tick. *)
THEOREM RegularCallsServed == Spec => []RegularCallsAreServed
<1>1. SInv /\ [Next]_vars => SInv'
  BY SInvStep
<1>2. SInv => RegularCallsAreServed
  BY DEF SInv
<1> QED BY <1>1, <1>2, SInvInit, PTL DEF Spec

------------------------------------------------------------------------------
(* The rate, with stale readings of the clock *)

\* Callers that may still schedule with a reading from before t, and whether
\* what is scheduled is due before d: what can start m_fn within m_delta of t.
Stale(t) == {c \in Callers : ~At(c, "idle") /\ stamp[c] < t}
DueBefore(d) == \E i \in DOMAIN scheduled : scheduled[i] < d
Left(t) == Cardinality(Stale(t)) + (IF DueBefore(t + Delta) THEN 1 ELSE 0)

\* After a start of m_fn the next ones come m_delta later, but for those that
\* use up a reading from before it, of which every caller has one at most.
Spread(t, later) == Left(t) + later <= Cardinality(Callers)

BInv ==
  /\ Len(starts) <= History
  /\ \A i \in DOMAIN starts :
       /\ starts[i] <= now
       /\ runner \in {"stamped", "posting"} => starts[i] <= runnerStamp
       /\ \/ starts[Len(starts)] >= starts[i] + Delta
          \/ Spread(starts[i], Len(starts) - i)

LEMMA SmallerLeft ==
  ASSUME IsFiniteSet(Callers), NEW S, NEW T, S \subseteq T, T \subseteq Callers,
         NEW p \in BOOLEAN, NEW q \in BOOLEAN, p => q
  PROVE  Cardinality(S) + (IF p THEN 1 ELSE 0)
           <= Cardinality(T) + (IF q THEN 1 ELSE 0)
<1>1. IsFiniteSet(T) /\ IsFiniteSet(S) /\ Cardinality(S) <= Cardinality(T)
  BY FS_Subset
<1>2. Cardinality(S) \in Nat /\ Cardinality(T) \in Nat
  BY <1>1, FS_CardinalityType
<1> QED BY <1>1, <1>2

LEMMA LeftIsNat ==
  ASSUME IsFiniteSet(Callers), NEW t \in Nat
  PROVE  Left(t) \in Nat /\ Cardinality(Callers) \in Nat
<1>1. Stale(t) \subseteq Callers
  BY DEF Stale
<1>2. IsFiniteSet(Stale(t))
  BY <1>1, FS_Subset
<1>3. Cardinality(Stale(t)) \in Nat /\ Cardinality(Callers) \in Nat
  BY <1>2, FS_CardinalityType
<1> QED BY <1>3 DEF Left

\* No step makes more of what can start m_fn within m_delta of t: a caller
\* reads the clock after t, and a reading that is scheduled is used up.
LEMMA LeftStep ==
  ASSUME IsFiniteSet(Callers), PInv, [Next]_vars, ~StartFn,
         NEW t \in Nat, t <= now,
         runner \in {"stamped", "posting"} => t <= runnerStamp
  PROVE  Left(t)' <= Left(t)
<1>t. /\ now \in Nat /\ Delta \in Nat /\ Delta > 0 /\ stamp \in [Callers -> Nat]
      /\ pc \in [Callers -> {"idle", "stamped", "posting"}]
      /\ runnerStamp \in Nat /\ scheduled \in Seq(Nat)
  BY DeltaIsPositive DEF PInv, TypeOK
<1>s. Stale(t) \subseteq Callers
  BY DEF Stale
<1>p. AtMostOnePending
  BY DEF PInv
<1>b. DueBefore(t + Delta) \in BOOLEAN /\ DueBefore(t + Delta)' \in BOOLEAN
  BY DEF DueBefore
<1>q. ASSUME Stale(t)' \subseteq Stale(t), DueBefore(t + Delta)' => DueBefore(t + Delta)
      PROVE  Left(t)' <= Left(t)
  BY <1>q, <1>s, <1>b, SmallerLeft DEF Left
<1>1. ASSUME NEW c \in Callers, Stamp(c) PROVE Left(t)' <= Left(t)
  <2>1. stamp' = [stamp EXCEPT ![c] = now] /\ pc' = [pc EXCEPT ![c] = "stamped"]
        /\ scheduled' = scheduled
    BY <1>1 DEF Stamp, Goto, executor
  <2>2. stamp'[c] = now /\ ~(now < t)
    BY <2>1, <1>t
  <2>3. \A d \in Callers : d # c => stamp'[d] = stamp[d] /\ pc'[d] = pc[d]
    BY <2>1, <1>t
  <2>4. Stale(t)' \subseteq Stale(t)
    BY <2>2, <2>3 DEF Stale, At
  <2>5. DueBefore(t + Delta)' => DueBefore(t + Delta)
    BY <2>1 DEF DueBefore
  <2> QED BY <2>4, <2>5, <1>q
<1>2. ASSUME NEW c \in Callers, Schedule(c) PROVE Left(t)' <= Left(t)
  <2>1. stamp' = stamp /\ scheduled' = scheduled /\ pc[c] = "stamped"
    BY <1>2 DEF Schedule, At, executor
  <2>2. \A d \in Callers : d # c => pc'[d] = pc[d]
    BY <1>2, <1>t DEF Schedule, Goto
  <2>3. Stale(t)' \subseteq Stale(t)
    BY <2>1, <2>2 DEF Stale, At
  <2>4. DueBefore(t + Delta)' => DueBefore(t + Delta)
    BY <2>1 DEF DueBefore
  <2> QED BY <2>3, <2>4, <1>q
<1>3. ASSUME NEW c \in Callers, Post(c) PROVE Left(t)' <= Left(t)
  <2>1. scheduled = <<>> /\ pc[c] = "posting" /\ stamp' = stamp
        /\ pc' = [pc EXCEPT ![c] = "idle"]
        /\ scheduled' = Append(scheduled, stamp[c] + Delta)
    BY <1>3, <1>p DEF Post, Goto, At, AtMostOnePending, Held, Posting
  <2>2. stamp[c] \in Nat /\ stamp[c] + Delta \in Nat
    BY <1>t, SumIsNat
  <2>3. DOMAIN scheduled' = {1} /\ scheduled'[1] = stamp[c] + Delta
    BY <2>1, <2>2, <1>t, AppendToNone
  <2>4. DueBefore(t + Delta)' <=> stamp[c] + Delta < t + Delta
    BY <2>3 DEF DueBefore
  <2>5. ~DueBefore(t + Delta)
    BY <2>1 DEF DueBefore
  <2>6. Stale(t)' = Stale(t) \ {c}
    <3>1. pc'[c] = "idle" /\ \A d \in Callers : d # c => pc'[d] = pc[d]
      BY <2>1, <1>t
    <3> QED BY <3>1, <2>1 DEF Stale, At
  <2>7. CASE c \in Stale(t)
    <3>1. IsFiniteSet(Stale(t))
      BY <1>s, FS_Subset
    <3>2. Cardinality(Stale(t)) \in Nat
          /\ Cardinality(Stale(t) \ {c}) = Cardinality(Stale(t)) - 1
      BY <3>1, <2>7, FS_RemoveElement, FS_CardinalityType
    <3> DEFINE m == Cardinality(Stale(t))
    <3>3. Left(t) = m + 0
      BY <2>5 DEF Left
    <3>4. Left(t)' = m - 1 + (IF DueBefore(t + Delta)' THEN 1 ELSE 0)
      BY <2>6, <3>2 DEF Left
    <3>5. m \in Nat
      BY <3>2
    <3> HIDE DEF m
    <3> QED BY <3>3, <3>4, <3>5, <1>b
  <2>8. CASE c \notin Stale(t)
    <3>1. ~(stamp[c] < t)
      BY <2>8, <2>1 DEF Stale, At
    <3>2. ~(stamp[c] + Delta < t + Delta)
      BY <3>1, <2>2, <1>t
    <3> QED BY <2>4, <2>6, <3>2, <1>q
  <2> QED BY <2>7, <2>8
<1>4. CASE FnReturns \/ FnThrows \/ Decide \/ Tick \/ UNCHANGED vars
  <2>1. pc' = pc /\ stamp' = stamp /\ scheduled' = scheduled
    BY <1>4 DEF FnReturns, FnThrows, Decide, Tick, vars, locals, executor
  <2> QED BY <2>1, <1>q DEF Stale, At, DueBefore
<1>5. CASE PostAgain
  <2>1. scheduled = <<>> /\ runner = "posting" /\ pc' = pc /\ stamp' = stamp
        /\ scheduled' = Append(scheduled, runnerStamp + Delta)
    BY <1>5, <1>p DEF PostAgain, locals, AtMostOnePending, Held, Busy
  <2>2. runnerStamp + Delta \in Nat /\ ~(runnerStamp + Delta < t + Delta)
    BY <2>1, <1>t
  <2>3. DOMAIN scheduled' = {1} /\ scheduled'[1] = runnerStamp + Delta
    BY <2>1, <2>2, <1>t, AppendToNone
  <2>4. ~DueBefore(t + Delta)'
    BY <2>2, <2>3 DEF DueBefore
  <2> QED BY <2>1, <2>4, <1>q DEF Stale, At
<1> QED BY <1>1, <1>2, <1>3, <1>4, <1>5 DEF Next

\* What a start leaves behind, seen from an earlier one at t: unless it comes
\* m_delta later, it has used up what was due.
LEMMA StartUses ==
  ASSUME IsFiniteSet(Callers), PInv, StartFn, NEW t \in Nat, ~(now >= t + Delta)
  PROVE  Left(t)' + 1 <= Left(t)
<1>t. now \in Nat /\ Delta \in Nat /\ scheduled \in Seq(Nat) /\ AtMostOnePending
  BY DeltaIsPositive DEF PInv, TypeOK
<1>1. PICK k \in DOMAIN scheduled :
        scheduled' = Without(scheduled, k) /\ scheduled[k] <= now
  BY DEF StartFn
<1>2. pc' = pc /\ stamp' = stamp
  BY DEF StartFn, locals
<1>3. scheduled' = <<>>
  BY <1>1, <1>t, OneLeft DEF AtMostOnePending
<1>4. ~DueBefore(t + Delta)'
  BY <1>3 DEF DueBefore
<1>5. scheduled[k] \in Nat
  BY <1>t, ElementOfSeq, LenProperties
<1>6. scheduled[k] < t + Delta
  BY <1>1, <1>5, <1>t
<1>7. DueBefore(t + Delta)
  BY <1>6 DEF DueBefore
<1>8. Stale(t)' = Stale(t)
  BY <1>2 DEF Stale, At
<1>9. Cardinality(Stale(t)) \in Nat
  <2>1. IsFiniteSet(Stale(t))
    BY FS_Subset DEF Stale
  <2> QED BY <2>1, FS_CardinalityType
<1> QED BY <1>4, <1>7, <1>8, <1>9 DEF Left

LEMMA UpTo == \A m, n \in Nat : m <= n => m < n \/ m = n
  OBVIOUS

\* Remember keeps the last starts: those before the new one are the old ones,
\* as far from the end as they were.
LEMMA RememberKeeps ==
  ASSUME starts \in Seq(Nat), NEW t \in Nat, Remember(t),
         Len(starts) <= History, History > 0
  PROVE  \E k \in {0, 1} :
           /\ Len(starts') = Len(starts) + 1 - k /\ Len(starts') <= History
           /\ Len(starts') \in Nat /\ Len(starts') > 0
           /\ starts'[Len(starts')] = t
           /\ \A i \in 1 .. Len(starts') - 1 :
                i + k \in DOMAIN starts /\ starts'[i] = starts[i + k]
<1>1. /\ Len(starts) \in Nat /\ History \in Nat
      /\ DOMAIN starts = 1 .. Len(starts)
  BY LenProperties, DeltaIsPositive
<1>2. CASE Len(starts) < History
  <2>1. starts' = Append(starts, t)
    BY <1>2 DEF Remember
  <2>2. /\ Len(starts') = Len(starts) + 1 /\ starts'[Len(starts) + 1] = t
        /\ \A i \in 1 .. Len(starts) : starts'[i] = starts[i]
    BY <2>1, AppendProperties
  <2>3. \A i \in 1 .. Len(starts) : i + 0 = i
    OBVIOUS
  <2>4. Len(starts) + 1 - 0 = Len(starts) + 1 /\ Len(starts) + 1 - 1 = Len(starts)
        /\ Len(starts) + 1 <= History /\ Len(starts) + 1 \in Nat /\ Len(starts) + 1 > 0
    BY <1>1, <1>2
  <2> WITNESS 0 \in {0, 1}
  <2> QED BY <1>1, <2>2, <2>3, <2>4
<1>3. CASE Len(starts) = History
  <2>1. starts' = Append(Tail(starts), t) /\ starts # <<>>
    BY <1>1, <1>3, EmptySeq DEF Remember
  <2>2. /\ Tail(starts) \in Seq(Nat) /\ Len(Tail(starts)) = Len(starts) - 1
        /\ \A i \in 1 .. Len(Tail(starts)) : Tail(starts)[i] = starts[i + 1]
    BY <2>1, HeadTailProperties
  <2>3. /\ Len(starts') = Len(Tail(starts)) + 1
        /\ starts'[Len(Tail(starts)) + 1] = t
        /\ \A i \in 1 .. Len(Tail(starts)) : starts'[i] = Tail(starts)[i]
    BY <2>1, <2>2, AppendProperties
  <2>4. Len(starts') = Len(starts) /\ Len(starts) + 1 - 1 = Len(starts)
    BY <1>1, <2>2, <2>3
  <2>5. ASSUME NEW i \in 1 .. Len(starts) - 1
        PROVE  i + 1 \in DOMAIN starts /\ starts'[i] = starts[i + 1]
    BY <1>1, <2>2, <2>3
  <2>6. starts'[Len(starts')] = t
    BY <2>3
  <2>7. Len(starts') = Len(starts) + 1 - 1 /\ Len(starts') <= History
        /\ Len(starts') \in Nat /\ Len(starts') > 0
    BY <1>1, <1>3, <2>4
  <2>8. \A i \in 1 .. Len(starts') - 1 :
          i + 1 \in DOMAIN starts /\ starts'[i] = starts[i + 1]
    BY <2>4, <2>5
  <2> WITNESS 1 \in {0, 1}
  <2> QED BY <2>6, <2>7, <2>8
<1>4. Len(starts) < History \/ Len(starts) = History
  BY <1>1, UpTo
<1> QED BY <1>2, <1>3, <1>4, Zenon

LEMMA BInvInit == ASSUME Init PROVE BInv
<1>1. starts = <<>> /\ Len(starts) = 0 /\ DOMAIN starts = {}
  BY EmptySeq DEF Init
<1> QED BY <1>1, DeltaIsPositive DEF BInv

LEMMA BInvStep ==
  ASSUME IsFiniteSet(Callers), History > Cardinality(Callers),
         PInv, BInv, [Next]_vars
  PROVE  BInv'
<1>t. /\ now \in Nat /\ Delta \in Nat /\ starts \in Seq(Nat) /\ runnerStamp \in Nat
      /\ History \in Nat /\ Cardinality(Callers) \in Nat /\ History > 0
      /\ Len(starts) \in Nat /\ DOMAIN starts = 1 .. Len(starts)
      /\ \A i \in DOMAIN starts : starts[i] \in Nat
  <2>1. /\ now \in Nat /\ starts \in Seq(Nat) /\ runnerStamp \in Nat
        /\ Delta \in Nat /\ History \in Nat /\ Cardinality(Callers) \in Nat
    BY DeltaIsPositive, FS_CardinalityType DEF PInv, TypeOK
  <2>2. Len(starts) \in Nat /\ DOMAIN starts = 1 .. Len(starts)
    BY <2>1, LenProperties
  <2>3. \A i \in DOMAIN starts : starts[i] \in Nat
    BY <2>1, <2>2, ElementOfSeq
  <2> QED BY <2>1, <2>2, <2>3
<1>1. CASE ~StartFn
  <2>1. starts' = starts /\ now' >= now /\ now' \in Nat
    <3>1. starts' = starts /\ (now' = now \/ now' = now + 1)
      BY <1>1 DEF Next, Stamp, Schedule, Post, FnReturns, FnThrows, Decide,
                  PostAgain, Tick, vars, history
    <3> QED BY <3>1, <1>t
  <2>2. \/ runnerStamp' = runnerStamp /\ (runner' \in {"stamped", "posting"}
                                            => runner \in {"stamped", "posting"})
        \/ runnerStamp' = now
    BY <1>1 DEF Next, Stamp, Schedule, Post, FnReturns, FnThrows, Decide,
                PostAgain, Tick, vars, executor
  <2>3. ASSUME NEW i \in DOMAIN starts
        PROVE  /\ starts[i] <= now'
               /\ runner' \in {"stamped", "posting"} => starts[i] <= runnerStamp'
               /\ \/ starts[Len(starts)] >= starts[i] + Delta
                  \/ Spread(starts[i], Len(starts) - i)'
    <3> DEFINE t == starts[i]
    <3>1. /\ t \in Nat /\ t <= now
          /\ runner \in {"stamped", "posting"} => t <= runnerStamp
          /\ starts[Len(starts)] >= t + Delta \/ Spread(t, Len(starts) - i)
      BY <1>t DEF BInv
    <3>2. t <= now' /\ (runner' \in {"stamped", "posting"} => t <= runnerStamp')
      BY <3>1, <2>1, <2>2, <1>t
    <3> HIDE DEF t
    <3>3. ASSUME NEW u \in Nat, u = t PROVE Left(u)' <= Left(u)
      BY <3>1, <3>3, <1>1, LeftStep
    <3>4. ASSUME Spread(t, Len(starts) - i) PROVE Spread(starts[i], Len(starts) - i)'
      <4>1. PICK u \in Nat : u = t
        BY <3>1
      <4>2. Left(u)' <= Left(u) /\ Left(u) \in Nat
        BY <3>3, <4>1, LeftIsNat
      <4>3. Left(u)' \in Nat
        <5>1. IsFiniteSet(Stale(u)')
          BY FS_Subset DEF Stale
        <5> QED BY <5>1, FS_CardinalityType DEF Left
      <4>4. Left(u) + (Len(starts) - i) <= Cardinality(Callers)
        BY <3>4, <4>1 DEF Spread
      <4>5. Left(u)' + (Len(starts) - i) <= Cardinality(Callers)
        BY <4>2, <4>3, <4>4, <1>t
      <4>6. starts[i]' = u /\ Len(starts)' = Len(starts)
        BY <4>1, <2>1 DEF t
      <4> QED BY <4>5, <4>6 DEF Spread
    <3> QED BY <3>1, <3>2, <3>4, <2>1 DEF t
  <2> QED BY <2>1, <2>3 DEF BInv
<1>2. CASE StartFn
  <2>1. Remember(now) /\ now' = now /\ runner' = "in fn"
    BY <1>2 DEF StartFn
  <2>2. PICK k \in {0, 1} :
           /\ Len(starts') = Len(starts) + 1 - k /\ Len(starts') <= History
           /\ Len(starts') \in Nat /\ Len(starts') > 0
           /\ starts'[Len(starts')] = now
           /\ \A i \in 1 .. Len(starts') - 1 :
                i + k \in DOMAIN starts /\ starts'[i] = starts[i + k]
    BY <2>1, <1>t, RememberKeeps DEF BInv
  <2>3. starts' \in Seq(Nat) /\ DOMAIN starts' = 1 .. Len(starts')
    BY <2>1, <1>t, RememberIsSeq, LenProperties
  <2>4. ASSUME NEW i \in 1 .. Len(starts') - 1
        PROVE  /\ starts'[i] <= now
               /\ now >= starts'[i] + Delta \/ Spread(starts[i], Len(starts) - i)'
    <3>1. PICK t \in Nat : t = starts[i + k] /\ t = starts'[i] /\ i + k \in DOMAIN starts
      BY <2>2, <1>t
    <3>2. t <= now /\ (\/ starts[Len(starts)] >= t + Delta
                       \/ Spread(t, Len(starts) - (i + k)))
      BY <3>1 DEF BInv
    <3>3. CASE starts[Len(starts)] >= t + Delta
      <4>1. Len(starts) \in DOMAIN starts
        BY <3>1, <1>t
      <4>2. starts[Len(starts)] \in Nat /\ starts[Len(starts)] <= now
        BY <4>1, <1>t DEF BInv
      <4>3. now >= t + Delta
        BY <4>2, <3>3, <1>t
      <4> QED BY <3>1, <3>2, <4>3
    <3>4. CASE Spread(t, Len(starts) - (i + k)) /\ ~(now >= t + Delta)
      <4>1. Left(t)' + 1 <= Left(t) /\ Left(t) \in Nat
        BY <3>4, <1>2, StartUses, LeftIsNat
      <4>2. Left(t)' \in Nat
        <5>1. IsFiniteSet(Stale(t)')
          BY FS_Subset DEF Stale
        <5> QED BY <5>1, FS_CardinalityType DEF Left
      <4>3. Left(t) + (Len(starts) - (i + k)) <= Cardinality(Callers)
        BY <3>4 DEF Spread
      <4>4. Len(starts') - i = Len(starts) - (i + k) + 1
        BY <2>2, <1>t
      <4>5. Left(t)' + (Len(starts') - i) <= Cardinality(Callers)
        BY <4>1, <4>2, <4>3, <4>4, <1>t, <2>2
      <4>6. Spread(starts[i], Len(starts) - i)'
        BY <4>5, <3>1 DEF Spread
      <4> QED BY <3>1, <3>2, <4>6
    <3> QED BY <3>1, <3>2, <3>3, <3>4
  <2>5. Spread(now, 0)'
    <3>1. PICK j \in DOMAIN scheduled : scheduled' = Without(scheduled, j)
      BY <1>2 DEF StartFn
    <3>2. scheduled' = <<>>
      BY <3>1, OneLeft DEF PInv, TypeOK, AtMostOnePending
    <3>3. Stale(now)' \subseteq Callers
      BY DEF Stale
    <3>4. Cardinality(Stale(now)') <= Cardinality(Callers)
          /\ IsFiniteSet(Stale(now)')
      BY <3>3, FS_Subset
    <3>5. Cardinality(Stale(now)') \in Nat
      BY <3>4, FS_CardinalityType
    <3>6. Left(now)' = Cardinality(Stale(now)') + 0
      BY <3>2 DEF Left, DueBefore
    <3> QED BY <3>4, <3>5, <3>6, <1>t DEF Spread
  <2>6. ASSUME NEW i \in DOMAIN starts'
        PROVE  /\ starts'[i] <= now
               /\ now >= starts'[i] + Delta \/ Spread(starts[i], Len(starts) - i)'
    <3>1. CASE i = Len(starts')
      <4>1. starts'[i] = now /\ Len(starts') - i = 0 /\ now <= now
        BY <3>1, <2>2, <1>t
      <4> QED BY <4>1, <2>5, <2>1 DEF Spread
    <3>2. CASE i # Len(starts')
      <4>1. i \in 1 .. Len(starts') - 1
        BY <3>2, <2>2, <2>3
      <4> QED BY <4>1, <2>4
    <3> QED BY <3>1, <3>2
  <2> QED BY <2>1, <2>2, <2>6 DEF BInv
<1> QED BY <1>1, <1>2

LEMMA StartIsFar ==
  ASSUME IsFiniteSet(Callers), History > Cardinality(Callers),
         PInv, BInv, StartFn, Len(starts) = History
  PROVE  now >= starts[1] + Delta
<1>t. /\ now \in Nat /\ Delta \in Nat /\ starts \in Seq(Nat)
      /\ History \in Nat /\ Cardinality(Callers) \in Nat
      /\ DOMAIN starts = 1 .. Len(starts) /\ Len(starts) \in Nat
  BY DeltaIsPositive, FS_CardinalityType, LenProperties DEF PInv, TypeOK
<1>2. 1 \in DOMAIN starts /\ Len(starts) \in DOMAIN starts
  BY <1>t
<1>3. PICK t \in Nat : t = starts[1]
  BY <1>2, <1>t, ElementOfSeq
<1>4. starts[Len(starts)] >= t + Delta \/ Spread(t, Len(starts) - 1)
  BY <1>2, <1>3 DEF BInv
<1>5. CASE starts[Len(starts)] >= t + Delta
  <2>1. starts[Len(starts)] \in Nat /\ starts[Len(starts)] <= now
    BY <1>2, <1>t, ElementOfSeq DEF BInv
  <2> QED BY <2>1, <1>3, <1>5, <1>t
<1>6. CASE Spread(t, Len(starts) - 1)
  <2> SUFFICES ASSUME ~(now >= t + Delta) PROVE FALSE
    BY <1>3
  <2>1. Left(t)' + 1 <= Left(t) /\ Left(t) \in Nat
    BY StartUses, LeftIsNat
  <2>2. Left(t)' \in Nat
    <3>1. IsFiniteSet(Stale(t)')
      BY FS_Subset DEF Stale
    <3> QED BY <3>1, FS_CardinalityType DEF Left
  <2>3. Left(t) + (History - 1) <= Cardinality(Callers)
    BY <1>6 DEF Spread
  <2> QED BY <2>1, <2>2, <2>3, <1>t
<1> QED BY <1>4, <1>5, <1>6

(* However often the throttle is called, and whatever stale readings its
   callers come with: of History starts of m_fn in a row, one more than there
   are threads that call, the first lies m_delta before the next start. *)
THEOREM StartsAreSpread ==
  ASSUME IsFiniteSet(Callers), History > Cardinality(Callers)
  PROVE  Spec => BurstIsBounded
<1> DEFINE Far == runner # "in fn" /\ runner' = "in fn" /\ Len(starts) = History
                  => now >= starts[1] + Delta
<1>1. PInv /\ BInv /\ [Next]_vars => BInv'
  BY BInvStep
<1>2. PInv /\ BInv /\ [Next]_vars => [Far]_vars
  <2> SUFFICES ASSUME PInv, BInv, [Next]_vars, runner # "in fn", runner' = "in fn",
                      Len(starts) = History
               PROVE  now >= starts[1] + Delta
    OBVIOUS
  <2>1. StartFn
    BY DEF Next, Stamp, Schedule, Post, FnReturns, FnThrows, Decide,
           PostAgain, Tick, vars, executor
  <2> QED BY <2>1, StartIsFar
<1>3. Init => PInv /\ BInv
  BY PInvInit, BInvInit
<1> QED BY <1>1, <1>2, <1>3, PInvStep, PTL DEF Spec, BurstIsBounded

=============================================================================
