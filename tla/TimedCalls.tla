----------------------------- MODULE TimedCalls -----------------------------
(***************************************************************************)
(* fusion::TimedCalls, the list of scheduled calls that both executors     *)
(* keep: entries [id, at, interval], an interval of 0 for a call that runs *)
(* once.  Only the thread of the executor touches it.                      *)
(***************************************************************************)
EXTENDS Integers, Sequences, FiniteSets

VARIABLES
  now,              \* steady_clock::now()
  m_scheduledCalls  \* latest deadline first, the next one last

\* Mutant: upper_bound.
LowerBound_Upper(s, at) ==
  CHOOSE k \in 0 .. Len(s) : /\ \A i \in 1 .. k : s[i].at >= at
                             /\ k < Len(s) => ~(s[k + 1].at >= at)

\* Number of entries in front of which lower_bound over a.at > b.at does not
\* stop: the prefix with a later deadline.
LowerBound(s, at) ==
  CHOOSE k \in 0 .. Len(s) : /\ \A i \in 1 .. k : s[i].at > at
                             /\ k < Len(s) => ~(s[k + 1].at > at)

InsertAfter(s, k, call) ==
  [i \in 1 .. Len(s) + 1 |-> IF i <= k THEN s[i]
                             ELSE IF i = k + 1 THEN call ELSE s[i - 1]]

Insert(s, call) == InsertAfter(s, LowerBound(s, call.at), call)

\* find_if + erase: the first entry with the id, if there is one.
Remove(s, id) ==
  IF \A i \in 1 .. Len(s) : s[i].id # id
  THEN s
  ELSE LET k == CHOOSE k \in 1 .. Len(s) :
                  s[k].id = id /\ \A i \in 1 .. k - 1 : s[i].id # id
       IN  [i \in 1 .. Len(s) - 1 |-> IF i < k THEN s[i] ELSE s[i + 1]]

PopBack(s) == [i \in 1 .. Len(s) - 1 |-> s[i]]

NextCall == m_scheduledCalls[Len(m_scheduledCalls)]
NextDeadline == NextCall.at

\* Mutant: the next deadline is reckoned from now.
Popped_FromNow ==
  LET rest == PopBack(m_scheduledCalls)
  IN  IF NextCall.interval # 0
      THEN Insert(rest, [NextCall EXCEPT !.at = now + NextCall.interval])
      ELSE rest

\* TimedCalls::Pop: a periodic call goes back, one interval after the deadline
\* it had (not after now), before its function runs.
Popped ==
  LET rest == PopBack(m_scheduledCalls)
  IN  IF NextCall.interval # 0
      THEN Insert(rest, [NextCall EXCEPT !.at = @ + NextCall.interval])
      ELSE rest
=============================================================================
