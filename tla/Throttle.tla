------------------------------ MODULE Throttle ------------------------------
(***************************************************************************)
(* fusion::Throttle: any thread calls operator(), as often as it likes;    *)
(* m_fn runs on an executor, about callsPerSecond times per second.        *)
(*                                                                         *)
(* operator() reads the clock before it takes m_mutex and calls CallAt     *)
(* after it has let go of it, so that a call is three steps; so is         *)
(* PendingCall, which the executor runs when a deadline has passed.        *)
(* LogSources calls it from the listen thread, from the executor's thread  *)
(* and from the threads of file readers.                                   *)
(***************************************************************************)
EXTENDS Integers, Sequences

CONSTANTS
  Callers,      \* threads that call operator()
  Delta,        \* m_delta, in ticks of the clock
  FnMayThrow,   \* m_fn may throw: the executor then drops the exception
  MaxTime,      \* bound on the clock
  History       \* how many start times of m_fn are remembered

ASSUME DeltaAssumption == Delta \in Nat \ {0}
ASSUME ThrowAssumption == FnMayThrow \in BOOLEAN
ASSUME BoundsAssumption == MaxTime \in Nat /\ History \in Nat

VARIABLES
  now,          \* steady_clock::now()
  pc,           \* where each caller is in operator()
  stamp,        \* operator()'s local "now"
  m_lastCallTime, m_lastSchedulingTime, m_callPending,
  scheduled,    \* deadlines of the PendingCalls the executor holds
  runner,       \* where the executor's thread is in PendingCall
  runnerStamp,  \* PendingCall's local "now"
  (* history *)
  regular,      \* no reading moved m_lastCallTime back and m_fn has not thrown
  unserved,     \* callers that entered since m_fn was last started
  starts        \* the last start times of m_fn, the oldest first

locals == <<pc, stamp>>
members == <<m_lastCallTime, m_lastSchedulingTime, m_callPending>>
executor == <<scheduled, runner, runnerStamp>>
history == <<regular, unserved, starts>>
vars == <<now, locals, members, executor, history>>

At(c, l) == pc[c] = l
Goto(c, l) == pc' = [pc EXCEPT ![c] = l]

(* operator() *)

\* auto now = Clock::now(), before the lock.
Stamp(c) ==
  /\ At(c, "idle")
  /\ Goto(c, "stamped")
  /\ stamp' = [stamp EXCEPT ![c] = now]
  /\ unserved' = unserved \cup {c}
  /\ UNCHANGED <<now, members, executor, regular, starts>>

\* Mutants: a call that finds one pending leaves no trace; m_callPending is
\* not set.
Schedule_NoTrace(c) ==
  /\ At(c, "stamped")
  /\ IF m_callPending
     THEN Goto(c, "idle") /\ UNCHANGED members
     ELSE /\ m_lastCallTime' = stamp[c]
          /\ m_lastSchedulingTime' = stamp[c]
          /\ m_callPending' = TRUE
          /\ Goto(c, "posting")
  /\ regular' = (regular /\ stamp[c] >= m_lastCallTime)
  /\ UNCHANGED <<now, stamp, executor, unserved, starts>>

Schedule_NotPending(c) ==
  /\ At(c, "stamped")
  /\ m_lastCallTime' = stamp[c]
  /\ IF m_callPending
     THEN Goto(c, "idle") /\ UNCHANGED m_lastSchedulingTime
     ELSE m_lastSchedulingTime' = stamp[c] /\ Goto(c, "posting")
  /\ regular' = (regular /\ stamp[c] >= m_lastCallTime)
  /\ UNCHANGED <<now, stamp, m_callPending, executor, unserved, starts>>

\* Under m_mutex.
Schedule(c) ==
  /\ At(c, "stamped")
  /\ m_lastCallTime' = stamp[c]
  /\ m_callPending' = TRUE
  /\ IF m_callPending
     THEN Goto(c, "idle") /\ UNCHANGED m_lastSchedulingTime
     ELSE m_lastSchedulingTime' = stamp[c] /\ Goto(c, "posting")
  /\ regular' = (regular /\ stamp[c] >= m_lastCallTime)
  /\ UNCHANGED <<now, stamp, executor, unserved, starts>>

\* CallAt(now + m_delta), after lock.unlock().
Post(c) ==
  /\ At(c, "posting")
  /\ scheduled' = Append(scheduled, stamp[c] + Delta)
  /\ Goto(c, "idle")
  /\ UNCHANGED <<now, stamp, members, runner, runnerStamp, history>>

(* PendingCall, on the executor's thread *)

Without(s, k) == [i \in 1 .. Len(s) - 1 |-> IF i < k THEN s[i] ELSE s[i + 1]]

Remember(t) == starts' = IF Len(starts) < History THEN Append(starts, t)
                         ELSE IF History = 0 THEN starts
                         ELSE Append(Tail(starts), t)

\* The executor runs the call that is due first, not before its deadline, and
\* PendingCall begins with m_fn().
StartFn ==
  \E k \in DOMAIN scheduled :
    /\ runner = "idle"
    /\ scheduled[k] <= now
    /\ \A i \in DOMAIN scheduled : scheduled[k] <= scheduled[i]
    /\ scheduled' = Without(scheduled, k)
    /\ runner' = "in fn"
    /\ unserved' = {}
    /\ Remember(now)
    /\ UNCHANGED <<now, locals, members, runnerStamp, regular>>

\* m_fn returns, auto now = Clock::now().
FnReturns ==
  /\ runner = "in fn"
  /\ runner' = "stamped"
  /\ runnerStamp' = now
  /\ UNCHANGED <<now, locals, members, scheduled, history>>

\* The exception leaves PendingCall and ends in the executor's catch block.
FnThrows ==
  /\ FnMayThrow
  /\ runner = "in fn"
  /\ runner' = "idle"
  /\ regular' = FALSE
  /\ UNCHANGED <<now, locals, members, scheduled, runnerStamp, unserved, starts>>

Decide ==
  /\ runner = "stamped"
  /\ IF m_lastCallTime > m_lastSchedulingTime
     THEN /\ m_lastSchedulingTime' = runnerStamp
          /\ runner' = "posting"
          /\ UNCHANGED m_callPending
     ELSE /\ m_callPending' = FALSE
          /\ runner' = "idle"
          /\ UNCHANGED m_lastSchedulingTime
  /\ UNCHANGED <<now, locals, m_lastCallTime, scheduled, runnerStamp, history>>

\* Mutant: the next call is due at once.
PostAgain_AtOnce ==
  /\ runner = "posting"
  /\ scheduled' = Append(scheduled, runnerStamp)
  /\ runner' = "idle"
  /\ UNCHANGED <<now, locals, members, runnerStamp, history>>

PostAgain ==
  /\ runner = "posting"
  /\ scheduled' = Append(scheduled, runnerStamp + Delta)
  /\ runner' = "idle"
  /\ UNCHANGED <<now, locals, members, runnerStamp, history>>

Tick ==
  /\ now < MaxTime
  /\ now' = now + 1
  /\ UNCHANGED <<locals, members, executor, history>>

\* The clock is past its epoch, the default of the two time_points.
Init ==
  /\ now = 1
  /\ pc = [c \in Callers |-> "idle"] /\ stamp = [c \in Callers |-> 0]
  /\ m_lastCallTime = 0 /\ m_lastSchedulingTime = 0 /\ m_callPending = FALSE
  /\ scheduled = <<>> /\ runner = "idle" /\ runnerStamp = 0
  /\ regular = TRUE /\ unserved = {} /\ starts = <<>>

Next ==
  \/ \E c \in Callers : Stamp(c) \/ Schedule(c) \/ Post(c)
  \/ StartFn \/ FnReturns \/ FnThrows \/ Decide \/ PostAgain
  \/ Tick

Spec == Init /\ [][Next]_vars

------------------------------------------------------------------------------
\* Clock readings, deadlines and positions are what their names say.
TypeOK ==
  /\ now \in Nat
  /\ pc \in [Callers -> {"idle", "stamped", "posting"}]
  /\ stamp \in [Callers -> Nat]
  /\ m_lastCallTime \in Nat /\ m_lastSchedulingTime \in Nat
  /\ m_callPending \in BOOLEAN
  /\ scheduled \in Seq(Nat)
  /\ runner \in {"idle", "in fn", "stamped", "posting"}
  /\ runnerStamp \in Nat
  /\ regular \in BOOLEAN /\ unserved \subseteq Callers
  /\ starts \in Seq(Nat)

\* A PendingCall is held by the executor, is running, or is about to be posted
\* by one caller.
Held == scheduled # <<>>
Busy == runner # "idle"
Posting == \E c \in Callers : At(c, "posting")

(* However operator() and PendingCall interleave, at most one PendingCall
   exists: the executor holds one, or runs one, or one caller is between its
   unlock and its CallAt.  m_callPending alone keeps them apart. *)
AtMostOnePending ==
  /\ Len(scheduled) <= 1
  /\ Held => ~Busy /\ ~Posting
  /\ Busy => ~Posting
  /\ \A c, d \in Callers : At(c, "posting") /\ At(d, "posting") => c = d

(* No call is forgotten: when nothing is pending, m_fn has been started after
   the entry of every call that returned.  The line a caller added before it
   called the throttle is seen by m_fn. *)
NoCallForgotten ==
  ~Held /\ ~Busy /\ ~Posting => \A c \in unserved : ~At(c, "idle")

(* The same, unless a caller that was preempted between its clock reading and
   the lock has moved m_lastCallTime back, or m_fn has thrown. *)
RegularCallsAreServed == regular => NoCallForgotten

(* What the stale clock readings leave of the rate limit: History starts in a
   row, one for every caller and one more, are not all in the last m_delta
   when m_fn is started again, be it all in the same tick. *)
BurstIsBounded ==
  [][runner # "in fn" /\ runner' = "in fn" /\ Len(starts) = History =>
       now >= starts[1] + Delta]_vars

\* What makes AtMostOnePending inductive: m_callPending is set while a
\* PendingCall exists.
PendingIsMarked == Held \/ Busy \/ Posting => m_callPending

PInv == TypeOK /\ AtMostOnePending /\ PendingIsMarked

\* What makes RegularCallsAreServed inductive.  Deadlines lie Delta after the
\* last scheduling, so that a clock reading taken since m_fn was last started is
\* later than the last scheduling, and Decide finds it.
Fresh(t) == t > m_lastSchedulingTime
InCall == runner \in {"in fn", "stamped"}

SInv ==
  /\ PInv /\ RegularCallsAreServed
  /\ regular /\ m_callPending => Held \/ Busy \/ Posting
  /\ \A c \in Callers : stamp[c] <= now
  /\ runnerStamp <= now
  /\ \A i \in DOMAIN scheduled : scheduled[i] >= m_lastSchedulingTime + Delta
  /\ InCall => Fresh(now)
  /\ \A c \in Callers : At(c, "posting") => stamp[c] = m_lastSchedulingTime
  /\ runner = "posting" => runnerStamp = m_lastSchedulingTime
  /\ regular /\ InCall => \A c \in unserved :
       IF At(c, "idle") THEN Fresh(m_lastCallTime) ELSE Fresh(stamp[c])
=============================================================================
