-------------------------- MODULE ExecutorContract --------------------------
(***************************************************************************)
(* What an executor promises the threads that use it, whatever queue,      *)
(* timer list or thread it is built from: the life of each call, one       *)
(* function at a time, and for a thread that waits, the one event that     *)
(* lets it go on.  An executor on a thread that has other work lets        *)
(* functions start within others.                                          *)
(***************************************************************************)
EXTENDS Naturals, FiniteSets

CONSTANTS
  Callers,   \* threads that may wait for a result
  Calls,     \* the calls that can be made
  Nested     \* whether functions start within others

VARIABLES
  phase,     \* of each call
  owed       \* owed[c]: what c waits for, a result or a cancellation; at most one

cvars == <<phase, owed>>

Phases == {"new", "posted", "armed", "running", "over", "cancelled"}

Enter(i, from, to) == /\ phase[i] \in from
                      /\ phase' = [phase EXCEPT ![i] = to]

Settled(what, i) == owed' = [c \in Callers |-> owed[c] \ {<<what, i>>}]

CInit == /\ phase = [i \in Calls |-> "new"]
         /\ owed = [c \in Callers |-> {}]

\* A call is made, with or without waiting for its result.
Post(i) ==
  /\ Enter(i, {"new"}, "posted")
  /\ \/ UNCHANGED owed
     \/ \E c \in Callers : /\ owed[c] = {}
                           /\ owed' = [owed EXCEPT ![c] = {<<"result", i>>}]

\* A timed call is handed to the timer.
Arm(i) == Enter(i, {"posted"}, "armed") /\ UNCHANGED owed

NoneRuns == \A j \in Calls : phase[j] # "running"

\* A function starts only when no other one runs.
Start(i) == /\ Nested \/ NoneRuns
            /\ Enter(i, {"posted", "armed"}, "running")
            /\ UNCHANGED owed

\* It returns: whoever waits for it goes on, or the call is armed again.
Finish(i) == /\ \/ Enter(i, {"running"}, "over")
                \/ Enter(i, {"running"}, "armed")
             /\ Settled("result", i)

\* A running function withdraws an armed call, or what else the thread does.
Withdraw(i) == /\ Nested \/ ~NoneRuns
               /\ Enter(i, {"armed"}, "over")
               /\ UNCHANGED owed

\* A thread asks for a cancellation and waits for it.
AskCancel(c, i) == /\ phase[i] # "new" /\ owed[c] = {}
                   /\ owed' = [owed EXCEPT ![c] = {<<"cancel", i>>}]
                   /\ UNCHANGED phase

\* Nothing leaves "cancelled", and no function runs while a call gets there.
Cancelled(i) == /\ \E c \in Callers : <<"cancel", i>> \in owed[c]
                /\ \/ NoneRuns /\ Enter(i, {"armed", "over"}, "cancelled")
                   \/ Nested /\ Enter(i, {"armed", "over", "running"}, "cancelled")
                /\ Settled("cancel", i)

CNext ==
  \/ \E i \in Calls : \/ Post(i) \/ Arm(i) \/ Start(i) \/ Finish(i)
                      \/ Withdraw(i) \/ Cancelled(i)
  \/ \E c \in Callers, i \in Calls : AskCancel(c, i)

CSpec == CInit /\ [][CNext]_cvars

=============================================================================
