------------------------------ MODULE Executor ------------------------------
(***************************************************************************)
(* fusion::ActiveExecutor: one thread that runs the functions other        *)
(* threads hand to it.  A function is posted with Call (the caller waits   *)
(* for its result), CallAsync, CallAt or CallEvery; the last two return a  *)
(* ScheduledCall that Cancel takes back.                                   *)
(*                                                                         *)
(* m_q is the SynchronizedQueue of std::function<void()>: every item is a  *)
(* lambda of one of four shapes, told apart by "op".  m_scheduledCalls is  *)
(* touched by the executor's thread only, so that Insert, Remove and Pop   *)
(* are steps of that thread and nothing else sees them half done.          *)
(***************************************************************************)
EXTENDS TimedCalls

CONSTANTS
  Clients,      \* threads that use the executor, its own thread excluded
  NoClient,     \* nobody waits for the result
  MaxCalls,     \* bound on GetCallId: how many calls a behaviour makes
  MaxOthers,    \* bound on the calls without an id that are queued at a time
  MaxTime       \* bound on the clock

Self == "executor thread"   \* as a caller

ASSUME ClientsAssumption == NoClient \notin Clients /\ Self \notin Clients
ASSUME BoundsAssumption ==
  MaxCalls \in Nat /\ MaxOthers \in Nat /\ MaxTime \in Nat

Ids  == 1 .. MaxCalls
Times == 0 .. MaxTime

VARIABLES
  lastId,       \* the static counter of GetCallId
  m_q,          \* Executor::m_q, the oldest item first
  current,      \* what the executor's thread is running
  m_end,        \* ActiveExecutor::m_end
  exited,       \* Run() has returned: the join in the destructor returns
  closing,      \* the destructor has posted its last function
  blocked,      \* clients that wait on a future
  handles,      \* ScheduledCalls whose pExec is set: not cancelled so far
  (* history *)
  ran,          \* how often the function of an id was started
  armed,        \* when a CallEvery was inserted into m_scheduledCalls
  cancelled     \* ids whose Cancel has returned to a client

life  == <<m_end, exited, closing>>
calls == <<lastId, blocked, handles>>
history == <<ran, armed, cancelled>>
vars == <<now, m_q, m_scheduledCalls, current, life, calls, history>>

\* A lambda in m_q.  "fn" runs a client's function, "insert" and "remove" act
\* on m_scheduledCalls, "end" is the destructor's; "other" runs a function that
\* nobody waits for and that is not told from the next one.  Fields an
\* operation does not use are 0.
Task == [op : {"fn", "insert", "remove", "end", "other"}, id : 0 .. MaxCalls,
         at : Nat, interval : Nat, by : Clients \cup {NoClient}]
CallData == [id : Ids, at : Nat, interval : Nat]
Idle == [timed |-> FALSE, id |-> 0, by |-> NoClient]
Running == [timed : BOOLEAN, id : 0 .. MaxCalls, by : Clients \cup {NoClient}]

------------------------------------------------------------------------------
(* Posting: any thread *)

\* A client that waits in Call cannot call; the executor is gone when its
\* thread has been joined.  While the destructor waits for that, calls are
\* still queued, behind its last function.
CanCall(p) == IF p = Self THEN current # Idle
                          ELSE ~blocked[p] /\ ~exited

Add(task) == m_q' = Append(m_q, task)

NewCall(id) == lastId < MaxCalls /\ id = lastId + 1 /\ lastId' = id

CallAsync(p) ==
  \E id \in Ids :
    /\ CanCall(p)
    /\ NewCall(id)
    /\ Add([op |-> "fn", id |-> id, at |-> 0, interval |-> 0, by |-> NoClient])
    /\ UNCHANGED <<now, m_scheduledCalls, current, life, blocked, handles,
                   history>>

\* CallAsync again and again: the behaviours have no bound on how often.
CallOther(p) ==
  /\ CanCall(p)
  /\ Len(SelectSeq(m_q, LAMBDA task : task.op = "other")) < MaxOthers
  /\ Add([op |-> "other", id |-> 0, at |-> 0, interval |-> 0, by |-> NoClient])
  /\ UNCHANGED <<now, m_scheduledCalls, current, life, calls, history>>

\* Call asserts that it is not on the executor's thread.  Synchronize is a
\* Call of a function that does nothing.
Call(c) ==
  \E id \in Ids :
    /\ CanCall(c)
    /\ NewCall(id)
    /\ Add([op |-> "fn", id |-> id, at |-> 0, interval |-> 0, by |-> c])
    /\ blocked' = [blocked EXCEPT ![c] = TRUE]
    /\ UNCHANGED <<now, m_scheduledCalls, current, life, handles, history>>

\* CallAt and, with at = now + interval computed by the caller, CallAfter.
CallAt(p, at) ==
  \E id \in Ids :
    /\ CanCall(p)
    /\ NewCall(id)
    /\ Add([op |-> "insert", id |-> id, at |-> at, interval |-> 0,
            by |-> NoClient])
    /\ handles' = handles \cup {id}
    /\ UNCHANGED <<now, m_scheduledCalls, current, life, blocked, history>>

\* The first deadline is computed when the lambda runs.
CallEvery(p, interval) ==
  \E id \in Ids :
    /\ CanCall(p)
    /\ NewCall(id)
    /\ Add([op |-> "insert", id |-> id, at |-> 0, interval |-> interval,
            by |-> NoClient])
    /\ handles' = handles \cup {id}
    /\ UNCHANGED <<now, m_scheduledCalls, current, life, blocked, history>>

\* Mutant: every thread removes the call itself.
CancelFromClient_Direct(c, id) ==
  /\ CanCall(c)
  /\ id \in handles
  /\ handles' = handles \ {id}
  /\ m_scheduledCalls' = Remove(m_scheduledCalls, id)
  /\ cancelled' = cancelled \cup {id}
  /\ UNCHANGED <<now, lastId, m_q, current, life, blocked, ran, armed>>

\* TimedExecutor::Cancel from another thread waits for the Remove it posts.
CancelFromClient(c, id) ==
  /\ CanCall(c)
  /\ id \in handles
  /\ Add([op |-> "remove", id |-> id, at |-> 0, interval |-> 0, by |-> c])
  /\ handles' = handles \ {id}
  /\ blocked' = [blocked EXCEPT ![c] = TRUE]
  /\ UNCHANGED <<now, lastId, m_scheduledCalls, current, life, history>>

\* On the executor's own thread it removes what is already scheduled, but not
\* what the same function has posted: that is inserted afterwards, and runs.
CancelFromSelf(id) ==
  /\ CanCall(Self)
  /\ id \in handles
  /\ handles' = handles \ {id}
  /\ m_scheduledCalls' = Remove(m_scheduledCalls, id)
  /\ UNCHANGED <<now, lastId, m_q, current, life, blocked, ran, armed,
                 cancelled>>

\* ~ActiveExecutor, of an owner that does not ask who is inside a call.
Destroy ==
  /\ ~closing
  /\ closing' = TRUE
  /\ Add([op |-> "end", id |-> 0, at |-> 0, interval |-> 0, by |-> NoClient])
  /\ UNCHANGED <<now, m_scheduledCalls, current, m_end, exited, calls, history>>

------------------------------------------------------------------------------
(* The executor's thread: Run and RunOne *)

\* Mutant: the thread sleeps until the next deadline and looks at m_q only
\* when nothing is scheduled.
InRunOne_Sleeps ==
  /\ current = Idle /\ ~m_end /\ ~exited
  /\ m_scheduledCalls # <<>> => (NextDeadline <= now /\ m_q = <<>>)

\* The wait of RunOne ends at the next deadline only if nothing is queued:
\* wait_until evaluates its predicate once more when it times out.
InRunOne == current = Idle /\ ~m_end /\ ~exited
TakesTask(op) == InRunOne /\ m_q # <<>> /\ Head(m_q).op = op

Release(c) == blocked' = [d \in Clients |-> blocked[d] /\ d # c]

\* Mutant: the waiting client goes on as soon as its function starts.
StartFn_Early ==
  /\ TakesTask("fn")
  /\ m_q' = Tail(m_q)
  /\ current' = [timed |-> FALSE, id |-> Head(m_q).id, by |-> NoClient]
  /\ ran' = [ran EXCEPT ![Head(m_q).id] = @ + 1]
  /\ Release(Head(m_q).by)
  /\ UNCHANGED <<now, lastId, m_scheduledCalls, life, handles, armed,
                 cancelled>>

StartFn ==
  /\ TakesTask("fn")
  /\ m_q' = Tail(m_q)
  /\ current' = [timed |-> FALSE, id |-> Head(m_q).id, by |-> Head(m_q).by]
  /\ ran' = [ran EXCEPT ![Head(m_q).id] = @ + 1]
  /\ UNCHANGED <<now, m_scheduledCalls, life, calls, armed, cancelled>>

RunOther ==
  /\ TakesTask("other")
  /\ m_q' = Tail(m_q)
  /\ UNCHANGED <<now, m_scheduledCalls, current, life, calls, history>>

RunInsert ==
  LET t == Head(m_q)
      first == IF t.interval # 0 THEN now + t.interval ELSE t.at
  IN  /\ TakesTask("insert")
      /\ m_q' = Tail(m_q)
      /\ m_scheduledCalls' = Insert(m_scheduledCalls,
            [id |-> t.id, at |-> first, interval |-> t.interval])
      /\ armed' = [armed EXCEPT ![t.id] = now]
      /\ UNCHANGED <<now, current, life, calls, ran, cancelled>>

RunRemove ==
  /\ TakesTask("remove")
  /\ m_q' = Tail(m_q)
  /\ m_scheduledCalls' = Remove(m_scheduledCalls, Head(m_q).id)
  /\ Release(Head(m_q).by)
  /\ cancelled' = cancelled \cup {Head(m_q).id}
  /\ UNCHANGED <<now, lastId, current, life, handles, ran, armed>>

\* Mutant: the thread ends only once nothing is scheduled.
RunEnd_Drains ==
  /\ TakesTask("end")
  /\ m_q' = Tail(m_q)
  /\ m_end' = (m_scheduledCalls = <<>>)
  /\ UNCHANGED <<now, m_scheduledCalls, current, exited, closing, calls,
                 history>>

RunEnd ==
  /\ TakesTask("end")
  /\ m_q' = Tail(m_q)
  /\ m_end' = TRUE
  /\ UNCHANGED <<now, m_scheduledCalls, current, exited, closing, calls,
                 history>>

StartTimed ==
  /\ InRunOne
  /\ m_q = <<>>
  /\ m_scheduledCalls # <<>>
  /\ NextDeadline <= now
  /\ m_scheduledCalls' = Popped
  /\ current' = [timed |-> TRUE, id |-> NextCall.id, by |-> NoClient]
  /\ ran' = [ran EXCEPT ![NextCall.id] = @ + 1]
  /\ UNCHANGED <<now, m_q, life, calls, armed, cancelled>>

\* Mutant: a throwing timed function ends the thread.
Finish_Ends ==
  /\ current # Idle
  /\ current' = Idle
  /\ Release(current.by)
  /\ exited' = current.timed
  /\ UNCHANGED <<now, lastId, m_q, m_scheduledCalls, m_end, closing, handles,
                 history>>

\* The function returns or throws: packaged_task keeps the exception for the
\* future, Run swallows the one of a timed call; either way a waiting client
\* is released and the loop goes on.
Finish ==
  /\ current # Idle
  /\ current' = Idle
  /\ Release(current.by)
  /\ UNCHANGED <<now, lastId, m_q, m_scheduledCalls, life, handles, history>>

\* while (!m_end): what is still queued or scheduled is never run.
Exit ==
  /\ current = Idle /\ m_end /\ ~exited
  /\ exited' = TRUE
  /\ UNCHANGED <<now, m_q, m_scheduledCalls, current, m_end, closing, calls,
                 history>>

\* The clock matters while the thread runs.
Tick ==
  /\ now < MaxTime /\ ~exited
  /\ now' = now + 1
  /\ UNCHANGED <<m_q, m_scheduledCalls, current, life, calls, history>>

------------------------------------------------------------------------------
Init ==
  /\ now = 0 /\ lastId = 0
  /\ m_q = <<>> /\ m_scheduledCalls = <<>>
  /\ current = Idle
  /\ m_end = FALSE /\ exited = FALSE /\ closing = FALSE
  /\ blocked = [c \in Clients |-> FALSE]
  /\ handles = {}
  /\ ran = [i \in Ids |-> 0] /\ armed = [i \in Ids |-> 0]
  /\ cancelled = {}

RunOne == \/ StartFn \/ RunOther \/ RunInsert \/ RunRemove \/ RunEnd
          \/ StartTimed \/ Finish \/ Exit

Next ==
  \/ \E p \in Clients \cup {Self} :
       \/ CallAsync(p) \/ CallOther(p)
       \/ \E d \in Times \ {0} : CallAt(p, d) \/ CallEvery(p, d)
  \/ \E c \in Clients :
       \/ Call(c)
       \/ \E id \in Ids : CancelFromClient(c, id)
  \/ \E id \in Ids : CancelFromSelf(id)
  \/ Destroy
  \/ RunOne
  \/ Tick

Spec == Init /\ [][Next]_vars

\* The executor's thread keeps running, the functions it runs return, and
\* time passes.  Clients owe nothing.
FairSpec == Spec /\ WF_vars(RunOne) /\ WF_vars(Tick)

------------------------------------------------------------------------------
TypeOK ==
  /\ now \in Times /\ lastId \in 0 .. MaxCalls
  /\ m_q \in Seq(Task) /\ m_scheduledCalls \in Seq(CallData)
  /\ current \in Running
  /\ m_end \in BOOLEAN /\ exited \in BOOLEAN /\ closing \in BOOLEAN
  /\ blocked \in [Clients -> BOOLEAN]
  /\ handles \subseteq Ids
  /\ ran \in [Ids -> Nat] /\ armed \in [Ids -> Nat]
  /\ cancelled \subseteq Ids

Posts(task) == task.op \in {"fn", "insert"}
Entries(s) == {s[i] : i \in DOMAIN s}

\* The ids that still have a lambda in m_q that runs them or schedules them.
Posted == {m_q[i].id : i \in {j \in DOMAIN m_q : Posts(m_q[j])}}
Scheduled == {e.id : e \in Entries(m_scheduledCalls)}

DeadlineOrder(s) ==
  \A i, j \in DOMAIN s :
    i < j => \/ s[i].at > s[j].at
             \/ /\ s[i].at = s[j].at
                /\ s[i].interval = 0 /\ s[j].interval = 0 => s[i].id > s[j].id

(* The back of m_scheduledCalls is always the call that is due first, and of
   the one-shot calls with one deadline the one that was inserted first:
   Insert places a call by binary search, Pop re-inserts periodic calls in
   between, and CallAt promises its callers deadline order. *)
InDeadlineOrder == DeadlineOrder(m_scheduledCalls)

(* When Cancel has returned to another thread, the function is not running
   and nothing that could still start it is left: its Insert was queued
   before the Remove, an id is scheduled at most once, so that removing the
   first entry is enough, and the Remove runs between two functions. *)
CancelIsFinal ==
  cancelled \cap (Posted \cup Scheduled \cup {current.id}) = {}

(* No function is started twice for one post: once started an id is never
   queued again, and it stays scheduled only as a periodic call. *)
StartedOnce ==
  \A id \in Ids : ran[id] > 0 =>
    /\ id \notin Posted
    /\ \A e \in Entries(m_scheduledCalls) : e.id = id => e.interval > 0

(* A periodic call does not drift: however late its runs were, the deadline
   it waits for is a whole number of intervals after it was armed, one for
   every run it has had and one more. *)
NoDrift ==
  \A e \in Entries(m_scheduledCalls) :
    e.interval > 0 => e.at = armed[e.id] + (ran[e.id] + 1) * e.interval

\* What makes the four properties above inductive.  Ids are posted in the
\* order they are drawn, so that a lambda that can start or schedule a
\* function has a larger id than everything that was posted, scheduled,
\* cancelled or started before it; and an id is scheduled at most once.
Seen == Scheduled \cup cancelled \cup {current.id}
          \cup {id \in Ids : ran[id] > 0}

IdsInOrder ==
  /\ handles \subseteq 1 .. lastId
  /\ \A id \in Seen : id <= lastId
  /\ \A i \in DOMAIN m_q : /\ m_q[i].id <= lastId
                           /\ m_q[i].op \notin {"end", "other"} => m_q[i].id # 0
  /\ \A i, j \in DOMAIN m_q :
       i < j /\ Posts(m_q[j]) => m_q[i].id < m_q[j].id
  /\ \A j \in DOMAIN m_q, id \in Seen :
       Posts(m_q[j]) => id < m_q[j].id

UniqueIds(s) == \A i, j \in DOMAIN s : s[i].id = s[j].id => i = j

\* Nothing scheduled or running is cancelled (CancelIsFinal adds m_q).
IInv ==
  /\ TypeOK /\ IdsInOrder /\ UniqueIds(m_scheduledCalls)
  /\ InDeadlineOrder /\ NoDrift
  /\ cancelled \cap (Scheduled \cup {current.id}) = {}
  /\ \A e \in Entries(m_scheduledCalls) : e.interval = 0 => ran[e.id] = 0

(* The contract, with the phase of a call read off where its id is. *)
PhaseOf(i) ==
  IF current.id = i THEN "running"
  ELSE IF i \in cancelled THEN "cancelled"
  ELSE IF i \in Scheduled THEN "armed"
  ELSE IF i \in Posted THEN "posted"
  ELSE IF i > lastId THEN "new" ELSE "over"

\* The tasks of a queue that are told apart.
Told(q) == {t \in Entries(q) : t.op # "other"}

\* What is done for a client that waits for task t.
Owes(t) == <<IF t.op = "remove" THEN "cancel" ELSE "result", t.id>>

OwedTo(c) == {Owes(t) : t \in {u \in Told(m_q) : u.by = c}}
               \cup (IF current.by = c THEN {<<"result", current.id>>} ELSE {})

Contract == INSTANCE ExecutorContract WITH
  Callers <- Clients, Calls <- Ids, Nested <- FALSE,
  phase <- [i \in Ids |-> PhaseOf(i)], owed <- [c \in Clients |-> OwedTo(c)]

(* The executor keeps its contract: a thread in Call goes on when, and not
   before, its own function has finished, a thread in Cancel when the call is
   past starting, and one function runs at a time. *)
KeepsContract == Contract!CSpec

(* Every Call and every Cancel of a client returns, whatever the thread does
   and although the executor is destroyed meanwhile.  A call made while the
   destructor waits is queued behind its last function and is left out: it
   never runs and its caller waits for ever. *)
CallReturns == \A c \in Clients : blocked[c] /\ ~closing ~> ~blocked[c]

(* A deadline that passes is served: the call that waits for it runs, or it is
   cancelled, or the executor is destroyed.  What is queued goes before what is
   due, so that one exception has to be named: functions are posted so fast
   that the thread takes from the queue for ever. *)
ScheduledFor(id, t) ==
  \E i \in DOMAIN m_scheduledCalls : /\ m_scheduledCalls[i].id = id
                                     /\ m_scheduledCalls[i].at = t
TakesFromQueue == m_q # <<>> /\ m_q' = Tail(m_q)
DueCallRuns ==
  \/ \A id \in Ids, t \in Times :
       ScheduledFor(id, t) ~> (~ScheduledFor(id, t) \/ m_end)
  \/ []<><<TakesFromQueue>>_m_q

(* The destructor's join returns, whatever is queued or due before it. *)
DestructorReturns == closing ~> exited
=============================================================================
