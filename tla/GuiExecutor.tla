---------------------------- MODULE GuiExecutor ----------------------------
(***************************************************************************)
(* fusion::GuiExecutor: an executor on a thread that has a message loop.   *)
(* Who posts puts a lambda into m_q and then a message WM_APP into the     *)
(* thread's message queue; scheduled calls are started by one timer of a   *)
(* hidden window.                                                          *)
(*                                                                         *)
(* What the thread has begun is a stack of frames.  OnMessage ("drain")    *)
(* runs what is queued, ResetTimer ("reset") runs what is due, and both    *)
(* wait for the function that they have started ("fn").  A function that   *)
(* cancels a call on this thread runs ResetTimer, and one that shows a     *)
(* dialog runs the message loop: others start before it returns.           *)
(*                                                                         *)
(* Times are reckoned from now: a deadline is how far ahead it is, or how  *)
(* late it is if it is negative, and the clock never stops.                *)
(***************************************************************************)
EXTENDS Integers, Sequences, FiniteSets

SX == INSTANCE SequencesExt

CONSTANTS
  Clients,      \* other threads
  NoClient,     \* nobody waits for the result
  MaxCalls,     \* bound on GetCallId
  MaxOthers,    \* bound on the calls without an id that are queued at a time
  MaxMessages,  \* bound on messages: more would find m_q empty
  MaxTime,      \* bound on deadlines, ahead and late
  MaxNested     \* functions that are this deep dispatch no message

Ids  == 1 .. MaxCalls
Times == 1 .. MaxTime

VARIABLES
  m_scheduledCalls, \* latest deadline first, the next one last
  lastId,       \* the static counter of GetCallId
  m_q,          \* the oldest item first
  messages,     \* WM_APPs in the thread's message queue
  timer,        \* how long until the window's timer elapses, or Off
  elapsed,      \* a WM_TIMER waits to be dispatched
  stack,        \* frames, the innermost last
  blocked,      \* clients that wait on a future
  notifying,    \* clients between the push and PostMessage
  handles,      \* ScheduledCalls that were not cancelled so far
  destroyed,    \* the window is
  cancelled     \* history: ids whose Cancel has returned to a client

clients == <<lastId, blocked, notifying, handles>>
loop == <<messages, timer, elapsed>>
guiVars == <<m_scheduledCalls, m_q, loop, stack, clients, destroyed, cancelled>>

INSTANCE TimedCalls WITH now <- 0

Self == "GUI thread"
Off == MaxTime + 1

Top == IF stack = <<>> THEN [op |-> "loop"] ELSE SX!Last(stack)
Return(s) == SX!Front(s)
Frames == {stack[i] : i \in DOMAIN stack}

\* A client's function, on the stack.
Function(id, by) == [op |-> "fn", id |-> id, by |-> by]
Functions == {f \in Frames : f.op = "fn"}
Depth == Len(SelectSeq(stack, LAMBDA f : f.op = "fn"))

------------------------------------------------------------------------------
(* Posting *)

\* On the GUI thread, functions post, and the handlers of other windows.
CanCall(p) ==
  /\ ~destroyed
  /\ IF p = Self THEN Top.op \in {"loop", "fn"}
                 ELSE ~blocked[p] /\ p \notin notifying

NewCall(id) == lastId < MaxCalls /\ id = lastId + 1 /\ lastId' = id

PostMessage == messages' = IF messages < MaxMessages THEN messages + 1 ELSE messages

\* m_q.Push, then m_wnd.Notify, which nobody sees apart on the GUI thread.
Push(p, task) ==
  /\ m_q' = Append(m_q, task)
  /\ IF p = Self THEN PostMessage /\ UNCHANGED notifying
                 ELSE notifying' = notifying \cup {p} /\ UNCHANGED messages

Task(op, id, by) == [op |-> op, id |-> id, at |-> 0, interval |-> 0, by |-> by]

CallAsync(p) ==
  \E id \in Ids :
    /\ CanCall(p) /\ NewCall(id)
    /\ Push(p, Task("fn", id, NoClient))
    /\ UNCHANGED <<m_scheduledCalls, timer, elapsed, stack, blocked,
                   handles, destroyed, cancelled>>

\* CallAsync again and again: the behaviours have no bound on how often.
CallOther(p) ==
  /\ CanCall(p)
  /\ Len(SelectSeq(m_q, LAMBDA task : task.id = 0)) < MaxOthers
  /\ Push(p, Task("fn", 0, NoClient))
  /\ UNCHANGED <<m_scheduledCalls, timer, elapsed, stack, lastId, blocked,
                 handles, destroyed, cancelled>>

Call(c) ==
  \E id \in Ids :
    /\ CanCall(c) /\ NewCall(id)
    /\ Push(c, Task("fn", id, c))
    /\ blocked' = [blocked EXCEPT ![c] = TRUE]
    /\ UNCHANGED <<m_scheduledCalls, timer, elapsed, stack, handles,
                   destroyed, cancelled>>

\* CallAt, CallAfter, and CallEvery: here its first deadline is computed by
\* the caller.
CallAt(p, at, interval) ==
  \E id \in Ids :
    /\ CanCall(p) /\ NewCall(id)
    /\ Push(p, [Task("insert", id, NoClient) EXCEPT
                  !.at = IF interval = 0 THEN at ELSE interval,
                  !.interval = interval])
    /\ handles' = handles \cup {id}
    /\ UNCHANGED <<m_scheduledCalls, timer, elapsed, stack, blocked,
                   destroyed, cancelled>>

\* Mutant: every thread removes the call itself.
CancelFromClient_Direct(c, id) ==
  /\ CanCall(c)
  /\ id \in handles
  /\ handles' = handles \ {id}
  /\ m_scheduledCalls' = Remove(m_scheduledCalls, id)
  /\ cancelled' = cancelled \cup {id}
  /\ UNCHANGED <<m_q, loop, stack, lastId, blocked, notifying, destroyed>>

CancelFromClient(c, id) ==
  /\ CanCall(c)
  /\ id \in handles
  /\ Push(c, Task("remove", id, c))
  /\ handles' = handles \ {id}
  /\ blocked' = [blocked EXCEPT ![c] = TRUE]
  /\ UNCHANGED <<m_scheduledCalls, timer, elapsed, stack, lastId,
                 destroyed, cancelled>>

\* PostMessage; meanwhile the lambda may have been run.
Notify(c) ==
  /\ c \in notifying
  /\ notifying' = notifying \ {c}
  /\ PostMessage
  /\ UNCHANGED <<m_scheduledCalls, m_q, timer, elapsed, stack, lastId,
                 blocked, handles, destroyed, cancelled>>

------------------------------------------------------------------------------
(* ResetTimer *)

\* It begins with ClearTimer, which does not take back a WM_TIMER.
EnterReset(s) == timer' = Off /\ stack' = Append(s, [op |-> "reset"])

\* On the GUI thread.
CancelFromSelf(id) ==
  /\ CanCall(Self)
  /\ id \in handles
  /\ handles' = handles \ {id}
  /\ m_scheduledCalls' = Remove(m_scheduledCalls, id)
  /\ EnterReset(stack)
  /\ UNCHANGED <<m_q, messages, elapsed, lastId, blocked, notifying,
                 destroyed, cancelled>>

Due == m_scheduledCalls # <<>> /\ NextDeadline <= 0

StartTimed ==
  /\ Top.op = "reset" /\ Due
  /\ m_scheduledCalls' = Popped
  /\ stack' = Append(stack, Function(NextCall.id, NoClient))
  /\ UNCHANGED <<m_q, loop, clients, destroyed, cancelled>>

\* The time that is left is cut to milliseconds: the timer may be early.
ExitReset ==
  /\ Top.op = "reset" /\ ~Due
  /\ IF m_scheduledCalls = <<>> THEN UNCHANGED timer
     ELSE \E early \in {0, 1} : timer' = NextDeadline - early
  /\ stack' = Return(stack)
  /\ UNCHANGED <<m_scheduledCalls, m_q, messages, elapsed, clients,
                 destroyed, cancelled>>

------------------------------------------------------------------------------
(* OnMessage and OnTimer *)

\* The thread's own loop, or one that a function runs.
Dispatches ==
  /\ ~destroyed /\ Top.op \in {"loop", "fn"}
  /\ Depth < MaxNested

\* Mutant: a message that comes while a function runs is ignored.
OnMessage_NotWithin ==
  /\ Dispatches
  /\ messages > 0
  /\ messages' = messages - 1
  /\ stack' = IF stack = <<>> THEN <<[op |-> "drain"]>> ELSE stack
  /\ UNCHANGED <<m_scheduledCalls, m_q, timer, elapsed, clients,
                 destroyed, cancelled>>

OnMessage ==
  /\ Dispatches
  /\ messages > 0
  /\ messages' = messages - 1
  /\ stack' = Append(stack, [op |-> "drain"])
  /\ UNCHANGED <<m_scheduledCalls, m_q, timer, elapsed, clients,
                 destroyed, cancelled>>

\* A WM_TIMER comes when there is no other message.
OnTimer ==
  /\ Dispatches
  /\ elapsed /\ messages = 0
  /\ elapsed' = FALSE
  /\ EnterReset(stack)
  /\ UNCHANGED <<m_scheduledCalls, m_q, messages, clients, destroyed,
                 cancelled>>

Draining(op) == Top.op = "drain" /\ m_q # <<>> /\ Head(m_q).op = op

StartFn ==
  /\ Draining("fn")
  /\ m_q' = Tail(m_q)
  /\ stack' = Append(stack, Function(Head(m_q).id, Head(m_q).by))
  /\ UNCHANGED <<m_scheduledCalls, loop, clients, destroyed, cancelled>>

RunInsert ==
  /\ Draining("insert")
  /\ m_q' = Tail(m_q)
  /\ m_scheduledCalls' = Insert(m_scheduledCalls,
       [id |-> Head(m_q).id, at |-> Head(m_q).at, interval |-> Head(m_q).interval])
  /\ EnterReset(stack)
  /\ UNCHANGED <<messages, elapsed, clients, destroyed, cancelled>>

\* The client waits for ResetTimer too.
RunRemove ==
  /\ Draining("remove")
  /\ m_q' = Tail(m_q)
  /\ m_scheduledCalls' = Remove(m_scheduledCalls, Head(m_q).id)
  /\ EnterReset(Append(stack, [op |-> "removed", id |-> Head(m_q).id,
                               by |-> Head(m_q).by]))
  /\ UNCHANGED <<messages, elapsed, clients, destroyed, cancelled>>

Release(c) == blocked' = [d \in Clients |-> blocked[d] /\ d # c]

Removed ==
  /\ Top.op = "removed"
  /\ stack' = Return(stack)
  /\ Release(Top.by)
  /\ cancelled' = cancelled \cup {Top.id}
  /\ UNCHANGED <<m_scheduledCalls, m_q, loop, lastId, notifying, handles,
                 destroyed>>

ExitDrain ==
  /\ Top.op = "drain" /\ m_q = <<>>
  /\ stack' = Return(stack)
  /\ UNCHANGED <<m_scheduledCalls, m_q, loop, clients, destroyed, cancelled>>

\* It returns or throws: DoCall swallows the exception of a timed call.
FnReturns ==
  /\ Top.op = "fn"
  /\ stack' = Return(stack)
  /\ Release(Top.by)
  /\ UNCHANGED <<m_scheduledCalls, m_q, loop, lastId, notifying, handles,
                 destroyed, cancelled>>

Elapse ==
  /\ timer = 0 /\ ~elapsed
  /\ elapsed' = TRUE
  /\ UNCHANGED <<m_scheduledCalls, m_q, messages, timer, stack, clients,
                 destroyed, cancelled>>

\* ~GuiExecutor on the GUI thread, while no client is about to notify the
\* window: what is queued or scheduled is never run, whoever waits for it.
Destroy ==
  /\ ~destroyed /\ stack = <<>> /\ notifying = {}
  /\ destroyed' = TRUE
  /\ messages' = 0 /\ timer' = Off /\ elapsed' = FALSE
  /\ UNCHANGED <<m_scheduledCalls, m_q, stack, clients, cancelled>>

Nearer(time) == IF time > -MaxTime THEN time - 1 ELSE time

Tick ==
  /\ ~destroyed
  /\ m_scheduledCalls' = [i \in DOMAIN m_scheduledCalls |->
                            [m_scheduledCalls[i] EXCEPT !.at = Nearer(@)]]
  /\ m_q' = [i \in DOMAIN m_q |-> [m_q[i] EXCEPT
               !.at = IF m_q[i].op = "insert" THEN Nearer(@) ELSE @]]
  /\ timer' = IF timer \in {Off, 0} THEN timer ELSE timer - 1
  /\ UNCHANGED <<messages, elapsed, stack, clients, destroyed, cancelled>>

------------------------------------------------------------------------------
Init ==
  /\ lastId = 0
  /\ m_q = <<>> /\ m_scheduledCalls = <<>>
  /\ messages = 0 /\ timer = Off /\ elapsed = FALSE
  /\ stack = <<>>
  /\ blocked = [c \in Clients |-> FALSE] /\ notifying = {}
  /\ handles = {} /\ destroyed = FALSE /\ cancelled = {}

\* What the thread does without being asked by a message.
Step == StartTimed \/ ExitReset \/ StartFn \/ RunInsert \/ RunRemove
          \/ Removed \/ ExitDrain

Next ==
  \/ \E p \in Clients \cup {Self} :
       \/ CallAsync(p) \/ CallOther(p)
       \/ \E d \in Times : CallAt(p, d, 0) \/ CallAt(p, 0, d)
  \/ \E c \in Clients :
       \/ Call(c) \/ Notify(c)
       \/ \E id \in Ids : CancelFromClient(c, id)
  \/ \E id \in Ids : CancelFromSelf(id)
  \/ OnMessage \/ OnTimer \/ Step \/ FnReturns
  \/ Elapse \/ Destroy \/ Tick

Spec == Init /\ [][Next]_guiVars

\* The thread dispatches messages and goes on with what it has begun, and a
\* function returns, however often it dispatches messages itself or others run
\* within it.  Who has pushed posts its message; time passes and the timer
\* elapses.
FairSpec ==
  /\ Spec
  /\ WF_guiVars(OnMessage) /\ WF_guiVars(OnTimer) /\ WF_guiVars(Step)
  /\ WF_guiVars(FnReturns)
  /\ \A depth \in 1 .. MaxNested - 1 : SF_guiVars(Depth = depth /\ FnReturns)
  /\ \A c \in Clients : WF_guiVars(Notify(c))
  /\ WF_guiVars(Elapse) /\ WF_guiVars(Tick)

------------------------------------------------------------------------------
Scheduled == {m_scheduledCalls[i].id : i \in DOMAIN m_scheduledCalls}
Posted == {m_q[i].id : i \in {j \in DOMAIN m_q : m_q[j].op \in {"fn", "insert"}}}
BeingRemoved == {f.id : f \in {f \in Frames : f.op = "removed"}}

\* Being removed is part of being cancelled.
PhaseOf(i) ==
  CASE i \in cancelled /\ i \notin Scheduled \cup Posted -> "cancelled"
    [] \E f \in Functions : f.id = i -> "running"
    [] i \in Scheduled -> "armed"
    [] i \in Posted -> "posted"
    [] i > lastId -> "new"
    [] OTHER -> "over"

OwedTo(c) ==
  {<<IF m_q[i].op = "remove" THEN "cancel" ELSE "result", m_q[i].id>> :
     i \in {j \in DOMAIN m_q : m_q[j].by = c}}
  \cup {<<"result", f.id>> : f \in {f \in Functions : f.by = c}}
  \cup {<<"cancel", f.id>> :
          f \in {f \in Frames : f.op = "removed" /\ f.by = c}}

Contract == INSTANCE ExecutorContract WITH
  Callers <- Clients, Calls <- Ids, Nested <- TRUE,
  phase <- [i \in Ids |-> PhaseOf(i)], owed <- [c \in Clients |-> OwedTo(c)]

(* The same contract as Executor's, but for functions that start within others:
   a waiting thread goes on when its own function has returned or its call can
   no longer start, also when functions, cancels and ResetTimer are nested. *)
KeepsContract == Contract!CSpec

(* Every Call and every Cancel of a client returns unless the executor is
   destroyed, and what is due is started or cancelled, though ClearTimer,
   SetTimerMs and the messages are left to functions that run within each
   other, and a timer may be early.  Three exceptions are named.  Functions
   are posted so fast that the thread takes from m_q for ever: WM_TIMER waits
   until there is no other message.  They are posted so fast that the
   OnMessage a function has dispatched never ends: whoever waits for that
   function, or for one below it, waits for ever.  A periodic function takes
   longer than its interval, so that the loop of ResetTimer never ends: what
   is due is still started, but no message is dispatched. *)
DueFor(id) ==
  \E i \in DOMAIN m_scheduledCalls :
    m_scheduledCalls[i].id = id /\ m_scheduledCalls[i].at <= 0
TakesFromQueue == m_q # <<>> /\ Len(m_q') = Len(m_q) - 1
StartsCall(id) == StartTimed /\ NextCall.id = id
Within(op) == \E f \in Frames : f.op = op

OnMessageNeverEnds == <>[]Within("drain") /\ []<><<TakesFromQueue>>_m_q
ResetTimerNeverEnds == <>[]Within("reset") /\ []<><<StartTimed>>_stack

CallsAreServed ==
  /\ \/ \A c \in Clients : blocked[c] ~> (~blocked[c] \/ destroyed)
     \/ OnMessageNeverEnds \/ ResetTimerNeverEnds
  /\ \/ \A id \in Ids : \/ []<>(~DueFor(id) \/ destroyed)
                       \/ []<><<StartsCall(id)>>_stack
     \/ []<><<TakesFromQueue>>_m_q
=============================================================================
