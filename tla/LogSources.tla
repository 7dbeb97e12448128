----------------------------- MODULE LogSources -----------------------------
(***************************************************************************)
(* LogSources: the list of sources, the listen thread that waits for them  *)
(* and the executor's thread (the GUI thread in DebugView++) that adds and *)
(* removes sources and takes the lines.                                    *)
(*                                                                         *)
(* m_listenThread is an ActiveExecutor (module Executor): tasks is its     *)
(* queue.  Listen posts itself again after every round.  The throttled     *)
(* update is abstracted to what Throttle promises: after a call, m_update  *)
(* runs on the executor's thread at some later time, or the call has been  *)
(* forgotten, as after a stale reading of the clock or an exception.       *)
(*                                                                         *)
(* The order of the line buffer and of the pointers scheduled for removal  *)
(* is left out: both count, for every source, what they hold of it.        *)
(***************************************************************************)
EXTENDS Integers, Sequences

CONSTANTS
  Sources,      \* every LogSource ever created
  FileSources,  \* those of them that are FileReaders
  ByPredicate,  \* clients call RemoveSources, not only Remove
  MaxLines,     \* bound on the lines of a source
  MaxPointers   \* bound on the pointers to a source scheduled for removal

NoSource == "update event"

ASSUME SourcesAssumption == NoSource \notin Sources
ASSUME FilesAssumption == FileSources \subseteq Sources
ASSUME PredicateAssumption == ByPredicate \in BOOLEAN
ASSUME BoundsAssumption == MaxLines \in Nat /\ MaxPointers \in Nat

VARIABLES
  (* shared *)
  m_sources, m_sourcesScheduleToAdd, m_sourcesScheduledToRemove,
  m_updateEvent, m_end, m_linebuffer,
  tasks,        \* the queue of m_listenThread
  update,       \* a throttled update is pending
  (* the sources *)
  alive,        \* constructed and not yet destroyed
  atEnd,        \* AtEnd() is true
  lines,        \* lines read and not yet handed over by Notify
  made,         \* how many lines a source has read
  polling,      \* sources whose thread is in a round and has not signaled yet
  signaled,     \* sources whose handle is signaled
  (* the listen thread *)
  lpc, sourcesToAdd, sourcesToRemove, removing,
  waited,       \* the sources in waitHandles
  woke,         \* what WaitForAnyObject returned
  (* the executor's thread *)
  epc,
  batch,        \* the lines GetLines has taken and not come to yet
  checked,      \* the source that IsRemoved found in m_sources
  pointers,     \* sources the client has a pointer to
  (* history *)
  delivered,    \* how many lines of a source GetLines returned
  dropped,      \* sources of which GetLines ignored a line
  removed,      \* sources somebody asked to remove
  forgotten     \* the throttle has forgotten the last call

shared == <<m_sources, m_sourcesScheduleToAdd, m_sourcesScheduledToRemove,
            m_updateEvent, m_end, m_linebuffer, tasks, update>>
objects == <<alive, atEnd, lines, made, polling, signaled>>
listen == <<lpc, sourcesToAdd, sourcesToRemove, removing, waited, woke>>
client == <<epc, batch, checked, pointers>>
locals == <<batch, checked>>
history == <<delivered, dropped, removed, forgotten>>
vars == <<shared, objects, listen, client, history>>

Schedule == <<m_sourcesScheduleToAdd, m_sourcesScheduledToRemove>>

Nothing == [s \in Sources |-> 0]
Plus(f, S) == [s \in Sources |-> f[s] + IF s \in S THEN 1 ELSE 0]

\* LogSource::Add for every line a source holds: PolledLogSource::Notify, which
\* Abort calls once more after it has joined the source's thread.
HandOver(S) ==
  /\ m_linebuffer' =
       [s \in Sources |-> m_linebuffer[s] + IF s \in S THEN lines[s] ELSE 0]
  /\ lines' = [s \in Sources |-> IF s \in S THEN 0 ELSE lines[s]]

------------------------------------------------------------------------------
(* The sources *)

\* m_throttledUpdate(), from any thread.  A call that finds one pending is
\* served by it.
Update ==
  \/ update' = TRUE /\ forgotten' = FALSE
  \/ ~update /\ UNCHANGED update /\ forgotten' = TRUE

\* Poll and AddMessage on the source's own thread, of one line or of none; a
\* FileReader adds its lines without waiting for Notify.  A source that ends
\* finishes the round.
Poll(s) ==
  \E n \in {0, 1} :
    /\ s \in alive \ (atEnd \ polling)
    /\ made[s] + n <= MaxLines
    /\ made' = [made EXCEPT ![s] = @ + n]
    /\ polling' = polling \cup {s}
    /\ IF s \in FileSources
       THEN m_linebuffer' = [m_linebuffer EXCEPT ![s] = @ + n] /\ UNCHANGED lines
       ELSE lines' = [lines EXCEPT ![s] = @ + n] /\ UNCHANGED m_linebuffer
    /\ UNCHANGED <<m_sources, Schedule, m_updateEvent, m_end, tasks, update,
                   alive, atEnd, signaled, listen, client, history>>

\* Mutant: the event is set for the first line only.
Signal_First(s) ==
  /\ s \in polling
  /\ polling' = polling \ {s}
  /\ IF s \in FileSources
     THEN Update /\ UNCHANGED signaled
     ELSE /\ signaled' = signaled \cup {t \in {s} : lines[t] = 1}
          /\ UNCHANGED <<update, forgotten>>
  /\ UNCHANGED <<m_sources, Schedule, m_updateEvent, m_end, m_linebuffer, tasks,
                 alive, atEnd, lines, made, listen, client, delivered, dropped,
                 removed>>

\* Signal, at the end of a round: the handle, if there are lines; a FileReader
\* calls the throttle.
Signal(s) ==
  /\ s \in polling
  /\ polling' = polling \ {s}
  /\ IF s \in FileSources
     THEN Update /\ UNCHANGED signaled
     ELSE /\ signaled' = signaled \cup {t \in {s} : lines[t] > 0}
          /\ UNCHANGED <<update, forgotten>>
  /\ UNCHANGED <<m_sources, Schedule, m_updateEvent, m_end, m_linebuffer, tasks,
                 alive, atEnd, lines, made, listen, client, delivered, dropped,
                 removed>>

\* A pipe breaks, a process ends, a file cannot be read any further.
End(s) ==
  /\ s \in alive \ atEnd
  /\ atEnd' = atEnd \cup {s}
  /\ UNCHANGED <<shared, alive, lines, made, polling, signaled, listen, client,
                 history>>

------------------------------------------------------------------------------
(* The executor's thread *)

\* AddDBWinReader and its like: construct, schedule; SetEvent is the next step.
Add(s) ==
  /\ epc = "idle"
  /\ s \notin alive /\ made[s] = 0 /\ s \notin removed
  /\ alive' = alive \cup {s}
  /\ m_sourcesScheduleToAdd' = m_sourcesScheduleToAdd \cup {s}
  /\ pointers' = pointers \cup {s}
  /\ epc' = "signal"
  /\ UNCHANGED <<m_sources, m_sourcesScheduledToRemove, m_updateEvent, m_end,
                 m_linebuffer, tasks, update, atEnd, lines, made, polling, signaled,
                 listen, locals, history>>

\* Mutant: the event first, the pointer afterwards.
Remove_EventFirst(s) ==
  /\ s \in pointers
  /\ removed' = removed \cup {s}
  /\ \/ /\ epc = "idle" /\ s \notin removed
        /\ m_updateEvent' = TRUE
        /\ epc' = "push"
        /\ UNCHANGED <<pointers, m_sourcesScheduledToRemove>>
     \/ /\ epc = "push" /\ s \in removed
        /\ m_sourcesScheduledToRemove' = Plus(m_sourcesScheduledToRemove, {s})
        /\ pointers' = pointers \ {s}
        /\ epc' = "idle"
        /\ UNCHANGED m_updateEvent
  /\ UNCHANGED <<m_sources, m_sourcesScheduleToAdd, m_end, m_linebuffer, tasks,
                 update, objects, listen, locals, delivered,
                 dropped, forgotten>>

\* Mutant: the client keeps its pointer.
Remove_Keeps(s) ==
  /\ epc = "idle"
  /\ s \in pointers
  /\ m_sourcesScheduledToRemove' = Plus(m_sourcesScheduledToRemove, {s})
  /\ removed' = removed \cup {s}
  /\ epc' = "signal"
  /\ UNCHANGED <<m_sources, m_sourcesScheduleToAdd, m_updateEvent, m_end,
                 m_linebuffer, tasks, update, objects, listen, locals, pointers,
                 delivered, dropped, forgotten>>

\* Remove: the client forgets its pointer.  push_back takes no lock: against
\* the swap of the listen thread the pointer may get lost.
Remove(s) ==
  /\ epc = "idle"
  /\ s \in pointers
  /\ \/ m_sourcesScheduledToRemove' = Plus(m_sourcesScheduledToRemove, {s})
     \/ lpc = "swap" /\ UNCHANGED m_sourcesScheduledToRemove
  /\ pointers' = pointers \ {s}
  /\ removed' = removed \cup {s}
  /\ epc' = "signal"
  /\ UNCHANGED <<m_sources, m_sourcesScheduleToAdd, m_updateEvent, m_end,
                 m_linebuffer, tasks, update, objects, listen, locals, delivered,
                 dropped, forgotten>>

\* RemoveSources: reads m_sources under m_sourcesSchedule_mutex, which the
\* listen thread does not hold while it changes m_sources.  The predicate of
\* CMainFrame spares some of the readers that it has a pointer to, not all.
ScheduleRemoval(S) ==
  /\ m_sourcesScheduledToRemove' = Plus(m_sourcesScheduledToRemove, S)
  /\ removed' = removed \cup S

RemoveSources ==
  /\ ByPredicate
  /\ epc = "idle"
  /\ \A s \in m_sources : m_sourcesScheduledToRemove[s] < MaxPointers
  /\ \E spared \in SUBSET pointers : ScheduleRemoval(m_sources \ spared)
  /\ epc' = "signal"
  /\ UNCHANGED <<m_sources, m_sourcesScheduleToAdd, m_updateEvent, m_end,
                 m_linebuffer, tasks, update, objects, listen, locals, pointers,
                 delivered, dropped, forgotten>>

\* Mutant: the listen thread is not woken.
SetEvent_Forgets ==
  /\ epc = "signal"
  /\ epc' = "idle"
  /\ UNCHANGED <<m_sources, Schedule, m_updateEvent, m_end, m_linebuffer, tasks,
                 update, objects, listen, locals, pointers, history>>

SetEvent ==
  /\ epc = "signal"
  /\ m_updateEvent' = TRUE
  /\ epc' = "idle"
  /\ UNCHANGED <<m_sources, Schedule, m_end, m_linebuffer, tasks, update,
                 objects, listen, locals, pointers, history>>

(* m_update: its slot calls GetLines *)

GetLines ==
  /\ epc = "idle" /\ update
  /\ update' = FALSE
  /\ batch' = m_linebuffer /\ m_linebuffer' = Nothing
  /\ epc' = "get lines"
  /\ UNCHANGED <<m_sources, Schedule, m_updateEvent, m_end, tasks, objects,
                 listen, checked, pointers, history>>

\* IsRemoved looks for the source of a line under m_sourcesSchedule_mutex; the
\* line of one that is not in m_sources is ignored.
IsRemoved(s) ==
  /\ epc = "get lines" /\ batch[s] > 0
  /\ batch' = [batch EXCEPT ![s] = @ - 1]
  /\ \/ /\ s \in m_sources
        /\ checked' = s /\ epc' = "preprocess" /\ UNCHANGED dropped
     \/ /\ s \notin m_sources
        /\ dropped' = dropped \cup {s} /\ UNCHANGED <<checked, epc>>
  /\ UNCHANGED <<shared, objects, listen, pointers, delivered, removed, forgotten>>

\* pLogSource->PreProcess, without the mutex.
PreProcess ==
  /\ epc = "preprocess"
  /\ delivered' = [delivered EXCEPT ![checked] = @ + 1]
  /\ checked' = NoSource
  /\ epc' = "get lines"
  /\ UNCHANGED <<shared, objects, listen, batch, pointers, dropped, removed,
                 forgotten>>

ReturnLines ==
  /\ epc = "get lines" /\ batch = Nothing
  /\ epc' = "idle"
  /\ UNCHANGED <<shared, objects, listen, locals, pointers, history>>

(* ~LogSources and Abort, still on the executor's thread *)

\* disconnect_all_slots, m_end = true
BeginAbort ==
  /\ epc = "idle"
  /\ m_end' = TRUE
  /\ epc' = "abort"
  /\ UNCHANGED <<m_sources, Schedule, m_updateEvent, m_linebuffer, tasks,
                 update, objects, listen, locals, pointers, history>>

\* CallSources(Abort): joins the threads of the sources it finds.
AbortSources ==
  /\ epc = "abort"
  /\ atEnd' = atEnd \cup m_sources
  /\ HandOver(m_sources)
  /\ polling' = polling \ m_sources
  /\ epc' = "remove all"
  /\ UNCHANGED <<m_sources, Schedule, m_updateEvent, m_end, tasks, update,
                 alive, made, signaled, listen, locals, pointers, history>>

\* Mutant: Abort relies on m_end alone.
AbortRemoves_NoEvent ==
  /\ epc = "remove all"
  /\ ScheduleRemoval(m_sources)
  /\ epc' = "synchronize"
  /\ UNCHANGED <<m_sources, m_sourcesScheduleToAdd, m_updateEvent, m_end,
                 m_linebuffer, tasks, update, objects, listen, locals, pointers,
                 delivered, dropped, forgotten>>

AbortRemoves ==
  /\ epc = "remove all"
  /\ ScheduleRemoval(m_sources)
  /\ m_updateEvent' = TRUE
  /\ epc' = "synchronize"
  /\ UNCHANGED <<m_sources, m_sourcesScheduleToAdd, m_end, m_linebuffer, tasks,
                 update, objects, listen, locals, pointers, delivered, dropped,
                 forgotten>>

\* m_listenThread.Synchronize(); ~ActiveExecutor posts one more task and joins.
Synchronize ==
  /\ \/ epc = "synchronize" /\ tasks' = Append(tasks, "sync") /\ epc' = "in sync"
     \/ epc = "aborted" /\ tasks' = Append(tasks, "end") /\ epc' = "in join"
  /\ UNCHANGED <<m_sources, Schedule, m_updateEvent, m_end, m_linebuffer,
                 update, objects, listen, locals, pointers, history>>

------------------------------------------------------------------------------
(* The listen thread *)

ListenAt(l) == lpc = l
ListenGoto(l) == lpc' = l

\* The executor of the listen thread takes a task.
TakeTask ==
  /\ ListenAt("idle") /\ tasks # <<>>
  /\ tasks' = Tail(tasks)
  /\ \/ Head(tasks) = "listen" /\ ListenGoto("swap") /\ UNCHANGED epc
     \/ Head(tasks) = "sync" /\ epc' = "aborted" /\ UNCHANGED lpc
     \/ Head(tasks) = "end" /\ epc' = "gone" /\ ListenGoto("exited")
  /\ UNCHANGED <<m_sources, Schedule, m_updateEvent, m_end, m_linebuffer,
                 update, objects, sourcesToAdd, sourcesToRemove, removing,
                 waited, woke, locals, pointers, history>>

(* UpdateSources *)

Swap ==
  /\ ListenAt("swap")
  /\ sourcesToAdd' = m_sourcesScheduleToAdd
  /\ sourcesToRemove' = m_sourcesScheduledToRemove
  /\ m_sourcesScheduleToAdd' = {} /\ m_sourcesScheduledToRemove' = Nothing
  /\ ListenGoto("decide")
  /\ UNCHANGED <<m_sources, m_updateEvent, m_end, m_linebuffer, tasks, update,
                 objects, removing, waited, woke, client, history>>

Decide ==
  /\ ListenAt("decide") /\ ~m_end
  /\ ListenGoto("remove")
  /\ UNCHANGED <<shared, objects, sourcesToAdd, sourcesToRemove, removing,
                 waited, woke, client, history>>

\* if (m_end): everything goes, the sources in the local list too, whose
\* destructors abort them.
Clear ==
  /\ ListenAt("decide") /\ m_end
  /\ LET all == m_sources \cup sourcesToAdd
     IN  /\ atEnd' = atEnd \cup all /\ HandOver(all)
         /\ polling' = polling \ all /\ alive' = alive \ all
  /\ m_sources' = {} /\ sourcesToAdd' = {} /\ sourcesToRemove' = Nothing
  /\ ListenGoto("snapshot")
  /\ UNCHANGED <<Schedule, m_updateEvent, m_end, tasks, update, made,
                 signaled, removing, waited, woke, client, history>>

\* pLogSource->Abort() joins the thread: a round under way is finished before.
AbortOne(s) ==
  /\ ListenAt("remove") /\ sourcesToRemove[s] > 0
  /\ atEnd' = atEnd \cup {s} /\ HandOver({s}) /\ polling' = polling \ {s}
  /\ sourcesToRemove' = [sourcesToRemove EXCEPT ![s] = @ - 1]
  /\ removing' = s
  /\ ListenGoto("erase")
  /\ UNCHANGED <<m_sources, Schedule, m_updateEvent, m_end, tasks, update,
                 alive, made, signaled, sourcesToAdd, waited, woke, client,
                 history>>

\* InternalRemove: erases and destroys what is in m_sources, says so in the log.
EraseOne ==
  /\ ListenAt("erase")
  /\ alive' = alive \ (m_sources \cap {removing})
  /\ m_sources' = m_sources \ {removing}
  /\ removing' = NoSource
  /\ Update
  /\ ListenGoto("remove")
  /\ UNCHANGED <<Schedule, m_updateEvent, m_end, m_linebuffer, tasks, atEnd,
                 lines, made, polling, signaled, sourcesToAdd, sourcesToRemove,
                 waited, woke, client, delivered, dropped, removed>>

\* Mutant: the new sources take the place of the old ones.
AddAll_Replaces ==
  /\ ListenAt("remove") /\ sourcesToRemove = Nothing
  /\ m_sources' = IF sourcesToAdd = {} THEN m_sources ELSE sourcesToAdd
  /\ sourcesToAdd' = {}
  /\ Update
  /\ ListenGoto("snapshot")
  /\ UNCHANGED <<Schedule, m_updateEvent, m_end, m_linebuffer, tasks, objects,
                 sourcesToRemove, removing, waited, woke, client, delivered,
                 dropped, removed>>

\* UpdateSettings and emplace_back for every new source; m_throttledUpdate().
AddAll ==
  /\ ListenAt("remove") /\ sourcesToRemove = Nothing
  /\ m_sources' = m_sources \cup sourcesToAdd
  /\ sourcesToAdd' = {}
  /\ Update
  /\ ListenGoto("snapshot")
  /\ UNCHANGED <<Schedule, m_updateEvent, m_end, m_linebuffer, tasks, objects,
                 sourcesToRemove, removing, waited, woke, client, delivered,
                 dropped, removed>>

(* ListenUntilUpdateEvent *)

\* Sources at end are skipped, FileReaders have no handle.
Snapshot ==
  /\ ListenAt("snapshot")
  /\ waited' = {s \in m_sources : s \notin atEnd /\ s \notin FileSources}
  /\ ListenGoto("loop")
  /\ UNCHANGED <<shared, objects, sourcesToAdd, sourcesToRemove, removing,
                 woke, client, history>>

\* while (!m_end)
Loop ==
  /\ ListenAt("loop")
  /\ ListenGoto(IF m_end THEN "reschedule" ELSE "wait")
  /\ UNCHANGED <<shared, objects, sourcesToAdd, sourcesToRemove, removing,
                 waited, woke, client, history>>

\* WaitForAnyObject: the update event is the last of the handles, so that a
\* signaled source is preferred.  The event that ends the wait is reset.
Wait ==
  /\ ListenAt("wait")
  /\ \/ \E s \in waited \cap signaled :
          woke' = s /\ signaled' = signaled \ {s} /\ UNCHANGED m_updateEvent
     \/ /\ waited \cap signaled = {} /\ m_updateEvent
        /\ woke' = NoSource /\ m_updateEvent' = FALSE /\ UNCHANGED signaled
  /\ ListenGoto("woken")
  /\ UNCHANGED <<m_sources, Schedule, m_end, m_linebuffer, tasks, update,
                 alive, atEnd, lines, made, polling, sourcesToAdd, sourcesToRemove,
                 removing, waited, client, history>>

Woken ==
  /\ ListenAt("woken") /\ (m_end \/ woke = NoSource)
  /\ ListenGoto("reschedule")
  /\ UNCHANGED <<shared, objects, sourcesToAdd, sourcesToRemove, removing,
                 waited, woke, client, history>>

Notify ==
  /\ ListenAt("woken") /\ ~m_end /\ woke # NoSource
  /\ HandOver({woke})
  /\ Update
  /\ ListenGoto("loop")
  /\ UNCHANGED <<m_sources, Schedule, m_updateEvent, m_end, tasks, alive,
                 atEnd, made, polling, signaled, sourcesToAdd, sourcesToRemove,
                 removing, waited, woke, client, delivered, dropped, removed>>

\* if (!m_end) m_listenThread.CallAsync(Listen), in two steps.
Reschedule ==
  /\ \/ /\ ListenAt("reschedule")
        /\ ListenGoto(IF m_end THEN "idle" ELSE "post")
        /\ UNCHANGED tasks
     \/ /\ ListenAt("post")
        /\ tasks' = Append(tasks, "listen")
        /\ ListenGoto("idle")
  /\ UNCHANGED <<m_sources, Schedule, m_updateEvent, m_end, m_linebuffer,
                 update, objects, sourcesToAdd, sourcesToRemove, removing,
                 waited, woke, client, history>>

------------------------------------------------------------------------------
\* The constructor has posted the first Listen.
Init ==
  /\ m_sources = {} /\ m_sourcesScheduleToAdd = {}
  /\ m_sourcesScheduledToRemove = Nothing
  /\ m_updateEvent = FALSE /\ m_end = FALSE /\ m_linebuffer = Nothing
  /\ tasks = <<"listen">> /\ update = FALSE
  /\ alive = {} /\ atEnd = {} /\ polling = {} /\ signaled = {}
  /\ lines = [s \in Sources |-> 0] /\ made = [s \in Sources |-> 0]
  /\ lpc = "idle" /\ sourcesToAdd = {} /\ sourcesToRemove = Nothing
  /\ removing = NoSource /\ waited = {} /\ woke = NoSource
  /\ epc = "idle" /\ batch = Nothing /\ checked = NoSource /\ pointers = {}
  /\ delivered = [s \in Sources |-> 0] /\ dropped = {} /\ removed = {}
  /\ forgotten = FALSE

ListenThread ==
  \/ TakeTask \/ Swap \/ Decide \/ Clear
  \/ (\E s \in Sources : AbortOne(s)) \/ EraseOne \/ AddAll
  \/ Snapshot \/ Loop \/ Wait \/ Woken \/ Notify \/ Reschedule

Abort == BeginAbort \/ AbortSources \/ AbortRemoves \/ Synchronize

Lines == GetLines \/ (\E s \in Sources : IsRemoved(s)) \/ PreProcess \/ ReturnLines

Next ==
  \/ \E s \in Sources : Poll(s) \/ Signal(s) \/ End(s) \/ Add(s) \/ Remove(s)
  \/ RemoveSources \/ SetEvent \/ Lines \/ Abort
  \/ ListenThread

Spec == Init /\ [][Next]_vars

\* The listen thread runs, a round of a source's thread ends, a call the
\* executor's thread has begun goes on, and a pending update comes, however
\* often clients call: the executor's queue is first in, first out.  Nobody has
\* to add, remove, read or abort anything.
FairSpec ==
  /\ Spec
  /\ WF_vars(ListenThread)
  /\ \A s \in Sources : WF_vars(Signal(s))
  /\ WF_vars(SetEvent)
  /\ SF_vars(GetLines)
  /\ WF_vars((\E s \in Sources : IsRemoved(s)) \/ PreProcess \/ ReturnLines)
  /\ WF_vars(AbortSources \/ AbortRemoves \/ Synchronize)

------------------------------------------------------------------------------
SharedOK ==
  /\ m_sources \subseteq Sources /\ m_sourcesScheduleToAdd \subseteq Sources
  /\ m_sourcesScheduledToRemove \in [Sources -> Nat]
  /\ m_updateEvent \in BOOLEAN /\ m_end \in BOOLEAN /\ update \in BOOLEAN
  /\ m_linebuffer \in [Sources -> Nat]
  /\ tasks \in Seq({"listen", "sync", "end"})

ObjectsOK ==
  /\ alive \subseteq Sources /\ atEnd \subseteq Sources
  /\ lines \in [Sources -> Nat] /\ made \in [Sources -> Nat]
  /\ polling \subseteq Sources /\ signaled \subseteq Sources

ListenOK ==
  /\ lpc \in {"idle", "swap", "decide", "remove", "erase", "snapshot", "loop",
             "wait", "woken", "reschedule", "post", "exited"}
  /\ sourcesToAdd \subseteq Sources /\ sourcesToRemove \in [Sources -> Nat]
  /\ removing \in Sources \cup {NoSource}
  /\ waited \subseteq Sources /\ woke \in Sources \cup {NoSource}

ClientOK ==
  /\ epc \in {"idle", "signal", "get lines", "preprocess", "abort", "remove all",
             "synchronize", "in sync", "aborted", "in join", "gone"}
  /\ batch \in [Sources -> Nat] /\ checked \in Sources \cup {NoSource}
  /\ pointers \subseteq Sources
  /\ delivered \in [Sources -> Nat]
  /\ dropped \subseteq Sources /\ removed \subseteq Sources
  /\ forgotten \in BOOLEAN

\* Every variable holds what its declaration says.
TypeOK == SharedOK /\ ObjectsOK /\ ListenOK /\ ClientOK

Pointed(f) == {s \in Sources : f[s] > 0}

(* The listen thread never uses a source that it has destroyed: not through
   the handles it waits for, not through a pointer that was scheduled for
   removal, however long ago the client let go of it. *)
ListenUsesAlive ==
  /\ m_sources \subseteq alive
  /\ lpc \in {"loop", "wait", "woken"} => waited \subseteq alive
  /\ lpc = "remove" => Pointed(sourcesToRemove) \subseteq alive
  /\ lpc = "erase" => removing \in alive

(* Neither does GetLines: the source that IsRemoved has found is there until
   PreProcess has returned.  The code does not see to that. *)
NoDangling == ListenUsesAlive /\ (epc = "preprocess" => checked \in alive)

(* No update is lost: once a client's Add or Remove has returned and the listen
   thread is past its swap, the event that ends its wait is set. *)
InGetLines == epc \in {"get lines", "preprocess"}
ScheduledWork == m_sourcesScheduleToAdd # {} \/ m_sourcesScheduledToRemove # Nothing
PastSwap == \/ lpc \in {"decide", "remove", "erase", "snapshot", "loop", "wait"}
            \/ lpc = "woken" /\ woke # NoSource
NoLostUpdate ==
  (epc = "idle" \/ InGetLines) /\ ScheduledWork /\ PastSwap => m_updateEvent

(* GetLines ignores a line of a polled source only if somebody asked to remove
   the source, also when the source has come to its end between the line and
   GetLines: a source at end stays in m_sources, whatever the comment on AtEnd
   says.  A FileReader adds lines before it is in m_sources, which are ignored
   as well; that is left out, as is what a removed source flushed. *)
DroppedMeansRemoved == dropped \subseteq removed \cup FileSources

\* Why DroppedMeansRemoved holds: until the abort, a line in the buffer is of
\* a FileReader, or of a source that is listed or asked to go, because the
\* listen thread only waits for listed sources and its pointers come from
\* clients.
DropInv ==
  /\ m_end <=> epc \notin {"idle", "signal", "get lines", "preprocess"}
  /\ batch # Nothing => InGetLines
  /\ Pointed(batch) \subseteq m_sources \cup removed \cup FileSources
  /\ ~m_end => \A i \in DOMAIN tasks : tasks[i] = "listen"
  /\ lpc \in {"loop", "wait", "woken"} => waited \subseteq m_sources
  /\ lpc = "woken" => woke \in waited \cup {NoSource}
  /\ Pointed(m_sourcesScheduledToRemove) \subseteq removed
  /\ Pointed(sourcesToRemove) \subseteq removed
  /\ removing # NoSource => removing \in removed
  /\ ~m_end => Pointed(m_linebuffer) \subseteq m_sources \cup removed \cup FileSources
  /\ DroppedMeansRemoved

\* Why no pointer dangles when clients only call Remove: until the abort there
\* is one pointer to a source, in the hands of the client or in one of the
\* lists, and a source is in one of the lists of sources only.
OnePointer(s) ==
  /\ m_sourcesScheduledToRemove[s] + sourcesToRemove[s] <= 1
  /\ removing = s \/ s \in pointers =>
       m_sourcesScheduledToRemove[s] = 0 /\ sourcesToRemove[s] = 0
  /\ ~(removing = s /\ s \in pointers)
  /\ m_sourcesScheduledToRemove[s] > 0 \/ sourcesToRemove[s] > 0
       \/ s \in pointers => s \in alive

Removing(s) ==
  /\ sourcesToRemove[s] <= 1
  /\ removing = s => sourcesToRemove[s] = 0
  /\ removing = s \/ sourcesToRemove[s] > 0 => s \in alive

PointerInv ==
  /\ epc \in {"abort", "remove all", "synchronize"} => m_end
  /\ ~m_end => \A s \in Sources : OnePointer(s)
  /\ lpc \in {"remove", "erase"} => \A s \in Sources : Removing(s)
  /\ lpc = "erase" <=> removing # NoSource
  /\ lpc \notin {"decide", "remove", "erase"} => sourcesToRemove = Nothing
  /\ m_sources \cup m_sourcesScheduleToAdd \cup sourcesToAdd \subseteq alive
  /\ m_sources \cap (m_sourcesScheduleToAdd \cup sourcesToAdd) = {}
  /\ m_sourcesScheduleToAdd \cap sourcesToAdd = {}
  /\ lpc \in {"loop", "wait", "woken"} => waited \subseteq m_sources

(* A source that was added is listened to, unless LogSources is aborted, or the
   sources never pause: the update event is the last of the handles, so that
   the listen thread may go from one Notify to the next for ever. *)
AddedIsListened ==
  \/ \A s \in Sources : s \in m_sourcesScheduleToAdd ~> (s \in m_sources \/ m_end)
  \/ []<><<Notify>>_lpc

(* The lines of a source that is neither removed nor at end reach GetLines,
   whether they were polled before or after Notify took its lines, unless the
   throttle forgets the last call for good.  A later call that it does not
   forget brings the lines of the forgotten one along. *)
LinesArrive ==
  \/ \A s \in Sources, n \in 1 .. MaxLines :
       made[s] >= n ~> (delivered[s] >= n \/ s \in removed \cup atEnd \/ m_end)
  \/ <>[]forgotten

(* Abort and the destructor return, whatever the listen thread is doing. *)
AbortReturns == epc = "abort" ~> epc = "gone"
=============================================================================
