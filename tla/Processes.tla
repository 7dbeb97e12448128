----------------------------- MODULE Processes -----------------------------
(***************************************************************************)
(* The life of the monitored processes: DBWinReader opens a handle of the  *)
(* process behind every message; GetLines keeps the first one in m_pidMap  *)
(* and gives it to ProcessMonitor, whose thread waits for the ends, a      *)
(* window of handles at a time; OnProcessEnded, on the executor's thread,  *)
(* writes what NewlineFilter still holds of the process, says that it has  *)
(* terminated and closes the handle.                                       *)
(*                                                                         *)
(* The kernel gives a pid to another process only when the old one has     *)
(* ended and no handle of it is open: the handles are what keeps the text  *)
(* of two processes apart, in m_pidMap and in NewlineFilter, which both    *)
(* know processes by their pid.                                            *)
(***************************************************************************)
EXTENDS Integers, Sequences

CONSTANTS
  Processes, NoProcess, \* processes that write messages, one life each
  Pids,                 \* process ids of the kernel
  Window,               \* MAXIMUM_WAIT_OBJECTS - 1
  Limit,                \* 8192, counted in pieces of text
  MaxWrites             \* bound on the messages of all processes

ASSUME ProcessAssumption == NoProcess \notin Processes
ASSUME BoundsAssumption ==
  Window \in Nat \ {0} /\ Limit \in Nat /\ MaxWrites \in Nat

VARIABLES
  (* the kernel *)
  life, pid,            \* of every process
  writes,               \* messages written so far
  slot,                 \* DBWIN_BUFFER, shared by all that write messages
  (* the executor's thread *)
  m_linebuffer,         \* also written by the listen thread
  lines,                \* what GetLines has swapped out and not yet handled
  m_pidMap,             \* pid -> the process of the handle, if any
  m_lineBuffers,        \* NewlineFilter: pid -> text without its newline
  autoNewLine,          \* of the DBWinReader
  calls,                \* OnProcessEnded calls posted to the executor
  epc, current,         \* where the executor is in the call of current
  (* ProcessMonitor *)
  connected,            \* m_processEnded has its slot
  m_q, m_event, m_processes, offset,
  mpc, ended,           \* where Run is, and the index it removes next
  (* history *)
  lastOut,              \* what was last shown of a process
  mixed,                \* a line was shown with text of two processes
  late,                 \* processes of which text was read after their end
  untracked             \* processes of which text was read without a handle

kernel == <<life, pid, writes>>
filter == <<m_lineBuffers, autoNewLine>>
executor == <<calls, epc, current>>
monitor == <<connected, m_q, m_event, m_processes, offset, mpc, ended>>
history == <<lastOut, mixed, late, untracked>>
vars == <<kernel, slot, m_linebuffer, lines, m_pidMap, filter, executor,
          monitor, history>>

NoEntry == [id |-> 0, process |-> NoProcess]
NoText == [writer |-> NoProcess, id |-> 0, newline |-> FALSE]
Text(p) == [of |-> p, what |-> "text"]
End(p) == [of |-> p, what |-> "end"]

\* The lines of m_linebuffer; only DBWinReader's have a handle.
Line(h, id, text, newline, loopback) ==
  [handle |-> h, id |-> id, text |-> text, newline |-> newline,
   loopback |-> loopback]

\* Handles of p are held by lines on their way to GetLines and by m_pidMap.
HasHandle(p) ==
  \/ \E i \in DOMAIN m_linebuffer : m_linebuffer[i].handle = p
  \/ \E i \in DOMAIN lines : lines[i].handle = p
  \/ \E id \in Pids : m_pidMap[id] = p

Exists(p) ==
  life[p] = "running" \/ (life[p] = "ended" /\ HasHandle(p))

------------------------------------------------------------------------------
(* The kernel and the processes *)

Start(p, id) ==
  /\ life[p] = "unborn"
  /\ \A q \in Processes : Exists(q) => pid[q] # id
  /\ life' = [life EXCEPT ![p] = "running"]
  /\ pid' = [pid EXCEPT ![p] = id]
  /\ UNCHANGED <<writes, slot, m_linebuffer, lines, m_pidMap, filter,
                 executor, monitor, history>>

\* OutputDebugString, when DBWIN_BUFFER_READY lets it.
Write(p, newline) ==
  /\ life[p] = "running" /\ writes < MaxWrites
  /\ slot = NoText
  /\ slot' = [writer |-> p, id |-> pid[p], newline |-> newline]
  /\ writes' = writes + 1
  /\ UNCHANGED <<life, pid, m_linebuffer, lines, m_pidMap, filter, executor,
                 monitor, history>>

Exit(p) ==
  /\ life[p] = "running"
  /\ life' = [life EXCEPT ![p] = "ended"]
  /\ UNCHANGED <<pid, writes, slot, m_linebuffer, lines, m_pidMap, filter,
                 executor, monitor, history>>

\* DBWinReader::Notify on the listen thread: OpenProcess finds the process that
\* has the pid now.
Notify ==
  /\ slot # NoText
  /\ LET w == slot.writer
         found == {p \in Processes : Exists(p) /\ pid[p] = slot.id}
         h == IF found = {} THEN NoProcess ELSE CHOOSE p \in found : TRUE
     IN /\ m_linebuffer' = Append(m_linebuffer,
             Line(h, slot.id, <<Text(w)>>, slot.newline, FALSE))
        /\ late' = IF life[w] = "ended" THEN late \cup {w} ELSE late
        /\ untracked' = IF h # w THEN untracked \cup {w} ELSE untracked
  /\ slot' = NoText
  /\ UNCHANGED <<kernel, lines, m_pidMap, filter, executor, monitor, lastOut,
                 mixed>>

------------------------------------------------------------------------------
(* NewlineFilter and GetLines *)

\* What of the text is shown at once: all of it when it ends with a newline,
\* when the source adds newlines or when there is too much of it.
Shown(line) ==
  LET text == m_lineBuffers[line.id] \o line.text
  IN IF line.newline \/ line.loopback \/ autoNewLine \/ Len(text) > Limit
     THEN text ELSE <<>>

Kept(line) ==
  IF Shown(line) # <<>> THEN <<>> ELSE m_lineBuffers[line.id] \o line.text

LastOf(p, text) ==
  LET of == {i \in DOMAIN text : text[i].of = p}
  IN IF of = {} THEN lastOut[p]
     ELSE text[CHOOSE i \in of : \A j \in of : j <= i].what

\* NewlineFilter::Process, and the view that shows the result.
Process(line) ==
  LET text == Shown(line) IN
  /\ m_lineBuffers' = [m_lineBuffers EXCEPT ![line.id] = Kept(line)]
  /\ lastOut' = [p \in Processes |-> LastOf(p, text)]
  /\ mixed' = (mixed \/ \E i, j \in DOMAIN text : text[i].of # text[j].of)

\* m_pidMap takes the handle, and ProcessMonitor::Add.
Track(id, p) ==
  /\ m_pidMap' = [m_pidMap EXCEPT ![id] = p]
  /\ m_q' = Append(m_q, [id |-> id, process |-> p])
  /\ m_event' = TRUE

\* One turn of GetLines' loop.  The handle is closed, unless m_pidMap has none
\* of that pid.
\* Mutant: every handle is tracked.
GetLine_TracksAgain ==
  /\ lines # <<>>
  /\ lines' = Tail(lines)
  /\ LET line == Head(lines) IN
     /\ IF line.handle # NoProcess
        THEN Track(line.id, line.handle)
        ELSE UNCHANGED <<m_pidMap, m_q, m_event>>
     /\ Process(line)
  /\ UNCHANGED <<kernel, slot, m_linebuffer, autoNewLine, executor, connected,
                 m_processes, offset, mpc, ended, late, untracked>>

GetLine ==
  /\ lines # <<>>
  /\ lines' = Tail(lines)
  /\ LET line == Head(lines) IN
     /\ IF line.handle # NoProcess /\ m_pidMap[line.id] = NoProcess
        THEN Track(line.id, line.handle)
        ELSE UNCHANGED <<m_pidMap, m_q, m_event>>
     /\ Process(line)
  /\ UNCHANGED <<kernel, slot, m_linebuffer, autoNewLine, executor, connected,
                 m_processes, offset, mpc, ended, late, untracked>>

\* Observers of m_update call GetLines, which swaps the buffers.
SwapLines == lines' = m_linebuffer /\ m_linebuffer' = <<>>

Idle == epc = "idle" /\ lines = <<>>

\* The throttled update.
Update ==
  /\ Idle /\ m_linebuffer # <<>>
  /\ SwapLines
  /\ UNCHANGED <<kernel, slot, m_pidMap, filter, executor, monitor, history>>

\* The menu switches LogSources::SetAutoNewLine.
SetAutoNewLine ==
  /\ Idle
  /\ autoNewLine' = ~autoNewLine
  /\ UNCHANGED <<kernel, slot, m_linebuffer, lines, m_pidMap, m_lineBuffers,
                 executor, monitor, history>>

------------------------------------------------------------------------------
(* OnProcessEnded's call, on the executor's thread *)

\* Mutant: the entry of m_pidMap is erased first.
BeginEnded_Erases ==
  /\ Idle /\ calls # <<>>
  /\ current' = Head(calls) /\ calls' = Tail(calls)
  /\ epc' = "flush"
  /\ SwapLines
  /\ m_pidMap' = [m_pidMap EXCEPT ![Head(calls).id] = NoProcess]
  /\ UNCHANGED <<kernel, slot, filter, monitor, history>>

BeginEnded ==
  /\ Idle /\ calls # <<>>
  /\ current' = Head(calls) /\ calls' = Tail(calls)
  /\ epc' = "flush"
  /\ SwapLines
  /\ UNCHANGED <<kernel, slot, m_pidMap, filter, monitor, history>>

\* Loopback lines have no handle and are shown without a newline.
Loopback(id, text) ==
  m_linebuffer' = Append(m_linebuffer, Line(NoProcess, id, text, FALSE, TRUE))

\* FlushLinesFromTerminatedProcess, once m_update has returned.
Flush ==
  /\ epc = "flush" /\ lines = <<>>
  /\ LET text == m_lineBuffers[current.id] IN
       IF text = <<>> THEN UNCHANGED m_linebuffer ELSE Loopback(current.id, text)
  /\ m_lineBuffers' = [m_lineBuffers EXCEPT ![current.id] = <<>>]
  /\ epc' = "terminate"
  /\ UNCHANGED <<kernel, slot, lines, m_pidMap, autoNewLine, calls, current,
                 monitor, history>>

AddTerminateMessage ==
  /\ epc = "terminate"
  /\ Loopback(current.id, <<End(current.process)>>)
  /\ epc' = "erase"
  /\ UNCHANGED <<kernel, slot, lines, m_pidMap, filter, calls, current,
                 monitor, history>>

\* Mutant: the entry stays.
ErasePid_Keeps ==
  /\ epc = "erase"
  /\ epc' = "idle" /\ current' = NoEntry
  /\ UNCHANGED <<kernel, slot, m_linebuffer, lines, m_pidMap, filter, calls,
                 monitor, history>>

\* The handle is closed with its entry.
ErasePid ==
  /\ epc = "erase"
  /\ m_pidMap' = [m_pidMap EXCEPT ![current.id] = NoProcess]
  /\ epc' = "idle" /\ current' = NoEntry
  /\ UNCHANGED <<kernel, slot, m_linebuffer, lines, filter, calls, monitor,
                 history>>

\* Mutant: without the event.
Abort_NoEvent ==
  /\ Idle
  /\ connected' = FALSE
  /\ m_q' = Append(m_q, NoEntry)
  /\ epc' = "join"
  /\ UNCHANGED <<kernel, slot, m_linebuffer, lines, m_pidMap, filter, calls,
                 current, m_event, m_processes, offset, mpc, ended, history>>

\* ProcessMonitor::Abort, called by the destructor of LogSources.
Abort ==
  /\ Idle
  /\ connected' = FALSE
  /\ m_q' = Append(m_q, NoEntry) /\ m_event' = TRUE
  /\ epc' = "join"
  /\ UNCHANGED <<kernel, slot, m_linebuffer, lines, m_pidMap, filter, calls,
                 current, m_processes, offset, mpc, ended, history>>

Join ==
  /\ epc = "join" /\ mpc = "exited"
  /\ epc' = "gone"
  /\ UNCHANGED <<kernel, slot, m_linebuffer, lines, m_pidMap, filter, calls,
                 current, monitor, history>>

------------------------------------------------------------------------------
(* ProcessMonitor::Run *)

RestUnchanged ==
  UNCHANGED <<kernel, slot, m_linebuffer, lines, m_pidMap, filter, epc,
              current, connected, history>>

Count == IF Len(m_processes) < Window THEN Len(m_processes) ELSE Window

\* The indices of m_processes whose handles the next wait is for, in the order
\* of the array, and the positions that are signaled.
Watched == [i \in 1 .. Count |->
              ((offset + i - 1) % Len(m_processes)) + 1]
Signaled == {i \in DOMAIN Watched :
               life[m_processes[Watched[i]].process] = "ended"}

\* The event is handles[0], the first that a wait reports.
TakeEvent ==
  /\ mpc = "wait" /\ m_event
  /\ m_event' = FALSE
  /\ mpc' = "drain"
  /\ UNCHANGED <<calls, m_q, m_processes, offset, ended>> /\ RestUnchanged

\* NoEntry is the call that sets m_end, the last that is ever added.
Drain ==
  /\ mpc = "drain"
  /\ m_q' = <<>>
  /\ IF \E i \in DOMAIN m_q : m_q[i] = NoEntry
     THEN /\ m_processes' = m_processes \o SubSeq(m_q, 1, Len(m_q) - 1)
          /\ mpc' = "exited"
     ELSE m_processes' = m_processes \o m_q /\ mpc' = "wait"
  /\ UNCHANGED <<calls, m_event, offset, ended>> /\ RestUnchanged

\* The slot of m_processEnded posts OnProcessEnded's call.
EmitEnded ==
  /\ mpc = "wait" /\ ~m_event /\ Signaled # {}
  /\ ended' = Watched[CHOOSE i \in Signaled : \A j \in Signaled : i <= j]
  /\ calls' = IF connected THEN Append(calls, m_processes[ended']) ELSE calls
  /\ mpc' = "remove"
  /\ UNCHANGED <<m_q, m_event, m_processes, offset>> /\ RestUnchanged

\* m_processes[i] = m_processes.back(); resize
RemoveEnded ==
  /\ mpc = "remove"
  /\ m_processes' = [i \in 1 .. Len(m_processes) - 1 |->
       m_processes[IF i = ended THEN Len(m_processes) ELSE i]]
  /\ ended' = 0 /\ mpc' = "wait"
  /\ UNCHANGED <<calls, m_q, m_event, offset>> /\ RestUnchanged

\* A second has passed: the next window.
\* Mutant: the window does not move.
Timeout_Stays ==
  /\ mpc = "wait" /\ ~m_event /\ Signaled = {}
  /\ Count < Len(m_processes)
  /\ UNCHANGED <<calls, m_q, m_event, m_processes, offset, mpc, ended>>
  /\ RestUnchanged

Timeout ==
  /\ mpc = "wait" /\ ~m_event /\ Signaled = {}
  /\ Count < Len(m_processes)
  /\ offset' = (offset + Count) % Len(m_processes)
  /\ UNCHANGED <<calls, m_q, m_event, m_processes, mpc, ended>>
  /\ RestUnchanged

Init ==
  /\ life = [p \in Processes |-> "unborn"] /\ pid = [p \in Processes |-> 0]
  /\ writes = 0 /\ slot = NoText
  /\ m_linebuffer = <<>> /\ lines = <<>>
  /\ m_pidMap = [id \in Pids |-> NoProcess]
  /\ m_lineBuffers = [id \in Pids |-> <<>>] /\ autoNewLine = TRUE
  /\ calls = <<>> /\ epc = "idle" /\ current = NoEntry
  /\ connected = TRUE /\ m_q = <<>> /\ m_event = FALSE /\ m_processes = <<>>
  /\ offset = 0 /\ mpc = "wait" /\ ended = 0
  /\ lastOut = [p \in Processes |-> "nothing"] /\ mixed = FALSE
  /\ late = {} /\ untracked = {}

Executor ==
  GetLine \/ Update \/ BeginEnded \/ Flush \/ AddTerminateMessage \/ ErasePid
  \/ Join
Monitor == TakeEvent \/ Drain \/ EmitEnded \/ RemoveEnded \/ Timeout

Next ==
  \/ \E p \in Processes :
       \/ \E id \in Pids : Start(p, id)
       \/ \E newline \in BOOLEAN : Write(p, newline)
       \/ Exit(p)
  \/ Notify \/ Executor \/ SetAutoNewLine \/ Abort \/ Monitor

Spec == Init /\ [][Next]_vars

\* The threads run; processes need neither write nor end.
FairSpec == Spec /\ WF_vars(Notify) /\ WF_vars(Executor) /\ WF_vars(Monitor)

------------------------------------------------------------------------------
\* The way of an entry through the monitor's queue and list and through the
\* calls of OnProcessEnded; an entry that was posted waits for its removal.
In(where, s) == {[where |-> where, at |-> i, entry |-> s[i]] : i \in DOMAIN s}
Places ==
  LET all == In("added", m_q) \cup In("posted", calls)
             \cup {x \in In("watched", m_processes) : x.at # ended}
             \cup {[where |-> "handled", at |-> 1, entry |-> current]}
  IN {x \in all : x.entry # NoEntry}

(* A handle in m_pidMap is in exactly one place on its way through
   ProcessMonitor and OnProcessEnded, and no other handle is on that way: the
   monitor never waits for a closed handle, no end is reported twice for an
   entry, and no entry stays in m_pidMap that nobody will erase. *)
TrackedOnce ==
  connected =>
    /\ \A x \in Places : m_pidMap[x.entry.id] = x.entry.process
    /\ \A x, y \in Places : x.entry.id = y.entry.id => x = y
    /\ \A id \in Pids :
         m_pidMap[id] # NoProcess => \E x \in Places : x.entry.id = id

(* Under one pid NewlineFilter never joins the text of two processes, unless
   text was read after the end of the process that wrote it. *)
TextIsNotMixed == late = {} => ~mixed

(* When nothing of an ended process is under way, what was shown last of it is
   that it has terminated, unless some of its text came without a handle; and
   NewlineFilter holds nothing of it. *)
NothingUnderWay ==
  /\ Idle /\ m_linebuffer = <<>> /\ calls = <<>>
  /\ m_q = <<>> /\ m_processes = <<>> /\ mpc = "wait"

EndIsShownLast ==
  NothingUnderWay => \A p \in Processes \ untracked :
    life[p] = "ended" /\ slot.writer # p =>
      /\ lastOut[p] # "text"
      /\ \A id \in Pids : \A i \in DOMAIN m_lineBuffers[id] :
           m_lineBuffers[id][i].of # p

(* The end of every tracked process is shown, however many handles there are
   for one wait. *)
EndIsShown ==
  \A p \in Processes :
    (\E id \in Pids : m_pidMap[id] = p) /\ life[p] = "ended"
      ~> lastOut[p] = "end" \/ ~connected

(* The destructor's join returns. *)
AbortReturns == epc = "join" ~> epc = "gone"
=============================================================================
