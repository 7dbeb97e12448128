------------------------------- MODULE Capture -------------------------------
(***************************************************************************)
(* How DebugView++ captures the messages of other processes: the buffer    *)
(* DBWIN_BUFFER with its two events, the DBWinReader that owns it, the     *)
(* processes that write to it, and the commands of CMainFrame that make    *)
(* and remove readers while LogSources removes them later, on its listen   *)
(* thread.                                                                 *)
(*                                                                         *)
(* The name of a buffer stands for three objects of Windows, which exist   *)
(* while somebody has them open: the last to close them ends them.  The    *)
(* global buffer has no writers here; it is of interest as a second reader *)
(* that is made and removed.                                               *)
(*                                                                         *)
(* LogSources is reduced to its lists.  A pointer that is pushed against   *)
(* the swap may be lost, as in module LogSources; what happens to one that *)
(* is scheduled twice is there only: here an address that is still         *)
(* scheduled is not used for a new reader.                                 *)
(***************************************************************************)
EXTENDS Integers, Sequences

CONSTANTS
  LocalReaders, GlobalReaders,  \* addresses of DBWinReaders
  Writers,                      \* processes
  MaxMessages,                  \* bounds the messages of each process
  Chatter                       \* processes that write on, without end

NoReader == "nullptr"
Readers == LocalReaders \cup GlobalReaders

ASSUME ReadersAssumption ==
  /\ NoReader \notin Readers /\ LocalReaders \cap GlobalReaders = {}
  /\ Readers \cap Writers = {}
ASSUME MessagesAssumption ==
  Chatter \subseteq Writers /\ MaxMessages \in [Writers -> Nat]

VARIABLES
  (* the local buffer *)
  open,             \* the readers and writers that have it open
  m_dbWinBuffer,    \* the message in it
  m_dbWinBufferReady, m_dbWinDataReady,
  other,            \* another viewer owns it
  (* the writers *)
  wpc, count,
  (* CMainFrame, on the GUI thread *)
  gpc, m_pLocalReader, m_pGlobalReader, m_tryGlobal,
  (* LogSources *)
  alive, m_sources, m_sourcesScheduleToAdd, m_sourcesScheduledToRemove,
  m_updateEvent,
  (* the listen thread *)
  lpc, sourcesToAdd, sourcesToRemove, waited,
  (* history, since the last local reader was made *)
  sent,             \* the messages whose writer has set DBWIN_DATA_READY
  got,              \* the messages that were read; of those told apart
  early,            \* a writer began between CreateEvent and SetEvent
  kept              \* local readers that Pause removed in vain

buffer == <<open, m_dbWinBuffer, m_dbWinBufferReady, m_dbWinDataReady, other>>
writers == <<wpc, count>>
frame == <<gpc, m_pLocalReader, m_pGlobalReader, m_tryGlobal>>
sources == <<alive, m_sources, m_sourcesScheduleToAdd,
             m_sourcesScheduledToRemove, m_updateEvent>>
listen == <<lpc, sourcesToAdd, sourcesToRemove, waited>>
history == <<sent, got, early, kept>>
vars == <<buffer, writers, frame, sources, listen, history>>

NoMessage == <<>>

\* What Chatter writes beyond MaxMessages is not told apart.
Untold == {<<w, MaxMessages[w] + 1>> : w \in Chatter}

\* CloseHandle: without a handle left the events are gone.
Close(S) ==
  /\ open' = open \ S
  /\ IF open' = {}
     THEN m_dbWinBufferReady' = FALSE /\ m_dbWinDataReady' = FALSE
     ELSE UNCHANGED <<m_dbWinBufferReady, m_dbWinDataReady>>

------------------------------------------------------------------------------
(* DBWinWriter; OutputDebugString does the same *)

\* OpenFileMapping and OpenEvent; without a reader the message goes nowhere.
OpenBuffer(w) ==
  /\ wpc[w] = "idle"
  /\ \/ count[w] < MaxMessages[w] /\ count' = [count EXCEPT ![w] = @ + 1]
     \/ /\ w \in Chatter /\ count[w] >= MaxMessages[w]
        /\ count' = [count EXCEPT ![w] = MaxMessages[w] + 1]
  /\ IF open \cap Readers # {}
     THEN open' = open \cup {w} /\ wpc' = [wpc EXCEPT ![w] = "wait"]
     ELSE UNCHANGED <<open, wpc>>
  /\ UNCHANGED <<m_dbWinBuffer, m_dbWinBufferReady, m_dbWinDataReady, other,
                 frame, sources, listen, history>>

WaitReady(w) ==
  /\ wpc[w] = "wait" /\ m_dbWinBufferReady
  /\ m_dbWinBufferReady' = FALSE
  /\ wpc' = [wpc EXCEPT ![w] = "write"]
  /\ early' = (early \/ gpc = "events")
  /\ UNCHANGED <<open, m_dbWinBuffer, m_dbWinDataReady, other, count, frame,
                 sources, listen, sent, got, kept>>

WriteMessage(w) ==
  /\ wpc[w] = "write"
  /\ m_dbWinBuffer' = <<w, count[w]>>
  /\ wpc' = [wpc EXCEPT ![w] = "data"]
  /\ UNCHANGED <<open, m_dbWinBufferReady, m_dbWinDataReady, other, count,
                 frame, sources, listen, history>>

SetDataReady(w) ==
  /\ wpc[w] = "data"
  /\ m_dbWinDataReady' = TRUE
  /\ sent' = IF open \cap LocalReaders # {} /\ <<w, count[w]>> \notin Untold
             THEN Append(sent, <<w, count[w]>>) ELSE sent
  /\ wpc' = [wpc EXCEPT ![w] = "close"]
  /\ UNCHANGED <<open, m_dbWinBuffer, m_dbWinBufferReady, other, count, frame,
                 sources, listen, got, early, kept>>

\* Done, or ten seconds without DBWIN_BUFFER_READY, or the process dies: with
\* the buffer taken and nothing said, nobody is given it any more.
CloseBuffer(w) ==
  /\ wpc[w] # "idle"
  /\ Close({w})
  /\ wpc' = [wpc EXCEPT ![w] = "idle"]
  /\ UNCHANGED <<m_dbWinBuffer, other, count, frame, sources, listen, history>>

(* Another viewer *)

OtherStarts ==
  /\ open = {} /\ ~other
  /\ other' = TRUE
  /\ UNCHANGED <<open, m_dbWinBuffer, m_dbWinBufferReady, m_dbWinDataReady,
                 writers, frame, sources, listen, history>>

OtherEnds ==
  /\ other
  /\ other' = FALSE
  /\ UNCHANGED <<open, m_dbWinBuffer, m_dbWinBufferReady, m_dbWinDataReady,
                 writers, frame, sources, listen, history>>

------------------------------------------------------------------------------
(* CMainFrame *)

Paused == m_pLocalReader = NoReader

Unused == Readers \ (alive \cup m_sourcesScheduledToRemove \cup sourcesToRemove)

\* LogSources::Add and Remove.
ScheduleToAdd(r) ==
  /\ m_sourcesScheduleToAdd' = m_sourcesScheduleToAdd \cup {r}
  /\ m_updateEvent' = TRUE

ScheduleToRemove(S) ==
  /\ m_sourcesScheduledToRemove' = m_sourcesScheduledToRemove \cup S
  /\ m_updateEvent' = TRUE

\* push_back takes no lock: against the swap, pointers may be lost.
MayLose(lost, S) == lost \subseteq S /\ (lost # {} => lpc = "swap")

\* A reader that waits to be added is removed in vain: UpdateSources removes
\* before it adds.
Keeps(lost) ==
  kept' = kept \cup ({m_pLocalReader} \cap (m_sourcesScheduleToAdd \cup lost))

\* Mutant: the listen thread is not woken.
Pause_Silent ==
  /\ gpc = "idle" /\ ~Paused
  /\ m_sourcesScheduledToRemove' = m_sourcesScheduledToRemove
       \cup ({m_pLocalReader, m_pGlobalReader} \ {NoReader})
  /\ m_pLocalReader' = NoReader /\ m_pGlobalReader' = NoReader
  /\ Keeps({})
  /\ UNCHANGED <<buffer, writers, gpc, m_tryGlobal, alive, m_sources,
                 m_sourcesScheduleToAdd, m_updateEvent, listen, sent, got, early>>

Pause ==
  /\ gpc = "idle" /\ ~Paused
  /\ \E lost \in SUBSET Readers :
       /\ MayLose(lost, {m_pLocalReader, m_pGlobalReader})
       /\ ScheduleToRemove({m_pLocalReader, m_pGlobalReader} \ ({NoReader} \cup lost))
       /\ Keeps(lost)
  /\ m_pLocalReader' = NoReader /\ m_pGlobalReader' = NoReader
  /\ UNCHANGED <<buffer, writers, gpc, m_tryGlobal, alive, m_sources,
                 m_sourcesScheduleToAdd, listen, sent, got, early>>

\* Resume, the local reader: CreateFileMapping must not find the buffer there.
\* The message box that says so is left out.  CreateEvent sets the first event.
CreateLocal(r) ==
  /\ gpc = "idle" /\ Paused
  /\ r \in LocalReaders \cap Unused
  /\ open = {} /\ ~other
  /\ open' = {r} /\ alive' = alive \cup {r}
  /\ m_dbWinBufferReady' = TRUE /\ m_dbWinDataReady' = FALSE
  /\ m_dbWinBuffer' = NoMessage
  /\ m_pLocalReader' = r
  /\ gpc' = "events"
  /\ sent' = <<>> /\ got' = <<>> /\ early' = FALSE /\ kept' = kept \ {r}
  /\ UNCHANGED <<other, writers, m_pGlobalReader, m_tryGlobal, m_sources,
                 m_sourcesScheduleToAdd, m_sourcesScheduledToRemove,
                 m_updateEvent, listen>>

\* The rest of the constructor sets it once more.
SetBufferReady ==
  /\ gpc = "events"
  /\ m_dbWinBufferReady' = TRUE
  /\ gpc' = "add"
  /\ UNCHANGED <<open, m_dbWinBuffer, m_dbWinDataReady, other, writers,
                 m_pLocalReader, m_pGlobalReader, m_tryGlobal, sources, listen,
                 history>>

AddLocal ==
  /\ gpc = "add"
  /\ ScheduleToAdd(m_pLocalReader)
  /\ gpc' = "global"
  /\ UNCHANGED <<buffer, writers, m_pLocalReader, m_pGlobalReader, m_tryGlobal,
                 alive, m_sources, m_sourcesScheduledToRemove, listen, history>>

\* Resume, the global reader: it fails while an earlier one is alive, or for
\* want of rights, and is not tried again then.
CreateGlobal ==
  /\ gpc = "global"
  /\ gpc' = "idle"
  /\ IF ~m_tryGlobal \/ m_pGlobalReader # NoReader
     THEN UNCHANGED <<m_pGlobalReader, m_tryGlobal, sources>>
     ELSE \/ /\ GlobalReaders \cap alive = {}
             /\ \E r \in GlobalReaders \cap Unused :
                  /\ m_pGlobalReader' = r /\ alive' = alive \cup {r}
                  /\ ScheduleToAdd(r)
             /\ UNCHANGED <<m_tryGlobal, m_sources, m_sourcesScheduledToRemove>>
          \/ m_tryGlobal' = FALSE /\ UNCHANGED <<m_pGlobalReader, sources>>
  /\ UNCHANGED <<buffer, writers, m_pLocalReader, listen, history>>

\* OnLogGlobal; the command is disabled while the program is paused.
OnLogGlobal ==
  /\ gpc = "idle" /\ ~Paused
  /\ m_tryGlobal' = (m_pGlobalReader = NoReader)
  /\ IF m_tryGlobal'
     THEN gpc' = "global" /\ UNCHANGED <<m_pGlobalReader, m_sourcesScheduledToRemove, m_updateEvent>>
     ELSE /\ \E lost \in SUBSET Readers :
               /\ MayLose(lost, {m_pGlobalReader})
               /\ ScheduleToRemove({m_pGlobalReader} \ lost)
          /\ m_pGlobalReader' = NoReader /\ UNCHANGED gpc
  /\ UNCHANGED <<buffer, writers, m_pLocalReader, alive, m_sources,
                 m_sourcesScheduleToAdd, listen, history>>

\* Mutant: the predicate forgets the global reader.
UpdateLogSources_Local ==
  /\ gpc = "idle"
  /\ ScheduleToRemove(m_sources \ {m_pLocalReader})
  /\ UNCHANGED <<buffer, writers, frame, alive, m_sources,
                 m_sourcesScheduleToAdd, listen, history>>

\* UpdateLogSources: everything but the two readers goes, what the dialog lists
\* comes.
UpdateLogSources ==
  /\ gpc = "idle"
  /\ ScheduleToRemove(m_sources \ {m_pLocalReader, m_pGlobalReader})
  /\ UNCHANGED <<buffer, writers, frame, alive, m_sources,
                 m_sourcesScheduleToAdd, listen, history>>

MainFrame ==
  \/ Pause \/ (\E r \in LocalReaders : CreateLocal(r)) \/ SetBufferReady
  \/ AddLocal \/ CreateGlobal \/ OnLogGlobal \/ UpdateLogSources

------------------------------------------------------------------------------
(* The listen thread *)

\* The update event is the last of the handles.
TakeUpdate ==
  /\ lpc = "wait" /\ m_updateEvent
  /\ ~(m_dbWinDataReady /\ waited \cap LocalReaders # {})
  /\ m_updateEvent' = FALSE
  /\ lpc' = "swap"
  /\ UNCHANGED <<buffer, writers, frame, alive, m_sources,
                 m_sourcesScheduleToAdd, m_sourcesScheduledToRemove,
                 sourcesToAdd, sourcesToRemove, waited, history>>

Swap ==
  /\ lpc = "swap"
  /\ sourcesToAdd' = m_sourcesScheduleToAdd
  /\ sourcesToRemove' = m_sourcesScheduledToRemove
  /\ m_sourcesScheduleToAdd' = {} /\ m_sourcesScheduledToRemove' = {}
  /\ lpc' = "update"
  /\ UNCHANGED <<buffer, writers, frame, alive, m_sources, m_updateEvent,
                 waited, history>>

\* Mutant: the handles are collected before the new sources are there.
UpdateSources_OldHandles ==
  /\ lpc = "update"
  /\ alive' = alive \ (m_sources \cap sourcesToRemove)
  /\ m_sources' = (m_sources \ sourcesToRemove) \cup sourcesToAdd
  /\ waited' = m_sources \ sourcesToRemove
  /\ Close(m_sources \cap sourcesToRemove)
  /\ sourcesToAdd' = {} /\ sourcesToRemove' = {}
  /\ lpc' = "wait"
  /\ UNCHANGED <<m_dbWinBuffer, other, writers, frame, m_sourcesScheduleToAdd,
                 m_sourcesScheduledToRemove, m_updateEvent, history>>

\* UpdateSources: destroys what is to go, which closes the buffer, then adds.
UpdateSources ==
  /\ lpc = "update"
  /\ alive' = alive \ (m_sources \cap sourcesToRemove)
  /\ m_sources' = (m_sources \ sourcesToRemove) \cup sourcesToAdd
  /\ waited' = m_sources'
  /\ Close(m_sources \cap sourcesToRemove)
  /\ sourcesToAdd' = {} /\ sourcesToRemove' = {}
  /\ lpc' = "wait"
  /\ UNCHANGED <<m_dbWinBuffer, other, writers, frame, m_sourcesScheduleToAdd,
                 m_sourcesScheduledToRemove, m_updateEvent, history>>

WaitData ==
  /\ lpc = "wait" /\ m_dbWinDataReady /\ waited \cap LocalReaders # {}
  /\ m_dbWinDataReady' = FALSE
  /\ lpc' = "notify"
  /\ UNCHANGED <<open, m_dbWinBuffer, m_dbWinBufferReady, other, writers,
                 frame, sources, sourcesToAdd, sourcesToRemove, waited, history>>

Read == IF m_dbWinBuffer \in Untold THEN got ELSE Append(got, m_dbWinBuffer)

\* Mutant: the buffer is given back before it is read.
Notify_Eager ==
  \/ /\ lpc = "notify"
     /\ m_dbWinBufferReady' = TRUE
     /\ lpc' = "ready"
     /\ UNCHANGED <<open, m_dbWinBuffer, m_dbWinDataReady, other, writers,
                    frame, sources, sourcesToAdd, sourcesToRemove, waited, history>>
  \/ /\ lpc = "ready"
     /\ got' = Read
     /\ lpc' = "wait"
     /\ UNCHANGED <<buffer, writers, frame, sources, sourcesToAdd,
                    sourcesToRemove, waited, sent, early, kept>>

\* Notify reads the buffer, adds the line and gives the buffer back.
Notify ==
  \/ /\ lpc = "notify"
     /\ got' = Read
     /\ lpc' = "ready"
     /\ UNCHANGED <<buffer, writers, frame, sources, sourcesToAdd,
                    sourcesToRemove, waited, sent, early, kept>>
  \/ /\ lpc = "ready"
     /\ m_dbWinBufferReady' = TRUE
     /\ lpc' = "wait"
     /\ UNCHANGED <<open, m_dbWinBuffer, m_dbWinDataReady, other, writers,
                    frame, sources, sourcesToAdd, sourcesToRemove, waited, history>>

ListenThread == TakeUpdate \/ Swap \/ UpdateSources \/ WaitData \/ Notify

------------------------------------------------------------------------------
Init ==
  /\ open = {} /\ m_dbWinBuffer = NoMessage
  /\ m_dbWinBufferReady = FALSE /\ m_dbWinDataReady = FALSE /\ other = FALSE
  /\ wpc = [w \in Writers |-> "idle"] /\ count = [w \in Writers |-> 0]
  /\ gpc = "idle" /\ m_pLocalReader = NoReader /\ m_pGlobalReader = NoReader
  /\ m_tryGlobal \in BOOLEAN
  /\ alive = {} /\ m_sources = {} /\ m_sourcesScheduleToAdd = {}
  /\ m_sourcesScheduledToRemove = {} /\ m_updateEvent = FALSE
  /\ lpc = "wait" /\ sourcesToAdd = {} /\ sourcesToRemove = {} /\ waited = {}
  /\ sent = <<>> /\ got = <<>> /\ early = FALSE /\ kept = {}

Next ==
  \/ \E w \in Writers :
       OpenBuffer(w) \/ WaitReady(w) \/ WriteMessage(w) \/ SetDataReady(w)
       \/ CloseBuffer(w)
  \/ OtherStarts \/ OtherEnds
  \/ MainFrame \/ ListenThread

Spec == Init /\ [][Next]_vars

\* The listen thread runs, and a command that the GUI thread has begun is
\* carried out.  Nobody has to write, and the user need not do anything.
FairSpec ==
  /\ Spec
  /\ WF_vars(ListenThread)
  /\ WF_vars(SetBufferReady \/ AddLocal \/ CreateGlobal)

------------------------------------------------------------------------------
(* While a reader is there, every message is read once, in the order in which
   the writers said that there is one, whoever writes, waits, gives up or dies:
   unless a writer began while the reader was being constructed, because the
   constructor gives the buffer away twice. *)
OnceInOrder ==
  ~early => got = sent \/ (sent # <<>> /\ got = SubSeq(sent, 1, Len(sent) - 1))

(* The readers that the main frame believes in, and shows in its title, are
   alive and listed, and nobody has asked to remove them. *)
CapturesWhatItSays ==
  \A r \in {m_pLocalReader, m_pGlobalReader} \ {NoReader} :
    /\ r \in alive
    /\ r \in m_sources \cup m_sourcesScheduleToAdd \cup sourcesToAdd
         \/ gpc \in {"events", "add"}
    /\ r \notin m_sourcesScheduledToRemove \cup sourcesToRemove

(* A message that was announced is read, unless its reader goes. *)
MessagesAreRead ==
  ~early /\ got # sent ~> got = sent \/ Paused

(* Pause gives the buffer back to the system, so that another viewer, or Resume,
   can have it, even though the reader is destroyed later by another thread.
   Two exceptions: the reader was removed in vain, because it was still waiting
   to be added or because Remove, which takes no lock, lost its pointer, and
   captures on; or processes write so fast that the listen thread always finds a
   message, whose event comes before the update event. *)
PauseReleases ==
  \/ Paused ~> open \cap LocalReaders \subseteq kept \/ ~Paused
  \/ []<><<WaitData>>_lpc
=============================================================================
