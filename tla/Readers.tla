------------------------------- MODULE Readers -------------------------------
(***************************************************************************)
(* The readers side by side: each has its own thread and its own input,    *)
(* and they share nothing but the line buffer, so that one of them at a    *)
(* time is looked at.  What LogSources does with all of them is in module  *)
(* LogSources.                                                             *)
(***************************************************************************)
EXTENDS FileReader, PipeReader, SocketReader, DbgviewReader

vars == <<common, fileVars, pipeVars, socketVars, dbgVars>>

\* The thread of a reader begins; the listen thread waits for the socket.
Start == [file |-> "size", pipe |-> "idle", socket |-> "idle",
          dbgview |-> "connect"]

Init ==
  /\ kind \in Kinds /\ pc = Start[kind]
  /\ InputInit
  /\ IF kind = "file" THEN FileInit
     ELSE m_line = <<>> /\ filesize = 0 /\ m_fileType = "text"
          /\ constructed = "done" /\ m_linenumber = 0 /\ seen = <<>>
          /\ base = 0 /\ shrinks = 0 /\ unseen = FALSE
  /\ PipeInit /\ SocketInit /\ DbgviewInit

Next ==
  \/ kind = "file" /\ FileNext /\ UNCHANGED <<pipeVars, socketVars, dbgVars>>
  \/ kind = "pipe" /\ PipeNext /\ UNCHANGED <<fileVars, socketVars, dbgVars>>
  \/ kind = "socket" /\ SocketNext /\ UNCHANGED <<fileVars, pipeVars, dbgVars>>
  \/ kind = "dbgview" /\ DbgviewNext /\ UNCHANGED <<fileVars, pipeVars, socketVars>>

Spec == Init /\ [][Next]_vars

\* A reader's thread runs.  AnyFileReader is constructed, Windows completes a
\* receive, the listen thread takes what is signalled.  Nobody has to write,
\* send, abort or notify anything.
FairSpec ==
  /\ Spec
  /\ WF_vars(kind = "file" /\ PollThread /\ UNCHANGED <<pipeVars, socketVars, dbgVars>>)
  /\ WF_vars(kind = "pipe" /\ Poll /\ UNCHANGED <<fileVars, socketVars, dbgVars>>)
  /\ WF_vars(kind = "socket" /\ Complete /\ UNCHANGED <<fileVars, pipeVars, dbgVars>>)
  /\ WF_vars(kind = "socket" /\ Notify /\ UNCHANGED <<fileVars, pipeVars, dbgVars>>)
  /\ WF_vars(kind = "dbgview" /\ ReaderThread /\ UNCHANGED <<fileVars, pipeVars, socketVars>>)
  /\ WF_vars(kind = "dbgview" /\ HandOver /\ UNCHANGED <<fileVars, pipeVars, socketVars>>)

(* Abort closed the stream before connect opened it, and the agent neither
   answers nor hangs up. *)
AgentIsSilent == <>[](At("frequency") /\ stream = "open" /\ ~answered)

(* Whoever writes is always ahead of the thread. *)
WriterNeverPauses == []<><<GetLine \/ ReadPipe \/ ReadOn>>_<<pos, written>>

=============================================================================
