---------------------------- MODULE DbgviewReader ----------------------------
(***************************************************************************)
(* DbgviewReader: a thread that connects to an agent and reads packets of  *)
(* messages from it; a packet is the number of its messages, 0 a keep      *)
(* alive.  Abort closes the stream to end a read that is under way, and    *)
(* joins the thread.                                                       *)
(*                                                                         *)
(* It does not call PolledLogSource::Abort, so that Notify is not called   *)
(* for what was read last.  The listen thread takes m_lines when the event *)
(* is set, unless m_end was set when its round began.                      *)
(***************************************************************************)
EXTENDS ReaderInput

CONSTANTS
  Packets      \* lengths of packets

VARIABLES
  stream,      \* m_iostream: "new", "open" or "closed"
  answered,    \* the agent has sent its frequency
  left,        \* messages of the packet still to be added
  m_lines,     \* added by AddMessage and not yet handed over
  signaled,    \* m_handle
  waited,      \* the listen thread waits for m_handle
  joining      \* Abort has come as far as the join

dbgVars == <<stream, answered, left, m_lines, signaled, waited, joining>>

Garbage == -1     \* a length that makes no sense

Message == "message"
Failure == "connection closed, or an error"

DbgviewInit ==
  /\ stream = "new" /\ answered = FALSE /\ m_lines = <<>> /\ left = 0
  /\ signaled = FALSE /\ waited = TRUE /\ joining = FALSE

------------------------------------------------------------------------------
(* The agent *)

\* It need not answer.
Answer ==
  /\ stream = "open" /\ ~answered
  /\ answered' = TRUE
  /\ UNCHANGED <<common, stream, m_lines, left, signaled, waited, joining>>

SendPacket ==
  /\ stream = "open" /\ answered
  /\ written < MaxInput[kind]
  /\ written' = written + 1
  /\ \E p \in Packets \cup {Garbage} : input' = Append(input, p)
  /\ UNCHANGED <<kind, pos, added, pc, m_end, dbgVars>>

Hangup ==
  /\ stream = "open"
  /\ stream' = "closed"
  /\ UNCHANGED <<common, answered, m_lines, left, signaled, waited, joining>>

------------------------------------------------------------------------------
(* Loop, on the reader's thread *)

AddMessage(m) == m_lines' = Append(m_lines, m)
Signal == signaled' = (signaled \/ m_lines # <<>>)

\* A failure is added without m_lines.
Fail == added' = Append(added, Failure) /\ Goto("ended")

\* connect opens the stream, also when Abort has closed it before.
Connect ==
  /\ At("connect")
  /\ \/ stream' = "open" /\ Goto("frequency") /\ UNCHANGED added
     \/ UNCHANGED stream /\ Fail
  /\ UNCHANGED <<kind, input, written, pos, m_end, answered, m_lines, left,
                 signaled, waited, joining>>

\* Reading the frequency waits for the agent's answer, which may be 0, or for
\* the end of the stream.
Frequency ==
  /\ At("frequency")
  /\ \/ answered /\ Goto("connected") /\ UNCHANGED added
     \/ (answered \/ stream = "closed") /\ Fail
  /\ UNCHANGED <<kind, input, written, pos, m_end, dbgVars>>

Connected ==
  /\ At("connected")
  /\ AddMessage(Message)
  /\ Goto("signal")
  /\ UNCHANGED <<kind, input, written, pos, added, m_end, stream, answered,
                 left, signaled, waited, joining>>

\* while (!AtEnd())
Continue ==
  /\ At("loop")
  /\ Goto(IF m_end THEN "done" ELSE "read")
  /\ UNCHANGED <<kind, input, written, pos, added, m_end, dbgVars>>

\* Reading waits for a packet, a whole one, or for the end of the stream.
ReadPacket ==
  /\ At("read")
  /\ \/ /\ stream = "open" /\ Unread # <<>>
        /\ pos' = pos + 1
        /\ IF Head(Unread) = Garbage
           THEN AddMessage(Failure) /\ Goto("ended") /\ UNCHANGED left
           ELSE /\ left' = Head(Unread)
                /\ Goto(IF Head(Unread) = 0 THEN "loop" ELSE "packet")
                /\ UNCHANGED m_lines
        /\ UNCHANGED m_end
     \/ /\ stream = "closed"
        /\ AddMessage(Failure) /\ m_end' = TRUE /\ Goto("ended")
        /\ UNCHANGED <<pos, left>>
  /\ UNCHANGED <<kind, input, written, added, stream, answered, signaled,
                 waited, joining>>

\* The messages of the packet, then the signal.
ReadMessage ==
  /\ At("packet")
  /\ IF left = 0 THEN Goto("signal") /\ UNCHANGED <<left, m_lines>>
     ELSE left' = left - 1 /\ AddMessage(Message) /\ UNCHANGED pc
  /\ UNCHANGED <<kind, input, written, pos, added, m_end, stream, answered,
                 signaled, waited, joining>>

\* Mutant: an error ends the thread without a signal.
SignalAndGo_NotAtEnd ==
  /\ pc \in {"signal", "ended"}
  /\ IF At("signal") THEN Signal ELSE UNCHANGED signaled
  /\ Goto(IF At("signal") THEN "loop" ELSE "done")
  /\ UNCHANGED <<kind, input, written, pos, added, m_end, stream, answered,
                 m_lines, left, waited, joining>>

SignalAndGo ==
  /\ pc \in {"signal", "ended"}
  /\ Signal
  /\ Goto(IF At("signal") THEN "loop" ELSE "done")
  /\ UNCHANGED <<kind, input, written, pos, added, m_end, stream, answered,
                 m_lines, left, waited, joining>>

ReaderThread ==
  Connect \/ Frequency \/ Connected \/ Continue \/ ReadPacket \/ ReadMessage \/ SignalAndGo

------------------------------------------------------------------------------
(* The listen thread *)

\* ListenUntilUpdateEvent begins anew because some source came or went.
Round ==
  /\ ~joining
  /\ waited' = ~m_end
  /\ UNCHANGED <<common, stream, answered, m_lines, left, signaled, joining>>

HandOver ==
  /\ ~joining /\ waited /\ signaled
  /\ signaled' = FALSE
  /\ added' = added \o m_lines /\ m_lines' = <<>>
  /\ UNCHANGED <<kind, input, written, pos, pc, m_end, stream, answered, left,
                 waited, joining>>


\* Abort: closes the stream, which ends a read that waits, and joins.
AbortDbgview ==
  /\ ~joining
  /\ joining' = TRUE
  /\ stream' = IF stream = "open" THEN "closed" ELSE stream
  /\ m_end' = TRUE
  /\ UNCHANGED <<kind, input, written, pos, added, pc, answered, m_lines, left,
                 signaled, waited>>

DbgviewNext ==
  \/ Answer \/ SendPacket \/ Hangup
  \/ ReaderThread
  \/ Round \/ HandOver \/ AbortDbgview

------------------------------------------------------------------------------
(* What the thread has read is handed over, the message that the connection was
   closed included, unless the source is aborted, or a round of the listen
   thread began after m_end was set: then the handle is not waited for. *)
LastWordsArrive ==
  kind = "dbgview" /\ m_lines # <<>> ~>
    m_lines = <<>> \/ joining \/ (m_end /\ ~waited)
=============================================================================
