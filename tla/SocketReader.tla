----------------------------- MODULE SocketReader -----------------------------
(***************************************************************************)
(* SocketReader: datagrams are received by an overlapped receive, of which *)
(* one is under way at a time.  The listen thread of LogSources calls      *)
(* Notify when m_event is set.  m_buffer and m_from belong to the receive  *)
(* while it is under way.                                                  *)
(*                                                                         *)
(* A datagram is its sender and the words between its NULs.  One that is   *)
(* longer than m_buffer makes the receive fail: Notify throws.             *)
(***************************************************************************)
EXTENDS ReaderInput

CONSTANTS
  Senders

VARIABLES
  m_busy,      \* a receive is under way
  m_event,     \* auto-reset; set in the constructor
  received     \* m_buffer and m_from, once the receive has completed

socketVars == <<m_busy, m_event, received>>

None == <<>>
TooLong(d) == d.words = <<>>

\* bufferToString: up to the first NUL.
BufferToString(d) == Head(d.words)

SocketInit == m_busy = FALSE /\ m_event = TRUE /\ received = None

------------------------------------------------------------------------------
(* Windows and the outside *)

Send ==
  /\ written < MaxInput[kind]
  /\ written' = written + 1
  /\ \E s \in Senders, words \in {<<>>, <<written'>>, <<written', NewLine>>} :
       input' = Append(input, [from |-> s, words |-> words])
  /\ UNCHANGED <<kind, pos, added, pc, m_end, socketVars>>

\* The receive under way completes: it sets the event.
Complete ==
  /\ m_busy /\ received = None /\ Unread # <<>>
  /\ received' = <<Head(Unread)>> /\ pos' = pos + 1
  /\ m_event' = TRUE
  /\ UNCHANGED <<kind, input, written, added, pc, m_end, m_busy>>

------------------------------------------------------------------------------
(* The listen thread *)

\* The wait takes the event.
Woken ==
  /\ At("idle") /\ m_event
  /\ m_event' = FALSE
  /\ Goto("notify")
  /\ UNCHANGED <<kind, input, written, pos, added, m_end, m_busy, received>>

\* An exception from Notify ends the listen loop, for every source.
Throw == Goto("done") /\ UNCHANGED added

AddDatagram(d) ==
  added' = Append(added, [from |-> d.from, text |-> BufferToString(d)])

\* if (m_busy): CompleteReceive and Add.  When the result is not there yet,
\* WSAGetOverlappedResult fails: it is not told to wait.
CompleteReceive ==
  /\ At("notify")
  /\ IF ~m_busy THEN Goto("receive") /\ UNCHANGED <<added, m_busy, received>>
     ELSE IF received = None \/ TooLong(received[1])
     THEN Throw /\ UNCHANGED <<m_busy, received>>
     ELSE /\ AddDatagram(received[1])
          /\ m_busy' = FALSE /\ received' = None
          /\ Goto("receive")
  /\ UNCHANGED <<kind, input, written, pos, m_end, m_event>>

\* Mutant: one receive per event.
BeginReceive_Once ==
  /\ At("receive")
  /\ IF Unread = <<>>
     THEN /\ m_busy' = TRUE /\ m_event' = FALSE
          /\ Goto("idle") /\ UNCHANGED <<pos, added>>
     ELSE /\ pos' = pos + 1
          /\ IF TooLong(Head(Unread)) THEN Throw
             ELSE AddDatagram(Head(Unread)) /\ Goto("idle")
          /\ UNCHANGED <<m_busy, m_event>>
  /\ UNCHANGED <<kind, input, written, m_end, received>>

\* BeginReceive, again and again until it does not succeed at once.  A receive
\* that stays under way resets the event.
BeginReceive ==
  /\ At("receive")
  /\ IF Unread = <<>>
     THEN /\ m_busy' = TRUE /\ m_event' = FALSE
          /\ Goto("idle") /\ UNCHANGED <<pos, added>>
     ELSE /\ pos' = pos + 1
          /\ IF TooLong(Head(Unread)) THEN Throw
             ELSE AddDatagram(Head(Unread)) /\ UNCHANGED pc
          /\ UNCHANGED <<m_busy, m_event>>
  /\ UNCHANGED <<kind, input, written, m_end, received>>

Notify == Woken \/ CompleteReceive \/ BeginReceive

SocketNext == Send \/ Complete \/ Notify

------------------------------------------------------------------------------
\* The datagrams that were added are those that came, in their order, once
\* each, with their sender.
AddedInOrder ==
  /\ Len(added) \in {pos, pos - 1}
  /\ \A i \in DOMAIN added :
       /\ added[i].from = input[i].from
       /\ added[i].text = BufferToString(input[i])

(* Whether a receive was under way when a datagram came or not, it is added in
   its turn, unless one before it, or it itself, is too long for the buffer; no
   receive is left behind without its event. *)
DatagramsArrive ==
  /\ [](kind = "socket" => AddedInOrder)
  /\ Len(added) < written ~>
       (kind = "socket" => Len(added) = written \/ \E i \in DOMAIN input : TooLong(input[i]))
=============================================================================
