------------------------------ MODULE PipeReader ------------------------------
(***************************************************************************)
(* PipeReader: a polled source that cuts what comes through a pipe into    *)
(* lines, at a NUL, at a newline (here the same) and after 4000            *)
(* characters.  ProcessReader polls two of them, one after the other.      *)
(***************************************************************************)
EXTENDS ReaderInput

CONSTANTS
  bufSize,     \* 4096 characters in the code
  maxLine      \* 4000

\* The rest of a line that could not be cut yet leaves room to read into.
ASSUME BufferAssumption ==
  bufSize \in Nat /\ maxLine \in Nat /\ bufSize > maxLine + 1

VARIABLES
  buf,         \* the array of Poll, up to start
  m_buffer     \* what Poll leaves for the next one

pipeVars == <<buf, m_buffer>>

PipeInit == buf = <<>> /\ m_buffer = <<>>

\* The character at the cut is dropped, also when the line is too long.
CutAt(cut, c) ==
  IF c = NewLine \/ Len(cut.rest) > maxLine
  THEN [lines |-> Append(cut.lines, cut.rest), rest |-> <<>>]
  ELSE [cut EXCEPT !.rest = Append(@, c)]

\* The loop over a text that comes after what is left of a line: the lines that
\* end in it, and what is left then.
Cut(rest, text) ==
  LET cut[n \in 0 .. Len(text)] ==
        IF n = 0 THEN [lines |-> <<>>, rest |-> rest] ELSE CutAt(cut[n - 1], text[n])
  IN cut[Len(text)]

------------------------------------------------------------------------------
(* The outside *)

\* Closing the other end only stops the writing: the rest of a line is never
\* added.
WritePipe ==
  /\ WriteOne
  /\ UNCHANGED <<kind, pos, added, pc, m_end, pipeVars>>

\* The writer may go on without end: what it writes beyond MaxInput is not told
\* apart, and left out of input.
More == written > MaxInput[kind]

WriteOn ==
  /\ written = MaxInput[kind]
  /\ written' = written + 1
  /\ UNCHANGED <<kind, input, pos, added, pc, m_end, pipeVars>>

\* The listen thread.
AbortPipe ==
  /\ ~m_end
  /\ m_end' = TRUE
  /\ UNCHANGED <<kind, input, written, pos, added, pc, pipeVars>>

------------------------------------------------------------------------------
(* Poll, on the source's thread *)

\* Mutant: Poll starts with an empty array.
BeginPoll_Empty ==
  /\ At("idle")
  /\ buf' = <<>>
  /\ Goto("poll")
  /\ UNCHANGED <<kind, input, written, pos, added, m_end, m_buffer>>

BeginPoll ==
  /\ At("idle")
  /\ buf' = m_buffer
  /\ Goto("poll")
  /\ UNCHANGED <<kind, input, written, pos, added, m_end, m_buffer>>

\* PeekNamedPipe says that there is something; ReadFile takes some of it.
\* The loop goes on where it stopped, the line begins at the array's begin.
ReadPipe ==
  /\ At("poll") /\ Unread # <<>>
  /\ \E n \in 1 .. Len(Unread) :
       /\ n <= bufSize - Len(buf)
       /\ LET cut == Cut(buf, SubSeq(Unread, 1, n))
          IN  added' = added \o cut.lines /\ buf' = cut.rest
       /\ pos' = pos + n
  /\ UNCHANGED <<kind, input, written, pc, m_end, m_buffer>>

ReadOn ==
  /\ At("poll") /\ More
  /\ written' = MaxInput[kind]
  /\ UNCHANGED <<kind, input, pos, added, pc, m_end, pipeVars>>

\* Nothing more; Loop ends or sleeps.
EndPoll ==
  /\ At("poll") /\ Unread = <<>> /\ ~More
  /\ m_buffer' = buf
  /\ Goto(IF m_end THEN "done" ELSE "idle")
  /\ UNCHANGED <<kind, input, written, pos, added, m_end, buf>>

Poll == BeginPoll \/ ReadPipe \/ ReadOn \/ EndPoll

PipeNext == WritePipe \/ WriteOn \/ AbortPipe \/ Poll

------------------------------------------------------------------------------
(* Whatever the pieces in which the pipe delivers its text, the lines are those
   of the whole text cut at once, and the rest is kept from one Poll to the next. *)
PiecesDontMatter ==
  kind = "pipe" =>
    LET whole == Cut(<<>>, SubSeq(input, 1, pos))
    IN  /\ added = whole.lines
        /\ whole.rest = IF At("poll") THEN buf ELSE m_buffer
=============================================================================
