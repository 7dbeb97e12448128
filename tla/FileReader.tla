------------------------------ MODULE FileReader ------------------------------
(***************************************************************************)
(* FileReader and AnyFileReader: a thread that reads a file to its end and *)
(* looks again when Windows says that a size in the directory has changed, *)
(* or every half second when the size of the file has.                     *)
(*                                                                         *)
(* The thread starts in the constructor of FileReader.  AnyFileReader      *)
(* overrides AddLine, but until its own constructor has begun the base     *)
(* class's is called, and until it is done m_linenumber holds anything.    *)
(*                                                                         *)
(* The read-ahead of the stream is left out.  A line that cannot be parsed *)
(* is added as a message about it; lines are not told apart by that.       *)
(***************************************************************************)
EXTENDS ReaderInput

CONSTANTS
  MaxShrinks   \* how often the file is truncated

ASSUME ShrinkAssumption == MaxShrinks \in Nat

VARIABLES
  m_line,        \* a line that has no newline yet
  filesize,      \* what PollThread remembers of the size
  m_fileType,    \* "text", or "log" for a file that DebugView++ has saved
  constructed,   \* "FileReader", "AnyFileReader" (begun) or "done"
  m_linenumber,
  (* history *)
  seen,          \* the lines that ReadUntilEof has found
  base,          \* since it was here
  shrinks,       \* how often the file was truncated
  unseen         \* it is shorter than pos, or was, and the reader does not know

fileVars == <<m_line, filesize, m_fileType, constructed, m_linenumber, seen,
              base, shrinks, unseen>>

AnyNumber == 7     \* of an uninitialised m_linenumber, one that is not 0

FileInit ==
  /\ m_line = <<>> /\ filesize = 0 /\ m_fileType \in {"text", "log"}
  /\ constructed = "FileReader" /\ m_linenumber \in {0, AnyNumber}
  /\ seen = <<>> /\ base = 0 /\ shrinks = 0 /\ unseen = FALSE

------------------------------------------------------------------------------
(* The outside *)

WriteFile ==
  /\ WriteOne
  /\ UNCHANGED <<kind, pos, added, pc, m_end, fileVars>>

Truncate ==
  /\ shrinks < MaxShrinks
  /\ shrinks' = shrinks + 1
  /\ \E n \in 0 .. Len(input) - 1 :
       input' = SubSeq(input, 1, n) /\ unseen' = (unseen \/ n < pos)
  /\ UNCHANGED <<kind, written, pos, added, pc, m_end, m_line, filesize,
                 m_fileType, constructed, m_linenumber, seen, base>>

(* The executor's thread and the listen thread *)

\* The rest of AddAnyFileReader: the constructor of AnyFileReader.
Construct ==
  /\ \/ constructed = "FileReader" /\ constructed' = "AnyFileReader"
        /\ UNCHANGED m_linenumber
     \/ constructed = "AnyFileReader" /\ constructed' = "done"
        /\ m_linenumber' = 0
  /\ UNCHANGED <<common, m_line, filesize, m_fileType, seen, base, shrinks, unseen>>

\* Abort waits until At("done").
AbortFile ==
  /\ constructed = "done" /\ ~m_end
  /\ m_end' = TRUE
  /\ UNCHANGED <<kind, input, written, pos, added, pc, fileVars>>

------------------------------------------------------------------------------
(* PollThread *)

\* SafeAddLine: only AnyFileReader's AddLine knows of the header.
AddLine(line) ==
  IF constructed = "FileReader"
  THEN added' = Append(added, line) /\ UNCHANGED m_linenumber
  ELSE /\ m_linenumber' = m_linenumber + 1
       /\ added' = IF m_fileType = "log" /\ m_linenumber' = 1
                   THEN added ELSE Append(added, line)

FirstSize ==
  /\ At("size")
  /\ filesize' = Len(input)
  /\ Goto("read")
  /\ UNCHANGED <<kind, input, written, pos, added, m_end, m_line, m_fileType,
                 constructed, m_linenumber, seen, base, shrinks, unseen>>

\* std::getline finds a newline ...
GetLine ==
  /\ At("read") /\ Contains(Unread, NewLine)
  /\ \E k \in DOMAIN Unread :
       /\ Unread[k] = NewLine /\ \A j \in 1 .. k - 1 : Unread[j] # NewLine
       /\ LET line == m_line \o SubSeq(Unread, 1, k - 1)
          IN  AddLine(line) /\ seen' = Append(seen, line)
       /\ pos' = pos + k
  /\ m_line' = <<>>
  /\ UNCHANGED <<kind, input, written, pc, m_end, filesize, m_fileType,
                 constructed, base, shrinks, unseen>>

\* Mutant: the end of the file ends the line.
GetRest_EndsLine ==
  /\ At("read") /\ ~Contains(Unread, NewLine)
  /\ m_line' = <<>>
  /\ seen' = IF m_line \o Unread = <<>> THEN seen ELSE Append(seen, m_line \o Unread)
  /\ pos' = pos + Len(Unread)
  /\ Goto("eof")
  /\ UNCHANGED <<kind, input, written, added, m_end, filesize, m_fileType,
                 constructed, m_linenumber, base, shrinks, unseen>>

\* ... or the end of the file.
GetRest ==
  /\ At("read") /\ ~Contains(Unread, NewLine)
  /\ m_line' = m_line \o Unread
  /\ pos' = pos + Len(Unread)
  /\ Goto("eof")
  /\ UNCHANGED <<kind, input, written, added, m_end, filesize, m_fileType,
                 constructed, m_linenumber, seen, base, shrinks, unseen>>

\* Any other error: "Stopped tailing".
ReadError ==
  /\ At("read")
  /\ m_end' = TRUE
  /\ Goto("done")
  /\ UNCHANGED <<kind, input, written, pos, added, fileVars>>

\* while (!AtEnd())
Again == Goto(IF m_end THEN "done" ELSE "wait")

\* Mutant: the size is remembered when the file has been read.
Resync_TakesSize ==
  /\ At("eof")
  /\ IF Len(input) >= pos
     THEN UNCHANGED <<pos, added, m_line, seen, base, unseen>>
     ELSE /\ pos' = Len(input)
          /\ m_line' = <<>> /\ added' = <<>> /\ seen' = <<>>
          /\ base' = Len(input) /\ unseen' = FALSE
  /\ filesize' = Len(input)
  /\ Again
  /\ UNCHANGED <<kind, input, written, m_end, m_fileType, constructed,
                 m_linenumber, shrinks>>

\* The end of the file may have moved since it was met.
Resync ==
  /\ At("eof")
  /\ IF Len(input) >= pos
     THEN UNCHANGED <<pos, added, m_line, seen, base, unseen>>
     ELSE /\ pos' = Len(input)
          /\ m_line' = <<>> /\ added' = <<>> /\ seen' = <<>>
          /\ base' = Len(input) /\ unseen' = FALSE
  /\ Again
  /\ UNCHANGED <<kind, input, written, m_end, filesize, m_fileType,
                 constructed, m_linenumber, shrinks>>

\* A size in the directory has changed, perhaps of another file.
Notified ==
  /\ At("wait")
  /\ Goto("read")
  /\ UNCHANGED <<kind, input, written, pos, added, m_end, fileVars>>

TimedOut ==
  /\ At("wait")
  /\ filesize' = Len(input)
  /\ IF filesize # Len(input) THEN Goto("read") ELSE Again
  /\ UNCHANGED <<kind, input, written, pos, added, m_end, m_line, m_fileType,
                 constructed, m_linenumber, seen, base, shrinks, unseen>>

PollThread == FirstSize \/ GetLine \/ GetRest \/ Resync \/ TimedOut

FileNext ==
  \/ WriteFile \/ Truncate
  \/ Construct \/ AbortFile
  \/ PollThread \/ ReadError \/ Notified

------------------------------------------------------------------------------
\* The whole lines that were found, and what is left of the last one.
SeenIsWritten ==
  ~unseen => Joined(seen, m_line) = SubSeq(input, base + 1, pos)

\* All are added but the header of a file of DebugView++: it need not be the
\* first, and with an unlucky m_linenumber it is two, because the thread starts
\* before AnyFileReader is constructed.
SeenIsAdded ==
  added # seen =>
    /\ m_fileType = "log"
    /\ \E i \in DOMAIN seen :
         \/ added = RemoveAt(seen, i)
         \/ \E j \in 1 .. Len(seen) - 1 : added = RemoveAt(RemoveAt(seen, i), j)

(* A file that has not shrunk behind the reader's back is read as it is written:
   from the start or the last resynchronisation on, character by character,
   whatever is appended while the end of the file is being handled; and every
   line that is found is added once, in order, but for the header. *)
ReadsWhatIsWritten == kind = "file" => SeenIsWritten /\ SeenIsAdded

(* What is appended is read, whatever is appended after it, though the
   notifications of Windows cannot be relied on: until a read error, an abort, or
   a truncation.  After one, a notification may have left filesize at what the
   size is again later. *)
FileIsFollowed ==
  \A n \in 1 .. MaxInput["file"] :
    kind = "file" /\ Len(input) >= n ~> pos >= n \/ m_end \/ shrinks > 0
=============================================================================
