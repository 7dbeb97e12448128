------------------------------- MODULE LogFile -------------------------------
(***************************************************************************)
(* LogFile and SnappyStorage: the messages of the log.  The texts are kept *)
(* in compressed blocks of blockSize strings; the last, incomplete block   *)
(* is kept apart, and one block is kept decompressed for reading.  The     *)
(* names and pids of processes are kept once, under a number.              *)
(*                                                                         *)
(* Everything happens on the GUI thread.  OnLogCrop copies a range message *)
(* by message into a new log and swaps the two; meanwhile nothing else     *)
(* happens.  Indices and block numbers count from 0, as in the code.       *)
(*                                                                         *)
(* A text is the sequence of words between its NULs, so that most texts    *)
(* have one word.  Compressing ends every string with a NUL, decompressing *)
(* cuts at NULs.                                                           *)
(***************************************************************************)
EXTENDS Integers, Sequences, SequencesExt

CONSTANTS
  Processes,    \* pid and name of a process
  Texts,        \* texts of messages
  blockSize,    \* strings in a block (400 in the code)
  MaxMessages   \* bound on the length of the log

ASSUME BlockAssumption == blockSize \in Nat \ {0}
ASSUME BoundAssumption == MaxMessages \in Nat
ASSUME TextsAssumption ==
  \A t \in Texts : /\ t \in Seq(Range(t)) /\ t # <<>>
                   /\ \A w \in Range(t) : <<w>> \in Texts

VARIABLES
  m_logFile,    \* the log: m_messages, m_processInfo and m_storage
  temp,         \* OnLogCrop: the log it builds
  range,        \* OnLogCrop: indices still to be copied, or NoRange
  answer        \* history: what was read last

vars == <<m_logFile, temp, range, answer>>

Message == [process : Processes, text : Texts]
Unset == -1
NoRange == <<>>
NoAnswer == <<>>
HasNul(t) == Len(t) > 1

------------------------------------------------------------------------------
(* SnappyStorage, as part of a log *)

EmptyLog ==
  [messages |-> <<>>, processes |-> <<>>, storage |-> <<>>, writeList |-> <<>>,
   writeBlock |-> 0, readList |-> <<>>, readBlock |-> Unset]

GetBlockIndex(i) == i \div blockSize
GetRelativeIndex(i) == i % blockSize

\* Add: the string that fills the block writes it.
Stored(l, t) ==
  IF Len(l.writeList) = blockSize - 1
  THEN [l EXCEPT !.storage = Append(@, Append(l.writeList, t)),
                 !.writeList = <<>>, !.writeBlock = @ + 1]
  ELSE [l EXCEPT !.writeList = Append(@, t)]

\* Compress puts a NUL after every string, Decompress cuts at every NUL.
Decompress(block) ==
  IF \E k \in DOMAIN block : HasNul(block[k])
  THEN FlattenSeq([k \in DOMAIN block |->
                    [w \in DOMAIN block[k] |-> <<block[k][w]>>]])
  ELSE block

\* GetString: what it does to the cache ...
Cached(l, i) ==
  IF GetBlockIndex(i) \in {l.writeBlock, l.readBlock}
  THEN l
  ELSE [l EXCEPT !.readList = Decompress(l.storage[GetBlockIndex(i) + 1]),
                 !.readBlock = GetBlockIndex(i)]

\* ... and what it returns.
GetString(l, i) ==
  IF GetBlockIndex(i) = l.writeBlock
  THEN l.writeList[GetRelativeIndex(i) + 1]
  ELSE Cached(l, i).readList[GetRelativeIndex(i) + 1]

------------------------------------------------------------------------------
(* LogFile *)

Count(l) == Len(l.messages)

\* ProcessInfo::GetUid: the number that the process has, or the next one.
GetUid(l, p) ==
  IF \E u \in DOMAIN l.processes : l.processes[u] = p
  THEN CHOOSE u \in DOMAIN l.processes : l.processes[u] = p
  ELSE Len(l.processes) + 1

WithProcess(l, p) ==
  IF \E u \in DOMAIN l.processes : l.processes[u] = p
  THEN l
  ELSE [l EXCEPT !.processes = Append(@, p)]

\* Add
Logged(l, m) ==
  Stored([WithProcess(l, m.process) EXCEPT
            !.messages = Append(@, GetUid(l, m.process))], m.text)

\* operator[]
At(l, i) ==
  [process |-> l.processes[l.messages[i + 1]], text |-> GetString(l, i)]

------------------------------------------------------------------------------
Init ==
  /\ m_logFile = EmptyLog /\ temp = EmptyLog /\ range = NoRange
  /\ answer = NoAnswer

Idle == range = NoRange

\* CMainFrame::AddMessage
Add(m) ==
  /\ Idle /\ Count(m_logFile) < MaxMessages
  /\ m_logFile' = Logged(m_logFile, m)
  /\ answer' = NoAnswer
  /\ UNCHANGED <<temp, range>>

\* Mutant: the cache survives.
Clear_KeepsCache ==
  /\ Idle
  /\ m_logFile' = [EmptyLog EXCEPT !.readList = m_logFile.readList,
                                   !.readBlock = m_logFile.readBlock]
  /\ answer' = NoAnswer
  /\ UNCHANGED <<temp, range>>

Clear ==
  /\ Idle
  /\ m_logFile' = EmptyLog
  /\ answer' = NoAnswer
  /\ UNCHANGED <<temp, range>>

\* A view draws, filters, finds or saves a message.
Read(i) ==
  /\ Idle
  /\ answer' = <<i + 1, At(m_logFile, i)>>
  /\ m_logFile' = Cached(m_logFile, i)
  /\ UNCHANGED <<temp, range>>

\* OnLogCrop: two messages at least; Append copies them one by one ...
BeginCrop(b, e) ==
  /\ Idle /\ b < e
  /\ temp' = EmptyLog /\ range' = <<b, e>>
  /\ answer' = NoAnswer
  /\ UNCHANGED m_logFile

CopyMessage ==
  /\ ~Idle /\ range[1] <= range[2]
  /\ temp' = Logged(temp, At(m_logFile, range[1]))
  /\ m_logFile' = Cached(m_logFile, range[1])
  /\ range' = [range EXCEPT ![1] = @ + 1]
  /\ UNCHANGED answer

\* ... and std::swap.
Swap ==
  /\ ~Idle /\ range[1] > range[2]
  /\ m_logFile' = temp /\ temp' = EmptyLog /\ range' = NoRange
  /\ UNCHANGED answer

Indices == 0 .. Count(m_logFile) - 1

Next ==
  \/ \E m \in Message : Add(m)
  \/ Clear
  \/ \E i \in Indices : Read(i)
  \/ \E b, e \in Indices : BeginCrop(b, e)
  \/ CopyMessage \/ Swap

Spec == Init /\ [][Next]_vars

------------------------------------------------------------------------------
\* The text that was put in at an index.
TextAt(l, i) ==
  IF GetBlockIndex(i) < Len(l.storage)
  THEN l.storage[GetBlockIndex(i) + 1][GetRelativeIndex(i) + 1]
  ELSE l.writeList[GetRelativeIndex(i) + 1]

Contents(l) ==
  [i \in 1 .. Count(l) |->
     [process |-> l.processes[l.messages[i]], text |-> TextAt(l, i - 1)]]

Contract == INSTANCE LogContract WITH
  log <- Contents(m_logFile), Spoilt <- {t \in Texts : HasNul(t)}

\* What makes the refinement below provable.  Blocks are full, the block that
\* is being written is not, and the cache, if there is one, is a block of
\* this log.
StorageOK(l) ==
  /\ l.storage \in Seq([1 .. blockSize -> Texts])
  /\ l.writeList \in Seq(Texts) /\ Len(l.writeList) < blockSize
  /\ l.writeBlock = Len(l.storage)
  /\ \/ l.readBlock = Unset
     \/ /\ l.readBlock \in 0 .. l.writeBlock - 1
        /\ l.readList = Decompress(l.storage[l.readBlock + 1])

LogOK(l) ==
  /\ DOMAIN l = DOMAIN EmptyLog
  /\ StorageOK(l)
  /\ l.processes \in Seq(Processes)
  /\ l.messages \in Seq(1 .. Len(l.processes))
  /\ Count(l) = l.writeBlock * blockSize + Len(l.writeList)

\* OnLogCrop started at this index.
First == range[1] - Count(temp)

CropOK ==
  /\ range \in Int \X Int /\ answer = NoAnswer
  /\ 0 <= First /\ First < range[2] /\ range[2] < Count(m_logFile)
  /\ range[1] <= range[2] + 1
  /\ \A k \in 1 .. Count(temp) :
       Contract!Copies(Contents(temp)[k], First + k)

LInv == LogOK(m_logFile) /\ LogOK(temp) /\ (~Idle => CropOK)

(* Whatever is added, cleared, cropped and read, in whatever order, the log
   behaves like a sequence of messages: SnappyStorage's blocks and its cache of
   one block, and LogFile's table of processes, cannot be told from it. *)
KeepsLog == Contract!LSpec
=============================================================================
