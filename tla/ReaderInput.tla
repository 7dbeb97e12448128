----------------------------- MODULE ReaderInput -----------------------------
(***************************************************************************)
(* What the sources that read something of the outside have in common: an  *)
(* input that somebody else writes, the place up to which it was read, the *)
(* text that is not yet a line, and the lines that were added.             *)
(*                                                                         *)
(* Characters are numbers, every one different, so that one that is lost   *)
(* or read twice shows.                                                    *)
(***************************************************************************)
EXTENDS Integers, Sequences, SequencesExt

CONSTANTS
  Kinds,       \* of readers
  MaxInput     \* for every kind, a bound on what is ever written

ASSUME InputAssumption == MaxInput \in [Kinds -> Nat]

VARIABLES
  kind,        \* which reader this is
  input,       \* what was written: a file, a pipe, datagrams, a connection
  written,     \* how much was ever written
  pos,         \* how much of it was read
  added,       \* history: the lines that were added
  pc,          \* where the reader's thread is
  m_end        \* LogSource::m_end

common == <<kind, input, written, pos, added, pc, m_end>>

NewLine == 0

At(label) == pc = label
Goto(label) == pc' = label

Unread == SubSeq(input, pos + 1, Len(input))

\* The outside writes a character or a newline.
WriteOne ==
  /\ written < MaxInput[kind]
  /\ written' = written + 1
  /\ \E c \in {NewLine, written + 1} : input' = Append(input, c)

\* A text from its lines and the unfinished rest.
Joined(lines, rest) ==
  FlattenSeq([i \in DOMAIN lines |-> Append(lines[i], NewLine)]) \o rest

InputInit ==
  /\ written = 0 /\ pos = 0 /\ input = <<>>
  /\ added = <<>> /\ m_end = FALSE
=============================================================================
