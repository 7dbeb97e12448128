----------------------------- MODULE LogContract -----------------------------
(***************************************************************************)
(* What the views and the main frame rely on when they keep indices into   *)
(* the log: a sequence of messages that grows at its end, is cleared or    *)
(* cropped, and that a reader finds unchanged, in whatever order it asks.  *)
(*                                                                         *)
(* A text with a NUL is the one exception that the code makes: from it on, *)
(* texts may come back displaced.                                          *)
(***************************************************************************)
EXTENDS Integers, Sequences

CONSTANTS
  Message,   \* what can be added
  Spoilt     \* the texts with a NUL

VARIABLES
  log,     \* the messages
  answer   \* what was read last, with its index, or nothing

lvars == <<log, answer>>

Unharmed(i) == \A j \in 1 .. i : log[j].text \notin Spoilt

\* What a reader gets for message i.
Copies(m, i) == /\ m \in Message
                /\ m.process = log[i].process
                /\ Unharmed(i) => m = log[i]

LInit == log = <<>> /\ answer = <<>>

Add(m) == log' = Append(log, m) /\ answer' = <<>>

Clear == log' = <<>> /\ answer' = <<>>

Read(i) ==
  /\ i \in 1 .. Len(log)
  /\ \E m \in Message : Copies(m, i) /\ answer' = <<i, m>>
  /\ UNCHANGED log

\* Messages b to e stay.
Crop(b, e) ==
  /\ 1 <= b /\ b < e /\ e <= Len(log)
  /\ Len(log') = e - b + 1
  /\ \A k \in 1 .. e - b + 1 : Copies(log'[k], b + k - 1)
  /\ answer' = <<>>

LNext ==
  \/ \E m \in Message : Add(m)
  \/ Clear
  \/ \E i \in DOMAIN log : Read(i)
  \/ \E b, e \in DOMAIN log : Crop(b, e)

LSpec == LInit /\ [][LNext]_lvars
=============================================================================
