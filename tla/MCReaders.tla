------------------------------ MODULE MCReaders ------------------------------
(* Every reader with a short input; the lines of a pipe are cut after two
   characters, three fit in its buffer. *)
EXTENDS Readers

MCMaxInput == [file |-> 4, pipe |-> 7, socket |-> 4, dbgview |-> 3]
=============================================================================
