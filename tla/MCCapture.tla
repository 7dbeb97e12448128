------------------------------ MODULE MCCapture ------------------------------
(* A local and a global reader, made again and again, and two processes: one
   writes once, the other without end. *)
EXTENDS Capture
MCMaxMessages == [w \in Writers |-> 1]
=============================================================================
