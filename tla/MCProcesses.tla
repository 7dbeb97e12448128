---------------------------- MODULE MCProcesses ----------------------------
(* Two processes, two pids (either may be given twice) and a wait for one
   handle at a time. *)
EXTENDS Processes
=============================================================================
