---------------------------- MODULE MCExecutor ----------------------------
(* ActiveExecutor with clients that make two or three calls. *)
EXTENDS Executor, TLC

ClientSymmetry == Permutations(Clients)
=============================================================================
