---------------------------- MODULE MCRunControls ---------------------------
(***************************************************************************)
(* A small instance of RunControls for TLC: the server's threads are       *)
(* alike.                                                                  *)
(***************************************************************************)
EXTENDS RunControls, TLC

Alike == Permutations(Threads)
=============================================================================
