---------------------------- MODULE MCBootstrap -----------------------------
(***************************************************************************)
(* A small instance of Bootstrap for TLC.  The administrator's name and    *)
(* email are not like the others.                                          *)
(***************************************************************************)
EXTENDS Bootstrap, TLC

Interchangeable ==
  Permutations(Requests) \cup Permutations(Tokens)
    \cup Permutations(Emails \ {AdminEmail}) \cup Permutations(Names \ {AdminName})
=============================================================================
