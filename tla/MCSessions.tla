----------------------------- MODULE MCSessions -----------------------------
(***************************************************************************)
(* Small instances of Sessions for TLC.                                    *)
(***************************************************************************)
EXTENDS Sessions, TLC

Interchangeable == Permutations(Browsers) \cup Permutations(Requests) \cup Permutations(Links)
=============================================================================
