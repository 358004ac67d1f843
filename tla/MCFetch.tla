------------------------------ MODULE MCFetch -------------------------------
(***************************************************************************)
(* Small boards for TLC, on pages of two: none, one, two or as many pages  *)
(* as are read, which a posting makes one too many, and one whose middle   *)
(* page has only unreadable cards.                                         *)
(***************************************************************************)
EXTENDS Fetch

CONSTANTS k1, k2, k3, k4, k5, k6, k7

SmallBoards ==
  {<<>>, <<k1>>, <<k1, k2>>, <<k1, k2, k4>>, <<k1, k4, k2, k3, k5>>, <<k1, k2, k4, k3, k5, k6>>}
=============================================================================
