--------------------------- MODULE MCScanPipeline ---------------------------
(***************************************************************************)
(* Small instances of ScanPipeline for TLC.  Two sources a and b; the      *)
(* sites behind them list the keys given below.                            *)
(***************************************************************************)
EXTENDS ScanPipeline, TLC

CONSTANTS a, b, k1, k2

\* Every key belongs to one site: no two sources list the same job.
ApartLists    == (a :> {k1}) @@ (b :> Keys \ {k1})
\* Two sources on one board: both list k1.
SharedLists   == (a :> {k1}) @@ (b :> {k1})
\* Only b's site has a job.
OneLists      == (a :> {}) @@ (b :> {k1})
\* Only the keyword filters of a let it through.
HalfScreened  == (a :> {k1}) @@ (b :> {})
=============================================================================
