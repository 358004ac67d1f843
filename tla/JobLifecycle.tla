---------------------------- MODULE JobLifecycle ----------------------------
(***************************************************************************)
(* What the pipeline promises a user about each job: it is reported once   *)
(* for every stay.  A job starts pending when it is first seen, becomes    *)
(* reported when a digest is recorded as having carried it, and becomes    *)
(* pending again only after it went away and came back, or after the user  *)
(* made the application forget every job.                                  *)
(***************************************************************************)
CONSTANT Keys

VARIABLE life

Stages == {"unknown", "pending", "reported", "gone"}

Within(stages) == {k \in Keys : life[k] \in stages}

Moved(ks, stage) == [k \in Keys |-> IF k \in ks THEN stage ELSE life[k]]

Init == life = [k \in Keys |-> "unknown"]

Discover == \E ks \in SUBSET Within({"unknown"}) : life' = Moved(ks, "pending")

Report == \E ks \in SUBSET Within({"pending"}) : life' = Moved(ks, "reported")

\* Some jobs leave and, in the same transaction, others return.
Turnover ==
  \E away \in SUBSET Within({"pending", "reported"}), back \in SUBSET Within({"gone"}) :
    life' = [k \in Keys |-> IF k \in away THEN "gone" ELSE IF k \in back THEN "pending" ELSE life[k]]

Forget == life' = [k \in Keys |-> "unknown"]

Next == Discover \/ Report \/ Turnover \/ Forget

Spec == Init /\ [][Next]_life
=============================================================================
