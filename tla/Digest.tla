-------------------------------- MODULE Digest ------------------------------
(***************************************************************************)
(* The digest email of one run (build_digest in app/digest.py): per company *)
(* the jobs it lists and how many more it only counts, and the sections    *)
(* the listed ones go to.  Wording, HTML and the failed sources are left   *)
(* out.                                                                    *)
(***************************************************************************)
EXTENDS Naturals, FiniteSets

CONSTANTS
  Company,        \* the company of each job
  MaxPerCompany   \* the user's preference; 0 is no cap

ASSUME DigestAssumption == MaxPerCompany \in Nat

Of(c, jobs) == {j \in jobs : Company[j] = c}

Companies(jobs) == {Company[j] : j \in jobs}

\* "... and N more": the jobs of a company above the cap.
Overflow(c, jobs) ==
  IF MaxPerCompany > 0 /\ Cardinality(Of(c, jobs)) > MaxPerCompany
  THEN Cardinality(Of(c, jobs)) - MaxPerCompany
  ELSE 0

\* jobs[:max_per_company] keeps the first of a list in no particular order.
Kept(jobs) ==
  {kept \in SUBSET jobs :
     \A c \in Companies(jobs) :
       Cardinality(Of(c, kept)) = Cardinality(Of(c, jobs)) - Overflow(c, jobs)}

(* The digests build_digest may return for these jobs.  `emailed` are the  *)
(* ones that were in a digest before; when the user has jobs resent, each  *)
(* company is split into newly and already identified ones.                *)
Digests(jobs, emailed, resend) ==
  {[about   |-> jobs,
    newly   |-> IF resend THEN kept \ emailed ELSE kept,
    already |-> IF resend THEN kept \cap emailed ELSE {},
    more    |-> [c \in Companies(jobs) |-> Overflow(c, jobs)]] : kept \in Kept(jobs)}

NoDigest == [about |-> {}, newly |-> {}, already |-> {}, more |-> << >>]
=============================================================================
