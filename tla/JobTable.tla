------------------------------ MODULE JobTable ------------------------------
(***************************************************************************)
(* One user's rows of the jobs table and the statements app/db.py runs on  *)
(* them.  A row keeps what the pipeline decides on: whether it exists and  *)
(* is active or removed (removed_at), the source that first brought it     *)
(* (source_id), whether a digest carried it (emailed_at), and whether the  *)
(* user hides it from digests (is_duplicate, or a status listed in         *)
(* digest_exclude_statuses).  Titles, URLs, notes and coordinates are left *)
(* out: nothing here reads them.                                           *)
(***************************************************************************)
EXTENDS FiniteSets

CONSTANTS
  Keys,      \* job keys (the platform's own job ids)
  Sources,   \* source ids, each minted once
  NoSource   \* source_id IS NULL

ASSUME NoSourceAssumption == NoSource \notin Sources

Row == [st      : {"absent", "active", "removed"},
        src     : Sources \cup {NoSource},
        emailed : BOOLEAN,
        hidden  : BOOLEAN]

Table == [Keys -> Row]

Absent == [st |-> "absent", src |-> NoSource, emailed |-> FALSE, hidden |-> FALSE]

Inserted(s) == [st |-> "active", src |-> s, emailed |-> FALSE, hidden |-> FALSE]

KnownKeys(tbl)  == {k \in Keys : tbl[k].st # "absent"}
ActiveKeys(tbl) == {k \in Keys : tbl[k].st = "active"}

-----------------------------------------------------------------------------
(* get_new_jobs: the found keys that have no row yet.                      *)
GetNewJobs(tbl, foundKeys) == foundKeys \ KnownKeys(tbl)

(* save_jobs: INSERT ... ON CONFLICT DO NOTHING, under the source that     *)
(* found the job.                                                          *)
SaveJobs(tbl, newKeys, srcOf) ==
  [k \in Keys |-> IF k \in newKeys \ KnownKeys(tbl) THEN Inserted(srcOf[k]) ELSE tbl[k]]

(* The rows reconcile_jobs marks removed: active, with a source, and that  *)
(* source either ran without listing the job or is configured no more.     *)
Vanished(tbl, configured, succeeded, foundKeys) ==
  {k \in ActiveKeys(tbl) :
     /\ tbl[k].src # NoSource
     /\ \/ tbl[k].src \in succeeded /\ k \notin foundKeys
        \/ tbl[k].src \notin configured}

(* The rows it then reactivates: every removed row, the ones removed a     *)
(* statement earlier included, whose key some source listed.               *)
ReappearedOrKnown(tbl, configured, succeeded, foundKeys) == foundKeys \cap KnownKeys(tbl)

Reappeared(tbl, configured, succeeded, foundKeys) ==
  {k \in foundKeys : \/ tbl[k].st = "removed"
                     \/ k \in Vanished(tbl, configured, succeeded, foundKeys)}

(* reconcile_jobs, one transaction.                                        *)
ReconcileJobs(tbl, configured, succeeded, foundKeys) ==
  [k \in Keys |->
     IF k \in Reappeared(tbl, configured, succeeded, foundKeys)
     THEN [tbl[k] EXCEPT !.st = "active", !.emailed = FALSE]
     ELSE IF k \in Vanished(tbl, configured, succeeded, foundKeys)
     THEN [tbl[k] EXCEPT !.st = "removed"]
     ELSE tbl[k]]

(* get_unemailed_jobs: active rows no digest has carried.                  *)
UnemailedJobs(tbl) == {k \in ActiveKeys(tbl) : ~tbl[k].emailed}

(* The UPDATEs that write removed_at without reactivating: the URL         *)
(* checker's and mark_job_removed's.  A key without a row is not updated.  *)
MarkRemoved(tbl, ks) ==
  [k \in Keys |-> IF k \in ks \cap KnownKeys(tbl)
                  THEN [tbl[k] EXCEPT !.st = "removed"] ELSE tbl[k]]

(* mark_emailed: sets emailed_at whatever became of the row since the      *)
(* digest was built.                                                       *)
MarkEmailed(tbl, ks) ==
  [k \in Keys |-> IF k \in ks \cap KnownKeys(tbl)
                  THEN [tbl[k] EXCEPT !.emailed = TRUE] ELSE tbl[k]]

(* set_job_duplicate, clear_job_duplicate and the status routes, as far as *)
(* the digest filters tell their outcomes apart.                           *)
SetHidden(tbl, k, h) == [tbl EXCEPT ![k].hidden = h]

(* clear_jobs: DELETE FROM jobs WHERE user_id = ...                        *)
ClearJobs == [k \in Keys |-> Absent]
=============================================================================
