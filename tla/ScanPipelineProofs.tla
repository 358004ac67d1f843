------------------------- MODULE ScanPipelineProofs -------------------------
(***************************************************************************)
(* Theorems about ScanPipeline for every set of keys, sources and          *)
(* invocations and every bound: its types and the lock; what is reported   *)
(* once, and what is mailed once; which removals by reconcile_jobs are     *)
(* justified; that the pipeline implements JobLifecycle, and when a job    *)
(* that was mailed stays so; that repeating a run is harmless; and that    *)
(* every holder of the lock comes nearer to giving it back.                *)
(***************************************************************************)
EXTENDS ScanPipeline, TLAPS

USE DEF table, threads, budget, history, vars

-----------------------------------------------------------------------------
(* Every statement on the jobs table leaves a table.                       *)
LEMMA TableTyping ==
  ASSUME NEW tbl \in Table
  PROVE  /\ KnownKeys(tbl) \subseteq Keys
         /\ ActiveKeys(tbl) \subseteq Keys
         /\ \A ks : MarkRemoved(tbl, ks) \in Table /\ MarkEmailed(tbl, ks) \in Table
         /\ \A k \in Keys, h \in BOOLEAN : SetHidden(tbl, k, h) \in Table
         /\ ClearJobs \in Table
  BY DEF Table, Row, KnownKeys, ActiveKeys, MarkRemoved, MarkEmailed, SetHidden, ClearJobs, Absent

LEMMA SaveTyping ==
  ASSUME NEW tbl \in Table, NEW newKeys \in SUBSET Keys,
         NEW srcOf \in [Keys -> Sources \cup {NoSource}]
  PROVE  SaveJobs(tbl, newKeys, srcOf) \in Table
  BY DEF Table, Row, SaveJobs, KnownKeys, Inserted

LEMMA ReconcileTyping ==
  ASSUME NEW tbl \in Table, NEW conf, NEW succ, NEW ks
  PROVE  ReconcileJobs(tbl, conf, succ, ks) \in Table
  BY DEF Table, Row, ReconcileJobs

(* The variables keep their types: every step, the user's edits and the    *)
(* crashes included, leaves a state the database and the threads can be in.*)
THEOREM TypeCorrect == Spec => []TypeOK
<1>1. Init => TypeOK
  <2> SUFFICES ASSUME Init
               PROVE  TypeOK
    OBVIOUS
  <2>1. jobs \in Table /\ sources \in [Sources -> SourceStates]
    BY DEF Init, Table, Row, Absent, SourceStates
  <2>2. pc \in [Procs -> PCs] /\ runs \in [Procs -> {"none", "open", "finished"}]
    BY DEF Init, PCs
  <2>3. found \in [Scans -> [Keys -> Sources \cup {NoSource}]]
    BY DEF Init, NothingFound
  <2>4. mailed \in [Keys -> 0..MailCap] /\ edits \in 0..MaxEdits /\ faults \in 0..MaxFaults
    BY BoundsAssumption DEF Init, MailCap
  <2> QED
    BY <2>1, <2>2, <2>3, <2>4 DEF Init, TypeOK
<1>2. TypeOK /\ [Next]_vars => TypeOK'
  <2> SUFFICES ASSUME TypeOK, [Next]_vars
               PROVE  TypeOK'
    OBVIOUS
  <2> USE DEF TypeOK, PCs, InLock, Goto, TakeLock, GiveLock
  <2>1. ASSUME NEW t \in Scans, ScanStep(t)
        PROVE  TypeOK'
    <3>0. t \in Procs
      BY DEF Procs
    <3>1. CASE Snapshot(t)
      BY <3>0, <3>1 DEF Snapshot, Configured, Enabled
    <3>2. CASE SkipDay(t)
      BY <3>0, <3>2 DEF SkipDay
    <3>3. CASE RecordEmptyRun(t)
      BY <3>0, <3>3 DEF RecordEmptyRun
    <3>4. CASE BeginSweep(t)
      BY <3>0, <3>4 DEF BeginSweep
    <3>5. CASE SweepNotNeeded(t)
      BY <3>0, <3>5 DEF SweepNotNeeded
    <3>6. CASE SweepNeeded(t)
      BY <3>0, <3>6 DEF SweepNeeded
    <3>7. CASE Sweep(t)
      BY <3>0, <3>7, ReconcileTyping DEF Sweep
    <3>8. CASE Begin(t)
      BY <3>0, <3>8 DEF Begin
    <3>9. ASSUME NEW s \in Sources, ScrapeFails(t, s)
          PROVE  TypeOK'
      BY <3>0, <3>9 DEF ScrapeFails
    <3>10. ASSUME NEW s \in Sources, NEW listed \in SUBSET Lists[s], Scrape(t, s, listed)
           PROVE  TypeOK'
      <4>1. listed \in SUBSET Keys
        BY ListsAssumption
      <4>2. [k \in Keys |-> IF k \in listed \cap Screened[s] THEN s ELSE found[t][k]]
              \in [Keys -> Sources \cup {NoSource}]
        OBVIOUS
      <4>3. found' \in [Scans -> [Keys -> Sources \cup {NoSource}]]
        BY <3>10, <4>2 DEF Scrape
      <4> QED
        BY <3>0, <3>10, <4>1, <4>3 DEF Scrape
    <3>11. CASE Compare(t)
      BY <3>0, <3>11 DEF Compare, GetNewJobs, FoundKeys
    <3>12. CASE Save(t)
      <4>1. jobs' \in Table
        BY <3>12, SaveTyping DEF Save
      <4>2. mailed' \in [Keys -> 0..MailCap]
        BY <3>12 DEF Save, MailCap
      <4> QED
        BY <3>0, <3>12, <4>1, <4>2 DEF Save
    <3>13. CASE Reconcile(t)
      <4>1. jobs' \in Table
        BY <3>13, ReconcileTyping DEF Reconcile
      <4>2. mailed' \in [Keys -> 0..MailCap]
        BY <3>13 DEF Reconcile, MailCap
      <4> QED
        BY <3>0, <3>13, <4>1, <4>2 DEF Reconcile
    <3>14. CASE Finish(t)
      BY <3>0, <3>14 DEF Finish
    <3>15. CASE Rescue(t)
      <4>1. FoundKeys(t) \subseteq Keys /\ UnemailedJobs(jobs) \subseteq Keys
        BY DEF FoundKeys, UnemailedJobs, ActiveKeys
      <4> QED
        BY <3>0, <3>15, <4>1 DEF Rescue, JobsToSend
    <3>16. CASE Filter(t)
      BY <3>0, <3>16 DEF Filter
    <3>17. CASE Deliver(t)
      <4>1. \A n \in 0..MailCap : CappedSum(n) \in 0..MailCap
        BY DEF CappedSum, MailCap
      <4>2. mailed' \in [Keys -> 0..MailCap]
        BY <3>17, <4>1 DEF Deliver
      <4> QED
        BY <3>0, <3>17, <4>2 DEF Deliver
    <3>18. CASE DeliverFails(t)
      BY <3>0, <3>18 DEF DeliverFails
    <3>19. CASE Mark(t)
      BY <3>0, <3>19, TableTyping DEF Mark
    <3>20. CASE Rearm(t)
      BY <3>0, <3>20 DEF Rearm, NothingFound
    <3> QED
      BY <2>1, <3>1, <3>2, <3>3, <3>4, <3>5, <3>6, <3>7, <3>8, <3>9, <3>10, <3>11, <3>12,
         <3>13, <3>14, <3>15, <3>16, <3>17, <3>18, <3>19, <3>20 DEF ScanStep
  <2>2. ASSUME NEW c \in Checkers, CheckerStep(c)
        PROVE  TypeOK'
    BY <2>2 DEF CheckerStep, RequestCheck, BeginCheck, FinishCheck, Procs
  <2>3. ASSUME NEW p \in Procs, UrlCheck(p)
        PROVE  TypeOK'
    <3>1. CASE CheckSelect(p)
      BY <3>1, TableTyping DEF CheckSelect
    <3>2. ASSUME NEW gone \in SUBSET heads[p], CheckUpdate(p, gone)
          PROVE  TypeOK'
      BY <3>2, TableTyping DEF CheckUpdate
    <3> QED
      BY <2>3, <3>1, <3>2 DEF UrlCheck
  <2>4. ASSUME NEW p \in Procs, Raise(p)
        PROVE  TypeOK'
    <3>1. faults' \in 0..MaxFaults
      BY <2>4, BoundsAssumption DEF Raise
    <3>2. pc' \in [Procs -> PCs] /\ lock' \in Procs \cup {NoProc} /\ progress' \in BOOLEAN
      BY <2>4 DEF Raise, LockAfterRaise, ProgressAfterRaise
    <3>3. new' \in [Scans -> SUBSET Keys]
      BY <2>4 DEF Raise, LockAfterRaise, ProgressAfterRaise
    <3> QED
      BY <2>4, <3>1, <3>2, <3>3 DEF Raise
  <2>5. CASE Crash
    <3>1. faults' \in 0..MaxFaults
      BY <2>5, BoundsAssumption DEF Crash
    <3>2. pc' \in [Procs -> PCs] /\ lock' \in Procs \cup {NoProc} /\ progress' \in BOOLEAN
      BY <2>5 DEF Crash
    <3>3. new' \in [Scans -> SUBSET Keys]
      BY <2>5 DEF Crash
    <3> QED
      BY <2>5, <3>1, <3>2, <3>3 DEF Crash
  <2>6. CASE UserStep
    <3> USE BoundsAssumption DEF Edit
    <3>1. ASSUME NEW s \in Sources, AddSource(s)
          PROVE  TypeOK'
      BY <3>1 DEF AddSource, Unnoticed, SourceStates
    <3>2. ASSUME NEW s \in Sources, DeleteSource(s)
          PROVE  TypeOK'
      BY <3>2 DEF DeleteSource, SourceStates
    <3>3. ASSUME NEW s \in Sources, ToggleSource(s)
          PROVE  TypeOK'
      BY <3>3 DEF ToggleSource, SourceStates
    <3>4. ASSUME NEW k \in Keys, RemoveJob(k)
          PROVE  TypeOK'
      BY <3>4, TableTyping DEF RemoveJob
    <3>5. ASSUME NEW k \in Keys, HideJob(k)
          PROVE  TypeOK'
      <4>1. jobs' \in Table
        BY <3>5, TableTyping DEF HideJob
      <4> QED
        BY <3>5, <4>1 DEF HideJob
    <3>6. CASE ClearCache
      BY <3>6, TableTyping DEF ClearCache
    <3>7. CASE SavePreferences
      BY <3>7 DEF SavePreferences
    <3>8. ASSUME NEW ids \in SUBSET Sources, ImportSources(ids)
          PROVE  TypeOK'
      BY <3>8 DEF ImportSources, Unnoticed, SourceStates
    <3> QED
      BY <2>6, <3>1, <3>2, <3>3, <3>4, <3>5, <3>6, <3>7, <3>8 DEF UserStep
  <2>7. CASE UNCHANGED vars
    BY <2>7
  <2> QED
    BY <2>1, <2>2, <2>3, <2>4, <2>5, <2>6, <2>7 DEF Next
<1> QED
  BY <1>1, <1>2, PTL DEF Spec

-----------------------------------------------------------------------------
(* The lock discipline is inductive as it stands: an invocation is under   *)
(* the lock exactly when the lock names it, so at most one is, and the     *)
(* progress entry is there exactly while a scan is.                        *)
THEOREM ProgressIsTruthful == Spec => []ProgressTellsTheTruth
<1> USE DEF ProgressTellsTheTruth, InLock, Scanning
<1>1. Init => ProgressTellsTheTruth
  BY ProcsAssumption DEF Init, Procs
<1>2. TypeOK /\ ProgressTellsTheTruth /\ [Next]_vars => ProgressTellsTheTruth'
  <2> SUFFICES ASSUME TypeOK, ProgressTellsTheTruth, [Next]_vars
               PROVE  ProgressTellsTheTruth'
    OBVIOUS
  <2> USE ProcsAssumption DEF TypeOK, Goto, TakeLock, GiveLock
  <2>0. \A t \in Scans : t \in Procs /\ t \notin Checkers
    BY DEF Procs
  <2>1. ASSUME NEW t \in Scans, ScanStep(t)
        PROVE  ProgressTellsTheTruth'
    <3>1. CASE Snapshot(t) \/ SkipDay(t) \/ RecordEmptyRun(t)
      BY <2>0, <3>1 DEF Snapshot, SkipDay, RecordEmptyRun
    <3>2. CASE BeginSweep(t) \/ SweepNotNeeded(t) \/ SweepNeeded(t) \/ Sweep(t)
      BY <2>0, <3>2 DEF BeginSweep, SweepNotNeeded, SweepNeeded, Sweep
    <3>3. CASE Begin(t)
      BY <2>0, <3>3 DEF Begin
    <3>4. ASSUME NEW s \in Sources, ScrapeFails(t, s)
          PROVE  ProgressTellsTheTruth'
      BY <2>0, <3>4 DEF ScrapeFails
    <3>5. ASSUME NEW s \in Sources, NEW listed \in SUBSET Lists[s], Scrape(t, s, listed)
          PROVE  ProgressTellsTheTruth'
      BY <2>0, <3>5 DEF Scrape
    <3>6. CASE Compare(t) \/ Save(t) \/ Reconcile(t)
      BY <2>0, <3>6 DEF Compare, Save, Reconcile
    <3>7. CASE Finish(t)
      BY <2>0, <3>7 DEF Finish
    <3>8. CASE Rescue(t) \/ Filter(t)
      BY <2>0, <3>8 DEF Rescue, Filter
    <3>9. CASE Deliver(t) \/ DeliverFails(t) \/ Mark(t) \/ Rearm(t)
      BY <2>0, <3>9 DEF Deliver, DeliverFails, Mark, Rearm
    <3> QED
      BY <2>1, <3>1, <3>2, <3>3, <3>4, <3>5, <3>6, <3>7, <3>8, <3>9 DEF ScanStep
  <2>2. ASSUME NEW c \in Checkers, CheckerStep(c)
        PROVE  ProgressTellsTheTruth'
    BY <2>0, <2>2 DEF CheckerStep, RequestCheck, BeginCheck, FinishCheck, Procs
  <2>3. ASSUME NEW p \in Procs, UrlCheck(p)
        PROVE  ProgressTellsTheTruth'
    BY <2>0, <2>3 DEF UrlCheck, CheckSelect, CheckUpdate
  <2>4. ASSUME NEW p \in Procs, Raise(p)
        PROVE  ProgressTellsTheTruth'
    BY <2>0, <2>4 DEF Raise, LockAfterRaise, ProgressAfterRaise
  <2>5. CASE Crash
    BY <2>0, <2>5 DEF Crash
  <2>6. CASE UserStep
    <3>1. UNCHANGED <<lock, progress, pc>>
      BY <2>6 DEF UserStep, AddSource, ImportSources, DeleteSource, ToggleSource, RemoveJob, HideJob,
                  ClearCache, SavePreferences, Edit
    <3> QED
      BY <3>1
  <2>7. CASE UNCHANGED vars
    BY <2>7
  <2> QED
    BY <2>1, <2>2, <2>3, <2>4, <2>5, <2>6, <2>7 DEF Next
<1> QED
  BY <1>1, <1>2, TypeCorrect, PTL DEF Spec

-----------------------------------------------------------------------------
(* No statement of the pipeline deletes a row ...                          *)
LEMMA RowsStay ==
  ASSUME NEW tbl \in Table, NEW k \in Keys, tbl[k].st # "absent"
  PROVE  /\ \A newKeys, srcOf : SaveJobs(tbl, newKeys, srcOf)[k].st # "absent"
         /\ \A conf, succ, ks : ReconcileJobs(tbl, conf, succ, ks)[k].st # "absent"
         /\ \A ks : MarkRemoved(tbl, ks)[k].st # "absent" /\ MarkEmailed(tbl, ks)[k].st # "absent"
         /\ \A j \in Keys : \A h : SetHidden(tbl, j, h)[k].st # "absent"
  BY DEF Table, Row, SaveJobs, Inserted, ReconcileJobs, MarkRemoved, MarkEmailed, SetHidden

(* ... and after save_jobs every job it was given has one.                 *)
LEMMA SavedRowsExist ==
  ASSUME NEW tbl \in Table, NEW newKeys \in SUBSET Keys, NEW srcOf, NEW k \in newKeys
  PROVE  SaveJobs(tbl, newKeys, srcOf)[k].st # "absent"
  BY DEF SaveJobs, KnownKeys, Inserted

(* Why NewOnce holds.  A job among an invocation's new_jobs has a row from *)
(* the moment the invocation saved it until the user clears the table, and *)
(* between the comparison and the save the invocation holds the lock.  So  *)
(* an invocation that compares finds every job another one reported in the *)
(* same epoch among the known ones.                                        *)
NewJobsAreKnown ==
  /\ \A t \in Scans : \A k \in new[t] :
       /\ born[t] <= epoch
       /\ born[t] = epoch /\ pc[t] # "save" => jobs[k].st # "absent"
  /\ NewOnce

\* A step that reports nothing new, deletes no row and passes no save.
QuietStep ==
  /\ new' = new /\ born' = born /\ epoch' = epoch
  /\ \A k \in Keys : jobs[k].st # "absent" => jobs'[k].st # "absent"
  /\ \A t \in Scans : pc'[t] # "save" => pc[t] # "save"

(* Such a step keeps the invariant.                                        *)
LEMMA QuietStepsKeepNew ==
  ASSUME TypeOK, NewJobsAreKnown, QuietStep
  PROVE  NewJobsAreKnown'
<1>1. NewOnce'
  BY DEF QuietStep, NewJobsAreKnown, NewOnce
<1>2. ASSUME NEW t \in Scans, NEW k \in new'[t]
      PROVE  /\ born'[t] <= epoch'
             /\ born'[t] = epoch' /\ pc'[t] # "save" => jobs'[k].st # "absent"
  <2>1. k \in Keys
    BY <1>2 DEF TypeOK, QuietStep
  <2> QED
    BY <1>2, <2>1 DEF QuietStep, NewJobsAreKnown
<1> QED
  BY <1>1, <1>2 DEF NewJobsAreKnown

(* The comment on _run_lock holds for any number of overlapping scans, URL *)
(* checks, exceptions, crashes and edits.                                  *)
THEOREM NewJobsReportedOnce == Spec => []NewOnce
<1>1. Init => NewJobsAreKnown
  BY DEF Init, NewJobsAreKnown, NewOnce
<1>2. TypeOK /\ ProgressTellsTheTruth /\ NewJobsAreKnown /\ [Next]_vars => NewJobsAreKnown'
  <2> SUFFICES ASSUME TypeOK, ProgressTellsTheTruth, NewJobsAreKnown, [Next]_vars
               PROVE  NewJobsAreKnown'
    OBVIOUS
  <2>0. /\ jobs \in Table
        /\ \A t \in Scans : t \in Procs
        /\ pc \in [Procs -> PCs]
        /\ new \in [Scans -> SUBSET Keys]
        /\ born \in [Scans -> Nat] /\ epoch \in Nat
    BY DEF TypeOK, Procs
  <2>1. ASSUME NEW t \in Scans, ScanStep(t)
        PROVE  NewJobsAreKnown'
    <3>1. CASE Snapshot(t) \/ SkipDay(t) \/ RecordEmptyRun(t)
      <4>1. QuietStep
        BY <2>0, <3>1 DEF Snapshot, SkipDay, RecordEmptyRun, QuietStep, Goto
      <4> QED
        BY <4>1, QuietStepsKeepNew
    <3>2. CASE BeginSweep(t) \/ SweepNotNeeded(t) \/ SweepNeeded(t) \/ Begin(t)
      <4>1. QuietStep
        BY <2>0, <3>2 DEF BeginSweep, SweepNotNeeded, SweepNeeded, Begin, QuietStep, Goto
      <4> QED
        BY <4>1, QuietStepsKeepNew
    <3>3. CASE Sweep(t) \/ Reconcile(t)
      <4>1. QuietStep
        BY <2>0, <3>3, RowsStay DEF Sweep, Reconcile, QuietStep, Goto
      <4> QED
        BY <4>1, QuietStepsKeepNew
    <3>4. ASSUME NEW s \in Sources, ScrapeFails(t, s) \/ \E listed \in SUBSET Lists[s] : Scrape(t, s, listed)
          PROVE  NewJobsAreKnown'
      <4>1. QuietStep
        BY <2>0, <3>4 DEF ScrapeFails, Scrape, QuietStep, Goto
      <4> QED
        BY <4>1, QuietStepsKeepNew
    <3>5. CASE Compare(t)
      <4>1. /\ new' = [new EXCEPT ![t] = GetNewJobs(jobs, FoundKeys(t))]
            /\ born' = [born EXCEPT ![t] = epoch]
            /\ pc' = [pc EXCEPT ![t] = "save"]
            /\ pc[t] = "scrape"
            /\ UNCHANGED <<jobs, epoch>>
        BY <3>5 DEF Compare, Goto
      <4>2. \A k \in new'[t] : k \in Keys /\ jobs[k].st = "absent"
        BY <2>0, <4>1 DEF GetNewJobs, FoundKeys, KnownKeys
      <4>3. \A u \in Scans : u # t => pc[u] # "save"
        BY <2>0, <4>1 DEF ProgressTellsTheTruth, InLock
      <4>4. \A u \in Scans : u # t => new'[u] = new[u] /\ born'[u] = born[u] /\ pc'[u] = pc[u]
        BY <2>0, <4>1
      <4>5. \A u \in Scans : \A k \in new[u] :
              u # t /\ k \in new'[t] => born'[u] # born'[t]
        BY <2>0, <4>1, <4>2, <4>3, <4>4 DEF NewJobsAreKnown
      <4>6. NewOnce'
        BY <2>0, <4>1, <4>4, <4>5 DEF NewJobsAreKnown, NewOnce
      <4>7. ASSUME NEW u \in Scans, NEW k \in new'[u]
            PROVE  /\ born'[u] <= epoch'
                   /\ born'[u] = epoch' /\ pc'[u] # "save" => jobs'[k].st # "absent"
        BY <2>0, <4>1, <4>4, <4>7 DEF NewJobsAreKnown
      <4> QED
        BY <4>6, <4>7 DEF NewJobsAreKnown
    <3>6. CASE Save(t)
      <4>1. /\ UNCHANGED <<new, born, epoch>>
            /\ jobs' = SaveJobs(jobs, new[t], found[t])
            /\ pc' = [pc EXCEPT ![t] = "reconcile"]
        BY <3>6 DEF Save, Goto
      <4>2. \A k \in Keys : jobs[k].st # "absent" => jobs'[k].st # "absent"
        BY <2>0, <4>1, RowsStay
      <4>3. \A k \in new[t] : jobs'[k].st # "absent"
        BY <2>0, <4>1, SavedRowsExist
      <4>4. ASSUME NEW u \in Scans, NEW k \in new'[u]
            PROVE  /\ born'[u] <= epoch'
                   /\ born'[u] = epoch' /\ pc'[u] # "save" => jobs'[k].st # "absent"
        <5>1. k \in Keys
          BY <2>0, <4>1, <4>4
        <5>2. CASE u = t
          BY <4>1, <4>3, <4>4, <5>2 DEF NewJobsAreKnown
        <5>3. CASE u # t
          BY <2>0, <4>1, <4>2, <4>4, <5>1, <5>3 DEF NewJobsAreKnown
        <5> QED
          BY <5>2, <5>3
      <4>5. NewOnce'
        BY <4>1 DEF NewJobsAreKnown, NewOnce
      <4> QED
        BY <4>4, <4>5 DEF NewJobsAreKnown
    <3>7. CASE Finish(t) \/ Rescue(t) \/ Filter(t)
      <4>1. QuietStep
        BY <2>0, <3>7 DEF Finish, Rescue, Filter, QuietStep, Goto
      <4> QED
        BY <4>1, QuietStepsKeepNew
    <3>8. CASE Deliver(t) \/ DeliverFails(t) \/ Mark(t)
      <4>1. QuietStep
        BY <2>0, <3>8, RowsStay DEF Deliver, DeliverFails, Mark, QuietStep, Goto
      <4> QED
        BY <4>1, QuietStepsKeepNew
    <3>9. CASE Rearm(t)
      <4>1. /\ new' = [new EXCEPT ![t] = {}]
            /\ born' = [born EXCEPT ![t] = 0]
            /\ pc' = [pc EXCEPT ![t] = "idle"]
            /\ UNCHANGED <<jobs, epoch>>
        BY <3>9 DEF Rearm, Goto
      <4>2. \A u \in Scans : \A k \in new'[u] : u # t /\ k \in new[u] /\ born'[u] = born[u] /\ pc'[u] = pc[u]
        BY <2>0, <4>1
      <4>3. NewOnce'
        BY <4>2 DEF NewJobsAreKnown, NewOnce
      <4> QED
        BY <4>1, <4>2, <4>3 DEF NewJobsAreKnown
    <3> QED
      BY <2>1, <3>1, <3>2, <3>3, <3>4, <3>5, <3>6, <3>7, <3>8, <3>9 DEF ScanStep
  <2>2. ASSUME NEW c \in Checkers, CheckerStep(c)
        PROVE  NewJobsAreKnown'
    <3>1. QuietStep
      BY <2>0, <2>2 DEF CheckerStep, RequestCheck, BeginCheck, FinishCheck, QuietStep, Goto
    <3> QED
      BY <3>1, QuietStepsKeepNew
  <2>3. ASSUME NEW p \in Procs, UrlCheck(p)
        PROVE  NewJobsAreKnown'
    <3>1. QuietStep
      BY <2>0, <2>3, RowsStay DEF UrlCheck, CheckSelect, CheckUpdate, QuietStep, Goto
    <3> QED
      BY <3>1, QuietStepsKeepNew
  <2>4. ASSUME NEW p \in Procs, Raise(p)
        PROVE  NewJobsAreKnown'
    <3>1. /\ UNCHANGED <<jobs, born, epoch>>
          /\ \A u \in Scans : \A k \in new'[u] :
               k \in new[u] /\ (pc'[u] # "save" => pc[u] # "save")
      BY <2>0, <2>4 DEF Raise, Scanning
    <3> QED
      BY <3>1 DEF NewJobsAreKnown, NewOnce
  <2>5. CASE Crash
    <3>1. /\ UNCHANGED <<jobs, born, epoch>>
          /\ \A u \in Scans : \A k \in new'[u] : k \in new[u] /\ pc[u] # "save"
      BY <2>0, <2>5 DEF Crash, Scanning
    <3> QED
      BY <3>1 DEF NewJobsAreKnown, NewOnce
  <2>6. CASE UserStep
    <3>1. ASSUME NEW s \in Sources, AddSource(s) \/ DeleteSource(s) \/ ToggleSource(s)
          PROVE  NewJobsAreKnown'
      <4>1. QuietStep
        BY <3>1 DEF AddSource, DeleteSource, ToggleSource, Edit, QuietStep
      <4> QED
        BY <4>1, QuietStepsKeepNew
    <3>2. ASSUME NEW k \in Keys, RemoveJob(k) \/ HideJob(k)
          PROVE  NewJobsAreKnown'
      <4>1. QuietStep
        BY <2>0, <3>2, RowsStay DEF RemoveJob, HideJob, Edit, QuietStep
      <4> QED
        BY <4>1, QuietStepsKeepNew
    <3>3. CASE ClearCache
      <4>1. UNCHANGED <<new, born>> /\ epoch' = epoch + 1
        BY <3>3 DEF ClearCache, Edit
      <4>2. \A u \in Scans : \A k \in new[u] : born[u] < epoch'
        BY <2>0, <4>1 DEF NewJobsAreKnown
      <4> QED
        BY <2>0, <4>1, <4>2 DEF NewJobsAreKnown, NewOnce
    <3>4. ASSUME NEW ids \in SUBSET Sources, ImportSources(ids)
          PROVE  NewJobsAreKnown'
      <4>1. QuietStep
        BY <3>4 DEF ImportSources, Edit, QuietStep
      <4> QED
        BY <4>1, QuietStepsKeepNew
    <3>5. CASE SavePreferences
      <4>1. QuietStep
        BY <3>5 DEF SavePreferences, Edit, QuietStep
      <4> QED
        BY <4>1, QuietStepsKeepNew
    <3> QED
      BY <2>6, <3>1, <3>2, <3>3, <3>4, <3>5 DEF UserStep
  <2>7. CASE UNCHANGED vars
    BY <2>7 DEF NewJobsAreKnown, NewOnce
  <2> QED
    BY <2>1, <2>2, <2>3, <2>4, <2>5, <2>6, <2>7 DEF Next
<1>3. NewJobsAreKnown => NewOnce
  BY DEF NewJobsAreKnown
<1> QED
  BY <1>1, <1>2, <1>3, TypeCorrect, ProgressIsTruthful, PTL DEF Spec
-----------------------------------------------------------------------------
(* Between its start and its finish a run is under the lock, but for a URL *)
(* check, whose row the request opens while the task is still to wait.     *)
OpenWhileUnderWay ==
  \A p \in Procs : runs[p] = "open" /\ faults = 0 =>
    pc[p] \in Scanning \/ (p \in Checkers /\ pc[p] = "wait")

(* No early return leaves a runs row open: neither of run_once (a day not  *)
(* selected, no sources) nor of check_job_urls.                            *)
THEOREM OpenRunsMeanFaults == Spec => []UnfinishedRunMeansFault
<1> USE DEF OpenWhileUnderWay, Scanning
<1>1. Init => OpenWhileUnderWay
  BY DEF Init
<1>2. TypeOK /\ OpenWhileUnderWay /\ [Next]_vars => OpenWhileUnderWay'
  <2> SUFFICES ASSUME TypeOK, OpenWhileUnderWay, [Next]_vars
               PROVE  OpenWhileUnderWay'
    OBVIOUS
  <2> USE ProcsAssumption DEF TypeOK, Goto
  <2>0. \A t \in Scans : t \in Procs /\ t \notin Checkers
    BY DEF Procs
  <2>1. ASSUME NEW t \in Scans, ScanStep(t)
        PROVE  OpenWhileUnderWay'
    <3>1. CASE Snapshot(t) \/ SkipDay(t) \/ RecordEmptyRun(t)
      BY <2>0, <3>1 DEF Snapshot, SkipDay, RecordEmptyRun
    <3>2. CASE BeginSweep(t) \/ SweepNotNeeded(t) \/ SweepNeeded(t) \/ Sweep(t)
      BY <2>0, <3>2 DEF BeginSweep, SweepNotNeeded, SweepNeeded, Sweep
    <3>3. CASE Begin(t)
      BY <2>0, <3>3 DEF Begin
    <3>4. ASSUME NEW s \in Sources, ScrapeFails(t, s)
          PROVE  OpenWhileUnderWay'
      BY <2>0, <3>4 DEF ScrapeFails
    <3>5. ASSUME NEW s \in Sources, NEW listed \in SUBSET Lists[s], Scrape(t, s, listed)
          PROVE  OpenWhileUnderWay'
      BY <2>0, <3>5 DEF Scrape
    <3>6. CASE Compare(t) \/ Save(t) \/ Reconcile(t)
      BY <2>0, <3>6 DEF Compare, Save, Reconcile
    <3>7. CASE Finish(t)
      BY <2>0, <3>7 DEF Finish
    <3>8. CASE Rescue(t) \/ Filter(t)
      BY <2>0, <3>8 DEF Rescue, Filter
    <3>9. CASE Deliver(t) \/ DeliverFails(t) \/ Mark(t)
      <4>1. runs' = runs /\ faults' = faults
        BY <3>9 DEF Deliver, DeliverFails, Mark, budget
      <4>2. pc[t] \in {"deliver", "mark"} /\ pc' = [pc EXCEPT ![t] = pc'[t]]
        BY <2>0, <3>9 DEF Deliver, DeliverFails, Mark
      <4> QED
        BY <2>0, <4>1, <4>2
    <3>11. CASE Rearm(t)
      BY <2>0, <3>11 DEF Rearm
    <3>10. CASE \E s \in Sources :
                  ScrapeFails(t, s) \/ \E listed \in SUBSET Lists[s] : Scrape(t, s, listed)
      BY <3>4, <3>5, <3>10
    <3> QED
      BY <2>1, <3>1, <3>2, <3>3, <3>6, <3>7, <3>8, <3>9, <3>10, <3>11
      DEF ScanStep
  <2>2. ASSUME NEW c \in Checkers, CheckerStep(c)
        PROVE  OpenWhileUnderWay'
    BY <2>2 DEF CheckerStep, RequestCheck, BeginCheck, FinishCheck, Procs
  <2>3. ASSUME NEW p \in Procs, UrlCheck(p)
        PROVE  OpenWhileUnderWay'
    BY <2>3 DEF UrlCheck, CheckSelect, CheckUpdate
  <2>4. ASSUME Crash \/ \E p \in Procs : Raise(p)
        PROVE  OpenWhileUnderWay'
    <3>1. faults' # 0
      BY <2>4, BoundsAssumption DEF Crash, Raise
    <3> QED
      BY <3>1
  <2>5. CASE UserStep
    <3>1. UNCHANGED <<runs, pc, faults>>
      BY <2>5 DEF UserStep, AddSource, ImportSources, DeleteSource, ToggleSource, RemoveJob, HideJob,
                  ClearCache, SavePreferences, Edit
    <3> QED
      BY <3>1
  <2>6. CASE UNCHANGED vars
    BY <2>6
  <2> QED
    BY <2>1, <2>2, <2>3, <2>4, <2>5, <2>6 DEF Next
<1>3. TypeOK /\ OpenWhileUnderWay => UnfinishedRunMeansFault
  <2>1. TypeOK => faults \in Nat
    BY BoundsAssumption DEF TypeOK
  <2>2. faults \in Nat /\ OpenWhileUnderWay => UnfinishedRunMeansFault
    BY DEF UnfinishedRunMeansFault
  <2> QED
    BY <2>1, <2>2
<1> QED
  BY <1>1, <1>2, <1>3, TypeCorrect, PTL DEF Spec

-----------------------------------------------------------------------------
(* One digest per job needs more than the lock, which a scan gives back    *)
(* before it builds its digest: no other scan may have compared its        *)
(* findings with the table before that digest is sent and recorded.        *)
Digesting == {"rescue", "filter", "deliver", "mark"}
Saved     == {"reconcile", "check", "heads", "finish", "rescue"}

DigestsApart ==
  \A t, u \in Scans :
    t # u /\ pc[t] \in Digesting => pc[u] \notin {"save"} \cup Saved \cup Digesting

Present(k)     == jobs[k].st # "absent"
BeingMarked(k) == \E t \in Scans : pc[t] = "mark" /\ k \in send[t]

(* Why they hold then.  Until a fault, a job that was mailed is emailed, or*)
(* in the hands of the scan that is about to record it; and what a scan is *)
(* going to mail for the first time has not been mailed.                   *)
MarksAreOfMailed ==
  \A t \in Scans : \A k \in send[t] : pc[t] = "mark" /\ Present(k) => mailed[k] > 0

MailedIsRecorded ==
  \A k \in Keys : Present(k) =>
    /\ mailed[k] <= 1
    /\ ~jobs[k].emailed /\ mailed[k] > 0 => BeingMarked(k)

NewIsUnmailed ==
  \A t \in Scans : \A k \in new[t] :
    /\ pc[t] = "save" => ~Present(k)
    /\ pc[t] \in Saved => mailed[k] = 0

SendIsUnmailed ==
  \A t \in Scans : \A k \in send[t] :
    pc[t] \in {"filter", "deliver"} /\ ~again[t] /\ Present(k) => mailed[k] = 0

MailInv ==
  /\ EmailedMeansMailed
  /\ MarksAreOfMailed
  /\ faults = 0 => MailedIsRecorded /\ NewIsUnmailed /\ SendIsUnmailed

\* A step that neither mails a job nor records a mail nor counts one anew.
MailQuiet ==
  /\ mailed' = mailed
  /\ \A k \in Keys : jobs'[k].st # "absent" =>
       jobs[k].st # "absent" /\ jobs'[k].emailed = jobs[k].emailed
  /\ faults' = 0 => faults = 0
  /\ \A t \in Scans :
       /\ pc'[t] = "mark" => pc[t] = "mark" /\ send'[t] = send[t]
       /\ pc[t] = "mark" /\ faults' = 0 => pc'[t] = "mark" /\ send'[t] = send[t]
       /\ pc'[t] \in {"filter", "deliver"} =>
            pc[t] \in {"filter", "deliver"} /\ send'[t] \subseteq send[t] /\ again'[t] = again[t]
       /\ pc'[t] = "save" => pc[t] = "save" /\ new'[t] = new[t]
       /\ pc'[t] \in Saved => pc[t] \in Saved /\ new'[t] = new[t]

LEMMA MailQuietStep ==
  ASSUME TypeOK, MailInv, MailQuiet PROVE MailInv'
<1> USE DEF MailInv, MailQuiet, Present
<1>0. \A t \in Scans : new[t] \subseteq Keys /\ send[t] \subseteq Keys
  BY DEF TypeOK
<1>1. EmailedMeansMailed'
  BY DEF EmailedMeansMailed
<1>2. MarksAreOfMailed'
  BY <1>0 DEF MarksAreOfMailed
<1>3. ASSUME faults' = 0 PROVE MailedIsRecorded' /\ NewIsUnmailed' /\ SendIsUnmailed'
  <2>1. MailedIsRecorded'
    BY <1>3 DEF MailedIsRecorded, BeingMarked
  <2>2. NewIsUnmailed'
    BY <1>0, <1>3 DEF NewIsUnmailed
  <2>3. SendIsUnmailed'
    BY <1>0, <1>3 DEF SendIsUnmailed
  <2> QED
    BY <2>1, <2>2, <2>3
<1> QED
  BY <1>1, <1>2, <1>3

\* What the statements on the table do to the records of emailed jobs.
LEMMA MarkRemovedRecords ==
  ASSUME NEW tbl \in Table, NEW k \in Keys, NEW ks
  PROVE  /\ MarkRemoved(tbl, ks)[k].st # "absent" => tbl[k].st # "absent"
         /\ MarkRemoved(tbl, ks)[k].emailed = tbl[k].emailed
BY DEF Table, Row, MarkRemoved, KnownKeys

LEMMA SetHiddenRecords ==
  ASSUME NEW tbl \in Table, NEW k \in Keys, NEW j \in Keys, NEW h
  PROVE  /\ SetHidden(tbl, j, h)[k].st # "absent" => tbl[k].st # "absent"
         /\ SetHidden(tbl, j, h)[k].emailed = tbl[k].emailed
BY DEF Table, Row, SetHidden

LEMMA ReconcileRecords ==
  ASSUME NEW tbl \in Table, NEW k \in Keys, NEW conf, NEW succ, NEW ks
  PROVE  /\ ReconcileJobs(tbl, conf, succ, ks)[k].st # "absent" => tbl[k].st # "absent"
         /\ IF k \in Reappeared(tbl, conf, succ, ks)
            THEN ~ReconcileJobs(tbl, conf, succ, ks)[k].emailed
            ELSE ReconcileJobs(tbl, conf, succ, ks)[k].emailed = tbl[k].emailed
BY DEF Table, Row, ReconcileJobs, Reappeared, Vanished, ActiveKeys

LEMMA SaveRecords ==
  ASSUME NEW tbl \in Table, NEW k \in Keys, NEW newKeys, NEW srcOf
  PROVE  IF k \in newKeys \ KnownKeys(tbl)
         THEN ~SaveJobs(tbl, newKeys, srcOf)[k].emailed
         ELSE SaveJobs(tbl, newKeys, srcOf)[k] = tbl[k]
BY DEF Table, Row, SaveJobs, Inserted

LEMMA MarkEmailedRecords ==
  ASSUME NEW tbl \in Table, NEW k \in Keys, NEW ks
  PROVE  /\ MarkEmailed(tbl, ks)[k].st # "absent" => tbl[k].st # "absent"
         /\ MarkEmailed(tbl, ks)[k].emailed =
              (tbl[k].emailed \/ (k \in ks /\ tbl[k].st # "absent"))
BY DEF Table, Row, MarkEmailed, KnownKeys

LEMMA MailStep ==
  TypeOK /\ ProgressTellsTheTruth /\ DigestsApart /\ MailInv /\ [Next]_vars => MailInv'
<1> SUFFICES ASSUME TypeOK, ProgressTellsTheTruth, DigestsApart, MailInv, [Next]_vars
             PROVE  MailInv'
  OBVIOUS
<1> USE DEF Goto
<1>0. /\ jobs \in Table /\ pc \in [Procs -> PCs] /\ faults \in Nat
      /\ new \in [Scans -> SUBSET Keys] /\ send \in [Scans -> SUBSET Keys]
      /\ again \in [Scans -> BOOLEAN] /\ mailed \in [Keys -> 0..MailCap]
      /\ \A t \in Scans : t \in Procs /\ t \notin Checkers
      /\ \A t \in Scans : new[t] \subseteq Keys /\ send[t] \subseteq Keys
      /\ \A k \in Keys : mailed[k] \in Nat
  <2>1. faults \in Nat
    BY BoundsAssumption DEF TypeOK
  <2>2. \A k \in Keys : mailed[k] \in Nat
    <3>1. \A k \in Keys : mailed[k] \in 0..MailCap
      BY DEF TypeOK
    <3>2. 0..MailCap \subseteq Nat
      BY DEF MailCap
    <3> QED
      BY <3>1, <3>2
  <2> QED
    BY <2>1, <2>2, ProcsAssumption DEF TypeOK, Procs
<1>1. ASSUME NEW t \in Scans,
             \/ Snapshot(t) \/ SkipDay(t) \/ RecordEmptyRun(t) \/ BeginSweep(t)
             \/ SweepNotNeeded(t) \/ SweepNeeded(t) \/ Begin(t)
      PROVE  MailInv'
  <2>1. MailQuiet
    BY <1>0, <1>1 DEF MailQuiet, Saved, Snapshot, SkipDay, RecordEmptyRun, BeginSweep,
       SweepNotNeeded, SweepNeeded, Begin
  <2> QED
    BY <2>1, MailQuietStep
<1>2. ASSUME NEW t \in Scans, NEW s \in Sources,
             ScrapeFails(t, s) \/ \E listed \in SUBSET Lists[s] : Scrape(t, s, listed)
      PROVE  MailInv'
  <2>1. MailQuiet
    BY <1>0, <1>2 DEF MailQuiet, Saved, ScrapeFails, Scrape
  <2> QED
    BY <2>1, MailQuietStep
<1>3. ASSUME NEW t \in Scans, Finish(t) \/ Filter(t) \/ DeliverFails(t) \/ Rearm(t)
      PROVE  MailInv'
  <2>1. MailQuiet
    BY <1>0, <1>3 DEF MailQuiet, Saved, Finish, Filter, DeliverFails, Rearm
  <2> QED
    BY <2>1, MailQuietStep
<1>4. ASSUME NEW t \in Scans, Sweep(t)
      PROVE  MailInv'
  <2>1. \A k \in Keys : k \notin Reappeared(jobs, {}, {}, {})
    BY DEF Reappeared
  <2>2. \A k \in Keys : jobs'[k].st # "absent" =>
          jobs[k].st # "absent" /\ jobs'[k].emailed = jobs[k].emailed
    BY <1>0, <1>4, <2>1, ReconcileRecords DEF Sweep
  <2>3. MailQuiet
    BY <1>0, <1>4, <2>2 DEF MailQuiet, Saved, Sweep
  <2> QED
    BY <2>3, MailQuietStep
<1>5. ASSUME NEW c \in Checkers, CheckerStep(c)
      PROVE  MailInv'
  <2>1. MailQuiet
    BY <1>0, <1>5 DEF MailQuiet, Saved, CheckerStep, RequestCheck, BeginCheck, FinishCheck, Procs
  <2> QED
    BY <2>1, MailQuietStep
<1>6. ASSUME NEW p \in Procs, UrlCheck(p)
      PROVE  MailInv'
  <2>1. \A k \in Keys : jobs'[k].st # "absent" =>
          jobs[k].st # "absent" /\ jobs'[k].emailed = jobs[k].emailed
    BY <1>0, <1>6, MarkRemovedRecords DEF UrlCheck, CheckSelect, CheckUpdate
  <2>2. MailQuiet
    BY <1>0, <1>6, <2>1 DEF MailQuiet, Saved, UrlCheck, CheckSelect, CheckUpdate
  <2> QED
    BY <2>2, MailQuietStep
<1>7. ASSUME Crash \/ \E p \in Procs : Raise(p)
      PROVE  MailInv'
  <2>1. faults' # 0 /\ UNCHANGED <<jobs, mailed, send>>
        /\ \A t \in Scans : pc'[t] = "mark" => pc[t] = "mark"
    BY <1>0, <1>7 DEF Crash, Raise
  <2> QED
    BY <2>1 DEF MailInv, EmailedMeansMailed, MarksAreOfMailed, Present
<1>8. CASE UserStep
  <2>0. UNCHANGED <<pc, new, send, again, faults, mailed>>
    BY <1>8 DEF UserStep, AddSource, ImportSources, DeleteSource, ToggleSource, RemoveJob,
       HideJob, ClearCache, SavePreferences, Edit
  <2>1. \A k \in Keys : jobs'[k].st # "absent" =>
          jobs[k].st # "absent" /\ jobs'[k].emailed = jobs[k].emailed
    <3>1. ASSUME NEW j \in Keys, RemoveJob(j) \/ HideJob(j)
          PROVE  \A k \in Keys : jobs'[k].st # "absent" =>
                   jobs[k].st # "absent" /\ jobs'[k].emailed = jobs[k].emailed
      <4>1. jobs[j].hidden \in BOOLEAN
        BY <1>0 DEF Table, Row
      <4>2. CASE RemoveJob(j)
        BY <1>0, <4>2, MarkRemovedRecords DEF RemoveJob
      <4>3. CASE HideJob(j)
        <5>1. jobs' = SetHidden(jobs, j, ~jobs[j].hidden) /\ (~jobs[j].hidden) \in BOOLEAN
          BY <4>1, <4>3 DEF HideJob
        <5> QED
          BY <1>0, <5>1, SetHiddenRecords
      <4> QED
        BY <3>1, <4>2, <4>3
    <3>2. CASE ClearCache
      BY <3>2 DEF ClearCache, ClearJobs, Absent
    <3>3. ASSUME jobs' = jobs
          PROVE  \A k \in Keys : jobs'[k].st # "absent" =>
                   jobs[k].st # "absent" /\ jobs'[k].emailed = jobs[k].emailed
      BY <3>3
    <3> QED
      BY <1>8, <3>1, <3>2, <3>3 DEF UserStep, AddSource, ImportSources, DeleteSource,
         ToggleSource, SavePreferences
  <2>2. MailQuiet
    BY <2>0, <2>1 DEF MailQuiet
  <2> QED
    BY <2>2, MailQuietStep
<1>9. CASE UNCHANGED vars
  BY <1>9, MailQuietStep DEF MailQuiet
\* A scan past its comparison, or with a digest in hand, is alone in that.
<1>10. ASSUME NEW t \in Scans, pc[t] \in {"save", "reconcile"} \cup Digesting
       PROVE  \A u \in Scans : u # t => pc[u] \notin Digesting
  BY <1>10 DEF DigestsApart, Digesting, Saved
<1>11. ASSUME NEW t \in Scans, pc[t] \in {"save", "reconcile"}
       PROVE  \A u \in Scans : u # t => pc[u] # "save" /\ pc[u] \notin Saved
  <2>1. \A u \in Scans : u # t => pc[u] \notin InLock
    BY <1>0, <1>11 DEF ProgressTellsTheTruth, InLock
  <2> QED
    BY <1>10, <1>11, <2>1 DEF InLock, Saved, Digesting
<1>12. ASSUME NEW t \in Scans, pc[t] \in Digesting
       PROVE  \A u \in Scans : u # t => pc[u] \notin {"save"} \cup Saved \cup Digesting
  BY <1>12 DEF DigestsApart
<1>13. ASSUME NEW t \in Scans, Compare(t)
       PROVE  MailInv'
  <2>1. /\ pc[t] = "scrape" /\ pc' = [pc EXCEPT ![t] = "save"]
        /\ new' = [new EXCEPT ![t] = GetNewJobs(jobs, FoundKeys(t))]
        /\ UNCHANGED <<jobs, mailed, send, again, faults>>
    BY <1>13 DEF Compare
  <2>2. EmailedMeansMailed' /\ MarksAreOfMailed'
    BY <1>0, <2>1 DEF MailInv, EmailedMeansMailed, MarksAreOfMailed, Present
  <2>3. ASSUME faults' = 0 PROVE MailedIsRecorded' /\ NewIsUnmailed' /\ SendIsUnmailed'
    <3>1. MailedIsRecorded'
      BY <1>0, <2>1, <2>3 DEF MailInv, MailedIsRecorded, BeingMarked, Present
    <3>2. NewIsUnmailed'
      <4>1. \A k \in new'[t] : k \in Keys /\ ~Present(k)
        BY <1>0, <2>1 DEF GetNewJobs, FoundKeys, KnownKeys, Present
      <4> QED
        BY <1>0, <2>1, <2>3, <4>1 DEF MailInv, NewIsUnmailed, Present, Saved
    <3>3. SendIsUnmailed'
      BY <1>0, <2>1, <2>3 DEF MailInv, SendIsUnmailed, Present
    <3> QED
      BY <3>1, <3>2, <3>3
  <2> QED
    BY <2>2, <2>3 DEF MailInv
<1>14. ASSUME NEW t \in Scans, Save(t)
       PROVE  MailInv'
  <2>1. /\ pc[t] = "save" /\ pc' = [pc EXCEPT ![t] = "reconcile"]
        /\ jobs' = SaveJobs(jobs, new[t], found[t])
        /\ \A k \in Keys : mailed'[k] = IF k \in new[t] \ KnownKeys(jobs) THEN 0 ELSE mailed[k]
        /\ UNCHANGED <<new, send, again, faults>>
    BY <1>14 DEF Save
  <2>2. \A u \in Scans : pc'[u] \notin Digesting /\ pc[u] # "mark"
    BY <1>0, <1>10, <2>1 DEF Digesting
  <2>3. \A k \in Keys :
          \/ mailed'[k] = 0 /\ ~jobs'[k].emailed
          \/ /\ mailed'[k] = mailed[k] /\ jobs'[k] = jobs[k]
             /\ k \notin new[t] \ KnownKeys(jobs)
    <3> SUFFICES ASSUME NEW k \in Keys
                 PROVE  \/ mailed'[k] = 0 /\ ~jobs'[k].emailed
                        \/ /\ mailed'[k] = mailed[k] /\ jobs'[k] = jobs[k]
                           /\ k \notin new[t] \ KnownKeys(jobs)
      OBVIOUS
    <3>1. CASE k \in new[t] \ KnownKeys(jobs)
      BY <1>0, <2>1, <3>1, SaveRecords
    <3>2. CASE k \notin new[t] \ KnownKeys(jobs)
      <4>1. SaveJobs(jobs, new[t], found[t])[k] = jobs[k]
        BY <1>0, <3>2, SaveRecords
      <4> QED
        BY <2>1, <3>2, <4>1
    <3> QED
      BY <3>1, <3>2
  <2>4. EmailedMeansMailed'
    BY <2>3 DEF MailInv, EmailedMeansMailed
  <2>5. MarksAreOfMailed'
    BY <2>2 DEF MarksAreOfMailed, Digesting
  <2>6. ASSUME faults' = 0 PROVE MailedIsRecorded' /\ NewIsUnmailed' /\ SendIsUnmailed'
    <3>1. MailedIsRecorded'
      BY <2>1, <2>2, <2>3, <2>6 DEF MailInv, MailedIsRecorded, BeingMarked, Present
    <3>2. NewIsUnmailed'
      <4>1. \A k \in new[t] : k \in Keys /\ mailed'[k] = 0
        BY <1>0, <2>1, <2>6 DEF MailInv, NewIsUnmailed, Present, KnownKeys
      <4>2. \A u \in Scans : u # t => pc'[u] # "save" /\ pc'[u] \notin Saved
        BY <1>0, <1>11, <2>1
      <4> QED
        BY <1>0, <2>1, <4>1, <4>2 DEF NewIsUnmailed
    <3>3. SendIsUnmailed'
      BY <2>2 DEF SendIsUnmailed, Digesting
    <3> QED
      BY <3>1, <3>2, <3>3
  <2> QED
    BY <2>4, <2>5, <2>6 DEF MailInv
<1>15. ASSUME NEW t \in Scans, Reconcile(t)
       PROVE  MailInv'
  <2>1. /\ pc[t] = "reconcile" /\ pc' = [pc EXCEPT ![t] = "check"]
        /\ jobs' = ReconcileJobs(jobs, snap[t], ok[t], raw[t])
        /\ \A k \in Keys : mailed'[k] =
             IF k \in Reappeared(jobs, snap[t], ok[t], raw[t]) THEN 0 ELSE mailed[k]
        /\ UNCHANGED <<new, send, again, faults>>
    BY <1>15 DEF Reconcile
  <2>2. \A u \in Scans : pc'[u] \notin Digesting /\ pc[u] # "mark"
    BY <1>0, <1>10, <2>1 DEF Digesting
  <2>3. \A k \in Keys :
          /\ jobs'[k].st # "absent" => jobs[k].st # "absent"
          /\ \/ mailed'[k] = 0 /\ ~jobs'[k].emailed
             \/ mailed'[k] = mailed[k] /\ jobs'[k].emailed = jobs[k].emailed
    BY <1>0, <2>1, ReconcileRecords
  <2>4. EmailedMeansMailed'
    BY <2>3 DEF MailInv, EmailedMeansMailed
  <2>5. MarksAreOfMailed'
    BY <2>2 DEF MarksAreOfMailed, Digesting
  <2>6. ASSUME faults' = 0 PROVE MailedIsRecorded' /\ NewIsUnmailed' /\ SendIsUnmailed'
    <3>1. MailedIsRecorded'
      BY <2>1, <2>2, <2>3, <2>6 DEF MailInv, MailedIsRecorded, BeingMarked, Present
    <3>2. NewIsUnmailed'
      <4>1. \A k \in new[t] : k \in Keys /\ mailed'[k] = 0
        BY <1>0, <2>1, <2>6 DEF MailInv, NewIsUnmailed, Saved
      <4>2. \A u \in Scans : u # t => pc'[u] # "save" /\ pc'[u] \notin Saved
        BY <1>0, <1>11, <2>1
      <4>3. pc'[t] # "save"
        BY <1>0, <2>1
      <4> QED
        BY <2>1, <4>1, <4>2, <4>3 DEF NewIsUnmailed
    <3>3. SendIsUnmailed'
      BY <2>2 DEF SendIsUnmailed, Digesting
    <3> QED
      BY <3>1, <3>2, <3>3
  <2> QED
    BY <2>4, <2>5, <2>6 DEF MailInv
<1>16. ASSUME NEW t \in Scans, Rescue(t)
       PROVE  MailInv'
  <2>1. /\ pc[t] = "rescue" /\ pc' = [pc EXCEPT ![t] = "filter"]
        /\ send' = [send EXCEPT ![t] = JobsToSend(t)]
        /\ UNCHANGED <<jobs, mailed, new, again, faults>>
    BY <1>16 DEF Rescue
  <2>2. \A u \in Scans : pc[u] # "mark" /\ pc'[u] # "mark"
    BY <1>0, <1>12, <2>1 DEF Digesting
  <2>3. EmailedMeansMailed' /\ MarksAreOfMailed'
    BY <2>1, <2>2 DEF MailInv, EmailedMeansMailed, MarksAreOfMailed
  <2>4. ASSUME faults' = 0 PROVE MailedIsRecorded' /\ NewIsUnmailed' /\ SendIsUnmailed'
    <3>1. \A k \in Keys : Present(k) => mailed[k] <= 1 /\ (jobs[k].emailed \/ mailed[k] = 0)
      BY <1>0, <2>1, <2>2, <2>4 DEF MailInv, MailedIsRecorded, BeingMarked
    <3>2. MailedIsRecorded'
      BY <2>1, <3>1 DEF MailedIsRecorded, Present
    <3>3. NewIsUnmailed'
      BY <1>0, <2>1, <2>4 DEF MailInv, NewIsUnmailed, Saved, Present
    <3>4. ASSUME NEW u \in Scans, NEW k \in send'[u], pc'[u] \in {"filter", "deliver"}, ~again'[u],
                 Present(k)'
          PROVE  mailed'[k] = 0
      <4>1. CASE u # t
        BY <1>0, <1>12, <2>1, <3>4, <4>1 DEF Digesting
      <4>2. CASE u = t
        <5>1. k \in new[t] \/ (k \in Keys /\ Present(k) /\ ~jobs[k].emailed)
          BY <1>0, <2>1, <3>4, <4>2 DEF JobsToSend, UnemailedJobs, ActiveKeys, Present
        <5>2. k \in new[t] => mailed[k] = 0
          BY <2>1, <2>4 DEF MailInv, NewIsUnmailed, Saved
        <5> QED
          BY <2>1, <3>1, <5>1, <5>2
      <4> QED
        BY <4>1, <4>2
    <3>5. SendIsUnmailed'
      BY <3>4 DEF SendIsUnmailed
    <3> QED
      BY <3>2, <3>3, <3>5
  <2> QED
    BY <2>3, <2>4 DEF MailInv
<1>17. ASSUME NEW t \in Scans, Deliver(t)
       PROVE  MailInv'
  <2>1. /\ pc[t] = "deliver" /\ pc' = [pc EXCEPT ![t] = "mark"]
        /\ \A k \in Keys : mailed'[k] =
             IF k \in send[t] /\ ~(again[t] /\ mailed[k] > 0) THEN CappedSum(mailed[k]) ELSE mailed[k]
        /\ UNCHANGED <<jobs, new, send, again, faults>>
    BY <1>17 DEF Deliver
  <2>2. /\ pc'[t] = "mark"
        /\ \A u \in Scans : u # t => pc'[u] \notin {"save"} \cup Saved \cup Digesting
    BY <1>0, <1>12, <2>1 DEF Digesting
  <2>3. \A k \in Keys : CappedSum(mailed[k]) > 0 /\ CappedSum(mailed[k]) \in Nat
    BY <1>0 DEF CappedSum, MailCap
  <2>4. \A k \in Keys : mailed[k] > 0 \/ k \in send[t] => mailed'[k] > 0
    <3> SUFFICES ASSUME NEW k \in Keys, mailed[k] > 0 \/ k \in send[t] PROVE mailed'[k] > 0
      OBVIOUS
    <3>1. mailed[k] \in Nat /\ CappedSum(mailed[k]) > 0
      BY <1>0, <2>3
    <3>2. CASE k \in send[t] /\ ~(again[t] /\ mailed[k] > 0)
      BY <2>1, <3>1, <3>2
    <3>3. CASE ~(k \in send[t] /\ ~(again[t] /\ mailed[k] > 0))
      BY <2>1, <3>1, <3>3
    <3> QED
      BY <3>2, <3>3
  <2>5. EmailedMeansMailed'
    BY <2>1, <2>4 DEF MailInv, EmailedMeansMailed
  <2>6. MarksAreOfMailed'
    BY <1>0, <2>1, <2>2, <2>4 DEF MarksAreOfMailed, Digesting
  <2>7. ASSUME faults' = 0 PROVE MailedIsRecorded' /\ NewIsUnmailed' /\ SendIsUnmailed'
    <3>1. \A k \in Keys : Present(k) => mailed[k] <= 1 /\ (jobs[k].emailed \/ mailed[k] = 0)
      <4>1. \A u \in Scans : pc[u] # "mark"
        BY <1>0, <1>12, <2>1 DEF Digesting
      <4> QED
        BY <1>0, <2>1, <2>7, <4>1 DEF MailInv, MailedIsRecorded, BeingMarked
    <3>2. ASSUME NEW k \in Keys, Present(k)'
          PROVE  /\ mailed'[k] <= 1
                 /\ ~jobs'[k].emailed /\ mailed'[k] > 0 => BeingMarked(k)'
      <4>1. Present(k)
        BY <2>1, <3>2 DEF Present
      <4>2. CASE k \in send[t]
        <5>1. ~again[t] => mailed[k] = 0
          BY <2>1, <2>7, <4>1, <4>2 DEF MailInv, SendIsUnmailed
        <5>2. mailed'[k] <= 1
          <6>1. mailed[k] \in Nat /\ mailed[k] <= 1 /\ again[t] \in BOOLEAN
            BY <1>0, <3>1, <4>1
          <6>2. CappedSum(0) = 1
            BY DEF CappedSum, MailCap
          <6>3. CASE mailed[k] = 0
            BY <2>1, <6>2, <6>3
          <6>4. CASE mailed[k] > 0
            BY <2>1, <5>1, <6>1, <6>4
          <6> QED
            BY <6>1, <6>3, <6>4
        <5> QED
          BY <2>1, <2>2, <4>2, <5>2 DEF BeingMarked
      <4>3. CASE k \notin send[t]
        BY <1>0, <2>1, <3>1, <4>1, <4>3
      <4> QED
        BY <4>2, <4>3
    <3>3. MailedIsRecorded'
      BY <3>2 DEF MailedIsRecorded
    <3>4. NewIsUnmailed' /\ SendIsUnmailed'
      BY <2>2 DEF NewIsUnmailed, SendIsUnmailed, Saved, Digesting
    <3> QED
      BY <3>3, <3>4
  <2> QED
    BY <2>5, <2>6, <2>7 DEF MailInv
<1>18. ASSUME NEW t \in Scans, Mark(t)
       PROVE  MailInv'
  <2>1. /\ pc[t] = "mark" /\ pc' = [pc EXCEPT ![t] = "done"]
        /\ jobs' = MarkEmailed(jobs, send[t])
        /\ UNCHANGED <<mailed, new, send, again, faults>>
    BY <1>18 DEF Mark
  <2>2. /\ pc'[t] = "done"
        /\ \A u \in Scans : u # t => pc'[u] \notin {"save"} \cup Saved \cup Digesting
        /\ \A u \in Scans : u # t => pc[u] # "mark"
    BY <1>0, <1>12, <2>1 DEF Digesting
  <2>3. \A k \in Keys :
          /\ jobs'[k].st # "absent" => jobs[k].st # "absent"
          /\ jobs'[k].emailed = (jobs[k].emailed \/ (k \in send[t] /\ jobs[k].st # "absent"))
    BY <1>0, <2>1, MarkEmailedRecords
  <2>4. EmailedMeansMailed'
    BY <2>1, <2>3 DEF MailInv, EmailedMeansMailed, MarksAreOfMailed, Present
  <2>5. MarksAreOfMailed'
    BY <2>2 DEF MarksAreOfMailed, Digesting
  <2>6. ASSUME faults' = 0 PROVE MailedIsRecorded' /\ NewIsUnmailed' /\ SendIsUnmailed'
    <3>1. MailedIsRecorded'
      BY <2>1, <2>2, <2>3, <2>6 DEF MailInv, MailedIsRecorded, BeingMarked, Present
    <3>2. NewIsUnmailed' /\ SendIsUnmailed'
      BY <2>2 DEF NewIsUnmailed, SendIsUnmailed, Saved, Digesting
    <3> QED
      BY <3>1, <3>2
  <2> QED
    BY <2>4, <2>5, <2>6 DEF MailInv
<1> QED
  BY <1>1, <1>2, <1>3, <1>4, <1>5, <1>6, <1>7, <1>8, <1>9, <1>13, <1>14, <1>15, <1>16, <1>17,
     <1>18 DEF Next, ScanStep

(* A job is in one digest only, as long as no scan gets to compare its     *)
(* findings while another one's digest is on its way (app/scheduler.py:    *)
(* 67-116; that the lock alone does not see to it is double_report's run). *)
THEOREM JobsMailedOnce == Spec /\ []DigestsApart => []MailedOnce
<1>1. Init => MailInv
  BY DEF Init, MailInv, EmailedMeansMailed, MarksAreOfMailed, MailedIsRecorded, NewIsUnmailed,
     SendIsUnmailed, Absent, Present
<1>2. MailInv => MailedOnce
  BY DEF MailInv, MailedIsRecorded, MailedOnce, Present
<1> QED
  BY <1>1, <1>2, MailStep, TypeCorrect, ProgressIsTruthful, PTL DEF Spec

(* emailed_at is never set on a job no digest carried, under the same      *)
(* condition and whatever raises or crashes (db.mark_emailed,              *)
(* db.reconcile_jobs).                                                     *)
THEOREM EmailedJobsWereMailed == Spec /\ []DigestsApart => []EmailedMeansMailed
<1>1. Init => MailInv
  BY DEF Init, MailInv, EmailedMeansMailed, MarksAreOfMailed, MailedIsRecorded, NewIsUnmailed,
     SendIsUnmailed, Absent, Present
<1>2. MailInv => EmailedMeansMailed
  BY DEF MailInv
<1> QED
  BY <1>1, <1>2, MailStep, TypeCorrect, ProgressIsTruthful, PTL DEF Spec

(* With one invocation at a time, as when only the cron trigger runs, no   *)
(* two digests meet: both then hold through URL checks, edits, exceptions  *)
(* and crashes.                                                            *)
THEOREM TheTriggerMailsOnce ==
  ASSUME \A t, u \in Scans : t = u
  PROVE  Spec => [](MailedOnce /\ EmailedMeansMailed)
<1>1. DigestsApart
  BY DEF DigestsApart
<1> QED
  BY <1>1, JobsMailedOnce, EmailedJobsWereMailed, PTL

-----------------------------------------------------------------------------
(* Only save_jobs gives a row a source; clear_jobs takes it away.          *)
LEMMA OwnersStay ==
  ASSUME NEW tbl \in Table, NEW k \in Keys
  PROVE  /\ \A conf, succ, ks : ReconcileJobs(tbl, conf, succ, ks)[k].src = tbl[k].src
         /\ \A ks : /\ MarkRemoved(tbl, ks)[k].src = tbl[k].src
                    /\ MarkEmailed(tbl, ks)[k].src = tbl[k].src
         /\ \A j \in Keys : \A h : SetHidden(tbl, j, h)[k].src = tbl[k].src
         /\ ClearJobs[k].src = NoSource
  BY DEF Table, Row, ReconcileJobs, MarkRemoved, MarkEmailed, SetHidden, ClearJobs, Absent

\* The phases in which a scan has a source list it has not reconciled with yet.
Preparing == {"wait", "scrape", "save", "reconcile"}

\* What one scan knows is kept, or forgotten at the end of its invocation.
ScanKept(t) ==
  \/ /\ snap'[t] = snap[t] /\ todo'[t] = todo[t] /\ ok'[t] = ok[t]
     /\ raw'[t] = raw[t] /\ found'[t] = found[t] /\ fresh'[t] = fresh[t]
     /\ pc'[t] = "idle" => pc[t] = "idle"
     /\ pc'[t] = "sweepall" => pc[t] = "sweepall"
     /\ pc'[t] \in Preparing => pc[t] \in Preparing
  \/ /\ pc'[t] = "idle" /\ todo'[t] = {} /\ ok'[t] = {} /\ raw'[t] = {}
     /\ found'[t] = NothingFound

OrdinaryStep ==
  /\ \A k \in Keys : jobs'[k].src \in {jobs[k].src, NoSource}
  /\ sources' = sources
  /\ \A t \in Scans : ScanKept(t)

(* Every step is an ordinary one, one by which a scan learns about sources *)
(* or acts on what it knows, or an edit of the source list.                *)
LEMMA StepKinds ==
  ASSUME TypeOK, [Next]_vars
  PROVE  \/ OrdinaryStep
         \/ \E t \in Scans : \/ Snapshot(t) \/ SweepNeeded(t) \/ Compare(t) \/ Save(t)
                             \/ \E s \in Sources : \/ ScrapeFails(t, s)
                                                   \/ \E listed \in SUBSET Lists[s] : Scrape(t, s, listed)
         \/ \E s \in Sources : AddSource(s) \/ DeleteSource(s) \/ ToggleSource(s)
         \/ \E ids \in SUBSET Sources : ImportSources(ids)
<1> USE DEF TypeOK, Goto, OrdinaryStep, ScanKept, Preparing
<1>0. jobs \in Table /\ \A t \in Scans : t \in Procs
  BY DEF Procs
<1>1. ASSUME NEW t \in Scans,
             \/ SkipDay(t) \/ RecordEmptyRun(t) \/ BeginSweep(t) \/ SweepNotNeeded(t) \/ Begin(t)
             \/ Finish(t) \/ Rescue(t) \/ Filter(t) \/ Deliver(t) \/ DeliverFails(t)
      PROVE  OrdinaryStep
  BY <1>0, <1>1 DEF SkipDay, RecordEmptyRun, BeginSweep, SweepNotNeeded, Begin, Finish, Rescue,
                    Filter, Deliver, DeliverFails
<1>2. ASSUME NEW t \in Scans, Sweep(t) \/ Reconcile(t) \/ Mark(t)
      PROVE  OrdinaryStep
  <2>1. \A k \in Keys : jobs'[k].src = jobs[k].src
    BY <1>0, <1>2, OwnersStay DEF Sweep, Reconcile, Mark
  <2> QED
    BY <1>0, <1>2, <2>1 DEF Sweep, Reconcile, Mark
<1>3. ASSUME NEW t \in Scans, Rearm(t)
      PROVE  OrdinaryStep
  BY <1>0, <1>3 DEF Rearm
<1>4. ASSUME NEW c \in Checkers, CheckerStep(c)
      PROVE  OrdinaryStep
  BY <1>0, <1>4, ProcsAssumption DEF CheckerStep, RequestCheck, BeginCheck, FinishCheck, Procs
<1>5. ASSUME NEW p \in Procs, UrlCheck(p)
      PROVE  OrdinaryStep
  <2>1. \A k \in Keys : jobs'[k].src = jobs[k].src
    BY <1>0, <1>5, OwnersStay DEF UrlCheck, CheckSelect, CheckUpdate
  <2> QED
    BY <1>0, <1>5, <2>1 DEF UrlCheck, CheckSelect, CheckUpdate
<1>6. ASSUME NEW p \in Procs, Raise(p)
      PROVE  OrdinaryStep
  BY <1>0, <1>6 DEF Raise
<1>7. ASSUME Crash
      PROVE  OrdinaryStep
  BY <1>0, <1>7 DEF Crash
<1>8. ASSUME NEW k \in Keys, RemoveJob(k) \/ HideJob(k)
      PROVE  OrdinaryStep
  <2>1. \A j \in Keys : jobs'[j].src = jobs[j].src
    BY <1>0, <1>8, OwnersStay DEF RemoveJob, HideJob
  <2> QED
    BY <1>8, <2>1 DEF RemoveJob, HideJob, Edit
<1>9. ASSUME ClearCache \/ SavePreferences
      PROVE  OrdinaryStep
  BY <1>0, <1>9, OwnersStay DEF ClearCache, SavePreferences, Edit
<1>10. ASSUME UNCHANGED vars
       PROVE  OrdinaryStep
  BY <1>10
<1> QED
  BY <1>1, <1>2, <1>3, <1>4, <1>5, <1>6, <1>7, <1>8, <1>9, <1>10 DEF Next, ScanStep, UserStep

-----------------------------------------------------------------------------
(* What ties jobs, scans and sources together.  Whatever a scan has in     *)
(* hand came from sources of its snapshot; a row belongs to a source that  *)
(* listed its job and that was configured at some time; and, if the user   *)
(* imports no sources, a sweep about to run finds no row of a configured   *)
(* source: a source added since the re-check is new, and no scan can have  *)
(* saved a job of it while the sweep holds the lock.                       *)
WasConfigured(s) == sources[s] # "unborn"

OwnersKnown ==
  /\ \A k \in Keys : jobs[k].src # NoSource =>
       WasConfigured(jobs[k].src) /\ k \in Lists[jobs[k].src]
  /\ \A t \in Scans, k \in Keys : found[t][k] # NoSource =>
       WasConfigured(found[t][k]) /\ k \in Lists[found[t][k]]
  /\ \A t \in Scans : \A s \in todo[t] : WasConfigured(s)

FindingsFromSnapshot ==
  \A t \in Scans :
    /\ todo[t] \subseteq snap[t]
    /\ ok[t] \subseteq snap[t]
    /\ \A k \in raw[t] : \E s \in ok[t] : k \in Lists[s]
    /\ pc[t] = "idle" => ok[t] = {} /\ raw[t] = {}

SweepFindsOrphans ==
  "import" \notin Edits =>
    \A t \in Scans : pc[t] = "sweepall" => \A k \in Keys : jobs[k].src \notin Configured

SourceInv == OwnersKnown /\ FindingsFromSnapshot /\ SweepFindsOrphans

(* Ordinary steps keep it.                                                 *)
LEMMA OrdinaryStepsKeepSources ==
  ASSUME TypeOK, SourceInv, OrdinaryStep
  PROVE  SourceInv'
<1> USE DEF OrdinaryStep, ScanKept
<1>1. OwnersKnown'
  BY DEF SourceInv, OwnersKnown, WasConfigured, NothingFound
<1>2. FindingsFromSnapshot'
  BY DEF SourceInv, FindingsFromSnapshot
<1>3. SweepFindsOrphans'
  BY NoSourceAssumption DEF SourceInv, SweepFindsOrphans, Configured
<1> QED
  BY <1>1, <1>2, <1>3 DEF SourceInv

(* The invariant is inductive, given the types and the lock discipline.    *)
LEMMA SourcesTiedToJobs == Spec => []SourceInv
<1>1. Init => SourceInv
  <2> SUFFICES ASSUME Init
               PROVE  SourceInv
    OBVIOUS
  <2>1. OwnersKnown
    BY DEF Init, OwnersKnown, Absent, NothingFound
  <2>2. FindingsFromSnapshot
    BY DEF Init, FindingsFromSnapshot
  <2>3. SweepFindsOrphans
    BY DEF Init, SweepFindsOrphans, Procs
  <2> QED
    BY <2>1, <2>2, <2>3 DEF SourceInv
<1>2. TypeOK /\ ProgressTellsTheTruth /\ SourceInv /\ [Next]_vars => SourceInv'
  <2> SUFFICES ASSUME TypeOK, ProgressTellsTheTruth, SourceInv, [Next]_vars
               PROVE  SourceInv'
    OBVIOUS
  <2> USE DEF Goto
  <2>0. /\ jobs \in Table /\ sources \in [Sources -> SourceStates] /\ pc \in [Procs -> PCs]
        /\ snap \in [Scans -> SUBSET Sources] /\ todo \in [Scans -> SUBSET Sources]
        /\ ok \in [Scans -> SUBSET Sources] /\ raw \in [Scans -> SUBSET Keys]
        /\ new \in [Scans -> SUBSET Keys]
        /\ found \in [Scans -> [Keys -> Sources \cup {NoSource}]]
        /\ \A t \in Scans : t \in Procs
    BY DEF TypeOK, Procs
  <2>1. CASE OrdinaryStep
    BY <2>1, OrdinaryStepsKeepSources
  <2>2. ASSUME NEW t \in Scans, Snapshot(t)
        PROVE  SourceInv'
    <3>1. OwnersKnown'
      BY <2>0, <2>2 DEF Snapshot, SourceInv, OwnersKnown, WasConfigured, Enabled
    <3>2. FindingsFromSnapshot'
      BY <2>0, <2>2 DEF Snapshot, SourceInv, FindingsFromSnapshot, Enabled, Configured
    <3>3. SweepFindsOrphans'
      BY <2>0, <2>2 DEF Snapshot, SourceInv, SweepFindsOrphans, Configured
    <3> QED
      BY <3>1, <3>2, <3>3 DEF SourceInv
  <2>3. ASSUME NEW t \in Scans, SweepNeeded(t)
        PROVE  SourceInv'
    <3>1. OwnersKnown'
      BY <2>0, <2>3 DEF SweepNeeded, SourceInv, OwnersKnown, WasConfigured
    <3>2. FindingsFromSnapshot'
      BY <2>0, <2>3 DEF SweepNeeded, SourceInv, FindingsFromSnapshot
    <3>3. SweepFindsOrphans'
      BY <2>0, <2>3 DEF SweepNeeded, SourceInv, SweepFindsOrphans, Configured
    <3> QED
      BY <3>1, <3>2, <3>3 DEF SourceInv
  <2>4. ASSUME NEW t \in Scans, Compare(t)
        PROVE  SourceInv'
    <3>1. OwnersKnown'
      BY <2>0, <2>4 DEF Compare, SourceInv, OwnersKnown, WasConfigured
    <3>2. FindingsFromSnapshot'
      BY <2>0, <2>4 DEF Compare, SourceInv, FindingsFromSnapshot
    <3>3. SweepFindsOrphans'
      BY <2>0, <2>4 DEF Compare, SourceInv, SweepFindsOrphans, Configured
    <3> QED
      BY <3>1, <3>2, <3>3 DEF SourceInv
  <2>5. ASSUME NEW t \in Scans, Save(t)
        PROVE  SourceInv'
    <3>0. \A k \in Keys : jobs'[k].src \in {jobs[k].src, found[t][k]}
      BY <2>0, <2>5 DEF Save, SaveJobs, Inserted
    <3>1. OwnersKnown'
      <4>1. UNCHANGED <<sources, found, todo>>
        BY <2>5 DEF Save, threads
      <4>2. OwnersKnown
        BY DEF SourceInv
      <4>3. ASSUME NEW k \in Keys, jobs'[k].src # NoSource
            PROVE  sources'[jobs'[k].src] # "unborn" /\ k \in Lists[jobs'[k].src]
        BY <2>5, <3>0, <4>1, <4>2, <4>3 DEF OwnersKnown, WasConfigured
      <4> QED
        BY <4>1, <4>2, <4>3 DEF OwnersKnown, WasConfigured
    <3>2. FindingsFromSnapshot'
      <4>1. UNCHANGED <<snap, todo, ok, raw>>
        BY <2>5 DEF Save, threads
      <4>2. \A u \in Scans : pc'[u] = "idle" => pc[u] = "idle"
        BY <2>0, <2>5 DEF Save
      <4> QED
        BY <4>1, <4>2 DEF SourceInv, FindingsFromSnapshot
    <3>3. \A u \in Scans : pc'[u] # "sweepall"
      BY <2>0, <2>5 DEF Save, ProgressTellsTheTruth, InLock
    <3> QED
      BY <3>1, <3>2, <3>3 DEF SourceInv, SweepFindsOrphans
  <2>6. ASSUME NEW t \in Scans, NEW s \in Sources, ScrapeFails(t, s)
        PROVE  SourceInv'
    <3>1. OwnersKnown'
      BY <2>0, <2>6 DEF ScrapeFails, SourceInv, OwnersKnown, WasConfigured
    <3>2. FindingsFromSnapshot'
      BY <2>0, <2>6 DEF ScrapeFails, SourceInv, FindingsFromSnapshot
    <3>3. SweepFindsOrphans'
      BY <2>0, <2>6 DEF ScrapeFails, SourceInv, SweepFindsOrphans, Configured
    <3> QED
      BY <3>1, <3>2, <3>3 DEF SourceInv
  <2>7. ASSUME NEW t \in Scans, NEW s \in Sources, NEW listed \in SUBSET Lists[s], Scrape(t, s, listed)
        PROVE  SourceInv'
    <3>0. /\ s \in todo[t] /\ WasConfigured(s) /\ s \in snap[t]
          /\ \A k \in Keys : \/ found'[t][k] = found[t][k]
                             \/ found'[t][k] = s /\ k \in listed
          /\ \A u \in Scans : u # t => found'[u] = found[u]
      BY <2>0, <2>7 DEF Scrape, SourceInv, OwnersKnown, FindingsFromSnapshot
    <3>1. OwnersKnown'
      <4>1. \A u \in Scans, k \in Keys : found'[u][k] # NoSource =>
              WasConfigured(found'[u][k]) /\ k \in Lists[found'[u][k]]
        BY <3>0 DEF SourceInv, OwnersKnown
      <4> QED
        BY <2>0, <2>7, <4>1 DEF Scrape, SourceInv, OwnersKnown, WasConfigured
    <3>2. FindingsFromSnapshot'
      <4>1. /\ todo' = [todo EXCEPT ![t] = @ \ {s}]
            /\ ok' = [ok EXCEPT ![t] = @ \cup {s}]
            /\ raw' = [raw EXCEPT ![t] = @ \cup listed]
            /\ UNCHANGED snap /\ pc' = [pc EXCEPT ![t] = "scrape"]
        BY <2>7 DEF Scrape
      <4>2. \A k \in raw'[t] : \E u \in ok'[t] : k \in Lists[u]
        BY <2>0, <4>1 DEF SourceInv, FindingsFromSnapshot
      <4> QED
        BY <2>0, <3>0, <4>1, <4>2 DEF SourceInv, FindingsFromSnapshot
    <3>3. SweepFindsOrphans'
      BY <2>0, <2>7 DEF Scrape, SourceInv, SweepFindsOrphans, Configured
    <3> QED
      BY <3>1, <3>2, <3>3 DEF SourceInv
  <2>8. ASSUME NEW s \in Sources, AddSource(s) \/ DeleteSource(s) \/ ToggleSource(s)
        PROVE  SourceInv'
    <3>1. /\ UNCHANGED <<jobs, pc, snap, todo, ok, raw, found>>
          /\ \A u \in Sources : WasConfigured(u) => WasConfigured(u)'
          /\ \A u \in Sources : u \in Configured' => u \in Configured \/ ~WasConfigured(u)
      BY <2>0, <2>8 DEF AddSource, DeleteSource, ToggleSource, Edit, WasConfigured, Configured
    <3>2. \A k \in Keys : jobs[k].src \in Sources \cup {NoSource}
      BY <2>0 DEF Table, Row
    <3>3. OwnersKnown'
      BY <2>0, <3>1, <3>2 DEF SourceInv, OwnersKnown
    <3>4. FindingsFromSnapshot'
      BY <3>1 DEF SourceInv, FindingsFromSnapshot
    <3>5. SweepFindsOrphans'
      BY <3>1, <3>2, NoSourceAssumption DEF SourceInv, SweepFindsOrphans, OwnersKnown, Configured
    <3> QED
      BY <3>3, <3>4, <3>5 DEF SourceInv
  <2>9. ASSUME NEW ids \in SUBSET Sources, ImportSources(ids)
        PROVE  SourceInv'
    <3>1. /\ UNCHANGED <<jobs, pc, snap, todo, ok, raw, found>>
          /\ \A u \in Sources : WasConfigured(u) => WasConfigured(u)'
          /\ "import" \in Edits
      BY <2>0, <2>9 DEF ImportSources, Edit, WasConfigured
    <3>2. \A k \in Keys : jobs[k].src \in Sources \cup {NoSource}
      BY <2>0 DEF Table, Row
    <3>3. OwnersKnown'
      BY <2>0, <3>1, <3>2 DEF SourceInv, OwnersKnown
    <3>4. FindingsFromSnapshot'
      BY <3>1 DEF SourceInv, FindingsFromSnapshot
    <3>5. SweepFindsOrphans'
      BY <3>1 DEF SweepFindsOrphans
    <3> QED
      BY <3>3, <3>4, <3>5 DEF SourceInv
  <2> QED
    BY <2>1, <2>2, <2>3, <2>4, <2>5, <2>6, <2>7, <2>8, <2>9, StepKinds
<1> QED
  BY <1>1, <1>2, TypeCorrect, ProgressIsTruthful, PTL DEF Spec

-----------------------------------------------------------------------------
(* The docstring of _reconcile_users_with_no_sources, for any timing of    *)
(* the user's adds: a sweep removes no job of a source the user has.  An   *)
(* import is excluded: it can restore a source whose jobs are still there. *)
THEOREM SweepIsJustified ==
  ASSUME "import" \notin Edits
  PROVE  Spec => SweepJustified
<1>1. ProgressTellsTheTruth /\ TypeOK /\ SourceInv /\ [Next]_vars =>
        [\A t \in Scans : pc[t] = "sweepall" /\ pc'[t] = "done" =>
           \A k \in Keys : jobs[k].st = "active" /\ jobs'[k].st = "removed" =>
             jobs[k].src \notin Configured]_vars
  BY DEF SourceInv, SweepFindsOrphans
<1> QED
  BY <1>1, TypeCorrect, ProgressIsTruthful, SourcesTiedToJobs, PTL DEF Spec, SweepJustified

-----------------------------------------------------------------------------
(* A scan that is not past its reconciliation knows every source the user  *)
(* has, but for those that came after its snapshot.                        *)
SnapshotsCover ==
  \A t \in Scans : pc[t] \in Preparing => Configured \subseteq snap[t] \cup fresh[t]

LEMMA SnapshotsStayComplete == Spec => []SnapshotsCover
<1>1. Init => SnapshotsCover
  BY DEF Init, SnapshotsCover, Preparing, Procs
<1>2. TypeOK /\ SnapshotsCover /\ [Next]_vars => SnapshotsCover'
  <2> SUFFICES ASSUME TypeOK, SnapshotsCover, [Next]_vars
               PROVE  SnapshotsCover'
    OBVIOUS
  <2> USE DEF SnapshotsCover, Preparing, Goto
  <2>0. /\ pc \in [Procs -> PCs] /\ snap \in [Scans -> SUBSET Sources]
        /\ fresh \in [Scans -> SUBSET Sources]
        /\ sources \in [Sources -> SourceStates]
        /\ \A t \in Scans : t \in Procs
    BY DEF TypeOK, Procs
  <2>1. CASE OrdinaryStep
    BY <2>1 DEF OrdinaryStep, ScanKept, Configured
  <2>2. ASSUME NEW t \in Scans, Snapshot(t)
        PROVE  SnapshotsCover'
    BY <2>0, <2>2 DEF Snapshot, Configured
  <2>3. ASSUME NEW t \in Scans, SweepNeeded(t) \/ Compare(t) \/ Save(t)
        PROVE  SnapshotsCover'
    BY <2>0, <2>3 DEF SweepNeeded, Compare, Save, Configured
  <2>4. ASSUME NEW t \in Scans, NEW s \in Sources,
               ScrapeFails(t, s) \/ \E listed \in SUBSET Lists[s] : Scrape(t, s, listed)
        PROVE  SnapshotsCover'
    BY <2>0, <2>4 DEF ScrapeFails, Scrape, Configured
  <2>5. ASSUME NEW s \in Sources, DeleteSource(s) \/ ToggleSource(s)
        PROVE  SnapshotsCover'
    <3>1. UNCHANGED <<pc, snap, fresh>> /\ Configured' \subseteq Configured
      BY <2>0, <2>5 DEF DeleteSource, ToggleSource, Edit, Configured
    <3> QED
      BY <3>1
  <2>6. ASSUME NEW ids \in SUBSET Sources, Unnoticed(ids), UNCHANGED <<pc, snap>>,
               Configured' \subseteq Configured \cup ids
        PROVE  SnapshotsCover'
    BY <2>0, <2>6 DEF Unnoticed
  <2>7. ASSUME NEW s \in Sources, AddSource(s)
        PROVE  SnapshotsCover'
    <3>1. UNCHANGED <<pc, snap>> /\ Unnoticed({s}) /\ Configured' \subseteq Configured \cup {s}
      BY <2>0, <2>7 DEF AddSource, Edit, Configured
    <3> QED
      BY <2>6, <3>1
  <2>8. ASSUME NEW ids \in SUBSET Sources, ImportSources(ids)
        PROVE  SnapshotsCover'
    <3>1. UNCHANGED <<pc, snap>> /\ Unnoticed(ids)
      BY <2>8 DEF ImportSources, Edit
    <3>2. Configured' \subseteq Configured \cup ids
      BY <2>0, <2>8 DEF ImportSources, Configured
    <3> QED
      BY <2>6, <3>1, <3>2
  <2> QED
    BY <2>1, <2>2, <2>3, <2>4, <2>5, <2>7, <2>8, StepKinds
<1> QED
  BY <1>1, <1>2, TypeCorrect, PTL DEF Spec

(* The README's reasons for a removal, and the one it does not give, hold  *)
(* for every run, however runs overlap, sources fail and the user edits,   *)
(* imports and deletes in between.                                         *)
THEOREM RemovalsAreJustified == Spec => RemovalJustified
<1>1. TypeOK /\ SnapshotsCover /\ [Next]_vars =>
        [\A t \in Scans : pc[t] = "reconcile" /\ pc'[t] = "check" =>
           \A k \in Keys : jobs[k].st = "active" /\ jobs'[k].st = "removed" =>
             \/ jobs[k].src \notin Configured
             \/ jobs[k].src \in ok[t] /\ k \notin raw[t]
             \/ jobs[k].src \in fresh[t]]_vars
  <2> SUFFICES ASSUME TypeOK, SnapshotsCover, [Next]_vars,
                      NEW t \in Scans, pc[t] = "reconcile", pc'[t] = "check",
                      NEW k \in Keys, jobs[k].st = "active", jobs'[k].st = "removed"
               PROVE  \/ jobs[k].src \notin Configured
                      \/ jobs[k].src \in ok[t] /\ k \notin raw[t]
                      \/ jobs[k].src \in fresh[t]
    OBVIOUS
  <2>1. Reconcile(t)
    <3> USE DEF Goto
    <3>1. pc \in [Procs -> PCs] /\ t \in Procs /\ t \notin Checkers
      BY ProcsAssumption DEF TypeOK, Procs
    <3>2. ASSUME NEW u \in Scans, ScanStep(u)
          PROVE  Reconcile(t)
      BY <3>1, <3>2 DEF ScanStep, Snapshot, SkipDay, RecordEmptyRun, BeginSweep, SweepNotNeeded,
           SweepNeeded, Sweep, Begin, ScrapeFails, Scrape, Compare, Save, Reconcile, Finish, Rescue,
           Filter, Deliver, DeliverFails, Mark, Rearm
    <3>3. ASSUME NEW c \in Checkers, CheckerStep(c)
          PROVE  FALSE
      BY <3>1, <3>3 DEF CheckerStep, RequestCheck, BeginCheck, FinishCheck
    <3>4. ASSUME NEW p \in Procs, UrlCheck(p) \/ Raise(p)
          PROVE  FALSE
      BY <3>1, <3>4 DEF UrlCheck, CheckSelect, CheckUpdate, Raise
    <3>5. ASSUME Crash \/ UserStep \/ UNCHANGED vars
          PROVE  FALSE
      BY <3>1, <3>5 DEF Crash, UserStep, AddSource, ImportSources, DeleteSource, ToggleSource, RemoveJob, HideJob,
           ClearCache, SavePreferences, Edit
    <3> QED
      BY <3>2, <3>3, <3>4, <3>5 DEF Next
  <2>2. k \in Vanished(jobs, snap[t], ok[t], raw[t])
    BY <2>1 DEF Reconcile, ReconcileJobs, TypeOK, Table, Row
  <2> QED
    BY <2>2 DEF Vanished, SnapshotsCover, Preparing
<1> QED
  BY <1>1, SnapshotsStayComplete, TypeCorrect, PTL DEF Spec, RemovalJustified

-----------------------------------------------------------------------------
(* No job is listed by two sources: then reconcile_jobs never removes and  *)
(* reactivates a job in one transaction.                                   *)
ListsApart == \A s, u \in Sources : s # u => Lists[s] \cap Lists[u] = {}

LEMMA VanishedAreNotFound ==
  ASSUME ListsApart, TypeOK, SourceInv, NEW t \in Scans
  PROVE  Vanished(jobs, snap[t], ok[t], raw[t]) \cap raw[t] = {}
<1> SUFFICES ASSUME NEW k \in Vanished(jobs, snap[t], ok[t], raw[t]), k \in raw[t]
             PROVE  FALSE
  OBVIOUS
<1>1. k \in Keys /\ jobs[k].src # NoSource /\ jobs[k].src \in Sources
  BY DEF Vanished, ActiveKeys, TypeOK, Table, Row
<1>2. PICK s \in ok[t] : k \in Lists[s]
  BY DEF SourceInv, FindingsFromSnapshot
<1>3. s \in snap[t] /\ s \in Sources
  BY <1>2 DEF SourceInv, FindingsFromSnapshot, TypeOK
<1>4. jobs[k].src \notin snap[t]
  BY <1>1 DEF Vanished
<1>5. k \in Lists[jobs[k].src]
  BY <1>1 DEF SourceInv, OwnersKnown
<1> QED
  BY <1>1, <1>2, <1>3, <1>4, <1>5 DEF ListsApart

\* Each statement on the table, as a step of JobLifecycle.
LEMMA TableSteps ==
  ASSUME jobs \in Table
  PROVE  /\ \A newKeys \in SUBSET Keys, srcOf \in [Keys -> Sources \cup {NoSource}] :
              jobs' = SaveJobs(jobs, newKeys, srcOf) => Lifecycle!Discover
         /\ \A conf, succ, ks :
              /\ jobs' = ReconcileJobs(jobs, conf, succ, ks)
              /\ Vanished(jobs, conf, succ, ks) \cap ks = {}
              => Lifecycle!Turnover
         /\ \A ks : jobs' = MarkRemoved(jobs, ks) => Lifecycle!Turnover
         /\ \A ks : jobs' = MarkEmailed(jobs, ks) => Lifecycle!Report
         /\ \A k \in Keys, h \in BOOLEAN :
              jobs' = SetHidden(jobs, k, h) => \A j \in Keys : Stage(jobs'[j]) = Stage(jobs[j])
         /\ jobs' = ClearJobs => Lifecycle!Forget
<1> USE DEF Table, Row, Stage, Lifecycle!Moved, Lifecycle!Within
<1>1. ASSUME NEW newKeys \in SUBSET Keys, NEW srcOf \in [Keys -> Sources \cup {NoSource}],
             jobs' = SaveJobs(jobs, newKeys, srcOf)
      PROVE  Lifecycle!Discover
  <2>1. newKeys \ KnownKeys(jobs) \in SUBSET Lifecycle!Within({"unknown"})
    BY DEF KnownKeys
  <2>2. [k \in Keys |-> Stage(jobs[k])]' = Lifecycle!Moved(newKeys \ KnownKeys(jobs), "pending")
    BY <1>1 DEF SaveJobs, Inserted
  <2> QED
    BY <2>1, <2>2 DEF Lifecycle!Discover
<1>2. ASSUME NEW conf, NEW succ, NEW ks,
             jobs' = ReconcileJobs(jobs, conf, succ, ks),
             Vanished(jobs, conf, succ, ks) \cap ks = {}
      PROVE  Lifecycle!Turnover
  <2> DEFINE away == Vanished(jobs, conf, succ, ks)
             back == {k \in Keys \cap ks : jobs[k].st = "removed"}
  <2>1. away \in SUBSET Lifecycle!Within({"pending", "reported"})
    BY DEF Vanished, ActiveKeys
  <2>2. back \in SUBSET Lifecycle!Within({"gone"})
    OBVIOUS
  <2>3. \A k \in Keys : Stage(jobs'[k]) =
          IF k \in away THEN "gone" ELSE IF k \in back THEN "pending" ELSE Stage(jobs[k])
    BY <1>2 DEF ReconcileJobs, Reappeared
  <2> HIDE DEF away, back
  <2>4. [k \in Keys |-> Stage(jobs[k])]' =
          [k \in Keys |-> IF k \in away THEN "gone" ELSE IF k \in back THEN "pending"
                          ELSE [j \in Keys |-> Stage(jobs[j])][k]]
    BY <2>3
  <2> QED
    BY <2>1, <2>2, <2>4 DEF Lifecycle!Turnover
<1>3. ASSUME NEW ks, jobs' = MarkRemoved(jobs, ks)
      PROVE  Lifecycle!Turnover
  <2> DEFINE away == ks \cap ActiveKeys(jobs)
             back == {}
  <2>0. back \in SUBSET Lifecycle!Within({"gone"})
    OBVIOUS
  <2>1. away \in SUBSET Lifecycle!Within({"pending", "reported"})
    BY DEF ActiveKeys
  <2>2. \A k \in Keys : Stage(jobs'[k]) = IF k \in away THEN "gone" ELSE Stage(jobs[k])
    BY <1>3 DEF MarkRemoved, KnownKeys, ActiveKeys
  <2>3. [k \in Keys |-> Stage(jobs[k])]' =
          [k \in Keys |-> IF k \in away THEN "gone" ELSE IF k \in back THEN "pending"
                          ELSE [j \in Keys |-> Stage(jobs[j])][k]]
    BY <2>2
  <2> HIDE DEF away, back
  <2> QED
    BY <2>0, <2>1, <2>3 DEF Lifecycle!Turnover
<1>4. ASSUME NEW ks, jobs' = MarkEmailed(jobs, ks)
      PROVE  Lifecycle!Report
  <2> DEFINE told == {k \in Keys \cap ks : Stage(jobs[k]) = "pending"}
  <2>1. told \in SUBSET Lifecycle!Within({"pending"})
    OBVIOUS
  <2>2. [k \in Keys |-> Stage(jobs[k])]' = Lifecycle!Moved(told, "reported")
    BY <1>4 DEF MarkEmailed, KnownKeys
  <2> QED
    BY <2>1, <2>2 DEF Lifecycle!Report
<1>5. ASSUME NEW k \in Keys, NEW h \in BOOLEAN, jobs' = SetHidden(jobs, k, h)
      PROVE  \A j \in Keys : Stage(jobs'[j]) = Stage(jobs[j])
  BY <1>5 DEF SetHidden
<1>6. ASSUME jobs' = ClearJobs
      PROVE  Lifecycle!Forget
  BY <1>6 DEF ClearJobs, Absent, Lifecycle!Forget
<1> QED
  BY <1>1, <1>2, <1>3, <1>4, <1>5, <1>6

\* The steps that write the jobs table.
LEMMA JobsChange ==
  ASSUME [Next]_vars
  PROVE  \/ jobs' = jobs
         \/ \E t \in Scans : Save(t) \/ Reconcile(t) \/ Sweep(t) \/ Mark(t)
         \/ \E p \in Procs : \E gone \in SUBSET heads[p] : CheckUpdate(p, gone)
         \/ \E k \in Keys : RemoveJob(k) \/ HideJob(k)
         \/ ClearCache
<1>1. ASSUME NEW t \in Scans, ScanStep(t)
      PROVE  jobs' = jobs \/ Save(t) \/ Reconcile(t) \/ Sweep(t) \/ Mark(t)
  BY <1>1 DEF ScanStep, Snapshot, SkipDay, RecordEmptyRun, BeginSweep, SweepNotNeeded,
       SweepNeeded, Begin, ScrapeFails, Scrape, Compare, Finish, Rescue, Filter, Deliver,
       DeliverFails, Rearm
<1>2. ASSUME NEW c \in Checkers, CheckerStep(c)
      PROVE  jobs' = jobs
  BY <1>2 DEF CheckerStep, RequestCheck, BeginCheck, FinishCheck
<1>3. ASSUME NEW p \in Procs, CheckSelect(p) \/ Raise(p)
      PROVE  jobs' = jobs
  BY <1>3 DEF CheckSelect, Raise
<1>4. ASSUME Crash \/ SavePreferences \/ UNCHANGED vars
      PROVE  jobs' = jobs
  BY <1>4 DEF Crash, SavePreferences, Edit
<1>5. ASSUME NEW s \in Sources, AddSource(s) \/ DeleteSource(s) \/ ToggleSource(s)
      PROVE  jobs' = jobs
  BY <1>5 DEF AddSource, DeleteSource, ToggleSource, Edit
<1>6. ASSUME NEW ids \in SUBSET Sources, ImportSources(ids)
      PROVE  jobs' = jobs
  BY <1>6 DEF ImportSources, Edit
<1> QED
  BY <1>1, <1>2, <1>3, <1>4, <1>5, <1>6 DEF Next, UrlCheck, UserStep

(* Without overlapping lists the pipeline implements JobLifecycle: no      *)
(* interleaving of scans, URL checks, edits, exceptions and crashes makes  *)
(* a reported job pending again while it stays, or reports a job that is   *)
(* gone or unknown.                                                        *)
THEOREM PipelineImplementsLifecycle ==
  ASSUME ListsApart
  PROVE  Spec => ImplementsLifecycle
<1>1. Init => Lifecycle!Init
  BY DEF Init, Lifecycle!Init, Stage, Absent
<1>2. TypeOK /\ SourceInv /\ [Next]_vars => [Lifecycle!Next]_([k \in Keys |-> Stage(jobs[k])])
  <2> SUFFICES ASSUME TypeOK, SourceInv, [Next]_vars
               PROVE  [Lifecycle!Next]_([k \in Keys |-> Stage(jobs[k])])
    OBVIOUS
  <2> USE DEF Lifecycle!Next
  <2>0. /\ jobs \in Table /\ new \in [Scans -> SUBSET Keys]
        /\ found \in [Scans -> [Keys -> Sources \cup {NoSource}]]
    BY DEF TypeOK
  <2>1. ASSUME NEW t \in Scans, Save(t)
        PROVE  Lifecycle!Next
    BY <2>0, <2>1, TableSteps DEF Save
  <2>2. ASSUME NEW t \in Scans, Reconcile(t)
        PROVE  Lifecycle!Next
    BY <2>0, <2>2, TableSteps, VanishedAreNotFound DEF Reconcile
  <2>3. ASSUME NEW t \in Scans, Sweep(t)
        PROVE  Lifecycle!Next
    BY <2>0, <2>3, TableSteps DEF Sweep
  <2>4. ASSUME NEW t \in Scans, Mark(t)
        PROVE  Lifecycle!Next
    BY <2>0, <2>4, TableSteps DEF Mark
  <2>5. ASSUME NEW p \in Procs, NEW gone \in SUBSET heads[p], CheckUpdate(p, gone)
        PROVE  Lifecycle!Next
    BY <2>0, <2>5, TableSteps DEF CheckUpdate
  <2>6. ASSUME NEW k \in Keys, RemoveJob(k)
        PROVE  Lifecycle!Next
    BY <2>0, <2>6, TableSteps DEF RemoveJob
  <2>7. ASSUME NEW k \in Keys, HideJob(k)
        PROVE  UNCHANGED [j \in Keys |-> Stage(jobs[j])]
    <3>1. \A j \in Keys : Stage(jobs'[j]) = Stage(jobs[j])
      BY <2>0, <2>7, TableSteps DEF HideJob
    <3> QED
      BY <3>1
  <2>8. CASE ClearCache
    BY <2>0, <2>8, TableSteps DEF ClearCache
  <2>9. CASE jobs' = jobs
    BY <2>9
  <2>10. \/ jobs' = jobs
         \/ \E t \in Scans : Save(t) \/ Reconcile(t) \/ Sweep(t) \/ Mark(t)
         \/ \E p \in Procs : \E gone \in SUBSET heads[p] : CheckUpdate(p, gone)
         \/ \E k \in Keys : RemoveJob(k) \/ HideJob(k)
         \/ ClearCache
    BY JobsChange
  <2> QED
    BY <2>1, <2>2, <2>3, <2>4, <2>5, <2>6, <2>7, <2>8, <2>9, <2>10
<1> QED
  BY <1>1, <1>2, TypeCorrect, SourcesTiedToJobs, PTL DEF Spec, ImplementsLifecycle, Lifecycle!Spec

(* Without overlapping lists a job in the digest's past stays there: no    *)
(* run resets emailed_at of a row that is active before and after it       *)
(* (db.reconcile_jobs).  Run orphan shows that the assumption is needed.   *)
THEOREM EmailedJobsStayEmailed ==
  ASSUME ListsApart
  PROVE  Spec => EmailedStaysEmailed
<1>1. TypeOK /\ SourceInv /\ [Next]_vars =>
        [\A k \in Keys :
           jobs[k].st = "active" /\ jobs[k].emailed /\ jobs'[k].st = "active" => jobs'[k].emailed]_vars
  <2> SUFFICES ASSUME TypeOK, SourceInv, [Next]_vars, NEW k \in Keys,
                      jobs[k].st = "active", jobs[k].emailed, jobs'[k].st = "active"
               PROVE  jobs'[k].emailed
    OBVIOUS
  <2>0. jobs \in Table
    BY DEF TypeOK
  <2>1. ASSUME NEW t \in Scans, Save(t)
        PROVE  jobs'[k].emailed
    BY <2>1 DEF Save, SaveJobs, KnownKeys
  <2>2. ASSUME NEW t \in Scans, Reconcile(t)
        PROVE  jobs'[k].emailed
    <3>1. k \notin Reappeared(jobs, snap[t], ok[t], raw[t])
      BY VanishedAreNotFound DEF Reappeared
    <3> QED
      BY <2>0, <2>2, <3>1 DEF Reconcile, ReconcileJobs, Table, Row
  <2>3. ASSUME NEW t \in Scans, Sweep(t)
        PROVE  jobs'[k].emailed
    BY <2>0, <2>3 DEF Sweep, ReconcileJobs, Reappeared, Table, Row
  <2>4. ASSUME NEW t \in Scans, Mark(t)
        PROVE  jobs'[k].emailed
    BY <2>0, <2>4 DEF Mark, MarkEmailed, Table, Row
  <2>5. ASSUME NEW p \in Procs, NEW gone \in SUBSET heads[p], CheckUpdate(p, gone)
        PROVE  jobs'[k].emailed
    BY <2>0, <2>5 DEF CheckUpdate, MarkRemoved, Table, Row
  <2>6. ASSUME NEW j \in Keys, RemoveJob(j) \/ HideJob(j)
        PROVE  jobs'[k].emailed
    BY <2>0, <2>6 DEF RemoveJob, HideJob, MarkRemoved, SetHidden, Table, Row
  <2>7. CASE ClearCache
    BY <2>7 DEF ClearCache, ClearJobs, Absent
  <2>8. CASE jobs' = jobs
    BY <2>8
  <2> QED
    BY <2>1, <2>2, <2>3, <2>4, <2>5, <2>6, <2>7, <2>8, JobsChange
<1> QED
  BY <1>1, TypeCorrect, SourcesTiedToJobs, PTL DEF Spec, EmailedStaysEmailed

-----------------------------------------------------------------------------
(* One run on the table: get_new_jobs, save_jobs and reconcile_jobs, with  *)
(* the keys the sites listed and, for those the filters let through, the   *)
(* source that found them.                                                 *)
Kept(ks, srcOf) == {k \in ks : srcOf[k] # NoSource}

Round(tbl, conf, succ, ks, srcOf) ==
  ReconcileJobs(SaveJobs(tbl, GetNewJobs(tbl, Kept(ks, srcOf)), srcOf), conf, succ, ks)

\* What reconcile_jobs makes of one row.
LEMMA ReconciledRow ==
  ASSUME NEW tbl \in Table, NEW conf, NEW succ, NEW ks, NEW k \in Keys
  PROVE  LET row  == ReconcileJobs(tbl, conf, succ, ks)[k]
             back == k \in Reappeared(tbl, conf, succ, ks)
             gone == k \in Vanished(tbl, conf, succ, ks)
         IN /\ row.src = tbl[k].src
            /\ back => row.st = "active" /\ ~ row.emailed
            /\ ~ back /\ gone => row.st = "removed"
            /\ ~ back /\ ~ gone => row = tbl[k]
<1> DEFINE back == k \in Reappeared(tbl, conf, succ, ks)
           gone == k \in Vanished(tbl, conf, succ, ks)
<1>1. tbl[k] \in Row
  BY DEF Table
<1>2. ReconcileJobs(tbl, conf, succ, ks)[k] =
        IF back THEN [tbl[k] EXCEPT !.st = "active", !.emailed = FALSE]
        ELSE IF gone THEN [tbl[k] EXCEPT !.st = "removed"] ELSE tbl[k]
  BY DEF ReconcileJobs
<1> HIDE DEF back, gone
<1> QED
  BY <1>1, <1>2 DEF Row, back, gone

(* Repeating a run is harmless: once its digest is recorded, a run with    *)
(* the same findings has no new job, no unemailed one, and changes no row, *)
(* whatever the table was, unless a listed job belongs to a source the     *)
(* user does not have (orchestrator.run_once after a crash, a "Run now"    *)
(* after the trigger).                                                     *)
THEOREM RepeatedRunsAreQuiet ==
  ASSUME NEW tbl \in Table, NEW conf \in SUBSET Sources, NEW succ \in SUBSET Sources,
         NEW ks \in SUBSET Keys, NEW srcOf \in [Keys -> Sources \cup {NoSource}],
         \A k \in ks : /\ tbl[k].st # "absent" => tbl[k].src \in conf \cup {NoSource}
                       /\ srcOf[k] \in conf \cup {NoSource}
  PROVE  LET after == MarkEmailed(Round(tbl, conf, succ, ks, srcOf), Keys) IN
         /\ GetNewJobs(after, Kept(ks, srcOf)) = {}
         /\ UnemailedJobs(after) = {}
         /\ Round(after, conf, succ, ks, srcOf) = after
<1> DEFINE kept == Kept(ks, srcOf)
           saved == SaveJobs(tbl, GetNewJobs(tbl, kept), srcOf)
           done  == ReconcileJobs(saved, conf, succ, ks)
           after == MarkEmailed(done, Keys)
<1>1. saved \in Table /\ done \in Table /\ after \in Table
  BY SaveTyping, ReconcileTyping, TableTyping DEF GetNewJobs, Kept
<1>2. \A k \in ks : saved[k].st # "absent" => saved[k].src \in conf \cup {NoSource}
  BY DEF SaveJobs, GetNewJobs, KnownKeys, Inserted, Kept
<1>3. \A k \in kept : saved[k].st # "absent"
  BY DEF SaveJobs, GetNewJobs, KnownKeys, Inserted, Kept
<1> HIDE DEF saved
<1>4. ASSUME NEW k \in Keys
      PROVE  /\ saved[k].st = "absent" <=> done[k].st = "absent"
             /\ done[k].src = saved[k].src
             /\ k \in ks => done[k].st # "removed"
             /\ k \notin ks /\ done[k].st = "active" /\ done[k].src # NoSource =>
                  done[k].src \notin succ /\ done[k].src \in conf
  <2> DEFINE back == k \in Reappeared(saved, conf, succ, ks)
             gone == k \in Vanished(saved, conf, succ, ks)
  <2>1. /\ done[k].src = saved[k].src
        /\ back => done[k].st = "active"
        /\ ~ back /\ gone => done[k].st = "removed"
        /\ ~ back /\ ~ gone => done[k] = saved[k]
    BY <1>1, ReconciledRow
  <2>2. back <=> k \in ks /\ (saved[k].st = "removed" \/ gone)
    BY DEF Reappeared
  <2>3. gone <=> /\ saved[k].st = "active" /\ saved[k].src # NoSource
                 /\ \/ saved[k].src \in succ /\ k \notin ks
                    \/ saved[k].src \notin conf
    BY DEF Vanished, ActiveKeys
  <2>4. saved[k].st \in {"absent", "active", "removed"}
    BY <1>1 DEF Table, Row
  <2> HIDE DEF back, gone, done
  <2> QED
    BY <2>1, <2>2, <2>3, <2>4
<1> HIDE DEF done
<1>6. ASSUME NEW k \in Keys
      PROVE  /\ after[k].st = done[k].st /\ after[k].src = done[k].src
             /\ done[k].st # "absent" => after[k].emailed
  BY <1>1 DEF Table, Row, MarkEmailed, KnownKeys
<1> HIDE DEF after
<1>7. GetNewJobs(after, kept) = {}
  BY <1>3, <1>4, <1>6 DEF GetNewJobs, KnownKeys, Kept
<1>8. UnemailedJobs(after) = {}
  BY <1>6 DEF UnemailedJobs, ActiveKeys
<1>9. SaveJobs(after, {}, srcOf) = after
  BY <1>1 DEF SaveJobs, Table
<1>10. \A k \in Keys : k \notin Reappeared(after, conf, succ, ks)
  <2>1. \A k \in ks : after[k].st # "removed"
    BY <1>4, <1>6
  <2>2. \A k \in ks : k \notin Vanished(after, conf, succ, ks)
    BY <1>2, <1>4, <1>6 DEF Vanished, ActiveKeys
  <2> QED
    BY <2>1, <2>2 DEF Reappeared
<1>11. \A k \in Keys : k \notin Vanished(after, conf, succ, ks)
  <2>1. \A k \in ks : k \notin Vanished(after, conf, succ, ks)
    BY <1>2, <1>4, <1>6 DEF Vanished, ActiveKeys
  <2>2. \A k \in Keys \ ks : k \notin Vanished(after, conf, succ, ks)
    BY <1>4, <1>6 DEF Vanished, ActiveKeys
  <2> QED
    BY <2>1, <2>2
<1>12. ReconcileJobs(after, conf, succ, ks) = after
  BY <1>1, <1>10, <1>11 DEF ReconcileJobs, Table
<1> QED
  BY <1>7, <1>8, <1>9, <1>12 DEF Round, after, done, saved

-----------------------------------------------------------------------------
(* LockReturned, but for the fairness: how far a holder of _run_lock is    *)
(* from giving it back, and the sources it has not tried yet.              *)
StepsLeft(l) ==
  CASE l = "scrape"                 -> 6
    [] l = "save"                   -> 5
    [] l = "reconcile"              -> 4
    [] l = "check"                  -> 3
    [] l \in {"heads", "sweep"}     -> 2
    [] l \in {"finish", "sweepall"} -> 1
    [] OTHER                        -> 0

Untried(p) == IF p \in Scans THEN todo[p] ELSE {}

Works(p) ==
  \/ p \in Scans /\ ScanStep(p)
  \/ p \in Checkers /\ CheckerStep(p)
  \/ UrlCheck(p)

Nearer(p) ==
  \/ StepsLeft(pc'[p]) < StepsLeft(pc[p])
  \/ pc'[p] = pc[p] /\ Untried(p)' \subseteq Untried(p) /\ Untried(p)' # Untried(p)

HolderNearsRelease ==
  [][\A p \in Procs : lock = p /\ lock' = p =>
       /\ Works(p) => Nearer(p)
       /\ Nearer(p) \/ UNCHANGED <<pc[p], Untried(p)>>]_vars

\* Where a holder can be: at places that a step of its own leaves.
HolderAtWork ==
  \A p \in Procs : lock = p =>
    pc[p] \in {"check", "heads", "finish"}
              \cup (IF p \in Scans THEN {"scrape", "save", "reconcile", "sweep", "sweepall"} ELSE {})

LEMMA HolderWorks ==
  ASSUME TypeOK, ProgressTellsTheTruth, NEW p \in Procs, lock = p, lock' = p, Works(p)
  PROVE  Nearer(p)
<1>1. pc[p] \in InLock /\ lock' # NoProc /\ pc \in [Procs -> PCs]
  BY ProcsAssumption DEF ProgressTellsTheTruth, TypeOK
<1>2. ASSUME p \in Scans, ScanStep(p)
      PROVE  Nearer(p)
  <2>1. \/ SweepNeeded(p) \/ Compare(p) \/ Save(p) \/ Reconcile(p)
        \/ \E s \in Sources : ScrapeFails(p, s) \/ \E listed \in SUBSET Lists[s] : Scrape(p, s, listed)
    <3>1. ~ (Snapshot(p) \/ SkipDay(p) \/ RecordEmptyRun(p) \/ BeginSweep(p) \/ Begin(p))
      BY <1>1 DEF Snapshot, SkipDay, RecordEmptyRun, BeginSweep, Begin, Goto, InLock
    <3>2. ~ (Rescue(p) \/ Filter(p) \/ Deliver(p) \/ DeliverFails(p) \/ Mark(p) \/ Rearm(p))
      BY <1>1 DEF Rescue, Filter, Deliver, DeliverFails, Mark, Rearm, Goto, InLock
    <3>3. ~ (SweepNotNeeded(p) \/ Sweep(p) \/ Finish(p))
      BY <1>1 DEF SweepNotNeeded, Sweep, Finish, GiveLock
    <3> QED
      BY <1>2, <3>1, <3>2, <3>3 DEF ScanStep
  <2>2. CASE SweepNeeded(p) \/ Compare(p) \/ Save(p) \/ Reconcile(p)
    <3>1. \/ pc[p] = "sweep" /\ pc'[p] = "sweepall"
          \/ pc[p] = "scrape" /\ pc'[p] = "save"
          \/ pc[p] = "save" /\ pc'[p] = "reconcile"
          \/ pc[p] = "reconcile" /\ pc'[p] = "check"
      BY <1>1, <2>2 DEF SweepNeeded, Compare, Save, Reconcile, Goto
    <3> QED
      BY <3>1 DEF Nearer, StepsLeft
  <2>3. ASSUME NEW s \in Sources,
               ScrapeFails(p, s) \/ \E listed \in SUBSET Lists[s] : Scrape(p, s, listed)
        PROVE  Nearer(p)
    <3>1. pc'[p] = pc[p] /\ s \in todo[p] /\ todo' = [todo EXCEPT ![p] = @ \ {s}]
      BY <1>1, <2>3 DEF ScrapeFails, Scrape, Goto
    <3>2. todo'[p] = todo[p] \ {s}
      BY <1>2, <3>1 DEF TypeOK
    <3> QED
      BY <1>2, <3>1, <3>2 DEF Nearer, Untried
  <2> QED
    BY <2>1, <2>2, <2>3
<1>3. ASSUME p \in Checkers, CheckerStep(p)
      PROVE  Nearer(p)
  BY <1>1, <1>3 DEF CheckerStep, RequestCheck, BeginCheck, FinishCheck, GiveLock, Goto, InLock
<1>4. ASSUME UrlCheck(p)
      PROVE  Nearer(p)
  <2>1. \/ pc[p] = "check" /\ pc'[p] = "heads"
        \/ pc[p] = "heads" /\ pc'[p] = "finish"
    BY <1>1, <1>4 DEF UrlCheck, CheckSelect, CheckUpdate, Goto
  <2> QED
    BY <2>1 DEF Nearer, StepsLeft
<1> QED
  BY <1>2, <1>3, <1>4 DEF Works

LEMMA OthersLeaveTheHolder ==
  ASSUME TypeOK, NEW q \in Procs, Works(q), NEW p \in Procs, p # q
  PROVE  UNCHANGED <<pc[p], Untried(p)>>
<1> USE ProcsAssumption DEF TypeOK, Goto, Untried
<1>1. ASSUME q \in Scans, ScanStep(q)
      PROVE  UNCHANGED <<pc[p], Untried(p)>>
  <2>1. CASE Snapshot(q) \/ SkipDay(q) \/ RecordEmptyRun(q) \/ BeginSweep(q) \/ Begin(q)
    BY <1>1, <2>1 DEF Snapshot, SkipDay, RecordEmptyRun, BeginSweep, Begin
  <2>2. CASE SweepNotNeeded(q) \/ SweepNeeded(q) \/ Sweep(q) \/ Finish(q)
    BY <1>1, <2>2 DEF SweepNotNeeded, SweepNeeded, Sweep, Finish
  <2>3. ASSUME NEW s \in Sources,
               ScrapeFails(q, s) \/ \E listed \in SUBSET Lists[s] : Scrape(q, s, listed)
        PROVE  UNCHANGED <<pc[p], Untried(p)>>
    BY <1>1, <2>3 DEF ScrapeFails, Scrape
  <2>4. CASE Compare(q) \/ Save(q) \/ Reconcile(q)
    BY <1>1, <2>4 DEF Compare, Save, Reconcile
  <2>5. CASE Rescue(q) \/ Filter(q) \/ Deliver(q) \/ DeliverFails(q) \/ Mark(q)
    BY <1>1, <2>5 DEF Rescue, Filter, Deliver, DeliverFails, Mark
  <2>6. CASE Rearm(q)
    BY <1>1, <2>6 DEF Rearm
  <2> QED
    BY <1>1, <2>1, <2>2, <2>3, <2>4, <2>5, <2>6 DEF ScanStep
<1>2. ASSUME q \in Checkers, CheckerStep(q)
      PROVE  UNCHANGED <<pc[p], Untried(p)>>
  BY <1>2 DEF CheckerStep, RequestCheck, BeginCheck, FinishCheck
<1>3. ASSUME UrlCheck(q)
      PROVE  UNCHANGED <<pc[p], Untried(p)>>
  BY <1>3 DEF UrlCheck, CheckSelect, CheckUpdate
<1> QED
  BY <1>1, <1>2, <1>3 DEF Works

(* Whoever holds _run_lock and takes a step gives it back or comes nearer  *)
(* to it, and no step of another thread or of the user sets it back: every *)
(* path through run_once, check_job_urls and the sweep ends (orchestrator. *)
(* py:64-129, checker.py).  A holder is never where it has no next step.   *)
(* What is missing to LockReturned is that it takes it (weak fairness).    *)
THEOREM HoldersNearRelease == Spec => HolderNearsRelease /\ []HolderAtWork
<1>1. TypeOK /\ ProgressTellsTheTruth /\ [Next]_vars =>
        [\A p \in Procs : lock = p /\ lock' = p =>
           /\ Works(p) => Nearer(p)
           /\ Nearer(p) \/ UNCHANGED <<pc[p], Untried(p)>>]_vars
  <2> SUFFICES ASSUME TypeOK, ProgressTellsTheTruth, [Next]_vars,
                      NEW p \in Procs, lock = p, lock' = p
               PROVE  Nearer(p) \/ (~ Works(p) /\ UNCHANGED <<pc[p], Untried(p)>>)
    BY HolderWorks
  <2>1. SUFFICES ASSUME ~ Works(p) PROVE UNCHANGED <<pc[p], Untried(p)>>
    BY HolderWorks
  <2>2. ASSUME NEW q \in Procs, Works(q)
        PROVE  UNCHANGED <<pc[p], Untried(p)>>
    BY <2>1, <2>2, OthersLeaveTheHolder
  <2>3. ASSUME NEW q \in Procs, Raise(q)
        PROVE  UNCHANGED <<pc[p], Untried(p)>>
    <3>1. q # p
      BY <2>3, ProcsAssumption DEF Raise, LockAfterRaise, ProgressTellsTheTruth
    <3> QED
      BY <2>3, <3>1 DEF Raise, TypeOK, Untried
  <2>4. ~ Crash
    BY ProcsAssumption DEF Crash
  <2>5. CASE UserStep
    <3>1. UNCHANGED <<pc, todo>>
      BY <2>5 DEF UserStep, AddSource, ImportSources, DeleteSource, ToggleSource, RemoveJob, HideJob,
                  ClearCache, SavePreferences, Edit
    <3> QED
      BY <3>1 DEF Untried
  <2>6. CASE UNCHANGED vars
    BY <2>6 DEF Untried
  <2> QED
    BY <2>2, <2>3, <2>4, <2>5, <2>6 DEF Next, Works, Procs
<1>2. Init => HolderAtWork
  BY ProcsAssumption DEF Init, HolderAtWork
<1>3. TypeOK /\ ProgressTellsTheTruth /\ HolderAtWork /\ [Next]_vars => HolderAtWork'
  <2> SUFFICES ASSUME TypeOK, ProgressTellsTheTruth, HolderAtWork, [Next]_vars
               PROVE  HolderAtWork'
    OBVIOUS
  <2> USE ProcsAssumption DEF HolderAtWork, Goto, TakeLock, GiveLock
  <2>0. pc \in [Procs -> PCs] /\ NoProc \notin Procs /\ Scans \cap Checkers = {}
        /\ \A p \in Procs : lock = p <=> pc[p] \in InLock
    BY DEF TypeOK, ProgressTellsTheTruth
  <2>1. ASSUME NEW t \in Scans, ScanStep(t)
        PROVE  HolderAtWork'
    <3>0. t \in Procs
      BY DEF Procs
    <3>1. CASE \/ Snapshot(t) \/ SkipDay(t) \/ RecordEmptyRun(t) \/ Rescue(t) \/ Filter(t)
               \/ Deliver(t) \/ DeliverFails(t) \/ Mark(t) \/ Rearm(t)
      <4>1. lock' = lock /\ pc[t] \notin InLock /\ pc' = [pc EXCEPT ![t] = pc'[t]]
        BY <2>0, <3>0, <3>1 DEF Snapshot, SkipDay, RecordEmptyRun, Rescue, Filter, Deliver,
                                DeliverFails, Mark, Rearm, InLock
      <4> QED
        BY <2>0, <3>0, <4>1
    <3>2. CASE BeginSweep(t) \/ Begin(t)
      BY <2>0, <3>0, <3>2 DEF BeginSweep, Begin
    <3>3. CASE SweepNotNeeded(t) \/ Sweep(t) \/ Finish(t)
      BY <2>0, <3>3 DEF SweepNotNeeded, Sweep, Finish
    <3>4. CASE SweepNeeded(t) \/ Compare(t) \/ Save(t) \/ Reconcile(t)
      BY <2>0, <3>0, <3>4 DEF SweepNeeded, Compare, Save, Reconcile, InLock
    <3>5. ASSUME NEW s \in Sources,
                 ScrapeFails(t, s) \/ \E listed \in SUBSET Lists[s] : Scrape(t, s, listed)
          PROVE  HolderAtWork'
      BY <2>0, <3>0, <3>5 DEF ScrapeFails, Scrape, InLock
    <3> QED
      BY <2>1, <3>1, <3>2, <3>3, <3>4, <3>5 DEF ScanStep
  <2>2. ASSUME NEW c \in Checkers, CheckerStep(c)
        PROVE  HolderAtWork'
    <3>0. c \in Procs
      BY DEF Procs
    <3>1. CASE RequestCheck(c)
      BY <2>0, <3>0, <3>1 DEF RequestCheck, InLock
    <3>2. CASE BeginCheck(c)
      BY <2>0, <3>0, <3>2 DEF BeginCheck
    <3>3. CASE FinishCheck(c)
      BY <2>0, <3>3 DEF FinishCheck
    <3> QED
      BY <2>2, <3>1, <3>2, <3>3 DEF CheckerStep
  <2>3. ASSUME NEW p \in Procs, UrlCheck(p)
        PROVE  HolderAtWork'
    BY <2>0, <2>3 DEF UrlCheck, CheckSelect, CheckUpdate, InLock
  <2>4. ASSUME NEW p \in Procs, Raise(p)
        PROVE  HolderAtWork'
    BY <2>0, <2>4 DEF Raise, LockAfterRaise
  <2>5. CASE Crash
    BY <2>0, <2>5 DEF Crash
  <2>6. CASE UserStep
    <3>1. UNCHANGED <<pc, lock>>
      BY <2>6 DEF UserStep, AddSource, ImportSources, DeleteSource, ToggleSource, RemoveJob, HideJob,
                  ClearCache, SavePreferences, Edit
    <3> QED
      BY <3>1
  <2>7. CASE UNCHANGED vars
    BY <2>7
  <2> QED
    BY <2>1, <2>2, <2>3, <2>4, <2>5, <2>6, <2>7 DEF Next
<1> QED
  BY <1>1, <1>2, <1>3, TypeCorrect, ProgressIsTruthful, PTL DEF Spec, HolderNearsRelease
=============================================================================
