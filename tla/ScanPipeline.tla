---------------------------- MODULE ScanPipeline ----------------------------
(***************************************************************************)
(* The scan pipeline of one user: run_and_notify (app/scheduler.py) around *)
(* run_once (app/orchestrator.py), the URL-check background task           *)
(* (app/web/routes_dashboard.py), and the web handlers that write the same *)
(* rows while those threads run.                                           *)
(*                                                                         *)
(* A scan thread reads the user's sources and settings, waits for          *)
(* orchestrator._run_lock, scrapes, saves and reconciles under it, gives   *)
(* it back, and only then builds, sends and records the digest.  Every     *)
(* action below is one transaction on the database or one step of a thread *)
(* between two of them; what happens inside a transaction is not split.    *)
(*                                                                         *)
(* Left to other modules or left out: the loop over several users, the     *)
(* connection pool, the geocoding step (it writes other tables), the URL   *)
(* column and refresh_job_urls (only the checker's verdict depends on it,  *)
(* and any verdict is possible here), and the wording of the digest.       *)
(***************************************************************************)
EXTENDS JobTable, Naturals

CONSTANTS
  Scans,      \* invocations of run_and_notify
  Daily,      \* those of the cron trigger, which fires again once it ended
  Checkers,   \* invocations of "Check job URLs"
  NoProc,     \* the lock is free
  Lists,      \* Lists[s]: the keys the site behind source s may list
  Screened,   \* Screened[s]: the keys the keyword filters of s let through
  Seeded,     \* the sources configured at the start
  Edits,      \* the kinds of edit the user makes while the threads run
  MaxEdits,   \* how many of them
  MaxFaults   \* how many exceptions and process crashes

Procs == Scans \cup Checkers

ASSUME ProcsAssumption ==
  /\ Scans \cap Checkers = {}
  /\ Daily \subseteq Scans
  /\ NoProc \notin Procs

ASSUME ListsAssumption ==
  /\ Lists \in [Sources -> SUBSET Keys]
  /\ Screened \in [Sources -> SUBSET Keys]
  /\ Seeded \subseteq Sources

ASSUME BoundsAssumption == MaxEdits \in Nat /\ MaxFaults \in Nat

VARIABLES
  jobs,      \* the user's rows of the jobs table
  sources,   \* the user's rows of the sources table
  resend,    \* settings.resend_jobs
  lock,      \* the thread that holds orchestrator._run_lock
  progress,  \* whether run_progress has an entry for the user
  runs,      \* the row of the runs table each invocation wrote
  pc,        \* where each thread is
  snap,      \* the source list a scan was started with
  todo,      \* its enabled sources not scraped yet
  ok,        \* succeeded_source_ids
  raw,       \* keys of all_raw_jobs
  found,     \* deduped_jobs: key -> the source that listed it last
  new,       \* summary.new_jobs
  again,     \* the resend_jobs setting the scan read
  send,      \* jobs_to_send
  heads,     \* the keys whose URLs a check pass looks up
  edits, faults, \* how much of the bounds is used
  \* History, read by no action:
  epoch,     \* how often the user cleared the jobs table
  born,      \* the epoch in which a scan computed new_jobs
  mailed,    \* digests that carried the job since it was inserted or came back
  fresh      \* the sources configured since a scan's Snapshot

table   == <<jobs, sources, resend>>
threads == <<snap, todo, ok, raw, found, new, again, send, heads>>
budget  == <<edits, faults>>
history == <<epoch, born, mailed, fresh>>
vars    == <<table, lock, progress, runs, pc, threads, budget, history>>

SourceStates == {"unborn", "enabled", "disabled", "deleted"}

InLock == {"scrape", "compare", "save", "reconcile", "check", "heads",
           "finish", "sweep", "sweepall"}

PCs == {"idle", "wait", "emptywait", "rescue", "filter", "deliver", "mark", "done"} \cup InLock

\* The steps of run_once between run_progress.start and run_progress.finish.
Scanning == {"scrape", "compare", "save", "reconcile", "check", "heads", "finish"}

EditKinds == {"add", "import", "delete", "toggle", "clear", "remove", "hide", "resend"}

MailCap == 2   \* counting mails stops here: two is already one too many

TypeOK ==
  /\ jobs \in Table
  /\ sources \in [Sources -> SourceStates]
  /\ resend \in BOOLEAN
  /\ lock \in Procs \cup {NoProc}
  /\ progress \in BOOLEAN
  /\ runs \in [Procs -> {"none", "open", "finished"}]
  /\ pc \in [Procs -> PCs]
  /\ snap \in [Scans -> SUBSET Sources]
  /\ todo \in [Scans -> SUBSET Sources]
  /\ ok \in [Scans -> SUBSET Sources]
  /\ raw \in [Scans -> SUBSET Keys]
  /\ found \in [Scans -> [Keys -> Sources \cup {NoSource}]]
  /\ new \in [Scans -> SUBSET Keys]
  /\ again \in [Scans -> BOOLEAN]
  /\ send \in [Scans -> SUBSET Keys]
  /\ heads \in [Procs -> SUBSET Keys]
  /\ edits \in 0..MaxEdits
  /\ faults \in 0..MaxFaults
  /\ epoch \in Nat
  /\ born \in [Scans -> Nat]
  /\ mailed \in [Keys -> 0..MailCap]
  /\ fresh \in [Scans -> SUBSET Sources]

NothingFound == [k \in Keys |-> NoSource]

Init ==
  /\ jobs = [k \in Keys |-> Absent]
  /\ sources = [s \in Sources |-> IF s \in Seeded THEN "enabled" ELSE "unborn"]
  /\ resend = FALSE
  /\ lock = NoProc
  /\ progress = FALSE
  /\ runs = [p \in Procs |-> "none"]
  /\ pc = [p \in Procs |-> "idle"]
  /\ snap = [t \in Scans |-> {}]
  /\ todo = [t \in Scans |-> {}]
  /\ ok = [t \in Scans |-> {}]
  /\ raw = [t \in Scans |-> {}]
  /\ found = [t \in Scans |-> NothingFound]
  /\ new = [t \in Scans |-> {}]
  /\ again = [t \in Scans |-> FALSE]
  /\ send = [t \in Scans |-> {}]
  /\ heads = [p \in Procs |-> {}]
  /\ edits = 0
  /\ faults = 0
  /\ epoch = 0
  /\ born = [t \in Scans |-> 0]
  /\ mailed = [k \in Keys |-> 0]
  /\ fresh = [t \in Scans |-> {}]

-----------------------------------------------------------------------------
Goto(p, from, to) ==
  /\ pc[p] = from
  /\ pc' = [pc EXCEPT ![p] = to]

\* with _run_lock: is entered, and left, by p.
TakeLockUnchecked(p) == lock' = p
TakeLock(p) == lock = NoProc /\ lock' = p
GiveLock    == lock' = NoProc

Configured == {s \in Sources : sources[s] \in {"enabled", "disabled"}}
Enabled    == {s \in Sources : sources[s] = "enabled"}
FoundKeys(t) == {k \in Keys : found[t][k] # NoSource}

CappedSum(n) == IF n < MailCap THEN n + 1 ELSE MailCap

-----------------------------------------------------------------------------
(* run_and_notify reads the sources and _run_user the settings, both       *)
(* before the lock is asked for.                                           *)
SnapshotEnabledOnly(t) ==
  /\ Configured # {}
  /\ Goto(t, "idle", "wait")
  /\ snap' = [snap EXCEPT ![t] = Enabled]
  /\ todo' = [todo EXCEPT ![t] = Enabled]
  /\ again' = [again EXCEPT ![t] = resend]
  /\ fresh' = [fresh EXCEPT ![t] = {}]
  /\ UNCHANGED <<table, lock, progress, runs, ok, raw, found, new, send, heads, budget,
                 epoch, born, mailed>>

Snapshot(t) ==
  /\ Configured # {}
  /\ Goto(t, "idle", "wait")
  /\ snap' = [snap EXCEPT ![t] = Configured]
  /\ todo' = [todo EXCEPT ![t] = Enabled]
  /\ again' = [again EXCEPT ![t] = resend]
  /\ fresh' = [fresh EXCEPT ![t] = {}]
  /\ UNCHANGED <<table, lock, progress, runs, ok, raw, found, new, send, heads, budget,
                 epoch, born, mailed>>

(* The day is not one the user selected: nothing is scanned and nothing is *)
(* recorded.  A "Run now" forces the run; the cron trigger does not.       *)
SkipDay(t) ==
  /\ t \in Daily
  /\ Configured # {}
  /\ Goto(t, "idle", "done")
  /\ UNCHANGED <<table, lock, progress, runs, threads, budget, history>>

(* No source: an empty run is recorded as started and finished, and the    *)
(* thread asks for the lock to sweep the user's leftover jobs.             *)
RecordEmptyRun(t) ==
  /\ Configured = {}
  /\ Goto(t, "idle", "emptywait")
  /\ runs' = [runs EXCEPT ![t] = "finished"]
  /\ UNCHANGED <<table, lock, progress, threads, budget, history>>

BeginSweep(t) ==
  /\ Goto(t, "emptywait", "sweep")
  /\ TakeLock(t)
  /\ UNCHANGED <<table, progress, runs, threads, budget, history>>

(* The re-check of list_sources under the lock finds a source: no sweep.   *)
SweepNotNeeded(t) ==
  /\ Configured # {}
  /\ Goto(t, "sweep", "done")
  /\ GiveLock
  /\ UNCHANGED <<table, progress, runs, threads, budget, history>>

SweepUnchecked(t) ==
  /\ Goto(t, "sweep", "sweepall")
  /\ UNCHANGED <<table, lock, progress, runs, threads, budget, history>>

SweepNeeded(t) ==
  /\ Configured = {}
  /\ Goto(t, "sweep", "sweepall")
  /\ UNCHANGED <<table, lock, progress, runs, threads, budget, history>>

(* reconcile_jobs(conn, user_id, set(), set(), [])                         *)
Sweep(t) ==
  /\ Goto(t, "sweepall", "done")
  /\ jobs' = ReconcileJobs(jobs, {}, {}, {})
  /\ GiveLock
  /\ UNCHANGED <<sources, resend, progress, runs, threads, budget, history>>

-----------------------------------------------------------------------------
(* run_once: the lock, the progress entry, the runs row.                   *)
Begin(t) ==
  /\ Goto(t, "wait", "scrape")
  /\ TakeLock(t)
  /\ progress' = TRUE
  /\ runs' = [runs EXCEPT ![t] = "open"]
  /\ UNCHANGED <<table, threads, budget, history>>

(* One source answers with some of the jobs its site may list.  The        *)
(* sources come in an order the user changes by renaming them: any order.  *)
Scrape(t, s, listed) ==
  /\ Goto(t, "scrape", "scrape")
  /\ s \in todo[t]
  /\ todo' = [todo EXCEPT ![t] = @ \ {s}]
  /\ ok' = [ok EXCEPT ![t] = @ \cup {s}]
  /\ raw' = [raw EXCEPT ![t] = @ \cup listed]
  /\ found' = [found EXCEPT ![t] =
                 [k \in Keys |-> IF k \in listed \cap Screened[s] THEN s ELSE @[k]]]
  /\ UNCHANGED <<table, lock, progress, runs, snap, new, again, send, heads, budget, history>>

(* The adapter raises: the source counts as failed, the loop goes on.      *)
ScrapeFailsCounted(t, s) ==
  /\ Goto(t, "scrape", "scrape")
  /\ s \in todo[t]
  /\ todo' = [todo EXCEPT ![t] = @ \ {s}]
  /\ ok' = [ok EXCEPT ![t] = @ \cup {NoSource}]
  /\ UNCHANGED <<table, lock, progress, runs, snap, raw, found, new, again, send, heads,
                 budget, history>>

ScrapeFails(t, s) ==
  /\ Goto(t, "scrape", "scrape")
  /\ s \in todo[t]
  /\ todo' = [todo EXCEPT ![t] = @ \ {s}]
  /\ UNCHANGED <<table, lock, progress, runs, snap, ok, raw, found, new, again, send, heads,
                 budget, history>>

(* get_new_jobs, once every enabled source was tried.                      *)
Compare(t) ==
  /\ todo[t] = {}
  /\ Goto(t, "scrape", "save")
  /\ new' = [new EXCEPT ![t] = GetNewJobs(jobs, FoundKeys(t))]
  /\ born' = [born EXCEPT ![t] = epoch]
  /\ UNCHANGED <<table, lock, progress, runs, snap, todo, ok, raw, found, again, send, heads,
                 budget, epoch, mailed, fresh>>

Save(t) ==
  /\ Goto(t, "save", "reconcile")
  /\ jobs' = SaveJobs(jobs, new[t], found[t])
  /\ mailed' = [k \in Keys |-> IF k \in new[t] \ KnownKeys(jobs) THEN 0 ELSE mailed[k]]
  /\ UNCHANGED <<sources, resend, lock, progress, runs, threads, budget, epoch, born, fresh>>

Reconcile(t) ==
  /\ Goto(t, "reconcile", "check")
  /\ jobs' = ReconcileJobs(jobs, snap[t], ok[t], raw[t])
  /\ mailed' = [k \in Keys |->
       IF k \in Reappeared(jobs, snap[t], ok[t], raw[t]) THEN 0 ELSE mailed[k]]
  /\ UNCHANGED <<sources, resend, lock, progress, runs, threads, budget, epoch, born, fresh>>

(* check_job_urls selects the active rows ...                              *)
CheckSelect(p) ==
  /\ Goto(p, "check", "heads")
  /\ heads' = [heads EXCEPT ![p] = ActiveKeys(jobs)]
  /\ UNCHANGED <<table, lock, progress, runs, snap, todo, ok, raw, found, new, again, send,
                 budget, history>>

(* ... and up to a minute later marks those that answered 404 or 410.  The *)
(* ones not answered within the deadline are left alone.                   *)
CheckUpdate(p, gone) ==
  /\ gone \subseteq heads[p]
  /\ Goto(p, "heads", "finish")
  /\ jobs' = MarkRemoved(jobs, gone)
  /\ heads' = [heads EXCEPT ![p] = {}]
  /\ UNCHANGED <<sources, resend, lock, progress, runs, snap, todo, ok, raw, found, new, again,
                 send, budget, history>>

(* finish_run, run_progress.finish, and the lock is given back.            *)
FinishWithoutRow(t) ==
  /\ Goto(t, "finish", "rescue")
  /\ progress' = FALSE
  /\ GiveLock
  /\ UNCHANGED <<table, runs, threads, budget, history>>

Finish(t) ==
  /\ Goto(t, "finish", "rescue")
  /\ runs' = [runs EXCEPT ![t] = "finished"]
  /\ progress' = FALSE
  /\ GiveLock
  /\ UNCHANGED <<table, threads, budget, history>>

-----------------------------------------------------------------------------
(* The digest, without the lock.  jobs_to_send: what the run found or what *)
(* it found new, and every active job no digest has carried.               *)
JobsWithoutRescue(t) == IF again[t] THEN FoundKeys(t) ELSE new[t]
JobsToSend(t) == (IF again[t] THEN FoundKeys(t) ELSE new[t]) \cup UnemailedJobs(jobs)

Rescue(t) ==
  /\ Goto(t, "rescue", "filter")
  /\ send' = [send EXCEPT ![t] = JobsToSend(t)]
  /\ UNCHANGED <<table, lock, progress, runs, snap, todo, ok, raw, found, new, again, heads,
                 budget, history>>

(* Duplicates and excluded statuses are dropped; with no job left there is *)
(* nothing to record (a digest of failed sources alone marks no job).      *)
Filter(t) ==
  LET shown == {k \in send[t] : ~jobs[k].hidden} IN
  /\ Goto(t, "filter", IF shown = {} THEN "done" ELSE "deliver")
  /\ send' = [send EXCEPT ![t] = shown]
  /\ UNCHANGED <<table, lock, progress, runs, snap, todo, ok, raw, found, new, again, heads,
                 budget, history>>

(* send_email returns: every job of jobs_to_send was mailed.  What the     *)
(* user asked to be sent again (resend_jobs) is no second report.          *)
Deliver(t) ==
  /\ Goto(t, "deliver", "mark")
  /\ mailed' = [k \in Keys |->
       IF k \in send[t] /\ ~(again[t] /\ mailed[k] > 0) THEN CappedSum(mailed[k]) ELSE mailed[k]]
  /\ UNCHANGED <<table, lock, progress, runs, threads, budget, epoch, born, fresh>>

(* No settings, no recipients, no SMTP host, or send_email raises: the     *)
(* digest is dropped and its jobs stay unemailed.                          *)
DeliverFailsMarked(t) ==
  /\ Goto(t, "deliver", "mark")
  /\ UNCHANGED <<table, lock, progress, runs, threads, budget, history>>

DeliverFails(t) ==
  /\ Goto(t, "deliver", "done")
  /\ UNCHANGED <<table, lock, progress, runs, threads, budget, history>>

MarkNewOnly(t) ==
  /\ Goto(t, "mark", "done")
  /\ jobs' = MarkEmailed(jobs, new[t])
  /\ UNCHANGED <<sources, resend, lock, progress, runs, threads, budget, history>>

Mark(t) ==
  /\ Goto(t, "mark", "done")
  /\ jobs' = MarkEmailed(jobs, send[t])
  /\ UNCHANGED <<sources, resend, lock, progress, runs, threads, budget, history>>

(* The cron trigger fires again.  APScheduler runs one instance of a job   *)
(* at a time (external).                                                   *)
Rearm(t) ==
  /\ t \in Daily
  /\ Goto(t, "done", "idle")
  /\ runs' = [runs EXCEPT ![t] = "none"]
  /\ snap' = [snap EXCEPT ![t] = {}]
  /\ todo' = [todo EXCEPT ![t] = {}]
  /\ ok' = [ok EXCEPT ![t] = {}]
  /\ raw' = [raw EXCEPT ![t] = {}]
  /\ found' = [found EXCEPT ![t] = NothingFound]
  /\ new' = [new EXCEPT ![t] = {}]
  /\ again' = [again EXCEPT ![t] = FALSE]
  /\ send' = [send EXCEPT ![t] = {}]
  /\ heads' = [heads EXCEPT ![t] = {}]
  /\ born' = [born EXCEPT ![t] = 0]
  /\ fresh' = [fresh EXCEPT ![t] = {}]
  /\ UNCHANGED <<table, lock, progress, budget, epoch, mailed>>

-----------------------------------------------------------------------------
(* "Check job URLs": the handler opens the runs row, the background task   *)
(* takes the lock, checks, and finishes the row.                           *)
RequestCheck(c) ==
  /\ Goto(c, "idle", "wait")
  /\ runs' = [runs EXCEPT ![c] = "open"]
  /\ UNCHANGED <<table, lock, progress, threads, budget, history>>

BeginCheck(c) ==
  /\ Goto(c, "wait", "check")
  /\ TakeLock(c)
  /\ UNCHANGED <<table, progress, runs, threads, budget, history>>

FinishCheck(c) ==
  /\ Goto(c, "finish", "done")
  /\ runs' = [runs EXCEPT ![c] = "finished"]
  /\ GiveLock
  /\ UNCHANGED <<table, progress, threads, budget, history>>

-----------------------------------------------------------------------------
(* A statement raises.  Under the lock, run_once's finally clause takes    *)
(* the progress entry away, no summary is returned, and both with          *)
(* statements give the lock back; the thread logs the exception and ends.  *)
LockKept(p) == lock
LockAfterRaise(p) == IF pc[p] \in InLock THEN NoProc ELSE lock

ProgressKept(p) == progress
ProgressAfterRaise(p) == IF p \in Scans /\ pc[p] \in Scanning THEN FALSE ELSE progress

Raise(p) ==
  /\ faults < MaxFaults
  /\ faults' = faults + 1
  /\ pc[p] \in InLock \cup {"rescue", "filter", "mark"}
  /\ pc' = [pc EXCEPT ![p] = "done"]
  /\ lock' = LockAfterRaise(p)
  /\ progress' = ProgressAfterRaise(p)
  /\ new' = [t \in Scans |-> IF t = p /\ pc[t] \in Scanning THEN {} ELSE new[t]]
  /\ UNCHANGED <<table, runs, snap, todo, ok, raw, found, again, send, heads, edits, history>>

(* The process dies and comes back: the lock, the progress entries and the *)
(* threads were memory, the tables were not.                               *)
Crash ==
  /\ faults < MaxFaults
  /\ faults' = faults + 1
  /\ pc' = [p \in Procs |-> IF pc[p] = "idle" THEN "idle" ELSE "done"]
  /\ lock' = NoProc
  /\ progress' = FALSE
  /\ new' = [t \in Scans |-> IF pc[t] \in Scanning THEN {} ELSE new[t]]
  /\ UNCHANGED <<table, runs, snap, todo, ok, raw, found, again, send, heads, edits, history>>

-----------------------------------------------------------------------------
(* The user's own requests; none of them takes the lock.                   *)
Edit(kind) ==
  /\ kind \in Edits
  /\ edits < MaxEdits
  /\ edits' = edits + 1
  /\ UNCHANGED <<lock, progress, runs, pc, threads, faults, born>>

\* Scans under way will not know these sources.
Unnoticed(ids) == fresh' = [t \in Scans |-> IF pc[t] \in {"idle", "done"} THEN fresh[t]
                                            ELSE fresh[t] \cup (ids \ Configured)]

(* The form mints an id no source had before.                              *)
AddSource(s) ==
  /\ Edit("add")
  /\ sources[s] = "unborn"
  /\ \E st \in {"enabled", "disabled"} : sources' = [sources EXCEPT ![s] = st]
  /\ Unnoticed({s})
  /\ UNCHANGED <<jobs, resend, epoch, mailed>>

(* An import keeps the ids of the exported file: it brings deleted sources *)
(* back under their old ids, and rewrites the ones still there; the        *)
(* preferences of the file, if any, overwrite the user's.                  *)
ImportSources(ids) ==
  /\ Edit("import")
  /\ ids # {}
  /\ \E st \in [ids -> {"enabled", "disabled"}] :
       sources' = [s \in Sources |-> IF s \in ids THEN st[s] ELSE sources[s]]
  /\ resend' \in BOOLEAN
  /\ Unnoticed(ids)
  /\ UNCHANGED <<jobs, epoch, mailed>>

DeleteSource(s) ==
  /\ Edit("delete")
  /\ s \in Configured
  /\ sources' = [sources EXCEPT ![s] = "deleted"]
  /\ UNCHANGED <<jobs, resend, epoch, mailed, fresh>>

ToggleSource(s) ==
  /\ Edit("toggle")
  /\ s \in Configured
  /\ sources' = [sources EXCEPT ![s] = IF @ = "enabled" THEN "disabled" ELSE "enabled"]
  /\ UNCHANGED <<jobs, resend, epoch, mailed, fresh>>

ClearCache ==
  /\ Edit("clear")
  /\ jobs' = ClearJobs
  /\ epoch' = epoch + 1
  /\ UNCHANGED <<sources, resend, mailed, fresh>>

RemoveJob(k) ==
  /\ Edit("remove")
  /\ jobs[k].st = "active"
  /\ jobs' = MarkRemoved(jobs, {k})
  /\ UNCHANGED <<sources, resend, epoch, mailed, fresh>>

HideJob(k) ==
  /\ Edit("hide")
  /\ jobs[k].st # "absent"
  /\ jobs' = SetHidden(jobs, k, ~jobs[k].hidden)
  /\ UNCHANGED <<sources, resend, epoch, mailed, fresh>>

SavePreferences ==
  /\ Edit("resend")
  /\ resend' = ~resend
  /\ UNCHANGED <<jobs, sources, epoch, mailed, fresh>>

-----------------------------------------------------------------------------
ScanStep(t) ==
  \/ Snapshot(t) \/ SkipDay(t)
  \/ RecordEmptyRun(t) \/ BeginSweep(t) \/ SweepNotNeeded(t) \/ SweepNeeded(t) \/ Sweep(t)
  \/ Begin(t)
  \/ \E s \in Sources : ScrapeFails(t, s) \/ \E listed \in SUBSET Lists[s] : Scrape(t, s, listed)
  \/ Compare(t) \/ Save(t) \/ Reconcile(t)
  \/ Finish(t) \/ Rescue(t) \/ Filter(t) \/ Deliver(t) \/ DeliverFails(t) \/ Mark(t)
  \/ Rearm(t)

CheckerStep(c) == RequestCheck(c) \/ BeginCheck(c) \/ FinishCheck(c)

UrlCheck(p) == CheckSelect(p) \/ \E gone \in SUBSET heads[p] : CheckUpdate(p, gone)

UserStep ==
  \/ \E s \in Sources : AddSource(s) \/ DeleteSource(s) \/ ToggleSource(s)
  \/ \E ids \in SUBSET Sources : ImportSources(ids)
  \/ \E k \in Keys : RemoveJob(k) \/ HideJob(k)
  \/ ClearCache \/ SavePreferences

Next ==
  \/ \E t \in Scans : ScanStep(t)
  \/ \E c \in Checkers : CheckerStep(c)
  \/ \E p \in Procs : UrlCheck(p) \/ Raise(p)
  \/ Crash
  \/ UserStep

Spec == Init /\ [][Next]_vars

-----------------------------------------------------------------------------
(* FAIRNESS.  A thread that can take its next step takes it: every call    *)
(* under the lock is bounded (HTTP timeouts, the 60 s budget of the URL    *)
(* check) and the cron trigger keeps firing.  For mail, the environment    *)
(* is assumed to let a send through now and then: SF on Deliver.           *)
ScanProgress(t) ==
  \/ Snapshot(t)
  \/ RecordEmptyRun(t) \/ BeginSweep(t) \/ SweepNotNeeded(t) \/ SweepNeeded(t) \/ Sweep(t)
  \/ Begin(t)
  \/ \E s \in Sources : ScrapeFails(t, s) \/ \E listed \in SUBSET Lists[s] : Scrape(t, s, listed)
  \/ Compare(t) \/ Save(t) \/ Reconcile(t)
  \/ Finish(t) \/ Rescue(t) \/ Filter(t) \/ Deliver(t) \/ DeliverFails(t) \/ Mark(t)
  \/ Rearm(t)

FairSpec ==
  /\ Spec
  /\ \A t \in Scans : WF_vars(ScanProgress(t)) /\ SF_vars(Deliver(t)) /\ SF_vars(Snapshot(t))
  /\ \A c \in Checkers : WF_vars(CheckerStep(c))
  /\ \A p \in Procs : WF_vars(UrlCheck(p))

-----------------------------------------------------------------------------
(* The comment on _run_lock: "the get-new-jobs -> save-jobs sequence can   *)
(* never race and double-report new jobs".  Two invocations never both     *)
(* have a job among their new_jobs, unless the user cleared the table      *)
(* between the two comparisons.                                            *)
NewOnce ==
  \A t, u \in Scans : \A k \in Keys :
    t # u /\ k \in new[t] /\ k \in new[u] => born[t] # born[u]

(* The dashboard says a run is in progress exactly while one is: the entry *)
(* of run_progress is there when and only when a scan is between its start *)
(* and its finish, whatever raises in between, and such a scan, like a     *)
(* sweep or a URL check, is the holder of the lock.                        *)
ProgressTellsTheTruth ==
  /\ progress <=> \E t \in Scans : pc[t] \in Scanning
  /\ \A p \in Procs : pc[p] \in InLock <=> lock = p

(* A runs row left unfinished once its invocation ended is the trace of an *)
(* exception or of a crash, never of an early return.                      *)
UnfinishedRunMeansFault ==
  \A p \in Procs : pc[p] = "done" /\ runs[p] = "open" => faults > 0

(* A job is carried by one digest only, unless it went away and came back, *)
(* the user asked for a repetition, or a fault fell between sending and    *)
(* recording: what the README calls reporting a job once.                  *)
MailedOnce == \A k \in Keys : jobs[k].st # "absent" /\ faults = 0 => mailed[k] <= 1

(* emailed_at says the job was in a digest since it was inserted or last   *)
(* came back: reconcile_jobs resets emailed_at so that a reactivated job   *)
(* is picked up by the next digest.                                        *)
EmailedMeansMailed ==
  \A k \in Keys : jobs[k].st # "absent" /\ jobs[k].emailed => mailed[k] > 0

(* A run marks a job removed for the reasons the README gives: its source  *)
(* answered this run without it, or the user no longer has that source.    *)
(* And for one it does not give: the run was waiting for the lock when the *)
(* user added the source, and another run scanned it first.                *)
RemovalJustified ==
  [][\A t \in Scans : pc[t] = "reconcile" /\ pc'[t] = "check" =>
       \A k \in Keys : jobs[k].st = "active" /\ jobs'[k].st = "removed" =>
         \/ jobs[k].src \notin Configured
         \/ jobs[k].src \in ok[t] /\ k \notin raw[t]
         \/ jobs[k].src \in fresh[t]]_vars

(* The sweep of a user without sources never removes a job whose source    *)
(* the user has: a source added, and even scanned, since the snapshot was  *)
(* taken is seen by the re-check under the lock.  (An import that restores *)
(* a deleted source after the re-check escapes it.)                        *)
SweepJustified ==
  [][\A t \in Scans : pc[t] = "sweepall" /\ pc'[t] = "done" =>
       \A k \in Keys : jobs[k].st = "active" /\ jobs'[k].st = "removed" =>
         jobs[k].src \notin Configured]_vars

(* An active job that was emailed is not made unemailed while it stays     *)
(* active: only a removal, or the user's clearing the table, starts its    *)
(* story again.                                                            *)
EmailedStaysEmailed ==
  [][\A k \in Keys :
       jobs[k].st = "active" /\ jobs[k].emailed /\ jobs'[k].st = "active" => jobs'[k].emailed]_vars

(* The jobs table, read as the stages of JobLifecycle: what the user is    *)
(* promised about each job is what the pipeline does.                      *)
Stage(row) ==
  CASE row.st = "absent"                 -> "unknown"
    [] row.st = "active" /\ ~row.emailed -> "pending"
    [] row.st = "active" /\ row.emailed  -> "reported"
    [] row.st = "removed"                -> "gone"

Lifecycle == INSTANCE JobLifecycle WITH life <- [k \in Keys |-> Stage(jobs[k])]

ImplementsLifecycle == Lifecycle!Spec

(* A job that is active, visible and unemailed is mailed in the end, or    *)
(* stops being so: a digest lost to SMTP, an exception or a crash between  *)
(* saving a job and mailing it is made up for by a later run.              *)
Unreported(k) == jobs[k].st = "active" /\ ~jobs[k].emailed /\ ~jobs[k].hidden

EventuallyMailed == \A k \in Keys : Unreported(k) ~> ~Unreported(k)

(* Whoever holds the lock gives it back.                                   *)
LockReturned == \A p \in Procs : (lock = p) ~> (lock # p)
=============================================================================
