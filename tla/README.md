# TLA+ models of CareerSpyder

CareerSpyder scrapes job boards for each of its users, keeps the jobs it found
in PostgreSQL, and mails each user a digest of what is new. It is one Python
process (a single uvicorn worker, `Dockerfile`): FastAPI handlers on an event
loop and in a thread pool, APScheduler's cron thread, background tasks, and a
pool of at most ten database connections.

This directory holds TLA+ modules of it, TLC configurations that check them on
small instances, and TLAPS proofs of the most important invariants. Line numbers
refer to the commit the modules were written against.

## 1. Inventory

### Components, their state and their operations

| Component | State | Operations | Module |
|---|---|---|---|
| Scan pipeline: `orchestrator.py`, `scheduler.py` | `_run_lock`; per thread: source list, found jobs, summary | `run_and_notify`, `run_once`, the sweep of users without sources, the digest phase | `ScanPipeline` |
| Run progress: `run_progress.py` | one entry per user in memory | start, update, finish, get | `ScanPipeline` (`progress`) |
| Jobs table: `db.py` | rows of `jobs`: `removed_at`, `emailed_at`, `source_id`, flags | get_new, save, reconcile, unemailed, mark, remove, hide, clear | `JobTable` |
| URL checker: `checker.py` | none of its own | select active rows, HEAD them, mark 404/410 removed | `ScanPipeline` |
| Source list: `routes_sources.py`, `db.py` | rows of `sources` | add, edit, toggle, delete, import | `ScanPipeline` |
| Settings: `routes_settings.py` | row of `settings` | preferences, clear cache, import and export | `ScanPipeline` (`resend`, clear, import), `Listing` (cap, exclusions) |
| Multi-user loop, catch-up: `scheduler.py`, `main.py` | the trigger's next firing; per loop: users left, the connection | fire, catch up, scan each user, sweep | `ScanDay` |
| Runs log: `db.py` | rows of `runs` | start, finish; read by dashboard, catch-up, source status | `ScanPipeline` (`runs`), `ScanDay` (`ranToday`) |
| Rate limiter: `ratelimit.py` | deque of times per key | check | `RateLimit` |
| Dashboard buttons, connection pool: `routes_dashboard.py`, `db.py` | ten connections, who holds which, the lock | Run now, Check job URLs, borrow, time out | `RunControls` |
| Invitations and registration: `routes_users.py`, `routes_auth.py` | `invite_tokens`, `users`, `settings` | invite, resend, revoke, register | `Registration` |
| Start-up and migration 0003: `main.py`, `db.py`, `alembic/` | users, settings, ownerless and parked rows | migrate, seed the administrator, claim rows | `Bootstrap` |
| Login, sessions, reset: `web/auth.py`, `routes_auth.py` | `pw_fp` in cookies and links, `password_hash`, `is_active` | login, logout, change, reset, deactivate | `Sessions` |
| Geocoding: `geocoding/`, `routes_jobs.py` | `geocoded_locations.status`, `location_override` | geocode pending, override, clear | `Geocoding` |
| Adapters: `adapters/` | per fetch: page, total, jobs read | the page loops of 12 adapters | `Fetch` |
| SSRF guard: `security/ssrf_guard.py` | per request: URL, hops, connections | vet, dial pinned, follow redirects | `Guard` |
| Digest: `digest.py` | none | group, cap, split newly/already identified | `Digest` |
| Job list: `routes_jobs.py`, `query_params.py`, `pagination.py`, `db.py` | the query string in the reader's browser | open, sort, filter, page; options of the filters; the map | `Listing` |
| Mail: `emailer.py` | none | send | outcome only (`ScanPipeline`) |
| `filters.py`, `platform_detector.py`, `password_policy.py` | none | classify, judge | outcome only |
| Web plumbing, templates, scripts | none that changes here | | not modelled |

### How they interact

* The **cron trigger**, **Run now** and the start-up **catch-up** all call
  `run_and_notify`, on threads of their own; a user's runs, and the runs of
  different users, exclude each other by the process-wide `_run_lock` — but
  only inside `run_once`. Sources and settings are read before it, the digest
  is built, sent and recorded after it.
* **Check job URLs** opens a `runs` row in the request and takes the lock in a
  background task, and then a connection; a scan has its connection before it
  asks for the lock. The limiter bounds how many scans wait with one.
* The **web handlers** write `sources`, `jobs`, `settings` and
  `geocoded_locations` without the lock, one transaction each, between any two
  steps of a scan. The **geocoder** is asked by scans and by handlers, and the
  places it finds belong to all users.
* An **adapter** reads a board page by page, every request through the **guard**;
  what it returns is taken for the whole board.
* The **dashboard** polls `run_progress`, and reads the `runs` log. The **job
  list** counts and selects in two statements, and every page is a request of
  its own that knows only its query string. A **digest** points to that list.
* A **loop over the users** runs each one's scan on one borrowed connection; what
  a failed statement leaves behind there meets the next user.
* The **catch-up** reads the runs log that every kind of run writes.
* **Login**, **password change** and **reset** suspend for bcrypt and the policy
  between reading the account and acting on it.
* **Registration** suspends between reading an invitation and claiming it, so
  the admin's handlers and other registrations run in between. The **start-up**
  writes the same users and settings before the first request is served.

### What is hard, and the properties that matter

* Jobs are found, saved, reconciled and mailed in separate transactions. A job
  must be new to one run only, mailed once per stay, never lost to a crash or a
  failed send, and removed only for a documented reason.
* Lock, progress entry, runs row and connection live in different places and
  must agree after every exception.
* State read early and used late: the source list (across the lock), the
  unemailed jobs (across a send), the pending locations (across slow requests),
  the total of a board (across its pages), the invitation and the stored hash
  (across awaits), the clock reading of the limiter (across its lock), the
  address of a name (between vetting and dialling).
* One user's failure must not cost the others their scan, nor a restart the day's.
* A start-up cut short between two transactions must be made up for by a later one.
* The lost races of registration must give the invitation back.
* A list read page by page must be the list that was asked for.

`PROJECT.json` lists each hazard at its line with the properties that watch it.

## 2. Plan

Done: every component with state that changes, listed above, with proofs about
`ScanPipeline`, `ScanDay`, `Registration`, `Bootstrap`, `Sessions`, `Geocoding`,
`RunControls`/`RateLimit`, `Fetch`/`Guard` and `Listing`/`Digest`. Worth adding, in this
order:

1. **Sources** — the edit form against the bulk toggle (`db.py:1027`), the
   preview of an import against the import.
2. **RunsLog** — `source_last_run_status` while a run is under way or died.
3. **The ZIP filter** — a cached transient failure (`routes_jobs.py:45`).

## 3. Modules

### JobTable
One user's rows of `jobs`, and each statement of `db.py` on them as an operator
from table to table. `st` is "absent" without a row, "removed" where
`removed_at` is set. `hidden` stands for both reasons for which a digest drops a
job, the duplicate flag and an excluded status. A source id is only ever
compared, so it is a model value.

### ScanPipeline (extends JobTable)
The threads of one user. `Scans` are invocations of `run_and_notify`, `Daily`
the ones of the cron trigger (they rearm; APScheduler runs one instance of a job
at a time), `Checkers` the URL checks. Each action is one transaction or one
step between two:

| Code | Actions |
|---|---|
| `run_and_notify` reads sources, `_run_user` settings | `Snapshot`, `SkipDay`, `RecordEmptyRun` |
| waiting for `_run_lock`, `start`, `start_run` | `Begin` |
| the loop over sources | `Scrape`, `ScrapeFails` |
| `get_new_jobs`, `save_jobs`, `reconcile_jobs` | `Compare`, `Save`, `Reconcile` |
| `check_job_urls` | `CheckSelect`, `CheckUpdate` |
| `finish_run`, `finish`, release | `Finish` |
| after the lock | `Rescue`, `Filter`, `Deliver`/`DeliverFails`, `Mark` |
| a user without sources | `RecordEmptyRun`, `BeginSweep`, `SweepNeeded`/`SweepNotNeeded`, `Sweep` |
| "Check job URLs" | `RequestCheck`, `BeginCheck`, `CheckSelect`, `CheckUpdate`, `FinishCheck` |
| an exception, a process crash | `Raise`, `Crash` |
| the user's handlers | `AddSource`, `ImportSources`, `DeleteSource`, `ToggleSource`, `ClearCache`, `RemoveJob`, `HideJob`, `SavePreferences` |

Choices worth knowing:

* A site answers with any subset of the keys `Lists` allows it (`Fetch` looks at
  why); `Screened` are those the keyword filters let through. Reconciliation sees
  the unfiltered jobs, comparison the filtered ones, as in the code.
* `run_once` catches an exception of the URL check and goes on; that is
  `CheckUpdate` with nothing found gone. An exception of the database there
  also breaks `finish_run` on the same connection; that is `Raise`.
* `Raise` does not happen while a thread waits, and not at "deliver", where
  `DeliverFails` covers it.
* A user without sources gets a `runs` row from "Run now" and, when no user at
  all has a source, from cron (without a user id). The module records one in
  every case; only `UnfinishedRunMeansFault` reads it.
* `epoch`, `born`, `mailed` and `fresh` are history: no action reads them.
  `fresh` are the sources a scan under way does not know.

### JobLifecycle
The abstract promise: a job is unknown, pending, reported or gone, and leaves
"reported" only by going away or by the user's clearing everything.
`ScanPipeline!ImplementsLifecycle` is its specification under the refinement
mapping `Stage`.

### ScanDay
All users, seen from the scheduler. A user's run is one stay in "scan": it
finishes, raises (`Raising` users always do), or aborts the transaction, which
nobody rolls back before the loop ends. A day is cut into phases; what matters
is only which of them is the trigger's and where the hour the catch-up compares
with begins. `ranToday` is what `get_last_run_date` says about the runs log,
`looped` the history of what it ought to say: whether the day's loop over the users
began, or was under way, since the container last started. A member's own "Run now"
is one step. The trigger fires within its phase while the
container is up, so the misfire grace of an hour never matters: a restart starts
with a fresh schedule, which is the case the catch-up is for.

| Code | Actions |
|---|---|
| trigger, `create_scheduler` | `CronFires`, `Tick` |
| start-up and `catch_up_missed_run`, shutdown | `Restart`, `Stop` |
| "Run now" of an admin, of a member | `RunNowForAll`, `RunNowForOne` |
| the loop of `run_and_notify` | `RecordEmptyRun`, `PassOver`, `ScanUser`, `FinishUser`, `UserRaises`, `UserAborts`, `AllPassed` |
| `_reconcile_users_with_no_sources` | `Sweep` |

### RateLimit and RunControls
`RateLimit` is one bucket: `ReadClock` is the reading of `monotonic()` before the
lock, `Allow` and `Refuse` the section under it; `granted` is the history of
grants. `RunControls` puts it in front of "Run now" and composes it with the pool
and `_run_lock`: a scan borrows a connection, then waits for the lock, and keeps
the connection while it mails; a URL check takes the lock first. `PoolTimeout`
is the exception the pool raises after 30 s without a free connection.

| Code | Actions |
|---|---|
| `run_now`, `check_urls` | `PressRunNow`, `LetThrough`, `TurnAway`, `PressCheck` |
| the trigger | `Fire` |
| `with pool.connection()` and its timeout | `Borrow`, `PoolTimeout` |
| `with _run_lock`, its release | `TakeLock`, `ScanDone`, `CheckDone` |
| the end of a task, an exception | `Mailed`, `CheckDone`, `Raise` |

### Registration and Bootstrap
`Registration` is `POST /register` step by step, and the admin's handlers. The
handler suspends twice (`policy`, `recheck`); what follows the last suspension is
split into its transactions because the handler itself provides for another
registration between them (`routes_auth.py:300`) and because a crash can fall
there. The model is therefore the code's own contract, which also covers several
workers.

`Bootstrap` is the container around it. A start-up is `alembic upgrade head`
(`Migrate` or `AtHead`), then the lifespan of `main.py`: `SkipSeeding`,
`FoundAdmin`, or `CreateAdmin`, `SeedAdmin`, `Backfill`; then `ClaimRows`; and only
then `Serve`, which is any step of `Registration`. It may die between any two
(`Die`), and the environment may change while it is down (`Configure`).

### Sessions
One account, its browsers and its reset links. Hashes are numbered in the order
they are stored, since bcrypt salts them and no two are equal; a fingerprint is
its hash. `login`, `change_password` and `reset_password` are split at the awaits
that follow a read of the account. `proven` is history. Not modelled: the role,
and a slow response that writes an older cookie back into its browser.

### Geocoding
`geocoded_locations`, which all users share. `Begin` is what `save_jobs` inserts;
`Select`, `Geocode`, `Write` are `geocode_pending`, one answer at a time and each
committed; `StartOverride`, `AskGeocoder`, `SaveOverride` the handler, which asks
off the event loop. An answer is a place, nothing, a transient error
(`GeocoderTransientError`: timeouts, 429, 5xx) or another exception. `denied` and
`late` are history.

### Guard and Fetch
`Guard` is one request: `Vet` is `assert_safe_url`, `DialPinned` the resolution
that `_PinnedConnectionMixin` checks and dials, `RouteFetch` the browser's, which
resolves once more, `Reuse` a kept connection, `Redirect` the walk. `Rebind` lets a
name resolve differently at any time. `Fetch` is one adapter over one board:
`WorkdayPage`, `TalentBrewPage`, `FindlyPage` and the `Infor...` actions are the page
loops, `SingleRequest` the seven adapters without one; `Post` and `Close` change
the board between requests. A job is its key; `Malformed` ones lack a field and
are skipped. An Infor board is reported ready when its grid has rows, which may be
before the cards in them are rendered (`infor.py:23-27`): what is read then is any
part of the page (`Rendered`), and for a v1 board without a card yet the listing is
empty and returned as complete (`InforV1Unrendered`, `infor.py:194`). `steady` and
`why` are history: the jobs that were on the board all along, and what happened that
may cost one.

### Digest and Listing
`Digest` is `build_digest` as a set of possible results, since the jobs of a
company come in no particular order. `Listing` is the table with a reader of `/jobs`,
the geocoder and the user's edits, and the digest of a run, each in its own steps:

| Code | Definitions |
|---|---|
| `_job_filters_sql` (owner, place, state, duplicates, removal), the order | `Matching`, `Orders`, with the ages of `age_days` in `Age` |
| `/jobs`, `paginate` | `Open`, `Count`, `List` (two statements, between which the table may change) |
| the links, each by what it does to the query string | `NextPage`, `PreviousPage`, `SortBy`, `RemoveChip`, `Jump` |
| `list_job_locations`, `list_job_states`, `list_mappable_jobs` | `LocationOptions`, `StateOptions`, `Mappable` |
| edits | `JobFound`, `JobRemoved`, `Duplicate`, `Located`, `Override`, `ClearOverride` |
| `NOW()` | `Tick` |
| `_run_user` from the reconciliation on | `Scanned`, `Rescue`, `DropDuplicates`, `Send` or `NoMail` |

The table and the options of the filters join a job's own location, the map its
override if it has one (`Shown`); the two places may differ in every respect. A place
may have an address and no region (`Region[p] = None`), and a late failed answer
takes the status of an overridden place but leaves the address (`"lost"`). The jobs
a digest is about are a list in memory from `Scanned` on: others remove and flag them
until it is sent. `asked`, `seen`, `twice`, `steady` and `aged` are history of the
reader's walk, `mail`, `late` and `missed` of the digest.

## 4. Runs

| Run | What it shows |
|---|---|
| `overlap` | `NewOnce`, `ProgressTellsTheTruth`, `UnfinishedRunMeansFault`, `SweepJustified`, `RemovalJustified` and the refinement of `JobLifecycle`, for two overlapping invocations, one exception or crash, two edits |
| `live` | `MailedOnce`, `EmailedMeansMailed`, and under fairness `EventuallyMailed`, `LockReturned`, for the cron trigger with a URL check, a fault and an edit |
| `scan_day` | no user is starved by another one's failure, leftovers are swept, and a day that ends with the container up had its loop over the users, unless some other run of the day was on record |
| `run_controls` | connections and lock are accounted for and never stuck for good; the sliding window holds under out-of-order readings; a mashed button leaves the scheduler its connection, unless a "Run now" older than the window still holds one |
| `register` | one account per invitation and none burnt, every account with its settings, every ownerless row claimed, through starts that are cut short |
| `sessions` | a session stands for a password proved in its browser; storing one ends every other session and link |
| `geocoding` | a place once found is kept, a transient error is never a failure, an override yields only to an answer that was already on its way, every location is settled |
| `fetch` | which jobs a listing may lack and after which events, for every adapter (for Infor, silently the whole board); no private address is dialled; every fetch ends |
| `listing` | an undisturbed walk from page to page, in an order that stands still, shows every matching job once; the filters and the map lose only the jobs named below; a capped digest drops nothing but what was removed or flagged under it, or has too many duplicates |

Runs that are expected to fail, each the evidence of a finding:

| Run | Disagreement |
|---|---|
| `double_report` | The README says the lock keeps overlapping runs from double-reporting; the digest phase is outside it, and the rescue of a second run mails what the first is mailing. |
| `orphan` | A job first listed by a source that was deleted, and still listed by another, is reset at every run and mailed every time. |
| `listing_pages` | A list filtered by two states loses one of them at the first "Next" or column header, because `query_url` keeps only the last value of a repeated parameter. |

### What the passing properties do not promise

Several hold only as far as they are stated, by the code's own choice, and the
statement is where to look:

* `RemovalJustified` has a third disjunct beside the README's reasons
  (README.md:44-48): a source configured after the scan had read the list of
  sources (`scheduler.py:162`), whose jobs that scan removes.
* `MissingExplained` has one that the comment of `infor.fetch` rules out
  (`infor.py:236-238`, "Any failure propagates ... rather than returning the pages
  read so far"): a grid that is silent for 15 s ends the reading without an error,
  and so does a v1 board whose first card is not rendered yet, which costs the whole
  board. The property names these events (`stalled`, `unrendered`), it does not
  forbid what they cost.
* `EmailedMeansMailed` and `MailedOnce` fail when scans overlap (a late
  `mark_emailed` swallows the reset made when the job came back), `MailedOnce`
  also after a crash between sending and recording; `SweepJustified` fails with
  an import between the sweep's re-check and its reconciliation.
* `DayCovered` exempts a day with any run on record: one member's "Run now", or the
  first user of a loop that was then cut short, hides the miss of everybody else
  (docs/USAGE.md:28-29 promises the catch-up without that exception). It says
  nothing against one scan too many: with a minute in `RUN_CRON`, a restart between
  the hour and the minute catches up on a scan that is about to start.
* `OverrideKept` lets the one answer through that was on its way when the user
  typed the location; until somebody overrides it again the place then counts as
  what that answer said.
* `NoInviteBurnt` and `AccountsSettled` are stated without faults: claim, account
  and settings are separate transactions and no start-up repairs them.
* `SchedulerServed` exempts a "Run now" from before the current window that still
  holds its connection. Runs that take longer than the window (600 s) make one: the
  presses of several windows then add up, and the scheduler may be refused. And it
  counts one member's button (three grants per window and one checker against ten
  connections); several members' buckets are independent.
* `PagesListOnce` leaves out several values of one filter (`listing_pages`), an
  administrator's list of all users sorted by a column in which rows tie, and active
  and removed jobs sorted together by age while time passes: the active ones grow
  older (`db.py:275-279`), so rows are skipped or repeated on an unchanged table.
* `EveryPlaceOffered` leaves out an overridden job whose place a late answer has
  failed (neither on the map nor, if its own location is resolved, under "Other /
  Unresolved"); and, in its part about states, overridden jobs, which the map shows
  at a place the options know nothing of, and places for which the geocoder named no
  state, which are on the map under no state (`db.py:453`).
* `NothingDropped` exempts jobs that were removed or flagged after the run's
  reconciliation, by the user or by the run's own URL check: they are mailed from
  memory (`scheduler.py:42`) and the page hides them; and the duplicates of a user
  with more than `LookupLimit` (10 000) of them. A job that a capped digest only counts
  is marked as mailed, so that a later digest lists it as already identified.
* `OnlyPublicDialed` allows a browser's document what it forbids an API call,
  once the resolver has changed its answer.

### Bounds, and why they suffice

* **Sources and keys.** Two sources: one that changes and one that does not, or
  two that list the same key. A row's fate depends on its own key and source
  only, so one key shows each hazard.
* **Scans.** Every hazard of the pipeline involves at most two threads, one of
  which rearms: three consecutive runs, two of them overlapping.
* **`MaxEdits`, `MaxFaults`.** The violations need at most two edits and one stop.
  Two edits allow delete-then-restore and add-then-delete around one step.
* **`MailCap` = 2.** Counting stops one above what is allowed.
* **Days.** Three phases, before the trigger's, its own and after it; two users, of whom
  the first always raises, because a loop's failure can only reach users behind;
  one stop or aborted transaction, two edits, and an admin starts a loop only
  while no other runs (`MaxLoops`; the trigger still overlaps with it).
* **Pool.** Two grants per window of three ticks, a lag of one, six ticks (two full
  windows); four connections are the fewest `PoolAssumption` allows for two grants,
  as ten are more than enough for three; three server threads, so that one more
  request than the limit allows is there to be refused.
* **Registration and start-up.** Three requests are a winner, a loser and a third
  that finds what the loser released; two tokens, three names and emails of which
  one is the administrator's, one ownerless row, one fault. What is alike is
  symmetric.
* **Sessions.** Two browsers, three forms, two changes, one link: two overlapping
  forms and one that acts on what they left. Browsers and forms are symmetric.
* **Geocoding.** Two locations, because a scan must have one left to ask about
  while another is written; two scans and one request; one fault.
* **Fetch.** Boards of up to six of seven jobs on pages of two, at most three pages
  (a posting makes the fullest one too long for them): every loop ends by its cap, by
  its total and by a short page. One
  change of the board, one of the resolver, one redirect.
* **Listing.** Three rows: two of one user, and a second user's row of the same
  job; pages of one row, so that each boundary is crossed; two changes, of which one
  may be an override and the other the late answer it races; one tick, enough for an
  active job to overtake a removed one; a cap of one per company and a lookup of one
  duplicate, so that both are exceeded. The constraint `OneAtATime` keeps questions
  that share no state apart: a digest is made while nobody reads and every place is
  settled, and a list is read without an override in it, of a table that has changed
  once, before or during the walk.

`CHECK_DEADLOCK FALSE` is set only where the system really may stop: runs without
a cron trigger, one fetch, and sessions whose changes are used up.

### Fairness

`ScanPipeline!FairSpec` assumes weak fairness of each scan's and checker's steps:
scraping has HTTP timeouts, the URL check a budget of 60 s, and both `with`
statements release the lock. Two strong assumptions: a daily run that is enabled
again and again is at some point not skipped (`Snapshot`; a user who deselects
every day gets no mail, as configured), and a digest that is attempted again and
again is at some point sent (`Deliver`; the mail server is back one day). No
fairness is assumed of the user or of faults. Only the cron trigger is a scan of
run `live`: its property is about what later runs make up for.

`ScanDay!FairSpec`: time passes, the trigger fires, a stopped container is started
again (the restart policy of `docker-compose.yml`), loops make progress; strongly,
a user whose turn comes again and again is at some point not passed over and gets
the lock, and so does the sweep.

`Geocoding!FairSpec`: scans go on, because requests to the geocoder time out after
10 s; and a location asked about again and again gets one definite answer in the
end. Nothing is assumed of the handlers.

`Fetch!Spec`: a fetch whose next step can be taken takes it, because requests and
waits have deadlines. The board, the resolver and the site are not assumed to be
fair, nor to ever settle.

`RunControls` has no liveness property. That the lock's holder can always go on
(`HolderCanGoOn`) is the state predicate that, with the pool's timeout, rules out
the embrace.

## 5. Proofs

The theorem modules extend the modules they are about: `FetchProofs` is about
`Fetch` and `Guard`, `RegistrationProofs` about `Registration` and `Bootstrap`,
`RunControlsProofs` about `RunControls` and `RateLimit`, `ListingProofs` about
`Listing` and `Digest`, the others about the modules they are named for. They hold
for every set of scans, keys, sources, users, browsers, requests and locations, and
for every bound; where a set must be finite (`ConnectionsAreAccounted`,
`SchedulerIsServed`, `HoldersHaveAStep`, the rows of `Listing`), that is said.

* `TypeCorrect`: `TypeOK` is inductive; `JobTable`'s operators map tables to
  tables (`TableTyping`, `SaveTyping`, `ReconcileTyping`).
* `ProgressIsTruthful`: mutual exclusion and the progress entry, inductive
  together with `TypeOK`. One step per action; the interesting ones are `Begin`,
  `Finish`, `Raise` and `Crash`.
* `NewJobsReportedOnce`: the strengthening ties the threads to the table: what
  a scan holds as new after its save has a row unless the table was cleared
  since, and before its save no other scan is under the lock.
* `OpenRunsMeanFaults`: without a fault a runs row is open only while its scan is
  under the lock or its URL check still waits for it (`OpenWhileUnderWay`).
* `SweepIsJustified`: needs that an active job's source was the user's at some
  time, and a source deleted under the lock stays deleted (`SourcesTiedToJobs`).
  It assumes no imports: one between the re-check and the reconciliation breaks it.
* `RemovalsAreJustified`: the strengthening `SnapshotsCover` says that a source
  configured now is in the list a scan under way was started with, or is new to
  it (`fresh`).
* `PipelineImplementsLifecycle`: the refinement, when no two sites list the same
  key (`ListsApart`); run `orphan` shows what happens otherwise.
* `DayTypeCorrect`, `DaysAreCovered`: by `DayInv`, while the container is up a trigger
  that is not to fire any more today has been answered by a loop or stood down for a
  run on record, and one that is still to fire has not been passed. Restarts are the
  interesting step: the trigger waits for its phase, or the hour has come and the
  catch-up decides. It holds for an hour that begins before the trigger's phase too.
* `InvitesYieldOneAccount`, `InvitesAreNotBurnt`: the strengthening
  `ClaimsExclusive` says that a used invitation without an account is claimed by
  at most one registration, and one with an account by none.
* `BootTypeCorrect`, `InvitesSurviveRestarts`: the step lemmas of the theorems
  before carry over to `Bootstrap`, because the start-up touches of the requests'
  state only users and settings (`StartupOrServe`).
* `RowsFindTheirOwner`: with `RowsInv`, that the migrated table has no ownerless
  row left and that a server with an administrator configured has been through
  the claim. `AccountsAreSettled` needs nothing but types.
* `SessionsTypeCorrect`, `SessionsAreProved`, `ChangesSignOthersOut`,
  `ChangesKillLinks`: the strengthening `CookiesProved /\ CookiesKnown` says that
  a cookie is bound to a hash proved in its browser, and that no cookie, link or
  form knows a hash that is still to be stored.
* `GeocodingTypeCorrect`, `FailuresAreDenials`, `PlacesAreKept`, `OverridesAreKept`:
  `Exclusive` (one scan between selecting and its last write) and `Claimed` (a
  row in a scan's hands is still pending, or has been overridden since) carry all
  four; `Answered` ties the answer a scan holds to what the geocoder said.
* `AddressesArePublic`: `AdaptersUseTheGuard` reduces every step of every adapter
  to the guard's operations; `Vetted` says that between vetting and dialling only
  the resolver can have made a name private, and that it was counted.
* `MissingJobsAreExplained`: while nothing was closed, no grid stalled and all cards were
  rendered, whatever
  the board has listed all along and now has on the pages read is in hand
  (`Covered`, in `FetchInv`). A posting moves such jobs only towards later pages, a
  closed one is a reason of its own. At the end of a loop the bound of the first
  answer (`BoundHolds`), or the Infor grid's place (`GridInStep`), says that the
  pages read were all of them, or `why` has what made it wrong.
* `JobsMailedOnce`, `EmailedJobsWereMailed`: by `MailInv`. Until a fault, a job that
  was mailed is emailed, or in the hands of the scan that is about to record it;
  and what a scan is going to mail for the first time has not been mailed. Both
  assume `DigestsApart`: while one scan builds, sends and records its digest, no
  other is past its comparison. That is what the lock would give if the digest were
  inside it. `MailedOnce` needs it, as `double_report` shows; so does
  `EmailedMeansMailed`: with a cache cleared while one scan is at "mark", another
  saves the job anew, and the first marks it without having mailed it. The
  second theorem holds through exceptions and crashes; `MailedOnce` itself only
  speaks of runs without them.
* `PagesShowEachJobOnce`: rows have a `Rank` in the order of a query, which breaks
  every tie (`PrecedesIsTotal`), so any order the database returns is that order
  (`RankInOrder`) and a page is the rows of an interval of ranks (`ShownRows`). By
  `ListingInv` an undisturbed walk has been shown the ranks below its page's, and
  its count still fits. The ranks are those of a table and a time: ages differ by
  constants while rows are only active or only removed, so the time changes no order
  (`TimePasses`), which is where the exemption of mixed lists comes from.
  `ListingAssumption` justifies the order: `(user_id, key)` is
  the primary key, and the jobs of two users never share `first_seen_at`, since each
  run stamps its jobs with one time and runs save one after the other.
* `EveryPlaceIsOffered`: by `PlacesInv`, that an override's place always has an address.
  Everything else follows of any single table.
* `DigestDropsNothing` is `DigestCounts` and `DigestInv`: what a run holds in memory is its
  user's, and active and, after the lookup, no duplicate, but for `late` and `missed`.
  `FlaggedRows` and `AllDuplicatesFound` say that a lookup that is not cut short finds
  all duplicates of the user. It holds without any assumption.
* `ConnectionsAreAccounted`: `StepKinds` says that every step takes a connection
  for one task, gives one back or does neither, and the cardinality of `Holders`
  follows; `LockStep` carries the half about the lock. It needs that the threads
  and the URL checks are finitely many.
* `LimitIsKept`, `RefusalsAreJustified`: by `LimiterInv`. The bucket is what is left
  of the grants without a prefix of expired ones (`Remains`), and readings are
  recorded at most `MaxLag` out of order, so the grants of any window shorter by
  that lag are all in the bucket, and a full bucket is full of recent ones.
* `ButtonsUseTheLimiter`, `RunsAreLimited`: every step of `RunControls` is a step of
  `RateLimit` or leaves it alone, so both results carry over.
* `SchedulerIsServed`: the property as it stands, with its exemption. A "Run now" that holds a connection stands for one grant of
  its window (`RunsAreVouched`); a pool that had none left for the trigger would
  have more of them than the limit allows (`PoolAssumption`), unless one is older.

**The refuted promises, and when they hold.** Each run that expects a violation has
a theorem with the condition under which the same property is true:

* `TheTriggerMailsOnce` (`double_report`): with one invocation at a time, as when
  only the cron trigger runs, `DigestsApart` is a fact and `MailedOnce` and
  `EmailedMeansMailed` need no assumption on the behaviour.
* `EmailedJobsStayEmailed` (`orphan`): when no two sites list the same key, only a
  job that was removed can have its `emailed_at` reset, because a job that vanished
  from its source's list is not found elsewhere (`VanishedAreNotFound`).
* `PagesAreCorrectForOneState` (`listing_pages`): with at most one state selected a
  link keeps the query it was rendered for (`OneStateStays`), and with either active or
  removed jobs only, no order moves with the time.

`RepeatedRunsAreQuiet` is about `JobTable`'s operators alone: a second run with the
same findings, after the first one's digest was recorded, finds nothing new, mails
nothing and changes no row, unless a listed job belongs to a source that is no longer
configured. `FewJobsAreAllDigested` says that with a bound on each user's jobs the lookup
is never cut short, so that only `late` is left of the exemptions of `NothingDropped`.

**What liveness rests on.** Fairness and `ENABLED` are out of the prover's reach; what
is not is that every step of its own brings an actor nearer to its end, that nobody
else's step sets it back, and that it is never where it has no next step. With that
proved for every value of the constants, what remains with TLC is only that the actor
takes its steps, and the induction over the distance left:

* `HoldersNearRelease` (`LockReturned`): the distance is the place under `_run_lock`
  and, while it scrapes, the set of sources not tried yet.
* `TurnsAreKept`, `LoopsNearTheirEnd` (`EveryoneScanned`, `LeftoversSwept`): the
  distance is the set of users a loop has yet to reach; one leaves it only by a turn
  of their own, whatever the runs before raised. `LoopsAccounted` says that loops at
  rest, or at the sweep, have nobody left.
* `AnswersAreFinal`, `ScansNearTheirEnd` (`PendingSettles`): the distance is the
  list of a scan's locations, and what was settled never counts again.
* `FetchTypeCorrect`, `FetchesNearTheirEnd` (`FetchEnds`): pages, loads and redirects
  are bounded by `BoundInv`, and neither a board that changes nor a resolver sets a
  reader back. `TypeOK` of `Fetch` is proved only: no run needs it.
* `HoldersHaveAStep` (`HolderCanGoOn`): the holder of the lock is never waiting for
  it, and nobody but itself moves it or takes the lock from it.

The only other assumptions are the named ones of the modules. Checked by TLC only, and
proved but for fairness or `ENABLED` as said above: `LockReturned`, `EveryoneScanned`,
`LeftoversSwept`, `PendingSettles`, `FetchEnds` and `HolderCanGoOn`. `EventuallyMailed`
also depends on strong fairness of the mail server and is left to TLC. Every other
property of the runs, of those that expect a violation too, is the subject of a theorem.

## 6. Not modelled, and why

* Parsing of job pages and addresses, rendering, formatting and static files have
  no state and no order to get wrong. SMTP, HTTP and DNS appear as outcomes, the
  verdicts of the keyword filters, the platform detector and the password policy
  as choices.
* The URL column and `refresh_job_urls` only influence the checker's verdict,
  which is arbitrary here. Job notes and status history feed back into nothing.
* The contents of a source: its form, and the update lost between an open edit
  form and a bulk toggle; the health badge of a source; the cache behind the ZIP
  filter. Section 2 lists them as next.
* The other filters of the job list are conjuncts like the ones modelled; the
  export uses the same query without pages.
* Subresources and WebSockets of a rendered page are vetted once, like a first
  URL, and followed by the browser on its own.
* Migrations 0001 and 0002 are the source of the row types; downgrades are manual.
  What the SMTP variables of the environment do at a restart is not modelled (the
  comment at `db.py:257-259` says they are always synced; the early return of
  `seed_admin_if_empty` comes first).
* The choice of the client address behind a proxy (`ratelimit._client_ip`) is a
  function of headers.
