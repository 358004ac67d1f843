---------------------------- MODULE RunControls -----------------------------
(***************************************************************************)
(* The buttons of the dashboard (app/web/routes_dashboard.py) and the two  *)
(* things every run needs: a connection of the pool (app/db.py) and        *)
(* orchestrator._run_lock.  A scan borrows a connection and keeps it while *)
(* it waits for the lock (app/scheduler.py); a URL check takes the lock    *)
(* and then asks for a connection.  The pool gives up on a caller after a  *)
(* while, and only that resolves the embrace.                              *)
(*                                                                         *)
(* One member presses "Run now" again and again, gated by the bucket of    *)
(* RateLimit; Threads are the server threads of the requests and of the    *)
(* background tasks they leave behind.  URL checks have a bucket of their  *)
(* own, which the few Checkers never fill.  A loop over several users      *)
(* takes and gives the lock once per user on one connection: one user here.*)
(***************************************************************************)
EXTENDS RateLimit

CONSTANTS
  Checkers,  \* presses of "Check job URLs"
  Trigger,   \* the run of the cron trigger
  NoProc,
  MaxConns   \* max_size of the pool

Scanners == Threads \cup {Trigger}
Procs    == Scanners \cup Checkers

ASSUME PoolAssumption ==
  /\ Trigger \notin Threads \cup Checkers /\ Threads \cap Checkers = {}
  /\ NoProc \notin Procs
  /\ Cardinality(Checkers) <= MaxAttempts
  /\ MaxConns \in Nat /\ MaxAttempts + 1 < MaxConns   \* 3 and 10 in the code

VARIABLES
  pc,      \* where each task is
  free,    \* idle connections of the pool
  lock,    \* the task that holds _run_lock
  \* History, read by no action:
  since    \* the reading with which each "Run now" under way was let through

tasks   == <<pc, free, lock, since>>
limiter == <<clock, reading, bucket, granted>>
allvars == <<limiter, tasks>>

RunTypeOK ==
  /\ TypeOK
  /\ pc \in [Procs -> {"off", "connect", "lock", "work", "mail"}]
  /\ free \in 0..MaxConns
  /\ lock \in Procs \cup {NoProc}
  /\ since \in [Threads -> 0..Horizon]

RunInit ==
  /\ Init
  /\ pc = [p \in Procs |-> "off"]
  /\ free = MaxConns
  /\ lock = NoProc
  /\ since = [t \in Threads |-> 0]

Goto(p, from, to) == pc[p] = from /\ pc' = [pc EXCEPT ![p] = to]

\* The task is over.
Forget(p) == since' = [t \in Threads |-> IF t = p THEN 0 ELSE since[t]]

\* The tasks with a connection in hand.
Holders ==
  {p \in Scanners : pc[p] \in {"lock", "work", "mail"}} \cup {c \in Checkers : pc[c] = "work"}

-----------------------------------------------------------------------------
\* POST /run-now: check, and a background task or a refusal.
PressRunNow(t) == pc[t] = "off" /\ ReadClock(t) /\ UNCHANGED tasks

LetThroughUngated(t) ==
  /\ reading[t] # NoReading
  /\ granted' = Append(granted, reading[t])
  /\ reading' = [reading EXCEPT ![t] = NoReading]
  /\ since' = [since EXCEPT ![t] = reading[t]]
  /\ Goto(t, "off", "connect")
  /\ UNCHANGED <<clock, bucket, free, lock>>

LetThrough(t) ==
  /\ Allow(t)
  /\ since' = [since EXCEPT ![t] = reading[t]]
  /\ Goto(t, "off", "connect")
  /\ UNCHANGED <<free, lock>>

TurnAway(t) == Refuse(t) /\ UNCHANGED tasks

\* POST /check-urls: the runs row needs a connection for a moment.
PressCheck(c) ==
  /\ free > 0
  /\ Goto(c, "off", "lock")
  /\ UNCHANGED <<limiter, free, lock, since>>

Fire ==
  /\ Goto(Trigger, "off", "connect")
  /\ UNCHANGED <<limiter, free, lock, since>>

-----------------------------------------------------------------------------
\* with pool.connection(): a scan's first need, a URL check's second.
Borrow(p) ==
  /\ free > 0
  /\ free' = free - 1
  /\ Goto(p, "connect", IF p \in Checkers THEN "work" ELSE "lock")
  /\ UNCHANGED <<limiter, lock, since>>

\* PoolTimeout: the task ends; if it held the lock, the with gives it back.
PoolTimeoutOfScans(p) ==
  /\ free = 0 /\ p \notin Checkers
  /\ Goto(p, "connect", "off")
  /\ Forget(p)
  /\ UNCHANGED <<limiter, free, lock>>

PoolTimeout(p) ==
  /\ free = 0
  /\ Goto(p, "connect", "off")
  /\ lock' = IF lock = p THEN NoProc ELSE lock
  /\ Forget(p)
  /\ UNCHANGED <<limiter, free>>

\* with _run_lock: the other way round.
TakeLock(p) ==
  /\ lock = NoProc
  /\ lock' = p
  /\ Goto(p, "lock", IF p \in Checkers THEN "connect" ELSE "work")
  /\ UNCHANGED <<limiter, free, since>>

\* run_once returns; the digest is built and sent with the connection only.
ScanDone(p) ==
  /\ p \in Scanners
  /\ Goto(p, "work", "mail")
  /\ lock' = NoProc
  /\ UNCHANGED <<limiter, free, since>>

Mailed(p) ==
  /\ Goto(p, "mail", "off")
  /\ free' = free + 1
  /\ Forget(p)
  /\ UNCHANGED <<limiter, lock>>

CheckDone(c) ==
  /\ c \in Checkers
  /\ Goto(c, "work", "off")
  /\ free' = free + 1
  /\ lock' = NoProc
  /\ UNCHANGED <<limiter, since>>

\* A statement raises: connection and lock go back, in whichever order.
ConnectionKept(p)       == free
ConnectionAfterRaise(p) == free + 1

Raise(p) ==
  /\ pc[p] \in {"work", "mail"}
  /\ pc' = [pc EXCEPT ![p] = "off"]
  /\ free' = ConnectionAfterRaise(p)
  /\ lock' = IF lock = p THEN NoProc ELSE lock
  /\ Forget(p)
  /\ UNCHANGED limiter

-----------------------------------------------------------------------------
Step(p) ==
  Borrow(p) \/ PoolTimeout(p) \/ TakeLock(p) \/ ScanDone(p) \/ Mailed(p) \/ CheckDone(p)

RunNext ==
  \/ Tick /\ UNCHANGED tasks
  \/ \E t \in Threads : PressRunNow(t) \/ LetThrough(t) \/ TurnAway(t)
  \/ \E c \in Checkers : PressCheck(c)
  \/ Fire
  \/ \E p \in Procs : Step(p) \/ Raise(p)

RunSpec == RunInit /\ [][RunNext]_allvars

-----------------------------------------------------------------------------
(* No connection is lost and none is lent twice, whatever times out or     *)
(* raises, and the lock is with the task that works under it.              *)
ConnectionsAccounted ==
  /\ free + Cardinality(Holders) = MaxConns
  /\ \A p \in Procs : lock = p <=> IF p \in Checkers THEN pc[p] \in {"connect", "work"}
                                                     ELSE pc[p] = "work"

(* "A member mashing the button must not be able to starve the scheduler": *)
(* the scheduled run is refused a connection only while a "Run now" from   *)
(* before the current window still has one, as it has when runs take       *)
(* longer than the window.  (MaxLag as in NeverOverLimit.)                 *)
SchedulerServed ==
  [][pc[Trigger] = "connect" /\ pc'[Trigger] = "off" =>
       \E t \in Holders \cap Threads : since[t] < clock - Window + MaxLag]_allvars

(* Lock and pool, taken in both orders, never stop each other for good:    *)
(* the holder of the lock can always go on, be it into a timeout.          *)
HolderCanGoOn == \A p \in Procs : lock = p => ENABLED Step(p)
=============================================================================
