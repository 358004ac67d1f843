------------------------------ MODULE ScanDay ------------------------------
(***************************************************************************)
(* The daily scan of all users: the cron trigger, the catch-up at start-up *)
(* and the admin's "Run now" each loop over the users on one connection    *)
(* (app/scheduler.py, app/web/main.py), while the container stops and      *)
(* starts and the days pass.  What one user's run does is the subject of   *)
(* ScanPipeline; here it finishes, raises, or aborts the transaction.      *)
(*                                                                         *)
(* A day is cut into phases 0..LastPhase.  The trigger fires in CronPhase; *)
(* the catch-up only knows the hour of RUN_CRON, which begins at HourPhase *)
(* (0 for an hour field that is not a number: no hour to wait for).        *)
(***************************************************************************)
EXTENDS Integers, FiniteSets, FiniteSetsExt

CONSTANTS
  Users,       \* numbers: a loop takes them in the order of their ids
  Raising,     \* the users whose runs always raise
  LastPhase, CronPhase, HourPhase,
  MaxFaults,   \* stops and aborted transactions
  MaxEdits,    \* sources added and deleted
  MaxLoops     \* loops that run when the admin starts one more, at most

ASSUME UsersAssumption == Users \subseteq Nat /\ Raising \subseteq Users
ASSUME PhasesAssumption ==
  /\ LastPhase \in Nat /\ CronPhase \in 1..LastPhase /\ HourPhase \in 0..CronPhase
ASSUME BoundsAssumption == MaxFaults \in Nat /\ MaxEdits \in Nat /\ MaxLoops \in Nat

Loops == {"cron", "catchup", "runnow"}

VARIABLES
  phase,
  armed,     \* today's firing of the trigger is still to come, or was missed
  up,        \* the container is running
  ranToday,  \* some finished scrape of the runs log is of today
  looped,    \* history: today's loop began, or was under way, since the last start
  sourced,   \* users with a source
  held,      \* users with an active job
  pc,        \* per loop: "idle", "next" (between two users), "scan", "sweep"
  snap,      \* per loop: the users of sources_by_user
  left,      \* per loop: those not reached yet
  broken,    \* per loop: its connection is in an aborted transaction
  faults,
  edits

day == <<phase, armed, up, ranToday, looped>>
loops == <<pc, snap, left, broken>>
vars == <<day, sourced, held, loops, faults, edits>>

TypeOK ==
  /\ phase \in 0..LastPhase
  /\ armed \in BOOLEAN /\ up \in BOOLEAN /\ ranToday \in BOOLEAN /\ looped \in BOOLEAN
  /\ sourced \subseteq Users /\ held \subseteq Users
  /\ pc \in [Loops -> {"idle", "next", "scan", "sweep"}]
  /\ snap \in [Loops -> SUBSET Users]
  /\ left \in [Loops -> SUBSET Users]
  /\ \A t \in Loops : left[t] \subseteq snap[t]
  /\ \A t \in Loops : pc[t] = "scan" => left[t] # {}
  /\ broken \in [Loops -> BOOLEAN]
  /\ faults \in 0..MaxFaults /\ edits \in 0..MaxEdits

Init ==
  /\ phase = 0
  /\ armed = TRUE /\ up = TRUE /\ ranToday = FALSE /\ looped = FALSE
  /\ sourced = Users /\ held = {}
  /\ pc = [t \in Loops |-> "idle"]
  /\ snap = [t \in Loops |-> {}]
  /\ left = [t \in Loops |-> {}]
  /\ broken = [t \in Loops |-> FALSE]
  /\ faults = 0 /\ edits = 0

LockFree == \A t \in Loops : pc[t] # "scan"

-----------------------------------------------------------------------------
(* Time and the container.                                                 *)

(* run_and_notify for all users, on thread t and a connection of its own.  *)
StartLoopStale(t) ==
  /\ pc' = [pc EXCEPT ![t] = "next"]
  /\ left' = [left EXCEPT ![t] = sourced]
  /\ UNCHANGED <<snap, broken>>

StartLoop(t) ==
  /\ pc' = [pc EXCEPT ![t] = "next"]
  /\ snap' = [snap EXCEPT ![t] = sourced]
  /\ left' = [left EXCEPT ![t] = sourced]
  /\ broken' = [broken EXCEPT ![t] = FALSE]

EndLoop(t) ==
  /\ pc' = [pc EXCEPT ![t] = "idle"]
  /\ snap' = [snap EXCEPT ![t] = {}]
  /\ left' = [left EXCEPT ![t] = {}]
  /\ broken' = [broken EXCEPT ![t] = FALSE]

(* The day goes on; the trigger does not let its phase pass.               *)
Tick ==
  /\ ~(up /\ armed /\ phase = CronPhase)
  /\ IF phase < LastPhase
     THEN phase' = phase + 1 /\ UNCHANGED <<armed, ranToday, looped>>
     ELSE /\ phase' = 0
          /\ armed' = TRUE
          /\ ranToday' = FALSE /\ looped' = FALSE
  /\ UNCHANGED <<up, sourced, held, loops, faults, edits>>

(* APScheduler skips a firing whose predecessor still runs.                *)
CronFires ==
  /\ up /\ armed /\ phase = CronPhase
  /\ armed' = FALSE /\ looped' = TRUE
  /\ IF pc["cron"] = "idle" THEN StartLoop("cron") ELSE UNCHANGED loops
  /\ UNCHANGED <<phase, up, ranToday, sourced, held, faults, edits>>

RunNowForAll ==
  /\ up /\ pc["runnow"] = "idle"
  /\ Cardinality({t \in Loops : pc[t] # "idle"}) < MaxLoops
  /\ StartLoop("runnow")
  /\ UNCHANGED <<day, sourced, held, faults, edits>>

(* A member's own "Run now", which records a run even without a source.    *)
RunNowForOne(u) ==
  /\ up /\ LockFree
  /\ u \notin sourced \cap Raising
  /\ ranToday' = TRUE
  /\ IF u \in sourced
     THEN held' \in {held, held \cup {u}}
     ELSE held' = held \ {u}
  /\ UNCHANGED <<phase, armed, up, looped, sourced, loops, faults, edits>>

Stop ==
  /\ up /\ faults < MaxFaults
  /\ faults' = faults + 1
  /\ up' = FALSE /\ looped' = FALSE
  /\ pc' = [t \in Loops |-> "idle"]
  /\ snap' = [t \in Loops |-> {}]
  /\ left' = [t \in Loops |-> {}]
  /\ broken' = [t \in Loops |-> FALSE]
  /\ UNCHANGED <<phase, armed, ranToday, sourced, held, edits>>

(* create_scheduler, then catch_up_missed_run.                             *)
CatchUpNeededLater == ~ranToday /\ phase > HourPhase
CatchUpNeeded == ~ranToday /\ phase >= HourPhase

Restart ==
  /\ ~up
  /\ up' = TRUE
  /\ armed' = (phase < CronPhase)
  /\ IF CatchUpNeeded
     THEN StartLoop("catchup") /\ looped' = TRUE
     ELSE UNCHANGED <<loops, looped>>
  /\ UNCHANGED <<phase, ranToday, sourced, held, faults, edits>>

AddSource(u) ==
  /\ up /\ edits < MaxEdits
  /\ edits' = edits + 1
  /\ u \notin sourced
  /\ sourced' = sourced \cup {u}
  /\ UNCHANGED <<day, held, loops, faults>>

DeleteSources(u) ==
  /\ up /\ edits < MaxEdits
  /\ edits' = edits + 1
  /\ u \in sourced
  /\ sourced' = sourced \ {u}
  /\ UNCHANGED <<day, held, loops, faults>>

-----------------------------------------------------------------------------
(* The loop over the users.                                                *)

Reached(t, u) == pc[t] = "next" /\ left[t] # {} /\ u = Min(left[t])
Passed(t, u) == left' = [left EXCEPT ![t] = @ \ {u}]

(* No user has a source: an empty run is recorded.                         *)
RecordEmptyRun(t) ==
  /\ pc[t] = "next" /\ snap[t] = {}
  /\ ranToday' = TRUE
  /\ pc' = [pc EXCEPT ![t] = "sweep"]
  /\ UNCHANGED <<phase, armed, up, looped, sourced, held, snap, left, broken, faults, edits>>

(* Today is not one of the user's check days (an admin's run ignores them),*)
(* or nothing can be read on an aborted connection.                        *)
PassOver(t, u) ==
  /\ Reached(t, u)
  /\ broken[t] \/ t # "runnow"
  /\ Passed(t, u)
  /\ UNCHANGED <<day, sourced, held, pc, snap, broken, faults, edits>>

ScanUser(t, u) ==
  /\ Reached(t, u)
  /\ ~broken[t]
  /\ LockFree
  /\ pc' = [pc EXCEPT ![t] = "scan"]
  /\ UNCHANGED <<day, sourced, held, snap, left, broken, faults, edits>>

FinishUser(t, u) ==
  /\ pc[t] = "scan" /\ u = Min(left[t]) /\ u \notin Raising
  /\ ranToday' = TRUE
  /\ held' \in {held, held \cup {u}}
  /\ pc' = [pc EXCEPT ![t] = "next"]
  /\ Passed(t, u)
  /\ UNCHANGED <<phase, armed, up, looped, sourced, snap, broken, faults, edits>>

(* The exception is logged and the next user's turn comes.  It may have    *)
(* struck before or after the run was recorded.                            *)
RunCutShort(u) ==
  /\ ranToday' \in {ranToday, TRUE}
  /\ held' \in {held, held \cup {u}}
  /\ UNCHANGED <<phase, armed, up, looped, sourced>>

UserRaisesUncaught(t, u) ==
  /\ pc[t] = "scan" /\ u = Min(left[t]) /\ u \in Raising
  /\ EndLoop(t)
  /\ RunCutShort(u)
  /\ UNCHANGED <<faults, edits>>

UserRaises(t, u) ==
  /\ pc[t] = "scan" /\ u = Min(left[t]) /\ u \in Raising
  /\ pc' = [pc EXCEPT ![t] = "next"]
  /\ Passed(t, u)
  /\ RunCutShort(u)
  /\ UNCHANGED <<snap, broken, faults, edits>>

(* When it came from the database, nobody rolls back.                      *)
UserAborts(t, u) ==
  /\ pc[t] = "scan" /\ u = Min(left[t]) /\ faults < MaxFaults
  /\ faults' = faults + 1
  /\ broken' = [broken EXCEPT ![t] = TRUE]
  /\ pc' = [pc EXCEPT ![t] = "next"]
  /\ Passed(t, u)
  /\ RunCutShort(u)
  /\ UNCHANGED <<snap, edits>>

AllPassed(t) ==
  /\ pc[t] = "next" /\ left[t] = {} /\ snap[t] # {}
  /\ pc' = [pc EXCEPT ![t] = "sweep"]
  /\ UNCHANGED <<day, sourced, held, snap, left, broken, faults, edits>>

(* _reconcile_users_with_no_sources: each user is checked again under the  *)
(* lock.  On an aborted connection it raises and the loop ends.            *)
SweepUnreached(t) ==
  /\ pc[t] = "sweep"
  /\ snap[t] = {} \/ broken[t] \/ LockFree
  /\ held' = IF snap[t] = {} /\ ~broken[t] THEN held \cap sourced ELSE held
  /\ EndLoop(t)
  /\ UNCHANGED <<day, sourced, faults, edits>>

Sweep(t) ==
  /\ pc[t] = "sweep"
  /\ broken[t] \/ LockFree
  /\ held' = IF broken[t] THEN held ELSE held \cap (snap[t] \cup sourced)
  /\ EndLoop(t)
  /\ UNCHANGED <<day, sourced, faults, edits>>

-----------------------------------------------------------------------------
Loop(t) ==
  \/ RecordEmptyRun(t) \/ AllPassed(t) \/ Sweep(t)
  \/ \E u \in Users :
       PassOver(t, u) \/ ScanUser(t, u) \/ FinishUser(t, u) \/ UserRaises(t, u) \/ UserAborts(t, u)

Next ==
  \/ Tick \/ CronFires \/ RunNowForAll \/ Stop \/ Restart
  \/ \E u \in Users : RunNowForOne(u) \/ AddSource(u) \/ DeleteSources(u)
  \/ \E t \in Loops : Loop(t)

Spec == Init /\ [][Next]_vars

FairSpec ==
  /\ Spec
  /\ WF_vars(Tick) /\ WF_vars(CronFires) /\ WF_vars(Restart)
  /\ \A t \in Loops : WF_vars(Loop(t)) /\ SF_vars(Sweep(t))
  /\ \A u \in Users : SF_vars(\E t \in Loops : ScanUser(t, u))

-----------------------------------------------------------------------------
(* "One user's fetch failure does not stop other users' runs": whoever has *)
(* a source is scanned again and again, whatever the runs of the users     *)
(* before do, and across stops, midnights and overlapping loops.           *)
Scanned(u) == \E t \in Loops : pc[t] = "scan" /\ u = Min(left[t])
EveryoneScanned == \A u \in Users : []<>(Scanned(u) \/ u \notin sourced)

(* A user whose last source was deleted does not keep active jobs.         *)
LeftoversSwept == \A u \in Users : u \in held \ sourced ~> u \notin held \ sourced

(* A day that ends with the container up had its loop over the users: the  *)
(* trigger's, or the catch-up's when the container was down at that time,  *)
(* which also replaces a loop that a stop cut short before any run was     *)
(* recorded.  But for a day with a run on record: the catch-up takes any   *)
(* for today's, a member's "Run now" or a loop's first user alike.         *)
DayCovered == [][up /\ phase = LastPhase /\ phase' = 0 => looped \/ ranToday]_vars

=============================================================================
