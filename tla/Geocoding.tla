------------------------------ MODULE Geocoding -----------------------------
(***************************************************************************)
(* The places of jobs: the table geocoded_locations, which every user's    *)
(* scans and every user's location overrides share.                        *)
(*                                                                         *)
(* A scan inserts the locations of its new jobs as pending, then asks the  *)
(* geocoder about everything pending, one slow request after another, and  *)
(* commits each answer (app/geocoding/service.py), all under _run_lock.  A *)
(* location override (app/web/routes_jobs.py) asks the same geocoder, off  *)
(* the event loop and without the lock, and then writes the same table.    *)
(***************************************************************************)
EXTENDS Naturals

CONSTANTS
  Locations,     \* location strings
  NoLocation,
  Jobs,          \* rows of the jobs table
  Scans,         \* threads in run_once
  NoScan,
  Requests,      \* handlers of POST /jobs/location-override
  MaxFaults      \* how many exceptions and restarts

ASSUME GeocodingAssumption ==
  /\ NoLocation \notin Locations
  /\ NoScan \notin Scans
  /\ MaxFaults \in Nat

VARIABLES
  place,     \* geocoded_locations.status
  present,   \* the jobs that have a row
  override,  \* jobs.location_override
  lock,      \* the scan that holds _run_lock
  pc,        \* where each scan is
  rows,      \* the pending locations it has not asked about yet
  ask,       \* the location it has an answer for
  found,     \* whether that answer is a place
  hpc,       \* where each override request is
  hjob,      \* its job
  hloc,      \* its location
  faults,
  \* History, read by no action:
  denied,    \* the locations the geocoder has said it does not know
  late       \* the locations overridden since a scan selected the pending ones

scan    == <<lock, pc, rows, ask, found>>
request == <<hpc, hjob, hloc>>
vars    == <<place, present, override, scan, request, faults, denied, late>>

Statuses == {"absent", "pending", "resolved", "manual", "failed"}
Answers  == {"place", "nothing", "transient", "error"}

TypeOK ==
  /\ place \in [Locations -> Statuses]
  /\ present \subseteq Jobs
  /\ override \in [Jobs -> Locations \cup {NoLocation}]
  /\ \A j \in Jobs \ present : override[j] = NoLocation
  /\ lock \in Scans \cup {NoScan}
  /\ pc \in [Scans -> {"idle", "select", "ask", "write"}]
  /\ rows \in [Scans -> SUBSET Locations]
  /\ ask \in [Scans -> Locations \cup {NoLocation}]
  /\ found \in [Scans -> BOOLEAN]
  /\ hpc \in [Requests -> {"idle", "ask", "save"}]
  /\ hjob \in [Requests -> Jobs]
  /\ hloc \in [Requests -> Locations]
  /\ faults \in 0..MaxFaults
  /\ denied \subseteq Locations
  /\ late \subseteq Locations

Init ==
  /\ place = [l \in Locations |-> "absent"]
  /\ present = {}
  /\ override = [j \in Jobs |-> NoLocation]
  /\ lock = NoScan
  /\ pc = [s \in Scans |-> "idle"]
  /\ rows = [s \in Scans |-> {}]
  /\ ask = [s \in Scans |-> NoLocation]
  /\ found = [s \in Scans |-> FALSE]
  /\ hpc = [h \in Requests |-> "idle"]
  /\ hjob \in [Requests -> Jobs]
  /\ hloc \in [Requests -> Locations]
  /\ faults = 0
  /\ denied = {}
  /\ late = {}

-----------------------------------------------------------------------------
OnMap(l)  == place[l] \in {"resolved", "manual"}
Pending   == {l \in Locations : place[l] = "pending"}
Goto(s, from, to) == pc[s] = from /\ pc' = [pc EXCEPT ![s] = to]

\* with _run_lock: is entered.
TakeLockUnchecked(s) == lock' = s
TakeLock(s)          == lock = NoScan /\ lock' = s

(* run_once up to the geocoding step: save_jobs inserts the new jobs, and  *)
(* their locations unless the table has them already.                      *)
Begin(s, new, locs) ==
  /\ Goto(s, "idle", "select")
  /\ TakeLock(s)
  /\ present' = present \cup new
  /\ place' = [l \in Locations |->
                 IF l \in locs /\ place[l] = "absent" THEN "pending" ELSE place[l]]
  /\ UNCHANGED <<override, rows, ask, found, request, faults, denied, late>>

(* geocode_pending: SELECT ... WHERE status = 'pending'.                   *)
UnsettledPlaces == {l \in Locations : place[l] \notin {"absent", "resolved"}}
SelectedPlaces  == Pending

Select(s) ==
  /\ Goto(s, "select", "ask")
  /\ rows' = [rows EXCEPT ![s] = SelectedPlaces]
  /\ late' = {}
  /\ UNCHANGED <<place, present, override, lock, ask, found, request, faults, denied>>

(* One answer.  A transient error leaves the location for the next run;    *)
(* anything else that goes wrong counts as an unknown location.            *)
SettlesWhateverHappens(a) == TRUE
Settles(a)                == a # "transient"

Geocode(s, l, a) ==
  /\ l \in rows[s]
  /\ rows' = [rows EXCEPT ![s] = @ \ {l}]
  /\ IF Settles(a)
     THEN /\ Goto(s, "ask", "write")
          /\ ask' = [ask EXCEPT ![s] = l]
          /\ found' = [found EXCEPT ![s] = (a = "place")]
     ELSE /\ Goto(s, "ask", "ask")
          /\ UNCHANGED <<ask, found>>
  /\ denied' = IF a \in {"nothing", "error"} THEN denied \cup {l} ELSE denied
  /\ UNCHANGED <<place, present, override, lock, request, faults, late>>

\* UPDATE ... WHERE location = ..., whatever the status is by now; commit.
Write(s) ==
  /\ Goto(s, "write", "ask")
  /\ place' = [place EXCEPT ![ask[s]] = IF found[s] THEN "resolved" ELSE "failed"]
  /\ UNCHANGED <<present, override, lock, rows, ask, found, request, faults, denied, late>>

\* The rest of run_once, and the lock is given back.
End(s) ==
  /\ rows[s] = {}
  /\ Goto(s, "ask", "idle")
  /\ lock' = NoScan
  /\ UNCHANGED <<place, present, override, rows, ask, found, request, faults, denied, late>>

(* A statement raises: run_once logs it and goes on without geocoding; or  *)
(* the scan itself ends.  What was committed stays.                        *)
LockAfterRaiseKept(s) == lock
LockAfterRaise(s)     == IF lock = s THEN NoScan ELSE lock

Raise(s) ==
  /\ pc[s] # "idle" /\ faults < MaxFaults
  /\ faults' = faults + 1
  /\ pc' = [pc EXCEPT ![s] = "idle"]
  /\ rows' = [rows EXCEPT ![s] = {}]
  /\ lock' = LockAfterRaise(s)
  /\ UNCHANGED <<place, present, override, ask, found, request, denied, late>>

\* The process restarts: threads, requests and the lock are gone.
Crash ==
  /\ faults < MaxFaults
  /\ faults' = faults + 1
  /\ pc' = [s \in Scans |-> "idle"]
  /\ rows' = [s \in Scans |-> {}]
  /\ hpc' = [h \in Requests |-> "idle"]
  /\ lock' = NoScan
  /\ UNCHANGED <<place, present, override, ask, found, hjob, hloc, denied, late>>

-----------------------------------------------------------------------------
(* The user types a location for a job.  One already on the map, whoever   *)
(* put it there, is taken as it is; for another the geocoder is asked.     *)
StartOverride(h, j, l) ==
  /\ hpc[h] = "idle"
  /\ hpc' = [hpc EXCEPT ![h] = IF OnMap(l) THEN "save" ELSE "ask"]
  /\ hjob' = [hjob EXCEPT ![h] = j]
  /\ hloc' = [hloc EXCEPT ![h] = l]
  /\ UNCHANGED <<place, present, override, scan, faults, denied, late>>

\* No place, or no answer: the override is refused.
AskGeocoder(h, a) ==
  /\ hpc[h] = "ask"
  /\ hpc' = [hpc EXCEPT ![h] = IF a = "place" THEN "save" ELSE "idle"]
  /\ UNCHANGED <<place, present, override, scan, hjob, hloc, faults, denied, late>>

(* set_location_override, unless the job is gone: the place is upserted as *)
(* manual and the job points to it, in one transaction.                    *)
SaveOverrideUnchecked(h) ==
  /\ hpc[h] = "save"
  /\ hpc' = [hpc EXCEPT ![h] = "idle"]
  /\ place' = [place EXCEPT ![hloc[h]] = "manual"]
  /\ override' = [override EXCEPT ![hjob[h]] = hloc[h]]
  /\ late' = late \cup {hloc[h]}
  /\ UNCHANGED <<present, scan, hjob, hloc, faults, denied>>

SaveOverride(h) ==
  /\ hpc[h] = "save"
  /\ hpc' = [hpc EXCEPT ![h] = "idle"]
  /\ IF hjob[h] \in present
     THEN /\ place' = [place EXCEPT ![hloc[h]] = "manual"]
          /\ override' = [override EXCEPT ![hjob[h]] = hloc[h]]
          /\ late' = late \cup {hloc[h]}
     ELSE UNCHANGED <<place, override, late>>
  /\ UNCHANGED <<present, scan, hjob, hloc, faults, denied>>

\* An empty location: the job goes back to its own; the place stays.
ClearOverride(j) ==
  /\ j \in present /\ override[j] # NoLocation
  /\ override' = [override EXCEPT ![j] = NoLocation]
  /\ UNCHANGED <<place, present, scan, request, faults, denied, late>>

\* "Clear cache" deletes the jobs, not the places.
ClearJobs ==
  /\ present # {}
  /\ present' = {}
  /\ override' = [j \in Jobs |-> NoLocation]
  /\ UNCHANGED <<place, scan, request, faults, denied, late>>

-----------------------------------------------------------------------------
ScanStep(s) ==
  \/ \E new \in SUBSET Jobs, locs \in SUBSET Locations : Begin(s, new, locs)
  \/ Select(s) \/ Write(s) \/ End(s)
  \/ \E l \in Locations, a \in Answers : Geocode(s, l, a)

RequestStep(h) ==
  \/ \E j \in Jobs, l \in Locations : StartOverride(h, j, l)
  \/ \E a \in Answers : AskGeocoder(h, a)
  \/ SaveOverride(h)

Next ==
  \/ \E s \in Scans : ScanStep(s) \/ Raise(s)
  \/ \E h \in Requests : RequestStep(h)
  \/ \E j \in Jobs : ClearOverride(j)
  \/ Crash \/ ClearJobs

Spec == Init /\ [][Next]_vars

(* Scans go on (the cron trigger fires every day, requests to the geocoder *)
(* time out after 10 s), and the geocoder does not fail for ever: asked    *)
(* about a location again and again, it once gives a definite answer.      *)
FairSpec ==
  /\ Spec
  /\ \A s \in Scans :
       /\ WF_vars(ScanStep(s))
       /\ \A l \in Locations : SF_vars(\E a \in Answers \ {"transient"} : Geocode(s, l, a))

-----------------------------------------------------------------------------
(* A place that was found is never lost again: two scans never geocode the *)
(* same location at once, so the second one's "nothing" cannot overwrite   *)
(* the first one's answer.                                                 *)
ResolvedKept ==
  [][\A l \in Locations : place[l] = "resolved" => place'[l] \in {"resolved", "manual"}]_vars

(* A manual override is overwritten by no later geocoding run: only the    *)
(* one that had already read the location as pending can do it.            *)
OverrideKept ==
  [][\A l \in Locations : place[l] = "manual" /\ place'[l] # "manual" => l \in late]_vars

(* A location that counts as unknown for good is one the geocoder has      *)
(* denied: GeocoderTransientError asks its callers to "treat the location  *)
(* as still-pending rather than permanently failed" (geocoding/base.py).   *)
FailedMeansDenied == \A l \in Locations : place[l] = "failed" => l \in denied

(* Every location gets an answer, through exceptions, restarts and         *)
(* transient errors: what one run leaves pending a later one asks again.   *)
PendingSettles == \A l \in Locations : place[l] = "pending" ~> place[l] # "pending"
=============================================================================
