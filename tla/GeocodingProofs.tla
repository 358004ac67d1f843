-------------------------- MODULE GeocodingProofs ---------------------------
(***************************************************************************)
(* The table of places, for any number of locations, jobs, scans and       *)
(* override requests, and any number of exceptions and restarts.           *)
(*                                                                         *)
(* All that a scan knows is old: it selected its rows before requests that *)
(* take seconds.  What saves it is that nobody but an override touches a   *)
(* selected row before the scan has written it (Claimed), which holds      *)
(* because the whole of it runs under _run_lock (Exclusive).  At the end:  *)
(* why every scan gets through its rows, and no location comes back.       *)
(***************************************************************************)
EXTENDS Geocoding, TLAPS

\* The rows a scan has selected and not yet written.
Open(s) ==
  IF pc[s] = "ask" THEN rows[s]
  ELSE IF pc[s] = "write" THEN rows[s] \cup {ask[s]}
  ELSE {}

Exclusive == \A s \in Scans : pc[s] # "idle" => lock = s

Claimed ==
  \A s \in Scans : \A l \in Open(s) :
    place[l] = "pending" \/ (place[l] = "manual" /\ l \in late)

Answered ==
  \A s \in Scans : pc[s] = "write" =>
    /\ ask[s] \in Locations \ rows[s]
    /\ ~found[s] => ask[s] \in denied

GeoInv == TypeOK /\ Exclusive /\ Claimed /\ Answered /\ FailedMeansDenied

-----------------------------------------------------------------------------
LEMMA GeoInit == Init => GeoInv
BY GeocodingAssumption
   DEF Init, GeoInv, TypeOK, Exclusive, Claimed, Answered, FailedMeansDenied, Open, Statuses

LEMMA TypeStep == TypeOK /\ [Next]_vars => TypeOK'
<1> SUFFICES ASSUME TypeOK, [Next]_vars PROVE TypeOK'
  OBVIOUS
<1> USE GeocodingAssumption DEF TypeOK, Statuses, Goto, scan, request
<1>1. ASSUME NEW s \in Scans, NEW new \in SUBSET Jobs, NEW locs \in SUBSET Locations,
             Begin(s, new, locs)
      PROVE  TypeOK'
  BY <1>1 DEF Begin, TakeLock
<1>2. ASSUME NEW s \in Scans, Select(s) PROVE TypeOK'
  BY <1>2 DEF Select, SelectedPlaces, Pending
<1>3. ASSUME NEW s \in Scans, Write(s) PROVE TypeOK'
  BY <1>3 DEF Write
<1>4. ASSUME NEW s \in Scans, End(s) PROVE TypeOK'
  BY <1>4 DEF End
<1>5. ASSUME NEW s \in Scans, NEW l \in Locations, NEW a \in Answers, Geocode(s, l, a)
      PROVE  TypeOK'
  <2>1. CASE Settles(a)
    <3>1. found' = [found EXCEPT ![s] = (a = "place")]
      BY <1>5, <2>1 DEF Geocode
    <3>2. found' \in [Scans -> BOOLEAN]
      BY <3>1, Zenon
    <3>3. ask' \in [Scans -> Locations \cup {NoLocation}]
      BY <1>5, <2>1 DEF Geocode
    <3> QED
      BY <1>5, <2>1, <3>2, <3>3 DEF Geocode
  <2>2. CASE ~Settles(a)
    BY <1>5, <2>2 DEF Geocode
  <2> QED
    BY <2>1, <2>2
<1>6. ASSUME NEW s \in Scans, Raise(s) PROVE TypeOK'
  BY <1>6 DEF Raise, LockAfterRaise
<1>7. ASSUME NEW h \in Requests, NEW j \in Jobs, NEW l \in Locations, StartOverride(h, j, l)
      PROVE  TypeOK'
  BY <1>7 DEF StartOverride
<1>8. ASSUME NEW h \in Requests, NEW a \in Answers, AskGeocoder(h, a) PROVE TypeOK'
  BY <1>8 DEF AskGeocoder
<1>9. ASSUME NEW h \in Requests, SaveOverride(h) PROVE TypeOK'
  BY <1>9 DEF SaveOverride
<1>10. ASSUME NEW j \in Jobs, ClearOverride(j) PROVE TypeOK'
  BY <1>10 DEF ClearOverride
<1>11. CASE Crash
  BY <1>11 DEF Crash
<1>12. CASE ClearJobs
  BY <1>12 DEF ClearJobs
<1>13. CASE UNCHANGED vars
  BY <1>13 DEF vars
<1> QED
  BY <1>1, <1>2, <1>3, <1>4, <1>5, <1>6, <1>7, <1>8, <1>9, <1>10, <1>11, <1>12, <1>13
     DEF Next, ScanStep, RequestStep

LEMMA GeoStep == GeoInv /\ [Next]_vars => GeoInv'
<1> SUFFICES ASSUME GeoInv, [Next]_vars PROVE GeoInv'
  OBVIOUS
<1>t. TypeOK /\ TypeOK'
  BY TypeStep DEF GeoInv
<1> DEFINE Inv == Exclusive /\ Claimed /\ Answered /\ FailedMeansDenied
<1>i. Inv
  BY DEF GeoInv
<1> USE <1>t, <1>i, GeocodingAssumption
    DEF TypeOK, Goto, Exclusive, Claimed, Answered, FailedMeansDenied, Open, scan, request
<1>1. ASSUME NEW s \in Scans, NEW new \in SUBSET Jobs, NEW locs \in SUBSET Locations,
             Begin(s, new, locs)
      PROVE  Inv'
  BY <1>1 DEF Begin, TakeLock
<1>2. ASSUME NEW s \in Scans, Select(s) PROVE Inv'
  BY <1>2 DEF Select, SelectedPlaces, Pending
<1>3. ASSUME NEW s \in Scans, Write(s) PROVE Inv'
  BY <1>3 DEF Write
<1>4. ASSUME NEW s \in Scans, End(s) PROVE Inv'
  BY <1>4 DEF End
<1>5. ASSUME NEW s \in Scans, NEW l \in Locations, NEW a \in Answers, Geocode(s, l, a)
      PROVE  Inv'
  BY <1>5 DEF Geocode, Settles, Answers
<1>6. ASSUME NEW s \in Scans, Raise(s) PROVE Inv'
  BY <1>6 DEF Raise, LockAfterRaise
<1>7. ASSUME NEW h \in Requests, NEW j \in Jobs, NEW l \in Locations, StartOverride(h, j, l)
      PROVE  Inv'
  BY <1>7 DEF StartOverride
<1>8. ASSUME NEW h \in Requests, NEW a \in Answers, AskGeocoder(h, a) PROVE Inv'
  BY <1>8 DEF AskGeocoder
<1>9. ASSUME NEW h \in Requests, SaveOverride(h) PROVE Inv'
  BY <1>9 DEF SaveOverride
<1>10. ASSUME NEW j \in Jobs, ClearOverride(j) PROVE Inv'
  BY <1>10 DEF ClearOverride
<1>11. ASSUME Crash PROVE Inv'
  BY <1>11 DEF Crash
<1>12. ASSUME ClearJobs PROVE Inv'
  BY <1>12 DEF ClearJobs
<1>13. ASSUME UNCHANGED vars PROVE Inv'
  BY <1>13 DEF vars
<1>14. Inv'
  BY <1>1, <1>2, <1>3, <1>4, <1>5, <1>6, <1>7, <1>8, <1>9, <1>10, <1>11, <1>12, <1>13
     DEF Next, ScanStep, RequestStep
<1> QED
  BY <1>14 DEF GeoInv

LEMMA GeoInvariant == Spec => []GeoInv
BY GeoInit, GeoStep, PTL DEF Spec

-----------------------------------------------------------------------------
(* Every variable keeps its type.                                          *)
THEOREM GeocodingTypeCorrect == Spec => []TypeOK
<1>1. GeoInv => TypeOK
  BY DEF GeoInv
<1> QED
  BY <1>1, GeoInvariant, PTL

(* What geocoding/base.py asks of its callers: a transient error never     *)
(* makes a location count as unknown.                                      *)
THEOREM FailuresAreDenials == Spec => []FailedMeansDenied
<1>1. GeoInv => FailedMeansDenied
  BY DEF GeoInv
<1> QED
  BY <1>1, GeoInvariant, PTL

\* Only two actions write geocoded_locations on rows that are settled.
LEMMA Writers ==
  ASSUME GeoInv, [Next]_vars, NEW l \in Locations, place[l] \in {"resolved", "manual"}
  PROVE  \/ place'[l] = place[l]
         \/ place'[l] = "manual"
         \/ \E s \in Scans : pc[s] = "write" /\ ask[s] = l
<1> USE DEF TypeOK, Goto, scan, request, GeoInv
<1>1. ASSUME NEW s \in Scans, Write(s)
      PROVE  place'[l] = place[l] \/ (pc[s] = "write" /\ ask[s] = l)
  BY <1>1 DEF Write
<1>2. ASSUME NEW s \in Scans, NEW new \in SUBSET Jobs, NEW locs \in SUBSET Locations,
             Begin(s, new, locs)
      PROVE  place'[l] = place[l]
  BY <1>2 DEF Begin
<1>3. ASSUME NEW h \in Requests, SaveOverride(h)
      PROVE  place'[l] = place[l] \/ place'[l] = "manual"
  BY <1>3 DEF SaveOverride
<1> QED
  BY <1>1, <1>2, <1>3
     DEF Next, ScanStep, RequestStep, Select, End, Geocode, Raise, Crash, StartOverride,
         AskGeocoder, ClearOverride, ClearJobs, vars

(* A place once found stays on the map: no answer of any scan overwrites   *)
(* it, since a row in a scan's hands is still pending or an override.      *)
THEOREM PlacesAreKept == Spec => ResolvedKept
<1>1. GeoInv /\ [Next]_vars =>
        [\A l \in Locations : place[l] = "resolved" => place'[l] \in {"resolved", "manual"}]_vars
  BY Writers DEF GeoInv, Claimed, Open
<1> QED
  BY <1>1, GeoInvariant, PTL DEF Spec, ResolvedKept

(* A manual override is overwritten only by the scan that had selected the *)
(* location before the user set it.                                        *)
THEOREM OverridesAreKept == Spec => OverrideKept
<1>1. GeoInv /\ [Next]_vars =>
        [\A l \in Locations : place[l] = "manual" /\ place'[l] # "manual" => l \in late]_vars
  BY Writers DEF GeoInv, Claimed, Open
<1> QED
  BY <1>1, GeoInvariant, PTL DEF Spec, OverrideKept

-----------------------------------------------------------------------------
(* A location that has an answer is never asked about again: no action     *)
(* makes it pending once more, whatever jobs, scans and restarts come.     *)
SettledForGood ==
  [][\A l \in Locations :
       place[l] \notin {"absent", "pending"} => place'[l] \notin {"absent", "pending"}]_vars

(* save_jobs inserts a location only if the table lacks it, and nothing    *)
(* else writes "pending" (db.save_jobs, geocoding/service.py).             *)
THEOREM AnswersAreFinal == Spec => SettledForGood
<1>1. TypeOK /\ [Next]_vars =>
        [\A l \in Locations :
           place[l] \notin {"absent", "pending"} => place'[l] \notin {"absent", "pending"}]_vars
  <2> SUFFICES ASSUME TypeOK, Next, NEW l \in Locations, place[l] \notin {"absent", "pending"}
               PROVE  place'[l] \notin {"absent", "pending"}
    OBVIOUS
  <2> USE DEF TypeOK, Goto, scan, request
  <2>1. ASSUME NEW s \in Scans, Write(s) PROVE place'[l] \notin {"absent", "pending"}
    BY <2>1 DEF Write
  <2>2. ASSUME NEW s \in Scans, NEW new \in SUBSET Jobs, NEW locs \in SUBSET Locations,
               Begin(s, new, locs)
        PROVE  place'[l] = place[l]
    BY <2>2 DEF Begin
  <2>3. ASSUME NEW h \in Requests, SaveOverride(h)
        PROVE  place'[l] \notin {"absent", "pending"}
    BY <2>3 DEF SaveOverride
  <2> QED
    BY <2>1, <2>2, <2>3
       DEF Next, ScanStep, RequestStep, Select, End, Geocode, Raise, Crash, StartOverride,
           AskGeocoder, ClearOverride, ClearJobs, vars
<1> QED
  BY <1>1, GeocodingTypeCorrect, PTL DEF Spec, SettledForGood

\* Scan s comes nearer to its end, or settles a location.
ScanNearer(s) ==
  \/ pc[s] = "select" /\ pc'[s] = "ask"
  \/ /\ pc[s] = "ask" /\ pc'[s] \in {"ask", "write"}
     /\ \E l \in rows[s] : rows'[s] = rows[s] \ {l}
  \/ /\ pc[s] = "write" /\ pc'[s] = "ask" /\ rows'[s] = rows[s]
     /\ place'[ask[s]] \in {"resolved", "failed"}
  \/ pc[s] = "ask" /\ rows[s] = {} /\ pc'[s] = "idle" /\ lock' = NoScan

(* The safety half of PendingSettles: every step of a scan after its first *)
(* takes a location off its list, writes one answer down, or ends it with  *)
(* the lock given back; nobody else's step moves a running scan, except by *)
(* ending it.                                                              *)
ScansNearer ==
  [][\A s \in Scans : pc[s] # "idle" =>
       /\ ScanStep(s) => ScanNearer(s)
       /\ \/ ScanStep(s)
          \/ pc'[s] = "idle"
          \/ pc'[s] = pc[s] /\ rows'[s] = rows[s] /\ ask'[s] = ask[s]]_vars

(* The locations a scan asks about are a fixed list it works off.          *)
THEOREM ScansNearTheirEnd == Spec => ScansNearer
<1>1. GeoInv /\ [Next]_vars =>
        [\A s \in Scans : pc[s] # "idle" =>
           /\ ScanStep(s) => ScanNearer(s)
           /\ \/ ScanStep(s)
              \/ pc'[s] = "idle"
              \/ pc'[s] = pc[s] /\ rows'[s] = rows[s] /\ ask'[s] = ask[s]]_vars
  <2> SUFFICES ASSUME GeoInv, Next, NEW s \in Scans, pc[s] # "idle"
               PROVE  /\ ScanStep(s) => ScanNearer(s)
                      /\ \/ ScanStep(s)
                         \/ pc'[s] = "idle"
                         \/ pc'[s] = pc[s] /\ rows'[s] = rows[s] /\ ask'[s] = ask[s]
    OBVIOUS
  <2> USE DEF TypeOK, GeoInv, Goto, scan, request
  <2>1. ASSUME ScanStep(s) PROVE ScanNearer(s)
    <3>1. ASSUME NEW new \in SUBSET Jobs, NEW locs \in SUBSET Locations, Begin(s, new, locs)
          PROVE  FALSE
      BY <3>1 DEF Begin
    <3>2. ASSUME Select(s) PROVE ScanNearer(s)
      BY <3>2 DEF Select, ScanNearer
    <3>3. ASSUME Write(s) PROVE ScanNearer(s)
      BY <3>3 DEF Write, ScanNearer, Answered
    <3>4. ASSUME End(s) PROVE ScanNearer(s)
      BY <3>4 DEF End, ScanNearer
    <3>5. ASSUME NEW l \in Locations, NEW a \in Answers, Geocode(s, l, a) PROVE ScanNearer(s)
      BY <3>5 DEF Geocode, ScanNearer
    <3> QED
      BY <2>1, <3>1, <3>2, <3>3, <3>4, <3>5 DEF ScanStep
  <2> DEFINE Alone == pc'[s] = pc[s] /\ rows'[s] = rows[s] /\ ask'[s] = ask[s]
  <2>2. ASSUME NEW r \in Scans, r # s, ScanStep(r) PROVE Alone
    <3>1. ASSUME NEW new \in SUBSET Jobs, NEW locs \in SUBSET Locations, Begin(r, new, locs)
          PROVE  Alone
      BY <2>2, <3>1 DEF Begin
    <3>2. ASSUME Select(r) \/ Write(r) \/ End(r) PROVE Alone
      BY <2>2, <3>2 DEF Select, Write, End
    <3>3. ASSUME NEW l \in Locations, NEW a \in Answers, Geocode(r, l, a) PROVE Alone
      BY <2>2, <3>3 DEF Geocode
    <3> QED
      BY <2>2, <3>1, <3>2, <3>3 DEF ScanStep
  <2>3. ASSUME NEW r \in Scans, Raise(r) PROVE pc'[s] = "idle" \/ Alone
    BY <2>3 DEF Raise
  <2>4. ASSUME Crash PROVE pc'[s] = "idle"
    BY <2>4 DEF Crash
  <2>5. ASSUME NEW h \in Requests, RequestStep(h) PROVE Alone
    BY <2>5 DEF RequestStep, StartOverride, AskGeocoder, SaveOverride
  <2>6. ASSUME ClearJobs \/ \E j \in Jobs : ClearOverride(j) PROVE Alone
    BY <2>6 DEF ClearJobs, ClearOverride
  <2> QED
    BY <2>1, <2>2, <2>3, <2>4, <2>5, <2>6 DEF Next
<1> QED
  BY <1>1, GeoInvariant, PTL DEF Spec, ScansNearer
=============================================================================
