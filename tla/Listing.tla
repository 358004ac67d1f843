------------------------------- MODULE Listing ------------------------------
(***************************************************************************)
(* A reader of /jobs (app/web/routes_jobs.py, the queries in app/db.py and *)
(* the links of app/web/query_params.py), while scans, the geocoder and    *)
(* other tabs edit the table, and digests point to the page.               *)
(*                                                                         *)
(* Every page is a request of its own.  The handler first counts the       *)
(* matching jobs, clamps the page number, and then selects the page: two   *)
(* statements of a READ COMMITTED transaction, between which the table may *)
(* change.  A row's company stands for its title too, the other column the *)
(* reader may sort by; the state filter stands for the three a reader may  *)
(* give several values.  The table keeps its rows: a job saved meanwhile   *)
(* enters the pages as one that is active again does.                      *)
(***************************************************************************)
EXTENDS Digest, Integers, SequencesExt

CONSTANTS
  Rows,          \* rows of the jobs table: a key of an owner
  Owner, Key, Seen, Place,   \* of each row: first_seen_at, location
  Users, All,    \* All: an admin who has not picked a user
  Region,        \* the state of each place, if the geocoder names one
  Queries,       \* the filter forms the reader submits
  Excluded,      \* rows in a status the user keeps out of digests
  PageSize,
  LookupLimit,   \* how many duplicates the digest looks up
  MaxEdits,      \* how often the table changes
  MaxClock       \* how far the time goes on

Places     == DOMAIN Region
Unresolved == "__unresolved__"
None       == ""

Columns    == {"company", "first_seen_at", "age_days"}

\* What a query string may ask for.
Forms ==
  [user : Users \cup {All}, location : Places \cup {None, Unresolved}, states : Seq(Range(Region)),
   dups : {None, "include", "only"}, removed : {None, "active", "removed"},
   sort : Columns, dir : {"asc", "desc"}]

(* (user_id, key) is the primary key.  A run gives all the jobs it saves   *)
(* one time, and two runs save one after the other, under _run_lock.       *)
(* Numbers stand for the texts and times of a column, in their order.      *)
ASSUME ListingAssumption ==
  /\ PageSize \in Nat \ {0} /\ LookupLimit \in Nat /\ MaxEdits \in Nat /\ MaxClock \in Nat
  /\ IsFiniteSet(Rows) /\ Queries \subseteq Forms
  /\ Company \in [Rows -> Int] /\ Seen \in [Rows -> Int] /\ Key \in [Rows -> Int]
  /\ Place \in [Rows -> Places]
  /\ \A r, s \in Rows : r # s =>
       IF Owner[r] = Owner[s] THEN Key[r] # Key[s] ELSE Seen[r] # Seen[s]

VARIABLES
  row,       \* "active" or "removed" (removed_at)
  ended,     \* when a removed row was removed
  dup,       \* the rows marked as duplicates
  emailed,   \* the rows with an emailed_at
  place,     \* geocoded_locations.status of each place
  awaited,   \* the places the geocoder is still to answer for
  over,      \* location_override of each row, or None
  edits, clock,
  pc,        \* where the reader's request is
  q, page,   \* what it asks for: the query string
  total,     \* what it counted
  step,      \* where the digest of a run is
  whose, resend, jobs,   \* its user, their resend_jobs, jobs_to_send
  \* History, read by no action:
  asked,     \* the filters the reader chose
  steady,    \* nothing but "Next" since page 1 of them, and no change of the table
  seen,      \* the rows shown since, as long as that is so
  twice,     \* whether one of them was shown on two pages
  aged,      \* whether time has passed
  mail,      \* the digest of the last run
  late,      \* the rows removed or flagged since that run's reconciliation
  missed     \* the user's duplicates, if they are too many to look up

table  == <<row, ended, dup, emailed, place, awaited, over, edits>>
walk   == <<asked, seen, twice, steady, aged>>
digest == <<step, whose, resend, jobs, mail, late, missed>>
vars   == <<table, clock, pc, q, page, total, walk, digest>>

-----------------------------------------------------------------------------
Stored(user) == {r \in Rows : user \in {Owner[r], All}}
Resolved(p)  == place[p] = "resolved"
OnMap(p)     == place[p] \in {"resolved", "manual"}

(* A failed answer sets the status alone: the address an override had      *)
(* given the place stays ("lost").                                         *)
HasAddress(p) == place[p] \in {"resolved", "manual", "lost"}

(* _job_filters_sql, for the filters the model tells apart, on the place a *)
(* row is joined with.  It is LEFT JOINed: a location the table does not   *)
(* have is NULL.                                                           *)
InUnresolvedKnown(p) == place[p] \notin {"absent", "resolved"}
InUnresolved(p)      == ~ Resolved(p)

InLocation(p, loc) ==
  \/ loc = None
  \/ loc = Unresolved /\ InUnresolved(p)
  \/ loc = p /\ HasAddress(p)

InStates(p, states) ==
  states = << >> \/ (HasAddress(p) /\ Region[p] # None /\ Region[p] \in Range(states))

InDuplicates(r, dups) ==
  \/ dups = "include"
  \/ dups = "only" /\ r \in dup
  \/ dups = None /\ r \notin dup

InRemoved(r, removed) == removed = None \/ row[r] = removed

Joined(f, at) ==
  {r \in Stored(f.user) :
     /\ InLocation(at[r], f.location) /\ InStates(at[r], f.states)
     /\ InDuplicates(r, f.dups) /\ InRemoved(r, f.removed)}

\* count_jobs and list_jobs join jobs.location.
Matching(f) == Joined(f, Place)

(* list_mappable_jobs joins the override, if there is one; the map never   *)
(* asks for duplicates, and in the model no job is Not Interested.         *)
Shown == [r \in Rows |-> IF over[r] = None THEN Place[r] ELSE over[r]]

Mappable(f) == {r \in Joined([f EXCEPT !.dups = None], Shown) : OnMap(Shown[r])}

\* /jobs without a query string, and with only a user.
Default(user) ==
  [user |-> user, location |-> None, states |-> << >>, dups |-> None,
   removed |-> "active", sort |-> "first_seen_at", dir |-> "desc"]

\* The options of the location and the state filter, from jobs.location.
LocationOptions(user) == {p \in {Place[r] : r \in Stored(user)} : Resolved(p)}
StateOptions(user) ==
  {Region[p] : p \in {l \in {Place[r] : r \in Stored(user)} : OnMap(l)}} \ {None}

(* A removed job stops aging; NOW() is the start of the transaction.       *)
Age(r) == (IF row[r] = "removed" THEN ended[r] ELSE clock) - Seen[r]

(* ORDER BY column dir, jobs.key dir.                                      *)
Column(f, r) ==
  IF f.sort = "company" THEN Company[r]
  ELSE IF f.sort = "age_days" THEN Age(r) ELSE Seen[r]

BeforeByColumn(f, r, s) == Column(f, r) < Column(f, s)
Before(f, r, s) ==
  \/ Column(f, r) < Column(f, s)
  \/ Column(f, r) = Column(f, s) /\ Key[r] < Key[s]

Precedes(f, r, s) == IF f.dir = "asc" THEN Before(f, r, s) ELSE Before(f, s, r)

\* The orders the database may return: rows that tie come in any order.
Orders(f) ==
  {o \in SetToSeqs(Matching(f)) :
     \A i, j \in DOMAIN o : i < j => ~ Precedes(f, o[j], o[i])}

-----------------------------------------------------------------------------
(* paginate.                                                               *)
TotalPages(n)     == IF n = 0 THEN 1 ELSE (n + PageSize - 1) \div PageSize
Clamped(p, n)     == IF p > TotalPages(n) THEN TotalPages(n) ELSE p
OffsetOf(p)       == (p - 1) * PageSize

\* query_url: dict(query_params) keeps the last value of each name.
Link(f) == [f EXCEPT !.states = IF @ = << >> THEN @ ELSE <<Last(@)>>]

-----------------------------------------------------------------------------
Init ==
  /\ row = [r \in Rows |-> "active"] /\ ended = [r \in Rows |-> 0]
  /\ dup = {} /\ emailed = {}
  /\ place \in [Places -> {"absent", "pending", "resolved"}]
  /\ awaited = {p \in Places : place[p] = "pending"}
  /\ over = [r \in Rows |-> None]
  /\ edits = 0 /\ clock = 0
  /\ pc = "closed"
  /\ q \in {Default(u) : u \in Users} /\ page = 1 /\ total = 0
  /\ asked = q /\ seen = {} /\ twice = FALSE /\ steady = FALSE /\ aged = FALSE
  /\ step = "idle" /\ whose = All /\ resend = FALSE /\ jobs = {}
  /\ mail = NoDigest /\ late = {} /\ missed = {}

\* A request for the first page of filters the reader chose.
StartWalk(f) ==
  /\ pc' = "count"
  /\ q' = f /\ page' = 1
  /\ seen' = {} /\ twice' = FALSE /\ steady' = TRUE /\ aged' = FALSE
  /\ UNCHANGED <<table, clock, total, digest>>

(* The filter form, or a bookmark.                                         *)
Open(f) ==
  /\ pc \in {"closed", "shown"}
  /\ StartWalk(f)
  /\ asked' = f

(* A column header: sort_url turns the direction round.                    *)
SortBy(column) ==
  LET dir == IF q.sort = column /\ q.dir = "desc" THEN "asc"
             ELSE IF q.sort = column THEN "desc" ELSE "asc"
      sorted(f) == [f EXCEPT !.sort = column, !.dir = dir]
  IN /\ pc = "shown"
     /\ StartWalk(sorted(Link(q)))
     /\ asked' = sorted(asked)

(* The "x" of an active-filter chip removes one value of one filter.       *)
(* (What SelectSeq does, which the provers know nothing of.)               *)
Without(values, value) ==
  LET left == {i \in DOMAIN values : values[i] # value}
  IN [n \in 1..Cardinality(left) |->
        values[CHOOSE i \in left : Cardinality({j \in left : j <= i}) = n]]

RemoveChip(state) ==
  LET rest == [q EXCEPT !.states = Without(@, state)]
  IN /\ pc = "shown" /\ state \in Range(q.states)
     /\ StartWalk(rest)
     /\ asked' = rest

Count ==
  /\ pc = "count"
  /\ pc' = "list"
  /\ total' = Cardinality(Matching(q))
  /\ UNCHANGED <<table, clock, q, page, walk, digest>>

List ==
  /\ pc = "list"
  /\ pc' = "shown"
  /\ page' = Clamped(page, total)
  /\ \E o \in Orders(q) :
       LET shown == Range(SubSeq(o, OffsetOf(page') + 1,
                                 IF OffsetOf(page') + PageSize < Len(o)
                                 THEN OffsetOf(page') + PageSize ELSE Len(o)))
       IN /\ seen' = IF steady THEN seen \cup shown ELSE {}
          /\ twice' = (twice \/ shown \cap seen # {})
  /\ UNCHANGED <<table, clock, q, total, asked, steady, aged, digest>>

\* The links and the jump form below the table.
Turn(f, p) ==
  /\ pc = "shown"
  /\ pc' = "count"
  /\ q' = f /\ page' = p
  /\ UNCHANGED <<table, clock, total, asked, digest>>

Undisturbed == UNCHANGED <<steady, seen, twice, aged>>
Disturbed   == steady' = FALSE /\ seen' = {} /\ twice' = FALSE /\ aged' = FALSE

NextPage == page < TotalPages(total) /\ Turn(Link(q), page + 1) /\ Undisturbed

PreviousPage == page > 1 /\ Turn(Link(q), page - 1) /\ Disturbed

\* The form keeps every parameter; the number is typed.
Jump(p) == TotalPages(total) > 2 /\ Turn(q, p) /\ Disturbed

-----------------------------------------------------------------------------
(* What others do meanwhile.                                               *)
Tick ==
  /\ clock < MaxClock /\ pc # "list"
  /\ clock' = clock + 1
  /\ aged' = steady
  /\ UNCHANGED <<table, pc, q, page, total, asked, seen, twice, steady, digest>>

Edit ==
  /\ edits < MaxEdits
  /\ edits' = edits + 1
  /\ Disturbed
  /\ UNCHANGED <<clock, pc, q, page, total, asked>>

\* The table changes under a digest that is on its way.
EditJob(lost) ==
  /\ Edit
  /\ late' = IF step = "idle" THEN late ELSE late \cup lost
  /\ UNCHANGED <<step, whose, resend, jobs, mail, missed>>

\* A scan finds a job again.
JobFound(r) ==
  /\ EditJob({})
  /\ row[r] = "removed"
  /\ row' = [row EXCEPT ![r] = "active"]
  /\ emailed' = emailed \ {r}
  /\ UNCHANGED <<ended, dup, place, awaited, over>>

\* By the user, a scan or the URL check of the run the digest is about.
JobRemoved(r) ==
  /\ EditJob({r})
  /\ row[r] = "active"
  /\ row' = [row EXCEPT ![r] = "removed"]
  /\ ended' = [ended EXCEPT ![r] = clock]
  /\ UNCHANGED <<dup, emailed, place, awaited, over>>

\* update_job_duplicate, both ways.
Duplicate(r) ==
  /\ EditJob(IF r \in dup THEN {} ELSE {r})
  /\ dup' = IF r \in dup THEN dup \ {r} ELSE dup \cup {r}
  /\ UNCHANGED <<row, ended, emailed, place, awaited, over>>

(* A scan that had read the place as pending has its answer, which may be  *)
(* late: somebody may have overridden a job with the place meanwhile.      *)
Located(p, status) ==
  /\ Edit
  /\ p \in awaited
  /\ awaited' = awaited \ {p}
  /\ place' = [place EXCEPT ![p] = IF status = "failed" /\ @ = "manual" THEN "lost" ELSE status]
  /\ UNCHANGED <<row, ended, dup, emailed, over, digest>>

\* set_location_override upserts the place, whatever it was.
Override(r, p) ==
  /\ Edit
  /\ over' = [over EXCEPT ![r] = p]
  /\ place' = [place EXCEPT ![p] = "manual"]
  /\ UNCHANGED <<row, ended, dup, emailed, awaited, digest>>

ClearOverride(r) ==
  /\ Edit
  /\ over[r] # None
  /\ over' = [over EXCEPT ![r] = None]
  /\ UNCHANGED <<row, ended, dup, emailed, place, awaited, digest>>

-----------------------------------------------------------------------------
DigestStep(from, to) ==
  /\ step = from /\ step' = to
  /\ UNCHANGED <<row, ended, dup, place, awaited, over, edits, clock, pc, q, page, total, walk>>

(* _run_user, from the reconciliation of its scan on.  The jobs it found,  *)
(* or the new ones among them, are active then, and are kept in memory.    *)
Scanned(u, found, again) ==
  /\ DigestStep("idle", "rescue")
  /\ found \subseteq {r \in Stored(u) : row[r] = "active"}
  /\ again \/ found \cap emailed = {}
  /\ whose' = u /\ resend' = again /\ jobs' = found
  /\ mail' = NoDigest /\ late' = {} /\ missed' = {}
  /\ UNCHANGED emailed

Unemailed(user) == {r \in Stored(user) : row[r] = "active"} \ emailed

Rescue ==
  /\ DigestStep("rescue", "lookup")
  /\ jobs' = jobs \cup Unemailed(whose)
  /\ UNCHANGED <<emailed, whose, resend, mail, late, missed>>

\* The duplicates of the user: the first LookupLimit of them.
DuplicateForm(user) == [Default(user) EXCEPT !.dups = "only", !.removed = None]

NoDuplicates(user) == {{}}
Duplicates(user) ==
  {Range(SubSeq(o, 1, IF LookupLimit < Len(o) THEN LookupLimit ELSE Len(o))) :
     o \in Orders(DuplicateForm(user))}

DropDuplicates ==
  /\ DigestStep("lookup", "send")
  /\ \E dups \in Duplicates(whose) : jobs' = jobs \ dups
  /\ LET flagged == Matching(DuplicateForm(whose))
     IN missed' = IF Cardinality(flagged) > LookupLimit THEN flagged ELSE {}
  /\ UNCHANGED <<emailed, whose, resend, mail, late>>

(* Without the jobs in a status the user excludes.  (What may go wrong     *)
(* between the mail and mark_emailed is in ScanPipeline.)                  *)
Send ==
  /\ DigestStep("send", "idle")
  /\ jobs \ Excluded # {}
  /\ mail' \in Digests(jobs \ Excluded, emailed, resend)
  /\ emailed' = emailed \cup (jobs \ Excluded)
  /\ jobs' = {}
  /\ UNCHANGED <<whose, resend, late, missed>>

\* Nothing to send, nobody to send it to, or an exception.
NoMail ==
  /\ step # "idle"
  /\ DigestStep(step, "idle")
  /\ jobs' = {}
  /\ UNCHANGED <<emailed, whose, resend, mail, late, missed>>

-----------------------------------------------------------------------------
Reader ==
  \/ \E f \in Queries : Open(f)
  \/ \E c \in Columns : SortBy(c)
  \/ \E s \in Range(Region) : RemoveChip(s)
  \/ Count \/ List \/ NextPage \/ PreviousPage
  \/ \E p \in 1..TotalPages(total) : Jump(p)

Others ==
  \/ \E r \in Rows : JobFound(r) \/ JobRemoved(r) \/ Duplicate(r)
  \/ \E p \in Places, s \in {"resolved", "failed"} : Located(p, s)
  \/ \E r \in Rows, p \in Places : Override(r, p)
  \/ \E r \in Rows : ClearOverride(r)

Mailer ==
  \/ \E u \in Users, found \in SUBSET Rows, again \in BOOLEAN : Scanned(u, found, again)
  \/ Rescue \/ DropDuplicates \/ Send \/ NoMail

Next == Reader \/ Tick \/ Others \/ Mailer

Spec == Init /\ [][Next]_vars

-----------------------------------------------------------------------------
AtTheEnd == pc = "shown" /\ steady /\ page = TotalPages(total)

EachOnce == seen = Matching(asked) /\ ~ twice

(* Two users' rows of one job have one key, and tie in company and title.  *)
(* Their times differ, and so do their ages, as long as neither is removed.*)
OneOrder(f) ==
  \/ f.user # All \/ f.sort = "first_seen_at"
  \/ f.sort = "age_days" /\ f.removed = "active"

(* Active jobs grow older and removed ones do not: listed together they    *)
(* change places while nobody changes the table.                           *)
AgesMix(f) == f.sort = "age_days" /\ f.removed = None

(* Whoever follows "Next" from the first page to the last has been shown   *)
(* every matching job exactly once, if the table does not change on the    *)
(* way: counts, clamping, offsets and the order, made total by the key,    *)
(* fit together.  Not for several values of one filter (see below), nor    *)
(* for an admin's list of everybody's jobs in a column in which they tie,  *)
(* nor for active and removed jobs sorted by age while time passes.        *)
PagesListOnce ==
  AtTheEnd /\ Len(asked.states) <= 1 /\ OneOrder(asked) /\ ~ (AgesMix(asked) /\ aged) => EachOnce

(* CHANGELOG.md:1076-1078: sorting and filters are "All server-side and    *)
(* encoded in the URL, so results are correct across pagination".          *)
CorrectAcrossPages ==
  AtTheEnd /\ asked.user # All => EachOnce

(* The filters and the map between them lose no job.  Each job is under an *)
(* option of the location filter or under "Other / Unresolved", which also *)
(* has everything the map leaves out (README.md:218), but for an overridden *)
(* job whose place a late answer has failed; each job on the map, if it is *)
(* not overridden and its state is known, is under that state there; and   *)
(* no option of either filter leads to an empty list.                      *)
(* (About the table alone, so it is enough to look while nobody reads.)    *)
EveryPlaceOffered ==
  pc = "closed" => \A u \in Users \cup {All} :
    LET everything == [Default(u) EXCEPT !.dups = "include", !.removed = None]
        At(loc)    == Matching([everything EXCEPT !.location = loc])
        In(state)  == [everything EXCEPT !.states = <<state>>]
        Lost       == {r \in Rows : over[r] # None /\ place[over[r]] = "lost"}
        Plain      == {r \in Mappable(everything) : over[r] = None /\ Region[Place[r]] # None}
    IN /\ Stored(u) = UNION {At(loc) : loc \in LocationOptions(u) \cup {Unresolved}}
       /\ (Stored(u) \ dup) \ Mappable(everything) \subseteq At(Unresolved) \cup Lost
       /\ Plain \subseteq UNION {Mappable(In(s)) : s \in StateOptions(u)}
       /\ \A loc \in LocationOptions(u) : At(loc) # {}
       /\ \A s \in StateOptions(u) : Matching(In(s)) # {}

(* A cap on the digest drops nothing silently (CHANGELOG.md:608-613): what *)
(* it is about is listed or counted; and all of it is on the page "view    *)
(* all" opens, unless somebody removed or flagged it since the run's       *)
(* reconciliation, or the user has more duplicates than are looked up.     *)
NothingDropped ==
  [][mail' # mail =>
       LET listed == mail'.newly \cup mail'.already
       IN /\ \A c \in Companies(mail'.about) :
               Cardinality(Of(c, mail'.about)) = Cardinality(Of(c, listed)) + mail'.more[c]
          /\ listed \subseteq mail'.about
          /\ mail'.about \subseteq Matching(Default(whose))' \cup late \cup missed]_vars
=============================================================================
