-------------------------------- MODULE Fetch -------------------------------
(***************************************************************************)
(* One adapter reading one job board (app/adapters): the page loops of     *)
(* Workday, TalentBrew, Findly and the two generations of Infor boards,    *)
(* and the adapters that make a single request.  Every request goes        *)
(* through Guard, and the board changes between the requests.              *)
(*                                                                         *)
(* What fetch returns is taken for the whole board: reconcile_jobs marks   *)
(* the jobs missing from it as removed.  So the question is which jobs a   *)
(* fetch that does not raise may leave out.                                *)
(***************************************************************************)
EXTENDS Guard, Sequences, Functions

CONSTANTS
  Adapters,    \* the adapters of ADAPTERS looked at
  Keys,        \* jobs the board may list
  Malformed,   \* those whose record or card lacks a field the parser needs
  Boards,      \* listings the board may start with
  Board,       \* the host of the source's URL
  PageSize,    \* _PAGE_SIZE, RecordsPerPage
  SearchSize,  \* the size=... of the single-request search APIs
  MaxPages,    \* source.max_pages
  MaxChanges,  \* how often the board changes while it is read
  Unknown      \* no total yet

Attempts == 2  \* _LOAD_ATTEMPTS

Paged  == {"workday", "talentbrew", "findly"}
Infor  == {"infor_v1", "infor_v2"}
Single == {"greenhouse", "lever", "healthcaresource", "phenompeople", "generic_html",
           "linkedin", "indeed"}

ASSUME FetchAssumption ==
  /\ Adapters \subseteq Paged \cup Infor \cup Single
  /\ Malformed \subseteq Keys
  /\ Boards \subseteq Seq(Keys)
  /\ Board \in Hosts
  /\ PageSize \in Nat \ {0} /\ SearchSize \in Nat \ {0} /\ MaxPages \in Nat \ {0}
  /\ MaxChanges \in Nat
  /\ Unknown \notin Nat

VARIABLES
  adapter,  \* whose fetch it is
  fpc,      \* where it is
  page,     \* pages read
  total,    \* the bound the first page gave: rows (Workday) or pages (TalentBrew)
  got,      \* keys of all_jobs
  loads,    \* _open_board's attempts
  board,    \* what the site lists now, in its order
  shown,    \* the cards in the browser's grid
  at,       \* the last page the grid was asked for
  seen,     \* the last page the grid got
  changes,  \* how often the board has changed
  steady,   \* history: the jobs the board listed all along
  why       \* history: what happened that may cost a job

reading == <<adapter, fpc, page, total, got, loads>>
grid    == <<shown, at, seen>>
site    == <<board, changes, steady>>
vars    == <<guard, reading, grid, site, why>>

TypeOK ==
  /\ GuardTypeOK
  /\ adapter \in Adapters
  /\ fpc \in {"next", "asked", "clicked", "yield", "returned", "failed"}
  /\ page \in 0..MaxPages
  /\ total \in Nat \cup {Unknown}
  /\ got \subseteq Keys \ Malformed
  /\ loads \in 0..Attempts
  /\ board \in Seq(Keys)
  /\ shown \subseteq Keys
  /\ seen \in 0..MaxPages /\ at \in seen..MaxPages
  /\ changes \in 0..MaxChanges
  /\ steady \subseteq Range(board)
  /\ why \subseteq {"posted", "closed", "unmarked", "blank", "stalled", "unrendered"}

Init ==
  /\ GuardInit
  /\ adapter \in Adapters
  /\ fpc = "next"
  /\ page = 0
  /\ total = Unknown
  /\ got = {}
  /\ loads = 0
  /\ board \in Boards
  /\ shown = {}
  /\ at = 0
  /\ seen = 0
  /\ changes = 0
  /\ steady = Range(board)
  /\ why = {}

-----------------------------------------------------------------------------
Min(a, b) == IF a < b THEN a ELSE b

\* The site's n-th page, and how many there are.
Rows(n)   == SubSeq(board, (n - 1) * PageSize + 1, Min(n * PageSize, Len(board)))
PageCount == (Len(board) + PageSize - 1) \div PageSize

\* A record that does not parse is logged and skipped.
Parsed(rows) == Range(rows) \ Malformed

Ask(kind) ==
  /\ fpc = "next"
  /\ fpc' = "asked"
  /\ StartRequest(kind, Board)
  /\ UNCHANGED <<page, total, got, loads, adapter, grid, site, why>>

\* The response is in; the guard's session is closed.
Answered ==
  /\ fpc = "asked" /\ gpc = "answered"
  /\ gpc' = "idle"
  /\ UNCHANGED <<dns, rebinds, via, url, hops, conns, dialed, adapter, site>>

Return ==
  /\ fpc' = "returned"
  /\ UNCHANGED <<guard, adapter, page, total, got, loads, grid, site, why>>

(* raise_for_status, a request that failed, a guard that refused: fetch    *)
(* raises and nothing it has read is returned.                             *)
Fail ==
  /\ fpc = "asked" /\ gpc = "raised"
  /\ fpc' = "failed"
  /\ gpc' = "idle"
  /\ got' = {}
  /\ UNCHANGED <<dns, rebinds, via, url, hops, conns, dialed, adapter, page, total, loads,
                 grid, site, why>>

-----------------------------------------------------------------------------
(* Workday: the bound is the first response's total, capped, and is not    *)
(* looked at again; past the end the site starts over at its first page.   *)
WorkdayOffset == page * PageSize

WorkdayMore == WorkdayOffset < IF page = 0 THEN 1 ELSE Min(total, MaxPages * PageSize)

WorkdayTotalReread(first) == IF first THEN Len(board) ELSE 0
WorkdayTotal(first)       == IF first THEN Len(board) ELSE total

WorkdayRows == IF WorkdayOffset < Len(board) THEN Rows(page + 1) ELSE Rows(1)

WorkdayPage ==
  /\ adapter = "workday"
  /\ \/ fpc = "next" /\ WorkdayMore /\ Ask("api")
     \/ /\ Answered
        /\ got' = got \cup Parsed(WorkdayRows)
        /\ total' = WorkdayTotal(page = 0)
        /\ page' = page + 1
        /\ fpc' = "next"
        /\ UNCHANGED <<loads, grid, why>>
     \/ fpc = "next" /\ ~WorkdayMore /\ Return

(* TalentBrew: the number of pages is in the first page's markup, if the   *)
(* markup has it; a page without a readable card ends the loop.            *)
TalentBrewMore == page < IF total = Unknown THEN MaxPages ELSE Min(total, MaxPages)

TalentBrewTotal(marked) ==
  IF total # Unknown THEN total ELSE IF marked THEN PageCount ELSE 1

TalentBrewRetry(jobs) == FALSE
TalentBrewStop(jobs)  == jobs = {}

TalentBrewPage ==
  /\ adapter = "talentbrew"
  /\ \/ fpc = "next" /\ TalentBrewMore /\ Ask("api")
     \/ /\ Answered
        /\ \E marked \in BOOLEAN :
             LET jobs == Parsed(Rows(page + 1)) IN
             /\ total' = TalentBrewTotal(marked)
             /\ got' = got \cup jobs
             /\ page' = IF jobs = {} THEN page ELSE page + 1
             /\ fpc' = IF TalentBrewStop(jobs) THEN "returned" ELSE "next"
             /\ why' = why \cup (IF total = Unknown /\ ~marked THEN {"unmarked"} ELSE {})
                           \cup (IF jobs = {} THEN {"blank"} ELSE {})
        /\ UNCHANGED <<loads, grid>>
     \/ fpc = "next" /\ ~TalentBrewMore /\ Return

(* Findly: newest first, until a page is short of records, readable or not.*)
FindlyLast(rows) == Len(rows) < PageSize

FindlyPage ==
  /\ adapter = "findly"
  /\ \/ fpc = "next" /\ page < MaxPages /\ Ask("plain")
     \/ /\ Answered
        /\ LET rows == Rows(page + 1) IN
             /\ got' = got \cup Parsed(rows)
             /\ fpc' = IF FindlyLast(rows) THEN "returned" ELSE "next"
        /\ page' = page + 1
        /\ UNCHANGED <<total, loads, grid, why>>
     \/ fpc = "next" /\ page = MaxPages /\ Return

-----------------------------------------------------------------------------
(* One request, and the jobs in its answer: all of them, as many as a      *)
(* search API was asked for, or those on the first page of results.        *)
SingleRequest(name, kind, rows) ==
  /\ adapter = name
  /\ \/ fpc = "next" /\ Ask(kind)
     \/ /\ Answered
        /\ got' = Parsed(rows)
        /\ page' = 1
        /\ fpc' = "returned"
        /\ UNCHANGED <<total, loads, grid, why>>

SearchHits == SubSeq(board, 1, Min(SearchSize, Len(board)))

Greenhouse       == SingleRequest("greenhouse", "plain", board)
Lever            == SingleRequest("lever", "plain", board)
HealthcareSource == SingleRequest("healthcaresource", "plain", SearchHits)
PhenomPeople     == SingleRequest("phenompeople", "api", SearchHits)
GenericHtml      == \E kind \in {"api", "document"} : SingleRequest("generic_html", kind, Rows(1))
LinkedIn         == SingleRequest("linkedin", "document", Rows(1))
Indeed           == SingleRequest("indeed", "document", Rows(1))

-----------------------------------------------------------------------------
(* Infor, in one browser session: load the board, twice if it is slow.     *)
InforOpen ==
  /\ adapter \in Infor /\ page = 0 /\ fpc = "next"
  /\ loads < Attempts
  /\ fpc' = "asked"
  /\ loads' = loads + 1
  /\ StartRequest("document", Board)
  /\ UNCHANGED <<adapter, page, total, got, grid, site, why>>

(* The rows of a grid are there before the cards in them: whoever reads it  *)
(* at once may find only some of them, or none.                            *)
Rendered(cards, rows) ==
  /\ shown' = cards
  /\ why' = why \cup (IF Range(rows) \subseteq cards THEN {} ELSE {"unrendered"})

(* _wait_for_board sees rows: the first page is read as it stands.  v1     *)
(* looks for a card before it yields a page.                               *)
InforReady ==
  /\ adapter \in Infor
  /\ Answered
  /\ \E cards \in SUBSET Range(Rows(1)) :
       /\ adapter = "infor_v1" => cards # {}
       /\ Rendered(cards, Rows(1))
  /\ at' = 1 /\ seen' = 1
  /\ fpc' = "yield"
  /\ UNCHANGED <<page, total, got, loads>>

\* v1 finds none yet.
InforV1Unrendered ==
  /\ adapter = "infor_v1" /\ board # << >>
  /\ Answered
  /\ Rendered({}, Rows(1))
  /\ fpc' = "returned"
  /\ UNCHANGED <<page, total, got, loads, at, seen>>

\* It sees none in time.
InforSlow ==
  /\ adapter \in Infor
  /\ Answered
  /\ fpc' = IF loads = Attempts THEN "failed" ELSE "next"
  /\ UNCHANGED <<page, total, got, loads, grid, why>>

\* _parse_page of one yielded page; fetch stops at a page without jobs.
InforYield ==
  /\ adapter \in Infor /\ fpc = "yield"
  /\ got' = got \cup (shown \ Malformed)
  /\ page' = page + 1
  /\ fpc' = IF shown \subseteq Malformed THEN "returned" ELSE "next"
  /\ why' = why \cup (IF shown \subseteq Malformed THEN {"blank"} ELSE {})
  /\ UNCHANGED <<guard, adapter, total, loads, grid, site>>

\* The next button, or "load more", is there and enabled.
InforMore == at * PageSize < Len(board)

InforClick ==
  /\ adapter \in Infor /\ fpc = "next"
  /\ page > 0 /\ page < MaxPages /\ InforMore
  /\ at' = at + 1
  /\ fpc' = "clicked"
  /\ UNCHANGED <<guard, adapter, page, total, got, loads, shown, seen, site, why>>

InforEnd ==
  /\ adapter \in Infor /\ fpc = "next"
  /\ page > 0 /\ (page = MaxPages \/ ~InforMore)
  /\ Return

(* v1: the grid swaps its contents in place.  What arrives first may be    *)
(* the answer to an earlier click.                                         *)
InforV1Swapped ==
  /\ adapter = "infor_v1" /\ fpc = "clicked"
  /\ \E n \in (seen + 1)..at :
       /\ seen' = n
       /\ \E cards \in SUBSET Range(Rows(n)) \ {{}} : Rendered(cards, Rows(n))
  /\ fpc' = "yield"
  /\ UNCHANGED <<guard, adapter, page, total, got, loads, at, site>>

(* Fifteen seconds pass with the same first title: the old page is read    *)
(* once more and the next click goes on from there.                        *)
InforV1Unchanged ==
  /\ adapter = "infor_v1" /\ fpc = "clicked"
  /\ fpc' = "yield"
  /\ why' = why \cup {"stalled"}
  /\ UNCHANGED <<guard, adapter, page, total, got, loads, grid, site>>

(* The grid is between two pages: no title, which differs from the old     *)
(* one, and no card, which ends the loop.                                  *)
InforV1Blank ==
  /\ adapter = "infor_v1" /\ fpc = "clicked"
  /\ fpc' = "returned"
  /\ why' = why \cup {"stalled"}
  /\ UNCHANGED <<guard, adapter, page, total, got, loads, grid, site>>

(* v2: "load more" appends, and what is read is all of it.  A card of an   *)
(* earlier page that had been late is there now, perhaps alone.            *)
InforV2Grown ==
  /\ adapter = "infor_v2" /\ fpc = "clicked"
  /\ \E cards \in SUBSET UNION {Range(Rows(n)) : n \in 1..at} : Rendered(shown \cup cards, Rows(at))
  /\ seen' = at
  /\ fpc' = "yield"
  /\ UNCHANGED <<guard, adapter, page, total, got, loads, at, site>>

\* Fifteen seconds pass without another card: the loop ends.
InforV2Stalled ==
  /\ adapter = "infor_v2" /\ fpc = "clicked"
  /\ fpc' = "returned"
  /\ why' = why \cup {"stalled"}
  /\ UNCHANGED <<guard, adapter, page, total, got, loads, grid, site>>

-----------------------------------------------------------------------------
\* The board gains or loses a job while it is being read.
Changing ==
  /\ fpc \notin {"returned", "failed"} /\ page > 0
  /\ changes < MaxChanges
  /\ changes' = changes + 1
  /\ UNCHANGED <<guard, reading, grid>>

Post(k) ==
  /\ Changing
  /\ k \notin Range(board)
  /\ board' = <<k>> \o board
  /\ why' = why \cup {"posted"}
  /\ UNCHANGED steady

Close(k) ==
  /\ Changing
  /\ \E i \in 1..Len(board) :
       /\ board[i] = k
       /\ board' = SubSeq(board, 1, i - 1) \o SubSeq(board, i + 1, Len(board))
  /\ steady' = steady \ {k}
  /\ why' = why \cup {"closed"}

FetchStep ==
  \/ WorkdayPage \/ TalentBrewPage \/ FindlyPage
  \/ Greenhouse \/ Lever \/ HealthcareSource \/ PhenomPeople \/ GenericHtml \/ LinkedIn \/ Indeed
  \/ InforOpen \/ InforReady \/ InforV1Unrendered \/ InforSlow \/ InforYield \/ InforClick \/ InforEnd
  \/ InforV1Swapped \/ InforV1Unchanged \/ InforV1Blank \/ InforV2Grown \/ InforV2Stalled
  \/ Fail

Others == <<reading, grid, site, why>>

Next ==
  \/ FetchStep
  \/ GuardStep /\ UNCHANGED Others
  \/ \E h \in Hosts : Rebind(h) /\ UNCHANGED Others
  \/ \E k \in Keys : Post(k) \/ Close(k)

(* Requests time out (15 s, 30 s) and the waits on a grid have deadlines:  *)
(* a step that can be taken is.                                            *)
Spec == Init /\ [][Next]_vars /\ WF_vars(FetchStep \/ (GuardStep /\ UNCHANGED Others))

-----------------------------------------------------------------------------
\* The jobs a capped fetch was never going to read.
BeyondCap ==
  Len(board) > CASE adapter \in {"greenhouse", "lever"}                -> Len(board)
                 [] adapter \in {"healthcaresource", "phenompeople"}   -> SearchSize
                 [] adapter \in {"generic_html", "linkedin", "indeed"} -> PageSize
                 [] OTHER                                              -> MaxPages * PageSize

(* A listing that is returned is the listing: a job that was on the board  *)
(* all along and is left out was malformed or beyond the configured cap,   *)
(* or the board closed a job meanwhile (every later one moved up a page),  *)
(* or posted one where the number of pages had been fixed by the first     *)
(* answer, or a page had no readable card or no marker.  Findly loses      *)
(* nothing to a posting.  The last disjunct tolerates what the comment of  *)
(* infor.fetch (infor.py:236-238) rules out, "Any failure propagates       *)
(* (source marked failed) rather than returning the pages read so far":    *)
(* a grid that keeps the reader waiting, or is read before its cards are   *)
(* there, costs jobs, and even the whole board, without an error.          *)
MissingExplained ==
  fpc = "returned" =>
    \A k \in steady \ got :
      \/ k \in Malformed
      \/ BeyondCap
      \/ "closed" \in why
      \/ "posted" \in why /\ adapter \in {"workday", "talentbrew"} \cup Single
      \/ why \cap {"unmarked", "blank"} # {} /\ adapter \in {"talentbrew"} \cup Infor
      \/ why \cap {"stalled", "unrendered"} # {} /\ adapter \in Infor

(* Every fetch ends: redirects, pages and loads are all bounded.           *)
FetchEnds == <>(fpc \in {"returned", "failed"})
=============================================================================
