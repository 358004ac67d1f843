---------------------------- MODULE FetchProofs -----------------------------
(***************************************************************************)
(* What ssrf_guard.py promises the adapters, and what a listing that an    *)
(* adapter returns is worth, for every board, adapter and bound, and every *)
(* behaviour of the resolver.                                              *)
(*                                                                         *)
(* Whatever an adapter does, Guard sees a request started, walked or taken *)
(* over (GuardNext); so the first proof is about Guard alone, and Fetch's  *)
(* steps enter by one lemma.  The second is about the reader's place in a  *)
(* listing that moves under it (FetchInv), the third about how long it can *)
(* take (BoundInv).                                                        *)
(***************************************************************************)
EXTENDS Fetch, SequenceTheorems, TLAPS

\* The caller has the answer, or the exception.
TakenOver ==
  /\ gpc' = "idle"
  /\ UNCHANGED <<dns, rebinds, via, url, hops, conns, dialed>>

GuardNext ==
  \/ GuardStep
  \/ TakenOver
  \/ \E kind \in Kinds : StartRequest(kind, Board)
  \/ \E h \in Hosts : Rebind(h)

(* The inductive invariant: between the vetting of a URL and the request   *)
(* for it only the resolver can have turned a public name into a private   *)
(* one, and then it has been counted.                                      *)
Vetted ==
  /\ rebinds \in Nat
  /\ via \in Kinds
  /\ dialed \in [Kinds -> SUBSET Addresses]
  /\ dns \in [Hosts -> SUBSET Addresses]
  /\ gpc = "dial" => url \in Hosts /\ (Safe(url) \/ rebinds > 0)

-----------------------------------------------------------------------------
\* No adapter touches the guard's state but by its operations.
LEMMA AdaptersUseTheGuard == [Next]_vars => [GuardNext]_guard
<1> SUFFICES ASSUME [Next]_vars PROVE [GuardNext]_guard
  OBVIOUS
<1> USE DEF GuardNext, TakenOver, guard
<1>0. "api" \in Kinds /\ "plain" \in Kinds /\ "document" \in Kinds
  BY DEF Kinds
<1>1. ASSUME NEW kind \in Kinds, Ask(kind) PROVE GuardNext
  BY <1>1 DEF Ask
<1>2. CASE Answered
  BY <1>2 DEF Answered
<1>3. CASE Return
  BY <1>3 DEF Return
<1>4. ASSUME NEW name, NEW kind \in Kinds, NEW rows, SingleRequest(name, kind, rows)
      PROVE [GuardNext]_guard
  BY <1>1, <1>2, <1>4 DEF SingleRequest
<1>5. CASE WorkdayPage
  BY <1>0, <1>1, <1>2, <1>3, <1>5 DEF WorkdayPage
<1>6. CASE TalentBrewPage
  BY <1>0, <1>1, <1>2, <1>3, <1>6 DEF TalentBrewPage
<1>7. CASE FindlyPage
  BY <1>0, <1>1, <1>2, <1>3, <1>7 DEF FindlyPage
<1>8. CASE Greenhouse \/ Lever \/ HealthcareSource \/ PhenomPeople \/ GenericHtml \/ LinkedIn
           \/ Indeed
  <2>1. CASE Greenhouse
    BY <1>0, <1>4, <2>1 DEF Greenhouse
  <2>2. CASE Lever
    BY <1>0, <1>4, <2>2 DEF Lever
  <2>3. CASE HealthcareSource
    BY <1>0, <1>4, <2>3 DEF HealthcareSource
  <2>4. CASE PhenomPeople
    BY <1>0, <1>4, <2>4 DEF PhenomPeople
  <2>5. CASE GenericHtml
    BY <1>0, <1>4, <2>5 DEF GenericHtml
  <2>6. CASE LinkedIn
    BY <1>0, <1>4, <2>6 DEF LinkedIn
  <2>7. CASE Indeed
    BY <1>0, <1>4, <2>7 DEF Indeed
  <2> QED
    BY <1>8, <2>1, <2>2, <2>3, <2>4, <2>5, <2>6, <2>7
<1>9. CASE InforOpen
  BY <1>0, <1>9 DEF InforOpen
<1>10. CASE InforReady \/ InforV1Unrendered \/ InforSlow
  BY <1>2, <1>10 DEF InforReady, InforV1Unrendered, InforSlow
<1>11. CASE InforYield \/ InforClick \/ InforV1Swapped \/ InforV1Unchanged \/ InforV1Blank
            \/ InforV2Grown \/ InforV2Stalled
  BY <1>11 DEF InforYield, InforClick, InforV1Swapped, InforV1Unchanged, InforV1Blank,
               InforV2Grown, InforV2Stalled
<1>12. CASE InforEnd
  BY <1>3, <1>12 DEF InforEnd
<1>13. CASE Fail
  BY <1>13 DEF Fail
<1>14. CASE (GuardStep \/ \E h \in Hosts : Rebind(h)) /\ UNCHANGED Others
  BY <1>14
<1>15. CASE \E k \in Keys : Post(k) \/ Close(k)
  BY <1>15 DEF Post, Close, Changing
<1>16. CASE UNCHANGED vars
  BY <1>16 DEF vars
<1> QED
  BY <1>5, <1>6, <1>7, <1>8, <1>9, <1>10, <1>11, <1>12, <1>13, <1>14, <1>15, <1>16
     DEF Next, FetchStep

LEMMA VettedStep == Vetted /\ OnlyPublicDialed /\ [GuardNext]_guard => Vetted' /\ OnlyPublicDialed'
<1> SUFFICES ASSUME Vetted, OnlyPublicDialed, [GuardNext]_guard
             PROVE  Vetted' /\ OnlyPublicDialed'
  OBVIOUS
<1> USE DEF Vetted, OnlyPublicDialed, Kinds, Safe
<1>1. ASSUME NEW kind \in Kinds, StartRequest(kind, Board) PROVE Vetted' /\ OnlyPublicDialed'
  BY <1>1 DEF StartRequest
<1>2. CASE Vet
  BY <1>2 DEF Vet
<1>3. CASE DialPinned
  <2>1. CASE Safe(url)
    <3>1. PICK addr \in dns[url] : Connected(addr)
      BY <1>3, <2>1 DEF DialPinned
    <3>2. addr \notin Private /\ addr \in Addresses
      BY <2>1, <3>1
    <3>3. dialed'["api"] = dialed["api"] \cup {addr} /\ dialed'["document"] = dialed["document"]
      BY <1>3, <3>1 DEF DialPinned, Connected
    <3>4. dialed' \in [Kinds -> SUBSET Addresses]
      BY <1>3, <3>1, <3>2 DEF DialPinned, Connected
    <3> QED
      BY <1>3, <3>1, <3>2, <3>3, <3>4 DEF DialPinned, Connected
  <2>2. CASE ~Safe(url)
    BY <1>3, <2>2 DEF DialPinned
  <2> QED
    BY <2>1, <2>2
<1>4. CASE Reuse
  BY <1>4 DEF Reuse
<1>5. CASE RouteFetch
  <2>1. PICK addr \in dns[url] : Connected(addr)
    BY <1>5 DEF RouteFetch
  <2>2. addr \in Addresses /\ (addr \in Private => rebinds > 0)
    BY <1>5, <2>1 DEF RouteFetch
  <2>3. dialed'["document"] = dialed["document"] \cup {addr} /\ dialed'["api"] = dialed["api"]
    BY <1>5, <2>1 DEF RouteFetch, Connected
  <2>4. dialed' \in [Kinds -> SUBSET Addresses]
    BY <1>5, <2>1, <2>2 DEF RouteFetch, Connected
  <2> QED
    BY <1>5, <2>1, <2>2, <2>3, <2>4 DEF RouteFetch, Connected
<1>6. CASE NetworkError \/ Answer \/ TakenOver
  BY <1>6 DEF NetworkError, Answer, TakenOver
<1>7. ASSUME NEW u \in Urls, Redirect(u) PROVE Vetted' /\ OnlyPublicDialed'
  BY <1>7 DEF Redirect
<1>8. ASSUME NEW h \in Hosts, Rebind(h) PROVE Vetted' /\ OnlyPublicDialed'
  BY <1>8 DEF Rebind
<1>9. CASE UNCHANGED guard
  BY <1>9 DEF guard
<1> QED
  BY <1>1, <1>2, <1>3, <1>4, <1>5, <1>6, <1>7, <1>8, <1>9 DEF GuardNext, GuardStep

(* The pinned session connects to no private address, whatever resolvers   *)
(* and redirects do; a browser's document only after the resolver changed  *)
(* an answer (ssrf_guard.py:62-113, 140-205).                              *)
THEOREM AddressesArePublic == Spec => []OnlyPublicDialed
<1>1. Init => Vetted /\ OnlyPublicDialed
  BY DEF Init, GuardInit, Vetted, OnlyPublicDialed, Kinds
<1>2. Vetted /\ OnlyPublicDialed /\ [Next]_vars => Vetted' /\ OnlyPublicDialed'
  BY AdaptersUseTheGuard, VettedStep
<1> QED
  BY <1>1, <1>2, PTL DEF Spec

-----------------------------------------------------------------------------
(* The part of the listing that was read: every job the board listed all   *)
(* along and now has among its first n pages is in ks, or is malformed.    *)
Covered(n, ks) ==
  \A i \in 1..Len(board) :
    i <= n * PageSize /\ board[i] \in steady => board[i] \in ks \cup Malformed

\* What the bound that the first answer gave still says.
BoundHolds ==
  /\ adapter = "workday" /\ page > 0 /\ "posted" \notin why => total = Len(board)
  /\ adapter = "talentbrew" /\ total # Unknown /\ why \cap {"posted", "unmarked"} = {} =>
       total = PageCount

\* The grid is where the reader believes it is.
GridInStep ==
  adapter \in Infor =>
    /\ fpc \in {"next", "asked"} => at = page /\ seen = page
    /\ fpc = "asked" => page = 0
    /\ fpc = "clicked" => at = page + 1 /\ seen = page
    /\ fpc = "yield" => at = page + 1 /\ seen = page + 1

ReadInOrder ==
  /\ page \in Nat /\ board \in Seq(Keys) /\ steady \subseteq Range(board)
  /\ fpc \in {"next", "asked", "clicked"} => Covered(page, got)
  /\ fpc = "yield" => Covered(page + 1, got \cup shown)
  /\ BoundHolds
  /\ GridInStep

FetchInv ==
  /\ MissingExplained
  /\ why \cap {"stalled", "unrendered"} # {} => adapter \in Infor
  /\ why \cap {"closed", "stalled", "unrendered"} = {} => ReadInOrder

LEMMA CoveredMore ==
  ASSUME NEW n, NEW ks, NEW ls, Covered(n, ks), ks \subseteq ls \cup Malformed
  PROVE  Covered(n, ls)
BY DEF Covered

LEMMA PageRead ==
  ASSUME board \in Seq(Keys), NEW n \in Nat, NEW ks, Covered(n, ks)
  PROVE  Covered(n + 1, ks \cup Range(Rows(n + 1)))
<1> USE FetchAssumption
<1> DEFINE from == n * PageSize
           to   == Min(from + PageSize, Len(board))
<1>1. from \in Nat /\ (n + 1) * PageSize = from + PageSize /\ ((n + 1) - 1) * PageSize = from
  OBVIOUS
<1> HIDE DEF from
<1>2. Len(board) \in Nat /\ to \in Nat /\ to <= Len(board) /\ to <= from + PageSize
  BY <1>1 DEF Min
<1>3. Rows(n + 1) = SubSeq(board, from + 1, to)
  BY <1>1 DEF Rows
<1>4. SUFFICES ASSUME NEW i \in 1..Len(board), i <= from + PageSize, i > from
               PROVE  board[i] \in Range(Rows(n + 1))
  BY <1>1 DEF Covered, from
<1>5. i <= to
  BY <1>1, <1>2, <1>4 DEF Min
<1> HIDE DEF to
<1>6. /\ DOMAIN SubSeq(board, from + 1, to) = 1..(to - from)
      /\ \A j \in 1..(to - from) : SubSeq(board, from + 1, to)[j] = board[from + j]
  <2>1. \A j \in (from + 1)..to : board[j] \in Keys
    BY <1>1, <1>2, ElementOfSeq
  <2>2. /\ from + 1 \in Int /\ to \in Int /\ from \in Int /\ i \in Int
        /\ i > from /\ i <= to
    BY <1>1, <1>2, <1>4, <1>5
  <2>3. /\ SubSeq(board, from + 1, to) \in Seq(Keys)
        /\ Len(SubSeq(board, from + 1, to)) = to - from
        /\ \A j \in 1..(to - (from + 1) + 1) :
             SubSeq(board, from + 1, to)[j] = board[from + 1 + j - 1]
    <3>1. /\ SubSeq(board, from + 1, to) \in Seq(Keys)
          /\ Len(SubSeq(board, from + 1, to)) =
               IF from + 1 <= to THEN to - (from + 1) + 1 ELSE 0
          /\ \A j \in 1..(to - (from + 1) + 1) :
               SubSeq(board, from + 1, to)[j] = board[from + 1 + j - 1]
      BY <2>1, <2>2, SubSeqProperties
    <3>2. from + 1 <= to /\ to - (from + 1) + 1 = to - from
      BY <2>2
    <3> QED
      BY <3>1, <3>2
  <2>4. DOMAIN SubSeq(board, from + 1, to) = 1..(to - from)
    BY <2>3
  <2>5. to - (from + 1) + 1 = to - from /\ \A j \in 1..(to - from) : from + 1 + j - 1 = from + j
    BY <2>2
  <2> QED
    BY <2>3, <2>4, <2>5
<1>7. i - from \in 1..(to - from) /\ from + (i - from) = i
  <2>1. from \in Int /\ to \in Int /\ i \in Int
    BY <1>1, <1>2
  <2>2. i > from /\ i <= to
    BY <1>4, <1>5
  <2> QED
    BY <2>1, <2>2
<1> QED
  BY <1>3, <1>6, <1>7 DEF Range

LEMMA EnoughPages == Len(board) \in Nat => Len(board) <= PageCount * PageSize
<1> SUFFICES ASSUME NEW len \in Nat PROVE len <= ((len + PageSize - 1) \div PageSize) * PageSize
  BY DEF PageCount
<1> QED
  BY FetchAssumption

LEMMA WholeBoard ==
  ASSUME board \in Seq(Keys), steady \subseteq Range(board), NEW n \in Nat, NEW ks,
         Covered(n, ks), Len(board) <= n * PageSize
  PROVE  steady \subseteq ks \cup Malformed
<1> SUFFICES ASSUME NEW k \in steady PROVE k \in ks \cup Malformed
  OBVIOUS
<1>1. PICK i \in 1..Len(board) : board[i] = k
  BY DEF Range
<1>2. i <= n * PageSize
  <2>1. n * PageSize \in Int /\ Len(board) \in Int
    BY FetchAssumption
  <2> QED
    BY <2>1
<1> QED
  BY <1>1, <1>2 DEF Covered

-----------------------------------------------------------------------------
Explained(k) ==
  \/ k \in Malformed
  \/ BeyondCap
  \/ "closed" \in why
  \/ "posted" \in why /\ adapter \in {"workday", "talentbrew"} \cup Single
  \/ why \cap {"unmarked", "blank"} # {} /\ adapter \in {"talentbrew"} \cup Infor
  \/ why \cap {"stalled", "unrendered"} # {} /\ adapter \in Infor

\* A step that reads nothing and returns nothing.
LEMMA QuietStep ==
  ASSUME FetchInv, UNCHANGED <<adapter, page, total, got, grid, site, why>>,
         \/ fpc' = fpc
         \/ fpc = "next" /\ fpc' = "asked" /\ (adapter \in Infor => page = 0)
  PROVE  FetchInv'
<1> USE DEF FetchInv, grid, site
<1>1. MissingExplained'
  BY DEF MissingExplained, BeyondCap
<1>2. ReadInOrder => ReadInOrder'
  BY DEF ReadInOrder, Covered, BoundHolds, GridInStep, PageCount
<1> QED
  BY <1>1, <1>2

\* A step after which the fetch is over, with nothing to explain.
LEMMA LastStep ==
  ASSUME FetchInv, UNCHANGED adapter, why \subseteq why',
         why' \cap {"stalled", "unrendered"} # {} => adapter \in Infor,
         fpc' = "failed" \/ (fpc' = "returned" /\ \A k \in steady' \ got' : Explained(k)'),
         why' \cap {"closed", "stalled", "unrendered"} = {} =>
           /\ page' \in Nat /\ UNCHANGED <<board, steady>>
           /\ adapter = "workday" => (UNCHANGED <<page, total>> /\ why' = why)
           /\ adapter = "talentbrew" => BoundHolds'
  PROVE  FetchInv'
<1> USE DEF FetchInv
<1>1. MissingExplained'
  BY DEF MissingExplained, Explained
<1>2. ASSUME why' \cap {"closed", "stalled", "unrendered"} = {} PROVE ReadInOrder'
  <2>1. ReadInOrder
    BY <1>2
  <2> QED
    BY <1>2, <2>1 DEF ReadInOrder, Covered, BoundHolds, GridInStep
<1> QED
  BY <1>1, <1>2

LEMMA WorkdayStep == FetchInv /\ WorkdayPage => FetchInv'
<1> SUFFICES ASSUME FetchInv, WorkdayPage PROVE FetchInv'
  OBVIOUS
<1> USE FetchAssumption DEF Paged, Infor, Single, grid, site
<1>0. adapter = "workday"
  BY DEF WorkdayPage
<1>1. CASE fpc = "next" /\ WorkdayMore /\ Ask("api")
  BY <1>0, <1>1, QuietStep DEF Ask
<1>2. CASE /\ Answered
           /\ got' = got \cup Parsed(WorkdayRows)
           /\ total' = WorkdayTotal(page = 0)
           /\ page' = page + 1
           /\ fpc' = "next"
           /\ UNCHANGED <<loads, grid, why>>
  <2>1. fpc = "asked" /\ UNCHANGED <<adapter, board, changes, steady>>
    BY <1>2 DEF Answered
  <2>2. ASSUME why \cap {"closed", "stalled", "unrendered"} = {} PROVE ReadInOrder'
    <3>1. ReadInOrder /\ page \in Nat /\ board \in Seq(Keys) /\ Covered(page, got)
      BY <2>1, <2>2 DEF FetchInv, ReadInOrder
    <3>2. Covered(page + 1, got')
      <4>1. CASE page * PageSize < Len(board)
        <5>1. WorkdayRows = Rows(page + 1)
          BY <4>1 DEF WorkdayRows, WorkdayOffset
        <5>2. Covered(page + 1, got \cup Range(Rows(page + 1)))
          BY <3>1, PageRead
        <5> QED
          BY <1>2, <5>1, <5>2, CoveredMore DEF Parsed
      <4>2. CASE ~(page * PageSize < Len(board))
        <5>1. page * PageSize \in Nat /\ Len(board) \in Nat
          BY <3>1
        <5>2. steady \subseteq got \cup Malformed
          BY <3>1, <4>2, <5>1, WholeBoard DEF ReadInOrder
        <5> QED
          BY <1>2, <5>2 DEF Covered
      <4> QED
        BY <4>1, <4>2
    <3>3. page' > 0 /\ ("posted" \notin why => total' = Len(board))
      BY <1>0, <1>2, <3>1 DEF WorkdayTotal, ReadInOrder, BoundHolds
    <3> QED
      BY <1>0, <1>2, <2>1, <3>1, <3>2, <3>3 DEF ReadInOrder, Covered, BoundHolds, GridInStep
  <2> QED
    BY <1>0, <1>2, <2>1, <2>2 DEF FetchInv, MissingExplained
<1>3. CASE fpc = "next" /\ ~WorkdayMore /\ Return
  <2>1. ASSUME NEW k \in steady \ got PROVE Explained(k)
    <3>1. CASE why \cap {"closed", "stalled", "unrendered", "posted"} = {}
      <4>1. ReadInOrder /\ page \in Nat /\ board \in Seq(Keys) /\ Covered(page, got)
        BY <1>3, <3>1 DEF FetchInv, ReadInOrder
      <4>2. page > 0 /\ total = Len(board) /\ Len(board) \in Nat
            /\ ~(page * PageSize < Min(Len(board), MaxPages * PageSize))
        BY <1>0, <1>3, <3>1, <4>1 DEF WorkdayMore, WorkdayOffset, ReadInOrder, BoundHolds
      <4>3. page * PageSize \in Nat /\ MaxPages * PageSize \in Nat
        BY <4>1
      <4>4. CASE Len(board) <= page * PageSize
        BY <2>1, <4>1, <4>4, WholeBoard DEF Explained, ReadInOrder
      <4>5. CASE Len(board) > MaxPages * PageSize
        BY <1>0, <4>5 DEF Explained, BeyondCap
      <4> QED
        BY <4>2, <4>3, <4>4, <4>5 DEF Min
    <3>2. CASE why \cap {"closed", "stalled", "unrendered", "posted"} # {}
      BY <1>0, <3>2 DEF Explained, FetchInv
    <3> QED
      BY <3>1, <3>2
  <2>2. ReadInOrder => page \in Nat
    BY DEF ReadInOrder
  <2>3. UNCHANGED <<adapter, page, total, got, grid, site, why>> /\ fpc' = "returned"
    BY <1>3 DEF Return
  <2>4. \A k \in steady' \ got' : Explained(k)'
    BY <2>1, <2>3 DEF Explained, BeyondCap
  <2> QED
    BY <1>0, <2>2, <2>3, <2>4, LastStep DEF FetchInv
<1> QED
  BY <1>1, <1>2, <1>3 DEF WorkdayPage

LEMMA MorePages == \A m, n \in Nat : m <= n => m * PageSize <= n * PageSize
BY FetchAssumption

\* A fetch that read all its pages, or as many as it was allowed.
LEMMA ReadToTheCap ==
  ASSUME ReadInOrder, fpc = "next", MaxPages <= page \/ Len(board) <= page * PageSize,
         adapter \in Paged \cup Infor, NEW k \in steady \ got
  PROVE  Explained(k)
<1> USE FetchAssumption
<1>1. page \in Nat /\ board \in Seq(Keys) /\ Len(board) \in Nat
  BY DEF ReadInOrder
<1>2. page * PageSize \in Nat /\ MaxPages * PageSize \in Nat
  BY <1>1
<1>3. CASE Len(board) <= page * PageSize
  BY <1>1, <1>3, WholeBoard DEF ReadInOrder, Explained
<1>4. CASE Len(board) > MaxPages * PageSize
  BY <1>4 DEF Explained, BeyondCap, Paged, Infor
<1>5. CASE MaxPages <= page /\ Len(board) <= MaxPages * PageSize
  <2>1. MaxPages * PageSize <= page * PageSize
    BY <1>1, <1>5, MorePages
  <2> QED
    BY <1>1, <1>2, <1>3, <1>5, <2>1
<1> QED
  BY <1>1, <1>2, <1>3, <1>4, <1>5

LEMMA TalentBrewStep == FetchInv /\ TalentBrewPage => FetchInv'
<1> SUFFICES ASSUME FetchInv, TalentBrewPage PROVE FetchInv'
  OBVIOUS
<1> USE FetchAssumption DEF Paged, Infor, Single, grid, site
<1>0. adapter = "talentbrew" /\ why \cap {"stalled", "unrendered"} = {}
  BY DEF TalentBrewPage, FetchInv
<1>1. CASE fpc = "next" /\ TalentBrewMore /\ Ask("api")
  BY <1>0, <1>1, QuietStep DEF Ask
<1>2. ASSUME Answered, NEW marked \in BOOLEAN,
             LET jobs == Parsed(Rows(page + 1)) IN
             /\ total' = TalentBrewTotal(marked)
             /\ got' = got \cup jobs
             /\ page' = IF jobs = {} THEN page ELSE page + 1
             /\ fpc' = IF TalentBrewStop(jobs) THEN "returned" ELSE "next"
             /\ why' = why \cup (IF total = Unknown /\ ~marked THEN {"unmarked"} ELSE {})
                           \cup (IF jobs = {} THEN {"blank"} ELSE {}),
             UNCHANGED <<loads, grid>>
      PROVE  FetchInv'
  <2>1. fpc = "asked" /\ UNCHANGED <<adapter, board, changes, steady>>
    BY <1>2 DEF Answered
  <2>2. why \subseteq why' /\ why' \cap {"stalled", "unrendered"} = {}
    BY <1>0, <1>2
  <2>3. ASSUME why \cap {"closed", "stalled", "unrendered"} = {}
        PROVE  /\ page \in Nat /\ page' \in Nat
               /\ Covered(page, got) /\ BoundHolds'
    <3>1. ReadInOrder
      BY <2>3 DEF FetchInv
    <3>2. PageCount' = PageCount
      BY <2>1 DEF PageCount
    <3>3. total' # Unknown /\ why' \cap {"posted", "unmarked"} = {} => total' = PageCount
      BY <1>0, <1>2, <2>2, <3>1 DEF ReadInOrder, BoundHolds, TalentBrewTotal
    <3> QED
      BY <1>0, <1>2, <2>1, <3>1, <3>2, <3>3 DEF ReadInOrder, BoundHolds
  <2>4. CASE Parsed(Rows(page + 1)) = {}
    <3>1. fpc' = "returned" /\ "blank" \in why' /\ adapter' = "talentbrew"
      BY <1>0, <1>2, <2>1, <2>4 DEF TalentBrewStop
    <3>2. \A k \in steady' \ got' : Explained(k)'
      BY <3>1 DEF Explained
    <3>3. why' \cap {"closed", "stalled", "unrendered"} = {} =>
            why \cap {"closed", "stalled", "unrendered"} = {}
      BY <2>2
    <3> QED
      BY <1>0, <2>1, <2>2, <2>3, <3>1, <3>2, <3>3, LastStep
  <2>5. CASE Parsed(Rows(page + 1)) # {}
    <3>1. fpc' = "next" /\ page' = page + 1
      BY <1>2, <2>5 DEF TalentBrewStop
    <3>2. ASSUME why' \cap {"closed", "stalled", "unrendered"} = {} PROVE ReadInOrder'
      <4>1. why \cap {"closed", "stalled", "unrendered"} = {}
        BY <2>2, <3>2
      <4>2. ReadInOrder
        BY <4>1 DEF FetchInv
      <4>3. Covered(page + 1, got \cup Range(Rows(page + 1)))
        BY <2>3, <4>1, <4>2, PageRead DEF ReadInOrder
      <4>4. Covered(page + 1, got')
        BY <1>2, <4>3, CoveredMore DEF Parsed
      <4> QED
        BY <1>0, <2>1, <2>3, <3>1, <4>1, <4>2, <4>4 DEF ReadInOrder, Covered, GridInStep
    <3> QED
      BY <1>0, <2>1, <2>2, <3>1, <3>2 DEF FetchInv, MissingExplained
  <2> QED
    BY <2>4, <2>5
<1>3. CASE fpc = "next" /\ ~TalentBrewMore /\ Return
  <2>1. ASSUME NEW k \in steady \ got PROVE Explained(k)
    <3>1. CASE why \cap {"closed", "unmarked", "posted", "blank"} = {}
      <4>1. ReadInOrder /\ page \in Nat /\ Len(board) \in Nat
        BY <1>0, <3>1 DEF FetchInv, ReadInOrder
      <4>2. PageCount \in Nat
        BY <4>1 DEF PageCount
      <4>3. PageCount <= page \/ MaxPages <= page
        BY <1>0, <1>3, <3>1, <4>1, <4>2 DEF TalentBrewMore, ReadInOrder, BoundHolds, Min
      <4>4. CASE PageCount <= page
        <5>1. PageCount * PageSize <= page * PageSize
          BY <4>1, <4>2, <4>4, MorePages
        <5>2. Len(board) <= PageCount * PageSize
          BY <4>1, EnoughPages
        <5>3. page * PageSize \in Nat /\ PageCount * PageSize \in Nat
          BY <4>1, <4>2
        <5>4. Len(board) <= page * PageSize
          BY <4>1, <5>1, <5>2, <5>3
        <5> QED
          BY <1>0, <1>3, <2>1, <4>1, <5>4, ReadToTheCap
      <4>5. CASE MaxPages <= page
        BY <1>0, <1>3, <2>1, <4>1, <4>5, ReadToTheCap
      <4> QED
        BY <4>3, <4>4, <4>5
    <3>2. CASE why \cap {"closed", "unmarked", "posted", "blank"} # {}
      BY <1>0, <3>2 DEF Explained
    <3> QED
      BY <3>1, <3>2
  <2>2. UNCHANGED <<adapter, page, total, got, grid, site, why>> /\ fpc' = "returned"
    BY <1>3 DEF Return
  <2>3. \A k \in steady' \ got' : Explained(k)'
    BY <2>1, <2>2 DEF Explained, BeyondCap
  <2>4. ASSUME why' \cap {"closed", "stalled", "unrendered"} = {} PROVE page' \in Nat /\ BoundHolds'
    BY <2>2, <2>4 DEF FetchInv, ReadInOrder, BoundHolds, PageCount
  <2> QED
    BY <1>0, <2>2, <2>3, <2>4, LastStep
<1> QED
  BY <1>1, <1>2, <1>3 DEF TalentBrewPage

LEMMA FindlyStep == FetchInv /\ FindlyPage => FetchInv'
<1> SUFFICES ASSUME FetchInv, FindlyPage PROVE FetchInv'
  OBVIOUS
<1> USE FetchAssumption DEF Paged, Infor, Single, grid, site
<1>0. adapter = "findly" /\ why \cap {"stalled", "unrendered"} = {}
  BY DEF FindlyPage, FetchInv
<1>1. CASE fpc = "next" /\ page < MaxPages /\ Ask("plain")
  BY <1>0, <1>1, QuietStep DEF Ask
<1>2. CASE /\ Answered
           /\ got' = got \cup Parsed(Rows(page + 1))
           /\ fpc' = IF FindlyLast(Rows(page + 1)) THEN "returned" ELSE "next"
           /\ page' = page + 1
           /\ UNCHANGED <<total, loads, grid, why>>
  <2>1. fpc = "asked" /\ UNCHANGED <<adapter, board, changes, steady>>
    BY <1>2 DEF Answered
  <2>2. ASSUME why \cap {"closed", "stalled", "unrendered"} = {}
        PROVE  /\ ReadInOrder /\ page \in Nat /\ board \in Seq(Keys) /\ Len(board) \in Nat
               /\ Covered(page + 1, got')
    <3>1. ReadInOrder /\ page \in Nat /\ board \in Seq(Keys) /\ Covered(page, got)
      BY <2>1, <2>2 DEF FetchInv, ReadInOrder
    <3>2. Covered(page + 1, got \cup Range(Rows(page + 1)))
      BY <3>1, PageRead
    <3> QED
      BY <1>2, <3>1, <3>2, CoveredMore DEF Parsed
  <2>3. CASE FindlyLast(Rows(page + 1))
    <3>1. ASSUME NEW k \in steady \ got' PROVE k \in Malformed \/ "closed" \in why
      <4>1. CASE "closed" \in why
        BY <4>1
      <4>2. CASE "closed" \notin why
        <5>1. why \cap {"closed", "stalled", "unrendered"} = {}
          BY <1>0, <4>2
        <5> DEFINE from == page * PageSize
        <5>2. /\ from \in Nat /\ (page + 1) * PageSize = from + PageSize
              /\ ((page + 1) - 1) * PageSize = from
          <6>1. page \in Nat
            BY <2>2, <5>1
          <6> QED
            BY <6>1
        <5> HIDE DEF from
        <5>3. Len(board) <= from + PageSize
          <6>1. SUFFICES ASSUME Len(board) > from + PageSize PROVE FALSE
            BY <2>2, <5>1, <5>2
          <6>2. Rows(page + 1) = SubSeq(board, from + 1, from + PageSize)
            BY <2>2, <5>1, <5>2, <6>1 DEF Rows, Min
          <6>3. Len(SubSeq(board, from + 1, from + PageSize)) = PageSize
            BY <2>2, <5>1, <5>2, <6>1
          <6>4. Len(Rows(page + 1)) < PageSize
            BY <2>3 DEF FindlyLast
          <6>5. ~(PageSize < PageSize)
            OBVIOUS
          <6> QED
            BY <6>2, <6>3, <6>4, <6>5
        <5>4. steady \subseteq got' \cup Malformed
          BY <2>2, <5>1, <5>2, <5>3, WholeBoard DEF ReadInOrder
        <5> QED
          BY <3>1, <5>4
      <4> QED
        BY <4>1, <4>2
    <3>2. \A k \in steady' \ got' : Explained(k)'
      BY <1>2, <2>1, <3>1 DEF Explained
    <3>3. why' \cap {"closed", "stalled", "unrendered"} = {} => page' \in Nat
      BY <1>2, <2>2
    <3> QED
      BY <1>0, <1>2, <2>1, <2>3, <3>2, <3>3, LastStep
  <2>4. CASE ~FindlyLast(Rows(page + 1))
    <3>1. ASSUME why \cap {"closed", "stalled", "unrendered"} = {} PROVE ReadInOrder'
      BY <1>0, <1>2, <2>1, <2>2, <2>4, <3>1 DEF ReadInOrder, Covered, BoundHolds, GridInStep
    <3> QED
      BY <1>0, <1>2, <2>1, <2>4, <3>1 DEF FetchInv, MissingExplained
  <2> QED
    BY <2>3, <2>4
<1>3. CASE fpc = "next" /\ page = MaxPages /\ Return
  <2>1. ASSUME NEW k \in steady \ got PROVE Explained(k)
    <3>1. CASE "closed" \notin why
      <4>1. ReadInOrder
        BY <1>0, <3>1 DEF FetchInv
      <4> QED
        BY <1>0, <1>3, <2>1, <4>1, ReadToTheCap
    <3> QED
      BY <3>1 DEF Explained
  <2>2. UNCHANGED <<adapter, page, total, got, grid, site, why>> /\ fpc' = "returned"
    BY <1>3 DEF Return
  <2>3. \A k \in steady' \ got' : Explained(k)'
    BY <2>1, <2>2 DEF Explained, BeyondCap
  <2>4. page' \in Nat
    BY <1>3, <2>2
  <2> QED
    BY <1>0, <2>2, <2>3, <2>4, LastStep
<1> QED
  BY <1>1, <1>2, <1>3 DEF FindlyPage

\* What one answer holds is the board, or all that was asked for.
LEMMA FirstRows ==
  ASSUME board \in Seq(Keys), NEW size \in Nat \ {0}, Len(board) <= size
  PROVE  SubSeq(board, 1, Min(size, Len(board))) = board
<1>1. Len(board) \in Nat
  OBVIOUS
<1>2. Min(size, Len(board)) = Len(board)
  BY <1>1 DEF Min
<1> QED
  BY <1>2

LEMMA SingleStep ==
  ASSUME FetchInv, NEW name \in Single, NEW kind, NEW rows, SingleRequest(name, kind, rows),
         board \in Seq(Keys) => rows = board \/ BeyondCap
  PROVE  FetchInv'
<1> USE FetchAssumption DEF Paged, Infor, Single, grid, site
<1>0. adapter = name /\ adapter \notin Infor /\ adapter \notin Paged /\ why \cap {"stalled", "unrendered"} = {}
  BY DEF SingleRequest, FetchInv
<1>1. CASE fpc = "next" /\ Ask(kind)
  BY <1>0, <1>1, QuietStep DEF Ask
<1>2. CASE /\ Answered
           /\ got' = Parsed(rows)
           /\ page' = 1
           /\ fpc' = "returned"
           /\ UNCHANGED <<total, loads, grid, why>>
  <2>1. UNCHANGED <<adapter, board, changes, steady, why>>
    BY <1>2 DEF Answered
  <2>2. ASSUME NEW k \in steady \ got' PROVE Explained(k)
    <3>1. CASE "closed" \notin why
      <4>1. ReadInOrder
        BY <1>0, <3>1 DEF FetchInv
      <4>2. CASE rows = board
        BY <1>2, <2>2, <4>1, <4>2 DEF ReadInOrder, Parsed, Explained
      <4>3. CASE BeyondCap
        BY <4>3 DEF Explained
      <4> QED
        BY <4>1, <4>2, <4>3 DEF ReadInOrder
    <3> QED
      BY <3>1 DEF Explained
  <2>3. \A k \in steady' \ got' : Explained(k)'
    BY <2>1, <2>2 DEF Explained, BeyondCap
  <2> QED
    BY <1>0, <1>2, <2>1, <2>3, LastStep DEF FetchInv
<1> QED
  BY <1>1, <1>2 DEF SingleRequest

LEMMA SingleSteps ==
  FetchInv /\ (\/ Greenhouse \/ Lever \/ HealthcareSource \/ PhenomPeople
               \/ GenericHtml \/ LinkedIn \/ Indeed) => FetchInv'
<1> SUFFICES ASSUME FetchInv,
                    \/ Greenhouse \/ Lever \/ HealthcareSource \/ PhenomPeople
                    \/ GenericHtml \/ LinkedIn \/ Indeed
             PROVE  FetchInv'
  OBVIOUS
<1> USE FetchAssumption
<1>1. ASSUME board \in Seq(Keys), adapter \in {"healthcaresource", "phenompeople"}
      PROVE  SearchHits = board \/ BeyondCap
  <2>1. Len(board) \in Nat
    BY <1>1
  <2> QED
    BY <1>1, <2>1, FirstRows DEF SearchHits, BeyondCap
<1>2. ASSUME board \in Seq(Keys), adapter \in {"generic_html", "linkedin", "indeed"}
      PROVE  Rows(1) = board \/ BeyondCap
  <2>1. Len(board) \in Nat /\ (1 - 1) * PageSize + 1 = 1 /\ 1 * PageSize = PageSize
    BY <1>2
  <2>2. Rows(1) = SubSeq(board, 1, Min(PageSize, Len(board)))
    BY <2>1 DEF Rows
  <2>3. CASE Len(board) <= PageSize
    <3>1. PageSize \in Nat \ {0}
      OBVIOUS
    <3> QED
      BY <1>2, <2>2, <2>3, <3>1, FirstRows
  <2>4. CASE Len(board) > PageSize
    BY <1>2, <2>4 DEF BeyondCap
  <2> QED
    BY <2>1, <2>3, <2>4
<1>3. CASE Greenhouse
  BY <1>3, SingleStep DEF Greenhouse, Single
<1>4. CASE Lever
  BY <1>4, SingleStep DEF Lever, Single
<1>5. CASE HealthcareSource
  BY <1>1, <1>5, SingleStep DEF HealthcareSource, SingleRequest, Single
<1>6. CASE PhenomPeople
  BY <1>1, <1>6, SingleStep DEF PhenomPeople, SingleRequest, Single
<1>7. CASE GenericHtml
  <2>1. PICK kind \in {"api", "document"} : SingleRequest("generic_html", kind, Rows(1))
    BY <1>7 DEF GenericHtml
  <2> QED
    BY <1>2, <2>1, SingleStep DEF SingleRequest, Single
<1>8. CASE LinkedIn
  BY <1>2, <1>8, SingleStep DEF LinkedIn, SingleRequest, Single
<1>9. CASE Indeed
  BY <1>2, <1>9, SingleStep DEF Indeed, SingleRequest, Single
<1> QED
  BY <1>3, <1>4, <1>5, <1>6, <1>7, <1>8, <1>9

-----------------------------------------------------------------------------
\* Infor: what the grid shows, and which page that is.
\* What a step shows is all of these rows, or it is on record that it is not.
SomeRendered(rows) ==
  \/ rows \subseteq shown' /\ why' = why
  \/ why' = why \cup {"unrendered"}

LEMMA InforLoads == FetchInv /\ (InforOpen \/ InforReady \/ InforV1Unrendered \/ InforSlow) => FetchInv'
<1> SUFFICES ASSUME FetchInv, InforOpen \/ InforReady \/ InforV1Unrendered \/ InforSlow PROVE FetchInv'
  OBVIOUS
<1> USE FetchAssumption DEF Infor, grid, site
<1>1. CASE InforOpen
  BY <1>1, QuietStep DEF InforOpen
<1>2. CASE InforReady
  <2>1. /\ adapter \in Infor /\ fpc = "asked" /\ fpc' = "yield"
        /\ at' = 1 /\ seen' = 1 /\ SomeRendered(Range(Rows(1)))
        /\ UNCHANGED <<adapter, page, total, got, board, changes, steady>>
    BY <1>2 DEF InforReady, Answered, Rendered, SomeRendered
  <2>2. ASSUME why' \cap {"closed", "stalled", "unrendered"} = {} PROVE ReadInOrder'
    <3>0. why' = why /\ Range(Rows(1)) \subseteq shown'
      BY <2>1, <2>2 DEF SomeRendered
    <3>1. /\ ReadInOrder /\ page = 0 /\ board \in Seq(Keys) /\ Covered(0, got)
      BY <2>1, <2>2, <3>0 DEF FetchInv, ReadInOrder, GridInStep
    <3>2. Covered(0 + 1, got \cup Range(Rows(0 + 1)))
      BY <3>1, PageRead
    <3>3. 0 + 1 = 1
      OBVIOUS
    <3>4. Covered(1, got \cup shown')
      BY <3>0, <3>1, <3>2, <3>3, CoveredMore
    <3>5. Covered(page + 1, got \cup shown)'
      BY <2>1, <3>1, <3>3, <3>4 DEF Covered
    <3> QED
      BY <2>1, <3>0, <3>1, <3>3, <3>5 DEF ReadInOrder, BoundHolds, GridInStep
  <2> QED
    BY <2>1, <2>2 DEF FetchInv, MissingExplained, SomeRendered
<1>4. CASE InforV1Unrendered
  <2>1. /\ adapter \in Infor /\ fpc' = "returned"
        /\ UNCHANGED <<adapter, page, total, board, steady>>
        /\ why \subseteq why' /\ "unrendered" \in why'
    <3>1. 1 \in DOMAIN Rows(1)
      <4>1. board # << >>
        BY <1>4 DEF InforV1Unrendered
      <4> QED
        BY <4>1 DEF Rows, Min
    <3> QED
      BY <1>4, <3>1 DEF InforV1Unrendered, Answered, Rendered, Range
  <2> QED
    BY <2>1 DEF FetchInv, MissingExplained
<1>3. CASE InforSlow
  <2>1. /\ adapter \in Infor /\ fpc = "asked" /\ fpc' \in {"failed", "next"}
        /\ UNCHANGED <<adapter, page, total, got, shown, at, seen, board, changes, steady, why>>
    BY <1>3 DEF InforSlow, Answered
  <2>2. ReadInOrder => ReadInOrder'
    BY <2>1 DEF ReadInOrder, Covered, BoundHolds, GridInStep
  <2> QED
    BY <2>1, <2>2 DEF FetchInv, MissingExplained
<1> QED
  BY <1>1, <1>2, <1>3, <1>4

LEMMA InforPages == FetchInv /\ (InforYield \/ InforClick \/ InforEnd) => FetchInv'
<1> SUFFICES ASSUME FetchInv, InforYield \/ InforClick \/ InforEnd PROVE FetchInv'
  OBVIOUS
<1> USE FetchAssumption DEF Infor, grid, site
<1>1. CASE InforYield
  <2>1. /\ adapter \in Infor /\ fpc = "yield" /\ page' = page + 1
        /\ got' = got \cup (shown \ Malformed)
        /\ why \subseteq why' /\ why' \subseteq why \cup {"blank"}
        /\ UNCHANGED <<adapter, total, shown, at, seen, board, changes, steady>>
    BY <1>1 DEF InforYield
  <2>2. ASSUME why' \cap {"closed", "stalled", "unrendered"} = {}
        PROVE  ReadInOrder /\ page' \in Nat
    BY <2>1, <2>2 DEF FetchInv, ReadInOrder
  <2>3. CASE shown \subseteq Malformed
    <3>1. fpc' = "returned" /\ "blank" \in why'
      BY <1>1, <2>3 DEF InforYield
    <3>2. \A k \in steady' \ got' : Explained(k)'
      BY <2>1, <3>1 DEF Explained
    <3> QED
      BY <2>1, <2>2, <3>1, <3>2, LastStep DEF FetchInv
  <2>4. CASE ~(shown \subseteq Malformed)
    <3>1. fpc' = "next" /\ why' = why
      BY <1>1, <2>4 DEF InforYield
    <3>2. ASSUME why \cap {"closed", "stalled", "unrendered"} = {} PROVE ReadInOrder'
      <4>1. ReadInOrder /\ page' \in Nat
        BY <2>2, <3>1, <3>2
      <4>2. Covered(page + 1, got \cup shown)
        BY <2>1, <4>1 DEF ReadInOrder
      <4>3. Covered(page + 1, got')
        BY <2>1, <4>2, CoveredMore
      <4>4. Covered(page, got)'
        BY <2>1, <4>3 DEF Covered
      <4>5. BoundHolds' /\ GridInStep'
        BY <2>1, <3>1, <4>1 DEF ReadInOrder, BoundHolds, GridInStep
      <4> QED
        BY <2>1, <3>1, <4>1, <4>4, <4>5 DEF ReadInOrder
    <3> QED
      BY <2>1, <3>1, <3>2 DEF FetchInv, MissingExplained
  <2> QED
    BY <2>3, <2>4
<1>2. CASE InforClick
  <2>1. /\ adapter \in Infor /\ fpc = "next" /\ fpc' = "clicked" /\ at' = at + 1
        /\ UNCHANGED <<adapter, page, total, got, shown, seen, board, changes, steady, why>>
    BY <1>2 DEF InforClick
  <2>2. ReadInOrder => ReadInOrder'
    BY <2>1 DEF ReadInOrder, Covered, BoundHolds, GridInStep
  <2> QED
    BY <2>1, <2>2 DEF FetchInv, MissingExplained
<1>3. CASE InforEnd
  <2>1. /\ adapter \in Infor /\ fpc = "next" /\ fpc' = "returned"
        /\ page = MaxPages \/ ~InforMore
        /\ UNCHANGED <<adapter, page, total, got, shown, at, seen, board, changes, steady, why>>
    BY <1>3 DEF InforEnd, Return
  <2>2. ASSUME NEW k \in steady \ got PROVE Explained(k)
    <3>1. CASE why \cap {"closed", "stalled", "unrendered"} = {}
      <4>1. ReadInOrder /\ page \in Nat /\ Len(board) \in Nat /\ at = page
        BY <2>1, <3>1 DEF FetchInv, ReadInOrder, GridInStep
      <4>2. page * PageSize \in Nat
        BY <4>1
      <4>3. MaxPages <= page \/ Len(board) <= page * PageSize
        BY <2>1, <4>1, <4>2 DEF InforMore
      <4> QED
        BY <2>1, <2>2, <4>1, <4>3, ReadToTheCap
    <3>2. CASE why \cap {"closed", "stalled", "unrendered"} # {}
      BY <2>1, <3>2 DEF Explained
    <3> QED
      BY <3>1, <3>2
  <2>3. \A k \in steady' \ got' : Explained(k)'
    BY <2>1, <2>2 DEF Explained, BeyondCap
  <2>4. ReadInOrder => page' \in Nat
    BY <2>1 DEF ReadInOrder
  <2> QED
    BY <2>1, <2>3, <2>4, LastStep DEF FetchInv
<1> QED
  BY <1>1, <1>2, <1>3

LEMMA InforGrids ==
  FetchInv /\ (\/ InforV1Swapped \/ InforV1Unchanged \/ InforV1Blank
               \/ InforV2Grown \/ InforV2Stalled) => FetchInv'
<1> SUFFICES ASSUME FetchInv,
                    \/ InforV1Swapped \/ InforV1Unchanged \/ InforV1Blank
                    \/ InforV2Grown \/ InforV2Stalled
             PROVE  FetchInv'
  OBVIOUS
<1> USE FetchAssumption DEF Infor, grid, site
\* The reader waited for page at and something new came.
<1>1. ASSUME adapter \in Infor, fpc = "clicked", fpc' = "yield",
             UNCHANGED <<adapter, page, total, got, at, board, changes, steady>>,
             NEW n \in (seen + 1)..at, seen' = n, SomeRendered(Range(Rows(n)))
      PROVE  FetchInv'
  <2>1. ASSUME why' \cap {"closed", "stalled", "unrendered"} = {} PROVE ReadInOrder'
    <3>0. why' = why /\ Range(Rows(n)) \subseteq shown'
      BY <1>1, <2>1 DEF SomeRendered
    <3>1. /\ ReadInOrder /\ page \in Nat /\ board \in Seq(Keys) /\ Covered(page, got)
          /\ at = page + 1 /\ seen = page
      BY <1>1, <2>1, <3>0 DEF FetchInv, ReadInOrder, GridInStep
    <3>2. n = page + 1
      BY <1>1, <3>1
    <3>3. Covered(page + 1, got \cup Range(Rows(page + 1)))
      BY <3>1, PageRead
    <3>4. Covered(page + 1, got \cup shown')
      BY <3>0, <3>2, <3>3, CoveredMore
    <3>5. Covered(page + 1, got \cup shown)'
      BY <1>1, <3>4 DEF Covered
    <3>6. BoundHolds' /\ GridInStep'
      BY <1>1, <3>0, <3>1, <3>2 DEF ReadInOrder, BoundHolds, GridInStep
    <3> QED
      BY <1>1, <3>1, <3>5, <3>6 DEF ReadInOrder
  <2> QED
    BY <1>1, <2>1 DEF FetchInv, MissingExplained, SomeRendered
<1>2. CASE InforV1Swapped
  <2>1. PICK n \in (seen + 1)..at : seen' = n /\ SomeRendered(Range(Rows(n)))
    BY <1>2 DEF InforV1Swapped, Rendered, SomeRendered
  <2> QED
    BY <1>1, <1>2, <2>1 DEF InforV1Swapped
<1>3. CASE InforV2Grown
  <2>0. SomeRendered(Range(Rows(at))) /\ why \subseteq why'
    BY <1>3 DEF InforV2Grown, Rendered, SomeRendered
  <2>1. CASE why \cap {"closed", "stalled", "unrendered"} = {}
    <3>1. page \in Nat /\ at = page + 1 /\ seen = page
      BY <1>3, <2>1 DEF InforV2Grown, FetchInv, ReadInOrder, GridInStep
    <3>2. at \in (seen + 1)..at
      BY <3>1
    <3> QED
      BY <1>1, <1>3, <2>0, <3>2 DEF InforV2Grown
  <2>2. CASE why \cap {"closed", "stalled", "unrendered"} # {}
    BY <1>3, <2>0, <2>2 DEF InforV2Grown, FetchInv, MissingExplained, SomeRendered
  <2> QED
    BY <2>1, <2>2
<1>4. CASE InforV1Unchanged \/ InforV1Blank \/ InforV2Stalled
  BY <1>4 DEF InforV1Unchanged, InforV1Blank, InforV2Stalled, FetchInv, MissingExplained
<1> QED
  BY <1>2, <1>3, <1>4

-----------------------------------------------------------------------------
\* A posting moves every job down; what was read stays read.
LEMMA PostStep == \A k \in Keys : FetchInv /\ Post(k) => FetchInv'
<1> SUFFICES ASSUME NEW k \in Keys, FetchInv, Post(k) PROVE FetchInv'
  OBVIOUS
<1> USE FetchAssumption DEF Infor, grid, site, reading
<1>1. /\ fpc \notin {"returned", "failed"} /\ k \notin Range(board)
      /\ board' = <<k>> \o board /\ why' = why \cup {"posted"}
      /\ UNCHANGED <<adapter, fpc, page, total, got, shown, at, seen, steady>>
  BY DEF Post, Changing
<1>2. ASSUME why \cap {"closed", "stalled", "unrendered"} = {} PROVE ReadInOrder'
  <2>1. ReadInOrder /\ page \in Nat /\ board \in Seq(Keys) /\ steady \subseteq Range(board)
    BY <1>2 DEF FetchInv, ReadInOrder
  <2>2. /\ board' \in Seq(Keys) /\ Len(board) \in Nat /\ Len(board') = Len(board) + 1
        /\ board'[1] = k
        /\ \A i \in 1..Len(board') : i # 1 => i - 1 \in 1..Len(board) /\ board'[i] = board[i - 1]
    BY <1>1, <2>1
  <2>3. steady' \subseteq Range(board')
    <3>1. SUFFICES ASSUME NEW j \in steady PROVE j \in Range(board')
      BY <1>1
    <3>2. PICK i \in 1..Len(board) : board[i] = j
      BY <2>1 DEF Range
    <3>3. i + 1 \in 1..Len(board') /\ i + 1 # 1 /\ (i + 1) - 1 = i
      BY <2>2, <3>2
    <3>4. board'[i + 1] = j /\ i + 1 \in DOMAIN board'
      BY <2>2, <3>2, <3>3
    <3> QED
      BY <3>4 DEF Range
  <2>4. ASSUME NEW n \in Nat, NEW ks, Covered(n, ks)
        PROVE  \A i \in 1..Len(board') :
                 i <= n * PageSize /\ board'[i] \in steady => board'[i] \in ks \cup Malformed
    <3>1. SUFFICES ASSUME NEW i \in 1..Len(board'), i <= n * PageSize, board'[i] \in steady
                   PROVE  board'[i] \in ks \cup Malformed
      OBVIOUS
    <3>2. i # 1
      BY <1>1, <2>1, <2>2, <3>1
    <3>3. i - 1 \in 1..Len(board) /\ board'[i] = board[i - 1]
      BY <2>2, <3>2
    <3>4. i - 1 <= n * PageSize
      <4>1. n * PageSize \in Nat
        BY <2>4
      <4> QED
        BY <3>1, <4>1
    <3> QED
      BY <2>4, <3>1, <3>3, <3>4 DEF Covered
  <2>5. fpc \in {"next", "asked", "clicked"} => Covered(page, got)'
    BY <1>1, <2>1, <2>4 DEF ReadInOrder, Covered
  <2>6. fpc = "yield" => Covered(page + 1, got \cup shown)'
    BY <1>1, <2>1, <2>4 DEF ReadInOrder, Covered
  <2>7. BoundHolds' /\ GridInStep'
    BY <1>1, <2>1 DEF ReadInOrder, BoundHolds, GridInStep
  <2> QED
    BY <1>1, <2>1, <2>2, <2>3, <2>5, <2>6, <2>7 DEF ReadInOrder
<1> QED
  BY <1>1, <1>2 DEF FetchInv, MissingExplained

LEMMA FetchInvStep == FetchInv /\ [Next]_vars => FetchInv'
<1> SUFFICES ASSUME FetchInv, [Next]_vars PROVE FetchInv'
  OBVIOUS
<1>1. CASE Fail
  <2>1. /\ fpc = "asked" /\ fpc' = "failed"
        /\ UNCHANGED <<adapter, page, total, shown, at, seen, board, changes, steady, why>>
    BY <1>1 DEF Fail, grid, site
  <2>2. ReadInOrder => page' \in Nat
    BY <2>1 DEF ReadInOrder
  <2>3. ReadInOrder => BoundHolds'
    BY <2>1 DEF ReadInOrder, BoundHolds, PageCount
  <2> QED
    BY <2>1, <2>2, <2>3, LastStep DEF FetchInv
<1>2. ASSUME NEW k \in Keys, Close(k) PROVE FetchInv'
  <2>1. fpc' = fpc /\ fpc # "returned" /\ why' = why \cup {"closed"} /\ UNCHANGED adapter
    BY <1>2 DEF Close, Changing, reading
  <2> QED
    BY <2>1 DEF FetchInv, MissingExplained
<1>3. CASE UNCHANGED Others \/ UNCHANGED vars
  BY <1>3, QuietStep DEF Others, vars, reading
<1> QED
  BY <1>1, <1>2, <1>3, WorkdayStep, TalentBrewStep, FindlyStep, SingleSteps, InforLoads,
     InforPages, InforGrids, PostStep DEF Next, FetchStep

(* A fetch that returns leaves a job out only for a reason that can be     *)
(* named: the cap, a job that was closed or, where the bound was fixed     *)
(* beforehand, posted while it read, a page without cards or a marker; or, *)
(* on the boards of Infor, for the two the comment in infor.py:236-238     *)
(* rules out, a grid that stalled and one not rendered yet, either of      *)
(* which may cost the whole board (app/adapters).                          *)
THEOREM MissingJobsAreExplained == Spec => []MissingExplained
<1>1. Init => FetchInv
  <2> SUFFICES ASSUME Init PROVE FetchInv
    OBVIOUS
  <2>1. board \in Seq(Keys) /\ Len(board) \in Nat
    BY FetchAssumption DEF Init
  <2>2. Covered(0, {})
    BY FetchAssumption, <2>1 DEF Covered
  <2> QED
    BY <2>1, <2>2 DEF Init, FetchInv, MissingExplained, ReadInOrder, BoundHolds, GridInStep
<1>2. FetchInv => MissingExplained
  BY DEF FetchInv
<1> QED
  BY <1>1, <1>2, FetchInvStep, PTL DEF Spec

-----------------------------------------------------------------------------
(* How long a fetch may last.  A page is only asked for below the cap, a   *)
(* redirect only followed below its bound, and the grid of an Infor board  *)
(* is at most one page ahead of the reader.                                *)
PlaceOK ==
  /\ adapter \in Adapters
  /\ fpc \in {"next", "asked", "clicked", "yield", "returned", "failed"}
  /\ page \in 0..MaxPages /\ loads \in 0..Attempts
  /\ fpc \in {"asked", "clicked", "yield"} => page < MaxPages
  /\ adapter \in Single /\ fpc \in {"next", "asked"} => page = 0
  /\ seen \in Nat /\ at \in Nat /\ seen <= at /\ at <= MaxPages
  /\ adapter \in Infor =>
       /\ fpc \in {"next", "asked"} => at = page
       /\ fpc = "asked" => page = 0
       /\ fpc \in {"clicked", "yield"} => at = page + 1
  /\ fpc = "asked" <=> gpc # "idle"

ListingOK ==
  /\ total \in Nat \cup {Unknown}
  /\ adapter = "workday" /\ page > 0 => total \in Nat
  /\ got \subseteq Keys \ Malformed /\ shown \subseteq Keys
  /\ board \in Seq(Keys) /\ steady \subseteq Range(board)
  /\ changes \in 0..MaxChanges
  /\ why \subseteq {"posted", "closed", "unmarked", "blank", "stalled", "unrendered"}

RequestOK ==
  /\ GuardTypeOK
  /\ gpc = "dial" => url \in Hosts /\ hops <= MaxRedirects

BoundInv == PlaceOK /\ ListingOK /\ RequestOK

LEMMA RequestStaysOK == RequestOK /\ [GuardNext]_guard => RequestOK'
<1> SUFFICES ASSUME RequestOK, [GuardNext]_guard PROVE RequestOK'
  OBVIOUS
<1> USE GuardAssumption DEF RequestOK, GuardTypeOK, Urls
<1>1. ASSUME NEW kind \in Kinds, StartRequest(kind, Board) PROVE RequestOK'
  BY <1>1, FetchAssumption DEF StartRequest
<1>2. CASE Vet
  BY <1>2 DEF Vet, Safe
<1>3. ASSUME gpc = "dial", NEW addr \in dns[url], Connected(addr), UNCHANGED <<dns, rebinds, via, url>>
      PROVE  RequestOK'
  <2>1. hops' \in 0..(MaxRedirects + 1)
    BY <1>3 DEF Connected
  <2>2. dialed' \in [Kinds -> SUBSET Addresses]
    BY <1>3 DEF Connected
  <2> QED
    BY <1>3, <2>1, <2>2 DEF Connected
<1>4. CASE DialPinned
  BY <1>3, <1>4 DEF DialPinned
<1>5. CASE RouteFetch
  BY <1>3, <1>5 DEF RouteFetch
<1>6. CASE Reuse
  BY <1>6 DEF Reuse
<1>7. CASE NetworkError \/ Answer \/ TakenOver
  BY <1>7 DEF NetworkError, Answer, TakenOver
<1>8. ASSUME NEW u \in Urls, Redirect(u) PROVE RequestOK'
  BY <1>8 DEF Redirect
<1>9. ASSUME NEW h \in Hosts, Rebind(h) PROVE RequestOK'
  BY <1>9 DEF Rebind
<1>10. CASE UNCHANGED guard
  BY <1>10 DEF guard
<1> QED
  BY <1>1, <1>2, <1>4, <1>5, <1>6, <1>7, <1>8, <1>9, <1>10 DEF GuardNext, GuardStep

\* What a page of the site's, and a part of its listing, holds.
LEMMA PartOfBoard ==
  ASSUME board \in Seq(Keys), NEW m \in Nat \ {0}, NEW n \in Nat, n <= Len(board)
  PROVE  SubSeq(board, m, n) \in Seq(Keys) /\ Range(SubSeq(board, m, n)) \subseteq Keys
<1>1. \A j \in m..n : board[j] \in Keys
  BY ElementOfSeq
<1>2. SubSeq(board, m, n) \in Seq(Keys)
  BY <1>1, SubSeqProperties
<1> QED
  BY <1>2 DEF Range

LEMMA PageOfBoard ==
  ASSUME board \in Seq(Keys), NEW n \in Nat \ {0}
  PROVE  Range(Rows(n)) \subseteq Keys
<1>1. (n - 1) * PageSize \in Nat /\ n * PageSize \in Nat /\ Len(board) \in Nat
  BY FetchAssumption
<1>2. Min(n * PageSize, Len(board)) \in Nat /\ Min(n * PageSize, Len(board)) <= Len(board)
  BY <1>1 DEF Min
<1>3. (n - 1) * PageSize + 1 \in Nat \ {0}
  BY <1>1
<1> QED
  BY <1>2, <1>3, PartOfBoard DEF Rows

LEMMA PageCountNat == board \in Seq(Keys) => PageCount \in Nat
<1> SUFFICES ASSUME NEW len \in Nat PROVE (len + PageSize - 1) \div PageSize \in Nat
  BY DEF PageCount
<1> QED
  BY FetchAssumption

(* The reader comes nearer to its end: it ends, reads a page, loads the    *)
(* board once more, or does the next thing there is to do for a page.      *)
ReaderNearer ==
  \/ fpc' \in {"returned", "failed"}
  \/ page' = page + 1
  \/ page' = page /\ loads' = loads + 1
  \/ /\ page' = page /\ loads' = loads
     /\ <<fpc, fpc'>> \in IF adapter \in Infor
                          THEN {<<"asked", "next">>, <<"asked", "yield">>,
                                <<"next", "clicked">>, <<"clicked", "yield">>}
                          ELSE {<<"next", "asked">>}

GoodStep == PlaceOK' /\ ListingOK' /\ ReaderNearer

\* The grid plays no part for the adapters without a browser session.
LEMMA AskStep ==
  ASSUME BoundInv, NEW kind, Ask(kind), adapter \notin Infor, page < MaxPages
  PROVE  GoodStep
BY DEF Ask, StartRequest, BoundInv, PlaceOK, ListingOK, ReaderNearer, GoodStep, grid, site

LEMMA ReturnStep == ASSUME BoundInv, fpc # "asked", Return PROVE GoodStep
BY DEF Return, BoundInv, PlaceOK, ListingOK, ReaderNearer, GoodStep, grid, site, guard

LEMMA AnswerStep ==
  ASSUME BoundInv, Answered, adapter \notin Infor, UNCHANGED <<loads, grid>>,
         \/ page' = page + 1 /\ fpc' \in {"next", "returned"}
         \/ page' = page /\ fpc' = "returned",
         adapter \in Single => fpc' = "returned",
         got' \subseteq Keys \ Malformed,
         total' \in Nat \cup {Unknown}, adapter = "workday" => total' \in Nat,
         why' \subseteq {"posted", "closed", "unmarked", "blank", "stalled", "unrendered"}
  PROVE  GoodStep
<1> USE DEF BoundInv
<1>1. page < MaxPages /\ page \in Nat /\ MaxPages \in Nat
  BY FetchAssumption DEF Answered, PlaceOK
<1>2. PlaceOK'
  BY <1>1 DEF Answered, PlaceOK, grid
<1>3. ListingOK'
  BY DEF Answered, ListingOK, grid, site
<1>4. ReaderNearer
  BY DEF ReaderNearer
<1> QED
  BY <1>2, <1>3, <1>4 DEF GoodStep

LEMMA WorkdayBound == ASSUME BoundInv, WorkdayPage PROVE GoodStep
<1> USE FetchAssumption DEF BoundInv
<1>0. adapter = "workday" /\ adapter \notin Infor /\ adapter \notin Single
  BY DEF WorkdayPage, Infor, Single
<1>1. CASE fpc = "next" /\ WorkdayMore /\ Ask("api")
  <2>1. page < MaxPages
    <3>1. CASE page = 0
      BY <3>1
    <3>2. CASE page # 0
      <4>1. page \in Nat /\ page > 0 /\ total \in Nat
        BY <1>0, <3>2 DEF PlaceOK, ListingOK
      <4>2. page * PageSize < Min(total, MaxPages * PageSize)
        BY <1>1, <3>2 DEF WorkdayMore, WorkdayOffset
      <4>3. page * PageSize \in Nat /\ MaxPages * PageSize \in Nat
        BY <4>1
      <4>4. page * PageSize < MaxPages * PageSize
        BY <4>1, <4>2, <4>3 DEF Min
      <4>5. ~(MaxPages <= page)
        BY <4>1, <4>3, <4>4, MorePages
      <4> QED
        BY <4>1, <4>5
    <3> QED
      BY <3>1, <3>2
  <2> QED
    BY <1>0, <1>1, <2>1, AskStep
<1>2. CASE /\ Answered
           /\ got' = got \cup Parsed(WorkdayRows)
           /\ total' = WorkdayTotal(page = 0)
           /\ page' = page + 1
           /\ fpc' = "next"
           /\ UNCHANGED <<loads, grid, why>>
  <2>1. page \in Nat /\ page + 1 \in Nat \ {0} /\ 1 \in Nat \ {0} /\ board \in Seq(Keys)
    BY DEF PlaceOK, ListingOK
  <2>2. Range(WorkdayRows) \subseteq Keys
    BY <2>1, PageOfBoard DEF WorkdayRows
  <2>3. got' \subseteq Keys \ Malformed
    BY <1>2, <2>2 DEF Parsed, ListingOK
  <2>4. total' \in Nat
    BY <1>0, <1>2, <2>1 DEF WorkdayTotal, ListingOK
  <2>5. why' \subseteq {"posted", "closed", "unmarked", "blank", "stalled", "unrendered"}
    BY <1>2 DEF ListingOK
  <2> QED
    BY <1>0, <1>2, <2>3, <2>4, <2>5, AnswerStep
<1>3. CASE fpc = "next" /\ ~WorkdayMore /\ Return
  BY <1>3, ReturnStep
<1> QED
  BY <1>1, <1>2, <1>3 DEF WorkdayPage

LEMMA TalentBrewBound == ASSUME BoundInv, TalentBrewPage PROVE GoodStep
<1> USE FetchAssumption DEF BoundInv
<1>0. adapter = "talentbrew" /\ adapter \notin Infor /\ adapter \notin Single
  BY DEF TalentBrewPage, Infor, Single
<1>1. CASE fpc = "next" /\ TalentBrewMore /\ Ask("api")
  <2>1. page < MaxPages
    BY <1>1 DEF TalentBrewMore, Min, PlaceOK, ListingOK
  <2> QED
    BY <1>0, <1>1, <2>1, AskStep
<1>2. ASSUME Answered, NEW marked \in BOOLEAN, NEW jobs, jobs = Parsed(Rows(page + 1)),
             total' = TalentBrewTotal(marked), got' = got \cup jobs,
             page' = IF jobs = {} THEN page ELSE page + 1,
             fpc' = IF TalentBrewStop(jobs) THEN "returned" ELSE "next",
             why' = why \cup (IF total = Unknown /\ ~marked THEN {"unmarked"} ELSE {})
                        \cup (IF jobs = {} THEN {"blank"} ELSE {}),
             UNCHANGED <<loads, grid>>
      PROVE  GoodStep
  <2>1. page \in Nat /\ page + 1 \in Nat \ {0} /\ board \in Seq(Keys)
    BY DEF PlaceOK, ListingOK
  <2>2. jobs \subseteq Keys \ Malformed
    BY <1>2, <2>1, PageOfBoard DEF Parsed
  <2>3. got' \subseteq Keys \ Malformed
    BY <1>2, <2>2 DEF ListingOK
  <2>4. total' \in Nat \cup {Unknown}
    BY <1>2, <2>1, PageCountNat DEF TalentBrewTotal, ListingOK
  <2>5. why' \subseteq {"posted", "closed", "unmarked", "blank", "stalled", "unrendered"}
    BY <1>2 DEF ListingOK
  <2>6. \/ page' = page + 1 /\ fpc' \in {"next", "returned"}
        \/ page' = page /\ fpc' = "returned"
    BY <1>2 DEF TalentBrewStop
  <2> QED
    BY <1>0, <1>2, <2>3, <2>4, <2>5, <2>6, AnswerStep
<1>3. CASE fpc = "next" /\ ~TalentBrewMore /\ Return
  BY <1>3, ReturnStep
<1> QED
  BY <1>1, <1>2, <1>3 DEF TalentBrewPage

LEMMA FindlyBound == ASSUME BoundInv, FindlyPage PROVE GoodStep
<1> USE FetchAssumption DEF BoundInv
<1>0. adapter = "findly" /\ adapter \notin Infor /\ adapter \notin Single
  BY DEF FindlyPage, Infor, Single
<1>1. CASE fpc = "next" /\ page < MaxPages /\ Ask("plain")
  BY <1>0, <1>1, AskStep
<1>2. ASSUME Answered, NEW rows, rows = Rows(page + 1), got' = got \cup Parsed(rows),
             fpc' = IF FindlyLast(rows) THEN "returned" ELSE "next",
             page' = page + 1, UNCHANGED <<total, loads, grid, why>>
      PROVE  GoodStep
  <2>1. page \in Nat /\ page + 1 \in Nat \ {0} /\ board \in Seq(Keys)
    BY DEF PlaceOK, ListingOK
  <2>2. got' \subseteq Keys \ Malformed
    BY <1>2, <2>1, PageOfBoard DEF Parsed, ListingOK
  <2>3. /\ total' \in Nat \cup {Unknown}
        /\ why' \subseteq {"posted", "closed", "unmarked", "blank", "stalled", "unrendered"}
    BY <1>2 DEF ListingOK
  <2>4. fpc' \in {"next", "returned"}
    BY <1>2
  <2> QED
    BY <1>0, <1>2, <2>2, <2>3, <2>4, AnswerStep
<1>3. CASE fpc = "next" /\ page = MaxPages /\ Return
  BY <1>3, ReturnStep
<1> QED
  BY <1>1, <1>2, <1>3 DEF FindlyPage

LEMMA SingleBound ==
  ASSUME BoundInv, NEW name \in Single, NEW kind, NEW rows, SingleRequest(name, kind, rows),
         Range(rows) \subseteq Keys
  PROVE  GoodStep
<1> USE FetchAssumption DEF BoundInv
<1>0. adapter = name /\ adapter \notin Infor /\ adapter # "workday"
  BY DEF SingleRequest, Infor, Single
<1>1. CASE fpc = "next" /\ Ask(kind)
  <2>1. page < MaxPages
    BY <1>0, <1>1 DEF PlaceOK
  <2> QED
    BY <1>0, <1>1, <2>1, AskStep
<1>2. CASE /\ Answered
           /\ got' = Parsed(rows)
           /\ page' = 1
           /\ fpc' = "returned"
           /\ UNCHANGED <<total, loads, grid, why>>
  <2>1. page' = page + 1
    BY <1>0, <1>2 DEF PlaceOK, Answered
  <2>2. got' \subseteq Keys \ Malformed
    BY <1>2 DEF Parsed
  <2>3. /\ total' \in Nat \cup {Unknown}
        /\ why' \subseteq {"posted", "closed", "unmarked", "blank", "stalled", "unrendered"}
    BY <1>2 DEF ListingOK
  <2> QED
    BY <1>0, <1>2, <2>1, <2>2, <2>3, AnswerStep
<1> QED
  BY <1>1, <1>2 DEF SingleRequest

LEMMA SinglesBound ==
  ASSUME BoundInv,
         \/ Greenhouse \/ Lever \/ HealthcareSource \/ PhenomPeople
         \/ GenericHtml \/ LinkedIn \/ Indeed
  PROVE  GoodStep
<1>1. board \in Seq(Keys) /\ Range(board) \subseteq Keys
  BY DEF BoundInv, ListingOK, Range
<1>2. Range(SearchHits) \subseteq Keys
  <2>1. Min(SearchSize, Len(board)) \in Nat /\ Min(SearchSize, Len(board)) <= Len(board)
    BY <1>1, FetchAssumption DEF Min
  <2> QED
    BY <1>1, <2>1, PartOfBoard DEF SearchHits
<1>3. Range(Rows(1)) \subseteq Keys
  BY <1>1, PageOfBoard
<1>4. CASE Greenhouse \/ Lever
  BY <1>1, <1>4, SingleBound DEF Greenhouse, Lever, Single
<1>5. CASE HealthcareSource \/ PhenomPeople
  BY <1>2, <1>5, SingleBound DEF HealthcareSource, PhenomPeople, Single
<1>6. CASE GenericHtml \/ LinkedIn \/ Indeed
  BY <1>3, <1>6, SingleBound DEF GenericHtml, LinkedIn, Indeed, Single
<1> QED
  BY <1>4, <1>5, <1>6

LEMMA InforLoadBound ==
  ASSUME BoundInv, InforOpen \/ InforReady \/ InforV1Unrendered \/ InforSlow
  PROVE  GoodStep
<1> USE FetchAssumption DEF BoundInv, PlaceOK, ListingOK, grid, site
<1>0. adapter \in Infor /\ adapter # "workday" /\ adapter \notin Single
  BY DEF InforOpen, InforReady, InforV1Unrendered, InforSlow, Infor, Single
<1>1. CASE InforOpen
  <2>1. loads' \in 0..Attempts /\ loads' = loads + 1 /\ page < MaxPages
    BY <1>1 DEF InforOpen, Attempts
  <2> QED
    BY <1>0, <1>1, <2>1 DEF InforOpen, StartRequest, GoodStep, ReaderNearer
<1>2. CASE InforReady
  <2>1. page = 0 /\ at' = 1 /\ seen' = 1 /\ 1 <= MaxPages
    BY <1>0, <1>2 DEF InforReady, Answered
  <2>2. shown' \subseteq Keys
    BY <1>2, PageOfBoard DEF InforReady, Rendered
  <2>3. PlaceOK'
    BY <1>0, <1>2, <2>1 DEF InforReady, Answered
  <2>4. ListingOK'
    BY <1>0, <1>2, <2>2 DEF InforReady, Answered, Rendered
  <2>5. ReaderNearer
    BY <1>0, <1>2 DEF InforReady, Answered, ReaderNearer
  <2> QED
    BY <2>3, <2>4, <2>5 DEF GoodStep
<1>3. CASE InforV1Unrendered
  <2>1. PlaceOK' /\ ListingOK'
    BY <1>0, <1>3 DEF InforV1Unrendered, Answered, Rendered
  <2>2. ReaderNearer
    BY <1>0, <1>3 DEF InforV1Unrendered, Answered, ReaderNearer
  <2> QED
    BY <2>1, <2>2 DEF GoodStep
<1>4. CASE InforSlow
  BY <1>0, <1>4 DEF InforSlow, Answered, GoodStep, ReaderNearer
<1> QED
  BY <1>1, <1>2, <1>3, <1>4

LEMMA InforPageBound ==
  ASSUME BoundInv, InforYield \/ InforClick \/ InforEnd
  PROVE  GoodStep
<1> USE FetchAssumption DEF BoundInv, PlaceOK, ListingOK, grid, site, guard
<1>0. adapter \in Infor /\ adapter # "workday" /\ adapter \notin Single
  BY DEF InforYield, InforClick, InforEnd, Infor, Single
<1>1. CASE InforYield
  <2>1. page' = page + 1 /\ page' \in 0..MaxPages
    BY <1>1 DEF InforYield
  <2>2. PlaceOK'
    BY <1>0, <1>1, <2>1 DEF InforYield
  <2>3. ListingOK'
    BY <1>0, <1>1 DEF InforYield
  <2> QED
    BY <2>1, <2>2, <2>3 DEF GoodStep, ReaderNearer
<1>2. CASE InforClick
  BY <1>0, <1>2 DEF InforClick, GoodStep, ReaderNearer
<1>3. CASE InforEnd
  BY <1>3, ReturnStep DEF InforEnd
<1> QED
  BY <1>1, <1>2, <1>3

LEMMA InforGridBound ==
  ASSUME BoundInv,
         InforV1Swapped \/ InforV1Unchanged \/ InforV1Blank \/ InforV2Grown \/ InforV2Stalled
  PROVE  GoodStep
<1> USE FetchAssumption DEF BoundInv, PlaceOK, ListingOK, grid, site, guard
<1>0. adapter \in Infor /\ adapter # "workday" /\ adapter \notin Single /\ fpc = "clicked"
  BY DEF InforV1Swapped, InforV1Unchanged, InforV1Blank, InforV2Grown, InforV2Stalled, Infor, Single
<1>1. CASE InforV1Swapped
  <2>1. PICK n \in (seen + 1)..at : shown' \subseteq Range(Rows(n)) /\ seen' = n
    BY <1>1 DEF InforV1Swapped, Rendered
  <2>2. n \in Nat \ {0} /\ n <= at
    BY <2>1
  <2>3. shown' \subseteq Keys
    BY <2>1, <2>2, PageOfBoard
  <2>4. PlaceOK'
    BY <1>0, <1>1, <2>1, <2>2 DEF InforV1Swapped
  <2>5. ListingOK'
    BY <1>0, <1>1, <2>3 DEF InforV1Swapped, Rendered
  <2>6. ReaderNearer
    BY <1>0, <1>1 DEF InforV1Swapped, ReaderNearer
  <2> QED
    BY <2>4, <2>5, <2>6 DEF GoodStep
<1>2. CASE InforV2Grown
  <2>1. at \in Nat \ {0}
    BY <1>0
  <2>2. shown' \subseteq Keys
    <3>1. PICK cards \in SUBSET UNION {Range(Rows(n)) : n \in 1..at} : shown' = shown \cup cards
      BY <1>2 DEF InforV2Grown, Rendered
    <3>2. ASSUME NEW n \in 1..at PROVE Range(Rows(n)) \subseteq Keys
      <4>1. n \in Nat \ {0}
        BY <2>1
      <4> QED
        BY <4>1, PageOfBoard
    <3> QED
      BY <3>1, <3>2
  <2>3. PlaceOK'
    BY <1>0, <1>2 DEF InforV2Grown
  <2>4. ListingOK'
    BY <1>0, <1>2, <2>2 DEF InforV2Grown, Rendered
  <2>5. ReaderNearer
    BY <1>0, <1>2 DEF InforV2Grown, ReaderNearer
  <2> QED
    BY <2>3, <2>4, <2>5 DEF GoodStep
<1>3. CASE InforV1Unchanged
  BY <1>0, <1>3 DEF InforV1Unchanged, GoodStep, ReaderNearer
<1>4. CASE InforV1Blank \/ InforV2Stalled
  BY <1>0, <1>4 DEF InforV1Blank, InforV2Stalled, GoodStep, ReaderNearer
<1> QED
  BY <1>1, <1>2, <1>3, <1>4

LEMMA FailBound == ASSUME BoundInv, Fail PROVE GoodStep
BY DEF Fail, BoundInv, PlaceOK, ListingOK, GoodStep, ReaderNearer, grid, site

LEMMA ReaderSteps == BoundInv /\ FetchStep => GoodStep
BY WorkdayBound, TalentBrewBound, FindlyBound, SinglesBound, InforLoadBound, InforPageBound,
   InforGridBound, FailBound DEF FetchStep

\* A board that changes is still a listing, and still lists what it listed all along.
LEMMA ChangedBoard ==
  ASSUME BoundInv, NEW k \in Keys, Post(k) \/ Close(k)
  PROVE  PlaceOK' /\ ListingOK' /\ UNCHANGED <<guard, reading>>
<1> USE FetchAssumption DEF BoundInv, ListingOK
<1>1. /\ UNCHANGED <<guard, reading, grid>> /\ changes' = changes + 1 /\ changes < MaxChanges
      /\ why' \subseteq {"posted", "closed", "unmarked", "blank", "stalled", "unrendered"}
  BY DEF Post, Close, Changing
<1>2. PlaceOK'
  BY <1>1 DEF PlaceOK, guard, reading, grid
<1>3. board' \in Seq(Keys) /\ steady' \subseteq Range(board')
  <2>1. CASE Post(k)
    <3>1. /\ board' \in Seq(Keys) /\ Len(board') = Len(board) + 1
          /\ \A i \in 1..Len(board) : i + 1 \in 1..Len(board') /\ board'[i + 1] = board[i]
      BY <2>1 DEF Post
    <3>2. Range(board) \subseteq Range(board')
      BY <3>1 DEF Range
    <3> QED
      BY <2>1, <3>1, <3>2 DEF Post
  <2>2. CASE Close(k)
    <3>1. PICK i \in 1..Len(board) :
            /\ board[i] = k
            /\ board' = SubSeq(board, 1, i - 1) \o SubSeq(board, i + 1, Len(board))
      BY <2>2 DEF Close
    <3> DEFINE before == SubSeq(board, 1, i - 1)
               after  == SubSeq(board, i + 1, Len(board))
    <3>2. i \in Nat \ {0} /\ Len(board) \in Nat /\ i <= Len(board)
      OBVIOUS
    <3>3. /\ before \in Seq(Keys) /\ Len(before) = i - 1
          /\ \A j \in 1..(i - 1) : before[j] = board[j]
      BY <3>2
    <3>4. /\ after \in Seq(Keys) /\ Len(after) = Len(board) - i
          /\ \A j \in 1..(Len(board) - i) : after[j] = board[i + j]
      BY <3>2
    <3>0. board' = before \o after
      BY <3>1
    <3> HIDE DEF before, after
    <3>c. /\ board' \in Seq(Keys) /\ Len(board') = Len(before) + Len(after)
          /\ \A j \in 1..(Len(before) + Len(after)) :
               board'[j] = IF j <= Len(before) THEN before[j] ELSE after[j - Len(before)]
      <4>1. before \in Seq(Keys) /\ after \in Seq(Keys)
        BY <3>3, <3>4
      <4>2. /\ before \o after \in Seq(Keys) /\ Len(before \o after) = Len(before) + Len(after)
            /\ \A j \in 1..(Len(before) + Len(after)) :
                 (before \o after)[j] = IF j <= Len(before) THEN before[j] ELSE after[j - Len(before)]
        BY <4>1, ConcatProperties, Zenon
      <4> QED
        BY <3>0, <4>2
    <3>5. board' \in Seq(Keys) /\ Len(board') = Len(board) - 1
      BY <3>2, <3>3, <3>4, <3>c
    <3>6. ASSUME NEW j \in steady, j # k PROVE j \in Range(board')
      <4>1. PICK m \in 1..Len(board) : board[m] = j
        BY <3>6 DEF Range
      <4>2. m # i
        BY <3>1, <3>6, <4>1
      <4>3. CASE m < i
        <5>1. m \in 1..(i - 1) /\ m \in 1..Len(board')
          BY <3>2, <3>5, <4>1, <4>3
        <5>2. board'[m] = j
          BY <3>0, <3>2, <3>3, <3>4, <4>1, <5>1
        <5> QED
          BY <3>5, <5>1, <5>2 DEF Range
      <4>4. CASE m > i
        <5>1. m - 1 \in 1..Len(board') /\ (m - 1) - (i - 1) = m - i /\ i + (m - i) = m
          BY <3>2, <3>5, <4>1, <4>4
        <5>2. board'[m - 1] = j
          <6>1. ~(m - 1 <= i - 1) /\ m - i \in 1..(Len(board) - i)
            BY <3>2, <4>1, <4>4
          <6>2. board'[m - 1] = after[m - i]
            BY <3>3, <3>4, <3>5, <3>c, <5>1, <6>1
          <6> QED
            BY <3>4, <4>1, <5>1, <6>1, <6>2
        <5> QED
          BY <5>1, <5>2 DEF Range
      <4> QED
        BY <3>2, <4>1, <4>2, <4>3, <4>4
    <3> QED
      BY <2>2, <3>5, <3>6 DEF Close
  <2> QED
    BY <2>1, <2>2
<1> QED
  BY <1>1, <1>2, <1>3 DEF reading, grid

\* A request comes nearer to its end.
RequestNearer ==
  \/ gpc' \in {"answered", "raised"}
  \/ hops' = hops + 1
  \/ hops' = hops /\ <<gpc, gpc'>> \in {<<"sent", "vet">>, <<"vet", "dial">>}

LEMMA GuardSteps ==
  ASSUME BoundInv, GuardStep, UNCHANGED Others
  PROVE  PlaceOK' /\ ListingOK' /\ RequestNearer
<1> USE DEF Others, reading, grid, site
<1>1. gpc # "idle" /\ gpc' # "idle" /\ RequestNearer
  BY DEF GuardStep, Vet, DialPinned, Connected, Reuse, RouteFetch, NetworkError, Answer, Redirect,
         RequestNearer
<1>2. PlaceOK'
  BY <1>1 DEF BoundInv, PlaceOK
<1>3. ListingOK'
  BY DEF BoundInv, ListingOK
<1> QED
  BY <1>1, <1>2, <1>3

LEMMA BoundStep == BoundInv /\ [Next]_vars => BoundInv'
<1> SUFFICES ASSUME BoundInv, [Next]_vars PROVE BoundInv'
  OBVIOUS
<1>1. RequestOK'
  BY AdaptersUseTheGuard, RequestStaysOK DEF BoundInv
<1>2. PlaceOK' /\ ListingOK'
  <2>1. CASE FetchStep
    BY <2>1, ReaderSteps DEF GoodStep
  <2>2. CASE GuardStep /\ UNCHANGED Others
    BY <2>2, GuardSteps
  <2>3. ASSUME NEW h \in Hosts, Rebind(h), UNCHANGED Others PROVE PlaceOK' /\ ListingOK'
    BY <2>3 DEF Rebind, Others, reading, grid, site, BoundInv, PlaceOK, ListingOK
  <2>4. ASSUME NEW k \in Keys, Post(k) \/ Close(k) PROVE PlaceOK' /\ ListingOK'
    BY <2>4, ChangedBoard
  <2>5. CASE UNCHANGED vars
    BY <2>5 DEF vars, guard, reading, grid, site, BoundInv, PlaceOK, ListingOK
  <2> QED
    BY <2>1, <2>2, <2>3, <2>4, <2>5 DEF Next
<1> QED
  BY <1>1, <1>2 DEF BoundInv

LEMMA BoundAlways == Spec => []BoundInv
<1>1. Init => BoundInv
  <2> SUFFICES ASSUME Init PROVE BoundInv
    OBVIOUS
  <2> USE FetchAssumption, GuardAssumption DEF Init
  <2>1. PlaceOK
    BY DEF GuardInit, PlaceOK, Attempts
  <2>2. ListingOK
    BY DEF ListingOK
  <2>3. RequestOK
    BY DEF GuardInit, RequestOK, GuardTypeOK, Kinds, Urls
  <2> QED
    BY <2>1, <2>2, <2>3 DEF BoundInv
<1> QED
  BY <1>1, BoundStep, PTL DEF Spec

(* No fetch reads more pages than the source is configured for, loads a    *)
(* slow board more than twice, or sends more requests than one more than   *)
(* the redirects allowed, and what it has read is always well-formed jobs: *)
(* whatever the board, its changes and its servers do.                     *)
THEOREM FetchTypeCorrect == Spec => []TypeOK
<1>1. BoundInv => TypeOK
  <2> SUFFICES ASSUME BoundInv PROVE TypeOK
    OBVIOUS
  <2>1. seen \in 0..MaxPages /\ at \in seen..MaxPages
    BY FetchAssumption DEF BoundInv, PlaceOK
  <2> QED
    BY <2>1 DEF BoundInv, PlaceOK, ListingOK, RequestOK, TypeOK
<1> QED
  BY <1>1, BoundAlways, PTL

(* The safety half of FetchEnds: every step of the reader and of its       *)
(* request comes nearer to an end, the pages, loads and redirects being    *)
(* bounded, and neither a resolver nor a board that changes sets them back.*)
FetchNearer ==
  [][/\ FetchStep => ReaderNearer
     /\ GuardStep /\ UNCHANGED Others => RequestNearer
     /\ FetchStep \/ (GuardStep /\ UNCHANGED Others) \/ UNCHANGED <<reading, gpc, hops>>]_vars

(* For any adapter, resolver and board; the bounds are FetchTypeCorrect's. *)
THEOREM FetchesNearTheirEnd == Spec => FetchNearer
<1>1. BoundInv /\ [Next]_vars =>
        [/\ FetchStep => ReaderNearer
         /\ GuardStep /\ UNCHANGED Others => RequestNearer
         /\ FetchStep \/ (GuardStep /\ UNCHANGED Others) \/ UNCHANGED <<reading, gpc, hops>>]_vars
  <2> SUFFICES ASSUME BoundInv, Next
               PROVE  /\ FetchStep => ReaderNearer
                      /\ GuardStep /\ UNCHANGED Others => RequestNearer
                      /\ \/ FetchStep
                         \/ GuardStep /\ UNCHANGED Others
                         \/ UNCHANGED <<reading, gpc, hops>>
    OBVIOUS
  <2>1. FetchStep => ReaderNearer
    BY ReaderSteps DEF GoodStep
  <2>2. GuardStep /\ UNCHANGED Others => RequestNearer
    BY GuardSteps
  <2>3. ASSUME NEW h \in Hosts, Rebind(h), UNCHANGED Others
        PROVE  UNCHANGED <<reading, gpc, hops>>
    BY <2>3 DEF Rebind, Others
  <2>4. ASSUME NEW k \in Keys, Post(k) \/ Close(k) PROVE UNCHANGED <<reading, gpc, hops>>
    BY <2>4, ChangedBoard DEF guard
  <2> QED
    BY <2>1, <2>2, <2>3, <2>4 DEF Next
<1> QED
  BY <1>1, BoundAlways, PTL DEF Spec, FetchNearer
=============================================================================
