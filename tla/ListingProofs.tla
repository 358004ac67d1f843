--------------------------- MODULE ListingProofs ----------------------------
(***************************************************************************)
(* Theorems about Listing and Digest for every table, page size, filter    *)
(* and cap, and any number of users and places.                            *)
(***************************************************************************)
EXTENDS Listing, FiniteSetTheorems, SequenceTheorems, TLAPS

USE DEF table, walk, digest, vars

-----------------------------------------------------------------------------
(* An override leaves its place with an address, and no answer takes it    *)
(* away: the geocoder is asked for pending places only, and a failure sets *)
(* the status alone.                                                       *)
Statuses == {"absent", "pending", "failed", "resolved", "manual", "lost"}

PlacesInv ==
  /\ over \in [Rows -> Places \cup {None}]
  /\ place \in [Places -> Statuses]
  /\ \A p \in awaited : place[p] \in {"pending", "manual"}
  /\ \A r \in Rows : over[r] # None => HasAddress(over[r])

LEMMA PlacesStep ==
  ASSUME PlacesInv, [Next]_vars
  PROVE  PlacesInv'
<1> USE DEF PlacesInv, HasAddress
<1>1. ASSUME NEW p \in Places, NEW s \in {"resolved", "failed"}, Located(p, s) PROVE PlacesInv'
  <2> DEFINE new == IF s = "failed" /\ place[p] = "manual" THEN "lost" ELSE s
  <2>1. /\ p \in awaited /\ awaited' = awaited \ {p} /\ UNCHANGED over
        /\ place' = [place EXCEPT ![p] = new]
    BY <1>1 DEF Located
  <2>2. new \in Statuses /\ (place[p] = "manual" => new \in {"resolved", "lost"})
    BY DEF Statuses
  <2> HIDE DEF new
  <2>3. place' \in [Places -> Statuses] /\ \A l \in Places : place'[l] = IF l = p THEN new ELSE place[l]
    BY <2>1, <2>2
  <2>4. \A l \in awaited' : place'[l] \in {"pending", "manual"}
    <3> SUFFICES ASSUME NEW l \in awaited' PROVE place'[l] \in {"pending", "manual"}
      OBVIOUS
    <3>1. l \in awaited /\ l # p
      BY <2>1
    <3>2. place'[l] = place[l]
      BY <2>1, <3>1
    <3> QED
      BY <3>1, <3>2
  <2>5. ASSUME NEW r \in Rows, over[r] # None PROVE HasAddress(over[r])'
    <3>1. over[r] \in Places /\ HasAddress(over[r]) /\ over'[r] = over[r]
      BY <2>1, <2>5
    <3>2. CASE over[r] = p
      <4>1. place[p] \in {"pending", "manual"} /\ place[p] \in {"resolved", "manual", "lost"}
        BY <2>1, <3>1, <3>2
      <4>2. place'[over'[r]] \in {"resolved", "lost"}
        BY <2>2, <2>3, <3>1, <3>2, <4>1
      <4> QED
        BY <4>2
    <3>3. CASE over[r] # p
      BY <2>3, <3>1, <3>3
    <3> QED
      BY <3>2, <3>3
  <2> QED
    BY <2>1, <2>3, <2>4, <2>5
<1>2. ASSUME NEW r \in Rows, NEW p \in Places, Override(r, p) PROVE PlacesInv'
  <2>1. /\ over' = [over EXCEPT ![r] = p] /\ place' = [place EXCEPT ![p] = "manual"]
        /\ UNCHANGED awaited
    BY <1>2 DEF Override
  <2>2. /\ over' \in [Rows -> Places \cup {None}]
        /\ \A s \in Rows : over'[s] = IF s = r THEN p ELSE over[s]
    BY <2>1
  <2>3. /\ place' \in [Places -> Statuses]
        /\ \A l \in Places : place'[l] = IF l = p THEN "manual" ELSE place[l]
    BY <2>1 DEF Statuses
  <2>4. \A l \in awaited' : place'[l] \in {"pending", "manual"}
    BY <2>1
  <2>5. \A s \in Rows : over'[s] # None => place'[over'[s]] \in {"resolved", "manual", "lost"}
    BY <2>2, <2>3
  <2> QED
    BY <2>2, <2>3, <2>4, <2>5
<1>3. ASSUME NEW r \in Rows, ClearOverride(r) PROVE PlacesInv'
  <2>1. over' = [over EXCEPT ![r] = None] /\ UNCHANGED <<place, awaited>>
    BY <1>3 DEF ClearOverride
  <2>2. /\ over' \in [Rows -> Places \cup {None}]
        /\ \A s \in Rows : over'[s] = IF s = r THEN None ELSE over[s]
    BY <2>1
  <2> QED
    BY <2>1, <2>2
<1>4. CASE UNCHANGED <<place, awaited, over>>
  BY <1>4
<1>5. CASE \E r \in Rows : JobFound(r) \/ JobRemoved(r) \/ Duplicate(r)
  BY <1>4, <1>5 DEF JobFound, JobRemoved, Duplicate
<1>6. CASE Reader \/ Tick \/ UNCHANGED vars
  BY <1>4, <1>6 DEF Reader, Open, SortBy, RemoveChip, StartWalk, Count, List, NextPage,
                   PreviousPage, Jump, Turn, Tick
<1>7. CASE Mailer
  BY <1>4, <1>7 DEF Mailer, Scanned, Rescue, DropDuplicates, Send, NoMail, DigestStep
<1> QED
  BY <1>1, <1>2, <1>3, <1>5, <1>6, <1>7 DEF Next, Others

\* What the forms of the filters' options select.
LEMMA Selected ==
  ASSUME NEW u, NEW loc, NEW states, NEW at,
         NEW f, f = [user |-> u, location |-> loc, states |-> states, dups |-> "include",
                     removed |-> None, sort |-> "first_seen_at", dir |-> "desc"]
  PROVE  /\ Joined(f, at) = {r \in Stored(u) : InLocation(at[r], loc) /\ InStates(at[r], states)}
         /\ Joined([f EXCEPT !.dups = None], at) =
              {r \in Stored(u) \ dup : InLocation(at[r], loc) /\ InStates(at[r], states)}
<1>1. Joined(f, at) = {r \in Stored(u) : InLocation(at[r], loc) /\ InStates(at[r], states)}
  BY DEF Joined, InDuplicates, InRemoved
<1> DEFINE g == [f EXCEPT !.dups = None]
<1>2. g = [user |-> u, location |-> loc, states |-> states, dups |-> None,
           removed |-> None, sort |-> "first_seen_at", dir |-> "desc"]
  BY SMT
<1> HIDE DEF g
<1>3. Joined(g, at) = {r \in Stored(u) \ dup : InLocation(at[r], loc) /\ InStates(at[r], states)}
  BY <1>2 DEF Joined, InDuplicates, InRemoved, None
<1> QED
  BY <1>1, <1>3 DEF g

(* No job is lost to the location filter or to the map but as the property *)
(* says, whatever the table holds: the options and "Other / Unresolved"    *)
(* (db.list_job_locations, db._job_filters_sql) cover it.                  *)
LEMMA PlacesAreOffered ==
  ASSUME PlacesInv
  PROVE  EveryPlaceOffered
<1> SUFFICES ASSUME NEW u \in Users \cup {All}
             PROVE  LET everything == [Default(u) EXCEPT !.dups = "include", !.removed = None]
                        At(loc)    == Matching([everything EXCEPT !.location = loc])
                        In(state)  == [everything EXCEPT !.states = <<state>>]
                        Lost       == {r \in Rows : over[r] # None /\ place[over[r]] = "lost"}
                        Plain      == {r \in Mappable(everything) : over[r] = None /\ Region[Place[r]] # None}
                    IN /\ Stored(u) = UNION {At(loc) : loc \in LocationOptions(u) \cup {Unresolved}}
                       /\ (Stored(u) \ dup) \ Mappable(everything) \subseteq At(Unresolved) \cup Lost
                       /\ Plain \subseteq UNION {Mappable(In(s)) : s \in StateOptions(u)}
                       /\ \A loc \in LocationOptions(u) : At(loc) # {}
                       /\ \A s \in StateOptions(u) : Matching(In(s)) # {}
  BY DEF EveryPlaceOffered
<1> DEFINE everything == [Default(u) EXCEPT !.dups = "include", !.removed = None]
           At(loc)    == Matching([everything EXCEPT !.location = loc])
           In(state)  == [everything EXCEPT !.states = <<state>>]
           Lost       == {r \in Rows : over[r] # None /\ place[over[r]] = "lost"}
           Plain      == {r \in Mappable(everything) : over[r] = None /\ Region[Place[r]] # None}
           Form(loc, states) ==
             [user |-> u, location |-> loc, states |-> states, dups |-> "include",
              removed |-> None, sort |-> "first_seen_at", dir |-> "desc"]
<1>1. everything = Form(None, << >>)
  <2> DEFINE d1 == Default(u)
             d2 == [d1 EXCEPT !.dups = "include"]
             d3 == [d2 EXCEPT !.removed = None]
  <2>1. d1 = [user |-> u, location |-> None, states |-> << >>, dups |-> None,
              removed |-> "active", sort |-> "first_seen_at", dir |-> "desc"]
    BY DEF Default
  <2> HIDE DEF d1
  <2>2. d2 = [user |-> u, location |-> None, states |-> << >>, dups |-> "include",
              removed |-> "active", sort |-> "first_seen_at", dir |-> "desc"]
    BY <2>1, SMT
  <2> HIDE DEF d2
  <2>3. d3 = Form(None, << >>)
    BY <2>2, SMT
  <2> QED
    BY <2>3 DEF d1, d2
<1> HIDE DEF everything
<1>2. \A loc : At(loc) = Joined(Form(loc, << >>), Place)
  <2> SUFFICES ASSUME NEW loc PROVE [everything EXCEPT !.location = loc] = Form(loc, << >>)
    BY DEF Matching
  <2> QED
    BY <1>1, SMT
<1>3. \A s : In(s) = Form(None, <<s>>)
  <2> SUFFICES ASSUME NEW s PROVE [everything EXCEPT !.states = <<s>>] = Form(None, <<s>>)
    OBVIOUS
  <2> QED
    BY <1>1, SMT
<1> HIDE DEF At, In, Form
<1>4. \A loc, states, at :
        /\ Joined(Form(loc, states), at) =
             {r \in Stored(u) : InLocation(at[r], loc) /\ InStates(at[r], states)}
        /\ Joined([Form(loc, states) EXCEPT !.dups = None], at) =
             {r \in Stored(u) \ dup : InLocation(at[r], loc) /\ InStates(at[r], states)}
  BY Selected DEF Form
<1>5. \A loc : At(loc) = {r \in Stored(u) : InLocation(Place[r], loc)}
  BY <1>2, <1>4 DEF InStates
<1>6. \A s : <<s>> # << >> /\ Range(<<s>>) = {s}
  BY DEF Range
<1>7. \A s : /\ Matching(In(s)) = {r \in Stored(u) : InStates(Place[r], <<s>>)}
             /\ Mappable(In(s)) = {r \in Stored(u) \ dup : InStates(Shown[r], <<s>>) /\ OnMap(Shown[r])}
  <2> SUFFICES ASSUME NEW s
               PROVE  /\ Matching(In(s)) = {r \in Stored(u) : InStates(Place[r], <<s>>)}
                      /\ Mappable(In(s)) = {r \in Stored(u) \ dup : InStates(Shown[r], <<s>>) /\ OnMap(Shown[r])}
    OBVIOUS
  <2> DEFINE f == Form(None, <<s>>)
  <2>1. In(s) = f
    BY <1>3
  <2>2. Joined(f, Place) = {r \in Stored(u) : InStates(Place[r], <<s>>)}
    BY <1>4 DEF InLocation
  <2>3. Joined([f EXCEPT !.dups = None], Shown) = {r \in Stored(u) \ dup : InStates(Shown[r], <<s>>)}
    BY <1>4 DEF InLocation
  <2> HIDE DEF f
  <2> QED
    BY <2>1, <2>2, <2>3 DEF Matching, Mappable
<1>8. Mappable(everything) = {r \in Stored(u) \ dup : OnMap(Shown[r])}
  BY <1>1, <1>4 DEF Mappable, InLocation, InStates
<1>9. \A r \in Stored(u) : r \in Rows /\ Shown[r] = IF over[r] = None THEN Place[r] ELSE over[r]
  BY DEF Stored, Shown
<1>10. Stored(u) = UNION {At(loc) : loc \in LocationOptions(u) \cup {Unresolved}}
  BY <1>5 DEF InLocation, InUnresolved, Resolved, HasAddress, LocationOptions
<1>11. (Stored(u) \ dup) \ Mappable(everything) \subseteq At(Unresolved) \cup Lost
  <2> SUFFICES ASSUME NEW r \in Stored(u), ~ OnMap(Shown[r]), r \notin Lost
               PROVE  InLocation(Place[r], Unresolved)
    BY <1>5, <1>8
  <2>1. over[r] = None
    BY <1>9 DEF PlacesInv, HasAddress, OnMap
  <2> QED
    BY <1>9, <2>1 DEF InLocation, InUnresolved, Resolved, OnMap
<1>12. ASSUME NEW r \in Plain PROVE r \in UNION {Mappable(In(s)) : s \in StateOptions(u)}
  <2>1. r \in Stored(u) \ dup /\ Shown[r] = Place[r] /\ OnMap(Place[r]) /\ Region[Place[r]] # None
    BY <1>8, <1>9
  <2>2. Region[Place[r]] \in StateOptions(u)
    BY <2>1 DEF StateOptions
  <2>3. InStates(Place[r], <<Region[Place[r]]>>)
    BY <1>6, <2>1 DEF InStates, OnMap, HasAddress
  <2>4. r \in Mappable(In(Region[Place[r]]))
    BY <1>7, <2>1, <2>3
  <2> QED
    BY <2>2, <2>4
<1>13. ASSUME NEW loc \in LocationOptions(u) PROVE At(loc) # {}
  <2>1. PICK r \in Stored(u) : loc = Place[r] /\ Resolved(loc)
    BY DEF LocationOptions
  <2>2. r \in At(loc)
    BY <1>5, <2>1 DEF InLocation, Resolved, HasAddress
  <2> QED
    BY <2>2
<1>14. ASSUME NEW s \in StateOptions(u) PROVE Matching(In(s)) # {}
  <2>1. PICK r \in Stored(u) : s = Region[Place[r]] /\ OnMap(Place[r]) /\ s # None
    BY DEF StateOptions
  <2>2. InStates(Place[r], <<s>>)
    BY <1>6, <2>1 DEF InStates, OnMap, HasAddress
  <2>3. r \in Matching(In(s))
    BY <1>7, <2>1, <2>2
  <2> QED
    BY <2>3
<1> QED
  BY <1>10, <1>11, <1>12, <1>13, <1>14 DEF everything, At, In

(* The options, "Other / Unresolved" and the map lose no job of any table. *)
THEOREM EveryPlaceIsOffered == Spec => []EveryPlaceOffered
<1>1. Init => PlacesInv
  BY DEF Init, PlacesInv, Statuses
<1>2. PlacesInv /\ [Next]_vars => PlacesInv'
  BY PlacesStep
<1>3. PlacesInv => EveryPlaceOffered
  BY PlacesAreOffered
<1> QED
  BY <1>1, <1>2, <1>3, PTL DEF Spec

-----------------------------------------------------------------------------
\* A sequence of a finite set's elements, each once, has them all.
LEMMA SeqsOfSets ==
  ASSUME NEW S, IsFiniteSet(S), NEW o \in SetToSeqs(S)
  PROVE  /\ Cardinality(S) \in Nat
         /\ o \in [1..Cardinality(S) -> S]
         /\ \A i, j \in 1..Cardinality(S) : i # j => o[i] # o[j]
         /\ o \in Seq(S) /\ Len(o) = Cardinality(S)
         /\ Range(o) = S
<1> DEFINE n == Cardinality(S)
<1>1. n \in Nat
  BY FS_CardinalityType
<1>2. o \in [1..n -> S] /\ \A i, j \in 1..n : i # j => o[i] # o[j]
  BY DEF SetToSeqs
<1> HIDE DEF n
<1>3. o \in Seq(S) /\ Len(o) = n
  BY <1>1, <1>2
<1>4. o \in Injection(1..n, S)
  BY <1>2 DEF Injection, IsInjective
<1>5. IsFiniteSet(1..n) /\ Cardinality(1..n) = n
  BY <1>1, FS_Interval
<1>6. o \in Surjection(1..n, S)
  BY <1>4, <1>5, FS_Injection DEF n
<1>7. Range(o) = S
  BY <1>2, <1>6 DEF Surjection, Range
<1> QED
  BY <1>1, <1>2, <1>3, <1>7 DEF n

LEMMA MatchingIsFinite == \A f : IsFiniteSet(Matching(f)) /\ Matching(f) \subseteq Rows
BY FS_Subset, ListingAssumption DEF Matching, Joined, Stored

-----------------------------------------------------------------------------
(* One page order per query: the key of a user's rows, or the time and key *)
(* of everybody's, break every tie.  Then each row has its rank, whatever  *)
(* order the database returns, and a page is the rows of some ranks.       *)
Clocked ==
  /\ clock \in Int /\ ended \in [Rows -> Int]
  /\ row \in [Rows -> {"active", "removed"}]

Earlier(f, r)  == {s \in Matching(f) : Precedes(f, s, r)}
Rank(f, r)     == Cardinality(Earlier(f, r))
Upto(f, n)     == {r \in Matching(f) : Rank(f, r) < n}

LEMMA PrecedesIsTotal ==
  ASSUME Clocked, NEW f, OneOrder(f), NEW r \in Matching(f), NEW s \in Matching(f)
  PROVE  /\ ~ Precedes(f, r, r)
         /\ ~ (Precedes(f, r, s) /\ Precedes(f, s, r))
         /\ r # s => Precedes(f, r, s) \/ Precedes(f, s, r)
<1>1. /\ r \in Rows /\ s \in Rows /\ f.user \in {Owner[r], All} /\ f.user \in {Owner[s], All}
      /\ InRemoved(r, f.removed) /\ InRemoved(s, f.removed)
  BY DEF Matching, Joined, Stored
<1>2. Age(r) \in Int /\ Age(s) \in Int
  BY <1>1, ListingAssumption DEF Age, Clocked
<1>3. /\ Column(f, r) \in Int /\ Column(f, s) \in Int
      /\ Key[r] \in Int /\ Key[s] \in Int
  BY <1>1, <1>2, ListingAssumption DEF Column
<1>4. ASSUME r # s, Column(f, r) = Column(f, s) PROVE Key[r] # Key[s]
  <2>1. CASE Owner[r] = Owner[s]
    BY <1>1, <1>4, <2>1, ListingAssumption
  <2>2. CASE Owner[r] # Owner[s]
    <3>1. f.user = All /\ Seen[r] # Seen[s] /\ Seen[r] \in Int /\ Seen[s] \in Int
      BY <1>1, <1>4, <2>2, ListingAssumption
    <3>2. CASE f.sort = "first_seen_at"
      BY <1>4, <3>1, <3>2 DEF Column
    <3>3. CASE f.sort = "age_days" /\ f.removed = "active"
      <4>1. Age(r) = clock - Seen[r] /\ Age(s) = clock - Seen[s]
        BY <1>1, <3>3 DEF InRemoved, Age, None
      <4>2. Age(r) # Age(s)
        BY <3>1, <4>1 DEF Clocked
      <4> QED
        BY <1>4, <3>3, <4>2 DEF Column
    <3> QED
      BY <3>1, <3>2, <3>3 DEF OneOrder
  <2> QED
    BY <2>1, <2>2
<1> HIDE DEF Column
<1> QED
  BY <1>3, <1>4 DEF Precedes, Before

LEMMA RanksAreBelow ==
  ASSUME Clocked, NEW f, OneOrder(f), NEW r \in Matching(f)
  PROVE  Rank(f, r) \in Nat /\ Rank(f, r) < Cardinality(Matching(f))
<1>1. IsFiniteSet(Matching(f))
  BY MatchingIsFinite
<1>2. Earlier(f, r) \subseteq Matching(f) \ {r}
  BY PrecedesIsTotal DEF Earlier
<1>3. IsFiniteSet(Matching(f) \ {r}) /\
      Cardinality(Matching(f) \ {r}) = Cardinality(Matching(f)) - 1
  BY <1>1, FS_RemoveElement
<1>4. Rank(f, r) <= Cardinality(Matching(f) \ {r}) /\ IsFiniteSet(Earlier(f, r))
  BY <1>2, <1>3, FS_Subset DEF Rank
<1>5. Rank(f, r) \in Nat /\ Cardinality(Matching(f)) \in Nat
  BY <1>1, <1>4, FS_CardinalityType DEF Rank
<1> QED
  BY <1>3, <1>4, <1>5

LEMMA RankInOrder ==
  ASSUME Clocked, NEW f, OneOrder(f), NEW o \in Orders(f), NEW i \in 1..Cardinality(Matching(f))
  PROVE  Rank(f, o[i]) = i - 1
<1> DEFINE M == Matching(f)
           n == Cardinality(M)
           g == [j \in 1..(i - 1) |-> o[j]]
<1>1. /\ n \in Nat /\ o \in [1..n -> M] /\ Range(o) = M /\ i \in Nat /\ i >= 1
      /\ \A j, k \in 1..n : j # k => o[j] # o[k]
  BY MatchingIsFinite, SeqsOfSets DEF Orders
<1>2. \A j, k \in 1..n : j < k => ~ Precedes(f, o[k], o[j])
  BY <1>1 DEF Orders
<1>3. \A j \in 1..n : Precedes(f, o[j], o[i]) <=> j < i
  <2> SUFFICES ASSUME NEW j \in 1..n PROVE Precedes(f, o[j], o[i]) <=> j < i
    OBVIOUS
  <2>1. o[j] \in M /\ o[i] \in M
    BY <1>1
  <2>2. CASE j = i
    BY <2>1, <2>2, PrecedesIsTotal
  <2>3. CASE j < i
    BY <1>1, <1>2, <2>1, <2>3, PrecedesIsTotal
  <2>4. CASE j > i
    BY <1>1, <1>2, <2>1, <2>4, PrecedesIsTotal
  <2> QED
    BY <1>1, <2>2, <2>3, <2>4
<1> HIDE DEF M, n
<1>4. 1..(i - 1) \subseteq 1..n /\ \A j \in 1..n : j < i <=> j \in 1..(i - 1)
  BY <1>1 DEF n, M
<1>5. g \in [1..(i - 1) -> Earlier(f, o[i])]
  BY <1>1, <1>3, <1>4 DEF Earlier, M
<1>6. \A j, k \in 1..(i - 1) : j # k => g[j] # g[k]
  BY <1>1, <1>4
<1>7. ASSUME NEW r \in Earlier(f, o[i]) PROVE \E j \in 1..(i - 1) : g[j] = r
  <2>1. PICK j \in 1..n : o[j] = r
    BY <1>1 DEF Earlier, Range, M
  <2>2. j \in 1..(i - 1)
    BY <1>3, <1>4, <2>1 DEF Earlier
  <2> QED
    BY <2>1, <2>2
<1> HIDE DEF g
<1>8. g \in Bijection(1..(i - 1), Earlier(f, o[i]))
  BY <1>5, <1>6, <1>7 DEF Bijection, Injection, IsInjective, Surjection
<1>9. IsFiniteSet(1..(i - 1)) /\ Cardinality(1..(i - 1)) = i - 1
  BY <1>1, FS_Interval
<1> QED
  BY <1>8, <1>9, FS_Bijection DEF Rank, ExistsBijection

LEMMA ShownRows ==
  ASSUME Clocked, NEW f, OneOrder(f), NEW o \in Orders(f), NEW k \in Nat
  PROVE  Range(SubSeq(o, k + 1, IF k + PageSize < Len(o) THEN k + PageSize ELSE Len(o)))
         = Upto(f, k + PageSize) \ Upto(f, k)
<1> DEFINE M == Matching(f)
           n == Cardinality(M)
           e == IF k + PageSize < n THEN k + PageSize ELSE n
           t == SubSeq(o, k + 1, e)
<1>1. n \in Nat /\ o \in [1..n -> M] /\ o \in Seq(M) /\ Len(o) = n /\ Range(o) = M
  BY MatchingIsFinite, SeqsOfSets DEF Orders
<1>2. \A i \in 1..n : Rank(f, o[i]) = i - 1
  BY RankInOrder
<1> HIDE DEF M, n
<1>3. e \in Int /\ e <= n /\ PageSize \in Nat
  BY <1>1, ListingAssumption
<1>4. \A i \in (k + 1)..e : o[i] \in M
  BY <1>1, <1>3
<1>5. /\ t \in Seq(M) /\ Len(t) = IF k + 1 <= e THEN e - (k + 1) + 1 ELSE 0
      /\ \A i \in 1..(e - (k + 1) + 1) : t[i] = o[k + 1 + i - 1]
  <2>1. k + 1 \in Int
    OBVIOUS
  <2> HIDE DEF e
  <2> QED
    BY <1>3, <1>4, <2>1, SubSeqProperties
<1>6. \A i \in 1..n : i \in (k + 1)..e <=> i - 1 < k + PageSize /\ ~ (i - 1 < k)
  BY <1>1, <1>3
<1> HIDE DEF e, t
<1>7. DOMAIN t = 1..Len(t)
  BY <1>5
<1>8. ASSUME NEW i \in (k + 1)..e PROVE o[i] \in Range(t)
  <2>1. i \in Int /\ k + 1 <= i /\ i <= e /\ k + 1 <= e
    BY <1>3
  <2>2. i - k \in 1..(e - (k + 1) + 1) /\ k + 1 + (i - k) - 1 = i
    BY <1>3, <2>1
  <2>3. Len(t) = e - (k + 1) + 1
    BY <1>5, <2>1
  <2>4. t[i - k] = o[i]
    BY <1>5, <2>2
  <2>5. i - k \in DOMAIN t
    BY <1>7, <2>2, <2>3
  <2> QED
    BY <2>4, <2>5 DEF Range
<1>9. ASSUME NEW r \in Range(t) PROVE \E i \in (k + 1)..e : o[i] = r
  <2>1. PICK j \in 1..Len(t) : t[j] = r
    BY <1>7 DEF Range
  <2>2. j \in 1..(e - (k + 1) + 1) /\ k + 1 + j - 1 \in (k + 1)..e
    BY <1>3, <1>5
  <2> QED
    BY <1>5, <2>1, <2>2
<1>10. ASSUME NEW r \in M PROVE \E i \in 1..n : o[i] = r
  BY <1>1 DEF Range
<1>11. \A i \in (k + 1)..e : i \in 1..n
  BY <1>1, <1>3
<1>12. Range(t) \subseteq Upto(f, k + PageSize) \ Upto(f, k)
  <2> SUFFICES ASSUME NEW i \in (k + 1)..e PROVE o[i] \in Upto(f, k + PageSize) \ Upto(f, k)
    BY <1>9
  <2>1. i \in 1..n /\ o[i] \in M /\ Rank(f, o[i]) = i - 1
    BY <1>1, <1>2, <1>11
  <2>2. i - 1 < k + PageSize /\ ~ (i - 1 < k)
    BY <1>6, <2>1
  <2> QED
    BY <2>1, <2>2 DEF Upto, M
<1>13. Upto(f, k + PageSize) \ Upto(f, k) \subseteq Range(t)
  <2> SUFFICES ASSUME NEW r \in Upto(f, k + PageSize) \ Upto(f, k) PROVE r \in Range(t)
    OBVIOUS
  <2>1. r \in M /\ Rank(f, r) < k + PageSize /\ ~ (Rank(f, r) < k)
    BY DEF Upto, M
  <2>2. PICK i \in 1..n : o[i] = r
    BY <1>10, <2>1
  <2>3. i \in (k + 1)..e
    BY <1>2, <1>6, <2>1, <2>2
  <2> QED
    BY <1>8, <2>2, <2>3
<1> QED
  BY <1>1, <1>12, <1>13 DEF t, e

-----------------------------------------------------------------------------
(* The pages are as many as the rows need, and page + 1 begins where page  *)
(* ends.                                                                   *)
LEMMA Pages ==
  ASSUME NEW n \in Nat
  PROVE  TotalPages(n) \in Nat \ {0} /\ n <= TotalPages(n) * PageSize
<1>1. PageSize \in Nat /\ PageSize > 0
  BY ListingAssumption
<1>2. CASE n = 0
  BY <1>1, <1>2 DEF TotalPages
<1>3. CASE n # 0
  <2>1. (n + PageSize - 1) \div PageSize \in Nat /\ (n + PageSize - 1) \div PageSize >= 1
    BY <1>1, <1>3
  <2>2. n <= ((n + PageSize - 1) \div PageSize) * PageSize
    BY <1>1, <1>3
  <2> QED
    BY <1>3, <2>1, <2>2 DEF TotalPages
<1> QED
  BY <1>2, <1>3

LEMMA Offsets ==
  ASSUME NEW p \in Nat \ {0}
  PROVE  /\ OffsetOf(p) \in Nat /\ OffsetOf(p) + PageSize = p * PageSize
         /\ OffsetOf(p + 1) = OffsetOf(p) + PageSize /\ OffsetOf(1) = 0
<1>1. PageSize \in Nat
  BY ListingAssumption
<1>2. p - 1 \in Nat /\ p + 1 - 1 = p /\ 1 - 1 = 0
  OBVIOUS
<1>3. (p - 1) * PageSize \in Nat /\ p * PageSize = (p - 1) * PageSize + PageSize
  BY <1>1
<1>4. OffsetOf(p + 1) = p * PageSize /\ OffsetOf(1) = 0
  BY <1>1, <1>2 DEF OffsetOf
<1> QED
  BY <1>3, <1>4 DEF OffsetOf

-----------------------------------------------------------------------------
(* What the links make of a query string.  (Which values a filter has does *)
(* not matter here, only that they are a sequence.)                        *)
FormsOver(V) ==
  [user : Users \cup {All}, location : Places \cup {None, Unresolved}, states : Seq(V),
   dups : {None, "include", "only"}, removed : {None, "active", "removed"},
   sort : Columns, dir : {"asc", "desc"}]

IsForm(f) == \E V : f \in FormsOver(V)

LEMMA LinkIsForm ==
  ASSUME NEW f, IsForm(f)
  PROVE  IsForm(Link(f)) /\ (Len(f.states) <= 1 => Link(f) = f)
<1>1. PICK V : f \in FormsOver(V)
  BY DEF IsForm
<1>2. f.states \in Seq(V) /\ Len(f.states) \in Nat
  BY <1>1 DEF FormsOver
<1> DEFINE new == IF f.states = << >> THEN f.states ELSE <<Last(f.states)>>
<1>3. new \in Seq(V)
  <2>1. CASE f.states = << >>
    BY <1>2, <2>1
  <2>2. CASE f.states # << >>
    <3>1. Len(f.states) \in 1..Len(f.states)
      BY <1>2, <2>2
    <3>2. Last(f.states) \in V
      BY <1>2, <3>1 DEF Last
    <3> QED
      BY <2>2, <3>2
  <2> QED
    BY <2>1, <2>2
<1>4. Len(f.states) <= 1 => new = f.states
  <2>1. CASE f.states = << >>
    BY <2>1
  <2>2. ASSUME f.states # << >>, Len(f.states) <= 1 PROVE <<Last(f.states)>> = f.states
    <3>1. Len(f.states) # 0
      BY <1>2, <2>2, EmptySeq
    <3>2. Len(f.states) = 1
      <4>1. \A n \in Nat : n <= 1 /\ n # 0 => n = 1
        OBVIOUS
      <4> QED
        BY <1>2, <2>2, <3>1, <4>1
    <3> QED
      BY <1>2, <3>2 DEF Last
  <2> QED
    BY <2>1, <2>2
<1>5. Link(f) = [f EXCEPT !.states = new]
  BY DEF Link
<1> HIDE DEF new
<1>6. [f EXCEPT !.states = new] \in FormsOver(V)
  BY <1>1, <1>3 DEF FormsOver
<1>7. new = f.states => [f EXCEPT !.states = new] = f
  BY <1>1 DEF FormsOver
<1> QED
  BY <1>4, <1>5, <1>6, <1>7 DEF IsForm

LEMMA SortedIsForm ==
  ASSUME NEW f, IsForm(f), NEW column \in Columns, NEW dir \in {"asc", "desc"}
  PROVE  /\ IsForm([f EXCEPT !.sort = column, !.dir = dir])
         /\ [f EXCEPT !.sort = column, !.dir = dir].states = f.states
<1>1. PICK V : f \in FormsOver(V)
  BY DEF IsForm
<1>2. [f EXCEPT !.sort = column] \in FormsOver(V) /\ [f EXCEPT !.sort = column].states = f.states
  BY <1>1 DEF FormsOver
<1> DEFINE g == [f EXCEPT !.sort = column]
<1> HIDE DEF g
<1>3. g \in FormsOver(V) => [g EXCEPT !.dir = dir] \in FormsOver(V) /\ [g EXCEPT !.dir = dir].states = g.states
  BY DEF FormsOver
<1> QED
  BY <1>2, <1>3 DEF IsForm, g

LEMMA RestIsForm ==
  ASSUME NEW f, IsForm(f), NEW value
  PROVE  IsForm([f EXCEPT !.states = Without(@, value)])
<1>1. PICK V : f \in FormsOver(V)
  BY DEF IsForm
<1> DEFINE states == f.states
           left   == {i \in DOMAIN states : states[i] # value}
           k      == Cardinality(left)
           At(n)  == states[CHOOSE i \in left : Cardinality({j \in left : j <= i}) = n]
           W      == V \cup {At(n) : n \in 1..k}
<1>2. states \in Seq(V)
  BY <1>1 DEF FormsOver
<1>3. k \in Nat
  <2>1. Len(states) \in Nat /\ DOMAIN states = 1..Len(states)
    BY <1>2
  <2>2. IsFiniteSet(1..Len(states))
    <3>1. \A n \in Nat : IsFiniteSet(1..n)
      BY FS_Interval
    <3> QED
      BY <2>1, <3>1
  <2>3. IsFiniteSet(left)
    BY <2>1, <2>2, FS_Subset
  <2> QED
    BY <2>3, FS_CardinalityType
<1>4. Without(states, value) = [n \in 1..k |-> At(n)]
  BY DEF Without
<1> HIDE DEF k, At
<1>5. [n \in 1..k |-> At(n)] \in Seq(W)
  BY <1>3
<1> HIDE DEF W
<1>6. f \in FormsOver(W)
  BY <1>1, <1>2 DEF FormsOver, W
<1> DEFINE new == Without(states, value)
<1>7. new \in Seq(W)
  BY <1>4, <1>5
<1>8. [f EXCEPT !.states = Without(@, value)] = [f EXCEPT !.states = new]
  OBVIOUS
<1> HIDE DEF new
<1>9. [f EXCEPT !.states = new] \in FormsOver(W)
  BY <1>6, <1>7 DEF FormsOver
<1> QED
  BY <1>8, <1>9 DEF IsForm

-----------------------------------------------------------------------------
(* A walk nobody disturbs has been shown the rows of the pages up to its   *)
(* own, and the count still fits the table.                                *)
Walking ==
  /\ ~ twice
  /\ page <= TotalPages(Cardinality(Matching(q)))
  /\ pc \in {"count", "list", "shown"}
  /\ pc \in {"count", "list"} => seen = Upto(q, OffsetOf(page))
  /\ pc \in {"list", "shown"} => total = Cardinality(Matching(q))
  /\ pc = "shown" => seen = Upto(q, OffsetOf(page) + PageSize)

\* The filters for which PagesListOnce promises something.
Reliable(f) == Len(f.states) <= 1 /\ OneOrder(f) /\ ~ (AgesMix(f) /\ aged)

(* The links keep a query with one value per filter as the reader asked.   *)
ListingInv ==
  /\ Clocked
  /\ page \in Nat \ {0} /\ total \in Nat
  /\ IsForm(q) /\ IsForm(asked)
  /\ Len(asked.states) <= 1 => q = asked
  /\ steady /\ Reliable(asked) => Walking

NoneBefore ==
  \A f : /\ Cardinality(Matching(f)) \in Nat
         /\ OneOrder(f) => Upto(f, OffsetOf(1)) = {}

LEMMA NothingYet == Clocked => NoneBefore
<1> SUFFICES ASSUME Clocked, NEW f
             PROVE  /\ Cardinality(Matching(f)) \in Nat
                    /\ OneOrder(f) => Upto(f, OffsetOf(1)) = {}
  BY DEF NoneBefore
<1>1. Cardinality(Matching(f)) \in Nat
  BY MatchingIsFinite, FS_CardinalityType
<1>2. OffsetOf(1) = 0
  BY Offsets
<1>3. ASSUME OneOrder(f), NEW r \in Matching(f) PROVE ~ (Rank(f, r) < 0)
  BY <1>3, RanksAreBelow
<1> QED
  BY <1>1, <1>2, <1>3 DEF Upto

LEMMA WalkStarts ==
  ASSUME ListingInv, NEW f, IsForm(f), StartWalk(f), IsForm(asked'),
         Len(asked'.states) <= 1 => f = asked'
  PROVE  ListingInv'
<1>0. Clocked'
  BY DEF StartWalk, ListingInv, Clocked
<1>1. NoneBefore'
  BY <1>0, NothingYet, PTL
<1>2. /\ pc' = "count" /\ q' = f /\ page' = 1 /\ seen' = {} /\ twice' = FALSE
      /\ total' = total
  BY DEF StartWalk
<1>3. page' \in Nat \ {0} /\ total' \in Nat
  BY <1>2 DEF ListingInv
<1>4. ASSUME Reliable(asked)' PROVE Walking'
  <2>1. q' = asked' /\ OneOrder(asked')
    BY <1>2, <1>4 DEF Reliable, OneOrder
  <2>2. Cardinality(Matching(q))' \in Nat /\ Upto(q, OffsetOf(1))' = {}
    BY <1>1, <2>1 DEF NoneBefore, OneOrder
  <2>3. 1 <= TotalPages(Cardinality(Matching(q))')
    BY <2>2, Pages
  <2> QED
    BY <1>2, <2>2, <2>3 DEF Walking, OffsetOf
<1> QED
  BY <1>0, <1>2, <1>3, <1>4 DEF ListingInv

LEMMA TableStays ==
  ASSUME UNCHANGED <<row, ended, dup, place, clock>>
  PROVE  \A f, n : /\ Matching(f)' = Matching(f)
                   /\ Upto(f, n)' = Upto(f, n)
<1>1. \A f : Matching(f)' = Matching(f)
  BY DEF Matching, Joined, Stored, InLocation, InStates, InDuplicates, InRemoved, InUnresolved,
         Resolved, HasAddress
<1>2. \A f, r, s : Precedes(f, r, s)' = Precedes(f, r, s)
  BY DEF Precedes, Before, Column, Age
<1>3. \A f, n : Upto(f, n)' = Upto(f, n)
  BY <1>1, <1>2 DEF Upto, Rank, Earlier
<1> QED
  BY <1>1, <1>3

(* Time passes for active rows only: it changes no order but that of       *)
(* active and removed rows by age.                                         *)
LEMMA TimePasses ==
  ASSUME Tick, Clocked, NEW f, IsForm(f), ~ AgesMix(f)
  PROVE  /\ Matching(f)' = Matching(f)
         /\ \A n : Upto(f, n)' = Upto(f, n)
<1>0. UNCHANGED table /\ clock' = clock + 1
  BY DEF Tick
<1>1. Matching(f)' = Matching(f)
  BY <1>0 DEF Matching, Joined, Stored, InLocation, InStates, InDuplicates, InRemoved, InUnresolved,
         Resolved, HasAddress
<1>2. ASSUME NEW r \in Matching(f), NEW s \in Matching(f)
      PROVE  Precedes(f, r, s)' = Precedes(f, r, s)
  <2>1. /\ r \in Rows /\ s \in Rows /\ InRemoved(r, f.removed) /\ InRemoved(s, f.removed)
        /\ Seen[r] \in Int /\ Seen[s] \in Int
    BY ListingAssumption DEF Matching, Joined, Stored
  <2>2. CASE f.sort # "age_days"
    BY <2>2 DEF Precedes, Before, Column
  <2>3. CASE f.sort = "age_days"
    <3>1. f.removed \in {"active", "removed"}
      <4>1. PICK V : f \in FormsOver(V)
        BY DEF IsForm
      <4> QED
        BY <2>3, <4>1 DEF FormsOver, AgesMix
    <3>2. row[r] = f.removed /\ row[s] = f.removed
      BY <2>1, <3>1 DEF InRemoved, None
    <3>3. /\ Age(r) \in Int /\ Age(s) \in Int
          /\ (Age(r) < Age(s) <=> Age(r)' < Age(s)') /\ (Age(s) < Age(r) <=> Age(s)' < Age(r)')
          /\ (Age(r) = Age(s) <=> Age(r)' = Age(s)')
      <4>1. CASE f.removed = "active"
        <5>1. row' = row /\ row[r] # "removed" /\ row[s] # "removed"
          BY <1>0, <3>2, <4>1
        <5>2. /\ Age(r) = clock - Seen[r] /\ Age(s) = clock - Seen[s]
              /\ Age(r)' = clock' - Seen[r] /\ Age(s)' = clock' - Seen[s]
          BY <5>1 DEF Age
        <5>3. clock \in Int /\ clock' = clock + 1
          BY <1>0 DEF Clocked
        <5> QED
          BY <2>1, <5>2, <5>3
      <4>2. CASE f.removed = "removed"
        <5>1. /\ Age(r) = ended[r] - Seen[r] /\ Age(s) = ended[s] - Seen[s]
              /\ Age(r)' = Age(r) /\ Age(s)' = Age(s)
          BY <1>0, <3>2, <4>2 DEF Age
        <5> QED
          BY <2>1, <5>1 DEF Clocked
      <4> QED
        BY <3>1, <4>1, <4>2
    <3>4. /\ Column(f, r) = Age(r) /\ Column(f, s) = Age(s)
          /\ Column(f, r)' = Age(r)' /\ Column(f, s)' = Age(s)'
      BY <2>3 DEF Column
    <3> QED
      BY <3>3, <3>4 DEF Precedes, Before
  <2> QED
    BY <2>2, <2>3
<1>3. \A r \in Matching(f) : Earlier(f, r)' = Earlier(f, r)
  BY <1>1, <1>2 DEF Earlier
<1>4. \A n : Upto(f, n)' = Upto(f, n)
  BY <1>1, <1>3 DEF Upto, Rank
<1> QED
  BY <1>1, <1>4

LEMMA PageIsShown ==
  ASSUME ListingInv, List
  PROVE  ListingInv'
<1>1. /\ pc = "list" /\ pc' = "shown" /\ page' = Clamped(page, total)
      /\ UNCHANGED <<table, clock, q, total, asked, steady, aged>>
  BY DEF List
<1>2. TotalPages(total) \in Nat \ {0}
  BY Pages DEF ListingInv
<1>3. page' \in Nat \ {0}
  BY <1>1, <1>2 DEF ListingInv, Clamped
<1>4. ASSUME steady, Reliable(asked) PROVE Walking'
  <2>1. q = asked /\ Walking /\ OneOrder(q) /\ Clocked
    BY <1>4 DEF ListingInv, Reliable
  <2>2. page' = page
    BY <1>1, <1>2, <2>1 DEF Clamped, Walking, ListingInv
  <2> DEFINE k == OffsetOf(page)
  <2>3. k \in Nat /\ PageSize \in Nat
    BY Offsets, ListingAssumption DEF ListingInv
  <2>4. PICK o \in Orders(q) :
          LET shown == Range(SubSeq(o, k + 1, IF k + PageSize < Len(o) THEN k + PageSize ELSE Len(o)))
          IN seen' = (IF steady THEN seen \cup shown ELSE {}) /\ twice' = (twice \/ shown \cap seen # {})
    BY <2>2 DEF List
  <2>5. Upto(q, k) \subseteq Upto(q, k + PageSize)
    <3> SUFFICES ASSUME NEW r \in Upto(q, k) PROVE r \in Upto(q, k + PageSize)
      OBVIOUS
    <3>1. r \in Matching(q) /\ Rank(q, r) < k
      BY DEF Upto
    <3>2. Rank(q, r) \in Nat
      BY <2>1, <3>1, RanksAreBelow
    <3>3. Rank(q, r) < k + PageSize
      BY <2>3, <3>1, <3>2
    <3> QED
      BY <3>1, <3>3 DEF Upto
  <2> HIDE DEF k
  <2>6. Range(SubSeq(o, k + 1, IF k + PageSize < Len(o) THEN k + PageSize ELSE Len(o)))
        = Upto(q, k + PageSize) \ Upto(q, k)
    BY <2>1, <2>3, ShownRows
  <2>7. seen = Upto(q, k)
    BY <1>1, <2>1 DEF Walking, k
  <2>8. seen' = Upto(q, k + PageSize) /\ ~ twice'
    BY <1>4, <2>1, <2>4, <2>5, <2>6, <2>7 DEF Walking
  <2>9. Upto(q, k + PageSize)' = Upto(q, k + PageSize) /\ Matching(q)' = Matching(q)
    BY <1>1, <2>2, TableStays DEF k
  <2>10. k' = k
    BY <2>2 DEF k
  <2>11. /\ page' <= TotalPages(Cardinality(Matching(q)'))
         /\ total' = Cardinality(Matching(q)')
    BY <1>1, <2>1, <2>2, <2>9 DEF Walking
  <2>12. seen' = Upto(q, OffsetOf(page) + PageSize)'
    BY <2>8, <2>9 DEF k
  <2> QED
    BY <1>1, <2>8, <2>11, <2>12 DEF Walking
<1> QED
  BY <1>1, <1>3, <1>4 DEF ListingInv, Reliable, OneOrder, AgesMix, Clocked

LEMMA ClockedStays ==
  ASSUME Clocked, [Next]_vars
  PROVE  Clocked'
<1>1. ASSUME NEW r \in Rows, JobFound(r) \/ JobRemoved(r) PROVE Clocked'
  <2>1. /\ row' = [row EXCEPT ![r] = "active"] \/ row' = [row EXCEPT ![r] = "removed"]
        /\ ended' = ended \/ ended' = [ended EXCEPT ![r] = clock]
        /\ UNCHANGED clock
    BY <1>1 DEF JobFound, JobRemoved, EditJob, Edit
  <2> QED
    BY <2>1 DEF Clocked
<1>2. CASE Tick
  BY <1>2 DEF Tick, Clocked
<1>3. ASSUME UNCHANGED <<row, ended, clock>> PROVE Clocked'
  BY <1>3 DEF Clocked
<1>4. CASE Reader \/ Mailer \/ UNCHANGED vars
  BY <1>3, <1>4 DEF Reader, Open, SortBy, RemoveChip, StartWalk, Count, List, NextPage,
       PreviousPage, Jump, Turn, Mailer, Scanned, Rescue, DropDuplicates, Send, NoMail, DigestStep
<1>5. ASSUME NEW r \in Rows, NEW l \in Places, NEW s,
             Duplicate(r) \/ Located(l, s) \/ Override(r, l) \/ ClearOverride(r)
      PROVE  Clocked'
  BY <1>3, <1>5 DEF Duplicate, Located, Override, ClearOverride, EditJob, Edit
<1>6. ASSUME NEW r \in Rows, Duplicate(r) \/ ClearOverride(r) PROVE Clocked'
  BY <1>3, <1>6 DEF Duplicate, ClearOverride, EditJob, Edit
<1>7. ASSUME NEW l, NEW s, Located(l, s) PROVE Clocked'
  BY <1>3, <1>7 DEF Located, Edit
<1> QED
  BY <1>1, <1>2, <1>4, <1>5, <1>6, <1>7 DEF Next, Others

LEMMA ListingStep ==
  ASSUME ListingInv, [Next]_vars
  PROVE  ListingInv'
<1> USE DEF ListingInv
<1>0. Clocked'
  BY ClockedStays
<1>r. ASSUME UNCHANGED <<asked, aged>> PROVE Reliable(asked)' <=> Reliable(asked)
  BY <1>r DEF Reliable, OneOrder, AgesMix
<1>1. ASSUME NEW f \in Queries, Open(f) PROVE ListingInv'
  <2>1. IsForm(f)
    BY ListingAssumption DEF IsForm, FormsOver, Forms
  <2> QED
    BY <1>1, <2>1, WalkStarts DEF Open
<1>2. ASSUME NEW c \in Columns, SortBy(c) PROVE ListingInv'
  <2> DEFINE dir       == IF q.sort = c /\ q.dir = "desc" THEN "asc"
                          ELSE IF q.sort = c THEN "desc" ELSE "asc"
             sorted(f) == [f EXCEPT !.sort = c, !.dir = dir]
  <2>1. StartWalk(sorted(Link(q))) /\ asked' = sorted(asked)
    BY <1>2 DEF SortBy
  <2>2. dir \in {"asc", "desc"}
    OBVIOUS
  <2> HIDE DEF dir
  <2>3. IsForm(Link(q)) /\ (Len(q.states) <= 1 => Link(q) = q)
    BY LinkIsForm
  <2>4. \A f : IsForm(f) => IsForm(sorted(f)) /\ sorted(f).states = f.states
    BY <2>2, SortedIsForm
  <2> HIDE DEF sorted
  <2>5. IsForm(sorted(Link(q))) /\ IsForm(sorted(asked)) /\ sorted(asked).states = asked.states
    BY <2>3, <2>4
  <2>6. Len(asked'.states) <= 1 => sorted(Link(q)) = asked'
    BY <2>1, <2>3, <2>5
  <2> QED
    BY <2>1, <2>5, <2>6, WalkStarts
<1>3. ASSUME NEW v, RemoveChip(v) PROVE ListingInv'
  <2> DEFINE rest == [q EXCEPT !.states = Without(@, v)]
  <2>1. StartWalk(rest) /\ asked' = rest
    BY <1>3 DEF RemoveChip
  <2>2. IsForm(rest)
    BY RestIsForm
  <2> HIDE DEF rest
  <2> QED
    BY <2>1, <2>2, WalkStarts
<1>4. CASE Count
  <2>1. /\ pc = "count" /\ pc' = "list" /\ total' = Cardinality(Matching(q))
        /\ UNCHANGED <<table, clock, q, page, asked, seen, twice, steady, aged>>
    BY <1>4 DEF Count
  <2>2. Matching(q)' = Matching(q) /\ \A n : Upto(q, n)' = Upto(q, n)
    BY <2>1, TableStays
  <2>3. total' \in Nat
    BY <2>1, NothingYet DEF NoneBefore
  <2>4. Upto(q, OffsetOf(page))' = Upto(q, OffsetOf(page))
    BY <2>1, <2>2
  <2>5. Walking => Walking'
    BY <2>1, <2>2, <2>4 DEF Walking
  <2> QED
    BY <1>0, <1>r, <2>1, <2>3, <2>5
<1>5. CASE List
  BY <1>5, PageIsShown
<1>6. CASE NextPage
  <2>1. /\ pc = "shown" /\ pc' = "count" /\ q' = Link(q) /\ page' = page + 1
        /\ page < TotalPages(total)
        /\ UNCHANGED <<table, clock, total, asked, seen, twice, steady, aged>>
    BY <1>6 DEF NextPage, Turn, Undisturbed
  <2>2. IsForm(Link(q)) /\ (Len(q.states) <= 1 => Link(q) = q)
    BY LinkIsForm
  <2>3. page' \in Nat \ {0} /\ OffsetOf(page + 1) = OffsetOf(page) + PageSize
    BY <2>1, Offsets
  <2>4. ASSUME Len(asked.states) <= 1, Walking PROVE Walking'
    <3>1. q' = q
      BY <2>1, <2>2, <2>4
    <3>2. Matching(q)' = Matching(q) /\ \A n : Upto(q, n)' = Upto(q, n)
      BY <2>1, <3>1, TableStays
    <3>3. seen' = Upto(q, OffsetOf(page))'
      BY <2>1, <2>3, <2>4, <3>1, <3>2 DEF Walking
    <3>4. page' <= TotalPages(Cardinality(Matching(q)'))
      <4>1. TotalPages(total) \in Nat
        BY Pages
      <4> QED
        BY <2>1, <2>4, <3>2, <4>1 DEF Walking
    <3> QED
      BY <2>1, <2>4, <3>3, <3>4 DEF Walking
  <2> QED
    BY <1>0, <1>r, <2>1, <2>2, <2>3, <2>4 DEF Reliable
<1>7. CASE PreviousPage
  <2>1. /\ page > 1 /\ q' = Link(q) /\ page' = page - 1 /\ steady' = FALSE
        /\ UNCHANGED <<total, asked>>
    BY <1>7 DEF PreviousPage, Turn, Disturbed
  <2>2. IsForm(Link(q)) /\ (Len(q.states) <= 1 => Link(q) = q)
    BY LinkIsForm
  <2> QED
    BY <1>0, <2>1, <2>2
<1>8. ASSUME NEW p \in 1..TotalPages(total), Jump(p) PROVE ListingInv'
  <2>1. TotalPages(total) \in Nat
    BY Pages
  <2>2. q' = q /\ page' = p /\ steady' = FALSE /\ UNCHANGED <<total, asked>>
    BY <1>8 DEF Jump, Turn, Disturbed
  <2> QED
    BY <1>0, <2>1, <2>2
<1>9. CASE Others
  <2>1. Edit
    BY <1>9 DEF Others, JobFound, JobRemoved, Duplicate, EditJob, Located, Override, ClearOverride
  <2>2. steady' = FALSE /\ UNCHANGED <<q, page, total, asked>>
    BY <2>1 DEF Edit, Disturbed
  <2> QED
    BY <1>0, <2>2
<1>11. CASE Tick
  <2>1. /\ UNCHANGED <<table, pc, q, page, total, asked, seen, twice, steady>> /\ aged' = steady
    BY <1>11 DEF Tick
  <2>2. ASSUME steady, Reliable(asked)' PROVE Walking'
    <3>1. Len(asked.states) <= 1 /\ OneOrder(asked) /\ ~ AgesMix(asked)
      BY <2>1, <2>2 DEF Reliable, OneOrder, AgesMix
    <3>2. q = asked /\ Walking
      BY <2>2, <3>1 DEF Reliable
    <3>3. Matching(q)' = Matching(q) /\ \A n : Upto(q, n)' = Upto(q, n)
      <4>1. \A f : IsForm(f) /\ ~ AgesMix(f) => Matching(f)' = Matching(f) /\ \A n : Upto(f, n)' = Upto(f, n)
        BY <1>11, TimePasses
      <4>2. Matching(asked)' = Matching(asked) /\ \A n : Upto(asked, n)' = Upto(asked, n)
        <5>1. asked' = asked
          BY <2>1
        <5> QED
          BY <3>1, <4>1, <5>1
      <4> QED
        BY <2>1, <3>2, <4>2
    <3>4. /\ Upto(q, OffsetOf(page))' = Upto(q, OffsetOf(page))
          /\ Upto(q, OffsetOf(page) + PageSize)' = Upto(q, OffsetOf(page) + PageSize)
      BY <2>1, <3>3
    <3> QED
      BY <2>1, <3>2, <3>3, <3>4 DEF Walking
  <2> QED
    BY <1>0, <2>1, <2>2
<1>10. CASE Mailer \/ UNCHANGED vars
  <2>1. /\ UNCHANGED <<row, ended, dup, place, clock>>
        /\ UNCHANGED <<pc, q, page, total, asked, seen, twice, steady, aged>>
    BY <1>10 DEF Mailer, Scanned, Rescue, DropDuplicates, Send, NoMail, DigestStep
  <2>2. Matching(q)' = Matching(q) /\ \A n : Upto(q, n)' = Upto(q, n)
    BY <2>1, TableStays
  <2>3. /\ Upto(q, OffsetOf(page))' = Upto(q, OffsetOf(page))
        /\ Upto(q, OffsetOf(page) + PageSize)' = Upto(q, OffsetOf(page) + PageSize)
    BY <2>1, <2>2
  <2>4. Walking => Walking'
    BY <2>1, <2>2, <2>3 DEF Walking
  <2> QED
    BY <1>0, <1>r, <2>1, <2>4
<1> QED
  BY <1>1, <1>2, <1>3, <1>4, <1>5, <1>6, <1>7, <1>8, <1>9, <1>10, <1>11 DEF Next, Reader

LEMMA ListingStarts ==
  ASSUME Init
  PROVE  ListingInv
<1>1. PICK u \in Users : q = Default(u)
  BY DEF Init
<1>2. Default(u) \in FormsOver({})
  BY EmptySeq DEF Default, FormsOver, Columns
<1> QED
  BY <1>1, <1>2 DEF Init, ListingInv, IsForm, Clocked

LEMMA AllIsShown ==
  ASSUME ListingInv
  PROVE  PagesListOnce
<1> SUFFICES ASSUME AtTheEnd, Reliable(asked) PROVE EachOnce
  BY DEF PagesListOnce, Reliable
<1>1. /\ q = asked /\ Walking /\ pc = "shown" /\ page = TotalPages(total) /\ page \in Nat \ {0}
      /\ OneOrder(q) /\ Clocked
  BY DEF ListingInv, AtTheEnd, Reliable
<1>2. seen = Upto(q, page * PageSize)
  BY <1>1, Offsets DEF Walking
<1>3. Cardinality(Matching(q)) \in Nat /\ Cardinality(Matching(q)) <= page * PageSize
  BY <1>1, NothingYet, Pages DEF Walking, NoneBefore
<1>4. page * PageSize \in Nat
  BY <1>1, ListingAssumption
<1>5. ASSUME NEW r \in Matching(q) PROVE r \in Upto(q, page * PageSize)
  <2>1. Rank(q, r) \in Nat /\ Rank(q, r) < Cardinality(Matching(q))
    BY <1>1, RanksAreBelow
  <2>2. Rank(q, r) < page * PageSize
    BY <1>3, <1>4, <2>1
  <2> QED
    BY <2>2 DEF Upto
<1>6. seen = Matching(q)
  BY <1>2, <1>5 DEF Upto
<1> QED
  BY <1>1, <1>6 DEF EachOnce, Walking

(* Whoever turns the pages of an unchanged table sees every matching job   *)
(* once (web/pagination.py, db.count_jobs, db.list_jobs).                  *)
THEOREM PagesShowEachJobOnce == Spec => []PagesListOnce
<1>1. Init => ListingInv
  BY ListingStarts
<1>2. ListingInv /\ [Next]_vars => ListingInv'
  BY ListingStep
<1>3. ListingInv => PagesListOnce
  BY AllIsShown
<1> QED
  BY <1>1, <1>2, <1>3, PTL DEF Spec

\* A chip's "x" leaves no more values than there were.
LEMMA FewerValues ==
  ASSUME NEW f, IsForm(f), NEW value, Len(f.states) <= 1
  PROVE  Len([f EXCEPT !.states = Without(@, value)].states) <= 1
<1>1. PICK V : f \in FormsOver(V)
  BY DEF IsForm
<1> DEFINE states == f.states
           left   == {i \in DOMAIN states : states[i] # value}
           k      == Cardinality(left)
           At(n)  == states[CHOOSE i \in left : Cardinality({j \in left : j <= i}) = n]
<1>2. Len(states) \in Nat /\ DOMAIN states = 1..Len(states)
  BY <1>1 DEF FormsOver
<1>3. IsFiniteSet(1..Len(states)) /\ Cardinality(1..Len(states)) = Len(states)
  <2>1. 1 \in Int /\ Len(states) \in Int
    BY <1>2
  <2>2. /\ IsFiniteSet(1..Len(states))
        /\ Cardinality(1..Len(states)) = IF 1 > Len(states) THEN 0 ELSE Len(states) - 1 + 1
    BY <2>1, FS_Interval, Zenon
  <2>3. (IF 1 > Len(states) THEN 0 ELSE Len(states) - 1 + 1) = Len(states)
    BY <1>2
  <2> QED
    BY <2>2, <2>3
<1>4. k \in Nat /\ k <= Len(states)
  <2>1. IsFiniteSet(left) /\ Cardinality(left) <= Cardinality(1..Len(states))
    BY <1>2, <1>3, FS_Subset
  <2> QED
    BY <1>3, <2>1, FS_CardinalityType
<1>5. Without(states, value) = [n \in 1..k |-> At(n)]
  BY DEF Without
<1> HIDE DEF k, At
<1>6. Len([n \in 1..k |-> At(n)]) = k
  BY <1>4
<1>7. [f EXCEPT !.states = Without(@, value)].states = Without(states, value)
  BY <1>1 DEF FormsOver
<1> HIDE DEF states
<1>8. Len(states) <= 1
  BY DEF states
<1> QED
  BY <1>2, <1>4, <1>5, <1>6, <1>7, <1>8

(* "Results are correct across pagination" (CHANGELOG.md:1076-1078) for    *)
(* readers whose forms and bookmarks name at most one state and ask for    *)
(* active or for removed jobs: no column header, chip or link ever makes   *)
(* it several states or both kinds, and then, for the jobs of one user,    *)
(* the last page completes the listing.                                    *)
Plainly(f) == Len(f.states) <= 1 /\ f.removed # None
OneState   == Plainly(q) /\ Plainly(asked)

LEMMA OneStateStays ==
  ASSUME \A f \in Queries : Plainly(f), ListingInv, OneState, [Next]_vars
  PROVE  OneState'
<1> USE DEF ListingInv, OneState
<1>0. Link(q) = q
  BY LinkIsForm DEF Plainly
<1>1. ASSUME NEW f \in Queries, Open(f) PROVE OneState'
  BY <1>1 DEF Open, StartWalk, Plainly
<1>2. ASSUME NEW c \in Columns, SortBy(c) PROVE OneState'
  <2> DEFINE dir       == IF q.sort = c /\ q.dir = "desc" THEN "asc"
                          ELSE IF q.sort = c THEN "desc" ELSE "asc"
             sorted(f) == [f EXCEPT !.sort = c, !.dir = dir]
  <2>1. q' = sorted(Link(q)) /\ asked' = sorted(asked)
    BY <1>2 DEF SortBy, StartWalk
  <2>2. dir \in {"asc", "desc"}
    OBVIOUS
  <2> HIDE DEF dir
  <2>3. \A f : IsForm(f) => sorted(f).states = f.states
    BY <2>2, SortedIsForm
  <2>4. ASSUME NEW f, IsForm(f) PROVE sorted(f).removed = f.removed
    BY <2>4 DEF IsForm, FormsOver
  <2> HIDE DEF sorted
  <2> QED
    BY <1>0, <2>1, <2>3, <2>4 DEF Plainly
<1>3. ASSUME NEW v, RemoveChip(v) PROVE OneState'
  <2> DEFINE rest == [q EXCEPT !.states = Without(@, v)]
  <2>1. q' = rest /\ asked' = rest
    BY <1>3 DEF RemoveChip, StartWalk
  <2>2. Len(rest.states) <= 1
    BY FewerValues DEF Plainly
  <2>3. rest.removed = q.removed
    BY DEF IsForm, FormsOver
  <2> HIDE DEF rest
  <2> QED
    BY <2>1, <2>2, <2>3 DEF Plainly
<1>4. ASSUME NEW p, Jump(p) PROVE OneState'
  BY <1>4 DEF Jump, Turn, Plainly
<1>5. CASE NextPage \/ PreviousPage
  BY <1>0, <1>5 DEF NextPage, PreviousPage, Turn, Plainly
<1>6. CASE Count \/ List \/ Tick \/ UNCHANGED vars
  <2>1. UNCHANGED <<q, asked>>
    BY <1>6 DEF Count, List, Tick
  <2> QED
    BY <2>1 DEF Plainly
<1>7. CASE Others
  <2>1. Edit
    BY <1>7 DEF Others, JobFound, JobRemoved, Duplicate, EditJob, Located, Override, ClearOverride
  <2> QED
    BY <2>1 DEF Edit, Plainly
<1>8. CASE Mailer
  <2>1. UNCHANGED <<q, asked>>
    BY <1>8 DEF Mailer, Scanned, Rescue, DropDuplicates, Send, NoMail, DigestStep
  <2> QED
    BY <2>1 DEF Plainly
<1> QED
  BY <1>1, <1>2, <1>3, <1>4, <1>5, <1>6, <1>7, <1>8 DEF Next, Reader

(* Run listing_pages shows that one state is needed, and PagesListOnce     *)
(* says what becomes of active and removed jobs listed together.           *)
THEOREM PagesAreCorrectForOneState ==
  ASSUME \A f \in Queries : Len(f.states) <= 1 /\ f.removed # None
  PROVE  Spec => []CorrectAcrossPages
<1>0. \A f \in Queries : Plainly(f)
  BY DEF Plainly
<1>1. Init => ListingInv /\ OneState
  <2> SUFFICES ASSUME Init PROVE OneState
    BY ListingStarts
  <2>1. PICK u \in Users : q = Default(u) /\ asked = Default(u)
    BY DEF Init
  <2>2. Default(u).states = << >> /\ Default(u).removed # None
    BY DEF Default, None
  <2> QED
    BY <2>1, <2>2 DEF OneState, Plainly
<1>2. ListingInv /\ OneState /\ [Next]_vars => (ListingInv /\ OneState)'
  BY <1>0, ListingStep, OneStateStays
<1>3. ListingInv /\ OneState => CorrectAcrossPages
  BY AllIsShown DEF OneState, Plainly, AgesMix, OneOrder, PagesListOnce, CorrectAcrossPages
<1> QED
  BY <1>1, <1>2, <1>3, PTL DEF Spec

-----------------------------------------------------------------------------
(* A digest: what build_digest keeps and counts is what it is about.       *)
LEMMA DigestCounts ==
  ASSUME NEW js, IsFiniteSet(js), NEW kept \in Kept(js), NEW c \in Companies(js)
  PROVE  Cardinality(Of(c, js)) = Cardinality(Of(c, kept)) + Overflow(c, js)
<1>1. Cardinality(Of(c, js)) \in Nat
  <2>1. IsFiniteSet(Of(c, js))
    BY FS_Subset DEF Of
  <2> QED
    BY <2>1, FS_CardinalityType
<1>2. Cardinality(Of(c, kept)) = Cardinality(Of(c, js)) - Overflow(c, js)
  BY DEF Kept
<1>3. Overflow(c, js) \in Int
  BY <1>1, DigestAssumption DEF Overflow
<1> QED
  BY <1>1, <1>2, <1>3

(* The look-up of duplicates returns all of them, or they are too many.    *)
LEMMA FlaggedRows ==
  ASSUME NEW u
  PROVE  Matching(DuplicateForm(u)) = {r \in Stored(u) : r \in dup}
<1> DEFINE f == DuplicateForm(u)
<1>1. /\ f.user = u /\ f.location = None /\ f.states = << >> /\ f.dups = "only"
      /\ f.removed = None
  <2> DEFINE d1 == Default(u)
             d2 == [d1 EXCEPT !.dups = "only"]
             d3 == [d2 EXCEPT !.removed = None]
  <2>1. d1 = [user |-> u, location |-> None, states |-> << >>, dups |-> None,
              removed |-> "active", sort |-> "first_seen_at", dir |-> "desc"]
    BY DEF Default
  <2> HIDE DEF d1
  <2>2. d2 = [user |-> u, location |-> None, states |-> << >>, dups |-> "only",
              removed |-> "active", sort |-> "first_seen_at", dir |-> "desc"]
    BY <2>1, SMT
  <2> HIDE DEF d2
  <2>3. d3 = [user |-> u, location |-> None, states |-> << >>, dups |-> "only",
              removed |-> None, sort |-> "first_seen_at", dir |-> "desc"]
    BY <2>2, SMT
  <2>4. f = d3
    BY DEF d1, d2, DuplicateForm
  <2> QED
    BY <2>3, <2>4
<1> HIDE DEF f
<1>2. Matching(f) = {r \in Stored(u) : r \in dup}
  BY <1>1 DEF Matching, Joined, InLocation, InStates, InDuplicates, InRemoved, None
<1> QED
  BY <1>2 DEF f

LEMMA AllDuplicatesFound ==
  ASSUME NEW u, NEW dups \in Duplicates(u),
         ~ (Cardinality(Matching(DuplicateForm(u))) > LookupLimit)
  PROVE  dups = {r \in Stored(u) : r \in dup}
<1> DEFINE f == DuplicateForm(u)
<1>1. PICK o \in Orders(f) :
        dups = Range(SubSeq(o, 1, IF LookupLimit < Len(o) THEN LookupLimit ELSE Len(o)))
  BY DEF Duplicates
<1> HIDE DEF f
<1>2. /\ o \in Seq(Matching(f)) /\ Len(o) = Cardinality(Matching(f)) /\ Len(o) \in Nat
      /\ Range(o) = Matching(f)
  BY MatchingIsFinite, SeqsOfSets DEF Orders
<1>3. dups = Range(SubSeq(o, 1, Len(o)))
  <2>1. ~ (LookupLimit < Len(o)) \/ LookupLimit = Len(o)
    BY <1>2, ListingAssumption DEF f
  <2> QED
    BY <1>1, <2>1
<1>4. SubSeq(o, 1, Len(o)) = o
  BY <1>2, SubSeqFull
<1> QED
  BY <1>2, <1>3, <1>4, FlaggedRows DEF f

(* While a digest is on its way, its jobs are the user's and active ones,  *)
(* but for those removed since, and from the look-up on none of them is a  *)
(* duplicate, but for those flagged since or left out of the look-up.      *)
DigestInv ==
  /\ Clocked
  /\ jobs \subseteq Rows
  /\ step # "idle" => \A r \in jobs : r \in Stored(whose) /\ (row[r] = "active" \/ r \in late)
  /\ step = "send" => \A r \in jobs : r \notin dup \/ r \in late \/ r \in missed

LEMMA DigestInvStays ==
  ASSUME DigestInv, [Next]_vars
  PROVE  DigestInv'
<1> USE DEF DigestInv
<1>0. Clocked'
  BY ClockedStays
<1>1. ASSUME NEW r \in Rows, JobFound(r) PROVE DigestInv'
  <2>1. /\ row' = [row EXCEPT ![r] = "active"]
        /\ UNCHANGED <<dup, step, whose, jobs, missed>> /\ late \subseteq late'
    BY <1>1 DEF JobFound, EditJob
  <2> QED
    BY <1>0, <2>1 DEF Stored, Clocked
<1>2. ASSUME NEW r \in Rows, JobRemoved(r) PROVE DigestInv'
  <2>1. /\ row' = [row EXCEPT ![r] = "removed"]
        /\ UNCHANGED <<dup, step, whose, jobs, missed>>
        /\ late \subseteq late' /\ (step # "idle" => r \in late')
    BY <1>2 DEF JobRemoved, EditJob
  <2> QED
    BY <1>0, <2>1 DEF Stored, Clocked
<1>3. ASSUME NEW r \in Rows, Duplicate(r) PROVE DigestInv'
  <2>1. /\ dup' \subseteq dup \cup {r} /\ (r \notin dup /\ step # "idle" => r \in late')
        /\ late \subseteq late' /\ UNCHANGED <<row, step, whose, jobs, missed>>
    BY <1>3 DEF Duplicate, EditJob
  <2> QED
    BY <1>0, <2>1 DEF Stored
<1>4. ASSUME UNCHANGED <<row, dup, step, whose, jobs, late, missed>> PROVE DigestInv'
  BY <1>0, <1>4 DEF Stored
<1>5. ASSUME NEW l, NEW s, Located(l, s) PROVE DigestInv'
  BY <1>4, <1>5 DEF Located
<1>6. ASSUME NEW r, NEW l, Override(r, l) \/ ClearOverride(r) PROVE DigestInv'
  BY <1>4, <1>6 DEF Override, ClearOverride
<1>7. CASE Reader \/ Tick \/ UNCHANGED vars
  BY <1>4, <1>7 DEF Reader, Open, SortBy, RemoveChip, StartWalk, Count, List, NextPage,
       PreviousPage, Jump, Turn, Tick
<1>8. ASSUME NEW u \in Users, NEW found \in SUBSET Rows, NEW again, Scanned(u, found, again)
      PROVE  DigestInv'
  <2>1. /\ step' = "rescue" /\ whose' = u /\ jobs' = found /\ row' = row
        /\ found \subseteq {r \in Stored(u) : row[r] = "active"}
    BY <1>8 DEF Scanned, DigestStep
  <2> QED
    BY <1>0, <2>1 DEF Stored
<1>9. CASE Rescue
  <2>1. /\ step = "rescue" /\ step' = "lookup" /\ jobs' = jobs \cup Unemailed(whose)
        /\ UNCHANGED <<row, whose, late>>
    BY <1>9 DEF Rescue, DigestStep
  <2> QED
    BY <1>0, <2>1 DEF Stored, Unemailed
<1>10. CASE DropDuplicates
  <2>1. /\ step = "lookup" /\ step' = "send" /\ UNCHANGED <<row, dup, whose, late>>
        /\ jobs' \subseteq jobs
    BY <1>10 DEF DropDuplicates, DigestStep
  <2>2. PICK dups \in Duplicates(whose) : jobs' = jobs \ dups
    BY <1>10 DEF DropDuplicates
  <2>3. /\ missed' = IF Cardinality(Matching(DuplicateForm(whose))) > LookupLimit
                     THEN Matching(DuplicateForm(whose)) ELSE {}
    BY <1>10 DEF DropDuplicates
  <2>4. \A r \in jobs' : r \notin dup \/ r \in missed'
    <3>1. CASE Cardinality(Matching(DuplicateForm(whose))) > LookupLimit
      BY <2>1, <2>3, <3>1, FlaggedRows
    <3>2. CASE ~ (Cardinality(Matching(DuplicateForm(whose))) > LookupLimit)
      BY <2>1, <2>2, <3>2, AllDuplicatesFound
    <3> QED
      BY <3>1, <3>2
  <2> QED
    BY <1>0, <2>1, <2>4 DEF Stored
<1>11. CASE Send \/ NoMail
  <2>1. step' = "idle" /\ jobs' = {}
    BY <1>11 DEF Send, NoMail, DigestStep
  <2> QED
    BY <1>0, <2>1
<1> QED
  BY <1>1, <1>2, <1>3, <1>5, <1>6, <1>7, <1>8, <1>9, <1>10, <1>11 DEF Next, Others, Mailer

LEMMA DigestInvStarts == Init => DigestInv
  BY DEF Init, DigestInv, Clocked

\* What is mailed is the user's, active and no duplicate, with the exceptions.
LEMMA SentIsShown ==
  ASSUME DigestInv, step = "send", NEW sent, sent \subseteq jobs
  PROVE  sent \subseteq Matching(Default(whose)) \cup late \cup missed
<1> SUFFICES ASSUME NEW r \in sent, r \notin late, r \notin missed
             PROVE  r \in Matching(Default(whose))
  OBVIOUS
<1>1. r \in Stored(whose) /\ row[r] = "active" /\ r \notin dup
  BY DEF DigestInv
<1> QED
  BY <1>1 DEF Matching, Joined, Default, InLocation, InStates, InDuplicates, InRemoved, None

Reported ==
  LET listed == mail'.newly \cup mail'.already
  IN /\ \A c \in Companies(mail'.about) :
          Cardinality(Of(c, mail'.about)) = Cardinality(Of(c, listed)) + mail'.more[c]
     /\ listed \subseteq mail'.about
     /\ mail'.about \subseteq Matching(Default(whose))' \cup late \cup missed

LEMMA NewMail ==
  ASSUME Next, mail' # mail
  PROVE  \/ mail' = NoDigest
         \/ Send
<1>1. ASSUME NEW u, NEW found, NEW again, Scanned(u, found, again) PROVE mail' = NoDigest
  BY <1>1 DEF Scanned
<1>2. CASE Send
  BY <1>2
<1>3. ASSUME Reader \/ Tick \/ Others \/ Rescue \/ DropDuplicates \/ NoMail PROVE mail' = mail
  BY <1>3 DEF Reader, Others, Open, SortBy, RemoveChip, StartWalk, Count, List, NextPage,
       PreviousPage, Jump, Turn, Tick, JobFound, JobRemoved, Duplicate, EditJob, Located, Override,
       ClearOverride, Rescue, DropDuplicates, NoMail
<1> QED
  BY <1>1, <1>2, <1>3 DEF Next, Mailer

LEMMA SendReports ==
  ASSUME DigestInv, Send
  PROVE  Reported
<1> DEFINE sent == jobs \ Excluded
<1>1. step = "send" /\ UNCHANGED <<row, ended, dup, place, clock, whose>> /\ mail' \in Digests(sent, emailed, resend)
  BY DEF Send, DigestStep
<1>2. sent \subseteq jobs
  OBVIOUS
<1>3. IsFiniteSet(sent)
  BY FS_Subset, ListingAssumption DEF DigestInv
<1> HIDE DEF sent
<1>4. sent \subseteq Matching(Default(whose)) \cup late \cup missed
  BY <1>1, <1>2, SentIsShown
<1>5. PICK kept \in Kept(sent) :
        mail' = [about   |-> sent,
                 newly   |-> IF resend THEN kept \ emailed ELSE kept,
                 already |-> IF resend THEN kept \cap emailed ELSE {},
                 more    |-> [c \in Companies(sent) |-> Overflow(c, sent)]]
  BY <1>1 DEF Digests
<1>6. /\ mail'.about = sent /\ mail'.newly \cup mail'.already = kept
      /\ mail'.more = [c \in Companies(sent) |-> Overflow(c, sent)]
  BY <1>5
<1>7. \A c \in Companies(sent) :
        Cardinality(Of(c, sent)) = Cardinality(Of(c, kept)) + mail'.more[c]
  BY <1>3, <1>6, DigestCounts
<1>8. kept \subseteq sent
  BY DEF Kept
<1>9. Matching(Default(whose))' = Matching(Default(whose))
  <2>1. Default(whose)' = Default(whose)
    BY <1>1 DEF Default
  <2>2. \A f : Matching(f)' = Matching(f)
    BY <1>1, TableStays
  <2> QED
    BY <2>1, <2>2
<1> QED
  BY <1>4, <1>6, <1>7, <1>8, <1>9 DEF Reported

LEMMA EmptyReports ==
  ASSUME mail' = NoDigest
  PROVE  Reported
<1>1. mail'.about = {} /\ mail'.newly = {} /\ mail'.already = {}
  BY DEF NoDigest
<1> QED
  BY <1>1 DEF Reported, Companies

(* Whatever is mailed is listed or counted, and is on the page the digest  *)
(* points to, with the exceptions the property names: the jobs somebody    *)
(* removed or flagged under the run, and the duplicates of a user who has  *)
(* more of them than the handler looks up.                                 *)
THEOREM DigestDropsNothing == Spec => NothingDropped
<1>1. Init => DigestInv
  BY DigestInvStarts
<1>2. DigestInv /\ [Next]_vars => DigestInv'
  BY DigestInvStays
<1>3. DigestInv /\ [Next]_vars => [mail' # mail => Reported]_vars
  <2> SUFFICES ASSUME DigestInv, Next, mail' # mail PROVE Reported
    OBVIOUS
  <2> QED
    BY NewMail, SendReports, EmptyReports
<1>4. DigestInv /\ [Next]_vars =>
        [mail' # mail =>
           LET listed == mail'.newly \cup mail'.already
           IN /\ \A c \in Companies(mail'.about) :
                   Cardinality(Of(c, mail'.about)) = Cardinality(Of(c, listed)) + mail'.more[c]
              /\ listed \subseteq mail'.about
              /\ mail'.about \subseteq Matching(Default(whose))' \cup late \cup missed]_vars
  BY <1>3 DEF Reported
<1> QED
  BY <1>1, <1>2, <1>4, PTL DEF Spec, NothingDropped

(* The look-up is never too small for users with no more jobs than it      *)
(* returns.                                                                *)
AllLookedUp == whose \in Users \cup {All} /\ (step # "idle" => whose \in Users) /\ missed = {}

LEMMA FewAreLookedUp ==
  ASSUME All \notin Users, NEW u \in Users,
         Cardinality({r \in Rows : Owner[r] = u}) <= LookupLimit
  PROVE  ~ (Cardinality(Matching(DuplicateForm(u))) > LookupLimit)
<1> DEFINE own == {r \in Rows : Owner[r] = u}
<1>1. Matching(DuplicateForm(u)) \subseteq own
  BY FlaggedRows DEF Stored
<1>2. IsFiniteSet(own)
  BY FS_Subset, ListingAssumption
<1>3. Cardinality(own) \in Nat
  BY <1>2, FS_CardinalityType
<1>4. /\ Cardinality(Matching(DuplicateForm(u))) \in Nat
      /\ Cardinality(Matching(DuplicateForm(u))) <= Cardinality(own)
  BY <1>1, <1>2, FS_Subset, FS_CardinalityType
<1>5. Cardinality(own) <= LookupLimit
  OBVIOUS
<1> HIDE DEF own
<1> QED
  BY <1>3, <1>4, <1>5, ListingAssumption

(* If no user has more jobs than the handler looks up duplicates, every    *)
(* job a digest is about is on the page it points to, unless it was        *)
(* removed or flagged under the run.                                       *)
THEOREM FewJobsAreAllDigested ==
  ASSUME All \notin Users,
         \A u \in Users : Cardinality({r \in Rows : Owner[r] = u}) <= LookupLimit
  PROVE  Spec => [][mail' # mail => mail'.about \subseteq Matching(Default(whose))' \cup late]_vars
<1>1. Init => DigestInv /\ AllLookedUp
  BY DigestInvStarts DEF Init, AllLookedUp
<1>2. AllLookedUp /\ [Next]_vars => AllLookedUp'
  <2> SUFFICES ASSUME AllLookedUp, [Next]_vars PROVE AllLookedUp'
    OBVIOUS
  <2> USE DEF AllLookedUp
  <2>1. ASSUME NEW u \in Users, NEW found, NEW again, Scanned(u, found, again) PROVE AllLookedUp'
    BY <2>1 DEF Scanned, DigestStep
  <2>2. CASE DropDuplicates
    <3>1. step # "idle" /\ whose' = whose
      BY <2>2 DEF DropDuplicates, DigestStep
    <3>2. missed' = {}
      BY <2>2, <3>1, FewAreLookedUp DEF DropDuplicates
    <3> QED
      BY <3>1, <3>2
  <2>3. CASE Rescue
    BY <2>3 DEF Rescue, DigestStep
  <2>4. CASE Send \/ NoMail
    BY <2>4 DEF Send, NoMail, DigestStep
  <2>5. CASE Reader \/ Tick \/ Others \/ UNCHANGED vars
    <3>1. UNCHANGED <<step, whose, missed>>
      BY <2>5 DEF Reader, Others, Open, SortBy, RemoveChip, StartWalk, Count, List, NextPage,
         PreviousPage, Jump, Turn, Tick, JobFound, JobRemoved, Duplicate, EditJob, Located, Override,
         ClearOverride
    <3> QED
      BY <3>1
  <2> QED
    BY <2>1, <2>2, <2>3, <2>4, <2>5 DEF Next, Mailer
<1>3. DigestInv /\ [Next]_vars => DigestInv'
  BY DigestInvStays
<1>4. DigestInv /\ AllLookedUp /\ [Next]_vars =>
        [mail' # mail => mail'.about \subseteq Matching(Default(whose))' \cup late]_vars
  <2> SUFFICES ASSUME DigestInv, AllLookedUp, Next, mail' # mail
               PROVE  mail'.about \subseteq Matching(Default(whose))' \cup late
    OBVIOUS
  <2>1. Reported
    BY NewMail, SendReports, EmptyReports
  <2> QED
    BY <2>1 DEF Reported, AllLookedUp
<1> QED
  BY <1>1, <1>2, <1>3, <1>4, PTL DEF Spec

=============================================================================
