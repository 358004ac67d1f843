----------------------------- MODULE MCListing ------------------------------
(* Two jobs one run found for a user, and the first of them for another.   *)
EXTENDS Listing

CONSTANTS r1, r2, r3, u1, u2, p1, p2, IL, NY

TheOwner  == (r1 :> u1) @@ (r2 :> u1) @@ (r3 :> u2)
TheKey    == (r1 :> 1)  @@ (r2 :> 2)  @@ (r3 :> 1)
TheSeen   == (r1 :> 1)  @@ (r2 :> 1)  @@ (r3 :> 2)
OneFirm   == (r1 :> 1)  @@ (r2 :> 1)  @@ (r3 :> 1)
ThePlace  == (r1 :> p1) @@ (r2 :> p2) @@ (r3 :> p2)
OneState  == (p1 :> IL) @@ (p2 :> None)
TwoStates == (p1 :> IL) @@ (p2 :> NY)

\* The list as it opens, every job ever found, and an admin's; the headers sort them.
TheQueries ==
  {Default(u1)}
  \cup [user : {u1}, location : {None}, states : {<<IL>>},
        dups : {"include"}, removed : {None}, sort : {"age_days"}, dir : {"asc"}]
  \cup [user : {All}, location : {Unresolved}, states : {<< >>},
        dups : {"include"}, removed : {"active"}, sort : {"first_seen_at"}, dir : {"desc"}]

(* A bound.  A digest reads the rows alone: neither places nor the time    *)
(* nor a reader need be beside it.  A reader of the list sees no override, *)
(* and a table that has changed once, before or during the walk.           *)
OneAtATime ==
  \/ step = "idle" /\ mail = NoDigest
     /\ (pc = "closed" \/ (edits <= 1 /\ \A r \in Rows : over[r] = None))
  \/ pc = "closed" /\ clock = 0 /\ \A p \in Places : place[p] = "resolved"

BothStates == {[Default(u1) EXCEPT !.states = <<IL, NY>>]}
=============================================================================
