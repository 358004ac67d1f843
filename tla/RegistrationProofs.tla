------------------------- MODULE RegistrationProofs -------------------------
(***************************************************************************)
(* Theorems about Registration: types, that an invitation yields at most   *)
(* one account, and that only a fault burns one; and about Bootstrap, the  *)
(* container around it.  What is shown of the requests holds through       *)
(* starts and restarts too, because a start-up touches of their state only *)
(* the users and the settings: the lemmas about steps are used twice.      *)
(***************************************************************************)
EXTENDS Bootstrap, TLAPS

USE DEF invites, vars

(* A registration under way carries a token that was issued; so no account *)
(* is created with the email of an invitation that never was.              *)
FormsFilled ==
  \A r \in Requests : pc[r] \in InFlight =>
    form[r].token \in Issued /\ form[r].name \in Names /\ form[r].email \in Emails

TypeInv == TypeOK /\ FormsFilled

LEMMA TypeInit == ASSUME NEW accounts \in SUBSET Accounts
                  PROVE  InitWith(accounts) => TypeInv
BY FaultsAssumption DEF InitWith, TypeInv, FormsFilled, TypeOK, InFlight, Claimed, Accounts

LEMMA TypeStep == TypeInv /\ [Next]_vars => TypeInv'
<1> USE DEF TypeInv, FormsFilled, Issued
<1> SUFFICES ASSUME TypeInv, [Next]_vars
             PROVE  TypeInv'
  OBVIOUS
<1> USE DEF TypeOK, InFlight, Claimed, Goto
<1>1. ASSUME NEW t \in Tokens, NEW e \in Emails, InviteUser(t, e)
      PROVE  TypeInv'
  BY <1>1, NonesAssumption DEF InviteUser
<1>2. ASSUME NEW t \in Tokens, NEW new \in Tokens, ResendInvite(t, new)
      PROVE  TypeInv'
  BY <1>2 DEF ResendInvite
<1>3. ASSUME NEW t \in Tokens, RevokeInvite(t) \/ Expire(t)
      PROVE  TypeInv'
  BY <1>3 DEF RevokeInvite, Expire
<1>4. ASSUME NEW r \in Requests, NEW t \in Tokens, NEW n \in Names, Lookup(r, t, n)
      PROVE  TypeInv'
  BY <1>4 DEF Lookup, Valid
<1>5. ASSUME NEW r \in Requests,
             \/ PasswordAccepted(r) \/ PasswordRejected(r) \/ RecheckTaken(r) \/ RecheckFree(r)
             \/ ClaimLost(r) \/ CreateConflict(r)
      PROVE  TypeInv'
  BY <1>5 DEF PasswordAccepted, PasswordRejected, RecheckTaken, RecheckFree, ClaimLost,
              CreateConflict
<1>6. ASSUME NEW r \in Requests, Claim(r) \/ Release(r)
      PROVE  TypeInv'
  BY <1>6 DEF Claim, Release
<1>7. ASSUME NEW r \in Requests, Create(r)
      PROVE  TypeInv'
  BY <1>7 DEF Create, Accounts
<1>8. ASSUME NEW r \in Requests, Seed(r)
      PROVE  TypeInv'
  BY <1>8 DEF Seed
<1>9. ASSUME NEW r \in Requests, Fail(r)
      PROVE  TypeInv'
  BY <1>9, FaultsAssumption DEF Fail
<1>10. CASE Crash
  BY <1>10, FaultsAssumption DEF Crash
<1>11. CASE UNCHANGED vars
  BY <1>11
<1> QED
  BY <1>1, <1>2, <1>3, <1>4, <1>5, <1>6, <1>7, <1>8, <1>9, <1>10, <1>11
     DEF Next, AdminStep, Register

LEMMA TypesAndForms == Spec => []TypeInv
<1>1. Init => TypeInv
  BY TypeInit DEF Init
<1> QED
  BY <1>1, TypeStep, PTL DEF Spec

(* Every variable keeps its type, whatever the routes are asked.           *)
THEOREM RegistrationTypeCorrect == Spec => []TypeOK
<1>1. TypeInv => TypeOK
  BY DEF TypeInv
<1> QED
  BY <1>1, TypesAndForms, PTL

-----------------------------------------------------------------------------
(* A claim is exclusive: the token of a registration between its claim and *)
(* its account is used, has no account yet and is in no other              *)
(* registration's claim.  So a release never frees another's invitation.   *)
ClaimsExclusive ==
  \A r \in Requests : pc[r] \in Claimed =>
    /\ form[r].token \in used
    /\ made[form[r].token] = 0
    /\ \A q \in Requests : q # r /\ pc[q] \in Claimed => form[q].token # form[r].token

OneInv == ClaimsExclusive /\ OneAccountPerInvite

LEMMA OneInit == ASSUME NEW accounts PROVE InitWith(accounts) => OneInv
BY DEF InitWith, OneInv, ClaimsExclusive, OneAccountPerInvite, Claimed

LEMMA OneStep == TypeInv /\ OneInv /\ [Next]_vars => OneInv'
<1> SUFFICES ASSUME TypeInv, OneInv, [Next]_vars
             PROVE  OneInv'
  OBVIOUS
<1> USE DEF OneInv, ClaimsExclusive, OneAccountPerInvite, Claimed, Goto
<1>0. /\ pc \in [Requests -> {"idle", "done"} \cup InFlight]
      /\ made \in [Tokens -> Nat]
      /\ \A r \in Requests : pc[r] \in InFlight => form[r].token \in Tokens
  BY DEF TypeInv, TypeOK, FormsFilled, Issued
<1>1. ASSUME UNCHANGED <<used, pc, form, made>>
      PROVE  OneInv'
  BY <1>1
<1>2. ASSUME NEW t \in Tokens,
             \/ \E e \in Emails : InviteUser(t, e)
             \/ \E new \in Tokens : ResendInvite(t, new)
             \/ RevokeInvite(t) \/ Expire(t)
      PROVE  OneInv'
  BY <1>1, <1>2 DEF InviteUser, ResendInvite, RevokeInvite, Expire
<1>3. ASSUME NEW r \in Requests, NEW t \in Tokens, NEW n \in Names, Lookup(r, t, n)
      PROVE  OneInv'
  BY <1>0, <1>3 DEF Lookup, TypeInv, TypeOK
<1>4. ASSUME NEW r \in Requests,
             \/ PasswordAccepted(r) \/ PasswordRejected(r) \/ RecheckTaken(r) \/ RecheckFree(r)
             \/ ClaimLost(r) \/ CreateConflict(r) \/ Seed(r) \/ Fail(r)
      PROVE  OneInv'
  BY <1>0, <1>4 DEF PasswordAccepted, PasswordRejected, RecheckTaken, RecheckFree, ClaimLost,
                    CreateConflict, Seed, Fail, InFlight
<1>5. ASSUME NEW r \in Requests, Claim(r)
      PROVE  OneInv'
  BY <1>0, <1>5 DEF Claim, InFlight
<1>6. ASSUME NEW r \in Requests, Create(r)
      PROVE  OneInv'
  BY <1>0, <1>6 DEF Create, InFlight
<1>7. ASSUME NEW r \in Requests, Release(r)
      PROVE  OneInv'
  BY <1>0, <1>7 DEF Release, InFlight
<1>8. CASE Crash
  BY <1>0, <1>8 DEF Crash, InFlight
<1> QED
  BY <1>1, <1>2, <1>3, <1>4, <1>5, <1>6, <1>7, <1>8 DEF Next, AdminStep, Register

(* claim_invite's promise, for any number of registrations, invitations,   *)
(* failures and crashes.                                                   *)
THEOREM InvitesYieldOneAccount == Spec => []OneAccountPerInvite
<1>1. Init => OneInv
  BY OneInit DEF Init
<1>2. OneInv => OneAccountPerInvite
  BY DEF OneInv
<1> QED
  BY <1>1, <1>2, OneStep, TypesAndForms, PTL DEF Spec

-----------------------------------------------------------------------------
LEMMA BurntStep == TypeInv /\ OneInv /\ NoInviteBurnt /\ [Next]_vars => NoInviteBurnt'
<1> SUFFICES ASSUME TypeInv, OneInv, NoInviteBurnt, [Next]_vars
             PROVE  NoInviteBurnt'
  OBVIOUS
<1> USE DEF NoInviteBurnt, Claimed, Goto
<1>0. /\ pc \in [Requests -> {"idle", "done"} \cup InFlight]
      /\ made \in [Tokens -> Nat] /\ faults \in Nat /\ faults' \in Nat
      /\ \A r \in Requests : pc[r] \in InFlight => form[r].token \in Tokens
  BY TypeStep, FaultsAssumption DEF TypeInv, TypeOK, FormsFilled, Issued
<1>1. ASSUME UNCHANGED <<used, pc, form, made, faults>>
      PROVE  NoInviteBurnt'
  BY <1>1
<1>2. ASSUME NEW t \in Tokens,
             \/ \E e \in Emails : InviteUser(t, e)
             \/ \E new \in Tokens : ResendInvite(t, new)
             \/ RevokeInvite(t) \/ Expire(t)
      PROVE  NoInviteBurnt'
  BY <1>1, <1>2 DEF InviteUser, ResendInvite, RevokeInvite, Expire
<1>3. ASSUME NEW r \in Requests, NEW t \in Tokens, NEW n \in Names, Lookup(r, t, n)
      PROVE  NoInviteBurnt'
  BY <1>0, <1>3 DEF Lookup, TypeInv, TypeOK
<1>4. ASSUME NEW r \in Requests,
             \/ PasswordAccepted(r) \/ PasswordRejected(r) \/ RecheckTaken(r) \/ RecheckFree(r)
             \/ ClaimLost(r) \/ Seed(r)
      PROVE  NoInviteBurnt'
  BY <1>0, <1>4 DEF PasswordAccepted, PasswordRejected, RecheckTaken, RecheckFree, ClaimLost,
                    Seed, InFlight
<1>5. ASSUME NEW r \in Requests, Claim(r)
      PROVE  NoInviteBurnt'
  BY <1>0, <1>5 DEF Claim, InFlight
<1>6. ASSUME NEW r \in Requests, Create(r)
      PROVE  NoInviteBurnt'
  \* The claim of r is exclusive: no account was made with its token before.
  <2>1. made'[form[r].token] = 1
    BY <1>0, <1>6 DEF Create, OneInv, ClaimsExclusive, InFlight
  <2> QED
    BY <1>0, <1>6, <2>1 DEF Create, InFlight
<1>7. ASSUME NEW r \in Requests, CreateConflict(r) \/ Release(r)
      PROVE  NoInviteBurnt'
  BY <1>0, <1>7 DEF CreateConflict, Release, InFlight
<1>8. ASSUME Crash \/ \E r \in Requests : Fail(r)
      PROVE  NoInviteBurnt'
  <2>1. faults' # 0
    BY <1>0, <1>8 DEF Crash, Fail
  <2> QED
    BY <2>1
<1> QED
  BY <1>1, <1>2, <1>3, <1>4, <1>5, <1>6, <1>7, <1>8 DEF Next, AdminStep, Register

(* Released, not burnt "on a failed registration" (routes_auth.py:303): it *)
(* takes an exception or a crash between two transactions to burn one.     *)
THEOREM InvitesAreNotBurnt == Spec => []NoInviteBurnt
<1>1. Init => OneInv /\ NoInviteBurnt
  BY OneInit DEF Init, InitWith, NoInviteBurnt
<1> QED
  BY <1>1, OneStep, BurntStep, TypesAndForms, PTL DEF Spec

-----------------------------------------------------------------------------
(* Bootstrap.                                                              *)
BootInv == BootTypeOK /\ TypeInv /\ OneInv /\ NoInviteBurnt

\* What the start-up leaves to the requests.
LEMMA StartupOrServe ==
  [BootNext]_allvars =>
    \/ [Next]_vars
    \/ CreateAdmin
    \/ SeedAdmin
BY DEF BootNext, allvars, vars, invites, Migrate, AtHead, SkipSeeding, FoundAdmin, Backfill,
       ClaimRows, Shutdown, Die, Configure, Serve, Next

LEMMA StartupTypes == BootTypeOK /\ [BootNext]_allvars /\ TypeOK' => BootTypeOK'
BY DEF BootTypeOK, BootNext, Boot, allvars, startup, legacy, Migrate, AtHead, SkipSeeding,
       FoundAdmin, CreateAdmin, SeedAdmin, Backfill, ClaimRows, Shutdown, Die, Configure, Serve

LEMMA BootStep == BootInv /\ [BootNext]_allvars => BootInv'
<1> SUFFICES ASSUME BootInv, [BootNext]_allvars PROVE BootInv'
  OBVIOUS
<1>1. CASE [Next]_vars
  BY <1>1, TypeStep, OneStep, BurntStep, StartupTypes DEF BootInv, TypeInv
<1>2. CASE CreateAdmin \/ SeedAdmin
  <2>1. UNCHANGED <<invites, pc, form, faults, made>>
    BY <1>2 DEF CreateAdmin, SeedAdmin
  <2>2. TypeInv'
    BY <1>2, <2>1, AdminAssumption
       DEF BootInv, TypeInv, TypeOK, FormsFilled, Issued, CreateAdmin, SeedAdmin, Admin, Accounts,
           invites
  <2>3. OneInv' /\ NoInviteBurnt'
    BY <2>1 DEF BootInv, OneInv, ClaimsExclusive, OneAccountPerInvite, NoInviteBurnt, invites
  <2> QED
    BY <2>2, <2>3, StartupTypes DEF BootInv, TypeInv
<1> QED
  BY <1>1, <1>2, StartupOrServe

LEMMA BootInvariant == BootSpec => []BootInv
<1>1. BootInit => BootInv
  <2> SUFFICES ASSUME BootInit PROVE BootInv
    OBVIOUS
  <2>1. PICK accounts \in {{}, {Admin}} : InitWith(accounts)
    BY DEF BootInit
  <2>2. accounts \in SUBSET Accounts
    BY AdminAssumption DEF Admin, Accounts
  <2>3. TypeInv /\ OneInv
    BY <2>1, <2>2, TypeInit, OneInit
  <2>4. NoInviteBurnt
    BY <2>1 DEF InitWith, NoInviteBurnt
  <2> QED
    BY <2>3, <2>4 DEF BootInv, BootTypeOK, BootInit, TypeInv
<1> QED
  BY <1>1, BootStep, PTL DEF BootSpec

-----------------------------------------------------------------------------
(* Every variable of the container keeps its type.                         *)
THEOREM BootTypeCorrect == BootSpec => []BootTypeOK
<1>1. BootInv => BootTypeOK
  BY DEF BootInv
<1> QED
  BY <1>1, BootInvariant, PTL

(* Starts, crashes and restarts take nothing from claim_invite's promise,  *)
(* and burn an invitation only if they interrupt a registration.           *)
THEOREM InvitesSurviveRestarts == BootSpec => [](OneAccountPerInvite /\ NoInviteBurnt)
<1>1. BootInv => OneAccountPerInvite /\ NoInviteBurnt
  BY DEF BootInv, OneInv
<1> QED
  BY <1>1, BootInvariant, PTL

-----------------------------------------------------------------------------
(* Once 0003 has run no ownerless row is left in jobs; and a server with   *)
(* an administrator configured has been through claim_unowned_rows.        *)
RowsInv ==
  /\ LegacyRowsClaimed
  /\ IF upgraded THEN ownerless = {} ELSE boot = "down" /\ unowned = {} /\ owned = {}
  /\ boot = "up" /\ env => unowned = {}

LEMMA RowsStep == RowsInv /\ BootTypeOK /\ [BootNext]_allvars => RowsInv'
<1> SUFFICES ASSUME RowsInv, BootTypeOK, [BootNext]_allvars PROVE RowsInv'
  OBVIOUS
<1> USE DEF RowsInv, LegacyRowsClaimed, BootTypeOK, Boot, legacy, startup
<1>1. CASE Migrate
  BY <1>1 DEF Migrate
<1>2. CASE AtHead \/ SkipSeeding \/ FoundAdmin \/ CreateAdmin \/ SeedAdmin \/ Backfill
  BY <1>2 DEF AtHead, SkipSeeding, FoundAdmin, CreateAdmin, SeedAdmin, Backfill
<1>3. CASE ClaimRows
  BY <1>3 DEF ClaimRows
<1>4. CASE Shutdown \/ Die \/ Configure
  BY <1>4 DEF Shutdown, Die, Configure
<1>5. CASE Serve \/ UNCHANGED allvars
  BY <1>5 DEF Serve, allvars
<1> QED
  BY <1>1, <1>2, <1>3, <1>4, <1>5 DEF BootNext

(* Migration 0003's promise, for any starts cut short anywhere, with or    *)
(* without an administrator configured: no row is lost or doubled, and     *)
(* every row is the administrator's once a server has one.                 *)
THEOREM RowsFindTheirOwner == BootSpec => []LegacyRowsClaimed
<1>1. BootInit => RowsInv
  BY DEF BootInit, RowsInv, LegacyRowsClaimed
<1>2. RowsInv => LegacyRowsClaimed
  BY DEF RowsInv
<1> QED
  BY <1>1, <1>2, RowsStep, BootTypeCorrect, PTL DEF BootSpec

-----------------------------------------------------------------------------
LEMMA SettledStep == AccountsSettled /\ BootInv /\ [BootNext]_allvars => AccountsSettled'
<1> SUFFICES ASSUME AccountsSettled, BootInv, [BootNext]_allvars PROVE AccountsSettled'
  OBVIOUS
<1>0. /\ pc \in [Requests -> {"idle", "done"} \cup InFlight]
      /\ form \in [Requests -> [token : Tokens \cup {NoToken}, name : Names \cup {NoName},
                                email : Emails \cup {NoEmail}]]
      /\ faults \in Nat
  BY FaultsAssumption DEF BootInv, TypeInv, TypeOK
<1> USE <1>0 DEF AccountsSettled, Goto, Boot, invites, vars, InFlight, Claimed
<1>1. CASE Migrate \/ AtHead \/ SkipSeeding \/ FoundAdmin \/ Backfill \/ ClaimRows \/ Shutdown
           \/ Configure
  BY <1>1 DEF Migrate, AtHead, SkipSeeding, FoundAdmin, Backfill, ClaimRows, Shutdown, Configure
<1>2. CASE CreateAdmin
  BY <1>2 DEF CreateAdmin
<1>3. CASE SeedAdmin
  BY <1>3 DEF SeedAdmin, Admin
<1>4. CASE Die
  BY <1>4 DEF Die, Crash
<1>5. CASE Serve
  <2>0. boot = "up" /\ boot' = "up"
    BY <1>5 DEF Serve, startup
  <2>1. ASSUME Admin \in users /\ AdminStep PROVE AccountsSettled'
    BY <2>0, <2>1 DEF AdminStep, InviteUser, ResendInvite, RevokeInvite
  <2>2. ASSUME NEW t \in Tokens, Expire(t) PROVE AccountsSettled'
    BY <2>0, <2>2 DEF Expire
  <2>3. ASSUME NEW r \in Requests, NEW t \in Tokens, NEW n \in Names, Lookup(r, t, n)
        PROVE  AccountsSettled'
    BY <2>0, <2>3 DEF Lookup
  <2>4. ASSUME NEW r \in Requests,
               \/ PasswordAccepted(r) \/ PasswordRejected(r) \/ RecheckTaken(r) \/ RecheckFree(r)
               \/ Claim(r) \/ ClaimLost(r) \/ CreateConflict(r) \/ Release(r)
        PROVE  AccountsSettled'
    BY <2>0, <2>4 DEF PasswordAccepted, PasswordRejected, RecheckTaken, RecheckFree, Claim,
                      ClaimLost, CreateConflict, Release
  <2>5. ASSUME NEW r \in Requests, Create(r) PROVE AccountsSettled'
    BY <2>0, <2>5 DEF Create
  <2>6. ASSUME NEW r \in Requests, Seed(r) PROVE AccountsSettled'
    BY <2>0, <2>6 DEF Seed
  <2>7. ASSUME NEW r \in Requests, Fail(r) PROVE AccountsSettled'
    BY <2>7 DEF Fail
  <2> QED
    BY <1>5, <2>1, <2>2, <2>3, <2>4, <2>5, <2>6, <2>7 DEF Serve, Register
<1>6. CASE UNCHANGED allvars
  BY <1>6 DEF allvars, startup
<1> QED
  BY <1>1, <1>2, <1>3, <1>4, <1>5, <1>6 DEF BootNext

(* An account without settings takes a fault between two transactions.     *)
THEOREM AccountsAreSettled == BootSpec => []AccountsSettled
<1>1. BootInit => AccountsSettled
  BY DEF BootInit, InitWith, AccountsSettled
<1> QED
  BY <1>1, SettledStep, BootInvariant, PTL DEF BootSpec
=============================================================================
