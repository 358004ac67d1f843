---------------------------- MODULE Registration ----------------------------
(***************************************************************************)
(* Invitations and registrations: the invite_tokens and users tables, the  *)
(* admin's handlers that issue, resend and revoke invitations              *)
(* (app/web/routes_users.py) and POST /register (app/web/routes_auth.py).  *)
(*                                                                         *)
(* /register reads the invitation, leaves the event loop twice to check    *)
(* and to hash the password, and then claims the invitation, creates the   *)
(* account and seeds its settings in one transaction each.  Other          *)
(* registrations may run between any two of them, which is what the        *)
(* handler's own UniqueViolation branch is for.  The admin's handlers      *)
(* never leave the event loop: each is one step.                           *)
(***************************************************************************)
EXTENDS Naturals, FiniteSets

CONSTANTS
  Requests,  \* submissions of the registration form
  Tokens,    \* invite tokens, each minted once
  Emails, Names,
  NoEmail, NoToken, NoName,
  MaxFaults  \* how many exceptions and process crashes

ASSUME NonesAssumption == NoEmail \notin Emails /\ NoToken \notin Tokens /\ NoName \notin Names
ASSUME FaultsAssumption == MaxFaults \in Nat

VARIABLES
  address,   \* invite_tokens.email; NoEmail where the token was never issued
  expired,   \* the tokens whose expires_at has passed
  used,      \* the tokens whose used_at is set
  users,     \* rows of users, as registered
  settled,   \* user names that have a settings row
  pc,        \* where each registration is
  form,      \* the token and the name it carries, and the email it read
  faults,
  \* History, read by no action:
  made       \* accounts created with each token

invites == <<address, expired, used>>
vars    == <<invites, users, settled, pc, form, faults, made>>

Accounts == [name : Names, email : Emails]

Claimed  == {"create", "release"}   \* the invitation is marked used, no account yet
InFlight == Claimed \cup {"policy", "recheck", "claim", "seed"}

TypeOK ==
  /\ address \in [Tokens -> Emails \cup {NoEmail}]
  /\ expired \subseteq Tokens /\ used \subseteq Tokens
  /\ users \subseteq Accounts
  /\ settled \subseteq Names
  /\ pc \in [Requests -> {"idle", "done"} \cup InFlight]
  /\ form \in [Requests -> [token : Tokens \cup {NoToken}, name : Names \cup {NoName},
                            email : Emails \cup {NoEmail}]]
  /\ faults \in 0..MaxFaults
  /\ made \in [Tokens -> Nat]

InitWith(accounts) ==
  /\ address = [t \in Tokens |-> NoEmail]
  /\ expired = {}
  /\ used = {}
  /\ users = accounts
  /\ settled = {u.name : u \in accounts}
  /\ pc = [r \in Requests |-> "idle"]
  /\ form = [r \in Requests |-> [token |-> NoToken, name |-> NoName, email |-> NoEmail]]
  /\ faults = 0
  /\ made = [t \in Tokens |-> 0]

Init == InitWith({})

Goto(r, from, to) ==
  /\ pc[r] = from
  /\ pc' = [pc EXCEPT ![r] = to]

NameTaken(n)  == \E u \in users : u.name = n
EmailTaken(e) == \E u \in users : u.email = e

Issued == {t \in Tokens : address[t] # NoEmail}

\* _validate_invite accepts it.
Valid(t) == t \in Issued /\ t \notin used /\ t \notin expired

-----------------------------------------------------------------------------
InviteUser(t, e) ==
  /\ ~EmailTaken(e)
  /\ t \notin Issued
  /\ address' = [address EXCEPT ![t] = e]
  /\ UNCHANGED <<expired, used, users, settled, pc, form, faults, made>>

(* The old link is made to expire and a new one is issued for its email.   *)
ResendInvite(t, new) ==
  /\ t \in Issued \ used
  /\ new \notin Issued
  /\ expired' = expired \cup {t}
  /\ address' = [address EXCEPT ![new] = address[t]]
  /\ UNCHANGED <<used, users, settled, pc, form, faults, made>>

RevokeInvite(t) ==
  /\ t \in Issued \ used
  /\ expired' = expired \cup {t}
  /\ UNCHANGED <<address, used, users, settled, pc, form, faults, made>>

(* Seven days pass.                                                        *)
Expire(t) ==
  /\ t \in Issued \ expired
  /\ expired' = expired \cup {t}
  /\ UNCHANGED <<address, used, users, settled, pc, form, faults, made>>

-----------------------------------------------------------------------------
(* get_invite and _validate_invite.  A form whose token is not valid is    *)
(* answered with an error and changes nothing.                             *)
LookupUnvalidated(r, t, n) ==
  /\ Goto(r, "idle", "policy")
  /\ form' = [form EXCEPT ![r] = [token |-> t, name |-> n, email |-> address[t]]]
  /\ UNCHANGED <<invites, users, settled, faults, made>>

Lookup(r, t, n) ==
  /\ Valid(t)
  /\ Goto(r, "idle", "policy")
  /\ form' = [form EXCEPT ![r] = [token |-> t, name |-> n, email |-> address[t]]]
  /\ UNCHANGED <<invites, users, settled, faults, made>>

(* The user name and the password are checked, the password is hashed; the *)
(* invitation read before is not read again.                               *)
PasswordAccepted(r) ==
  /\ Goto(r, "policy", "recheck")
  /\ UNCHANGED <<invites, users, settled, form, faults, made>>

PasswordRejected(r) ==
  /\ Goto(r, "policy", "done")
  /\ UNCHANGED <<invites, users, settled, form, faults, made>>

(* get_user_by_username, get_user_by_email.                                *)
RecheckTaken(r) ==
  /\ Goto(r, "recheck", "done")
  /\ NameTaken(form[r].name) \/ EmailTaken(form[r].email)
  /\ UNCHANGED <<invites, users, settled, form, faults, made>>

RecheckFree(r) ==
  /\ Goto(r, "recheck", "claim")
  /\ ~NameTaken(form[r].name) /\ ~EmailTaken(form[r].email)
  /\ UNCHANGED <<invites, users, settled, form, faults, made>>

(* claim_invite: UPDATE ... WHERE used_at IS NULL.                         *)
ClaimUnguarded(r) ==
  /\ Goto(r, "claim", "create")
  /\ used' = used \cup {form[r].token}
  /\ UNCHANGED <<address, expired, users, settled, form, faults, made>>

Claim(r) ==
  /\ Goto(r, "claim", "create")
  /\ form[r].token \notin used
  /\ used' = used \cup {form[r].token}
  /\ UNCHANGED <<address, expired, users, settled, form, faults, made>>

ClaimLost(r) ==
  /\ Goto(r, "claim", "done")
  /\ form[r].token \in used
  /\ UNCHANGED <<invites, users, settled, form, faults, made>>

(* create_user.                                                            *)
Create(r) ==
  /\ Goto(r, "create", "seed")
  /\ ~NameTaken(form[r].name) /\ ~EmailTaken(form[r].email)
  /\ users' = users \cup {[name |-> form[r].name, email |-> form[r].email]}
  /\ made' = [made EXCEPT ![form[r].token] = @ + 1]
  /\ UNCHANGED <<invites, settled, form, faults>>

(* UniqueViolation.                                                        *)
CreateConflictIgnored(r) ==
  /\ Goto(r, "create", "done")
  /\ NameTaken(form[r].name) \/ EmailTaken(form[r].email)
  /\ UNCHANGED <<invites, users, settled, form, faults, made>>

CreateConflict(r) ==
  /\ Goto(r, "create", "release")
  /\ NameTaken(form[r].name) \/ EmailTaken(form[r].email)
  /\ UNCHANGED <<invites, users, settled, form, faults, made>>

(* release_invite.                                                         *)
Release(r) ==
  /\ Goto(r, "release", "done")
  /\ used' = used \ {form[r].token}
  /\ UNCHANGED <<address, expired, users, settled, form, faults, made>>

(* _seed_settings; the session of the new user starts.                     *)
Seed(r) ==
  /\ Goto(r, "seed", "done")
  /\ settled' = settled \cup {form[r].name}
  /\ UNCHANGED <<invites, users, form, faults, made>>

(* Any other exception: the handler ends where it was.                     *)
Fail(r) ==
  /\ faults < MaxFaults
  /\ faults' = faults + 1
  /\ pc[r] \in InFlight
  /\ pc' = [pc EXCEPT ![r] = "done"]
  /\ UNCHANGED <<invites, users, settled, form, made>>

(* The process dies and comes back: the requests are gone.                 *)
Crash ==
  /\ faults < MaxFaults
  /\ faults' = faults + 1
  /\ pc' = [r \in Requests |-> IF pc[r] \in InFlight THEN "done" ELSE pc[r]]
  /\ UNCHANGED <<invites, users, settled, form, made>>

-----------------------------------------------------------------------------
AdminStep ==
  \E t \in Tokens :
    \/ \E e \in Emails : InviteUser(t, e)
    \/ \E new \in Tokens : ResendInvite(t, new)
    \/ RevokeInvite(t)

Register(r) ==
  \/ \E t \in Tokens, n \in Names : Lookup(r, t, n)
  \/ PasswordAccepted(r) \/ PasswordRejected(r)
  \/ RecheckTaken(r) \/ RecheckFree(r)
  \/ Claim(r) \/ ClaimLost(r) \/ Create(r) \/ CreateConflict(r) \/ Release(r) \/ Seed(r)

Next ==
  \/ AdminStep
  \/ \E t \in Tokens : Expire(t)
  \/ \E r \in Requests : Register(r) \/ Fail(r)
  \/ Crash

Spec == Init /\ [][Next]_vars

-----------------------------------------------------------------------------
(* claim_invite: "concurrent registrations can't share an invite".  An     *)
(* invitation yields at most one account, and once it has, it stays used   *)
(* whatever the losers of the races release: it is never shown as pending  *)
(* or resent again.                                                        *)
OneAccountPerInvite ==
  \A t \in Tokens : made[t] <= 1 /\ (made[t] = 1 => t \in used)

(* An invitation is not burnt on a failed registration: one that is used   *)
(* has its account, or a registration that claimed it is still under way.  *)
(* Only an exception or a crash between two transactions breaks this.      *)
NoInviteBurnt ==
  faults = 0 =>
    \A t \in Tokens : t \in used =>
      made[t] = 1 \/ \E r \in Requests : pc[r] \in Claimed /\ form[r].token = t
=============================================================================
