------------------------------ MODULE Sessions ------------------------------
(***************************************************************************)
(* One account: its row of users, the session cookies of its browsers and  *)
(* the reset links mailed to it (app/web/auth.py, app/web/routes_auth.py,  *)
(* app/web/routes_settings.py).                                            *)
(*                                                                         *)
(* A stored hash is salted, so no two are equal: hashes are numbered in    *)
(* the order they are stored, and "the password of hash h" is what was     *)
(* hashed.  login, change_password and reset_password leave the event loop *)
(* for bcrypt and for the password policy, with the hash they read before; *)
(* what they do after the last suspension is one step.                     *)
(***************************************************************************)
EXTENDS Naturals

CONSTANTS
  Browsers,
  Requests,     \* submissions of the login, password and reset forms
  Links,        \* reset links, each mailed once
  Nobody,       \* no session
  MaxChanges    \* how often the password is stored anew

ASSUME NobodyAssumption == Nobody \notin Nat
ASSUME ChangesAssumption == MaxChanges \in Nat

VARIABLES
  hash,     \* users.password_hash
  active,   \* users.is_active
  cookie,   \* the pw_fp in each browser's session
  link,     \* the pw_fp in each reset link
  expired,  \* the links older than an hour
  pc,       \* where each request is
  req,      \* what it carries, and the hash it read
  \* History, read by no action:
  proven    \* the hashes whose passwords were typed, correctly, in a browser

vars == <<hash, active, cookie, link, expired, pc, req, proven>>

Hashes == 0..MaxChanges

Request == [kind    : {"none", "login", "change", "reset"},
            browser : Browsers \cup {Nobody},
            typed   : Hashes,                  \* the current password, as typed
            read    : Hashes,
            link    : Links \cup {Nobody}]

Submitted(kind, b, p, h, l) ==
  [kind |-> kind, browser |-> b, typed |-> p, read |-> h, link |-> l]

Blank == Submitted("none", Nobody, 0, 0, Nobody)

TypeOK ==
  /\ hash \in Hashes
  /\ active \in BOOLEAN
  /\ cookie \in [Browsers -> Hashes \cup {Nobody}]
  /\ link \in [Links -> Hashes \cup {Nobody}]
  /\ expired \subseteq Links
  /\ pc \in [Requests -> {"idle", "form", "verify", "policy", "done"}]
  /\ req \in [Requests -> Request]
  /\ \A r \in Requests : pc[r] # "idle" => req[r].browser \in Browsers
  /\ \A r \in Requests : req[r].kind = "reset" => req[r].link \in Links
  /\ proven \in [Browsers -> SUBSET Hashes]

Init ==
  /\ hash = 0
  /\ active = TRUE
  /\ cookie = [b \in Browsers |-> Nobody]
  /\ link = [l \in Links |-> Nobody]
  /\ expired = {}
  /\ pc = [r \in Requests |-> "idle"]
  /\ req = [r \in Requests |-> Blank]
  /\ proven = [b \in Browsers |-> {}]

Goto(r, from, to) ==
  /\ pc[r] = from
  /\ pc' = [pc EXCEPT ![r] = to]

(* load_session_user finds the account in the browser's session.           *)
SessionValidUnbound(b) == cookie[b] # Nobody /\ active
SessionValid(b) == cookie[b] = hash /\ active

(* verify_reset_token accepts the link.                                    *)
LinkValidUnbound(l) == link[l] # Nobody /\ l \notin expired /\ active
LinkValid(l) == link[l] = hash /\ l \notin expired /\ active

-----------------------------------------------------------------------------
(* Any page: a session that is no longer valid is cleared.                 *)
Visit(b) ==
  /\ cookie[b] # Nobody
  /\ ~SessionValid(b)
  /\ cookie' = [cookie EXCEPT ![b] = Nobody]
  /\ UNCHANGED <<hash, active, link, expired, pc, req, proven>>

Logout(b) ==
  /\ cookie[b] # Nobody
  /\ cookie' = [cookie EXCEPT ![b] = Nobody]
  /\ UNCHANGED <<hash, active, link, expired, pc, req, proven>>

DeactivateUser ==
  /\ active
  /\ active' = FALSE
  /\ UNCHANGED <<hash, cookie, link, expired, pc, req, proven>>

(* account_recovery: a link for the hash of now.                           *)
AccountRecovery(l) ==
  /\ active
  /\ link[l] = Nobody
  /\ link' = [link EXCEPT ![l] = hash]
  /\ UNCHANGED <<hash, active, cookie, expired, pc, req, proven>>

ExpireLink(l) ==
  /\ link[l] # Nobody
  /\ l \notin expired
  /\ expired' = expired \cup {l}
  /\ UNCHANGED <<hash, active, cookie, link, pc, req, proven>>

-----------------------------------------------------------------------------
(* login: the row is read, then bcrypt compares off the event loop.  An    *)
(* inactive account is refused, which changes nothing.                     *)
Login(r, b, p) ==
  /\ active
  /\ Goto(r, "idle", "verify")
  /\ req' = [req EXCEPT ![r] = Submitted("login", b, p, hash, Nobody)]
  /\ UNCHANGED <<hash, active, cookie, link, expired, proven>>

(* The session is bound to the hash that was read and compared.            *)
LoginOkReread(r) ==
  LET b == req[r].browser IN
  /\ req[r].kind = "login"
  /\ req[r].typed = req[r].read
  /\ Goto(r, "verify", "done")
  /\ cookie' = [cookie EXCEPT ![b] = hash]
  /\ proven' = [proven EXCEPT ![b] = @ \cup {req[r].read}]
  /\ UNCHANGED <<hash, active, link, expired, req>>

LoginOk(r) ==
  LET b == req[r].browser IN
  /\ req[r].kind = "login"
  /\ req[r].typed = req[r].read
  /\ Goto(r, "verify", "done")
  /\ cookie' = [cookie EXCEPT ![b] = req[r].read]
  /\ proven' = [proven EXCEPT ![b] = @ \cup {req[r].read}]
  /\ UNCHANGED <<hash, active, link, expired, req>>

(* change_password: require_user, the form, the hash read for comparison.  *)
StartChange(r, b, p) ==
  /\ SessionValid(b)
  /\ Goto(r, "idle", "form")
  /\ req' = [req EXCEPT ![r] = Submitted("change", b, p, 0, Nobody)]
  /\ UNCHANGED <<hash, active, cookie, link, expired, proven>>

ReadHashUnchecked(r) ==
  /\ Goto(r, "form", "verify")
  /\ \E h \in {hash, Nobody} : req' = [req EXCEPT ![r].read = h]
  /\ UNCHANGED <<hash, active, cookie, link, expired, proven>>

ReadHash(r) ==
  /\ Goto(r, "form", "verify")
  /\ req' = [req EXCEPT ![r].read = hash]
  /\ UNCHANGED <<hash, active, cookie, link, expired, proven>>

CurrentOk(r) ==
  /\ req[r].kind = "change"
  /\ req[r].typed = req[r].read
  /\ Goto(r, "verify", "policy")
  /\ UNCHANGED <<hash, active, cookie, link, expired, req, proven>>

(* A wrong password ends a login or a change.                              *)
WrongPassword(r) ==
  /\ req[r].typed # req[r].read
  /\ Goto(r, "verify", "done")
  /\ UNCHANGED <<hash, active, cookie, link, expired, req, proven>>

(* reset_password: the link is verified, the policy checked off the loop.  *)
StartReset(r, b, l) ==
  /\ LinkValid(l)
  /\ Goto(r, "idle", "policy")
  /\ req' = [req EXCEPT ![r] = Submitted("reset", b, 0, 0, l)]
  /\ UNCHANGED <<hash, active, cookie, link, expired, proven>>

PolicyRefuses(r) ==
  /\ Goto(r, "policy", "done")
  /\ UNCHANGED <<hash, active, cookie, link, expired, req, proven>>

(* update_password; the browser's session follows the new hash ...         *)
StoreChange(r) ==
  LET b == req[r].browser IN
  /\ req[r].kind = "change"
  /\ hash < MaxChanges
  /\ Goto(r, "policy", "done")
  /\ hash' = hash + 1
  /\ cookie' = [cookie EXCEPT ![b] = hash + 1]
  /\ proven' = [proven EXCEPT ![b] = @ \cup {hash + 1}]
  /\ UNCHANGED <<active, link, expired, req>>

(* ... or, after a reset, is cleared.                                      *)
StoreReset(r) ==
  LET b == req[r].browser IN
  /\ req[r].kind = "reset"
  /\ hash < MaxChanges
  /\ Goto(r, "policy", "done")
  /\ hash' = hash + 1
  /\ cookie' = [cookie EXCEPT ![b] = Nobody]
  /\ proven' = [proven EXCEPT ![b] = @ \cup {hash + 1}]
  /\ UNCHANGED <<active, link, expired, req>>

-----------------------------------------------------------------------------
Handle(r) ==
  \/ \E b \in Browsers, p \in Hashes : p <= hash /\ (Login(r, b, p) \/ StartChange(r, b, p))
  \/ \E b \in Browsers, l \in Links : StartReset(r, b, l)
  \/ LoginOk(r) \/ ReadHash(r) \/ CurrentOk(r) \/ WrongPassword(r)
  \/ PolicyRefuses(r) \/ StoreChange(r) \/ StoreReset(r)

Next ==
  \/ \E b \in Browsers : Visit(b) \/ Logout(b)
  \/ \E l \in Links : AccountRecovery(l) \/ ExpireLink(l)
  \/ DeactivateUser
  \/ \E r \in Requests : Handle(r)

Spec == Init /\ [][Next]_vars

-----------------------------------------------------------------------------
(* A browser has a valid session only if the account's current password    *)
(* was typed in it, at a login or as the new one: however long bcrypt      *)
(* takes and whatever is stored meanwhile, no session is bound to a hash   *)
(* other than the one that was compared.                                   *)
SessionProved == \A b \in Browsers : SessionValid(b) => hash \in proven[b]

(* "Your other signed-in sessions are signed out": when a password is      *)
(* stored, no browser but the one that stored it stays signed in.          *)
OthersSignedOut ==
  [][hash' # hash =>
       \A b \in Browsers : SessionValid(b)' =>
         \E r \in Requests : pc[r] # pc'[r] /\ req[r].kind = "change" /\ req[r].browser = b]_vars

(* A reset link is bound to the password it was mailed for: whichever form *)
(* stores a new one, every link dies with the old one.                     *)
LinksDie == [][hash' # hash => \A l \in Links : ~LinkValid(l)']_vars
=============================================================================
