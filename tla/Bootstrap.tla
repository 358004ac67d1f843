----------------------------- MODULE Bootstrap ------------------------------
(***************************************************************************)
(* Starting the container: alembic upgrade head (docker-entrypoint.sh),    *)
(* then the lifespan of app/web/main.py, which creates the administrator   *)
(* of the environment unless there is one and hands it the jobs of the     *)
(* single-user days, and only then serves the requests of Registration.    *)
(*                                                                         *)
(* Migration 0003 makes every job owned.  Ownerless rows go to an          *)
(* administrator if there is one by then; otherwise they wait in           *)
(* jobs_unowned until a start finds or creates one.  The container may     *)
(* stop between any two of the transactions.  ADMIN_USERNAME may be set    *)
(* later or taken away, but always names the same person.                  *)
(***************************************************************************)
EXTENDS Registration

CONSTANTS
  AdminName, AdminEmail,  \* of the environment
  Rows                    \* jobs without an owner before the upgrade

ASSUME AdminAssumption == AdminName \in Names /\ AdminEmail \in Emails

VARIABLES
  env,       \* ADMIN_USERNAME and a password are set
  boot,      \* where the start-up is
  upgraded,  \* revision 0003 has been applied
  ownerless, \* rows of jobs with user_id NULL
  unowned,   \* rows of jobs_unowned
  owned      \* rows of jobs that are the administrator's

legacy  == <<ownerless, unowned, owned>>
startup == <<env, boot, upgraded, legacy>>
allvars == <<vars, startup>>

Admin == [name |-> AdminName, email |-> AdminEmail]

BootTypeOK ==
  /\ TypeOK
  /\ env \in BOOLEAN /\ upgraded \in BOOLEAN
  /\ boot \in {"down", "migrated", "seed", "backfill", "claim", "up"}
  /\ ownerless \subseteq Rows /\ unowned \subseteq Rows /\ owned \subseteq Rows

\* An installation about to be upgraded, with or without an administrator.
BootInit ==
  /\ \E accounts \in {{}, {Admin}} : InitWith(accounts)
  /\ env \in BOOLEAN
  /\ boot = "down"
  /\ upgraded = FALSE
  /\ ownerless = Rows
  /\ unowned = {}
  /\ owned = {}

Boot(from, to) == boot = from /\ boot' = to

-----------------------------------------------------------------------------
(* alembic upgrade head: 0003, one transaction, once.                      *)
Migrate ==
  /\ ~upgraded
  /\ Boot("down", "migrated")
  /\ upgraded' = TRUE
  /\ ownerless' = {}
  /\ IF Admin \in users
     THEN owned' = owned \cup ownerless /\ UNCHANGED unowned
     ELSE unowned' = ownerless /\ UNCHANGED owned
  /\ UNCHANGED <<vars, env>>

AtHead ==
  /\ upgraded
  /\ Boot("down", "migrated")
  /\ UNCHANGED <<vars, env, upgraded, legacy>>

\* No administrator is configured: a warning, and the server starts.
SkipSeeding ==
  /\ ~env
  /\ Boot("migrated", "up")
  /\ UNCHANGED <<vars, env, upgraded, legacy>>

(* seed_admin_if_empty finds the user: only the claim is left to do.       *)
FoundAdminDone ==
  /\ env /\ NameTaken(AdminName)
  /\ Boot("migrated", "up")
  /\ UNCHANGED <<vars, env, upgraded, legacy>>

FoundAdmin ==
  /\ env /\ NameTaken(AdminName)
  /\ Boot("migrated", "claim")
  /\ UNCHANGED <<vars, env, upgraded, legacy>>

CreateAdmin ==
  /\ env /\ ~NameTaken(AdminName) /\ ~EmailTaken(AdminEmail)
  /\ Boot("migrated", "seed")
  /\ users' = users \cup {Admin}
  /\ UNCHANGED <<invites, settled, pc, form, faults, made, env, upgraded, legacy>>

SeedAdminSkipped ==
  /\ Boot("seed", "backfill")
  /\ UNCHANGED <<vars, env, upgraded, legacy>>

SeedAdmin ==
  /\ Boot("seed", "backfill")
  /\ settled' = settled \cup {AdminName}
  /\ UNCHANGED <<invites, users, pc, form, faults, made, env, upgraded, legacy>>

Backfill ==
  /\ Boot("backfill", "claim")
  /\ owned' = owned \cup ownerless
  /\ ownerless' = {}
  /\ UNCHANGED <<vars, env, upgraded, unowned>>

(* claim_unowned_rows: insert, delete, one commit.                         *)
ClaimRows ==
  /\ Boot("claim", "up")
  /\ owned' = owned \cup unowned
  /\ unowned' = {}
  /\ UNCHANGED <<vars, env, upgraded, ownerless>>

-----------------------------------------------------------------------------
(* The server answers only when the start-up is done; invitations are an   *)
(* administrator's.                                                        *)
Serve ==
  /\ boot = "up"
  /\ \/ Admin \in users /\ AdminStep
     \/ \E t \in Tokens : Expire(t)
     \/ \E r \in Requests : Register(r) \/ Fail(r)
  /\ UNCHANGED startup

\* Stopped in good order.
Shutdown ==
  /\ \A r \in Requests : pc[r] \notin InFlight
  /\ Boot("up", "down")
  /\ UNCHANGED <<vars, env, upgraded, legacy>>

\* Stopped between any two transactions, or an exception at start-up.
Die ==
  /\ Crash
  /\ boot' = "down"
  /\ UNCHANGED <<env, upgraded, legacy>>

Configure ==
  /\ boot = "down"
  /\ env' = ~env
  /\ UNCHANGED <<vars, boot, upgraded, legacy>>

BootNext ==
  \/ Migrate \/ AtHead \/ SkipSeeding \/ FoundAdmin \/ CreateAdmin \/ SeedAdmin \/ Backfill
  \/ ClaimRows \/ Shutdown \/ Die \/ Configure
  \/ Serve

BootSpec == BootInit /\ [][BootNext]_allvars

-----------------------------------------------------------------------------
(* Migration 0003: held rows are claimed "once an admin account exists",   *)
(* "on every startup, not just the one that creates the admin".  Whatever  *)
(* starts were cut short or had no administrator configured before, one    *)
(* that serves with one configured has left no row behind; and no row is   *)
(* in two tables or in none, ever.                                         *)
LegacyRowsClaimed ==
  /\ ownerless \cup unowned \cup owned = Rows
  /\ ownerless \cap unowned = {} /\ ownerless \cap owned = {} /\ unowned \cap owned = {}
  /\ boot = "up" /\ env => owned = Rows

(* Every account has its settings, but for the one being created, by a     *)
(* registration or by the start-up.  Only a fault in between breaks this,  *)
(* and then no later start makes up for it: seed_admin_if_empty returns    *)
(* once the user exists.                                                   *)
AccountsSettled ==
  faults = 0 =>
    \A u \in users :
      \/ u.name \in settled
      \/ boot = "seed" /\ u = Admin
      \/ \E r \in Requests : pc[r] = "seed" /\ form[r].name = u.name
=============================================================================
