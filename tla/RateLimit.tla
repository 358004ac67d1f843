----------------------------- MODULE RateLimit ------------------------------
(***************************************************************************)
(* One bucket of the sliding-window limiter (app/web/ratelimit.py), shared *)
(* by the threads that serve one key: the run-now and check-urls handlers  *)
(* run in the server's thread pool.  check reads the clock before it takes *)
(* the bucket's lock, so a thread may decide, and append, with a reading   *)
(* that another thread's has overtaken; MaxLag bounds how old a reading    *)
(* can be when it is used.                                                 *)
(***************************************************************************)
EXTENDS Integers, Sequences, FiniteSets

CONSTANTS
  Threads,      \* threads that serve requests under this key
  MaxAttempts,  \* max_attempts
  Window,       \* window_seconds
  MaxLag,       \* the longest a thread waits between the clock and the lock
  Horizon,      \* where the clock stops
  NoReading     \* the thread serves no request

ASSUME LimitsAssumption ==
  /\ MaxAttempts \in Nat \ {0}
  /\ Window \in Nat /\ MaxLag \in Nat /\ Horizon \in Nat
  /\ NoReading \notin Nat

VARIABLES
  clock,    \* monotonic(), in seconds
  reading,  \* `now` of each thread inside check
  bucket,   \* _buckets[key]
  \* History, read by no action:
  granted   \* the readings with which check returned True, in that order

vars == <<clock, reading, bucket, granted>>

TypeOK ==
  /\ clock \in 0..Horizon
  /\ reading \in [Threads -> (0..Horizon) \cup {NoReading}]
  /\ bucket \in Seq(0..Horizon) /\ Len(bucket) <= MaxAttempts
  /\ granted \in Seq(0..Horizon)

Init ==
  /\ clock = 0
  /\ reading = [t \in Threads |-> NoReading]
  /\ bucket = <<>>
  /\ granted = <<>>

-----------------------------------------------------------------------------
(* while dq and dq[0] < cutoff: dq.popleft() -- the longest prefix of      *)
(* expired entries goes; one behind a newer entry stays.                   *)
ExpiredPrefixInclusive(dq, cutoff) ==
  CHOOSE n \in 0..Len(dq) : /\ \A i \in 1..n : dq[i] <= cutoff
                            /\ n < Len(dq) => dq[n + 1] > cutoff

ExpiredPrefix(dq, cutoff) ==
  CHOOSE n \in 0..Len(dq) : /\ \A i \in 1..n : dq[i] < cutoff
                            /\ n < Len(dq) => dq[n + 1] >= cutoff

Live(dq, cutoff) == SubSeq(dq, ExpiredPrefix(dq, cutoff) + 1, Len(dq))

\* now = monotonic(), before the lock.
ReadClock(t) ==
  /\ reading[t] = NoReading
  /\ reading' = [reading EXCEPT ![t] = clock]
  /\ UNCHANGED <<clock, bucket, granted>>

\* The section under the lock, for a request that is let through ...
Allow(t) ==
  LET live == Live(bucket, reading[t] - Window) IN
  /\ reading[t] # NoReading
  /\ Len(live) < MaxAttempts
  /\ bucket' = Append(live, reading[t])
  /\ granted' = Append(granted, reading[t])
  /\ reading' = [reading EXCEPT ![t] = NoReading]
  /\ UNCHANGED clock

\* ... and for one that is not: its reading is not recorded.
RefuseCounted(t) ==
  LET live == Live(bucket, reading[t] - Window) IN
  /\ reading[t] # NoReading
  /\ Len(live) >= MaxAttempts
  /\ bucket' = Append(live, reading[t])
  /\ reading' = [reading EXCEPT ![t] = NoReading]
  /\ UNCHANGED <<clock, granted>>

Refuse(t) ==
  LET live == Live(bucket, reading[t] - Window) IN
  /\ reading[t] # NoReading
  /\ Len(live) >= MaxAttempts
  /\ bucket' = live
  /\ reading' = [reading EXCEPT ![t] = NoReading]
  /\ UNCHANGED <<clock, granted>>

Tick ==
  /\ clock < Horizon
  /\ \A t \in Threads : reading[t] # NoReading => clock - reading[t] < MaxLag
  /\ clock' = clock + 1
  /\ UNCHANGED <<reading, bucket, granted>>

Next == Tick \/ \E t \in Threads : ReadClock(t) \/ Allow(t) \/ Refuse(t)

Spec == Init /\ [][Next]_vars

-----------------------------------------------------------------------------
GrantedIn(from, to) == {i \in DOMAIN granted : granted[i] \in from..to}

(* At most max_attempts requests are let through in any stretch of the     *)
(* window's length, less the time a thread can sit between reading the     *)
(* clock and getting the lock: readings taken out of order must not let    *)
(* more through than that.                                                 *)
NeverOverLimit ==
  \A from \in 0..Horizon :
    Cardinality(GrantedIn(from, from + Window - MaxLag)) <= MaxAttempts

(* A request is refused only when max_attempts others were let through in  *)
(* the window before it (plus that same lag): refusals are not counted,    *)
(* and an expired entry stuck behind a newer one is soon gone.             *)
RefusalJustified ==
  [][\A t \in Threads :
       reading[t] # NoReading /\ reading'[t] = NoReading /\ granted' = granted =>
         Cardinality(GrantedIn(reading[t] - Window - MaxLag, clock)) >= MaxAttempts]_vars
=============================================================================
