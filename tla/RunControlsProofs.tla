------------------------- MODULE RunControlsProofs --------------------------
(***************************************************************************)
(* The limiter's window, the pool's connections and _run_lock, what the    *)
(* window leaves the scheduler, and why the lock goes round: for any       *)
(* limit, any size of the pool, and, where connections are counted, any    *)
(* finite sets of threads and URL checks.                                  *)
(***************************************************************************)
EXTENDS RunControls, FiniteSetTheorems, SequenceTheorems, TLAPS

LEMMA LeastExists ==
  ASSUME NEW S \in SUBSET Nat, S # {}
  PROVE  \E n \in S : \A m \in S : n <= m
<1>1. PICK n \in S : \A m \in S : ~ (<<m, n>> \in OpToRel(<, Nat))
  BY NatLessThanWellFounded, WFMin
<1>2. \A m \in S : ~ (m < n)
  BY <1>1 DEF OpToRel
<1> QED
  BY <1>2

\* What the loop that drops expired entries leaves.
LEMMA LongestPrefix ==
  ASSUME NEW dq \in Seq(Int), NEW cutoff \in Int
  PROVE  LET n == ExpiredPrefix(dq, cutoff) IN
         /\ n \in 0..Len(dq)
         /\ \A i \in 1..n : dq[i] < cutoff
         /\ n < Len(dq) => dq[n + 1] >= cutoff
<1> DEFINE Stops == {m \in 0..Len(dq) : m < Len(dq) => dq[m + 1] >= cutoff}
<1>1. Len(dq) \in Stops
  OBVIOUS
<1>2. PICK n \in Stops : \A m \in Stops : n <= m
  <2>1. Stops \in SUBSET Nat
    OBVIOUS
  <2> HIDE DEF Stops
  <2> QED
    BY <1>1, <2>1, LeastExists
<1>3. ASSUME NEW i \in 1..n PROVE dq[i] < cutoff
  <2>1. n \in 0..Len(dq) /\ Len(dq) \in Nat
    BY <1>2
  <2>2. i - 1 \in 0..Len(dq) /\ i - 1 < Len(dq) /\ i - 1 < n /\ i \in 1..Len(dq)
    BY <2>1
  <2>3. i - 1 \notin Stops
    BY <1>2, <2>1, <2>2
  <2>4. ~ (dq[(i - 1) + 1] >= cutoff)
    BY <2>2, <2>3
  <2>5. dq[i] \in Int
    BY <2>2
  <2> QED
    BY <2>4, <2>5
<1> HIDE DEF Stops
<1>4. ExpiredPrefix(dq, cutoff) \in Stops /\ \A i \in 1..ExpiredPrefix(dq, cutoff) : dq[i] < cutoff
  <2> DEFINE Good(m) == /\ \A i \in 1..m : dq[i] < cutoff
                        /\ m < Len(dq) => dq[m + 1] >= cutoff
  <2>1. n \in 0..Len(dq) /\ Good(n)
    BY <1>2, <1>3 DEF Stops
  <2>2. ExpiredPrefix(dq, cutoff) = CHOOSE m \in 0..Len(dq) : Good(m)
    BY DEF ExpiredPrefix
  <2> HIDE DEF Good
  <2>3. ExpiredPrefix(dq, cutoff) \in 0..Len(dq) /\ Good(ExpiredPrefix(dq, cutoff))
    BY <2>1, <2>2
  <2> QED
    BY <2>3 DEF Good, Stops
<1> QED
  BY <1>4 DEF Stops

LEMMA LiveIsSuffix ==
  ASSUME NEW T \in SUBSET Int, NEW dq \in Seq(T), NEW cutoff \in Int
  PROVE  \E n \in 0..Len(dq) :
           /\ Live(dq, cutoff) \in Seq(T)
           /\ Len(Live(dq, cutoff)) = Len(dq) - n
           /\ \A i \in 1..(Len(dq) - n) : Live(dq, cutoff)[i] = dq[n + i]
           /\ \A i \in 1..n : dq[i] < cutoff
           /\ n < Len(dq) => dq[n + 1] >= cutoff
<1> DEFINE n == ExpiredPrefix(dq, cutoff)
<1>1. dq \in Seq(Int)
  BY SeqMonotonic
<1>2. /\ n \in 0..Len(dq)
      /\ \A i \in 1..n : dq[i] < cutoff
      /\ n < Len(dq) => dq[n + 1] >= cutoff
  BY <1>1, LongestPrefix
<1> HIDE DEF n
<1>3. Live(dq, cutoff) = SubSeq(dq, n + 1, Len(dq))
  BY DEF Live, n
<1>4. /\ Live(dq, cutoff) \in Seq(T)
      /\ Len(Live(dq, cutoff)) = Len(dq) - n
      /\ \A i \in 1..(Len(dq) - n) : Live(dq, cutoff)[i] = dq[n + i]
  BY <1>2, <1>3, SubSeqProperties
<1> QED
  BY <1>2, <1>4

-----------------------------------------------------------------------------
\* No reading in hand is older than the lag.
ReadingsAreFresh ==
  \A t \in Threads : reading[t] # NoReading => reading[t] \in (clock - MaxLag)..clock

\* A grant is recorded at most a lag after one with a later reading.
GrantsAreNearlyOrdered ==
  /\ \A i \in DOMAIN granted : granted[i] <= clock
  /\ \A i, j \in DOMAIN granted : i < j => granted[i] - MaxLag <= granted[j]

\* s is what is left of `granted` without its first k, all of them expired.
Remains(s, k) ==
  /\ k \in 0..Len(granted)
  /\ Len(s) = Len(granted) - k
  /\ \A i \in 1..(Len(granted) - k) : s[i] = granted[k + i]
  /\ \A i \in 1..k : granted[i] < clock - Window

LimiterInv ==
  /\ TypeOK
  /\ ReadingsAreFresh
  /\ GrantsAreNearlyOrdered
  /\ \E k \in Nat : Remains(bucket, k)

LEMMA LiveRemains ==
  ASSUME LimiterInv, NEW t \in Threads, reading[t] # NoReading
  PROVE  LET live == Live(bucket, reading[t] - Window) IN
         /\ live \in Seq(0..Horizon)
         /\ Len(live) <= Len(bucket)
         /\ \E k \in Nat : Remains(live, k)
         /\ Len(live) > 0 => live[1] >= reading[t] - Window
<1> USE LimitsAssumption DEF LimiterInv, TypeOK
<1> DEFINE live == Live(bucket, reading[t] - Window)
<1>1. /\ reading[t] \in 0..Horizon /\ reading[t] <= clock /\ clock \in 0..Horizon
      /\ reading[t] - Window \in Int /\ bucket \in Seq(0..Horizon)
  BY DEF ReadingsAreFresh
<1>2. PICK n \in 0..Len(bucket) :
        /\ live \in Seq(0..Horizon)
        /\ Len(live) = Len(bucket) - n
        /\ \A i \in 1..(Len(bucket) - n) : live[i] = bucket[n + i]
        /\ \A i \in 1..n : bucket[i] < reading[t] - Window
        /\ n < Len(bucket) => bucket[n + 1] >= reading[t] - Window
  <2>1. (0..Horizon) \in SUBSET Int
    OBVIOUS
  <2> QED
    BY <1>1, <2>1, LiveIsSuffix
<1>3. PICK k \in Nat : Remains(bucket, k)
  OBVIOUS
<1> HIDE DEF live
<1>4. Len(bucket) \in Nat /\ Len(granted) \in Nat
  OBVIOUS
<1>7. n \in 0..Len(bucket) /\ Len(live) = Len(bucket) - n
  BY <1>2
<1>8. k \in 0..Len(granted) /\ Len(bucket) = Len(granted) - k
  BY <1>3 DEF Remains
<1>5. Remains(live, k + n)
  <2>1. k + n \in 0..Len(granted) /\ Len(live) = Len(granted) - (k + n)
    BY <1>4, <1>7, <1>8
  <2>2. ASSUME NEW i \in 1..(Len(granted) - (k + n)) PROVE live[i] = granted[(k + n) + i]
    <3>1. /\ i \in 1..(Len(bucket) - n) /\ n + i \in 1..(Len(granted) - k)
          /\ k + (n + i) = (k + n) + i
      BY <1>2, <1>3, <1>4 DEF Remains
    <3>2. live[i] = bucket[n + i] /\ bucket[n + i] = granted[k + (n + i)]
      BY <1>2, <1>3, <3>1 DEF Remains
    <3> QED
      BY <3>1, <3>2
  <2>3. ASSUME NEW i \in 1..(k + n) PROVE granted[i] < clock - Window
    <3>1. CASE i <= k
      BY <1>3, <3>1 DEF Remains
    <3>2. CASE i > k
      <4>1. i - k \in 1..n /\ i - k \in 1..(Len(granted) - k) /\ k + (i - k) = i
        BY <1>2, <1>3, <1>4, <3>2 DEF Remains
      <4>2. bucket[i - k] = granted[i] /\ bucket[i - k] < reading[t] - Window
        BY <1>2, <1>3, <4>1 DEF Remains
      <4>3. bucket[i - k] \in Int
        <5>1. i - k \in 1..Len(bucket)
          BY <1>3, <1>4, <4>1 DEF Remains
        <5> QED
          BY <1>1, <5>1, ElementOfSeq
      <4>4. reading[t] \in Int /\ clock \in Int /\ Window \in Int /\ reading[t] <= clock
        BY <1>1
      <4> QED
        BY <4>2, <4>3, <4>4
    <3>3. i \in Int /\ k \in Int
      BY <1>3
    <3> QED
      BY <3>1, <3>2, <3>3
  <2> QED
    BY <2>1, <2>2, <2>3 DEF Remains
<1>6. ASSUME Len(live) > 0 PROVE live[1] >= reading[t] - Window
  <2>1. n < Len(bucket) /\ 1 \in 1..(Len(bucket) - n)
    BY <1>4, <1>6, <1>7
  <2> QED
    BY <1>2, <2>1
<1>9. live \in Seq(0..Horizon)
  BY <1>2
<1>10. Len(live) <= Len(bucket)
  BY <1>4, <1>7
<1>11. \E m \in Nat : Remains(live, m)
  <2>1. k + n \in Nat
    BY <1>3, <1>7
  <2> QED
    BY <1>5, <2>1
<1> QED
  BY <1>6, <1>9, <1>10, <1>11 DEF live

LEMMA AllowStep ==
  ASSUME LimiterInv, NEW t \in Threads, Allow(t)
  PROVE  /\ LimiterInv'
         /\ granted' = Append(granted, reading[t])
         /\ \E k \in Nat : Remains(bucket, k)' /\ k <= Len(granted)
<1> USE LimitsAssumption DEF LimiterInv, TypeOK
<1> DEFINE live == Live(bucket, reading[t] - Window)
           r    == reading[t]
<1>1. /\ live \in Seq(0..Horizon) /\ Len(live) <= Len(bucket)
      /\ reading[t] # NoReading /\ Len(live) < MaxAttempts
      /\ bucket' = Append(live, r) /\ granted' = Append(granted, r)
      /\ reading' = [reading EXCEPT ![t] = NoReading] /\ clock' = clock
  BY LiveRemains DEF Allow
<1>2. PICK k \in Nat : Remains(live, k)
  BY <1>1, LiveRemains
<1> HIDE DEF live
<1>3. r \in 0..Horizon /\ r \in (clock - MaxLag)..clock /\ clock \in 0..Horizon
  BY <1>1 DEF ReadingsAreFresh
<1> HIDE DEF r
<1>4. /\ granted' \in Seq(0..Horizon)
      /\ Len(granted) \in Nat /\ Len(granted') = Len(granted) + 1
      /\ \A i \in 1..Len(granted) : granted'[i] = granted[i] /\ granted[i] \in 0..Horizon
      /\ granted'[Len(granted) + 1] = r
      /\ DOMAIN granted = 1..Len(granted) /\ DOMAIN granted' = 1..(Len(granted) + 1)
  BY <1>1, <1>3
<1>5. /\ bucket' \in Seq(0..Horizon)
      /\ Len(live) \in Nat /\ Len(bucket') = Len(live) + 1
      /\ \A i \in 1..Len(live) : bucket'[i] = live[i]
      /\ bucket'[Len(live) + 1] = r
  BY <1>1, <1>3
<1>6. TypeOK' /\ ReadingsAreFresh'
  BY <1>1, <1>4, <1>5 DEF ReadingsAreFresh
<1>7. GrantsAreNearlyOrdered'
  <2>3. /\ \A i \in 1..Len(granted) : granted[i] <= clock
        /\ \A i, j \in 1..Len(granted) : i < j => granted[i] - MaxLag <= granted[j]
    BY <1>4 DEF GrantsAreNearlyOrdered
  <2>4. \A i \in 1..(Len(granted) + 1) : i \in 1..Len(granted) \/ i = Len(granted) + 1
    BY <1>4
  <2>1. \A i \in 1..(Len(granted) + 1) : granted'[i] \in Int /\ granted'[i] <= clock
    <3>1. r \in Int /\ r <= clock
      BY <1>3
    <3>2. \A i \in 1..Len(granted) : granted'[i] \in Int /\ granted'[i] <= clock
      BY <1>4, <2>3
    <3> QED
      BY <1>4, <2>4, <3>1, <3>2
  <2>2. ASSUME NEW i \in 1..(Len(granted) + 1), NEW j \in 1..(Len(granted) + 1), i < j
        PROVE  granted'[i] - MaxLag <= granted'[j]
    <3>1. CASE j \in 1..Len(granted)
      <4>1. i \in 1..Len(granted)
        BY <1>4, <2>2, <3>1
      <4> QED
        BY <1>4, <2>2, <2>3, <3>1, <4>1
    <3>2. CASE j = Len(granted) + 1
      BY <1>3, <1>4, <2>1, <3>2
    <3> QED
      BY <1>4, <3>1, <3>2
  <2> QED
    BY <1>1, <1>4, <2>1, <2>2 DEF GrantsAreNearlyOrdered
<1>8. Remains(bucket, k)' /\ k <= Len(granted)
  <2>1. /\ k \in 0..Len(granted) /\ Len(live) = Len(granted) - k
        /\ \A i \in 1..(Len(granted) - k) : live[i] = granted[k + i]
        /\ \A i \in 1..k : granted[i] < clock - Window
    BY <1>2 DEF Remains
  <2>4. k \in 0..Len(granted') /\ Len(bucket') = Len(granted') - k /\ k <= Len(granted)
    <3>1. k \in 0..Len(granted) /\ Len(granted) \in Nat
      BY <1>4, <2>1
    <3>2. Len(granted') = Len(granted) + 1 /\ Len(bucket') = (Len(granted) - k) + 1
      BY <1>4, <1>5, <2>1
    <3> QED
      BY <3>1, <3>2
  <2>5. ASSUME NEW i \in 1..k PROVE granted'[i] < clock' - Window
    <3>1. i \in 1..Len(granted)
      BY <1>4, <2>1
    <3> QED
      BY <1>1, <1>4, <2>1, <3>1
  <2>2. /\ k \in 0..Len(granted') /\ Len(bucket') = Len(granted') - k /\ k <= Len(granted)
        /\ \A i \in 1..k : granted'[i] < clock' - Window
    BY <2>4, <2>5
  <2>3. ASSUME NEW i \in 1..(Len(granted') - k) PROVE bucket'[i] = granted'[k + i]
    <3>1. CASE i \in 1..Len(live)
      <4>1. k + i \in 1..Len(granted)
        BY <1>4, <2>1, <3>1
      <4> QED
        BY <1>4, <1>5, <2>1, <3>1, <4>1
    <3>2. CASE i = Len(live) + 1
      BY <1>4, <1>5, <2>1, <3>2
    <3>3. i \in 1..Len(live) \/ i = Len(live) + 1
      <4>1. Len(granted') - k = Len(live) + 1
        BY <1>4, <2>1
      <4>2. i \in 1..(Len(live) + 1) /\ Len(live) \in Nat
        BY <1>5, <4>1
      <4> QED
        BY <4>2
    <3> QED
      BY <3>1, <3>2, <3>3
  <2> QED
    BY <2>2, <2>3 DEF Remains
<1> QED
  BY <1>1, <1>6, <1>7, <1>8 DEF r

LEMMA RefuseStep ==
  ASSUME LimiterInv, NEW t \in Threads, Refuse(t)
  PROVE  LimiterInv'
<1> USE LimitsAssumption DEF LimiterInv, TypeOK
<1>1. /\ bucket' \in Seq(0..Horizon) /\ Len(bucket') <= Len(bucket)
      /\ reading' = [reading EXCEPT ![t] = NoReading] /\ UNCHANGED <<clock, granted>>
      /\ \E k \in Nat : Remains(bucket', k)
  BY LiveRemains DEF Refuse
<1>2. TypeOK'
  <2>1. Len(bucket') \in Nat /\ Len(bucket) \in Nat /\ Len(bucket) <= MaxAttempts
    BY <1>1
  <2>2. Len(bucket') <= MaxAttempts
    BY <1>1, <2>1
  <2> QED
    BY <1>1, <2>2
<1>3. ReadingsAreFresh' /\ GrantsAreNearlyOrdered'
  BY <1>1 DEF ReadingsAreFresh, GrantsAreNearlyOrdered
<1>4. PICK k \in Nat : Remains(bucket', k)
  BY <1>1
<1>5. Remains(bucket, k)'
  BY <1>1, <1>4 DEF Remains
<1> QED
  BY <1>2, <1>3, <1>5

LEMMA LimiterStep == LimiterInv /\ [Next]_vars => LimiterInv'
<1> SUFFICES ASSUME LimiterInv, [Next]_vars PROVE LimiterInv'
  OBVIOUS
<1>1. CASE Tick
  <2> USE LimitsAssumption DEF LimiterInv, TypeOK
  <2>1. TypeOK' /\ ReadingsAreFresh' /\ GrantsAreNearlyOrdered'
    BY <1>1 DEF Tick, ReadingsAreFresh, GrantsAreNearlyOrdered
  <2>2. ASSUME NEW k \in Nat, Remains(bucket, k) PROVE Remains(bucket, k)'
    <3>1. \A i \in 1..k : granted[i] \in Int
      BY <2>2 DEF Remains
    <3>2. /\ clock' = clock + 1 /\ UNCHANGED <<bucket, granted>> /\ clock \in Int
          /\ \A i \in 1..k : granted[i] < clock - Window
      BY <1>1, <2>2 DEF Remains, Tick
    <3>3. \A i \in 1..k : granted'[i] < clock' - Window
      BY <3>1, <3>2
    <3> QED
      BY <2>2, <3>2, <3>3 DEF Remains
  <2> QED
    BY <2>1, <2>2
<1>2. ASSUME NEW t \in Threads, ReadClock(t) PROVE LimiterInv'
  <2> USE LimitsAssumption DEF LimiterInv, TypeOK, ReadClock
  <2>1. TypeOK' /\ ReadingsAreFresh' /\ GrantsAreNearlyOrdered'
    BY <1>2 DEF ReadingsAreFresh, GrantsAreNearlyOrdered
  <2>2. ASSUME NEW k \in Nat, Remains(bucket, k) PROVE Remains(bucket, k)'
    BY <1>2, <2>2 DEF Remains
  <2> QED
    BY <2>1, <2>2
<1>3. CASE UNCHANGED vars
  BY <1>3 DEF vars, LimiterInv, TypeOK, ReadingsAreFresh, GrantsAreNearlyOrdered, Remains
<1> QED
  BY <1>1, <1>2, <1>3, AllowStep, RefuseStep DEF Next

LEMMA LimiterInit == Init => LimiterInv
<1> SUFFICES ASSUME Init PROVE LimiterInv
  OBVIOUS
<1> USE LimitsAssumption DEF Init, LimiterInv
<1>1. TypeOK /\ ReadingsAreFresh /\ GrantsAreNearlyOrdered
  BY DEF TypeOK, ReadingsAreFresh, GrantsAreNearlyOrdered
<1>2. Remains(bucket, 0)
  BY DEF Remains
<1> QED
  BY <1>1, <1>2

-----------------------------------------------------------------------------
LEMMA PositionsAreCounted ==
  ASSUME NEW n \in Nat, NEW P \in SUBSET (1..n), NEW k \in 0..n
  PROVE  /\ IsFiniteSet(P) /\ Cardinality(P) \in Nat
         /\ P \subseteq (k + 1)..n => Cardinality(P) <= n - k
         /\ (k + 1)..n \subseteq P => Cardinality(P) >= n - k
<1>2. IsFiniteSet(1..n) /\ IsFiniteSet((k + 1)..n) /\ k + 1 \in Int /\ n \in Int
  BY FS_Interval
<1>3. Cardinality((k + 1)..n) = n - k
  <2>1. Cardinality((k + 1)..n) = IF k + 1 > n THEN 0 ELSE n - (k + 1) + 1
    BY <1>2, FS_Interval
  <2> QED
    BY <2>1
<1>4. IsFiniteSet(P)
  BY <1>2, FS_Subset
<1>5. Cardinality(P) \in Nat
  BY <1>4, FS_CardinalityType
<1>6. P \subseteq (k + 1)..n => Cardinality(P) <= n - k
  <2>1. P \subseteq (k + 1)..n => Cardinality(P) <= Cardinality((k + 1)..n)
    BY <1>2, FS_Subset
  <2> QED
    BY <1>3, <2>1
<1>7. (k + 1)..n \subseteq P => Cardinality(P) >= n - k
  <2>1. (k + 1)..n \subseteq P => Cardinality((k + 1)..n) <= Cardinality(P)
    BY <1>4, FS_Subset
  <2>2. n - k \in Int
    OBVIOUS
  <2> QED
    BY <1>3, <1>5, <2>1, <2>2
<1> QED
  BY <1>4, <1>5, <1>6, <1>7

LEMMA OverLimitStep == LimiterInv /\ NeverOverLimit /\ [Next]_vars => NeverOverLimit'
<1> SUFFICES ASSUME LimiterInv, NeverOverLimit, [Next]_vars, NEW from \in 0..Horizon
             PROVE  Cardinality(GrantedIn(from, from + Window - MaxLag)') <= MaxAttempts
  BY DEF NeverOverLimit
<1> USE LimitsAssumption
<1> DEFINE to == from + Window - MaxLag
<1>1. Cardinality(GrantedIn(from, to)) <= MaxAttempts
  BY DEF NeverOverLimit
<1>2. CASE granted' = granted
  BY <1>1, <1>2 DEF GrantedIn
<1>3. ASSUME NEW t \in Threads, Allow(t)
      PROVE  Cardinality(GrantedIn(from, to)') <= MaxAttempts
  <2>1. LimiterInv' /\ granted' = Append(granted, reading[t]) /\ clock' = clock
    BY <1>3, AllowStep DEF Allow
  <2>2. PICK k \in Nat : Remains(bucket, k)' /\ k <= Len(granted)
    BY <1>3, AllowStep
  <2>3. /\ reading[t] \in (clock - MaxLag)..clock /\ reading[t] \in Int /\ clock \in Int
        /\ Len(granted) \in Nat /\ Len(granted') = Len(granted) + 1
        /\ DOMAIN granted = 1..Len(granted) /\ DOMAIN granted' = 1..(Len(granted) + 1)
        /\ \A i \in 1..Len(granted) : granted'[i] = granted[i] /\ granted[i] \in Int
        /\ granted'[Len(granted) + 1] = reading[t]
    <3>1. reading[t] \in (clock - MaxLag)..clock /\ reading[t] \in Int /\ clock \in Int
      BY <1>3 DEF LimiterInv, TypeOK, ReadingsAreFresh, Allow
    <3>2. granted \in Seq(Int)
      <4>1. granted \in Seq(0..Horizon) /\ (0..Horizon) \subseteq Int
        BY DEF LimiterInv, TypeOK
      <4> QED
        BY <4>1
    <3>3. granted' = Append(granted, reading[t])
      BY <2>1
    <3>4. /\ Len(granted) \in Nat /\ Len(granted') = Len(granted) + 1
          /\ DOMAIN granted = 1..Len(granted) /\ DOMAIN granted' = 1..(Len(granted) + 1)
      BY <3>1, <3>2, <3>3
    <3>5. \A i \in 1..Len(granted) : granted'[i] = granted[i] /\ granted[i] \in Int
      BY <3>1, <3>2, <3>3
    <3>6. granted'[Len(granted) + 1] = reading[t]
      BY <3>1, <3>2, <3>3
    <3> QED
      BY <3>1, <3>4, <3>5, <3>6
  <2>4. CASE reading[t] \notin from..to
    <3>1. GrantedIn(from, to)' = GrantedIn(from, to)
      BY <2>3, <2>4 DEF GrantedIn
    <3> QED
      BY <1>1, <3>1
  <2>5. CASE reading[t] \in from..to
    <3>1. \A i \in 1..k : granted'[i] < clock - Window
      BY <2>1, <2>2 DEF Remains
    <3>2. ASSUME NEW i \in DOMAIN granted', granted'[i] \in from..to PROVE i > k
      <4>1. granted'[i] >= clock - Window
        BY <1>3, <2>3, <2>5, <3>2
      <4> QED
        BY <2>3, <3>1, <3>2, <4>1
    <3>3. GrantedIn(from, to)' \subseteq (k + 1)..Len(granted')
      BY <2>3, <3>2 DEF GrantedIn
    <3>4. Len(bucket') <= MaxAttempts /\ Len(bucket') = Len(granted') - k /\ TypeOK'
      BY <2>1, <2>2 DEF LimiterInv, TypeOK, Remains
    <3>7. GrantedIn(from, to)' \subseteq 1..Len(granted')
      BY <2>3 DEF GrantedIn
    <3>5. Cardinality(GrantedIn(from, to)') <= Len(granted') - k
      <4>1. k \in 0..Len(granted') /\ Len(granted') \in Nat /\ DOMAIN granted' = 1..Len(granted')
        BY <2>2, <2>3
      <4> QED
        BY <3>3, <4>1, <3>7, PositionsAreCounted
    <3>6. Cardinality(GrantedIn(from, to)') \in Nat
      <4>1. IsFiniteSet(1..Len(granted'))
        BY <2>3, FS_Interval
      <4> QED
        BY <3>7, <4>1, FS_Subset, FS_CardinalityType
    <3> QED
      BY <2>2, <2>3, <3>4, <3>5, <3>6
  <2> QED
    BY <2>4, <2>5
<1>4. CASE \E t \in Threads : Allow(t)
  BY <1>3, <1>4
<1> QED
  BY <1>2, <1>4 DEF Next, Tick, ReadClock, Refuse, vars

LEMMA RefusalStep ==
  ASSUME LimiterInv, [Next]_vars, NEW t \in Threads,
         reading[t] # NoReading, reading'[t] = NoReading, granted' = granted
  PROVE  Cardinality(GrantedIn(reading[t] - Window - MaxLag, clock)) >= MaxAttempts
<1> USE LimitsAssumption
<1>1. Refuse(t)
  <2>1. ASSUME NEW u \in Threads, Allow(u) PROVE FALSE
    BY <2>1, AllowStep DEF LimiterInv, TypeOK
  <2>2. ASSUME NEW u \in Threads, ReadClock(u) PROVE FALSE
    BY <2>2 DEF LimiterInv, TypeOK, ReadClock
  <2>3. ASSUME NEW u \in Threads, Refuse(u) PROVE u = t
    BY <2>3 DEF LimiterInv, TypeOK, Refuse
  <2> QED
    BY <2>1, <2>2, <2>3 DEF Next, Tick, vars
<1> DEFINE live == Live(bucket, reading[t] - Window)
           r    == reading[t]
<1>2. /\ live \in Seq(0..Horizon) /\ Len(live) >= MaxAttempts
      /\ Len(live) > 0 => live[1] >= r - Window
  BY <1>1, LiveRemains DEF Refuse
<1>3. PICK k \in Nat : Remains(live, k)
  BY <1>1, LiveRemains DEF Refuse
<1>4. r \in Int /\ clock \in Int /\ Len(granted) \in Nat /\ TypeOK
      /\ DOMAIN granted = 1..Len(granted) /\ \A i \in 1..Len(granted) : granted[i] \in Int
  BY <1>1 DEF LimiterInv, TypeOK, Refuse
<1> HIDE DEF live, r
<1>5. k \in 0..Len(granted) /\ Len(live) = Len(granted) - k /\ Len(live) > 0
  BY <1>2, <1>3 DEF Remains
<1>6. k + 1 \in 1..Len(granted) /\ granted[k + 1] >= r - Window
  <2>1. 1 \in 1..(Len(granted) - k)
    BY <1>4, <1>5
  <2>2. live[1] = granted[k + 1]
    BY <1>3, <2>1 DEF Remains
  <2> QED
    BY <1>2, <1>4, <1>5, <2>2
<1>7. ASSUME NEW i \in (k + 1)..Len(granted)
      PROVE  i \in GrantedIn(r - Window - MaxLag, clock)
  <2>1. i \in 1..Len(granted) /\ granted[i] \in Int
    BY <1>4, <1>7
  <2>2. granted[i] <= clock
    BY <1>4, <2>1 DEF LimiterInv, GrantsAreNearlyOrdered
  <2>3. granted[k + 1] - MaxLag <= granted[i]
    <3>1. CASE i = k + 1
      BY <1>4, <1>6, <3>1
    <3>2. CASE k + 1 < i
      BY <1>4, <1>6, <2>1, <3>2 DEF LimiterInv, GrantsAreNearlyOrdered
    <3> QED
      BY <1>7, <3>1, <3>2
  <2> QED
    BY <1>4, <1>6, <2>1, <2>2, <2>3 DEF GrantedIn
<1>10. GrantedIn(r - Window - MaxLag, clock) \subseteq 1..Len(granted)
  BY <1>4 DEF GrantedIn
<1>8. Cardinality(GrantedIn(r - Window - MaxLag, clock)) >= Len(granted) - k
  <2>1. (k + 1)..Len(granted) \subseteq GrantedIn(r - Window - MaxLag, clock)
    BY <1>7
  <2> QED
    BY <1>4, <1>5, <2>1, <1>10, PositionsAreCounted
<1>9. Cardinality(GrantedIn(r - Window - MaxLag, clock)) \in Nat
  BY <1>4, <1>5, <1>10, PositionsAreCounted
<1> QED
  BY <1>2, <1>4, <1>5, <1>8, <1>9 DEF r

\* At most MaxAttempts requests are let through in any stretch of the window's
\* length less the lag, whatever the order in which threads that read the clock
\* get the lock (ratelimit.py:44-66): for any number of threads.
THEOREM LimitIsKept == Spec => []NeverOverLimit
<1>1. Init => NeverOverLimit
  <2> SUFFICES ASSUME Init, NEW from \in 0..Horizon
               PROVE  Cardinality(GrantedIn(from, from + Window - MaxLag)) <= MaxAttempts
    BY DEF NeverOverLimit
  <2>1. GrantedIn(from, from + Window - MaxLag) = {}
    BY DEF Init, GrantedIn
  <2> QED
    BY <2>1, FS_EmptySet, LimitsAssumption
<1> QED
  BY <1>1, LimiterInit, LimiterStep, OverLimitStep, PTL DEF Spec

\* Nobody is refused for requests that were refused themselves, or for ones long
\* expired: in the window before a refusal, MaxAttempts were let through.
THEOREM RefusalsAreJustified == Spec => RefusalJustified
<1>1. LimiterInv /\ [Next]_vars =>
        [\A t \in Threads :
           reading[t] # NoReading /\ reading'[t] = NoReading /\ granted' = granted =>
             Cardinality(GrantedIn(reading[t] - Window - MaxLag, clock)) >= MaxAttempts]_vars
  BY RefusalStep
<1> QED
  BY <1>1, LimiterInit, LimiterStep, PTL DEF Spec, RefusalJustified

-----------------------------------------------------------------------------
\* What the proof needs of the types; the bucket does not matter here.
TaskTypes ==
  /\ pc \in [Procs -> {"off", "connect", "lock", "work", "mail"}]
  /\ free \in Nat
  /\ lock \in Procs \cup {NoProc}
  /\ \A c \in Checkers : pc[c] # "mail"

\* The three kinds of steps: a connection is taken, given back, or neither.
Takes(p)  == p \in Procs \ Holders /\ Holders' = Holders \cup {p} /\ free > 0 /\ free' = free - 1
Gives(p)  == p \in Holders /\ Holders' = Holders \ {p} /\ free' = free + 1
Neither   == Holders' = Holders /\ free' = free

LEMMA HoldersAreFinite ==
  ASSUME IsFiniteSet(Threads), IsFiniteSet(Checkers)
  PROVE  IsFiniteSet(Holders)
<1>1. IsFiniteSet(Scanners)
  <2>1. IsFiniteSet({Trigger})
    BY FS_Singleton
  <2> QED
    BY <2>1, FS_Union DEF Scanners
<1>2. IsFiniteSet(Procs)
  BY <1>1, FS_Union DEF Procs
<1>3. Holders \subseteq Procs
  BY DEF Holders, Procs
<1> QED
  BY <1>2, <1>3, FS_Subset

LEMMA TypesStep == TaskTypes /\ [RunNext]_allvars => TaskTypes'
<1> SUFFICES ASSUME TaskTypes, [RunNext]_allvars PROVE TaskTypes'
  OBVIOUS
<1> USE PoolAssumption DEF TaskTypes, Goto, Procs, Scanners
<1>1. ASSUME NEW p \in Procs, Step(p) PROVE TaskTypes'
  BY <1>1 DEF Step, Borrow, PoolTimeout, TakeLock, ScanDone, Mailed, CheckDone
<1>2. ASSUME NEW p \in Procs, Raise(p) PROVE TaskTypes'
  BY <1>2 DEF Raise, ConnectionAfterRaise
<1>3. ASSUME NEW t \in Threads, PressRunNow(t) \/ LetThrough(t) \/ TurnAway(t) PROVE TaskTypes'
  BY <1>3 DEF PressRunNow, LetThrough, TurnAway, tasks
<1>4. ASSUME NEW c \in Checkers, PressCheck(c) PROVE TaskTypes'
  BY <1>4 DEF PressCheck
<1>5. CASE Fire \/ (Tick /\ UNCHANGED tasks) \/ UNCHANGED allvars
  BY <1>5 DEF Fire, tasks, allvars
<1> QED
  BY <1>1, <1>2, <1>3, <1>4, <1>5 DEF RunNext

LEMMA StepKinds ==
  ASSUME TaskTypes, [RunNext]_allvars
  PROVE  Neither \/ \E p \in Procs : Takes(p) \/ Gives(p)
<1> USE PoolAssumption DEF TaskTypes, Goto, Takes, Gives, Neither, Holders, Procs, Scanners
<1>1. ASSUME NEW p \in Procs, Borrow(p) PROVE Takes(p)
  BY <1>1 DEF Borrow
<1>2. ASSUME NEW p \in Procs, PoolTimeout(p) \/ TakeLock(p) \/ ScanDone(p) PROVE Neither
  BY <1>2 DEF PoolTimeout, TakeLock, ScanDone
<1>3. ASSUME NEW p \in Procs, Mailed(p) \/ CheckDone(p) PROVE Gives(p)
  BY <1>3 DEF Mailed, CheckDone
<1>4. ASSUME NEW p \in Procs, Raise(p) PROVE Gives(p)
  BY <1>4 DEF Raise, ConnectionAfterRaise
<1>5. ASSUME NEW t \in Threads, PressRunNow(t) \/ LetThrough(t) \/ TurnAway(t) PROVE Neither
  BY <1>5 DEF PressRunNow, LetThrough, TurnAway, tasks
<1>6. ASSUME NEW c \in Checkers, PressCheck(c) PROVE Neither
  BY <1>6 DEF PressCheck
<1>7. ASSUME Fire \/ (Tick /\ UNCHANGED tasks) \/ UNCHANGED allvars PROVE Neither
  BY <1>7 DEF Fire, tasks, allvars
<1> QED
  BY <1>1, <1>2, <1>3, <1>4, <1>5, <1>6, <1>7 DEF RunNext, Step

\* The second half of ConnectionsAccounted.
LockIsHeld ==
  \A p \in Procs : lock = p <=> IF p \in Checkers THEN pc[p] \in {"connect", "work"}
                                                  ELSE pc[p] = "work"

LEMMA LockStep ==
  ASSUME TaskTypes, LockIsHeld, [RunNext]_allvars
  PROVE  LockIsHeld'
<1> USE PoolAssumption DEF TaskTypes, LockIsHeld, Goto, Procs, Scanners
<1>1. ASSUME NEW p \in Procs, Borrow(p) PROVE LockIsHeld'
  BY <1>1 DEF Borrow
<1>2. ASSUME NEW p \in Procs, PoolTimeout(p) PROVE LockIsHeld'
  BY <1>2 DEF PoolTimeout
<1>3. ASSUME NEW p \in Procs, TakeLock(p) PROVE LockIsHeld'
  BY <1>3 DEF TakeLock
<1>4. ASSUME NEW p \in Procs, ScanDone(p) \/ CheckDone(p) PROVE LockIsHeld'
  BY <1>4 DEF ScanDone, CheckDone
<1>5. ASSUME NEW p \in Procs, Mailed(p) PROVE LockIsHeld'
  BY <1>5 DEF Mailed
<1>6. ASSUME NEW p \in Procs, Raise(p) PROVE LockIsHeld'
  BY <1>6 DEF Raise
<1>7. ASSUME NEW t \in Threads, PressRunNow(t) \/ LetThrough(t) \/ TurnAway(t)
      PROVE  LockIsHeld'
  BY <1>7 DEF PressRunNow, LetThrough, TurnAway, tasks
<1>8. ASSUME NEW c \in Checkers, PressCheck(c) PROVE LockIsHeld'
  BY <1>8 DEF PressCheck
<1>9. ASSUME Fire \/ (Tick /\ UNCHANGED tasks) \/ UNCHANGED allvars PROVE LockIsHeld'
  BY <1>9 DEF Fire, tasks, allvars
<1> QED
  BY <1>1, <1>2, <1>3, <1>4, <1>5, <1>6, <1>7, <1>8, <1>9 DEF RunNext, Step

LEMMA CountStep ==
  ASSUME IsFiniteSet(Holders), TaskTypes, [RunNext]_allvars,
         free + Cardinality(Holders) = MaxConns
  PROVE  (free + Cardinality(Holders) = MaxConns)'
<1>1. free \in Nat /\ Cardinality(Holders) \in Nat
  BY FS_CardinalityType DEF TaskTypes
<1>2. CASE Neither
  BY <1>2 DEF Neither
<1>3. ASSUME NEW p \in Procs, Takes(p) PROVE (free + Cardinality(Holders) = MaxConns)'
  <2>1. Cardinality(Holders') = Cardinality(Holders) + 1
    BY <1>3, FS_AddElement DEF Takes
  <2> QED
    BY <1>1, <1>3, <2>1, SMT DEF Takes
<1>4. ASSUME NEW p \in Procs, Gives(p) PROVE (free + Cardinality(Holders) = MaxConns)'
  <2>1. Cardinality(Holders') = Cardinality(Holders) - 1
    BY <1>4, FS_RemoveElement DEF Gives
  <2> QED
    BY <1>1, <1>4, <2>1, SMT DEF Gives
<1> QED
  BY StepKinds, <1>2, <1>3, <1>4

\* No connection is lost or lent twice, and the lock is with the task that
\* works under it, whatever times out or raises while it holds both: for any
\* number of threads, checks and connections.
THEOREM ConnectionsAreAccounted ==
  ASSUME IsFiniteSet(Threads), IsFiniteSet(Checkers)
  PROVE  RunSpec => []ConnectionsAccounted
<1> DEFINE IInv == TaskTypes /\ ConnectionsAccounted
<1>1. RunInit => IInv
  <2> SUFFICES ASSUME RunInit PROVE IInv
    OBVIOUS
  <2>1. TaskTypes
    BY PoolAssumption DEF RunInit, TaskTypes, Procs
  <2>2. Holders = {}
    BY DEF RunInit, Holders, Procs
  <2>3. Cardinality(Holders) = 0
    BY <2>2, FS_EmptySet
  <2>4. \A p \in Procs : lock # p /\ pc[p] = "off"
    BY PoolAssumption DEF RunInit
  <2> QED
    BY <2>1, <2>3, <2>4, PoolAssumption DEF RunInit, ConnectionsAccounted
<1>2. IInv /\ [RunNext]_allvars => IInv'
  <2> SUFFICES ASSUME IInv, [RunNext]_allvars PROVE IInv'
    OBVIOUS
  <2>1. TaskTypes'
    BY TypesStep
  <2>2. (free + Cardinality(Holders) = MaxConns)'
    BY HoldersAreFinite, CountStep DEF ConnectionsAccounted
  <2>3. LockIsHeld'
    BY LockStep DEF ConnectionsAccounted, LockIsHeld
  <2> QED
    BY <2>1, <2>2, <2>3 DEF ConnectionsAccounted, LockIsHeld
<1> QED
  BY <1>1, <1>2, PTL DEF RunSpec

-----------------------------------------------------------------------------
\* The buttons use the limiter as RateLimit says, and nothing else touches it.
THEOREM ButtonsUseTheLimiter == RunSpec => Spec
<1>1. RunInit => Init
  BY DEF RunInit
<1>2. [RunNext]_allvars => [Next]_vars
  <2> SUFFICES ASSUME [RunNext]_allvars PROVE [Next]_vars
    OBVIOUS
  <2> USE DEF limiter, vars
  <2>1. ASSUME NEW p \in Procs, Step(p) \/ Raise(p) PROVE UNCHANGED vars
    BY <2>1 DEF Step, Borrow, PoolTimeout, TakeLock, ScanDone, Mailed, CheckDone, Raise
  <2>2. ASSUME NEW t \in Threads, PressRunNow(t) \/ LetThrough(t) \/ TurnAway(t) PROVE Next
    BY <2>2 DEF PressRunNow, LetThrough, TurnAway, Next
  <2>3. CASE Fire \/ (\E c \in Checkers : PressCheck(c)) \/ UNCHANGED allvars
    BY <2>3 DEF Fire, PressCheck, allvars
  <2> QED
    BY <2>1, <2>2, <2>3 DEF RunNext, Next
<1> QED
  BY <1>1, <1>2, PTL DEF RunSpec, Spec

\* Each "Run now" under way was let through by a grant of its own.
Vouches(f) ==
  \A t \in Threads : pc[t] # "off" =>
    /\ f[t] \in 1..Len(granted) /\ granted[f[t]] = since[t]
    /\ \A u \in Threads \ {t} : pc[u] # "off" => f[u] # f[t]

RunsAreVouched ==
  /\ since \in [Threads -> 0..Horizon]
  /\ \E f \in [Threads -> Nat] : Vouches(f)

LEMMA VouchedStep ==
  ASSUME LimiterInv, TaskTypes, RunsAreVouched, [RunNext]_allvars
  PROVE  RunsAreVouched'
<1> USE PoolAssumption DEF TaskTypes, Goto, Procs, Scanners
<1>1. PICK f \in [Threads -> Nat] : Vouches(f)
  BY DEF RunsAreVouched
<1>2. since \in [Threads -> 0..Horizon] /\ granted \in Seq(0..Horizon) /\ Horizon \in Nat
  BY LimitsAssumption DEF RunsAreVouched, LimiterInv, TypeOK
<1>3. ASSUME granted' = granted, since' \in [Threads -> 0..Horizon],
             \A t \in Threads : pc'[t] # "off" => pc[t] # "off" /\ since'[t] = since[t]
      PROVE  RunsAreVouched'
  <2>1. Vouches(f)'
    BY <1>1, <1>3 DEF Vouches
  <2> QED
    BY <1>3, <2>1 DEF RunsAreVouched
<1>4. ASSUME NEW t \in Threads, LetThrough(t) PROVE RunsAreVouched'
  <2> DEFINE g == [f EXCEPT ![t] = Len(granted) + 1]
  <2>1. /\ reading[t] \in 0..Horizon /\ granted' = Append(granted, reading[t])
        /\ since' = [since EXCEPT ![t] = reading[t]]
        /\ pc[t] = "off" /\ pc' = [pc EXCEPT ![t] = "connect"]
    BY <1>4 DEF LetThrough, Allow, LimiterInv, TypeOK
  <2>2. /\ Len(granted) \in Nat /\ Len(granted') = Len(granted) + 1
        /\ \A i \in 1..Len(granted) : granted'[i] = granted[i]
        /\ granted'[Len(granted) + 1] = reading[t]
    BY <1>2, <2>1
  <2>3. g \in [Threads -> Nat] /\ since' \in [Threads -> 0..Horizon]
    BY <1>2, <2>1, <2>2
  <2>4. ASSUME NEW u \in Threads, pc'[u] # "off"
        PROVE  /\ g[u] \in 1..Len(granted') /\ granted'[g[u]] = since'[u]
               /\ \A v \in Threads \ {u} : pc'[v] # "off" => g[v] # g[u]
    <3>1. CASE u = t
      <4>1. g[u] = Len(granted) + 1 /\ since'[u] = reading[t]
        BY <1>2, <2>1, <3>1
      <4>2. ASSUME NEW v \in Threads \ {u}, pc'[v] # "off" PROVE g[v] # g[u]
        <5>1. pc[v] # "off" /\ g[v] = f[v]
          BY <2>1, <3>1, <4>2
        <5> QED
          BY <1>1, <2>2, <4>1, <5>1 DEF Vouches
      <4> QED
        BY <2>2, <4>1, <4>2
    <3>2. CASE u # t
      <4>1. g[u] = f[u] /\ since'[u] = since[u] /\ pc[u] # "off"
        BY <1>2, <2>1, <2>4, <3>2
      <4>2. /\ f[u] \in 1..Len(granted) /\ granted[f[u]] = since[u]
            /\ \A v \in Threads \ {u} : pc[v] # "off" => f[v] # f[u]
        BY <1>1, <4>1 DEF Vouches
      <4>3. ASSUME NEW v \in Threads \ {u}, pc'[v] # "off" PROVE g[v] # g[u]
        <5>1. CASE v = t
          BY <2>2, <4>1, <4>2, <5>1
        <5>2. CASE v # t
          BY <2>1, <4>1, <4>2, <4>3, <5>2
        <5> QED
          BY <5>1, <5>2
      <4> QED
        BY <2>2, <4>1, <4>2, <4>3
    <3> QED
      BY <3>1, <3>2
  <2> HIDE DEF g
  <2>5. PICK h \in [Threads -> Nat] : h = g
    BY <2>3
  <2>6. Vouches(h)'
    BY <2>4, <2>5 DEF Vouches
  <2> QED
    BY <2>3, <2>6 DEF RunsAreVouched
<1>5. ASSUME NEW p \in Procs, Step(p) \/ Raise(p) PROVE RunsAreVouched'
  <2>1. granted' = granted
    BY <1>5 DEF Step, Borrow, PoolTimeout, TakeLock, ScanDone, Mailed, CheckDone, Raise, limiter
  <2>2. \/ since' = since /\ \A q \in Procs : pc'[q] # "off" => pc[q] # "off"
        \/ Forget(p) /\ pc' = [pc EXCEPT ![p] = "off"]
    BY <1>5 DEF Step, Borrow, PoolTimeout, TakeLock, ScanDone, Mailed, CheckDone, Raise
  <2>3. CASE Forget(p) /\ pc' = [pc EXCEPT ![p] = "off"]
    BY <1>2, <1>3, <2>1, <2>3 DEF Forget
  <2> QED
    BY <1>2, <1>3, <2>1, <2>2, <2>3
<1>6. ASSUME NEW t \in Threads, PressRunNow(t) \/ TurnAway(t) PROVE RunsAreVouched'
  BY <1>2, <1>3, <1>6 DEF PressRunNow, TurnAway, ReadClock, Refuse, tasks
<1>7. ASSUME Fire \/ (\E c \in Checkers : PressCheck(c)) PROVE RunsAreVouched'
  BY <1>2, <1>3, <1>7 DEF Fire, PressCheck, limiter
<1>8. ASSUME (Tick /\ UNCHANGED tasks) \/ UNCHANGED allvars PROVE RunsAreVouched'
  BY <1>2, <1>3, <1>8 DEF Tick, tasks, allvars, limiter
<1> QED
  BY <1>4, <1>5, <1>6, <1>7, <1>8 DEF RunNext

LEMMA ServedStep ==
  ASSUME IsFiniteSet(Threads), IsFiniteSet(Checkers),
         LimiterInv, NeverOverLimit, TaskTypes, ConnectionsAccounted, RunsAreVouched,
         [RunNext]_allvars, pc[Trigger] = "connect", pc'[Trigger] = "off"
  PROVE  \E t \in Holders \cap Threads : since[t] < clock - Window + MaxLag
<1> USE PoolAssumption, LimitsAssumption
<1> DEFINE Runs  == Holders \cap Threads
           start == clock - Window + MaxLag
<1>1. free = 0
  <2> USE DEF TaskTypes, Goto, Procs, Scanners
  <2>1. ASSUME NEW p \in Procs, Step(p) PROVE free = 0
    BY <2>1 DEF Step, Borrow, PoolTimeout, TakeLock, ScanDone, Mailed, CheckDone
  <2>2. ASSUME NEW p \in Procs, Raise(p) PROVE FALSE
    BY <2>2 DEF Raise
  <2>3. ASSUME NEW t \in Threads, PressRunNow(t) \/ LetThrough(t) \/ TurnAway(t) PROVE FALSE
    BY <2>3 DEF PressRunNow, LetThrough, TurnAway, tasks
  <2>4. ASSUME Fire \/ (\E c \in Checkers : PressCheck(c)) \/ (Tick /\ UNCHANGED tasks)
               \/ UNCHANGED allvars
        PROVE  FALSE
    BY <2>4 DEF Fire, PressCheck, tasks, allvars
  <2> QED
    BY <2>1, <2>2, <2>3, <2>4 DEF RunNext
<1>2. Cardinality(Holders) = MaxConns /\ IsFiniteSet(Holders)
  BY <1>1, HoldersAreFinite, FS_CardinalityType DEF ConnectionsAccounted
\* A URL check with a connection has the lock: there is one at most.
<1>3. Holders \subseteq Runs \cup {lock}
  BY DEF Holders, ConnectionsAccounted, Procs, Scanners
<1>4. IsFiniteSet(Runs) /\ Cardinality(Runs) \in Nat
  BY <1>2, FS_Intersection, FS_CardinalityType
<1>5. Cardinality(Runs) > MaxAttempts
  <2> HIDE DEF Runs
  <2>1. /\ IsFiniteSet(Runs \cup {lock})
        /\ Cardinality(Runs \cup {lock}) <= Cardinality(Runs) + 1
    <3>1. /\ IsFiniteSet(Runs \cup {lock})
          /\ Cardinality(Runs \cup {lock}) =
               IF lock \in Runs THEN Cardinality(Runs) ELSE Cardinality(Runs) + 1
      BY <1>4, FS_AddElement, Zenon
    <3> QED
      BY <1>4, <3>1
  <2>2. Cardinality(Holders) <= Cardinality(Runs \cup {lock})
    BY <1>3, <2>1, FS_Subset
  <2>3. Cardinality(Runs \cup {lock}) \in Nat
    BY <2>1, FS_CardinalityType
  <2> QED
    BY <1>2, <1>4, <2>1, <2>2, <2>3
<1>6. SUFFICES ASSUME \A t \in Runs : since[t] >= start PROVE FALSE
  BY DEF RunsAreVouched, LimiterInv, TypeOK
<1>7. /\ clock \in 0..Horizon /\ start \in Int /\ granted \in Seq(0..Horizon)
      /\ since \in [Threads -> 0..Horizon]
      /\ \A i \in 1..Len(granted) : granted[i] <= clock
  BY DEF RunsAreVouched, LimiterInv, TypeOK, GrantsAreNearlyOrdered
<1>8. Runs # {}
  BY <1>4, <1>5, FS_EmptySet
<1>9. start <= Horizon
  BY <1>6, <1>7, <1>8
<1> DEFINE from == IF start > 0 THEN start ELSE 0
           G    == GrantedIn(from, from + Window - MaxLag)
<1>10. from \in 0..Horizon /\ start <= from /\ from + Window - MaxLag >= clock
  BY <1>7, <1>9
<1>11. \A t \in Runs : since[t] >= from
  BY <1>6, <1>7
<1> HIDE DEF from, start
<1>12. PICK f \in [Threads -> Nat] : Vouches(f)
  BY DEF RunsAreVouched
<1>13. \A t \in Runs : pc[t] # "off"
  BY DEF Holders, Scanners
<1>14. \A t \in Runs : f[t] \in G
  BY <1>7, <1>10, <1>11, <1>12, <1>13 DEF Vouches, GrantedIn
<1>15. \A t, u \in Runs : f[t] = f[u] => t = u
  BY <1>12, <1>13 DEF Vouches
<1>16. IsFiniteSet(G) /\ Cardinality(G) <= MaxAttempts /\ Cardinality(G) \in Nat
  <2>1. Len(granted) \in Nat /\ G \subseteq 1..Len(granted)
    BY <1>7 DEF GrantedIn
  <2>2. IsFiniteSet(1..Len(granted))
    BY <2>1, FS_Interval
  <2> QED
    BY <1>10, <2>1, <2>2, FS_Subset, FS_CardinalityType DEF NeverOverLimit
<1> HIDE DEF G, Runs
<1>17. Cardinality(Runs) <= Cardinality(G)
  <2> DEFINE h == [t \in Runs |-> f[t]]
  <2>1. h \in Injection(Runs, G)
    BY <1>14, <1>15 DEF Injection, IsInjective
  <2> HIDE DEF h
  <2> QED
    BY <1>16, <2>1, FS_Injection
<1> QED
  BY <1>4, <1>5, <1>16, <1>17

LEMMA VouchedInit == RunInit => RunsAreVouched
<1> SUFFICES ASSUME RunInit PROVE RunsAreVouched
  OBVIOUS
<1>1. Vouches([t \in Threads |-> 0])
  BY DEF RunInit, Vouches, Procs, Scanners
<1> QED
  BY <1>1, LimitsAssumption DEF RunInit, RunsAreVouched

LEMMA LimiterInRuns == RunSpec => []LimiterInv
  BY ButtonsUseTheLimiter, LimiterInit, LimiterStep, PTL DEF Spec

LEMMA TypesInRuns == RunSpec => []TaskTypes
<1>1. RunInit => TaskTypes
  BY PoolAssumption DEF RunInit, TaskTypes, Procs
<1> QED
  BY <1>1, TypesStep, PTL DEF RunSpec

\* The same two facts about the limiter in front of "Run now".
THEOREM RunsAreLimited == RunSpec => []NeverOverLimit /\ RefusalJustified
  BY ButtonsUseTheLimiter, LimitIsKept, RefusalsAreJustified, PTL

(* The scheduled run finds no connection only while a "Run now" from       *)
(* before the current window still has one, in a pool of more than         *)
(* MaxAttempts + 1 connections: the presses of one window cannot starve    *)
(* the scheduler, and those of several can, when runs last longer than     *)
(* the window (routes_dashboard.py:14-20).                                 *)
THEOREM SchedulerIsServed ==
  ASSUME IsFiniteSet(Threads), IsFiniteSet(Checkers)
  PROVE  RunSpec => SchedulerServed
<1>1. LimiterInv /\ NeverOverLimit /\ TaskTypes /\ ConnectionsAccounted /\ RunsAreVouched
      /\ [RunNext]_allvars
      => [pc[Trigger] = "connect" /\ pc'[Trigger] = "off" =>
            \E t \in Holders \cap Threads : since[t] < clock - Window + MaxLag]_allvars
  BY ServedStep
<1>2. LimiterInv /\ TaskTypes /\ RunsAreVouched /\ [RunNext]_allvars => RunsAreVouched'
  BY VouchedStep
<1>3. RunSpec => []RunsAreVouched
  BY <1>2, VouchedInit, LimiterInRuns, TypesInRuns, PTL DEF RunSpec
<1>4. RunSpec => []ConnectionsAccounted
  BY ConnectionsAreAccounted
<1> QED
  BY <1>1, <1>3, <1>4, LimiterInRuns, TypesInRuns, RunsAreLimited, PTL
     DEF RunSpec, SchedulerServed

-----------------------------------------------------------------------------
\* p is where its next step takes neither the lock nor anybody's leave: a URL
\* check that borrows a connection or times out (Borrow needs one free and
\* PoolTimeout none), or work that ends (ScanDone, CheckDone).
HasWork(p) ==
  \/ pc[p] = "connect" /\ p \in Checkers
  \/ pc[p] = "work"

\* What HolderCanGoOn rests on, without ENABLED: the holder of the lock never
\* waits for it, its next step is a borrowed connection, a timeout or the end
\* of its work, with the second and the third the lock is given back, and no
\* other task, press or tick moves the holder or takes the lock from it.
LockGoesRound ==
  [][\A p \in Procs : lock = p =>
       /\ Step(p) => \/ lock' = NoProc
                     \/ lock' = p /\ pc[p] = "connect" /\ pc'[p] = "work"
       /\ \/ Step(p) \/ Raise(p)
          \/ lock' = p /\ pc'[p] = pc[p]]_allvars

\* No task that holds _run_lock waits for the lock (db.py's pool gives up on
\* whoever waits for a connection).
THEOREM HoldersHaveAStep ==
  ASSUME IsFiniteSet(Threads), IsFiniteSet(Checkers)
  PROVE  RunSpec => LockGoesRound /\ [](\A p \in Procs : lock = p => HasWork(p))
<1> USE PoolAssumption DEF TaskTypes, Goto, Procs, Scanners
<1>1. TaskTypes /\ ConnectionsAccounted => \A p \in Procs : lock = p => HasWork(p)
  BY DEF ConnectionsAccounted, HasWork
<1>2. TaskTypes /\ ConnectionsAccounted /\ [RunNext]_allvars =>
        [\A p \in Procs : lock = p =>
           /\ Step(p) => \/ lock' = NoProc
                         \/ lock' = p /\ pc[p] = "connect" /\ pc'[p] = "work"
           /\ \/ Step(p) \/ Raise(p)
              \/ lock' = p /\ pc'[p] = pc[p]]_allvars
  <2> SUFFICES ASSUME TaskTypes, ConnectionsAccounted, RunNext, NEW p \in Procs, lock = p
               PROVE  /\ Step(p) => \/ lock' = NoProc
                                    \/ lock' = p /\ pc[p] = "connect" /\ pc'[p] = "work"
                      /\ \/ Step(p) \/ Raise(p)
                         \/ lock' = p /\ pc'[p] = pc[p]
    OBVIOUS
  <2>0. HasWork(p)
    BY <1>1
  <2>1. ASSUME Step(p)
        PROVE  \/ lock' = NoProc
               \/ lock' = p /\ pc[p] = "connect" /\ pc'[p] = "work"
    BY <2>0, <2>1
       DEF HasWork, Step, Borrow, PoolTimeout, TakeLock, ScanDone, Mailed, CheckDone
  <2>2. ASSUME NEW r \in Procs, r # p, Step(r) PROVE lock' = p /\ pc'[p] = pc[p]
    <3>1. ~ (IF r \in Checkers THEN pc[r] \in {"connect", "work"} ELSE pc[r] = "work")
      BY <2>2 DEF ConnectionsAccounted
    <3> QED
      BY <2>2, <3>1 DEF Step, Borrow, PoolTimeout, TakeLock, ScanDone, Mailed, CheckDone
  <2>3. ASSUME NEW r \in Procs, r # p, Raise(r) PROVE lock' = p /\ pc'[p] = pc[p]
    BY <2>3 DEF Raise
  <2>4. ASSUME NEW t \in Threads, PressRunNow(t) \/ LetThrough(t) \/ TurnAway(t)
        PROVE  lock' = p /\ pc'[p] = pc[p]
    BY <2>0, <2>4 DEF PressRunNow, LetThrough, TurnAway, tasks, HasWork
  <2>5. ASSUME NEW c \in Checkers, PressCheck(c) PROVE lock' = p /\ pc'[p] = pc[p]
    BY <2>0, <2>5 DEF PressCheck, HasWork
  <2>6. ASSUME Fire \/ (Tick /\ UNCHANGED tasks) PROVE lock' = p /\ pc'[p] = pc[p]
    BY <2>0, <2>6 DEF Fire, tasks, HasWork
  <2> QED
    BY <2>1, <2>2, <2>3, <2>4, <2>5, <2>6 DEF RunNext
<1>3. RunSpec => []ConnectionsAccounted
  BY ConnectionsAreAccounted
<1> QED
  BY <1>1, <1>2, <1>3, TypesInRuns, PTL DEF RunSpec, LockGoesRound
=============================================================================
