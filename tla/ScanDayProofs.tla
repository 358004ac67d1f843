---------------------------- MODULE ScanDayProofs ----------------------------
(***************************************************************************)
(* Theorems about ScanDay for every number of users and every cut of the   *)
(* day into phases: that no day goes by without its loop, that every loop  *)
(* gives each user a turn, and that it comes to its end.                   *)
(***************************************************************************)
EXTENDS ScanDay, WellFoundedInduction, TLAPS

USE DEF vars, day, loops

-----------------------------------------------------------------------------
(* The variables of the loops keep their types when a loop starts or ends. *)
LoopsOK ==
  /\ pc \in [Loops -> {"idle", "next", "scan", "sweep"}]
  /\ snap \in [Loops -> SUBSET Users]
  /\ left \in [Loops -> SUBSET Users]
  /\ \A t \in Loops : left[t] \subseteq snap[t]
  /\ \A t \in Loops : pc[t] = "scan" => left[t] # {}
  /\ broken \in [Loops -> BOOLEAN]

LEMMA LoopTyping ==
  ASSUME LoopsOK, sourced \subseteq Users, NEW t \in Loops, StartLoop(t) \/ EndLoop(t)
  PROVE  LoopsOK'
  BY DEF LoopsOK, StartLoop, EndLoop

LEMMA TypingStarts == Init => TypeOK
<1>1. 0 \in 0..LastPhase /\ 0 \in 0..MaxFaults /\ 0 \in 0..MaxEdits
  BY PhasesAssumption, BoundsAssumption
<1> QED
  BY <1>1 DEF Init, TypeOK

LEMMA TypingStep == TypeOK /\ [Next]_vars => TypeOK'
<1> SUFFICES ASSUME TypeOK, [Next]_vars
             PROVE  TypeOK'
  OBVIOUS
<1> DEFINE Rest == /\ phase \in 0..LastPhase
                   /\ armed \in BOOLEAN /\ up \in BOOLEAN /\ ranToday \in BOOLEAN
                   /\ looped \in BOOLEAN /\ sourced \subseteq Users /\ held \subseteq Users
                   /\ faults \in 0..MaxFaults /\ edits \in 0..MaxEdits
<1>0. TypeOK <=> LoopsOK /\ Rest
  BY DEF TypeOK, LoopsOK
<1>00. TypeOK' <=> LoopsOK' /\ Rest'
  BY DEF TypeOK, LoopsOK
<1> HIDE DEF Rest
<1>1. CASE UNCHANGED vars
  BY <1>1 DEF TypeOK
<1>2. CASE Tick
  <2>1. phase' \in 0..LastPhase
    BY <1>2, PhasesAssumption DEF Tick, TypeOK
  <2>2. armed' \in BOOLEAN /\ ranToday' \in BOOLEAN /\ up' \in BOOLEAN /\ looped' \in BOOLEAN
    BY <1>2 DEF Tick, TypeOK
  <2> QED
    BY <1>2, <2>1, <2>2 DEF Tick, TypeOK
<1>3. CASE CronFires
  <2>1. Rest'
    BY <1>3, <1>0 DEF CronFires, Rest
  <2>2. LoopsOK'
    BY <1>3, <1>0, LoopTyping DEF CronFires, Rest, Loops, LoopsOK
  <2> QED
    BY <2>1, <2>2, <1>00
<1>4. CASE RunNowForAll
  <2>1. Rest'
    BY <1>4, <1>0 DEF RunNowForAll, Rest
  <2>2. LoopsOK'
    BY <1>4, <1>0, LoopTyping DEF RunNowForAll, Rest, Loops
  <2> QED
    BY <2>1, <2>2, <1>00
<1>5. CASE Stop
  <2>1. faults' \in 0..MaxFaults
    BY <1>5, BoundsAssumption DEF Stop, TypeOK
  <2> QED
    BY <1>5, <2>1 DEF Stop, TypeOK
<1>6. CASE Restart
  <2>1. Rest'
    <3>1. armed' \in BOOLEAN /\ (looped' = TRUE \/ looped' = looped)
      BY <1>6 DEF Restart
    <3> QED
      BY <1>6, <1>0, <3>1 DEF Restart, Rest
  <2>2. LoopsOK'
    BY <1>6, <1>0, LoopTyping DEF Restart, Rest, Loops, LoopsOK
  <2> QED
    BY <2>1, <2>2, <1>00
<1>7. ASSUME NEW u \in Users, RunNowForOne(u)
      PROVE  TypeOK'
  BY <1>7 DEF RunNowForOne, TypeOK
<1>8. ASSUME NEW u \in Users, AddSource(u) \/ DeleteSources(u)
      PROVE  TypeOK'
  BY <1>8, BoundsAssumption DEF AddSource, DeleteSources, TypeOK
<1>9. ASSUME NEW t \in Loops, RecordEmptyRun(t) \/ AllPassed(t)
      PROVE  TypeOK'
  BY <1>9 DEF RecordEmptyRun, AllPassed, TypeOK
<1>10. ASSUME NEW t \in Loops, Sweep(t)
       PROVE  TypeOK'
  <2>1. Rest'
    BY <1>10, <1>0 DEF Sweep, Rest
  <2>2. LoopsOK'
    BY <1>10, <1>0, LoopTyping DEF Sweep, Rest
  <2> QED
    BY <2>1, <2>2, <1>00
<1>11. ASSUME NEW t \in Loops, NEW u \in Users, PassOver(t, u) \/ ScanUser(t, u)
       PROVE  TypeOK'
  BY <1>11 DEF PassOver, ScanUser, Reached, Passed, TypeOK
<1>12. ASSUME NEW t \in Loops, NEW u \in Users, FinishUser(t, u)
       PROVE  TypeOK'
  BY <1>12 DEF FinishUser, Passed, TypeOK
<1>13. ASSUME NEW t \in Loops, NEW u \in Users, UserRaises(t, u)
       PROVE  TypeOK'
  BY <1>13 DEF UserRaises, RunCutShort, Passed, TypeOK
<1>14. ASSUME NEW t \in Loops, NEW u \in Users, UserAborts(t, u)
       PROVE  TypeOK'
  <2>1. faults' \in 0..MaxFaults
    BY <1>14, BoundsAssumption DEF UserAborts, TypeOK
  <2> QED
    BY <1>14, <2>1 DEF UserAborts, RunCutShort, Passed, TypeOK
<1> QED
  BY <1>1, <1>2, <1>3, <1>4, <1>5, <1>6, <1>7, <1>8, <1>9, <1>10, <1>11, <1>12, <1>13, <1>14
     DEF Next, Loop

(* Every variable of the day and of its loops keeps its type.              *)
THEOREM DayTypeCorrect == Spec => []TypeOK
  BY TypingStarts, TypingStep, PTL DEF Spec

-----------------------------------------------------------------------------
(* What a running container owes the day: the trigger, if its time is yet  *)
(* to come, and else a loop that began, or a run on record.                *)
DayInv ==
  /\ TypeOK
  /\ up /\ ~armed => looped \/ ranToday
  /\ up /\ phase > CronPhase => ~armed

LEMMA DayInvStays == DayInv /\ [Next]_vars => DayInv'
<1> SUFFICES ASSUME DayInv, [Next]_vars PROVE DayInv'
  OBVIOUS
<1> USE DEF DayInv
<1>0. TypeOK'
  BY TypingStep
<1>1. CASE Tick
  <2>1. phase \in Int /\ CronPhase \in Int /\ LastPhase \in Int /\ CronPhase >= 1
    BY PhasesAssumption DEF TypeOK
  <2>2. CASE phase < LastPhase
    <3>1. /\ phase' = phase + 1 /\ UNCHANGED <<armed, ranToday, looped, up>>
          /\ ~(up /\ armed /\ phase = CronPhase)
      BY <1>1, <2>2 DEF Tick
    <3> QED
      BY <1>0, <2>1, <3>1
  <2>3. CASE ~(phase < LastPhase)
    BY <1>0, <1>1, <2>1, <2>3 DEF Tick
  <2> QED
    BY <2>2, <2>3
<1>2. CASE CronFires
  BY <1>0, <1>2 DEF CronFires
<1>3. CASE Restart
  <2>1. phase \in Int /\ CronPhase \in Int /\ HourPhase \in Int /\ HourPhase <= CronPhase
    BY PhasesAssumption DEF TypeOK
  <2>2. /\ phase' = phase /\ ranToday' = ranToday
        /\ CatchUpNeeded => looped'
    BY <1>3 DEF Restart
  <2>3. armed' <=> phase < CronPhase
    BY <1>3 DEF Restart
  <2>4. ~armed' => looped' \/ ranToday'
    <3>1. ~armed' => phase >= HourPhase
      BY <2>1, <2>3
    <3> QED
      BY <2>2, <3>1 DEF CatchUpNeeded
  <2>5. phase > CronPhase => ~armed'
    BY <2>1, <2>3
  <2> QED
    BY <1>0, <2>2, <2>4, <2>5
<1>4. CASE Stop
  BY <1>0, <1>4 DEF Stop
\* Nothing else moves the clock, and a run, once recorded, stays on record.
<1>5. ASSUME UNCHANGED <<phase, armed, up, looped>>, ranToday => ranToday' PROVE DayInv'
  BY <1>0, <1>5
<1>6. CASE RunNowForAll \/ UNCHANGED vars
  BY <1>5, <1>6 DEF RunNowForAll
<1>7. ASSUME NEW u \in Users, RunNowForOne(u) \/ AddSource(u) \/ DeleteSources(u) PROVE DayInv'
  BY <1>5, <1>7 DEF RunNowForOne, AddSource, DeleteSources
<1>8. ASSUME NEW t \in Loops, Loop(t) PROVE DayInv'
  BY <1>5, <1>8 DEF Loop, RecordEmptyRun, AllPassed, Sweep, PassOver, ScanUser, FinishUser,
                    UserRaises, UserAborts, RunCutShort
<1> QED
  BY <1>1, <1>2, <1>3, <1>4, <1>6, <1>7, <1>8 DEF Next

(* Whatever the hour and the minute of RUN_CRON, and whatever stops,       *)
(* restarts, midnights and loops that last for days there are              *)
(* (scheduler.create_scheduler, catch_up_missed_run).                      *)
THEOREM DaysAreCovered == Spec => DayCovered
<1>1. Init => DayInv
  BY TypingStarts, PhasesAssumption DEF Init, DayInv
<1>2. DayInv /\ [Next]_vars =>
        [up /\ phase = LastPhase /\ phase' = 0 => looped \/ ranToday]_vars
  <2> SUFFICES ASSUME DayInv, Next, up, phase = LastPhase, phase' = 0, ~looped, ~ranToday
               PROVE  FALSE
    OBVIOUS
  <2>1. armed /\ LastPhase = CronPhase
    BY PhasesAssumption DEF DayInv
  <2>2. ~Tick
    BY <2>1 DEF Tick
  <2>3. phase' = phase
    BY <2>2 DEF Next, CronFires, RunNowForAll, Stop, Restart, RunNowForOne, AddSource,
                DeleteSources, Loop, RecordEmptyRun, AllPassed, Sweep, PassOver, ScanUser,
                FinishUser, UserRaises, UserAborts, RunCutShort
  <2> QED
    BY <2>3, PhasesAssumption
<1> QED
  BY <1>1, <1>2, DayInvStays, PTL DEF Spec, DayCovered

-----------------------------------------------------------------------------
(* The turns of the users.                                                 *)

\* The user with the lowest id is one of those left.
LEMMA FirstInLine ==
  ASSUME NEW S \in SUBSET Nat, S # {}
  PROVE  Min(S) \in S
<1>1. PICK n \in S : \A m \in S : ~ (<<m, n>> \in OpToRel(<, Nat))
  BY NatLessThanWellFounded, WFMin
<1>2. \A m \in S : ~ (m < n)
  BY <1>1 DEF OpToRel
<1>3. \A m \in S : n <= m
  BY <1>2
<1> QED
  BY <1>3 DEF Min

(* Only a loop that is among its users has any left, and no loop outlives  *)
(* the container.                                                          *)
LoopsAccounted ==
  /\ \A t \in Loops : pc[t] \in {"idle", "sweep"} => left[t] = {}
  /\ ~up => \A t \in Loops : pc[t] = "idle"

(* u's turn on loop t is over: the run has ended, one way or another, or   *)
(* the user was passed over, which an admin's run on an intact connection  *)
(* never does.                                                             *)
TurnOver(t, u) ==
  /\ u = Min(left[t]) /\ left'[t] = left[t] \ {u} /\ pc'[t] = "next"
  /\ pc[t] = "scan" \/ (pc[t] = "next" /\ (broken[t] \/ t # "runnow"))

\* Loop t comes nearer to its end.
LoopNearer(t) ==
  \/ \E u \in left[t] : TurnOver(t, u)
  \/ /\ left'[t] = left[t]
     /\ <<pc[t], pc'[t]>> \in {<<"next", "scan">>, <<"next", "sweep">>, <<"sweep", "idle">>}
     /\ pc'[t] # "scan" => left[t] = {}

Untouched(t) == left'[t] = left[t] /\ pc'[t] = pc[t]

\* What a step of loop r is for loop t.
LEMMA LoopSteps ==
  ASSUME TypeOK, LoopsAccounted, NEW t \in Loops, NEW r \in Loops, Loop(r)
  PROVE  IF r = t THEN LoopNearer(t) ELSE Untouched(t)
<1> DEFINE Goal == IF r = t THEN LoopNearer(t) ELSE Untouched(t)
<1> USE DEF TypeOK, Untouched
<1>1. ASSUME RecordEmptyRun(r) \/ AllPassed(r) PROVE Goal
  BY <1>1 DEF RecordEmptyRun, AllPassed, LoopNearer
<1>2. ASSUME Sweep(r) PROVE Goal
  BY <1>2 DEF Sweep, EndLoop, LoopNearer, LoopsAccounted
<1>3. ASSUME NEW u \in Users, ScanUser(r, u) PROVE Goal
  BY <1>3 DEF ScanUser, Reached, LoopNearer
<1>4. ASSUME NEW u \in Users,
             \/ PassOver(r, u) \/ FinishUser(r, u) \/ UserRaises(r, u) \/ UserAborts(r, u)
      PROVE  Goal
  <2>1. left[r] \in SUBSET Nat /\ left[r] # {} /\ u = Min(left[r])
    BY <1>4, UsersAssumption DEF PassOver, Reached, FinishUser, UserRaises, UserAborts
  <2>2. u \in left[r]
    BY <2>1, FirstInLine
  <2>3. left' = [left EXCEPT ![r] = @ \ {u}]
    BY <1>4 DEF PassOver, FinishUser, UserRaises, UserAborts, Passed
  <2>4. pc' = [pc EXCEPT ![r] = "next"]
    BY <1>4 DEF PassOver, Reached, FinishUser, UserRaises, UserAborts
  <2>5. pc[r] = "scan" \/ (pc[r] = "next" /\ (broken[r] \/ r # "runnow"))
    BY <1>4 DEF PassOver, Reached, FinishUser, UserRaises, UserAborts
  <2>6. CASE r = t
    <3>1. TurnOver(t, u)
      BY <2>1, <2>3, <2>4, <2>5, <2>6 DEF TurnOver
    <3> QED
      BY <2>2, <2>6, <3>1 DEF LoopNearer
  <2>7. CASE r # t
    BY <2>3, <2>4, <2>7
  <2> QED
    BY <2>6, <2>7
<1> QED
  BY <1>1, <1>2, <1>3, <1>4 DEF Loop

\* What any other step is.
LEMMA OtherSteps ==
  ASSUME TypeOK, LoopsAccounted, NEW t \in Loops, Next, \A r \in Loops : ~Loop(r)
  PROVE  \/ Untouched(t) /\ (~up' => ~up)
         \/ pc[t] = "idle" /\ pc'[t] = "next" /\ up'
         \/ ~up' /\ (\A r \in Loops : pc'[r] = "idle" /\ left'[r] = {})
<1> USE DEF TypeOK, Untouched
<1>1. ASSUME Tick PROVE Untouched(t) /\ (~up' => ~up)
  BY <1>1 DEF Tick
<1>2. ASSUME NEW u \in Users, RunNowForOne(u) \/ AddSource(u) \/ DeleteSources(u)
      PROVE  Untouched(t) /\ (~up' => ~up)
  BY <1>2 DEF RunNowForOne, AddSource, DeleteSources
<1>3. ASSUME CronFires \/ RunNowForAll
      PROVE  (Untouched(t) /\ (~up' => ~up)) \/ (pc[t] = "idle" /\ pc'[t] = "next" /\ up')
  BY <1>3 DEF CronFires, RunNowForAll, StartLoop, Loops
<1>4. ASSUME Stop
      PROVE  ~up' /\ (\A r \in Loops : pc'[r] = "idle" /\ left'[r] = {})
  BY <1>4 DEF Stop
<1>5. ASSUME Restart
      PROVE  up' /\ (Untouched(t) \/ (pc[t] = "idle" /\ pc'[t] = "next"))
  BY <1>5 DEF Restart, StartLoop, LoopsAccounted, Loops
<1> QED
  BY <1>1, <1>2, <1>3, <1>4, <1>5 DEF Next

LEMMA LoopsStayAccounted == TypeOK /\ LoopsAccounted /\ [Next]_vars => LoopsAccounted'
<1> SUFFICES ASSUME TypeOK, LoopsAccounted, [Next]_vars PROVE LoopsAccounted'
  OBVIOUS
<1>1. CASE UNCHANGED vars
  BY <1>1 DEF LoopsAccounted
<1>2. ASSUME NEW r \in Loops, Loop(r) PROVE LoopsAccounted'
  <2>1. up /\ up'
    BY <1>2 DEF Loop, LoopsAccounted, RecordEmptyRun, AllPassed, Sweep, PassOver, ScanUser,
                Reached, FinishUser, UserRaises, UserAborts, RunCutShort
  <2>2. ASSUME NEW t \in Loops PROVE pc'[t] \in {"idle", "sweep"} => left'[t] = {}
    <3>1. IF r = t THEN LoopNearer(t) ELSE Untouched(t)
      BY <1>2, LoopSteps
    <3> QED
      BY <3>1 DEF LoopNearer, TurnOver, Untouched, LoopsAccounted
  <2> QED
    BY <2>1, <2>2 DEF LoopsAccounted
<1>3. CASE Next /\ \A r \in Loops : ~Loop(r)
  BY <1>3, OtherSteps DEF Untouched, LoopsAccounted
<1> QED
  BY <1>1, <1>2, <1>3

LEMMA AccountedAlways == Spec => [](TypeOK /\ LoopsAccounted)
<1>1. Init => LoopsAccounted
  BY DEF Init, LoopsAccounted
<1> QED
  BY <1>1, LoopsStayAccounted, DayTypeCorrect, PTL DEF Spec

(* Nobody is forgotten: while the container runs, a user leaves the users  *)
(* a loop has yet to reach only by a turn of their own, whatever the runs  *)
(* of the users before raised, and whatever the other loops, the edits of  *)
(* the sources and midnight do.  A loop starts and sweeps with none left.  *)
TurnsKept ==
  [][\A t \in Loops : \A u \in left[t] : u \notin left'[t] => TurnOver(t, u) \/ ~up']_vars

(* The cases are the ways a run can end (scheduler.run_and_notify catches  *)
(* what a user's run raises) and the reasons to pass a user over.          *)
THEOREM TurnsAreKept == Spec => TurnsKept /\ []LoopsAccounted
<1>1. TypeOK /\ LoopsAccounted /\ [Next]_vars =>
        [\A t \in Loops : \A u \in left[t] : u \notin left'[t] => TurnOver(t, u) \/ ~up']_vars
  <2> SUFFICES ASSUME TypeOK, LoopsAccounted, Next, NEW t \in Loops, NEW u \in left[t],
                      u \notin left'[t], up'
               PROVE  TurnOver(t, u)
    OBVIOUS
  <2>1. CASE \A r \in Loops : ~Loop(r)
    BY <2>1, OtherSteps DEF Untouched, LoopsAccounted
  <2>2. ASSUME NEW r \in Loops, Loop(r) PROVE TurnOver(t, u)
    <3>1. IF r = t THEN LoopNearer(t) ELSE Untouched(t)
      BY <2>2, LoopSteps
    <3>2. PICK v \in left[t] : TurnOver(t, v)
      BY <3>1 DEF LoopNearer, Untouched
    <3> QED
      BY <3>2 DEF TurnOver
  <2> QED
    BY <2>1, <2>2
<1> QED
  BY <1>1, AccountedAlways, PTL DEF Spec, TurnsKept

(* The safety half of EveryoneScanned and LeftoversSwept: a loop's every   *)
(* step takes a user off its list, or goes on to the one it is at, or to   *)
(* the sweep, and ends after it; nobody else's step moves a loop that runs,*)
(* except by stopping the container.                                       *)
LoopsNearer ==
  [][\A t \in Loops :
       /\ Loop(t) => LoopNearer(t)
       /\ pc[t] # "idle" /\ up' => LoopNearer(t) \/ Untouched(t)]_vars

(* So what TLC's liveness runs add is only that a loop takes its steps.    *)
THEOREM LoopsNearTheirEnd == Spec => LoopsNearer
<1>1. TypeOK /\ LoopsAccounted /\ [Next]_vars =>
        [\A t \in Loops :
           /\ Loop(t) => LoopNearer(t)
           /\ pc[t] # "idle" /\ up' => LoopNearer(t) \/ Untouched(t)]_vars
  <2> SUFFICES ASSUME TypeOK, LoopsAccounted, Next, NEW t \in Loops
               PROVE  /\ Loop(t) => LoopNearer(t)
                      /\ pc[t] # "idle" /\ up' => LoopNearer(t) \/ Untouched(t)
    OBVIOUS
  <2>1. ASSUME NEW r \in Loops, Loop(r)
        PROVE  IF r = t THEN LoopNearer(t) ELSE Untouched(t)
    BY <2>1, LoopSteps
  <2>2. CASE \A r \in Loops : ~Loop(r)
    BY <2>2, OtherSteps DEF Untouched
  <2> QED
    BY <2>1, <2>2
<1> QED
  BY <1>1, AccountedAlways, PTL DEF Spec, LoopsNearer
=============================================================================
