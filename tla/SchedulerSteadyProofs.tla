------------------------- MODULE SchedulerSteadyProofs -------------------------
(***************************************************************************)
(* Proofs about the ordinary case of Scheduler, SteadySpec: time runs       *)
(* forward, the worker sleeps no longer than CalculateWaitTimeout allows    *)
(* and may be held up in a call that blocks, and it may die and be          *)
(* restarted at any moment.                                                 *)
(***************************************************************************)
EXTENDS SchedulerProofs, WellFoundedInduction

-----------------------------------------------------------------------------
(* Least and greatest elements.                                             *)

LEMMA LeastNatural ==
    ASSUME NEW T \in SUBSET Nat, T # {}
    PROVE  \E x \in T : \A y \in T : x <= y
<1>1. PICK x \in T : \A y \in T : ~(<<y, x>> \in OpToRel(<, Nat))
  BY NatLessThanWellFounded, WFMin, Zenon
<1>2. \A y \in T : ~(y < x)
  BY <1>1 DEF OpToRel
<1> QED BY <1>2

LEMMA MinOfNaturals ==
    ASSUME NEW T \in SUBSET Nat, T # {}
    PROVE  Min(T) \in T /\ \A y \in T : Min(T) <= y
BY LeastNatural DEF Min

LEMMA MaxOfNaturals ==
    ASSUME NEW T \in SUBSET Nat, T # {}, NEW b \in Nat, \A y \in T : y <= b
    PROVE  Max(T) \in T /\ \A y \in T : Max(T) >= y
<1> DEFINE U == {n \in Nat : \A y \in T : y <= n}
<1>1. PICK n \in U : \A k \in U : n <= k
  BY LeastNatural
<1>2. n \in T
  <2>1. SUFFICES ASSUME n \notin T PROVE FALSE
    OBVIOUS
  <2>2. n \in Nat /\ T # {} /\ \A y \in T : y \in Nat /\ y < n
    BY <2>1
  <2>3. PICK k \in Nat : k = n - 1
    <3>1. PICK z \in Nat : z < n
      BY <2>2
    <3>2. n \in Nat /\ n - 1 \in Nat
      BY <2>2, <3>1
    <3> QED BY <3>2
  <2>4. \A y \in T : y <= k
    BY <2>2, <2>3
  <2>5. k \in U
    BY <2>4
  <2> QED BY <1>1, <2>2, <2>3, <2>5
<1> QED BY <1>2 DEF Max


-----------------------------------------------------------------------------
(* The inductive invariant.                                                 *)

(* StartPendingTasks made lastMinute the minute of its call; since then the *)
(* worker has slept once at most, and was held up for as long as held says. *)
Forward ==
    /\ now >= Minute
    /\ pc # "start" => lastMinute # 0
    /\ lastMinute # 0 =>
          /\ lastMinute <= now
          /\ now < lastMinute + Minute + held + (IF pc = "wait" THEN 0 ELSE MaxSleep)

(* Whatever was queued lies behind lastMinute, or behind the clock while a  *)
(* restarted worker has not set lastMinute yet.                             *)
QueuedBehind ==
    \A j \in Jobs : \A m \in Minutes : queued[j][m] > 0 => m <= Last

LongestInterval(j) == Max({s.secondsInterval : s \in ScheduleChoices[j]})

(* nextRunTime was armed when the job was last due or first seen, and the   *)
(* worker does not sleep past it, though it may be held up beyond it.       *)
Armed(j) ==
    /\ fired[j] <= now
    /\ nextRunTime[j] # 0 => nextRunTime[j] <= fired[j] + LongestInterval(j)
    /\ schedule[j].SECONDS /\ nextRunTime[j] = 0 /\ lastMinute # 0 =>
          pc = "start" /\ fired[j] = now
    /\ schedule[j].SECONDS /\ pc # "start" => now <= nextRunTime[j] + held

SteadyInv ==
    /\ TypeOK /\ Forward
    /\ QueuedBehind /\ AtMostOncePerMinute
    /\ HeldBriefly => NoMinuteMissed
    /\ \A j \in Jobs : Armed(j)


LEMMA TypeSteady ==
    ASSUME TypeOK, [SteadyNext]_vars
    PROVE  TypeOK'
<1>1. CASE WaitForEvent
  BY <1>1 DEF WaitForEvent, TypeOK
<1>2. CASE RestartWorker
  BY <1>2, ZeroIsMinute, ConstantsAssumption DEF RestartWorker, TypeOK
<1>3. CASE WorkerIsHeld
  <2>1. held' \in 0..MaxHeld
    BY <1>3, ConstantsAssumption DEF WorkerIsHeld, TypeOK
  <2> QED BY <1>3, <2>1 DEF WorkerIsHeld, TypeOK
<1>4. CASE ~WaitForEvent /\ ~RestartWorker /\ ~WorkerIsHeld
  BY <1>4, TypeNext DEF SteadyNext, Next
<1> QED BY <1>1, <1>2, <1>3, <1>4

LEMMA Clocks ==
    ASSUME TypeOK
    PROVE  /\ now \in Nat /\ lastMinute \in Nat /\ Minute \in Nat /\ Minute > 0
           /\ StartOfMinute(now) \in Nat /\ Last \in Nat
           /\ StartOfMinute(now) <= now /\ now < StartOfMinute(now) + Minute
           /\ held \in Nat /\ held <= MaxHeld /\ MaxHeld \in Nat /\ MaxSleep \in Nat
<1>1. now \in Nat /\ lastMinute \in Nat /\ StartOfMinute(now) \in Nat /\ Last \in Nat
  <2>1. now \in Nat
    BY ConstantsAssumption DEF TypeOK, Time
  <2>2. lastMinute \in Minutes
    BY DEF TypeOK
  <2> QED BY <2>1, <2>2, LastIsMinute, MinutesAreNat
<1>2. StartOfMinute(now) <= now /\ now < StartOfMinute(now) + Minute
  BY <1>1, DivisionByMinute
<1>3. held \in Nat /\ held <= MaxHeld /\ MaxHeld \in Nat /\ MaxSleep \in Nat
  BY ConstantsAssumption DEF TypeOK
<1> QED BY <1>1, <1>2, <1>3, MinuteAssumption

LEMMA Intervals ==
    ASSUME TypeOK, NEW j \in Jobs
    PROVE  /\ nextRunTime[j] \in Nat /\ fired[j] \in Nat
           /\ schedule[j] \in ScheduleChoices[j]
           /\ schedule[j].secondsInterval \in Nat
           /\ schedule[j].SECONDS => schedule[j].secondsInterval > 0
<1>1. schedule[j] \in ScheduleChoices[j] /\ nextRunTime[j] \in Nat /\ fired[j] \in Nat
  BY ConstantsAssumption DEF TypeOK, Time
<1>2. /\ schedule[j].secondsInterval \in Nat
      /\ schedule[j].SECONDS => schedule[j].secondsInterval > 0
  BY <1>1, MinuteAssumption, SchedulesAssumption
<1> QED BY <1>1, <1>2

(* No interval of a job is longer than the longest one.                     *)
LEMMA Longest ==
    ASSUME TypeOK, NEW j \in Jobs, NEW s \in ScheduleChoices[j]
    PROVE  LongestInterval(j) \in Nat /\ s.secondsInterval <= LongestInterval(j)
<1> DEFINE T == {c.secondsInterval : c \in ScheduleChoices[j]}
<1>1. Minute \in Nat
  BY MinuteAssumption
<1>2. T \in SUBSET Nat /\ T # {} /\ \A y \in T : y <= Minute
  BY <1>1, SchedulesAssumption
<1>3. Max(T) \in T /\ \A y \in T : Max(T) >= y
  BY <1>1, <1>2, MaxOfNaturals
<1>4. LongestInterval(j) = Max(T) /\ s.secondsInterval \in T
  BY DEF LongestInterval
<1> HIDE DEF T
<1>5. Max(T) \in Nat /\ s.secondsInterval \in Nat
  BY <1>2, <1>3, <1>4
<1> QED BY <1>3, <1>4, <1>5

(* Two starts of minutes less than a minute apart are the same.             *)
LEMMA SameMinute ==
    ASSUME NEW a \in Minutes, NEW b \in Minutes, a <= b, b < a + Minute
    PROVE  a = b
<1>1. PICK k \in Nat : a = Minute * k
  BY MinuteIsMultiple
<1>2. PICK n \in Nat : b = Minute * n
  BY MinuteIsMultiple
<1>3. Minute \in Nat /\ Minute > 0 /\ a \in Nat /\ b \in Nat
  BY MinuteAssumption, MinuteIsMultiple
<1>4. n <= k
  <2>1. SUFFICES ASSUME n >= k + 1 PROVE FALSE
    OBVIOUS
  <2>2. Minute * (n - (k + 1)) >= 0
    BY <2>1, <1>3
  <2>3. Minute * (n - (k + 1)) = Minute * n - Minute * k - Minute
    BY <1>3
  <2> QED BY <2>2, <2>3, <1>1, <1>2, <1>3
<1>5. Minute * (k - n) >= 0
  BY <1>3, <1>4
<1>6. Minute * (k - n) = Minute * k - Minute * n
  BY <1>3
<1> QED BY <1>1, <1>2, <1>3, <1>5, <1>6

(* The worker is awake again no later than the next event.                  *)
LEMMA Sleep ==
    ASSUME TypeOK, WaitForEvent
    PROVE  /\ now' \in Nat /\ now <= now' /\ now' <= now + MaxSleep
           /\ \A j \in Jobs : schedule[j].SECONDS /\ nextRunTime[j] # 0
                 => now' <= nextRunTime[j] \/ now' = now
<1> DEFINE events == {EndOfMinute(now)} \cup
               {nextRunTime[i] : i \in {k \in Jobs : /\ schedule[k].SECONDS
                                                     /\ nextRunTime[k] # 0}}
<1>1. /\ now \in Nat /\ EndOfMinute(now) \in Nat /\ now < EndOfMinute(now)
      /\ EndOfMinute(now) = StartOfMinute(now) + Minute
  BY Clocks DEF EndOfMinute
<1>2. events \in SUBSET Nat /\ events # {}
  BY <1>1 DEF TypeOK
<1>3. /\ Min(events) \in Nat /\ Min(events) <= EndOfMinute(now)
      /\ \A j \in Jobs :
            schedule[j].SECONDS /\ nextRunTime[j] # 0 => Min(events) <= nextRunTime[j]
  <2>1. Min(events) \in events /\ \A y \in events : Min(events) <= y
    BY <1>2, MinOfNaturals
  <2> QED BY <1>2, <2>1
<1>4. PICK e \in Nat : e = Min(events)
  BY <1>3
<1> DEFINE d == TimestampDifference(now, e)
<1>5. d \in Nat /\ (now + d = e \/ d = 0)
  BY <1>1 DEF TimestampDifference
<1>6. Min({d, MaxSleep}) \in Nat /\ Min({d, MaxSleep}) <= d /\ Min({d, MaxSleep}) <= MaxSleep
  <2> HIDE DEF d
  <2>1. MaxSleep \in Nat
    BY ConstantsAssumption
  <2>2. {d, MaxSleep} \in SUBSET Nat /\ {d, MaxSleep} # {}
    BY <1>5, <2>1
  <2>3. Min({d, MaxSleep}) \in {d, MaxSleep} /\ \A y \in {d, MaxSleep} : Min({d, MaxSleep}) <= y
    BY <2>2, MinOfNaturals
  <2> QED BY <1>5, <2>1, <2>3
<1>7. CalculateWaitTimeout \in {0, Min({d, MaxSleep})}
  BY <1>4 DEF CalculateWaitTimeout
<1>8. PICK w \in Nat : w = CalculateWaitTimeout /\ w <= d /\ w <= MaxSleep
  <2> HIDE DEF d
  <2> QED BY <1>5, <1>6, <1>7, ConstantsAssumption
<1>9. PICK slept \in 0..w : now' = now + slept
  BY <1>8 DEF WaitForEvent
<1>10. slept \in Nat /\ slept <= d /\ slept <= MaxSleep /\ MaxSleep \in Nat
  <2> HIDE DEF d
  <2> QED BY <1>5, <1>8, <1>9, ConstantsAssumption
<1> HIDE DEF d, events
<1>11. now' \in Nat /\ now <= now' /\ (now' <= e \/ now' = now) /\ now' <= now + MaxSleep
  BY <1>1, <1>5, <1>9, <1>10
<1>12. ASSUME NEW j \in Jobs, schedule[j].SECONDS, nextRunTime[j] # 0
       PROVE  now' <= nextRunTime[j] \/ now' = now
  <2>1. nextRunTime[j] \in Nat
    BY DEF TypeOK
  <2> QED BY <1>3, <1>4, <1>11, <1>12, <2>1
<1> QED BY <1>11, <1>12


-----------------------------------------------------------------------------
(* StartPendingTasks.                                                       *)

(* lastMinute becomes the current minute, which is lastMinute itself or a   *)
(* later one.                                                               *)
LEMMA StartMoves ==
    ASSUME TypeOK, Forward, StartPendingTasks
    PROVE  /\ lastMinute' = StartOfMinute(now) /\ StartOfMinute(now) # 0
           /\ Last <= StartOfMinute(now)
<1>1. StartOfMinute(now) # 0
  BY Clocks DEF Forward
<1>2. CASE Passed # 0
  BY <1>1, <1>2, Clocks, ClockMoves DEF StartPendingTasks
<1>3. CASE Passed = 0
  <2>1. lastMinute' = Last
    BY <1>3, ClockMoves DEF StartPendingTasks
  <2>2. Last = StartOfMinute(now)
    <3>1. CASE lastMinute = 0
      BY <3>1 DEF Last
    <3>2. CASE lastMinute # 0
      <4>1. lastMinute <= now /\ Last = lastMinute
        BY <3>2 DEF Forward, Last
      <4>2. now < lastMinute + Minute
        <5>1. SUFFICES ASSUME now - lastMinute >= Minute PROVE FALSE
          BY <4>1, Clocks
        <5>2. PICK k \in Nat : k = now - lastMinute /\ k >= Minute
          BY <4>1, <5>1, Clocks
        <5>3. TimestampDifference(Last, now) = k
          BY <4>1, <5>2, Clocks DEF TimestampDifference
        <5>4. k \div Minute # 0
          BY <5>2, Clocks
        <5> QED BY <1>3, <5>3, <5>4 DEF Passed, MinutesPassed
      <4>3. lastMinute <= StartOfMinute(now)
        BY <4>1, StartOfMinuteIsLatest DEF TypeOK
      <4>4. StartOfMinute(now) < lastMinute + Minute
        BY <4>2, Clocks
      <4>5. lastMinute \in Minutes /\ StartOfMinute(now) \in Minutes
        BY LastIsMinute DEF TypeOK
      <4> QED BY <4>1, <4>3, <4>4, <4>5, SameMinute
    <3> QED BY <3>1, <3>2
  <2> QED BY <1>1, <2>1, <2>2, Clocks
<1> QED BY <1>2, <1>3

LEMMA ForwardStart ==
    ASSUME TypeOK, Forward, StartPendingTasks
    PROVE  Forward'
<1>1. now' = now /\ pc' = "wait" /\ held' = 0
  BY DEF StartPendingTasks
<1> QED BY <1>1, StartMoves, Clocks DEF Forward

LEMMA QueuedStart ==
    ASSUME TypeOK, Forward, QueuedBehind, AtMostOncePerMinute, StartPendingTasks
    PROVE  QueuedBehind' /\ AtMostOncePerMinute'
<1>1. SUFFICES ASSUME NEW j \in Jobs, NEW m \in Minutes
               PROVE  /\ queued'[j][m] > 0 => m <= Last'
                      /\ queued'[j][m] <= 1
  BY DEF QueuedBehind, AtMostOncePerMinute
<1>2. queued[j][m] \in Nat /\ m \in Nat
  BY MinutesAreNat DEF TypeOK
<1>3. /\ queued[j][m] > 0 => m <= Last
      /\ queued[j][m] <= 1
  BY DEF QueuedBehind, AtMostOncePerMinute
<1>4. queued'[j][m] = queued[j][m] + (IF m \in InLoop(j) THEN 1 ELSE 0)
                                   + (IF m \in AfterLoop(j) THEN 1 ELSE 0)
  BY DEF StartPendingTasks
<1>5. Last' = StartOfMinute(now) /\ Last <= StartOfMinute(now)
  BY StartMoves DEF Last
<1>6. CASE m \in InLoop(j) \cup AfterLoop(j)
  <2>1. Last < m /\ m <= StartOfMinute(now)
    BY <1>6, QueuedSets
  <2>2. queued[j][m] = 0
    BY <1>2, <1>3, <2>1, Clocks
  <2>3. queued'[j][m] <= 1
    BY <1>4, <2>2, QueuedSets
  <2> QED BY <1>5, <2>1, <2>3
<1>7. CASE m \notin InLoop(j) \cup AfterLoop(j)
  <2>1. queued'[j][m] = queued[j][m]
    BY <1>2, <1>4, <1>7
  <2> QED BY <1>2, <1>3, <1>5, <2>1, Clocks
<1> QED BY <1>6, <1>7

(* Between two calls of StartPendingTasks the clock has not come so far     *)
(* that the minutes in between are given up.                                *)
LEMMA PassedFew ==
    ASSUME TypeOK, Forward, HeldBriefly, pc = "start", lastMinute # 0
    PROVE  Passed <= JumpForward
<1>1. PICK k \in Nat : k = JumpForward
  BY ConstantsAssumption
<1>2. PICK d \in Nat : d = now - lastMinute
  BY Clocks DEF Forward
<1>3. Minute * k \in Nat /\ d < Minute + Minute * k
  <2>1. MaxHeld + MaxSleep <= Minute * k
    BY <1>1, Clocks DEF HeldBriefly
  <2>2. now < lastMinute + Minute + held + MaxSleep
    BY DEF Forward
  <2>3. Minute * k \in Nat
    BY <1>1, Clocks
  <2> QED BY <1>2, <2>1, <2>2, <2>3, Clocks
<1>4. TimestampDifference(Last, now) = d
  BY <1>2, Clocks DEF TimestampDifference, Last, Forward
<1>5. PICK q \in Nat : q = d \div Minute /\ d >= Minute * q
  <2>1. d \div Minute \in Nat /\ d = Minute * (d \div Minute) + (d % Minute) /\ d % Minute >= 0
    BY <1>2, DivisionByMinute
  <2>2. PICK q \in Nat : q = d \div Minute
    BY <2>1
  <2>3. Minute * q \in Nat /\ d % Minute \in Nat
    BY <2>1, <2>2, Clocks, DivisionByMinute
  <2> QED BY <2>1, <2>2, <2>3
<1>6. q <= k
  <2>1. SUFFICES ASSUME q >= k + 1 PROVE FALSE
    OBVIOUS
  <2>2. Minute * (q - (k + 1)) >= 0
    BY <2>1, Clocks
  <2>3. Minute * (q - (k + 1)) = Minute * q - Minute * k - Minute
    BY Clocks
  <2> QED BY <1>2, <1>3, <1>5, <2>2, <2>3, Clocks
<1> QED BY <1>1, <1>4, <1>5, <1>6 DEF Passed, MinutesPassed

(* The loop looks at every minute that has passed.                          *)
LEMMA MissedStart ==
    ASSUME TypeOK, Forward, HeldBriefly, NoMinuteMissed, StartPendingTasks
    PROVE  NoMinuteMissed'
<1>1. SUFFICES ASSUME NEW j \in Jobs, NEW m \in Minutes,
                      since'[j] < m, m <= lastMinute',
                      ShouldRunTask(schedule[j], m, TRUE, TRUE)
               PROVE  queued'[j][m] >= 1
  BY DEF NoMinuteMissed, ShouldRunTask, StartPendingTasks
<1>2. queued[j][m] \in Nat /\ m \in Nat /\ since[j] \in Nat
  BY MinutesAreNat DEF TypeOK
<1>3. queued'[j][m] = queued[j][m] + (IF m \in InLoop(j) THEN 1 ELSE 0)
                                   + (IF m \in AfterLoop(j) THEN 1 ELSE 0)
  BY DEF StartPendingTasks
<1>4. m <= StartOfMinute(now) /\ m <= now
  BY <1>1, <1>2, StartMoves, Clocks
<1>5. lastMinute # 0 /\ Last = lastMinute
  <2>1. SUFFICES ASSUME lastMinute = 0 PROVE FALSE
    BY DEF Last
  <2>2. since'[j] = StartOfMinute(now)
    BY <2>1 DEF StartPendingTasks, Last
  <2> QED BY <1>1, <1>2, <1>4, <2>2, Clocks
<1>6. Passed = 0 \/ Status = "CLOCK_PROGRESSED"
  <2>1. Passed <= JumpForward
    BY <1>5, PassedFew DEF StartPendingTasks
  <2> QED BY <2>1, ClockMoves, ConstantsAssumption DEF Status, ClockStatus
<1>7. since'[j] = since[j]
  BY <1>5, <1>6, ClockMoves DEF StartPendingTasks
<1>8. CASE m <= lastMinute
  <2>1. queued[j][m] >= 1
    BY <1>1, <1>5, <1>7, <1>8 DEF NoMinuteMissed
  <2> QED BY <1>2, <1>3, <2>1
<1>9. CASE lastMinute < m
  <2>1. Passed # 0
    <3>1. SUFFICES ASSUME Passed = 0 PROVE FALSE
      OBVIOUS
    <3>2. lastMinute' = Last
      BY <3>1, ClockMoves DEF StartPendingTasks
    <3> QED BY <1>1, <1>2, <1>5, <1>9, <3>2, Clocks
  <2>2. m \in VisitedMinutes(Last, StartOfMinute(now))
    BY <1>4, <1>5, <1>9, VisitsEveryMinute
  <2>3. m \in InLoop(j)
    BY <1>1, <1>6, <2>1, <2>2 DEF InLoop, ByMinute, LoopDue, ShouldRunTask
  <2> QED BY <1>2, <1>3, <2>3
<1> QED BY <1>2, <1>8, <1>9, Clocks


(* A seconds job that was not armed is armed from now, when it was first    *)
(* seen; one that is due is armed from now, when it was last due.           *)
LEMMA ArmedStart ==
    ASSUME TypeOK, Forward, StartPendingTasks, NEW j \in Jobs, Armed(j)
    PROVE  Armed(j)'
<1>1. /\ schedule' = schedule /\ now' = now /\ pc = "start" /\ pc' = "wait"
      /\ held' = 0
      /\ nextRunTime'[j] = IF schedule[j].SECONDS THEN SecondsNextRun(j) ELSE nextRunTime[j]
      /\ fired'[j] = IF schedule[j].SECONDS /\ (SecondsDue(j) \/ lastMinute = 0)
                     THEN now ELSE fired[j]
      /\ LongestInterval(j)' = LongestInterval(j)
  BY DEF StartPendingTasks, LongestInterval
<1>2. /\ now \in Nat /\ nextRunTime[j] \in Nat /\ fired[j] \in Nat
      /\ schedule[j].secondsInterval \in Nat /\ LongestInterval(j) \in Nat
      /\ schedule[j].secondsInterval <= LongestInterval(j)
      /\ schedule[j].SECONDS => schedule[j].secondsInterval > 0
  <2>1. schedule[j] \in ScheduleChoices[j]
    BY Intervals
  <2> QED BY <2>1, Clocks, Intervals, Longest
<1>3. CASE ~schedule[j].SECONDS
  BY <1>1, <1>2, <1>3 DEF Armed
<1>4. CASE schedule[j].SECONDS /\ SecondsDue(j)
  <2>1. nextRunTime'[j] = now + schedule[j].secondsInterval /\ fired'[j] = now
    BY <1>1, <1>4 DEF SecondsNextRun
  <2> QED BY <1>1, <1>2, <1>4, <2>1 DEF Armed
<1>5. CASE schedule[j].SECONDS /\ ~SecondsDue(j) /\ nextRunTime[j] = 0
  <2>1. nextRunTime'[j] = now + schedule[j].secondsInterval /\ fired'[j] = now
    BY <1>1, <1>5 DEF SecondsNextRun, NextRunArmed, Armed
  <2> QED BY <1>1, <1>2, <1>5, <2>1 DEF Armed
<1>6. CASE schedule[j].SECONDS /\ ~SecondsDue(j) /\ nextRunTime[j] # 0
  <2>1. nextRunTime'[j] = nextRunTime[j] /\ now < nextRunTime[j]
    BY <1>1, <1>2, <1>6 DEF SecondsNextRun, SecondsDue, NextRunArmed, TimestampDifferenceExceeds
  <2>2. fired'[j] \in Nat /\ fired[j] <= fired'[j] /\ fired'[j] <= now
    BY <1>1, <1>2 DEF Armed
  <2> QED BY <1>1, <1>2, <1>6, <2>1, <2>2 DEF Armed
<1> QED BY <1>3, <1>4, <1>5, <1>6

-----------------------------------------------------------------------------
(* The other steps.                                                         *)

(* Whatever was queued lies behind the clock.                               *)
LEMMA BehindClock ==
    ASSUME TypeOK, Forward, QueuedBehind, NEW j \in Jobs, NEW m \in Minutes,
           queued[j][m] > 0
    PROVE  m <= now
<1>1. m <= Last /\ m \in Nat
  BY MinutesAreNat DEF QueuedBehind
<1>2. Last <= now
  BY Clocks DEF Last, Forward
<1> QED BY <1>1, <1>2, Clocks

LEMMA SteadyWait ==
    ASSUME SteadyInv, WaitForEvent
    PROVE  SteadyInv'
<1>1. /\ pc = "wait" /\ pc' = "manage"
      /\ UNCHANGED <<schedule, lastMinute, pendingRunCount, nextRunTime, state,
                     queued, since, fired>>
  BY DEF WaitForEvent
<1>2. TypeOK /\ TypeOK'
  BY TypeSteady DEF SteadyInv, SteadyNext
<1>3. /\ now' \in Nat /\ now <= now' /\ now' <= now + MaxSleep /\ held' = held
      /\ lastMinute # 0 /\ lastMinute <= now /\ now < lastMinute + Minute + held
      /\ now \in Nat /\ lastMinute \in Nat /\ Minute \in Nat /\ held \in Nat /\ MaxSleep \in Nat
  BY <1>1, <1>2, Sleep, Clocks DEF SteadyInv, Forward, WaitForEvent
<1>4. Forward'
  BY <1>1, <1>3 DEF SteadyInv, Forward
<1>5. QueuedBehind' /\ AtMostOncePerMinute' /\ (HeldBriefly => NoMinuteMissed')
  BY <1>1, <1>3 DEF SteadyInv, QueuedBehind, AtMostOncePerMinute, NoMinuteMissed, Last
<1>6. ASSUME NEW j \in Jobs PROVE Armed(j)'
  <2>1. Armed(j) /\ fired[j] \in Nat /\ nextRunTime[j] \in Nat
    BY <1>2, Intervals DEF SteadyInv
  <2>2. LongestInterval(j)' = LongestInterval(j)
    BY DEF LongestInterval
  <2>3. ASSUME schedule[j].SECONDS
        PROVE  nextRunTime[j] # 0 /\ now' <= nextRunTime[j] + held
    <3>1. nextRunTime[j] # 0 /\ now <= nextRunTime[j] + held
      BY <1>1, <1>3, <2>1, <2>3 DEF Armed
    <3>2. now' <= nextRunTime[j] \/ now' = now
      BY <1>2, <2>3, <3>1, Sleep
    <3> QED BY <1>3, <2>1, <3>1, <3>2
  <2> QED BY <1>1, <1>3, <2>1, <2>2, <2>3 DEF Armed
<1> QED BY <1>2, <1>4, <1>5, <1>6 DEF SteadyInv, HeldBriefly

(* Held up, the worker falls behind by what the ghost counts.               *)
LEMMA SteadyHeld ==
    ASSUME SteadyInv, WorkerIsHeld
    PROVE  SteadyInv'
<1>1. /\ pc # "start"
      /\ UNCHANGED <<pc, schedule, lastMinute, pendingRunCount, nextRunTime, state,
                     queued, since, fired>>
  BY DEF WorkerIsHeld
<1>2. TypeOK /\ TypeOK'
  BY TypeSteady DEF SteadyInv, SteadyNext
<1>3. PICK d \in Nat : now' = now + d /\ held' = held + d
  BY <1>2, Clocks DEF WorkerIsHeld
<1>4. Forward'
  BY <1>1, <1>2, <1>3, Clocks DEF SteadyInv, Forward
<1>5. QueuedBehind' /\ AtMostOncePerMinute' /\ (HeldBriefly => NoMinuteMissed')
  <2>1. Last' = Last
    BY <1>1 DEF SteadyInv, Forward, Last
  <2> QED BY <1>1, <2>1 DEF SteadyInv, QueuedBehind, AtMostOncePerMinute, NoMinuteMissed
<1>6. ASSUME NEW j \in Jobs PROVE Armed(j)'
  <2>1. Armed(j) /\ fired[j] \in Nat /\ nextRunTime[j] \in Nat /\ lastMinute # 0
    BY <1>1, <1>2, Intervals DEF SteadyInv, Forward
  <2>2. LongestInterval(j)' = LongestInterval(j)
    BY DEF LongestInterval
  <2> QED BY <1>1, <1>2, <1>3, <2>1, <2>2, Clocks DEF Armed
<1> QED BY <1>2, <1>4, <1>5, <1>6 DEF SteadyInv, HeldBriefly

LEMMA SteadyManage ==
    ASSUME SteadyInv, ManageCronTasks
    PROVE  SteadyInv'
<1>1. /\ pc = "manage" /\ pc' = "start"
      /\ UNCHANGED <<now, schedule, lastMinute, nextRunTime, queued, since, fired, held>>
  BY DEF ManageCronTasks
<1>2. TypeOK'
  BY TypeSteady DEF SteadyInv, SteadyNext
<1>3. Forward'
  BY <1>1 DEF SteadyInv, Forward
<1>4. QueuedBehind' /\ AtMostOncePerMinute' /\ (HeldBriefly => NoMinuteMissed')
  BY <1>1 DEF SteadyInv, QueuedBehind, AtMostOncePerMinute, NoMinuteMissed, Last
<1>5. ASSUME NEW j \in Jobs PROVE Armed(j)'
  BY <1>1 DEF SteadyInv, Armed, LongestInterval
<1> QED BY <1>2, <1>3, <1>4, <1>5 DEF SteadyInv, HeldBriefly

LEMMA SteadyUpdate ==
    ASSUME SteadyInv, NEW i \in Jobs, UpdateSchedule(i)
    PROVE  SteadyInv'
<1>1. /\ pc = "start"
      /\ UNCHANGED <<now, pc, lastMinute, pendingRunCount, nextRunTime, state, queued, held>>
      /\ since' = [since EXCEPT ![i] = lastMinute]
  BY DEF UpdateSchedule
<1>2. PICK s \in ScheduleChoices[i] :
          /\ schedule' = [schedule EXCEPT ![i] = s]
          /\ fired' = IF s.SECONDS /\ ~schedule[i].SECONDS
                      THEN [fired EXCEPT ![i] = now] ELSE fired
  BY DEF UpdateSchedule
<1>3. TypeOK /\ TypeOK'
  BY TypeSteady DEF SteadyInv, SteadyNext
<1>4. Forward'
  BY <1>1 DEF SteadyInv, Forward
<1>5. QueuedBehind' /\ AtMostOncePerMinute'
  BY <1>1 DEF SteadyInv, QueuedBehind, AtMostOncePerMinute, Last
<1>6. HeldBriefly => NoMinuteMissed'
  <2>1. SUFFICES ASSUME HeldBriefly, lastMinute' # 0, NEW j \in Jobs, NEW m \in Minutes,
                        since'[j] < m, m <= lastMinute',
                        ShouldRunTask(schedule'[j], m, TRUE, TRUE)
                 PROVE  queued'[j][m] >= 1
    BY DEF NoMinuteMissed, ShouldRunTask
  <2>2. m \in Nat /\ lastMinute \in Nat
    BY <1>3, MinutesAreNat DEF TypeOK
  <2>3. j # i
    BY <1>1, <1>3, <2>1, <2>2 DEF TypeOK
  <2>4. since'[j] = since[j] /\ schedule'[j] = schedule[j]
    BY <1>1, <1>2, <1>3, <2>3 DEF TypeOK
  <2> QED BY <1>1, <2>1, <2>4 DEF SteadyInv, NoMinuteMissed
<1>7. ASSUME NEW j \in Jobs PROVE Armed(j)'
  <2>1. /\ Armed(j) /\ fired[j] \in Nat /\ nextRunTime[j] \in Nat /\ now \in Nat
        /\ LongestInterval(j) \in Nat /\ LongestInterval(j)' = LongestInterval(j)
    <3>1. schedule[j] \in ScheduleChoices[j]
      BY <1>3, Intervals
    <3> QED BY <1>3, <3>1, Intervals, Clocks, Longest DEF SteadyInv, LongestInterval
  <2>2. CASE j # i
    <3>1. schedule'[j] = schedule[j] /\ fired'[j] = fired[j]
      BY <1>2, <1>3, <2>2 DEF TypeOK
    <3> QED BY <1>1, <2>1, <3>1 DEF Armed
  <2>3. CASE j = i
    <3>1. /\ schedule'[j] = s
          /\ fired'[j] = IF s.SECONDS /\ ~schedule[j].SECONDS THEN now ELSE fired[j]
      BY <1>2, <1>3, <2>3 DEF TypeOK
    <3>2. fired'[j] \in Nat /\ fired[j] <= fired'[j] /\ fired'[j] <= now
      BY <2>1, <3>1 DEF Armed
    <3> QED BY <1>1, <2>1, <3>1, <3>2 DEF Armed
  <2> QED BY <2>2, <2>3
<1> QED BY <1>3, <1>4, <1>5, <1>6, <1>7 DEF SteadyInv, HeldBriefly

(* A restarted worker forgets lastMinute but finds the current minute after *)
(* every one that was queued.                                               *)
LEMMA SteadyRestart ==
    ASSUME SteadyInv, RestartWorker
    PROVE  SteadyInv'
<1>1. /\ pc' = "start" /\ lastMinute' = 0 /\ nextRunTime' = [j \in Jobs |-> 0]
      /\ held' = 0 /\ UNCHANGED <<schedule, queued, since, fired>>
  BY DEF RestartWorker
<1>2. TypeOK /\ TypeOK'
  BY TypeSteady DEF SteadyInv, SteadyNext
<1>3. now \in Nat /\ now' \in Nat /\ now <= now' /\ now' \in Time
  <2>1. PICK down \in 0..RestartDelay : now' = now + down
    BY DEF RestartWorker
  <2> QED BY <1>2, <2>1, Clocks, ConstantsAssumption DEF RestartWorker
<1>4. Forward'
  BY <1>1, <1>2, <1>3, MinuteAssumption DEF SteadyInv, Forward
<1>5. AtMostOncePerMinute' /\ NoMinuteMissed'
  BY <1>1 DEF SteadyInv, AtMostOncePerMinute, NoMinuteMissed
<1>6. QueuedBehind'
  <2>1. SUFFICES ASSUME NEW j \in Jobs, NEW m \in Minutes, queued[j][m] > 0
                 PROVE  m <= Last'
    BY <1>1 DEF QueuedBehind
  <2>2. m <= now' /\ m \in Nat
    BY <1>2, <1>3, <2>1, BehindClock, MinutesAreNat DEF SteadyInv
  <2>3. Last' = StartOfMinute(now')
    BY <1>1 DEF Last, StartOfMinute
  <2> QED BY <1>3, <2>2, <2>3, StartOfMinuteIsLatest
<1>7. ASSUME NEW j \in Jobs PROVE Armed(j)'
  <2>1. Armed(j) /\ fired[j] \in Nat
    BY <1>2, Intervals DEF SteadyInv
  <2> QED BY <1>1, <1>3, <2>1 DEF Armed
<1> QED BY <1>2, <1>4, <1>5, <1>6, <1>7 DEF SteadyInv


-----------------------------------------------------------------------------
(* The theorems.                                                            *)

LEMMA SteadyInit ==
    Init => SteadyInv
<1> SUFFICES ASSUME Init PROVE SteadyInv
  OBVIOUS
<1>1. TypeOK
  BY TypeInit
<1>2. Forward
  BY <1>1, Clocks DEF Init, Forward
<1>3. QueuedBehind /\ AtMostOncePerMinute /\ NoMinuteMissed
  BY DEF Init, QueuedBehind, AtMostOncePerMinute, NoMinuteMissed
<1>4. \A j \in Jobs : Armed(j)
  BY <1>1, Clocks DEF Init, Armed
<1> QED BY <1>1, <1>2, <1>3, <1>4 DEF SteadyInv

LEMMA SteadyStep ==
    SteadyInv /\ [SteadyNext]_vars => SteadyInv'
<1> SUFFICES ASSUME SteadyInv, [SteadyNext]_vars PROVE SteadyInv'
  OBVIOUS
<1>1. CASE StartPendingTasks
  <2>1. TypeOK'
    BY TypeSteady DEF SteadyInv
  <2> QED BY <1>1, <2>1, ForwardStart, QueuedStart, MissedStart, ArmedStart
             DEF SteadyInv, HeldBriefly
<1>2. CASE UNCHANGED vars
  <2>1. TypeOK'
    BY TypeSteady DEF SteadyInv
  <2>2. Forward' /\ QueuedBehind' /\ AtMostOncePerMinute' /\ (HeldBriefly => NoMinuteMissed')
    BY <1>2 DEF vars, SteadyInv, Forward, QueuedBehind, AtMostOncePerMinute,
                NoMinuteMissed, Last, StartOfMinute
  <2>3. \A j \in Jobs : Armed(j)'
    BY <1>2 DEF vars, SteadyInv, Armed
  <2> QED BY <2>1, <2>2, <2>3 DEF SteadyInv, HeldBriefly
<1> QED BY <1>1, <1>2, SteadyWait, SteadyHeld, SteadyManage, SteadyUpdate, SteadyRestart
        DEF SteadyNext

LEMMA SteadyInvariance == SteadySpec => []SteadyInv
BY SteadyInit, SteadyStep, PTL DEF SteadySpec

(* A restart does not repeat a minute: a worker that dies after it queued a *)
(* minute and comes back in the same one finds lastMinute unset and starts  *)
(* after it (StartPendingTasks).                                            *)
THEOREM OncePerMinuteSteady == SteadySpec => []AtMostOncePerMinute
<1>1. SteadyInv => AtMostOncePerMinute
  BY DEF SteadyInv
<1> QED BY <1>1, SteadyInvariance, PTL

(* With a clock that only runs forward no due minute is lost, of a floating *)
(* or of a fixed schedule, since the worker was last started, if it sleeps  *)
(* and is held up for no more than JumpForward minutes between two calls of *)
(* StartPendingTasks: the loop of StartPendingTask then looks at every      *)
(* minute there was.                                                        *)
THEOREM NoneMissed == HeldBriefly => (SteadySpec => []NoMinuteMissed)
<1>1. HeldBriefly /\ SteadyInv => NoMinuteMissed
  BY DEF SteadyInv
<1>2. ASSUME HeldBriefly PROVE SteadySpec => []NoMinuteMissed
  <2>1. SteadyInv => NoMinuteMissed
    BY <1>1, <1>2
  <2> QED BY <2>1, SteadyInvariance, PTL
<1> QED BY <1>2

(* As long as the worker lives a seconds job is due again no later than its *)
(* longest interval after the last time, through every update of its        *)
(* schedule, and late only by what a blocking call took in this iteration   *)
(* (StartSecondIntervalTask, CalculateWaitTimeout).                         *)
THEOREM SecondsOnTime == SteadySpec => []SecondsJobOnTime
<1>1. SteadyInv => SecondsJobOnTime
  <2> SUFFICES ASSUME SteadyInv, NEW j \in Jobs, schedule[j].SECONDS, pc # "start"
               PROVE  now <= fired[j] + LongestInterval(j) + held
    BY DEF SecondsJobOnTime, LongestInterval
  <2>1. TypeOK /\ Armed(j) /\ lastMinute # 0 /\ held \in Nat
    BY Clocks DEF SteadyInv, Forward
  <2>2. now \in Nat /\ fired[j] \in Nat /\ nextRunTime[j] \in Nat /\ LongestInterval(j) \in Nat
    BY <2>1, Clocks, Intervals, Longest
  <2> QED BY <2>1, <2>2 DEF Armed
<1> QED BY <1>1, SteadyInvariance, PTL

LEMMA SecondsQueueStep ==
    ASSUME TypeOK, SecondsQueueAtMostOne, [Next]_vars \/ [SteadyNext]_vars
    PROVE  SecondsQueueAtMostOne'
<1>1. SUFFICES ASSUME NEW j \in Jobs, \A s \in ScheduleChoices[j] : s.SECONDS
               PROVE  pendingRunCount'[j] <= 1
  BY DEF SecondsQueueAtMostOne
<1>2. pendingRunCount[j] \in Nat /\ pendingRunCount[j] <= 1 /\ schedule[j].SECONDS
  BY <1>1 DEF TypeOK, SecondsQueueAtMostOne
<1>3. CASE StartPendingTasks
  BY <1>2, <1>3 DEF StartPendingTasks, SecondsPending
<1>4. CASE ManageCronTasks
  <2>1. PICK finished \in SUBSET Jobs : pendingRunCount'[j] = Managed(j, finished)[2]
    BY <1>4 DEF ManageCronTasks
  <2>2. Managed(j, finished)[2] <= 1
    BY <1>2, ConstantsAssumption DEF Managed
  <2> QED BY <2>1, <2>2
<1>5. CASE RestartWorker
  BY <1>5 DEF RestartWorker
<1>6. CASE \/ WaitForEvent \/ WorkerIsHeld \/ WaitForEventClockSet \/ UNCHANGED vars
           \/ \E i \in Jobs : UpdateSchedule(i)
  BY <1>2, <1>6 DEF WaitForEvent, WorkerIsHeld, WaitForEventClockSet, UpdateSchedule, vars
<1> QED BY <1>3, <1>4, <1>5, <1>6 DEF Next, SteadyNext

(* Runs of a seconds job do not pile up behind a slow one, whatever the     *)
(* clock does and however often the worker is restarted: a second one is    *)
(* queued only when none is pending (StartSecondIntervalTask).              *)
THEOREM SecondsQueue == Spec \/ SteadySpec => []SecondsQueueAtMostOne
<1> DEFINE SInv == TypeOK /\ SecondsQueueAtMostOne
<1>1. Init => SInv
  BY TypeInit DEF Init, SecondsQueueAtMostOne
<1>2. SInv /\ [Next]_vars => SInv'
  BY TypeNext, SecondsQueueStep
<1>3. SInv /\ [SteadyNext]_vars => SInv'
  BY TypeSteady, SecondsQueueStep
<1> QED BY <1>1, <1>2, <1>3, PTL DEF Spec, SteadySpec
=============================================================================
