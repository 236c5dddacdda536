---------------------------- MODULE SchedulerProofs ----------------------------
(***************************************************************************)
(* Proofs about Scheduler for every minute length, every clock bound, every *)
(* set of jobs and schedules and every threshold of the clock status.       *)
(***************************************************************************)
EXTENDS Scheduler, FiniteSetTheorems, TLAPS

(* Timestamps and minutes.                                                  *)

LEMMA DivisionByMinute ==
    ASSUME NEW t \in Nat
    PROVE  /\ t \div Minute \in Nat
           /\ t % Minute \in 0..(Minute - 1)
           /\ t = Minute * (t \div Minute) + (t % Minute)
           /\ StartOfMinute(t) = Minute * (t \div Minute)
           /\ StartOfMinute(t) \in 0..t
           /\ t < StartOfMinute(t) + Minute
<1>1. /\ t \div Minute \in Nat
      /\ t % Minute \in 0..(Minute - 1)
      /\ t = Minute * (t \div Minute) + (t % Minute)
  BY MinuteAssumption
<1>2. Minute * (t \div Minute) \in Nat
  BY <1>1, MinuteAssumption
<1> QED
  BY <1>1, <1>2, MinuteAssumption DEF StartOfMinute

LEMMA MultiplesOfMinute ==
    ASSUME NEW k \in Int
    PROVE  (Minute * k) % Minute = 0
BY MinuteAssumption

LEMMA MinuteIsMultiple ==
    ASSUME NEW m \in Minutes
    PROVE  /\ m \in Nat
           /\ m \div Minute \in Nat
           /\ m = Minute * (m \div Minute)
<1>1. m \in Nat /\ m % Minute = 0
  BY ConstantsAssumption DEF Minutes, Time
<1>2. /\ m \div Minute \in Nat
      /\ m = Minute * (m \div Minute) + (m % Minute)
  BY <1>1, DivisionByMinute
<1>3. Minute * (m \div Minute) \in Nat
  BY <1>2, MinuteAssumption
<1> QED
  BY <1>1, <1>2, <1>3

(* The start of a minute is a minute.                                       *)
LEMMA StartOfMinuteIsMinute ==
    ASSUME NEW t \in Time
    PROVE  StartOfMinute(t) \in Minutes
<1>1. t \in Nat /\ t <= MaxTime
  BY ConstantsAssumption DEF Time
<1>2. StartOfMinute(t) % Minute = 0
  BY <1>1, DivisionByMinute, MultiplesOfMinute
<1> QED
  BY <1>1, <1>2, DivisionByMinute, ConstantsAssumption DEF Minutes, Time

(* Minutes lie a multiple of Minute apart.                                  *)
LEMMA MinutesApart ==
    ASSUME NEW a \in Minutes, NEW b \in Minutes
    PROVE  (a - b) % Minute = 0
<1> DEFINE m == a \div Minute
           n == b \div Minute
<1>2. /\ m \in Nat /\ a = Minute * m
      /\ n \in Nat /\ b = Minute * n
  BY MinuteIsMultiple
<1>3. a - b = Minute * (m - n) /\ m - n \in Int
  BY <1>2, MinuteAssumption
<1> QED
  BY <1>3, MultiplesOfMinute

(* No minute lies between the start of the current one and the clock.       *)
LEMMA StartOfMinuteIsLatest ==
    ASSUME NEW t \in Time, NEW m \in Minutes, m <= t
    PROVE  m <= StartOfMinute(t)
<1>1. t \in Nat /\ m \in Nat
  BY ConstantsAssumption DEF Minutes, Time
<1> DEFINE q == t \div Minute
           k == m \div Minute
<1>2. q \in Nat /\ k \in Nat /\ m = Minute * k
  BY <1>1, DivisionByMinute, MinuteIsMultiple
<1>3. t < Minute * q + Minute /\ StartOfMinute(t) = Minute * q
  BY <1>1, DivisionByMinute
<1>4. Minute * q + Minute = Minute * (q + 1)
  BY <1>2, MinuteAssumption
<1>5. Minute * k < Minute * (q + 1)
  BY <1>1, <1>2, <1>3, <1>4, MinuteAssumption
<1>6. k < q + 1
  <2>1. SUFFICES ASSUME k >= q + 1 PROVE FALSE
    BY <1>2
  <2>2. Minute * (k - (q + 1)) >= 0
    BY <2>1, <1>2, MinuteAssumption
  <2> QED
    BY <2>2, <1>5, <1>2, MinuteAssumption
<1>7. Minute * (q - k) >= 0
  BY <1>6, <1>2, MinuteAssumption
<1> QED
  BY <1>7, <1>2, <1>3, MinuteAssumption

(* When a whole minute has passed since last, the current minute is later.  *)
LEMMA MinutesPassedForward ==
    ASSUME NEW last \in Nat, NEW t \in Nat
    PROVE  /\ MinutesPassed(last, t) \in Nat
           /\ MinutesPassed(last, t) # 0 => last < StartOfMinute(t)
<1> DEFINE d == TimestampDifference(last, t)
<1>1. d \in Nat /\ (d # 0 => d = t - last)
  BY DEF TimestampDifference
<1>2. MinutesPassed(last, t) \in Nat
  BY <1>1, MinuteAssumption DEF MinutesPassed
<1>3. ASSUME MinutesPassed(last, t) # 0
      PROVE  last < StartOfMinute(t)
  <2>1. d >= Minute
    BY <1>1, <1>3, MinuteAssumption DEF MinutesPassed
  <2>2. t - last >= Minute
    BY <2>1, <1>1, MinuteAssumption
  <2> QED
    BY <2>2, DivisionByMinute, MinuteAssumption
<1> QED
  BY <1>2, <1>3

-----------------------------------------------------------------------------
(* What one call of StartPendingTasks queues.                               *)

LEMMA LastIsMinute ==
    ASSUME TypeOK
    PROVE  Last \in Minutes /\ StartOfMinute(now) \in Minutes
BY StartOfMinuteIsMinute DEF TypeOK, Last

LEMMA MinutesAreNat ==
    Minutes \subseteq Nat
BY ConstantsAssumption DEF Minutes, Time

(* No minute passed: nothing is queued and lastMinute stays.  One did: it   *)
(* becomes the current minute, which is later.                              *)
LEMMA ClockMoves ==
    ASSUME TypeOK
    PROVE  /\ Passed \in Nat
           /\ Passed = 0 => Status = "CLOCK_JUMP_BACKWARD"
           /\ Passed # 0 => /\ Status \in {"CLOCK_PROGRESSED", "CLOCK_JUMP_FORWARD",
                                            "CLOCK_CHANGE"}
                            /\ Last < StartOfMinute(now)
           /\ lastMinute = 0 => Passed = 0
<1>1. now \in Nat /\ Last \in Nat
  <2>1. now \in Nat
    BY ConstantsAssumption DEF TypeOK, Time
  <2> QED
    BY <2>1, LastIsMinute, MinutesAreNat
<1>2. Passed \in Nat /\ (Passed # 0 => Last < StartOfMinute(now))
  BY <1>1, MinutesPassedForward DEF Passed
<1>3. /\ Passed = 0 => Status = "CLOCK_JUMP_BACKWARD"
      /\ Passed # 0 => Status \in {"CLOCK_PROGRESSED", "CLOCK_JUMP_FORWARD",
                                   "CLOCK_CHANGE"}
  BY <1>2, ConstantsAssumption DEF Status, ClockStatus
<1>4. lastMinute = 0 => Passed = 0
  <2>1. SUFFICES ASSUME lastMinute = 0, Passed # 0 PROVE FALSE
    OBVIOUS
  <2>2. Last = StartOfMinute(now)
    BY <2>1 DEF Last
  <2> QED
    BY <2>1, <2>2, <1>1, <1>2
<1> QED
  BY <1>2, <1>3, <1>4

(* The two sets are finite, disjoint, and lie after Last.                   *)
LEMMA QueuedSets ==
    ASSUME TypeOK, NEW j \in Jobs
    PROVE  /\ Cardinality(InLoop(j)) \in Nat
           /\ Cardinality(AfterLoop(j)) \in Nat
           /\ InLoop(j) \cap AfterLoop(j) = {}
           /\ \A m \in InLoop(j) \cup AfterLoop(j) :
                 Passed # 0 /\ Last < m /\ m <= StartOfMinute(now)
<1>1. Last \in Nat /\ StartOfMinute(now) \in Nat
  BY LastIsMinute, MinutesAreNat
<1>2. InLoop(j) \subseteq (Last + 1)..StartOfMinute(now)
  BY DEF InLoop, LoopDue, VisitedMinutes
<1>3. AfterLoop(j) \subseteq {StartOfMinute(now)}
  BY DEF AfterLoop, CurrentDue
<1>4. IsFiniteSet(InLoop(j)) /\ IsFiniteSet(AfterLoop(j))
  <2>1. IsFiniteSet((Last + 1)..StartOfMinute(now))
    BY <1>1, FS_Interval
  <2>2. IsFiniteSet({StartOfMinute(now)})
    BY FS_Singleton
  <2> QED
    BY <1>2, <1>3, <2>1, <2>2, FS_Subset
<1>5. Cardinality(InLoop(j)) \in Nat /\ Cardinality(AfterLoop(j)) \in Nat
  BY <1>4, FS_CardinalityType
<1>6. InLoop(j) \cap AfterLoop(j) = {}
  BY ClockMoves DEF InLoop, AfterLoop, LoopDue, CurrentDue, ShouldRunTask
<1>7. \A m \in InLoop(j) \cup AfterLoop(j) :
         Passed # 0 /\ Last < m /\ m <= StartOfMinute(now)
  <2>1. \A m \in InLoop(j) \cup AfterLoop(j) : Passed # 0
    BY DEF InLoop, AfterLoop, ByMinute
  <2> QED
    BY <2>1, <1>1, <1>2, <1>3, ClockMoves
<1> QED
  BY <1>5, <1>6, <1>7

-----------------------------------------------------------------------------
(* Every value keeps its type: in particular lastMinute is always the start *)
(* of a minute and no queue length ever goes below zero, whatever is done   *)
(* to the clock (StartPendingTasks, ManageCronTask).                        *)

LEMMA TypeStart ==
    ASSUME TypeOK, StartPendingTasks
    PROVE  TypeOK'
<1> USE DEF StartPendingTasks
<1>1. /\ now' \in Time
      /\ pc' \in {"start", "wait", "manage"}
      /\ schedule' \in [Jobs -> UNION {ScheduleChoices[j] : j \in Jobs}]
      /\ \A j \in Jobs : schedule'[j] \in ScheduleChoices[j]
      /\ state' \in [Jobs -> {"WAITING", "BUSY", "DONE"}]
  BY DEF TypeOK
<1>2. lastMinute' \in Minutes
  BY LastIsMinute
<1>3. pendingRunCount' \in [Jobs -> Nat]
  <2>1. SUFFICES ASSUME NEW j \in Jobs PROVE pendingRunCount'[j] \in Nat
    OBVIOUS
  <2>2. pendingRunCount[j] \in Nat
    BY DEF TypeOK
  <2> QED
    BY <2>2, QueuedSets DEF SecondsPending
<1>4. nextRunTime' \in [Jobs -> Nat]
  <2>1. SUFFICES ASSUME NEW j \in Jobs PROVE nextRunTime'[j] \in Nat
    OBVIOUS
  <2>2. /\ now \in Nat /\ nextRunTime[j] \in Nat
        /\ schedule[j].secondsInterval \in Nat
    BY ConstantsAssumption, MinuteAssumption, SchedulesAssumption DEF TypeOK, Time
  <2> QED
    BY <2>2 DEF SecondsNextRun, NextRunArmed
<1>5. queued' \in [Jobs -> [Minutes -> Nat]]
  <2>1. \A j \in Jobs : \A m \in Minutes : queued[j][m] \in Nat
    BY DEF TypeOK
  <2> QED
    BY <2>1
<1>6. since' \in [Jobs -> Minutes]
  BY LastIsMinute DEF TypeOK
<1>7. fired' \in [Jobs -> Time] /\ held' \in 0..MaxHeld
  BY ConstantsAssumption DEF TypeOK
<1> QED
  BY <1>1, <1>2, <1>3, <1>4, <1>5, <1>6, <1>7 DEF TypeOK

LEMMA TypeManage ==
    ASSUME TypeOK, ManageCronTasks
    PROVE  TypeOK'
<1>1. PICK finished \in SUBSET Jobs :
          /\ state' = [j \in Jobs |-> Managed(j, finished)[1]]
          /\ pendingRunCount' = [j \in Jobs |-> Managed(j, finished)[2]]
  BY DEF ManageCronTasks
<1>2. \A j \in Jobs : /\ Managed(j, finished)[1] \in {"WAITING", "BUSY", "DONE"}
                      /\ Managed(j, finished)[2] \in Nat
  BY ConstantsAssumption DEF TypeOK, Managed
<1> QED
  BY <1>1, <1>2 DEF ManageCronTasks, TypeOK

LEMMA TypeNext ==
    TypeOK /\ [Next]_vars => TypeOK'
<1> SUFFICES ASSUME TypeOK, [Next]_vars PROVE TypeOK'
  OBVIOUS
<1>1. CASE StartPendingTasks
  BY <1>1, TypeStart
<1>2. CASE WaitForEventClockSet
  BY <1>2 DEF WaitForEventClockSet, TypeOK
<1>3. CASE ManageCronTasks
  BY <1>3, TypeManage
<1>4. ASSUME NEW j \in Jobs, UpdateSchedule(j) PROVE TypeOK'
  BY <1>4 DEF UpdateSchedule, TypeOK
<1>5. CASE UNCHANGED vars
  BY <1>5 DEF vars, TypeOK
<1> QED
  BY <1>1, <1>2, <1>3, <1>4, <1>5 DEF Next

LEMMA ZeroIsMinute ==
    0 \in Minutes
<1>1. 0 % Minute = 0
  BY MultiplesOfMinute, MinuteAssumption
<1> QED
  BY <1>1, ConstantsAssumption DEF Minutes, Time

LEMMA TypeInit ==
    Init => TypeOK
BY ZeroIsMinute, ConstantsAssumption DEF Init, TypeOK, Time

THEOREM TypeCorrect == Spec => []TypeOK
<1>1. Init => TypeOK
  BY TypeInit
<1> QED
  BY <1>1, TypeNext, PTL DEF Spec

-----------------------------------------------------------------------------
(* No minute is queued twice.  The inductive invariant adds QueuedInPast:   *)
(* a call of StartPendingTasks queues minutes after lastMinute only, and    *)
(* lastMinute covers them from then on.                                     *)

LEMMA OnceStart ==
    ASSUME TypeOK, QueuedInPast, AtMostOncePerMinute, StartPendingTasks
    PROVE  QueuedInPast' /\ AtMostOncePerMinute'
<1>1. SUFFICES ASSUME NEW j \in Jobs, NEW m \in Minutes
               PROVE  /\ queued'[j][m] > 0 => m <= lastMinute'
                      /\ queued'[j][m] <= 1
  BY DEF QueuedInPast, AtMostOncePerMinute
<1>2. queued[j][m] \in Nat /\ m \in Nat /\ lastMinute \in Nat
  BY MinutesAreNat DEF TypeOK
<1>3. /\ queued[j][m] > 0 => m <= lastMinute
      /\ queued[j][m] <= 1
  BY DEF QueuedInPast, AtMostOncePerMinute
<1>4. queued'[j][m] = queued[j][m] + (IF m \in InLoop(j) THEN 1 ELSE 0)
                                   + (IF m \in AfterLoop(j) THEN 1 ELSE 0)
  BY DEF StartPendingTasks
<1>5. Last \in Nat /\ StartOfMinute(now) \in Nat /\ lastMinute <= Last
  <2>1. Last \in Nat /\ StartOfMinute(now) \in Nat
    BY LastIsMinute, MinutesAreNat
  <2> QED
    BY <2>1, <1>2 DEF Last
<1>6. Last <= lastMinute'
  BY <1>5, ClockMoves DEF StartPendingTasks
<1>7. CASE m \in InLoop(j) \cup AfterLoop(j)
  <2>1. Passed # 0 /\ Last < m /\ m <= StartOfMinute(now)
    BY <1>7, QueuedSets
  <2>2. queued[j][m] = 0
    BY <2>1, <1>2, <1>3, <1>5
  <2>3. queued'[j][m] <= 1
    BY <2>2, <1>4, QueuedSets
  <2>4. lastMinute' = StartOfMinute(now)
    BY <2>1, ClockMoves DEF StartPendingTasks
  <2> QED
    BY <2>1, <2>3, <2>4
<1>8. CASE m \notin InLoop(j) \cup AfterLoop(j)
  <2>1. queued'[j][m] = queued[j][m]
    BY <1>8, <1>2, <1>4
  <2>2. lastMinute' \in Nat
    BY TypeStart, MinutesAreNat DEF TypeOK
  <2> QED
    BY <2>1, <2>2, <1>2, <1>3, <1>5, <1>6
<1> QED
  BY <1>7, <1>8

(* For every job, every schedule and every movement of the clock, each      *)
(* minute is queued at most once (StartPendingTask).                        *)
THEOREM OncePerMinute == Spec => []AtMostOncePerMinute
<1> DEFINE Inv == TypeOK /\ QueuedInPast /\ AtMostOncePerMinute
<1>1. Init => Inv
  <2>1. Init => TypeOK
    BY TypeInit
  <2> QED
    BY <2>1 DEF Init, QueuedInPast, AtMostOncePerMinute
<1>2. Inv /\ [Next]_vars => Inv'
  <2> SUFFICES ASSUME Inv, [Next]_vars PROVE Inv'
    OBVIOUS
  <2>1. TypeOK'
    BY TypeNext
  <2>2. CASE StartPendingTasks
    BY <2>1, <2>2, OnceStart
  <2>3. CASE WaitForEventClockSet
    BY <2>1, <2>3 DEF WaitForEventClockSet, QueuedInPast, AtMostOncePerMinute
  <2>4. CASE ManageCronTasks
    BY <2>1, <2>4 DEF ManageCronTasks, QueuedInPast, AtMostOncePerMinute
  <2>5. ASSUME NEW j \in Jobs, UpdateSchedule(j) PROVE Inv'
    BY <2>1, <2>5 DEF UpdateSchedule, QueuedInPast, AtMostOncePerMinute
  <2>6. CASE UNCHANGED vars
    BY <2>1, <2>6 DEF vars, QueuedInPast, AtMostOncePerMinute
  <2> QED
    BY <2>2, <2>3, <2>4, <2>5, <2>6 DEF Next
<1> QED
  BY <1>1, <1>2, PTL DEF Spec

-----------------------------------------------------------------------------
(* No run of a fixed schedule is lost.  The invariant is inductive as it    *)
(* stands, given the types: the minutes between lastMinute and the current  *)
(* one are exactly those the loop of StartPendingTask visits.               *)

LEMMA VisitsEveryMinute ==
    ASSUME TypeOK, NEW m \in Minutes, Last < m, m <= StartOfMinute(now)
    PROVE  m \in VisitedMinutes(Last, StartOfMinute(now))
<1>1. Last \in Minutes
  BY LastIsMinute
<1>2. m \in Nat /\ Last \in Nat
  BY <1>1, MinutesAreNat
<1>3. (m - Last) % Minute = 0
  BY <1>1, MinutesApart
<1>4. StartOfMinute(now) \in Nat
  BY LastIsMinute, MinutesAreNat
<1> QED
  BY <1>2, <1>3, <1>4 DEF VisitedMinutes

LEMMA NoneMissedStart ==
    ASSUME TypeOK, NoFixedMinuteMissed, StartPendingTasks
    PROVE  NoFixedMinuteMissed'
<1>1. SUFFICES ASSUME lastMinute' # 0,
                      NEW j \in Jobs, NEW m \in Minutes,
                      since'[j] < m, m <= lastMinute',
                      ~schedule'[j].floating,
                      ShouldRunTask(schedule'[j], m, TRUE, TRUE)
               PROVE  queued'[j][m] >= 1
  BY DEF NoFixedMinuteMissed, ShouldRunTask
<1>2. schedule' = schedule
  BY DEF StartPendingTasks
<1>3. /\ queued[j][m] \in Nat /\ m \in Nat /\ lastMinute \in Nat
      /\ since[j] \in Nat
  BY MinutesAreNat DEF TypeOK
<1>4. queued'[j][m] = queued[j][m] + (IF m \in InLoop(j) THEN 1 ELSE 0)
                                   + (IF m \in AfterLoop(j) THEN 1 ELSE 0)
  BY DEF StartPendingTasks
<1>5. Last \in Nat /\ StartOfMinute(now) \in Nat
  BY LastIsMinute, MinutesAreNat
<1>6. lastMinute # 0
  <2>1. SUFFICES ASSUME lastMinute = 0 PROVE FALSE
    OBVIOUS
  <2>2. since'[j] = Last /\ lastMinute' = Last
    BY <2>1, ClockMoves DEF StartPendingTasks
  <2> QED
    BY <2>2, <1>1, <1>3, <1>5
<1>7. Status # "CLOCK_CHANGE"
  <2>1. SUFFICES ASSUME Status = "CLOCK_CHANGE" PROVE FALSE
    OBVIOUS
  <2>2. since'[j] = StartOfMinute(now) /\ lastMinute' = StartOfMinute(now)
    BY <2>1, <1>6 DEF StartPendingTasks
  <2> QED
    BY <2>2, <1>1, <1>3, <1>5
<1>8. since'[j] = since[j] /\ Last = lastMinute
  BY <1>6, <1>7 DEF StartPendingTasks, Last
<1>9. CASE m <= lastMinute
  <2>1. queued[j][m] >= 1
    BY <1>1, <1>2, <1>6, <1>8, <1>9 DEF NoFixedMinuteMissed
  <2> QED
    BY <2>1, <1>3, <1>4
<1>10. CASE lastMinute < m
  <2>1. Passed # 0 /\ lastMinute' = StartOfMinute(now)
    BY <1>1, <1>3, <1>5, <1>8, <1>10, ClockMoves DEF StartPendingTasks
  <2>2. m \in VisitedMinutes(Last, StartOfMinute(now))
    BY <2>1, <1>1, <1>8, <1>10, VisitsEveryMinute
  <2>3. Status \in {"CLOCK_PROGRESSED", "CLOCK_JUMP_FORWARD"}
    BY <2>1, <1>7, ClockMoves
  <2>4. m \in InLoop(j)
    BY <2>1, <2>2, <2>3, <1>1, <1>2 DEF InLoop, ByMinute, LoopDue, ShouldRunTask
  <2> QED
    BY <2>4, <1>3, <1>4
<1> QED
  BY <1>3, <1>9, <1>10

(* A fixed schedule loses no due minute the worker has moved past, through  *)
(* every stall and every movement of the clock short of a clock change      *)
(* (StartPendingTasks, case CLOCK_JUMP_FORWARD).                            *)
THEOREM FixedNotMissed == Spec => []NoFixedMinuteMissed
<1> DEFINE Inv == TypeOK /\ NoFixedMinuteMissed
<1>1. Init => Inv
  <2>1. Init => TypeOK
    BY TypeInit
  <2> QED
    BY <2>1 DEF Init, NoFixedMinuteMissed
<1>2. Inv /\ [Next]_vars => Inv'
  <2> SUFFICES ASSUME Inv, [Next]_vars PROVE Inv'
    OBVIOUS
  <2>1. TypeOK'
    BY TypeNext
  <2>2. CASE StartPendingTasks
    BY <2>1, <2>2, NoneMissedStart
  <2>3. CASE WaitForEventClockSet
    BY <2>1, <2>3 DEF WaitForEventClockSet, NoFixedMinuteMissed
  <2>4. CASE ManageCronTasks
    BY <2>1, <2>4 DEF ManageCronTasks, NoFixedMinuteMissed
  <2>5. ASSUME NEW j \in Jobs, UpdateSchedule(j) PROVE Inv'
    <3>1. SUFFICES ASSUME lastMinute' # 0,
                          NEW i \in Jobs, NEW m \in Minutes,
                          since'[i] < m, m <= lastMinute',
                          ~schedule'[i].floating,
                          ShouldRunTask(schedule'[i], m, TRUE, TRUE)
                   PROVE  queued'[i][m] >= 1
      BY <2>1 DEF NoFixedMinuteMissed, ShouldRunTask
    <3>2. /\ m \in Nat /\ lastMinute \in Nat /\ lastMinute' = lastMinute
          /\ queued' = queued
      BY <2>5, MinutesAreNat DEF TypeOK, UpdateSchedule
    <3>3. i # j
      BY <2>5, <3>1, <3>2 DEF TypeOK, UpdateSchedule
    <3>4. since'[i] = since[i] /\ schedule'[i] = schedule[i]
      BY <2>5, <3>3 DEF TypeOK, UpdateSchedule
    <3> QED
      BY <3>1, <3>2, <3>4 DEF NoFixedMinuteMissed
  <2>6. CASE UNCHANGED vars
    BY <2>1, <2>6 DEF vars, NoFixedMinuteMissed
  <2> QED
    BY <2>2, <2>3, <2>4, <2>5, <2>6 DEF Next
<1> QED
  BY <1>1, <1>2, PTL DEF Spec

-----------------------------------------------------------------------------
(* The queue of an idle task is never longer than maxPendingTasks when an   *)
(* iteration begins (case CRON_TASK_DONE).                                  *)
THEOREM IdleQueue == Spec => []IdleQueueBounded
<1> DEFINE Inv == TypeOK /\ IdleQueueBounded
<1>1. Init => Inv
  <2>1. Init => TypeOK
    BY TypeInit
  <2> QED
    BY <2>1, ConstantsAssumption DEF Init, IdleQueueBounded
<1>2. Inv /\ [Next]_vars => Inv'
  <2> SUFFICES ASSUME Inv, [Next]_vars PROVE Inv'
    OBVIOUS
  <2>1. TypeOK'
    BY TypeNext
  <2>2. CASE StartPendingTasks
    BY <2>1, <2>2 DEF StartPendingTasks, IdleQueueBounded
  <2>3. CASE WaitForEventClockSet
    BY <2>1, <2>3 DEF WaitForEventClockSet, IdleQueueBounded
  <2>4. CASE ManageCronTasks
    <3>1. PICK finished \in SUBSET Jobs :
              /\ state' = [j \in Jobs |-> Managed(j, finished)[1]]
              /\ pendingRunCount' = [j \in Jobs |-> Managed(j, finished)[2]]
      BY <2>4 DEF ManageCronTasks
    <3>2. \A j \in Jobs : Managed(j, finished)[1] = "WAITING"
                           => Managed(j, finished)[2] <= MaxPendingTasks
      BY ConstantsAssumption DEF TypeOK, Managed
    <3> QED
      BY <2>1, <3>1, <3>2 DEF IdleQueueBounded
  <2>5. ASSUME NEW j \in Jobs, UpdateSchedule(j) PROVE Inv'
    BY <2>1, <2>5 DEF UpdateSchedule, IdleQueueBounded
  <2>6. CASE UNCHANGED vars
    BY <2>1, <2>6 DEF vars, IdleQueueBounded
  <2> QED
    BY <2>2, <2>3, <2>4, <2>5, <2>6 DEF Next
<1> QED
  BY <1>1, <1>2, PTL DEF Spec
=============================================================================
