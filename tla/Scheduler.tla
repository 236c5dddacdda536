------------------------------ MODULE Scheduler ------------------------------
(***************************************************************************)
(* The scheduling half of the worker: once per iteration of the main loop  *)
(* StartPendingTasks turns the wall clock into pending runs, WaitForEvent  *)
(* sleeps, and ManageCronTasks lets every task take a step.  What matters  *)
(* here is the clock and the queue length of each job (pendingRunCount), so *)
(* a run in progress (START to ERROR in CronTaskState) is one state, BUSY, *)
(* that lasts as many iterations as it likes; module NedoCron has the rest *)
(* of the state machine.                                                   *)
(*                                                                         *)
(* Two specifications share the actions.  Spec lets the clock be set to    *)
(* anything between two iterations: forwards, backwards, or a worker that  *)
(* slept through hours.  SteadySpec is the ordinary case: time only runs   *)
(* forward, the worker sleeps no longer than CalculateWaitTimeout allows,  *)
(* it may be held up for a while in a call that blocks, and the process    *)
(* may die and be restarted by the postmaster.                             *)
(***************************************************************************)
EXTENDS CronTime, FiniteSets, FiniteSetsExt

CONSTANTS
    Jobs,             \* job ids
    ScheduleChoices,  \* [Jobs -> sets of schedules a row may be updated to]
    MaxTime,          \* bound on the clock
    ClockDeltas,      \* by how much the clock may move between iterations
    JumpForward,      \* more minutes than this is a forward jump (5)
    ClockChange,      \* more minutes than this is a clock change (3 * 60)
    MaxPendingTasks,  \* maxPendingTasks (20)
    MaxSleep,         \* longest sleep of WaitForEvent (1000 ms)
    MaxHeld,          \* longest the worker is held up in one iteration
    RestartDelay      \* bgw_restart_time

(* The part of a CronSchedule the scheduler tells apart: the minutes its    *)
(* bit sets match, whether minute or hour was a star (MIN_STAR, HOUR_STAR), *)
(* and the "N seconds" form.                                                *)
CronSchedule == [SECONDS : BOOLEAN, secondsInterval : Nat,
                 floating : BOOLEAN, minutes : SUBSET Nat]

ASSUME ConstantsAssumption ==
    /\ MaxTime \in Nat /\ MaxPendingTasks \in Nat
    /\ JumpForward \in Nat /\ ClockChange \in Nat \ {0}
    /\ JumpForward <= ClockChange
    /\ MaxSleep \in Nat \ {0} /\ MaxHeld \in Nat /\ RestartDelay \in Nat
    /\ ClockDeltas \subseteq Int

(* Every choice is a schedule the parser accepts: the interval of the        *)
(* seconds form is 1 to 59 s, otherwise it is zero.                          *)
ASSUME SchedulesAssumption ==
    \A j \in Jobs : \A s \in ScheduleChoices[j] :
        /\ s.SECONDS \in BOOLEAN /\ s.floating \in BOOLEAN
        /\ s.secondsInterval \in 0..(Minute - 1)
        /\ s.SECONDS => s.secondsInterval > 0

Time    == 0..MaxTime
Minutes == {m \in Time : m % Minute = 0}

VARIABLES
    now,              \* the system clock, GetCurrentTimestamp()
    pc,               \* where the main loop is: start, wait, manage
    schedule,         \* job->schedule of every loaded job
    lastMinute,       \* static lastMinute of StartPendingTasks, 0 = not yet set
    pendingRunCount,
    nextRunTime,      \* 0 = not yet set
    state,            \* WAITING, BUSY, DONE
    queued,           \* ghost: how often each minute was queued for each job
    since,            \* ghost: minutes after this one have all been looked at
                      \* with the schedule the job has now
    fired,            \* ghost: when a seconds job was last due, or first seen
    held              \* ghost: how long the worker was held up since it last
                      \* called StartPendingTasks

vars == <<now, pc, schedule, lastMinute, pendingRunCount, nextRunTime, state,
          queued, since, fired, held>>

TypeOK ==
    /\ now \in Time
    /\ pc \in {"start", "wait", "manage"}
    /\ schedule \in [Jobs -> UNION {ScheduleChoices[j] : j \in Jobs}]
    /\ \A j \in Jobs : schedule[j] \in ScheduleChoices[j]
    /\ lastMinute \in Minutes
    /\ pendingRunCount \in [Jobs -> Nat]
    /\ nextRunTime \in [Jobs -> Nat]
    /\ state \in [Jobs -> {"WAITING", "BUSY", "DONE"}]
    /\ queued \in [Jobs -> [Minutes -> Nat]]
    /\ since \in [Jobs -> Minutes]
    /\ fired \in [Jobs -> Time]
    /\ held \in 0..MaxHeld

Init ==
    /\ now \in {t \in Time : t >= Minute}
    /\ pc = "start"
    /\ schedule \in [Jobs -> UNION {ScheduleChoices[j] : j \in Jobs}]
    /\ \A j \in Jobs : schedule[j] \in ScheduleChoices[j]
    /\ lastMinute = 0
    /\ pendingRunCount = [j \in Jobs |-> 0]
    /\ nextRunTime = [j \in Jobs |-> 0]
    /\ state = [j \in Jobs |-> "WAITING"]
    /\ queued = [j \in Jobs |-> [m \in Minutes |-> 0]]
    /\ since = [j \in Jobs |-> 0]
    /\ fired = [j \in Jobs |-> 0]
    /\ held = 0

-----------------------------------------------------------------------------
(* Is the job due in this minute?  The two flags select the schedules that *)
(* float with the clock and those fixed to a time of day.                  *)
ShouldRunTask(sched, minute, floatingHourOrMinute, fixedHourOrMinute) ==
    /\ ~sched.SECONDS
    /\ minute \in sched.minutes
    /\ \/ fixedHourOrMinute /\ ~sched.floating
       \/ floatingHourOrMinute /\ sched.floating

(* Faulty variants: the loop begins with lastMinute, or ends a minute early. *)
VisitedMinutesFromLast(last, currentMinute) ==
    {m \in last..currentMinute : (m - last) % Minute = 0}

VisitedMinutesShort(last, currentMinute) ==
    {m \in (last + 1)..(currentMinute - 1) : (m - last) % Minute = 0}

(* The minutes the while loop of StartPendingTask visits: virtTime starts  *)
(* at lastMinute and is advanced before each look.                         *)
VisitedMinutes(last, currentMinute) ==
    {m \in (last + 1)..currentMinute : (m - last) % Minute = 0}

(* How far the clock moved.  minutesPassed is never negative, so of the two *)
(* "backward" tests only the one that also covers zero can succeed.         *)
ClockStatus(minutesPassed) ==
    IF minutesPassed > ClockChange THEN "CLOCK_CHANGE"
    ELSE IF minutesPassed > JumpForward THEN "CLOCK_JUMP_FORWARD"
    ELSE IF minutesPassed > 0 THEN "CLOCK_PROGRESSED"
    ELSE IF minutesPassed > -ClockChange THEN "CLOCK_JUMP_BACKWARD"
    ELSE "CLOCK_CHANGE"

(* Faulty variant: the two flags of ShouldRunTask swapped in a forward jump. *)
LoopDueSwapped(sched, status, last, currentMinute) ==
    {m \in VisitedMinutes(last, currentMinute) :
        \/ status = "CLOCK_PROGRESSED" /\ ShouldRunTask(sched, m, TRUE, TRUE)
        \/ status = "CLOCK_JUMP_FORWARD" /\ ShouldRunTask(sched, m, TRUE, FALSE)}

(* Minutes StartPendingTask queues inside its loop ...                     *)
LoopDue(sched, status, last, currentMinute) ==
    {m \in VisitedMinutes(last, currentMinute) :
        \/ status = "CLOCK_PROGRESSED" /\ ShouldRunTask(sched, m, TRUE, TRUE)
        \/ status = "CLOCK_JUMP_FORWARD" /\ ShouldRunTask(sched, m, FALSE, TRUE)}

(* ... and the current minute, which it looks at on its own.               *)
CurrentDue(sched, status, currentMinute) ==
    {m \in {currentMinute} :
        \/ /\ status \in {"CLOCK_JUMP_FORWARD", "CLOCK_JUMP_BACKWARD"}
           /\ ShouldRunTask(sched, m, TRUE, FALSE)
        \/ status = "CLOCK_CHANGE" /\ ShouldRunTask(sched, m, TRUE, TRUE)}

(* StartSecondIntervalTask: the interval starts when the job is first seen; *)
(* a run is queued only when none is pending, and the next one is counted   *)
(* from now.                                                                *)
NextRunArmed(j) ==
    IF nextRunTime[j] = 0 THEN now + schedule[j].secondsInterval
                          ELSE nextRunTime[j]

SecondsDue(j) == TimestampDifferenceExceeds(NextRunArmed(j), now, 0)

(* Faulty variant: queues a run whether or not one is pending.              *)
SecondsPendingUnguarded(j) ==
    IF SecondsDue(j) THEN pendingRunCount[j] + 1 ELSE pendingRunCount[j]

SecondsPending(j) ==
    IF SecondsDue(j) /\ pendingRunCount[j] = 0 THEN 1 ELSE pendingRunCount[j]

SecondsNextRun(j) ==
    IF SecondsDue(j) THEN now + schedule[j].secondsInterval ELSE NextRunArmed(j)

-----------------------------------------------------------------------------
(* What StartPendingTasks starts from: the static lastMinute, set on the      *)
(* first call, and how far the clock is from it.                              *)
Last   == IF lastMinute = 0 THEN StartOfMinute(now) ELSE lastMinute
Passed == MinutesPassed(Last, now)
Status == ClockStatus(Passed)

(* The minutes StartPendingTask queues for a job in this call; it is called   *)
(* for minute schedules and when at least one minute passed.                  *)
ByMinute(j)   == ~schedule[j].SECONDS /\ Passed # 0
InLoop(j)     == IF ByMinute(j)
                 THEN LoopDue(schedule[j], Status, Last, StartOfMinute(now)) ELSE {}
AfterLoop(j)  == IF ByMinute(j)
                 THEN CurrentDue(schedule[j], Status, StartOfMinute(now)) ELSE {}

(* One call of StartPendingTasks at the time of the iteration.  lastMinute  *)
(* is left alone when no minute passed, and also when the clock went back.  *)
StartPendingTasks ==
    /\ pc = "start"
    /\ pc' = "wait"
    /\ pendingRunCount' = [j \in Jobs |->
           IF schedule[j].SECONDS THEN SecondsPending(j)
           ELSE pendingRunCount[j] + Cardinality(InLoop(j)) + Cardinality(AfterLoop(j))]
    /\ nextRunTime' = [j \in Jobs |->
           IF schedule[j].SECONDS THEN SecondsNextRun(j) ELSE nextRunTime[j]]
    /\ lastMinute' = IF Status # "CLOCK_JUMP_BACKWARD" THEN StartOfMinute(now) ELSE Last
    /\ queued' = [j \in Jobs |-> [m \in Minutes |->
           queued[j][m] + (IF m \in InLoop(j) THEN 1 ELSE 0)
                        + (IF m \in AfterLoop(j) THEN 1 ELSE 0)]]
    /\ since' = [j \in Jobs |-> IF lastMinute = 0 THEN Last
                                ELSE IF Status = "CLOCK_CHANGE" THEN StartOfMinute(now)
                                ELSE since[j]]
    /\ fired' = [j \in Jobs |->
           IF schedule[j].SECONDS /\ (SecondsDue(j) \/ lastMinute = 0)
           THEN now ELSE fired[j]]
    /\ held' = 0
    /\ UNCHANGED <<now, schedule, state>>

(* The sleep CalculateWaitTimeout computes from the minute boundary, the    *)
(* seconds jobs and the runs that can start at once.                        *)
CalculateWaitTimeout ==
    LET events == {EndOfMinute(now)} \cup
            {nextRunTime[j] : j \in {i \in Jobs : /\ schedule[i].SECONDS
                                                  /\ nextRunTime[i] # 0}}
    IN IF \E j \in Jobs : state[j] = "WAITING" /\ pendingRunCount[j] > 0 THEN 0
       ELSE Min({TimestampDifference(now, Min(events)), MaxSleep})

(* WaitForEvent with a well-behaved clock: a socket event or the latch may  *)
(* end the sleep early.                                                     *)
WaitForEvent ==
    /\ pc = "wait"
    /\ pc' = "manage"
    /\ \E slept \in 0..CalculateWaitTimeout : now' = now + slept
    /\ now' \in Time
    /\ UNCHANGED <<schedule, lastMinute, pendingRunCount, nextRunTime, state,
                   queued, since, fired, held>>

(* PQgetResult and PQcancel wait for the server, the statements on the jobs  *)
(* and their history for the locks of other sessions: the clock goes on and  *)
(* the loop does not.                                                        *)
WorkerIsHeld ==
    /\ pc \in {"wait", "manage"}
    /\ \E d \in 1..(MaxHeld - held) : now' = now + d /\ held' = held + d
    /\ now' \in Time
    /\ UNCHANGED <<pc, schedule, lastMinute, pendingRunCount, nextRunTime, state,
                   queued, since, fired>>

(* WaitForEvent while the clock is set, or the worker is held up for long.  *)
WaitForEventClockSet ==
    /\ pc = "wait"
    /\ pc' = "manage"
    /\ \E d \in ClockDeltas : now' = now + d
    /\ now' \in {t \in Time : t >= Minute}
    /\ UNCHANGED <<schedule, lastMinute, pendingRunCount, nextRunTime, state,
                   queued, since, fired, held>>

(* Faulty variant: the queue is never trimmed.                              *)
ManagedUntrimmed(j, finished) ==
    CASE state[j] = "WAITING" ->
            IF pendingRunCount[j] = 0 THEN <<"WAITING", 0>>
            ELSE <<"BUSY", pendingRunCount[j] - 1>>
      [] state[j] = "BUSY" ->
            <<IF j \in finished THEN "DONE" ELSE "BUSY", pendingRunCount[j]>>
      [] OTHER -> <<"WAITING", pendingRunCount[j]>>

(* Faulty variant: a waiting task starts a run even when none is pending.   *)
ManagedUnguarded(j, finished) ==
    CASE state[j] = "WAITING" -> <<"BUSY", pendingRunCount[j] - 1>>
      [] state[j] = "BUSY" ->
            <<IF j \in finished THEN "DONE" ELSE "BUSY", pendingRunCount[j]>>
      [] OTHER ->
            <<"WAITING", IF pendingRunCount[j] > MaxPendingTasks
                         THEN MaxPendingTasks ELSE pendingRunCount[j]>>

(* What one call of ManageCronTask does to the queue: a waiting task takes  *)
(* one pending run, a finished one trims the queue to maxPendingTasks.      *)
Managed(j, finished) ==
    CASE state[j] = "WAITING" ->
            IF pendingRunCount[j] = 0 THEN <<"WAITING", 0>>
            ELSE <<"BUSY", pendingRunCount[j] - 1>>
      [] state[j] = "BUSY" ->
            <<IF j \in finished THEN "DONE" ELSE "BUSY", pendingRunCount[j]>>
      [] OTHER ->
            <<"WAITING", IF pendingRunCount[j] > MaxPendingTasks
                         THEN MaxPendingTasks ELSE pendingRunCount[j]>>

ManageCronTasks ==
    /\ pc = "manage"
    /\ pc' = "start"
    /\ \E finished \in SUBSET Jobs :
          /\ state' = [j \in Jobs |-> Managed(j, finished)[1]]
          /\ pendingRunCount' = [j \in Jobs |-> Managed(j, finished)[2]]
    /\ UNCHANGED <<now, schedule, lastMinute, nextRunTime, queued, since, fired, held>>

(* Faulty variant: the interval begins anew with every update.              *)
UpdateScheduleRearms(j) ==
    /\ pc = "start"
    /\ \E s \in ScheduleChoices[j] \ {schedule[j]} :
          /\ schedule' = [schedule EXCEPT ![j] = s]
          /\ fired' = IF s.SECONDS /\ ~schedule[j].SECONDS
                      THEN [fired EXCEPT ![j] = now] ELSE fired
    /\ nextRunTime' = [nextRunTime EXCEPT ![j] = 0]
    /\ since' = [since EXCEPT ![j] = lastMinute]
    /\ UNCHANGED <<now, pc, lastMinute, pendingRunCount, state, queued, held>>

(* A row of nedo_cron.jobs is updated and ReloadCronJobs replaces the job;  *)
(* the task keeps its queue and its nextRunTime.                            *)
UpdateSchedule(j) ==
    /\ pc = "start"
    /\ \E s \in ScheduleChoices[j] \ {schedule[j]} :
          /\ schedule' = [schedule EXCEPT ![j] = s]
          /\ fired' = IF s.SECONDS /\ ~schedule[j].SECONDS
                      THEN [fired EXCEPT ![j] = now] ELSE fired
    /\ since' = [since EXCEPT ![j] = lastMinute]
    /\ UNCHANGED <<now, pc, lastMinute, pendingRunCount, nextRunTime, state, queued,
                   held>>

(* The worker process dies; its restarted copy begins with fresh statics.   *)
RestartWorker ==
    /\ \E down \in 0..RestartDelay : now' = now + down
    /\ now' \in Time
    /\ pc' = "start"
    /\ lastMinute' = 0
    /\ pendingRunCount' = [j \in Jobs |-> 0]
    /\ nextRunTime' = [j \in Jobs |-> 0]
    /\ state' = [j \in Jobs |-> "WAITING"]
    /\ held' = 0
    /\ UNCHANGED <<schedule, queued, since, fired>>

-----------------------------------------------------------------------------
Next ==
    \/ StartPendingTasks
    \/ WaitForEventClockSet
    \/ ManageCronTasks
    \/ \E j \in Jobs : UpdateSchedule(j)

Spec == Init /\ [][Next]_vars

SteadyNext ==
    \/ StartPendingTasks
    \/ WaitForEvent
    \/ WorkerIsHeld
    \/ ManageCronTasks
    \/ \E j \in Jobs : UpdateSchedule(j)
    \/ RestartWorker

SteadySpec == Init /\ [][SteadyNext]_vars

-----------------------------------------------------------------------------
(* No minute is ever queued twice for a job, whatever is done to the clock: *)
(* setting it back and forth over the same minutes, a jump that is partly   *)
(* caught up, or a schedule updated in between (StartPendingTask).          *)
AtMostOncePerMinute ==
    \A j \in Jobs : \A m \in Minutes : queued[j][m] <= 1

(* What makes it so: whatever was queued lies in the past of lastMinute, and  *)
(* lastMinute never moves back, not even when the clock does.                 *)
QueuedInPast ==
    \A j \in Jobs : \A m \in Minutes : queued[j][m] > 0 => m <= lastMinute

(* A schedule fixed to a time of day loses no run to the clock: every due   *)
(* minute the worker has moved past is queued, through stalls and jumps up  *)
(* to ClockChange minutes and through the clock being set back and running  *)
(* forward again (StartPendingTasks, case CLOCK_JUMP_FORWARD).              *)
NoFixedMinuteMissed ==
    lastMinute # 0 =>
        \A j \in Jobs : \A m \in Minutes :
            /\ since[j] < m /\ m <= lastMinute
            /\ ~schedule[j].floating
            /\ ShouldRunTask(schedule[j], m, TRUE, TRUE)
            => queued[j][m] >= 1

(* However long a call blocks, the worker is back before JumpForward minutes *)
(* have gone by.                                                             *)
HeldBriefly == MaxHeld + MaxSleep <= JumpForward * Minute

(* With a clock that only runs forward, and a worker that is held up only    *)
(* briefly, no due minute at all is lost, of a floating or of a fixed        *)
(* schedule, since the worker was last started.  Held up for longer, it      *)
(* takes the ordinary course of time for a jump of the clock and a floating  *)
(* schedule loses minutes (StartPendingTasks, case CLOCK_JUMP_FORWARD).      *)
NoMinuteMissed ==
    lastMinute # 0 =>
        \A j \in Jobs : \A m \in Minutes :
            /\ since[j] < m /\ m <= lastMinute
            /\ ShouldRunTask(schedule[j], m, TRUE, TRUE)
            => queued[j][m] >= 1

(* The trimming of case CRON_TASK_DONE bounds the queue of every idle task  *)
(* when an iteration begins; while a run is in progress the queue may be    *)
(* longer.                                                                  *)
IdleQueueBounded ==
    pc = "start" =>
        \A j \in Jobs : state[j] = "WAITING" => pendingRunCount[j] <= MaxPendingTasks

(* While the worker lives, a seconds job is due again no later than its      *)
(* interval after the last time, plus what the worker was held up meanwhile  *)
(* in a call that blocks: it is not overslept (CalculateWaitTimeout), and an *)
(* UPDATE of its schedule, however often, never puts it off by more than the *)
(* longest of the intervals, although nextRunTime was computed from an older *)
(* one (StartSecondIntervalTask).  A restarted worker counts anew.           *)
SecondsJobOnTime ==
    \A j \in Jobs : schedule[j].SECONDS /\ pc # "start" =>
        now <= fired[j] + Max({s.secondsInterval : s \in ScheduleChoices[j]}) + held

(* Runs of a seconds job do not pile up behind a slow one: one is queued at  *)
(* most, however long the current run lasts (StartSecondIntervalTask).       *)
SecondsQueueAtMostOne ==
    \A j \in Jobs : (\A s \in ScheduleChoices[j] : s.SECONDS) => pendingRunCount[j] <= 1

(* The comment on case CLOCK_JUMP_BACKWARD: when the clock has been set back *)
(* past minutes are not replayed but the current one is checked, so a        *)
(* floating schedule due in it is queued.                                    *)
SetBackChecksCurrentMinute ==
    [][ \A j \in Jobs :
          /\ StartPendingTasks
          /\ lastMinute # 0 /\ StartOfMinute(now) < lastMinute
          /\ ShouldRunTask(schedule[j], StartOfMinute(now), TRUE, FALSE)
          => pendingRunCount'[j] > pendingRunCount[j] ]_vars
=============================================================================
