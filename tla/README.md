# A TLA+ specification of my_nedo_cron

`my_nedo_cron` is a PostgreSQL extension that runs SQL commands on cron
schedules.  One background worker reads the jobs from `nedo_cron.jobs`, decides
every minute which are due, runs each over a libpq connection of its own and
writes the history to `nedo_cron.job_run_details`.  This directory models the
worker and everything it interacts with, checks the models with TLC on small
instances, and proves their safety properties with TLAPS for every instance.

Paths below are relative to the repository's `src/` directory (`nedo_cron.c` is
`src/nedo_cron.c` in it).

## 1. The system

| component | code | state | operations | modelled in |
|---|---|---|---|---|
| clock arithmetic | `cron_time.c` | none | `StartOfMinute`, `EndOfMinute`, `MinutesPassed` | `CronTime` |
| scheduler | `nedo_cron.c` 328-378, 887-1050; `cron_task.c` 38-56 | `lastMinute`; `pendingRunCount`, `nextRunTime` of every task | `StartPendingTasks`, `StartPendingTask`, `StartSecondIntervalTask`, `CalculateWaitTimeout` | `Scheduler` |
| main loop, task state machine | `nedo_cron.c` 216-289, 381-883; `cron_task.c` | `CronTaskHashTable`, one `CronTask` per job | `WaitForEvent`, `ManageCronTask` (seven states), `InitCronTask`, `ResetCronTaskAfterRun` | `NedoCron` |
| run history | `cron_sql.c`; `sql/my_nedo_cron--0.1.sql` | rows of `job_run_details` | `InsertRunDetailsStart`, `UpdatePID`, `UpdateRunDetailsFinish`, cascade from `jobs` | `NedoCron`; promise in `RunHistory` |
| job cache and invalidation | `cron_job.c`; `nedo_cron.c` 84-125, 254-273 | `CronJobHashTable`, `CronJobCacheValid`, the remembered OIDs | trigger, relcache callback, `ReloadCronJobs`, 60 s reload, SIGHUP | `JobCache` |
| SQL interface | `cron_job.c` 258-414 | rows of `jobs` | `schedule_job`, `unschedule_job`, `check_schedule`, `invalidate_job_cache` | validation in `CronExpression`, effects in `NedoCron`, `JobCache` |
| cron expression parser | `cron_parser.c` | the `CronSchedule` under construction, the position of the error | `parse_with_error` and its helpers | `CronParser` |
| calendar matching | `nedo_cron.c` 1007-1050, `cron_parser.c` 85-135 | none | `ShouldRunTask`, `days_in_month` | `Calendar`, composed with the parser in `CronExpression`; its result is a parameter of `Scheduler` |
| libpq and the job's backend | external | connections, what a backend is doing | `PQconnectPoll`, `PQsendQuery`, `PQgetResult`, `PQcancel`, `PQfinish` | environment of `NedoCron` |
| configuration | `nedo_cron.c` 128-176 | two settings | `_PG_init` | not modelled |

How they interact.  The worker is one thread.  Each iteration takes in
invalidation messages, reloads the jobs if the cache is invalid, SIGHUP came or
60 s passed, calls `StartPendingTasks` (which only increments queue lengths),
sleeps in `WaitForEvent` on the latch and the sockets of the tasks that need one,
and calls `ManageCronTask` once for every task.  What runs beside it: client
sessions that change `nedo_cron.jobs` in transactions of their own, one backend
per run, the network, the clock, and the postmaster that restarts the worker.

What is hard in it, and what correctness means for each part:

* **Scheduler.**  The wall clock may stall, jump and be set back; three rules
  (up to 5 minutes, up to 3 hours, more) decide which minutes are caught up.  No
  minute may be queued twice, none may be lost that the rules promise, queues
  must stay bounded and seconds jobs must not be overslept.  The same thread
  makes calls that block, and whatever they take looks like a jump of the clock.
* **State machine.**  A run can be cut short in every state by the removal of its
  job, the loss of its connection, either of two deadlines, a failed cancel
  request or the death of the worker.  Its row must be closed exactly once and
  truthfully, its connection closed exactly once, no task may wait without
  anything to wake it, and every run must end.
* **History.**  Writes of the worker meet row locks and cascading deletes of
  sessions in the middle of the loop.
* **Schedules.**  A text is parsed three times by different callers and read as a
  calendar much later.  Exactly the well-formed texts must be accepted, nothing
  may be written beyond the bit arrays, the arithmetic of a step must not run
  away, and a job must be due when its text says so, in every kind of year.
* **Job cache.**  Messages are consumed whether or not a callback is there for
  them, a reload takes time, and the OID of the table is remembered for the life
  of a process.  A change must be picked up quickly, and at the latest in the end.

`PROJECT.json` lists these as hazards, each at its line with the properties that
watch it.

## 2. The modules

### CronTime
The functions of `cron_time.c` on natural numbers, with the length of a minute as
the constant `Minute`.  `TimestampDifference` of PostgreSQL reports a negative
difference as zero; `MinutesPassed` inherits that, which matters below.

### Scheduler (with MCScheduler, SchedulerProofs, SchedulerSteadyProofs)
`now` is the clock, `pc` the position in the loop.  `StartPendingTasks` is one
call of the function with everything it calls; `WaitForEvent` and
`WaitForEventClockSet` are the sleep with an ordinary clock and with one that is
set to anything; `ManageCronTasks` is what the state machine does to the queue, a
run in progress being the single state `BUSY`.  `WorkerIsHeld` is the time that a
call of the same iteration blocks for - `PQgetResult`, `PQcancel`, an INSERT or
UPDATE behind a row lock - before or between the tasks; `held` adds it up until the
worker is back at `StartPendingTasks`, and `MaxHeld` bounds it.  `UpdateSchedule` is the reload of
an updated row, `RestartWorker` the death and restart of the process.  A schedule
is reduced to the set of minutes it matches, whether it is floating (`MIN_STAR`
or `HOUR_STAR`) and the seconds interval; `CronExpression` shows that this is what
a text amounts to.  Ghosts record how often each minute was `queued` for each
job, from which minute on (`since`) a job's schedule has been in force without a
clock change, and when a seconds job was last due or first seen by this
incarnation of the worker (`fired`).

The thresholds (5 and 180 minutes), the length of a minute and the queue bound
are constants, so the proofs hold for the real values and TLC uses small ones.

### NedoCron (with MCNedoCron, NedoCronProofs)
The whole worker except for the clock.  One action per state of
`ManageCronTask` (`ManageWaiting` ... `ManageDone`, RUNNING split into
`ManageRunningGivesUp`, `ManageRunning` and `ReadResults`, the part after
`PQgetResult` has blocked), `LoopTop` for the part of the loop before the wait,
`WaitForEvent` for the wait.  Every `CronTask` field that is ever read is in the
record; `startDeadline` and `polling_status` begin `"uninit"` because
`InitCronTask` does not set them.  Deadlines are `unset`, `armed` or `passed`.
The loop is split where somebody else can get in between, and a statement that
touches a row deleted by an open transaction cannot proceed (`RowFree`).  A
removal is two steps, the DELETE and its commit or rollback.  `Entered(j)` is the
task as the switch of `ManageCronTask` finds it: the one of a job that is no longer
loaded has by then been put into ERROR, with a message.  After COPY the worker
closes a connection whose command is still executing (`LetsGoOfCopy`).

The environment: `ScheduleJob`, `UnscheduleJob`, `CommitUnschedule`,
`RollbackUnschedule`, `DeadlinePasses`, `ServerStreams` (the first of several
results arrived), `ServerCopies` (a COPY has begun), `ServerFinishes`, `LinkBreaks`, `WorkerCrashes`, `WorkerExits`
(SIGTERM), `WorkerRestarts`, `ServerRestarts`.  `Events` selects which of these an
instance has:

| event | what may happen |
|---|---|
| `unschedule` | jobs are removed |
| `reuse` | a removed job's id is inserted again |
| `update` | an UPDATE gives a row to another user, with a command of theirs |
| `link` | connections are lost |
| `cancel` | `PQgetCancel` or `PQcancel` fails |
| `stream` | a command has several results, `PQgetResult` blocks between them |
| `copy` | a command contains a COPY |
| `nopid` | a server does not tell its pid, so that `UpdatePID` leaves the row in `starting` |
| `bigquery` | `PQsendQuery` leaves the tail of the command in libpq's buffer |
| `crash`, `sigterm` | the worker dies, or is told to exit |
| `stale` | an iteration goes without a reload although the table has changed |

A worker that ends leaves its backends executing: they notice the closed socket
only when they are done.  The ghost `severed` holds the runs that are executing
although the worker has let go of them: it died, the connection was lost, the job
was removed, the cancel request failed, or it hung up on a COPY.

Of a job's columns the model keeps one, `owner`: the user, and with it the command
that user wrote.  `cachedOwner` is the worker's copy, `runUser` the column of
`job_run_details`, and the user the connection of the run was made for.

### RunHistory (with RunHistoryProofs)
The promise of `job_run_details`: the runs of a job follow one another, each is
opened once, may be seen running, and is closed at most once with a verdict its
past allows (where servers tell their pid, only a run seen running can have
succeeded or timed out); rows go away only with their job; a worker that dies walks away from
the runs in progress.  `NedoCron!ImplementsRunHistory` is the refinement, with
`current[j]` mapped to the task's `runId` until `UpdateRunDetailsFinish`.

### JobCache (with MCJobCache, JobCacheProofs)
The path of a change from a session to the worker.  The contents of the table
are a number that grows with every change.  A session commits (`ChangeJobs`) and
only then sends its message (`SendInvalidation`); the worker takes messages in at
the top of the loop, when it registers its callback, when a reload's transaction
begins, and - when a long column value has to be fetched from the TOAST table -
in the middle of the scan.  `DropExtension` and `CreateExtension` change the
table's OID; `OpenFails` is the worker that opens the one it remembers.

### CronParser, Calendar, CronExpression (with MCCronExpression, CronItemProofs, CalendarProofs, CronExpressionProofs)
A text is a sequence of fields, a field of items, an item of parts, a part of
words: cut at the blank, the comma, the slash and the dash as `str_split` does,
empty strings kept.  A word is a numeral, a name with its number (1 to 12 for months,
0 to 6 for weekdays, as in `month_names` and `dow_names`), a special token, junk or empty.
`CronParser` has one operator per function of `cron_parser.c` and four actions:
the `N seconds` form, the count of fields, the beginning of a field, and one item
of it.  `schedule` is the local `temp`; what an item that fails has already set in
it is left out, since `temp` is then thrown away.  `Plus` wraps around as
PostgreSQL's build (`-fwrapv`) makes it.  The second half of the module says what a
text means without a parser: every item is an arithmetic progression (`Progressions`,
`Members`), a field is the union of its items, and `FirstFault` is where the first
item stands that names no number, or one out of range.

`Calendar` has the month lengths and `ShouldRunTask`; `gmtime` is external and given
by the usual conversion of a day number, in which no table of month lengths occurs,
so that the last day of a month in `DueAsMeant` ("tomorrow is the first") is
independent of `days_in_month`.

`CronExpression` composes them: a text goes through `schedule_job`, the CHECK
constraint (`check_schedule`) and `TupleToJob`, each with a parse of its own, or
through the last two only, as with a direct INSERT or UPDATE.  The loaded job is
then looked at day by day.

## 3. What TLC checks

| run | what it shows | size |
|---|---|---|
| `SchedulerJumps` | any sequence of clock movements and schedule updates: no minute queued twice; no fixed schedule loses a minute short of a clock change; the queue of an idle task is at most `maxPendingTasks` | 2 jobs, 6 minutes |
| `SchedulerSteady` | ordinary clock, a worker held up in calls that block and restarted, schedules updated from minutes to seconds and from one interval to another: as long as no iteration takes more than `JumpForward` minutes every due minute is queued exactly once from start to restart; while the worker lives a seconds job is late only by what it was held up, never put off by updates beyond its longest interval, and never has two runs queued | 2 jobs, 4 minutes of 3 units |
| `NedoCronFaults` | lost connections, failing cancels, commands of several results, COPY, servers with and without a pid, removals: everyone who waits for a socket has a live connection, a direction and a deadline; no connection leaks or is shared; whoever is found in ERROR, the task of a removed job included, has the message that `UpdateRunDetailsFinish` dereferences; `succeeded` and `timeout` are true; a job overlaps itself only with a run that is `severed`, COPY among them | 1 job, 3 runs |
| `NedoCronFair` | crashes, SIGTERM, lost connections, removal and re-use of an id, missed reloads: the history refines `RunHistory`; no run of a living worker is orphaned; verdicts are final; no overlap except with a severed run; every run ends; every removed job is forgotten | 1 job, 2 runs |
| `CronExpression` | the parser accepts exactly the well-formed texts and points at the first fault; the bit sets and the seconds interval are what the text denotes, and nothing leaves its array; every row the constraint lets in is loaded; a loaded job is due exactly when its text says so | 2479 texts; 6 of them through 5 years |
| `JobCacheQuick` | a change announced before an iteration is loaded in it | 2 sessions, 3 changes |
| `JobCacheHeals` | whatever messages are lost and however often the extension is re-created, the cache ends up equal to the table | 2 sessions, 2 changes, 3 OIDs |

Five more runs show a disagreement between the code and what the repository says
about it (section 6): `SchedulerSetBack`, `NedoCronRemoval` (two jobs), `NedoCronUpdate`,
`NedoCronBigQuery` and `NedoCronCopy`.

**Bounds.**  Scheduler: with thresholds of 1 and 3 minutes every branch of
`ClockStatus` is taken with room on either side, and the largest delta exceeds
the second threshold; minutes of two units distinguish the start of a minute from
its inside; in the steady instance minutes of three units and intervals of one and two
put seconds jobs out of step with minutes, and a sleep and a blocked call of up to a
minute each add up to exactly the first threshold of two minutes, so that a loop may
find none, one or two new minutes.  `MaxTime` bounds the clock; runs end
when it is reached and the remaining steps stay enabled.  NedoCron: tasks share only
the loop, `blocked` and the death of the process, and the theorems of section 4 hold
for any number of them, so the passing runs follow one job and spend their states on
its runs: two are what it takes for anything left over from one to meet the next, and
three in `NedoCronFaults` let it skip one; `NedoCronRemoval` has two jobs, one of which
ends the worker of both.  `maxPendingTasks` is 1 in one instance, so that a queued run
is carried over, and 0 in the other, so that the queue is trimmed.  CronExpression:
every field is tried with all single items of a vocabulary of 14 words, all ranges
over it, steps of 0, 1, 2, 7, 59 and around the largest int over 20 bases, and all
lists of two of seven items; three variants of every field are tried in all
combinations, so that faults meet.  The largest int is 127: above every bound of
a field, as the real one is, so that only the overflow of a step reaches it.  The
years are 2000 and 2400 (divisible by 400), 2100 (by 100), 2024 (by 4) and 2023.
`Budget` keeps queued and open runs within `MaxRuns`.  No symmetry is used.  JobCache: two sessions, so that one message
can be under way while the other is taken in; three OIDs, so that the extension is
re-created under a worker that has already failed once.

**Fairness.**  `NedoCron!FairSpec`: strong fairness of the worker's steps, since a
statement waiting for a row lock stands in PostgreSQL's lock queue and gets the
lock when the holder is done, however often the lock is taken again after that;
strong fairness of a reload, which the 60 s clock guarantees if no message does;
strong fairness of a wait with a timeout above zero, since a zero timeout other
than for a startable run needs the loop to come round at the very instant of an
event; weak fairness of the clock reaching deadlines, of sessions ending the
transactions they began, and of backends ending their command - the connection
options set `statement_timeout`.  (With `nedo_cron.statement_timeout_ms = 0` the
server sets no limit; the worker's own deadline is then reached at once, and a
command that is blocked in `PQgetResult` ends only by itself or by that cancel
request.)  Nothing is assumed about the network, crashes,
or that jobs are scheduled or removed.  `JobCache!FairSpec`: weak fairness of the
worker (the postmaster restarts it), of the 60 s clock and of sending what is
committed.

Each property of a passing run has a mutant in `PROJECT.json`: a faulty variant
of one definition, written next to it, that makes the property fail.

## 4. What is proved

Every theorem holds for all values of the constants that satisfy the named
assumptions; TLC evaluates the same assumptions on its instances.  Each inductive
invariant below was checked by TLC on a small instance before it was proved.

| module | from | theorems |
|---|---|---|
| `SchedulerProofs` | any movement of the clock | `TypeCorrect`, `OncePerMinute`, `FixedNotMissed`, `IdleQueue` |
| `SchedulerSteadyProofs` | an ordinary clock and restarts | `OncePerMinuteSteady`, `NoneMissed`, `SecondsOnTime`, `SecondsQueue` |
| `NedoCronProofs` | any jobs, runs and events | `TypeCorrect`, `ActiveLoaded`, `SocketsWired`, `NoLeak`, `ErrorsSpeak`, `HistoryTrue`, `OpenRunsOwned`, `NoOverlap` |
| `RunHistoryProofs` | the same | `HistoryRefined`, `FinalStable` |
| `JobCacheProofs` | any sessions and changes, the extension in place | `QuicklyVisible` |
| `CronItemProofs` | any item of any words, any largest int above 60 | `ItemRight` |
| `CalendarProofs` | every day since 1970 | `LastDayOfMonth` |
| `CronExpressionProofs` | any set of texts, any largest int above 60, any days and times | `ParserStaysInside`, `RowsLoad`, `ParserIsGrammar`, `ParserDenotes`, `JobsDueAsMeant`, `IntervalsFit` |

### The scheduler under any clock

`SchedulerProofs` assumes `MinuteAssumption` (a minute has a positive length),
`ConstantsAssumption` (bounds are naturals, the thresholds are ordered and the
upper one is positive) and `SchedulesAssumption` (what the parser guarantees of a
schedule: an interval is shorter than a minute, and positive in the seconds form).

* `TypeCorrect`: `Spec => []TypeOK`.  The substance is that `lastMinute` is always
  the start of a minute, and no queue length goes below zero.
* `OncePerMinute`: `Spec => []AtMostOncePerMinute`.  The property is not inductive:
  nothing in it stops the clock from being set back over minutes already queued.
  `QueuedInPast` is the strengthening - whatever was queued is not after
  `lastMinute` - which holds because `lastMinute` never moves back
  (`MinutesPassed` is never negative, so a backward clock takes the branch that
  leaves it alone) and because all the minutes a call looks at are after it.
  Inside one call, the loop and the look at the current minute take disjoint sets:
  in a forward jump the loop takes fixed schedules and the other one floating.
* `FixedNotMissed`: `Spec => []NoFixedMinuteMissed`, inductive given types: the
  loop visits exactly the minutes between the old and the new `lastMinute`, and
  both `CLOCK_PROGRESSED` and `CLOCK_JUMP_FORWARD` queue a fixed schedule in it.
* `IdleQueue`: `Spec => []IdleQueueBounded`, by a case analysis on where the loop is.

### The scheduler in ordinary operation

`SchedulerSteadyProofs`, from the same assumptions, about `SteadySpec`: the clock runs
forward, the worker does not sleep beyond `CalculateWaitTimeout`, it is held up for at
most `MaxHeld` in one iteration, and it may die and come back at any moment.
`NoneMissed` has the hypothesis `HeldBriefly` - sleep and blocked calls of an iteration
together take at most `JumpForward` minutes - without which it is false
(section 6); the other three hold for any `MaxHeld`.  `SecondsOnTime` gives the
time the worker was held up to the job, and counts anew after a restart.  `SteadyInv` adds to the properties themselves

* `Forward`: the clock is ahead of `lastMinute` by less than a minute, a sleep and
  what the worker was held up since.  With `HeldBriefly` every call of
  `StartPendingTasks` therefore sees at most `JumpForward` new minutes (`PassedFew`), and
  only the first rule of `ClockStatus` ever applies: this is why floating schedules
  lose nothing either.
* `QueuedBehind`: what was queued lies behind `lastMinute`, or behind the clock while
  a restarted worker has not set it.  Without the second half a worker that dies
  in the minute it has just queued could queue it again.
* `Armed`: `nextRunTime` is at most the longest interval after the job was last due,
  and the worker does not sleep past it: it is late only by `held`.  The bound is on the longest of the
  intervals a row may be updated to, because `nextRunTime` survives an UPDATE.

`SecondsQueue` is proved of both specifications.  Minima and maxima of finite sets
(`CalculateWaitTimeout`, the longest interval) come from `LeastNatural`, which rests on
the well-foundedness of the naturals and takes no operator as a parameter.

### The worker

`NedoCronProofs` assumes `NedoCronAssumption` only: finitely many jobs, natural bounds,
known events and outcomes.  All eight theorems are consequences of one inductive
invariant, `Inv`, of four parts: types, the loop (`LoopOK`), what holds of each task
(`TaskFits`) and of each run (`RunFits`).  None of the eight properties is inductive on
its own; what each needs of the others is the content of the parts:

* `Shape` ties the fields of a task together in each state of `ManageCronTask`;
  `SocketTaskWired` is read off it, and so is `ErrorHasMessage` for the tasks that were
  left in ERROR; those that come to it in this very call, because their job has been
  removed, are `EnteredFields`.  It must also say what the
  fields are where nobody looks yet: that no deadline and no `timedOut` is left over
  when a run begins is why `HistoryTruthful` holds of the next run.
* `LatestRun`: the run id of a task is that of the latest run of this job, begun by
  this incarnation of the worker.  This is what keeps the tasks apart (two tasks
  never have the same run, hence never the same connection, `NoLeak`), and it is the
  heart of `NoOverlap`: an older run of the job cannot be the one the task holds.
* `Held`: a command that is executing and not `severed` is one that a RUNNING task is
  waiting for.  Every path on which the worker lets go of a command that may still
  execute - removal, a lost connection, a failed cancel, COPY, death - has to put it into
  `severed`; the proof goes through all of them.  `NoOverlap` is thus what the code keeps
  of `README.md:42`, with its exceptions named; without them it is false (`NedoCronCopy`).
* `StatusFits`, `ServerFits` and `TimedOutTruly` relate the task to the row and to the
  backend of its run, through deletions of the row by a session in mid-run.
* `Owned` and `Connection` are `OpenRunOwned` and `NoConnectionLeak` with the run as the
  subject, and `Unbegun` says that a fresh run id has no past.

`Inv` speaks of one task or one run at a time.  `OneTaskStep` shows once that a step
that takes place in one task and its run (`Elsewhere`) leaves everybody else's part
alone, and `TaskStep` reduces the states of `ManageCronTask` to the conditions in
`Fitting` on the task they write.  Reloads, crashes, cascading deletes and the events
of the backends touch many tasks or none and are proved one by one.

`RunHistoryProofs` shows `Spec => ImplementsRunHistory`: with `Inv`, every action is one
step of `RunHistory` or leaves the three mapped variables alone.  What is needed of `Inv`
is mainly that a task whose run is shown as current has an open or a deleted row
(`StatusFits`): then closing it is `RunHistory`'s closing step with a verdict its status
allows, and never a second one.  `FinalStable` follows from the abstract steps rather
than from those of the worker.

### The job cache

`JobCacheProofs`, for any number of sessions and changes and under the
hypothesis that the extension stays in place and nothing is toasted:

* `QuicklyVisible`: `Spec => []AnnouncedIsLoaded`.  The invariant `Covered` says, at
  each point of the loop, that what was announced is in the cache, or in the
  snapshot about to become it, or that the cache is invalid, or that a message
  the callback will see is still under way.  `RegisteredFirst` is why a consumed
  message is never lost: no reload ends before the callback is registered.

### Schedules

The theorems assume `CronParserAssumption` - the largest int is above every bound of a
field, and a text is what `str_split` makes of a string: sequences, never empty ones, of
sequences of words - and `CronExpressionAssumption` (days are naturals, times of day are
times of day).  Two modules are about data alone.

* `CronItemProofs`: `ItemRight` compares `parse_field_item` with the reference, for every
  field and every item.  The difficulty is the loop of `set_field_range`: a recursive
  function on all ints, whose step wraps around.  The library's induction theorems
  are out of reach, so `LoopExists` gives the function explicitly - the
  chain `v, v + s, ...` up to the end of the range or to the first value out of bounds - and
  shows that it satisfies the recursive equation at every int, and `LoopMeans` shows that
  any function that satisfies it inside the bounds agrees with it, by looking
  at the last value where it would not (`LeastNatural`).  `RangeMeans` then says what the loop
  accepts: start and end visited in bounds, and no step that overflows.  On top of it
  the forms of an item are compared one by one (`RangesRight`, `WholeRight`, `StepRight`,
  `ValueRight`).
* `CalendarProofs`: `LastDayOfMonth` says that `isLastDayOfMonth` is true exactly on the day
  before a first.  A day is split into 400-year eras, centuries, groups of four
  years, years beginning in March, and a day of the year (`EraDayParts`, `YearAndDay`);
  `YearEnds` shows where `gmtime` changes the year, `MonthEnds` where it changes the month and that
  these ends are those of the table in `days_in_month`, and `LeapYears` that
  the leap days are those of `is_leap_year`.

`CronExpressionProofs` puts them together in two inductive invariants.  `ExpressionInv` is
about acceptance:

* `ParserStaysInside`: `Spec => []ParserTypeOK`.  `ItemFits` shows of every form of an item
  that what is accepted lies within the bounds of the field, whatever the step, the
  overflow included; `WithItemOK` that these bounds, Sunday folded, lie within the
  arrays.
* `RowsLoad`: `Spec => []RowIsLoaded`.  `Acceptable` says of a text, without any state of the
  parser, whether it will be accepted; `ParsedSoFar` is what a parser in the middle of
  a text has established of it.  The verdicts of `schedule_job`, the CHECK constraint
  and `TupleToJob` therefore agree, and a row implies an acceptable text.

`MeaningInv` adds what the text means.  None of the three properties below is inductive:
each speaks of a finished parse only.  `ReadSoFar` says what the schedule under
construction is made of: of every field exactly the items already read (`Holds`, `ReadOf`), so
that one more item adds its own numbers and flags (`HoldsItem`) and touches no other field
(`HoldsOther`).  The second part says that a rejection names the first fault, and
`LoadedOK` that the loaded job is the schedule of the text.

* `ParserIsGrammar`: `Spec => []VerdictIsGrammar`.  The fields behind the parser are accepted and
  so are the items before the current one, by `ItemRight` well formed; so what it
  rejects is the least fault (`FirstFaultAt`), with an empty item of the list going
  first within its field (`HolesOf`).
* `ParserDenotes`: `Spec => []BitsDenote`, for the five fields and for the seconds form.
* `JobsDueAsMeant`: `Spec => []DueAsMeant`, from `ParserDenotes` and `LastDayOfMonth`.
* `IntervalsFit`: the assumption `SchedulesAssumption` makes about intervals in `Scheduler` is
  true of every job the worker loads.

### Only model-checked

Every invariant, and every action property and refinement, that a passing run checks is
stated by a theorem.  What stays with TLC is liveness under fairness (`RunsEnd`,
`RemovedJobForgotten`, `EventuallyFresh`): the prover does not reason about `ENABLED`.  The
theorem about the job cache leaves out re-creation of the extension and messages taken in
during a scan, where `AnnouncedIsLoaded` is false (section 6).

## 5. What is not modelled

* Characters: a word that the parser takes as a whole is one symbol.  That a name is
  found in any case and that a numeral is digits only is built into the kinds of
  words.  `isEnumeration`, `fillBooleanArray` and `seconds_names` are never used.
* The other columns of a job (node, port, database) go with its user in START.
* Seconds jobs under a clock that is set back: `nextRunTime` is absolute, so they
  stand still until it is reached; nothing in the repository says they should not.
* Seconds jobs across restarts: `nextRunTime` is lost with the process, so a job that is
  restarted more often than its interval never runs; nothing promises more.
* The wait of all other tasks while `PQgetResult` blocks, beyond what the clock makes of
  it (`WorkerIsHeld`), and the growth of a queue while its run lasts.
* Log messages, return messages, the wording of errors, memory contexts.
* `_PG_init`: it declares two settings and registers the worker.  One line of it is
  translated, the one that sets `bgw_restart_time` (`WorkerRestarts`, `RestartDelay`).
* Failures of the worker's own SQL other than the foreign key (disk full, a lost
  table): these end the process and are covered by `WorkerCrashes`.

## 6. Findings

* **A clock that is set back** (`SchedulerSetBack`).  The comment at
  `nedo_cron.c:930` promises that past minutes are not replayed but the current one
  is checked.  `MinutesPassed` is never negative, and zero skips
  `StartPendingTask`: minute jobs stand still until the clock has caught up.
* **Removal of a job about to start** (`NedoCronRemoval`).  The comment at
  `nedo_cron.c:493` wants its task to end in the regular way.  The check looks at
  the cached job; if the row is deleted after the reload, the INSERT violates the
  foreign key and the ERROR ends the worker, and with it every run in progress.
  Their rows stay open and the restarted worker may start a job again beside the
  command that is still executing.
* **An UPDATE under way** (`NedoCronUpdate`).  `README.md:40` says the worker connects
  as the user who created the job and sends its command.  The user is read in
  START, the command in SENDING, and a reload may come between: a row that is given
  to another user in that time has its new command executed as the old user.
* **A long command** (`NedoCronBigQuery`).  `README.md:253` calls the timeout the
  maximal execution time.  A command only partly sent is never flushed; the
  backend has nothing to cancel and the run stays `running`.
* **COPY** (`NedoCronCopy`).  `README.md:42` says a job never runs in parallel with itself.
  `PQgetResult` reports a COPY when it begins; the worker stops reading and closes the
  connection without a cancel request (`nedo_cron.c:795`-`818`).  The backend notices only
  when it next writes to the client, which a slow `COPY (SELECT ...) TO STDOUT` may put
  off for long; meanwhile the task goes through ERROR and DONE and starts its next run.
Two more have no run of their own; they are what limits two properties that do hold:

* **A loop held up for minutes.**  The comment at `nedo_cron.c:898` says
  that in the ordinary course of time every missed minute is checked.  What is
  ordinary is decided by `minutesPassed` alone: a worker that one iteration holds
  up for more than five minutes - in `PQgetResult` of a command of many statements, or
  behind the row lock of an open transaction - takes this for a forward jump of the
  clock, and a schedule with a star in minute or hour loses all those minutes but
  the current one.  Hence `HeldBriefly`: `SchedulerSteady` with `MaxHeld = 8` violates
  `NoMinuteMissed`.
* **A job scheduled right after CREATE EXTENSION.**
  `README.md:44` says changes are quickly visible.  A message consumed before the
  callback is registered has no effect, and registering does not invalidate the
  cache: the job waits for the 60 s reload.  A message taken in during a scan
  (`AcceptDuringScan`) is lost in the same way, since `ReloadCronJobs` sets
  `CronJobCacheValid` last.  Hence the condition on `Events` in `QuicklyVisible`:
  `JobCacheQuick` with `Events = {"ddl"}` and `MaxOid = 2` violates
  `AnnouncedIsLoaded`; `JobCacheHeals` covers both.

Noticed without being at odds with anything the repository says: the end of a
range is checked only if it is visited, so `5-60/7` is a valid minute field; a step
so large that `value += step` overflows is refused with a message about the range of
the field, and `5-59/2147483647` with it; `$/2` in the day of month means `*/2`; a
step over a star does not count as a star when day of month and day of week are
combined; a schedule that ends in a blank is refused without naming a field,
because `schedule_job` names one only together with a token.

## 7. Plan

Done: all components but configuration are modelled; every safety property that a
passing run checks is proved.  What would come next:

1. The setting `nedo_cron.statement_timeout_ms = 0` as a case of its own in `NedoCron`, with
   the runs that depend on it.
2. `Scheduler` over the loaded schedules of `CronExpression` themselves, instead of sets of
   minutes that satisfy what `IntervalsFit` and `JobsDueAsMeant` show of them.
