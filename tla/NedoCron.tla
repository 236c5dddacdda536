------------------------------- MODULE NedoCron -------------------------------
(***************************************************************************)
(* The background worker: its main loop, the state machine of every task   *)
(* (ManageCronTask), the run history it writes, and the world it does that  *)
(* in - the sessions that add and remove jobs, the backends that execute    *)
(* the commands, connections that break, a worker that dies.                *)
(*                                                                         *)
(* The loop is one process.  It is split where others can get in between:  *)
(* LoopTop (reload, StartPendingTasks), WaitForEvent, and one step for each *)
(* call of ManageCronTask, in any order of the tasks, since the order of    *)
(* the hash table is arbitrary.  Time appears only as deadlines: unset,     *)
(* armed or passed.  Module Scheduler has the clock, so here any loaded job *)
(* may be due in any iteration.                                             *)
(***************************************************************************)
EXTENDS Integers, FiniteSets, FiniteSetsExt

CONSTANTS
    Jobs,             \* job ids
    Users,            \* owners of jobs
    MaxRuns,          \* bound on the rows of job_run_details
    MaxPendingTasks,  \* maxPendingTasks
    Outcomes,         \* how a command may end on the server
    Events            \* what else may happen in this instance

ASSUME NedoCronAssumption ==
    /\ IsFiniteSet(Jobs) /\ Users # {}
    /\ MaxRuns \in Nat /\ MaxPendingTasks \in Nat
    /\ Outcomes \subseteq {"ok", "error", "cancelled"}
    /\ Events \subseteq {"unschedule", "reuse", "link", "cancel", "crash",
                         "sigterm", "stream", "copy", "bigquery", "stale", "update",
                         "nopid"}

RunIds == 1..MaxRuns

VARIABLES
    jobs,        \* committed rows of nedo_cron.jobs
    owner,       \* the username column of each; its command comes with it
    used,        \* job ids nextval('jobid_seq') has given out
    deleting,    \* rows an open transaction has deleted, not yet committed
    details,     \* status of each row of nedo_cron.job_run_details
    jobOf,       \* its jobid column
    runUser,     \* its username column, {} before it exists
    nextRun,     \* the next run_id
    cached,      \* keys of CronJobHashTable
    cachedOwner, \* userName of each job in it, and whose command it has
    hash,        \* keys of CronTaskHashTable
    task,        \* the CronTask of each key
    pc,          \* where the main loop is: top, wait, manage; down, exited
    todo,        \* tasks ManageCronTasks has still to visit
    blocked,     \* the task whose PQgetResult the worker is blocked in
    server,      \* what the backend of each run is doing
    open,        \* runs whose PGconn is open
    broken,      \* runs whose connection was lost
    ranOut,      \* ghost: runs that reached runDeadline
    epoch,       \* ghost: first run_id of this incarnation of the worker
    severed      \* ghost: runs still executing that the worker has lost or let go

sessionVars == <<jobs, owner, used, deleting>>
historyVars == <<details, jobOf, runUser, nextRun>>
cacheVars   == <<cached, cachedOwner>>
taskVars    == <<cacheVars, hash, task>>
loopVars    == <<pc, todo, blocked>>
serverVars  == <<server, open, broken>>
ghostVars   == <<ranOut, epoch, severed>>
vars == <<sessionVars, historyVars, taskVars, loopVars, serverVars, ghostVars>>

-----------------------------------------------------------------------------
Deadline  == {"uninit", "unset", "armed", "passed"}
Polling   == {"uninit", "none", "reading", "writing"}
CronTaskState ==
    {"WAITING", "START", "CONNECTING", "SENDING", "RUNNING", "ERROR", "DONE"}

CronTask == [state : CronTaskState, runId : 0..MaxRuns, pendingRunCount : Nat,
             conn : 0..MaxRuns, errorMessage : BOOLEAN, isActive : BOOLEAN,
             isSocketReady : BOOLEAN, timedOut : BOOLEAN,
             cancelRequested : BOOLEAN, startDeadline : Deadline,
             runDeadline : Deadline, polling_status : Polling]

Final       == {"succeeded", "failed", "timeout"}
RunStatus   == {"none", "starting", "running", "deleted"} \cup Final
Awaited     == {"running", "streaming"}     \* PQgetResult has nothing to return
Executing   == Awaited \cup {"copying"}
ServerState == {"none", "idle", "unsent", "gone"} \cup Executing
                 \cup {"ok", "error", "cancelled", "copied"}

TypeOK ==
    /\ owner \in [Jobs -> Users] /\ cachedOwner \in [Jobs -> Users]
    /\ runUser \in [RunIds -> SUBSET Users]
    /\ severed \subseteq {r \in RunIds : server[r] \in Executing}
    /\ jobs \subseteq Jobs /\ used \subseteq Jobs /\ deleting \subseteq Jobs
    /\ details \in [RunIds -> RunStatus]
    /\ jobOf \in [RunIds -> SUBSET Jobs]
    /\ nextRun \in 1..(MaxRuns + 1)
    /\ cached \subseteq Jobs /\ hash \subseteq Jobs
    /\ task \in [Jobs -> CronTask]
    /\ pc \in {"top", "wait", "manage", "down", "exited"}
    /\ todo \subseteq Jobs /\ blocked \subseteq Jobs
    /\ server \in [RunIds -> ServerState]
    /\ open \subseteq RunIds /\ broken \subseteq RunIds
    /\ ranOut \subseteq RunIds
    /\ epoch \in 1..(MaxRuns + 1)

(* A hash table entry as InitCronTask leaves it: startDeadline and           *)
(* polling_status keep whatever the memory held.                             *)
InitCronTask ==
    [state |-> "WAITING", runId |-> 0, pendingRunCount |-> 0, conn |-> 0,
     errorMessage |-> FALSE, isActive |-> TRUE, isSocketReady |-> FALSE,
     timedOut |-> FALSE, cancelRequested |-> FALSE,
     startDeadline |-> "uninit", runDeadline |-> "unset",
     polling_status |-> "uninit"]

(* Faulty variant: timedOut survives into the next run.                      *)
ResetCronTaskAfterRunKeepsTimedOut(t) ==
    [t EXCEPT !.runId = 0, !.state = "WAITING", !.polling_status = "none",
              !.startDeadline = "unset", !.conn = 0, !.errorMessage = FALSE,
              !.isSocketReady = FALSE, !.runDeadline = "unset",
              !.cancelRequested = FALSE]

ResetCronTaskAfterRun(t) ==
    [t EXCEPT !.runId = 0, !.state = "WAITING", !.polling_status = "none",
              !.startDeadline = "unset", !.conn = 0, !.errorMessage = FALSE,
              !.isSocketReady = FALSE, !.runDeadline = "unset",
              !.cancelRequested = FALSE, !.timedOut = FALSE]

(* Faulty variants: no message is kept, or the run is forgotten.             *)
FailedSilently(t) == [t EXCEPT !.state = "ERROR", !.polling_status = "none"]

FailedForgetsRun(t) == [t EXCEPT !.state = "ERROR", !.polling_status = "none",
                                 !.errorMessage = TRUE, !.runId = 0]

(* The assignments that lead to CRON_TASK_ERROR, SetTaskError included.      *)
Failed(t) == [t EXCEPT !.state = "ERROR", !.polling_status = "none",
                       !.errorMessage = TRUE]

Init ==
    /\ jobs \in SUBSET Jobs
    /\ owner \in [Jobs -> Users]
    /\ cachedOwner = owner
    /\ runUser = [r \in RunIds |-> {}]
    /\ severed = {}
    /\ used = jobs
    /\ deleting = {}
    /\ details = [r \in RunIds |-> "none"]
    /\ jobOf = [r \in RunIds |-> {}]
    /\ nextRun = 1
    /\ cached = {}
    /\ hash = {}
    /\ task = [j \in Jobs |-> InitCronTask]
    /\ pc = "top"
    /\ todo = {}
    /\ blocked = {}
    /\ server = [r \in RunIds |-> "none"]
    /\ open = {}
    /\ broken = {}
    /\ ranOut = {}
    /\ epoch = 1

-----------------------------------------------------------------------------
(* Main loop, before and during the wait.                                    *)

(* Runs that are queued but have no row yet; with the rows there are they    *)
(* never exceed MaxRuns.                                                     *)
Unborn(j) == task[j].pendingRunCount + (IF task[j].state = "START" THEN 1 ELSE 0)
Budget == MaxRuns - (nextRun - 1) - MapThenSumSet(Unborn, hash)

(* Faulty variant: tasks are not marked inactive first.                      *)
ReloadedKeepsActive(j, rows) ==
    IF j \in rows
    THEN [(IF j \in hash THEN task[j] ELSE InitCronTask) EXCEPT !.isActive = TRUE]
    ELSE task[j]

(* ReloadCronJobs: every task is marked inactive, then every row read finds  *)
(* or makes its task and marks it active.                                    *)
Reloaded(j, rows) ==
    IF j \in rows
    THEN [(IF j \in hash THEN task[j] ELSE InitCronTask) EXCEPT !.isActive = TRUE]
    ELSE IF j \in hash THEN [task[j] EXCEPT !.isActive = FALSE] ELSE task[j]

(* One pass of the loop down to StartPendingTasks.  A reload is due when an  *)
(* invalidation arrived or 60 s passed; when neither did it would change     *)
(* nothing, unless the invalidation was lost ("stale", see JobCache).        *)
LoopTop(reload) ==
    /\ pc = "top"
    /\ reload \/ "stale" \in Events
    /\ LET rows  == IF reload THEN jobs ELSE cached
           known == IF reload THEN hash \cup jobs ELSE hash
           loaded(j) == IF reload THEN Reloaded(j, rows) ELSE task[j]
       IN /\ cached' = rows
          /\ cachedOwner' = IF reload THEN owner ELSE cachedOwner
          /\ hash' = known
          /\ \E due \in SUBSET rows :
                /\ Cardinality(due) <= Budget
                /\ task' = [j \in Jobs |->
                       IF j \in due
                       THEN [loaded(j) EXCEPT !.pendingRunCount = @ + 1]
                       ELSE loaded(j)]
    /\ pc' = "wait"
    /\ UNCHANGED <<sessionVars, historyVars, todo, blocked, serverVars, ghostVars>>

(* Faulty variant: the results of a running command are not waited for.      *)
TaskNeedsSocketWaitNotRunning(t) == t.state \in {"CONNECTING", "SENDING"}

TaskNeedsSocketWait(t) == t.state \in {"CONNECTING", "SENDING", "RUNNING"}

Watched == {j \in hash : /\ TaskNeedsSocketWait(task[j])
                         /\ task[j].polling_status \in {"reading", "writing"}}

(* What the kernel reports.  A connection being made may be ready at any     *)
(* time; one to be written to is; one being read is when a result or the     *)
(* loss of the connection has arrived.                                       *)
Arrived(r) == server[r] \notin {"none", "idle", "unsent", "running"} \/ r \in broken
SurelyReady(j) ==
    \/ task[j].polling_status = "writing" /\ task[j].state = "SENDING"
    \/ /\ task[j].polling_status = "reading" /\ task[j].state = "RUNNING"
       /\ Arrived(task[j].conn)
MaybeReady(j) == SurelyReady(j) \/ task[j].state = "CONNECTING"

(* CalculateWaitTimeout is zero when a run can start at once, and at the very *)
(* instant of the next event; WaitForEvent then looks at no socket.           *)
WaitForEvent(zeroTimeout) ==
    /\ pc = "wait"
    /\ (\E j \in hash : task[j].state = "WAITING" /\ task[j].pendingRunCount > 0)
          => zeroTimeout
    /\ \E ready \in SUBSET Watched, dead \in SUBSET Watched :
          /\ zeroTimeout => ready = {} /\ dead = {}
          /\ ~zeroTimeout =>
                /\ \A j \in Watched \ dead : SurelyReady(j) => j \in ready
                /\ \A j \in ready : MaybeReady(j) /\ j \notin dead
                /\ \A j \in dead : task[j].conn \in broken \cup {0}
                /\ \A j \in Watched : task[j].conn = 0 => j \in dead
          /\ task' = [j \in Jobs |->
                IF j \notin hash THEN task[j]
                ELSE IF j \in dead
                THEN [task[j] EXCEPT !.state = "ERROR", !.errorMessage = TRUE,
                                     !.isSocketReady = FALSE,
                                     !.polling_status = IF task[j].conn = 0
                                           THEN "none" ELSE "reading"]
                ELSE [task[j] EXCEPT !.isSocketReady = (j \in ready)]]
    /\ todo' = hash
    /\ pc' = IF hash = {} THEN "top" ELSE "manage"
    /\ UNCHANGED <<sessionVars, historyVars, cacheVars, hash, blocked, serverVars,
                   ghostVars>>

-----------------------------------------------------------------------------
(* ManageCronTask.                                                           *)

(* Faulty variants: the run of a removed job counts as done; it ends without *)
(* a word.                                                                   *)
EnteredDone(j) ==
    IF j \notin cached THEN [task[j] EXCEPT !.state = "DONE"] ELSE task[j]

EnteredSilently(j) ==
    IF j \notin cached /\ task[j].state # "DONE"
    THEN [task[j] EXCEPT !.state = "ERROR"] ELSE task[j]

(* The task as the switch of ManageCronTask finds it.  The job may have been *)
(* removed between iterations: the task then goes to ERROR at once, with a   *)
(* message, unless its run is already over.                                  *)
Entered(j) ==
    IF j \notin cached /\ task[j].state # "DONE"
    THEN [task[j] EXCEPT !.state = "ERROR", !.errorMessage = TRUE] ELSE task[j]

Manages(j, state) ==
    /\ pc = "manage" /\ blocked = {} /\ j \in todo
    /\ Entered(j).state = state

(* ManageCronTask returns and the loop goes on to the next task.             *)
Returns(j) ==
    /\ todo' = todo \ {j}
    /\ pc' = IF todo = {j} THEN "top" ELSE "manage"

Sets(j, t) == task' = [task EXCEPT ![j] = t]

(* PQfinish: the backend of an idle connection goes away; one that is busy   *)
(* with a command only notices when it is done.                              *)
Hangup(r) == IF server[r] \in {"idle", "unsent"} THEN "gone" ELSE server[r]
PQfinish(r) ==
    /\ open' = open \ {r}
    /\ broken' = broken \ {r}
    /\ server' = IF r \in RunIds THEN [server EXCEPT ![r] = Hangup(r)] ELSE server

(* Ghost: the worker loses these connections, or closes them for want of      *)
(* anything better, while their commands execute.                            *)
Severs(runs) == severed' = severed \cup {r \in runs : r # 0 /\ server[r] \in Executing}

(* UPDATE ... WHERE run_id = r: no row is left when the job is gone.         *)
SetStatus(r, status) ==
    details' = IF details[r] = "deleted" THEN details
               ELSE [details EXCEPT ![r] = status]

(* A statement that touches a row somebody has deleted waits for the end of  *)
(* that transaction.                                                         *)
RowFree(j) == j \notin deleting

(* Faulty variant: starts a run that is not pending.                         *)
AfterWaitingUnguarded(t) ==
    IF ~t.isActive THEN InitCronTask
    ELSE [t EXCEPT !.pendingRunCount = @ - 1, !.state = "START"]

(* A waiting task takes one pending run; an inactive one is removed.         *)
AfterWaiting(t) ==
    IF ~t.isActive THEN InitCronTask
    ELSE IF t.pendingRunCount = 0 THEN t
    ELSE [t EXCEPT !.pendingRunCount = @ - 1, !.state = "START"]

ManageWaiting(j) ==
    /\ Manages(j, "WAITING")
    /\ hash' = IF task[j].isActive THEN hash ELSE hash \ {j}
    /\ Sets(j, AfterWaiting(task[j]))
    /\ Returns(j)
    /\ UNCHANGED <<sessionVars, historyVars, cacheVars, blocked, serverVars, ghostVars>>

(* The row is inserted first, then the connection is begun.  The foreign key *)
(* needs the job to be there.                                                *)
ManageStart(j) ==
    LET r == nextRun
        t == [task[j] EXCEPT !.runId = r]
    IN
    /\ Manages(j, "START") /\ RowFree(j)
    /\ j \in jobs
    /\ nextRun <= MaxRuns
    /\ nextRun' = nextRun + 1
    /\ details' = [details EXCEPT ![r] = "starting"]
    /\ jobOf' = [jobOf EXCEPT ![r] = {j}]
    /\ runUser' = [runUser EXCEPT ![r] = {cachedOwner[j]}]
    /\ \/ /\ Sets(j, Failed(t))                 \* PQconnectStartParams gave NULL
          /\ UNCHANGED open
       \/ /\ Sets(j, Failed([t EXCEPT !.conn = r]))          \* CONNECTION_BAD
          /\ open' = open \cup {r}
       \/ /\ Sets(j, [t EXCEPT !.conn = r, !.startDeadline = "armed",
                               !.polling_status = "writing",
                               !.state = "CONNECTING"])
          /\ open' = open \cup {r}
    /\ Returns(j)
    /\ UNCHANGED <<sessionVars, cacheVars, hash, blocked, server, broken, ghostVars>>

ManageConnecting(j) ==
    LET t == task[j] IN
    /\ Manages(j, "CONNECTING")
    /\ \/ /\ \/ ~t.isActive                              \* job has been removed
             \/ t.startDeadline \in {"passed", "uninit"} \* timeout reached
             \/ t.conn \in broken                        \* CONNECTION_BAD
          /\ Sets(j, Failed(t))
          /\ UNCHANGED <<details, server>>
       \/ /\ t.isActive /\ t.startDeadline # "passed"
          /\ IF ~t.isSocketReady
             THEN Sets(j, t) /\ UNCHANGED <<details, server>>
             ELSE \/ /\ Sets(j, Failed(t))               \* PGRES_POLLING_FAILED
                     /\ UNCHANGED <<details, server>>
                  \/ /\ \E p \in {"reading", "writing"} :
                           Sets(j, [t EXCEPT !.polling_status = p])
                     /\ t.conn \notin broken
                     /\ UNCHANGED <<details, server>>
                  \/ /\ t.conn \notin broken             \* PGRES_POLLING_OK
                     /\ \/ RowFree(j) /\ SetStatus(t.runId, "running")
                        \/ "nopid" \in Events /\ UNCHANGED details  \* UpdatePID(0)
                     /\ server' = [server EXCEPT ![t.conn] = "idle"]
                     /\ Sets(j, [t EXCEPT !.polling_status = "writing",
                                          !.state = "SENDING"])
    /\ Returns(j)
    /\ UNCHANGED <<sessionVars, jobOf, runUser, nextRun, cacheVars, hash, blocked, open,
                   broken, ghostVars>>

(* Faulty variant: nobody waits for the answer.                              *)
SentUnwatched(t) ==
    [t EXCEPT !.polling_status = "none", !.state = "RUNNING",
              !.startDeadline = "unset", !.runDeadline = "armed",
              !.cancelRequested = FALSE, !.timedOut = FALSE]

(* The task after PQsendQuery returned 1.                                    *)
Sent(t) ==
    [t EXCEPT !.polling_status = "reading", !.state = "RUNNING",
              !.startDeadline = "unset", !.runDeadline = "armed",
              !.cancelRequested = FALSE, !.timedOut = FALSE]

(* PQsendQuery does not block, and PQflush is never called: the tail of a    *)
(* long command may stay in the buffer of libpq ("bigquery").  Over a lost   *)
(* connection it may fail, or seem to have worked.                           *)
ManageSending(j) ==
    LET t == task[j] IN
    /\ Manages(j, "SENDING")
    /\ \/ /\ \/ ~t.isActive \/ t.startDeadline \in {"passed", "uninit"}
             \/ t.conn \in broken
          /\ Sets(j, Failed(t))
          /\ UNCHANGED server
       \/ /\ t.isActive /\ t.startDeadline # "passed"
          /\ IF ~t.isSocketReady THEN Sets(j, t) /\ UNCHANGED server
             ELSE /\ Sets(j, Sent(t))
                  /\ IF t.conn \in broken THEN UNCHANGED server
                     ELSE \E q \in {"running"} \cup
                                   (IF "bigquery" \in Events THEN {"unsent"} ELSE {}) :
                             server' = [server EXCEPT ![t.conn] = q]
    /\ Returns(j)
    /\ UNCHANGED <<sessionVars, historyVars, cacheVars, hash, blocked, open, broken,
                   ghostVars>>

(* CRON_TASK_RUNNING, the ways out before anything is read: the job is       *)
(* inactive, the connection is known to be bad, the cancel cannot be sent.   *)
Overdue(t) == t.runDeadline = "passed" /\ ~t.cancelRequested

ManageRunningGivesUp(j) ==
    LET t == task[j] IN
    /\ Manages(j, "RUNNING")
    /\ \/ /\ ~t.isActive \/ t.conn \in broken
          /\ Sets(j, Failed(t))
          /\ UNCHANGED severed
       \/ /\ t.isActive /\ Overdue(t)
          /\ "cancel" \in Events \/ t.conn \in broken
          /\ Severs({t.conn})
          /\ \/ Sets(j, [Failed(t) EXCEPT !.timedOut = TRUE])  \* PQgetCancel
             \/ Sets(j, [Failed(t) EXCEPT !.timedOut = TRUE,   \* PQcancel
                                          !.cancelRequested = TRUE,
                                          !.runDeadline = "unset"])
    /\ Returns(j)
    /\ UNCHANGED <<sessionVars, historyVars, cacheVars, hash, blocked, serverVars,
                   ranOut, epoch>>

(* Faulty variant: an overdue run is given up without waiting for its end.   *)
CancelledIfOverdueGivesUp(t) ==
    IF Overdue(t)
    THEN [Failed(t) EXCEPT !.cancelRequested = TRUE, !.timedOut = TRUE,
                           !.runDeadline = "unset"]
    ELSE t

(* The task once an overdue command has been sent a cancel request.          *)
CancelledIfOverdue(t) ==
    IF Overdue(t)
    THEN [t EXCEPT !.cancelRequested = TRUE, !.timedOut = TRUE,
                   !.runDeadline = "unset", !.polling_status = "reading"]
    ELSE t

(* The task after the loop over PQgetResult and PQfinish: SQLSTATE 57014 is  *)
(* a timeout, any other error a failure, and so is COPY, whether the backend *)
(* is still at it or not.                                                    *)
AfterResults(t) ==
    LET result == IF t.conn \in broken THEN "error" ELSE server[t.conn]
    IN [t EXCEPT !.conn = 0, !.polling_status = "none", !.isSocketReady = FALSE,
                 !.state = IF result = "ok" THEN "DONE" ELSE "ERROR",
                 !.errorMessage = IF result = "ok" THEN @ ELSE TRUE,
                 !.timedOut = IF result = "cancelled" THEN TRUE ELSE @]

(* Ghost: what PQfinish lets go of when the reading was ended by COPY.        *)
LetsGoOfCopy(r) == severed' = severed \cup {q \in {r} : server[q] = "copying"}

(* Faulty variant: the success is recorded without looking at the state.     *)
FinishesReadingUnguarded(j, t) ==
    /\ Sets(j, AfterResults(t))
    /\ PQfinish(t.conn)
    /\ LetsGoOfCopy(t.conn)
    /\ RowFree(j) /\ SetStatus(t.runId, "succeeded")
    /\ blocked' = {}
    /\ Returns(j)

(* The last result has been read, or the first that ends the reading.  After *)
(* COPY the connection is closed although the command is not over.           *)
FinishesReading(j, t) ==
    /\ Sets(j, AfterResults(t))
    /\ PQfinish(t.conn)
    /\ LetsGoOfCopy(t.conn)
    /\ IF AfterResults(t).state = "DONE"
       THEN RowFree(j) /\ SetStatus(t.runId, "succeeded")
       ELSE UNCHANGED details
    /\ blocked' = {}
    /\ Returns(j)

(* CRON_TASK_RUNNING, to the end.  After the first result PQgetResult blocks *)
(* the whole worker for as long as the command has more of them to come, but *)
(* it does not wait for the end of a COPY.                                   *)
ManageRunning(j) ==
    LET t == CancelledIfOverdue(task[j]) IN
    /\ Manages(j, "RUNNING")
    /\ t.isActive
    /\ \/ /\ ~t.isSocketReady
          /\ Sets(j, t)
          /\ Returns(j)
          /\ UNCHANGED <<details, blocked, serverVars, severed>>
       \/ /\ t.isSocketReady /\ t.conn \in broken     \* PQconsumeInput failed
          /\ Sets(j, Failed(t))
          /\ Returns(j)
          /\ UNCHANGED <<details, blocked, serverVars, severed>>
       \/ /\ t.isSocketReady /\ t.conn \notin broken
          /\ server[t.conn] = "streaming"
          /\ Sets(j, t)
          /\ blocked' = {j}
          /\ UNCHANGED <<details, pc, todo, serverVars, severed>>
       \/ /\ t.isSocketReady /\ t.conn \notin broken
          /\ server[t.conn] # "streaming"
          /\ FinishesReading(j, t)
    /\ UNCHANGED <<sessionVars, jobOf, runUser, nextRun, cacheVars, hash, ranOut, epoch>>

(* PQgetResult returns at last.                                              *)
ReadResults(j) ==
    LET t == task[j] IN
    /\ pc = "manage" /\ j \in blocked
    /\ server[t.conn] \notin Awaited \/ t.conn \in broken
    /\ FinishesReading(j, t)
    /\ UNCHANGED <<sessionVars, jobOf, runUser, nextRun, cacheVars, hash, ranOut, epoch>>

(* CRON_TASK_ERROR, also reached at once by the task of a removed job: the   *)
(* history is closed, then the connection, then the task.                    *)
ManageError(j) ==
    LET t    == Entered(j)
        gone == ~t.isActive
    IN
    /\ Manages(j, "ERROR")
    /\ IF t.runId = 0 THEN UNCHANGED details
       ELSE /\ RowFree(j)
            /\ SetStatus(t.runId, IF t.timedOut THEN "timeout" ELSE "failed")
    /\ PQfinish(t.conn)
    /\ IF gone THEN Severs({t.conn}) ELSE UNCHANGED severed
    /\ hash' = IF gone THEN hash \ {j} ELSE hash
    /\ Sets(j, IF gone THEN InitCronTask
               ELSE [t EXCEPT !.runId = 0, !.conn = 0, !.state = "DONE",
                       !.polling_status = "none", !.startDeadline = "unset",
                       !.runDeadline = "unset", !.cancelRequested = FALSE,
                       !.isSocketReady = FALSE])
    /\ Returns(j)
    /\ UNCHANGED <<sessionVars, jobOf, runUser, nextRun, cacheVars, blocked, ranOut, epoch>>

ManageDone(j) ==
    LET t == task[j] IN
    /\ Manages(j, "DONE")
    /\ Sets(j, ResetCronTaskAfterRun(
                 [t EXCEPT !.pendingRunCount =
                      IF @ > MaxPendingTasks THEN MaxPendingTasks ELSE @]))
    /\ Returns(j)
    /\ UNCHANGED <<sessionVars, historyVars, cacheVars, hash, blocked, serverVars,
                   ghostVars>>

ManageCronTask(j) ==
    \/ ManageWaiting(j)
    \/ ManageStart(j)
    \/ ManageConnecting(j)
    \/ ManageSending(j)
    \/ ManageRunningGivesUp(j)
    \/ ManageRunning(j)
    \/ ReadResults(j)
    \/ ManageError(j)
    \/ ManageDone(j)

-----------------------------------------------------------------------------
(* The worker process ends and what it kept in memory is lost; the kernel     *)
(* closes its sockets, the backends that are executing go on.                 *)
ProcessEnds(how) ==
    /\ pc' = how
    /\ todo' = {} /\ blocked' = {}
    /\ cached' = {} /\ cachedOwner' = owner /\ hash' = {}
    /\ task' = [j \in Jobs |-> InitCronTask]
    /\ open' = {} /\ broken' = {}
    /\ server' = [r \in RunIds |-> IF r \in open THEN Hangup(r) ELSE server[r]]
    /\ Severs(open)
    /\ UNCHANGED <<sessionVars, historyVars, ranOut, epoch>>

(* InsertRunDetailsStart for a job that is no longer there: the foreign key   *)
(* raises an ERROR, which nothing in a background worker catches.             *)
InsertFails(j) ==
    /\ Manages(j, "START") /\ RowFree(j)
    /\ j \notin jobs
    /\ ProcessEnds("down")

WorkerCrashes ==
    /\ "crash" \in Events
    /\ pc \notin {"down", "exited"}
    /\ ProcessEnds("down")

(* SIGTERM is looked at between iterations only.  With exit code 0 the        *)
(* postmaster forgets the worker.                                             *)
WorkerExits ==
    /\ "sigterm" \in Events
    /\ pc = "top"
    /\ ProcessEnds("exited")

(* bgw_restart_time after a failure.                                          *)
WorkerRestarts ==
    /\ pc = "down"
    /\ pc' = "top"
    /\ epoch' = nextRun
    /\ UNCHANGED <<sessionVars, historyVars, taskVars, todo, blocked, serverVars,
                   ranOut, severed>>

(* After a clean exit only a restart of the whole server brings it back; no   *)
(* transaction and no backend outlives that.                                  *)
ServerRestarts ==
    /\ pc = "exited"
    /\ pc' = "top"
    /\ epoch' = nextRun
    /\ deleting' = {}
    /\ server' = [r \in RunIds |->
                    IF server[r] \in Executing THEN "gone" ELSE server[r]]
    /\ severed' = {}
    /\ UNCHANGED <<jobs, owner, used, historyVars, taskVars, todo, blocked, open,
                   broken, ranOut>>

-----------------------------------------------------------------------------
(* Sessions, backends, the network and the clock.                             *)

(* nedo_cron.schedule, committed.  A fresh id comes from the sequence; an     *)
(* INSERT may also name an id that was used before ("reuse"), and an UPDATE   *)
(* may give the row to another user, with a command of theirs ("update").     *)
ScheduleJob(j) ==
    /\ RowFree(j)
    /\ j \in jobs => "update" \in Events
    /\ j \in used \ jobs => "reuse" \in Events
    /\ jobs' = jobs \cup {j}
    /\ \E u \in Users : owner' = [owner EXCEPT ![j] = u]
    /\ used' = used \cup {j}
    /\ UNCHANGED <<deleting, historyVars, taskVars, loopVars, serverVars, ghostVars>>

(* nedo_cron.unschedule: the DELETE, with its cascade, and the end of its     *)
(* transaction.                                                               *)
UnscheduleJob(j) ==
    /\ "unschedule" \in Events
    /\ j \in jobs \ deleting
    /\ deleting' = deleting \cup {j}
    /\ UNCHANGED <<jobs, owner, used, historyVars, taskVars, loopVars, serverVars, ghostVars>>

CommitUnschedule(j) ==
    /\ j \in deleting
    /\ deleting' = deleting \ {j}
    /\ jobs' = jobs \ {j}
    /\ details' = [r \in RunIds |-> IF jobOf[r] = {j} THEN "deleted" ELSE details[r]]
    /\ UNCHANGED <<owner, used, jobOf, runUser, nextRun, taskVars, loopVars, serverVars, ghostVars>>

RollbackUnschedule(j) ==
    /\ j \in deleting
    /\ deleting' = deleting \ {j}
    /\ UNCHANGED <<jobs, owner, used, historyVars, taskVars, loopVars, serverVars, ghostVars>>

(* A deadline of the task's run is reached.                                   *)
DeadlinePasses(j) ==
    LET t == task[j] IN
    /\ TaskNeedsSocketWait(t)
    /\ \/ t.startDeadline = "armed" /\ Sets(j, [t EXCEPT !.startDeadline = "passed"])
       \/ t.runDeadline = "armed" /\ Sets(j, [t EXCEPT !.runDeadline = "passed"])
    /\ ranOut' = IF t.runDeadline = "armed" THEN ranOut \cup {t.runId} ELSE ranOut
    /\ UNCHANGED <<sessionVars, historyVars, cacheVars, hash, loopVars, serverVars,
                   epoch, severed>>

(* The backend has the first of several results ready.                        *)
ServerStreams(r) ==
    /\ "stream" \in Events
    /\ server[r] = "running" /\ r \in open
    /\ server' = [server EXCEPT ![r] = "streaming"]
    /\ UNCHANGED <<sessionVars, historyVars, taskVars, loopVars, open, broken,
                   ghostVars>>

(* A COPY statement of the command begins: the client is told, the backend    *)
(* goes on executing.                                                         *)
ServerCopies(r) ==
    /\ "copy" \in Events
    /\ server[r] \in Awaited /\ r \in open
    /\ server' = [server EXCEPT ![r] = "copying"]
    /\ UNCHANGED <<sessionVars, historyVars, taskVars, loopVars, open, broken,
                   ghostVars>>

(* The command ends: by itself, by statement_timeout, or by the cancel        *)
(* request.  What a worker reads first of one with a COPY is still the COPY.  *)
ServerFinishes(r) ==
    /\ server[r] \in Executing
    /\ \E result \in IF server[r] = "copying" THEN {"copied"} ELSE Outcomes :
          server' = [server EXCEPT ![r] = result]
    /\ severed' = severed \ {r}
    /\ UNCHANGED <<sessionVars, historyVars, taskVars, loopVars, open, broken,
                   ranOut, epoch>>

LinkBreaks(r) ==
    /\ "link" \in Events
    /\ r \in open \ broken
    /\ broken' = broken \cup {r}
    /\ Severs({r})
    /\ UNCHANGED <<sessionVars, historyVars, taskVars, loopVars, server, open,
                   ranOut, epoch>>

-----------------------------------------------------------------------------
Worker ==
    \/ \E reload \in BOOLEAN : LoopTop(reload)
    \/ \E zeroTimeout \in BOOLEAN : WaitForEvent(zeroTimeout)
    \/ \E j \in Jobs : ManageCronTask(j) \/ InsertFails(j)
    \/ WorkerRestarts

Environment ==
    \/ WorkerCrashes
    \/ WorkerExits
    \/ ServerRestarts
    \/ \E j \in Jobs : \/ ScheduleJob(j)
                       \/ UnscheduleJob(j)
                       \/ CommitUnschedule(j)
                       \/ RollbackUnschedule(j)
                       \/ DeadlinePasses(j)
    \/ \E r \in RunIds : \/ ServerStreams(r)
                         \/ ServerCopies(r)
                         \/ ServerFinishes(r)
                         \/ LinkBreaks(r)

Next == Worker \/ Environment

Spec == Init /\ [][Next]_vars

(* The worker keeps running - strongly fair, since a statement that waits for *)
(* a row lock is queued and gets it when the holder is done - and is not for  *)
(* ever unlucky enough to wake up at the very instant of an event; the cache  *)
(* is reloaded after 60 s if not before; deadlines are reached; a session     *)
(* ends the transaction it began; a backend ends its                          *)
(* command, by statement_timeout if by nothing else.                          *)
Fairness ==
    /\ SF_vars(Worker)
    /\ SF_vars(WaitForEvent(FALSE))
    /\ SF_vars(LoopTop(TRUE))
    /\ \A j \in Jobs : /\ WF_vars(DeadlinePasses(j))
                       /\ WF_vars(CommitUnschedule(j) \/ RollbackUnschedule(j))
    /\ \A r \in RunIds : WF_vars(ServerFinishes(r))

FairSpec == Spec /\ Fairness

-----------------------------------------------------------------------------
Alive == pc \notin {"down", "exited"}

(* A task is active exactly when its job is loaded, and every loaded job has  *)
(* a task (ReloadCronJobs): no task of a loaded job is ever thrown away, and  *)
(* getCronJob finds the job of every active one.                              *)
ActiveIffLoaded ==
    /\ cached \subseteq hash
    /\ \A j \in hash : task[j].isActive <=> j \in cached

(* Whoever waits for a socket can be woken (WaitForEvent): a task that is     *)
(* connecting, sending or running has a connection of its own that is being   *)
(* watched, and unless a cancel request is under way a deadline as well; no   *)
(* field is read that InitCronTask left unset.                                *)
SocketTaskWired ==
    \A j \in hash : TaskNeedsSocketWait(task[j]) =>
        LET t == task[j] IN
        /\ t.conn # 0 /\ t.conn = t.runId
        /\ t.polling_status \in {"reading", "writing"}
        /\ t.state # "RUNNING" => t.startDeadline \in {"armed", "passed"}
        /\ t.state = "RUNNING" =>
              /\ t.polling_status = "reading"
              /\ t.runDeadline \in {"armed", "passed"} <=> ~t.cancelRequested

(* Every connection the worker has open belongs to the task that will close   *)
(* it, and no two tasks share one: ResetCronTaskAfterRun and HASH_REMOVE drop *)
(* the pointer without PQfinish.                                              *)
NoConnectionLeak ==
    /\ open = {task[j].conn : j \in hash} \ {0}
    /\ \A i, j \in hash : i # j /\ task[i].conn # 0 => task[i].conn # task[j].conn

(* A row this worker has left in 'starting' or 'running' has a task that is   *)
(* still busy with it and will close it: no error path, removal of the job    *)
(* or rollback leaves a run open for ever.                                    *)
OpenRunOwned ==
    Alive => \A r \in epoch..(nextRun - 1) : details[r] \in {"starting", "running"} =>
        \E j \in hash :
            /\ jobOf[r] = {j}
            /\ task[j].runId = r
            /\ task[j].state \in {"CONNECTING", "SENDING", "RUNNING", "ERROR"}

(* UpdateRunDetailsFinish converts its message before it looks whether there  *)
(* is one: a task that ManageCronTask takes up in CRON_TASK_ERROR with a row  *)
(* to close has a message, whichever step failed and also when it is there    *)
(* only because its job was removed.                                          *)
ErrorHasMessage ==
    \A j \in hash :
        Entered(j).state = "ERROR" /\ Entered(j).runId # 0 => Entered(j).errorMessage

(* The history does not lie: "succeeded" is a command the server completed,   *)
(* "timeout" one that the server cancelled or that reached its own deadline   *)
(* (timedOut is not left over from an earlier run).                           *)
HistoryTruthful ==
    \A r \in RunIds :
        /\ details[r] = "succeeded" => server[r] = "ok"
        /\ details[r] = "timeout" => server[r] = "cancelled" \/ r \in ranOut

(* README: one and the same job does not run in parallel with itself.         *)
OneRunAtATime ==
    \A q, r \in RunIds :
        q < r /\ jobOf[q] = jobOf[r] => ~{server[q], server[r]} \subseteq Executing

(* What the code keeps of it: a run overlaps only with a command the worker   *)
(* has lost hold of - the connection or the worker itself died, the job was   *)
(* removed, the cancel request could not be sent, or the worker hung up on a  *)
(* COPY.  A timeout, an error or a result that comes in several parts never   *)
(* lets the next run begin beside it.                                         *)
NoSelfOverlap ==
    \A q, r \in RunIds :
        /\ q < r /\ jobOf[q] = jobOf[r]
        /\ server[q] \in Executing /\ server[r] \in Executing
        => q \in severed

(* A finished run is never reopened and its verdict never changes; the row    *)
(* can only go away with its job.                                             *)
FinalStatusStable ==
    [][ \A r \in RunIds :
          details[r] \in Final => details'[r] \in {details[r], "deleted"} ]_vars

(* README: the worker connects as the user who created the job and sends its  *)
(* command - the command that is sent is one of the user the connection was   *)
(* made for (job->userName in CRON_TASK_START, job->command in SENDING).      *)
CommandOfItsUser ==
    [][ \A j \in Jobs, r \in RunIds :
          /\ task[j].runId = r
          /\ server[r] = "idle" /\ server'[r] \in {"running", "unsent"}
          => runUser[r] = {cachedOwner[j]} ]_vars

(* The worker implements RunHistory.  A run is in progress from the INSERT    *)
(* until UpdateRunDetailsFinish; it is seen running if its pid is known.      *)
Current == [j \in Jobs |-> IF task[j].state = "DONE" THEN 0 ELSE task[j].runId]

History == INSTANCE RunHistory
    WITH status <- details, owner <- jobOf, next <- nextRun, current <- Current,
         PidsKnown <- "nopid" \notin Events

(* What a reader of job_run_details may rely on: the runs of a job follow one *)
(* another and each is opened once and closed at most once, with a verdict    *)
(* its past allows - through removals, lost connections and restarts.         *)
ImplementsRunHistory == History!Spec

(* Every run ends: while its worker lives, each row it opened is closed or    *)
(* deleted in the end, whatever server, network and sessions do.              *)
RunsEnd ==
    \A r \in RunIds :
        (details[r] \in {"starting", "running"} /\ r >= epoch)
            ~> (details[r] \in Final \cup {"deleted"} \/ ~Alive)

(* A removed job is forgotten: its task leaves the hash table with its        *)
(* connection closed, in whatever state its run is.                           *)
RemovedJobForgotten ==
    \A j \in Jobs : j \notin jobs ~> (j \notin hash \/ j \in jobs \/ ~Alive)

(* The comment in ManageCronTask: a job may be removed between iterations and *)
(* its task must end in the regular way - not by taking the worker down.      *)
RemovalIsRegular == [][ ~(\E j \in Jobs : InsertFails(j)) ]_vars
=============================================================================
