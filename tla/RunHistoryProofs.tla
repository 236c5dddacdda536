---------------------------- MODULE RunHistoryProofs ----------------------------
(***************************************************************************)
(* NedoCron implements RunHistory: under the mapping of module NedoCron     *)
(* every step of the worker and of the world around it is one step of the   *)
(* abstract history or leaves it as it was.                                 *)
(***************************************************************************)
EXTENDS NedoCronProofs

-----------------------------------------------------------------------------
(* The mapping.                                                              *)

(* The run a task shows as its job's current one.                            *)
Shown(t) == IF t.state = "DONE" THEN 0 ELSE t.runId

LEMMA CurrentValue ==
    /\ Current = [j \in Jobs |-> Shown(task[j])]
    /\ Current' = [j \in Jobs |-> Shown(task'[j])]
BY DEF Current, Shown

(* A step that shows the same runs and touches no row is a stutter.          *)
LEMMA Unseen ==
    ASSUME \A j \in Jobs : Shown(task'[j]) = Shown(task[j]),
           UNCHANGED <<details, jobOf, nextRun>>
    PROVE  UNCHANGED History!vars
<1>1. Current' = Current
  BY CurrentValue
<1> QED BY <1>1 DEF History!vars

(* A step on one task changes one entry.                                     *)
LEMMA CurrentOne ==
    ASSUME NEW j \in Jobs, \A i \in Jobs \ {j} : task'[i] = task[i]
    PROVE  Current' = [Current EXCEPT ![j] = Shown(task'[j])]
BY CurrentValue

LEMMA VerdictSets ==
    /\ "nopid" \notin Events => History!Verdicts("starting") = {"failed"}
    /\ "nopid" \in Events =>
          History!Verdicts("starting") = {"succeeded", "failed", "timeout"}
    /\ History!Verdicts("running") = {"succeeded", "failed", "timeout"}
    /\ History!Verdicts("deleted") = {"deleted"}
BY DEF History!Verdicts, History!Any

(* UpdateRunDetailsFinish closes the row of the current run.                 *)
LEMMA FinishSeen ==
    ASSUME TypeOK, NEW j \in Jobs, NEW q \in RunIds, NEW v,
           \A i \in Jobs \ {j} : task'[i] = task[i],
           Shown(task[j]) = q, Shown(task'[j]) = 0,
           details[q] \in {"starting", "running", "deleted"},
           SetStatus(q, v), v \in {"succeeded", "failed", "timeout"},
           details[q] = "starting" => v = "failed" \/ "nopid" \in Events,
           UNCHANGED <<jobOf, nextRun>>
    PROVE  History!Finish(j)
<1>1. Current[j] = q /\ Current' = [Current EXCEPT ![j] = 0] /\ q # 0
  BY CurrentValue, CurrentOne DEF RunIds
<1>2. \E s \in History!Verdicts(details[q]) : details' = [details EXCEPT ![q] = s]
  <2>1. CASE details[q] = "deleted"
    BY <2>1, VerdictSets DEF SetStatus, TypeOK
  <2>2. CASE details[q] # "deleted"
    BY <2>2, VerdictSets DEF SetStatus, TypeOK
  <2> QED BY <2>1, <2>2
<1> QED BY <1>1, <1>2 DEF History!Finish


-----------------------------------------------------------------------------
(* ManageCronTask.                                                           *)

LEMMA StartSeen ==
    ASSUME Inv, NEW j \in Jobs, ManageStart(j)
    PROVE  History!Begin(j)
<1> DEFINE t == task[j]
<1>1. /\ Manages(j, "START") /\ nextRun <= MaxRuns /\ nextRun' = nextRun + 1
      /\ details' = [details EXCEPT ![nextRun] = "starting"]
      /\ jobOf' = [jobOf EXCEPT ![nextRun] = {j}]
  BY DEF ManageStart
<1>2. t \in CronTask /\ t.state = "START" /\ t.runId = 0
  BY <1>1, Managing DEF Shape
<1>3. PICK q \in RunIds : q = nextRun /\ q \in 0..MaxRuns
  BY <1>1, NedoCronAssumption DEF Inv, TypeOK, RunIds
<1>4. PICK u \in CronTask : Sets(j, u) /\ u.runId = q /\ u.state # "DONE"
  <2>1. PICK v \in CronTask : v = [t EXCEPT !.runId = q] /\ v.runId = q
    <3>1. [t EXCEPT !.runId = q] \in CronTask
      BY <1>2, <1>3 DEF CronTask
    <3> QED BY <1>2, <3>1 DEF CronTask
  <2>2. PICK w \in CronTask : w = [v EXCEPT !.conn = q] /\ w.runId = q
    <3>1. [v EXCEPT !.conn = q] \in CronTask
      BY <1>3 DEF CronTask
    <3> QED BY <2>1, <3>1 DEF CronTask
  <2>3. CASE Sets(j, Failed(v)) \/ Sets(j, Failed(w))
    <3>1. /\ Failed(v) \in CronTask /\ Failed(v).runId = q /\ Failed(v).state = "ERROR"
          /\ Failed(w) \in CronTask /\ Failed(w).runId = q /\ Failed(w).state = "ERROR"
      BY <2>1, <2>2, FailedFields
    <3> QED BY <2>3, <3>1
  <2>4. CASE Sets(j, [v EXCEPT !.conn = q, !.startDeadline = "armed",
                               !.polling_status = "writing", !.state = "CONNECTING"])
    <3> DEFINE x == [v EXCEPT !.conn = q, !.startDeadline = "armed",
                              !.polling_status = "writing", !.state = "CONNECTING"]
    <3>1. x \in CronTask
      BY <1>3 DEF CronTask, CronTaskState, Deadline, Polling
    <3>2. x.runId = q /\ x.state = "CONNECTING"
      BY <2>1 DEF CronTask
    <3> HIDE DEF x
    <3>3. Sets(j, x)
      BY <2>4 DEF x
    <3> QED BY <3>1, <3>2, <3>3
  <2> QED BY <1>3, <2>1, <2>2, <2>3, <2>4 DEF ManageStart
<1>5. Current[j] = 0 /\ Current' = [Current EXCEPT ![j] = nextRun]
  <2>1. task'[j] = u /\ \A i \in Jobs \ {j} : task'[i] = task[i]
    BY <1>4, SetsOne DEF Inv
  <2> QED BY <1>2, <1>3, <1>4, <2>1, CurrentValue, CurrentOne DEF Shown
<1> QED BY <1>1, <1>3, <1>5 DEF History!Begin, History!Runs, RunIds

LEMMA ConnectingSeen ==
    ASSUME Inv, NEW j \in Jobs, ManageConnecting(j)
    PROVE  History!Connected(j) \/ UNCHANGED History!vars
<1> DEFINE t == task[j]
<1>1. Manages(j, "CONNECTING") /\ UNCHANGED <<jobOf, nextRun>>
  BY DEF ManageConnecting
<1>2. t \in CronTask /\ t.state = "CONNECTING" /\ Shape(t) /\ j \in hash
  BY <1>1, Managing
<1>3. /\ \A i \in Jobs \ {j} : task'[i] = task[i]
      /\ task'[j].runId = t.runId /\ task'[j].state # "DONE"
  <2>1. CASE Sets(j, Failed(t))
    BY <1>2, <2>1, FailedFields, SetsOne DEF Inv
  <2>2. CASE Sets(j, t)
    BY <1>2, <2>2, SetsOne DEF Inv
  <2>3. CASE \E p \in {"reading", "writing"} : Sets(j, [t EXCEPT !.polling_status = p])
    BY <1>2, <2>3 DEF Sets, Inv, TypeOK, CronTask
  <2>4. CASE Sets(j, [t EXCEPT !.polling_status = "writing", !.state = "SENDING"])
    BY <1>2, <2>4 DEF Sets, Inv, TypeOK, CronTask
  <2> QED BY <2>1, <2>2, <2>3, <2>4 DEF ManageConnecting
<1>4. \A i \in Jobs : Shown(task'[i]) = Shown(task[i])
  BY <1>2, <1>3 DEF Shown
<1>5. PICK q \in RunIds : q = t.runId /\ q # 0
  BY <1>2 DEF Shape, CronTask, RunIds
<1>6. details[q] \in {"starting", "deleted"}
  BY <1>2, <1>5, HasRun DEF StatusFits, Busy
<1>7. Current[j] = q /\ Current' = Current
  BY <1>2, <1>4, <1>5, CurrentValue DEF Shown
<1>8. CASE SetStatus(q, "running") /\ details[q] = "starting"
  <2>1. details' = [details EXCEPT ![q] = "running"]
    BY <1>8 DEF SetStatus
  <2> QED BY <1>1, <1>5, <1>7, <1>8, <2>1 DEF History!Connected
<1>9. CASE details' = details
  BY <1>1, <1>4, <1>9, Unseen
<1>10. details' = details \/ SetStatus(q, "running")
  BY <1>5 DEF ManageConnecting
<1> QED BY <1>6, <1>8, <1>9, <1>10 DEF SetStatus

LEMMA FinishesReadingSeen ==
    ASSUME Inv, NEW j \in hash, NEW t \in CronTask, task[j].state = "RUNNING",
           t.runId = task[j].runId, t.conn = task[j].conn, FinishesReading(j, t),
           UNCHANGED <<jobOf, nextRun>>
    PROVE  History!Finish(j) \/ UNCHANGED History!vars
<1>1. /\ task[j] \in CronTask /\ Shape(task[j]) /\ j \in Jobs
  BY DEF Inv, TypeOK, TaskFits
<1>2. PICK q \in RunIds : q = t.runId /\ q # 0
  BY <1>1 DEF Shape, CronTask, RunIds
<1>3. /\ details[q] \in {"starting", "running", "deleted"}
      /\ details[q] # "starting" \/ "nopid" \in Events
  BY <1>2, HasRun DEF StatusFits, Busy
<1>4. PICK u \in CronTask : /\ u = AfterResults(t) /\ u.runId = t.runId
                            /\ u.state \in {"DONE", "ERROR"}
  BY ResultFields
<1>5. /\ Sets(j, u)
      /\ IF u.state = "DONE" THEN SetStatus(q, "succeeded") ELSE UNCHANGED details
  BY <1>2, <1>4 DEF FinishesReading
<1>6. task'[j] = u /\ \A i \in Jobs \ {j} : task'[i] = task[i]
  BY <1>1, <1>4, <1>5, SetsOne DEF Inv
<1>7. CASE u.state = "DONE"
  <2>1. Shown(task[j]) = q /\ Shown(task'[j]) = 0
    BY <1>2, <1>6, <1>7 DEF Shown
  <2> QED BY <1>1, <1>3, <1>5, <1>6, <1>7, <2>1, FinishSeen DEF Inv
<1>8. CASE u.state = "ERROR"
  <2>1. \A i \in Jobs : Shown(task'[i]) = Shown(task[i])
    BY <1>2, <1>4, <1>6, <1>8 DEF Shown
  <2> QED BY <1>5, <1>8, <2>1, Unseen
<1> QED BY <1>4, <1>7, <1>8

LEMMA RunningSeen ==
    ASSUME Inv, NEW j \in Jobs, ManageRunning(j)
    PROVE  History!Finish(j) \/ UNCHANGED History!vars
<1>1. Manages(j, "RUNNING") /\ UNCHANGED <<jobOf, nextRun>>
  BY DEF ManageRunning
<1>2. task[j] \in CronTask /\ task[j].state = "RUNNING" /\ j \in hash
  BY <1>1, Managing
<1>3. PICK t \in CronTask :
            /\ t = CancelledIfOverdue(task[j]) /\ t.state = "RUNNING"
            /\ t.runId = task[j].runId /\ t.conn = task[j].conn
  BY <1>2, CancelFields
<1>4. ASSUME NEW u \in CronTask, Sets(j, u), u.runId = t.runId, u.state # "DONE",
             UNCHANGED details
      PROVE  UNCHANGED History!vars
  <2>1. task'[j] = u /\ \A i \in Jobs \ {j} : task'[i] = task[i]
    BY <1>4, SetsOne DEF Inv
  <2>2. \A i \in Jobs : Shown(task'[i]) = Shown(task[i])
    BY <1>2, <1>3, <1>4, <2>1 DEF Shown
  <2> QED BY <1>1, <1>4, <2>2, Unseen
<1>5. CASE Sets(j, t) /\ UNCHANGED details
  BY <1>3, <1>4, <1>5
<1>6. CASE Sets(j, Failed(t)) /\ UNCHANGED details
  <2>1. Failed(t) \in CronTask /\ Failed(t).state = "ERROR" /\ Failed(t).runId = t.runId
    BY FailedFields
  <2> QED BY <1>4, <1>6, <2>1
<1>7. CASE FinishesReading(j, t)
  BY <1>1, <1>2, <1>3, <1>7, FinishesReadingSeen
<1> QED BY <1>3, <1>5, <1>6, <1>7 DEF ManageRunning

LEMMA ReadResultsSeen ==
    ASSUME Inv, NEW j \in Jobs, ReadResults(j)
    PROVE  History!Finish(j) \/ UNCHANGED History!vars
<1>1. /\ j \in hash /\ task[j] \in CronTask /\ task[j].state = "RUNNING"
  BY DEF ReadResults, Inv, TypeOK, LoopOK, TaskFits, Placed
<1>2. PICK t \in CronTask : t = task[j]
  BY <1>1
<1> QED BY <1>1, <1>2, FinishesReadingSeen DEF ReadResults

LEMMA ErrorSeen ==
    ASSUME Inv, NEW j \in Jobs, ManageError(j)
    PROVE  History!Finish(j) \/ UNCHANGED History!vars
<1> DEFINE t == task[j]
<1>1. Manages(j, "ERROR") /\ UNCHANGED <<jobOf, nextRun>>
  BY DEF ManageError
<1>2. t \in CronTask /\ t.state # "DONE" /\ Shape(t) /\ j \in hash
  BY <1>1, Managing
<1> DEFINE e == Entered(j)
<1>0. /\ e.runId = t.runId /\ e.timedOut = t.timedOut /\ e.isActive = t.isActive
      /\ t.isActive => e = t
  BY <1>1, Managing, EnteredFields
<1>3. /\ \A i \in Jobs \ {j} : task'[i] = task[i]
      /\ task'[j].runId = 0
  BY <1>0, <1>2, InitTask DEF ManageError, Sets, Inv, TypeOK, CronTask
<1>4. Shown(task'[j]) = 0 /\ Shown(t) = t.runId
  BY <1>2, <1>3 DEF Shown
<1>5. CASE t.runId = 0
  BY <1>0, <1>1, <1>3, <1>4, <1>5, Unseen DEF ManageError
<1>6. CASE t.runId # 0
  <2>1. PICK q \in RunIds : q = t.runId
    BY <1>2, <1>6 DEF CronTask, RunIds
  <2>2. PICK v \in {"timeout", "failed"} : v = IF t.timedOut THEN "timeout" ELSE "failed"
    OBVIOUS
  <2>3. SetStatus(q, v)
    BY <1>0, <1>6, <2>1, <2>2 DEF ManageError
  <2>4. /\ details[q] \in {"starting", "running", "deleted"}
        /\ details[q] = "starting" => v = "failed" \/ "nopid" \in Events
    <3>1. StatusFits(t)
      BY <1>2, <2>1, HasRun
    <3>2. t.state \in Busy
      BY <1>2, <1>6 DEF Shape, CronTask, CronTaskState, Busy
    <3> QED BY <1>2, <2>1, <2>2, <3>1, <3>2 DEF StatusFits, Shape, Busy
  <2> QED BY <1>1, <1>3, <1>4, <2>1, <2>2, <2>3, <2>4, FinishSeen DEF Inv
<1> QED BY <1>5, <1>6


(* The rest of ManageCronTask does not touch the history: the task keeps its *)
(* run, or has none to show before and after.                                *)
LEMMA OneUnseen ==
    ASSUME Inv, NEW j \in Jobs, NEW u \in CronTask, Sets(j, u),
           Shown(u) = Shown(task[j]), UNCHANGED <<details, jobOf, nextRun>>
    PROVE  UNCHANGED History!vars
<1>1. task'[j] = u /\ \A i \in Jobs \ {j} : task'[i] = task[i]
  BY SetsOne DEF Inv
<1>2. \A i \in Jobs : Shown(task'[i]) = Shown(task[i])
  BY <1>1
<1> QED BY <1>2, Unseen

LEMMA WaitingSeen ==
    ASSUME Inv, NEW j \in Jobs, ManageWaiting(j)
    PROVE  UNCHANGED History!vars
<1> DEFINE t == task[j]
<1>1. /\ Manages(j, "WAITING") /\ Sets(j, AfterWaiting(t))
      /\ UNCHANGED <<details, jobOf, nextRun>>
  BY DEF ManageWaiting, historyVars
<1>2. t \in CronTask /\ t.state = "WAITING" /\ t.runId = 0 /\ t.isActive
  BY <1>1, Managing DEF Shape
<1>3. PICK u \in CronTask : u = AfterWaiting(t) /\ u.runId = 0
  <2>1. CASE t.pendingRunCount = 0
    BY <1>2, <2>1 DEF AfterWaiting
  <2>2. CASE t.pendingRunCount # 0
    <3>1. PICK n \in Nat : n = t.pendingRunCount - 1
      BY <1>2, <2>2 DEF CronTask
    <3>2. AfterWaiting(t) = [t EXCEPT !.pendingRunCount = n, !.state = "START"]
      BY <1>2, <2>2, <3>1 DEF AfterWaiting, CronTask
    <3>3. [t EXCEPT !.pendingRunCount = n, !.state = "START"] \in CronTask
      BY <1>2 DEF CronTask, CronTaskState
    <3> QED BY <1>2, <3>2, <3>3 DEF CronTask
  <2> QED BY <2>1, <2>2
<1>4. Shown(u) = Shown(t)
  BY <1>2, <1>3 DEF Shown
<1> QED BY <1>1, <1>3, <1>4, OneUnseen

LEMMA SendingSeen ==
    ASSUME Inv, NEW j \in Jobs, ManageSending(j)
    PROVE  UNCHANGED History!vars
<1> DEFINE t == task[j]
<1>1. Manages(j, "SENDING") /\ UNCHANGED <<details, jobOf, nextRun>>
  BY DEF ManageSending, historyVars
<1>2. t \in CronTask /\ t.state = "SENDING"
  BY <1>1, Managing
<1>3. PICK u \in CronTask : Sets(j, u) /\ u.runId = t.runId /\ u.state # "DONE"
  <2>1. CASE Sets(j, Failed(t))
    BY <1>2, <2>1, FailedFields
  <2>2. CASE Sets(j, t)
    BY <1>2, <2>2
  <2>3. CASE Sets(j, Sent(t))
    BY <1>2, <2>3, SentFields
  <2> QED BY <2>1, <2>2, <2>3 DEF ManageSending
<1>4. Shown(u) = Shown(t)
  BY <1>2, <1>3 DEF Shown
<1> QED BY <1>1, <1>3, <1>4, OneUnseen

LEMMA GivesUpSeen ==
    ASSUME Inv, NEW j \in Jobs, ManageRunningGivesUp(j)
    PROVE  UNCHANGED History!vars
<1> DEFINE t == task[j]
<1>1. Manages(j, "RUNNING") /\ UNCHANGED <<details, jobOf, nextRun>>
  BY DEF ManageRunningGivesUp, historyVars
<1>2. t \in CronTask /\ t.state = "RUNNING"
  BY <1>1, Managing
<1>3. PICK f \in CronTask : f = Failed(t) /\ f.runId = t.runId /\ f.state = "ERROR"
  BY <1>2, FailedFields
<1>4. PICK u \in CronTask : Sets(j, u) /\ u.runId = t.runId /\ u.state # "DONE"
  <2>1. CASE Sets(j, f)
    BY <1>3, <2>1
  <2>2. CASE Sets(j, [f EXCEPT !.timedOut = TRUE])
    <3>1. [f EXCEPT !.timedOut = TRUE] \in CronTask
      BY DEF CronTask
    <3> QED BY <1>3, <2>2, <3>1 DEF CronTask
  <2>3. CASE Sets(j, [f EXCEPT !.timedOut = TRUE, !.cancelRequested = TRUE,
                               !.runDeadline = "unset"])
    <3>1. [f EXCEPT !.timedOut = TRUE, !.cancelRequested = TRUE,
                    !.runDeadline = "unset"] \in CronTask
      BY DEF CronTask, Deadline
    <3> QED BY <1>3, <2>3, <3>1 DEF CronTask
  <2> QED BY <1>3, <2>1, <2>2, <2>3 DEF ManageRunningGivesUp
<1>5. Shown(u) = Shown(t)
  BY <1>2, <1>4 DEF Shown
<1> QED BY <1>1, <1>4, <1>5, OneUnseen

LEMMA DoneSeen ==
    ASSUME Inv, NEW j \in Jobs, ManageDone(j)
    PROVE  UNCHANGED History!vars
<1> DEFINE t == task[j]
<1>1. Manages(j, "DONE") /\ UNCHANGED <<details, jobOf, nextRun>>
  BY DEF ManageDone, historyVars
<1>2. t \in CronTask /\ t.state = "DONE"
  BY <1>1, Managing
<1>3. PICK n \in Nat : n = IF t.pendingRunCount > MaxPendingTasks
                           THEN MaxPendingTasks ELSE t.pendingRunCount
  BY <1>2, NedoCronAssumption DEF CronTask
<1>4. PICK v \in CronTask : v = [t EXCEPT !.pendingRunCount = n]
  BY <1>2 DEF CronTask
<1>5. Sets(j, ResetCronTaskAfterRun(v))
  BY <1>3, <1>4 DEF ManageDone, CronTask
<1>6. /\ ResetCronTaskAfterRun(v) \in CronTask
      /\ Shown(ResetCronTaskAfterRun(v)) = Shown(t)
  <2>1. ResetCronTaskAfterRun(v).state = "WAITING" /\ ResetCronTaskAfterRun(v).runId = 0
    BY DEF ResetCronTaskAfterRun, CronTask
  <2> QED BY <1>2, <2>1, ResetTyped DEF Shown
<1> QED BY <1>1, <1>5, <1>6, OneUnseen


-----------------------------------------------------------------------------
(* The rest of the loop, the process and the world around it.                *)

LEMMA LoopTopSeen ==
    ASSUME Inv, NEW reload \in BOOLEAN, LoopTop(reload)
    PROVE  UNCHANGED History!vars
<1>1. UNCHANGED <<details, jobOf, nextRun>>
  BY DEF LoopTop, historyVars
<1>2. \A j \in Jobs : Alike(task'[j], task[j])
  BY LoopTopTasks
<1>3. \A j \in Jobs : Shown(task'[j]) = Shown(task[j])
  BY <1>2 DEF Alike, Shown
<1> QED BY <1>1, <1>3, Unseen

LEMMA WaitSeen ==
    ASSUME Inv, NEW zeroTimeout \in BOOLEAN, WaitForEvent(zeroTimeout)
    PROVE  UNCHANGED History!vars
<1>1. UNCHANGED <<details, jobOf, nextRun>>
  BY DEF WaitForEvent, historyVars
<1>2. \A j \in Jobs : /\ j \in hash => Woken(task'[j], task[j])
                      /\ j \notin hash => task'[j] = task[j]
  BY WaitTasks
<1>3. \A j \in Jobs : Shown(task'[j]) = Shown(task[j])
  BY <1>2 DEF Woken, Shown
<1> QED BY <1>1, <1>3, Unseen

(* With the process go the runs in progress, their rows stay as they are.    *)
LEMMA ProcessEndsSeen ==
    ASSUME NEW how, ProcessEnds(how)
    PROVE  History!WalkAway
<1>1. UNCHANGED <<details, jobOf, nextRun>>
  BY DEF ProcessEnds, historyVars
<1>2. \A j \in Jobs : task'[j] = InitCronTask
  BY DEF ProcessEnds
<1>3. \A j \in Jobs : Shown(task'[j]) = 0
  BY <1>2, InitTask DEF Shown
<1>4. Current' = [j \in Jobs |-> 0]
  BY <1>3, CurrentValue
<1> QED BY <1>1, <1>4 DEF History!WalkAway

LEMMA CommitSeen ==
    ASSUME NEW j \in Jobs, CommitUnschedule(j)
    PROVE  History!DeleteRows(j)
<1>1. /\ UNCHANGED <<task, jobOf, nextRun>>
      /\ details' = [r \in RunIds |-> IF jobOf[r] = {j} THEN "deleted" ELSE details[r]]
  BY DEF CommitUnschedule, taskVars
<1>2. Current' = Current
  BY <1>1, CurrentValue
<1> QED BY <1>1, <1>2 DEF History!DeleteRows, History!Runs, RunIds

LEMMA DeadlineSeen ==
    ASSUME Inv, NEW j \in Jobs, DeadlinePasses(j)
    PROVE  UNCHANGED History!vars
<1> DEFINE t == task[j]
<1>1. UNCHANGED <<details, jobOf, nextRun>>
  BY DEF DeadlinePasses, historyVars
<1>2. t \in CronTask
  BY DEF Inv, TypeOK
<1>3. PICK u \in CronTask : Sets(j, u) /\ u.runId = t.runId /\ u.state = t.state
  <2>1. CASE Sets(j, [t EXCEPT !.startDeadline = "passed"])
    <3>1. [t EXCEPT !.startDeadline = "passed"] \in CronTask
      BY <1>2 DEF CronTask, Deadline
    <3> QED BY <1>2, <2>1, <3>1 DEF CronTask
  <2>2. CASE Sets(j, [t EXCEPT !.runDeadline = "passed"])
    <3>1. [t EXCEPT !.runDeadline = "passed"] \in CronTask
      BY <1>2 DEF CronTask, Deadline
    <3> QED BY <1>2, <2>2, <3>1 DEF CronTask
  <2> QED BY <2>1, <2>2 DEF DeadlinePasses
<1>4. Shown(u) = Shown(t)
  BY <1>3 DEF Shown
<1> QED BY <1>1, <1>3, <1>4, OneUnseen

(* Whoever leaves tasks and rows alone is not seen.                          *)
LEMMA OutsideSeen ==
    ASSUME UNCHANGED <<task, historyVars>>
    PROVE  UNCHANGED History!vars
BY Unseen DEF historyVars

-----------------------------------------------------------------------------
(* The refinement.                                                           *)

LEMMA HistoryInit ==
    ASSUME Init
    PROVE  History!Init
<1>1. /\ details = [r \in RunIds |-> "none"] /\ jobOf = [r \in RunIds |-> {}]
      /\ nextRun = 1 /\ \A j \in Jobs : task[j] = InitCronTask
  BY DEF Init
<1>2. Current = [j \in Jobs |-> 0]
  BY <1>1, InitTask, CurrentValue DEF Shown
<1> QED BY <1>1, <1>2 DEF History!Init, History!Runs, RunIds

LEMMA HistoryNext ==
    ASSUME Inv, [Next]_vars
    PROVE  [History!Next]_(History!vars)
<1>1. ASSUME NEW j \in Jobs, ManageCronTask(j) PROVE [History!Next]_(History!vars)
  <2>1. \/ UNCHANGED History!vars \/ History!Begin(j) \/ History!Connected(j)
        \/ History!Finish(j)
    BY <1>1, WaitingSeen, StartSeen, ConnectingSeen, SendingSeen, GivesUpSeen, RunningSeen,
       ReadResultsSeen, ErrorSeen, DoneSeen DEF ManageCronTask
  <2> QED BY <2>1 DEF History!Next
<1>2. CASE Worker
  <2>1. ASSUME NEW j \in Jobs, InsertFails(j) PROVE History!Next
    BY <2>1, ProcessEndsSeen DEF InsertFails, History!Next
  <2>2. CASE WorkerRestarts
    BY <2>2, OutsideSeen DEF WorkerRestarts, taskVars
  <2> QED BY <1>1, <1>2, <2>1, <2>2, LoopTopSeen, WaitSeen DEF Worker
<1>3. CASE Environment
  <2>1. CASE WorkerCrashes \/ WorkerExits
    BY <2>1, ProcessEndsSeen DEF WorkerCrashes, WorkerExits, History!Next
  <2>2. CASE ServerRestarts
    BY <2>2, OutsideSeen DEF ServerRestarts, taskVars
  <2>3. ASSUME NEW j \in Jobs, ScheduleJob(j) \/ UnscheduleJob(j) \/ RollbackUnschedule(j)
        PROVE  UNCHANGED History!vars
    BY <2>3, OutsideSeen DEF ScheduleJob, UnscheduleJob, RollbackUnschedule, taskVars
  <2>4. ASSUME NEW j \in Jobs, CommitUnschedule(j) PROVE History!Next
    BY <2>4, CommitSeen DEF History!Next
  <2>5. ASSUME NEW r \in RunIds, \/ ServerStreams(r) \/ ServerCopies(r)
                                 \/ ServerFinishes(r) \/ LinkBreaks(r)
        PROVE  UNCHANGED History!vars
    BY <2>5, OutsideSeen DEF ServerStreams, ServerCopies, ServerFinishes, LinkBreaks, taskVars
  <2> QED BY <1>3, <2>1, <2>2, <2>3, <2>4, <2>5, DeadlineSeen DEF Environment
<1>4. CASE UNCHANGED vars
  BY <1>4, OutsideSeen DEF vars, taskVars
<1> QED BY <1>2, <1>3, <1>4 DEF Next

(* The worker implements RunHistory: through removals of jobs, rollbacks,    *)
(* lost connections, timeouts, late results and restarts, the rows of        *)
(* nedo_cron.job_run_details change only as the abstract history allows.     *)
THEOREM HistoryRefined == Spec => ImplementsRunHistory
<1>1. Init => History!Init
  BY HistoryInit
<1>2. Inv /\ [Next]_vars => [History!Next]_(History!vars)
  BY HistoryNext
<1> QED BY <1>1, <1>2, Invariance, PTL DEF Spec, ImplementsRunHistory, History!Spec

LEMMA FinalStays ==
    ASSUME Inv, [Next]_vars, NEW r \in RunIds, details[r] \in Final
    PROVE  details'[r] \in {details[r], "deleted"}
<1>1. r < nextRun /\ details \in [RunIds -> RunStatus]
  BY DEF Inv, TypeOK, RunFits, Unbegun, Final, RunIds
<1>2. CASE UNCHANGED History!vars
  BY <1>2 DEF History!vars
<1>3. ASSUME NEW j \in Jobs, History!Begin(j) PROVE details'[r] = details[r]
  BY <1>1, <1>3 DEF History!Begin, RunIds
<1>4. ASSUME NEW j \in Jobs, History!Connected(j) PROVE details'[r] = details[r]
  BY <1>1, <1>4 DEF History!Connected, Final
<1>5. ASSUME NEW j \in Jobs, History!Finish(j) PROVE details'[r] = details[r]
  BY <1>1, <1>5 DEF History!Finish, Final
<1>6. ASSUME NEW j \in Jobs, History!DeleteRows(j)
      PROVE  details'[r] \in {details[r], "deleted"}
  BY <1>6 DEF History!DeleteRows, History!Runs, RunIds
<1>7. CASE History!WalkAway
  BY <1>7 DEF History!WalkAway
<1> QED BY <1>2, <1>3, <1>4, <1>5, <1>6, <1>7, HistoryNext DEF History!Next

(* A finished run is never reopened and its verdict never changes: no retry, *)
(* late result, removal or restart writes a closed row of job_run_details,   *)
(* which can only be deleted.                                                *)
THEOREM FinalStable == Spec => FinalStatusStable
<1>1. Inv /\ [Next]_vars =>
         [\A r \in RunIds :
             details[r] \in Final => details'[r] \in {details[r], "deleted"}]_vars
  BY FinalStays
<1> QED BY <1>1, Invariance, PTL DEF Spec, FinalStatusStable
=============================================================================
