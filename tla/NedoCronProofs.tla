----------------------------- MODULE NedoCronProofs -----------------------------
(***************************************************************************)
(* Proofs about NedoCron for every set of jobs, any number of runs and every *)
(* combination of events: one inductive invariant, Inv, from which the       *)
(* safety invariants follow.  It speaks of one task or one run at a time,    *)
(* so that a step of the worker need only be looked at where it takes place  *)
(* (lemma OneTaskStep).                                                      *)
(***************************************************************************)
EXTENDS NedoCron, TLAPS

USE DEF sessionVars, historyVars, cacheVars, taskVars, loopVars, serverVars,
        ghostVars

-----------------------------------------------------------------------------
(* The inductive invariant: what holds of each task.                         *)

Busy == {"CONNECTING", "SENDING", "RUNNING", "ERROR"}

(* The fields of a task agree with one another in each state.                *)
Shape(t) ==
    /\ t.state \in {"WAITING", "START"} => t.runId = 0
    /\ t.state \in {"WAITING", "START", "DONE"} => t.conn = 0
    /\ t.state \in {"WAITING", "START", "CONNECTING", "SENDING"} =>
          ~t.timedOut /\ t.runDeadline = "unset"
    /\ t.state \in {"CONNECTING", "SENDING", "RUNNING"} =>
          /\ t.runId # 0 /\ t.conn = t.runId
          /\ t.polling_status \in {"reading", "writing"}
    /\ t.state \in {"CONNECTING", "SENDING"} =>
          t.startDeadline \in {"armed", "passed"}
    /\ t.state = "RUNNING" =>
          /\ t.polling_status = "reading"
          /\ t.runDeadline \in {"armed", "passed"} <=> ~t.cancelRequested
    /\ t.state = "ERROR" =>
          t.runId # 0 /\ t.conn \in {0, t.runId} /\ t.errorMessage

(* A run id in a task is that of the latest run of this very job, begun by   *)
(* this incarnation of the worker.                                           *)
LatestRun(j, q) ==
    /\ q \in epoch..(nextRun - 1)
    /\ jobOf[q] = {j}
    /\ \A r \in RunIds : r > q => jobOf[r] # {j}

(* What the history says of the run of a busy task; where a server does not   *)
(* tell its pid the row stays in 'starting'.                                  *)
StatusFits(t) ==
    /\ t.state \in Busy => details[t.runId] \in {"starting", "running", "deleted"}
    /\ t.state = "CONNECTING" => details[t.runId] # "running"
    /\ t.state \in {"SENDING", "RUNNING"} \/ (t.state = "ERROR" /\ t.timedOut) =>
          details[t.runId] # "starting" \/ "nopid" \in Events

(* What its backend does, as far as the worker knows.                        *)
ServerFits(j, t) ==
    /\ t.state = "CONNECTING" => server[t.runId] = "none"
    /\ t.state = "SENDING" => server[t.runId] = "idle"
    /\ t.state = "RUNNING" /\ j \in todo /\ t.isSocketReady => Arrived(t.runId)

(* A run counts as timed out only if it was.                                 *)
TimedOutTruly(t) ==
    /\ t.runDeadline = "passed" => t.runId \in ranOut
    /\ t.timedOut => server[t.runId] = "cancelled" \/ t.runId \in ranOut

(* The task's place in the hash table and in the loop.                       *)
Placed(j, t) ==
    /\ j \in hash => (t.isActive <=> j \in cached)
    /\ j \notin hash => t = InitCronTask
    /\ j \in blocked => t.state = "RUNNING" /\ t.isActive

TaskFits(j) ==
    LET t == task[j] IN
    /\ Shape(t) /\ Placed(j, t)
    /\ t.runId # 0 => /\ LatestRun(j, t.runId) /\ TimedOutTruly(t)
                      /\ StatusFits(t) /\ ServerFits(j, t)

-----------------------------------------------------------------------------
(* What holds of each run.                                                   *)

(* Nothing is known of it before it begins.                                  *)
Unbegun(r) == r >= nextRun =>
    details[r] = "none" /\ jobOf[r] = {} /\ server[r] = "none"

(* Its connection is open as long as a task has it.                          *)
Connection(r) ==
    /\ r \in open <=> \E j \in hash : task[j].conn = r
    /\ r \in broken => r \in open

(* A command the worker has not lost is one it is still waiting for.         *)
Held(r) == server[r] \in Executing =>
    /\ r \notin severed => \E j \in hash : task[j].state = "RUNNING" /\ task[j].runId = r
    /\ r \in broken => r \in severed

Truthful(r) ==
    /\ details[r] = "succeeded" => server[r] = "ok"
    /\ details[r] = "timeout" => server[r] = "cancelled" \/ r \in ranOut

(* An open row of this incarnation has its task.                             *)
Owned(r) ==
    Alive /\ r >= epoch /\ details[r] \in {"starting", "running"} =>
        \E j \in hash : task[j].runId = r /\ task[j].state \in Busy

RunFits(r) == Unbegun(r) /\ Connection(r) /\ Held(r) /\ Truthful(r) /\ Owned(r)

(* Where the loop is, and what is left when the process is not there.        *)
LoopOK ==
    /\ todo \subseteq hash /\ blocked \subseteq todo /\ cached \subseteq hash
    /\ pc # "manage" => todo = {}
    /\ ~Alive => hash = {}
    /\ epoch <= nextRun

Inv == /\ TypeOK /\ LoopOK
       /\ \A j \in Jobs : TaskFits(j)
       /\ \A r \in RunIds : RunFits(r)

-----------------------------------------------------------------------------
(* Locality.                                                                 *)

(* A step that takes place in the task of job j and in run q, which no other *)
(* task has to do with, leaves everybody else's part of Inv alone.           *)
Elsewhere(j, q) ==
    /\ \A i \in Jobs \ {j} : task'[i] = task[i] /\ (q = 0 \/ task[i].runId # q)
    /\ {task[j].runId, task'[j].runId, task[j].conn, task'[j].conn} \subseteq {0, q}
    /\ \A i \in Jobs \ {j} : /\ i \in hash' <=> i \in hash
                             /\ i \in todo' => i \in todo
                             /\ i \in blocked' => i \in blocked
    /\ \A r \in RunIds \ {q} :
          /\ details'[r] = details[r] /\ jobOf'[r] = jobOf[r] /\ server'[r] = server[r]
          /\ r \in open' <=> r \in open
          /\ r \in broken' <=> r \in broken
          /\ r \in severed' <=> r \in severed
    /\ q \in RunIds => jobOf'[q] \in {jobOf[q], {j}}
    /\ Alive /\ Alive' /\ nextRun' >= nextRun
    /\ ranOut \subseteq ranOut'
    /\ UNCHANGED <<cached, epoch>>

(* The run of any other task is not run q.                                   *)
LEMMA OtherTasks ==
    ASSUME Inv, TypeOK', NEW j \in Jobs, NEW q \in 0..MaxRuns, Elsewhere(j, q),
           NEW i \in Jobs \ {j}
    PROVE  TaskFits(i)'
<1> DEFINE t == task[i]
<1>1. t \in CronTask /\ task'[i] = t /\ TaskFits(i)
  BY DEF Inv, TypeOK, Elsewhere
<1>2. Shape(t) /\ Placed(i, t) /\ (Shape(task[i]))' /\ (Placed(i, task[i]))'
  BY <1>1 DEF TaskFits, Elsewhere, Placed, Shape
<1>3. ASSUME t.runId # 0
      PROVE  /\ LatestRun(i, t.runId)' /\ TimedOutTruly(t)'
             /\ StatusFits(t)' /\ ServerFits(i, t)'
  <2>1. t.runId \in RunIds \ {q}
    BY <1>1, <1>3 DEF CronTask, RunIds, Elsewhere
  <2>2. /\ LatestRun(i, t.runId) /\ TimedOutTruly(t)
        /\ StatusFits(t) /\ ServerFits(i, t)
    BY <1>1, <1>3 DEF TaskFits
  <2>3. LatestRun(i, t.runId)'
    <3>1. \A r \in RunIds : jobOf[r] # {i} => jobOf'[r] # {i}
      BY DEF Elsewhere
    <3>2. nextRun' >= nextRun /\ nextRun \in Int /\ nextRun' \in Int /\ epoch' = epoch
      BY DEF Elsewhere, Inv, TypeOK
    <3>3. jobOf'[t.runId] = jobOf[t.runId]
      BY <2>1 DEF Elsewhere
    <3>4. epoch \in Int /\ t.runId \in epoch..(nextRun' - 1)
      BY <2>2, <3>2 DEF LatestRun, Inv, TypeOK
    <3> QED BY <1>1, <2>2, <3>1, <3>2, <3>3, <3>4 DEF LatestRun
  <2>4. TimedOutTruly(t)' /\ StatusFits(t)'
    BY <2>1, <2>2 DEF TimedOutTruly, StatusFits, Elsewhere
  <2>5. ServerFits(i, t)'
    BY <2>1, <2>2 DEF ServerFits, Arrived, Elsewhere
  <2> QED BY <2>3, <2>4, <2>5
<1> QED BY <1>1, <1>2, <1>3 DEF TaskFits

LEMMA OtherRuns ==
    ASSUME Inv, TypeOK', NEW j \in Jobs, NEW q \in 0..MaxRuns, Elsewhere(j, q),
           NEW r \in RunIds \ {q}
    PROVE  RunFits(r)'
<1>1. RunFits(r) /\ r # 0 /\ r \in Nat
  BY DEF Inv, RunIds
<1>2. \A i \in Jobs : /\ i \in hash /\ task[i].runId = r => i \in hash' /\ task'[i] = task[i]
                      /\ i \in hash /\ task[i].conn = r => i \in hash' /\ task'[i] = task[i]
                      /\ i \in hash' /\ task'[i].conn = r => i \in hash /\ task'[i] = task[i]
  BY <1>1 DEF Elsewhere
<1>3. hash \subseteq Jobs /\ hash' \subseteq Jobs
  BY DEF Inv, TypeOK
<1>4. Unbegun(r)' /\ Truthful(r)'
  BY <1>1 DEF RunFits, Unbegun, Truthful, Elsewhere, Inv, TypeOK
<1>5. Connection(r)' 
  BY <1>1, <1>2, <1>3 DEF RunFits, Connection, Elsewhere
<1>6. Held(r)'
  BY <1>1, <1>2, <1>3 DEF RunFits, Held, Elsewhere
<1>7. Owned(r)'
  BY <1>1, <1>2, <1>3 DEF RunFits, Owned, Elsewhere
<1> QED BY <1>4, <1>5, <1>6, <1>7 DEF RunFits

LEMMA OneTaskStep ==
    ASSUME Inv, TypeOK', LoopOK', NEW j \in Jobs, NEW q \in 0..MaxRuns,
           Elsewhere(j, q), TaskFits(j)', q \in RunIds => RunFits(q)'
    PROVE  Inv'
<1>1. \A i \in Jobs : TaskFits(i)'
  BY OtherTasks
<1>2. \A r \in RunIds : RunFits(r)'
  BY OtherRuns
<1> QED BY <1>1, <1>2 DEF Inv

-----------------------------------------------------------------------------
(* ManageCronTask.                                                           *)

(* Sets writes one entry of the hash table.                                  *)
LEMMA SetsOne ==
    ASSUME TypeOK, NEW j \in Jobs, NEW u \in CronTask, Sets(j, u)
    PROVE  /\ task' \in [Jobs -> CronTask]
           /\ task'[j] = u
           /\ \A i \in Jobs \ {j} : task'[i] = task[i]
BY DEF TypeOK, Sets

(* No two tasks have the same run.                                           *)
LEMMA RunsApart ==
    ASSUME Inv, NEW j \in Jobs, NEW i \in Jobs \ {j}, task[i].runId # 0
    PROVE  task[i].runId # task[j].runId
<1> SUFFICES ASSUME task[i].runId = task[j].runId PROVE FALSE
  OBVIOUS
<1>1. jobOf[task[i].runId] = {i} /\ jobOf[task[j].runId] = {j}
  BY DEF Inv, TaskFits, LatestRun
<1> QED BY <1>1

(* What a step on the task of job j has to show when it makes the task u.    *)
Fitting(j, u) ==
    /\ {u.runId, u.conn} \subseteq {0, task[j].runId}
    /\ Shape(u)
    /\ j \in hash' => u.isActive = task[j].isActive
    /\ j \notin hash' => u = InitCronTask
    /\ j \in blocked' => u.state = "RUNNING" /\ u.isActive
    /\ u.runId # 0 => TimedOutTruly(u)' /\ StatusFits(u)' /\ ServerFits(j, u)'
    /\ \A q \in RunIds : q = task[j].runId =>
          /\ q \in open' <=> u.conn = q
          /\ q \in broken' => q \in open'
          /\ Truthful(q)'
          /\ server'[q] \in Executing =>
                /\ q \notin severed' => u.state = "RUNNING" /\ u.runId = q
                /\ q \in broken' => q \in severed'
          /\ details'[q] \in {"starting", "running"} => u.state \in Busy /\ u.runId = q

(* What it leaves alone.                                                     *)
Aside(j) ==
    /\ hash' \in {hash, hash \ {j}} /\ todo' \subseteq todo
    /\ blocked' \subseteq blocked \cup {j}
    /\ \A r \in RunIds \ {task[j].runId} :
          /\ details'[r] = details[r] /\ server'[r] = server[r]
          /\ r \in open' <=> r \in open
          /\ r \in broken' <=> r \in broken
          /\ r \in severed' <=> r \in severed
    /\ Alive /\ Alive'
    /\ ranOut \subseteq ranOut'
    /\ UNCHANGED <<cached, epoch, jobOf, nextRun>>

LEMMA TaskStep ==
    ASSUME Inv, TypeOK', LoopOK', NEW j \in hash, NEW u \in CronTask, Sets(j, u),
           Aside(j), Fitting(j, u)
    PROVE  Inv'
<1> DEFINE t == task[j]
<1>1. /\ j \in Jobs /\ t \in CronTask /\ t.runId \in 0..MaxRuns /\ TaskFits(j)
      /\ t.conn \in {0, t.runId} /\ (t.isActive <=> j \in cached)
  BY DEF Inv, TypeOK, CronTask, CronTaskState, TaskFits, Shape, Placed
<1> PICK q \in 0..MaxRuns : q = t.runId
  BY <1>1
<1>2. task'[j] = u /\ \A i \in Jobs \ {j} : task'[i] = task[i]
  BY <1>1, SetsOne DEF Inv
<1>3. Elsewhere(j, q)
  BY <1>1, <1>2, RunsApart DEF Elsewhere, Aside, Fitting, Inv, TypeOK
<1>4. TaskFits(j)'
  <2>1. Shape(u) /\ Placed(j, u)'
    BY <1>1 DEF Fitting, Placed, Aside
  <2>2. ASSUME u.runId # 0 PROVE LatestRun(j, u.runId)'
    BY <2>2, <1>1 DEF Fitting, TaskFits, LatestRun, Aside
  <2> QED BY <2>1, <2>2, <1>2 DEF TaskFits, Fitting
<1>5. ASSUME q \in RunIds PROVE RunFits(q)'
  <2>1. ASSUME NEW i \in Jobs \ {j} PROVE task[i].conn # q /\ task[i].runId # q
    <3>1. task[i] \in CronTask /\ Shape(task[i])
      BY DEF Inv, TypeOK, TaskFits
    <3>2. task[i].conn \in {0, task[i].runId}
      BY <3>1 DEF Shape, CronTask, CronTaskState
    <3> QED BY <1>5, <3>2, RunsApart, <1>1 DEF RunIds
  <2>2. q # 0 /\ q \in Nat /\ hash' \subseteq Jobs
    BY <1>5 DEF RunIds, TypeOK
  <2>3. Unbegun(q)'
    <3>1. q \in epoch..(nextRun - 1) /\ nextRun' = nextRun /\ nextRun \in Int
      BY <2>2, <1>1 DEF TaskFits, LatestRun, Aside, Inv, TypeOK
    <3> QED BY <3>1, <2>2 DEF Unbegun
  <2>4. u.conn = q \/ u.runId = q => j \in hash'
    BY <2>2 DEF Fitting, InitCronTask
  <2>5. Connection(q)'
    BY <1>5, <2>1, <2>2, <2>4, <1>1, <1>2 DEF Connection, Fitting
  <2>6. Held(q)'
    BY <1>5, <2>1, <2>2, <2>4, <1>1, <1>2 DEF Held, Fitting
  <2>7. Truthful(q)'
    BY <1>5 DEF Fitting
  <2>8. Owned(q)'
    BY <1>5, <2>1, <2>2, <2>4, <1>1, <1>2 DEF Owned, Fitting
  <2> QED BY <2>3, <2>5, <2>6, <2>7, <2>8 DEF RunFits
<1> QED BY <1>1, <1>3, <1>4, <1>5, OneTaskStep

(* What the worker may rely on when it takes up the task of job j.           *)
LEMMA Managing ==
    ASSUME Inv, NEW j \in Jobs, NEW s, Manages(j, s)
    PROVE  /\ task[j] \in CronTask /\ j \in hash /\ j \in todo /\ pc = "manage"
           /\ blocked = {} /\ Shape(task[j]) /\ TaskFits(j)
           /\ task[j].isActive <=> j \in cached
           /\ s # "ERROR" => task[j].state = s
           /\ s = "ERROR" => task[j].state = s \/ (j \notin cached /\ task[j].state # "DONE")
           /\ s \notin {"ERROR", "DONE"} => task[j].isActive
           /\ \A i \in Jobs \ {j} : task[i].runId # 0 => task[i].runId # task[j].runId
<1>1. /\ task[j] \in CronTask /\ j \in hash /\ j \in todo /\ pc = "manage" /\ blocked = {}
      /\ TaskFits(j)
  BY DEF Inv, TypeOK, LoopOK, Manages
<1>2. Shape(task[j]) /\ (task[j].isActive <=> j \in cached)
  BY <1>1 DEF TaskFits, Placed
<1>3. /\ s # "ERROR" => task[j].state = s
      /\ s = "ERROR" => task[j].state = s \/ (j \notin cached /\ task[j].state # "DONE")
      /\ s \notin {"ERROR", "DONE"} => task[j].isActive
  <2>1. CASE j \notin cached /\ task[j].state # "DONE"
    <3>1. Entered(j).state = "ERROR"
      BY <1>1, <2>1 DEF Entered, CronTask
    <3> QED BY <1>2, <2>1, <3>1 DEF Manages
  <2>2. CASE ~(j \notin cached /\ task[j].state # "DONE")
    BY <1>2, <2>2 DEF Manages, Entered
  <2> QED BY <2>1, <2>2
<1>4. \A i \in Jobs \ {j} : task[i].runId # 0 => task[i].runId # task[j].runId
  <2> SUFFICES ASSUME NEW i \in Jobs \ {j}, task[i].runId # 0, task[i].runId = task[j].runId
               PROVE  FALSE
    OBVIOUS
  <2>1. jobOf[task[i].runId] = {i} /\ jobOf[task[j].runId] = {j}
    BY DEF Inv, TaskFits, LatestRun
  <2> QED BY <2>1
<1> QED BY <1>1, <1>2, <1>3, <1>4

(* A removed job's task is changed in its state and its message only.         *)
LEMMA EnteredFields ==
    ASSUME NEW j \in Jobs, task[j] \in CronTask
    PROVE  /\ Entered(j).conn = task[j].conn /\ Entered(j).runId = task[j].runId
           /\ Entered(j).timedOut = task[j].timedOut
           /\ Entered(j).isActive = task[j].isActive
           /\ j \in cached => Entered(j) = task[j]
           /\ Entered(j).state = "ERROR" =>
                 Entered(j).errorMessage \/ Entered(j) = task[j]
<1>1. CASE j \notin cached /\ task[j].state # "DONE"
  BY <1>1 DEF Entered, CronTask
<1>2. CASE ~(j \notin cached /\ task[j].state # "DONE")
  BY <1>2 DEF Entered
<1> QED BY <1>1, <1>2

(* Returns leaves the loop in order.                                         *)
LEMMA Returning ==
    ASSUME Inv, NEW j \in Jobs, pc = "manage", j \in todo, Returns(j),
           blocked' = {} , hash' \in {hash, hash \ {j}}, cached' = cached,
           j \in cached => j \in hash', epoch' = epoch, nextRun' \in {nextRun, nextRun + 1}
    PROVE  LoopOK' /\ Alive /\ Alive' /\ j \notin todo' /\ todo' \subseteq todo
BY DEF Inv, TypeOK, LoopOK, Returns, Alive

(* The fields of a task that has failed.                                     *)
LEMMA FailedFields ==
    ASSUME NEW t \in CronTask
    PROVE  /\ Failed(t) \in CronTask
           /\ Failed(t).state = "ERROR" /\ Failed(t).errorMessage
           /\ Failed(t).runId = t.runId /\ Failed(t).conn = t.conn
           /\ Failed(t).isActive = t.isActive /\ Failed(t).timedOut = t.timedOut
           /\ Failed(t).runDeadline = t.runDeadline
BY DEF CronTask, CronTaskState, Polling, Failed


(* A step of ManageCronTask that returns.                                    *)
SameRuns(j) ==
    \A r \in RunIds \ {task[j].runId} :
        /\ details'[r] = details[r] /\ server'[r] = server[r]
        /\ r \in open' <=> r \in open
        /\ r \in broken' <=> r \in broken
        /\ r \in severed' <=> r \in severed

LEMMA ManageStep ==
    ASSUME Inv, TypeOK', NEW j \in Jobs, NEW s, Manages(j, s), Returns(j),
           NEW u \in CronTask, Sets(j, u), Fitting(j, u), SameRuns(j),
           hash' = hash \/ (hash' = hash \ {j} /\ ~task[j].isActive),
           UNCHANGED <<blocked, cached, epoch, jobOf, nextRun, ranOut>>
    PROVE  Inv'
<1>1. /\ j \in hash /\ j \in todo /\ pc = "manage" /\ blocked = {}
      /\ task[j].isActive <=> j \in cached
  BY Managing
<1>2. hash' \in {hash, hash \ {j}} /\ (j \in cached => j \in hash')
  BY <1>1
<1>3. LoopOK' /\ Alive /\ Alive' /\ todo' \subseteq todo
  BY <1>1, <1>2, Returning
<1>4. Aside(j)
  BY <1>1, <1>2, <1>3 DEF Aside, SameRuns
<1> QED BY <1>1, <1>3, <1>4, TaskStep

(* The task fails and nothing else changes.                                  *)
LEMMA FailingStep ==
    ASSUME Inv, NEW j \in Jobs, NEW s \in {"CONNECTING", "SENDING", "RUNNING"},
           Manages(j, s), Returns(j), Sets(j, Failed(task[j])),
           s = "RUNNING" => task[j].conn \in broken,
           UNCHANGED <<sessionVars, historyVars, cacheVars, hash, blocked, serverVars,
                       ghostVars>>
    PROVE  Inv'
<1>1. PICK u \in CronTask : /\ u = Failed(task[j]) /\ u.state = "ERROR" /\ u.errorMessage
                            /\ u.runId = task[j].runId /\ u.conn = task[j].conn
                            /\ u.isActive = task[j].isActive
                            /\ u.timedOut = task[j].timedOut
                            /\ u.runDeadline = task[j].runDeadline
  BY Managing, FailedFields
<1>2. /\ task[j].state = s /\ Shape(task[j]) /\ TaskFits(j) /\ j \in hash
      /\ blocked = {} /\ task[j] \in CronTask
  BY Managing
<1>3. PICK q \in RunIds : q = task[j].runId /\ q = task[j].conn
  BY <1>2 DEF Shape, CronTask, RunIds
<1>4. TypeOK'
  <2>1. task' \in [Jobs -> CronTask]
    BY <1>1, SetsOne DEF Inv
  <2> QED BY <2>1 DEF Inv, TypeOK, Returns
<1>5. RunFits(q) /\ Connection(q) /\ Truthful(q) /\ q \in open
  BY <1>2, <1>3 DEF Inv, RunFits, Connection
<1>6. TimedOutTruly(u)' /\ StatusFits(u)' /\ ServerFits(j, u)'
  BY <1>1, <1>2, <1>3 DEF TaskFits, TimedOutTruly, StatusFits, ServerFits, Shape, Busy, RunIds
<1>7. Truthful(q)'
  BY <1>5 DEF Truthful
<1>8. server[q] \in Executing => q \in severed
  BY <1>2, <1>3, <1>5 DEF RunFits, Held, TaskFits, ServerFits, Executing, Awaited, RunIds
<1>9. Shape(u)
  BY <1>1, <1>3 DEF Shape, RunIds
<1>10. Fitting(j, u)
  BY <1>1, <1>2, <1>3, <1>5, <1>6, <1>7, <1>8, <1>9 DEF Fitting, Busy, Connection
<1> QED BY <1>1, <1>4, <1>10, ManageStep DEF SameRuns

(* It goes on waiting: neither its state nor its run changes.                *)
LEMMA WaitingOnStep ==
    ASSUME Inv, NEW j \in Jobs, NEW s \in {"CONNECTING", "SENDING"},
           Manages(j, s), Returns(j), NEW u \in CronTask, Sets(j, u),
           u.state = task[j].state, u.runId = task[j].runId, u.conn = task[j].conn,
           u.timedOut = task[j].timedOut, u.isActive = task[j].isActive,
           u.runDeadline = task[j].runDeadline, u.startDeadline = task[j].startDeadline,
           u.polling_status \in {"reading", "writing"},
           UNCHANGED <<sessionVars, historyVars, cacheVars, hash, blocked, serverVars,
                       ghostVars>>
    PROVE  Inv'
<1>1. /\ task[j].state = s /\ Shape(task[j]) /\ TaskFits(j) /\ j \in hash
      /\ blocked = {} /\ task[j] \in CronTask
  BY Managing
<1>2. PICK q \in RunIds : q = task[j].runId /\ q = task[j].conn
  BY <1>1 DEF Shape, CronTask, RunIds
<1>3. TypeOK'
  <2>1. task' \in [Jobs -> CronTask]
    BY SetsOne DEF Inv
  <2> QED BY <2>1 DEF Inv, TypeOK, Returns
<1>4. RunFits(q) /\ Connection(q) /\ Truthful(q) /\ q \in open
  BY <1>1, <1>2 DEF Inv, RunFits, Connection
<1>5. TimedOutTruly(u)' /\ StatusFits(u)' /\ ServerFits(j, u)'
  BY <1>1, <1>2 DEF TaskFits, TimedOutTruly, StatusFits, ServerFits, Busy, RunIds
<1>6. Truthful(q)'
  BY <1>4 DEF Truthful
<1>7. server[q] \notin Executing
  BY <1>1, <1>2 DEF TaskFits, ServerFits, Executing, Awaited, RunIds
<1>8. Shape(u)
  BY <1>1, <1>2 DEF Shape, RunIds
<1>9. Fitting(j, u)
  BY <1>1, <1>2, <1>4, <1>5, <1>6, <1>7, <1>8 DEF Fitting, Busy, Connection
<1> QED BY <1>3, <1>9, ManageStep DEF SameRuns

LEMMA ConnectingStep ==
    ASSUME Inv, NEW j \in Jobs, ManageConnecting(j)
    PROVE  Inv'
<1> DEFINE t == task[j]
<1>1. /\ Manages(j, "CONNECTING") /\ Returns(j)
      /\ UNCHANGED <<sessionVars, jobOf, runUser, nextRun, cacheVars, hash, blocked,
                     open, broken, ghostVars>>
  BY DEF ManageConnecting
<1>2. /\ t.state = "CONNECTING" /\ Shape(t) /\ TaskFits(j) /\ j \in hash
      /\ blocked = {} /\ t \in CronTask
  BY <1>1, Managing
<1>3. CASE Sets(j, Failed(t)) /\ UNCHANGED <<details, server>>
  BY <1>1, <1>3, FailingStep
<1>4. CASE Sets(j, t) /\ UNCHANGED <<details, server>>
  <2>1. t.polling_status \in {"reading", "writing"}
    BY <1>2 DEF Shape
  <2> QED BY <1>1, <1>2, <1>4, <2>1, WaitingOnStep
<1>5. ASSUME NEW p \in {"reading", "writing"}, UNCHANGED <<details, server>>,
             Sets(j, [t EXCEPT !.polling_status = p])
      PROVE  Inv'
  <2>1. PICK u \in CronTask : u = [t EXCEPT !.polling_status = p]
    BY <1>2 DEF CronTask, Polling
  <2>2. /\ u.state = t.state /\ u.runId = t.runId /\ u.conn = t.conn
        /\ u.timedOut = t.timedOut /\ u.isActive = t.isActive
        /\ u.runDeadline = t.runDeadline /\ u.startDeadline = t.startDeadline
        /\ u.polling_status = p
    BY <1>2, <2>1 DEF CronTask
  <2> QED BY <1>1, <1>5, <2>1, <2>2, WaitingOnStep
<1>6. ASSUME SetStatus(t.runId, "running") \/ ("nopid" \in Events /\ UNCHANGED details),
             server' = [server EXCEPT ![t.conn] = "idle"],
             Sets(j, [t EXCEPT !.polling_status = "writing", !.state = "SENDING"])
      PROVE  Inv'
  <2>1. PICK u \in CronTask :
              u = [t EXCEPT !.polling_status = "writing", !.state = "SENDING"]
    BY <1>2 DEF CronTask, CronTaskState, Polling
  <2>2. /\ u.state = "SENDING" /\ u.runId = t.runId /\ u.conn = t.conn
        /\ u.timedOut = t.timedOut /\ u.isActive = t.isActive
        /\ u.runDeadline = t.runDeadline /\ u.startDeadline = t.startDeadline
        /\ u.polling_status = "writing"
    BY <1>2, <2>1 DEF CronTask
  <2>3. PICK q \in RunIds : /\ q = t.runId /\ q = t.conn
                            /\ server[q] = "none" /\ details[q] \in {"starting", "deleted"}
    BY <1>2 DEF Shape, CronTask, RunIds, TaskFits, StatusFits, ServerFits, Busy
  <2>4. /\ details \in [RunIds -> RunStatus] /\ details' \in [RunIds -> RunStatus]
        /\ details'[q] \in {"starting", "running", "deleted"}
        /\ details'[q] # "starting" \/ "nopid" \in Events
        /\ \A r \in RunIds \ {q} : details'[r] = details[r]
    BY <1>6, <2>3 DEF Inv, TypeOK, SetStatus, RunStatus
  <2>5. /\ server \in [RunIds -> ServerState] /\ server' \in [RunIds -> ServerState]
        /\ server'[q] = "idle"
        /\ \A r \in RunIds \ {q} : server'[r] = server[r]
    BY <1>6, <2>3 DEF Inv, TypeOK, ServerState
  <2>6. TypeOK'
    <3>1. task' \in [Jobs -> CronTask]
      BY <1>6, <2>1, SetsOne DEF Inv
    <3>2. severed' \subseteq {r \in RunIds : server'[r] \in Executing}
      BY <1>1, <2>3, <2>5 DEF Inv, TypeOK, Executing, Awaited
    <3> QED BY <1>1, <2>4, <2>5, <3>1, <3>2 DEF Inv, TypeOK, Returns
  <2>7. RunFits(q) /\ q \in open
    BY <1>2, <2>3 DEF Inv, RunFits, Connection
  <2>8. TimedOutTruly(u)' /\ StatusFits(u)' /\ ServerFits(j, u)'
    BY <1>2, <2>2, <2>3, <2>4, <2>5 DEF Shape, TimedOutTruly, StatusFits, ServerFits, Busy
  <2>9. Truthful(q)'
    BY <2>4 DEF Truthful
  <2>10. Shape(u)
    BY <1>2, <2>2 DEF Shape
  <2>11. Fitting(j, u)
    BY <1>1, <1>2, <2>2, <2>3, <2>4, <2>5, <2>7, <2>8, <2>9, <2>10
       DEF Fitting, Busy, Executing, Awaited, RunFits, Connection
  <2>12. SameRuns(j)
    BY <1>1, <2>3, <2>4, <2>5 DEF SameRuns
  <2> QED BY <1>1, <1>6, <2>1, <2>6, <2>11, <2>12, ManageStep
<1> QED BY <1>3, <1>4, <1>5, <1>6 DEF ManageConnecting

(* What the invariant says of the run a task has.                            *)
LEMMA HasRun ==
    ASSUME Inv, NEW j \in hash, NEW q \in RunIds, q = task[j].runId
    PROVE  /\ q \in open <=> task[j].conn = q
           /\ q \in broken => q \in open
           /\ Truthful(q)
           /\ server[q] \in Executing =>
                 /\ q \notin severed => task[j].state = "RUNNING"
                 /\ q \in broken => q \in severed
           /\ Alive /\ details[q] \in {"starting", "running"} => task[j].state \in Busy
           /\ TimedOutTruly(task[j]) /\ StatusFits(task[j]) /\ ServerFits(j, task[j])
<1>1. /\ j \in Jobs /\ hash \subseteq Jobs /\ q # 0 /\ q \in Nat /\ RunFits(q)
      /\ TimedOutTruly(task[j]) /\ StatusFits(task[j]) /\ ServerFits(j, task[j])
      /\ q >= epoch
  BY DEF Inv, TypeOK, RunIds, TaskFits, LatestRun
<1>2. ASSUME NEW i \in hash, task[i].runId = q \/ task[i].conn = q PROVE i = j
  <2>1. task[i] \in CronTask /\ Shape(task[i])
    BY <1>1 DEF Inv, TypeOK, TaskFits
  <2>2. task[i].conn \in {0, task[i].runId}
    BY <2>1 DEF Shape, CronTask, CronTaskState
  <2> QED BY <1>1, <1>2, <2>2, RunsApart
<1> QED BY <1>1, <1>2 DEF RunFits, Connection, Held, Owned

LEMMA ResetTyped ==
    ASSUME NEW t \in CronTask
    PROVE  ResetCronTaskAfterRun(t) \in CronTask
<1> DEFINE a == [t EXCEPT !.runId = 0, !.state = "WAITING", !.polling_status = "none",
                          !.startDeadline = "unset", !.conn = 0]
           b == [a EXCEPT !.errorMessage = FALSE, !.isSocketReady = FALSE,
                          !.runDeadline = "unset", !.cancelRequested = FALSE,
                          !.timedOut = FALSE]
<1>1. 0 \in 0..MaxRuns
  BY NedoCronAssumption
<1>2. a \in CronTask
  BY <1>1 DEF CronTask, CronTaskState, Deadline, Polling
<1>3. b \in CronTask
  <2> HIDE DEF a
  <2> QED BY <1>2 DEF CronTask, Deadline
<1>4. b = ResetCronTaskAfterRun(t)
  BY DEF ResetCronTaskAfterRun, CronTask
<1> QED BY <1>3, <1>4

LEMMA WaitingStep ==
    ASSUME Inv, NEW j \in Jobs, ManageWaiting(j)
    PROVE  Inv'
<1> DEFINE t == task[j]
<1>1. /\ Manages(j, "WAITING") /\ Returns(j) /\ Sets(j, AfterWaiting(t))
      /\ hash' = IF t.isActive THEN hash ELSE hash \ {j}
      /\ UNCHANGED <<sessionVars, historyVars, cacheVars, blocked, serverVars, ghostVars>>
  BY DEF ManageWaiting
<1>2. /\ t.state = "WAITING" /\ Shape(t) /\ TaskFits(j) /\ j \in hash
      /\ blocked = {} /\ t \in CronTask /\ t.isActive
  BY <1>1, Managing
<1>3. PICK u \in CronTask : u = AfterWaiting(t)
  <2>1. ASSUME t.pendingRunCount # 0
        PROVE  [t EXCEPT !.pendingRunCount = @ - 1, !.state = "START"] \in CronTask
    <3>1. PICK n \in Nat : n = t.pendingRunCount - 1
      <4>1. t.pendingRunCount \in Nat
        BY <1>2 DEF CronTask
      <4> QED BY <2>1, <4>1
    <3>2. [t EXCEPT !.pendingRunCount = n, !.state = "START"] \in CronTask
      BY <1>2 DEF CronTask, CronTaskState
    <3> QED BY <3>1, <3>2
  <2> QED BY <1>2, <2>1 DEF AfterWaiting
<1>4. /\ u.state \in {"WAITING", "START"} /\ u.runId = 0 /\ u.conn = 0
      /\ u.timedOut = t.timedOut /\ u.isActive = t.isActive
      /\ u.runDeadline = t.runDeadline
  BY <1>2, <1>3 DEF CronTask, AfterWaiting, Shape
<1>5. TypeOK'
  <2>1. task' \in [Jobs -> CronTask]
    BY <1>1, <1>3, SetsOne DEF Inv
  <2> QED BY <1>1, <1>2, <2>1 DEF Inv, TypeOK, Returns
<1>6. Fitting(j, u)
  BY <1>1, <1>2, <1>4 DEF Fitting, Shape, RunIds
<1> QED BY <1>1, <1>2, <1>3, <1>5, <1>6, ManageStep DEF SameRuns

LEMMA DoneStep ==
    ASSUME Inv, NEW j \in Jobs, ManageDone(j)
    PROVE  Inv'
<1> DEFINE t == task[j]
           v == [t EXCEPT !.pendingRunCount =
                     IF @ > MaxPendingTasks THEN MaxPendingTasks ELSE @]
<1>1. /\ Manages(j, "DONE") /\ Returns(j) /\ Sets(j, ResetCronTaskAfterRun(v))
      /\ UNCHANGED <<sessionVars, historyVars, cacheVars, hash, blocked, serverVars, ghostVars>>
  BY DEF ManageDone
<1>2. /\ t.state = "DONE" /\ Shape(t) /\ TaskFits(j) /\ j \in hash /\ pc = "manage"
      /\ blocked = {} /\ t \in CronTask
  BY <1>1, Managing
<1>3. v \in CronTask /\ v.isActive = t.isActive
  BY <1>2, NedoCronAssumption DEF CronTask
<1>4. PICK u \in CronTask : u = ResetCronTaskAfterRun(v)
  BY <1>3, ResetTyped
<1>5. /\ u.state = "WAITING" /\ u.runId = 0 /\ u.conn = 0
      /\ ~u.timedOut /\ u.isActive = t.isActive /\ u.runDeadline = "unset"
  <2> HIDE DEF v
  <2> QED BY <1>3, <1>4 DEF CronTask, ResetCronTaskAfterRun
<1>6. TypeOK'
  <2>1. task' \in [Jobs -> CronTask]
    BY <1>1, <1>4, SetsOne DEF Inv
  <2> QED BY <1>1, <1>2, <2>1 DEF Inv, TypeOK, Returns
<1>7. ASSUME NEW q \in RunIds, q = t.runId
      PROVE  /\ q \notin open /\ (q \in broken => q \in open) /\ Truthful(q)'
             /\ (server[q] \in Executing => q \in severed)
             /\ details[q] \notin {"starting", "running"}
  BY <1>1, <1>2, <1>7, HasRun DEF Shape, RunIds, Busy, Alive, Truthful
<1>8. Fitting(j, u)
  BY <1>1, <1>2, <1>5, <1>7 DEF Fitting, Shape, RunIds
<1> QED BY <1>1, <1>2, <1>4, <1>6, <1>8, ManageStep DEF SameRuns

(* The fields of a task whose command has been sent.                         *)
LEMMA SentFields ==
    ASSUME NEW t \in CronTask
    PROVE  \E u \in CronTask :
              /\ u = Sent(t)
              /\ u.state = "RUNNING" /\ u.polling_status = "reading"
              /\ u.runDeadline = "armed" /\ ~u.cancelRequested /\ ~u.timedOut
              /\ u.runId = t.runId /\ u.conn = t.conn /\ u.isActive = t.isActive
<1>1. Sent(t) \in CronTask
  BY DEF Sent, CronTask, CronTaskState, Deadline, Polling
<1>2. /\ Sent(t).state = "RUNNING" /\ Sent(t).polling_status = "reading"
      /\ Sent(t).runDeadline = "armed" /\ ~Sent(t).cancelRequested /\ ~Sent(t).timedOut
      /\ Sent(t).runId = t.runId /\ Sent(t).conn = t.conn /\ Sent(t).isActive = t.isActive
  BY DEF Sent, CronTask
<1> QED BY <1>1, <1>2

LEMMA SendingStep ==
    ASSUME Inv, NEW j \in Jobs, ManageSending(j)
    PROVE  Inv'
<1> DEFINE t == task[j]
<1>1. /\ Manages(j, "SENDING") /\ Returns(j)
      /\ UNCHANGED <<sessionVars, historyVars, cacheVars, hash, blocked, open, broken,
                     ghostVars>>
  BY DEF ManageSending
<1>2. /\ t.state = "SENDING" /\ Shape(t) /\ TaskFits(j) /\ j \in hash
      /\ blocked = {} /\ t \in CronTask
  BY <1>1, Managing
<1>3. CASE Sets(j, Failed(t)) /\ UNCHANGED server
  BY <1>1, <1>3, FailingStep
<1>4. CASE Sets(j, t) /\ UNCHANGED server
  <2>1. t.polling_status \in {"reading", "writing"}
    BY <1>2 DEF Shape
  <2> QED BY <1>1, <1>2, <1>4, <2>1, WaitingOnStep
<1>5. ASSUME Sets(j, Sent(t)),
             \/ t.conn \in broken /\ UNCHANGED server
             \/ /\ t.conn \notin broken
                /\ \E s \in {"running", "unsent"} : server' = [server EXCEPT ![t.conn] = s]
      PROVE  Inv'
  <2>1. PICK u \in CronTask :
              /\ u = Sent(t)
              /\ u.state = "RUNNING" /\ u.polling_status = "reading"
              /\ u.runDeadline = "armed" /\ ~u.cancelRequested /\ ~u.timedOut
              /\ u.runId = t.runId /\ u.conn = t.conn /\ u.isActive = t.isActive
    BY <1>2, SentFields
  <2>2. PICK q \in RunIds : q = t.runId /\ q = t.conn /\ q # 0
    BY <1>2 DEF Shape, CronTask, RunIds
  <2>3. /\ q \in open /\ Truthful(q) /\ server[q] = "idle"
        /\ details[q] \in {"starting", "running", "deleted"}
        /\ details[q] # "starting" \/ "nopid" \in Events
    BY <1>2, <2>2, HasRun DEF StatusFits, ServerFits, Busy
  <2>4. /\ server \in [RunIds -> ServerState] /\ server' \in [RunIds -> ServerState]
        /\ server'[q] \in {"idle", "running", "unsent"}
        /\ q \in broken => server'[q] = "idle"
        /\ \A r \in RunIds \ {q} : server'[r] = server[r]
    BY <1>5, <2>2, <2>3 DEF Inv, TypeOK, ServerState, Executing, Awaited
  <2>5. TypeOK'
    <3>1. task' \in [Jobs -> CronTask]
      BY <1>5, <2>1, SetsOne DEF Inv
    <3>2. severed' \subseteq {r \in RunIds : server'[r] \in Executing}
      BY <1>1, <2>3, <2>4 DEF Inv, TypeOK, Executing, Awaited
    <3> QED BY <1>1, <2>4, <3>1, <3>2 DEF Inv, TypeOK, Returns
  <2>6. TimedOutTruly(u)' /\ StatusFits(u)' /\ ServerFits(j, u)'
    BY <1>1, <2>1, <2>2, <2>3 DEF TimedOutTruly, StatusFits, ServerFits, Busy, Returns
  <2>7. Truthful(q)'
    BY <1>1, <2>3 DEF Truthful
  <2>8. Shape(u)
    BY <2>1, <2>2 DEF Shape
  <2>9. Fitting(j, u)
    BY <1>1, <1>2, <2>1, <2>2, <2>3, <2>4, <2>6, <2>7, <2>8 DEF Fitting, Busy, Executing, Awaited
  <2>10. SameRuns(j)
    BY <1>1, <2>2, <2>4 DEF SameRuns
  <2> QED BY <1>1, <1>5, <2>1, <2>5, <2>9, <2>10, ManageStep
<1> QED BY <1>3, <1>4, <1>5 DEF ManageSending

(* CRON_TASK_RUNNING given up: what the task has still to do is ERROR.       *)
LEMMA GivesUpStep ==
    ASSUME Inv, NEW j \in Jobs, ManageRunningGivesUp(j)
    PROVE  Inv'
<1> DEFINE t == task[j]
<1>1. /\ Manages(j, "RUNNING") /\ Returns(j)
      /\ UNCHANGED <<sessionVars, historyVars, cacheVars, hash, blocked, serverVars,
                     ranOut, epoch>>
  BY DEF ManageRunningGivesUp
<1>2. /\ t.state = "RUNNING" /\ Shape(t) /\ TaskFits(j) /\ j \in hash
      /\ blocked = {} /\ t \in CronTask /\ t.isActive
  BY <1>1, Managing
<1>3. CASE t.conn \in broken /\ Sets(j, Failed(t)) /\ UNCHANGED severed
  BY <1>1, <1>3, FailingStep
<1>4. ASSUME Overdue(t), Severs({t.conn}),
             \/ Sets(j, [Failed(t) EXCEPT !.timedOut = TRUE])
             \/ Sets(j, [Failed(t) EXCEPT !.timedOut = TRUE, !.cancelRequested = TRUE,
                                          !.runDeadline = "unset"])
      PROVE  Inv'
  <2>1. /\ Failed(t) \in CronTask /\ Failed(t).state = "ERROR" /\ Failed(t).errorMessage
        /\ Failed(t).runId = t.runId /\ Failed(t).conn = t.conn
        /\ Failed(t).isActive = t.isActive /\ Failed(t).runDeadline = t.runDeadline
    BY <1>2, FailedFields
  <2>2. PICK u \in CronTask :
              /\ Sets(j, u) /\ u.state = "ERROR" /\ u.errorMessage /\ u.timedOut
              /\ u.runId = t.runId /\ u.conn = t.conn /\ u.isActive = t.isActive
    <3> PICK f \in CronTask : f = Failed(t)
      BY <2>1
    <3>1. CASE Sets(j, [f EXCEPT !.timedOut = TRUE])
      <4>1. [f EXCEPT !.timedOut = TRUE] \in CronTask
        BY DEF CronTask
      <4> QED BY <2>1, <3>1, <4>1 DEF CronTask
    <3>2. CASE Sets(j, [f EXCEPT !.timedOut = TRUE, !.cancelRequested = TRUE,
                                 !.runDeadline = "unset"])
      <4>1. [f EXCEPT !.timedOut = TRUE, !.cancelRequested = TRUE,
                      !.runDeadline = "unset"] \in CronTask
        BY DEF CronTask, Deadline
      <4> QED BY <2>1, <3>2, <4>1 DEF CronTask
    <3> QED BY <1>4, <3>1, <3>2
  <2>3. PICK q \in RunIds : q = t.runId /\ q = t.conn /\ q # 0
    BY <1>2 DEF Shape, CronTask, RunIds
  <2>4. /\ q \in open /\ (q \in broken => q \in open) /\ Truthful(q) /\ q \in ranOut
        /\ details[q] \in {"starting", "running", "deleted"}
        /\ details[q] # "starting" \/ "nopid" \in Events
    BY <1>2, <1>4, <2>3, HasRun DEF StatusFits, TimedOutTruly, Busy, Overdue
  <2>5. /\ server[q] \in Executing => q \in severed'
        /\ severed' \subseteq {r \in RunIds : server[r] \in Executing}
        /\ \A r \in RunIds \ {q} : r \in severed' <=> r \in severed
    BY <1>4, <2>3 DEF Severs, Inv, TypeOK
  <2>6. TypeOK'
    <3>1. task' \in [Jobs -> CronTask]
      BY <2>2, SetsOne DEF Inv
    <3> QED BY <1>1, <2>5, <3>1 DEF Inv, TypeOK, Returns
  <2>7. TimedOutTruly(u)' /\ StatusFits(u)' /\ ServerFits(j, u)'
    BY <1>1, <2>2, <2>3, <2>4 DEF TimedOutTruly, StatusFits, ServerFits, Busy
  <2>8. Truthful(q)'
    BY <1>1, <2>4 DEF Truthful
  <2>9. Shape(u)
    BY <2>2, <2>3 DEF Shape
  <2>10. Fitting(j, u)
    BY <1>1, <1>2, <2>2, <2>3, <2>4, <2>5, <2>7, <2>8, <2>9 DEF Fitting, Busy
  <2>11. SameRuns(j)
    BY <1>1, <2>3, <2>5 DEF SameRuns
  <2> QED BY <1>1, <2>2, <2>6, <2>10, <2>11, ManageStep
<1> QED BY <1>2, <1>3, <1>4 DEF ManageRunningGivesUp

(* PQfinish closes one connection and disturbs no command.                   *)
LEMMA Finished ==
    ASSUME TypeOK, NEW r \in 0..MaxRuns, PQfinish(r)
    PROVE  /\ open' \subseteq open /\ broken' \subseteq broken
           /\ server' \in [RunIds -> ServerState]
           /\ r \notin open' /\ r \notin broken'
           /\ \A p \in RunIds : /\ server[p] \in Executing <=> server'[p] \in Executing
                                /\ server[p] \in {"ok", "cancelled"} => server'[p] = server[p]
           /\ \A p \in RunIds \ {r} : /\ server'[p] = server[p]
                                      /\ p \in open' <=> p \in open
                                      /\ p \in broken' <=> p \in broken
BY DEF TypeOK, PQfinish, Hangup, ServerState, Executing, Awaited

(* UPDATE of one row.                                                        *)
LEMMA StatusSet ==
    ASSUME TypeOK, NEW q \in RunIds, NEW s \in RunStatus, SetStatus(q, s)
    PROVE  /\ details' \in [RunIds -> RunStatus]
           /\ details'[q] = IF details[q] = "deleted" THEN "deleted" ELSE s
           /\ \A r \in RunIds \ {q} : details'[r] = details[r]
BY DEF TypeOK, SetStatus

(* The fields of a task after the loop over PQgetResult.                     *)
LEMMA ResultFields ==
    ASSUME NEW t \in CronTask
    PROVE  \E u \in CronTask :
              /\ u = AfterResults(t)
              /\ u.conn = 0 /\ u.runId = t.runId /\ u.isActive = t.isActive
              /\ u.runDeadline = t.runDeadline
              /\ \/ /\ u.state = "DONE" /\ u.timedOut = t.timedOut
                    /\ server[t.conn] = "ok"
                 \/ /\ u.state = "ERROR" /\ u.errorMessage
                    /\ u.timedOut => t.timedOut \/ server[t.conn] = "cancelled"
<1> DEFINE result == IF t.conn \in broken THEN "error" ELSE server[t.conn]
<1>1. 0 \in 0..MaxRuns
  BY NedoCronAssumption
<1>2. CASE result = "ok"
  <2> DEFINE u == [t EXCEPT !.conn = 0, !.polling_status = "none",
                            !.isSocketReady = FALSE, !.state = "DONE",
                            !.errorMessage = @, !.timedOut = @]
  <2>1. u = AfterResults(t)
    BY <1>2 DEF AfterResults
  <2>2. u \in CronTask
    BY <1>1 DEF CronTask, CronTaskState, Polling
  <2>3. /\ u.conn = 0 /\ u.runId = t.runId /\ u.isActive = t.isActive
        /\ u.runDeadline = t.runDeadline /\ u.state = "DONE" /\ u.timedOut = t.timedOut
    BY DEF CronTask
  <2>4. server[t.conn] = "ok"
    BY <1>2
  <2> HIDE DEF u
  <2> QED BY <2>1, <2>2, <2>3, <2>4
<1>3. CASE result # "ok"
  <2>1. PICK late \in BOOLEAN : /\ late = (IF result = "cancelled" THEN TRUE ELSE t.timedOut)
                                /\ late => t.timedOut \/ server[t.conn] = "cancelled"
    BY DEF CronTask
  <2> DEFINE u == [t EXCEPT !.conn = 0, !.polling_status = "none",
                            !.isSocketReady = FALSE, !.state = "ERROR",
                            !.errorMessage = TRUE, !.timedOut = late]
  <2>2. u = AfterResults(t)
    BY <1>3, <2>1 DEF AfterResults
  <2>3. u \in CronTask
    BY <1>1 DEF CronTask, CronTaskState, Polling
  <2>4. /\ u.conn = 0 /\ u.runId = t.runId /\ u.isActive = t.isActive
        /\ u.runDeadline = t.runDeadline /\ u.state = "ERROR" /\ u.timedOut = late
        /\ u.errorMessage
    BY DEF CronTask
  <2> HIDE DEF u
  <2> QED BY <2>1, <2>2, <2>3, <2>4
<1> QED BY <1>2, <1>3

(* The reading is over, on a connection that has results or is lost; a        *)
(* command that is still at a COPY counts as severed from here on.            *)
LEMMA FinishStep ==
    ASSUME Inv, NEW j \in hash, NEW t \in CronTask, task[j].state = "RUNNING",
           t.runId = task[j].runId, t.conn = task[j].conn, t.isActive = task[j].isActive,
           TimedOutTruly(t), pc = "manage", j \in todo,
           server[t.conn] \notin Awaited \/ t.conn \in broken,
           FinishesReading(j, t),
           UNCHANGED <<sessionVars, jobOf, runUser, nextRun, cacheVars, hash, ranOut, epoch>>
    PROVE  Inv'
<1>1. /\ task[j] \in CronTask /\ Shape(task[j]) /\ j \in Jobs
  BY DEF Inv, TypeOK, TaskFits
<1>2. PICK q \in RunIds : q = t.runId /\ q = t.conn /\ q # 0 /\ q \in 0..MaxRuns
  BY <1>1 DEF Shape, CronTask, RunIds
<1>3. /\ Truthful(q) /\ details[q] \in {"starting", "running", "deleted"}
      /\ details[q] # "starting" \/ "nopid" \in Events
      /\ server[q] \in Awaited => q \in severed
  BY <1>2, HasRun DEF StatusFits, Busy, Executing, Awaited
<1>4. PICK u \in CronTask :
            /\ u = AfterResults(t)
            /\ u.conn = 0 /\ u.runId = t.runId /\ u.isActive = t.isActive
            /\ u.runDeadline = t.runDeadline
            /\ \/ /\ u.state = "DONE" /\ u.timedOut = t.timedOut
                  /\ server[t.conn] = "ok"
               \/ /\ u.state = "ERROR" /\ u.errorMessage
                  /\ u.timedOut => t.timedOut \/ server[t.conn] = "cancelled"
  BY ResultFields
<1>5. /\ Sets(j, u) /\ PQfinish(q) /\ LetsGoOfCopy(q) /\ blocked' = {} /\ Returns(j)
      /\ IF u.state = "DONE" THEN SetStatus(q, "succeeded") ELSE UNCHANGED details
  BY <1>2, <1>4 DEF FinishesReading
<1>6. /\ details' \in [RunIds -> RunStatus]
      /\ u.state = "DONE" => details'[q] \in {"succeeded", "deleted"}
      /\ u.state # "DONE" => details'[q] = details[q]
      /\ \A r \in RunIds \ {q} : details'[r] = details[r]
  <2>1. "succeeded" \in RunStatus /\ TypeOK /\ details \in [RunIds -> RunStatus]
    BY DEF RunStatus, Final, Inv, TypeOK
  <2> QED BY <1>5, <2>1, StatusSet
<1>7. /\ open' \subseteq open /\ broken' \subseteq broken
      /\ server' \in [RunIds -> ServerState]
      /\ q \notin open' /\ q \notin broken'
      /\ \A p \in RunIds : /\ server[p] \in Executing <=> server'[p] \in Executing
                           /\ server[p] \in {"ok", "cancelled"} => server'[p] = server[p]
      /\ \A p \in RunIds \ {q} : /\ server'[p] = server[p]
                                 /\ p \in open' <=> p \in open
                                 /\ p \in broken' <=> p \in broken
  BY <1>2, <1>5, Finished DEF Inv
<1>8. /\ severed' \subseteq {r \in RunIds : server[r] \in Executing}
      /\ server[q] \in Executing => q \in severed'
      /\ \A r \in RunIds \ {q} : r \in severed' <=> r \in severed
  <2>1. severed' = severed \cup {r \in {q} : server[r] = "copying"}
    BY <1>5 DEF LetsGoOfCopy
  <2>2. severed \subseteq {r \in RunIds : server[r] \in Executing}
    BY DEF Inv, TypeOK
  <2> QED BY <1>3, <2>1, <2>2 DEF Executing, Awaited
<1>9. TypeOK'
  <2>1. task' \in [Jobs -> CronTask]
    BY <1>1, <1>4, <1>5, SetsOne DEF Inv
  <2>2. /\ severed' \subseteq {r \in RunIds : server'[r] \in Executing}
        /\ open' \subseteq RunIds /\ broken' \subseteq RunIds
    BY <1>7, <1>8 DEF Inv, TypeOK
  <2> QED BY <1>5, <1>6, <1>7, <2>1, <2>2 DEF Inv, TypeOK, Returns
<1>10. LoopOK' /\ Alive /\ Alive' /\ j \notin todo' /\ todo' \subseteq todo
  BY <1>1, <1>5, Returning DEF Inv, LoopOK
<1>11. Aside(j)
  BY <1>2, <1>5, <1>6, <1>7, <1>8, <1>10 DEF Aside
<1>12. Truthful(q)'
  BY <1>2, <1>3, <1>4, <1>6, <1>7 DEF Truthful
<1>13. TimedOutTruly(u)' /\ StatusFits(u)' /\ ServerFits(j, u)'
  <2>1. TimedOutTruly(u)'
    <3>1. server[q] = "cancelled" => server'[q] = "cancelled"
      BY <1>7
    <3>2. u.timedOut => t.timedOut \/ server[q] = "cancelled"
      BY <1>2, <1>4
    <3> QED BY <1>2, <1>4, <3>1, <3>2 DEF TimedOutTruly
  <2>2. StatusFits(u)'
    BY <1>2, <1>3, <1>4, <1>6 DEF StatusFits, Busy
  <2>3. ServerFits(j, u)'
    BY <1>4 DEF ServerFits
  <2> QED BY <2>1, <2>2, <2>3
<1>14. Shape(u)
  BY <1>2, <1>4 DEF Shape
<1>15. Fitting(j, u)
  <2>1. details'[q] \in {"starting", "running"} => u.state \in Busy /\ u.runId = q
    BY <1>2, <1>4, <1>6 DEF Busy
  <2>2. server'[q] \in Executing => q \in severed'
    BY <1>7, <1>8
  <2>3. /\ j \in hash' /\ u.isActive = task[j].isActive
        /\ {u.runId, u.conn} \subseteq {0, task[j].runId}
    BY <1>4
  <2> QED
    BY <1>2, <1>4, <1>5, <1>7, <1>12, <1>13, <1>14, <2>1, <2>2, <2>3 DEF Fitting
<1> QED BY <1>4, <1>5, <1>9, <1>10, <1>11, <1>15, TaskStep

LEMMA ReadResultsStep ==
    ASSUME Inv, NEW j \in Jobs, ReadResults(j)
    PROVE  Inv'
<1>1. /\ j \in hash /\ j \in todo /\ task[j] \in CronTask
      /\ task[j].state = "RUNNING" /\ TaskFits(j)
  BY DEF ReadResults, Inv, TypeOK, LoopOK, TaskFits, Placed
<1>2. TimedOutTruly(task[j])
  BY <1>1 DEF TaskFits, Shape
<1>3. PICK t \in CronTask : t = task[j]
  BY <1>1
<1> QED BY <1>1, <1>2, <1>3, FinishStep DEF ReadResults

(* The task of a running command, before and after a cancel request.         *)
LEMMA CancelFields ==
    ASSUME Inv, NEW j \in hash, task[j].state = "RUNNING"
    PROVE  \E u \in CronTask :
              /\ u = CancelledIfOverdue(task[j]) /\ u.state = "RUNNING"
              /\ u.runId = task[j].runId /\ u.conn = task[j].conn
              /\ u.isActive = task[j].isActive /\ u.isSocketReady = task[j].isSocketReady
              /\ Shape(u) /\ TimedOutTruly(u)
<1> DEFINE t == task[j]
<1>1. t \in CronTask /\ Shape(t) /\ TimedOutTruly(t)
  BY DEF Inv, TypeOK, TaskFits, Shape
<1>2. CASE ~Overdue(t)
  BY <1>1, <1>2 DEF CancelledIfOverdue
<1>3. CASE Overdue(t)
  <2> DEFINE u == [t EXCEPT !.cancelRequested = TRUE, !.timedOut = TRUE,
                            !.runDeadline = "unset", !.polling_status = "reading"]
  <2>1. u \in CronTask /\ u = CancelledIfOverdue(t)
    BY <1>1, <1>3 DEF CronTask, Deadline, Polling, CancelledIfOverdue
  <2>2. /\ u.runId = t.runId /\ u.conn = t.conn /\ u.isActive = t.isActive
        /\ u.isSocketReady = t.isSocketReady /\ u.state = "RUNNING"
        /\ u.cancelRequested /\ u.runDeadline = "unset" /\ u.polling_status = "reading"
    BY <1>1 DEF CronTask
  <2>3. t.runId \in ranOut
    BY <1>1, <1>3 DEF TimedOutTruly, Overdue
  <2> HIDE DEF u
  <2>4. Shape(u) /\ TimedOutTruly(u)
    BY <1>1, <2>2, <2>3 DEF Shape, TimedOutTruly
  <2> QED BY <2>1, <2>2, <2>4
<1> QED BY <1>2, <1>3

LEMMA RunningStep ==
    ASSUME Inv, NEW j \in Jobs, ManageRunning(j)
    PROVE  Inv'
<1>1. /\ Manages(j, "RUNNING")
      /\ UNCHANGED <<sessionVars, jobOf, runUser, nextRun, cacheVars, hash, ranOut, epoch>>
  BY DEF ManageRunning
<1>2. /\ task[j].state = "RUNNING" /\ Shape(task[j]) /\ TaskFits(j) /\ j \in hash
      /\ blocked = {} /\ task[j] \in CronTask /\ task[j].isActive
      /\ j \in todo /\ pc = "manage"
  BY <1>1, Managing
<1>3. PICK t \in CronTask :
            /\ t = CancelledIfOverdue(task[j]) /\ t.state = "RUNNING"
            /\ t.runId = task[j].runId /\ t.conn = task[j].conn
            /\ t.isActive = task[j].isActive /\ t.isSocketReady = task[j].isSocketReady
            /\ Shape(t) /\ TimedOutTruly(t)
  BY <1>2, CancelFields
<1>4. PICK q \in RunIds : q = t.runId /\ q = t.conn /\ q # 0
  BY <1>2, <1>3 DEF Shape, CronTask, RunIds
<1>5. /\ q \in open /\ (q \in broken => q \in open) /\ Truthful(q)
      /\ server[q] \in Executing /\ q \in broken => q \in severed
      /\ details[q] \in {"starting", "running", "deleted"} /\ ServerFits(j, task[j])
      /\ details[q] # "starting" \/ "nopid" \in Events
  BY <1>2, <1>3, <1>4, HasRun DEF StatusFits, Busy
<1>6. ASSUME NEW u \in CronTask, Sets(j, u),
             UNCHANGED <<details, serverVars, severed>>,
             \/ blocked' = blocked /\ Returns(j)
             \/ /\ blocked' = {j} /\ UNCHANGED <<pc, todo>>
                /\ u.state = "RUNNING" /\ Arrived(q),
             u.runId = q, u.conn = q, u.isActive = t.isActive, u.timedOut = t.timedOut,
             u.runDeadline = t.runDeadline, Shape(u),
             u.state = "RUNNING" \/ (u.state = "ERROR" /\ q \in broken)
      PROVE  Inv'
  <2>1. TypeOK'
    <3>1. task' \in [Jobs -> CronTask]
      BY <1>6, SetsOne DEF Inv
    <3> QED BY <1>1, <1>6, <3>1 DEF Inv, TypeOK, Returns
  <2>2. LoopOK' /\ Alive /\ Alive' /\ todo' \subseteq todo /\ blocked' \subseteq {j}
        /\ (j \in todo' => Arrived(q))
    <3>1. CASE blocked' = blocked /\ Returns(j)
      BY <1>1, <1>2, <3>1, Returning DEF Inv, LoopOK
    <3>2. CASE blocked' = {j} /\ UNCHANGED <<pc, todo>> /\ Arrived(q)
      BY <1>1, <1>2, <3>2 DEF Inv, LoopOK, Alive
    <3> QED BY <1>6, <3>1, <3>2
  <2>3. Aside(j)
    BY <1>1, <1>6, <2>2 DEF Aside
  <2>4. TimedOutTruly(u)' /\ StatusFits(u)' /\ ServerFits(j, u)'
    <3>1. TimedOutTruly(u)'
      BY <1>1, <1>3, <1>4, <1>6 DEF TimedOutTruly
    <3>2. StatusFits(u)'
      BY <1>5, <1>6 DEF StatusFits, Busy
    <3>3. ServerFits(j, u)'
      BY <1>6, <2>2 DEF ServerFits, Arrived
    <3> QED BY <3>1, <3>2, <3>3
  <2>5. Truthful(q)'
    BY <1>1, <1>5, <1>6 DEF Truthful
  <2>6. Fitting(j, u)
    BY <1>1, <1>2, <1>3, <1>4, <1>5, <1>6, <2>4, <2>5 DEF Fitting, Busy
  <2> QED BY <1>2, <1>6, <2>1, <2>2, <2>3, <2>6, TaskStep
<1>7. CASE /\ Sets(j, t) /\ Returns(j)
           /\ UNCHANGED <<details, blocked, serverVars, severed>>
  BY <1>3, <1>4, <1>6, <1>7
<1>8. CASE /\ t.conn \in broken /\ Sets(j, Failed(t)) /\ Returns(j)
           /\ UNCHANGED <<details, blocked, serverVars, severed>>
  <2>1. PICK u \in CronTask :
              /\ u = Failed(t) /\ u.state = "ERROR" /\ u.errorMessage
              /\ u.runId = t.runId /\ u.conn = t.conn /\ u.isActive = t.isActive
              /\ u.timedOut = t.timedOut /\ u.runDeadline = t.runDeadline
    BY FailedFields
  <2>2. Shape(u)
    BY <1>4, <2>1 DEF Shape
  <2> QED BY <1>4, <1>6, <1>8, <2>1, <2>2
<1>9. CASE /\ server[t.conn] = "streaming" /\ Sets(j, t) /\ blocked' = {j}
           /\ UNCHANGED <<details, pc, todo, serverVars, severed>>
  <2>1. Arrived(q)
    BY <1>4, <1>9 DEF Arrived
  <2> QED BY <1>3, <1>4, <1>6, <1>9, <2>1
<1>10. CASE /\ t.isSocketReady /\ t.conn \notin broken /\ server[t.conn] # "streaming"
            /\ FinishesReading(j, t)
  <2>1. server[q] \notin Awaited
    BY <1>2, <1>3, <1>4, <1>5, <1>10 DEF ServerFits, Arrived, Executing, Awaited
  <2> QED BY <1>1, <1>2, <1>3, <1>4, <1>10, <2>1, FinishStep
<1> QED BY <1>3, <1>7, <1>8, <1>9, <1>10 DEF ManageRunning

LEMMA InitTask ==
    /\ InitCronTask \in CronTask /\ Shape(InitCronTask)
    /\ InitCronTask.state = "WAITING" /\ InitCronTask.runId = 0 /\ InitCronTask.conn = 0
    /\ InitCronTask.isActive
BY NedoCronAssumption DEF InitCronTask, CronTask, CronTaskState, Deadline, Polling, Shape

(* CRON_TASK_ERROR closes the row and the connection.                        *)
LEMMA ErrorStep ==
    ASSUME Inv, NEW j \in Jobs, ManageError(j)
    PROVE  Inv'
<1> DEFINE t == task[j]
<1> DEFINE e == Entered(j)
<1>0. /\ Manages(j, "ERROR") /\ t \in CronTask /\ (t.isActive <=> j \in cached)
      /\ e.conn = t.conn /\ e.runId = t.runId /\ e.timedOut = t.timedOut
      /\ e.isActive = t.isActive /\ (t.isActive => e = t)
  BY Managing, EnteredFields DEF ManageError
<1>1. /\ Manages(j, "ERROR") /\ Returns(j) /\ PQfinish(t.conn)
      /\ IF ~t.isActive THEN Severs({t.conn}) ELSE UNCHANGED severed
      /\ hash' = IF ~t.isActive THEN hash \ {j} ELSE hash
      /\ UNCHANGED <<sessionVars, jobOf, runUser, nextRun, cacheVars, blocked, ranOut, epoch>>
  <2> HIDE DEF e
  <2> QED BY <1>0 DEF ManageError, e
<1>2. /\ Shape(t) /\ TaskFits(j) /\ j \in hash /\ blocked = {} /\ t \in CronTask
      /\ t.state # "DONE" /\ (t.isActive => t.state = "ERROR") /\ pc = "manage"
  BY <1>1, Managing
<1>3. t.conn \in {0, t.runId} /\ t.conn \in 0..MaxRuns /\ (t.state # "ERROR" => t.conn = t.runId)
  BY <1>2 DEF Shape, CronTask, CronTaskState
<1>4. PICK u \in CronTask :
            /\ Sets(j, u) /\ u.conn = 0 /\ u.runId = 0 /\ Shape(u)
            /\ t.isActive => u.isActive = t.isActive
            /\ ~t.isActive => u = InitCronTask
  <2>1. CASE ~t.isActive
    BY <1>0, <2>1, InitTask DEF ManageError
  <2>2. CASE t.isActive
    <3> DEFINE a == [t EXCEPT !.runId = 0, !.conn = 0, !.state = "DONE",
                       !.polling_status = "none"]
               b == [a EXCEPT !.startDeadline = "unset",
                       !.runDeadline = "unset", !.cancelRequested = FALSE,
                       !.isSocketReady = FALSE]
    <3>1. 0 \in 0..MaxRuns
      BY NedoCronAssumption
    <3>2. a \in CronTask /\ a.runId = 0 /\ a.conn = 0 /\ a.state = "DONE"
          /\ a.isActive = t.isActive
      BY <1>2, <3>1 DEF CronTask, CronTaskState, Polling
    <3>3. Sets(j, b)
      BY <1>0, <2>2 DEF ManageError, CronTask
    <3> HIDE DEF a
    <3>4. b \in CronTask
      BY <3>2 DEF CronTask, Deadline
    <3>5. b.runId = 0 /\ b.conn = 0 /\ b.state = "DONE" /\ b.isActive = t.isActive
      BY <3>2 DEF CronTask
    <3> HIDE DEF b
    <3>6. Shape(b)
      BY <3>5 DEF Shape
    <3> QED BY <2>2, <3>3, <3>4, <3>5, <3>6
  <2> QED BY <2>1, <2>2
<1>5. /\ details' \in [RunIds -> RunStatus]
      /\ \A r \in RunIds : r # t.runId => details'[r] = details[r]
      /\ \A r \in RunIds : r = t.runId =>
            details'[r] \in {"deleted", IF t.timedOut THEN "timeout" ELSE "failed"}
  <2>1. TypeOK /\ details \in [RunIds -> RunStatus] /\ t.runId \in 0..MaxRuns
    BY <1>2 DEF Inv, TypeOK, CronTask
  <2>2. CASE t.runId = 0
    BY <1>0, <2>1, <2>2 DEF ManageError, RunIds
  <2>3. CASE t.runId # 0
    <3>1. PICK q \in RunIds : q = t.runId
      BY <2>1, <2>3 DEF RunIds
    <3>2. PICK s \in {"timeout", "failed"} : s = IF t.timedOut THEN "timeout" ELSE "failed"
      OBVIOUS
    <3>3. SetStatus(q, s) /\ s \in RunStatus
      BY <1>0, <2>3, <3>1, <3>2 DEF ManageError, RunStatus, Final
    <3>4. /\ details' \in [RunIds -> RunStatus]
          /\ details'[q] = IF details[q] = "deleted" THEN "deleted" ELSE s
          /\ \A r \in RunIds \ {q} : details'[r] = details[r]
      BY <2>1, <3>3, StatusSet
    <3> QED BY <3>1, <3>2, <3>4
  <2> QED BY <2>2, <2>3
<1>6. /\ open' \subseteq open /\ broken' \subseteq broken
      /\ server' \in [RunIds -> ServerState]
      /\ t.conn \notin open' /\ t.conn \notin broken'
      /\ \A p \in RunIds : /\ server[p] \in Executing <=> server'[p] \in Executing
                           /\ server[p] \in {"ok", "cancelled"} => server'[p] = server[p]
      /\ \A p \in RunIds \ {t.conn} : /\ server'[p] = server[p]
                                      /\ p \in open' <=> p \in open
                                      /\ p \in broken' <=> p \in broken
  BY <1>1, <1>3, Finished DEF Inv
<1>7. /\ severed' \subseteq {r \in RunIds : server[r] \in Executing}
      /\ severed \subseteq severed'
      /\ \A r \in RunIds \ {t.conn} : r \in severed' => r \in severed
      /\ ~t.isActive /\ t.conn # 0 /\ server[t.conn] \in Executing => t.conn \in severed'
  <2>1. severed \subseteq {r \in RunIds : server[r] \in Executing}
    BY DEF Inv, TypeOK
  <2>2. t.conn # 0 => t.conn \in RunIds
    BY <1>3 DEF RunIds
  <2>3. CASE ~t.isActive
    BY <1>1, <2>1, <2>2, <2>3 DEF Severs
  <2>4. CASE t.isActive
    BY <1>1, <2>1, <2>4
  <2> QED BY <2>3, <2>4
<1>8. TypeOK'
  <2>1. task' \in [Jobs -> CronTask]
    BY <1>4, SetsOne DEF Inv
  <2>2. /\ severed' \subseteq {r \in RunIds : server'[r] \in Executing}
        /\ open' \subseteq RunIds /\ broken' \subseteq RunIds /\ hash' \subseteq Jobs
    BY <1>1, <1>6, <1>7 DEF Inv, TypeOK
  <2> QED BY <1>1, <1>5, <1>6, <2>1, <2>2 DEF Inv, TypeOK, Returns
<1>9. SameRuns(j)
  BY <1>3, <1>5, <1>6, <1>7 DEF SameRuns, RunIds
<1>10. ASSUME NEW q \in RunIds, q = t.runId
       PROVE  /\ q \notin open' /\ q \notin broken' /\ Truthful(q)'
              /\ server'[q] \in Executing => q \in severed'
              /\ details'[q] \notin {"starting", "running"}
  <2>1. /\ q \in open <=> t.conn = q
        /\ q \in broken => q \in open
        /\ server[q] \in Executing => (q \notin severed => t.state = "RUNNING")
        /\ TimedOutTruly(t)
        /\ q # 0
    BY <1>2, <1>10, HasRun DEF RunIds
  <2>2. q \notin open' /\ q \notin broken'
    BY <1>6, <2>1
  <2>3. Truthful(q)'
    BY <1>1, <1>5, <1>6, <1>10, <2>1 DEF Truthful, TimedOutTruly
  <2>4. server'[q] \in Executing => q \in severed'
    BY <1>2, <1>3, <1>6, <1>7, <1>10, <2>1
  <2> QED BY <1>5, <1>10, <2>2, <2>3, <2>4
<1>11. Fitting(j, u)
  BY <1>1, <1>2, <1>4, <1>10 DEF Fitting, RunIds
<1> QED BY <1>1, <1>4, <1>8, <1>9, <1>11, ManageStep

(* CRON_TASK_START begins a run: its row, its job and its connection are new. *)
LEMMA StartStep ==
    ASSUME Inv, NEW j \in Jobs, ManageStart(j)
    PROVE  Inv'
<1> DEFINE t == task[j]
<1>1. /\ Manages(j, "START") /\ Returns(j) /\ nextRun <= MaxRuns /\ nextRun' = nextRun + 1
      /\ details' = [details EXCEPT ![nextRun] = "starting"]
      /\ jobOf' = [jobOf EXCEPT ![nextRun] = {j}]
      /\ runUser' = [runUser EXCEPT ![nextRun] = {cachedOwner[j]}]
      /\ UNCHANGED <<sessionVars, cacheVars, hash, blocked, server, broken, ghostVars>>
  BY DEF ManageStart
<1>2. /\ t.state = "START" /\ Shape(t) /\ TaskFits(j) /\ j \in hash /\ j \in todo
      /\ blocked = {} /\ t \in CronTask /\ pc = "manage" /\ (t.isActive <=> j \in cached)
  BY <1>1, Managing
<1>3. PICK q \in RunIds : q = nextRun /\ q \in 0..MaxRuns /\ q # 0
  BY <1>1, NedoCronAssumption DEF Inv, TypeOK, RunIds
<1>4. PICK u \in CronTask :
            /\ Sets(j, u) /\ u.runId = q /\ u.isActive = t.isActive
            /\ u.timedOut = t.timedOut /\ u.runDeadline = t.runDeadline
            /\ open' = IF u.conn = q THEN open \cup {q} ELSE open
            /\ \/ u.state = "ERROR" /\ u.errorMessage /\ u.conn \in {0, q}
               \/ /\ u.state = "CONNECTING" /\ u.conn = q
                  /\ u.startDeadline = "armed" /\ u.polling_status = "writing"
  <2>1. PICK v \in CronTask : /\ v = [t EXCEPT !.runId = q] /\ v.runId = q /\ v.conn = t.conn
                              /\ v.isActive = t.isActive /\ v.timedOut = t.timedOut
                              /\ v.runDeadline = t.runDeadline
    <3>1. [t EXCEPT !.runId = q] \in CronTask
      BY <1>2, <1>3 DEF CronTask
    <3> QED BY <1>2, <3>1 DEF CronTask
  <2>2. PICK w \in CronTask : /\ w = [v EXCEPT !.conn = q] /\ w.runId = q /\ w.conn = q
                              /\ w.isActive = t.isActive /\ w.timedOut = t.timedOut
                              /\ w.runDeadline = t.runDeadline
    <3>1. [v EXCEPT !.conn = q] \in CronTask
      BY <1>3 DEF CronTask
    <3> QED BY <2>1, <3>1 DEF CronTask
  <2>3. CASE Sets(j, Failed(v)) /\ UNCHANGED open
    <3>1. v.conn = 0
      BY <1>2, <2>1 DEF Shape
    <3>2. PICK f \in CronTask :
              /\ f = Failed(v) /\ f.state = "ERROR" /\ f.errorMessage
              /\ f.runId = v.runId /\ f.conn = v.conn /\ f.isActive = v.isActive
              /\ f.timedOut = v.timedOut /\ f.runDeadline = v.runDeadline
      BY FailedFields
    <3> QED BY <1>3, <2>1, <2>3, <3>1, <3>2
  <2>4. CASE Sets(j, Failed(w)) /\ open' = open \cup {q}
    <3>1. PICK f \in CronTask :
              /\ f = Failed(w) /\ f.state = "ERROR" /\ f.errorMessage
              /\ f.runId = w.runId /\ f.conn = w.conn /\ f.isActive = w.isActive
              /\ f.timedOut = w.timedOut /\ f.runDeadline = w.runDeadline
      BY FailedFields
    <3> QED BY <2>2, <2>4, <3>1
  <2>5. CASE /\ Sets(j, [v EXCEPT !.conn = q, !.startDeadline = "armed",
                                  !.polling_status = "writing", !.state = "CONNECTING"])
             /\ open' = open \cup {q}
    <3> DEFINE x == [v EXCEPT !.conn = q, !.startDeadline = "armed",
                              !.polling_status = "writing", !.state = "CONNECTING"]
    <3>1. x \in CronTask
      BY <1>3 DEF CronTask, CronTaskState, Deadline, Polling
    <3>2. /\ x.runId = q /\ x.conn = q /\ x.isActive = t.isActive /\ x.state = "CONNECTING"
          /\ x.timedOut = t.timedOut /\ x.runDeadline = t.runDeadline
          /\ x.startDeadline = "armed" /\ x.polling_status = "writing"
      BY <2>1 DEF CronTask
    <3> HIDE DEF x
    <3>3. Sets(j, x) /\ open' = open \cup {q}
      BY <2>5 DEF x
    <3> QED BY <3>1, <3>2, <3>3
  <2> QED BY <1>3, <2>1, <2>2, <2>3, <2>4, <2>5 DEF ManageStart
<1>5. /\ details[q] = "none" /\ jobOf[q] = {} /\ server[q] = "none" /\ RunFits(q)
      /\ nextRun \in Int /\ epoch \in Int /\ epoch <= nextRun
  BY <1>3 DEF Inv, TypeOK, LoopOK, RunFits, Unbegun, RunIds
<1>6. ASSUME NEW i \in Jobs PROVE task[i].runId # q /\ task[i].conn # q
  <2>1. task[i] \in CronTask /\ Shape(task[i]) /\ TaskFits(i)
    BY DEF Inv, TypeOK, TaskFits
  <2>2. task[i].conn \in {0, task[i].runId}
    BY <2>1 DEF Shape, CronTask, CronTaskState
  <2>3. task[i].runId # 0 => task[i].runId \in epoch..(nextRun - 1)
    BY <2>1 DEF TaskFits, LatestRun
  <2> QED BY <1>3, <1>5, <2>2, <2>3
<1>7. q \notin open /\ q \notin broken
  BY <1>5, <1>6 DEF RunFits, Connection, Inv, TypeOK
<1>8. /\ task' \in [Jobs -> CronTask] /\ task'[j] = u
      /\ \A i \in Jobs \ {j} : task'[i] = task[i]
  BY <1>4, SetsOne DEF Inv
<1>9. /\ details' \in [RunIds -> RunStatus] /\ details'[q] = "starting"
      /\ jobOf' \in [RunIds -> SUBSET Jobs] /\ jobOf'[q] = {j}
      /\ runUser' \in [RunIds -> SUBSET Users]
      /\ \A r \in RunIds \ {q} : details'[r] = details[r] /\ jobOf'[r] = jobOf[r]
  BY <1>1, <1>3 DEF Inv, TypeOK, RunStatus
<1>10. TypeOK'
  <2>1. open' \subseteq RunIds /\ nextRun' \in 1..(MaxRuns + 1)
    BY <1>1, <1>3, <1>4, NedoCronAssumption DEF Inv, TypeOK
  <2> QED BY <1>1, <1>8, <1>9, <2>1 DEF Inv, TypeOK, Returns
<1>11. LoopOK' /\ Alive /\ Alive' /\ j \notin todo' /\ todo' \subseteq todo
  BY <1>1, <1>2, Returning
<1>12. Elsewhere(j, q)
  <2>1. t.runId = 0 /\ t.conn = 0 /\ u.conn \in {0, q}
    BY <1>2, <1>4 DEF Shape
  <2> QED BY <1>1, <1>3, <1>4, <1>5, <1>6, <1>8, <1>9, <1>11, <2>1 DEF Elsewhere
<1>13. TaskFits(j)'
  <2>1. Shape(u)
    BY <1>2, <1>3, <1>4 DEF Shape
  <2>2. Placed(j, u)'
    BY <1>1, <1>2, <1>4 DEF Placed
  <2>3. LatestRun(j, q)'
    <3>1. \A r \in RunIds : r > q => jobOf'[r] # {j}
      <4>1. \A r \in RunIds : r > q => jobOf[r] = {}
        BY <1>3 DEF Inv, RunFits, Unbegun, RunIds
      <4> QED BY <1>3, <1>9, <4>1 DEF RunIds
    <3>2. q \in epoch'..(nextRun' - 1)
      BY <1>1, <1>3, <1>5
    <3> QED BY <1>9, <3>1, <3>2 DEF LatestRun
  <2>4. TimedOutTruly(u)' /\ StatusFits(u)' /\ ServerFits(j, u)'
    BY <1>1, <1>2, <1>4, <1>5, <1>9
       DEF TimedOutTruly, StatusFits, ServerFits, Shape, Busy
  <2> QED BY <1>4, <1>8, <2>1, <2>2, <2>3, <2>4 DEF TaskFits
<1>14. RunFits(q)'
  <2>1. Unbegun(q)'
    BY <1>1, <1>3, <1>5 DEF Unbegun
  <2>2. Connection(q)'
    BY <1>1, <1>2, <1>3, <1>4, <1>6, <1>7, <1>8, <1>10 DEF Connection, TypeOK
  <2>3. Held(q)' /\ Truthful(q)'
    BY <1>1, <1>5, <1>9 DEF Held, Truthful, Executing, Awaited
  <2>4. Owned(q)'
    BY <1>1, <1>2, <1>4, <1>8 DEF Owned, Busy
  <2> QED BY <2>1, <2>2, <2>3, <2>4 DEF RunFits
<1> QED BY <1>3, <1>10, <1>11, <1>12, <1>13, <1>14, OneTaskStep


-----------------------------------------------------------------------------
(* The rest of the loop.                                                     *)

(* Two tasks that differ at most in isActive and pendingRunCount.            *)
Alike(u, t) ==
    /\ u.state = t.state /\ u.runId = t.runId /\ u.conn = t.conn
    /\ u.errorMessage = t.errorMessage /\ u.isSocketReady = t.isSocketReady
    /\ u.timedOut = t.timedOut /\ u.cancelRequested = t.cancelRequested
    /\ u.startDeadline = t.startDeadline /\ u.runDeadline = t.runDeadline
    /\ u.polling_status = t.polling_status

(* ReloadCronJobs and StartPendingTasks leave every run where it is.         *)
LEMMA ReloadFields ==
    ASSUME NEW t \in CronTask, NEW active \in BOOLEAN
    PROVE  /\ [t EXCEPT !.isActive = active] \in CronTask
           /\ [t EXCEPT !.isActive = active].isActive = active
           /\ Alike([t EXCEPT !.isActive = active], t)
BY DEF CronTask, Alike

LEMMA DueFields ==
    ASSUME NEW t \in CronTask
    PROVE  /\ [t EXCEPT !.pendingRunCount = @ + 1] \in CronTask
           /\ [t EXCEPT !.pendingRunCount = @ + 1].isActive = t.isActive
           /\ Alike([t EXCEPT !.pendingRunCount = @ + 1], t)
<1>1. PICK n \in Nat : n = t.pendingRunCount + 1
  BY DEF CronTask
<1>2. /\ [t EXCEPT !.pendingRunCount = n] \in CronTask
      /\ [t EXCEPT !.pendingRunCount = n].isActive = t.isActive
      /\ Alike([t EXCEPT !.pendingRunCount = n], t)
  BY DEF CronTask, Alike
<1> QED BY <1>1, <1>2

LEMMA LoopTopTasks ==
    ASSUME Inv, NEW reload \in BOOLEAN, LoopTop(reload), NEW j \in Jobs
    PROVE  /\ task'[j] \in CronTask /\ Alike(task'[j], task[j])
           /\ j \in hash' => (task'[j].isActive <=> j \in cached')
           /\ j \notin hash' => task'[j] = InitCronTask
<1> DEFINE rows  == IF reload THEN jobs ELSE cached
           loaded == IF reload THEN Reloaded(j, rows) ELSE task[j]
<1>1. /\ task[j] \in CronTask
      /\ j \in hash => (task[j].isActive <=> j \in cached)
      /\ j \notin hash => task[j] = InitCronTask /\ j \notin cached
  BY DEF Inv, TypeOK, LoopOK, TaskFits, Placed
<1>2. /\ hash' = (IF reload THEN hash \cup jobs ELSE hash) /\ cached' = rows
      /\ \/ task'[j] = loaded
         \/ j \in rows /\ task'[j] = [loaded EXCEPT !.pendingRunCount = @ + 1]
  BY DEF LoopTop
<1>3. /\ loaded \in CronTask /\ Alike(loaded, task[j])
      /\ j \in hash' => (loaded.isActive <=> j \in rows)
      /\ j \notin hash' => loaded = InitCronTask /\ j \notin rows
  <2>1. CASE ~reload
    BY <1>1, <1>2, <2>1 DEF Alike
  <2>2. CASE reload /\ j \in rows
    <3>1. loaded = [task[j] EXCEPT !.isActive = TRUE] /\ j \in hash'
      BY <1>1, <1>2, <2>2 DEF Reloaded
    <3> QED BY <1>1, <2>2, <3>1, ReloadFields
  <2>3. CASE reload /\ j \notin rows /\ j \in hash
    <3>1. loaded = [task[j] EXCEPT !.isActive = FALSE] /\ j \in hash'
      BY <1>1, <1>2, <2>3 DEF Reloaded
    <3> QED BY <1>1, <2>3, <3>1, ReloadFields
  <2>4. CASE reload /\ j \notin rows /\ j \notin hash
    BY <1>1, <1>2, <2>4 DEF Reloaded, Alike
  <2> QED BY <2>1, <2>2, <2>3, <2>4
<1>4. CASE task'[j] = loaded
  BY <1>2, <1>3, <1>4
<1>5. CASE j \in rows /\ task'[j] = [loaded EXCEPT !.pendingRunCount = @ + 1]
  <2> HIDE DEF loaded
  <2>1. task'[j] \in CronTask /\ task'[j].isActive = loaded.isActive /\ Alike(task'[j], loaded)
    BY <1>3, <1>5, DueFields
  <2> QED BY <1>2, <1>3, <1>5, <2>1 DEF Alike
<1> QED BY <1>2, <1>4, <1>5

LEMMA LoopTopStep ==
    ASSUME Inv, NEW reload \in BOOLEAN, LoopTop(reload)
    PROVE  Inv'
<1>1. /\ pc = "top" /\ pc' = "wait" /\ hash \subseteq hash' /\ cached' \subseteq hash'
      /\ hash' \subseteq Jobs /\ cached' \subseteq Jobs /\ cachedOwner' \in [Jobs -> Users]
      /\ UNCHANGED <<sessionVars, historyVars, todo, blocked, serverVars, ghostVars>>
      /\ todo = {} /\ blocked = {}
  BY DEF LoopTop, Inv, TypeOK, LoopOK
<1>2. \A j \in Jobs : /\ task'[j] \in CronTask /\ Alike(task'[j], task[j])
                      /\ j \in hash' => (task'[j].isActive <=> j \in cached')
                      /\ j \notin hash' => task'[j] = InitCronTask
  BY LoopTopTasks
<1>3. task' \in [Jobs -> CronTask]
  <2>1. task' = [j \in Jobs |-> task'[j]]
    BY DEF LoopTop
  <2> QED BY <1>2, <2>1
<1>4. TypeOK'
  BY <1>1, <1>3 DEF Inv, TypeOK
<1>5. LoopOK'
  BY <1>1 DEF Inv, LoopOK, Alive
<1>6. ASSUME NEW j \in Jobs PROVE TaskFits(j)'
  <2>1. task[j] \in CronTask /\ TaskFits(j) /\ Alike(task'[j], task[j])
    BY <1>2 DEF Inv, TypeOK
  <2>2. Shape(task[j])'
    BY <2>1 DEF TaskFits, Shape, Alike
  <2>3. Placed(j, task[j])'
    BY <1>1, <1>2 DEF Placed
  <2>4. ASSUME task'[j].runId # 0
        PROVE  (/\ LatestRun(j, task[j].runId) /\ TimedOutTruly(task[j])
                /\ StatusFits(task[j]) /\ ServerFits(j, task[j]))'
    <3>1. /\ LatestRun(j, task[j].runId) /\ TimedOutTruly(task[j])
          /\ StatusFits(task[j]) /\ ServerFits(j, task[j])
      BY <2>1, <2>4 DEF TaskFits, Alike
    <3>2. LatestRun(j, task[j].runId)'
      BY <1>1, <2>1, <3>1 DEF LatestRun, Alike
    <3>3. TimedOutTruly(task[j])' /\ StatusFits(task[j])'
      BY <1>1, <2>1, <3>1 DEF TimedOutTruly, StatusFits, Alike
    <3>4. ServerFits(j, task[j])'
      BY <1>1, <2>1, <3>1 DEF ServerFits, Arrived, Alike
    <3> QED BY <3>2, <3>3, <3>4
  <2> QED BY <2>2, <2>3, <2>4 DEF TaskFits
<1>7. ASSUME NEW r \in RunIds PROVE RunFits(r)'
  <2>1. RunFits(r) /\ r # 0 /\ hash \subseteq Jobs
    BY DEF Inv, TypeOK, RunIds
  <2>2. Unbegun(r)' /\ Truthful(r)'
    BY <1>1, <2>1 DEF RunFits, Unbegun, Truthful
  <2>3. \A j \in hash' : task'[j].conn = r => j \in hash
    BY <1>1, <1>2, <2>1, InitTask DEF Inv, TaskFits, Placed, Alike
  <2>4. Connection(r)'
    BY <1>1, <1>2, <2>1, <2>3 DEF RunFits, Connection, Alike
  <2>5. Held(r)' /\ Owned(r)'
    BY <1>1, <1>2, <2>1 DEF RunFits, Held, Owned, Alike, Alive
  <2> QED BY <2>2, <2>4, <2>5 DEF RunFits
<1> QED BY <1>4, <1>5, <1>6, <1>7 DEF Inv

(* WaitForEvent fails a task only if its connection is lost, and finds a     *)
(* running one ready only if something has arrived.                          *)
Woken(u, t) ==
    /\ u.runId = t.runId /\ u.conn = t.conn /\ u.isActive = t.isActive
    /\ u.timedOut = t.timedOut /\ u.cancelRequested = t.cancelRequested
    /\ u.startDeadline = t.startDeadline /\ u.runDeadline = t.runDeadline
    /\ \/ /\ u.state = "ERROR" /\ u.errorMessage
          /\ t.state \in {"CONNECTING", "SENDING", "RUNNING"} /\ t.conn \in broken
       \/ /\ u.state = t.state /\ u.errorMessage = t.errorMessage
          /\ u.polling_status = t.polling_status
          /\ u.isSocketReady /\ t.state = "RUNNING" => Arrived(t.conn)

LEMMA WaitTasks ==
    ASSUME Inv, NEW zeroTimeout \in BOOLEAN, WaitForEvent(zeroTimeout), NEW j \in Jobs
    PROVE  /\ task'[j] \in CronTask
           /\ j \in hash => Woken(task'[j], task[j])
           /\ j \notin hash => task'[j] = task[j]
<1> DEFINE t == task[j]
<1>1. t \in CronTask /\ Shape(t)
  BY DEF Inv, TypeOK, TaskFits
<1>2. PICK ready \in SUBSET Watched, dead \in SUBSET Watched :
          /\ zeroTimeout => ready = {} /\ dead = {}
          /\ ~zeroTimeout =>
                /\ \A i \in ready : MaybeReady(i) /\ i \notin dead
                /\ \A i \in dead : task[i].conn \in broken \cup {0}
          /\ task'[j] =
                IF j \notin hash THEN t
                ELSE IF j \in dead
                THEN [t EXCEPT !.state = "ERROR", !.errorMessage = TRUE,
                               !.isSocketReady = FALSE,
                               !.polling_status = IF t.conn = 0 THEN "none" ELSE "reading"]
                ELSE [t EXCEPT !.isSocketReady = (j \in ready)]
  BY DEF WaitForEvent
<1>3. CASE j \notin hash
  BY <1>1, <1>2, <1>3
<1>4. CASE j \in hash /\ j \in dead
  <2>1. t.state \in {"CONNECTING", "SENDING", "RUNNING"} /\ t.conn \in broken
    BY <1>1, <1>2, <1>4 DEF Watched, TaskNeedsSocketWait, Shape
  <2>2. PICK p \in {"none", "reading"} : p = IF t.conn = 0 THEN "none" ELSE "reading"
    OBVIOUS
  <2> DEFINE u == [t EXCEPT !.state = "ERROR", !.errorMessage = TRUE,
                            !.isSocketReady = FALSE, !.polling_status = p]
  <2>3. task'[j] = u
    BY <1>2, <1>4, <2>2
  <2>4. u \in CronTask
    BY <1>1 DEF CronTask, CronTaskState, Polling
  <2>5. /\ u.runId = t.runId /\ u.conn = t.conn /\ u.isActive = t.isActive
        /\ u.timedOut = t.timedOut /\ u.cancelRequested = t.cancelRequested
        /\ u.startDeadline = t.startDeadline /\ u.runDeadline = t.runDeadline
        /\ u.state = "ERROR" /\ u.errorMessage
    BY <1>1 DEF CronTask
  <2> HIDE DEF u
  <2> QED BY <1>4, <2>1, <2>3, <2>4, <2>5 DEF Woken
<1>5. CASE j \in hash /\ j \notin dead
  <2>1. PICK b \in BOOLEAN : b = (j \in ready)
    <3>1. (j \in ready) \in BOOLEAN
      OBVIOUS
    <3> QED BY <3>1, Zenon
  <2>2. b /\ t.state = "RUNNING" => Arrived(t.conn)
    BY <1>2, <2>1 DEF MaybeReady, SurelyReady
  <2> DEFINE u == [t EXCEPT !.isSocketReady = b]
  <2>3. task'[j] = u
    BY <1>2, <1>5, <2>1
  <2>4. u \in CronTask
    BY <1>1 DEF CronTask
  <2>5. /\ u.runId = t.runId /\ u.conn = t.conn /\ u.isActive = t.isActive
        /\ u.timedOut = t.timedOut /\ u.cancelRequested = t.cancelRequested
        /\ u.startDeadline = t.startDeadline /\ u.runDeadline = t.runDeadline
        /\ u.state = t.state /\ u.errorMessage = t.errorMessage
        /\ u.polling_status = t.polling_status /\ u.isSocketReady = b
    BY <1>1 DEF CronTask
  <2> HIDE DEF u
  <2> QED BY <1>5, <2>2, <2>3, <2>4, <2>5 DEF Woken
<1> QED BY <1>3, <1>4, <1>5

LEMMA WaitStep ==
    ASSUME Inv, NEW zeroTimeout \in BOOLEAN, WaitForEvent(zeroTimeout)
    PROVE  Inv'
<1>1. /\ pc = "wait" /\ pc' \in {"top", "manage"} /\ (pc' = "top" => hash = {}) /\ todo' = hash
      /\ UNCHANGED <<sessionVars, historyVars, cacheVars, hash, blocked, serverVars,
                     ghostVars>>
      /\ blocked = {} /\ hash \subseteq Jobs
  BY DEF WaitForEvent, Inv, TypeOK, LoopOK
<1>2. \A j \in Jobs : /\ task'[j] \in CronTask
                      /\ j \in hash => Woken(task'[j], task[j])
                      /\ j \notin hash => task'[j] = task[j]
  BY WaitTasks
<1>3. TypeOK'
  <2>1. task' = [j \in Jobs |-> task'[j]]
    BY DEF WaitForEvent
  <2>2. task' \in [Jobs -> CronTask]
    BY <1>2, <2>1
  <2> QED BY <1>1, <2>2 DEF Inv, TypeOK
<1>4. LoopOK'
  BY <1>1 DEF Inv, LoopOK, Alive
<1>5. ASSUME NEW j \in Jobs PROVE TaskFits(j)'
  <2>1. task[j] \in CronTask /\ TaskFits(j) /\ Shape(task[j]) /\ Placed(j, task[j])
    BY DEF Inv, TypeOK, TaskFits
  <2>2. CASE j \notin hash
    BY <1>1, <1>2, <2>1, <2>2, InitTask DEF TaskFits, Placed
  <2>3. CASE j \in hash
    <3>1. Woken(task'[j], task[j])
      BY <1>2, <2>3
    <3>2. Shape(task[j])'
      BY <2>1, <3>1 DEF Shape, Woken
    <3>3. Placed(j, task[j])'
      BY <1>1, <2>1, <2>3, <3>1 DEF Placed, Woken
    <3>4. ASSUME task'[j].runId # 0
          PROVE  (/\ LatestRun(j, task[j].runId) /\ TimedOutTruly(task[j])
                  /\ StatusFits(task[j]) /\ ServerFits(j, task[j]))'
      <4>1. /\ LatestRun(j, task[j].runId) /\ TimedOutTruly(task[j])
            /\ StatusFits(task[j]) /\ ServerFits(j, task[j])
        BY <2>1, <3>1, <3>4 DEF TaskFits, Woken
      <4>2. LatestRun(j, task[j].runId)'
        BY <1>1, <3>1, <4>1 DEF LatestRun, Woken
      <4>3. TimedOutTruly(task[j])'
        BY <1>1, <3>1, <4>1 DEF TimedOutTruly, Woken
      <4>4. StatusFits(task[j])'
        BY <1>1, <2>1, <3>1, <4>1 DEF StatusFits, Woken, Busy, Shape
      <4>5. ServerFits(j, task[j])'
        BY <1>1, <2>1, <3>1, <4>1 DEF ServerFits, Arrived, Woken, Shape
      <4> QED BY <4>2, <4>3, <4>4, <4>5
    <3> QED BY <3>2, <3>3, <3>4 DEF TaskFits
  <2> QED BY <2>2, <2>3
<1>6. ASSUME NEW r \in RunIds PROVE RunFits(r)'
  <2>1. RunFits(r) /\ r # 0
    BY DEF Inv, RunIds
  <2>2. Unbegun(r)' /\ Truthful(r)'
    BY <1>1, <2>1 DEF RunFits, Unbegun, Truthful
  <2>3. Connection(r)'
    BY <1>1, <1>2, <2>1 DEF RunFits, Connection, Woken
  <2>4. Held(r)'
    <3> SUFFICES ASSUME server'[r] \in Executing, r \notin severed'
                 PROVE  /\ \E j \in hash' : task'[j].state = "RUNNING" /\ task'[j].runId = r
                        /\ r \notin broken'
      BY <1>1, <2>1 DEF RunFits, Held
    <3>1. r \notin broken
      BY <1>1, <2>1 DEF RunFits, Held
    <3>2. PICK j \in hash : task[j].state = "RUNNING" /\ task[j].runId = r
      BY <1>1, <2>1 DEF RunFits, Held
    <3>3. task[j].conn = r
      BY <1>1, <3>2 DEF Inv, TaskFits, Shape
    <3> QED BY <1>1, <1>2, <3>1, <3>2, <3>3 DEF Woken
  <2>5. Owned(r)'
    BY <1>1, <1>2, <2>1 DEF RunFits, Owned, Woken, Busy, Alive
  <2> QED BY <2>2, <2>3, <2>4, <2>5 DEF RunFits
<1> QED BY <1>3, <1>4, <1>5, <1>6 DEF Inv


-----------------------------------------------------------------------------
(* The end of the process, and its return.                                   *)

(* A worker that holds nothing has nothing to get wrong.                     *)
LEMMA NoTasks ==
    ASSUME TypeOK', hash' = {}, cached' = {}, todo' = {}, blocked' = {},
           \A j \in Jobs : task'[j] = InitCronTask, pc' # "manage", epoch' <= nextRun'
    PROVE  LoopOK' /\ \A j \in Jobs : TaskFits(j)'
<1>1. LoopOK'
  BY DEF LoopOK
<1>2. ASSUME NEW j \in Jobs PROVE TaskFits(j)'
  BY InitTask DEF TaskFits, Placed
<1> QED BY <1>1, <1>2

LEMMA ProcessEndsStep ==
    ASSUME Inv, NEW how \in {"down", "exited"}, ProcessEnds(how)
    PROVE  Inv'
<1>1. /\ server' \in [RunIds -> ServerState]
      /\ \A r \in RunIds : /\ server'[r] \in Executing <=> server[r] \in Executing
                           /\ server[r] \notin {"idle", "unsent"} => server'[r] = server[r]
  BY DEF ProcessEnds, Hangup, Executing, Awaited, ServerState, Inv, TypeOK
<1>2. /\ severed \subseteq severed' /\ severed' \subseteq {r \in RunIds : server[r] \in Executing}
      /\ \A r \in open : server[r] \in Executing => r \in severed'
  <2>1. /\ severed' = severed \cup {r \in open : r # 0 /\ server[r] \in Executing}
        /\ severed \subseteq {r \in RunIds : server[r] \in Executing}
        /\ open \subseteq RunIds
    BY DEF ProcessEnds, Severs, Inv, TypeOK
  <2>2. 0 \notin RunIds
    BY DEF RunIds
  <2> QED BY <2>1, <2>2
<1>3. TypeOK'
  <2>1. task' \in [Jobs -> CronTask]
    BY InitTask DEF ProcessEnds
  <2>2. severed' \subseteq {r \in RunIds : server'[r] \in Executing}
    BY <1>1, <1>2
  <2> QED BY <1>1, <2>1, <2>2 DEF ProcessEnds, Inv, TypeOK
<1>4. LoopOK' /\ \A j \in Jobs : TaskFits(j)'
  BY <1>3, NoTasks DEF ProcessEnds, Inv, LoopOK
<1>5. ASSUME NEW r \in RunIds PROVE RunFits(r)'
  <2>1. RunFits(r)
    BY DEF Inv
  <2>2. Unbegun(r)'
    BY <1>1, <2>1 DEF ProcessEnds, RunFits, Unbegun
  <2>3. Truthful(r)'
    BY <1>1, <2>1 DEF ProcessEnds, RunFits, Truthful
  <2>4. Connection(r)' /\ Owned(r)'
    BY DEF ProcessEnds, Connection, Owned, Alive
  <2>5. Held(r)'
    <3>1. server'[r] \in Executing => r \in severed'
      <4> SUFFICES ASSUME server[r] \in Executing, r \notin severed
                   PROVE  r \in open
        BY <1>1, <1>2
      <4>1. PICK j \in hash : task[j].state = "RUNNING" /\ task[j].runId = r
        BY <2>1 DEF RunFits, Held
      <4>2. task[j].conn = r
        BY <4>1 DEF Inv, TypeOK, TaskFits, Shape
      <4> QED BY <2>1, <4>2 DEF RunFits, Connection
    <3> QED BY <3>1 DEF Held
  <2> QED BY <2>2, <2>3, <2>4, <2>5 DEF RunFits
<1> QED BY <1>3, <1>4, <1>5 DEF Inv

LEMMA RestartStep ==
    ASSUME Inv, WorkerRestarts \/ ServerRestarts
    PROVE  Inv'
<1>1. /\ pc \in {"down", "exited"} /\ pc' = "top" /\ epoch' = nextRun
      /\ UNCHANGED <<jobs, owner, used, historyVars, taskVars, todo, blocked, open, broken,
                     ranOut>>
      /\ deleting' \in {deleting, {}}
  BY DEF WorkerRestarts, ServerRestarts
<1>2. /\ hash = {} /\ cached = {} /\ todo = {} /\ blocked = {}
      /\ \A j \in Jobs : task[j] = InitCronTask
  BY <1>1 DEF Inv, LoopOK, Alive, TaskFits, Placed
<1>3. /\ server' \in [RunIds -> ServerState]
      /\ severed' \subseteq {r \in RunIds : server'[r] \in Executing}
      /\ \A r \in RunIds : /\ server'[r] = server[r] \/ server[r] \in Executing
                           /\ server'[r] \in Executing =>
                                  server[r] \in Executing /\ severed' = severed
  <2>1. CASE WorkerRestarts
    BY <2>1 DEF WorkerRestarts, Inv, TypeOK
  <2>2. CASE ServerRestarts
    BY <2>2 DEF ServerRestarts, Inv, TypeOK, ServerState, Executing, Awaited
  <2> QED BY <2>1, <2>2
<1>4. TypeOK'
  BY <1>1, <1>3 DEF Inv, TypeOK
<1>5. LoopOK' /\ \A j \in Jobs : TaskFits(j)'
  <2>1. epoch' <= nextRun'
    BY <1>1 DEF Inv, TypeOK
  <2> QED BY <1>1, <1>2, <1>4, <2>1, NoTasks
<1>6. ASSUME NEW r \in RunIds PROVE RunFits(r)'
  <2>1. RunFits(r)
    BY DEF Inv
  <2>2. Unbegun(r)'
    BY <1>1, <1>3, <2>1 DEF RunFits, Unbegun, Executing, Awaited
  <2>3. Truthful(r)'
    BY <1>1, <1>3, <2>1 DEF RunFits, Truthful, Executing, Awaited
  <2>4. Connection(r)'
    BY <1>1, <2>1 DEF RunFits, Connection
  <2>5. Held(r)'
    BY <1>1, <1>2, <1>3, <2>1 DEF RunFits, Held
  <2>6. Owned(r)'
    BY <1>1, <2>1 DEF RunFits, Unbegun, Owned
  <2> QED BY <2>2, <2>3, <2>4, <2>5, <2>6 DEF RunFits
<1> QED BY <1>4, <1>5, <1>6 DEF Inv


-----------------------------------------------------------------------------
(* Sessions, backends, the network and the clock.                            *)

(* What happens outside the worker: rows go away, commands move on, links    *)
(* break and what is lost is counted as such.                                *)
Outside ==
    /\ UNCHANGED <<task, hash, cached, pc, todo, blocked, epoch, jobOf, nextRun, ranOut, open>>
    /\ broken \subseteq broken' /\ broken' \subseteq open
    /\ \A r \in RunIds :
          /\ details'[r] \in {details[r], "deleted"}
          /\ r >= nextRun => details'[r] = details[r]
          /\ \/ server'[r] = server[r]
             \/ /\ server[r] \in Executing
                /\ server'[r] \notin {"none", "idle", "unsent", "running"}
          /\ server'[r] \in Executing =>
                /\ r \notin severed' => r \notin severed
                /\ r \in broken' => r \in severed'

LEMMA OutsideStep ==
    ASSUME Inv, TypeOK', Outside
    PROVE  Inv'
<1>1. LoopOK'
  BY DEF Inv, LoopOK, Alive, Outside
<1>2. ASSUME NEW j \in Jobs PROVE TaskFits(j)'
  <2>1. task'[j] = task[j] /\ task[j] \in CronTask /\ TaskFits(j)
    BY DEF Outside, Inv, TypeOK
  <2>2. Shape(task[j])' /\ Placed(j, task[j])'
    BY <2>1 DEF TaskFits, Placed, Outside
  <2>3. ASSUME task[j].runId # 0
        PROVE  (/\ LatestRun(j, task[j].runId) /\ TimedOutTruly(task[j])
                /\ StatusFits(task[j]) /\ ServerFits(j, task[j]))'
    <3>1. /\ LatestRun(j, task[j].runId) /\ TimedOutTruly(task[j])
          /\ StatusFits(task[j]) /\ ServerFits(j, task[j]) /\ task[j].runId \in RunIds
      BY <2>1, <2>3 DEF TaskFits, CronTask, RunIds
    <3>2. LatestRun(j, task[j].runId)'
      BY <2>1, <3>1 DEF LatestRun, Outside
    <3>3. TimedOutTruly(task[j])'
      BY <2>1, <3>1 DEF TimedOutTruly, Outside, Executing, Awaited
    <3>4. StatusFits(task[j])'
      BY <2>1, <3>1 DEF StatusFits, Outside
    <3>5. ServerFits(j, task[j])'
      BY <2>1, <3>1 DEF ServerFits, Arrived, Outside, Executing, Awaited
    <3> QED BY <3>2, <3>3, <3>4, <3>5
  <2> QED BY <2>1, <2>2, <2>3 DEF TaskFits
<1>3. ASSUME NEW r \in RunIds PROVE RunFits(r)'
  <2>1. RunFits(r)
    BY DEF Inv
  <2>2. Unbegun(r)' /\ Truthful(r)'
    BY <2>1 DEF RunFits, Unbegun, Truthful, Outside, Executing, Awaited
  <2>3. Connection(r)' /\ Owned(r)'
    BY <2>1 DEF RunFits, Connection, Owned, Outside, Alive
  <2>4. Held(r)'
    BY <2>1 DEF RunFits, Held, Outside
  <2> QED BY <2>2, <2>3, <2>4 DEF RunFits
<1> QED BY <1>1, <1>2, <1>3 DEF Inv

(* Broken connections are open, and what executes over one is severed.       *)
LEMMA LostOnes ==
    ASSUME Inv
    PROVE  /\ broken \subseteq open
           /\ \A r \in RunIds : server[r] \in Executing /\ r \in broken => r \in severed
BY DEF Inv, TypeOK, RunFits, Connection, Held

LEMMA SessionStep ==
    ASSUME Inv, NEW j \in Jobs, ScheduleJob(j) \/ UnscheduleJob(j) \/ RollbackUnschedule(j)
    PROVE  Inv'
<1>1. UNCHANGED <<historyVars, taskVars, loopVars, serverVars, ghostVars>>
  BY DEF ScheduleJob, UnscheduleJob, RollbackUnschedule
<1>2. /\ jobs' \subseteq Jobs /\ used' \subseteq Jobs /\ deleting' \subseteq Jobs
      /\ owner' \in [Jobs -> Users]
  BY DEF ScheduleJob, UnscheduleJob, RollbackUnschedule, Inv, TypeOK
<1>3. TypeOK'
  BY <1>1, <1>2 DEF Inv, TypeOK
<1>4. Outside
  BY <1>1, LostOnes DEF Outside
<1> QED BY <1>3, <1>4, OutsideStep

LEMMA StutterStep ==
    ASSUME Inv, UNCHANGED vars
    PROVE  Inv'
<1>1. TypeOK'
  BY DEF vars, Inv, TypeOK
<1>2. Outside
  BY LostOnes DEF vars, Outside
<1> QED BY <1>1, <1>2, OutsideStep

LEMMA CommitStep ==
    ASSUME Inv, NEW j \in Jobs, CommitUnschedule(j)
    PROVE  Inv'
<1>1. /\ UNCHANGED <<owner, used, jobOf, runUser, nextRun, taskVars, loopVars, serverVars,
                     ghostVars>>
      /\ deleting' \subseteq deleting /\ jobs' \subseteq jobs
      /\ details' = [r \in RunIds |-> IF jobOf[r] = {j} THEN "deleted" ELSE details[r]]
  BY DEF CommitUnschedule
<1>2. TypeOK'
  <2>1. details' \in [RunIds -> RunStatus]
    BY <1>1 DEF Inv, TypeOK, RunStatus
  <2> QED BY <1>1, <2>1 DEF Inv, TypeOK
<1>3. \A r \in RunIds : r >= nextRun => details'[r] = details[r]
  BY <1>1 DEF Inv, RunFits, Unbegun
<1>4. Outside
  BY <1>1, <1>3, LostOnes DEF Outside
<1> QED BY <1>2, <1>4, OutsideStep

LEMMA ServerStep ==
    ASSUME Inv, NEW r \in RunIds, ServerStreams(r) \/ ServerCopies(r) \/ ServerFinishes(r)
    PROVE  Inv'
<1>1. /\ UNCHANGED <<sessionVars, historyVars, taskVars, loopVars, open, broken, ranOut, epoch>>
      /\ severed' \in {severed, severed \ {r}} /\ server[r] \in Executing
  BY DEF ServerStreams, ServerCopies, ServerFinishes, Executing, Awaited
<1>2. PICK s \in {"streaming", "copying", "ok", "error", "cancelled", "copied"} :
          /\ server' = [server EXCEPT ![r] = s]
          /\ severed' = IF s \in Executing THEN severed ELSE severed \ {r}
  <2>1. CASE ServerStreams(r)
    BY <2>1 DEF ServerStreams, Executing, Awaited
  <2>2. CASE ServerCopies(r)
    BY <2>2 DEF ServerCopies, Executing
  <2>3. CASE ServerFinishes(r)
    BY <2>3, NedoCronAssumption DEF ServerFinishes, Executing, Awaited
  <2> QED BY <2>1, <2>2, <2>3
<1>3. /\ server \in [RunIds -> ServerState] /\ server'[r] = s
      /\ \A q \in RunIds \ {r} : server'[q] = server[q]
  BY <1>2 DEF Inv, TypeOK
<1>4. TypeOK'
  <2>1. server' \in [RunIds -> ServerState]
    BY <1>2, <1>3 DEF ServerState, Executing, Awaited
  <2>2. severed' \subseteq {q \in RunIds : server'[q] \in Executing}
    BY <1>2, <1>3 DEF Inv, TypeOK, Executing, Awaited
  <2> QED BY <1>1, <2>1, <2>2 DEF Inv, TypeOK
<1>5. Outside
  BY <1>1, <1>2, <1>3, LostOnes DEF Outside, Executing, Awaited
<1> QED BY <1>4, <1>5, OutsideStep

LEMMA LinkStep ==
    ASSUME Inv, NEW r \in RunIds, LinkBreaks(r)
    PROVE  Inv'
<1>1. /\ UNCHANGED <<sessionVars, historyVars, taskVars, loopVars, server, open, ranOut, epoch>>
      /\ broken' = broken \cup {r} /\ r \in open
      /\ severed' = severed \cup {q \in {r} : q # 0 /\ server[q] \in Executing}
  BY DEF LinkBreaks, Severs
<1>2. r # 0
  BY DEF RunIds
<1>3. TypeOK'
  BY <1>1 DEF Inv, TypeOK
<1>4. Outside
  BY <1>1, <1>2, LostOnes DEF Outside
<1> QED BY <1>3, <1>4, OutsideStep

LEMMA DeadlineStep ==
    ASSUME Inv, NEW j \in Jobs, DeadlinePasses(j)
    PROVE  Inv'
<1> DEFINE t == task[j]
<1>1. /\ t.state \in {"CONNECTING", "SENDING", "RUNNING"}
      /\ ranOut' = IF t.runDeadline = "armed" THEN ranOut \cup {t.runId} ELSE ranOut
      /\ UNCHANGED <<sessionVars, historyVars, cacheVars, hash, loopVars, serverVars,
                     epoch, severed>>
  BY DEF DeadlinePasses, TaskNeedsSocketWait
<1>2. /\ t \in CronTask /\ TaskFits(j) /\ Shape(t) /\ Placed(j, t)
  BY DEF Inv, TypeOK, TaskFits
<1>3. j \in hash
  BY <1>1, <1>2, InitTask DEF Placed
<1>4. PICK q \in RunIds : q = t.runId /\ q = t.conn /\ q # 0
  BY <1>1, <1>2 DEF Shape, CronTask, RunIds
<1>5. PICK u \in CronTask :
          /\ Sets(j, u) /\ u.state = t.state /\ u.runId = q /\ u.conn = q
          /\ u.isActive = t.isActive /\ u.isSocketReady = t.isSocketReady
          /\ u.timedOut = t.timedOut /\ u.cancelRequested = t.cancelRequested
          /\ u.polling_status = t.polling_status
          /\ \/ t.startDeadline = "armed" /\ u.startDeadline = "passed"
                /\ u.runDeadline = t.runDeadline
             \/ t.runDeadline = "armed" /\ u.runDeadline = "passed"
                /\ u.startDeadline = t.startDeadline
  <2>1. CASE t.startDeadline = "armed" /\ Sets(j, [t EXCEPT !.startDeadline = "passed"])
    <3> DEFINE u == [t EXCEPT !.startDeadline = "passed"]
    <3>1. u \in CronTask
      BY <1>2 DEF CronTask, Deadline
    <3>2. /\ u.state = t.state /\ u.runId = q /\ u.conn = q
          /\ u.isActive = t.isActive /\ u.isSocketReady = t.isSocketReady
          /\ u.timedOut = t.timedOut /\ u.cancelRequested = t.cancelRequested
          /\ u.polling_status = t.polling_status
          /\ u.startDeadline = "passed" /\ u.runDeadline = t.runDeadline
      BY <1>2, <1>4 DEF CronTask
    <3>3. Sets(j, u)
      BY <2>1
    <3> HIDE DEF u
    <3> QED BY <2>1, <3>1, <3>2, <3>3
  <2>2. CASE t.runDeadline = "armed" /\ Sets(j, [t EXCEPT !.runDeadline = "passed"])
    <3> DEFINE u == [t EXCEPT !.runDeadline = "passed"]
    <3>1. u \in CronTask
      BY <1>2 DEF CronTask, Deadline
    <3>2. /\ u.state = t.state /\ u.runId = q /\ u.conn = q
          /\ u.isActive = t.isActive /\ u.isSocketReady = t.isSocketReady
          /\ u.timedOut = t.timedOut /\ u.cancelRequested = t.cancelRequested
          /\ u.polling_status = t.polling_status
          /\ u.runDeadline = "passed" /\ u.startDeadline = t.startDeadline
      BY <1>2, <1>4 DEF CronTask
    <3>3. Sets(j, u)
      BY <2>2
    <3> HIDE DEF u
    <3> QED BY <2>2, <3>1, <3>2, <3>3
  <2> QED BY <2>1, <2>2 DEF DeadlinePasses
<1>6. TypeOK'
  <2>1. task' \in [Jobs -> CronTask]
    BY <1>5, SetsOne DEF Inv
  <2>2. ranOut' \subseteq RunIds
    BY <1>1, <1>4 DEF Inv, TypeOK
  <2> QED BY <1>1, <2>1, <2>2 DEF Inv, TypeOK
<1>7. LoopOK' /\ Alive /\ Alive'
  BY <1>1, <1>3 DEF Inv, LoopOK, Alive
<1>8. Aside(j)
  BY <1>1, <1>7 DEF Aside
<1>9. /\ q \in open /\ (q \in broken => q \in open) /\ Truthful(q)
      /\ server[q] \in Executing =>
            /\ q \notin severed => t.state = "RUNNING"
            /\ q \in broken => q \in severed
      /\ TimedOutTruly(t) /\ StatusFits(t) /\ ServerFits(j, t)
  BY <1>3, <1>4, HasRun
<1>10. TimedOutTruly(u)' /\ StatusFits(u)' /\ ServerFits(j, u)'
  <2>1. TimedOutTruly(u)'
    BY <1>1, <1>4, <1>5, <1>9 DEF TimedOutTruly
  <2>2. StatusFits(u)'
    BY <1>1, <1>4, <1>5, <1>9 DEF StatusFits, Busy
  <2>3. ServerFits(j, u)'
    BY <1>1, <1>4, <1>5, <1>9 DEF ServerFits, Arrived
  <2> QED BY <2>1, <2>2, <2>3
<1>11. Truthful(q)'
  BY <1>1, <1>9 DEF Truthful
<1>12. Shape(u)
  BY <1>1, <1>2, <1>4, <1>5 DEF Shape
<1>13. Fitting(j, u)
  <2>1. j \in blocked' => u.state = "RUNNING" /\ u.isActive
    BY <1>1, <1>2, <1>5 DEF Placed
  <2>2. u.state \in Busy
    BY <1>1, <1>5 DEF Busy
  <2> QED BY <1>1, <1>3, <1>4, <1>5, <1>9, <1>10, <1>11, <1>12, <2>1, <2>2 DEF Fitting
<1> QED BY <1>3, <1>5, <1>6, <1>7, <1>8, <1>13, TaskStep

-----------------------------------------------------------------------------
(* Inv is an inductive invariant.                                            *)

LEMMA InvInit == Init => Inv
<1> SUFFICES ASSUME Init PROVE Inv
  OBVIOUS
<1>1. TypeOK
  BY InitTask, NedoCronAssumption DEF Init, TypeOK, RunIds, RunStatus, ServerState
<1>2. LoopOK
  BY DEF Init, LoopOK, Alive
<1>3. \A j \in Jobs : TaskFits(j)
  BY InitTask DEF Init, TaskFits, Placed
<1>4. \A r \in RunIds : RunFits(r)
  BY DEF Init, RunFits, Unbegun, Connection, Held, Truthful, Owned, Executing, Awaited
<1> QED BY <1>1, <1>2, <1>3, <1>4 DEF Inv

LEMMA InvNext ==
    ASSUME Inv, [Next]_vars
    PROVE  Inv'
<1>1. CASE Worker
  <2>1. ASSUME NEW j \in Jobs, ManageCronTask(j) PROVE Inv'
    BY <2>1, WaitingStep, StartStep, ConnectingStep, SendingStep, GivesUpStep,
       RunningStep, ReadResultsStep, ErrorStep, DoneStep DEF ManageCronTask
  <2>2. ASSUME NEW j \in Jobs, InsertFails(j) PROVE Inv'
    BY <2>2, ProcessEndsStep DEF InsertFails
  <2> QED BY <1>1, <2>1, <2>2, LoopTopStep, WaitStep, RestartStep DEF Worker
<1>2. CASE Environment
  <2>1. CASE WorkerCrashes \/ WorkerExits
    BY <2>1, ProcessEndsStep DEF WorkerCrashes, WorkerExits
  <2> QED BY <1>2, <2>1, RestartStep, SessionStep, CommitStep, DeadlineStep,
             ServerStep, LinkStep DEF Environment
<1> QED BY <1>1, <1>2, StutterStep DEF Next

LEMMA Invariance == Spec => []Inv
BY InvInit, InvNext, PTL DEF Spec


-----------------------------------------------------------------------------
(* What follows from it.                                                     *)

(* Every field stays within its type, for any number of jobs and runs; that   *)
(* severed holds commands still executing needs all of Inv.                   *)
THEOREM TypeCorrect == Spec => []TypeOK
<1>1. Inv => TypeOK
  BY DEF Inv
<1> QED BY <1>1, Invariance, PTL

(* A task is active exactly when its job is loaded (ReloadCronJobs).          *)
THEOREM ActiveLoaded == Spec => []ActiveIffLoaded
<1>1. Inv => ActiveIffLoaded
  BY DEF Inv, TypeOK, LoopOK, TaskFits, Placed, ActiveIffLoaded
<1> QED BY <1>1, Invariance, PTL

(* Every task that waits for a socket has a connection, is watched and has a  *)
(* deadline (WaitForEvent).                                                   *)
THEOREM SocketsWired == Spec => []SocketTaskWired
<1>1. Inv => SocketTaskWired
  BY DEF Inv, TypeOK, TaskFits, Shape, SocketTaskWired, TaskNeedsSocketWait
<1> QED BY <1>1, Invariance, PTL

(* The open connections are those of the tasks, one each: no path through     *)
(* ManageCronTask forgets PQfinish or calls it on another's connection.       *)
THEOREM NoLeak == Spec => []NoConnectionLeak
<1>1. ASSUME Inv PROVE NoConnectionLeak
  <2>1. open \subseteq RunIds /\ hash \subseteq Jobs /\ 0 \notin RunIds
    BY <1>1 DEF Inv, TypeOK, RunIds
  <2>2. ASSUME NEW j \in hash
        PROVE  /\ task[j].conn \in {0, task[j].runId}
               /\ task[j].conn # 0 => task[j].conn \in RunIds
    <3>1. task[j] \in CronTask /\ Shape(task[j])
      BY <1>1, <2>1 DEF Inv, TypeOK, TaskFits
    <3> QED BY <3>1 DEF Shape, CronTask, CronTaskState, RunIds
  <2>3. open = {task[j].conn : j \in hash} \ {0}
    BY <1>1, <2>1, <2>2 DEF Inv, RunFits, Connection
  <2>4. ASSUME NEW i \in hash, NEW j \in hash, i # j, task[i].conn # 0
        PROVE  task[i].conn # task[j].conn
    BY <1>1, <2>1, <2>2, <2>4, RunsApart
  <2> QED BY <2>3, <2>4 DEF NoConnectionLeak
<1> QED BY <1>1, Invariance, PTL

(* Whichever way a task got into CRON_TASK_ERROR, removal of its job at the   *)
(* top of ManageCronTask included, there is a message to close its row with   *)
(* (UpdateRunDetailsFinish).                                                  *)
THEOREM ErrorsSpeak == Spec => []ErrorHasMessage
<1>1. ASSUME Inv PROVE ErrorHasMessage
  <2> SUFFICES ASSUME NEW j \in hash, Entered(j).state = "ERROR"
               PROVE  Entered(j).errorMessage
    BY DEF ErrorHasMessage
  <2>1. j \in Jobs /\ task[j] \in CronTask /\ Shape(task[j])
    BY <1>1 DEF Inv, TypeOK, TaskFits
  <2> QED BY <2>1, EnteredFields DEF Shape
<1> QED BY <1>1, Invariance, PTL

(* "succeeded" and "timeout" in job_run_details are true of the command.      *)
THEOREM HistoryTrue == Spec => []HistoryTruthful
<1>1. Inv => HistoryTruthful
  BY DEF Inv, RunFits, Truthful, HistoryTruthful
<1> QED BY <1>1, Invariance, PTL

(* A row in 'starting' or 'running' has a task that will close it: no error   *)
(* path of ManageCronTask leaves one behind.                                  *)
THEOREM OpenRunsOwned == Spec => []OpenRunOwned
<1>1. ASSUME Inv PROVE OpenRunOwned
  <2> SUFFICES ASSUME Alive, NEW r \in epoch..(nextRun - 1),
                      details[r] \in {"starting", "running"}
               PROVE  \E j \in hash : /\ jobOf[r] = {j} /\ task[j].runId = r
                                      /\ task[j].state \in Busy
    BY DEF OpenRunOwned, Busy
  <2>1. r \in RunIds /\ r >= epoch /\ r # 0
    BY <1>1, NedoCronAssumption DEF Inv, TypeOK, RunIds
  <2>2. PICK j \in hash : task[j].runId = r /\ task[j].state \in Busy
    BY <1>1, <2>1 DEF Inv, RunFits, Owned
  <2>3. jobOf[r] = {j}
    BY <1>1, <2>1, <2>2 DEF Inv, TypeOK, TaskFits, LatestRun
  <2> QED BY <2>2, <2>3
<1> QED BY <1>1, Invariance, PTL

(* Two commands of one job never execute side by side, unless the worker has  *)
(* lost hold of the earlier (the five ways NoSelfOverlap lists, the COPY it   *)
(* hangs up on among them): the run a task has is the latest of its job.      *)
THEOREM NoOverlap == Spec => []NoSelfOverlap
<1>1. ASSUME Inv PROVE NoSelfOverlap
  <2> SUFFICES ASSUME NEW q \in RunIds, NEW r \in RunIds, q < r, jobOf[q] = jobOf[r],
                      server[q] \in Executing, q \notin severed
               PROVE  FALSE
    BY DEF NoSelfOverlap
  <2>1. PICK j \in hash : task[j].runId = q
    BY <1>1 DEF Inv, RunFits, Held
  <2>2. LatestRun(j, q)
    BY <1>1, <2>1 DEF Inv, TypeOK, TaskFits, RunIds
  <2> QED BY <2>2 DEF LatestRun, RunIds
<1> QED BY <1>1, Invariance, PTL
=============================================================================
