------------------------------- MODULE JobCache -------------------------------
(***************************************************************************)
(* How a change of nedo_cron.jobs becomes known to the worker.  A session   *)
(* changes the table; its statement trigger asks PostgreSQL to send out a   *)
(* relcache invalidation for the table's OID once the change is committed;  *)
(* the worker takes the messages in, a registered callback marks the job    *)
(* cache invalid, and the loop reloads it.  Failing that, it reloads every  *)
(* 60 s.  Extension and table may be dropped and created again, with a new  *)
(* OID; sessions and worker keep the OID they have looked up once.          *)
(*                                                                         *)
(* The contents of the table are a number, which grows with every change;   *)
(* an empty table and no table at all are 0.                                *)
(***************************************************************************)
EXTENDS Naturals

CONSTANTS
    Sessions,     \* client backends
    MaxChanges,   \* bound on the changes of the table
    MaxOid,       \* bound on how often the extension is created
    Events        \* what else may happen in this instance

ASSUME JobCacheAssumption ==
    /\ MaxChanges \in Nat /\ MaxOid \in Nat
    /\ Events \subseteq {"ddl", "toast", "sighup"}

Oids == 1..MaxOid

VARIABLES
    oid,         \* OID of nedo_cron.jobs, 0 while the extension is not there
    lastOid,     \* the OID given out last
    content,     \* what is committed in the table
    changes,     \* changes made so far
    sessionOid,  \* CachedCronJobRealtionId of each session
    outbox,      \* invalidations a session has committed but not yet sent
    inbox,       \* invalidations the worker has not yet taken in
    pc,          \* top, register, reload, scan, sleep, down
    valid,       \* CronJobCacheValid
    registered,  \* CronJobRelcacheOid, 0 while no callback is registered
    workerOid,   \* CachedCronJobRealtionId of the worker
    overdue,     \* no reload yet, or the last one is 60 s old
    sighup,      \* sighupFlag
    snapshot,    \* what the scan under way sees
    cache,       \* what CronJobHashTable was loaded from
    announced,   \* ghost: the newest content an invalidation was sent for
    seenAtTop    \* ghost: announced when this iteration began

tableVars   == <<oid, lastOid, content, changes>>
sessionVars == <<sessionOid, outbox>>
cacheVars   == <<valid, registered, workerOid, overdue, cache>>
ghostVars   == <<announced, seenAtTop>>
vars == <<tableVars, sessionVars, inbox, pc, cacheVars, sighup, snapshot, ghostVars>>

TypeOK ==
    /\ oid \in Oids \cup {0} /\ lastOid \in Oids \cup {0}
    /\ content \in 0..MaxChanges /\ changes \in 0..MaxChanges
    /\ sessionOid \in [Sessions -> Oids \cup {0}]
    /\ outbox \in [Sessions -> SUBSET Oids]
    /\ inbox \subseteq Oids
    /\ pc \in {"top", "register", "reload", "scan", "sleep", "down"}
    /\ valid \in BOOLEAN /\ overdue \in BOOLEAN /\ sighup \in BOOLEAN
    /\ registered \in Oids \cup {0} /\ workerOid \in Oids \cup {0}
    /\ snapshot \in 0..MaxChanges /\ cache \in 0..MaxChanges
    /\ announced \in 0..MaxChanges /\ seenAtTop \in 0..MaxChanges

(* The statics of a worker that has just been started.                        *)
FreshWorker ==
    /\ valid = FALSE /\ registered = 0 /\ workerOid = 0
    /\ overdue = TRUE /\ cache = 0

(* The extension is there when the worker starts, or it is created later.     *)
Init ==
    /\ oid \in (IF "ddl" \in Events THEN {0, 1} ELSE {1})
    /\ lastOid = oid
    /\ content = 0 /\ changes = 0
    /\ sessionOid = [s \in Sessions |-> 0]
    /\ outbox = [s \in Sessions |-> {}]
    /\ inbox = {}
    /\ pc = "top"
    /\ FreshWorker
    /\ sighup = FALSE /\ snapshot = 0
    /\ announced = 0 /\ seenAtTop = 0

-----------------------------------------------------------------------------
(* Sessions.                                                                 *)

(* schedule, unschedule or a direct INSERT, UPDATE, DELETE, committed.  The   *)
(* trigger resolves the OID once per process; for an OID that is no longer    *)
(* there the syscache lookup finds nothing and no message is sent.            *)
ChangeJobs(s) ==
    LET id == IF sessionOid[s] = 0 THEN oid ELSE sessionOid[s] IN
    /\ oid # 0 /\ outbox[s] = {}
    /\ changes < MaxChanges
    /\ changes' = changes + 1
    /\ content' = changes + 1
    /\ sessionOid' = [sessionOid EXCEPT ![s] = id]
    /\ outbox' = [outbox EXCEPT ![s] = IF id = oid THEN {id} ELSE {}]
    /\ UNCHANGED <<oid, lastOid, inbox, pc, cacheVars, sighup, snapshot, ghostVars>>

(* The messages go out after the change has become visible.                   *)
SendInvalidation(s) ==
    /\ outbox[s] # {}
    /\ inbox' = inbox \cup outbox[s]
    /\ outbox' = [outbox EXCEPT ![s] = {}]
    /\ announced' = IF oid \in outbox[s] THEN content ELSE announced
    /\ UNCHANGED <<tableVars, sessionOid, pc, cacheVars, sighup, snapshot, seenAtTop>>

(* CREATE and DROP EXTENSION.  DROP waits for a scan under way.               *)
CreateExtension ==
    /\ "ddl" \in Events
    /\ oid = 0 /\ lastOid < MaxOid
    /\ oid' = lastOid + 1
    /\ lastOid' = lastOid + 1
    /\ content' = 0
    /\ inbox' = inbox \cup {lastOid + 1}
    /\ UNCHANGED <<changes, sessionVars, pc, cacheVars, sighup, snapshot, ghostVars>>

DropExtension ==
    /\ "ddl" \in Events
    /\ oid # 0 /\ pc # "scan"
    /\ oid' = 0
    /\ content' = 0
    /\ inbox' = inbox \cup {oid}
    /\ announced' = 0 /\ seenAtTop' = 0
    /\ UNCHANGED <<lastOid, changes, sessionVars, pc, cacheVars, sighup, snapshot>>

-----------------------------------------------------------------------------
(* The worker.                                                               *)

(* AcceptInvalidationMessages with CronJobRelcacheCallback: messages are      *)
(* consumed whether or not a callback is there for them.                      *)
StillValid == valid /\ ~(registered # 0 /\ registered \in inbox)

AcceptInvalidations ==
    /\ pc = "top"
    /\ pc' = "register"
    /\ valid' = StillValid
    /\ inbox' = {}
    /\ seenAtTop' = announced
    /\ UNCHANGED <<tableVars, sessionVars, registered, workerOid, overdue, cache,
                   sighup, snapshot, announced>>

(* Faulty variants: nothing but the clock makes the worker reload; or the     *)
(* clock does not.                                                            *)
ReloadDueByClock == overdue

ReloadDueByMessage == ~valid \/ sighup

(* The condition the loop reloads on, after SIGHUP has been looked at.        *)
ReloadDue == ~valid \/ sighup \/ overdue

(* RegisterCronJobRelcacheCallbackIfNeeded, once in the life of the process.  *)
(* Its transaction takes messages in before there is a callback for them.     *)
RegisterCallback ==
    /\ pc = "register"
    /\ registered' = IF registered = 0 THEN oid ELSE registered
    /\ inbox' = IF registered = 0 THEN {} ELSE inbox
    /\ valid' = (valid /\ ~sighup)
    /\ sighup' = FALSE
    /\ pc' = IF ReloadDue THEN "reload" ELSE "sleep"
    /\ UNCHANGED <<tableVars, sessionVars, workerOid, overdue, cache, snapshot,
                   ghostVars>>

(* ReloadCronJobs up to the scan: the transaction takes messages in once more *)
(* and the scan gets a snapshot of its own after that.                        *)
BeginScan ==
    /\ pc = "reload"
    /\ oid # 0 => workerOid \in {0, oid}
    /\ workerOid' = IF oid # 0 THEN oid ELSE workerOid
    /\ valid' = StillValid
    /\ inbox' = {}
    /\ snapshot' = content
    /\ pc' = "scan"
    /\ UNCHANGED <<tableVars, sessionVars, registered, overdue, cache, sighup, ghostVars>>

(* The OID the worker remembers is that of a dropped table: table_open raises *)
(* an ERROR and the process ends.                                             *)
OpenFails ==
    /\ pc = "reload"
    /\ oid # 0 /\ workerOid \notin {0, oid}
    /\ pc' = "down"
    /\ UNCHANGED <<tableVars, sessionVars, inbox, cacheVars, sighup, snapshot, ghostVars>>

(* A long value is fetched from the TOAST table: locking that takes messages  *)
(* in while the scan goes on.                                                 *)
AcceptDuringScan ==
    /\ "toast" \in Events
    /\ pc = "scan" /\ inbox # {}
    /\ valid' = StillValid
    /\ inbox' = {}
    /\ UNCHANGED <<tableVars, sessionVars, pc, registered, workerOid, overdue,
                   cache, sighup, snapshot, ghostVars>>

(* The rest of ReloadCronJobs: the cache counts as valid, whatever the        *)
(* callback may have said in the meantime.                                    *)
EndScan ==
    /\ pc = "scan"
    /\ cache' = snapshot
    /\ valid' = TRUE
    /\ overdue' = FALSE
    /\ pc' = "sleep"
    /\ UNCHANGED <<tableVars, sessionVars, inbox, registered, workerOid, sighup,
                   snapshot, ghostVars>>

Sleep ==
    /\ pc = "sleep"
    /\ pc' = "top"
    /\ UNCHANGED <<tableVars, sessionVars, inbox, cacheVars, sighup, snapshot, ghostVars>>

WorkerRestarts ==
    /\ pc = "down"
    /\ pc' = "top"
    /\ valid' = FALSE /\ registered' = 0 /\ workerOid' = 0
    /\ overdue' = TRUE /\ cache' = 0
    /\ inbox' = {} /\ sighup' = FALSE
    /\ UNCHANGED <<tableVars, sessionVars, snapshot, ghostVars>>

ReloadFallsDue ==
    /\ ~overdue
    /\ overdue' = TRUE
    /\ UNCHANGED <<tableVars, sessionVars, inbox, pc, valid, registered, workerOid,
                   cache, sighup, snapshot, ghostVars>>

Sighup ==
    /\ "sighup" \in Events
    /\ ~sighup
    /\ sighup' = TRUE
    /\ UNCHANGED <<tableVars, sessionVars, inbox, pc, cacheVars, snapshot, ghostVars>>

-----------------------------------------------------------------------------
Worker ==
    \/ AcceptInvalidations
    \/ RegisterCallback
    \/ BeginScan
    \/ OpenFails
    \/ EndScan
    \/ Sleep
    \/ WorkerRestarts

Next ==
    \/ Worker
    \/ AcceptDuringScan
    \/ CreateExtension
    \/ DropExtension
    \/ ReloadFallsDue
    \/ Sighup
    \/ \E s \in Sessions : ChangeJobs(s) \/ SendInvalidation(s)

Spec == Init /\ [][Next]_vars

(* The worker keeps running (the postmaster restarts it), the clock keeps     *)
(* ticking, and committed invalidations are sent.                             *)
FairSpec ==
    /\ Spec
    /\ WF_vars(Worker)
    /\ WF_vars(ReloadFallsDue)
    /\ \A s \in Sessions : WF_vars(SendInvalidation(s))

-----------------------------------------------------------------------------
(* README: changes of nedo_cron.jobs quickly become visible to the worker.    *)
(* Every change announced before an iteration begins is loaded by the time    *)
(* that iteration goes to sleep, whichever steps of sessions and worker were  *)
(* interleaved before (RegisterCronJobRelcacheCallbackIfNeeded,               *)
(* ReloadCronJobs).                                                           *)
AnnouncedIsLoaded == pc = "sleep" => cache >= seenAtTop

(* Whatever invalidations get lost - to a callback registered too late, to a  *)
(* reload that overwrites CronJobCacheValid, to an OID that is out of date -  *)
(* once the table is left alone the worker ends up with what is in it: by the *)
(* 60 s reload, or by failing on the old OID and being started again.         *)
EventuallyFresh == <>[](cache = content /\ pc # "down")
=============================================================================
