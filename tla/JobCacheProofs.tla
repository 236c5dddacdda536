---------------------------- MODULE JobCacheProofs ----------------------------
(***************************************************************************)
(* For any number of sessions and changes: as long as the extension is not  *)
(* dropped or created under the worker and no message is taken in in the    *)
(* middle of a scan, what is announced is loaded.                           *)
(***************************************************************************)
EXTENDS JobCache, TLAPS

(* An invalidation the worker's callback will see is still on its way.      *)
UnderWay == registered # 0 /\ registered \in inbox

(* Why it works.  The table has one OID, known to everyone who knows any.   *)
OneOid ==
    /\ oid = 1 /\ lastOid = 1
    /\ registered \in {0, 1} /\ workerOid \in {0, 1}
    /\ sessionOid \in [Sessions -> {0, 1}]
    /\ outbox \in [Sessions -> SUBSET {1}]
    /\ inbox \subseteq {1}

(* The callback is registered before the first reload ends.                 *)
RegisteredFirst == registered = 0 => pc \in {"top", "register"} /\ ~valid

(* Contents only grow; announcements and snapshots lag behind.              *)
Ordered ==
    /\ seenAtTop \in Nat /\ announced \in Nat /\ content \in Nat
    /\ changes \in Nat /\ snapshot \in Nat /\ cache \in Nat
    /\ content = changes
    /\ seenAtTop <= announced /\ announced <= content
    /\ pc # "down" /\ valid \in BOOLEAN /\ sighup \in BOOLEAN

(* At each point of the loop: what was announced is in the cache, or in the *)
(* snapshot about to become it, or something will still trigger a reload.   *)
Covered ==
    /\ pc \in {"top", "sleep"} => announced <= cache \/ ~valid \/ UnderWay
    /\ pc = "register" => /\ announced <= cache \/ ~valid \/ UnderWay
                          /\ seenAtTop <= cache \/ ~valid
    /\ pc = "scan" => /\ announced <= snapshot \/ UnderWay
                      /\ seenAtTop <= snapshot
    /\ pc = "sleep" => seenAtTop <= cache

Inv == OneOid /\ RegisteredFirst /\ Ordered /\ Covered

(* README's "quickly visible", for every number of sessions and changes:    *)
(* what was announced before an iteration is loaded in that iteration, if   *)
(* the extension stays in place and no value is toasted.                    *)
THEOREM QuicklyVisible ==
    ASSUME Events \cap {"ddl", "toast"} = {}
    PROVE  Spec => []AnnouncedIsLoaded
<1>1. Init => Inv
  <2> SUFFICES ASSUME Init PROVE Inv
    OBVIOUS
  <2>1. "ddl" \notin Events
    OBVIOUS
  <2>2. OneOid
    BY <2>1 DEF Init, FreshWorker, OneOid
  <2>3. valid = FALSE /\ sighup = FALSE
    BY DEF Init, FreshWorker
  <2>4. ~valid
    BY <2>3
  <2>5. Ordered
    <3>1. valid \in BOOLEAN /\ sighup \in BOOLEAN
      BY <2>3
    <3> QED
      BY <3>1 DEF Init, FreshWorker, Ordered
  <2>6. RegisteredFirst /\ Covered
    BY <2>4 DEF Init, RegisteredFirst, Covered
  <2> QED
    BY <2>2, <2>5, <2>6 DEF Inv
<1>2. Inv /\ [Next]_vars => Inv'
  <2> SUFFICES ASSUME Inv, [Next]_vars PROVE Inv'
    OBVIOUS
  <2> USE DEF Inv, OneOid, RegisteredFirst, Ordered, Covered, UnderWay, vars,
              tableVars, sessionVars, cacheVars, ghostVars
  <2>1. CASE AcceptInvalidations
    <3>1. OneOid' /\ Ordered'
      BY <2>1 DEF AcceptInvalidations, StillValid
    <3>2. CASE UnderWay
      <4>1. ~valid'
        BY <2>1, <3>2 DEF AcceptInvalidations, StillValid
      <4> QED
        BY <2>1, <3>1, <4>1 DEF AcceptInvalidations
    <3>3. CASE ~UnderWay
      <4>1. valid' <=> valid
        BY <2>1, <3>3 DEF AcceptInvalidations, StillValid
      <4> QED
        BY <2>1, <3>1, <3>3, <4>1 DEF AcceptInvalidations
    <3> QED
      BY <3>2, <3>3
  <2>2. CASE RegisterCallback
    <3>1. OneOid' /\ Ordered'
      BY <2>2 DEF RegisterCallback, ReloadDue
    <3>2. registered' # 0
      BY <2>2 DEF RegisterCallback
    <3>3. CASE ReloadDue
      BY <2>2, <3>1, <3>2, <3>3 DEF RegisterCallback
    <3>4. CASE ~ReloadDue
      <4>1. valid /\ ~sighup /\ valid'
        BY <2>2, <3>4 DEF RegisterCallback, ReloadDue
      <4>2. registered # 0 /\ registered' = registered /\ inbox' = inbox
        BY <2>2, <4>1 DEF RegisterCallback
      <4> QED
        BY <2>2, <3>1, <3>2, <3>4, <4>1, <4>2 DEF RegisterCallback
    <3> QED
      BY <3>3, <3>4
  <2>3. CASE BeginScan
    BY <2>3 DEF BeginScan, StillValid
  <2>4. CASE OpenFails
    BY <2>4 DEF OpenFails
  <2>5. CASE EndScan
    BY <2>5 DEF EndScan
  <2>6. CASE Sleep
    BY <2>6 DEF Sleep
  <2>7. CASE WorkerRestarts
    BY <2>7 DEF WorkerRestarts
  <2>8. CASE AcceptDuringScan
    BY <2>8 DEF AcceptDuringScan
  <2>9. CASE CreateExtension \/ DropExtension
    BY <2>9 DEF CreateExtension, DropExtension
  <2>10. CASE ReloadFallsDue
    BY <2>10 DEF ReloadFallsDue
  <2>11. CASE Sighup
    BY <2>11 DEF Sighup
  <2>12. ASSUME NEW s \in Sessions, ChangeJobs(s) PROVE Inv'
    <3>1. content' = content + 1 /\ changes' = changes + 1
      BY <2>12 DEF ChangeJobs
    <3>2. UNCHANGED <<oid, lastOid, inbox, pc, cacheVars, sighup, snapshot, ghostVars>>
      BY <2>12 DEF ChangeJobs
    <3>3. /\ sessionOid' \in [Sessions -> {0, 1}]
          /\ outbox' \in [Sessions -> SUBSET {1}]
      BY <2>12 DEF ChangeJobs
    <3> QED
      BY <3>1, <3>2, <3>3
  <2>13. ASSUME NEW s \in Sessions, SendInvalidation(s) PROVE Inv'
    <3>1. outbox[s] = {1}
      BY <2>13 DEF SendInvalidation
    <3>2. announced' = content /\ 1 \in inbox' /\ inbox' \subseteq {1}
      BY <2>13, <3>1 DEF SendInvalidation
    <3>3. UNCHANGED <<tableVars, sessionOid, pc, cacheVars, sighup, snapshot, seenAtTop>>
      BY <2>13 DEF SendInvalidation
    <3>4. outbox' \in [Sessions -> SUBSET {1}]
      BY <2>13 DEF SendInvalidation
    <3>5. OneOid' /\ Ordered' /\ RegisteredFirst'
      BY <3>2, <3>3, <3>4
    <3>6. registered # 0 => UnderWay'
      BY <3>2, <3>3
    <3> QED
      BY <3>3, <3>5, <3>6
  <2>14. CASE UNCHANGED vars
    BY <2>14
  <2> QED
    BY <2>1, <2>2, <2>3, <2>4, <2>5, <2>6, <2>7, <2>8, <2>9, <2>10, <2>11,
       <2>12, <2>13, <2>14 DEF Next, Worker
<1>3. Inv => AnnouncedIsLoaded
  BY DEF Inv, Covered, Ordered, AnnouncedIsLoaded
<1> QED
  BY <1>1, <1>2, <1>3, PTL DEF Spec
=============================================================================
