------------------------------ MODULE RunHistory ------------------------------
(***************************************************************************)
(* What nedo_cron.job_run_details promises to whoever reads it, without a   *)
(* word on how the worker gets there: the runs of a job follow one another, *)
(* each one is opened once, may be seen running, and is closed at most once *)
(* with a verdict; where every backend tells its pid, only a run that was   *)
(* running can have succeeded or timed out; a row goes away with its job    *)
(* and never comes back.  A worker that dies walks away from the runs in    *)
(* progress.                                                                *)
(***************************************************************************)
EXTENDS Naturals

CONSTANTS Jobs, MaxRuns,
          PidsKnown   \* every backend tells its pid

VARIABLES
    status,    \* of each run
    owner,     \* {the job of the run}, {} before it exists
    next,      \* the next run id
    current    \* the run each job has in progress, 0 if none

vars == <<status, owner, next, current>>

Runs == 1..MaxRuns

Init ==
    /\ status = [r \in Runs |-> "none"]
    /\ owner = [r \in Runs |-> {}]
    /\ next = 1
    /\ current = [j \in Jobs |-> 0]

Begin(j) ==
    /\ current[j] = 0
    /\ next \in Runs
    /\ next' = next + 1
    /\ status' = [status EXCEPT ![next] = "starting"]
    /\ owner' = [owner EXCEPT ![next] = {j}]
    /\ current' = [current EXCEPT ![j] = next]

Connected(j) ==
    /\ current[j] # 0
    /\ status[current[j]] = "starting"
    /\ status' = [status EXCEPT ![current[j]] = "running"]
    /\ UNCHANGED <<owner, next, current>>

Any == {"succeeded", "failed", "timeout"}

Verdicts(s) == CASE s = "starting" -> IF PidsKnown THEN {"failed"} ELSE Any
                 [] s = "running"  -> Any
                 [] OTHER          -> {s}

Finish(j) ==
    /\ current[j] # 0
    /\ status[current[j]] \in {"starting", "running", "deleted"}
    /\ \E v \in Verdicts(status[current[j]]) :
          status' = [status EXCEPT ![current[j]] = v]
    /\ current' = [current EXCEPT ![j] = 0]
    /\ UNCHANGED <<owner, next>>

DeleteRows(j) ==
    /\ status' = [r \in Runs |-> IF owner[r] = {j} THEN "deleted" ELSE status[r]]
    /\ UNCHANGED <<owner, next, current>>

WalkAway ==
    /\ current' = [j \in Jobs |-> 0]
    /\ UNCHANGED <<status, owner, next>>

Next == \/ \E j \in Jobs : Begin(j) \/ Connected(j) \/ Finish(j) \/ DeleteRows(j)
        \/ WalkAway

Spec == Init /\ [][Next]_vars
=============================================================================
