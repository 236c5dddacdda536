----------------------------- MODULE MCScheduler -----------------------------
(* Instances of Scheduler for TLC: a fixed, a floating and a seconds job,   *)
(* minutes of two or three clock units.                                     *)
EXTENDS Scheduler, TLC

CONSTANTS fixed, floating, seconds

Cron(star, mins) == [SECONDS |-> FALSE, secondsInterval |-> 0,
                     floating |-> star, minutes |-> mins]
Seconds(n)       == [SECONDS |-> TRUE, secondsInterval |-> n,
                     floating |-> FALSE, minutes |-> {}]

EveryMinute == {m \in 1..MaxTime : m % Minute = 0}
EveryOther  == {m \in 1..MaxTime : m % (2 * Minute) = 0}

(* A job due every minute, one due in every other, both fixed: "0-59 ...".  *)
JumpSchedules == (fixed    :> {Cron(FALSE, EveryMinute), Cron(FALSE, EveryOther)})
              @@ (floating :> {Cron(TRUE, EveryMinute)})

(* A seconds job whose interval is changed, and one that is turned into a    *)
(* minute job and back.                                                      *)
SteadySchedules == (floating :> {Cron(TRUE, EveryMinute), Seconds(2)})
                @@ (seconds  :> {Seconds(2), Seconds(1)})

JumpJobs   == {fixed, floating}
SteadyJobs == {floating, seconds}

(* The clock stands still, ticks, is set forward across every threshold of   *)
(* ClockStatus, and is set back.                                             *)
Deltas == {-5, -2, 0, 1, 3, 5, 8}
=============================================================================
