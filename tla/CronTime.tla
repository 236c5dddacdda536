------------------------------ MODULE CronTime ------------------------------
(***************************************************************************)
(* Timestamp arithmetic of src/src/cron_time.c, with the two PostgreSQL    *)
(* helpers it relies on.  A timestamp is a natural number of clock units;  *)
(* the code counts microseconds (60000000 to the minute, the               *)
(* HAVE_INT64_TIMESTAMP branch that PostgreSQL 17 builds).                 *)
(***************************************************************************)
EXTENDS Integers

CONSTANT Minute     \* clock units in one minute

ASSUME MinuteAssumption == Minute \in Nat \ {0}

StartOfMinute(time) == time - (time % Minute)

EndOfMinute(time) == StartOfMinute(time) + Minute

(* PostgreSQL's TimestampDifference: a negative difference is reported as  *)
(* zero, which is what MinutesPassed inherits.                             *)
TimestampDifference(start, end) == IF end <= start THEN 0 ELSE end - start

(* PostgreSQL's TimestampDifferenceExceeds: at least the interval passed.  *)
TimestampDifferenceExceeds(start, stop, interval) == stop - start >= interval

(* Faulty variant: the signed difference, as if the clock could be seen to *)
(* have gone backwards.                                                    *)
MinutesPassedSigned(start, end) ==
    IF end >= start THEN (end - start) \div Minute
                    ELSE -((start - end) \div Minute)

MinutesPassed(start, end) == TimestampDifference(start, end) \div Minute
=============================================================================
