------------------------------- MODULE Calendar -------------------------------
(***************************************************************************)
(* Dates, as the worker sees them: gmtime of the C library, the month        *)
(* lengths of cron_parser.c, and the test of nedo_cron.c whether a schedule *)
(* is due at a minute.                                                      *)
(***************************************************************************)
EXTENDS Integers, Sequences

(* The date of a day counted from 1970-01-01, in the proleptic Gregorian     *)
(* calendar: years start in March, in eras of 400 years, so that the leap    *)
(* day comes last.                                                           *)
gmtime(day) ==
    LET z   == day + 719468
        doe == z % 146097
        yoe == (doe - doe \div 1460 + doe \div 36524 - doe \div 146096) \div 365
        doy == doe - (365 * yoe + yoe \div 4 - yoe \div 100)
        mp  == (5 * doy + 2) \div 153
        mon == IF mp < 10 THEN mp + 3 ELSE mp - 9
    IN [mday |-> doy - (153 * mp + 2) \div 5 + 1,
        mon  |-> mon,
        year |-> yoe + 400 * (z \div 146097) + (IF mon <= 2 THEN 1 ELSE 0),
        wday |-> (day + 4) % 7]

(* Faulty variant: every fourth year, centuries included.                    *)
is_leap_year_julian(year) == year % 4 = 0

is_leap_year(year) == year % 400 = 0 \/ (year % 100 # 0 /\ year % 4 = 0)

days_in_month(year, month) ==
    IF month = 2 /\ is_leap_year(year) THEN 29
    ELSE <<31, 28, 31, 30, 31, 30, 31, 31, 30, 31, 30, 31>>[month]

isLastDayOfMonth(tm) == days_in_month(tm.year, tm.mon) = tm.mday

(* The day fields of a schedule: both must match when one of them is a star, *)
(* either when both are specific.                                            *)
DayMatches(sched, tm) ==
    LET dom == tm.mday \in sched.bits.CRON_DOM \/ (sched.LAST_DOM /\ isLastDayOfMonth(tm))
        dow == tm.wday \in sched.bits.CRON_DOW
    IN IF sched.star \cap {"CRON_DOM", "CRON_DOW"} # {} THEN dom /\ dow ELSE dom \/ dow

IsFloating(sched) == sched.star \cap {"CRON_MINUTE", "CRON_HOUR"} # {}

ShouldRunTask(sched, day, hour, minute, floatingHourOrMinute, fixedHourOrMinute) ==
    /\ ~sched.SECONDS
    /\ minute \in sched.bits.CRON_MINUTE
    /\ hour \in sched.bits.CRON_HOUR
    /\ gmtime(day).mon \in sched.bits.CRON_M
    /\ DayMatches(sched, gmtime(day))
    /\ \/ fixedHourOrMinute /\ ~IsFloating(sched)
       \/ floatingHourOrMinute /\ IsFloating(sched)
=============================================================================
