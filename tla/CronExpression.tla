---------------------------- MODULE CronExpression ----------------------------
(***************************************************************************)
(* From the text of a schedule to the minutes it is due in.  A text is       *)
(* parsed up to three times: by schedule() before its INSERT, by the CHECK   *)
(* constraint of nedo_cron.jobs, and by the worker that loads the row.  An   *)
(* INSERT or UPDATE that does not go through schedule() meets the last two.  *)
(* The loaded job is then matched against one day after another.             *)
(***************************************************************************)
EXTENDS CronParser, Calendar

CONSTANTS
    Watched,     \* the texts whose jobs are followed through the days
    FirstDays,   \* the days the clock may be set to
    Days,        \* the days on which the worker is looked at
    Times        \* times of day, <<hour, minute>>

ASSUME CronExpressionAssumption ==
    /\ Watched \subseteq Commands
    /\ FirstDays \subseteq Days /\ FirstDays # {} /\ Days \subseteq Nat
    /\ Times \subseteq (0..23) \X (0..59)

VARIABLES
    caller,   \* who parses, or what became of the text
    row,      \* is the text in nedo_cron.jobs?
    job,      \* job->schedule in the worker; EmptySchedule while not loaded
    day       \* today, in days since 1970

expressionVars == <<caller, row, job, day>>
vars == <<parserVars, expressionVars>>

Init ==
    /\ ParserInit
    /\ caller \in {"schedule_job", "check_schedule"}
    /\ row = FALSE
    /\ job = EmptySchedule
    /\ day = Min(FirstDays)

ParseStep == parse_with_error /\ UNCHANGED expressionVars

(* The next caller hands the same text to parse_with_error.                  *)
ParsedAgainBy(next) ==
    /\ schedule' = EmptySchedule /\ error' = <<0, 0>>
    /\ field' = 0 /\ token' = 0
    /\ verdict' = "parsing"
    /\ caller' = next
    /\ UNCHANGED command

Ends(outcome) == caller' = outcome /\ UNCHANGED parserVars

(* schedule(): an error, or an INSERT, for which the CHECK is evaluated.     *)
schedule_job ==
    /\ caller = "schedule_job" /\ verdict # "parsing"
    /\ \/ verdict = "rejected" /\ Ends("refused")
       \/ verdict = "accepted" /\ ParsedAgainBy("check_schedule")
    /\ UNCHANGED <<row, job, day>>

(* Faulty variant: the constraint holds for every text.                      *)
check_schedule_always ==
    /\ caller = "check_schedule" /\ verdict # "parsing"
    /\ ParsedAgainBy("TupleToJob") /\ row' = TRUE
    /\ UNCHANGED <<job, day>>

(* The CHECK constraint: the statement fails, or the row is there to be      *)
(* loaded.                                                                   *)
check_schedule ==
    /\ caller = "check_schedule" /\ verdict # "parsing"
    /\ \/ verdict = "rejected" /\ Ends("refused") /\ row' = row
       \/ verdict = "accepted" /\ ParsedAgainBy("TupleToJob") /\ row' = TRUE
    /\ UNCHANGED <<job, day>>

(* The worker loads the row, or warns and leaves the job out.                *)
TupleToJob ==
    /\ caller = "TupleToJob" /\ verdict # "parsing"
    /\ \/ verdict = "rejected" /\ Ends("skipped") /\ job' = job
       \/ verdict = "accepted" /\ Ends("loaded") /\ job' = schedule
    /\ UNCHANGED <<row, day>>

(* The next day, or the one the clock is set to.                             *)
NextDay ==
    /\ caller = "loaded" /\ command \in Watched
    /\ day' \in FirstDays \cup ({day + 1} \cap Days)
    /\ UNCHANGED <<parserVars, caller, row, job>>

Next == ParseStep \/ schedule_job \/ check_schedule \/ TupleToJob \/ NextDay

Spec == Init /\ [][Next]_vars

-----------------------------------------------------------------------------
(* A row the CHECK constraint let in is loaded by every worker: no job sits  *)
(* in nedo_cron.jobs and silently never runs (check_schedule, TupleToJob).   *)
RowIsLoaded == row => caller # "skipped"

(* What the text says of a day: $ is the day before the first of a month.    *)
MeansDay(tm) ==
    LET dom == \/ tm.mday \in FieldMeans(3)
               \/ HasToken(3, "last") /\ gmtime(day + 1).mday = 1
        dow == tm.wday \in FieldMeans(5)
    IN IF HasToken(3, "star") \/ HasToken(5, "star") THEN dom /\ dow ELSE dom \/ dow

(* A loaded job is due in a minute exactly when its text says so, on every   *)
(* day of leap, ordinary and century years; it counts as floating exactly    *)
(* when its minute or hour is a star; a seconds job is never due by the      *)
(* calendar (ShouldRunTask).                                                 *)
DueAsMeant ==
    caller = "loaded" =>
        \A t \in Times : \A floating, fixed \in BOOLEAN :
            ShouldRunTask(job, day, t[1], t[2], floating, fixed) <=>
                /\ ~IsSeconds
                /\ t[2] \in FieldMeans(1) /\ t[1] \in FieldMeans(2)
                /\ gmtime(day).mon \in FieldMeans(4)
                /\ MeansDay(gmtime(day))
                /\ IF HasToken(1, "star") \/ HasToken(2, "star") THEN floating ELSE fixed
=============================================================================
