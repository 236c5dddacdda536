------------------------------ MODULE CronParser ------------------------------
(***************************************************************************)
(* The parser of cron_parser.c: a schedule text becomes the bit sets of a   *)
(* CronSchedule, or an error that points at a field and a token.            *)
(*                                                                         *)
(* A text is given as its words, cut at the four delimiters the code cuts   *)
(* it at: a command is a sequence of fields (' '), a field a sequence of    *)
(* items (','), an item a sequence of parts ('/'), a part a sequence of     *)
(* words ('-').  str_split keeps empty parts; an empty string is the word   *)
(* of kind "empty".  A word is a numeral, a month or weekday name (any      *)
(* case), one of the special tokens, or junk.                               *)
(***************************************************************************)
EXTENDS Integers, Sequences, FiniteSetsExt, Functions

CONSTANTS
    IntMax,      \* INT_MAX
    Commands     \* the schedule texts to be parsed

(* The words; val is the number of a numeral or of a name.                   *)
Words == [kind : {"num"}, val : Nat]
         \cup [kind : {"month"}, val : 1..12]
         \cup [kind : {"dow"}, val : 0..6]
         \cup [kind : {"star", "last", "seconds", "junk", "empty"}, val : {0}]

Word(k, n) == [kind |-> k, val |-> n]

(* What str_split makes of a text: one part at least.                        *)
Parts(S) == Seq(S) \ {<<>>}

ASSUME CronParserAssumption ==
    /\ IntMax \in Nat /\ IntMax > 60
    /\ Commands \subseteq Parts(Parts(Parts(Parts(Words))))

EmptyWord == Word("empty", 0)

(* Two delimiters in a row, or one at an end: one of the parts is empty.     *)
has_empty_part(parts, empty) == empty \in Range(parts)

IsWord(part, kind)  == Len(part) = 1 /\ part[1].kind = kind
IsToken(item, kind) == Len(item) = 1 /\ IsWord(item[1], kind)

FieldType == <<"CRON_MINUTE", "CRON_HOUR", "CRON_DOM", "CRON_M", "CRON_DOW">>
Types     == Range(FieldType)

get_bounds == [CRON_MINUTE |-> [min |-> 0, max |-> 59],
               CRON_HOUR   |-> [min |-> 0, max |-> 23],
               CRON_DOM    |-> [min |-> 1, max |-> 31],
               CRON_M      |-> [min |-> 1, max |-> 12],
               CRON_DOW    |-> [min |-> 0, max |-> 7]]

Bounds(type) == get_bounds[type].min .. get_bounds[type].max

(* The last index of each bit array of CronSchedule.                         *)
ArrayEnd == [CRON_MINUTE |-> 59, CRON_HOUR |-> 23, CRON_DOM |-> 31,
             CRON_M |-> 12, CRON_DOW |-> 6]

CronSchedule == [bits : [Types -> SUBSET Nat], star : SUBSET Types,
                 LAST_DOM : BOOLEAN, SECONDS : BOOLEAN, secondsInterval : 0..59]

EmptySchedule == [bits |-> [t \in Types |-> {}], star |-> {}, LAST_DOM |-> FALSE,
                  SECONDS |-> FALSE, secondsInterval |-> 0]

VARIABLES
    command,    \* the text
    schedule,   \* temp of parse_with_error
    error,      \* fieldIndex and tokenIndex of CronParseError
    field,      \* the field being parsed
    token,      \* the item of it being parsed
    verdict     \* parsing, accepted, rejected

parserVars == <<command, schedule, error, field, token, verdict>>

-----------------------------------------------------------------------------
(* Words to numbers.  A result that may be missing is a set of at most one.  *)

parse_integer(part) ==
    IF IsWord(part, "num") /\ part[1].val <= IntMax THEN {part[1].val} ELSE {}

search_for_cron_name(names, part) ==
    IF IsWord(part, names) THEN {part[1].val} ELSE {}

parse_field_value(type, part) ==
    parse_integer(part) \cup
        CASE type = "CRON_M"   -> search_for_cron_name("month", part)
          [] type = "CRON_DOW" -> search_for_cron_name("dow", part)
          [] OTHER             -> {}

(* "A-B"; the end of a day-of-month range may be the last day, taken as 31.  *)
parse_range(type, part) ==
    IF has_empty_part(part, EmptyWord) \/ Len(part) # 2 THEN {}
    ELSE parse_field_value(type, <<part[1]>>) \X
            (IF type = "CRON_DOM" /\ part[2].kind = "last" THEN {31}
             ELSE parse_field_value(type, <<part[2]>>))

(* int addition as PostgreSQL's build compiles it (-fwrapv).                 *)
Plus(a, b) == ((a + b + IntMax + 1) % (2 * (IntMax + 1))) - (IntMax + 1)

(* Faulty variant: the end of the range is left out.                         *)
VisitedOpenEnd(type, start, finish, step) ==
    LET from[v \in (-IntMax - 1)..IntMax] ==
            IF v >= finish THEN {}
            ELSE {v} \cup (IF v \in Bounds(type) THEN from[Plus(v, step)] ELSE {})
    IN from[start]

(* The values the loop of set_field_range hands to set_field_value: up to    *)
(* the end of the range or to the first that is out of bounds, included.     *)
Visited(type, start, finish, step) ==
    LET from[v \in (-IntMax - 1)..IntMax] ==
            IF v > finish THEN {}
            ELSE {v} \cup (IF v \in Bounds(type) THEN from[Plus(v, step)] ELSE {})
    IN from[start]

-----------------------------------------------------------------------------
(* One item: what it adds to the schedule.                                   *)
Rejected == [ok |-> FALSE, values |-> {}, star |-> FALSE, last |-> FALSE]

set_field_range(type, start, finish, step) ==
    IF step <= 0 \/ start > finish THEN Rejected
    ELSE [Rejected EXCEPT !.ok = (Visited(type, start, finish, step) \subseteq Bounds(type)),
                          !.values = Visited(type, start, finish, step)]

WholeRange(type, step) ==
    set_field_range(type, get_bounds[type].min, get_bounds[type].max, step)

Ranges(type, part, step) ==
    IF parse_range(type, part) = {} THEN Rejected
    ELSE LET r == CHOOSE p \in parse_range(type, part) : TRUE
         IN set_field_range(type, r[1], r[2], step)

(* Faulty variant: whatever stands before the step counts as a star.         *)
StepItemAnyBase(type, item) ==
    IF \/ has_empty_part(item, <<EmptyWord>>)
       \/ Len(item) # 2
       \/ parse_integer(item[2]) \subseteq {0}
    THEN Rejected
    ELSE LET step == CHOOSE n \in parse_integer(item[2]) : TRUE
         IN IF Len(item[1]) > 1 THEN Ranges(type, item[1], step)
            ELSE WholeRange(type, step)

(* "base/step".  A last-day token before the step counts as a star.          *)
StepItem(type, item) ==
    IF \/ has_empty_part(item, <<EmptyWord>>)
       \/ Len(item) # 2
       \/ parse_integer(item[2]) \subseteq {0}
    THEN Rejected
    ELSE LET step == CHOOSE n \in parse_integer(item[2]) : TRUE
         IN IF \/ IsWord(item[1], "star")
               \/ type = "CRON_DOM" /\ IsWord(item[1], "last")
            THEN WholeRange(type, step)
            ELSE IF Len(item[1]) > 1 THEN Ranges(type, item[1], step)
            ELSE Rejected

parse_field_item(type, item) ==
    CASE IsToken(item, "empty") -> Rejected
      [] IsToken(item, "last") ->
            IF type = "CRON_DOM" THEN [Rejected EXCEPT !.ok = TRUE, !.last = TRUE]
            ELSE Rejected
      [] IsToken(item, "star") -> [WholeRange(type, 1) EXCEPT !.star = TRUE]
      [] Len(item) > 1 -> StepItem(type, item)
      [] Len(item) = 1 /\ Len(item[1]) > 1 -> Ranges(type, item[1], 1)
      [] OTHER -> [Rejected EXCEPT
                     !.ok = parse_field_value(type, item[1]) # {}
                            /\ parse_field_value(type, item[1]) \subseteq Bounds(type),
                     !.values = parse_field_value(type, item[1])]

(* Faulty variant: both Sundays keep their own number.                       *)
set_field_value_unfolded(type, value) == value

(* set_field_value: 0 and 7 are both Sunday.                                 *)
set_field_value(type, value) ==
    IF type = "CRON_DOW" /\ value = 7 THEN 0 ELSE value

(* mark_star_field keeps no flag for the month.                              *)
mark_star_field(sched, type) ==
    IF type = "CRON_M" THEN sched.star ELSE sched.star \cup {type}

WithItem(sched, type, r) ==
    [sched EXCEPT !.bits[type] = @ \cup {set_field_value(type, v) : v \in r.values},
                  !.star = IF r.star THEN mark_star_field(sched, type) ELSE @,
                  !.LAST_DOM = @ \/ r.last]

-----------------------------------------------------------------------------
ParserInit ==
    /\ command \in Commands
    /\ schedule = EmptySchedule
    /\ error = <<0, 0>>
    /\ field = 0 /\ token = 0
    /\ verdict = "parsing"

Reject(f, t) ==
    /\ verdict' = "rejected"
    /\ error' = <<f, t>>
    /\ UNCHANGED <<command, schedule, field, token>>

(* The form "N seconds".                                                     *)
IsSeconds == Len(command) = 2 /\ Len(command[2]) = 1 /\ IsToken(command[2][1], "seconds")

Interval == IF Len(command[1]) = 1 /\ Len(command[1][1]) = 1
            THEN parse_integer(command[1][1][1]) ELSE {}

SecondsAllowed == {n \in Interval : n >= 1 /\ n <= 59}

ParseSeconds ==
    /\ verdict = "parsing" /\ field = 0 /\ IsSeconds
    /\ \/ /\ SecondsAllowed = {}
          /\ Reject(1, 1)
       \/ \E n \in SecondsAllowed :
             /\ schedule' = [schedule EXCEPT !.SECONDS = TRUE, !.secondsInterval = n]
             /\ verdict' = "accepted"
             /\ UNCHANGED <<command, error, field, token>>

(* Five fields, or an error that names none.                                 *)
CountFields ==
    /\ verdict = "parsing" /\ field = 0 /\ ~IsSeconds
    /\ \/ /\ Len(command) # 5
          /\ Reject(0, 0)
       \/ /\ Len(command) = 5
          /\ field' = 1
          /\ UNCHANGED <<command, schedule, error, token, verdict>>

(* parse_cron_field up to its loop: no item of the list may be empty.        *)
parse_cron_field ==
    /\ verdict = "parsing" /\ field > 0 /\ token = 0
    /\ \/ /\ has_empty_part(command[field], <<<<EmptyWord>>>>)
          /\ Reject(field, 0)
       \/ /\ ~has_empty_part(command[field], <<<<EmptyWord>>>>)
          /\ token' = 1
          /\ UNCHANGED <<command, schedule, error, field, verdict>>

(* One turn of its loop; after the last item of the last field all is well.  *)
ParseItem ==
    LET type == FieldType[field]
        r    == parse_field_item(type, command[field][token])
    IN
    /\ verdict = "parsing" /\ token > 0
    /\ \/ /\ ~r.ok
          /\ Reject(field, token)
       \/ /\ r.ok
          /\ schedule' = WithItem(schedule, type, r)
          /\ token' = IF token < Len(command[field]) THEN token + 1 ELSE 0
          /\ field' = IF token = Len(command[field]) /\ field < 5 THEN field + 1 ELSE field
          /\ verdict' = IF token = Len(command[field]) /\ field = 5
                        THEN "accepted" ELSE "parsing"
          /\ UNCHANGED <<command, error>>

parse_with_error == ParseSeconds \/ CountFields \/ parse_cron_field \/ ParseItem

-----------------------------------------------------------------------------
(* What a text means, without a parser: the reference the parser is checked  *)
(* against.                                                                  *)

(* The number a word stands for in a field.                                  *)
Numbers(type, w) == parse_field_value(type, <<w>>)

(* An item as an arithmetic progression: first, last, step.                  *)
Progressions(type, item) ==
    LET base  == item[1]
        whole == {"star"} \cup (IF type = "CRON_DOM" THEN {"last"} ELSE {})
        ends  == IF Len(base) = 2
                 THEN Numbers(type, base[1]) \X
                        (Numbers(type, base[2]) \cup
                            (IF type = "CRON_DOM" /\ base[2].kind = "last" THEN {31} ELSE {}))
                 ELSE IF Len(base) = 1 /\ base[1].kind \in whole
                 THEN {<<get_bounds[type].min, get_bounds[type].max>>}
                 ELSE IF Len(base) = 1 /\ Len(item) = 1
                 THEN {<<n, n>> : n \in Numbers(type, base[1])}
                 ELSE {}
        steps == IF Len(item) = 1 THEN {1}
                 ELSE IF Len(item) = 2 THEN parse_integer(item[2]) \ {0}
                 ELSE {}
    IN {<<e[1], e[2], n>> : e \in ends, n \in steps}

Members(p) == {v \in p[1]..p[2] : (v - p[1]) % p[3] = 0}

IsLastDay(type, item) == type = "CRON_DOM" /\ IsToken(item, "last")

Denotes(type, item) ==
    IF IsLastDay(type, item) THEN {}
    ELSE UNION {Members(p) : p \in Progressions(type, item)}

(* An item is well formed when it names at least one number, all of them in  *)
(* range, and counting past the last of them stays within an int.            *)
WellFormed(type, item) ==
    \/ IsLastDay(type, item)
    \/ /\ Denotes(type, item) # {}
       /\ Denotes(type, item) \subseteq Bounds(type)
       /\ \A p \in Progressions(type, item) :
             \A v \in Members(p) : p[2] - v < p[3] => v + p[3] <= IntMax

Faults(f) == {t \in DOMAIN command[f] : ~WellFormed(FieldType[f], command[f][t])}
Holes(f)  == {t \in DOMAIN command[f] : IsToken(command[f][t], "empty")}

(* Where the first fault is: its field, and its item unless the list itself  *)
(* has a hole.                                                               *)
FirstFault ==
    IF IsSeconds THEN IF Interval \cap (1..59) = {} THEN {<<1, 1>>} ELSE {}
    ELSE IF Len(command) # 5 THEN {<<0, 0>>}
    ELSE LET bad == {f \in 1..5 : Faults(f) # {}}
         IN IF bad = {} THEN {}
            ELSE {<<Min(bad), IF Holes(Min(bad)) # {} THEN 0 ELSE Min(Faults(Min(bad)))>>}

FieldMeans(f) ==
    {IF f = 5 /\ v = 7 THEN 0 ELSE v :
        v \in UNION {Denotes(FieldType[f], command[f][t]) : t \in DOMAIN command[f]}}

HasToken(f, kind) == \E t \in DOMAIN command[f] : IsToken(command[f][t], kind)

-----------------------------------------------------------------------------
(* The schedule fits the arrays of CronSchedule at every step: no write      *)
(* beyond them, Sunday as 7 included.                                        *)
ParserTypeOK ==
    /\ schedule \in CronSchedule
    /\ \A t \in Types : schedule.bits[t] \subseteq 0..ArrayEnd[t]
    /\ field \in 0..5 /\ token \in Nat
    /\ verdict \in {"parsing", "accepted", "rejected"}

(* README: an incorrect schedule is answered with the field and the token.   *)
(* The parser accepts exactly the well-formed texts, and for any other it    *)
(* points at the first fault (parse_with_error, set_parse_error).            *)
VerdictIsGrammar ==
    /\ verdict = "accepted" => FirstFault = {}
    /\ verdict = "rejected" => FirstFault = {error}

(* An accepted schedule has the bits the text denotes and no others, each    *)
(* field in its own array; a bare star, wherever it stands in the list, and  *)
(* a last-day token are remembered (set_field_range, mark_star_field).  One   *)
(* of the form "N seconds" has the interval the text names.                  *)
BitsDenote ==
    verdict = "accepted" =>
        IF IsSeconds THEN schedule.SECONDS /\ Interval = {schedule.secondsInterval}
        ELSE /\ ~schedule.SECONDS
             /\ \A f \in 1..5 : schedule.bits[FieldType[f]] = FieldMeans(f)
             /\ \A f \in {1, 2, 3, 5} : FieldType[f] \in schedule.star <=> HasToken(f, "star")
             /\ schedule.LAST_DOM <=> HasToken(3, "last")
=============================================================================
