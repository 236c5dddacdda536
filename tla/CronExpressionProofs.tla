------------------------- MODULE CronExpressionProofs -------------------------
(***************************************************************************)
(* Proofs about the parser and the three places it is called from, for any  *)
(* set of texts: the parser never leaves the arrays of CronSchedule, what    *)
(* it accepts and where it finds fault is what the grammar says, the bits    *)
(* are those the text denotes, the CHECK constraint lets in no text the      *)
(* worker would refuse, and a loaded job is due exactly when its text says.  *)
(***************************************************************************)
EXTENDS CronExpression, CronItemProofs, CalendarProofs, TLAPS

-----------------------------------------------------------------------------
(* One item.                                                                *)

(* The values of an accepted item lie within the bounds of its field.       *)
Fits(r, type) == (r.ok => r.values \subseteq Bounds(type))

LEMMA RejectedFits ==
    ASSUME NEW type PROVE Fits(Rejected, type)
BY DEF Fits, Rejected

LEMMA RangeFits ==
    ASSUME NEW type, NEW start, NEW finish, NEW step
    PROVE  Fits(set_field_range(type, start, finish, step), type)
<1> DEFINE V == Visited(type, start, finish, step)
           r == [Rejected EXCEPT !.ok = (V \subseteq Bounds(type)), !.values = V]
<1>1. Fits(r, type)
  <2> HIDE DEF V
  <2> QED BY DEF Fits, Rejected
<1> HIDE DEF V
<1> QED BY <1>1, RejectedFits DEF set_field_range, V

LEMMA RangesFit ==
    ASSUME NEW type, NEW part, NEW step
    PROVE  Fits(Ranges(type, part, step), type) /\ Fits(WholeRange(type, step), type)
BY RangeFits, RejectedFits DEF Ranges, WholeRange

LEMMA StepFits ==
    ASSUME NEW type, NEW item
    PROVE  Fits(StepItem(type, item), type)
BY RangesFit, RejectedFits DEF StepItem


LEMMA ItemFits ==
    ASSUME NEW type, NEW item
    PROVE  Fits(parse_field_item(type, item), type)
<1> DEFINE r == parse_field_item(type, item)
           w == WholeRange(type, 1)
           n == parse_field_value(type, item[1])
<1>1. Fits([Rejected EXCEPT !.ok = TRUE, !.last = TRUE], type)
  BY DEF Fits, Rejected
<1>2. Fits([w EXCEPT !.star = TRUE], type)
  <2>1. Fits(w, type) /\ [w EXCEPT !.star = TRUE].ok = w.ok
        /\ [w EXCEPT !.star = TRUE].values = w.values
    BY RangesFit DEF WholeRange, set_field_range, Rejected
  <2> QED BY <2>1 DEF Fits
<1>3. Fits([Rejected EXCEPT !.ok = n # {} /\ n \subseteq Bounds(type), !.values = n], type)
  <2> HIDE DEF n
  <2> QED BY DEF Fits, Rejected
<1>4. \/ r = Rejected
      \/ r = [Rejected EXCEPT !.ok = TRUE, !.last = TRUE]
      \/ r = [w EXCEPT !.star = TRUE]
      \/ r = StepItem(type, item)
      \/ r = Ranges(type, item[1], 1)
      \/ r = [Rejected EXCEPT !.ok = n # {} /\ n \subseteq Bounds(type), !.values = n]
  BY DEF parse_field_item
<1>5. /\ Fits(Rejected, type) /\ Fits(StepItem(type, item), type)
      /\ Fits(Ranges(type, item[1], 1), type)
  BY RejectedFits, RangesFit, StepFits
<1> HIDE DEF r, w, n
<1>6. Fits(r, type)
  BY <1>1, <1>2, <1>3, <1>4, <1>5
<1> QED BY <1>6 DEF r

-----------------------------------------------------------------------------
(* The schedule stays within its arrays.                                    *)

LEMMA FieldTypes ==
    ASSUME NEW f \in 1..5 PROVE FieldType[f] \in Types
<1>1. DOMAIN FieldType = 1..5
  BY DEF FieldType
<1> QED BY <1>1 DEF Types, Range

(* 7 is the one value of a field that has no place in its array, and it is  *)
(* not written there.                                                       *)
LEMMA ValueFits ==
    ASSUME NEW type \in Types, NEW v \in Bounds(type)
    PROVE  set_field_value(type, v) \in 0..ArrayEnd[type]
<1>1. CASE type = "CRON_MINUTE"
  BY <1>1 DEF Bounds, get_bounds, ArrayEnd, set_field_value
<1>2. CASE type = "CRON_HOUR"
  BY <1>2 DEF Bounds, get_bounds, ArrayEnd, set_field_value
<1>3. CASE type = "CRON_DOM"
  BY <1>3 DEF Bounds, get_bounds, ArrayEnd, set_field_value
<1>4. CASE type = "CRON_M"
  BY <1>4 DEF Bounds, get_bounds, ArrayEnd, set_field_value
<1>5. CASE type = "CRON_DOW"
  BY <1>5 DEF Bounds, get_bounds, ArrayEnd, set_field_value
<1> QED BY <1>1, <1>2, <1>3, <1>4, <1>5, TypeNames


(* One more item leaves a schedule a schedule.                              *)
ScheduleOK(s) ==
    /\ s \in CronSchedule
    /\ \A t \in Types : s.bits[t] \subseteq 0..ArrayEnd[t]

LEMMA EmptyOK == ScheduleOK(EmptySchedule)
BY DEF ScheduleOK, EmptySchedule, CronSchedule

LEMMA WithItemOK ==
    ASSUME NEW s, ScheduleOK(s), NEW type \in Types, NEW r, Fits(r, type), r.ok
    PROVE  ScheduleOK(WithItem(s, type, r))
<1> DEFINE new  == {set_field_value(type, v) : v \in r.values}
           bits == [s.bits EXCEPT ![type] = @ \cup new]
           star == IF r.star THEN mark_star_field(s, type) ELSE s.star
           last == s.LAST_DOM \/ r.last
<1>1. /\ s.bits \in [Types -> SUBSET Nat] /\ s.star \subseteq Types
      /\ \A t \in Types : s.bits[t] \subseteq 0..ArrayEnd[t]
  BY DEF ScheduleOK, CronSchedule
<1>2. new \subseteq 0..ArrayEnd[type]
  BY ValueFits DEF Fits
<1>3. bits \in [Types -> SUBSET Nat] /\ \A t \in Types : bits[t] \subseteq 0..ArrayEnd[t]
  <2> HIDE DEF new
  <2>1. bits[type] = s.bits[type] \cup new /\ \A t \in Types \ {type} : bits[t] = s.bits[t]
    BY <1>1
  <2>2. \A t \in Types : bits[t] \subseteq 0..ArrayEnd[t]
    BY <1>1, <1>2, <2>1
  <2>3. new \subseteq Nat
    BY <1>2
  <2> QED BY <1>1, <2>1, <2>2, <2>3
<1>4. star \in SUBSET Types
  BY <1>1 DEF mark_star_field
<1>5. last \in BOOLEAN
  OBVIOUS
<1>6. WithItem(s, type, r) = [s EXCEPT !.bits = bits, !.star = star, !.LAST_DOM = last]
  BY DEF WithItem, ScheduleOK, CronSchedule
<1> HIDE DEF new, bits, star, last
<1>7. [s EXCEPT !.bits = bits, !.star = star, !.LAST_DOM = last] \in CronSchedule
  BY <1>3, <1>4, <1>5 DEF ScheduleOK, CronSchedule
<1>8. [s EXCEPT !.bits = bits, !.star = star, !.LAST_DOM = last].bits = bits
  BY DEF ScheduleOK, CronSchedule
<1> QED BY <1>3, <1>6, <1>7, <1>8 DEF ScheduleOK


-----------------------------------------------------------------------------
(* The inductive invariant.  Whether a text is accepted depends on the text *)
(* alone, however the parser gets there.                                    *)

FieldAccepted(f) ==
    /\ ~has_empty_part(command[f], <<<<EmptyWord>>>>)
    /\ \A t \in 1..Len(command[f]) : parse_field_item(FieldType[f], command[f][t]).ok

Acceptable ==
    IF IsSeconds THEN SecondsAllowed # {}
    ELSE Len(command) = 5 /\ \A f \in 1..5 : FieldAccepted(f)

(* What a parser in progress has behind it is accepted.                     *)
ParsedSoFar ==
    /\ field = 0 => token = 0
    /\ field > 0 =>
          /\ ~IsSeconds /\ Len(command) = 5
          /\ \A f \in 1..(field - 1) : FieldAccepted(f)
    /\ token > 0 =>
          /\ ~has_empty_part(command[field], <<<<EmptyWord>>>>)
          /\ token <= Len(command[field])
          /\ \A t \in 1..(token - 1) :
                parse_field_item(FieldType[field], command[field][t]).ok

ParserInv ==
    /\ ParserTypeOK /\ command \in Commands
    /\ verdict = "parsing" => ParsedSoFar
    /\ verdict = "accepted" => Acceptable
    /\ verdict = "rejected" => ~Acceptable

(* A row is one of a text the parser accepts.                               *)
RowOK == row => Acceptable /\ caller # "skipped"

ExpressionInv == ParserInv /\ RowOK

LEMMA ParserType ==
    ParserTypeOK <=> /\ ScheduleOK(schedule) /\ field \in 0..5 /\ token \in Nat
                     /\ verdict \in {"parsing", "accepted", "rejected"}
BY DEF ParserTypeOK, ScheduleOK

(* The text does not change.                                                *)
LEMMA SameText ==
    ASSUME UNCHANGED command
    PROVE  /\ Acceptable' <=> Acceptable
           /\ IsSeconds' <=> IsSeconds
           /\ \A f \in 1..5 : FieldAccepted(f)' <=> FieldAccepted(f)
<1>1. \A f \in 1..5 : FieldAccepted(f)' <=> FieldAccepted(f)
  BY DEF FieldAccepted
<1>2. IsSeconds' <=> IsSeconds
  BY DEF IsSeconds
<1>3. SecondsAllowed' = SecondsAllowed
  BY DEF SecondsAllowed, Interval
<1> QED BY <1>1, <1>2, <1>3 DEF Acceptable

LEMMA Member ==
    \A S : \A c \in Seq(S) : \A i \in 1..Len(c) : c[i] \in S
OBVIOUS

LEMMA FieldShape ==
    ASSUME command \in Commands, Len(command) = 5, NEW f \in 1..5
    PROVE  Len(command[f]) \in Nat /\ Len(command[f]) > 0
<1>1. command \in Seq(Parts(Parts(Parts(Words))))
  BY CronParserAssumption DEF Parts
<1>2. command[f] \in Parts(Parts(Parts(Words)))
  BY <1>1, Member
<1>3. command[f] \in Seq(Parts(Parts(Words))) /\ command[f] # <<>>
  BY <1>2 DEF Parts
<1> QED BY <1>3

LEMMA SecondsShape ==
    ASSUME command \in Commands, IsSeconds, NEW n \in SecondsAllowed
    PROVE  n \in 0..59
<1> DEFINE part == command[1][1][1]
<1>1. n \in parse_integer(part) /\ Len(command[1]) = 1 /\ Len(command[1][1]) = 1
      /\ n >= 1 /\ n <= 59
  BY DEF SecondsAllowed, Interval
<1>2. n = part[1].val /\ Len(part) = 1
  BY <1>1 DEF parse_integer, IsWord
<1>3. command \in Seq(Parts(Parts(Parts(Words)))) /\ Len(command) = 2
  BY CronParserAssumption DEF Parts, IsSeconds
<1>4. command[1] \in Seq(Parts(Parts(Words)))
  BY <1>3 DEF Parts
<1>5. command[1][1] \in Seq(Parts(Words))
  BY <1>1, <1>4 DEF Parts
<1>6. part \in Seq(Words)
  BY <1>1, <1>5 DEF Parts
<1>7. part[1] \in Words
  BY <1>2, <1>6
<1> QED BY <1>1, <1>2, <1>7 DEF Words

LEMMA Rejects ==
    ASSUME ParserInv, NEW f, NEW t, Reject(f, t), ~Acceptable
    PROVE  ParserInv'
<1>1. ParserTypeOK' /\ command' \in Commands
  BY DEF ParserInv, ParserTypeOK, Reject
<1>2. ~Acceptable'
  BY SameText DEF Reject
<1> QED BY <1>1, <1>2 DEF ParserInv, Reject

LEMMA SecondsStep ==
    ASSUME ParserInv, ParseSeconds
    PROVE  ParserInv'
<1>1. CASE SecondsAllowed = {} /\ Reject(1, 1)
  BY <1>1, Rejects DEF ParseSeconds, Acceptable
<1>2. CASE \E n \in SecondsAllowed :
             /\ schedule' = [schedule EXCEPT !.SECONDS = TRUE, !.secondsInterval = n]
             /\ verdict' = "accepted"
             /\ UNCHANGED <<command, error, field, token>>
  <2>1. PICK n \in SecondsAllowed :
             /\ schedule' = [schedule EXCEPT !.SECONDS = TRUE, !.secondsInterval = n]
             /\ verdict' = "accepted"
             /\ UNCHANGED <<command, error, field, token>>
    BY <1>2
  <2>2. n \in 0..59
    BY SecondsShape DEF ParserInv, ParseSeconds
  <2>3. schedule' \in CronSchedule /\ schedule'.bits = schedule.bits
    BY <2>1, <2>2 DEF ParserInv, ParserTypeOK, CronSchedule
  <2>4. ParserTypeOK'
    BY <2>1, <2>3 DEF ParserInv, ParserTypeOK
  <2>5. Acceptable'
    <3>1. Acceptable
      BY DEF Acceptable, ParseSeconds
    <3> QED BY <2>1, <3>1, SameText
  <2> QED BY <2>1, <2>4, <2>5 DEF ParserInv
<1> QED BY <1>1, <1>2 DEF ParseSeconds

LEMMA CountStep ==
    ASSUME ParserInv, CountFields
    PROVE  ParserInv'
<1>1. CASE Len(command) # 5 /\ Reject(0, 0)
  BY <1>1, Rejects DEF CountFields, Acceptable
<1>2. CASE Len(command) = 5 /\ field' = 1 /\ UNCHANGED <<command, schedule, error, token, verdict>>
  <2>1. ParserTypeOK'
    BY <1>2 DEF ParserInv, ParserTypeOK
  <2>2. token' = 0 /\ verdict' = "parsing"
    BY <1>2 DEF ParserInv, ParsedSoFar, CountFields
  <2>3. ~IsSeconds' /\ Len(command') = 5
    BY <1>2, SameText DEF CountFields
  <2>4. ParsedSoFar'
    BY <1>2, <2>2, <2>3 DEF ParsedSoFar
  <2> QED BY <1>2, <2>1, <2>2, <2>4 DEF ParserInv
<1> QED BY <1>1, <1>2 DEF CountFields

LEMMA FieldStep ==
    ASSUME ParserInv, parse_cron_field
    PROVE  ParserInv'
<1>1. /\ verdict = "parsing" /\ field \in 1..5 /\ token = 0 /\ command \in Commands
      /\ ~IsSeconds /\ Len(command) = 5 /\ \A f \in 1..(field - 1) : FieldAccepted(f)
  BY DEF parse_cron_field, ParserInv, ParserTypeOK, ParsedSoFar
<1>2. CASE has_empty_part(command[field], <<<<EmptyWord>>>>) /\ Reject(field, 0)
  <2>1. ~FieldAccepted(field)
    BY <1>2 DEF FieldAccepted
  <2>2. ~Acceptable
    BY <1>1, <2>1 DEF Acceptable
  <2> QED BY <1>2, <2>2, Rejects
<1>3. CASE /\ ~has_empty_part(command[field], <<<<EmptyWord>>>>) /\ token' = 1
           /\ UNCHANGED <<command, schedule, error, field, verdict>>
  <2>1. ParserTypeOK'
    BY <1>3 DEF ParserInv, ParserTypeOK
  <2>2. Len(command[field]) \in Nat /\ Len(command[field]) > 0
    BY <1>1, FieldShape
  <2>3. ParsedSoFar'
    <3>1. ~IsSeconds' /\ \A f \in 1..(field - 1) : FieldAccepted(f)'
      BY <1>1, <1>3, SameText
    <3> QED BY <1>1, <1>3, <2>2, <3>1 DEF ParsedSoFar
  <2> QED BY <1>1, <1>3, <2>1, <2>3 DEF ParserInv
<1> QED BY <1>2, <1>3 DEF parse_cron_field

LEMMA ItemStep ==
    ASSUME ParserInv, ParseItem
    PROVE  ParserInv'
<1> DEFINE r == parse_field_item(FieldType[field], command[field][token])
<1>1. /\ verdict = "parsing" /\ field \in 1..5 /\ token \in Nat /\ token > 0 /\ command \in Commands
      /\ ~IsSeconds /\ Len(command) = 5 /\ \A f \in 1..(field - 1) : FieldAccepted(f)
      /\ ~has_empty_part(command[field], <<<<EmptyWord>>>>)
      /\ token <= Len(command[field])
      /\ \A t \in 1..(token - 1) : parse_field_item(FieldType[field], command[field][t]).ok
  BY DEF ParseItem, ParserInv, ParserTypeOK, ParsedSoFar
<1>2. Len(command[field]) \in Nat
  BY <1>1, FieldShape
<1>3. CASE ~r.ok /\ Reject(field, token)
  <2>1. ~FieldAccepted(field)
    BY <1>1, <1>2, <1>3 DEF FieldAccepted
  <2>2. ~Acceptable
    BY <1>1, <2>1 DEF Acceptable
  <2> QED BY <1>3, <2>2, Rejects
<1>4. CASE r.ok /\ ~(~r.ok /\ Reject(field, token))
  <2>1. /\ schedule' = WithItem(schedule, FieldType[field], r)
        /\ token' = IF token < Len(command[field]) THEN token + 1 ELSE 0
        /\ field' = IF token = Len(command[field]) /\ field < 5 THEN field + 1 ELSE field
        /\ verdict' = IF token = Len(command[field]) /\ field = 5
                      THEN "accepted" ELSE "parsing"
        /\ UNCHANGED <<command, error>>
    BY <1>4 DEF ParseItem
  <2>2. ScheduleOK(schedule')
    <3>1. Fits(r, FieldType[field]) /\ FieldType[field] \in Types
      BY <1>1, ItemFits, FieldTypes
    <3> HIDE DEF r
    <3> QED BY <1>4, <2>1, <3>1, WithItemOK, ParserType DEF ParserInv
  <2>3. ParserTypeOK'
    <3>1. field' \in 0..5 /\ token' \in Nat /\ verdict' \in {"parsing", "accepted", "rejected"}
      BY <1>1, <2>1
    <3> QED BY <2>2, <3>1 DEF ParserTypeOK, ScheduleOK
  <2>4. \A t \in 1..token : parse_field_item(FieldType[field], command[field][t]).ok
    BY <1>1, <1>4
  <2>5. CASE token < Len(command[field])
    <3>1. token' = token + 1 /\ field' = field /\ verdict' = "parsing"
      BY <1>1, <1>2, <2>1, <2>5
    <3>2. ~IsSeconds' /\ \A f \in 1..(field - 1) : FieldAccepted(f)'
      BY <1>1, <2>1, SameText
    <3>3. ParsedSoFar'
      BY <1>1, <1>2, <2>1, <2>4, <2>5, <3>1, <3>2 DEF ParsedSoFar
    <3> QED BY <1>1, <2>1, <2>3, <3>1, <3>3 DEF ParserInv
  <2>6. CASE token = Len(command[field])
    <3>1. FieldAccepted(field)
      BY <1>1, <2>4, <2>6 DEF FieldAccepted
    <3>2. \A f \in 1..field : FieldAccepted(f)'
      BY <1>1, <2>1, <3>1, SameText
    <3>3. ~IsSeconds' /\ token' = 0 /\ Len(command') = 5
      BY <1>1, <1>2, <2>1, <2>6, SameText
    <3>4. CASE field = 5
      <4>1. Acceptable'
        BY <3>2, <3>3, <3>4 DEF Acceptable
      <4> QED BY <1>1, <2>1, <2>3, <2>6, <3>4, <4>1 DEF ParserInv
    <3>5. CASE field # 5
      <4>1. field' = field + 1 /\ verdict' = "parsing"
        BY <1>1, <2>1, <2>6, <3>5
      <4>2. ParsedSoFar'
        BY <1>1, <3>2, <3>3, <4>1 DEF ParsedSoFar
      <4> QED BY <1>1, <2>1, <2>3, <4>1, <4>2 DEF ParserInv
    <3> QED BY <3>4, <3>5
  <2> QED BY <1>1, <1>2, <2>5, <2>6
<1> QED BY <1>3, <1>4 DEF ParseItem


-----------------------------------------------------------------------------
(* The callers.                                                             *)

LEMMA AgainStep ==
    ASSUME ParserInv, NEW next, ParsedAgainBy(next)
    PROVE  ParserInv'
<1>1. /\ schedule' = EmptySchedule /\ field' = 0 /\ token' = 0 /\ verdict' = "parsing"
      /\ UNCHANGED command
  BY DEF ParsedAgainBy
<1>2. ParserTypeOK'
  BY <1>1, EmptyOK DEF ParserTypeOK, ScheduleOK
<1>3. ParsedSoFar'
  BY <1>1 DEF ParsedSoFar
<1> QED BY <1>1, <1>2, <1>3 DEF ParserInv

LEMMA SameParser ==
    ASSUME ParserInv, UNCHANGED parserVars
    PROVE  ParserInv'
<1>1. UNCHANGED <<command, schedule, error, field, token, verdict>>
  BY DEF parserVars
<1>2. ParserTypeOK' /\ ParsedSoFar' = ParsedSoFar
  BY <1>1 DEF ParserInv, ParserTypeOK, ParsedSoFar, FieldAccepted, IsSeconds
<1> QED BY <1>1, <1>2, SameText DEF ParserInv

LEMMA ExpressionStep ==
    ExpressionInv /\ [Next]_vars => ExpressionInv'
<1> SUFFICES ASSUME ExpressionInv, [Next]_vars PROVE ExpressionInv'
  OBVIOUS
<1>1. ParserInv /\ RowOK
  BY DEF ExpressionInv
<1>2. Acceptable' <=> Acceptable
  <2>1. UNCHANGED command
    BY DEF Next, ParseStep, parse_with_error, ParseSeconds, CountFields, parse_cron_field,
           ParseItem, Reject, schedule_job, check_schedule, TupleToJob, NextDay,
           ParsedAgainBy, Ends, parserVars, vars
  <2> QED BY <2>1, SameText
<1>3. CASE ParseStep
  <2>1. ParserInv'
    BY <1>1, <1>3, SecondsStep, CountStep, FieldStep, ItemStep DEF ParseStep, parse_with_error
  <2>2. RowOK'
    BY <1>1, <1>2, <1>3 DEF ParseStep, RowOK, expressionVars
  <2> QED BY <2>1, <2>2 DEF ExpressionInv
<1>4. CASE schedule_job
  <2>1. ParserInv'
    BY <1>1, <1>4, AgainStep, SameParser DEF schedule_job, Ends
  <2>2. RowOK'
    BY <1>1, <1>2, <1>4 DEF schedule_job, RowOK, Ends, ParsedAgainBy
  <2> QED BY <2>1, <2>2 DEF ExpressionInv
<1>5. CASE check_schedule
  <2>1. ParserInv'
    BY <1>1, <1>5, AgainStep, SameParser DEF check_schedule, Ends
  <2>2. RowOK'
    BY <1>1, <1>2, <1>5 DEF check_schedule, RowOK, ParserInv, Ends, ParsedAgainBy
  <2> QED BY <2>1, <2>2 DEF ExpressionInv
<1>6. CASE TupleToJob
  <2>1. ParserInv'
    BY <1>1, <1>6, SameParser DEF TupleToJob, Ends
  <2>2. RowOK'
    BY <1>1, <1>2, <1>6 DEF TupleToJob, RowOK, ParserInv, Ends
  <2> QED BY <2>1, <2>2 DEF ExpressionInv
<1>7. CASE NextDay
  <2>1. ParserInv'
    BY <1>1, <1>7, SameParser DEF NextDay
  <2>2. RowOK'
    BY <1>1, <1>2, <1>7 DEF NextDay, RowOK
  <2> QED BY <2>1, <2>2 DEF ExpressionInv
<1>8. CASE UNCHANGED vars
  <2>1. ParserInv'
    BY <1>1, <1>8, SameParser DEF vars
  <2>2. RowOK'
    BY <1>1, <1>2, <1>8 DEF vars, expressionVars, RowOK
  <2> QED BY <2>1, <2>2 DEF ExpressionInv
<1> QED BY <1>3, <1>4, <1>5, <1>6, <1>7, <1>8 DEF Next

LEMMA ExpressionInit ==
    Init => ExpressionInv
<1> SUFFICES ASSUME Init PROVE ExpressionInv
  OBVIOUS
<1>1. ParserTypeOK
  BY EmptyOK DEF Init, ParserInit, ParserTypeOK, ScheduleOK
<1> QED BY <1>1 DEF Init, ParserInit, ExpressionInv, ParserInv, ParsedSoFar, RowOK

LEMMA Expressions == Spec => []ExpressionInv
BY ExpressionInit, ExpressionStep, PTL DEF Spec

(* Whatever the text, the parser writes no bit beyond the arrays of         *)
(* CronSchedule: an item is accepted only when all its values are within    *)
(* the bounds of its field, and Sunday as 7 goes to 0 (set_field_value).    *)
THEOREM ParserStaysInside == Spec => []ParserTypeOK
<1>1. ExpressionInv => ParserTypeOK
  BY DEF ExpressionInv, ParserInv
<1> QED BY <1>1, Expressions, PTL

(* A row the CHECK constraint let in is loaded: the three callers of        *)
(* parse_with_error agree on every text (check_schedule, TupleToJob).       *)
THEOREM RowsLoad == Spec => []RowIsLoaded
<1>1. ExpressionInv => RowIsLoaded
  BY DEF ExpressionInv, RowOK, RowIsLoaded
<1> QED BY <1>1, Expressions, PTL

-----------------------------------------------------------------------------
(* What a text means.  The schedule holds, of each field, the items that    *)
(* have been read; a verdict against the text names its first fault; and a  *)
(* loaded job is the schedule of its text.                                  *)

(* The schedule s has of the field of that type the items D of the list.    *)
Holds(s, type, items, D) ==
    /\ s.bits[type] = {set_field_value(type, v) :
                          v \in UNION {Denotes(type, items[t]) : t \in D}}
    /\ type # "CRON_M" =>
          (type \in s.star <=> \E t \in D : IsToken(items[t], "star"))
    /\ type = "CRON_DOM" => (s.LAST_DOM <=> \E t \in D : IsToken(items[t], "last"))

ReadOf(f) == {t \in DOMAIN command[f] : f < field \/ (f = field /\ t < token)}

ReadSoFar ==
    /\ field = 0 => schedule = EmptySchedule
    /\ field > 0 =>
          /\ ~schedule.SECONDS
          /\ \A f \in 1..5 : Holds(schedule, FieldType[f], command[f], ReadOf(f))

ReadAll ==
    IF IsSeconds THEN schedule.SECONDS /\ schedule.secondsInterval \in SecondsAllowed
    ELSE /\ ~schedule.SECONDS
         /\ \A f \in 1..5 : Holds(schedule, FieldType[f], command[f], DOMAIN command[f])

Meaning ==
    /\ verdict = "parsing" => ReadSoFar
    /\ verdict = "accepted" => ReadAll
    /\ verdict = "rejected" => FirstFault = {error}

LoadedOK ==
    /\ caller = "loaded" => verdict = "accepted" /\ job = schedule
    /\ day \in Nat

MeaningInv == ExpressionInv /\ Meaning /\ LoadedOK


LEMMA HoldsItem ==
    ASSUME NEW s \in CronSchedule, NEW type \in Types, NEW items, NEW D, NEW t,
           items[t] \in Item, parse_field_item(type, items[t]).ok, Holds(s, type, items, D)
    PROVE  Holds(WithItem(s, type, parse_field_item(type, items[t])), type, items, D \cup {t})
<1> DEFINE r      == parse_field_item(type, items[t])
           w      == WithItem(s, type, r)
           Den(u) == Denotes(type, items[u])
           value(v) == set_field_value(type, v)
<1>1. /\ r.values = Den(t) /\ (r.star <=> IsToken(items[t], "star"))
      /\ (r.last <=> IsLastDay(type, items[t]))
  BY ItemRight DEF Item
<1>2. /\ w.bits[type] = s.bits[type] \cup {value(v) : v \in r.values}
      /\ w.star = IF r.star THEN mark_star_field(s, type) ELSE s.star
      /\ w.LAST_DOM = (s.LAST_DOM \/ r.last)
  BY DEF WithItem, CronSchedule
<1>3. /\ s.bits[type] = {value(v) : v \in UNION {Den(u) : u \in D}}
      /\ type # "CRON_M" => (type \in s.star <=> \E u \in D : IsToken(items[u], "star"))
      /\ type = "CRON_DOM" => (s.LAST_DOM <=> \E u \in D : IsToken(items[u], "last"))
  BY DEF Holds
<1> HIDE DEF r, w, Den, value
<1>4. w.bits[type] = {value(v) : v \in UNION {Den(u) : u \in D \cup {t}}}
  <2>1. UNION {Den(u) : u \in D \cup {t}} = (UNION {Den(u) : u \in D}) \cup Den(t)
    OBVIOUS
  <2> DEFINE A == UNION {Den(u) : u \in D}
  <2> HIDE DEF A
  <2>2. {value(v) : v \in A \cup Den(t)} = {value(v) : v \in A} \cup {value(v) : v \in Den(t)}
    OBVIOUS
  <2> QED BY <1>1, <1>2, <1>3, <2>1, <2>2 DEF A
<1>5. type # "CRON_M" => (type \in w.star <=> \E u \in D \cup {t} : IsToken(items[u], "star"))
  <2>1. type # "CRON_M" => (type \in w.star <=> type \in s.star \/ r.star)
    BY <1>2 DEF mark_star_field
  <2> QED BY <1>1, <1>3, <2>1
<1>6. type = "CRON_DOM" => (w.LAST_DOM <=> \E u \in D \cup {t} : IsToken(items[u], "last"))
  BY <1>1, <1>2, <1>3 DEF IsLastDay
<1> QED BY <1>4, <1>5, <1>6 DEF Holds, w, r, Den, value

(* An item of one field leaves the others alone.                            *)
LEMMA HoldsOther ==
    ASSUME NEW s \in CronSchedule, NEW type \in Types, NEW item \in Item,
           NEW other \in Types \ {type}, NEW items, NEW D, Holds(s, other, items, D)
    PROVE  Holds(WithItem(s, type, parse_field_item(type, item)), other, items, D)
<1> DEFINE r == parse_field_item(type, item)
           w == WithItem(s, type, r)
<1>1. r.last => type = "CRON_DOM"
  BY ItemRight DEF Item, IsLastDay
<1>2. /\ w.bits[other] = s.bits[other]
      /\ w.star = IF r.star THEN mark_star_field(s, type) ELSE s.star
      /\ w.LAST_DOM = (s.LAST_DOM \/ r.last)
  BY DEF WithItem, CronSchedule
<1> HIDE DEF r, w
<1>3. other \in w.star <=> other \in s.star
  BY <1>2 DEF mark_star_field
<1>4. other = "CRON_DOM" => (w.LAST_DOM <=> s.LAST_DOM)
  BY <1>1, <1>2
<1> QED BY <1>2, <1>3, <1>4 DEF Holds, w, r

LEMMA HoldsNothing ==
    ASSUME NEW type \in Types, NEW items
    PROVE  Holds(EmptySchedule, type, items, {})
BY DEF Holds, EmptySchedule

-----------------------------------------------------------------------------
(* The first fault.                                                         *)

LEMMA TextShape ==
    ASSUME command \in Commands, NEW f \in 1..Len(command)
    PROVE  /\ command[f] \in Seq(Item) /\ Len(command[f]) \in Nat /\ Len(command[f]) > 0
           /\ DOMAIN command[f] = 1..Len(command[f])
           /\ \A t \in 1..Len(command[f]) : command[f][t] \in Item
<1>1. command \in Seq(Parts(Item))
  BY CronParserAssumption DEF Parts, Item
<1>2. command[f] \in Parts(Item)
  BY <1>1, Member
<1>3. command[f] \in Seq(Item) /\ command[f] # <<>>
  BY <1>2 DEF Parts
<1> HIDE DEF Item
<1>4. Len(command[f]) \in Nat /\ Len(command[f]) > 0 /\ DOMAIN command[f] = 1..Len(command[f])
  BY <1>3
<1> QED BY <1>3, <1>4, Member

LEMMA FaultOf ==
    ASSUME command \in Commands, Len(command) = 5, NEW f \in 1..5
    PROVE  Faults(f) = {t \in 1..Len(command[f]) :
                          ~parse_field_item(FieldType[f], command[f][t]).ok}
<1>1. /\ DOMAIN command[f] = 1..Len(command[f])
      /\ \A t \in 1..Len(command[f]) : command[f][t] \in Item
  BY TextShape
<1>2. \A t \in 1..Len(command[f]) :
         WellFormed(FieldType[f], command[f][t])
            <=> parse_field_item(FieldType[f], command[f][t]).ok
  BY <1>1, FieldTypes, ItemRight DEF Item
<1> QED BY <1>1, <1>2 DEF Faults

(* The empty item, as str_split leaves it and as a token.                   *)
LEMMA EmptyItem ==
    ASSUME NEW item \in Item
    PROVE  /\ IsToken(item, "empty") <=> item = <<<<EmptyWord>>>>
           /\ IsToken(item, "empty") => \A type \in Types : ~parse_field_item(type, item).ok
<1>1. ASSUME IsToken(item, "empty") PROVE item = <<<<EmptyWord>>>>
  <2>1. Len(item) = 1 /\ Len(item[1]) = 1 /\ item[1][1].kind = "empty"
    BY <1>1 DEF IsToken, IsWord
  <2>2. item \in Seq(Parts(Words)) /\ item[1] \in Parts(Words)
    BY <2>1, ItemShape
  <2>3. item[1] \in Seq(Words) /\ item[1][1] \in Words
    BY <2>1, <2>2, PartShape
  <2>4. item[1][1] = EmptyWord
    BY <2>1, <2>3, EmptyWords
  <2>5. \A S : \A x \in Seq(S) : Len(x) = 1 => x = <<x[1]>>
    OBVIOUS
  <2>6. item[1] = <<EmptyWord>>
    BY <2>1, <2>3, <2>4, <2>5
  <2> QED BY <2>1, <2>2, <2>5, <2>6
<1>2. ASSUME item = <<<<EmptyWord>>>> PROVE IsToken(item, "empty")
  BY <1>2 DEF IsToken, IsWord, EmptyWord, Word
<1>3. ASSUME IsToken(item, "empty"), NEW type \in Types
      PROVE  ~parse_field_item(type, item).ok
  <2>1. item[1][1].kind = "empty" /\ Len(item) = 1 /\ Len(item[1]) = 1
    BY <1>3 DEF IsToken, IsWord
  <2>2. ~IsToken(item, "last") /\ ~IsToken(item, "star") /\ ~(Len(item) > 1)
        /\ ~(Len(item) = 1 /\ Len(item[1]) > 1)
    <3>1. ~(1 > 1)
      OBVIOUS
    <3> QED BY <2>1, <3>1 DEF IsToken, IsWord
  <2>3. parse_field_item(type, item) = Rejected
    BY <1>3, <2>2 DEF parse_field_item
  <2> QED BY <2>3 DEF Rejected
<1> QED BY <1>1, <1>2, <1>3

LEMMA HolesOf ==
    ASSUME command \in Commands, Len(command) = 5, NEW f \in 1..5
    PROVE  /\ Holes(f) # {} <=> has_empty_part(command[f], <<<<EmptyWord>>>>)
           /\ Holes(f) \subseteq Faults(f)
<1>1. /\ DOMAIN command[f] = 1..Len(command[f])
      /\ \A t \in 1..Len(command[f]) : command[f][t] \in Item
  BY TextShape
<1>2. Holes(f) = {t \in 1..Len(command[f]) : command[f][t] = <<<<EmptyWord>>>>}
  BY <1>1, EmptyItem DEF Holes
<1>3. Range(command[f]) = {command[f][t] : t \in 1..Len(command[f])}
  BY <1>1 DEF Range
<1>4. Holes(f) # {} <=> has_empty_part(command[f], <<<<EmptyWord>>>>)
  <2> DEFINE e == <<<<EmptyWord>>>>
  <2> HIDE DEF e
  <2>1. Holes(f) = {t \in 1..Len(command[f]) : command[f][t] = e}
    BY <1>2 DEF e
  <2>2. Holes(f) # {} <=> e \in Range(command[f])
    BY <1>3, <2>1
  <2> QED BY <2>2 DEF has_empty_part, e
<1>5. \A t \in Holes(f) : t \in 1..Len(command[f])
                          /\ ~parse_field_item(FieldType[f], command[f][t]).ok
  BY <1>1, <1>2, EmptyItem, FieldTypes
<1> QED BY <1>4, <1>5, FaultOf

LEMMA LeastIsMin ==
    ASSUME NEW T \in SUBSET Nat, NEW x \in T, \A y \in T : x <= y
    PROVE  Min(T) = x
<1>1. Min(T) \in T /\ \A y \in T : Min(T) <= y
  BY Zenon DEF Min
<1>2. Min(T) \in Nat /\ x \in Nat /\ Min(T) <= x /\ x <= Min(T)
  BY <1>1
<1> QED BY <1>2

(* A field whose predecessors are accepted and that is not is the first     *)
(* faulty one.                                                              *)
LEMMA FirstFaultAt ==
    ASSUME command \in Commands, Len(command) = 5, ~IsSeconds, NEW f \in 1..5,
           \A g \in 1..(f - 1) : FieldAccepted(g), Faults(f) # {}
    PROVE  FirstFault = {<<f, IF Holes(f) # {} THEN 0 ELSE Min(Faults(f))>>}
<1> DEFINE bad == {g \in 1..5 : Faults(g) # {}}
<1>1. ASSUME NEW g \in bad PROVE f <= g
  <2>1. ~FieldAccepted(g)
    BY FaultOf DEF FieldAccepted
  <2> QED BY <2>1
<1>2. f \in bad /\ bad \subseteq Nat
  OBVIOUS
<1> HIDE DEF bad
<1>3. Min(bad) = f
  BY <1>1, <1>2, LeastIsMin
<1>4. FirstFault = IF bad = {} THEN {}
        ELSE {<<Min(bad), IF Holes(Min(bad)) # {} THEN 0 ELSE Min(Faults(Min(bad)))>>}
  BY DEF FirstFault, bad
<1> QED BY <1>2, <1>3, <1>4

LEMMA SameFault ==
    ASSUME UNCHANGED command PROVE FirstFault' = FirstFault
BY DEF FirstFault, Faults, Holes, Interval, IsSeconds

-----------------------------------------------------------------------------
(* Every step keeps the meaning.                                            *)

LEMMA SecondsMeans ==
    ASSUME ParserInv, ParseSeconds
    PROVE  Meaning'
<1>1. CASE SecondsAllowed = {} /\ Reject(1, 1)
  <2>1. Interval \cap (1..59) = {}
    BY <1>1 DEF SecondsAllowed
  <2>2. FirstFault = {<<1, 1>>}
    BY <2>1 DEF FirstFault, ParseSeconds
  <2> QED BY <1>1, <2>2, SameFault DEF Reject, Meaning
<1>2. CASE \E n \in SecondsAllowed :
             /\ schedule' = [schedule EXCEPT !.SECONDS = TRUE, !.secondsInterval = n]
             /\ verdict' = "accepted"
             /\ UNCHANGED <<command, error, field, token>>
  <2>1. PICK n \in SecondsAllowed :
             /\ schedule' = [schedule EXCEPT !.SECONDS = TRUE, !.secondsInterval = n]
             /\ verdict' = "accepted"
             /\ UNCHANGED <<command, error, field, token>>
    BY <1>2
  <2>2. schedule'.SECONDS /\ schedule'.secondsInterval \in SecondsAllowed
    BY <2>1 DEF ParserInv, ParserTypeOK, CronSchedule
  <2>3. IsSeconds' /\ SecondsAllowed' = SecondsAllowed
    BY <2>1, SameText DEF ParseSeconds, SecondsAllowed, Interval
  <2> QED BY <2>1, <2>2, <2>3 DEF Meaning, ReadAll
<1> QED BY <1>1, <1>2 DEF ParseSeconds

LEMMA CountMeans ==
    ASSUME ParserInv, Meaning, CountFields
    PROVE  Meaning'
<1>1. CASE Len(command) # 5 /\ Reject(0, 0)
  <2>1. FirstFault = {<<0, 0>>}
    BY <1>1 DEF FirstFault, CountFields
  <2> QED BY <1>1, <2>1, SameFault DEF Reject, Meaning
<1>2. CASE Len(command) = 5 /\ field' = 1 /\ UNCHANGED <<command, schedule, error, token, verdict>>
  <2>1. token' = 0 /\ verdict' = "parsing" /\ schedule' = EmptySchedule
    BY <1>2 DEF ParserInv, ParsedSoFar, CountFields, Meaning, ReadSoFar
  <2>2. ASSUME NEW f \in 1..5
        PROVE  Holds(schedule', FieldType[f], command'[f], ReadOf(f)')
    <3>1. DOMAIN command[f] = 1..Len(command[f])
      BY <1>2, TextShape DEF ParserInv
    <3>2. ReadOf(f)' = {}
      BY <1>2, <2>1, <3>1 DEF ReadOf
    <3> QED BY <2>1, <3>2, FieldTypes, HoldsNothing
  <2>3. ~schedule'.SECONDS
    BY <2>1 DEF EmptySchedule
  <2>4. ReadSoFar'
    BY <1>2, <2>2, <2>3 DEF ReadSoFar
  <2> QED BY <2>1, <2>4 DEF Meaning
<1> QED BY <1>1, <1>2 DEF CountFields

LEMMA FieldStepMeans ==
    ASSUME ParserInv, Meaning, parse_cron_field
    PROVE  Meaning'
<1>1. /\ verdict = "parsing" /\ field \in 1..5 /\ token = 0 /\ command \in Commands
      /\ ~IsSeconds /\ Len(command) = 5 /\ \A f \in 1..(field - 1) : FieldAccepted(f)
  BY DEF parse_cron_field, ParserInv, ParserTypeOK, ParsedSoFar
<1>2. CASE has_empty_part(command[field], <<<<EmptyWord>>>>) /\ Reject(field, 0)
  <2>1. Holes(field) # {} /\ Faults(field) # {}
    BY <1>1, <1>2, HolesOf
  <2>2. FirstFault = {<<field, 0>>}
    BY <1>1, <2>1, FirstFaultAt
  <2> QED BY <1>2, <2>2, SameFault DEF Reject, Meaning
<1>3. CASE /\ ~has_empty_part(command[field], <<<<EmptyWord>>>>) /\ token' = 1
           /\ UNCHANGED <<command, schedule, error, field, verdict>>
  <2>1. ASSUME NEW f \in 1..5 PROVE ReadOf(f)' = ReadOf(f)
    <3>1. DOMAIN command[f] = 1..Len(command[f])
      BY <1>1, TextShape
    <3> QED BY <1>1, <1>3, <3>1 DEF ReadOf
  <2>2. ~schedule.SECONDS /\ \A f \in 1..5 : Holds(schedule, FieldType[f], command[f], ReadOf(f))
    BY <1>1 DEF Meaning, ReadSoFar
  <2>3. ReadSoFar'
    BY <1>1, <1>3, <2>1, <2>2 DEF ReadSoFar
  <2> QED BY <1>1, <1>3, <2>3 DEF Meaning
<1> QED BY <1>2, <1>3 DEF parse_cron_field

LEMMA DistinctTypes ==
    ASSUME NEW f \in 1..5, NEW g \in 1..5, f # g
    PROVE  FieldType[f] # FieldType[g]
<1>1. f \in {1, 2, 3, 4, 5} /\ g \in {1, 2, 3, 4, 5}
  OBVIOUS
<1> QED BY <1>1 DEF FieldType

LEMMA ItemStepMeans ==
    ASSUME ParserInv, Meaning, ParseItem
    PROVE  Meaning'
<1> DEFINE type == FieldType[field]
           r    == parse_field_item(type, command[field][token])
           n    == Len(command[field])
           After(f) == {t \in DOMAIN command[f] : f < field \/ (f = field /\ t <= token)}
<1>1. /\ verdict = "parsing" /\ field \in 1..5 /\ token \in Nat /\ token > 0 /\ command \in Commands
      /\ ~IsSeconds /\ Len(command) = 5 /\ \A f \in 1..(field - 1) : FieldAccepted(f)
      /\ ~has_empty_part(command[field], <<<<EmptyWord>>>>)
      /\ token <= n
      /\ \A t \in 1..(token - 1) : parse_field_item(type, command[field][t]).ok
  BY DEF ParseItem, ParserInv, ParserTypeOK, ParsedSoFar
<1>2. /\ n \in Nat /\ type \in Types /\ command[field][token] \in Item
      /\ \A f \in 1..5 : DOMAIN command[f] = 1..Len(command[f])
  BY <1>1, TextShape, FieldTypes
<1>3. CASE ~r.ok /\ Reject(field, token)
  <2>1. Holes(field) = {}
    BY <1>1, HolesOf
  <2>2. /\ token \in Faults(field) /\ Faults(field) \in SUBSET Nat
        /\ \A t \in Faults(field) : token <= t
    <3>1. Faults(field) = {t \in 1..n : ~parse_field_item(type, command[field][t]).ok}
      BY <1>1, FaultOf
    <3> HIDE DEF type
    <3> QED BY <1>1, <1>2, <1>3, <3>1
  <2>3. Min(Faults(field)) = token
    BY <2>2, LeastIsMin
  <2>4. FirstFault = {<<field, token>>}
    <3>1. FirstFault = {<<field, IF Holes(field) # {} THEN 0 ELSE Min(Faults(field))>>}
      BY <1>1, <2>2, FirstFaultAt
    <3> QED BY <2>1, <2>3, <3>1
  <2> QED BY <1>3, <2>4, SameFault DEF Reject, Meaning
<1>4. CASE r.ok /\ ~(~r.ok /\ Reject(field, token))
  <2>1. /\ schedule' = WithItem(schedule, type, r)
        /\ token' = IF token < n THEN token + 1 ELSE 0
        /\ field' = IF token = n /\ field < 5 THEN field + 1 ELSE field
        /\ verdict' = IF token = n /\ field = 5 THEN "accepted" ELSE "parsing"
        /\ UNCHANGED <<command, error>>
    BY <1>4 DEF ParseItem
  <2>2. /\ ~schedule.SECONDS /\ schedule \in CronSchedule
        /\ \A f \in 1..5 : Holds(schedule, FieldType[f], command[f], ReadOf(f))
    BY <1>1 DEF Meaning, ReadSoFar, ParserInv, ParserTypeOK
  <2>3. ~schedule'.SECONDS
    BY <2>1, <2>2 DEF WithItem, CronSchedule
  <2>4. ASSUME NEW f \in 1..5
        PROVE  Holds(schedule', FieldType[f], command[f], After(f))
    <3>1. CASE f = field
      <4>1. After(field) = ReadOf(field) \cup {token}
        BY <1>1, <1>2 DEF ReadOf
      <4>2. Holds(schedule, type, command[field], ReadOf(field))
        BY <1>1, <2>2
      <4> HIDE DEF type, After
      <4>3. Holds(WithItem(schedule, type, r), type, command[field], ReadOf(field) \cup {token})
        BY <1>2, <1>4, <2>2, <4>2, HoldsItem
      <4> QED BY <2>1, <3>1, <4>1, <4>3 DEF type
    <3>2. CASE f # field
      <4>1. After(f) = ReadOf(f)
        BY <1>1, <1>2, <3>2 DEF ReadOf
      <4>2. FieldType[f] \in Types \ {type}
        BY <1>1, <3>2, DistinctTypes, FieldTypes
      <4>3. Holds(schedule, FieldType[f], command[f], ReadOf(f))
        BY <2>2
      <4> HIDE DEF type, After
      <4>4. Holds(WithItem(schedule, type, r), FieldType[f], command[f], ReadOf(f))
        BY <1>2, <2>2, <4>2, <4>3, HoldsOther
      <4> QED BY <2>1, <4>1, <4>4
    <3> QED BY <3>1, <3>2
  <2>5. CASE token = n /\ field = 5
    <3>1. verdict' = "accepted" /\ ~IsSeconds'
      BY <1>1, <2>1, <2>5, SameText
    <3>2. ASSUME NEW f \in 1..5 PROVE After(f) = DOMAIN command[f]
      BY <1>1, <1>2, <2>5
    <3> HIDE DEF After
    <3>3. ReadAll'
      BY <2>1, <2>3, <2>4, <3>1, <3>2 DEF ReadAll
    <3> QED BY <3>1, <3>3 DEF Meaning
  <2>6. CASE ~(token = n /\ field = 5)
    <3>1. verdict' = "parsing" /\ field' > 0
      BY <1>1, <2>1, <2>6
    <3>2. ASSUME NEW f \in 1..5 PROVE ReadOf(f)' = After(f)
      <4>1. ReadOf(f)' = {t \in DOMAIN command[f] : f < field' \/ (f = field' /\ t < token')}
        BY <2>1 DEF ReadOf
      <4>2. CASE token < n
        <5>1. token' = token + 1 /\ field' = field
          BY <1>1, <1>2, <2>1, <4>2
        <5> QED BY <1>1, <1>2, <4>1, <5>1
      <4>3. CASE token = n /\ field < 5
        <5>1. token' = 0 /\ field' = field + 1
          BY <1>1, <1>2, <2>1, <4>3
        <5> QED BY <1>1, <1>2, <4>1, <4>3, <5>1
      <4> QED BY <1>1, <1>2, <2>6, <4>2, <4>3
    <3> HIDE DEF After
    <3>3. ReadSoFar'
      BY <2>1, <2>3, <2>4, <3>1, <3>2 DEF ReadSoFar
    <3> QED BY <3>1, <3>3 DEF Meaning
  <2> QED BY <2>5, <2>6
<1> QED BY <1>3, <1>4 DEF ParseItem

LEMMA AgainMeans ==
    ASSUME NEW next, ParsedAgainBy(next)
    PROVE  Meaning'
<1>1. schedule' = EmptySchedule /\ field' = 0 /\ verdict' = "parsing"
  BY DEF ParsedAgainBy
<1>2. ReadSoFar'
  BY <1>1 DEF ReadSoFar
<1> QED BY <1>1, <1>2 DEF Meaning

LEMMA SameMeaning ==
    ASSUME Meaning, UNCHANGED parserVars
    PROVE  Meaning'
<1>1. UNCHANGED <<command, schedule, error, field, token, verdict>>
  BY DEF parserVars
<1>2. ReadSoFar' = ReadSoFar
  BY <1>1 DEF ReadSoFar, ReadOf
<1>3. ReadAll' = ReadAll
  BY <1>1 DEF ReadAll, IsSeconds, SecondsAllowed, Interval
<1> QED BY <1>1, <1>2, <1>3, SameFault DEF Meaning

LEMMA MeaningStep ==
    MeaningInv /\ [Next]_vars => MeaningInv'
<1> SUFFICES ASSUME MeaningInv, [Next]_vars PROVE MeaningInv'
  OBVIOUS
<1>1. ExpressionInv /\ ParserInv /\ Meaning /\ LoadedOK
  BY DEF MeaningInv, ExpressionInv
<1>2. ExpressionInv'
  BY <1>1, ExpressionStep
<1>3. CASE ParseStep
  <2>1. Meaning'
    BY <1>1, <1>3, SecondsMeans, CountMeans, FieldStepMeans, ItemStepMeans
       DEF ParseStep, parse_with_error
  <2>2. verdict = "parsing" /\ UNCHANGED expressionVars
    BY <1>3 DEF ParseStep, parse_with_error, ParseSeconds, CountFields, parse_cron_field,
                ParseItem
  <2>3. LoadedOK'
    BY <1>1, <2>2 DEF LoadedOK, expressionVars
  <2> QED BY <1>2, <2>1, <2>3 DEF MeaningInv
<1>4. CASE schedule_job
  <2>1. Meaning'
    BY <1>1, <1>4, AgainMeans, SameMeaning DEF schedule_job, Ends
  <2>2. LoadedOK'
    BY <1>1, <1>4 DEF schedule_job, LoadedOK, Ends, ParsedAgainBy
  <2> QED BY <1>2, <2>1, <2>2 DEF MeaningInv
<1>5. CASE check_schedule
  <2>1. Meaning'
    BY <1>1, <1>5, AgainMeans, SameMeaning DEF check_schedule, Ends
  <2>2. LoadedOK'
    BY <1>1, <1>5 DEF check_schedule, LoadedOK, Ends, ParsedAgainBy
  <2> QED BY <1>2, <2>1, <2>2 DEF MeaningInv
<1>6. CASE TupleToJob
  <2>1. Meaning'
    BY <1>1, <1>6, SameMeaning DEF TupleToJob, Ends
  <2>2. LoadedOK'
    BY <1>1, <1>6 DEF TupleToJob, LoadedOK, Ends, parserVars
  <2> QED BY <1>2, <2>1, <2>2 DEF MeaningInv
<1>7. CASE NextDay
  <2>1. Meaning'
    BY <1>1, <1>7, SameMeaning DEF NextDay
  <2>2. day' \in Nat
    BY <1>7, CronExpressionAssumption DEF NextDay
  <2>3. LoadedOK'
    BY <1>1, <1>7, <2>2 DEF NextDay, LoadedOK, parserVars
  <2> QED BY <1>2, <2>1, <2>3 DEF MeaningInv
<1>8. CASE UNCHANGED vars
  <2>1. Meaning'
    BY <1>1, <1>8, SameMeaning DEF vars
  <2>2. LoadedOK'
    BY <1>1, <1>8 DEF vars, expressionVars, parserVars, LoadedOK
  <2> QED BY <1>2, <2>1, <2>2 DEF MeaningInv
<1> QED BY <1>3, <1>4, <1>5, <1>6, <1>7, <1>8 DEF Next

LEMMA MeaningInit ==
    Init => MeaningInv
<1> SUFFICES ASSUME Init PROVE MeaningInv
  OBVIOUS
<1>1. ReadSoFar
  BY DEF Init, ParserInit, ReadSoFar
<1>2. Meaning
  BY <1>1 DEF Init, ParserInit, Meaning
<1>3. day \in Nat
  <2>1. FirstDays \in SUBSET Nat /\ FirstDays # {}
    BY CronExpressionAssumption
  <2>2. PICK x \in FirstDays : \A y \in FirstDays : x <= y
    BY <2>1, LeastNatural
  <2>3. Min(FirstDays) = x
    BY <2>1, <2>2, LeastIsMin
  <2> QED BY <2>1, <2>3 DEF Init
<1>4. LoadedOK
  BY <1>3 DEF Init, LoadedOK
<1> QED BY <1>2, <1>4, ExpressionInit DEF MeaningInv

LEMMA Meanings == Spec => []MeaningInv
BY MeaningInit, MeaningStep, PTL DEF Spec

-----------------------------------------------------------------------------
(* What the invariant says.                                                 *)

LEMMA AcceptedIsGrammar ==
    ASSUME ParserInv, verdict = "accepted"
    PROVE  FirstFault = {}
<1>1. Acceptable /\ command \in Commands
  BY DEF ParserInv
<1>2. CASE IsSeconds
  <2>1. SecondsAllowed # {} /\ SecondsAllowed \subseteq Interval \cap (1..59)
    <3>1. SecondsAllowed # {}
      BY <1>1, <1>2 DEF Acceptable
    <3>2. ASSUME NEW n \in SecondsAllowed PROVE n \in Interval \cap (1..59)
      <4>1. n \in 0..59
        BY <1>1, <1>2, SecondsShape
      <4> QED BY <4>1 DEF SecondsAllowed
    <3> QED BY <3>1, <3>2
  <2>2. Interval \cap (1..59) # {}
    BY <2>1
  <2> QED BY <1>2, <2>2 DEF FirstFault
<1>3. CASE ~IsSeconds
  <2>1. Len(command) = 5 /\ \A f \in 1..5 : FieldAccepted(f)
    BY <1>1, <1>3 DEF Acceptable
  <2>2. ASSUME NEW f \in 1..5 PROVE Faults(f) = {}
    <3>1. FieldAccepted(f) /\ Len(command) = 5
      BY <2>1
    <3> QED BY <1>1, <3>1, FaultOf DEF FieldAccepted
  <2>3. {f \in 1..5 : Faults(f) # {}} = {}
    BY <2>2
  <2> QED BY <1>3, <2>1, <2>3 DEF FirstFault
<1> QED BY <1>2, <1>3

(* The numbers and the tokens of a field, as the reference has them.        *)
LEMMA FieldNumbers ==
    ASSUME NEW f \in 1..5, Holds(schedule, FieldType[f], command[f], DOMAIN command[f])
    PROVE  /\ schedule.bits[FieldType[f]] = FieldMeans(f)
           /\ f # 4 => (FieldType[f] \in schedule.star <=> HasToken(f, "star"))
           /\ f = 3 => (schedule.LAST_DOM <=> HasToken(f, "last"))
<1>1. /\ FieldType[f] = "CRON_DOW" <=> f = 5
      /\ FieldType[f] = "CRON_M" <=> f = 4
      /\ FieldType[f] = "CRON_DOM" <=> f = 3
  <2>1. /\ FieldType[5] = "CRON_DOW" /\ FieldType[4] = "CRON_M" /\ FieldType[3] = "CRON_DOM"
        /\ 3 \in 1..5 /\ 4 \in 1..5 /\ 5 \in 1..5
    BY DEF FieldType
  <2> QED BY <2>1, DistinctTypes
<1> DEFINE N == UNION {Denotes(FieldType[f], command[f][t]) : t \in DOMAIN command[f]}
<1>2. schedule.bits[FieldType[f]] = {set_field_value(FieldType[f], v) : v \in N}
  BY DEF Holds
<1>3. FieldMeans(f) = {IF f = 5 /\ v = 7 THEN 0 ELSE v : v \in N}
  BY DEF FieldMeans
<1>4. \A v : set_field_value(FieldType[f], v) = IF f = 5 /\ v = 7 THEN 0 ELSE v
  BY <1>1 DEF set_field_value
<1> HIDE DEF N
<1>5. schedule.bits[FieldType[f]] = FieldMeans(f)
  BY <1>2, <1>3, <1>4
<1> QED BY <1>1, <1>5 DEF Holds, HasToken

LEMMA AcceptedBits ==
    ASSUME Meaning, verdict = "accepted", ~IsSeconds
    PROVE  /\ \A f \in 1..5 : schedule.bits[FieldType[f]] = FieldMeans(f)
           /\ \A f \in {1, 2, 3, 5} : FieldType[f] \in schedule.star <=> HasToken(f, "star")
           /\ schedule.LAST_DOM <=> HasToken(3, "last")
           /\ ~schedule.SECONDS
<1>1. /\ ~schedule.SECONDS
      /\ \A f \in 1..5 : Holds(schedule, FieldType[f], command[f], DOMAIN command[f])
  BY DEF Meaning, ReadAll
<1>2. \A f \in 1..5 :
         /\ schedule.bits[FieldType[f]] = FieldMeans(f)
         /\ f # 4 => (FieldType[f] \in schedule.star <=> HasToken(f, "star"))
         /\ f = 3 => (schedule.LAST_DOM <=> HasToken(f, "last"))
  BY <1>1, FieldNumbers
<1>3. \A f \in {1, 2, 3, 5} : f \in 1..5 /\ f # 4
  OBVIOUS
<1> QED BY <1>1, <1>2, <1>3

(* The parser accepts exactly the texts of the grammar, whatever the words  *)
(* and the length of the text; any other it rejects at its first fault, the *)
(* field and the item of it, or the field alone when its list has a hole    *)
(* (parse_with_error, parse_cron_field, set_parse_error).                   *)
THEOREM ParserIsGrammar == Spec => []VerdictIsGrammar
<1>1. MeaningInv => VerdictIsGrammar
  BY AcceptedIsGrammar DEF MeaningInv, ExpressionInv, Meaning, VerdictIsGrammar
<1> QED BY <1>1, Meanings, PTL

(* An accepted schedule has exactly the bits its text denotes, every item   *)
(* an arithmetic progression, although set_field_range counts with an int   *)
(* that wraps; star and last-day tokens are remembered wherever they stand, *)
(* and a seconds schedule has the interval of its text                      *)
(* (set_field_range, set_field_value, mark_star_field).                     *)
THEOREM ParserDenotes == Spec => []BitsDenote
<1>1. MeaningInv => BitsDenote
  <2> SUFFICES ASSUME MeaningInv, verdict = "accepted" PROVE BitsDenote
    BY DEF BitsDenote
  <2>1. Meaning
    BY DEF MeaningInv
  <2>2. CASE IsSeconds
    <3>1. schedule.SECONDS /\ schedule.secondsInterval \in SecondsAllowed
      BY <2>1, <2>2 DEF Meaning, ReadAll
    <3>2. \A n \in Interval : Interval = {n}
      BY DEF Interval, parse_integer
    <3>3. Interval = {schedule.secondsInterval}
      BY <3>1, <3>2 DEF SecondsAllowed
    <3> QED BY <2>2, <3>1, <3>3 DEF BitsDenote
  <2>3. CASE ~IsSeconds
    BY <2>1, <2>3, AcceptedBits DEF BitsDenote
  <2> QED BY <2>2, <2>3
<1> QED BY <1>1, Meanings, PTL

LEMMA LoadedIsDue ==
    ASSUME MeaningInv, caller = "loaded"
    PROVE  DueAsMeant
<1> SUFFICES ASSUME NEW t \in Times, NEW floating \in BOOLEAN, NEW fixed \in BOOLEAN
             PROVE  ShouldRunTask(job, day, t[1], t[2], floating, fixed) <=>
                      /\ ~IsSeconds
                      /\ t[2] \in FieldMeans(1) /\ t[1] \in FieldMeans(2)
                      /\ gmtime(day).mon \in FieldMeans(4)
                      /\ MeansDay(gmtime(day))
                      /\ IF HasToken(1, "star") \/ HasToken(2, "star") THEN floating ELSE fixed
  BY DEF DueAsMeant
<1>1. /\ Meaning /\ verdict = "accepted" /\ job = schedule /\ day \in Nat
  BY DEF MeaningInv, LoadedOK
<1>2. CASE IsSeconds
  <2>1. job.SECONDS
    BY <1>1, <1>2 DEF Meaning, ReadAll
  <2> QED BY <1>2, <2>1 DEF ShouldRunTask
<1>3. CASE ~IsSeconds
  <2> DEFINE tm == gmtime(day)
             first == gmtime(day + 1).mday = 1
  <2>1. /\ \A f \in 1..5 : job.bits[FieldType[f]] = FieldMeans(f)
        /\ \A f \in {1, 2, 3, 5} : FieldType[f] \in job.star <=> HasToken(f, "star")
        /\ job.LAST_DOM <=> HasToken(3, "last")
        /\ ~job.SECONDS
    BY <1>1, <1>3, AcceptedBits
  <2>2. /\ job.bits.CRON_MINUTE = FieldMeans(1) /\ job.bits.CRON_HOUR = FieldMeans(2)
        /\ job.bits.CRON_DOM = FieldMeans(3) /\ job.bits.CRON_M = FieldMeans(4)
        /\ job.bits.CRON_DOW = FieldMeans(5)
    BY <2>1 DEF FieldType
  <2>3. /\ "CRON_MINUTE" \in job.star <=> HasToken(1, "star")
        /\ "CRON_HOUR" \in job.star <=> HasToken(2, "star")
        /\ "CRON_DOM" \in job.star <=> HasToken(3, "star")
        /\ "CRON_DOW" \in job.star <=> HasToken(5, "star")
    BY <2>1 DEF FieldType
  <2>4. isLastDayOfMonth(tm) <=> first
    BY <1>1, LastDayOfMonth
  <2> HIDE DEF tm, first
  <2>5. DayMatches(job, tm) <=> MeansDay(tm)
    BY <2>1, <2>2, <2>3, <2>4 DEF DayMatches, MeansDay, first
  <2>6. IsFloating(job) <=> HasToken(1, "star") \/ HasToken(2, "star")
    BY <2>3 DEF IsFloating
  <2> QED BY <1>3, <2>1, <2>2, <2>5, <2>6 DEF ShouldRunTask, tm
<1> QED BY <1>2, <1>3

(* A loaded job is due in a minute exactly when its text says so, on every  *)
(* day since 1970 and for every text: the star rules of the day fields, the *)
(* last day of the month by the month lengths of the code, the floating     *)
(* minutes and hours (ShouldRunTask, isLastDayOfMonth).                     *)
THEOREM JobsDueAsMeant == Spec => []DueAsMeant
<1>1. MeaningInv => DueAsMeant
  BY LoadedIsDue DEF DueAsMeant
<1> QED BY <1>1, Meanings, PTL

(* The part of SchedulesAssumption that is about intervals.                 *)
IntervalAsAssumed ==
    caller = "loaded" =>
        /\ job.SECONDS \in BOOLEAN
        /\ job.secondsInterval \in 0..59
        /\ job.SECONDS => job.secondsInterval > 0

(* What Scheduler assumes of every schedule is true of every job the worker *)
(* loads: its interval is less than a minute, and positive in the seconds   *)
(* form (parse_with_error, StartSecondIntervalTask).                        *)
THEOREM IntervalsFit == Spec => []IntervalAsAssumed
<1>1. MeaningInv => IntervalAsAssumed
  <2> SUFFICES ASSUME MeaningInv, caller = "loaded"
               PROVE  /\ job.SECONDS \in BOOLEAN
                      /\ job.secondsInterval \in 0..59
                      /\ job.SECONDS => job.secondsInterval > 0
    BY DEF IntervalAsAssumed
  <2>1. /\ Meaning /\ verdict = "accepted" /\ job = schedule /\ schedule \in CronSchedule
    BY DEF MeaningInv, LoadedOK, ExpressionInv, ParserInv, ParserTypeOK
  <2>2. job.SECONDS \in BOOLEAN /\ job.secondsInterval \in 0..59
    BY <2>1 DEF CronSchedule
  <2>3. ASSUME job.SECONDS PROVE job.secondsInterval > 0
    <3>1. job.secondsInterval \in SecondsAllowed
      BY <2>1, <2>3 DEF Meaning, ReadAll
    <3>2. job.secondsInterval >= 1
      BY <3>1 DEF SecondsAllowed
    <3> QED BY <2>2, <3>2
  <2> QED BY <2>2, <2>3
<1> QED BY <1>1, Meanings, PTL
=============================================================================
