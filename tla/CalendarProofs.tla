---------------------------- MODULE CalendarProofs ----------------------------
(***************************************************************************)
(* The month lengths of cron_parser.c agree with the calendar: on every day *)
(* since 1970, isLastDayOfMonth says that tomorrow is the first.  gmtime     *)
(* knows nothing of month lengths or leap years; both are found in its      *)
(* arithmetic here.                                                         *)
(***************************************************************************)
EXTENDS Calendar, TLAPS

-----------------------------------------------------------------------------
(* The day of an era of 400 years, as centuries, fours of years, years and  *)
(* days.  Years begin in March, and the last one of the four has a leap day *)
(* unless it is the last of a century other than the fourth.                *)

EraDays == 146097

LeapDay(c, q, k) == k = 3 /\ (q < 24 \/ c = 3)

(* The day d is one of that year.                                           *)
OfYear(d, c, q, k) == d <= (IF LeapDay(c, q, k) THEN 365 ELSE 364)

DayOfEra(c, q, k, d) == 36524 * c + 1461 * q + 365 * k + d

(* The year and the day of the year that gmtime computes.                   *)
YearOfEra(doe) == (doe - doe \div 1460 + doe \div 36524 - doe \div 146096) \div 365
DayOfYear(doe) ==
    doe - (365 * YearOfEra(doe) + YearOfEra(doe) \div 4 - YearOfEra(doe) \div 100)

LEMMA EraDayParts ==
    ASSUME NEW doe \in Nat, doe < EraDays
    PROVE  \E c \in 0..3, q \in 0..24, k \in 0..3, d \in Nat :
              doe = DayOfEra(c, q, k, d) /\ OfYear(d, c, q, k)
<1> DEFINE c == IF doe \div 36524 > 3 THEN 3 ELSE doe \div 36524
           r == doe - 36524 * c
<1>1. c \in 0..3 /\ r \in Nat /\ r <= 36524 /\ (r = 36524 => c = 3)
  BY SMT DEF EraDays
<1>2. doe = 36524 * c + r
  BY <1>1, SMT
<1> HIDE DEF c, r
<1> DEFINE q == r \div 1461
           s == r - 1461 * q
<1>3. q \in 0..24 /\ s \in Nat /\ s <= 1460 /\ r = 1461 * q + s
  BY <1>1, SMT
<1>4. q = 24 /\ s = 1460 => r = 36524
  BY <1>1, <1>3, SMT
<1> HIDE DEF q, s
<1> DEFINE k == IF s \div 365 > 3 THEN 3 ELSE s \div 365
           d == s - 365 * k
<1>5. k \in 0..3 /\ d \in Nat /\ d <= 365 /\ s = 365 * k + d /\ (d = 365 => k = 3 /\ s = 1460)
  BY <1>3, SMT
<1> HIDE DEF k, d
<1>6. doe = DayOfEra(c, q, k, d) /\ OfYear(d, c, q, k)
  BY <1>1, <1>2, <1>3, <1>4, <1>5, SMT DEF DayOfEra, LeapDay, OfYear
<1>7. c \in 0..3 /\ q \in 0..24 /\ k \in 0..3 /\ d \in Nat
  BY <1>1, <1>3, <1>5, SMT
<1> QED BY <1>6, <1>7, Zenon

LEMMA YearAndDay ==
    ASSUME NEW c \in 0..3, NEW q \in 0..24, NEW k \in 0..3, NEW d \in Nat, OfYear(d, c, q, k)
    PROVE  /\ YearOfEra(DayOfEra(c, q, k, d)) = 100 * c + 4 * q + k
           /\ DayOfYear(DayOfEra(c, q, k, d)) = d
<1> DEFINE doe == DayOfEra(c, q, k, d)
           y   == 100 * c + 4 * q + k
           x   == 24 * c + q + 365 * k + d
           e   == IF x >= 1460 THEN 1 ELSE 0
<1>1. doe = 36524 * c + 1461 * q + 365 * k + d
  BY SMT DEF DayOfEra
<1> HIDE DEF doe
<1>2. doe \in Nat /\ doe <= 146096
  BY <1>1, SMT DEF LeapDay, OfYear
<1>3. x \in Nat /\ x <= 2919 /\ doe = 1460 * (25 * c + q) + x
  BY <1>1, SMT DEF LeapDay, OfYear
<1>4. e = x \div 1460 /\ e \in 0..1
  BY <1>3, SMT
<1>5. doe \div 1460 = 25 * c + q + e
  <2> HIDE DEF x, e
  <2> QED BY <1>3, <1>4, SMT
<1>6. doe \div 36524 - doe \div 146096 = c
  <2> DEFINE r == 1461 * q + 365 * k + d
  <2>1. r \in Nat /\ r <= 36524 /\ doe = 36524 * c + r /\ (r = 36524 => c = 3)
    BY <1>1, SMT DEF LeapDay, OfYear
  <2> HIDE DEF r
  <2>2. CASE r = 36524
    <3>1. doe = 146096
      BY <2>1, <2>2, SMT
    <3> QED BY <2>1, <2>2, <3>1, SMT
  <2>3. CASE r # 36524
    <3>1. doe \div 36524 = c
      BY <2>1, <2>3, SMT
    <3>2. doe \div 146096 = 0
      BY <2>1, <2>3, SMT
    <3> QED BY <3>1, <3>2, SMT
  <2> QED BY <2>2, <2>3, SMT
<1>7. d - e \in Nat /\ d - e <= 364
  BY SMT DEF LeapDay, OfYear
<1>8. doe - doe \div 1460 + doe \div 36524 - doe \div 146096 = 365 * y + (d - e)
  <2> HIDE DEF e
  <2>1. doe \div 36524 \in Int /\ doe \div 146096 \in Int
    BY <1>2, SMT
  <2> QED BY <1>1, <1>4, <1>5, <1>6, <2>1, SMT
<1>9. YearOfEra(doe) = y
  <2> DEFINE w == d - e
  <2>1. y \in Nat /\ w \in Nat /\ w <= 364
    BY <1>7, SMT
  <2> HIDE DEF y, w
  <2>2. (365 * y + w) \div 365 = y
    BY <2>1, SMT
  <2> QED BY <1>8, <2>2, SMT DEF YearOfEra, w
<1>10. y \div 4 = 25 * c + q
  BY SMT
<1>11. y \div 100 = c
  BY SMT
<1>12. DayOfYear(doe) = d
  <2> HIDE DEF e, x
  <2>1. DayOfYear(doe) = doe - (365 * y + y \div 4 - y \div 100)
    BY <1>9 DEF DayOfYear
  <2>2. DayOfYear(doe) = doe - (365 * y + (25 * c + q) - c)
    BY <1>10, <1>11, <2>1
  <2> QED BY <1>1, <2>2, SMT
<1> QED BY <1>9, <1>12, SMT DEF doe


(* The day after.                                                           *)
LastOfYear(c, q, k) == IF LeapDay(c, q, k) THEN 365 ELSE 364

DayAfter(doe) == IF doe + 1 = EraDays THEN 0 ELSE doe + 1

LEMMA YearEnds ==
    ASSUME NEW c \in 0..3, NEW q \in 0..24, NEW k \in 0..3, NEW d \in Nat, OfYear(d, c, q, k)
    PROVE  DayOfYear(DayAfter(DayOfEra(c, q, k, d))) =
              IF d = LastOfYear(c, q, k) THEN 0 ELSE d + 1
<1> DEFINE next == DayAfter(DayOfEra(c, q, k, d))
<1>0. \A x \in Nat : OfYear(x, c, q, k) => DayOfYear(DayOfEra(c, q, k, x)) = x
  BY YearAndDay
<1>1. CASE d # LastOfYear(c, q, k)
  <2> PICK e \in Nat : e = d + 1
    BY SMT
  <2>1. OfYear(e, c, q, k)
    BY <1>1, SMT DEF OfYear, LastOfYear
  <2>2. next = DayOfEra(c, q, k, e)
    BY <1>1, SMT DEF DayOfEra, DayAfter, EraDays, OfYear, LeapDay, LastOfYear
  <2>3. DayOfYear(DayOfEra(c, q, k, e)) = e
    BY <1>0, <2>1, Zenon
  <2> QED BY <1>1, <2>2, <2>3
<1>2. CASE d = LastOfYear(c, q, k) /\ k < 3
  <2> PICK e \in 0..3 : e = k + 1
    BY <1>2, SMT
  <2>1. OfYear(0, c, q, e) /\ next = DayOfEra(c, q, e, 0)
    BY <1>2, SMT DEF DayOfEra, DayAfter, EraDays, OfYear, LeapDay, LastOfYear
  <2>2. 0 \in Nat
    BY SMT
  <2>3. DayOfYear(DayOfEra(c, q, e, 0)) = 0
    BY <2>1, <2>2, YearAndDay, Zenon
  <2> QED BY <1>2, <2>1, <2>3
<1>3. CASE d = LastOfYear(c, q, k) /\ k = 3 /\ q < 24
  <2>1. OfYear(0, c, q + 1, 0) /\ next = DayOfEra(c, q + 1, 0, 0) /\ q + 1 \in 0..24
    BY <1>3, SMT DEF DayOfEra, DayAfter, EraDays, OfYear, LeapDay, LastOfYear
  <2> QED BY <1>3, <2>1, YearAndDay, SMT
<1>4. CASE d = LastOfYear(c, q, k) /\ k = 3 /\ q = 24 /\ c < 3
  <2>1. OfYear(0, c + 1, 0, 0) /\ next = DayOfEra(c + 1, 0, 0, 0) /\ c + 1 \in 0..3
    BY <1>4, SMT DEF DayOfEra, DayAfter, EraDays, OfYear, LeapDay, LastOfYear
  <2> QED BY <1>4, <2>1, YearAndDay, SMT
<1>5. CASE d = LastOfYear(c, q, k) /\ k = 3 /\ q = 24 /\ c = 3
  <2>1. OfYear(0, 0, 0, 0) /\ next = DayOfEra(0, 0, 0, 0)
    BY <1>5, SMT DEF DayOfEra, DayAfter, EraDays, OfYear, LeapDay, LastOfYear
  <2> QED BY <1>5, <2>1, YearAndDay, SMT
<1> QED BY <1>1, <1>2, <1>3, <1>4, <1>5, SMT

-----------------------------------------------------------------------------
(* Months, counted from March.                                              *)

MonthIndex(d) == (5 * d + 2) \div 153
DayOfMonth(d) == d - (153 * MonthIndex(d) + 2) \div 5 + 1
MonthOf(d) == IF MonthIndex(d) < 10 THEN MonthIndex(d) + 3 ELSE MonthIndex(d) - 9

LEMMA MonthIndices ==
    ASSUME NEW d \in Nat, d <= 365
    PROVE  MonthIndex(d) \in 0..11 /\ MonthOf(d) \in 1..12
<1>1. MonthIndex(d) \in 0..11
  BY SMT DEF MonthIndex
<1> QED BY <1>1, SMT DEF MonthOf

(* The table of days_in_month has the lengths of the months.                *)
LEMMA MonthEnds ==
    ASSUME NEW d \in Nat, d < 365, MonthOf(d) # 2, NEW year
    PROVE  days_in_month(year, MonthOf(d)) = DayOfMonth(d) <=> DayOfMonth(d + 1) = 1
<1> PICK e \in Nat : e = d + 1
  BY SMT
<1> DEFINE m == MonthIndex(d)
           n == MonthIndex(e)
<1>1. m \in 0..10
  BY MonthIndices, SMT DEF MonthOf
<1>2. 153 * m <= 5 * d + 2 /\ 5 * d + 2 < 153 * m + 153
  BY SMT DEF MonthIndex
<1>3. n \in Int /\ 153 * n <= 5 * d + 7 /\ 5 * d + 7 < 153 * n + 153
  BY SMT DEF MonthIndex
<1>4. /\ DayOfMonth(d) = d - (153 * m + 2) \div 5 + 1
      /\ DayOfMonth(e) = e - (153 * n + 2) \div 5 + 1
      /\ MonthOf(d) = IF m < 10 THEN m + 3 ELSE m - 9
  <2>1. DayOfMonth(d) = d - (153 * m + 2) \div 5 + 1
    BY SMT DEF DayOfMonth
  <2>2. DayOfMonth(e) = e - (153 * n + 2) \div 5 + 1
    BY SMT DEF DayOfMonth
  <2>3. MonthOf(d) = IF m < 10 THEN m + 3 ELSE m - 9
    BY SMT DEF MonthOf
  <2> QED BY <2>1, <2>2, <2>3
<1> HIDE DEF m, n
<1>5. n \in {m, m + 1}
  BY <1>1, <1>2, <1>3, SMT
<1> DEFINE days == <<31, 28, 31, 30, 31, 30, 31, 31, 30, 31, 30, 31>>
<1>6. days_in_month(year, MonthOf(d)) = days[MonthOf(d)]
  BY DEF days_in_month
<1>7. days[MonthOf(d)] = IF m \in {1, 3, 6, 8} THEN 30 ELSE 31
  BY <1>1, <1>4, SMT
<1> HIDE DEF days
<1>8. CASE n = m
  BY <1>1, <1>2, <1>3, <1>4, <1>6, <1>7, <1>8, SMT
<1>9. CASE n = m + 1
  BY <1>1, <1>2, <1>3, <1>4, <1>6, <1>7, <1>9, SMT
<1> QED BY <1>5, <1>8, <1>9

LEMMA February ==
    ASSUME NEW d \in Nat, d <= 365, MonthOf(d) = 2
    PROVE  /\ d >= 337 /\ DayOfMonth(d) = d - 336
           /\ d < 365 => DayOfMonth(d + 1) = d - 335
<1>1. MonthIndex(d) = 11
  BY MonthIndices, SMT DEF MonthOf
<1>2. d >= 337
  BY <1>1, SMT DEF MonthIndex
<1>3. d < 365 => MonthIndex(d + 1) = 11
  BY <1>2, SMT DEF MonthIndex
<1> QED BY <1>1, <1>2, <1>3, SMT DEF DayOfMonth


-----------------------------------------------------------------------------
(* Dates.                                                                   *)

Epoch == 719468
EraDay(day) == (day + Epoch) % EraDays
Era(day)    == (day + Epoch) \div EraDays

LEMMA Gmtime ==
    ASSUME NEW day
    PROVE  LET d == DayOfYear(EraDay(day)) IN
           /\ gmtime(day).mday = DayOfMonth(d)
           /\ gmtime(day).mon = MonthOf(d)
           /\ gmtime(day).year = YearOfEra(EraDay(day)) + 400 * Era(day)
                                 + (IF MonthOf(d) <= 2 THEN 1 ELSE 0)
BY DEF gmtime, DayOfYear, YearOfEra, EraDay, Era, Epoch, EraDays, DayOfMonth, MonthOf, MonthIndex

LEMMA Tomorrow ==
    ASSUME NEW day \in Nat
    PROVE  /\ EraDay(day) \in Nat /\ EraDay(day) < EraDays /\ Era(day) \in Nat
           /\ EraDay(day + 1) = DayAfter(EraDay(day))
BY SMT DEF EraDay, Era, Epoch, EraDays, DayAfter

(* The rule of is_leap_year is that of the leap days.                       *)
LEMMA LeapYears ==
    ASSUME NEW c \in 0..3, NEW q \in 0..24, NEW k \in 0..3, NEW e \in Nat
    PROVE  is_leap_year(100 * c + 4 * q + k + 400 * e + 1) <=> LeapDay(c, q, k)
<1> DEFINE y == 100 * c + 4 * q + k + 400 * e + 1
<1>1. y % 4 = 0 <=> k = 3
  BY SMT
<1>2. y % 100 = 0 <=> k = 3 /\ q = 24
  BY SMT
<1>3. y % 400 = 0 <=> k = 3 /\ q = 24 /\ c = 3
  BY SMT
<1> HIDE DEF y
<1>4. is_leap_year(y) <=> LeapDay(c, q, k)
  BY <1>1, <1>2, <1>3, SMT DEF is_leap_year, LeapDay
<1> QED BY <1>4 DEF y

(* The month lengths and the leap-year rule of cron_parser.c are those of   *)
(* the calendar: on every day since 1970, isLastDayOfMonth holds exactly    *)
(* when the next day is the first of a month.                               *)
THEOREM LastDayOfMonth ==
    \A day \in Nat : isLastDayOfMonth(gmtime(day)) <=> gmtime(day + 1).mday = 1
<1> SUFFICES ASSUME NEW day \in Nat
             PROVE  isLastDayOfMonth(gmtime(day)) <=> gmtime(day + 1).mday = 1
  OBVIOUS
<1>1. EraDay(day) \in Nat /\ EraDay(day) < EraDays /\ Era(day) \in Nat
  BY Tomorrow
<1>2. PICK c \in 0..3, q \in 0..24, k \in 0..3, d \in Nat :
         EraDay(day) = DayOfEra(c, q, k, d) /\ OfYear(d, c, q, k)
  BY <1>1, EraDayParts, Zenon
<1>3. /\ DayOfYear(EraDay(day)) = d
      /\ YearOfEra(EraDay(day)) = 100 * c + 4 * q + k
      /\ DayOfYear(EraDay(day + 1)) = IF d = LastOfYear(c, q, k) THEN 0 ELSE d + 1
  <2>1. DayOfYear(EraDay(day)) = d /\ YearOfEra(EraDay(day)) = 100 * c + 4 * q + k
    <3>1. OfYear(d, c, q, k) /\ EraDay(day) = DayOfEra(c, q, k, d)
      BY <1>2
    <3>2. /\ YearOfEra(DayOfEra(c, q, k, d)) = 100 * c + 4 * q + k
          /\ DayOfYear(DayOfEra(c, q, k, d)) = d
      BY <3>1, YearAndDay
    <3> QED BY <3>1, <3>2
  <2>2. EraDay(day + 1) = DayAfter(EraDay(day))
    BY Tomorrow
  <2>3. DayOfYear(DayAfter(DayOfEra(c, q, k, d))) =
            IF d = LastOfYear(c, q, k) THEN 0 ELSE d + 1
    BY <1>2, YearEnds
  <2> QED BY <1>2, <2>1, <2>2, <2>3
<1> DEFINE tm == gmtime(day)
           after == IF d = LastOfYear(c, q, k) THEN 0 ELSE d + 1
<1>4. /\ tm.mday = DayOfMonth(d) /\ tm.mon = MonthOf(d)
      /\ gmtime(day + 1).mday = DayOfMonth(after)
      /\ tm.year = 100 * c + 4 * q + k + 400 * Era(day) + (IF MonthOf(d) <= 2 THEN 1 ELSE 0)
  <2>1. /\ tm.mday = DayOfMonth(DayOfYear(EraDay(day)))
        /\ tm.mon = MonthOf(DayOfYear(EraDay(day)))
        /\ tm.year = YearOfEra(EraDay(day)) + 400 * Era(day)
                     + (IF MonthOf(DayOfYear(EraDay(day))) <= 2 THEN 1 ELSE 0)
    BY Gmtime
  <2>2. gmtime(day + 1).mday = DayOfMonth(DayOfYear(EraDay(day + 1)))
    BY Gmtime
  <2> HIDE DEF tm
  <2> QED BY <1>3, <2>1, <2>2
<1> HIDE DEF tm
<1>5. d <= 365 /\ LastOfYear(c, q, k) \in {364, 365} /\ d <= LastOfYear(c, q, k)
  BY <1>2, SMT DEF OfYear, LastOfYear
<1>6. CASE MonthOf(d) = 2
  <2>1. d >= 337 /\ DayOfMonth(d) = d - 336 /\ (d < 365 => DayOfMonth(d + 1) = d - 335)
    BY <1>5, <1>6, February
  <2>2. DayOfMonth(0) = 1
    BY SMT DEF DayOfMonth, MonthIndex
  <2>3. is_leap_year(tm.year) <=> LeapDay(c, q, k)
    BY <1>1, <1>4, <1>6, LeapYears, SMT
  <2>4. days_in_month(tm.year, 2) = LastOfYear(c, q, k) - 336
    BY <2>3, SMT DEF days_in_month, LastOfYear
  <2>5. days_in_month(tm.year, 2) = d - 336 <=> d = LastOfYear(c, q, k)
    BY <1>5, <2>4, SMT
  <2>6. DayOfMonth(after) = 1 <=> d = LastOfYear(c, q, k)
    BY <1>5, <2>1, <2>2, SMT
  <2> QED BY <1>4, <1>6, <2>1, <2>5, <2>6 DEF isLastDayOfMonth, tm
<1>7. CASE MonthOf(d) # 2
  <2>1. d < 364
    BY <1>5, <1>7, SMT DEF MonthOf, MonthIndex
  <2>2. after = d + 1
    BY <1>5, <2>1, SMT
  <2>3. days_in_month(tm.year, MonthOf(d)) = DayOfMonth(d) <=> DayOfMonth(d + 1) = 1
    BY <1>7, <2>1, MonthEnds, SMT
  <2> QED BY <1>4, <2>2, <2>3 DEF isLastDayOfMonth, tm
<1> QED BY <1>6, <1>7
=============================================================================
