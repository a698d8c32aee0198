------------------------------- MODULE Dates --------------------------------
(***************************************************************************)
(* The date functions of funtime.c.  A date is the number YYYYMMDD that    *)
(* atol makes of its string.                                               *)
(***************************************************************************)
EXTENDS Integers, Sequences

CONSTANTS Starts,    \* dates to count from
          MaxDays    \* bound on the offset

ASSUME StartsAssumption == Starts \subseteq Nat

VARIABLES start,     \* lStartDate of CountDate
          date,      \* the date reached by its loop
          offset     \* the number of turns of its loop, with the sign of step

dateVars == <<start, date, offset>>

Year(n) == n \div 10000
Month(n) == (n % 10000) \div 100
Day(n) == n % 100

IsLeapYear(y) == (y % 4 = 0 /\ y % 100 # 0) \/ y % 400 = 0
YEARDAYS(y) == IF IsLeapYear(y) THEN 366 ELSE 365
MON2DAYS(y) == IF IsLeapYear(y) THEN 29 ELSE 28

\* Mutant: the months after July as before it.
RMonthDays_even(m, y) == IF m = 2 THEN MON2DAYS(y) ELSE IF m % 2 = 0 THEN 30 ELSE 31

RMONTHDAYS(m, y) ==
    IF m = 2 THEN MON2DAYS(y)
    ELSE IF (m < 8 /\ m % 2 = 0) \/ (m >= 8 /\ m % 2 # 0) THEN 30 ELSE 31

\* 0 for a date, else what is wrong with it.
checkdate(y, m, d) ==
    IF y < 0 \/ y > 9999 THEN -1
    ELSE IF m \notin 1..12 THEN -2
    ELSE LET last == CASE m \in {1, 3, 5, 7, 8, 10, 12} -> 31
                       [] m \in {4, 6, 9, 11} -> 30
                       [] m = 2 -> IF IsLeapYear(y) THEN 29 ELSE 28
         IN IF d \in 1..last THEN 0 ELSE -3

\* CheckDate and CheckStrDate, on a string of eight characters.
CheckDate(n) == IF checkdate(Year(n), Month(n), Day(n)) = 0 THEN 0 ELSE -1
CheckStrDate(n) == CheckDate(n)

\* One turn of the loop of CountDate.
DayStep(n, step) ==
    LET y == Year(n)  m == Month(n)  d == Day(n) + step
        m1 == m + step
        y2 == IF m1 \in 1..12 THEN y ELSE y + step
        m2 == IF m1 <= 0 THEN 12 ELSE IF m1 > 12 THEN 1 ELSE m1
        Date(yy, mm, dd) == yy * 10000 + mm * 100 + dd
    IN IF d \in 1..RMONTHDAYS(m, y) THEN Date(y, m, d)
       ELSE Date(y2, m2, IF d <= 0 THEN RMONTHDAYS(m2, y2) ELSE 1)

\* The loops of DiffDate: the days of the years before e from s on, and of the
\* months before m.
YearsSum(s, e) == LET sum[y \in s..e] == IF y = s THEN 0 ELSE sum[y - 1] + YEARDAYS(y - 1) IN sum[e]
MonthsSum(m, y) == LET sum[i \in 1..m] == IF i = 1 THEN 0 ELSE sum[i - 1] + RMONTHDAYS(i - 1, y) IN sum[m]

\* DiffDate: whole years, and the days of each year up to the date.
DiffDate(from, to) ==
    LET s == IF from > to THEN to ELSE from
        e == IF from > to THEN from ELSE to
        Passed(n) == MonthsSum(Month(n), Year(n)) + Day(n)
    IN (IF from > to THEN -1 ELSE 1) * (YearsSum(Year(s), Year(e)) + Passed(e) - Passed(s))

-----------------------------------------------------------------------------
DateInit == start \in Starts /\ CheckDate(start) = 0 /\ date = start /\ offset = 0

\* CountDate with an offset one further from zero.
CountDate(step) ==
    /\ date >= 0 /\ offset * step \in 0..MaxDays - 1
    /\ date' = DayStep(date, step)
    /\ offset' = offset + step
    /\ UNCHANGED start

DateNext == \E step \in {1, -1} : CountDate(step)
DateSpec == DateInit /\ [][DateNext]_dateVars

-----------------------------------------------------------------------------
\* The days from the first of January of the year 0, by the rule of the calendar.
DayNumber(n) ==
    LET y == Year(n)
        before == <<0, 31, 59, 90, 120, 151, 181, 212, 243, 273, 304, 334>>
        leap(k) == k \div 4 - k \div 100 + k \div 400
    IN 365 * y + (IF y = 0 THEN 0 ELSE leap(y - 1) + 1) + before[Month(n)]
       + (IF Month(n) > 2 /\ IsLeapYear(y) THEN 1 ELSE 0) + Day(n)

\* Counting days forwards or backwards, over the ends of months, years, leap
\* years and centuries, always gives a date that the check accepts, that many
\* days away by the calendar and by DiffDate in both directions, as long as the
\* year stays within 0 and 9999.
DatesAgree == Year(date) \in 0..9999 /\ date >= 0 =>
    /\ CheckStrDate(date) = 0
    /\ DayNumber(date) - DayNumber(start) = offset
    /\ DiffDate(start, date) = offset /\ DiffDate(date, start) = -offset
=============================================================================
