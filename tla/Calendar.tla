------------------------------ MODULE Calendar ------------------------------
(***************************************************************************)
(* The Gregorian calendar as package time gives it to internal/csm. A      *)
(* month is a number of months since year 0, a day and an instant are      *)
(* counted from the first day of EpochYear, so that dates, their order and *)
(* the normalisation of time.Date (the 31st of April is the 1st of May,    *)
(* the 0th of March the last of February) are plain arithmetic.            *)
(***************************************************************************)
EXTENDS Integers

CONSTANTS EpochYear   \* instants, in seconds, stay within 68 years of it

CalendarAssumption == EpochYear \in Nat \ {0}
ASSUME CalendarAssumption

SecondsPerDay == 86400

Leap(y) == y % 4 = 0 /\ (y % 100 # 0 \/ y % 400 = 0)

\* The days of an ordinary year before each month.
DaysBefore == <<0, 31, 59, 90, 120, 151, 181, 212, 243, 273, 304, 334>>

YearStart(y) == 365 * y + (y - 1) \div 4 - (y - 1) \div 100 + (y - 1) \div 400

Month(y, m) == 12 * y + m - 1

\* The day on which month i begins.
FirstOf(i) ==
    LET y == i \div 12
        m == (i % 12) + 1
    IN  YearStart(y) - YearStart(EpochYear) + DaysBefore[m]
            + (IF m > 2 /\ Leap(y) THEN 1 ELSE 0)

\* time.Date: months and days out of range carry over.
Day(y, m, d) == FirstOf(Month(y, m)) + d - 1

DaysIn(y, m) == FirstOf(Month(y, m) + 1) - FirstOf(Month(y, m))

MonthOf(n) ==
    LET guess == 12 * EpochYear + (n * 4800) \div 146097
    IN  CHOOSE i \in (guess - 2)..(guess + 2) :
            FirstOf(i) <= n /\ n < FirstOf(i + 1)

YearNumber(n) == MonthOf(n) \div 12
MonthNumber(n) == (MonthOf(n) % 12) + 1
DayOfMonth(n) == n - FirstOf(MonthOf(n)) + 1

\* time.Weekday: Sunday is 0. The first of January of year 1 was a Monday.
Weekday(n) == (n + YearStart(EpochYear) - YearStart(1) + 1) % 7

IsWeekday(n) == Weekday(n) \notin {0, 6}

\* The instant of a date and a time of day, whose parts may be out of range.
Instant(day, h, mi, s) == day * SecondsPerDay + 3600 * h + 60 * mi + s

DayAt(t) == t \div SecondsPerDay
HourAt(t) == (t % SecondsPerDay) \div 3600
MinuteAt(t) == (t % 3600) \div 60
SecondAt(t) == t % 60

=============================================================================
