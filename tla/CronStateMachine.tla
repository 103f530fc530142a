-------------------------- MODULE CronStateMachine --------------------------
(***************************************************************************)
(* internal/csm: a date as six nodes, from seconds to years, that are      *)
(* moved forward to the next date that a cron expression allows.           *)
(*                                                                         *)
(* v[i] is the value of node i. What a CronStateMachine never changes is a *)
(* record c: c.values[i] is the sorted list of a node, empty if any value  *)
(* between its limits will do; c.weekdays is the list of a WeekDayNode     *)
(* (empty for a MonthDayNode) and c.n the special value of the day node.   *)
(* A day may exceed its month, and an hour its day, in v: the date v means *)
(* is the one time.Date makes of it.                                       *)
(***************************************************************************)
EXTENDS Calendar, FiniteSets, FiniteSetsExt

seconds == 0
minutes == 1
hours == 2
days == 3
months == 4
years == 5

Nodes == seconds..years
Values == [Nodes -> Int]

lowerBound(i) == IF i \in {days, months} THEN 1 ELSE 0

upperBound(i) ==
    CASE i \in {seconds, minutes, hours} -> 59
      [] i = days -> 31
      [] i = months -> 12
      [] i = years -> 999999

(***************************************************************************)
(* CommonNode. Next moves to the next value of the list, or to the next    *)
(* number; past the last one it returns to the first and overflows.        *)
(***************************************************************************)
Overflows(c, v, i) ==
    IF c.values[i] # {} THEN \A x \in c.values[i] : x <= v[i]
                        ELSE v[i] + 1 > upperBound(i)

NextValue(c, v, i) ==
    CASE Overflows(c, v, i) -> IF c.values[i] # {} THEN Min(c.values[i]) ELSE lowerBound(i)
      [] ~Overflows(c, v, i) /\ c.values[i] # {} -> Min({x \in c.values[i] : x > v[i]})
      [] OTHER -> v[i] + 1

Moved(v, over) == [v |-> v, over |-> over]

NextCommon(c, v, i) == Moved([v EXCEPT ![i] = NextValue(c, v, i)], Overflows(c, v, i))

ResetCommon(c, v, i) ==
    [v EXCEPT ![i] = NextValue(c, [v EXCEPT ![i] = upperBound(i)], i)]

isValidCommon(c, v, i) ==
    /\ lowerBound(i) <= v[i] /\ v[i] <= upperBound(i)
    /\ c.values[i] = {} \/ v[i] \in c.values[i]

(***************************************************************************)
(* DayNode: what is asked of the month.                                    *)
(***************************************************************************)
NLast == 1
NWeekdayOfMonth == 2

dayDate(v) == Day(v[years], v[months], v[days])
monthMax(v) == DaysIn(v[years], v[months])
getWeekday(v) == Weekday(dayDate(v))

daysOfWeekInMonth(c, v) ==
    {d \in 1..monthMax(v) : Weekday(Day(v[years], v[months], d)) = Min(c.weekdays)}

\* The n-th of the dates, or the last.
Nth(dates, n) ==
    IF n > 0 THEN CHOOSE d \in dates : Cardinality({x \in dates : x <= d}) = n
             ELSE Max(dates)

\* The closest weekday within the month, the earlier one of two.
closestWeekday(y, m, d) ==
    LET weekdays == {x \in 1..DaysIn(y, m) : IsWeekday(Day(y, m, x))}
        Near(i) == weekdays \cap {d - i, d + i}
    IN  Min(Near(CHOOSE i \in 0..7 : Near(i) # {} /\ \A j \in 0..(i - 1) : Near(j) = {}))

\* Mutant of advanceMonth: the year does not follow.
AdvanceMonthOnly(c, v) == NextCommon(c, v, months).v

advanceMonth(c, v) ==
    LET m == NextCommon(c, v, months)
    IN  IF m.over THEN NextCommon(c, m.v, years).v ELSE m.v

isValidWeekday(c, v) ==
    LET dates == daysOfWeekInMonth(c, v)
    IN  IF c.n = 0 THEN getWeekday(v) \in c.weekdays
                   ELSE c.n <= Cardinality(dates) /\ v[days] = Nth(dates, c.n)

isValidDayOfMonth(c, v) ==
    CASE c.n = 0 -> TRUE
      [] c.n < 0 -> v[days] = monthMax(v) + c.n
      [] c.n = NLast -> v[days] = monthMax(v)
      [] c.n = NWeekdayOfMonth -> IsWeekday(dayDate(v))
      [] OTHER -> v[days] = monthMax(v) /\ IsWeekday(dayDate(v))

isValidDay(c, v) ==
    /\ isValidCommon(c, v, days)
    /\ v[days] <= monthMax(v)
    /\ IF c.weekdays # {} THEN isValidWeekday(c, v) ELSE isValidDayOfMonth(c, v)

(***************************************************************************)
(* DayNode: moving on. With a special value n the day may move to a later  *)
(* month, and the node never reports an overflow.                          *)
(***************************************************************************)
addDays(v, offset) ==
    Moved([v EXCEPT ![days] = DayOfMonth(dayDate(v) + offset)],
          v[days] + offset > monthMax(v))

nextWeekday(c, v) ==
    LET weekday == getWeekday(v)
        later == {x \in c.weekdays : x > weekday}
    IN  addDays(v, IF later = {} THEN 7 + Min(c.weekdays) - weekday
                                 ELSE Min(later) - weekday)

\* The search in the next month begins before its first day.
LaterMonth(c, v) == [advanceMonth(c, v) EXCEPT ![days] = 0]

\* The day here in this month, or the day there in the next.
SameOrNextMonth(c, v, here, there) ==
    IF v[days] >= here THEN [LaterMonth(c, v) EXCEPT ![days] = there]
                       ELSE [v EXCEPT ![days] = here]

nextWeekdayOfMonth(c, v) ==
    LET target(u) ==
            LET first == Min(c.values[days])
                date == IF first > monthMax(u) \/ c.n # NWeekdayOfMonth
                        THEN monthMax(u) ELSE first
            IN  closestWeekday(u[years], u[months], date)
    IN  SameOrNextMonth(c, v, target(v), target(LaterMonth(c, v)))

nextLastDayOfMonth(c, v) ==
    LET offset == IF c.n = NLast THEN 0 ELSE c.n
        target(u) == DayOfMonth(Day(u[years], u[months] + 1, offset))
    IN  SameOrNextMonth(c, v, target(v), target(LaterMonth(c, v)))

\* A month without such a day is left with the day as it is.
nextWeekdayN(c, v) ==
    LET dates(u) == daysOfWeekInMonth(c, u)
        getDayInMonth[u \in Values] ==
            IF c.n > Cardinality(dates(u))
            THEN getDayInMonth[advanceMonth(c, u)]
            ELSE IF u[days] >= Nth(dates(u), c.n)
                 THEN getDayInMonth[[advanceMonth(c, u) EXCEPT ![days] = 0]]
                 ELSE [u EXCEPT ![days] = Nth(dates(u), c.n)]
    IN  getDayInMonth[v]

NextDay(c, v) ==
    CASE c.weekdays # {} /\ c.n = 0 -> nextWeekday(c, v)
      [] c.weekdays # {} /\ c.n # 0 -> Moved(nextWeekdayN(c, v), FALSE)
      [] c.weekdays = {} /\ c.n = 0 -> NextCommon(c, v, days)
      [] c.weekdays = {} /\ c.n >= NWeekdayOfMonth -> Moved(nextWeekdayOfMonth(c, v), FALSE)
      [] OTHER -> Moved(nextLastDayOfMonth(c, v), FALSE)

(***************************************************************************)
(* The nodes together.                                                     *)
(***************************************************************************)
NextNode(c, v, i) == IF i = days THEN NextDay(c, v) ELSE NextCommon(c, v, i)

isValid(c, v, i) == IF i = days THEN isValidDay(c, v) ELSE isValidCommon(c, v, i)

ResetDay(c, v) ==
    LET first == [v EXCEPT ![days] = lowerBound(days)]
    IN  IF isValidDay(c, first) THEN first ELSE NextDay(c, first).v

ResetBelow(c, v, i) ==
    [j \in Nodes |-> IF j <= i /\ j < days THEN ResetCommon(c, v, j)[j] ELSE v[j]]

\* Reset node i and all below it, from the top.
resetFrom(c, v, i) ==
    LET month == IF i >= months THEN ResetCommon(c, v, months) ELSE v
    IN  ResetBelow(c, IF i >= days THEN ResetDay(c, month) ELSE month, i)

overflowFrom(c, v, i) ==
    LET carry[j \in Nodes \cup {years + 1}] ==
            [u \in Values |->
                IF j > years THEN u
                ELSE LET next == NextNode(c, u, j)
                     IN  IF next.over THEN carry[j + 1][next.v]
                                      ELSE resetFrom(c, next.v, j - 1)]
    IN  carry[i][v]

\* After a carry to a month or year, a weekday may have to be found anew.
Settle(c, v) == IF isValidDay(c, v) THEN v ELSE ResetDay(c, v)

isValidDate(v) == v[days] <= monthMax(v)

\* One round of the loop of next(), after the move d of the days.
CarryDays(c, d) ==
    LET m == NextCommon(c, d.v, months)
        y == NextCommon(c, m.v, years)
    IN  CASE ~d.over -> d.v
          [] d.over /\ ~m.over -> Settle(c, m.v)
          [] d.over /\ m.over /\ ~y.over -> Settle(c, y.v)
          [] OTHER -> y.v

NextDate(c, v) == CarryDays(c, NextDay(c, v))

\* Mutant of nextValidDate: the first date is taken as it is.
AnyNextDate(c, v) == NextDate(c, v)

nextValidDate(c, v) ==
    LET loop[u \in Values] == IF isValidDate(u) THEN u ELSE loop[NextDate(c, u)]
    IN  loop[NextDate(c, v)]

next(c, v) ==
    LET s == NextCommon(c, v, seconds)
        m == NextCommon(c, s.v, minutes)
        h == NextCommon(c, m.v, hours)
    IN  CASE ~s.over -> s.v
          [] s.over /\ ~m.over -> m.v
          [] s.over /\ m.over /\ ~h.over -> h.v
          [] OTHER -> nextValidDate(c, h.v)

\* What follows a move of node i: all below it is reset, and an overflow
\* moves those above.
Settled(c, moved, i) ==
    LET reset == resetFrom(c, moved.v, i - 1)
    IN  IF moved.over THEN overflowFrom(c, reset, i + 1) ELSE reset

\* The most significant node that is not valid is moved forward; if there is
\* none, the whole is moved on by one step.
findForward(c, v) ==
    LET invalid == {i \in Nodes : ~isValid(c, v, i)}
    IN  IF invalid = {} THEN next(c, v)
                        ELSE Settled(c, NextNode(c, v, Max(invalid)), Max(invalid))

\* The reading of the wall clock that the nodes stand for.
ValueOf(v) == Instant(dayDate(v), v[hours], v[minutes], v[seconds])

=============================================================================
