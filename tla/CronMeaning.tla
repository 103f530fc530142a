---------------------------- MODULE CronMeaning -----------------------------
(***************************************************************************)
(* What a cron expression means, as its users are told (the table of the   *)
(* readme and the examples of quartz/cron.go), without any of the code's   *)
(* fields, nodes and bounds: which expressions there are, and which dates  *)
(* and times of day one names. The parser and CronStateMachine are checked *)
(* against it.                                                             *)
(***************************************************************************)
EXTENDS CronParser, Calendar

Lowest == <<0, 0, 0, 1, 1, 1, 1970>>

\* The years have no end.
Allowed == <<0..59, 0..59, 0..23, 1..31, 1..12, 1..7, {y \in Nat : 1970 <= y}>>

Names(i) == IF i = 5 THEN monthNames ELSE IF i = 6 THEN dayNames ELSE noNames

\* Whether value v of field i is one of those that a token names.
SelectsItem(t, i, v) ==
    LET between(from, to) == normalize(from, Names(i)) <= v /\ v <= normalize(to, Names(i))
    IN  CASE t.is \in Unset -> TRUE
          [] t.is = "value" -> v = normalize(t.lit, Names(i))
          [] t.is = "range" -> between(t.from, t.to)
          [] t.is = "step" ->
                LET first == CASE t.of.is = "any" -> Lowest[i]
                               [] t.of.is = "value" -> normalize(t.of.lit, Names(i))
                               [] t.of.is = "range" -> normalize(t.of.from, Names(i))
                IN  /\ \E k \in 0..(v - first) : v = first + k * t.by
                    /\ t.of.is = "range" => between(t.of.from, t.of.to)

Selects(t, i, v) ==
    IF t.is = "list" THEN \E item \in ToSet(t.items) : SelectsItem(item, i, v)
                     ELSE SelectsItem(t, i, v)

WeekdayNumber(day) == Weekday(day) + 1

\* The distance of two days of a month, the earlier of two that are equally
\* near coming first.
Distance(d, target) == IF d <= target THEN 2 * (target - d) ELSE 2 * (d - target) + 1

NearestTo(day, target) ==
    LET i == MonthOf(day)
        weekdays == {d \in FirstOf(i)..(FirstOf(i + 1) - 1) : IsWeekday(d)}
    IN  /\ day \in weekdays
        /\ \A d \in weekdays : Distance(day, target) <= Distance(d, target)

SelectsDayOfMonth(t, day) ==
    LET last == FirstOf(MonthOf(day) + 1) - 1
        dated == FirstOf(MonthOf(day)) + t.day - 1
    IN  CASE t.is = "last" -> day = last
          [] t.is = "lastMinus" -> day = last - t.n
          [] t.is = "lastWeekday" -> NearestTo(day, last)
          [] t.is = "weekday" -> NearestTo(day, IF dated > last THEN last ELSE dated)
          [] OTHER -> Selects(t, 4, DayOfMonth(day))

\* The n-th such weekday is the one with n - 1 others before it in the month.
SelectsDayOfWeek(t, day) ==
    CASE t.is = "last" -> WeekdayNumber(day) = 7 /\ MonthOf(day + 7) # MonthOf(day)
      [] t.is = "lastOf" -> /\ WeekdayNumber(day) = normalize(t.day, dayNames)
                            /\ MonthOf(day + 7) # MonthOf(day)
      [] t.is = "nth" -> /\ WeekdayNumber(day) = normalize(t.day, dayNames)
                         /\ (DayOfMonth(day) - 1) \div 7 = t.n - 1
      [] OTHER -> Selects(t, 6, WeekdayNumber(day))

\* The dates and the times of day of an expression (of seven tokens).
Year(t, y) == Selects(t[7], 7, y)

OnDay(t, day) ==
    /\ Year(t, YearNumber(day))
    /\ Selects(t[5], 5, MonthNumber(day))
    /\ SelectsDayOfMonth(t[4], day)
    /\ SelectsDayOfWeek(t[6], day)

AtTime(t, h, mi, s) == Selects(t[3], 3, h) /\ Selects(t[2], 2, mi) /\ Selects(t[1], 1, s)

TimesBetween(t, h1, h2) ==
    {3600 * h + 60 * mi + s :
        h \in {x \in (h1..h2) \cap (0..23) : Selects(t[3], 3, x)},
        mi \in {x \in 0..59 : Selects(t[2], 2, x)},
        s \in {x \in 0..59 : Selects(t[1], 1, x)}}

(***************************************************************************)
(* Which tokens and expressions are in order: values that are known and    *)
(* allowed, ranges that go upwards, increments, ? only for a day, and one  *)
(* of the two day fields left open.                                        *)
(***************************************************************************)
Proper(lit, i) == Known(lit, Names(i)) /\ normalize(lit, Names(i)) \in Allowed[i]

SpanWellFormed(t, i) ==
    CASE t.is = "value" -> Proper(t.lit, i)
      [] t.is = "range" -> /\ Proper(t.from, i) /\ Proper(t.to, i)
                           /\ normalize(t.from, Names(i)) <= normalize(t.to, Names(i))
      [] OTHER -> FALSE

ItemWellFormed(t, i) ==
    IF t.is = "step"
    THEN (t.of.is = "any" \/ SpanWellFormed(t.of, i)) /\ t.by \in Nat \ {0}
    ELSE SpanWellFormed(t, i)

WellFormed(t, i) ==
    CASE t.is = "any" -> TRUE
      [] t.is = "none" -> i \in {4, 6}
      [] t.is = "list" -> \A item \in ToSet(t.items) : ItemWellFormed(item, i)
      [] t.is = "last" -> i \in {4, 6}
      [] t.is = "lastMinus" -> i = 4 /\ t.n \in Allowed[4]
      [] t.is = "weekday" -> i = 4 /\ t.day \in Allowed[4]
      [] t.is = "lastWeekday" -> i = 4
      [] t.is = "lastOf" -> i = 6 /\ Proper(t.day, i)
      [] t.is = "nth" -> i = 6 /\ Proper(t.day, i) /\ t.n \in Nat \ {0}
      [] OTHER -> ItemWellFormed(t, i)

OneDayField(t) == t[4].is \in Unset \/ t[6].is \in Unset

=============================================================================
