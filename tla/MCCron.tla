------------------------------- MODULE MCCron -------------------------------
(***************************************************************************)
(* Instances of CronTrigger for TLC.                                       *)
(***************************************************************************)
EXTENDS CronTrigger

Name(s) == [is |-> "value", lit |-> <<"name", s>>]
FromTo(a, b) == [is |-> "range", from |-> <<"num", a>>, to |-> <<"num", b>>]
NameRange(a, b) == [is |-> "range", from |-> <<"name", a>>, to |-> <<"name", b>>]
Step(of, by) == [is |-> "step", of |-> of, by |-> by]
List(items) == [is |-> "list", items |-> items]
Special(s) == <<[is |-> "special", name |-> s]>>
LastDay == [is |-> "last"]
LastMinus(n) == [is |-> "lastMinus", n |-> n]
NearWeekday(n) == [is |-> "weekday", day |-> n]
LastWeekday == [is |-> "lastWeekday"]
LastOf(lit) == [is |-> "lastOf", day |-> lit]
NthOf(lit, n) == [is |-> "nth", day |-> lit, n |-> n]
Star == AnyValue
Question == [is |-> "none"]

At10(dom, month, dow, year) == <<Num(0), Num(0), Num(10), dom, month, dow, year>>

Monday == <<"num", 2>>
Saturday == <<"name", "SAT">>

\* A day that every month has, the end of the month, or one day of the week.
DayFields ==
    {<<d, Question>> : d \in {Num(1), Num(15), FromTo(10, 14), Step(FromTo(3, 28), 7),
                          LastDay, LastMinus(2)}} \cup
    {<<Star, d>> : d \in {Num(1), Name("MON"), Num(7), LastDay, LastOf(<<"num", 6>>),
                          LastOf(Saturday), NthOf(Monday, 1), NthOf(Saturday, 4)}}

Weekly == {Star, NameRange("MON", "FRI"), List(<<Name("MON"), Num(7)>>), Step(Star, 3)}

MonthFields == {Star, Num(4), List(<<Num(2), Name("APR")>>)}
YearFields == {Star, FromTo(2024, 2025)}

\* Once a day: the day fields with any months, several weekdays with all.
Daily ==
    {At10(d[1], m, d[2], y) : d \in DayFields, m \in MonthFields, y \in YearFields}
        \cup {At10(Star, Star, w, y) : w \in Weekly, y \in YearFields}

Date(y, m, d, h, mi, s) == Instant(Day(y, m, d), h, mi, s)

DailyStarts ==
    {Date(d[1], d[2], d[3], h, 0, 0) :
        h \in {0, 10, 23},
        d \in {<<2023, 12, 31>>, <<2024, 1, 29>>, <<2024, 1, 31>>, <<2024, 2, 15>>,
               <<2024, 2, 28>>, <<2024, 2, 29>>, <<2024, 3, 1>>, <<2024, 3, 31>>,
               <<2024, 4, 1>>, <<2024, 4, 14>>, <<2024, 4, 30>>, <<2024, 12, 31>>,
               <<2025, 2, 28>>, <<2025, 4, 30>>}}

\* Days that some months lack, and weekdays near a date: right once the
\* sequence is on its way, so it starts in January, away from the day itself.
Irregular ==
    {At10(d, Star, Star, y) :
        d \in {Num(29), Num(31), List(<<Num(30), Num(31)>>), NearWeekday(1), NearWeekday(15),
               NearWeekday(31), LastWeekday},
        y \in YearFields}
    \cup {At10(Star, Star, NthOf(Monday, 5), Star)}

IrregularStarts == {Date(2024, 1, d, 10, 0, 0) : d \in {8, 20}}

\* Lists, ranges and steps of the time of day.
Clock ==
    { <<Step(Star, 20), Step(Num(15), 30), List(<<Num(9), FromTo(17, 18)>>), Star, Star, Star>>,
      <<Num(0), List(<<Num(5), Step(Star, 25)>>), Star, Star, Star, Star>>,
      <<Num(30), Num(59), Num(23), Star, Star, Name("SUN")>> }

Specials == {Special(s) : s \in {"@yearly", "@monthly", "@weekly", "@daily", "@hourly"}}

ClockStarts == {Date(2025, 12, 30, 23, 59, 59), Date(2025, 12, 28, 9, 45, 0)}

Everything == {<<Star, Star, Star, Star, Star, Star>>}
EverythingStarts == {Date(2025, 12, 31, 23, 59, 0)}

\* What is no expression, for the readme and the parser.
Wrong ==
    { Special("@never"),
      <<Num(0), Num(0), Num(0), Star, Star>>,
      <<Num(60), Num(0), Num(0), Star, Star, Star>>,
      <<Num(0), Num(0), Num(24), Star, Star, Star>>,
      <<Num(0), Num(0), Num(0), Num(1), Star, Num(1)>>,
      <<Num(0), Num(0), Num(0), LastMinus(0), Star, Star>>,
      <<Num(0), Num(0), Num(0), NearWeekday(32), Star, Star>>,
      <<Num(0), Num(0), Num(0), Star, Name("MAI"), Star>>,
      <<Num(0), Num(0), Num(0), Star, Star, NameRange("FRI", "MON")>>,
      <<Num(0), Num(0), Num(0), Star, Star, NthOf(Monday, 0)>>,
      <<Num(0), Num(0), LastDay, Star, Star, Star>>,
      <<Num(0), Step(Question, 5), Num(0), Star, Star, Star>>,
      <<Num(0), List(<<Num(1), Star>>), Num(0), Star, Star, Star>>,
      <<Num(0), List(<<Num(99), FromTo(9, 60)>>), Num(0), Star, Star, Star>> }

\* What the parser takes, or does not take, against the readme. When the first
\* of these fire is not asked: it is not when they say.
AtMidnight(year) == <<Num(0), Num(0), Num(0), Star, Star, Star, year>>

Tolerable ==
    { <<Num(0), List(<<Num(1), Num(99)>>), Num(0), Star, Star, Star>>,
      <<Num(0), Num(0), Num(0), List(<<Num(0), Num(32)>>), Star, Question>>,
      <<Num(0), Question, Question, Star, Question, Star, Question>>,
      AtMidnight(List(<<Num(1969), Num(4000)>>)) }

Refused ==
    { <<Num(0), Step(Num(0), 60), Num(0), Star, Star, Star>>,
      <<Num(0), Num(0), List(<<Num(99), Step(Star, 24)>>), Star, Star, Star>>,
      <<Num(0), Num(0), Num(0), Star, Star, NthOf(Monday, 6)>>,
      AtMidnight(Num(3941)), AtMidnight(FromTo(2024, 3941)), AtMidnight(Step(Num(3941), 1)) }

InUTC(expressions, starts) ==
    {[expression |-> e, location |-> UTC, starts |-> starts] : e \in expressions}

\* Summer time in 2025, west and east of Greenwich: New York and Berlin.
Hour == 3600
NewYork == [standard |-> -5 * Hour, summer |-> -4 * Hour,
            from |-> Date(2025, 3, 9, 7, 0, 0), to |-> Date(2025, 11, 2, 6, 0, 0)]
Berlin == [standard |-> Hour, summer |-> 2 * Hour,
           from |-> Date(2025, 3, 30, 1, 0, 0), to |-> Date(2025, 10, 26, 1, 0, 0)]

\* Once a day, in the hour that does not exist, in the one that there is
\* twice, and in none of the two; every hour, from the day before.
Shifted == {<<Num(0), Num(30), Num(h), Star, Star, Star>> : h \in {1, 2, 10}}
Hourly == {<<Num(0), Num(0), Star, Star, Star, Star>>}

\* Not in the first hour of summer time, nor in its last: a reading that the
\* clocks skip, or have yet to repeat, then counts as past.
Around(loc) ==
    {loc.from + x : x \in {-30 * Hour, -Hour - 600, -600, Hour + 600}} \cup
    {loc.to + x : x \in {-30 * Hour, -Hour - 600, 0, 600, Hour - 600, Hour + 600}}

InLocation(expressions, loc, starts) ==
    {[expression |-> e, location |-> loc, starts |-> starts] : e \in expressions}

InSummerTime(loc) ==
    InLocation(Shifted, loc, Around(loc))
        \cup InLocation(Hourly, loc, {loc.from - 30 * Hour, loc.to - 30 * Hour})

MCCases ==
    InUTC(Daily, DailyStarts) \cup InUTC(Irregular, IrregularStarts)
        \cup InUTC(Clock \cup Specials, ClockStarts)
        \cup InUTC(Everything, EverythingStarts)
        \cup InUTC(Wrong \cup Tolerable \cup Refused, {Date(LastYear + 1, 1, 1, 0, 0, 0)})
        \cup InSummerTime(NewYork) \cup InSummerTime(Berlin)

\* Twice an hour in New York.
HalfHourly == <<Num(0), Step(Num(0), 30), Star, Star, Star, Star>>
MCHalfHourly == InLocation({HalfHourly}, NewYork, {NewYork.from - 72 * Hour})

=============================================================================
