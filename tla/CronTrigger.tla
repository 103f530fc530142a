---------------------------- MODULE CronTrigger -----------------------------
(***************************************************************************)
(* A CronTrigger (quartz/cron.go, quartz/csm.go) that is created and then  *)
(* asked for one fire time after another, each time from the previous one. *)
(* An instant is a number of UTC seconds: NextFireTime drops the           *)
(* nanoseconds of `prev'.                                                  *)
(*                                                                         *)
(* A location has two offsets from UTC and the instants between which the  *)
(* second is in force. In UTC they are equal.                              *)
(***************************************************************************)
EXTENDS CronMeaning, CronStateMachine

CONSTANTS Cases,      \* records: an expression, a location, instants to start from
          LastYear    \* bound: no fire time is asked for after this year

ASSUME CasesAssumption == \A case \in Cases : IsExpression(case.expression)

VARIABLES expression, \* the tokens
          location,
          fields,     \* ct.fields, <<>> before NewCronTrigger and after an error
          status,     \* "new", "error", "armed", "expired"
          at          \* the latest fire time, or where the sequence starts

vars == <<expression, location, fields, status, at>>

UTC == [standard |-> 0, summer |-> 0, from |-> 0, to |-> 0]

OffsetAt(t) == IF location.from <= t /\ t < location.to THEN location.summer
                                                       ELSE location.standard

Offsets == {location.standard, location.summer}

\* time.Time.In: what the clocks of the location show at an instant.
WallClock(t) == t + OffsetAt(t)

\* time.Date: an instant at which they show w. Of two it is one, and for a
\* reading that is passed over it is an hour off: the offset is looked up
\* with w taken for UTC, and once more if that was on the wrong side.
TimeOf(w) ==
    LET guess == w - OffsetAt(w)
    IN  IF OffsetAt(guess) = OffsetAt(w) THEN guess ELSE w - OffsetAt(guess)

\* newCSMFromFields: the nodes, from the date of the previous fire time.
newNodes(w) ==
    LET day == DayAt(w)
    IN  [i \in Nodes |->
            CASE i = seconds -> SecondAt(w)
              [] i = minutes -> MinuteAt(w)
              [] i = hours -> HourAt(w)
              [] i = days -> DayOfMonth(day)
              [] i = months -> MonthNumber(day)
              [] i = years -> YearNumber(day)]

\* The rest of the machine. A weekday list makes the day node a WeekDayNode,
\* which has no list of days.
newMachine ==
    LET weekly == fields[6].values # {}
    IN  [values |-> [i \in Nodes |->
                        CASE i < days -> fields[i + 1].values
                          [] i = days -> IF weekly THEN {} ELSE fields[4].values
                          [] i = months -> fields[5].values
                          [] i = years -> fields[7].values],
         weekdays |-> fields[6].values,
         n |-> IF weekly THEN fields[6].n ELSE fields[4].n]

Init ==
    \E case \in Cases :
        /\ expression = case.expression
        /\ location = case.location
        /\ at \in case.starts
        /\ fields = <<>>
        /\ status = "new"

NewCronTrigger ==
    /\ status = "new"
    /\ fields' = newFields(expression)
    /\ status' = IF fields' = <<>> THEN "error" ELSE "armed"
    /\ UNCHANGED <<expression, location, at>>

Asked == status = "armed" /\ YearNumber(DayAt(at)) <= LastYear

\* NextTriggerTime: where the first iteration stops, from where the second
\* one goes on.
First == findForward(newMachine, newNodes(WallClock(at)))
Second(first) == findForward(newMachine, first)

NextTriggerTime(v) == TimeOf(ValueOf(v))

FireAt(t) ==
    /\ t > at
    /\ at' = t
    /\ UNCHANGED <<expression, location, fields, status>>

FireOnFirst(first) == FireAt(NextTriggerTime(first))

\* Away from UTC there is a second iteration (tzPasses = 2).
FireOnSecond(first) ==
    /\ NextTriggerTime(first) <= at /\ location # UTC
    /\ FireAt(NextTriggerTime(Second(first)))

\* ErrTriggerExpired.
Expire(first) ==
    /\ NextTriggerTime(first) <= at
    /\ location # UTC => NextTriggerTime(Second(first)) <= at
    /\ status' = "expired"
    /\ UNCHANGED <<expression, location, fields, at>>

NextFireTime ==
    /\ Asked
    /\ \E first \in {First} : FireOnFirst(first) \/ FireOnSecond(first) \/ Expire(first)

Next == NewCronTrigger \/ NextFireTime

Spec == Init /\ [][Next]_vars

(***************************************************************************)
(* Properties. T is the expression as its user wrote it.                   *)
(***************************************************************************)
T == WithYear(Tokens(expression))

IsNamed(w) == OnDay(T, DayAt(w)) /\ AtTime(T, HourAt(w), MinuteAt(w), SecondAt(w))

\* The readings of the clock that the expression names on a day, from one
\* hour to another.
Named(day, h1, h2) ==
    IF OnDay(T, day) THEN {day * SecondsPerDay + x : x \in TimesBetween(T, h1, h2)} ELSE {}

\* No reading that the expression names belongs to an instant between two:
\* there is none on the days that lie between, and of those on the first and
\* the last day none is late, or early, enough.
NothingBetween(lo, hi) ==
    LET d1 == DayAt(WallClock(lo))
        d2 == DayAt(WallClock(hi))
        h1 == HourAt(WallClock(lo)) - 1
        h2 == HourAt(WallClock(hi)) + 1
        Outside(w) == TimeOf(w) <= lo \/ hi <= TimeOf(w)
    IN  /\ \A d \in (d1 + 1)..(d2 - 1) : ~OnDay(T, d)
        /\ \A w \in Named(d1, h1, IF d1 = d2 THEN h2 ELSE 23) : Outside(w)
        /\ d1 # d2 => \A w \in Named(d2, 0, h2) : Outside(w)

\* A fire time is later than the previous one, the expression names it, and
\* it names nothing between the two. This is the promise of the csm package:
\* "what is the first following instant that fits the expression?"
FiresNext ==
    [][ at' # at =>
            /\ at' > at
            /\ \E o \in Offsets : IsNamed(at' + o) /\ at' = TimeOf(at' + o)
            /\ NothingBetween(at, at') ]_vars

\* NextFireTime returns ErrTriggerExpired only when the years of the
\* expression are over: it names nothing that is later.
ExpiresAtTheEnd ==
    status = "expired" =>
        /\ \A y \in 1970..3940 : Year(T, y) => y <= LastYear
        /\ NothingBetween(at, Instant(Day(LastYear + 1, 1, 1), 0, 0, 0))

\* The parser is more tolerant than the readme in two ways: it takes ? in any
\* field, and a plain value of a list that is not allowed, such as 1,99.
Tolerated(t, i) ==
    \/ t.is = "none"
    \/ /\ t.is = "list"
       /\ \A item \in ToSet(t.items) :
             ItemWellFormed(item, i) \/ (item.is = "value" /\ Known(item.lit, Names(i)))

\* And it is stricter in three: years end, except as plain values of a list,
\* a field has a greatest increment, and # goes to 5.
Far(lit, i) == i = 7 /\ normalize(lit, noNames) > 3940

BeyondSpan(t, i) ==
    \/ t.is = "value" /\ Far(t.lit, i)
    \/ t.is = "range" /\ Far(t.to, i)

Largest == <<59, 59, 23, 31, 12, 7, 3940>>

BeyondItem(t, i) ==
    IF t.is = "step" THEN t.by > Largest[i] \/ BeyondSpan(t.of, i) ELSE BeyondSpan(t, i)

Beyond(t, i) ==
    \/ BeyondItem(t, i)
    \/ t.is = "list" /\ \E item \in ToSet(t.items) : item.is # "value" /\ BeyondItem(item, i)
    \/ t.is = "nth" /\ t.n > 5

\* NewCronTrigger and the readme agree on which expressions there are, but for
\* the tokens just named.
DepartsFromReadmeOnlySo ==
    status # "new" =>
        (status # "error" <=>
            /\ Len(T) = 7
            /\ OneDayField(T)
            /\ \A i \in 1..7 : (WellFormed(T[i], i) \/ Tolerated(T[i], i)) /\ ~Beyond(T[i], i))

TypeOK ==
    /\ status \in {"new", "error", "armed", "expired"}
    /\ at \in Int
    /\ fields # <<>> => \A i \in 1..7 : fields[i].values \subseteq Int /\ fields[i].n \in -31..5

=============================================================================
