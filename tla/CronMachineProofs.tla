-------------------------- MODULE CronMachineProofs ---------------------------
(***************************************************************************)
(* Where findForward of internal/csm stops: at the next reading of the     *)
(* clock that the nodes allow. Proved for machines whose months and years  *)
(* are free and whose day is any day, a weekday of a list or one of the    *)
(* first 28 of a month (Plain), for every reading of the clock and every   *)
(* list of values.                                                         *)
(***************************************************************************)
EXTENDS CronStateMachine, TLAPS, WellFoundedInduction

-----------------------------------------------------------------------------
(* The calendar.                                                           *)

\* A year has 365 days or, if it is a leap year, 366.
LEMMA YearStarts ==
    ASSUME NEW y \in Int
    PROVE  /\ YearStart(y) \in Int
           /\ YearStart(y + 1) = YearStart(y) + (IF Leap(y) THEN 366 ELSE 365)
<1>1. YearStart(y) \in Int BY DEF YearStart
<1>2. (y \div 4) = ((y - 1) \div 4) + (IF y % 4 = 0 THEN 1 ELSE 0) OBVIOUS
<1>3. (y \div 100) = ((y - 1) \div 100) + (IF y % 100 = 0 THEN 1 ELSE 0) OBVIOUS
<1>4. (y \div 400) = ((y - 1) \div 400) + (IF y % 400 = 0 THEN 1 ELSE 0) OBVIOUS
<1>5. y % 400 = 0 => y % 100 = 0 OBVIOUS
<1>6. y % 100 = 0 => y % 4 = 0 OBVIOUS
<1>7. QED BY <1>2, <1>3, <1>4, <1>5, <1>6 DEF YearStart, Leap

\* On average 146097 days in 400 years.
LEMMA YearStartApprox ==
    ASSUME NEW y \in Int
    PROVE  /\ 146097 * y - 1200 <= 400 * YearStart(y)
           /\ 400 * YearStart(y) <= 146097 * y + 1200
BY DEF YearStart

\* What a month is: the month number m of the year y.
LEMMA MonthIs ==
    ASSUME NEW y \in Int, NEW m \in 1..12
    PROVE  /\ Month(y, m) \in Int
           /\ Month(y, m) \div 12 = y /\ (Month(y, m) % 12) + 1 = m
           /\ Month(y, m) + 1 = IF m = 12 THEN Month(y + 1, 1) ELSE Month(y, m + 1)
BY DEF Month

\* Every month number is that of a year and a month.
LEMMA IsMonth ==
    ASSUME NEW i \in Int
    PROVE  /\ i \div 12 \in Int /\ (i % 12) + 1 \in 1..12
           /\ i = Month(i \div 12, (i % 12) + 1)
BY DEF Month

MonthDays(y, m) ==
    CASE m = 2 -> IF Leap(y) THEN 29 ELSE 28
      [] m \in {4, 6, 9, 11} -> 30
      [] OTHER -> 31

\* The first day of a month, without the table of the calendar.
LEMMA FirstOfIs ==
    ASSUME NEW y \in Int, NEW m \in 1..12
    PROVE  FirstOf(Month(y, m)) = YearStart(y) - YearStart(EpochYear) + DaysBefore[m]
                                      + (IF m > 2 /\ Leap(y) THEN 1 ELSE 0)
BY MonthIs, Zenon DEF FirstOf

\* A month has as many days as it should, up to the first of the next.
LEMMA MonthLength ==
    ASSUME NEW y \in Int, NEW m \in 1..12
    PROVE  /\ FirstOf(Month(y, m)) \in Int
           /\ FirstOf(Month(y, m) + 1) = FirstOf(Month(y, m)) + MonthDays(y, m)
<1>1. YearStart(y) \in Int /\ YearStart(EpochYear) \in Int /\ y + 1 \in Int
  BY YearStarts, CalendarAssumption DEF CalendarAssumption
<1>2. YearStart(y + 1) = YearStart(y) + (IF Leap(y) THEN 366 ELSE 365) BY YearStarts
<1>3. CASE m = 12
  <2>1. FirstOf(Month(y + 1, 1)) = YearStart(y + 1) - YearStart(EpochYear)
    BY <1>1, <1>2, FirstOfIs DEF DaysBefore
  <2>2. Month(y, m) + 1 = Month(y + 1, 1) BY <1>3, MonthIs
  <2>3. QED BY <1>1, <1>2, <1>3, <2>1, <2>2, FirstOfIs DEF DaysBefore, MonthDays
<1>4. CASE m # 12
  <2>1. Month(y, m) + 1 = Month(y, m + 1) BY <1>4, MonthIs
  <2>2. m + 1 \in 1..12 BY <1>4
  <2>3. QED BY <1>1, <1>4, <2>1, <2>2, FirstOfIs DEF DaysBefore, MonthDays
<1>5. QED BY <1>3, <1>4

\* A month has 28 to 31 days.
LEMMA FirstOfNext ==
    ASSUME NEW i \in Int
    PROVE  /\ FirstOf(i) \in Int /\ FirstOf(i + 1) \in Int
           /\ FirstOf(i) + 28 <= FirstOf(i + 1) /\ FirstOf(i + 1) <= FirstOf(i) + 31
<1>1. PICK y \in Int, m \in 1..12 : i = Month(y, m) BY IsMonth
<1>2. FirstOf(i) \in Int /\ FirstOf(i + 1) = FirstOf(i) + MonthDays(y, m) BY <1>1, MonthLength
<1>3. MonthDays(y, m) \in 28..31 BY DEF MonthDays
<1>4. QED BY <1>2, <1>3

\* How far the first of a month is from where it would be if all months
\* were equally long, in 1/4800 of a day.
Drift(i) == 4800 * FirstOf(i) - 146097 * i + 1753164 * EpochYear

\* The first of a month is close to the month's share of 400 years.
LEMMA FirstOfApprox ==
    ASSUME NEW i \in Int
    PROVE  -100000 <= Drift(i) /\ Drift(i) <= 100000
<1>1. PICK y \in Int, m \in 1..12 : i = Month(y, m) BY IsMonth
<1>4. FirstOf(i) = YearStart(y) - YearStart(EpochYear) + DaysBefore[m]
                       + (IF m > 2 /\ Leap(y) THEN 1 ELSE 0)
  BY <1>1, FirstOfIs
<1>5. i = 12 * y + m - 1 BY <1>1 DEF Month
<1>6. /\ 146097 * (m - 1) - 20000 <= 4800 * DaysBefore[m]
      /\ 4800 * DaysBefore[m] <= 146097 * (m - 1) + 20000 /\ DaysBefore[m] \in Int
  BY DEF DaysBefore
<1>7. EpochYear \in Int BY CalendarAssumption DEF CalendarAssumption
<1>8. YearStart(y) \in Int /\ YearStart(EpochYear) \in Int BY <1>7, YearStarts
<1>9. /\ 146097 * y - 1200 <= 400 * YearStart(y)
      /\ 400 * YearStart(y) <= 146097 * y + 1200
      /\ 146097 * EpochYear - 1200 <= 400 * YearStart(EpochYear)
      /\ 400 * YearStart(EpochYear) <= 146097 * EpochYear + 1200
  BY <1>7, YearStartApprox
<1>10. QED BY <1>4, <1>5, <1>6, <1>7, <1>8, <1>9 DEF Drift

\* The month of a day is the one it lies in.
LEMMA MonthOfIs ==
    ASSUME NEW n \in Int
    PROVE  /\ MonthOf(n) \in Int
           /\ FirstOf(MonthOf(n)) <= n /\ n < FirstOf(MonthOf(n) + 1)
           /\ \A i \in Int : FirstOf(i) <= n /\ n < FirstOf(i + 1) => MonthOf(n) = i
<1> DEFINE g == 12 * EpochYear + (n * 4800) \div 146097
           Holds(i) == FirstOf(i) <= n /\ n < FirstOf(i + 1)
<1>1. g \in Int /\ EpochYear \in Int BY CalendarAssumption DEF CalendarAssumption
<1>2. /\ 146097 * (g - 12 * EpochYear) <= 4800 * n
      /\ 4800 * n < 146097 * (g - 12 * EpochYear) + 146097
  BY <1>1
<1> HIDE DEF g
<1>0. FirstOf(g - 1) \in Int /\ FirstOf(g) \in Int /\ FirstOf(g + 1) \in Int /\ FirstOf(g + 2) \in Int
  BY <1>1, FirstOfNext
<1>3. FirstOf(g - 2) <= n
  <2>1. g - 2 \in Int /\ FirstOf(g - 2) \in Int BY <1>1, FirstOfNext
  <2>2. -100000 <= Drift(g - 2) /\ Drift(g - 2) <= 100000 BY <2>1, FirstOfApprox
  <2>3. QED BY <1>1, <1>2, <2>1, <2>2 DEF Drift
<1>4. n < FirstOf(g + 3)
  <2>1. g + 3 \in Int /\ FirstOf(g + 3) \in Int BY <1>1, FirstOfNext
  <2>2. -100000 <= Drift(g + 3) /\ Drift(g + 3) <= 100000 BY <2>1, FirstOfApprox
  <2>3. QED BY <1>1, <1>2, <2>1, <2>2 DEF Drift
<1>5. \E i \in (g - 2)..(g + 2) : Holds(i)
  <2>1. CASE n < FirstOf(g - 1) BY <1>1, <1>3, <2>1
  <2>2. CASE FirstOf(g - 1) <= n /\ n < FirstOf(g) BY <1>1, <2>2
  <2>3. CASE FirstOf(g) <= n /\ n < FirstOf(g + 1) BY <1>1, <2>3
  <2>4. CASE FirstOf(g + 1) <= n /\ n < FirstOf(g + 2) BY <1>1, <2>4
  <2>5. CASE FirstOf(g + 2) <= n BY <1>1, <1>4, <2>5
  <2>6. QED BY <1>0, <2>1, <2>2, <2>3, <2>4, <2>5
<1>6. ASSUME NEW i \in Int, Holds(i) PROVE i \in (g - 2)..(g + 2)
  <2>1. FirstOf(i) \in Int /\ FirstOf(i + 1) \in Int BY FirstOfNext
  <2>2. -100000 <= Drift(i) /\ Drift(i) <= 100000 BY FirstOfApprox
  <2>3. i + 1 \in Int OBVIOUS
  <2>6. -100000 <= Drift(i + 1) /\ Drift(i + 1) <= 100000 BY <2>3, FirstOfApprox
  <2>4. FirstOf(i) <= n /\ n < FirstOf(i + 1) BY <1>6
  <2>5. QED BY <1>1, <1>2, <2>1, <2>2, <2>4, <2>6 DEF Drift
<1>7. \A i, j \in (g - 2)..(g + 2) : Holds(i) /\ Holds(j) => i = j
  <2> SUFFICES ASSUME NEW i \in (g - 2)..(g + 2), NEW j \in (g - 2)..(g + 2),
                      Holds(i), Holds(j), i < j
               PROVE  FALSE
    BY <1>1
  <2>1. i \in Int /\ j - i \in 1..4 BY <1>1
  <2>2. /\ FirstOf(i + 1) <= FirstOf(i + 2) /\ FirstOf(i + 2) <= FirstOf(i + 3)
        /\ FirstOf(i + 3) <= FirstOf(i + 4)
        /\ FirstOf(i + 1) \in Int /\ FirstOf(i + 2) \in Int
        /\ FirstOf(i + 3) \in Int /\ FirstOf(i + 4) \in Int
    BY <2>1, FirstOfNext
  <2>3. j \in {i + 1, i + 2, i + 3, i + 4} BY <2>1
  <2>4. FirstOf(i + 1) <= FirstOf(j) /\ FirstOf(j) \in Int BY <2>2, <2>3
  <2>5. QED BY <2>2, <2>4
<1>8. MonthOf(n) = CHOOSE i \in (g - 2)..(g + 2) : Holds(i) BY DEF MonthOf, g
<1>9. MonthOf(n) \in (g - 2)..(g + 2) /\ Holds(MonthOf(n)) BY <1>5, <1>8
<1>10. QED BY <1>1, <1>6, <1>7, <1>9

\* A date and its day stand for each other.
LEMMA DateOf ==
    ASSUME NEW n \in Int
    PROVE  /\ YearNumber(n) \in Int /\ MonthNumber(n) \in 1..12
           /\ DayOfMonth(n) \in 1..DaysIn(YearNumber(n), MonthNumber(n))
           /\ DayOfMonth(n) \in 1..31
           /\ Day(YearNumber(n), MonthNumber(n), DayOfMonth(n)) = n
<1>1. PICK i \in Int : i = MonthOf(n) /\ FirstOf(i) <= n /\ n < FirstOf(i + 1) BY MonthOfIs
<1>2. /\ YearNumber(n) \in Int /\ MonthNumber(n) \in 1..12
      /\ Month(YearNumber(n), MonthNumber(n)) = i
  BY <1>1, IsMonth DEF YearNumber, MonthNumber
<1>3. DayOfMonth(n) = n - FirstOf(i) + 1 BY <1>1 DEF DayOfMonth
<1>4. FirstOf(i) \in Int /\ FirstOf(i + 1) \in Int /\ FirstOf(i + 1) <= FirstOf(i) + 31
  BY FirstOfNext
<1>5. DaysIn(YearNumber(n), MonthNumber(n)) = FirstOf(i + 1) - FirstOf(i) BY <1>2 DEF DaysIn
<1>6. Day(YearNumber(n), MonthNumber(n), DayOfMonth(n)) = FirstOf(i) + DayOfMonth(n) - 1
  BY <1>2 DEF Day
<1>7. PICK d : d = DayOfMonth(n) OBVIOUS
<1>8. /\ d \in 1..(FirstOf(i + 1) - FirstOf(i)) /\ d \in 1..31
      /\ FirstOf(i) + d - 1 = n
  BY <1>1, <1>3, <1>4, <1>7
<1>9. QED BY <1>2, <1>5, <1>6, <1>7, <1>8

\* A day made from a date has that date.
LEMMA DayIs ==
    ASSUME NEW y \in Int, NEW m \in 1..12, NEW d \in 1..DaysIn(y, m)
    PROVE  /\ Day(y, m, d) \in Int
           /\ YearNumber(Day(y, m, d)) = y
           /\ MonthNumber(Day(y, m, d)) = m
           /\ DayOfMonth(Day(y, m, d)) = d
<1>1. PICK i \in Int : i = Month(y, m) BY MonthIs
<1>2. FirstOf(i) \in Int /\ FirstOf(i + 1) \in Int BY <1>1, FirstOfNext
<1>3. Day(y, m, d) = FirstOf(i) + d - 1 /\ DaysIn(y, m) = FirstOf(i + 1) - FirstOf(i)
  BY <1>1 DEF Day, DaysIn
<1>8. d \in Int /\ 1 <= d /\ d <= FirstOf(i + 1) - FirstOf(i) BY <1>2, <1>3
<1>4. Day(y, m, d) \in Int /\ FirstOf(i) <= Day(y, m, d) /\ Day(y, m, d) < FirstOf(i + 1)
  BY <1>2, <1>3, <1>8
<1>5. MonthOf(Day(y, m, d)) = i BY <1>4, MonthOfIs
<1>6. i \div 12 = y /\ (i % 12) + 1 = m BY <1>1, MonthIs
<1>7. QED BY <1>2, <1>3, <1>4, <1>5, <1>6, <1>8 DEF YearNumber, MonthNumber, DayOfMonth
\* The calendar's count of the days of a month.
LEMMA DaysInMonth ==
    ASSUME NEW y \in Int, NEW m \in 1..12
    PROVE  DaysIn(y, m) \in 28..31
<1>1. PICK i \in Int : i = Month(y, m) BY MonthIs
<1>2. DaysIn(y, m) = FirstOf(i + 1) - FirstOf(i) BY <1>1 DEF DaysIn
<1>3. /\ FirstOf(i) \in Int /\ FirstOf(i + 1) \in Int
      /\ FirstOf(i) + 28 <= FirstOf(i + 1) /\ FirstOf(i + 1) <= FirstOf(i) + 31
  BY FirstOfNext
<1>4. FirstOf(i + 1) - FirstOf(i) \in 28..31 BY <1>3
<1>5. QED BY <1>2, <1>4

-----------------------------------------------------------------------------
(* The nodes one by one (common_node.go).                                  *)

\* A set of natural numbers that is not empty has a least element.
LEMMA LeastNumber ==
    ASSUME NEW S, S \subseteq Nat, S # {}
    PROVE  \E x \in S : \A y \in S : x <= y
<1> DEFINE R == OpToRel(<, Nat)
<1>1. IsWellFoundedOn(R, Nat) BY NatLessThanWellFounded
<1> HIDE DEF R
<1>2. PICK x \in S : \A y \in S : <<y, x>> \notin R BY <1>1, WFMin
<1>3. ASSUME NEW y \in S PROVE ~(y < x)
  <2>1. <<y, x>> \notin R BY <1>2
  <2>2. R = {ss \in Nat \X Nat : ss[1] < ss[2]} BY Zenon DEF R, OpToRel
  <2>3. QED BY <2>1, <2>2
<1>4. \A y \in S : x <= y BY <1>3
<1>5. QED BY <1>4

\* That is what Min gives.
LEMMA MinIs ==
    ASSUME NEW S, S \subseteq Nat, S # {}
    PROVE  Min(S) \in S /\ \A y \in S : Min(S) <= y
<1>1. \E x \in S : \A y \in S : x <= y BY LeastNumber
<1>2. Min(S) = CHOOSE x \in S : \A y \in S : x <= y BY DEF Min
<1>3. QED BY <1>1, <1>2

\* The expressions the code is right about, as the machine has them: any
\* month and year, and either several weekdays or days that every month has.
Plain(c) ==
    /\ c.values \in [Nodes -> SUBSET Nat]
    /\ \A x \in c.values[seconds] \cup c.values[minutes] : x <= 59
    /\ \A x \in c.values[hours] : x <= 23
    /\ \A x \in c.values[days] : 1 <= x /\ x <= 28
    /\ c.values[months] = {} /\ c.values[years] = {}
    /\ \A x \in c.weekdays : x \in Nat /\ x <= 6
    /\ c.n = 0
    /\ c.weekdays = {} \/ c.values[days] = {}
    /\ c.values[hours] = {} => c.values[days] = {} /\ c.weekdays = {}

\* The values a node may take.
NodeSet(c, i) == IF c.values[i] = {} THEN lowerBound(i)..upperBound(i) ELSE c.values[i]

\* The six nodes and their numbers.
LEMMA NodesAre ==
    /\ Nodes = {0, 1, 2, 3, 4, 5}
    /\ seconds = 0 /\ minutes = 1 /\ hours = 2 /\ days = 3 /\ months = 4 /\ years = 5
BY DEF Nodes, seconds, minutes, hours, days, months, years

\* The bounds of the nodes, as newCSMFromFields sets them.
LEMMA NodeBounds ==
    ASSUME NEW i \in Nodes
    PROVE  /\ lowerBound(i) \in {0, 1} /\ upperBound(i) \in Nat /\ lowerBound(i) < upperBound(i)
           /\ i <= 2 => lowerBound(i) = 0 /\ upperBound(i) = 59
           /\ i = 3 => lowerBound(i) = 1 /\ upperBound(i) = 31
           /\ i = 4 => lowerBound(i) = 1 /\ upperBound(i) = 12
           /\ i = 5 => lowerBound(i) = 0 /\ upperBound(i) = 999999
BY DEF Nodes, lowerBound, upperBound, seconds, minutes, hours, days, months, years

\* The lists of a plain machine hold numbers within the bounds.
LEMMA PlainLists ==
    ASSUME NEW c, Plain(c), NEW i \in Nodes
    PROVE  /\ c.values[i] \subseteq Nat
           /\ \A x \in c.values[i] : lowerBound(i) <= x /\ x <= upperBound(i)
BY NodesAre, NodeBounds DEF Plain

\* CommonNode.Next.
LEMMA NextValueIs ==
    ASSUME NEW c, Plain(c), NEW v \in Values, NEW i \in Nodes
    PROVE  /\ NextValue(c, v, i) \in Int
           /\ Overflows(c, v, i) =>
                 /\ NextValue(c, v, i) \in NodeSet(c, i)
                 /\ \A y \in NodeSet(c, i) : y <= v[i] /\ NextValue(c, v, i) <= y
           /\ ~Overflows(c, v, i) =>
                 /\ v[i] < NextValue(c, v, i)
                 /\ \A y \in NodeSet(c, i) : v[i] < y => NextValue(c, v, i) <= y
                 /\ lowerBound(i) <= v[i] => NextValue(c, v, i) \in NodeSet(c, i)
<1> DEFINE L == c.values[i]
           x == NextValue(c, v, i)
           later == {y \in L : y > v[i]}
<1>1. v[i] \in Int BY DEF Values
<1>2. L \subseteq Nat /\ \A y \in L : lowerBound(i) <= y /\ y <= upperBound(i) BY PlainLists
<1>3. lowerBound(i) \in Nat /\ upperBound(i) \in Nat /\ lowerBound(i) < upperBound(i)
  BY NodeBounds
<1>4. CASE L = {}
  <2>1. Overflows(c, v, i) <=> v[i] + 1 > upperBound(i) BY <1>4 DEF Overflows
  <2>2. x = IF Overflows(c, v, i) THEN lowerBound(i) ELSE v[i] + 1
    BY <1>4 DEF NextValue
  <2>3. NodeSet(c, i) = lowerBound(i)..upperBound(i) BY <1>4 DEF NodeSet
  <2>4. CASE Overflows(c, v, i)
    <3>1. x = lowerBound(i) /\ v[i] + 1 > upperBound(i) BY <2>1, <2>2, <2>4
    <3>2. \A y \in NodeSet(c, i) : y <= v[i] /\ lowerBound(i) <= y BY <1>1, <1>3, <2>3, <3>1
    <3>3. QED BY <1>3, <2>3, <2>4, <3>1, <3>2
  <2>5. CASE ~Overflows(c, v, i)
    <3>1. x = v[i] + 1 /\ v[i] + 1 <= upperBound(i) BY <1>1, <1>3, <2>1, <2>2, <2>5
    <3>2. x \in Int /\ v[i] < x BY <1>1, <3>1
    <3>3. \A y \in NodeSet(c, i) : v[i] < y => x <= y BY <1>1, <1>3, <2>3, <3>1
    <3>4. lowerBound(i) <= v[i] => x \in NodeSet(c, i) BY <1>1, <1>3, <2>3, <3>1
    <3>5. QED BY <2>5, <3>2, <3>3, <3>4
  <2>6. QED BY <2>1, <2>4, <2>5
<1>5. CASE L # {}
  <2>1. Overflows(c, v, i) <=> \A y \in L : y <= v[i] BY <1>5 DEF Overflows
  <2>2. NodeSet(c, i) = L BY <1>5 DEF NodeSet
  <2>3. CASE Overflows(c, v, i)
    <3>1. x = Min(L) BY <1>5, <2>3 DEF NextValue
    <3>2. x \in L /\ \A y \in L : x <= y BY <1>2, <1>5, <3>1, MinIs
    <3>3. QED BY <1>2, <2>1, <2>2, <2>3, <3>2
  <2>4. CASE ~Overflows(c, v, i)
    <3>1. x = Min(later) BY <1>5, <2>4 DEF NextValue
    <3>2. later # {} /\ later \subseteq Nat BY <1>1, <1>2, <2>1, <2>4
    <3>3. x \in later /\ \A y \in later : x <= y BY <3>1, <3>2, MinIs
    <3>4. x \in Int /\ v[i] < x /\ x \in L BY <1>1, <1>2, <3>3
    <3>5. \A y \in L : v[i] < y => x <= y BY <1>1, <1>2, <3>3
    <3>6. QED BY <2>2, <2>4, <3>4, <3>5
  <2>5. QED BY <2>3, <2>4, <2>1
<1>6. QED BY <1>4, <1>5

\* CommonNode.Next changes its own node.
LEMMA NextCommonIs ==
    ASSUME NEW c, Plain(c), NEW v \in Values, NEW i \in Nodes
    PROVE  /\ NextCommon(c, v, i) = [v |-> [v EXCEPT ![i] = NextValue(c, v, i)],
                                     over |-> Overflows(c, v, i)]
           /\ NextCommon(c, v, i).v \in Values
BY NextValueIs DEF NextCommon, Moved, Values

\* CommonNode.Reset.
LEMMA ResetCommonIs ==
    ASSUME NEW c, Plain(c), NEW v \in Values, NEW i \in Nodes
    PROVE  \E x \in NodeSet(c, i) : /\ ResetCommon(c, v, i) = [v EXCEPT ![i] = x]
                                    /\ x \in Int
                                    /\ \A y \in NodeSet(c, i) : x <= y
<1> DEFINE u == [v EXCEPT ![i] = upperBound(i)]
<1>1. u \in Values /\ u[i] = upperBound(i) BY NodeBounds DEF Values
<1>2. upperBound(i) \in Int /\ \A y \in c.values[i] : y <= upperBound(i)
  BY PlainLists, NodeBounds
<1>3. Overflows(c, u, i) BY <1>1, <1>2 DEF Overflows
<1> HIDE DEF u
<1>4. /\ NextValue(c, u, i) \in NodeSet(c, i) /\ NextValue(c, u, i) \in Int
      /\ \A y \in NodeSet(c, i) : NextValue(c, u, i) <= y
  BY <1>1, <1>3, NextValueIs
<1>5. ResetCommon(c, v, i) = [v EXCEPT ![i] = NextValue(c, u, i)] BY DEF ResetCommon, u
<1>6. QED BY <1>4, <1>5

-----------------------------------------------------------------------------
(* The day node of a plain machine, and what a carry amounts to.           *)

\* The day node shows a day.
LEMMA DayDateInt ==
    ASSUME NEW v \in Values
    PROVE  dayDate(v) \in Int
<1>1. v[years] \in Int /\ v[months] \in Int /\ v[days] \in Int BY NodesAre DEF Values
<1>2. Month(v[years], v[months]) \in Int BY <1>1 DEF Month
<1>3. QED BY <1>1, <1>2, FirstOfNext DEF dayDate, Day

\* The weekdays go round.
LEMMA WeekdayIs ==
    ASSUME NEW n \in Int
    PROVE  /\ Weekday(n) \in 0..6
           /\ \A k \in 0..7 : /\ n + k \in Int
                              /\ Weekday(n + k) = IF Weekday(n) + k > 13 THEN Weekday(n) + k - 14
                                                  ELSE IF Weekday(n) + k > 6 THEN Weekday(n) + k - 7
                                                  ELSE Weekday(n) + k
<1>1. EpochYear \in Int /\ 1 \in Int BY CalendarAssumption DEF CalendarAssumption
<1>2. YearStart(EpochYear) \in Int /\ YearStart(1) \in Int BY <1>1, YearStarts
<1>3. PICK a \in Int : a = n + YearStart(EpochYear) - YearStart(1) + 1 BY <1>2
<1>4. Weekday(n) = a % 7 /\ \A k \in 0..7 : Weekday(n + k) = (a + k) % 7
  BY <1>2, <1>3 DEF Weekday
<1>5. QED BY <1>4

\* A weekday list moves on by one to seven days.
Offset(c, v) ==
    LET later == {x \in c.weekdays : x > getWeekday(v)}
    IN  IF later = {} THEN 7 + Min(c.weekdays) - getWeekday(v) ELSE Min(later) - getWeekday(v)

\* WeekDayNode's search finds the nearest later day of the list, within a week.
LEMMA OffsetIs ==
    ASSUME NEW c, Plain(c), NEW v \in Values, c.weekdays # {}
    PROVE  /\ Offset(c, v) \in 1..7
           /\ Weekday(dayDate(v) + Offset(c, v)) \in c.weekdays
           /\ \A k \in 1..7 : k < Offset(c, v) => Weekday(dayDate(v) + k) \notin c.weekdays
<1> DEFINE w == getWeekday(v)
           later == {x \in c.weekdays : x > w}
<1>1. dayDate(v) \in Int BY DayDateInt
<1>2. w = Weekday(dayDate(v)) /\ w \in 0..6 BY <1>1, WeekdayIs DEF getWeekday
<1>3. c.weekdays \subseteq Nat /\ \A x \in c.weekdays : x <= 6 BY DEF Plain
<1>4. \A k \in 0..7 : Weekday(dayDate(v) + k) = IF w + k > 13 THEN w + k - 14
                                                ELSE IF w + k > 6 THEN w + k - 7 ELSE w + k
  BY <1>1, <1>2, WeekdayIs
<1>5. CASE later = {}
  <2>1. PICK x \in c.weekdays : x = Min(c.weekdays) /\ \A y \in c.weekdays : x <= y
    BY <1>3, MinIs
  <2>2. Offset(c, v) = 7 + x - w BY <1>5, <2>1 DEF Offset
  <2>3. x \in 0..6 /\ x <= w BY <1>2, <1>3, <1>5
  <2>4. Offset(c, v) \in 1..7 BY <1>2, <2>2, <2>3
  <2>5. Weekday(dayDate(v) + Offset(c, v)) = x BY <1>2, <1>4, <2>2, <2>3, <2>4
  <2>6. ASSUME NEW k \in 1..7, k < Offset(c, v) PROVE Weekday(dayDate(v) + k) \notin c.weekdays
    <3>1. CASE w + k > 6
      <4>1. Weekday(dayDate(v) + k) = w + k - 7 BY <1>2, <1>4, <2>2, <2>3, <2>6, <3>1
      <4>2. w + k - 7 < x BY <1>2, <2>2, <2>3, <2>6
      <4>3. QED BY <1>2, <1>3, <2>1, <4>1, <4>2
    <3>2. CASE w + k <= 6
      <4>1. Weekday(dayDate(v) + k) = w + k /\ w + k > w BY <1>2, <1>4, <3>2
      <4>2. QED BY <1>5, <4>1
    <3>3. QED BY <1>2, <3>1, <3>2
  <2>7. QED BY <2>1, <2>4, <2>5, <2>6
<1>6. CASE later # {}
  <2>1. PICK x \in later : x = Min(later) /\ \A y \in later : x <= y
    BY <1>3, <1>6, MinIs
  <2>2. Offset(c, v) = x - w BY <1>6, <2>1 DEF Offset
  <2>3. x \in 0..6 /\ x > w /\ x \in c.weekdays BY <1>2, <1>3
  <2>4. Offset(c, v) \in 1..7 BY <1>2, <2>2, <2>3
  <2>5. Weekday(dayDate(v) + Offset(c, v)) = x BY <1>2, <1>4, <2>2, <2>3, <2>4
  <2>6. ASSUME NEW k \in 1..7, k < Offset(c, v) PROVE Weekday(dayDate(v) + k) \notin c.weekdays
    <3>1. Weekday(dayDate(v) + k) = w + k /\ w + k > w /\ w + k < x
      BY <1>2, <1>4, <2>2, <2>3, <2>6
    <3>2. w + k \notin later
      <4>1. ~(x <= w + k) BY <1>2, <2>3, <3>1
      <4>2. QED BY <2>1, <4>1
    <3>3. QED BY <3>1, <3>2
  <2>7. QED BY <2>3, <2>4, <2>5, <2>6
<1>7. QED BY <1>5, <1>6

\* DayNode.Next of a plain machine.
LEMMA NextDayIs ==
    ASSUME NEW c, Plain(c), NEW v \in Values
    PROVE  /\ c.weekdays = {} => NextDay(c, v) = NextCommon(c, v, days)
           /\ c.weekdays # {} =>
                 NextDay(c, v) = [v |-> [v EXCEPT ![days] = DayOfMonth(dayDate(v) + Offset(c, v))],
                                  over |-> v[days] + Offset(c, v) > monthMax(v)]
           /\ NextDay(c, v).v \in Values
<1>1. c.n = 0 /\ NLast = 1 /\ NWeekdayOfMonth = 2 BY DEF Plain, NLast, NWeekdayOfMonth
<1>2. CASE c.weekdays = {}
  <2>1. NextDay(c, v) = NextCommon(c, v, days) BY <1>1, <1>2 DEF NextDay
  <2>2. days \in Nodes BY NodesAre
  <2>3. NextCommon(c, v, days).v \in Values BY <2>2, NextCommonIs
  <2>4. QED BY <1>2, <2>1, <2>3
<1>3. CASE c.weekdays # {}
  <2>1. NextDay(c, v) = nextWeekday(c, v) BY <1>1, <1>3 DEF NextDay
  <2>2. nextWeekday(c, v) = addDays(v, Offset(c, v)) BY DEF nextWeekday, Offset
  <2>3. dayDate(v) + Offset(c, v) \in Int BY <1>3, DayDateInt, OffsetIs
  <2>4. DayOfMonth(dayDate(v) + Offset(c, v)) \in Int BY <2>3, DateOf
  <2>5. [v EXCEPT ![days] = DayOfMonth(dayDate(v) + Offset(c, v))] \in Values
    BY <2>4, NodesAre DEF Values
  <2>6. QED BY <1>3, <2>1, <2>2, <2>5 DEF addDays, Moved
<1>4. QED BY <1>2, <1>3

\* Next keeps the nodes numbers.
LEMMA NextNodeIn ==
    ASSUME NEW c, Plain(c), NEW v \in Values, NEW i \in Nodes
    PROVE  NextNode(c, v, i).v \in Values
BY NextDayIs, NextCommonIs DEF NextNode

\* The recursion of overflowFrom, unrolled.
Carry5(c, u) ==
    LET moved == NextNode(c, u, years) IN IF moved.over THEN moved.v ELSE resetFrom(c, moved.v, years - 1)
Carry4(c, u) ==
    LET moved == NextNode(c, u, months) IN IF moved.over THEN Carry5(c, moved.v) ELSE resetFrom(c, moved.v, months - 1)
Carry3(c, u) ==
    LET moved == NextNode(c, u, days) IN IF moved.over THEN Carry4(c, moved.v) ELSE resetFrom(c, moved.v, days - 1)
Carry2(c, u) ==
    LET moved == NextNode(c, u, hours) IN IF moved.over THEN Carry3(c, moved.v) ELSE resetFrom(c, moved.v, hours - 1)
Carry1(c, u) ==
    LET moved == NextNode(c, u, minutes) IN IF moved.over THEN Carry2(c, moved.v) ELSE resetFrom(c, moved.v, minutes - 1)
Carry0(c, u) ==
    LET moved == NextNode(c, u, seconds) IN IF moved.over THEN Carry1(c, moved.v) ELSE resetFrom(c, moved.v, seconds - 1)

\* overflowFrom, carry by carry.
LEMMA OverflowFromIs ==
    ASSUME NEW c, Plain(c), NEW v \in Values
    PROVE  /\ overflowFrom(c, v, minutes) = Carry1(c, v)
           /\ overflowFrom(c, v, hours) = Carry2(c, v)
           /\ overflowFrom(c, v, days) = Carry3(c, v)
           /\ overflowFrom(c, v, months) = Carry4(c, v)
<1> DEFINE Step(f, j, u) ==
             IF j > years THEN u
             ELSE LET moved == NextNode(c, u, j)
                  IN  IF moved.over THEN f[j + 1][moved.v] ELSE resetFrom(c, moved.v, j - 1)
           Round(f) == [j \in Nodes \cup {years + 1} |-> [u \in Values |-> Step(f, j, u)]]
           carry == CHOOSE f : f = Round(f)
           G(j, u) == CASE j = 0 -> Carry0(c, u)
                        [] j = 1 -> Carry1(c, u)
                        [] j = 2 -> Carry2(c, u)
                        [] j = 3 -> Carry3(c, u)
                        [] j = 4 -> Carry4(c, u)
                        [] j = 5 -> Carry5(c, u)
                        [] j = 6 -> u
           F == [j \in Nodes \cup {years + 1} |-> [u \in Values |-> G(j, u)]]
<1>0. Nodes \cup {years + 1} = 0..6 /\ Nodes = 0..5 BY DEF Nodes, years, seconds
<1>1. \A i \in Nodes : overflowFrom(c, v, i) = carry[i][v] BY DEF overflowFrom
<1>2. \A u \in Values, j \in Nodes : NextNode(c, u, j).v \in Values BY NextNodeIn
<1>3. F = Round(F)
  <2>1. ASSUME NEW j \in 0..6, NEW u \in Values PROVE G(j, u) = Step(F, j, u)
    <3>0. \A k \in 0..6, w \in Values : F[k][w] = G(k, w) BY <1>0
    <3> HIDE DEF F
    <3>1. CASE j = 6 BY <3>1 DEF years
    <3>2. CASE j \in 0..5
      <4>1. j \in Nodes /\ NextNode(c, u, j).v \in Values BY <1>0, <1>2, <3>2
      <4>2. j + 1 \in 0..6 /\ ~(j > years) BY <3>2 DEF years
      <4>3. Step(F, j, u) = LET moved == NextNode(c, u, j)
                            IN  IF moved.over THEN G(j + 1, moved.v)
                                             ELSE resetFrom(c, moved.v, j - 1)
        BY <3>0, <4>1, <4>2
      <4>4. CASE j = 0 BY <4>3, <4>4 DEF Carry0, seconds
      <4>5. CASE j = 1 BY <4>3, <4>5 DEF Carry1, minutes
      <4>6. CASE j = 2 BY <4>3, <4>6 DEF Carry2, hours
      <4>7. CASE j = 3 BY <4>3, <4>7 DEF Carry3, days
      <4>8. CASE j = 4 BY <4>3, <4>8 DEF Carry4, months
      <4>9. CASE j = 5 BY <4>3, <4>9 DEF Carry5, years
      <4>10. QED BY <3>2, <4>4, <4>5, <4>6, <4>7, <4>8, <4>9
    <3>3. QED BY <3>1, <3>2
  <2> HIDE DEF G, Step
  <2>2. \A j \in Nodes \cup {years + 1} : [u \in Values |-> G(j, u)] = [u \in Values |-> Step(F, j, u)]
    BY <1>0, <2>1
  <2>3. QED BY <2>2
<1> HIDE DEF F, Step
<1>4. carry = Round(carry) BY <1>3
<1> HIDE DEF carry
<1>5. ASSUME NEW j \in 0..6, NEW u \in Values PROVE carry[j][u] = Step(carry, j, u)
  BY <1>0, <1>4
<1> HIDE DEF Round
<1> USE DEF Step
<1>6. ASSUME NEW u \in Values PROVE carry[6][u] = u BY <1>5 DEF years
<1>7. ASSUME NEW j \in 0..5, NEW u \in Values
      PROVE  carry[j][u] = LET moved == NextNode(c, u, j)
                           IN  IF moved.over THEN carry[j + 1][moved.v]
                                            ELSE resetFrom(c, moved.v, j - 1)
  BY <1>5 DEF years
<1>8. ASSUME NEW u \in Values PROVE carry[5][u] = Carry5(c, u)
  BY <1>0, <1>2, <1>6, <1>7 DEF Carry5, years
<1>9. ASSUME NEW u \in Values PROVE carry[4][u] = Carry4(c, u)
  BY <1>0, <1>2, <1>7, <1>8 DEF Carry4, months
<1>10. ASSUME NEW u \in Values PROVE carry[3][u] = Carry3(c, u)
  BY <1>0, <1>2, <1>7, <1>9 DEF Carry3, days
<1>11. ASSUME NEW u \in Values PROVE carry[2][u] = Carry2(c, u)
  BY <1>0, <1>2, <1>7, <1>10 DEF Carry2, hours
<1>12. ASSUME NEW u \in Values PROVE carry[1][u] = Carry1(c, u)
  BY <1>0, <1>2, <1>7, <1>11 DEF Carry1, minutes
<1>13. QED BY <1>0, <1>1, <1>9, <1>10, <1>11, <1>12 DEF minutes, hours, days, months

-----------------------------------------------------------------------------
(* Resetting the nodes, and the days that suit.                            *)

Least(c, i) == CHOOSE x \in NodeSet(c, i) : \A y \in NodeSet(c, i) : x <= y

\* Where Reset puts a node, and where Next begins again after an overflow.
LEMMA LeastIs ==
    ASSUME NEW c, Plain(c), NEW i \in Nodes
    PROVE  /\ Least(c, i) \in NodeSet(c, i) /\ Least(c, i) \in Int
           /\ \A y \in NodeSet(c, i) : Least(c, i) <= y
           /\ \A v \in Values : /\ ResetCommon(c, v, i) = [v EXCEPT ![i] = Least(c, i)]
                                /\ Overflows(c, v, i) => NextValue(c, v, i) = Least(c, i)
<1>0. NodeSet(c, i) \subseteq Int BY PlainLists, NodeBounds DEF NodeSet
<1>1. \A v \in Values : \E x \in NodeSet(c, i) : /\ ResetCommon(c, v, i) = [v EXCEPT ![i] = x]
                                                 /\ \A y \in NodeSet(c, i) : x <= y
  BY ResetCommonIs
<1>2. [j \in Nodes |-> 0] \in Values BY DEF Values
<1>3. \E x \in NodeSet(c, i) : \A y \in NodeSet(c, i) : x <= y BY <1>1, <1>2
<1>4. Least(c, i) \in NodeSet(c, i) /\ \A y \in NodeSet(c, i) : Least(c, i) <= y
  BY <1>3 DEF Least
<1>5. \A x \in NodeSet(c, i) : (\A y \in NodeSet(c, i) : x <= y) => x = Least(c, i)
  BY <1>0, <1>4
<1>6. ASSUME NEW v \in Values, Overflows(c, v, i) PROVE NextValue(c, v, i) = Least(c, i)
  BY <1>5, <1>6, NextValueIs
<1>7. QED BY <1>0, <1>1, <1>4, <1>5, <1>6

\* A time of day that starts again.
ResetTime(c, v, i) == [j \in Nodes |-> IF j <= i /\ j < days THEN Least(c, j) ELSE v[j]]

\* resetFrom on the nodes of the time of day.
LEMMA ResetBelowIs ==
    ASSUME NEW c, Plain(c), NEW v \in Values, NEW i \in Int
    PROVE  /\ ResetBelow(c, v, i) = ResetTime(c, v, i)
           /\ ResetTime(c, v, i) \in Values
<1>1. \A j \in Nodes : ResetCommon(c, v, j)[j] = Least(c, j) /\ Least(c, j) \in Int
  BY LeastIs DEF Values
<1>2. QED BY <1>1 DEF ResetBelow, ResetTime, Values

\* Whether the day of a date suits the day node.
OnDayOf(c, n) ==
    /\ c.values[days] = {} \/ DayOfMonth(n) \in c.values[days]
    /\ c.weekdays = {} \/ Weekday(n) \in c.weekdays

\* A date as it is written: the day is one of its month.
Dated(v) == v \in Values /\ v[months] \in 1..12 /\ v[days] \in 1..monthMax(v)

MonthNo(v) == Month(v[years], v[months])

\* The day of a date and the length of its month, by the number of the month.
LEMMA DatedIs ==
    ASSUME NEW v \in Values, v[months] \in 1..12
    PROVE  /\ MonthNo(v) \in Int /\ FirstOf(MonthNo(v)) \in Int /\ FirstOf(MonthNo(v) + 1) \in Int
           /\ dayDate(v) = FirstOf(MonthNo(v)) + v[days] - 1
           /\ monthMax(v) = FirstOf(MonthNo(v) + 1) - FirstOf(MonthNo(v))
           /\ monthMax(v) \in 28..31
           /\ v[days] \in 1..monthMax(v) => MonthOf(dayDate(v)) = MonthNo(v) /\ DayOfMonth(dayDate(v)) = v[days]
<1>1. v[years] \in Int /\ v[months] \in 1..12 /\ v[days] \in Int BY NodesAre DEF Values
<1>2. MonthNo(v) \in Int BY <1>1, MonthIs DEF MonthNo
<1>3. FirstOf(MonthNo(v)) \in Int /\ FirstOf(MonthNo(v) + 1) \in Int BY <1>2, FirstOfNext
<1>4. dayDate(v) = FirstOf(MonthNo(v)) + v[days] - 1 BY DEF dayDate, Day, MonthNo
<1>5. monthMax(v) = FirstOf(MonthNo(v) + 1) - FirstOf(MonthNo(v)) BY DEF monthMax, DaysIn, MonthNo
<1>6. monthMax(v) \in 28..31 BY <1>1, DaysInMonth DEF monthMax
<1>7. ASSUME v[days] \in 1..monthMax(v)
      PROVE  MonthOf(dayDate(v)) = MonthNo(v) /\ DayOfMonth(dayDate(v)) = v[days]
  <2>1. dayDate(v) \in Int BY <1>1, <1>3, <1>4
  <2>2. FirstOf(MonthNo(v)) <= dayDate(v) /\ dayDate(v) < FirstOf(MonthNo(v) + 1)
    BY <1>1, <1>3, <1>4, <1>5, <1>7
  <2>3. MonthOf(dayDate(v)) = MonthNo(v) BY <1>2, <2>1, <2>2, MonthOfIs
  <2>4. DayOfMonth(dayDate(v)) = dayDate(v) - FirstOf(MonthNo(v)) + 1 BY <2>3 DEF DayOfMonth
  <2>5. QED BY <1>1, <1>3, <1>4, <2>3, <2>4
<1>8. QED BY <1>2, <1>3, <1>4, <1>5, <1>6, <1>7

\* isValid of the day node: the date exists, and the day is allowed.
LEMMA ValidDayIs ==
    ASSUME NEW c, Plain(c), NEW v \in Values, v[months] \in 1..12
    PROVE  isValidDay(c, v) <=> Dated(v) /\ OnDayOf(c, dayDate(v))
<1>1. v[days] \in Int /\ monthMax(v) \in 28..31 BY DatedIs, NodesAre DEF Values
<1>2. lowerBound(days) = 1 /\ upperBound(days) = 31 BY NodesAre, NodeBounds
<1>3. isValidCommon(c, v, days) <=> /\ 1 <= v[days] /\ v[days] <= 31
                                    /\ c.values[days] = {} \/ v[days] \in c.values[days]
  BY <1>2 DEF isValidCommon
<1>4. c.n = 0 BY DEF Plain
<1>5. isValidWeekday(c, v) <=> Weekday(dayDate(v)) \in c.weekdays
  BY <1>4 DEF isValidWeekday, getWeekday
<1>6. isValidDayOfMonth(c, v)
  <2>1. ~(c.n < 0) /\ c.n # NLast /\ c.n # NWeekdayOfMonth BY <1>4 DEF NLast, NWeekdayOfMonth
  <2>2. QED BY <1>4, <2>1, Zenon DEF isValidDayOfMonth
<1>7. isValidDay(c, v) <=> /\ 1 <= v[days] /\ v[days] <= monthMax(v)
                           /\ c.values[days] = {} \/ v[days] \in c.values[days]
                           /\ c.weekdays = {} \/ Weekday(dayDate(v)) \in c.weekdays
  BY <1>1, <1>3, <1>5, <1>6 DEF isValidDay
<1>8. Dated(v) <=> 1 <= v[days] /\ v[days] <= monthMax(v) BY <1>1 DEF Dated
<1>9. Dated(v) => DayOfMonth(dayDate(v)) = v[days] BY DatedIs DEF Dated
<1>10. QED BY <1>7, <1>8, <1>9 DEF OnDayOf

-----------------------------------------------------------------------------
(* The next day that suits.                                                *)

\* The next day after n that suits the day node.
IsNextDay(c, n, d1) ==
    /\ d1 \in Int /\ n < d1 /\ OnDayOf(c, d1)
    /\ \A d \in Int : n < d /\ d < d1 => ~OnDayOf(c, d)

\* The first such day of a month.
IsFirstDay(c, i, x) ==
    /\ x \in 1..28 /\ OnDayOf(c, FirstOf(i) + x - 1)
    /\ \A d \in Int : FirstOf(i) <= d /\ d < FirstOf(i) + x - 1 => ~OnDayOf(c, d)

\* Without a list every day is allowed.
LEMMA EveryDay ==
    ASSUME NEW c, c.values[days] = {}, c.weekdays = {}, NEW n
    PROVE  OnDayOf(c, n)
BY DEF OnDayOf

\* A day of a month, by its number.
LEMMA DayInMonth ==
    ASSUME NEW i \in Int, NEW x \in Int, 1 <= x, x <= FirstOf(i + 1) - FirstOf(i)
    PROVE  DayOfMonth(FirstOf(i) + x - 1) = x
<1>1. FirstOf(i) \in Int /\ FirstOf(i + 1) \in Int BY FirstOfNext
<1>2. PICK n \in Int : n = FirstOf(i) + x - 1 BY <1>1
<1>3. MonthOf(n) = i BY <1>1, <1>2, MonthOfIs
<1>4. QED BY <1>1, <1>2, <1>3 DEF DayOfMonth

\* The day node of a list moves on within its month, or there is nothing left.
LEMMA NextListed ==
    ASSUME NEW c, Plain(c), NEW v, Dated(v), c.weekdays = {}, c.values[days] # {}
    PROVE  LET d == NextDay(c, v)
               i == MonthNo(v)
           IN  /\ d.over => /\ d.v = [v EXCEPT ![days] = d.v[days]]
                            /\ IsFirstDay(c, i + 1, d.v[days])
                            /\ \A n \in Int : dayDate(v) < n /\ n < FirstOf(i + 1) => ~OnDayOf(c, n)
               /\ ~d.over => /\ d.v = [v EXCEPT ![days] = d.v[days]]
                             /\ d.v[days] \in 1..monthMax(v)
                             /\ IsNextDay(c, dayDate(v), dayDate(v) + d.v[days] - v[days])
<1> DEFINE i == MonthNo(v)
           L == c.values[days]
           x == NextValue(c, v, days)
<1>0. v \in Values /\ days \in Nodes /\ v[months] \in 1..12 /\ v[days] \in 1..monthMax(v)
  BY NodesAre DEF Dated
<1>1. NextDay(c, v) = [v |-> [v EXCEPT ![days] = x], over |-> Overflows(c, v, days)]
  BY <1>0, NextDayIs, NextCommonIs
<1>2. PICK d : d = NextDay(c, v) OBVIOUS
<1>21. /\ d.v = [v EXCEPT ![days] = x] /\ d.v[days] = x
       /\ d.over <=> Overflows(c, v, days)
  BY <1>0, <1>1, <1>2 DEF Values
<1>22. d.v = [v EXCEPT ![days] = d.v[days]] BY <1>21
<1>3. L \subseteq Nat /\ (\A y \in L : 1 <= y /\ y <= 28) /\ NodeSet(c, days) = L
  BY <1>0 DEF Plain, NodeSet
<1>4. /\ i \in Int /\ FirstOf(i) \in Int /\ FirstOf(i + 1) \in Int /\ i + 1 \in Int
      /\ dayDate(v) = FirstOf(i) + v[days] - 1 /\ monthMax(v) = FirstOf(i + 1) - FirstOf(i)
      /\ monthMax(v) \in 28..31
  BY <1>0, DatedIs
<1>5. FirstOf(i + 1 + 1) \in Int /\ FirstOf(i + 1 + 1) >= FirstOf(i + 1) + 28 BY <1>4, FirstOfNext
<1>6. lowerBound(days) = 1 BY NodesAre, NodeBounds
<1> HIDE DEF i, x, L
<1>7. ASSUME NEW y \in Int, 1 <= y, y <= monthMax(v)
      PROVE  OnDayOf(c, FirstOf(i) + y - 1) <=> y \in L
  <2>1. DayOfMonth(FirstOf(i) + y - 1) = y BY <1>4, <1>7, DayInMonth
  <2>2. QED BY <2>1 DEF OnDayOf, L
<1>8. ASSUME NEW y \in Int, 1 <= y, y <= 28
      PROVE  OnDayOf(c, FirstOf(i + 1) + y - 1) <=> y \in L
  <2>1. DayOfMonth(FirstOf(i + 1) + y - 1) = y BY <1>4, <1>5, <1>8, DayInMonth
  <2>2. QED BY <2>1 DEF OnDayOf, L
<1>9. CASE Overflows(c, v, days)
  <2>1. x \in L /\ \A y \in L : y <= v[days] /\ x <= y BY <1>0, <1>3, <1>9, NextValueIs DEF x
  <2>0. x \in Int /\ 1 <= x /\ x <= 28 BY <1>3, <2>1
  <2>2. x \in 1..28 /\ OnDayOf(c, FirstOf(i + 1) + x - 1) BY <1>8, <2>0, <2>1
  <2>3. ASSUME NEW n \in Int, FirstOf(i + 1) <= n, n < FirstOf(i + 1) + x - 1
        PROVE  ~OnDayOf(c, n)
    <3>1. PICK y \in Int : y = n - FirstOf(i + 1) + 1 BY <1>4
    <3>2. 1 <= y /\ y < x /\ n = FirstOf(i + 1) + y - 1 BY <1>4, <2>2, <2>3, <3>1
    <3>3. y \notin L BY <1>3, <2>1, <2>2, <3>2
    <3>4. QED BY <1>8, <2>2, <3>2, <3>3
  <2>4. ASSUME NEW n \in Int, dayDate(v) < n, n < FirstOf(i + 1) PROVE ~OnDayOf(c, n)
    <3>1. PICK y \in Int : y = n - FirstOf(i) + 1 BY <1>4
    <3>2. v[days] < y /\ y <= monthMax(v) /\ n = FirstOf(i) + y - 1 /\ 1 <= y
      BY <1>0, <1>4, <2>4, <3>1
    <3>3. y \notin L BY <1>0, <1>3, <2>1, <3>2
    <3>4. QED BY <1>7, <3>2, <3>3
  <2>5. IsFirstDay(c, i + 1, x) BY <2>2, <2>3 DEF IsFirstDay
  <2>6. QED BY <1>2, <1>21, <1>22, <1>9, <2>4, <2>5 DEF i
<1>10. CASE ~Overflows(c, v, days)
  <2>1. v[days] < x /\ x \in L /\ \A y \in L : v[days] < y => x <= y
    BY <1>0, <1>3, <1>6, <1>10, NextValueIs DEF x
  <2>2. x \in 1..28 BY <1>3, <2>1
  <2>3. PICK m \in Int : m = dayDate(v) + x - v[days] BY <1>0, <1>4, <2>2
  <2>4. m = FirstOf(i) + x - 1 /\ dayDate(v) < m BY <1>0, <1>4, <2>1, <2>2, <2>3
  <2>5. OnDayOf(c, m) BY <1>4, <1>7, <2>1, <2>2, <2>4
  <2>6. ASSUME NEW n \in Int, dayDate(v) < n, n < m PROVE ~OnDayOf(c, n)
    <3>1. PICK y \in Int : y = n - FirstOf(i) + 1 BY <1>4
    <3>2. v[days] < y /\ y < x /\ n = FirstOf(i) + y - 1 /\ 1 <= y /\ y <= monthMax(v)
      BY <1>0, <1>4, <2>2, <2>4, <2>6, <3>1
    <3>3. y \notin L BY <1>0, <1>3, <2>1, <2>2, <3>2
    <3>4. QED BY <1>7, <3>2, <3>3
  <2>7. x \in 1..monthMax(v) BY <1>4, <2>2
  <2>8. IsNextDay(c, dayDate(v), dayDate(v) + x - v[days])
    BY <2>3, <2>4, <2>5, <2>6 DEF IsNextDay
  <2>9. QED BY <1>2, <1>21, <1>22, <1>10, <2>7, <2>8
<1>11. QED BY <1>9, <1>10

\* The day node with weekdays moves to the next day of the list, in its month or
\* as an overflow into the next.
LEMMA NextByWeekday ==
    ASSUME NEW c, Plain(c), NEW v, Dated(v), c.weekdays # {}
    PROVE  LET d == NextDay(c, v)
               i == MonthNo(v)
           IN  /\ d.over => /\ d.v = [v EXCEPT ![days] = d.v[days]]
                            /\ IsFirstDay(c, i + 1, d.v[days])
                            /\ \A n \in Int : dayDate(v) < n /\ n < FirstOf(i + 1) => ~OnDayOf(c, n)
               /\ ~d.over => /\ d.v = [v EXCEPT ![days] = d.v[days]]
                             /\ d.v[days] \in 1..monthMax(v)
                             /\ IsNextDay(c, dayDate(v), dayDate(v) + d.v[days] - v[days])
<1> DEFINE i == MonthNo(v)
<1>0. v \in Values /\ days \in Nodes /\ v[months] \in 1..12 /\ v[days] \in 1..monthMax(v)
  BY NodesAre DEF Dated
<1>1. PICK k \in 1..7 : /\ k = Offset(c, v)
                        /\ Weekday(dayDate(v) + k) \in c.weekdays
                        /\ \A j \in 1..7 : j < k => Weekday(dayDate(v) + j) \notin c.weekdays
  BY <1>0, OffsetIs
<1>2. NextDay(c, v) = [v |-> [v EXCEPT ![days] = DayOfMonth(dayDate(v) + k)],
                       over |-> v[days] + k > monthMax(v)]
  BY <1>0, <1>1, NextDayIs
<1>3. PICK d : d = NextDay(c, v) OBVIOUS
<1>30. PICK z : z = DayOfMonth(dayDate(v) + k) OBVIOUS
<1>31. /\ d.v = [v EXCEPT ![days] = d.v[days]] /\ d.v[days] = DayOfMonth(dayDate(v) + k)
       /\ d.over <=> v[days] + k > monthMax(v)
  <2>1. d.v = [v EXCEPT ![days] = z] /\ (d.over <=> v[days] + k > monthMax(v))
    <3>1. PICK u : u = [v EXCEPT ![days] = z] OBVIOUS
    <3>2. PICK over \in BOOLEAN : over <=> v[days] + k > monthMax(v) OBVIOUS
    <3>3. d = [v |-> u, over |-> over] BY <1>2, <1>3, <1>30, <3>1, <3>2
    <3>4. QED BY <3>1, <3>2, <3>3
  <2>2. d.v[days] = z BY <1>0, <2>1 DEF Values
  <2>3. QED BY <1>30, <2>1, <2>2
<1>4. /\ i \in Int /\ FirstOf(i) \in Int /\ FirstOf(i + 1) \in Int /\ i + 1 \in Int
      /\ dayDate(v) = FirstOf(i) + v[days] - 1 /\ monthMax(v) = FirstOf(i + 1) - FirstOf(i)
      /\ monthMax(v) \in 28..31
  BY <1>0, DatedIs
<1>5. FirstOf(i + 1 + 1) \in Int /\ FirstOf(i + 1 + 1) >= FirstOf(i + 1) + 28 BY <1>4, FirstOfNext
<1> HIDE DEF i
<1>6. \A n : OnDayOf(c, n) <=> Weekday(n) \in c.weekdays BY DEF OnDayOf, Plain
<1>7. IsNextDay(c, dayDate(v), dayDate(v) + k)
  <2>1. dayDate(v) \in Int /\ dayDate(v) + k \in Int /\ dayDate(v) < dayDate(v) + k
    BY <1>0, <1>4
  <2>2. ASSUME NEW n \in Int, dayDate(v) < n, n < dayDate(v) + k PROVE ~OnDayOf(c, n)
    <3>1. PICK j \in Int : j = n - dayDate(v) BY <2>1
    <3>2. j \in 1..7 /\ j < k /\ n = dayDate(v) + j BY <2>1, <2>2, <3>1
    <3>3. QED BY <1>1, <1>6, <3>2
  <2>3. QED BY <1>1, <1>6, <2>1, <2>2 DEF IsNextDay
<1>8. CASE v[days] + k > monthMax(v)
  <2>1. PICK x \in Int : x = v[days] + k - monthMax(v) BY <1>0, <1>4
  <2>2. 1 <= x /\ x <= 7 /\ dayDate(v) + k = FirstOf(i + 1) + x - 1
    BY <1>0, <1>4, <1>8, <2>1
  <2>3. DayOfMonth(dayDate(v) + k) = x BY <1>4, <1>5, <2>2, DayInMonth
  <2>4. \A n \in Int : dayDate(v) < n /\ n < dayDate(v) + k => ~OnDayOf(c, n)
    BY <1>7 DEF IsNextDay
  <2>5. dayDate(v) < FirstOf(i + 1) BY <1>0, <1>4
  <2>6. IsFirstDay(c, i + 1, x)
    <3>1. OnDayOf(c, FirstOf(i + 1) + x - 1) BY <1>7, <2>2 DEF IsNextDay
    <3>2. \A n \in Int : FirstOf(i + 1) <= n /\ n < FirstOf(i + 1) + x - 1 => ~OnDayOf(c, n)
      BY <1>0, <1>4, <2>2, <2>4, <2>5
    <3>3. QED BY <2>2, <3>1, <3>2 DEF IsFirstDay
  <2>7. \A n \in Int : dayDate(v) < n /\ n < FirstOf(i + 1) => ~OnDayOf(c, n)
    BY <1>0, <1>4, <2>2, <2>4
  <2>8. QED BY <1>3, <1>31, <1>8, <2>3, <2>6, <2>7 DEF i
<1>9. CASE ~(v[days] + k > monthMax(v))
  <2>1. PICK x \in Int : x = v[days] + k BY <1>0
  <2>2. 1 <= x /\ x <= monthMax(v) /\ dayDate(v) + k = FirstOf(i) + x - 1
    BY <1>0, <1>4, <1>9, <2>1
  <2>3. DayOfMonth(dayDate(v) + k) = x BY <1>4, <2>2, DayInMonth
  <2>4. dayDate(v) + x - v[days] = dayDate(v) + k BY <1>0, <1>4, <2>1
  <2>5. x \in 1..monthMax(v) BY <1>4, <2>2
  <2>6. QED BY <1>3, <1>31, <1>7, <1>9, <2>3, <2>4, <2>5
<1>10. QED BY <1>8, <1>9

\* The day node moves on to the next day that suits it: in this month (or,
\* if any day will do, past its end), or to the first one of the next.
LEMMA NextDayFinds ==
    ASSUME NEW c, Plain(c), NEW v, Dated(v)
    PROVE  LET d == NextDay(c, v)
               i == MonthNo(v)
           IN  /\ d.v = [v EXCEPT ![days] = d.v[days]] /\ d.v[days] \in 1..31
               /\ d.over => /\ IsFirstDay(c, i + 1, d.v[days])
                            /\ \A n \in Int : dayDate(v) < n /\ n < FirstOf(i + 1) => ~OnDayOf(c, n)
               /\ ~d.over => /\ IsNextDay(c, dayDate(v), dayDate(v) + d.v[days] - v[days])
                             /\ \/ d.v[days] \in 1..monthMax(v)
                                \/ /\ d.v[days] = v[days] + 1
                                   /\ c.values[days] = {} /\ c.weekdays = {}
<1> DEFINE i == MonthNo(v)
<1>0. v \in Values /\ days \in Nodes /\ v[months] \in 1..12 /\ v[days] \in 1..monthMax(v)
  BY NodesAre DEF Dated
<1>1. PICK d : d = NextDay(c, v) OBVIOUS
<1>2. /\ i \in Int /\ FirstOf(i) \in Int /\ FirstOf(i + 1) \in Int /\ i + 1 \in Int
      /\ dayDate(v) = FirstOf(i) + v[days] - 1 /\ monthMax(v) = FirstOf(i + 1) - FirstOf(i)
      /\ monthMax(v) \in 28..31
  BY <1>0, DatedIs
<1>3. CASE c.weekdays # {}
  <2>1. d.over => IsFirstDay(c, i + 1, d.v[days]) BY <1>1, <1>3, NextByWeekday
  <2>2. d.v[days] \in 1..28 \/ d.v[days] \in 1..monthMax(v)
    BY <1>1, <1>3, <2>1, NextByWeekday DEF IsFirstDay
  <2>3. d.v[days] \in 1..31 BY <1>2, <2>2
  <2>4. QED BY <1>1, <1>3, <2>3, NextByWeekday
<1>4. CASE c.weekdays = {} /\ c.values[days] # {}
  <2>1. d.over => IsFirstDay(c, i + 1, d.v[days]) BY <1>1, <1>4, NextListed
  <2>2. d.v[days] \in 1..28 \/ d.v[days] \in 1..monthMax(v)
    BY <1>1, <1>4, <2>1, NextListed DEF IsFirstDay
  <2>3. d.v[days] \in 1..31 BY <1>2, <2>2
  <2>4. QED BY <1>1, <1>4, <2>3, NextListed
<1>5. CASE c.weekdays = {} /\ c.values[days] = {}
  <2>1. d = NextCommon(c, v, days) BY <1>0, <1>1, <1>5, NextDayIs
  <2>2. lowerBound(days) = 1 /\ upperBound(days) = 31 BY NodesAre, NodeBounds
  <2>3. Overflows(c, v, days) <=> v[days] + 1 > 31 BY <1>5, <2>2 DEF Overflows
  <2>4. NextValue(c, v, days) = IF Overflows(c, v, days) THEN 1 ELSE v[days] + 1
    BY <1>5, <2>2 DEF NextValue
  <2>5. PICK x : x = NextValue(c, v, days) OBVIOUS
  <2>6. d.v = [v EXCEPT ![days] = x] /\ (d.over <=> v[days] + 1 > 31)
    BY <2>1, <2>3, <2>5 DEF NextCommon, Moved
  <2>7. d.v[days] = x BY <1>0, <2>6 DEF Values
  <2>8. \A n : OnDayOf(c, n) BY <1>5, EveryDay
  <2> HIDE DEF i
  <2>9. CASE v[days] + 1 > 31
    <3>1. x = 1 /\ v[days] = monthMax(v) BY <1>0, <1>2, <2>3, <2>4, <2>5, <2>9
    <3>2. IsFirstDay(c, i + 1, x) BY <1>2, <2>8, <3>1 DEF IsFirstDay
    <3>3. \A n \in Int : ~(dayDate(v) < n /\ n < FirstOf(i + 1)) BY <1>2, <3>1
    <3>4. x \in 1..31 BY <3>1
    <3>5. QED BY <1>1, <2>6, <2>7, <2>9, <3>2, <3>3, <3>4 DEF i
  <2>10. CASE ~(v[days] + 1 > 31)
    <3>1. x = v[days] + 1 BY <2>3, <2>4, <2>5, <2>10
    <3>2. x \in 1..31 BY <1>0, <1>2, <2>10, <3>1
    <3>3. dayDate(v) + x - v[days] = dayDate(v) + 1 /\ dayDate(v) \in Int BY <1>0, <1>2, <3>1
    <3>4. IsNextDay(c, dayDate(v), dayDate(v) + 1) BY <2>8, <3>3 DEF IsNextDay
    <3>5. IsNextDay(c, dayDate(v), dayDate(v) + x - v[days]) BY <3>3, <3>4
    <3>6. QED BY <1>1, <1>5, <2>6, <2>7, <2>10, <3>1, <3>2, <3>5
  <2>11. QED BY <2>9, <2>10
<1>6. QED BY <1>3, <1>4, <1>5

\* There is such a day in every month.
LEMMA SomeDay ==
    ASSUME NEW c, Plain(c), NEW i \in Int
    PROVE  \E x \in 1..28 : OnDayOf(c, FirstOf(i) + x - 1)
<1>1. FirstOf(i) \in Int /\ FirstOf(i + 1) \in Int /\ FirstOf(i + 1) >= FirstOf(i) + 28
  BY FirstOfNext
<1>2. CASE c.weekdays = {} /\ c.values[days] = {} BY <1>2, EveryDay
<1>3. CASE c.weekdays = {} /\ c.values[days] # {}
  <2>1. PICK x \in c.values[days] : TRUE BY <1>3
  <2>2. x \in Int /\ 1 <= x /\ x <= 28 BY NodesAre DEF Plain
  <2>3. DayOfMonth(FirstOf(i) + x - 1) = x BY <1>1, <2>2, DayInMonth
  <2>4. QED BY <1>3, <2>1, <2>2, <2>3 DEF OnDayOf
<1>4. CASE c.weekdays # {}
  <2>1. PICK w \in c.weekdays : TRUE BY <1>4
  <2>2. w \in 0..6 BY DEF Plain
  <2>3. PICK n \in Int : n = FirstOf(i) BY <1>1
  <2>4. PICK u \in 0..6 : u = Weekday(n) BY <2>3, WeekdayIs
  <2>5. \A k \in 0..7 : Weekday(n + k) = IF u + k > 13 THEN u + k - 14
                                         ELSE IF u + k > 6 THEN u + k - 7 ELSE u + k
    BY <2>3, <2>4, WeekdayIs
  <2>6. PICK k \in 0..6 : Weekday(n + k) = w
    <3>1. CASE w >= u BY <2>2, <2>4, <2>5, <3>1
    <3>2. CASE w < u
      <4>1. w - u + 7 \in 0..6 BY <2>2, <2>4, <3>2
      <4>2. Weekday(n + (w - u + 7)) = w BY <2>2, <2>4, <2>5, <3>2, <4>1
      <4>3. QED BY <4>1, <4>2
    <3>3. QED BY <2>2, <3>1, <3>2
  <2>7. PICK x \in 1..28 : x = k + 1 OBVIOUS
  <2>8. n + k = FirstOf(i) + x - 1 BY <1>1, <2>3, <2>7
  <2>9. c.values[days] = {} BY <1>4 DEF Plain
  <2>10. QED BY <2>1, <2>6, <2>8, <2>9 DEF OnDayOf
<1>5. QED BY <1>2, <1>3, <1>4

\* DayNode.Reset.
LEMMA ResetDayIs ==
    ASSUME NEW c, Plain(c), NEW v \in Values, v[months] \in 1..12
    PROVE  \E x \in 1..28 : /\ ResetDay(c, v) = [v EXCEPT ![days] = x]
                            /\ IsFirstDay(c, MonthNo(v), x)
<1> DEFINE i == MonthNo(v)
           u == [v EXCEPT ![days] = 1]
<1>1. days \in Nodes /\ months \in Nodes /\ years \in Nodes /\ days # months /\ days # years
  BY NodesAre
<1>2. /\ u \in Values /\ u[months] = v[months] /\ u[years] = v[years] /\ u[days] = 1
  BY <1>1 DEF Values
<1>3. MonthNo(u) = i BY <1>2 DEF MonthNo
<1>4. lowerBound(days) = 1 BY NodesAre, NodeBounds
<1>5. ResetDay(c, v) = IF isValidDay(c, u) THEN u ELSE NextDay(c, u).v BY <1>4 DEF ResetDay
<1>51. [u EXCEPT ![days] = 1] = u /\ \A x : [u EXCEPT ![days] = x] = [v EXCEPT ![days] = x]
  BY <1>1 DEF Values
<1>52. i = MonthNo(v) /\ u = [v EXCEPT ![days] = 1] OBVIOUS
<1> HIDE DEF u, i
<1>6. /\ i \in Int /\ FirstOf(i) \in Int /\ FirstOf(i + 1) \in Int
      /\ dayDate(u) = FirstOf(i) /\ monthMax(u) = FirstOf(i + 1) - FirstOf(i)
      /\ monthMax(u) \in 28..31
  BY <1>2, <1>3, DatedIs
<1>7. Dated(u) BY <1>2, <1>6 DEF Dated
<1>8. isValidDay(c, u) <=> OnDayOf(c, FirstOf(i)) BY <1>2, <1>6, <1>7, ValidDayIs
<1>9. CASE OnDayOf(c, FirstOf(i))
  <2>1. FirstOf(i) + 1 - 1 = FirstOf(i) BY <1>6
  <2>2. IsFirstDay(c, i, 1) BY <1>6, <1>9, <2>1 DEF IsFirstDay
  <2>3. QED BY <1>5, <1>52, <1>8, <1>9, <2>2
<1>10. CASE ~OnDayOf(c, FirstOf(i))
  <2>1. PICK d : d = NextDay(c, u) OBVIOUS
  <2>2. PICK y \in 1..28 : OnDayOf(c, FirstOf(i) + y - 1) BY <1>6, SomeDay
  <2>3. PICK n \in Int : n = FirstOf(i) + y - 1 BY <1>6
  <2>4. n > FirstOf(i) /\ n < FirstOf(i + 1) /\ OnDayOf(c, n)
    <3>1. n # FirstOf(i) BY <1>10, <2>2, <2>3
    <3>2. QED BY <1>6, <2>2, <2>3, <3>1
  <2>50. d.over => ~(dayDate(u) < n /\ n < FirstOf(i + 1))
    BY <1>3, <1>7, <2>1, <2>4, NextDayFinds
  <2>5. ~d.over BY <1>6, <2>4, <2>50
  <2>60. /\ d.v = [u EXCEPT ![days] = d.v[days]] /\ d.v[days] \in 1..31
         /\ IsNextDay(c, dayDate(u), dayDate(u) + d.v[days] - u[days])
    BY <1>7, <2>1, <2>5, NextDayFinds
  <2>6. /\ d.v = [u EXCEPT ![days] = d.v[days]] /\ d.v[days] \in 1..31
        /\ IsNextDay(c, FirstOf(i), FirstOf(i) + d.v[days] - 1)
    BY <1>2, <1>6, <2>60
  <2>7. PICK x \in 1..31 : x = d.v[days] BY <2>6
  <2>8. FirstOf(i) + x - 1 <= n BY <1>6, <2>3, <2>4, <2>6, <2>7 DEF IsNextDay
  <2>9. x \in 1..28 BY <1>6, <2>2, <2>3, <2>8
  <2>10. IsFirstDay(c, i, x) BY <1>6, <1>10, <2>6, <2>7, <2>9 DEF IsFirstDay, IsNextDay
  <2>11. d.v = [v EXCEPT ![days] = x] BY <1>51, <2>6, <2>7
  <2>12. QED BY <1>5, <1>52, <1>8, <1>10, <2>1, <2>9, <2>10, <2>11
<1>11. QED BY <1>9, <1>10

-----------------------------------------------------------------------------
(* A carry to the months and the years.                                    *)

\* The last year of the nodes is not reached.
InYears(v) == 0 <= v[years] /\ v[years] < upperBound(years)

AtFirstTime(c, r) == \A j \in {seconds, minutes, hours} : r[j] = Least(c, j)

SameTimeAndDay(v, r) == \A j \in {seconds, minutes, hours, days} : r[j] = v[j]

\* A carry to the months, and to the years.
LEMMA NextMonthIs ==
    ASSUME NEW c, Plain(c), NEW v \in Values, v[months] \in 1..12, InYears(v)
    PROVE  LET m == NextCommon(c, v, months)
               y == NextCommon(c, m.v, years)
           IN  /\ m.v \in Values /\ SameTimeAndDay(v, m.v) /\ m.v[months] \in 1..12
               /\ ~m.over => MonthNo(m.v) = MonthNo(v) + 1
               /\ m.over => /\ ~y.over /\ y.v \in Values /\ SameTimeAndDay(v, y.v)
                            /\ y.v[months] = 1 /\ MonthNo(y.v) = MonthNo(v) + 1
<1>1. /\ months \in Nodes /\ years \in Nodes /\ seconds # months /\ minutes # months
      /\ hours # months /\ days # months /\ years # months /\ seconds # years
      /\ minutes # years /\ hours # years /\ days # years
      /\ seconds \in Nodes /\ minutes \in Nodes /\ hours \in Nodes /\ days \in Nodes
  BY NodesAre
<1>2. c.values[months] = {} /\ c.values[years] = {} BY DEF Plain
<1>3. lowerBound(months) = 1 /\ upperBound(months) = 12 /\ upperBound(years) \in Int
  BY NodesAre, NodeBounds
<1>4. PICK m : m = NextCommon(c, v, months) OBVIOUS
<1>5. PICK x : x = IF v[months] + 1 > 12 THEN 1 ELSE v[months] + 1 OBVIOUS
<1>51. Overflows(c, v, months) <=> v[months] + 1 > 12 BY <1>2, <1>3 DEF Overflows
<1>52. NextValue(c, v, months) = x BY <1>2, <1>3, <1>5, <1>51 DEF NextValue
<1>6. m.v = [v EXCEPT ![months] = x] /\ (m.over <=> v[months] + 1 > 12)
  BY <1>4, <1>51, <1>52 DEF NextCommon, Moved
<1>7. v[years] \in Int /\ v[months] \in 1..12 /\ x \in 1..12 BY <1>1, <1>5 DEF Values
<1>8. /\ m.v \in Values /\ SameTimeAndDay(v, m.v) /\ m.v[months] = x
      /\ m.v[years] = v[years]
  BY <1>1, <1>6, <1>7 DEF Values, SameTimeAndDay
<1>9. ~m.over => MonthNo(m.v) = MonthNo(v) + 1 BY <1>5, <1>6, <1>7, <1>8 DEF MonthNo, Month
<1>10. PICK y : y = NextCommon(c, m.v, years) OBVIOUS
<1>11. PICK z : z = v[years] + 1 OBVIOUS
<1>12. ~(z > upperBound(years)) /\ z \in Int BY <1>3, <1>7, <1>11 DEF InYears
<1>121. ~Overflows(c, m.v, years) BY <1>2, <1>8, <1>11, <1>12 DEF Overflows
<1>122. NextValue(c, m.v, years) = z BY <1>2, <1>8, <1>11, <1>121 DEF NextValue
<1>13. y.v = [m.v EXCEPT ![years] = z] /\ ~y.over
  BY <1>10, <1>121, <1>122 DEF NextCommon, Moved
<1>14. /\ y.v \in Values /\ SameTimeAndDay(v, y.v) /\ y.v[months] = x
       /\ y.v[years] = v[years] + 1
  BY <1>1, <1>8, <1>11, <1>12, <1>13 DEF Values, SameTimeAndDay
<1>15. m.over => x = 1 /\ MonthNo(y.v) = MonthNo(v) + 1
  BY <1>5, <1>6, <1>7, <1>14 DEF MonthNo, Month
<1>16. QED BY <1>4, <1>7, <1>8, <1>9, <1>10, <1>13, <1>14, <1>15

\* From there, the first day that suits and the first time of day.
AtFirstOf(c, i, r) ==
    /\ r \in Values /\ AtFirstTime(c, r)
    /\ r[months] \in 1..12 /\ MonthNo(r) = i /\ IsFirstDay(c, i, r[days])

\* A reset after a carry puts the date on the first day allowed in its month.
LEMMA ResetToFirst ==
    ASSUME NEW c, Plain(c), NEW v \in Values, v[months] \in 1..12, NEW k \in {days, months}
    PROVE  AtFirstOf(c, MonthNo(v), ResetBelow(c, ResetDay(c, v), k))
<1>1. PICK x \in 1..28 : ResetDay(c, v) = [v EXCEPT ![days] = x] /\ IsFirstDay(c, MonthNo(v), x)
  BY ResetDayIs
<1>2. PICK u : u = [v EXCEPT ![days] = x] OBVIOUS
<1>3. /\ u \in Values /\ u[days] = x /\ u[months] = v[months] /\ u[years] = v[years]
  BY <1>2, NodesAre DEF Values
<1>4. k \in Int /\ k >= 3 BY NodesAre
<1>5. PICK r : r = ResetBelow(c, u, k) OBVIOUS
<1>6. r = ResetTime(c, u, k) /\ r \in Values BY <1>3, <1>4, <1>5, ResetBelowIs
<1>7. /\ r[days] = x /\ r[months] = v[months] /\ r[years] = v[years]
      /\ AtFirstTime(c, r)
  BY <1>3, <1>4, <1>6, NodesAre DEF ResetTime, AtFirstTime
<1>8. MonthNo(r) = MonthNo(v) BY <1>7 DEF MonthNo
<1>9. QED BY <1>1, <1>2, <1>5, <1>6, <1>7, <1>8 DEF AtFirstOf

\* A carry to the months goes to the first day allowed in the next month.
LEMMA Carry4Is ==
    ASSUME NEW c, Plain(c), NEW v \in Values, v[months] \in 1..12, InYears(v)
    PROVE  AtFirstOf(c, MonthNo(v) + 1, Carry4(c, v))
<1>1. PICK m : m = NextCommon(c, v, months) OBVIOUS
<1>2. PICK y : y = NextCommon(c, m.v, years) OBVIOUS
<1>3. /\ m.v \in Values /\ m.v[months] \in 1..12 /\ (~m.over => MonthNo(m.v) = MonthNo(v) + 1)
      /\ m.over => ~y.over /\ y.v \in Values /\ y.v[months] = 1 /\ MonthNo(y.v) = MonthNo(v) + 1
  BY <1>1, <1>2, NextMonthIs
<1>4. NextNode(c, v, months) = m /\ NextNode(c, m.v, years) = y
  BY <1>1, <1>2, NodesAre DEF NextNode
<1>5. CASE ~m.over
  <2>1. Carry4(c, v) = resetFrom(c, m.v, months - 1) BY <1>4, <1>5 DEF Carry4
  <2>2. resetFrom(c, m.v, months - 1) = ResetBelow(c, ResetDay(c, m.v), days)
    BY NodesAre DEF resetFrom
  <2>3. QED BY <1>3, <1>5, <2>1, <2>2, ResetToFirst
<1>6. CASE m.over
  <2>1. Carry4(c, v) = resetFrom(c, y.v, years - 1) BY <1>3, <1>4, <1>6 DEF Carry4, Carry5
  <2>2. months \in Nodes /\ NodeSet(c, months) = 1..12
    BY NodesAre, NodeBounds DEF NodeSet, Plain
  <2>3. Least(c, months) = 1 BY <2>2, LeastIs
  <2>4. ResetCommon(c, y.v, months) = [y.v EXCEPT ![months] = 1]
    BY <1>3, <1>6, <2>2, <2>3, LeastIs
  <2>5. ResetCommon(c, y.v, months) = y.v
    <3>1. [y.v EXCEPT ![months] = 1] = y.v BY <1>3, <1>6, <2>2 DEF Values
    <3>2. QED BY <2>4, <3>1
  <2>6. resetFrom(c, y.v, years - 1) = ResetBelow(c, ResetDay(c, y.v), months)
    BY <2>5, NodesAre DEF resetFrom
  <2>7. QED BY <1>3, <1>6, <2>1, <2>6, ResetToFirst
<1>7. QED BY <1>5, <1>6

\* The day is moved on.
NewDay(c, v, r) ==
    /\ r \in Values /\ AtFirstTime(c, r) /\ IsNextDay(c, dayDate(v), dayDate(r))

\* What remains of a month and the first days of the next.
LEMMA FirstIsNext ==
    ASSUME NEW c, NEW v, Dated(v), NEW r, AtFirstOf(c, MonthNo(v) + 1, r),
           \A n \in Int : dayDate(v) < n /\ n < FirstOf(MonthNo(v) + 1) => ~OnDayOf(c, n)
    PROVE  NewDay(c, v, r)
<1>1. PICK i : i = MonthNo(v) OBVIOUS
<1>2. /\ i \in Int /\ FirstOf(i) \in Int /\ FirstOf(i + 1) \in Int
      /\ dayDate(v) = FirstOf(i) + v[days] - 1 /\ v[days] \in 1..(FirstOf(i + 1) - FirstOf(i))
  BY <1>1, DatedIs DEF Dated
<1>3. dayDate(r) = FirstOf(i + 1) + r[days] - 1 BY <1>1 DEF dayDate, Day, AtFirstOf, MonthNo
<1>4. IsFirstDay(c, i + 1, r[days]) BY <1>1 DEF AtFirstOf
<1>5. dayDate(r) \in Int /\ dayDate(v) < dayDate(r) /\ dayDate(v) \in Int
  BY <1>2, <1>3, <1>4 DEF IsFirstDay
<1>6. OnDayOf(c, dayDate(r)) BY <1>3, <1>4 DEF IsFirstDay
<1>7. ASSUME NEW n \in Int, dayDate(v) < n, n < dayDate(r) PROVE ~OnDayOf(c, n)
  BY <1>1, <1>2, <1>3, <1>4, <1>7 DEF IsFirstDay
<1>8. QED BY <1>5, <1>6, <1>7 DEF NewDay, IsNextDay, AtFirstOf

\* A move within the month is a move to the next day.
LEMMA MovedDay ==
    ASSUME NEW c, Plain(c), NEW v, Dated(v), NEW x \in Int, NEW r \in Values,
           IsNextDay(c, dayDate(v), dayDate(v) + x - v[days]),
           r[days] = x, r[months] = v[months], r[years] = v[years], AtFirstTime(c, r)
    PROVE  NewDay(c, v, r)
<1>1. /\ MonthNo(v) \in Int /\ FirstOf(MonthNo(v)) \in Int
      /\ dayDate(v) = FirstOf(MonthNo(v)) + v[days] - 1 /\ v[days] \in Int
  BY DatedIs DEF Dated
<1>2. dayDate(r) = FirstOf(MonthNo(v)) + x - 1 BY DEF dayDate, Day, MonthNo
<1>3. dayDate(r) = dayDate(v) + x - v[days] BY <1>1, <1>2
<1>4. QED BY <1>3 DEF NewDay

\* A carry to the days goes to the next day allowed, at its first time.
LEMMA Carry3Is ==
    ASSUME NEW c, Plain(c), NEW v, Dated(v), InYears(v)
    PROVE  NewDay(c, v, Carry3(c, v))
<1>1. PICK d : d = NextDay(c, v) OBVIOUS
<1>2. PICK x \in 1..31 : d.v = [v EXCEPT ![days] = x] /\ d.v[days] = x BY <1>1, NextDayFinds
<1>3. v \in Values /\ v[months] \in 1..12 BY DEF Dated
<1>4. /\ d.v \in Values /\ d.v[months] = v[months] /\ d.v[years] = v[years]
      /\ InYears(d.v) /\ MonthNo(d.v) = MonthNo(v)
  BY <1>2, <1>3, NodesAre DEF Values, InYears, MonthNo
<1>5. NextNode(c, v, days) = d BY <1>1 DEF NextNode
<1>6. CASE d.over
  <2>1. Carry3(c, v) = Carry4(c, d.v) BY <1>5, <1>6 DEF Carry3
  <2>2. AtFirstOf(c, MonthNo(v) + 1, Carry3(c, v)) BY <1>3, <1>4, <2>1, Carry4Is
  <2>3. \A n \in Int : dayDate(v) < n /\ n < FirstOf(MonthNo(v) + 1) => ~OnDayOf(c, n)
    BY <1>1, <1>6, NextDayFinds
  <2>4. QED BY <2>2, <2>3, FirstIsNext
<1>7. CASE ~d.over
  <2>1. Carry3(c, v) = resetFrom(c, d.v, days - 1) BY <1>5, <1>7 DEF Carry3
  <2>2. resetFrom(c, d.v, days - 1) = ResetBelow(c, d.v, hours) BY NodesAre DEF resetFrom
  <2>3. PICK r : r = ResetTime(c, d.v, hours) OBVIOUS
  <2>4. hours \in Int BY NodesAre
  <2>5. Carry3(c, v) = r /\ r \in Values BY <1>4, <2>1, <2>2, <2>3, <2>4, ResetBelowIs
  <2>6. /\ r[days] = x /\ r[months] = v[months] /\ r[years] = v[years] /\ AtFirstTime(c, r)
    BY <1>2, <1>4, <2>3, NodesAre DEF ResetTime, AtFirstTime
  <2>7. IsNextDay(c, dayDate(v), dayDate(v) + x - v[days]) BY <1>1, <1>2, <1>7, NextDayFinds
  <2>8. QED BY <2>5, <2>6, <2>7, MovedDay
<1>8. QED BY <1>6, <1>7

-----------------------------------------------------------------------------
(* The loop of next().                                                     *)

\* A move of the date keeps the nodes numbers.
LEMMA NextDateIn ==
    ASSUME NEW c, Plain(c), NEW v \in Values
    PROVE  NextDate(c, v) \in Values
<1>1. days \in Nodes /\ months \in Nodes /\ years \in Nodes BY NodesAre
<1>2. \A u \in Values : NextDay(c, u).v \in Values BY NextDayIs
<1>3. \A u \in Values : ResetDay(c, u) \in Values
  <2>1. lowerBound(days) = 1 BY NodesAre, NodeBounds
  <2>2. \A u \in Values : [u EXCEPT ![days] = 1] \in Values BY <1>1 DEF Values
  <2>3. QED BY <1>2, <2>1, <2>2 DEF ResetDay
<1>4. \A u \in Values : Settle(c, u) \in Values BY <1>3 DEF Settle
<1>5. \A u \in Values : NextCommon(c, u, months).v \in Values /\ NextCommon(c, u, years).v \in Values
  BY <1>1, NextCommonIs
<1>6. ASSUME NEW d, d.v \in Values PROVE CarryDays(c, d) \in Values
  <2>1. PICK m : m = NextCommon(c, d.v, months) OBVIOUS
  <2>2. PICK y : y = NextCommon(c, m.v, years) OBVIOUS
  <2>3. m.v \in Values /\ y.v \in Values BY <1>5, <1>6, <2>1, <2>2
  <2>4. CarryDays(c, d) \in {d.v, Settle(c, m.v), Settle(c, y.v), y.v}
    BY <2>1, <2>2 DEF CarryDays
  <2>5. QED BY <1>4, <1>6, <2>3, <2>4
<1>7. QED BY <1>2, <1>6 DEF NextDate

\* The loop of nextValidDate: what is reached from a date, if anything, is in
\* every set of dates that contains it and the next one of each that is not
\* valid.
LEMMA NextValidDateStep ==
    ASSUME NEW c, Plain(c), NEW v \in Values
    PROVE  LET after == NextDate(c, v)
           IN  nextValidDate(c, v) = IF isValidDate(after) THEN after ELSE nextValidDate(c, after)
<1> DEFINE Step(f, u) == IF isValidDate(u) THEN u ELSE f[NextDate(c, u)]
           Round(f) == [u \in Values |-> Step(f, u)]
           loop == CHOOSE f : f = Round(f)
           Closed(S) == \A u \in S : ~isValidDate(u) => NextDate(c, u) \in S
           Reached(u) == {w \in Values : /\ isValidDate(w)
                                         /\ \A S \in SUBSET Values : u \in S /\ Closed(S) => w \in S}
           F == [u \in Values |-> CHOOSE w : w \in Reached(u)]
<1>1. \A u \in Values : nextValidDate(c, u) = loop[NextDate(c, u)] BY DEF nextValidDate
<1>2. \A u \in Values : NextDate(c, u) \in Values BY NextDateIn
<1>3. ASSUME NEW u \in Values PROVE F[u] = Step(F, u)
  <2>1. CASE isValidDate(u)
    <3>1. Closed({u}) /\ {u} \in SUBSET Values BY <2>1
    <3>2. \A w \in Reached(u) : w = u BY <3>1
    <3>3. u \in Reached(u) BY <2>1
    <3> HIDE DEF Reached
    <3>4. (CHOOSE w : w \in Reached(u)) = u BY <3>2, <3>3
    <3>5. F[u] = u BY <3>4
    <3>6. QED BY <2>1, <3>5
  <2>2. CASE ~isValidDate(u)
    <3>1. PICK after \in Values : after = NextDate(c, u) BY <1>2
    <3>2. ASSUME NEW w \in Reached(after) PROVE w \in Reached(u)
      <4>1. ASSUME NEW S \in SUBSET Values, u \in S, Closed(S) PROVE w \in S
        <5>1. after \in S BY <2>2, <3>1, <4>1
        <5>2. QED BY <3>2, <4>1, <5>1
      <4>2. w \in Values /\ isValidDate(w) BY <3>2
      <4>3. QED BY <4>1, <4>2
    <3>3. ASSUME NEW w \in Reached(u) PROVE w \in Reached(after)
      <4>0. w \in Values /\ isValidDate(w) BY <3>3
      <4>1. ASSUME NEW S \in SUBSET Values, after \in S, Closed(S) PROVE w \in S
        <5>1. S \cup {u} \in SUBSET Values /\ u \in S \cup {u} OBVIOUS
        <5>2. Closed(S \cup {u}) BY <3>1, <4>1
        <5>3. w \in S \cup {u} BY <3>3, <5>1, <5>2
        <5>4. QED BY <2>2, <4>0, <5>3
      <4>2. QED BY <4>0, <4>1
    <3> HIDE DEF Reached
    <3>4. Reached(u) = Reached(after) BY <3>2, <3>3
    <3>5. F[u] = F[after] BY <3>4
    <3>6. QED BY <2>2, <3>1, <3>5
  <2>3. QED BY <2>1, <2>2
<1>4. F = Round(F)
  <2>1. F = [u \in Values |-> F[u]] OBVIOUS
  <2> HIDE DEF F, Step
  <2>2. QED BY <1>3, <2>1
<1> HIDE DEF F
<1>5. loop = Round(loop) BY <1>4
<1> HIDE DEF loop
<1>6. ASSUME NEW u \in Values PROVE loop[u] = Step(loop, u)
  <2> HIDE DEF Step
  <2>1. QED BY <1>5
<1>7. QED BY <1>1, <1>2, <1>6

\* The carry of the days, if the day is right for the next month.
LEMMA CarryDaysIs ==
    ASSUME NEW c, Plain(c), NEW d, d.over, d.v \in Values, d.v[months] \in 1..12, InYears(d.v),
           IsFirstDay(c, MonthNo(d.v) + 1, d.v[days])
    PROVE  LET r == CarryDays(c, d)
           IN  /\ r \in Values /\ r[months] \in 1..12 /\ MonthNo(r) = MonthNo(d.v) + 1
               /\ SameTimeAndDay(d.v, r) /\ isValidDate(r)
<1>1. PICK m : m = NextCommon(c, d.v, months) OBVIOUS
<1>2. PICK y : y = NextCommon(c, m.v, years) OBVIOUS
<1>3. ASSUME NEW w \in Values, SameTimeAndDay(d.v, w), w[months] \in 1..12,
             MonthNo(w) = MonthNo(d.v) + 1
      PROVE  Settle(c, w) = w /\ isValidDate(w)
  <2>1. w[days] \in 1..28 /\ OnDayOf(c, FirstOf(MonthNo(w)) + w[days] - 1)
    BY <1>3 DEF IsFirstDay, SameTimeAndDay
  <2>2. monthMax(w) \in 28..31 /\ dayDate(w) = FirstOf(MonthNo(w)) + w[days] - 1
    BY <1>3, DatedIs
  <2>3. Dated(w) BY <1>3, <2>1, <2>2 DEF Dated
  <2>4. isValidDay(c, w) BY <1>3, <2>1, <2>2, <2>3, ValidDayIs
  <2>5. w[days] <= monthMax(w) BY <2>1, <2>2
  <2>6. QED BY <2>4, <2>5 DEF Settle, isValidDate
<1>4. /\ m.v \in Values /\ SameTimeAndDay(d.v, m.v) /\ m.v[months] \in 1..12
      /\ ~m.over => MonthNo(m.v) = MonthNo(d.v) + 1
      /\ m.over => /\ ~y.over /\ y.v \in Values /\ SameTimeAndDay(d.v, y.v)
                   /\ y.v[months] = 1 /\ MonthNo(y.v) = MonthNo(d.v) + 1
  BY <1>1, <1>2, NextMonthIs
<1>5. CASE ~m.over
  <2>1. CarryDays(c, d) = Settle(c, m.v) BY <1>1, <1>5 DEF CarryDays
  <2>2. QED BY <1>3, <1>4, <1>5, <2>1
<1>6. CASE m.over
  <2>1. CarryDays(c, d) = Settle(c, y.v) BY <1>1, <1>2, <1>4, <1>6 DEF CarryDays
  <2>2. y.v[months] \in 1..12 BY <1>4, <1>6
  <2>3. QED BY <1>3, <1>4, <1>6, <2>1, <2>2
<1>7. QED BY <1>5, <1>6

\* A date past the end of its month, if any day will do: its day is raised
\* until it overflows.
PastMonth(c, v) ==
    /\ c.values[days] = {} /\ c.weekdays = {}
    /\ v \in Values /\ v[months] \in 1..12 /\ InYears(v)
    /\ v[days] \in 28..31 /\ v[days] >= monthMax(v)

\* The first of the next month, at the same time of day.
FirstOfNextMonth(v, r) ==
    /\ r \in Values /\ SameTimeAndDay([v EXCEPT ![days] = 1], r)
    /\ r[months] \in 1..12 /\ MonthNo(r) = MonthNo(v) + 1

\* A date past the end of its month goes on to day 31 and then to the next month.
LEMMA PastMonthStep ==
    ASSUME NEW c, Plain(c), NEW v, PastMonth(c, v)
    PROVE  /\ v[days] = 31 => FirstOfNextMonth(v, nextValidDate(c, v))
           /\ v[days] < 31 => \E u : /\ PastMonth(c, u) /\ u[days] = v[days] + 1
                                     /\ nextValidDate(c, v) = nextValidDate(c, u)
                                     /\ \A r : FirstOfNextMonth(u, r) => FirstOfNextMonth(v, r)
<1>1. /\ v \in Values /\ v[months] \in 1..12 /\ InYears(v) /\ c.values[days] = {}
      /\ v[days] \in 28..31 /\ v[days] >= monthMax(v) /\ c.weekdays = {}
  BY DEF PastMonth
<1>2. days \in Nodes /\ months \in Nodes /\ years \in Nodes /\ days # months /\ days # years
  BY NodesAre
<1>3. monthMax(v) \in 28..31 /\ MonthNo(v) \in Int BY <1>1, DatedIs
<1>4. PICK d : d = NextDay(c, v) OBVIOUS
<1>5. d = NextCommon(c, v, days) BY <1>1, <1>4, NextDayIs
<1>6. lowerBound(days) = 1 /\ upperBound(days) = 31 BY NodesAre, NodeBounds
<1>7. d.over <=> v[days] + 1 > 31 BY <1>1, <1>5, <1>6 DEF NextCommon, Moved, Overflows
<1>8. NextDate(c, v) = CarryDays(c, d) BY <1>4 DEF NextDate
<1>9. CASE v[days] = 31
  <2>1. d.over BY <1>7, <1>9
  <2>2. Overflows(c, v, days) BY <1>1, <1>6, <1>9 DEF Overflows
  <2>3. NextValue(c, v, days) = 1 BY <1>1, <1>6, <2>2 DEF NextValue
  <2>4. d.v = [v EXCEPT ![days] = 1] BY <1>5, <2>3 DEF NextCommon, Moved
  <2>5. /\ d.v \in Values /\ d.v[days] = 1 /\ d.v[months] = v[months] /\ d.v[years] = v[years]
    BY <1>1, <1>2, <2>4 DEF Values
  <2>6. MonthNo(d.v) = MonthNo(v) /\ InYears(d.v) BY <1>1, <2>5 DEF MonthNo, InYears
  <2>7. FirstOf(MonthNo(v) + 1) \in Int BY <1>3, FirstOfNext
  <2>8. IsFirstDay(c, MonthNo(v) + 1, 1)
    <3>1. \A n : OnDayOf(c, n) BY <1>1, EveryDay
    <3>2. \A n \in Int : ~(FirstOf(MonthNo(v) + 1) <= n /\ n < FirstOf(MonthNo(v) + 1) + 1 - 1)
      BY <2>7
    <3>3. QED BY <3>1, <3>2 DEF IsFirstDay
  <2>9. PICK r : r = CarryDays(c, d) OBVIOUS
  <2>10. /\ r \in Values /\ r[months] \in 1..12 /\ MonthNo(r) = MonthNo(d.v) + 1
         /\ SameTimeAndDay(d.v, r) /\ isValidDate(r)
    BY <1>1, <2>1, <2>5, <2>6, <2>8, <2>9, CarryDaysIs
  <2>11. nextValidDate(c, v) = r BY <1>1, <1>8, <2>9, <2>10, NextValidDateStep
  <2>12. QED BY <1>9, <2>4, <2>6, <2>10, <2>11 DEF FirstOfNextMonth
<1>10. CASE v[days] < 31
  <2>1. ~d.over /\ ~Overflows(c, v, days) BY <1>1, <1>6, <1>7, <1>10 DEF Overflows
  <2>2. NextValue(c, v, days) = v[days] + 1 BY <1>1, <2>1 DEF NextValue
  <2>0. PICK u : u = [v EXCEPT ![days] = v[days] + 1] OBVIOUS
  <2>3. d.v = u BY <2>0, <1>5, <2>2 DEF NextCommon, Moved
  <2>4. NextDate(c, v) = u BY <1>8, <2>1, <2>3 DEF CarryDays
  <2>5. /\ u \in Values /\ u[days] = v[days] + 1 /\ u[months] = v[months] /\ u[years] = v[years]
        /\ [u EXCEPT ![days] = 1] = [v EXCEPT ![days] = 1]
    BY <2>0, <1>1, <1>2 DEF Values
  <2>6. MonthNo(u) = MonthNo(v) /\ InYears(u) /\ monthMax(u) = monthMax(v)
    BY <1>1, <2>5 DEF MonthNo, InYears, monthMax
  <2>7. ~isValidDate(u) BY <1>1, <1>3, <2>5, <2>6 DEF isValidDate
  <2>8. nextValidDate(c, v) = nextValidDate(c, u) BY <1>1, <2>4, <2>7, NextValidDateStep
  <2>9. u[days] \in 28..31 /\ u[days] >= monthMax(u) BY <1>1, <1>3, <1>10, <2>5, <2>6
  <2>10. PastMonth(c, u) BY <1>1, <2>5, <2>6, <2>9 DEF PastMonth
  <2>11. \A r : FirstOfNextMonth(u, r) => FirstOfNextMonth(v, r)
    BY <2>5, <2>6 DEF FirstOfNextMonth
  <2>12. QED BY <1>10, <2>5, <2>8, <2>10, <2>11
<1>11. QED BY <1>1, <1>9, <1>10

\* So it comes to the first of the next month.
LEMMA PastMonthIs ==
    ASSUME NEW c, Plain(c), NEW v, PastMonth(c, v)
    PROVE  FirstOfNextMonth(v, nextValidDate(c, v))
<1> DEFINE Right(x) == \A u : PastMonth(c, u) /\ u[days] = x
                                 => FirstOfNextMonth(u, nextValidDate(c, u))
<1>1. ASSUME NEW x \in 28..30, Right(x + 1) PROVE Right(x)
  <2> SUFFICES ASSUME NEW u, PastMonth(c, u), u[days] = x
               PROVE  FirstOfNextMonth(u, nextValidDate(c, u))
    OBVIOUS
  <2>1. u[days] < 31 BY <1>1
  <2>2. PICK w : /\ PastMonth(c, w) /\ w[days] = u[days] + 1
                 /\ nextValidDate(c, u) = nextValidDate(c, w)
                 /\ \A r : FirstOfNextMonth(w, r) => FirstOfNextMonth(u, r)
    BY <2>1, PastMonthStep
  <2>3. w[days] = x + 1 BY <2>2
  <2>4. FirstOfNextMonth(w, nextValidDate(c, w)) BY <1>1, <2>2, <2>3
  <2>5. QED BY <2>2, <2>4
<1>2. Right(31) BY PastMonthStep
<1> HIDE DEF Right
<1>3. Right(30) BY <1>1, <1>2
<1>4. Right(29) BY <1>1, <1>3
<1>5. Right(28) BY <1>1, <1>4
<1>6. v[days] \in 28..31 BY DEF PastMonth
<1>7. QED BY <1>2, <1>3, <1>4, <1>5, <1>6 DEF Right

\* The next date, at the same time of day.
SameTime(v, r) == \A j \in {seconds, minutes, hours} : r[j] = v[j]

\* nextValidDate stops at the next day allowed and leaves the time alone.
LEMMA NextValidDateIs ==
    ASSUME NEW c, Plain(c), NEW v, Dated(v), InYears(v)
    PROVE  LET r == nextValidDate(c, v)
           IN  /\ r \in Values /\ SameTime(v, r)
               /\ IsNextDay(c, dayDate(v), dayDate(r))
<1>0. v \in Values /\ v[months] \in 1..12 /\ v[days] \in 1..monthMax(v) BY DEF Dated
<1>1. PICK d : d = NextDay(c, v) OBVIOUS
<1>2. PICK x \in 1..31 : d.v = [v EXCEPT ![days] = x] /\ d.v[days] = x BY <1>1, NextDayFinds
<1>3. /\ d.v \in Values /\ d.v[months] = v[months] /\ d.v[years] = v[years]
      /\ SameTime(v, d.v)
  BY <1>0, <1>2, NodesAre DEF Values, SameTime
<1>4. InYears(d.v) /\ MonthNo(d.v) = MonthNo(v) /\ monthMax(d.v) = monthMax(v)
  BY <1>3 DEF InYears, MonthNo, monthMax
<1>5. /\ MonthNo(v) \in Int /\ FirstOf(MonthNo(v)) \in Int /\ FirstOf(MonthNo(v) + 1) \in Int
      /\ dayDate(v) = FirstOf(MonthNo(v)) + v[days] - 1
      /\ monthMax(v) = FirstOf(MonthNo(v) + 1) - FirstOf(MonthNo(v)) /\ monthMax(v) \in 28..31
  BY <1>0, DatedIs
<1>6. NextDate(c, v) = CarryDays(c, d) BY <1>1 DEF NextDate
<1>7. PICK r : r = nextValidDate(c, v) OBVIOUS
<1>8. CASE d.over
  <2>1. /\ IsFirstDay(c, MonthNo(v) + 1, x)
        /\ \A n \in Int : dayDate(v) < n /\ n < FirstOf(MonthNo(v) + 1) => ~OnDayOf(c, n)
    BY <1>1, <1>2, <1>8, NextDayFinds
  <2>2. PICK w : w = CarryDays(c, d) OBVIOUS
  <2>20. IsFirstDay(c, MonthNo(d.v) + 1, d.v[days]) /\ d.v[months] \in 1..12 /\ d.v \in Values
    BY <1>0, <1>2, <1>3, <1>4, <2>1
  <2>21. /\ w \in Values /\ w[months] \in 1..12 /\ MonthNo(w) = MonthNo(d.v) + 1
         /\ SameTimeAndDay(d.v, w) /\ isValidDate(w)
    BY <1>4, <1>8, <2>2, <2>20, CarryDaysIs
  <2>3. /\ w \in Values /\ w[months] \in 1..12 /\ MonthNo(w) = MonthNo(v) + 1
        /\ SameTimeAndDay(d.v, w) /\ isValidDate(w)
    BY <1>4, <2>21
  <2>4. r = w BY <1>0, <1>6, <1>7, <2>2, <2>3, NextValidDateStep
  <2>5. w[days] = x /\ SameTime(v, w) BY <1>2, <1>3, <2>3 DEF SameTimeAndDay, SameTime
  <2>6. dayDate(w) = FirstOf(MonthNo(v) + 1) + x - 1 BY <2>3, <2>5 DEF dayDate, Day, MonthNo
  <2>7. IsNextDay(c, dayDate(v), dayDate(w))
    <3>1. dayDate(w) \in Int /\ dayDate(v) < dayDate(w) /\ OnDayOf(c, dayDate(w))
      BY <1>0, <1>5, <2>1, <2>6 DEF IsFirstDay
    <3>2. ASSUME NEW n \in Int, dayDate(v) < n, n < dayDate(w) PROVE ~OnDayOf(c, n)
      BY <1>5, <2>1, <2>6, <3>2 DEF IsFirstDay
    <3>3. QED BY <3>1, <3>2 DEF IsNextDay
  <2>8. QED BY <1>7, <2>3, <2>4, <2>5, <2>7
<1>9. CASE ~d.over
  <2>1. /\ IsNextDay(c, dayDate(v), dayDate(v) + x - v[days])
        /\ x \in 1..monthMax(v) \/ (x = v[days] + 1 /\ c.values[days] = {} /\ c.weekdays = {})
    <3>1. IsNextDay(c, dayDate(v), dayDate(v) + d.v[days] - v[days])
      BY <1>1, <1>9, NextDayFinds
    <3>2. \/ d.v[days] \in 1..monthMax(v)
          \/ /\ d.v[days] = v[days] + 1
             /\ c.values[days] = {} /\ c.weekdays = {}
      BY <1>1, <1>9, NextDayFinds
    <3>3. QED BY <1>2, <3>1, <3>2
  <2>2. NextDate(c, v) = d.v BY <1>6, <1>9 DEF CarryDays
  <2>3. dayDate(d.v) = dayDate(v) + x - v[days]
    <3>1. dayDate(d.v) = FirstOf(MonthNo(v)) + x - 1 BY <1>2, <1>4 DEF dayDate, Day, MonthNo
    <3>2. QED BY <1>0, <1>5, <3>1
  <2>4. CASE x <= monthMax(v)
    <3>1. isValidDate(d.v) BY <1>2, <1>4, <2>4 DEF isValidDate
    <3>2. r = d.v BY <1>0, <1>7, <2>2, <3>1, NextValidDateStep
    <3>3. QED BY <1>3, <1>7, <2>1, <2>3, <3>2
  <2>5. CASE ~(x <= monthMax(v))
    <3>1. /\ x = v[days] + 1 /\ c.values[days] = {} /\ c.weekdays = {}
          /\ v[days] = monthMax(v)
      BY <1>0, <1>5, <2>1, <2>5
    <3>2. ~isValidDate(d.v) BY <1>2, <1>4, <2>5 DEF isValidDate
    <3>3. r = nextValidDate(c, d.v) BY <1>0, <1>7, <2>2, <3>2, NextValidDateStep
    <3>4. x \in 28..31 /\ x >= monthMax(v) BY <1>5, <3>1
    <3>5. PastMonth(c, d.v) BY <1>0, <1>2, <1>3, <1>4, <3>1, <3>4 DEF PastMonth
    <3>6. FirstOfNextMonth(d.v, r) BY <3>3, <3>5, PastMonthIs
    <3>7. r \in Values /\ r[days] = 1 /\ SameTime(v, r) /\ MonthNo(r) = MonthNo(v) + 1
      <4>1. PICK w : w = [d.v EXCEPT ![days] = 1] OBVIOUS
      <4>2. w[days] = 1 /\ SameTime(v, w) BY <1>3, <4>1, NodesAre DEF Values, SameTime
      <4>3. QED BY <1>4, <3>6, <4>1, <4>2 DEF FirstOfNextMonth, SameTimeAndDay, SameTime
    <3>8. dayDate(r) = FirstOf(MonthNo(v) + 1) + 1 - 1 BY <3>7 DEF dayDate, Day, MonthNo
    <3>9. dayDate(r) = dayDate(v) + 1 /\ dayDate(v) \in Int BY <1>5, <3>1, <3>8
    <3>10. IsNextDay(c, dayDate(v), dayDate(r))
      <4>1. \A n : OnDayOf(c, n) BY <3>1, EveryDay
      <4>2. QED BY <3>9, <4>1 DEF IsNextDay
    <3>11. QED BY <1>7, <3>7, <3>10
  <2>6. QED BY <2>4, <2>5
<1>10. QED BY <1>8, <1>9

-----------------------------------------------------------------------------
(* The time of day.                                                        *)

\* The reading of a clock.
Wall(v) ==
    /\ Dated(v) /\ InYears(v)
    /\ v[seconds] \in 0..59 /\ v[minutes] \in 0..59 /\ v[hours] \in 0..23

\* Node i of the time of day is moved, those below it start again.
MovedAt(c, v, i, r) ==
    r = [j \in Nodes |-> CASE j < i -> Least(c, j)
                           [] j = i -> NextValue(c, v, i)
                           [] j > i -> v[j]]

LaterHour(c, v, r) == IF Overflows(c, v, hours) THEN NewDay(c, v, r) ELSE MovedAt(c, v, hours, r)
LaterMinute(c, v, r) ==
    IF Overflows(c, v, minutes) THEN LaterHour(c, v, r) ELSE MovedAt(c, v, minutes, r)
LaterSecond(c, v, r) ==
    IF Overflows(c, v, seconds) THEN LaterMinute(c, v, r) ELSE MovedAt(c, v, seconds, r)

\* What a node and those above it become depends on them alone.
Above(v, w, i) == v \in Values /\ w \in Values /\ \A j \in Nodes : j >= i => v[j] = w[j]

\* What is said of the day depends on the nodes of the date only.
LEMMA SameDay ==
    ASSUME NEW c, NEW v, NEW w, Above(v, w, days)
    PROVE  /\ dayDate(v) = dayDate(w)
           /\ Dated(v) <=> Dated(w)
           /\ InYears(v) <=> InYears(w)
           /\ \A r : NewDay(c, v, r) <=> NewDay(c, w, r)
<1>1. v[days] = w[days] /\ v[months] = w[months] /\ v[years] = w[years]
  BY NodesAre DEF Above
<1>2. dayDate(v) = dayDate(w) BY <1>1 DEF dayDate
<1>3. monthMax(v) = monthMax(w) BY <1>1 DEF monthMax
<1>4. QED BY <1>1, <1>2, <1>3 DEF Dated, InYears, NewDay, Above

\* What is said of a node depends on it and the nodes above it only.
LEMMA SameAbove ==
    ASSUME NEW c, Plain(c), NEW i \in {seconds, minutes, hours}, NEW v, NEW w, Above(v, w, i)
    PROVE  /\ Overflows(c, v, i) <=> Overflows(c, w, i)
           /\ \A r : MovedAt(c, v, i, r) <=> MovedAt(c, w, i, r)
           /\ Above(v, w, i + 1)
<1>1. i \in Nodes /\ i >= i /\ i \in Int BY NodesAre
<1>2. v[i] = w[i] BY <1>1 DEF Above
<1>3. Overflows(c, v, i) <=> Overflows(c, w, i) BY <1>2 DEF Overflows
<1>4. NextValue(c, v, i) = NextValue(c, w, i) BY <1>2, <1>3 DEF NextValue
<1>5. \A j \in Nodes : j > i => v[j] = w[j] BY <1>1, NodesAre DEF Above
<1>6. PICK x : x = NextValue(c, v, i) OBVIOUS
<1>7. [j \in Nodes |-> CASE j < i -> Least(c, j) [] j = i -> x [] j > i -> v[j]]
        = [j \in Nodes |-> CASE j < i -> Least(c, j) [] j = i -> x [] j > i -> w[j]]
  BY <1>1, <1>5, NodesAre
<1>8. \A r : MovedAt(c, v, i, r) <=> MovedAt(c, w, i, r) BY <1>4, <1>6, <1>7 DEF MovedAt
<1>9. Above(v, w, i + 1) BY <1>1, NodesAre DEF Above
<1>10. QED BY <1>3, <1>8, <1>9

\* So does where a carry to it may go.
LEMMA LaterAbove ==
    ASSUME NEW c, Plain(c), NEW v, NEW w, NEW r
    PROVE  /\ Above(v, w, hours) /\ LaterHour(c, v, r) => LaterHour(c, w, r)
           /\ Above(v, w, minutes) /\ LaterMinute(c, v, r) => LaterMinute(c, w, r)
<1>1. ASSUME Above(v, w, hours), LaterHour(c, v, r) PROVE LaterHour(c, w, r)
  <2>1. hours + 1 = days BY NodesAre
  <2>2. /\ Overflows(c, v, hours) <=> Overflows(c, w, hours)
        /\ MovedAt(c, v, hours, r) <=> MovedAt(c, w, hours, r)
        /\ Above(v, w, days)
    BY <1>1, <2>1, SameAbove
  <2>3. NewDay(c, v, r) <=> NewDay(c, w, r) BY <2>2, SameDay
  <2>4. QED BY <1>1, <2>2, <2>3 DEF LaterHour
<1>2. ASSUME Above(v, w, minutes), LaterMinute(c, v, r) PROVE LaterMinute(c, w, r)
  <2>1. minutes + 1 = hours BY NodesAre
  <2>2. /\ Overflows(c, v, minutes) <=> Overflows(c, w, minutes)
        /\ MovedAt(c, v, minutes, r) <=> MovedAt(c, w, minutes, r)
        /\ Above(v, w, hours)
    BY <1>2, <2>1, SameAbove
  <2>3. LaterHour(c, v, r) => LaterHour(c, w, r) BY <1>1, <2>2
  <2>4. QED BY <1>2, <2>2, <2>3 DEF LaterMinute
<1>3. QED BY <1>1, <1>2

\* One node of the time of day moves, and what is below it is reset.
LEMMA NodeMoves ==
    ASSUME NEW c, Plain(c), NEW i \in {seconds, minutes, hours}, NEW v \in Values
    PROVE  LET moved == NextNode(c, v, i)
           IN  /\ moved.over <=> Overflows(c, v, i)
               /\ Above(moved.v, v, i + 1)
               /\ ~moved.over => MovedAt(c, v, i, resetFrom(c, moved.v, i - 1))
               /\ Above(resetFrom(c, moved.v, i - 1), v, i + 1)
<1>1. i \in Nodes /\ i # days /\ i \in Int /\ i < days BY NodesAre
<1>2. PICK x : x = NextValue(c, v, i) OBVIOUS
<1>3. NextNode(c, v, i) = [v |-> [v EXCEPT ![i] = x], over |-> Overflows(c, v, i)]
  BY <1>1, <1>2, NextCommonIs DEF NextNode
<1>4. PICK w : w = [v EXCEPT ![i] = x] OBVIOUS
<1>50. x \in Int BY <1>1, <1>2, NextValueIs
<1>5. w \in Values BY <1>1, <1>4, <1>50 DEF Values
<1>6. w[i] = x /\ \A j \in Nodes : j # i => w[j] = v[j] BY <1>1, <1>4 DEF Values
<1>7. Above(w, v, i + 1) BY <1>1, <1>5, <1>6, NodesAre DEF Above
<1>8. resetFrom(c, w, i - 1) = ResetBelow(c, w, i - 1) BY <1>1, NodesAre DEF resetFrom
<1>9. PICK r : r = ResetTime(c, w, i - 1) OBVIOUS
<1>10. resetFrom(c, w, i - 1) = r /\ r \in Values BY <1>1, <1>5, <1>8, <1>9, ResetBelowIs
<1>11. \A j \in Nodes : r[j] = IF j < i THEN Least(c, j) ELSE w[j]
  BY <1>1, <1>9, NodesAre DEF ResetTime
<1>12. Above(r, v, i + 1) BY <1>1, <1>6, <1>10, <1>11, NodesAre DEF Above
<1>13. MovedAt(c, v, i, r)
  <2>1. r = [j \in Nodes |-> r[j]] BY <1>10 DEF Values
  <2>2. \A j \in Nodes : r[j] = CASE j < i -> Least(c, j)
                                  [] j = i -> x
                                  [] j > i -> v[j]
    BY <1>1, <1>6, <1>11, NodesAre
  <2>3. QED BY <1>2, <2>1, <2>2 DEF MovedAt
<1>14. QED BY <1>3, <1>4, <1>7, <1>10, <1>12, <1>13

\* A carry to the hours goes to the next hour allowed, or to the next day.
LEMMA Carry2Is ==
    ASSUME NEW c, Plain(c), NEW v, Dated(v), InYears(v)
    PROVE  LaterHour(c, v, Carry2(c, v))
<1>0. v \in Values BY DEF Dated
<1>1. PICK n : n = NextNode(c, v, hours) OBVIOUS
<1>2. /\ n.over <=> Overflows(c, v, hours)
      /\ Above(n.v, v, hours + 1)
      /\ ~n.over => MovedAt(c, v, hours, resetFrom(c, n.v, hours - 1))
  BY <1>0, <1>1, NodeMoves
<1>3. hours + 1 = days BY NodesAre
<1>4. CASE n.over
  <2>1. Carry2(c, v) = Carry3(c, n.v) BY <1>1, <1>4 DEF Carry2
  <2>2. Dated(n.v) /\ InYears(n.v) BY <1>2, <1>3, SameDay
  <2>3. NewDay(c, n.v, Carry3(c, n.v)) BY <2>2, Carry3Is
  <2>4. NewDay(c, v, Carry3(c, n.v)) BY <1>2, <1>3, <2>3, SameDay
  <2>5. QED BY <1>2, <1>4, <2>1, <2>4 DEF LaterHour
<1>5. CASE ~n.over
  <2>1. Carry2(c, v) = resetFrom(c, n.v, hours - 1) BY <1>1, <1>5 DEF Carry2
  <2>2. QED BY <1>2, <1>5, <2>1 DEF LaterHour
<1>6. QED BY <1>4, <1>5

\* A carry to the minutes goes to the next minute allowed, or to a later hour.
LEMMA Carry1Is ==
    ASSUME NEW c, Plain(c), NEW v, Dated(v), InYears(v)
    PROVE  LaterMinute(c, v, Carry1(c, v))
<1>0. v \in Values BY DEF Dated
<1>1. PICK n : n = NextNode(c, v, minutes) OBVIOUS
<1>2. /\ n.over <=> Overflows(c, v, minutes)
      /\ Above(n.v, v, minutes + 1)
      /\ ~n.over => MovedAt(c, v, minutes, resetFrom(c, n.v, minutes - 1))
  BY <1>0, <1>1, NodeMoves
<1>3. minutes + 1 = hours BY NodesAre
<1>4. CASE n.over
  <2>1. Carry1(c, v) = Carry2(c, n.v) BY <1>1, <1>4 DEF Carry1
  <2>2. Above(n.v, v, days) BY <1>2, <1>3, NodesAre DEF Above
  <2>3. Dated(n.v) /\ InYears(n.v) BY <2>2, SameDay
  <2>4. LaterHour(c, n.v, Carry2(c, n.v)) BY <2>3, Carry2Is
  <2>5. LaterHour(c, v, Carry2(c, n.v)) BY <1>2, <1>3, <2>4, LaterAbove
  <2>6. QED BY <1>2, <1>4, <2>1, <2>5 DEF LaterMinute
<1>5. CASE ~n.over
  <2>1. Carry1(c, v) = resetFrom(c, n.v, minutes - 1) BY <1>1, <1>5 DEF Carry1
  <2>2. QED BY <1>2, <1>5, <2>1 DEF LaterMinute
<1>6. QED BY <1>4, <1>5

-----------------------------------------------------------------------------
(* findForward.                                                            *)

\* What findForward makes of a reading of the clock: the most significant
\* part that the expression does not have is moved, and what is above it
\* only if it must.
Outcome(c, v, r) ==
    LET day == OnDayOf(c, dayDate(v))
        hour == v[hours] \in NodeSet(c, hours)
        minute == v[minutes] \in NodeSet(c, minutes)
    IN  \/ ~day /\ NewDay(c, v, r)
        \/ day /\ ~hour /\ LaterHour(c, v, r)
        \/ day /\ hour /\ ~minute /\ LaterMinute(c, v, r)
        \/ day /\ hour /\ minute /\ LaterSecond(c, v, r)

\* isValid of the nodes of a reading of the clock.
LEMMA ValidNodes ==
    ASSUME NEW c, Plain(c), NEW v, Wall(v)
    PROVE  /\ isValid(c, v, years) /\ isValid(c, v, months)
           /\ isValid(c, v, days) <=> OnDayOf(c, dayDate(v))
           /\ \A i \in {seconds, minutes, hours} : isValid(c, v, i) <=> v[i] \in NodeSet(c, i)
<1>0. v \in Values /\ v[months] \in 1..12 /\ Dated(v) BY DEF Wall, Dated
<1>1. /\ years # days /\ months # days /\ years \in Nodes /\ months \in Nodes
  BY NodesAre
<1>2. isValid(c, v, years)
  <2>1. lowerBound(years) = 0 /\ upperBound(years) \in Int
    BY NodesAre DEF lowerBound, upperBound
  <2>2. v[years] \in Int BY <1>0, <1>1 DEF Values
  <2>3. lowerBound(years) <= v[years] /\ v[years] <= upperBound(years)
    BY <2>1, <2>2 DEF Wall, InYears
  <2>4. QED BY <1>1, <2>3 DEF isValid, isValidCommon, Plain
<1>3. isValid(c, v, months)
  <2>1. lowerBound(months) = 1 /\ upperBound(months) = 12 BY NodesAre, NodeBounds
  <2>2. QED BY <1>0, <1>1, <2>1 DEF isValid, isValidCommon, Plain
<1>4. isValid(c, v, days) <=> OnDayOf(c, dayDate(v)) BY <1>0, ValidDayIs DEF isValid
<1>5. ASSUME NEW i \in {seconds, minutes, hours}
      PROVE  isValid(c, v, i) <=> v[i] \in NodeSet(c, i)
  <2>1. i \in Nodes /\ i # days /\ i <= 2 BY NodesAre
  <2>2. lowerBound(i) = 0 /\ upperBound(i) = 59 BY <2>1, NodeBounds
  <2>3. v[i] \in 0..59 BY DEF Wall
  <2>4. isValid(c, v, i) <=> c.values[i] = {} \/ v[i] \in c.values[i]
    BY <2>1, <2>2, <2>3 DEF isValid, isValidCommon
  <2>5. QED BY <2>2, <2>3, <2>4 DEF NodeSet
<1>6. QED BY <1>2, <1>3, <1>4, <1>5

\* The topmost of a set of nodes.
LEMMA TopInvalid ==
    ASSUME NEW S, S \subseteq Nodes, NEW k \in S, \A j \in S : j <= k
    PROVE  Max(S) = k
<1>1. \E x \in S : \A y \in S : x >= y BY NodesAre
<1>2. Max(S) = CHOOSE x \in S : \A y \in S : x >= y BY DEF Max
<1>3. Max(S) \in S /\ \A y \in S : Max(S) >= y BY <1>1, <1>2
<1>4. PICK x \in S : x = Max(S) /\ x >= k /\ x <= k BY <1>3
<1>5. x \in Nodes /\ k \in Nodes OBVIOUS
<1>6. x \in Int /\ k \in Int BY <1>5, NodesAre
<1>7. QED BY <1>4, <1>6

\* If all is valid, the whole moves on by a second.
LEMMA NextIs ==
    ASSUME NEW c, Plain(c), NEW v, Wall(v)
    PROVE  LaterSecond(c, v, next(c, v))
<1>0. /\ v \in Values /\ Dated(v) /\ InYears(v)
      /\ seconds \in Nodes /\ minutes \in Nodes /\ hours \in Nodes
  BY NodesAre DEF Wall, Dated
<1>1. PICK s : s = NextCommon(c, v, seconds) OBVIOUS
<1>2. PICK m : m = NextCommon(c, s.v, minutes) OBVIOUS
<1>3. PICK h : h = NextCommon(c, m.v, hours) OBVIOUS
<1>4. s.v \in Values /\ s.v = [v EXCEPT ![seconds] = NextValue(c, v, seconds)]
      /\ (s.over <=> Overflows(c, v, seconds))
  <2>1. /\ s = [v |-> [v EXCEPT ![seconds] = NextValue(c, v, seconds)],
                 over |-> Overflows(c, v, seconds)]
        /\ s.v \in Values
    BY <1>0, <1>1, NextCommonIs
  <2>2. QED BY <2>1
<1>5. m.v \in Values /\ m.v = [s.v EXCEPT ![minutes] = NextValue(c, s.v, minutes)]
      /\ (m.over <=> Overflows(c, s.v, minutes))
  <2>1. /\ m = [v |-> [s.v EXCEPT ![minutes] = NextValue(c, s.v, minutes)],
                 over |-> Overflows(c, s.v, minutes)]
        /\ m.v \in Values
    BY <1>0, <1>2, <1>4, NextCommonIs
  <2>2. QED BY <2>1
<1>6. h.v \in Values /\ h.v = [m.v EXCEPT ![hours] = NextValue(c, m.v, hours)]
      /\ (h.over <=> Overflows(c, m.v, hours))
  <2>1. /\ h = [v |-> [m.v EXCEPT ![hours] = NextValue(c, m.v, hours)],
                 over |-> Overflows(c, m.v, hours)]
        /\ h.v \in Values
    BY <1>0, <1>3, <1>5, NextCommonIs
  <2>2. QED BY <2>1
<1>7. s.v[minutes] = v[minutes] /\ m.v[hours] = v[hours]
  BY <1>0, <1>4, <1>5, NodesAre DEF Values
<1>8. /\ Overflows(c, s.v, minutes) <=> Overflows(c, v, minutes)
      /\ Overflows(c, m.v, hours) <=> Overflows(c, v, hours)
  BY <1>7 DEF Overflows
<1>9. /\ NextValue(c, s.v, minutes) = NextValue(c, v, minutes)
      /\ NextValue(c, m.v, hours) = NextValue(c, v, hours)
  BY <1>7, <1>8 DEF NextValue
<1>10. \A i \in Nodes : Overflows(c, v, i) => NextValue(c, v, i) = Least(c, i)
  BY <1>0, LeastIs
<1>11. next(c, v) = CASE ~s.over -> s.v
                      [] s.over /\ ~m.over -> m.v
                      [] s.over /\ m.over /\ ~h.over -> h.v
                      [] OTHER -> nextValidDate(c, h.v)
  BY <1>1, <1>2, <1>3 DEF next
<1>12. PICK x : x = NextValue(c, v, seconds) OBVIOUS
<1>13. PICK y : y = NextValue(c, v, minutes) OBVIOUS
<1>14. PICK z : z = NextValue(c, v, hours) OBVIOUS
<1>15. \A j \in Nodes : s.v[j] = CASE j = seconds -> x [] OTHER -> v[j]
  BY <1>0, <1>4, <1>12 DEF Values
<1>16. \A j \in Nodes : m.v[j] = CASE j = minutes -> y [] OTHER -> s.v[j]
  BY <1>0, <1>5, <1>9, <1>13 DEF Values
<1>17. \A j \in Nodes : h.v[j] = CASE j = hours -> z [] OTHER -> m.v[j]
  BY <1>0, <1>6, <1>9, <1>14 DEF Values
<1>18. ASSUME NEW w \in Values, NEW i \in Nodes,
              \A j \in Nodes : w[j] = CASE j < i -> Least(c, j)
                                        [] j = i -> NextValue(c, v, i)
                                        [] j > i -> v[j]
       PROVE  MovedAt(c, v, i, w)
  <2>1. w = [j \in Nodes |-> w[j]] BY DEF Values
  <2>2. QED BY <1>18, <2>1 DEF MovedAt
<1>19. CASE ~s.over
  <2>1. \A j \in Nodes : s.v[j] = CASE j < seconds -> Least(c, j)
                                    [] j = seconds -> NextValue(c, v, seconds)
                                    [] j > seconds -> v[j]
    BY <1>12, <1>15, NodesAre
  <2>2. MovedAt(c, v, seconds, s.v) BY <1>0, <1>4, <1>18, <2>1
  <2>3. QED BY <1>4, <1>11, <1>19, <2>2 DEF LaterSecond
<1>20. CASE s.over /\ ~m.over
  <2>1. x = Least(c, seconds) BY <1>0, <1>4, <1>10, <1>12, <1>20
  <2>2. \A j \in Nodes : m.v[j] = CASE j < minutes -> Least(c, j)
                                    [] j = minutes -> NextValue(c, v, minutes)
                                    [] j > minutes -> v[j]
    BY <1>13, <1>15, <1>16, <2>1, NodesAre
  <2>3. MovedAt(c, v, minutes, m.v) BY <1>0, <1>5, <1>18, <2>2
  <2>4. QED BY <1>4, <1>5, <1>8, <1>11, <1>20, <2>3 DEF LaterSecond, LaterMinute
<1>21. CASE s.over /\ m.over /\ ~h.over
  <2>1. x = Least(c, seconds) /\ y = Least(c, minutes)
    BY <1>0, <1>4, <1>5, <1>8, <1>10, <1>12, <1>13, <1>21
  <2>2. \A j \in Nodes : h.v[j] = CASE j < hours -> Least(c, j)
                                    [] j = hours -> NextValue(c, v, hours)
                                    [] j > hours -> v[j]
    BY <1>14, <1>15, <1>16, <1>17, <2>1, NodesAre
  <2>3. MovedAt(c, v, hours, h.v) BY <1>0, <1>6, <1>18, <2>2
  <2>4. QED BY <1>4, <1>5, <1>6, <1>8, <1>11, <1>21, <2>3
            DEF LaterSecond, LaterMinute, LaterHour
<1>22. CASE s.over /\ m.over /\ h.over
  <2>1. x = Least(c, seconds) /\ y = Least(c, minutes) /\ z = Least(c, hours)
    BY <1>0, <1>4, <1>5, <1>6, <1>8, <1>10, <1>12, <1>13, <1>14, <1>22
  <2>2. AtFirstTime(c, h.v)
    BY <1>0, <1>15, <1>16, <1>17, <2>1, NodesAre DEF AtFirstTime
  <2>3. Above(h.v, v, days) BY <1>0, <1>6, <1>15, <1>16, <1>17, NodesAre DEF Above
  <2>4. Dated(h.v) /\ InYears(h.v) /\ dayDate(h.v) = dayDate(v) BY <1>0, <2>3, SameDay
  <2>5. PICK r : r = nextValidDate(c, h.v) OBVIOUS
  <2>6. /\ r \in Values /\ SameTime(h.v, r) /\ IsNextDay(c, dayDate(h.v), dayDate(r))
    BY <2>4, <2>5, NextValidDateIs
  <2>7. AtFirstTime(c, r) BY <2>2, <2>6 DEF AtFirstTime, SameTime
  <2>8. NewDay(c, v, r) BY <2>4, <2>6, <2>7 DEF NewDay
  <2>9. next(c, v) = r BY <1>11, <1>22, <2>5
  <2>10. QED BY <1>4, <1>5, <1>6, <1>8, <1>22, <2>8, <2>9
             DEF LaterSecond, LaterMinute, LaterHour
<1>23. QED BY <1>19, <1>20, <1>21, <1>22

\* findForward moves the topmost node that is not valid, or the whole by a second,
\* and resets what is below it.
LEMMA FindForwardIs ==
    ASSUME NEW c, Plain(c), NEW v, Wall(v)
    PROVE  Outcome(c, v, findForward(c, v))
<1> DEFINE invalid == {i \in Nodes : ~isValid(c, v, i)}
<1>0. /\ v \in Values /\ Dated(v) /\ InYears(v) /\ v[months] \in 1..12
  BY DEF Wall, Dated
<1>1. /\ isValid(c, v, years) /\ isValid(c, v, months)
      /\ isValid(c, v, days) <=> OnDayOf(c, dayDate(v))
      /\ \A i \in {seconds, minutes, hours} : isValid(c, v, i) <=> v[i] \in NodeSet(c, i)
  BY ValidNodes
<1>2. findForward(c, v) = IF invalid = {} THEN next(c, v)
                          ELSE Settled(c, NextNode(c, v, Max(invalid)), Max(invalid))
  BY DEF findForward
<1>3. invalid \subseteq {seconds, minutes, hours, days} BY <1>1, NodesAre
<1>4. invalid \subseteq Nodes /\ \A i \in Nodes : i \in invalid <=> ~isValid(c, v, i)
  OBVIOUS
<1> HIDE DEF invalid
<1>5. CASE ~OnDayOf(c, dayDate(v))
  <2>1. days \in invalid BY <1>1, <1>4, <1>5, NodesAre
  <2>2. \A j \in invalid : j <= days BY <1>3, NodesAre
  <2>3. Max(invalid) = days BY <1>4, <2>1, <2>2, TopInvalid
  <2>4. PICK d : d = NextDay(c, v) OBVIOUS
  <2>5. findForward(c, v) = Settled(c, d, days)
    BY <1>2, <2>1, <2>3, <2>4 DEF NextNode
  <2>6. PICK x \in 1..31 : d.v = [v EXCEPT ![days] = x] /\ d.v[days] = x
    BY <1>0, <2>4, NextDayFinds
  <2>7. d.v \in Values /\ d.v[months] = v[months] /\ d.v[years] = v[years]
    BY <1>0, <2>6, NodesAre DEF Values
  <2>8. PICK w : w = ResetTime(c, d.v, hours) OBVIOUS
  <2>9. resetFrom(c, d.v, days - 1) = w /\ w \in Values
    <3>1. resetFrom(c, d.v, days - 1) = ResetBelow(c, d.v, hours) BY NodesAre DEF resetFrom
    <3>2. hours \in Int BY NodesAre
    <3>3. QED BY <2>7, <2>8, <3>1, <3>2, ResetBelowIs
  <2>10. /\ w[days] = x /\ w[months] = v[months] /\ w[years] = v[years] /\ AtFirstTime(c, w)
    BY <2>6, <2>7, <2>8, NodesAre DEF ResetTime, AtFirstTime
  <2>11. InYears(w) /\ MonthNo(w) = MonthNo(v) BY <1>0, <2>10 DEF InYears, MonthNo
  <2>12. CASE d.over
    <3>1. findForward(c, v) = overflowFrom(c, w, days + 1)
      BY <2>5, <2>9, <2>12 DEF Settled
    <3>2. days + 1 = months BY NodesAre
    <3>3. findForward(c, v) = Carry4(c, w) BY <2>9, <3>1, <3>2, OverflowFromIs
    <3>4. AtFirstOf(c, MonthNo(v) + 1, findForward(c, v))
      BY <1>0, <2>9, <2>10, <2>11, <3>3, Carry4Is
    <3>5. \A n \in Int : dayDate(v) < n /\ n < FirstOf(MonthNo(v) + 1) => ~OnDayOf(c, n)
      BY <1>0, <2>4, <2>12, NextDayFinds
    <3>6. NewDay(c, v, findForward(c, v)) BY <1>0, <3>4, <3>5, FirstIsNext
    <3>7. QED BY <1>5, <3>6 DEF Outcome
  <2>13. CASE ~d.over
    <3>1. findForward(c, v) = w BY <2>5, <2>9, <2>13 DEF Settled
    <3>2. IsNextDay(c, dayDate(v), dayDate(v) + d.v[days] - v[days])
      BY <1>0, <2>4, <2>13, NextDayFinds
    <3>3. IsNextDay(c, dayDate(v), dayDate(v) + x - v[days]) BY <2>6, <3>2
    <3>4. NewDay(c, v, w) BY <1>0, <2>9, <2>10, <3>3, MovedDay
    <3>5. QED BY <1>5, <3>1, <3>4 DEF Outcome
  <2>14. QED BY <2>12, <2>13
<1>6. CASE OnDayOf(c, dayDate(v)) /\ v[hours] \notin NodeSet(c, hours)
  <2>1. hours \in invalid /\ days \notin invalid BY <1>1, <1>4, <1>6, NodesAre
  <2>2. \A j \in invalid : j <= hours BY <1>3, <2>1, NodesAre
  <2>3. Max(invalid) = hours BY <1>4, <2>1, <2>2, TopInvalid
  <2>4. PICK n : n = NextNode(c, v, hours) OBVIOUS
  <2>5. PICK w : w = resetFrom(c, n.v, hours - 1) OBVIOUS
  <2>6. /\ n.over <=> Overflows(c, v, hours)
        /\ ~n.over => MovedAt(c, v, hours, w)
        /\ Above(w, v, hours + 1)
    BY <1>0, <2>4, <2>5, NodeMoves
  <2>7. findForward(c, v) = IF n.over THEN overflowFrom(c, w, hours + 1) ELSE w
    BY <1>2, <2>1, <2>3, <2>4, <2>5 DEF Settled
  <2>8. CASE n.over
    <3>1. hours + 1 = days /\ w \in Values BY <2>6, NodesAre DEF Above
    <3>2. findForward(c, v) = Carry3(c, w) BY <2>7, <2>8, <3>1, OverflowFromIs
    <3>3. Dated(w) /\ InYears(w) BY <1>0, <2>6, <3>1, SameDay
    <3>4. NewDay(c, w, Carry3(c, w)) BY <3>3, Carry3Is
    <3>5. NewDay(c, v, findForward(c, v)) BY <2>6, <3>1, <3>2, <3>4, SameDay
    <3>6. LaterHour(c, v, findForward(c, v)) BY <2>6, <2>8, <3>5 DEF LaterHour
    <3>7. QED BY <1>6, <3>6 DEF Outcome
  <2>9. CASE ~n.over
    <3>1. LaterHour(c, v, findForward(c, v)) BY <2>6, <2>7, <2>9 DEF LaterHour
    <3>2. QED BY <1>6, <3>1 DEF Outcome
  <2>10. QED BY <2>8, <2>9
<1>7. CASE /\ OnDayOf(c, dayDate(v)) /\ v[hours] \in NodeSet(c, hours)
           /\ v[minutes] \notin NodeSet(c, minutes)
  <2>1. minutes \in invalid /\ days \notin invalid /\ hours \notin invalid
    BY <1>1, <1>4, <1>7, NodesAre
  <2>2. \A j \in invalid : j <= minutes BY <1>3, <2>1, NodesAre
  <2>3. Max(invalid) = minutes BY <1>4, <2>1, <2>2, TopInvalid
  <2>4. PICK n : n = NextNode(c, v, minutes) OBVIOUS
  <2>5. PICK w : w = resetFrom(c, n.v, minutes - 1) OBVIOUS
  <2>6. /\ n.over <=> Overflows(c, v, minutes)
        /\ ~n.over => MovedAt(c, v, minutes, w)
        /\ Above(w, v, minutes + 1)
    BY <1>0, <2>4, <2>5, NodeMoves
  <2>7. findForward(c, v) = IF n.over THEN overflowFrom(c, w, minutes + 1) ELSE w
    BY <1>2, <2>1, <2>3, <2>4, <2>5 DEF Settled
  <2>8. CASE n.over
    <3>1. minutes + 1 = hours /\ w \in Values BY <2>6, NodesAre DEF Above
    <3>2. findForward(c, v) = Carry2(c, w) BY <2>7, <2>8, <3>1, OverflowFromIs
    <3>3. Above(w, v, days) BY <2>6, <3>1, NodesAre DEF Above
    <3>4. Dated(w) /\ InYears(w) BY <1>0, <3>3, SameDay
    <3>5. LaterHour(c, w, Carry2(c, w)) BY <3>4, Carry2Is
    <3>6. LaterHour(c, v, findForward(c, v)) BY <2>6, <3>1, <3>2, <3>5, LaterAbove
    <3>7. LaterMinute(c, v, findForward(c, v)) BY <2>6, <2>8, <3>6 DEF LaterMinute
    <3>8. QED BY <1>7, <3>7 DEF Outcome
  <2>9. CASE ~n.over
    <3>1. LaterMinute(c, v, findForward(c, v)) BY <2>6, <2>7, <2>9 DEF LaterMinute
    <3>2. QED BY <1>7, <3>1 DEF Outcome
  <2>10. QED BY <2>8, <2>9
<1>8. CASE /\ OnDayOf(c, dayDate(v)) /\ v[hours] \in NodeSet(c, hours)
           /\ v[minutes] \in NodeSet(c, minutes)
  <2>1. days \notin invalid /\ hours \notin invalid /\ minutes \notin invalid
    BY <1>1, <1>4, <1>8, NodesAre
  <2>2. LaterSecond(c, v, findForward(c, v))
    <3>1. CASE invalid = {} BY <1>2, <3>1, NextIs
    <3>2. CASE invalid # {}
      <4>1. seconds \in invalid BY <1>3, <2>1, <3>2
      <4>2. \A j \in invalid : j <= seconds BY <1>3, <2>1, NodesAre
      <4>3. Max(invalid) = seconds BY <1>4, <4>1, <4>2, TopInvalid
      <4>4. PICK n : n = NextNode(c, v, seconds) OBVIOUS
      <4>5. PICK w : w = resetFrom(c, n.v, seconds - 1) OBVIOUS
      <4>6. /\ n.over <=> Overflows(c, v, seconds)
            /\ ~n.over => MovedAt(c, v, seconds, w)
            /\ Above(w, v, seconds + 1)
        BY <1>0, <4>4, <4>5, NodeMoves
      <4>7. findForward(c, v) = IF n.over THEN overflowFrom(c, w, seconds + 1) ELSE w
        BY <1>2, <3>2, <4>3, <4>4, <4>5 DEF Settled
      <4>8. CASE n.over
        <5>1. seconds + 1 = minutes /\ w \in Values BY <4>6, NodesAre DEF Above
        <5>2. findForward(c, v) = Carry1(c, w) BY <4>7, <4>8, <5>1, OverflowFromIs
        <5>3. Above(w, v, days) BY <4>6, <5>1, NodesAre DEF Above
        <5>4. Dated(w) /\ InYears(w) BY <1>0, <5>3, SameDay
        <5>5. LaterMinute(c, w, Carry1(c, w)) BY <5>4, Carry1Is
        <5>6. LaterMinute(c, v, findForward(c, v)) BY <4>6, <5>1, <5>2, <5>5, LaterAbove
        <5>7. QED BY <4>6, <4>8, <5>6 DEF LaterSecond
      <4>9. CASE ~n.over BY <4>6, <4>7, <4>9 DEF LaterSecond
      <4>10. QED BY <4>8, <4>9
    <3>3. QED BY <3>1, <3>2
  <2>3. QED BY <1>8, <2>2 DEF Outcome
<1>9. QED BY <1>5, <1>6, <1>7, <1>8

-----------------------------------------------------------------------------
(* The next reading that suits.                                            *)

\* A date and a time of day.
Reading(d, h, m, s) ==
    /\ d \in Int /\ h \in Int /\ m \in Int /\ s \in Int
    /\ 0 <= h /\ h <= 23 /\ 0 <= m /\ m <= 59 /\ 0 <= s /\ s <= 59

\* Those that the nodes allow.
Suits(c, d, h, m, s) ==
    /\ Reading(d, h, m, s) /\ OnDayOf(c, d)
    /\ h \in NodeSet(c, hours) /\ m \in NodeSet(c, minutes) /\ s \in NodeSet(c, seconds)

\* r is the next of them after v.
IsNextOf(c, v, r) ==
    /\ ValueOf(v) \in Int /\ ValueOf(r) \in Int
    /\ ValueOf(v) < ValueOf(r)
    /\ \E d, h, m, s : Suits(c, d, h, m, s) /\ ValueOf(r) = Instant(d, h, m, s)
    /\ \A d, h, m, s : Suits(c, d, h, m, s) =>
           Instant(d, h, m, s) <= ValueOf(v) \/ ValueOf(r) <= Instant(d, h, m, s)

\* The times of day that the nodes allow. The hour node counts to 59, so without a
\* list of hours its overflow comes too late: it is harmless if every day will do.
LEMMA TimeNodes ==
    ASSUME NEW c, Plain(c)
    PROVE  /\ NodeSet(c, seconds) \subseteq 0..59 /\ NodeSet(c, minutes) \subseteq 0..59
           /\ NodeSet(c, hours) \subseteq 0..59
           /\ \/ NodeSet(c, hours) \subseteq 0..23
              \/ NodeSet(c, hours) = 0..59 /\ \A n : OnDayOf(c, n)
           /\ Least(c, seconds) \in NodeSet(c, seconds) /\ Least(c, seconds) \in 0..59
           /\ Least(c, minutes) \in NodeSet(c, minutes) /\ Least(c, minutes) \in 0..59
           /\ Least(c, hours) \in NodeSet(c, hours) /\ Least(c, hours) \in 0..23
           /\ \A i \in {seconds, minutes, hours} : \A y \in NodeSet(c, i) : Least(c, i) <= y
<1>1. \A i \in {seconds, minutes, hours} : i \in Nodes /\ lowerBound(i) = 0 /\ upperBound(i) = 59
  BY NodesAre, NodeBounds
<1>2. \A i \in {seconds, minutes, hours} : NodeSet(c, i) \subseteq 0..59
  BY <1>1, PlainLists DEF NodeSet
<1>3. \A i \in {seconds, minutes, hours} :
         /\ Least(c, i) \in NodeSet(c, i)
         /\ \A y \in NodeSet(c, i) : Least(c, i) <= y
  BY <1>1, LeastIs
<1>4. \/ NodeSet(c, hours) \subseteq 0..23
      \/ NodeSet(c, hours) = 0..59 /\ \A n : OnDayOf(c, n)
  <2>1. CASE c.values[hours] = {}
    <3>1. c.values[days] = {} /\ c.weekdays = {} BY <2>1 DEF Plain
    <3>2. NodeSet(c, hours) = 0..59 BY <1>1, <2>1 DEF NodeSet
    <3>3. QED BY <3>1, <3>2, EveryDay
  <2>2. CASE c.values[hours] # {}
    <3>1. NodeSet(c, hours) = c.values[hours] BY <2>2 DEF NodeSet
    <3>2. c.values[hours] \subseteq Nat BY <1>1, PlainLists
    <3>3. QED BY <3>1, <3>2 DEF Plain
  <2>3. QED BY <2>1, <2>2
<1>5. Least(c, hours) \in 0..23
  <2>1. CASE NodeSet(c, hours) = 0..59
    <3>1. 0 \in NodeSet(c, hours) BY <2>1
    <3>2. Least(c, hours) <= 0 /\ Least(c, hours) \in 0..59 BY <1>2, <1>3, <3>1
    <3>3. QED BY <3>2
  <2>2. CASE NodeSet(c, hours) \subseteq 0..23 BY <1>3, <2>2
  <2>3. QED BY <1>4, <2>1, <2>2
<1>6. Least(c, seconds) \in 0..59 /\ Least(c, minutes) \in 0..59 BY <1>2, <1>3
<1>7. QED BY <1>2, <1>3, <1>4, <1>5, <1>6

\* Whether one reading is earlier than another.
EarlierTime(h, m, s, h2, m2, s2) ==
    h < h2 \/ (h = h2 /\ m < m2) \/ (h = h2 /\ m = m2 /\ s < s2)
Earlier(d, h, m, s, d2, h2, m2, s2) ==
    d < d2 \/ (d = d2 /\ EarlierTime(h, m, s, h2, m2, s2))

\* Readings in their order are instants in their order.
LEMMA InstantOrder ==
    ASSUME NEW d, NEW h, NEW m, NEW s, Reading(d, h, m, s),
           NEW d2, NEW h2, NEW m2, NEW s2, Reading(d2, h2, m2, s2)
    PROVE  /\ Instant(d, h, m, s) \in Int /\ Instant(d2, h2, m2, s2) \in Int
           /\ Earlier(d, h, m, s, d2, h2, m2, s2)
                => Instant(d, h, m, s) < Instant(d2, h2, m2, s2)
           /\ ~Earlier(d, h, m, s, d2, h2, m2, s2)
                => Instant(d2, h2, m2, s2) <= Instant(d, h, m, s)
BY SMT DEF Instant, SecondsPerDay, Earlier, EarlierTime, Reading

\* Midnight.
LEMMA HourPastTheLast ==
    ASSUME NEW d \in Int, NEW m \in Int, NEW s \in Int
    PROVE  Instant(d, 24, m, s) = Instant(d + 1, 0, m, s)
BY SMT DEF Instant, SecondsPerDay

\* The nodes show a reading of the clock, and ValueOf is its instant.
LEMMA WallIs ==
    ASSUME NEW v, Wall(v)
    PROVE  /\ Reading(dayDate(v), v[hours], v[minutes], v[seconds])
           /\ ValueOf(v) = Instant(dayDate(v), v[hours], v[minutes], v[seconds])
<1>1. dayDate(v) \in Int BY DayDateInt DEF Wall, Dated
<1>2. v[hours] \in 0..23 /\ v[minutes] \in 0..59 /\ v[seconds] \in 0..59 BY DEF Wall
<1>3. QED BY <1>1, <1>2 DEF ValueOf, Reading

\* What is left to show: the result is one of those that suit, and none of
\* them is between.
LEMMA NextOfIs ==
    ASSUME NEW c, NEW v, Wall(v), NEW r,
           NEW d1, NEW h1, NEW m1, NEW s1, Suits(c, d1, h1, m1, s1),
           ValueOf(r) = Instant(d1, h1, m1, s1),
           Earlier(dayDate(v), v[hours], v[minutes], v[seconds], d1, h1, m1, s1),
           \A d, h, m, s : Suits(c, d, h, m, s) =>
               \/ ~Earlier(dayDate(v), v[hours], v[minutes], v[seconds], d, h, m, s)
               \/ ~Earlier(d, h, m, s, d1, h1, m1, s1)
    PROVE  IsNextOf(c, v, r)
<1>1. /\ Reading(dayDate(v), v[hours], v[minutes], v[seconds])
      /\ ValueOf(v) = Instant(dayDate(v), v[hours], v[minutes], v[seconds])
  BY WallIs
<1>2. \A d, h, m, s : Suits(c, d, h, m, s) => Reading(d, h, m, s) BY DEF Suits
<1>3. ValueOf(v) \in Int /\ ValueOf(r) \in Int /\ ValueOf(v) < ValueOf(r)
  BY <1>1, <1>2, InstantOrder
<1>4. ASSUME NEW d, NEW h, NEW m, NEW s, Suits(c, d, h, m, s)
      PROVE  Instant(d, h, m, s) <= ValueOf(v) \/ ValueOf(r) <= Instant(d, h, m, s)
  BY <1>1, <1>2, <1>4, InstantOrder
<1>5. QED BY <1>3, <1>4 DEF IsNextOf

\* A later day, if this one is over.
LEMMA NextByDay ==
    ASSUME NEW c, Plain(c), NEW v, Wall(v), NEW r, NewDay(c, v, r),
           \A h, m, s : Suits(c, dayDate(v), h, m, s) =>
               ~EarlierTime(v[hours], v[minutes], v[seconds], h, m, s)
    PROVE  IsNextOf(c, v, r)
<1>1. Reading(dayDate(v), v[hours], v[minutes], v[seconds]) BY WallIs
<1>2. PICK d1 \in Int : d1 = dayDate(r) /\ dayDate(v) < d1 /\ OnDayOf(c, d1)
                         /\ \A d \in Int : dayDate(v) < d /\ d < d1 => ~OnDayOf(c, d)
  BY DEF NewDay, IsNextDay
<1>3. PICK hf, mf, sf : hf = Least(c, hours) /\ mf = Least(c, minutes) /\ sf = Least(c, seconds)
  OBVIOUS
<1>4. r[hours] = hf /\ r[minutes] = mf /\ r[seconds] = sf BY <1>3 DEF NewDay, AtFirstTime
<1>5. ValueOf(r) = Instant(d1, hf, mf, sf) BY <1>2, <1>4 DEF ValueOf
<1>6. Suits(c, d1, hf, mf, sf) BY <1>2, <1>3, TimeNodes DEF Suits, Reading
<1>7. Earlier(dayDate(v), v[hours], v[minutes], v[seconds], d1, hf, mf, sf)
  BY <1>2 DEF Earlier
<1>8. ASSUME NEW d, NEW h, NEW m, NEW s, Suits(c, d, h, m, s)
      PROVE  \/ ~Earlier(dayDate(v), v[hours], v[minutes], v[seconds], d, h, m, s)
             \/ ~Earlier(d, h, m, s, d1, hf, mf, sf)
  <2>1. /\ d \in Int /\ h \in Int /\ m \in Int /\ s \in Int /\ OnDayOf(c, d)
        /\ hf <= h /\ mf <= m /\ sf <= s
        /\ hf \in Int /\ mf \in Int /\ sf \in Int /\ dayDate(v) \in Int
    BY <1>1, <1>3, <1>6, <1>8, TimeNodes DEF Suits, Reading
  <2>2. d <= dayDate(v) \/ d >= d1 BY <1>2, <2>1
  <2>3. CASE d < dayDate(v) BY <2>1, <2>3 DEF Earlier
  <2>4. CASE d = dayDate(v) BY <1>8, <2>1, <2>4 DEF Earlier
  <2>5. CASE d >= d1
    <3>1. ~EarlierTime(h, m, s, hf, mf, sf) BY <2>1 DEF EarlierTime
    <3>2. QED BY <2>1, <2>5, <3>1 DEF Earlier
  <2>6. QED BY <2>1, <2>2, <2>3, <2>4, <2>5
<1>9. QED BY <1>5, <1>6, <1>7, <1>8, NextOfIs

\* A move of a node of the time of day, node by node.
LEMMA MovedIs ==
    ASSUME NEW c, Plain(c), NEW v, Wall(v), NEW i \in {seconds, minutes, hours},
           ~Overflows(c, v, i), NEW r, MovedAt(c, v, i, r)
    PROVE  /\ dayDate(r) = dayDate(v)
           /\ r[i] \in NodeSet(c, i) /\ r[i] \in Int /\ v[i] < r[i]
           /\ \A y \in NodeSet(c, i) : v[i] < y => r[i] <= y
           /\ \A j \in {seconds, minutes, hours} :
                 r[j] = IF j < i THEN Least(c, j) ELSE IF j > i THEN v[j] ELSE r[i]
<1>0. v \in Values /\ i \in Nodes /\ i < days /\ lowerBound(i) = 0 /\ 0 <= v[i]
  <2>1. v \in Values /\ i \in Nodes /\ i < days /\ i <= 2 BY NodesAre DEF Wall, Dated
  <2>2. 0 <= v[i] BY DEF Wall
  <2>3. QED BY <2>1, <2>2, NodeBounds
<1>1. PICK x : x = NextValue(c, v, i) OBVIOUS
<1>2. \A j \in Nodes : r[j] = CASE j < i -> Least(c, j) [] j = i -> x [] j > i -> v[j]
  BY <1>1 DEF MovedAt
<1>3. r[i] = x BY <1>0, <1>2, NodesAre
<1>4. /\ x \in Int /\ v[i] < x /\ x \in NodeSet(c, i)
      /\ \A y \in NodeSet(c, i) : v[i] < y => x <= y
  BY <1>0, <1>1, NextValueIs
<1>5. r[days] = v[days] /\ r[months] = v[months] /\ r[years] = v[years]
  BY <1>0, <1>2, NodesAre
<1>6. dayDate(r) = dayDate(v) BY <1>5 DEF dayDate
<1>7. \A j \in {seconds, minutes, hours} :
         r[j] = IF j < i THEN Least(c, j) ELSE IF j > i THEN v[j] ELSE r[i]
  BY <1>0, <1>2, <1>3, NodesAre
<1>8. QED BY <1>3, <1>4, <1>6, <1>7

\* A later hour of the same day, or the midnight that ends it.
LEMMA NextByHour ==
    ASSUME NEW c, Plain(c), NEW v, Wall(v), OnDayOf(c, dayDate(v)),
           ~Overflows(c, v, hours), NEW r, MovedAt(c, v, hours, r),
           \A h, m, s : Suits(c, dayDate(v), h, m, s) /\ h = v[hours] =>
               ~EarlierTime(v[hours], v[minutes], v[seconds], h, m, s)
    PROVE  IsNextOf(c, v, r)
<1>1. /\ Reading(dayDate(v), v[hours], v[minutes], v[seconds])
      /\ dayDate(v) \in Int /\ v[hours] \in Int /\ v[minutes] \in Int /\ v[seconds] \in Int
      /\ v[hours] <= 23 /\ 0 <= v[hours]
  BY WallIs DEF Reading
<1>2. PICK x \in Int, mf \in Int, sf \in Int : x = r[hours] /\ mf = Least(c, minutes) /\ sf = Least(c, seconds)
  <2>1. r[hours] \in Int BY MovedIs
  <2>2. Least(c, minutes) \in 0..59 /\ Least(c, seconds) \in 0..59 BY TimeNodes
  <2>3. Least(c, minutes) \in Int /\ Least(c, seconds) \in Int BY <2>2
  <2>4. QED BY <2>1, <2>3
<1>3. /\ x \in NodeSet(c, hours) /\ v[hours] < x
      /\ \A y \in NodeSet(c, hours) : v[hours] < y => x <= y
      /\ dayDate(r) = dayDate(v)
  BY <1>2, MovedIs
<1>4. r[minutes] = mf /\ r[seconds] = sf
  <2>1. \A j \in {seconds, minutes} : r[j] = Least(c, j) BY MovedIs, NodesAre
  <2>2. QED BY <1>2, <2>1
<1>5. ValueOf(r) = Instant(dayDate(v), x, mf, sf) BY <1>2, <1>3, <1>4 DEF ValueOf
<1>6. /\ mf \in NodeSet(c, minutes) /\ 0 <= mf /\ mf <= 59 /\ (\A y \in NodeSet(c, minutes) : mf <= y)
      /\ sf \in NodeSet(c, seconds) /\ 0 <= sf /\ sf <= 59 /\ (\A y \in NodeSet(c, seconds) : sf <= y)
  BY <1>2, TimeNodes
<1>7. ASSUME NEW d, NEW h, NEW m, NEW s, Suits(c, d, h, m, s)
      PROVE  /\ d \in Int /\ h \in Int /\ m \in Int /\ s \in Int /\ 0 <= h /\ h <= 23
             /\ h \in NodeSet(c, hours) /\ mf <= m /\ sf <= s
             /\ d = dayDate(v) => h >= x \/ ~EarlierTime(v[hours], v[minutes], v[seconds], h, m, s)
  <2>1. /\ d \in Int /\ h \in Int /\ m \in Int /\ s \in Int /\ 0 <= h /\ h <= 23
        /\ h \in NodeSet(c, hours) /\ mf <= m /\ sf <= s
    BY <1>6, <1>7 DEF Suits, Reading
  <2>2. ASSUME d = dayDate(v), h < x PROVE ~EarlierTime(v[hours], v[minutes], v[seconds], h, m, s)
    <3>1. h <= v[hours] BY <1>1, <1>3, <2>1, <2>2
    <3>2. CASE h = v[hours] BY <1>7, <2>2, <3>2
    <3>3. CASE h < v[hours] BY <1>1, <2>1, <3>3 DEF EarlierTime
    <3>4. QED BY <1>1, <2>1, <3>1, <3>2, <3>3
  <2>3. QED BY <1>2, <2>1, <2>2
<1>8. CASE x <= 23
  <2>1. Suits(c, dayDate(v), x, mf, sf) BY <1>1, <1>3, <1>6, <1>8 DEF Suits, Reading
  <2>2. Earlier(dayDate(v), v[hours], v[minutes], v[seconds], dayDate(v), x, mf, sf)
    BY <1>3 DEF Earlier, EarlierTime
  <2>3. ASSUME NEW d, NEW h, NEW m, NEW s, Suits(c, d, h, m, s)
        PROVE  \/ ~Earlier(dayDate(v), v[hours], v[minutes], v[seconds], d, h, m, s)
               \/ ~Earlier(d, h, m, s, dayDate(v), x, mf, sf)
    <3>1. /\ d \in Int /\ h \in Int /\ m \in Int /\ s \in Int /\ mf <= m /\ sf <= s
          /\ d = dayDate(v) => h >= x \/ ~EarlierTime(v[hours], v[minutes], v[seconds], h, m, s)
      BY <1>7, <2>3
    <3>2. h >= x => ~EarlierTime(h, m, s, x, mf, sf) BY <3>1 DEF EarlierTime
    <3>3. QED BY <1>1, <3>1, <3>2 DEF Earlier
  <2>4. QED BY <1>5, <2>1, <2>2, <2>3, NextOfIs
<1>9. CASE ~(x <= 23)
  <2>1. NodeSet(c, hours) = 0..59 /\ \A n : OnDayOf(c, n) BY <1>3, <1>9, TimeNodes
  <2>2. v[hours] + 1 \in NodeSet(c, hours) BY <1>1, <2>1
  <2>3. x <= v[hours] + 1 BY <1>1, <1>3, <2>2
  <2>4. x = 24 /\ v[hours] = 23 BY <1>1, <1>9, <2>3
  <2>5. PICK d1 \in Int : d1 = dayDate(v) + 1 BY <1>1
  <2>6. ValueOf(r) = Instant(d1, 0, mf, sf) BY <1>1, <1>5, <2>4, <2>5, HourPastTheLast
  <2>7. 0 \in NodeSet(c, hours) BY <2>1
  <2>8. Suits(c, d1, 0, mf, sf) BY <1>6, <2>1, <2>7 DEF Suits, Reading
  <2>9. Earlier(dayDate(v), v[hours], v[minutes], v[seconds], d1, 0, mf, sf)
    BY <1>1, <2>5 DEF Earlier
  <2>10. ASSUME NEW d, NEW h, NEW m, NEW s, Suits(c, d, h, m, s)
         PROVE  \/ ~Earlier(dayDate(v), v[hours], v[minutes], v[seconds], d, h, m, s)
                \/ ~Earlier(d, h, m, s, d1, 0, mf, sf)
    <3>1. /\ d \in Int /\ h \in Int /\ m \in Int /\ s \in Int /\ mf <= m /\ sf <= s
          /\ 0 <= h /\ h <= 23
          /\ d = dayDate(v) => h >= x \/ ~EarlierTime(v[hours], v[minutes], v[seconds], h, m, s)
      BY <1>7, <2>10
    <3>2. d = dayDate(v) => ~EarlierTime(v[hours], v[minutes], v[seconds], h, m, s)
      BY <2>4, <3>1
    <3>3. ~EarlierTime(h, m, s, 0, mf, sf) BY <3>1 DEF EarlierTime
    <3>4. QED BY <1>1, <2>5, <3>1, <3>2, <3>3 DEF Earlier
  <2>11. QED BY <2>6, <2>8, <2>9, <2>10, NextOfIs
<1>10. QED BY <1>8, <1>9

\* A later minute of the same hour.
LEMMA NextByMinute ==
    ASSUME NEW c, Plain(c), NEW v, Wall(v), OnDayOf(c, dayDate(v)),
           v[hours] \in NodeSet(c, hours),
           ~Overflows(c, v, minutes), NEW r, MovedAt(c, v, minutes, r),
           \A h, m, s : Suits(c, dayDate(v), h, m, s) /\ h = v[hours] /\ m = v[minutes] =>
               ~EarlierTime(v[hours], v[minutes], v[seconds], h, m, s)
    PROVE  IsNextOf(c, v, r)
<1>1. /\ Reading(dayDate(v), v[hours], v[minutes], v[seconds])
      /\ dayDate(v) \in Int /\ v[hours] \in Int /\ v[minutes] \in Int /\ v[seconds] \in Int
  BY WallIs DEF Reading
<1>2. PICK x \in Int, sf \in Int : x = r[minutes] /\ sf = Least(c, seconds)
  BY MovedIs, TimeNodes
<1>3. /\ x \in NodeSet(c, minutes) /\ v[minutes] < x
      /\ \A y \in NodeSet(c, minutes) : v[minutes] < y => x <= y
      /\ dayDate(r) = dayDate(v)
  BY <1>2, MovedIs
<1>4. r[hours] = v[hours] /\ r[seconds] = sf
  <2>1. r[hours] = v[hours] BY MovedIs, NodesAre
  <2>2. r[seconds] = Least(c, seconds) BY MovedIs, NodesAre
  <2>3. QED BY <1>2, <2>1, <2>2
<1>5. ValueOf(r) = Instant(dayDate(v), v[hours], x, sf) BY <1>2, <1>3, <1>4 DEF ValueOf
<1>6. /\ sf \in NodeSet(c, seconds) /\ 0 <= sf /\ sf <= 59 /\ (\A y \in NodeSet(c, seconds) : sf <= y)
      /\ 0 <= x /\ x <= 59
  BY <1>2, <1>3, TimeNodes
<1>7. Suits(c, dayDate(v), v[hours], x, sf) BY <1>1, <1>3, <1>6 DEF Suits, Reading
<1>8. Earlier(dayDate(v), v[hours], v[minutes], v[seconds], dayDate(v), v[hours], x, sf)
  BY <1>3 DEF Earlier, EarlierTime
<1>9. ASSUME NEW d, NEW h, NEW m, NEW s, Suits(c, d, h, m, s)
      PROVE  \/ ~Earlier(dayDate(v), v[hours], v[minutes], v[seconds], d, h, m, s)
             \/ ~Earlier(d, h, m, s, dayDate(v), v[hours], x, sf)
  <2>1. /\ d \in Int /\ h \in Int /\ m \in Int /\ s \in Int
        /\ m \in NodeSet(c, minutes) /\ sf <= s
    BY <1>6, <1>9 DEF Suits, Reading
  <2>2. CASE d = dayDate(v) /\ h = v[hours] /\ m = v[minutes] BY <1>1, <1>9, <2>2 DEF Earlier
  <2>3. CASE d = dayDate(v) /\ h = v[hours] /\ m # v[minutes]
    <3>1. m < v[minutes] \/ m >= x BY <1>1, <1>3, <2>1, <2>3
    <3>2. QED BY <1>1, <2>1, <2>3, <3>1 DEF Earlier, EarlierTime
  <2>4. CASE d # dayDate(v) \/ h # v[hours] BY <1>1, <2>1, <2>4 DEF Earlier, EarlierTime
  <2>5. QED BY <2>2, <2>3, <2>4
<1>10. QED BY <1>5, <1>7, <1>8, <1>9, NextOfIs

\* A later second of the same minute.
LEMMA NextBySecond ==
    ASSUME NEW c, Plain(c), NEW v, Wall(v), OnDayOf(c, dayDate(v)),
           v[hours] \in NodeSet(c, hours), v[minutes] \in NodeSet(c, minutes),
           ~Overflows(c, v, seconds), NEW r, MovedAt(c, v, seconds, r)
    PROVE  IsNextOf(c, v, r)
<1>1. /\ Reading(dayDate(v), v[hours], v[minutes], v[seconds])
      /\ dayDate(v) \in Int /\ v[hours] \in Int /\ v[minutes] \in Int /\ v[seconds] \in Int
  BY WallIs DEF Reading
<1>2. PICK x \in Int : x = r[seconds] BY MovedIs
<1>3. /\ x \in NodeSet(c, seconds) /\ v[seconds] < x
      /\ \A y \in NodeSet(c, seconds) : v[seconds] < y => x <= y
      /\ dayDate(r) = dayDate(v)
  BY <1>2, MovedIs
<1>4. r[hours] = v[hours] /\ r[minutes] = v[minutes]
  <2>1. r[hours] = v[hours] BY MovedIs, NodesAre
  <2>2. r[minutes] = v[minutes] BY MovedIs, NodesAre
  <2>3. QED BY <2>1, <2>2
<1>5. ValueOf(r) = Instant(dayDate(v), v[hours], v[minutes], x) BY <1>2, <1>3, <1>4 DEF ValueOf
<1>6. 0 <= x /\ x <= 59 BY <1>3, TimeNodes
<1>7. Suits(c, dayDate(v), v[hours], v[minutes], x) BY <1>1, <1>3, <1>6 DEF Suits, Reading
<1>8. Earlier(dayDate(v), v[hours], v[minutes], v[seconds], dayDate(v), v[hours], v[minutes], x)
  BY <1>3 DEF Earlier, EarlierTime
<1>9. ASSUME NEW d, NEW h, NEW m, NEW s, Suits(c, d, h, m, s)
      PROVE  \/ ~Earlier(dayDate(v), v[hours], v[minutes], v[seconds], d, h, m, s)
             \/ ~Earlier(d, h, m, s, dayDate(v), v[hours], v[minutes], x)
  <2>1. /\ d \in Int /\ h \in Int /\ m \in Int /\ s \in Int /\ s \in NodeSet(c, seconds)
    BY <1>9 DEF Suits, Reading
  <2>2. s <= v[seconds] \/ x <= s BY <1>1, <1>3, <2>1
  <2>3. QED BY <1>1, <2>1, <2>2 DEF Earlier, EarlierTime
<1>10. QED BY <1>5, <1>7, <1>8, <1>9, NextOfIs

\* Whichever part of the date is moved.
LEMMA OverflowMeans ==
    ASSUME NEW c, Plain(c), NEW v, Wall(v), NEW i \in {seconds, minutes, hours}, Overflows(c, v, i)
    PROVE  \A y \in NodeSet(c, i) : y <= v[i]
<1>1. i \in Nodes /\ v \in Values BY NodesAre DEF Wall, Dated
<1>2. QED BY <1>1, NextValueIs

\* What findForward does is to stop at the next reading that suits: it suits, it is
\* later than where the machine starts, and no other that suits is between.
LEMMA OutcomeIsNext ==
    ASSUME NEW c, Plain(c), NEW v, Wall(v), NEW r, Outcome(c, v, r)
    PROVE  IsNextOf(c, v, r)
<1> DEFINE After(h, m, s) == EarlierTime(v[hours], v[minutes], v[seconds], h, m, s)
<1>1. v[hours] \in Int /\ v[minutes] \in Int /\ v[seconds] \in Int BY WallIs DEF Reading
<1>2. ASSUME NEW h, NEW m, NEW s, Suits(c, dayDate(v), h, m, s)
      PROVE  /\ h \in Int /\ m \in Int /\ s \in Int /\ OnDayOf(c, dayDate(v))
             /\ h \in NodeSet(c, hours) /\ m \in NodeSet(c, minutes) /\ s \in NodeSet(c, seconds)
  BY <1>2 DEF Suits, Reading
<1>3. CASE ~OnDayOf(c, dayDate(v)) /\ NewDay(c, v, r) BY <1>2, <1>3, NextByDay
<1>4. ASSUME OnDayOf(c, dayDate(v)), LaterHour(c, v, r),
             \A h, m, s : Suits(c, dayDate(v), h, m, s) /\ h = v[hours] => ~After(h, m, s)
      PROVE  IsNextOf(c, v, r)
  <2>1. CASE Overflows(c, v, hours)
    <3>1. NewDay(c, v, r) BY <1>4, <2>1 DEF LaterHour
    <3>2. ASSUME NEW h, NEW m, NEW s, Suits(c, dayDate(v), h, m, s) PROVE ~After(h, m, s)
      <4>1. h <= v[hours] BY <1>2, <2>1, <3>2, OverflowMeans
      <4>2. CASE h = v[hours] BY <1>4, <3>2, <4>2
      <4>3. CASE h < v[hours] BY <1>1, <1>2, <3>2, <4>3 DEF EarlierTime
      <4>4. QED BY <1>1, <1>2, <3>2, <4>1, <4>2, <4>3
    <3>3. QED BY <3>1, <3>2, NextByDay
  <2>2. CASE ~Overflows(c, v, hours)
    <3>1. MovedAt(c, v, hours, r) BY <1>4, <2>2 DEF LaterHour
    <3>2. QED BY <1>4, <2>2, <3>1, NextByHour
  <2>3. QED BY <2>1, <2>2
<1>5. CASE OnDayOf(c, dayDate(v)) /\ v[hours] \notin NodeSet(c, hours) /\ LaterHour(c, v, r)
  BY <1>2, <1>4, <1>5
<1>6. ASSUME OnDayOf(c, dayDate(v)), v[hours] \in NodeSet(c, hours), LaterMinute(c, v, r),
             \A h, m, s : Suits(c, dayDate(v), h, m, s) /\ h = v[hours] /\ m = v[minutes]
                             => ~After(h, m, s)
      PROVE  IsNextOf(c, v, r)
  <2>1. CASE Overflows(c, v, minutes)
    <3>1. LaterHour(c, v, r) BY <1>6, <2>1 DEF LaterMinute
    <3>2. ASSUME NEW h, NEW m, NEW s, Suits(c, dayDate(v), h, m, s), h = v[hours]
          PROVE ~After(h, m, s)
      <4>1. m <= v[minutes] BY <1>2, <2>1, <3>2, OverflowMeans
      <4>2. CASE m = v[minutes] BY <1>6, <3>2, <4>2
      <4>3. CASE m < v[minutes] BY <1>1, <1>2, <3>2, <4>3 DEF EarlierTime
      <4>4. QED BY <1>1, <1>2, <3>2, <4>1, <4>2, <4>3
    <3>3. QED BY <1>4, <1>6, <3>1, <3>2
  <2>2. CASE ~Overflows(c, v, minutes)
    <3>1. MovedAt(c, v, minutes, r) BY <1>6, <2>2 DEF LaterMinute
    <3>2. QED BY <1>6, <2>2, <3>1, NextByMinute
  <2>3. QED BY <2>1, <2>2
<1>7. CASE /\ OnDayOf(c, dayDate(v)) /\ v[hours] \in NodeSet(c, hours)
           /\ v[minutes] \notin NodeSet(c, minutes) /\ LaterMinute(c, v, r)
  BY <1>2, <1>6, <1>7
<1>8. CASE /\ OnDayOf(c, dayDate(v)) /\ v[hours] \in NodeSet(c, hours)
           /\ v[minutes] \in NodeSet(c, minutes) /\ LaterSecond(c, v, r)
  <2>1. CASE Overflows(c, v, seconds)
    <3>1. LaterMinute(c, v, r) BY <1>8, <2>1 DEF LaterSecond
    <3>2. ASSUME NEW h, NEW m, NEW s, Suits(c, dayDate(v), h, m, s), h = v[hours], m = v[minutes]
          PROVE ~After(h, m, s)
      <4>1. s <= v[seconds] BY <1>2, <2>1, <3>2, OverflowMeans
      <4>2. QED BY <1>1, <1>2, <3>2, <4>1 DEF EarlierTime
    <3>3. QED BY <1>6, <1>8, <3>1, <3>2
  <2>2. CASE ~Overflows(c, v, seconds)
    <3>1. MovedAt(c, v, seconds, r) BY <1>8, <2>2 DEF LaterSecond
    <3>2. QED BY <1>8, <2>2, <3>1, NextBySecond
  <2>3. QED BY <2>1, <2>2
<1>9. QED BY <1>3, <1>5, <1>7, <1>8 DEF Outcome

=============================================================================
