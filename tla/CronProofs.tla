----------------------------- MODULE CronProofs ------------------------------
(***************************************************************************)
(* Theorems about CronTrigger: which expressions it accepts, which values  *)
(* the parser gives the fields, and at which times it fires.               *)
(***************************************************************************)
EXTENDS CronTrigger, CronMachineProofs

-----------------------------------------------------------------------------
(***************************************************************************)
(* What the parser takes, by the bounds that buildCronField gives it.      *)
(***************************************************************************)
Bound == << <<0, 59>>, <<0, 59>>, <<0, 23>>, <<1, 31>>, <<1, 12>>, <<1, 7>>, <<1970, 3940>> >>

InBound(lit, i) ==
    /\ lit[1] = "name" => lit[2] \in DOMAIN Names(i)
    /\ normalize(lit, Names(i)) \in Bound[i][1]..Bound[i][2]

SpanInBound(t, i) ==
    CASE t.is = "value" -> InBound(t.lit, i)
      [] t.is = "range" -> /\ InBound(t.from, i) /\ InBound(t.to, i)
                           /\ \E v \in Bound[i][1]..Bound[i][2] : Selects(t, i, v)
      [] OTHER -> FALSE

ItemInBound(t, i) ==
    IF t.is = "step"
    THEN (t.of.is = "any" \/ SpanInBound(t.of, i)) /\ t.by \in 1..Bound[i][2]
    ELSE SpanInBound(t, i)

\* A plain value in a list only has to be known.
ItemTaken(t, i) == ItemInBound(t, i) \/ (t.is = "value" /\ Known(t.lit, Names(i)))

TokenInBound(t, i) ==
    CASE t.is \in Unset -> TRUE
      [] t.is = "list" -> \A item \in ToSet(t.items) : ItemInBound(item, i)
      [] t.is = "last" -> i \in {4, 6}
      [] t.is = "lastMinus" -> i = 4 /\ t.n \in 1..31
      [] t.is = "weekday" -> i = 4 /\ t.day \in 1..31
      [] t.is = "lastWeekday" -> i = 4
      [] t.is = "lastOf" -> i = 6 /\ InBound(t.day, i)
      [] t.is = "nth" -> i = 6 /\ InBound(t.day, i) /\ t.n \in 1..5
      [] OTHER -> ItemInBound(t, i)

Taken(t, i) ==
    IF t.is = "list" THEN \A item \in ToSet(t.items) : ItemTaken(item, i)
                     ELSE TokenInBound(t, i)

WithinBounds(e) ==
    LET t == WithYear(Tokens(e))
    IN  /\ Len(t) = 7
        /\ OneDayField(t)
        /\ \A i \in 1..7 : TokenInBound(t[i], i)

-----------------------------------------------------------------------------
(* Literals.                                                               *)

LEMMA Bounds ==
    ASSUME NEW i \in 1..7
    PROVE  /\ Bound[i][1] \in Nat /\ Bound[i][2] \in Nat /\ Bound[i][1] <= Bound[i][2]
           /\ Bound[i] = <<Bound[i][1], Bound[i][2]>>
           /\ Bound[i][1] = Lowest[i] /\ Bound[i][2] = Largest[i]
BY DEF Bound, Lowest, Largest

\* A name stands for a number.
LEMMA NameValues ==
    ASSUME NEW i \in 1..7, NEW x \in DOMAIN Names(i)
    PROVE  Names(i)[x] \in Int
<1>1. \A y \in DOMAIN monthNames : monthNames[y] \in Int BY DEF monthNames
<1>2. \A y \in DOMAIN dayNames : dayNames[y] \in Int BY DEF dayNames
<1>3. DOMAIN noNames = {} BY DEF noNames
<1>4. QED BY <1>1, <1>2, <1>3 DEF Names

LEMMA KnownIsInt ==
    ASSUME NEW i \in 1..7, NEW lit \in Literals, Known(lit, Names(i))
    PROVE  normalize(lit, Names(i)) \in Int
<1>1. CASE lit \in {"num"} \X Int BY <1>1 DEF normalize
<1>2. CASE lit \in {"name"} \X STRING
  <2>1. lit[1] = "name" /\ lit[2] \in DOMAIN Names(i) BY <1>2 DEF Known
  <2>2. QED BY <2>1, NameValues DEF normalize
<1>3. QED BY <1>1, <1>2 DEF Literals

\* The parser takes a literal exactly if it is proper.
LEMMA GivenIsInBound ==
    ASSUME NEW i \in 1..7, NEW lit \in Literals
    PROVE  /\ Given(lit, Bound[i], Names(i)) <=> InBound(lit, i)
           /\ InBound(lit, i) => /\ normalize(lit, Names(i)) \in Int
                                /\ Bound[i][1] <= normalize(lit, Names(i))
                                /\ normalize(lit, Names(i)) <= Bound[i][2]
<1>1. lit[1] = "num" \/ lit[1] = "name" BY DEF Literals
<1>2. Known(lit, Names(i)) <=> (lit[1] = "name" => lit[2] \in DOMAIN Names(i))
  BY <1>1 DEF Known
<1>3. Bound[i][1] \in Int /\ Bound[i][2] \in Int BY Bounds
<1>4. CASE Known(lit, Names(i))
  <2>1. PICK n : n = normalize(lit, Names(i)) OBVIOUS
  <2>2. n \in Int BY <1>4, <2>1, KnownIsInt
  <2>3. n \in Bound[i][1]..Bound[i][2] <=> inScope(n, Bound[i])
    BY <1>3, <2>2 DEF inScope
  <2>4. QED BY <1>2, <1>3, <1>4, <2>1, <2>2, <2>3 DEF Given, InBound
<1>5. CASE ~Known(lit, Names(i)) BY <1>2, <1>5 DEF Given, InBound
<1>6. QED BY <1>4, <1>5

-----------------------------------------------------------------------------
(* Ranges and steps.                                                       *)

InField(i) == Bound[i][1]..Bound[i][2]

\* A field that the parser takes selects, of the values of its bounds, those
\* that the token names.
Means(f, t, i) == f.ok => f.values = {v \in InField(i) : SelectsItem(t, i, v)}

LEMMA FieldIsOk ==
    ASSUME NEW vs, NEW n
    PROVE  Field(vs, n).ok
BY DEF Field

LEMMA FieldIfIs ==
    ASSUME NEW a \in BOOLEAN, NEW vs, NEW n
    PROVE  /\ FieldIf(a, Field(vs, n)).ok <=> a
           /\ a => FieldIf(a, Field(vs, n)).values = vs
           /\ Field(vs, n).ok /\ Field(vs, n).values = vs
           /\ ~ParseError.ok
BY DEF FieldIf, Field, ParseError

\* The remainder of a division is zero exactly for multiples.
LEMMA Multiples ==
    ASSUME NEW x \in Nat, NEW d \in Nat, d > 0
    PROVE  x % d = 0 <=> \E k \in 0..x : x = k * d
<1>1. ASSUME x % d = 0 PROVE \E k \in 0..x : x = k * d
  <2>1. x = d * (x \div d) /\ x \div d \in Int BY <1>1
  <2>2. PICK k \in Int : x = d * k BY <2>1
  <2>3. k >= 0 /\ k <= x /\ x = k * d BY <2>2
  <2>4. QED BY <2>3
<1>2. ASSUME NEW k \in 0..x, x = k * d PROVE x % d = 0
  BY <1>2
<1>3. QED BY <1>1, <1>2

LEMMA StepValues ==
    ASSUME NEW from \in Int, NEW to \in Int, NEW step \in Int, step > 0
    PROVE  fillStepValues(from, step, to) =
               {v \in from..to : \E k \in 0..(v - from) : v = from + k * step}
<1>1. ASSUME NEW v \in from..to
      PROVE  (v - from) % step = 0 <=> \E k \in 0..(v - from) : v = from + k * step
  <2>1. v - from \in Nat /\ step \in Nat OBVIOUS
  <2>2. (v - from) % step = 0 <=> \E k \in 0..(v - from) : v - from = k * step
    BY <2>1, Multiples
  <2>3. \A k \in 0..(v - from) : v - from = k * step <=> v = from + k * step
    <3>1. ASSUME NEW k \in Int PROVE v - from = k * step <=> v = from + k * step
      <4>1. PICK p \in Int : p = k * step OBVIOUS
      <4>2. v - from = p <=> v = from + p OBVIOUS
      <4>3. QED BY <4>1, <4>2
    <3>2. QED BY <3>1
  <2>4. QED BY <2>2, <2>3
<1>2. QED BY <1>1 DEF fillStepValues

LEMMA RangeField ==
    ASSUME NEW i \in 1..7, NEW t, t.is = "range", IsSpan(t)
    PROVE  /\ parseRangeField(t, Bound[i], Names(i)).ok <=> SpanInBound(t, i)
           /\ Means(parseRangeField(t, Bound[i], Names(i)), t, i)
<1> DEFINE names == Names(i)
           from == normalize(t.from, names)
           to == normalize(t.to, names)
           upwards == Given(t.from, Bound[i], names) /\ Given(t.to, Bound[i], names)
                         /\ from <= to
<1>1. t.from \in Literals /\ t.to \in Literals BY DEF IsSpan
<1>2. parseRangeField(t, Bound[i], names) = FieldIf(upwards, Field(from..to, 0))
  BY DEF parseRangeField, fillRangeValues
<1>3. /\ Given(t.from, Bound[i], names) <=> InBound(t.from, i)
      /\ Given(t.to, Bound[i], names) <=> InBound(t.to, i)
      /\ InBound(t.from, i) => from \in Int /\ Bound[i][1] <= from /\ from <= Bound[i][2]
      /\ InBound(t.to, i) => to \in Int /\ Bound[i][1] <= to /\ to <= Bound[i][2]
  BY <1>1, GivenIsInBound
<1>4. Bound[i][1] \in Int /\ Bound[i][2] \in Int BY Bounds
<1>5. \A v : SelectsItem(t, i, v) <=> from <= v /\ v <= to BY DEF SelectsItem, Unset
<1>6. \A v : Selects(t, i, v) <=> from <= v /\ v <= to BY <1>5 DEF Selects
<1>7. SpanInBound(t, i) <=>
         /\ InBound(t.from, i) /\ InBound(t.to, i)
         /\ \E v \in Bound[i][1]..Bound[i][2] : from <= v /\ v <= to
  BY <1>6 DEF SpanInBound
<1> HIDE DEF names, from, to
<1>8. upwards <=> SpanInBound(t, i)
  <2>1. CASE InBound(t.from, i) /\ InBound(t.to, i)
    <3>1. /\ from \in Int /\ Bound[i][1] <= from /\ from <= Bound[i][2]
          /\ to \in Int /\ Bound[i][1] <= to /\ to <= Bound[i][2]
      BY <1>3, <2>1
    <3>2. from <= to <=> \E v \in Bound[i][1]..Bound[i][2] : from <= v /\ v <= to
      BY <1>4, <3>1
    <3>3. QED BY <1>3, <1>7, <2>1, <3>2
  <2>2. CASE ~(InBound(t.from, i) /\ InBound(t.to, i)) BY <1>3, <1>7, <2>2
  <2>3. QED BY <2>1, <2>2
<1>9. upwards => from..to = {v \in InField(i) : SelectsItem(t, i, v)}
  <2> HAVE upwards
  <2>1. /\ from \in Int /\ Bound[i][1] <= from /\ to \in Int /\ to <= Bound[i][2]
    BY <1>3
  <2>2. QED BY <1>4, <1>5, <2>1 DEF InField
<1> HIDE DEF upwards
<1>10. upwards \in BOOLEAN BY DEF upwards
<1>11. PICK f : f = parseRangeField(t, Bound[i], Names(i)) OBVIOUS
<1>12. f = FieldIf(upwards, Field(from..to, 0)) BY <1>2, <1>11 DEF names
<1>13. (f.ok <=> upwards) /\ (upwards => f.values = from..to) BY <1>10, <1>12, FieldIfIs
<1>14. f.ok <=> SpanInBound(t, i) BY <1>8, <1>13
<1>15. Means(f, t, i) BY <1>9, <1>13 DEF Means
<1>16. QED BY <1>11, <1>14, <1>15

LEMMA ValueIs ==
    ASSUME NEW i \in 1..7, NEW t, t.is = "value", IsSpan(t), InBound(t.lit, i)
    PROVE  {normalize(t.lit, Names(i))} = {v \in InField(i) : SelectsItem(t, i, v)}
<1>1. PICK n : n = normalize(t.lit, Names(i)) OBVIOUS
<1>2. n \in Int /\ Bound[i][1] <= n /\ n <= Bound[i][2]
  BY <1>1, GivenIsInBound DEF IsSpan
<1>3. n \in InField(i) BY <1>2, Bounds DEF InField
<1>4. \A v : SelectsItem(t, i, v) <=> v = n BY <1>1 DEF SelectsItem, Unset
<1>5. {n} = {v \in InField(i) : SelectsItem(t, i, v)} BY <1>3, <1>4
<1>6. QED BY <1>1, <1>5

LEMMA StepField ==
    ASSUME NEW i \in 1..7, NEW t, t.is = "step", IsItem(t)
    PROVE  /\ parseStepField(t, Bound[i], Names(i)).ok <=> ItemInBound(t, i)
           /\ Means(parseStepField(t, Bound[i], Names(i)), t, i)
<1> DEFINE names == Names(i)
           lo == StepFrom(t.of, Bound[i])
           hi == StepTo(t.of, Bound[i])
           accepted == /\ Given(lo, Bound[i], names) /\ Given(hi, Bound[i], names)
                       /\ inScope(t.by, <<1, Bound[i][2]>>)
                       /\ normalize(lo, names) <= normalize(hi, names)
<1>0. /\ t.of.is \in {"any", "none", "value", "range"} /\ IsSpan(t.of) /\ t.by \in Int
      /\ Bound[i][1] \in Nat /\ Bound[i][2] \in Nat /\ Bound[i][1] <= Bound[i][2]
      /\ Bound[i][1] = Lowest[i]
  BY Bounds DEF IsItem, Unset
<1>1. PICK from : from = normalize(lo, names) OBVIOUS
<1>2. PICK to : to = normalize(hi, names) OBVIOUS
<1>3. parseStepField(t, Bound[i], names)
         = FieldIf(accepted, Field(fillStepValues(from, t.by, to), 0))
  BY <1>1, <1>2 DEF parseStepField
<1>4. inScope(t.by, <<1, Bound[i][2]>>) <=> t.by \in 1..Bound[i][2]
  BY <1>0 DEF inScope
\* Between which literals the step moves.
<1>5. /\ t.of.is = "any" => lo = <<"num", Bound[i][1]>>
      /\ t.of.is = "none" => lo = <<"name", "?">>
      /\ t.of.is = "value" => lo = t.of.lit
      /\ t.of.is = "range" => lo = t.of.from /\ hi = t.of.to
      /\ t.of.is # "range" => hi = <<"num", Bound[i][2]>>
      /\ t.of.is # "none" => lo \in Literals
      /\ hi \in Literals
  <2>1. /\ t.of.is = "any" => lo = <<"num", Bound[i][1]>>
        /\ t.of.is = "none" => lo = <<"name", "?">>
        /\ t.of.is = "value" => lo = t.of.lit
        /\ t.of.is = "range" => lo = t.of.from /\ hi = t.of.to
        /\ t.of.is # "range" => hi = <<"num", Bound[i][2]>>
    BY DEF StepFrom, StepTo
  <2>2. /\ <<"num", Bound[i][1]>> \in Literals /\ <<"num", Bound[i][2]>> \in Literals
    BY <1>0 DEF Literals
  <2>3. /\ t.of.is = "value" => t.of.lit \in Literals
        /\ t.of.is = "range" => t.of.from \in Literals /\ t.of.to \in Literals
    BY <1>0 DEF IsSpan
  <2> HIDE DEF lo, hi
  <2>4. QED BY <1>0, <2>1, <2>2, <2>3
<1>6. /\ t.of.is = "any" => from = Bound[i][1] /\ InBound(lo, i)
      /\ t.of.is # "range" => to = Bound[i][2] /\ InBound(hi, i)
  <2>1. ASSUME NEW n \in InField(i) PROVE normalize(<<"num", n>>, names) = n /\ InBound(<<"num", n>>, i)
    BY DEF normalize, InBound, InField
  <2>2. Bound[i][1] \in InField(i) /\ Bound[i][2] \in InField(i) BY <1>0 DEF InField
  <2>3. QED BY <1>0, <1>1, <1>2, <1>5, <2>1, <2>2
<1>7. /\ Given(lo, Bound[i], names) <=> InBound(lo, i)
      /\ Given(hi, Bound[i], names) <=> InBound(hi, i)
      /\ InBound(lo, i) => from \in Int /\ Bound[i][1] <= from /\ from <= Bound[i][2]
      /\ InBound(hi, i) => to \in Int /\ Bound[i][1] <= to /\ to <= Bound[i][2]
  <2>1. CASE t.of.is # "none" BY <1>1, <1>2, <1>5, <2>1, GivenIsInBound
  <2>2. CASE t.of.is = "none"
    <3>1. "?" \notin DOMAIN Names(i) BY DEF Names, monthNames, dayNames, noNames
    <3>2. ~InBound(lo, i) /\ ~Given(lo, Bound[i], names)
      BY <1>5, <2>2, <3>1 DEF InBound, Given, Known
    <3>3. QED BY <1>2, <1>5, <3>2, GivenIsInBound
  <2>3. QED BY <2>1, <2>2
<1>8. accepted <=> InBound(lo, i) /\ InBound(hi, i) /\ t.by \in 1..Bound[i][2] /\ from <= to
  BY <1>1, <1>2, <1>4, <1>7
<1>9. t.of.is = "any" \/ SpanInBound(t.of, i) <=> InBound(lo, i) /\ InBound(hi, i) /\ from <= to
  <2>1. CASE t.of.is = "any" BY <1>0, <1>6, <2>1
  <2>2. CASE t.of.is = "value"
    <3>1. SpanInBound(t.of, i) <=> InBound(lo, i) BY <1>5, <2>2 DEF SpanInBound
    <3>2. InBound(hi, i) /\ to = Bound[i][2] BY <1>6, <2>2
    <3>3. QED BY <1>7, <2>2, <3>1, <3>2
  <2>3. CASE t.of.is = "range"
    <3>1. \A v : Selects(t.of, i, v) <=> from <= v /\ v <= to
      BY <1>1, <1>2, <1>5, <2>3 DEF Selects, SelectsItem, Unset
    <3>2. SpanInBound(t.of, i) <=>
             /\ InBound(lo, i) /\ InBound(hi, i)
             /\ \E v \in Bound[i][1]..Bound[i][2] : from <= v /\ v <= to
      BY <1>5, <2>3, <3>1 DEF SpanInBound
    <3>3. CASE InBound(lo, i) /\ InBound(hi, i)
      <4>1. /\ from \in Int /\ Bound[i][1] <= from /\ from <= Bound[i][2]
            /\ to \in Int /\ Bound[i][1] <= to /\ to <= Bound[i][2]
        BY <1>7, <3>3
      <4>2. from <= to <=> \E v \in Bound[i][1]..Bound[i][2] : from <= v /\ v <= to
        BY <1>0, <4>1
      <4>3. QED BY <2>3, <3>2, <3>3, <4>2
    <3>4. CASE ~(InBound(lo, i) /\ InBound(hi, i)) BY <2>3, <3>2, <3>4
    <3>5. QED BY <3>3, <3>4
  <2>4. CASE t.of.is = "none"
    <3>1. ~SpanInBound(t.of, i) BY <2>4 DEF SpanInBound
    <3>2. "?" \notin DOMAIN Names(i) BY DEF Names, monthNames, dayNames, noNames
    <3>3. ~InBound(lo, i) BY <1>5, <2>4, <3>2 DEF InBound
    <3>4. QED BY <2>4, <3>1, <3>3
  <2>5. QED BY <1>0, <2>1, <2>2, <2>3, <2>4
<1>10. ItemInBound(t, i) <=>
          (t.of.is = "any" \/ SpanInBound(t.of, i)) /\ t.by \in 1..Bound[i][2]
  BY DEF ItemInBound
<1>11. ASSUME accepted
       PROVE  fillStepValues(from, t.by, to) = {v \in InField(i) : SelectsItem(t, i, v)}
  <2>1. /\ from \in Int /\ to \in Int /\ Bound[i][1] <= from /\ to <= Bound[i][2]
        /\ t.by > 0
    BY <1>0, <1>7, <1>8, <1>11
  <2>2. \A v : SelectsItem(t, i, v) <=>
                  /\ \E k \in 0..(v - from) : v = from + k * t.by
                  /\ t.of.is = "range" => from <= v /\ v <= to
    <3>1. CASE t.of.is = "any" BY <1>0, <1>6, <3>1 DEF SelectsItem, Unset
    <3>2. CASE t.of.is = "value" BY <1>1, <1>5, <3>2 DEF SelectsItem, Unset
    <3>3. CASE t.of.is = "range" BY <1>1, <1>2, <1>5, <3>3 DEF SelectsItem, Unset
    <3>4. t.of.is # "none" BY <1>8, <1>9, <1>11 DEF SpanInBound
    <3>5. QED BY <1>0, <3>1, <3>2, <3>3, <3>4
  <2>3. ASSUME NEW v \in Int
        PROVE  v \in from..to /\ (\E k \in 0..(v - from) : v = from + k * t.by)
                  <=> v \in InField(i) /\ SelectsItem(t, i, v)
    <3>1. (\E k \in 0..(v - from) : v = from + k * t.by) => from <= v
      BY <2>1
    <3>2. v <= to \/ t.of.is = "range" \/ v \notin InField(i)
      BY <1>0, <1>6, <2>1 DEF InField
    <3>3. v \in from..to => v \in InField(i) BY <1>0, <2>1 DEF InField
    <3>4. v \in from..to <=> from <= v /\ v <= to BY <2>1
    <3>5. QED BY <2>2, <3>1, <3>2, <3>3, <3>4
  <2>4. fillStepValues(from, t.by, to)
           = {v \in from..to : \E k \in 0..(v - from) : v = from + k * t.by}
    BY <1>0, <2>1, StepValues
  <2>5. from..to \subseteq Int /\ InField(i) \subseteq Int BY <1>0 DEF InField
  <2>6. QED BY <2>3, <2>4, <2>5
<1>12. accepted \in BOOLEAN OBVIOUS
<1> HIDE DEF accepted
<1>13. PICK f : f = parseStepField(t, Bound[i], Names(i)) OBVIOUS
<1>14. f = FieldIf(accepted, Field(fillStepValues(from, t.by, to), 0)) BY <1>3, <1>13 DEF names
<1>15. /\ f.ok <=> accepted
       /\ accepted => f.values = fillStepValues(from, t.by, to)
  BY <1>12, <1>14, FieldIfIs
<1>16. f.ok <=> ItemInBound(t, i) BY <1>8, <1>9, <1>10, <1>15
<1>17. Means(f, t, i) BY <1>11, <1>15 DEF Means
<1>18. QED BY <1>13, <1>16, <1>17

-----------------------------------------------------------------------------
(* Lists.                                                                  *)

\* A plain value of a list: the parser takes it if it is known.
LEMMA ListValue ==
    ASSUME NEW i \in 1..7, NEW t, t.is = "value", IsSpan(t)
    PROVE  /\ parseListItem(t, Bound[i], Names(i)).ok <=> Known(t.lit, Names(i))
           /\ ItemInBound(t, i) <=> /\ Known(t.lit, Names(i))
                                       /\ inScope(normalize(t.lit, Names(i)), Bound[i])
           /\ ItemInBound(t, i) => Means(parseListItem(t, Bound[i], Names(i)), t, i)
<1> DEFINE known == Known(t.lit, Names(i))
<1>1. PICK n : n = normalize(t.lit, Names(i)) OBVIOUS
<1>2. parseListItem(t, Bound[i], Names(i)) = FieldIf(known, Field({n}, 0))
  BY <1>1 DEF parseListItem
<1>3. ItemInBound(t, i) <=> InBound(t.lit, i) BY DEF ItemInBound, SpanInBound
<1>4. InBound(t.lit, i) <=> known /\ inScope(normalize(t.lit, Names(i)), Bound[i])
  BY GivenIsInBound DEF IsSpan, Given
<1>5. InBound(t.lit, i) => {n} = {v \in InField(i) : SelectsItem(t, i, v)}
  BY <1>1, ValueIs
<1>6. known \in BOOLEAN BY DEF Known
<1> HIDE DEF known
<1>7. PICK f : f = parseListItem(t, Bound[i], Names(i)) OBVIOUS
<1>8. (f.ok <=> known) /\ (known => f.values = {n}) BY <1>2, <1>6, <1>7, FieldIfIs
<1>9. ItemInBound(t, i) => Means(f, t, i) BY <1>3, <1>4, <1>5, <1>8 DEF Means
<1>10. QED BY <1>3, <1>4, <1>7, <1>8, <1>9 DEF known

LEMMA ListItem ==
    ASSUME NEW i \in 1..7, NEW t, IsItem(t)
    PROVE  /\ ItemInBound(t, i) => /\ parseListItem(t, Bound[i], Names(i)).ok
                                      /\ Means(parseListItem(t, Bound[i], Names(i)), t, i)
           /\ parseListItem(t, Bound[i], Names(i)).ok <=> ItemTaken(t, i)
<1>0. IsSpan(t) BY DEF IsItem
<1>1. CASE t.is = "step"
  BY <1>1, StepField DEF parseListItem, ItemTaken
<1>2. CASE t.is = "range"
  <2>1. ItemInBound(t, i) <=> SpanInBound(t, i) BY <1>2 DEF ItemInBound
  <2>2. parseListItem(t, Bound[i], Names(i)) = parseRangeField(t, Bound[i], Names(i))
    BY <1>2 DEF parseListItem
  <2>3. QED BY <1>0, <1>2, <2>1, <2>2, RangeField DEF ItemTaken
<1>3. CASE t.is = "value" BY <1>0, <1>3, ListValue DEF ItemTaken
<1>4. CASE t.is \notin {"step", "range", "value"}
  <2>1. parseListItem(t, Bound[i], Names(i)) = ParseError BY <1>4 DEF parseListItem
  <2>2. ~ItemInBound(t, i) BY <1>4 DEF ItemInBound, SpanInBound
  <2>3. QED BY <1>4, <2>1, <2>2, FieldIfIs DEF ItemTaken
<1>5. QED BY <1>1, <1>2, <1>3, <1>4

\* What a whole field means: as Means, with the alternatives of a list.
Denotes(f, t, i) == f.values = {v \in InField(i) : Selects(t, i, v)}

LEMMA ListField ==
    ASSUME NEW i \in 1..7, NEW t, t.is = "list", IsToken(t)
    PROVE  /\ TokenInBound(t, i) => /\ parseListField(t, Bound[i], Names(i)).ok
                                  /\ Denotes(parseListField(t, Bound[i], Names(i)), t, i)
           /\ parseListField(t, Bound[i], Names(i)).ok <=> Taken(t, i)
<1> DEFINE parsed(item) == parseListItem(item, Bound[i], Names(i))
           S == ToSet(t.items)
           items == {parsed(item) : item \in S}
           accepted == \A item \in items : item.ok
<1>1. parseListField(t, Bound[i], Names(i))
         = FieldIf(accepted, Field(UNION {item.values : item \in items}, 0))
  BY DEF parseListField
<1>2. TokenInBound(t, i) <=> \A item \in S : ItemInBound(item, i) BY DEF TokenInBound, Unset
<1>3. \A item \in S : IsItem(item) BY DEF IsToken
<1>4. \A item \in S : ItemInBound(item, i) => parsed(item).ok /\ Means(parsed(item), item, i)
  BY <1>3, ListItem
<1>5. \A item \in S : parsed(item).ok <=> ItemTaken(item, i)
  BY <1>3, ListItem
<1> HIDE DEF parsed, S
<1>6. accepted <=> \A item \in S : parsed(item).ok OBVIOUS
<1>7. TokenInBound(t, i) => accepted BY <1>2, <1>4, <1>6
<1>8. accepted <=> Taken(t, i)
  BY <1>5, <1>6 DEF Taken, S
<1>9. TokenInBound(t, i) =>
         UNION {item.values : item \in items} = {v \in InField(i) : Selects(t, i, v)}
  <2> HAVE TokenInBound(t, i)
  <2>1. \A item \in S : parsed(item).values = {v \in InField(i) : SelectsItem(item, i, v)}
    BY <1>2, <1>4 DEF Means
  <2>2. \A v : Selects(t, i, v) <=> \E item \in S : SelectsItem(item, i, v)
    BY DEF Selects, S
  <2>3. \A v : v \in UNION {item.values : item \in items}
                  <=> \E item \in S : v \in parsed(item).values
    OBVIOUS
  <2>4. QED BY <2>1, <2>2, <2>3
<1>10. accepted \in BOOLEAN OBVIOUS
<1>11. PICK u : u = UNION {item.values : item \in items} OBVIOUS
<1> HIDE DEF accepted, items
<1>12. PICK f : f = parseListField(t, Bound[i], Names(i)) OBVIOUS
<1>13. (f.ok <=> accepted) /\ (accepted => f.values = u) BY <1>1, <1>10, <1>11, <1>12, FieldIfIs
<1>14. TokenInBound(t, i) => f.ok /\ Denotes(f, t, i) BY <1>7, <1>9, <1>11, <1>13 DEF Denotes
<1>15. f.ok <=> Taken(t, i) BY <1>8, <1>13
<1>16. QED BY <1>12, <1>14, <1>15

-----------------------------------------------------------------------------
(* The seven fields.                                                       *)

\* The forms that only a day field has.
DayForms == {"last", "lastMinus", "weekday", "lastWeekday", "lastOf", "nth"}

\* What follows for the result f of parsing token t of field i: which tokens
\* are accepted, and that the values of plain tokens are those that it selects.
ParsesAs(f, t, i) ==
    /\ f.ok <=> Taken(t, i)
    /\ TokenInBound(t, i) /\ t.is \notin DayForms \cup Unset => Denotes(f, t, i)

LEMMA PlainField ==
    ASSUME NEW i \in 1..7, NEW t, IsToken(t), t.is \in DayForms => ~TokenInBound(t, i)
    PROVE  ParsesAs(parseField(t, Bound[i], Names(i)), t, i)
<1> DEFINE plain == parseField(t, Bound[i], Names(i))
<1>0. IsItem(t) /\ IsSpan(t) BY DEF IsToken, IsItem
<1>1. CASE t.is \in Unset
  <2>1. Taken(t, i) BY <1>1 DEF TokenInBound, Taken, Unset
  <2>2. plain.ok BY <1>1, FieldIsOk DEF parseField, Unset
  <2>3. QED BY <1>1, <2>1, <2>2 DEF ParsesAs, Taken
<1>2. CASE t.is = "list"
  <2>1. plain = parseListField(t, Bound[i], Names(i)) BY <1>2 DEF parseField, Unset
  <2>2. QED BY <1>2, <2>1, ListField DEF ParsesAs, Taken
<1>3. CASE t.is \in {"step", "range"}
  <2>1. TokenInBound(t, i) <=> ItemInBound(t, i) BY <1>3 DEF TokenInBound, Unset
  <2>2. plain = parseListItem(t, Bound[i], Names(i)) BY <1>3 DEF parseField, parseListItem, Unset
  <2>3. plain.ok <=> ItemInBound(t, i) BY <1>0, <1>3, <2>2, ListItem DEF ItemTaken
  <2>4. ItemInBound(t, i) => Means(plain, t, i) BY <1>0, <2>2, ListItem
  <2>5. \A v : Selects(t, i, v) <=> SelectsItem(t, i, v) BY <1>3 DEF Selects
  <2>6. TokenInBound(t, i) => Denotes(plain, t, i) BY <2>1, <2>3, <2>4, <2>5 DEF Means, Denotes
  <2>7. QED BY <1>3, <2>1, <2>3, <2>6 DEF ParsesAs, Taken
<1>4. CASE t.is = "value"
  <2>1. PICK n : n = normalize(t.lit, Names(i)) OBVIOUS
  <2>2. PICK given : given = Given(t.lit, Bound[i], Names(i)) OBVIOUS
  <2>3. plain = FieldIf(given, Field({n}, 0)) BY <1>4, <2>1, <2>2 DEF parseField, Unset
  <2>4. given \in BOOLEAN BY <2>2 DEF Given
  <2>5. (plain.ok <=> given) /\ (given => plain.values = {n}) BY <2>3, <2>4, FieldIfIs
  <2>6. TokenInBound(t, i) <=> InBound(t.lit, i)
    BY <1>4 DEF TokenInBound, ItemInBound, SpanInBound, Unset
  <2>7. given <=> InBound(t.lit, i) BY <1>0, <1>4, <2>2, GivenIsInBound DEF IsSpan
  <2>8. \A v : Selects(t, i, v) <=> SelectsItem(t, i, v) BY <1>4 DEF Selects
  <2>9. InBound(t.lit, i) => {n} = {v \in InField(i) : SelectsItem(t, i, v)}
    BY <1>0, <1>4, <2>1, ValueIs
  <2>10. TokenInBound(t, i) => Denotes(plain, t, i)
    BY <2>5, <2>6, <2>7, <2>8, <2>9 DEF Denotes
  <2>11. QED BY <1>4, <2>5, <2>6, <2>7, <2>10 DEF ParsesAs, Taken
<1>5. CASE t.is \notin {"any", "none", "list", "step", "range", "value"}
  <2>1. plain = ParseError BY <1>5 DEF parseField, Unset
  <2>2. ~TokenInBound(t, i)
    BY <1>5 DEF TokenInBound, ItemInBound, SpanInBound, DayForms, Unset
  <2>3. QED BY <1>5, <2>1, <2>2, FieldIfIs DEF ParsesAs, Taken
<1>6. QED BY <1>1, <1>2, <1>3, <1>4, <1>5 DEF Unset

LEMMA DayOfMonthField ==
    ASSUME NEW t, IsToken(t)
    PROVE  ParsesAs(parseDayOfMonthField(t, Bound[4], Names(4)), t, 4)
<1> DEFINE f == parseDayOfMonthField(t, Bound[4], Names(4))
<1>0. Bound[4][1] = 1 /\ Bound[4][2] = 31 BY DEF Bound
<1>1. CASE t.is = "last"
  <2>1. TokenInBound(t, 4) BY <1>1 DEF TokenInBound, Unset
  <2>2. f.ok BY <1>1, FieldIsOk DEF parseDayOfMonthField
  <2>3. QED BY <1>1, <2>1, <2>2 DEF ParsesAs, DayForms, Taken
<1>2. CASE t.is = "lastWeekday"
  <2>1. TokenInBound(t, 4) BY <1>2 DEF TokenInBound, Unset
  <2>2. f.ok BY <1>2, FieldIsOk DEF parseDayOfMonthField
  <2>3. QED BY <1>2, <2>1, <2>2 DEF ParsesAs, DayForms, Taken
<1>3. CASE t.is = "lastMinus"
  <2>1. PICK in : in = inScope(t.n, Bound[4]) OBVIOUS
  <2>2. f = FieldIf(in, Field({}, -t.n)) BY <1>3, <2>1 DEF parseDayOfMonthField
  <2>3. t.n \in Int BY <1>3 DEF IsToken
  <2>4. TokenInBound(t, 4) <=> in
    <3>1. TokenInBound(t, 4) <=> t.n \in 1..31 BY <1>3 DEF TokenInBound, Unset
    <3>2. in <=> 1 <= t.n /\ t.n <= 31 BY <1>0, <2>1 DEF inScope
    <3>3. QED BY <2>3, <3>1, <3>2
  <2>5. in \in BOOLEAN BY <2>1 DEF inScope
  <2>6. f.ok <=> in BY <2>2, <2>5, FieldIfIs
  <2>7. QED BY <1>3, <2>4, <2>6 DEF ParsesAs, DayForms, Taken
<1>4. CASE t.is = "weekday"
  <2>1. PICK in : in = inScope(t.day, Bound[4]) OBVIOUS
  <2>2. f = FieldIf(in, Field({t.day}, NWeekday)) BY <1>4, <2>1 DEF parseDayOfMonthField
  <2>3. t.day \in Int BY <1>4 DEF IsToken
  <2>4. TokenInBound(t, 4) <=> in
    <3>1. TokenInBound(t, 4) <=> t.day \in 1..31 BY <1>4 DEF TokenInBound, Unset
    <3>2. in <=> 1 <= t.day /\ t.day <= 31 BY <1>0, <2>1 DEF inScope
    <3>3. QED BY <2>3, <3>1, <3>2
  <2>5. in \in BOOLEAN BY <2>1 DEF inScope
  <2>6. f.ok <=> in BY <2>2, <2>5, FieldIfIs
  <2>7. QED BY <1>4, <2>4, <2>6 DEF ParsesAs, DayForms, Taken
<1>5. CASE t.is \notin {"last", "lastWeekday", "lastMinus", "weekday"}
  <2>1. f = parseField(t, Bound[4], Names(4)) BY <1>5 DEF parseDayOfMonthField
  <2>2. t.is \in DayForms => ~TokenInBound(t, 4) BY <1>5 DEF DayForms, TokenInBound, Unset
  <2>3. QED BY <2>1, <2>2, PlainField
<1>6. QED BY <1>1, <1>2, <1>3, <1>4, <1>5

LEMMA DayOfWeekField ==
    ASSUME NEW t, IsToken(t)
    PROVE  ParsesAs(parseDayOfWeekField(t, Bound[6], Names(6)), t, 6)
<1> DEFINE f == parseDayOfWeekField(t, Bound[6], Names(6))
<1>1. CASE t.is = "last"
  <2>1. TokenInBound(t, 6) BY <1>1 DEF TokenInBound, Unset
  <2>2. f.ok BY <1>1, FieldIsOk DEF parseDayOfWeekField
  <2>3. QED BY <1>1, <2>1, <2>2 DEF ParsesAs, DayForms, Taken
<1>2. CASE t.is \in {"lastOf", "nth"}
  <2>1. PICK in : in = (/\ Given(t.day, Bound[6], Names(6))
                        /\ t.is = "nth" => inScope(t.n, <<1, 5>>)) OBVIOUS
  <2>2. PICK field : field.ok /\ f = FieldIf(in, field)
    <3>1. PICK day : day = normalize(t.day, Names(6)) OBVIOUS
    <3>2. Field({day}, -1).ok /\ Field({day}, t.n).ok BY FieldIsOk
    <3>3. PICK given : given = Given(t.day, Bound[6], Names(6)) /\ given \in BOOLEAN
      BY DEF Given
    <3>4. CASE t.is = "lastOf"
      <4>1. f = FieldIf(given, Field({day}, -1)) BY <3>1, <3>3, <3>4 DEF parseDayOfWeekField
      <4>2. in = given BY <2>1, <3>3, <3>4
      <4>3. QED BY <3>2, <4>1, <4>2
    <3>5. CASE t.is = "nth"
      <4>1. f = FieldIf(given /\ inScope(t.n, <<1, 5>>), Field({day}, t.n))
        BY <3>1, <3>3, <3>5 DEF parseDayOfWeekField
      <4>2. in = (given /\ inScope(t.n, <<1, 5>>)) BY <2>1, <3>3, <3>5
      <4>3. QED BY <3>2, <4>1, <4>2
    <3>6. QED BY <1>2, <3>4, <3>5
  <2>3. t.day \in Literals /\ (t.is = "nth" => t.n \in Int) BY <1>2 DEF IsToken
  <2>4. Given(t.day, Bound[6], Names(6)) <=> InBound(t.day, 6) BY <2>3, GivenIsInBound
  <2>5. TokenInBound(t, 6) <=> in BY <1>2, <2>1, <2>3, <2>4 DEF TokenInBound, inScope
  <2>6. in \in BOOLEAN BY <2>1
  <2>7. f.ok <=> in BY <2>2, <2>6 DEF FieldIf, ParseError
  <2>8. QED BY <1>2, <2>5, <2>7 DEF ParsesAs, DayForms, Taken
<1>3. CASE t.is \notin {"last", "lastOf", "nth"}
  <2>1. f = parseField(t, Bound[6], Names(6)) BY <1>3 DEF parseDayOfWeekField
  <2>2. t.is \in DayForms => ~TokenInBound(t, 6) BY <1>3 DEF DayForms, TokenInBound, Unset
  <2>3. QED BY <2>1, <2>2, PlainField
<1>4. QED BY <1>1, <1>2, <1>3

\* Every field that the parser returns is a record of these three.
IsField(f) == \E ok, values, n : f = [ok |-> ok, values |-> values, n |-> n]

LEMMA FieldsAreRecords ==
    ASSUME NEW t, NEW bound, NEW names
    PROVE  IsField(parseDayOfWeekField(t, bound, names))
<1>1. ASSUME NEW a, NEW vs, NEW n PROVE IsField(FieldIf(a, Field(vs, n)))
  BY DEF FieldIf, Field, ParseError, IsField
<1>2. IsField(ParseError) /\ \A vs, n : IsField(Field(vs, n))
  BY DEF Field, ParseError, IsField
<1>3. ASSUME NEW item PROVE IsField(parseRangeField(item, bound, names))
  BY <1>1 DEF parseRangeField
<1>4. ASSUME NEW item PROVE IsField(parseStepField(item, bound, names))
  BY <1>1 DEF parseStepField
<1>5. ASSUME NEW item PROVE IsField(parseListField(item, bound, names))
  BY <1>1 DEF parseListField
<1>6. IsField(parseField(t, bound, names))
  <2>1. CASE t.is = "value" BY <1>1, <2>1 DEF parseField, Unset
  <2>2. CASE t.is # "value"
    BY <1>2, <1>3, <1>4, <1>5, <2>2 DEF parseField, Unset
  <2>3. QED BY <2>1, <2>2
<1>7. CASE t.is = "lastOf" BY <1>1, <1>7 DEF parseDayOfWeekField
<1>8. CASE t.is = "nth" BY <1>1, <1>8 DEF parseDayOfWeekField
<1>9. CASE t.is \notin {"lastOf", "nth"} BY <1>2, <1>6, <1>9 DEF parseDayOfWeekField
<1>10. QED BY <1>7, <1>8, <1>9

\* The numbers of the weekdays are those of the table less one.
LEMMA AddKeeps ==
    ASSUME NEW f, IsField(f), NEW d
    PROVE  add(f, d).ok = f.ok /\ add(f, d).values = {v + d : v \in f.values}
BY DEF add, IsField

LEMMA BuiltFields ==
    ASSUME NEW t, \A i \in 1..7 : IsToken(t[i])
    PROVE  /\ \A i \in 1..7 : buildCronField(t)[i].ok <=> Taken(t[i], i)
           /\ \A i \in (1..7) \ {6} :
                 TokenInBound(t[i], i) /\ t[i].is \notin DayForms \cup Unset
                    => Denotes(buildCronField(t)[i], t[i], i)
           /\ TokenInBound(t[6], 6) /\ t[6].is \notin DayForms \cup Unset
                 => buildCronField(t)[6].values = {v - 1 : v \in {w \in 1..7 : Selects(t[6], 6, w)}}
<1> DEFINE b == buildCronField(t)
<1>1. ASSUME NEW i \in {1, 2, 3, 5, 7} PROVE ParsesAs(b[i], t[i], i)
  <2>1. i \in 1..7 /\ IsToken(t[i]) OBVIOUS
  <2>2. b[i] = parseField(t[i], Bound[i], Names(i)) BY DEF buildCronField, Bound, Names
  <2>3. t[i].is \in DayForms => ~TokenInBound(t[i], i) BY DEF DayForms, TokenInBound, Unset
  <2>4. QED BY <2>1, <2>2, <2>3, PlainField
<1>2. ParsesAs(b[4], t[4], 4)
  <2>1. b[4] = parseDayOfMonthField(t[4], Bound[4], Names(4))
    BY DEF buildCronField, Bound, Names
  <2>2. QED BY <2>1, DayOfMonthField
<1>3. PICK f : f = parseDayOfWeekField(t[6], Bound[6], Names(6)) OBVIOUS
<1>4. b[6] = add(f, -1) BY <1>3 DEF buildCronField, Bound, Names
<1>5. ParsesAs(f, t[6], 6) BY <1>3, DayOfWeekField
<1>6. b[6].ok = f.ok /\ b[6].values = {v + (-1) : v \in f.values}
  BY <1>3, <1>4, FieldsAreRecords, AddKeeps
<1>7. ASSUME TokenInBound(t[6], 6), t[6].is \notin DayForms \cup Unset
      PROVE  b[6].values = {v - 1 : v \in {w \in 1..7 : Selects(t[6], 6, w)}}
  <2>1. f.values = {w \in 1..7 : Selects(t[6], 6, w)}
    BY <1>5, <1>7 DEF ParsesAs, Denotes, InField, Bound
  <2>2. \A v \in f.values : v + (-1) = v - 1 BY <2>1
  <2>3. QED BY <1>6, <2>1, <2>2
<1>8. ASSUME NEW i \in 1..7
      PROVE  /\ b[i].ok <=> Taken(t[i], i)
             /\ TokenInBound(t[i], i) /\ t[i].is \notin DayForms \cup Unset /\ i # 6
                   => Denotes(b[i], t[i], i)
  <2>1. CASE i = 6 BY <1>5, <1>6, <2>1 DEF ParsesAs, Taken
  <2>2. CASE i # 6
    <3>1. ParsesAs(b[i], t[i], i) BY <1>1, <1>2, <2>2
    <3>2. QED BY <2>2, <3>1 DEF ParsesAs, Taken
  <2>3. QED BY <2>1, <2>2
<1> HIDE DEF b
<1>9. /\ \A i \in 1..7 : b[i].ok <=> Taken(t[i], i)
      /\ \A i \in (1..7) \ {6} :
            TokenInBound(t[i], i) /\ t[i].is \notin DayForms \cup Unset
               => Denotes(b[i], t[i], i)
  BY <1>8
<1>10. QED BY <1>7, <1>9 DEF b

\* The expressions that a name stands for are made of tokens.
LEMMA SpecialTokens ==
    ASSUME NEW name \in DOMAIN special
    PROVE  /\ special[name] \in Seq({AnyValue, Num(0), Num(1)}) /\ Len(special[name]) = 6
           /\ \A i \in 1..6 : special[name][i] \in {AnyValue, Num(0), Num(1)}
<1> DEFINE zero == Num(0)
           one == Num(1)
           star == AnyValue
           S == {AnyValue, Num(0), Num(1)}
<1>1. special[name] \in
         { <<zero, zero, zero, one, one, star>>, <<zero, zero, zero, one, star, star>>,
           <<zero, zero, zero, star, star, one>>, <<zero, zero, zero, star, star, star>>,
           <<zero, zero, star, star, star, star>> }
  BY DEF special
<1>2. zero \in S /\ one \in S /\ star \in S OBVIOUS
<1> HIDE DEF zero, one, star, S
<1>3. PICK a, b, c, d, f, g \in S : special[name] = <<a, b, c, d, f, g>> BY <1>1, <1>2
<1>4. /\ <<a, b, c, d, f, g>> \in Seq(S) /\ Len(<<a, b, c, d, f, g>>) = 6
      /\ \A i \in 1..6 : <<a, b, c, d, f, g>>[i] \in S
  OBVIOUS
<1>5. QED BY <1>3, <1>4 DEF S

-----------------------------------------------------------------------------
(* The whole expression.                                                   *)

LEMMA SevenTokens ==
    ASSUME NEW e, IsExpression(e), Len(WithYear(Tokens(e))) = 7
    PROVE  \A i \in 1..7 : IsToken(WithYear(Tokens(e))[i])
<1>1. IsToken(AnyValue) /\ IsToken(Num(0)) /\ IsToken(Num(1))
  BY DEF AnyValue, Num, IsToken, IsItem, IsSpan, Literals
<1>2. CASE e[1].is = "special" /\ e[1].name \in DOMAIN special
  <2>1. PICK name \in DOMAIN special : Tokens(e) = special[name] BY <1>2 DEF Tokens
  <2>2. \A i \in 1..6 : IsToken(special[name][i]) BY <1>1, SpecialTokens
  <2>3. special[name] \in Seq({AnyValue, Num(0), Num(1)}) /\ Len(special[name]) = 6
    BY SpecialTokens
  <2>4. WithYear(Tokens(e)) = Append(special[name], AnyValue) BY <2>1, <2>3 DEF WithYear
  <2>5. \A i \in 1..7 : WithYear(Tokens(e))[i] = IF i = 7 THEN AnyValue ELSE special[name][i]
    BY <2>3, <2>4
  <2>6. \A i \in 1..7 : IsToken(WithYear(Tokens(e))[i]) BY <1>1, <2>2, <2>5
  <2>7. QED BY <2>6
<1>3. CASE ~(e[1].is = "special" /\ e[1].name \in DOMAIN special)
  <2>1. Tokens(e) = e BY <1>3 DEF Tokens
  <2>2. CASE Len(e) = 6
    <3>1. WithYear(Tokens(e)) = Append(e, AnyValue) BY <2>1, <2>2 DEF WithYear
    <3>2. \A i \in 1..7 : WithYear(Tokens(e))[i] = IF i = 7 THEN AnyValue ELSE e[i]
      BY <2>2, <3>1 DEF IsExpression
    <3>3. QED BY <1>1, <2>2, <3>2 DEF IsExpression
  <2>3. CASE Len(e) # 6
    <3>1. WithYear(Tokens(e)) = e /\ Len(e) = 7 BY <2>1, <2>3 DEF WithYear
    <3>2. QED BY <3>1 DEF IsExpression
  <2>4. QED BY <2>2, <2>3
<1>4. QED BY <1>2, <1>3

\* A token within bounds is taken.
LEMMA WithinIsTaken ==
    ASSUME NEW t, NEW i, TokenInBound(t, i)
    PROVE  Taken(t, i)
<1>1. CASE t.is = "list" BY <1>1 DEF TokenInBound, Taken, ItemTaken, Unset
<1>2. CASE t.is # "list" BY <1>2 DEF Taken
<1>3. QED BY <1>1, <1>2

\* Which expressions the parser accepts.
Accepted(e) ==
    LET t == WithYear(Tokens(e))
    IN  Len(t) = 7 /\ OneDayField(t) /\ \A i \in 1..7 : Taken(t[i], i)

LEMMA ParserAccepts ==
    ASSUME NEW e, IsExpression(e)
    PROVE  /\ parseCronExpression(e) # <<>> <=> Accepted(e)
           /\ parseCronExpression(e) # <<>> =>
                 parseCronExpression(e) = buildCronField(WithYear(Tokens(e)))
           /\ WithinBounds(e) => Accepted(e)
<1> DEFINE t == WithYear(Tokens(e))
           b == buildCronField(t)
           accepted == Len(t) = 7 /\ ~DayFieldSetTwice(t) /\ \A i \in 1..7 : b[i].ok
<1>1. b # <<>> BY DEF buildCronField
<1>2. parseCronExpression(e) = IF accepted THEN b ELSE <<>> BY DEF parseCronExpression
<1>3. parseCronExpression(e) # <<>> <=> accepted BY <1>1, <1>2
<1>4. ~DayFieldSetTwice(t) <=> OneDayField(t) BY DEF DayFieldSetTwice, OneDayField
<1>5. WithinBounds(e) => Accepted(e) BY WithinIsTaken DEF WithinBounds, Accepted
<1>6. CASE Len(t) = 7
  <2>1. \A i \in 1..7 : IsToken(t[i]) BY <1>6, SevenTokens
  <2>2. \A i \in 1..7 : b[i].ok <=> Taken(t[i], i) BY <2>1, BuiltFields
  <2>3. accepted <=> Accepted(e) BY <1>4, <2>2 DEF Accepted
  <2>4. QED BY <1>2, <1>3, <1>5, <2>3
<1>7. CASE Len(t) # 7
  <2>1. ~Accepted(e) BY <1>7 DEF Accepted
  <2>2. QED BY <1>2, <1>3, <1>5, <1>7, <2>1
<1>8. QED BY <1>6, <1>7

\* The list of all seconds, which NewCronTrigger gives to a full wildcard
\* expression, makes no error of it.
LEMMA NewFieldsAccept ==
    ASSUME NEW e, IsExpression(e)
    PROVE  newFields(e) # <<>> <=> parseCronExpression(e) # <<>>
<1> DEFINE p == parseCronExpression(e)
           every == [p EXCEPT ![1].values = fillRangeValues(0, 59)]
<1>1. newFields(e) \in {p, every} /\ (p = <<>> => newFields(e) = p) BY DEF newFields
<1>2. ASSUME p # <<>> PROVE every # <<>>
  <2>1. p = buildCronField(WithYear(Tokens(e))) BY <1>2, ParserAccepts
  <2>2. DOMAIN p = 1..7 BY <2>1 DEF buildCronField
  <2>3. DOMAIN every = 1..7 BY <2>2
  <2>4. QED BY <2>3
<1>3. QED BY <1>1, <1>2

\* What the lists of values mean (cronField.values): in an expression within the
\* bounds of the parser, a field of a value, a range, a step or a list has the
\* numbers that it names, and no others; the weekdays are counted from 0.
THEOREM ParsedFieldsMeanWhatTheyName ==
    ASSUME NEW e, IsExpression(e), WithinBounds(e)
    PROVE  LET t == WithYear(Tokens(e))
               Selected(i) == {v \in InField(i) : Selects(t[i], i, v)}
           IN  \A i \in 1..7 :
                  t[i].is \in {"value", "range", "step", "list"} =>
                     parseCronExpression(e)[i].values =
                        IF i = 6 THEN {v - 1 : v \in Selected(i)} ELSE Selected(i)
<1> DEFINE t == WithYear(Tokens(e))
           Selected(i) == {v \in InField(i) : Selects(t[i], i, v)}
<1>1. parseCronExpression(e) = buildCronField(t) BY ParserAccepts
<1>2. Len(t) = 7 /\ \A i \in 1..7 : TokenInBound(t[i], i) BY DEF WithinBounds
<1>3. \A i \in 1..7 : IsToken(t[i]) BY <1>2, SevenTokens
<1>4. \A i \in (1..7) \ {6} :
         TokenInBound(t[i], i) /\ t[i].is \notin DayForms \cup Unset
            => buildCronField(t)[i].values = Selected(i)
  BY <1>3, BuiltFields DEF Denotes
<1>5. TokenInBound(t[6], 6) /\ t[6].is \notin DayForms \cup Unset
         => buildCronField(t)[6].values = {v - 1 : v \in {w \in 1..7 : Selects(t[6], 6, w)}}
  BY <1>3, BuiltFields
<1>6. InField(6) = 1..7 BY DEF InField, Bound
<1>7. \A i \in 1..7 : t[i].is \in {"value", "range", "step", "list"}
                         => t[i].is \notin DayForms \cup Unset
  BY DEF DayForms, Unset
<1> HIDE DEF t
<1>8. \A i \in (1..7) \ {6} : t[i].is \in {"value", "range", "step", "list"}
         => buildCronField(t)[i].values = Selected(i)
  BY <1>2, <1>4, <1>7
<1>9. t[6].is \in {"value", "range", "step", "list"}
         => buildCronField(t)[6].values = {v - 1 : v \in Selected(6)}
  BY <1>2, <1>5, <1>6, <1>7
<1> HIDE DEF Selected
<1>10. \A i \in 1..7 :
          t[i].is \in {"value", "range", "step", "list"} =>
             parseCronExpression(e)[i].values =
                IF i = 6 THEN {v - 1 : v \in Selected(i)} ELSE Selected(i)
  BY <1>1, <1>8, <1>9
<1>11. QED BY <1>10 DEF t, Selected

-----------------------------------------------------------------------------
(* The parser and the readme.                                              *)

\* A literal is within the bounds of the parser if the readme allows it and it
\* is not too late a year.
LEMMA LiteralsAgree ==
    ASSUME NEW i \in 1..7, NEW lit \in Literals
    PROVE  InBound(lit, i) <=> Proper(lit, i) /\ ~Far(lit, i)
<1>1. CASE Known(lit, Names(i))
  <2>1. PICK n : n = normalize(lit, Names(i)) OBVIOUS
  <2>2. n \in Int BY <1>1, <2>1, KnownIsInt
  <2>3. Given(lit, Bound[i], Names(i)) <=> Bound[i][1] <= n /\ n <= Bound[i][2]
    BY <1>1, <2>1 DEF Given, inScope
  <2>4. InBound(lit, i) <=> Bound[i][1] <= n /\ n <= Bound[i][2] BY <2>3, GivenIsInBound
  <2>5. Proper(lit, i) <=> n \in Allowed[i] BY <1>1, <2>1 DEF Proper
  <2>6. Far(lit, i) <=> i = 7 /\ n > 3940 BY <2>1 DEF Far, Names
  <2>7. CASE i = 7
    <3>1. Bound[i][1] = 1970 /\ Bound[i][2] = 3940 BY <2>7 DEF Bound
    <3>2. n \in Allowed[i] <=> 1970 <= n BY <2>2, <2>7, SMT DEF Allowed
    <3>3. QED BY <2>2, <2>4, <2>5, <2>6, <2>7, <3>1, <3>2, SMT
  <2>8. CASE i # 7
    <3>1. n \in Allowed[i] <=> Bound[i][1] <= n /\ n <= Bound[i][2]
      BY <2>2, <2>8, SMT DEF Allowed, Bound
    <3>2. QED BY <2>4, <2>5, <2>6, <2>8, <3>1
  <2>9. QED BY <2>7, <2>8
<1>2. CASE ~Known(lit, Names(i)) BY <1>2, GivenIsInBound DEF Given, Proper
<1>3. QED BY <1>1, <1>2

LEMMA SpansAgree ==
    ASSUME NEW i \in 1..7, NEW t, IsSpan(t)
    PROVE  SpanInBound(t, i) <=> SpanWellFormed(t, i) /\ ~BeyondSpan(t, i)
<1>1. CASE t.is = "value"
  BY <1>1, LiteralsAgree DEF IsSpan, SpanInBound, SpanWellFormed, BeyondSpan
<1>2. CASE t.is = "range"
  <2>1. PICK from, to : from = normalize(t.from, Names(i)) /\ to = normalize(t.to, Names(i))
    OBVIOUS
  <2>2. t.from \in Literals /\ t.to \in Literals BY <1>2 DEF IsSpan
  <2>3. /\ InBound(t.from, i) <=> Proper(t.from, i) /\ ~Far(t.from, i)
        /\ InBound(t.to, i) <=> Proper(t.to, i) /\ ~Far(t.to, i)
    BY <2>2, LiteralsAgree
  <2>4. SpanWellFormed(t, i) <=> Proper(t.from, i) /\ Proper(t.to, i) /\ from <= to
    BY <1>2, <2>1 DEF SpanWellFormed
  <2>5. BeyondSpan(t, i) <=> Far(t.to, i) BY <1>2 DEF BeyondSpan
  <2>6. ASSUME Proper(t.from, i), Proper(t.to, i), from <= to, ~Far(t.to, i)
        PROVE  ~Far(t.from, i)
    <3>1. from \in Int /\ to \in Int BY <2>1, <2>2, <2>6, KnownIsInt DEF Proper
    <3>2. (Far(t.from, i) <=> i = 7 /\ from > 3940) /\ (Far(t.to, i) <=> i = 7 /\ to > 3940)
      BY <2>1 DEF Far, Names
    <3>3. QED BY <2>6, <3>1, <3>2, SMT
  <2>7. \A v : Selects(t, i, v) <=> from <= v /\ v <= to
    BY <1>2, <2>1 DEF Selects, SelectsItem, Unset
  <2>8. SpanInBound(t, i) <=>
           /\ InBound(t.from, i) /\ InBound(t.to, i)
           /\ \E v \in Bound[i][1]..Bound[i][2] : from <= v /\ v <= to
    BY <1>2, <2>7 DEF SpanInBound
  <2>9. ASSUME InBound(t.from, i), InBound(t.to, i)
        PROVE  from <= to <=> \E v \in Bound[i][1]..Bound[i][2] : from <= v /\ v <= to
    <3>1. /\ from \in Int /\ Bound[i][1] <= from /\ from <= Bound[i][2]
          /\ to \in Int /\ Bound[i][1] <= to /\ to <= Bound[i][2]
      BY <2>1, <2>2, <2>9, GivenIsInBound
    <3>2. Bound[i][1] \in Int /\ Bound[i][2] \in Int BY Bounds
    <3>3. QED BY <3>1, <3>2
  <2>10. QED BY <2>3, <2>4, <2>5, <2>6, <2>8, <2>9
<1>3. CASE t.is \notin {"value", "range"} BY <1>3 DEF SpanInBound, SpanWellFormed
<1>4. QED BY <1>1, <1>2, <1>3

LEMMA ItemsAgree ==
    ASSUME NEW i \in 1..7, NEW t, IsItem(t)
    PROVE  ItemInBound(t, i) <=> ItemWellFormed(t, i) /\ ~BeyondItem(t, i)
<1>1. CASE t.is = "step"
  <2>1. IsSpan(t.of) /\ t.by \in Int BY <1>1 DEF IsItem
  <2>2. SpanInBound(t.of, i) <=> SpanWellFormed(t.of, i) /\ ~BeyondSpan(t.of, i)
    BY <2>1, SpansAgree
  <2>3. t.of.is = "any" => ~BeyondSpan(t.of, i) BY DEF BeyondSpan
  <2>4. t.by \in 1..Bound[i][2] <=> t.by \in Nat \ {0} /\ ~(t.by > Largest[i])
    BY <2>1, Bounds
  <2>5. ItemInBound(t, i) <=>
           (t.of.is = "any" \/ SpanInBound(t.of, i)) /\ t.by \in 1..Bound[i][2]
    BY <1>1 DEF ItemInBound
  <2>6. ItemWellFormed(t, i) <=>
           (t.of.is = "any" \/ SpanWellFormed(t.of, i)) /\ t.by \in Nat \ {0}
    BY <1>1 DEF ItemWellFormed
  <2>7. BeyondItem(t, i) <=> t.by > Largest[i] \/ BeyondSpan(t.of, i) BY <1>1 DEF BeyondItem
  <2>8. QED BY <2>2, <2>3, <2>4, <2>5, <2>6, <2>7
<1>2. CASE t.is # "step"
  <2>1. IsSpan(t) BY DEF IsItem
  <2>2. QED BY <1>2, <2>1, SpansAgree DEF ItemInBound, ItemWellFormed, BeyondItem
<1>3. QED BY <1>1, <1>2

\* Which tokens the parser takes, in the words of the readme.
LEMMA TokensAgree ==
    ASSUME NEW i \in 1..7, NEW t, IsToken(t)
    PROVE  Taken(t, i) <=> (WellFormed(t, i) \/ Tolerated(t, i)) /\ ~Beyond(t, i)
<1>1. t.is \notin {"value", "range", "step"} => ~BeyondItem(t, i) BY DEF BeyondItem, BeyondSpan
<1>2. CASE t.is = "any"
  <2>1. Taken(t, i) /\ WellFormed(t, i) BY <1>2 DEF Taken, TokenInBound, WellFormed, Unset
  <2>2. ~Beyond(t, i) BY <1>1, <1>2 DEF Beyond
  <2>3. QED BY <2>1, <2>2
<1>3. CASE t.is = "none"
  <2>1. Taken(t, i) /\ Tolerated(t, i) BY <1>3 DEF Taken, TokenInBound, Tolerated, Unset
  <2>2. ~Beyond(t, i) BY <1>1, <1>3 DEF Beyond
  <2>3. QED BY <2>1, <2>2
<1>4. CASE t.is = "list"
  <2>1. PICK S : S = ToSet(t.items) OBVIOUS
  <2>2. \A item \in S : IsItem(item) BY <1>4, <2>1 DEF IsToken
  <2>3. Taken(t, i) <=> \A item \in S : ItemTaken(item, i) BY <1>4, <2>1 DEF Taken
  <2>4. WellFormed(t, i) <=> \A item \in S : ItemWellFormed(item, i)
    BY <1>4, <2>1 DEF WellFormed
  <2>5. Tolerated(t, i) <=>
           \A item \in S : ItemWellFormed(item, i)
                              \/ (item.is = "value" /\ Known(item.lit, Names(i)))
    BY <1>4, <2>1 DEF Tolerated
  <2>6. Beyond(t, i) <=> \E item \in S : item.is # "value" /\ BeyondItem(item, i)
    BY <1>1, <1>4, <2>1 DEF Beyond
  <2>7. ASSUME NEW item \in S
        PROVE  ItemTaken(item, i) <=>
                  /\ ItemWellFormed(item, i) \/ (item.is = "value" /\ Known(item.lit, Names(i)))
                  /\ ~(item.is # "value" /\ BeyondItem(item, i))
    <3>1. ItemInBound(item, i) <=> ItemWellFormed(item, i) /\ ~BeyondItem(item, i)
      BY <2>2, ItemsAgree
    <3>2. item.is = "value" /\ ItemWellFormed(item, i) => Known(item.lit, Names(i))
      BY DEF ItemWellFormed, SpanWellFormed, Proper
    <3>3. QED BY <3>1, <3>2 DEF ItemTaken
  <2>8. QED BY <2>3, <2>4, <2>5, <2>6, <2>7
<1>5. CASE t.is \in {"value", "range", "step"}
  <2>1. IsItem(t) BY DEF IsToken
  <2>2. Taken(t, i) <=> ItemInBound(t, i) BY <1>5 DEF Taken, TokenInBound, Unset
  <2>3. (WellFormed(t, i) <=> ItemWellFormed(t, i)) /\ ~Tolerated(t, i)
    BY <1>5 DEF WellFormed, Tolerated
  <2>4. Beyond(t, i) <=> BeyondItem(t, i) BY <1>5 DEF Beyond
  <2>5. QED BY <2>1, <2>2, <2>3, <2>4, ItemsAgree
<1>6. CASE t.is \in DayForms
  <2>1. ~Tolerated(t, i) BY <1>6 DEF Tolerated, DayForms
  <2>2. Beyond(t, i) <=> t.is = "nth" /\ t.n > 5 BY <1>1, <1>6 DEF Beyond, DayForms
  <2>3. Taken(t, i) <=> TokenInBound(t, i) BY <1>6 DEF Taken, DayForms
  <2>4. TokenInBound(t, i) <=> WellFormed(t, i) /\ ~(t.is = "nth" /\ t.n > 5)
    <3>1. CASE t.is \in {"last", "lastWeekday"}
      BY <3>1 DEF TokenInBound, WellFormed, Unset
    <3>2. Allowed[4] = 1..31 BY DEF Allowed
    <3>3. CASE t.is = "lastMinus" BY <3>2, <3>3 DEF TokenInBound, WellFormed, Unset
    <3>4. CASE t.is = "weekday" BY <3>2, <3>4 DEF TokenInBound, WellFormed, Unset
    <3>5. CASE t.is \in {"lastOf", "nth"}
      <4>1. t.day \in Literals /\ (t.is = "nth" => t.n \in Int) BY <3>5 DEF IsToken
      <4>2. i = 6 => (InBound(t.day, i) <=> Proper(t.day, i))
        BY <4>1, LiteralsAgree DEF Far
      <4>3. t.is = "nth" => (t.n \in 1..5 <=> t.n \in Nat \ {0} /\ ~(t.n > 5)) BY <4>1
      <4>4. CASE t.is = "lastOf" BY <4>2, <4>4 DEF TokenInBound, WellFormed, Unset
      <4>5. CASE t.is = "nth" BY <4>2, <4>3, <4>5 DEF TokenInBound, WellFormed, Unset
      <4>6. QED BY <3>5, <4>4, <4>5
    <3>6. QED BY <1>6, <3>1, <3>3, <3>4, <3>5 DEF DayForms
  <2>5. QED BY <2>1, <2>2, <2>3, <2>4
<1>7. CASE t.is \notin {"any", "none", "list", "value", "range", "step"} \cup DayForms
  <2>1. ~Taken(t, i)
    BY <1>7 DEF Taken, TokenInBound, ItemInBound, SpanInBound, DayForms, Unset
  <2>2. ~WellFormed(t, i) /\ ~Tolerated(t, i)
    BY <1>7 DEF WellFormed, ItemWellFormed, SpanWellFormed, Tolerated, DayForms
  <2>3. QED BY <2>1, <2>2
<1>8. QED BY <1>2, <1>3, <1>4, <1>5, <1>6, <1>7

-----------------------------------------------------------------------------
(* The trigger.                                                            *)

\* What is known of the expression once NewCronTrigger has returned.
Judged ==
    /\ \E case \in Cases : expression = case.expression
    /\ status = "error" => newFields(expression) = <<>>
    /\ status \in {"armed", "expired"} => newFields(expression) # <<>>
    /\ status \in {"new", "error", "armed", "expired"}

\* NewCronTrigger returns an error for the expressions that the readme does not
\* allow, and for no others, but for the tokens that DepartsFromReadmeOnlySo
\* names: whatever the expressions are.
THEOREM DepartsFromReadmeOnlySoHolds == Spec => []DepartsFromReadmeOnlySo
<1>1. Init => Judged BY DEF Init, Judged
<1>2. Judged /\ [Next]_vars => Judged'
  <2> SUFFICES ASSUME Judged, [Next]_vars PROVE Judged' OBVIOUS
  <2>1. CASE NewCronTrigger
    <3>1. fields' = newFields(expression) /\ expression' = expression BY <2>1 DEF NewCronTrigger
    <3>2. status' = IF fields' = <<>> THEN "error" ELSE "armed" BY <2>1 DEF NewCronTrigger
    <3>3. QED BY <3>1, <3>2 DEF Judged
  <2>2. CASE NextFireTime
    <3>1. /\ expression' = expression
          /\ status = "armed"
          /\ status' \in {status, "expired"}
      BY <2>2 DEF NextFireTime, Asked, FireOnFirst, FireOnSecond, FireAt, Expire
    <3>2. QED BY <3>1 DEF Judged
  <2>3. CASE UNCHANGED vars BY <2>3 DEF Judged, vars
  <2>4. QED BY <2>1, <2>2, <2>3 DEF Next
<1>3. Judged => DepartsFromReadmeOnlySo
  <2> SUFFICES ASSUME Judged PROVE DepartsFromReadmeOnlySo OBVIOUS
  <2>1. IsExpression(expression) BY CasesAssumption DEF Judged
  <2>2. Accepted(expression) <=> newFields(expression) # <<>>
    BY <2>1, ParserAccepts, NewFieldsAccept
  <2>3. ASSUME Len(T) = 7
        PROVE  \A i \in 1..7 : Taken(T[i], i) <=>
                  (WellFormed(T[i], i) \/ Tolerated(T[i], i)) /\ ~Beyond(T[i], i)
    <3>1. \A i \in 1..7 : IsToken(T[i]) BY <2>1, <2>3, SevenTokens DEF T
    <3>2. QED BY <3>1, TokensAgree
  <2>4. Accepted(expression) <=> Len(T) = 7 /\ OneDayField(T) /\ \A i \in 1..7 : Taken(T[i], i)
    BY DEF Accepted, T
  <2>5. Accepted(expression) <=>
           /\ Len(T) = 7
           /\ OneDayField(T)
           /\ \A i \in 1..7 : (WellFormed(T[i], i) \/ Tolerated(T[i], i)) /\ ~Beyond(T[i], i)
    BY <2>3, <2>4
  <2>6. QED BY <2>2, <2>5 DEF Judged, DepartsFromReadmeOnlySo
<1>4. QED BY <1>1, <1>2, <1>3, PTL DEF Spec

-----------------------------------------------------------------------------
(* The fields of a regular expression.                                     *)

\* A value, a range or a step within the bounds names something.
LEMMA ItemNames ==
    ASSUME NEW i \in 1..7, NEW t, IsItem(t), ItemInBound(t, i)
    PROVE  \E v \in InField(i) : SelectsItem(t, i, v)
<1>0. Bound[i][1] \in Int /\ Bound[i][2] \in Int /\ Bound[i][1] <= Bound[i][2] BY Bounds
<1>1. CASE t.is = "value"
  <2>1. InBound(t.lit, i) BY <1>1 DEF ItemInBound, SpanInBound
  <2>2. normalize(t.lit, Names(i)) \in InField(i) BY <2>1 DEF InBound, InField
  <2>3. SelectsItem(t, i, normalize(t.lit, Names(i))) BY <1>1 DEF SelectsItem, Unset
  <2>4. QED BY <2>2, <2>3
<1>2. CASE t.is = "range"
  <2>1. \E v \in InField(i) : Selects(t, i, v)
    BY <1>2 DEF ItemInBound, SpanInBound, InField
  <2>2. \A v : Selects(t, i, v) <=> SelectsItem(t, i, v) BY <1>2 DEF Selects
  <2>3. QED BY <2>1, <2>2
<1>3. CASE t.is = "step"
  <2>1. t.of.is \in {"any", "none", "value", "range"} /\ IsSpan(t.of) /\ t.by \in Int
    BY <1>3 DEF IsItem, Unset
  <2>2. t.of.is = "any" \/ SpanInBound(t.of, i) BY <1>3 DEF ItemInBound
  <2>3. \A x \in Int : \E k \in 0..(x - x) : x = x + k * t.by
    <3>1. ASSUME NEW x \in Int PROVE x = x + 0 * t.by /\ 0 \in 0..(x - x) BY <2>1
    <3>2. QED BY <3>1
  <2>4. CASE t.of.is = "any"
    <3>1. Bound[i][1] \in InField(i) BY <1>0 DEF InField
    <3>2. SelectsItem(t, i, Bound[i][1])
      <4>1. PICK a \in Int : a = Bound[i][1] /\ a = Lowest[i] BY <1>0, Bounds
      <4>2. \E k \in 0..(a - a) : a = a + k * t.by BY <2>3
      <4>3. SelectsItem(t, i, a) BY <1>3, <2>4, <4>1, <4>2 DEF SelectsItem, Unset
      <4>4. QED BY <4>1, <4>3
    <3>3. QED BY <3>1, <3>2
  <2>5. CASE t.of.is = "value"
    <3>1. InBound(t.of.lit, i) BY <2>2, <2>5 DEF SpanInBound
    <3>2. PICK a : a = normalize(t.of.lit, Names(i)) OBVIOUS
    <3>3. a \in InField(i) /\ a \in Int BY <1>0, <3>1, <3>2 DEF InBound, InField
    <3>4. \E k \in 0..(a - a) : a = a + k * t.by BY <2>3, <3>3
    <3>5. SelectsItem(t, i, a) BY <1>3, <2>5, <3>2, <3>4 DEF SelectsItem, Unset
    <3>6. QED BY <3>3, <3>5
  <2>6. CASE t.of.is = "range"
    <3>1. PICK a, b : a = normalize(t.of.from, Names(i)) /\ b = normalize(t.of.to, Names(i))
      OBVIOUS
    <3>2. InBound(t.of.from, i) /\ InBound(t.of.to, i) BY <2>2, <2>6 DEF SpanInBound
    <3>3. a \in InField(i) /\ a \in Int /\ b \in Int
      BY <1>0, <3>1, <3>2 DEF InBound, InField
    <3>4. \E v \in InField(i) : a <= v /\ v <= b
      <4>1. \E v \in InField(i) : Selects(t.of, i, v)
        BY <2>2, <2>6 DEF SpanInBound, InField
      <4>2. \A v : Selects(t.of, i, v) <=> a <= v /\ v <= b
        BY <2>6, <3>1 DEF Selects, SelectsItem, Unset
      <4>3. QED BY <4>1, <4>2
    <3>5. a <= b BY <1>0, <3>3, <3>4 DEF InField
    <3>6. \E k \in 0..(a - a) : a = a + k * t.by BY <2>3, <3>3
    <3>7. SelectsItem(t, i, a) BY <1>3, <2>6, <3>1, <3>3, <3>5, <3>6 DEF SelectsItem, Unset
    <3>8. QED BY <3>3, <3>7
  <2>7. t.of.is # "none" BY <2>2 DEF SpanInBound
  <2>8. QED BY <2>1, <2>4, <2>5, <2>6, <2>7
<1>4. CASE t.is \notin {"value", "range", "step"}
  BY <1>4 DEF ItemInBound, SpanInBound
<1>5. QED BY <1>1, <1>2, <1>3, <1>4

\* The tokens that name values one by one.
Listed == {"value", "range", "step", "list"}

\* A token of the kinds that name values one by one names one at least.
LEMMA ListedNames ==
    ASSUME NEW i \in 1..7, NEW t, IsToken(t), t.is \in Listed, TokenInBound(t, i)
    PROVE  \E v \in InField(i) : Selects(t, i, v)
<1>1. CASE t.is = "list"
  <2>1. PICK item \in ToSet(t.items) : IsItem(item) BY <1>1 DEF IsToken
  <2>2. ItemInBound(item, i) BY <1>1, <2>1 DEF TokenInBound, Unset
  <2>3. PICK v \in InField(i) : SelectsItem(item, i, v) BY <2>1, <2>2, ItemNames
  <2>4. Selects(t, i, v) BY <1>1, <2>1, <2>3 DEF Selects
  <2>5. QED BY <2>4
<1>2. CASE t.is # "list"
  <2>1. IsItem(t) BY DEF IsToken
  <2>2. ItemInBound(t, i) BY <1>2 DEF TokenInBound, Listed, Unset
  <2>3. PICK v \in InField(i) : SelectsItem(t, i, v) BY <2>1, <2>2, ItemNames
  <2>4. Selects(t, i, v) BY <1>2, <2>3 DEF Selects
  <2>5. QED BY <2>4
<1>3. QED BY <1>1, <1>2

\* A field that any value suits is empty, and no plain token sets n.
LEMMA AnyField ==
    ASSUME NEW t, NEW bound, NEW names
    PROVE  /\ parseField(t, bound, names).n = 0
           /\ t.is \in Unset => parseField(t, bound, names).values = {}
<1>1. ASSUME NEW a, NEW vs PROVE FieldIf(a, Field(vs, 0)).n = 0
  BY DEF FieldIf, Field, ParseError
<1>2. ParseError.n = 0 /\ \A vs : Field(vs, 0).n = 0 /\ Field(vs, 0).values = vs
  BY DEF Field, ParseError
<1>3. \A item : parseRangeField(item, bound, names).n = 0 BY <1>1 DEF parseRangeField
<1>4. \A item : parseStepField(item, bound, names).n = 0 BY <1>1 DEF parseStepField
<1>5. \A item : parseListField(item, bound, names).n = 0 BY <1>1 DEF parseListField
<1>6. CASE t.is = "value" BY <1>1, <1>6 DEF parseField, Unset
<1>7. CASE t.is # "value" BY <1>2, <1>3, <1>4, <1>5, <1>7 DEF parseField, Unset
<1>8. QED BY <1>6, <1>7

\* The expressions that the theorem on the fire times is about: any month and
\* year, and days that are any day, weekdays by name or number, or days of the
\* month that every month has. An hour is given if a day is.
Regular(e) ==
    LET t == WithYear(Tokens(e))
    IN  /\ WithinBounds(e)
        /\ t[4].is \in Listed \cup Unset /\ t[6].is \in Listed \cup Unset
        /\ t[5].is \in Unset /\ t[7].is \in Unset
        /\ t[4].is \notin Unset => \A d \in 29..31 : ~Selects(t[4], 4, d)
        /\ t[3].is \in Unset => t[4].is \in Unset /\ t[6].is \in Unset

\* What a field of such an expression has.
Chosen(t, i) == {v \in InField(i) : Selects(t[i], i, v)}
HasField(values, t, i) ==
    \/ t[i].is \in Unset /\ values = {}
    \/ t[i].is \in Listed /\ values = Chosen(t, i) /\ values # {}

\* The tokens of a regular expression.
LEMMA RegularTokens ==
    ASSUME NEW e, IsExpression(e), Regular(e), NEW t, t = WithYear(Tokens(e)), NEW i \in 1..7
    PROVE  IsToken(t[i]) /\ TokenInBound(t[i], i) /\ t[i].is \in Listed \cup Unset
<1>1. WithinBounds(e) BY DEF Regular
<1>2. Len(t) = 7 /\ TokenInBound(t[i], i) BY <1>1 DEF WithinBounds
<1>3. IsToken(t[i]) BY <1>2, SevenTokens
<1>4. CASE i \in {1, 2, 3}
  <2> SUFFICES ASSUME t[i].is \notin Listed \cup Unset PROVE FALSE BY <1>2, <1>3
  <2>1. t[i].is \notin DayForms BY <1>2, <1>4 DEF TokenInBound, DayForms, Unset
  <2>2. ItemInBound(t[i], i) BY <1>2, <2>1 DEF TokenInBound, DayForms, Listed, Unset
  <2>3. SpanInBound(t[i], i) BY <2>2 DEF ItemInBound, Listed
  <2>4. QED BY <2>3 DEF SpanInBound, Listed
<1>5. /\ t[4].is \in Listed \cup Unset /\ t[6].is \in Listed \cup Unset
      /\ t[5].is \in Unset /\ t[7].is \in Unset
  BY DEF Regular
<1>6. CASE i \in {4, 5, 6, 7} BY <1>2, <1>3, <1>5, <1>6
<1>7. QED BY <1>2, <1>3, <1>4, <1>5, <1>6

\* The parser gives each field the values that it names, and none to one that any
\* value suits; weekdays are counted from 0.
LEMMA ParsedRegular ==
    ASSUME NEW e, IsExpression(e), Regular(e), NEW t, t = WithYear(Tokens(e)),
           NEW b, b = parseCronExpression(e)
    PROVE  /\ \A i \in (1..7) \ {6} : HasField(b[i].values, t, i)
           /\ \/ t[6].is \in Unset /\ b[6].values = {}
              \/ /\ t[6].is \in Listed /\ Chosen(t, 6) # {}
                 /\ b[6].values = {v - 1 : v \in Chosen(t, 6)}
           /\ \A i \in 1..7 : b[i].n = 0
           /\ DOMAIN b = 1..7
           /\ t[1].is \in Unset => b[1] = Field({}, 0)
<1>1. \A i \in 1..7 : IsToken(t[i]) /\ TokenInBound(t[i], i) /\ t[i].is \in Listed \cup Unset
  BY RegularTokens
<1>2. WithinBounds(e) BY DEF Regular
<1>3. b = buildCronField(t) BY <1>2, ParserAccepts
<1>4. \A i \in 1..7 : t[i].is \in Listed =>
         b[i].values = IF i = 6 THEN {v - 1 : v \in Chosen(t, i)} ELSE Chosen(t, i)
  <2>1. InField(6) = 1..7 BY DEF InField, Bound
  <2>2. \A i \in (1..7) \ {6} : t[i].is \in Listed => Denotes(b[i], t[i], i)
    BY <1>1, <1>3, BuiltFields DEF Listed, DayForms, Unset
  <2>3. t[6].is \in Listed => b[6].values = {v - 1 : v \in {w \in 1..7 : Selects(t[6], 6, w)}}
    BY <1>1, <1>3, BuiltFields DEF Listed, DayForms, Unset
  <2>4. Chosen(t, 6) = {w \in 1..7 : Selects(t[6], 6, w)} BY <2>1 DEF Chosen
  <2>5. \A i \in (1..7) \ {6} : t[i].is \in Listed => b[i].values = Chosen(t, i)
    BY <2>2 DEF Denotes, Chosen
  <2>6. QED BY <2>3, <2>4, <2>5
<1>5. \A i \in 1..7 : t[i].is \in Listed => Chosen(t, i) # {}
  BY <1>1, ListedNames DEF Chosen
<1>6. ASSUME NEW i \in {1, 2, 3, 5, 7}
      PROVE  b[i].n = 0 /\ (t[i].is \in Unset => b[i].values = {})
  <2>1. \E bound, names : b[i] = parseField(t[i], bound, names) BY <1>3 DEF buildCronField
  <2>2. QED BY <2>1, AnyField
<1>7. b[4].n = 0 /\ (t[4].is \in Unset => b[4].values = {})
  <2>1. b[4] = parseDayOfMonthField(t[4], <<1, 31>>, noNames) BY <1>3 DEF buildCronField
  <2>2. t[4].is \in Listed \cup Unset BY <1>1
  <2>3. b[4] = parseField(t[4], <<1, 31>>, noNames)
    BY <2>1, <2>2 DEF parseDayOfMonthField, Listed, Unset
  <2>4. QED BY <2>3, AnyField
<1>8. b[6].n = 0 /\ (t[6].is \in Unset => b[6].values = {})
  <2>1. PICK f : f = parseDayOfWeekField(t[6], <<1, 7>>, dayNames) OBVIOUS
  <2>2. b[6] = add(f, -1) BY <1>3, <2>1 DEF buildCronField
  <2>3. t[6].is \in Listed \cup Unset BY <1>1
  <2>4. f = parseField(t[6], <<1, 7>>, dayNames)
    BY <2>1, <2>3 DEF parseDayOfWeekField, Listed, Unset
  <2>5. f.n = 0 /\ (t[6].is \in Unset => f.values = {}) BY <2>4, AnyField
  <2>6. IsField(f) BY <2>1, FieldsAreRecords
  <2>7. PICK ok, values, n : f = [ok |-> ok, values |-> values, n |-> n] BY <2>6 DEF IsField
  <2>8. b[6].n = f.n /\ b[6].values = {v + (-1) : v \in f.values} BY <2>2, <2>7 DEF add
  <2>9. QED BY <2>5, <2>8
<1>9. DOMAIN b = 1..7 BY <1>3 DEF buildCronField
<1>10. t[1].is \in Unset => b[1] = Field({}, 0)
  <2>1. b[1] = parseField(t[1], <<0, 59>>, noNames) BY <1>3 DEF buildCronField
  <2>2. QED BY <2>1 DEF parseField, Unset
<1>11. \A i \in (1..7) \ {6} : HasField(b[i].values, t, i)
  <2> SUFFICES ASSUME NEW i \in 1..7, i # 6 PROVE HasField(b[i].values, t, i) OBVIOUS
  <2>1. t[i].is \in Listed \cup Unset BY <1>1
  <2>2. t[i].is \in Unset => b[i].values = {} BY <1>6, <1>7
  <2>3. t[i].is \in Listed => b[i].values = Chosen(t, i) /\ Chosen(t, i) # {} BY <1>4, <1>5
  <2>4. QED BY <2>1, <2>2, <2>3 DEF HasField
<1>12. t[6].is \in Listed \cup Unset BY <1>1
<1>13. t[6].is \in Listed => b[6].values = {v - 1 : v \in Chosen(t, 6)} /\ Chosen(t, 6) # {}
  BY <1>4, <1>5
<1>14. \A i \in 1..7 : b[i].n = 0 BY <1>6, <1>7, <1>8
<1>15. \/ t[6].is \in Unset /\ b[6].values = {}
       \/ /\ t[6].is \in Listed /\ Chosen(t, 6) # {}
          /\ b[6].values = {v - 1 : v \in Chosen(t, 6)}
  BY <1>8, <1>12, <1>13
<1>16. QED BY <1>9, <1>10, <1>11, <1>14, <1>15, Zenon

\* The fields of the trigger: only the seconds of a full wildcard differ.
LEMMA RegularFields ==
    ASSUME NEW e, IsExpression(e), Regular(e), NEW t, t = WithYear(Tokens(e)),
           NEW f, f = newFields(e)
    PROVE  /\ \A i \in {2, 3, 4, 5, 7} : HasField(f[i].values, t, i)
           /\ HasField(f[1].values, t, 1) \/ (t[1].is \in Unset /\ f[1].values = 0..59)
           /\ \/ t[6].is \in Unset /\ f[6].values = {}
              \/ /\ t[6].is \in Listed /\ Chosen(t, 6) # {}
                 /\ f[6].values = {v - 1 : v \in Chosen(t, 6)}
           /\ \A i \in 1..7 : f[i].n = 0
           /\ f # <<>>
<1>1. PICK b : b = parseCronExpression(e) OBVIOUS
<1>2. /\ \A i \in (1..7) \ {6} : HasField(b[i].values, t, i)
      /\ \/ t[6].is \in Unset /\ b[6].values = {}
         \/ /\ t[6].is \in Listed /\ Chosen(t, 6) # {}
            /\ b[6].values = {v - 1 : v \in Chosen(t, 6)}
      /\ \A i \in 1..7 : b[i].n = 0
      /\ DOMAIN b = 1..7
      /\ t[1].is \in Unset => b[1] = Field({}, 0)
  BY <1>1, ParsedRegular
<1>3. f # <<>>
  <2>1. WithinBounds(e) BY DEF Regular
  <2>2. QED BY <2>1, ParserAccepts, NewFieldsAccept
<1>4. CASE f = b BY <1>2, <1>3, <1>4
<1>5. CASE f # b
  <2>1. f = [b EXCEPT ![1].values = 0..59] /\ \A i \in 1..7 : b[i].values = {}
    BY <1>1, <1>5 DEF newFields, fillRangeValues
  <2>2. t[1].is \in Unset BY <1>2, <2>1 DEF HasField
  <2>3. PICK r : r = b[1] OBVIOUS
  <2>4. r = [ok |-> TRUE, values |-> {}, n |-> 0] BY <1>2, <2>2, <2>3 DEF Field
  <2>5. f = [b EXCEPT ![1] = [r EXCEPT !.values = 0..59]] BY <2>1, <2>3
  <2>6. f[1] = [r EXCEPT !.values = 0..59] /\ \A i \in 2..7 : f[i] = b[i]
    BY <1>2, <2>5
  <2>7. f[1].values = 0..59 /\ f[1].n = 0 BY <2>4, <2>6
  <2>8. \A i \in 1..7 : f[i].n = 0
    <3> SUFFICES ASSUME NEW i \in 1..7 PROVE f[i].n = 0 OBVIOUS
    <3>1. b[i].n = 0 BY <1>2
    <3>2. i = 1 \/ i \in 2..7 OBVIOUS
    <3>3. QED BY <2>6, <2>7, <3>1, <3>2
  <2>9. \A i \in {2, 3, 4, 5, 7} : HasField(f[i].values, t, i)
    <3> SUFFICES ASSUME NEW i \in {2, 3, 4, 5, 7} PROVE HasField(f[i].values, t, i) OBVIOUS
    <3>1. i \in (1..7) \ {6} /\ i \in 2..7 OBVIOUS
    <3>2. QED BY <1>2, <2>6, <3>1
  <2>10. \/ t[6].is \in Unset /\ f[6].values = {}
         \/ /\ t[6].is \in Listed /\ Chosen(t, 6) # {}
            /\ f[6].values = {v - 1 : v \in Chosen(t, 6)}
    <3>1. f[6] = b[6] BY <2>6
    <3>2. QED BY <1>2, <3>1
  <2>11. QED BY <1>3, <2>2, <2>7, <2>8, <2>9, <2>10
<1>6. QED BY <1>4, <1>5

-----------------------------------------------------------------------------
(* Its machine.                                                            *)

\* Any value suits "*" and "?".
LEMMA AnySelects ==
    ASSUME NEW t, t.is \in Unset
    PROVE  \A i, v : Selects(t, i, v)
BY DEF Selects, SelectsItem, Unset

\* What the machine of such an expression is made of.
LEMMA MachineFields ==
    ASSUME NEW e, IsExpression(e), Regular(e), NEW t, t = WithYear(Tokens(e)),
           fields = newFields(e), NEW c, c = newMachine
    PROVE  /\ c.values = [i \in Nodes |-> c.values[i]]
           /\ HasField(c.values[seconds], t, 1) \/ (t[1].is \in Unset /\ c.values[seconds] = 0..59)
           /\ HasField(c.values[minutes], t, 2)
           /\ HasField(c.values[hours], t, 3)
           /\ HasField(c.values[days], t, 4)
           /\ c.values[months] = {} /\ c.values[years] = {}
           /\ \/ t[6].is \in Unset /\ c.weekdays = {}
              \/ /\ t[6].is \in Listed /\ Chosen(t, 6) # {}
                 /\ c.weekdays = {v - 1 : v \in Chosen(t, 6)}
           /\ c.n = 0
           /\ t[4].is \in Unset \/ t[6].is \in Unset
<1>1. PICK f : f = newFields(e) /\ f = fields OBVIOUS
<1>2. /\ \A i \in {2, 3, 4, 5, 7} : HasField(f[i].values, t, i)
      /\ HasField(f[1].values, t, 1) \/ (t[1].is \in Unset /\ f[1].values = 0..59)
      /\ \/ t[6].is \in Unset /\ f[6].values = {}
         \/ /\ t[6].is \in Listed /\ Chosen(t, 6) # {}
            /\ f[6].values = {v - 1 : v \in Chosen(t, 6)}
      /\ f[4].n = 0 /\ f[6].n = 0
  <2>1. f = newFields(e) BY <1>1
  <2>2. \A i \in {2, 3, 4, 5, 7} : HasField(f[i].values, t, i) BY <2>1, RegularFields
  <2>3. HasField(f[1].values, t, 1) \/ (t[1].is \in Unset /\ f[1].values = 0..59)
    BY <2>1, RegularFields
  <2>4. \/ t[6].is \in Unset /\ f[6].values = {}
        \/ /\ t[6].is \in Listed /\ Chosen(t, 6) # {}
           /\ f[6].values = {v - 1 : v \in Chosen(t, 6)}
    BY <2>1, RegularFields
  <2>5. f[4].n = 0 /\ f[6].n = 0 BY <2>1, RegularFields
  <2>6. QED BY <2>2, <2>3, <2>4, <2>5
<1> DEFINE weekly == fields[6].values # {}
           dates == IF weekly THEN {} ELSE fields[4].values
           list(i) == CASE i < days -> fields[i + 1].values
                        [] i = days -> dates
                        [] i = months -> fields[5].values
                        [] i = years -> fields[7].values
           lists == [i \in Nodes |-> list(i)]
<1>3. c = [values |-> lists, weekdays |-> fields[6].values,
           n |-> IF weekly THEN fields[6].n ELSE fields[4].n]
  BY Zenon DEF newMachine
<1> HIDE DEF weekly, dates
<1>4. /\ list(seconds) = fields[1].values
      /\ list(minutes) = fields[2].values
      /\ list(hours) = fields[3].values
      /\ list(days) = dates
      /\ list(months) = fields[5].values
      /\ list(years) = fields[7].values
  <2>1. list(seconds) = fields[1].values BY NodesAre
  <2>2. list(minutes) = fields[2].values BY NodesAre
  <2>3. list(hours) = fields[3].values BY NodesAre
  <2>4. ~(days < days) /\ ~(months < days) /\ ~(years < days)
        /\ months # days /\ years # days /\ years # months
    BY NodesAre
  <2>5. list(days) = dates BY <2>4
  <2>6. list(months) = fields[5].values BY <2>4
  <2>7. list(years) = fields[7].values BY <2>4
  <2>8. QED BY <2>1, <2>2, <2>3, <2>5, <2>6, <2>7
<1> HIDE DEF list
<1>5. lists = [i \in Nodes |-> lists[i]] /\ \A i \in Nodes : lists[i] = list(i) OBVIOUS
<1> HIDE DEF lists
<1>6. PICK vs : vs = lists OBVIOUS
<1>7. /\ vs = [i \in Nodes |-> vs[i]]
      /\ vs[seconds] = f[1].values /\ vs[minutes] = f[2].values /\ vs[hours] = f[3].values
      /\ vs[days] = (IF weekly THEN {} ELSE f[4].values)
      /\ vs[months] = f[5].values /\ vs[years] = f[7].values
  <2>1. /\ seconds \in Nodes /\ minutes \in Nodes /\ hours \in Nodes
        /\ days \in Nodes /\ months \in Nodes /\ years \in Nodes
    BY NodesAre
  <2>2. QED BY <1>1, <1>4, <1>5, <1>6, <2>1 DEF dates
<1>8. c.values = vs /\ c.weekdays = f[6].values /\ c.n = 0
  <2>1. f[6].n = 0 /\ f[4].n = 0 BY <1>2
  <2>2. PICK n : n = IF weekly THEN fields[6].n ELSE fields[4].n OBVIOUS
  <2>3. n = 0 BY <1>1, <2>1, <2>2
  <2>4. c = [values |-> vs, weekdays |-> f[6].values, n |-> n] BY <1>1, <1>3, <1>6, <2>2
  <2>5. QED BY <2>3, <2>4
<1>9. t[5].is \in Unset /\ t[7].is \in Unset BY DEF Regular
<1>10. vs[months] = {} /\ vs[years] = {} BY <1>2, <1>7, <1>9 DEF HasField, Listed, Unset
<1>11. t[4].is \in Unset \/ t[6].is \in Unset
  <2>1. OneDayField(t) BY DEF Regular, WithinBounds
  <2>2. QED BY <2>1 DEF OneDayField
<1>12. HasField(vs[days], t, 4)
  <2>1. CASE weekly
    <3>1. t[6].is \notin Unset BY <1>1, <1>2, <2>1 DEF Listed, Unset, weekly
    <3>2. t[4].is \in Unset /\ vs[days] = {} BY <1>7, <1>11, <2>1, <3>1
    <3>3. QED BY <3>2 DEF HasField
  <2>2. CASE ~weekly BY <1>2, <1>7, <2>2
  <2>3. QED BY <2>1, <2>2
<1>13. QED BY <1>2, <1>7, <1>8, <1>10, <1>11, <1>12

\* That machine is plain, and its nodes allow what the expression names.
LEMMA MachineIs ==
    ASSUME NEW e, IsExpression(e), Regular(e), NEW t, t = WithYear(Tokens(e)),
           fields = newFields(e), NEW c, c = newMachine
    PROVE  /\ Plain(c)
           /\ \A n \in Int : OnDayOf(c, n) <=> OnDay(t, n)
           /\ \A h \in 0..23 : h \in NodeSet(c, hours) <=> Selects(t[3], 3, h)
           /\ \A m \in 0..59 : m \in NodeSet(c, minutes) <=> Selects(t[2], 2, m)
           /\ \A s \in 0..59 : s \in NodeSet(c, seconds) <=> Selects(t[1], 1, s)
<1>1. /\ c.values = [i \in Nodes |-> c.values[i]]
      /\ HasField(c.values[seconds], t, 1) \/ (t[1].is \in Unset /\ c.values[seconds] = 0..59)
      /\ HasField(c.values[minutes], t, 2)
      /\ HasField(c.values[hours], t, 3)
      /\ HasField(c.values[days], t, 4)
      /\ c.values[months] = {} /\ c.values[years] = {}
      /\ \/ t[6].is \in Unset /\ c.weekdays = {}
         \/ /\ t[6].is \in Listed /\ Chosen(t, 6) # {}
            /\ c.weekdays = {v - 1 : v \in Chosen(t, 6)}
      /\ c.n = 0
      /\ t[4].is \in Unset \/ t[6].is \in Unset
  BY MachineFields
<1>2. /\ t[4].is \notin Unset => \A d \in 29..31 : ~Selects(t[4], 4, d)
      /\ t[3].is \in Unset => t[4].is \in Unset /\ t[6].is \in Unset
      /\ t[5].is \in Unset /\ t[7].is \in Unset
      /\ t[4].is \in Listed \cup Unset /\ t[6].is \in Listed \cup Unset
  BY DEF Regular
<1>3. /\ InField(1) = 0..59 /\ InField(2) = 0..59 /\ InField(3) = 0..23
      /\ InField(4) = 1..31 /\ InField(6) = 1..7
  BY DEF InField, Bound
<1>4. Unset \cap Listed = {} BY DEF Listed, Unset
<1>5. c.values[seconds] \subseteq 0..59 BY <1>1, <1>3 DEF HasField, Chosen
<1>6. c.values[minutes] \subseteq 0..59 BY <1>1, <1>3 DEF HasField, Chosen
<1>7. c.values[hours] \subseteq 0..23 BY <1>1, <1>3 DEF HasField, Chosen
<1>8. c.values[days] \subseteq 1..28
  <2> SUFFICES ASSUME NEW x \in c.values[days] PROVE x \in 1..28 OBVIOUS
  <2>1. t[4].is \notin Unset /\ x \in 1..31 /\ Selects(t[4], 4, x)
    BY <1>1, <1>3, <1>4 DEF HasField, Chosen
  <2>2. x \notin 29..31 BY <1>2, <2>1
  <2>3. QED BY <2>1, <2>2
<1>9. c.weekdays \subseteq 0..6
  <2> SUFFICES ASSUME NEW x \in c.weekdays PROVE x \in 0..6 OBVIOUS
  <2>1. PICK v \in Chosen(t, 6) : x = v - 1 BY <1>1
  <2>2. v \in 1..7 BY <1>3 DEF Chosen
  <2>3. QED BY <2>1, <2>2
<1>10. Plain(c)
  <2>1. c.values \in [Nodes -> SUBSET Nat]
    <3>2. \A i \in Nodes : c.values[i] \subseteq Nat
      BY <1>1, <1>5, <1>6, <1>7, <1>8, NodesAre
    <3>3. c.values = [i \in Nodes |-> c.values[i]] BY <1>1
    <3>4. QED BY <3>2, <3>3
  <2>2. c.weekdays = {} \/ c.values[days] = {} BY <1>1, <1>4 DEF HasField
  <2>3. c.values[hours] = {} => c.values[days] = {} /\ c.weekdays = {}
    BY <1>1, <1>2, <1>4 DEF HasField
  <2>4. /\ \A x \in c.values[seconds] \cup c.values[minutes] : x <= 59
        /\ \A x \in c.values[hours] : x <= 23
        /\ \A x \in c.values[days] : 1 <= x /\ x <= 28
        /\ \A x \in c.weekdays : x \in Nat /\ x <= 6
    BY <1>5, <1>6, <1>7, <1>8, <1>9
  <2>5. c.values[months] = {} /\ c.values[years] = {} /\ c.n = 0 BY <1>1
  <2>6. QED BY <2>1, <2>2, <2>3, <2>4, <2>5, Zenon DEF Plain
<1>11. ASSUME NEW n \in Int PROVE OnDayOf(c, n) <=> OnDay(t, n)
  <2>1. Year(t, YearNumber(n)) /\ Selects(t[5], 5, MonthNumber(n))
    BY <1>2, AnySelects DEF Year
  <2>2. SelectsDayOfMonth(t[4], n) <=> Selects(t[4], 4, DayOfMonth(n))
    BY <1>2 DEF SelectsDayOfMonth, Listed, Unset
  <2>3. SelectsDayOfWeek(t[6], n) <=> Selects(t[6], 6, Weekday(n) + 1)
    BY <1>2 DEF SelectsDayOfWeek, WeekdayNumber, Listed, Unset
  <2>4. Selects(t[4], 4, DayOfMonth(n))
           <=> c.values[days] = {} \/ DayOfMonth(n) \in c.values[days]
    <3>1. DayOfMonth(n) \in 1..31 BY DateOf
    <3>2. CASE t[4].is \in Unset BY <1>1, <1>4, <3>2, AnySelects DEF HasField
    <3>3. CASE t[4].is \notin Unset BY <1>1, <1>3, <3>1, <3>3 DEF HasField, Chosen
    <3>4. QED BY <3>2, <3>3
  <2>5. Selects(t[6], 6, Weekday(n) + 1) <=> c.weekdays = {} \/ Weekday(n) \in c.weekdays
    <3>1. Weekday(n) \in 0..6 BY WeekdayIs
    <3>2. CASE t[6].is \in Unset BY <1>1, <1>4, <3>2, AnySelects
    <3>3. CASE t[6].is \notin Unset
      <4>1. c.weekdays = {v - 1 : v \in Chosen(t, 6)} /\ Chosen(t, 6) # {} BY <1>1, <3>3
      <4>2. PICK w \in 0..6 : w = Weekday(n) BY <3>1
      <4>3. Chosen(t, 6) \subseteq 1..7 BY <1>3 DEF Chosen
      <4>4. w \in c.weekdays <=> w + 1 \in Chosen(t, 6) BY <4>1, <4>2, <4>3
      <4>5. w + 1 \in Chosen(t, 6) <=> Selects(t[6], 6, w + 1) BY <1>3, <4>2 DEF Chosen
      <4>6. c.weekdays # {} BY <4>1
      <4>7. QED BY <4>2, <4>4, <4>5, <4>6
    <3>4. QED BY <3>2, <3>3
  <2>6. OnDay(t, n) <=> Selects(t[4], 4, DayOfMonth(n)) /\ Selects(t[6], 6, Weekday(n) + 1)
    BY <2>1, <2>2, <2>3 DEF OnDay
  <2>7. QED BY <2>4, <2>5, <2>6 DEF OnDayOf
<1>12. ASSUME NEW i \in {1, 2, 3}, NEW vs, HasField(vs, t, i), NEW x \in InField(i)
       PROVE  (vs # {} => x \in vs) <=> Selects(t[i], i, x)
  <2>1. CASE t[i].is \in Unset
    BY <1>4, <1>12, <2>1, AnySelects DEF HasField
  <2>2. CASE t[i].is \notin Unset
    <3>1. vs = Chosen(t, i) /\ vs # {} BY <1>12, <2>2 DEF HasField
    <3>2. QED BY <3>1 DEF Chosen
  <2>3. QED BY <2>1, <2>2
<1>13. \A i \in {seconds, minutes, hours} : lowerBound(i) = 0 /\ upperBound(i) = 59
  BY NodesAre, NodeBounds
<1>14. ASSUME NEW i \in {seconds, minutes, hours}, NEW x \in 0..59
       PROVE  x \in NodeSet(c, i) <=> (c.values[i] # {} => x \in c.values[i])
  <2>1. lowerBound(i) = 0 /\ upperBound(i) = 59 BY <1>13
  <2>2. QED BY <2>1 DEF NodeSet
<1>15. ASSUME NEW h \in 0..23 PROVE h \in NodeSet(c, hours) <=> Selects(t[3], 3, h)
  <2>1. h \in NodeSet(c, hours) <=> (c.values[hours] # {} => h \in c.values[hours]) BY <1>14
  <2>2. (c.values[hours] # {} => h \in c.values[hours]) <=> Selects(t[3], 3, h)
    BY <1>1, <1>3, <1>12
  <2>3. QED BY <2>1, <2>2
<1>16. ASSUME NEW m \in 0..59 PROVE m \in NodeSet(c, minutes) <=> Selects(t[2], 2, m)
  <2>1. m \in NodeSet(c, minutes) <=> (c.values[minutes] # {} => m \in c.values[minutes]) BY <1>14
  <2>2. (c.values[minutes] # {} => m \in c.values[minutes]) <=> Selects(t[2], 2, m)
    BY <1>1, <1>3, <1>12
  <2>3. QED BY <2>1, <2>2
<1>17. ASSUME NEW s \in 0..59 PROVE s \in NodeSet(c, seconds) <=> Selects(t[1], 1, s)
  <2>1. s \in NodeSet(c, seconds) <=> (c.values[seconds] # {} => s \in c.values[seconds]) BY <1>14
  <2>2. CASE HasField(c.values[seconds], t, 1)
    <3>1. (c.values[seconds] # {} => s \in c.values[seconds]) <=> Selects(t[1], 1, s)
      BY <1>3, <1>12, <2>2
    <3>2. QED BY <2>1, <3>1
  <2>3. CASE t[1].is \in Unset /\ c.values[seconds] = 0..59
    BY <2>1, <2>3, AnySelects
  <2>4. QED BY <1>1, <2>2, <2>3
<1>18. QED BY <1>10, <1>11, <1>15, <1>16, <1>17

-----------------------------------------------------------------------------
(* Instants and readings of the clock.                                     *)

\* An instant and its reading stand for each other.
LEMMA ClockIs ==
    ASSUME NEW w \in Int
    PROVE  /\ Reading(DayAt(w), HourAt(w), MinuteAt(w), SecondAt(w))
           /\ Instant(DayAt(w), HourAt(w), MinuteAt(w), SecondAt(w)) = w
BY SMT DEF Reading, Instant, DayAt, HourAt, MinuteAt, SecondAt, SecondsPerDay

\* The clock shows the reading of which an instant is made.
LEMMA ReadingAt ==
    ASSUME NEW d, NEW h, NEW m, NEW s, Reading(d, h, m, s)
    PROVE  /\ Instant(d, h, m, s) \in Int
           /\ DayAt(Instant(d, h, m, s)) = d /\ HourAt(Instant(d, h, m, s)) = h
           /\ MinuteAt(Instant(d, h, m, s)) = m /\ SecondAt(Instant(d, h, m, s)) = s
<1>1. PICK w \in Int : w = Instant(d, h, m, s) BY SMT DEF Reading, Instant, SecondsPerDay
<1>2. w = d * SecondsPerDay + 3600 * h + 60 * m + s BY <1>1 DEF Instant
<1>3. DayAt(w) = d BY <1>2, SMT DEF Reading, DayAt, SecondsPerDay
<1>4. w % SecondsPerDay = 3600 * h + 60 * m + s BY <1>2, SMT DEF Reading, SecondsPerDay
<1>5. HourAt(w) = h BY <1>4, SMT DEF Reading, HourAt
<1>6. w % 3600 = 60 * m + s BY <1>2, SMT DEF Reading, SecondsPerDay
<1>7. MinuteAt(w) = m BY <1>6, SMT DEF Reading, MinuteAt
<1>8. SecondAt(w) = s BY <1>2, SMT DEF Reading, SecondAt, SecondsPerDay
<1>9. QED BY <1>1, <1>3, <1>5, <1>7, <1>8

\* The days of a year, and the order of the years.
LEMMA YearIs ==
    ASSUME NEW n \in Int
    PROVE  /\ YearNumber(n) \in Int
           /\ YearStart(YearNumber(n)) <= n + YearStart(EpochYear)
           /\ n + YearStart(EpochYear) < YearStart(YearNumber(n) + 1)
<1>1. PICK i \in Int, y \in Int, m \in 1..12 :
         i = MonthOf(n) /\ y = i \div 12 /\ m = (i % 12) + 1 /\ i = Month(y, m)
  BY MonthOfIs, IsMonth
<1>2. YearNumber(n) = y BY <1>1 DEF YearNumber
<1>3. FirstOf(i) <= n /\ n < FirstOf(i + 1) BY <1>1, MonthOfIs
<1>4. FirstOf(i) \in Int /\ FirstOf(i + 1) = FirstOf(i) + MonthDays(y, m)
  <2>1. i = Month(y, m) BY <1>1
  <2>2. QED BY <2>1, MonthLength
<1>5. FirstOf(i) = YearStart(y) - YearStart(EpochYear) + DaysBefore[m]
                       + (IF m > 2 /\ Leap(y) THEN 1 ELSE 0)
  BY <1>1, FirstOfIs
<1>6. YearStart(y) \in Int /\ YearStart(y + 1) = YearStart(y) + (IF Leap(y) THEN 366 ELSE 365)
  BY YearStarts
<1>7. YearStart(EpochYear) \in Int BY YearStarts, CalendarAssumption DEF CalendarAssumption
<1>8. /\ 0 <= DaysBefore[m] /\ DaysBefore[m] \in Int
      /\ DaysBefore[m] + (IF m > 2 /\ Leap(y) THEN 1 ELSE 0) + MonthDays(y, m)
            <= IF Leap(y) THEN 366 ELSE 365
  BY DEF DaysBefore, MonthDays
<1>9. MonthDays(y, m) \in Int BY DEF MonthDays
<1>10. QED BY <1>2, <1>3, <1>4, <1>5, <1>6, <1>7, <1>8, <1>9

\* Later days are not in earlier years.
LEMMA YearOrder ==
    ASSUME NEW n \in Int, NEW n2 \in Int, n <= n2
    PROVE  YearNumber(n) <= YearNumber(n2)
<1>1. PICK y \in Int, z \in Int : y = YearNumber(n) /\ z = YearNumber(n2) BY YearIs
<1>2. YearStart(y) <= n + YearStart(EpochYear) /\ n2 + YearStart(EpochYear) < YearStart(z + 1)
  BY <1>1, YearIs
<1>3. PICK a \in Int, b \in Int, k \in Int :
         a = YearStart(y) /\ b = YearStart(z + 1) /\ k = YearStart(EpochYear)
  <2>1. EpochYear \in Int /\ z + 1 \in Int BY CalendarAssumption DEF CalendarAssumption
  <2>2. QED BY <2>1, YearStarts
<1>4. a < b BY <1>2, <1>3
<1>5. ASSUME z + 1 <= y PROVE FALSE
  <2>1. CASE z + 1 = y BY <1>3, <1>4, <2>1
  <2>2. CASE z + 1 < y
    <3>1. z + 1 \in Int OBVIOUS
    <3>2. 146097 * y - 1200 <= 400 * a BY <1>3, YearStartApprox, SMT
    <3>3. 400 * b <= 146097 * (z + 1) + 1200 BY <1>3, <3>1, YearStartApprox, SMT
    <3>4. QED BY <1>4, <2>2, <3>2, <3>3, SMT
  <2>3. QED BY <1>5, <2>1, <2>2
<1>6. QED BY <1>1, <1>5

\* Later instants are not on earlier days.
LEMMA DayOrder ==
    ASSUME NEW t \in Int, NEW t2 \in Int, t <= t2
    PROVE  DayAt(t) \in Int /\ DayAt(t2) \in Int /\ DayAt(t) <= DayAt(t2)
BY SMT DEF DayAt, SecondsPerDay

\* The nodes from a reading of the clock.
LEMMA NewNodesAre ==
    ASSUME NEW w \in Int, 0 <= YearNumber(DayAt(w)), YearNumber(DayAt(w)) < upperBound(years)
    PROVE  Wall(newNodes(w)) /\ ValueOf(newNodes(w)) = w
<1>1. PICK d, h, m, s : d = DayAt(w) /\ h = HourAt(w) /\ m = MinuteAt(w) /\ s = SecondAt(w)
  OBVIOUS
<1>2. Reading(d, h, m, s) /\ Instant(d, h, m, s) = w BY <1>1, ClockIs
<1>3. d \in Int BY <1>2 DEF Reading
<1>4. PICK y \in Int, mo \in 1..12, dm \in Int :
         y = YearNumber(d) /\ mo = MonthNumber(d) /\ dm = DayOfMonth(d)
  <2>1. YearNumber(d) \in Int /\ MonthNumber(d) \in 1..12 BY <1>3, DateOf
  <2>2. DayOfMonth(d) \in 1..31 BY <1>3, DateOf
  <2>3. DayOfMonth(d) \in Int BY <2>2
  <2>4. QED BY <2>1, <2>3
<1>5. dm \in 1..DaysIn(y, mo) /\ Day(y, mo, dm) = d BY <1>3, <1>4, DateOf
<1> DEFINE node(i) == CASE i = seconds -> SecondAt(w)
                        [] i = minutes -> MinuteAt(w)
                        [] i = hours -> HourAt(w)
                        [] i = days -> DayOfMonth(DayAt(w))
                        [] i = months -> MonthNumber(DayAt(w))
                        [] i = years -> YearNumber(DayAt(w))
<1>6. newNodes(w) = [i \in Nodes |-> node(i)] BY Zenon DEF newNodes
<1>7. /\ node(seconds) = s /\ node(minutes) = m /\ node(hours) = h
      /\ node(days) = dm /\ node(months) = mo /\ node(years) = y
  <2>1. /\ node(seconds) = SecondAt(w) /\ node(minutes) = MinuteAt(w) /\ node(hours) = HourAt(w)
        /\ node(days) = DayOfMonth(DayAt(w)) /\ node(months) = MonthNumber(DayAt(w))
        /\ node(years) = YearNumber(DayAt(w))
    BY NodesAre
  <2>2. QED BY <1>1, <1>4, <2>1
<1> HIDE DEF node
<1>8. PICK v : v = [i \in Nodes |-> node(i)] OBVIOUS
<1>9. /\ v[seconds] = s /\ v[minutes] = m /\ v[hours] = h
      /\ v[days] = dm /\ v[months] = mo /\ v[years] = y
  BY <1>7, <1>8, NodesAre
<1>10. v \in Values
  <2>1. \A i \in Nodes : node(i) \in Int BY <1>2, <1>7, NodesAre DEF Reading
  <2>2. QED BY <1>8, <2>1 DEF Values
<1>11. monthMax(v) = DaysIn(y, mo) BY <1>9 DEF monthMax
<1>12. Dated(v) BY <1>5, <1>9, <1>10, <1>11 DEF Dated
<1>13. InYears(v) BY <1>1, <1>4, <1>9 DEF InYears
<1>14. v[seconds] \in 0..59 /\ v[minutes] \in 0..59 /\ v[hours] \in 0..23
  BY <1>2, <1>9 DEF Reading
<1>15. Wall(v) BY <1>12, <1>13, <1>14 DEF Wall
<1>16. dayDate(v) = d BY <1>5, <1>9 DEF dayDate
<1>17. ValueOf(v) = w BY <1>2, <1>9, <1>16 DEF ValueOf
<1>18. QED BY <1>6, <1>8, <1>15, <1>17

-----------------------------------------------------------------------------
(* The fire times of regular expressions.                                  *)

\* In UTC the clocks show the instant itself.
LEMMA UTCClock ==
    ASSUME location = UTC
    PROVE  /\ Offsets = {0}
           /\ \A w \in Int : WallClock(w) = w /\ TimeOf(w) = w
<1>1. location.standard = 0 /\ location.summer = 0 BY DEF UTC
<1>2. \A w : OffsetAt(w) = 0 BY <1>1 DEF OffsetAt
<1>3. QED BY <1>1, <1>2 DEF Offsets, WallClock, TimeOf

\* A reading suits the machine exactly if the expression names it.
LEMMA SuitsIsNamed ==
    ASSUME NEW e, IsExpression(e), Regular(e), NEW t, t = WithYear(Tokens(e)),
           fields = newFields(e), NEW c, c = newMachine,
           NEW d, NEW h, NEW m, NEW s, Reading(d, h, m, s)
    PROVE  Suits(c, d, h, m, s) <=> OnDay(t, d) /\ AtTime(t, h, m, s)
<1>1. /\ \A n \in Int : OnDayOf(c, n) <=> OnDay(t, n)
      /\ \A x \in 0..23 : x \in NodeSet(c, hours) <=> Selects(t[3], 3, x)
      /\ \A x \in 0..59 : x \in NodeSet(c, minutes) <=> Selects(t[2], 2, x)
      /\ \A x \in 0..59 : x \in NodeSet(c, seconds) <=> Selects(t[1], 1, x)
  <2>1. \A n \in Int : OnDayOf(c, n) <=> OnDay(t, n) BY MachineIs
  <2>2. \A x \in 0..23 : x \in NodeSet(c, hours) <=> Selects(t[3], 3, x) BY MachineIs
  <2>3. \A x \in 0..59 : x \in NodeSet(c, minutes) <=> Selects(t[2], 2, x) BY MachineIs
  <2>4. \A x \in 0..59 : x \in NodeSet(c, seconds) <=> Selects(t[1], 1, x) BY MachineIs
  <2>5. QED BY <2>1, <2>2, <2>3, <2>4
<1>2. d \in Int /\ h \in 0..23 /\ m \in 0..59 /\ s \in 0..59 BY DEF Reading
<1>3. OnDayOf(c, d) <=> OnDay(t, d) BY <1>1, <1>2
<1>4. h \in NodeSet(c, hours) <=> Selects(t[3], 3, h) BY <1>1, <1>2
<1>5. m \in NodeSet(c, minutes) <=> Selects(t[2], 2, m) BY <1>1, <1>2
<1>6. s \in NodeSet(c, seconds) <=> Selects(t[1], 1, s) BY <1>1, <1>2
<1>7. QED BY <1>3, <1>4, <1>5, <1>6 DEF Suits, AtTime

\* What the trigger knows when it is asked for a fire time.
Ready ==
    /\ IsExpression(expression) /\ Regular(expression)
    /\ location = UTC
    /\ fields = newFields(expression)
    /\ at \in Int /\ 0 <= YearNumber(DayAt(at)) /\ YearNumber(DayAt(at)) < upperBound(years)

\* The first iteration of NextTriggerTime stops at the next time named.
LEMMA FirstIsRight ==
    ASSUME Ready, NEW x, x = NextTriggerTime(First)
    PROVE  /\ x \in Int /\ x > at
           /\ IsNamed(x) /\ TimeOf(x) = x
           /\ NothingBetween(at, x)
<1>1. PICK t : t = T OBVIOUS
<1>2. t = WithYear(Tokens(expression)) BY <1>1 DEF T
<1>3. PICK c : c = newMachine OBVIOUS
<1>4. Plain(c) BY <1>2, <1>3, MachineIs DEF Ready
<1>5. \A d, h, m, s : Reading(d, h, m, s) =>
         (Suits(c, d, h, m, s) <=> OnDay(t, d) /\ AtTime(t, h, m, s))
  BY <1>2, <1>3, SuitsIsNamed DEF Ready
<1>6. /\ Offsets = {0} /\ \A w \in Int : WallClock(w) = w /\ TimeOf(w) = w BY UTCClock DEF Ready
<1>7. PICK v : v = newNodes(WallClock(at)) OBVIOUS
<1>8. Wall(v) /\ ValueOf(v) = at
  <2>1. v = newNodes(at) BY <1>6, <1>7 DEF Ready
  <2>2. QED BY <2>1, NewNodesAre DEF Ready
<1>9. PICK r : r = First OBVIOUS
<1>10. IsNextOf(c, v, r)
  <2>1. r = findForward(c, v) BY <1>3, <1>7, <1>9 DEF First
  <2>2. Outcome(c, v, r) BY <1>4, <1>8, <2>1, FindForwardIs
  <2>3. QED BY <1>4, <1>8, <2>2, OutcomeIsNext
<1>11. ValueOf(r) \in Int /\ at < ValueOf(r) BY <1>8, <1>10 DEF IsNextOf
<1>12. x = ValueOf(r) BY <1>6, <1>9, <1>11 DEF NextTriggerTime
<1>13. x \in Int /\ at \in Int /\ at < x BY <1>11, <1>12 DEF Ready
<1>14. IsNamed(x)
  <2>1. PICK d, h, m, s : Suits(c, d, h, m, s) /\ x = Instant(d, h, m, s)
    BY <1>10, <1>12 DEF IsNextOf
  <2>2. Reading(d, h, m, s) BY <2>1 DEF Suits
  <2>3. DayAt(x) = d /\ HourAt(x) = h /\ MinuteAt(x) = m /\ SecondAt(x) = s
    BY <2>1, <2>2, ReadingAt
  <2>4. OnDay(t, d) /\ AtTime(t, h, m, s) BY <1>5, <2>1, <2>2
  <2>5. QED BY <1>1, <2>3, <2>4 DEF IsNamed
<1>15. ASSUME NEW d, NEW h, NEW m, NEW s, Suits(c, d, h, m, s)
       PROVE  Instant(d, h, m, s) <= at \/ x <= Instant(d, h, m, s)
  BY <1>8, <1>10, <1>12, <1>15 DEF IsNextOf
\* On a day between, the first time of the day would be named.
<1>16. ASSUME NEW d \in Int, DayAt(at) < d, d < DayAt(x) PROVE ~OnDay(t, d)
  <2> SUFFICES ASSUME OnDay(t, d) PROVE FALSE OBVIOUS
  <2>1. PICK h, m, s : h = Least(c, hours) /\ m = Least(c, minutes) /\ s = Least(c, seconds)
    OBVIOUS
  <2>2. /\ h \in NodeSet(c, hours) /\ h \in 0..23
        /\ m \in NodeSet(c, minutes) /\ m \in 0..59
        /\ s \in NodeSet(c, seconds) /\ s \in 0..59
    BY <1>4, <2>1, TimeNodes
  <2>3. Reading(d, h, m, s) BY <2>2 DEF Reading
  <2>4. OnDayOf(c, d) BY <1>2, <1>3, MachineIs DEF Ready
  <2>5. Suits(c, d, h, m, s) BY <2>2, <2>3, <2>4 DEF Suits
  <2>6. PICK w \in Int : w = Instant(d, h, m, s) BY <2>3, ReadingAt
  <2>7. DayAt(w) = d BY <2>3, <2>6, ReadingAt
  <2>8. w <= at \/ x <= w BY <1>15, <2>5, <2>6
  <2>9. DayAt(w) <= DayAt(at) \/ DayAt(x) <= DayAt(w) BY <1>13, <2>8, DayOrder
  <2>10. DayAt(at) \in Int /\ DayAt(x) \in Int BY <1>13, DayOrder
  <2>11. QED BY <1>16, <2>7, <2>9, <2>10
<1>17. ASSUME NEW d \in Int, NEW h1, NEW h2, NEW w \in Named(d, h1, h2)
       PROVE  TimeOf(w) <= at \/ x <= TimeOf(w)
  <2>1. OnDay(t, d) /\ w \in {d * SecondsPerDay + y : y \in TimesBetween(t, h1, h2)}
    BY <1>1, <1>17, Zenon DEF Named
  <2>2. PICK y \in TimesBetween(t, h1, h2) : w = d * SecondsPerDay + y BY <2>1
  <2>3. PICK h \in {z \in (h1..h2) \cap (0..23) : Selects(t[3], 3, z)},
             m \in {z \in 0..59 : Selects(t[2], 2, z)},
             s \in {z \in 0..59 : Selects(t[1], 1, z)} : y = 3600 * h + 60 * m + s
    BY <2>2, SMT DEF TimesBetween
  <2>4. h \in 0..23 /\ m \in 0..59 /\ s \in 0..59 /\ AtTime(t, h, m, s) BY <2>3, Zenon DEF AtTime
  <2>5. Reading(d, h, m, s) BY <2>4 DEF Reading
  <2>6. w = Instant(d, h, m, s) BY <2>2, <2>3, <2>4, SMT DEF Instant, SecondsPerDay
  <2>7. Suits(c, d, h, m, s) BY <1>5, <2>1, <2>4, <2>5
  <2>8. w \in Int BY <2>5, <2>6, ReadingAt
  <2>9. QED BY <1>6, <1>15, <2>6, <2>7, <2>8
<1>18. NothingBetween(at, x)
  <2> DEFINE d1 == DayAt(at)
             d2 == DayAt(x)
  <2>1. d1 \in Int /\ d2 \in Int BY <1>13, DayOrder
  <2>2. WallClock(at) = at /\ WallClock(x) = x BY <1>6, <1>13
  <2>3. \A d \in (d1 + 1)..(d2 - 1) : ~OnDay(T, d) BY <1>1, <1>16, <2>1
  <2>4. \A h1, h2 : \A w \in Named(d1, h1, h2) : TimeOf(w) <= at \/ x <= TimeOf(w)
    BY <1>17, <2>1
  <2>5. \A h1, h2 : \A w \in Named(d2, h1, h2) : TimeOf(w) <= at \/ x <= TimeOf(w)
    BY <1>17, <2>1
  <2> HIDE DEF d1, d2
  <2>6. /\ DayAt(WallClock(at)) = d1 /\ DayAt(WallClock(x)) = d2 BY <2>2 DEF d1, d2
  <2>7. QED BY <2>3, <2>4, <2>5, <2>6, Zenon DEF NothingBetween
<1>19. QED BY <1>6, <1>13, <1>14, <1>18

\* The cases the theorems are about: regular expressions in UTC, from
\* instants that are not before year 0.
RegularCases ==
    \A case \in Cases :
        /\ Regular(case.expression)
        /\ case.location = UTC
        /\ case.starts \subseteq {s \in Int : 0 <= YearNumber(DayAt(s))}

\* The nodes have room for the years that are asked for.
YearsAssumption == LastYear \in Int /\ LastYear < upperBound(years)

RegularInv ==
    /\ \E case \in Cases : expression = case.expression
    /\ location = UTC
    /\ status \in {"new", "armed"}
    /\ fields = IF status = "new" THEN <<>> ELSE newFields(expression)
    /\ at \in Int /\ 0 <= YearNumber(DayAt(at))

\* What NextFireTime does for such a trigger.
LEMMA NextFireTimeIs ==
    ASSUME RegularCases, YearsAssumption, RegularInv, NextFireTime
    PROVE  /\ at' \in Int /\ at' > at
           /\ IsNamed(at') /\ TimeOf(at') = at'
           /\ NothingBetween(at, at')
           /\ UNCHANGED <<expression, location, fields, status>>
<1>1. Ready
  <2>1. IsExpression(expression) /\ Regular(expression)
    BY CasesAssumption DEF RegularInv, RegularCases
  <2>2. YearNumber(DayAt(at)) <= LastYear /\ status = "armed" BY DEF NextFireTime, Asked
  <2>3. at \in Int BY DEF RegularInv
  <2>4. DayAt(at) \in Int BY <2>3, DayOrder
  <2>5. YearNumber(DayAt(at)) \in Int BY <2>4, YearIs
  <2>6. upperBound(years) \in Int BY NodeBounds, NodesAre
  <2>7. YearNumber(DayAt(at)) < upperBound(years) BY <2>2, <2>5, <2>6 DEF YearsAssumption
  <2>8. QED BY <2>1, <2>2, <2>7 DEF Ready, RegularInv
<1>2. PICK x : x = NextTriggerTime(First) OBVIOUS
<1>3. x \in Int /\ x > at /\ IsNamed(x) /\ TimeOf(x) = x /\ NothingBetween(at, x)
  BY <1>1, <1>2, FirstIsRight
<1>4. at \in Int BY DEF RegularInv
<1>5. ~(x <= at) BY <1>3, <1>4
<1>6. ~FireOnSecond(First) /\ ~Expire(First)
  BY <1>2, <1>5 DEF FireOnSecond, Expire
<1>7. FireOnFirst(First) BY <1>6 DEF NextFireTime
<1>8. FireAt(x) BY <1>2, <1>7 DEF FireOnFirst
<1>9. at' = x /\ UNCHANGED <<expression, location, fields, status>> BY <1>8 DEF FireAt
<1>10. QED BY <1>3, <1>9

\* No trigger has been created or asked at first.
LEMMA RegularInit ==
    ASSUME RegularCases, Init
    PROVE  RegularInv
<1>1. PICK case \in Cases : /\ expression = case.expression
                            /\ location = case.location
                            /\ at \in case.starts
                            /\ fields = <<>> /\ status = "new"
  BY DEF Init
<1>2. QED BY <1>1 DEF RegularCases, RegularInv

\* The trigger stays armed, and its fields those of its expression.
LEMMA RegularStep ==
    ASSUME RegularCases, YearsAssumption, RegularInv, [Next]_vars
    PROVE  RegularInv'
<1>1. CASE NewCronTrigger
  <2>1. IsExpression(expression) /\ Regular(expression)
    BY CasesAssumption DEF RegularInv, RegularCases
  <2>2. newFields(expression) # <<>> BY <2>1, RegularFields
  <2>3. QED BY <1>1, <2>2 DEF NewCronTrigger, RegularInv
<1>2. CASE NextFireTime
  <2>1. /\ at' \in Int /\ at' > at /\ UNCHANGED <<expression, location, fields, status>>
    BY <1>2, NextFireTimeIs
  <2>2. at \in Int /\ 0 <= YearNumber(DayAt(at)) BY DEF RegularInv
  <2>3. DayAt(at) \in Int /\ DayAt(at') \in Int /\ DayAt(at) <= DayAt(at')
    BY <2>1, <2>2, DayOrder
  <2>4. YearNumber(DayAt(at)) <= YearNumber(DayAt(at')) BY <2>3, YearOrder
  <2>5. YearNumber(DayAt(at)) \in Int /\ YearNumber(DayAt(at')) \in Int BY <2>3, YearIs
  <2>6. 0 <= YearNumber(DayAt(at')) BY <2>2, <2>4, <2>5
  <2>7. QED BY <2>1, <2>6 DEF RegularInv
<1>3. CASE UNCHANGED vars BY <1>3 DEF RegularInv, vars
<1>4. QED BY <1>1, <1>2, <1>3 DEF Next

\* The trigger of a regular expression is created and never gives up: its fields
\* are those of the expression and every fire time is a time that the machine has
\* room for.
THEOREM RegularHolds ==
    ASSUME RegularCases, YearsAssumption
    PROVE  Spec => []RegularInv
<1>1. Init => RegularInv BY RegularInit
<1>2. RegularInv /\ [Next]_vars => RegularInv' BY RegularStep
<1>3. QED BY <1>1, <1>2, PTL DEF Spec

\* CronTrigger.NextFireTime of a regular expression in UTC answers the question of
\* the csm package, from every instant: the fire time is later than the previous
\* one, the expression names it, and it names nothing between the two.
THEOREM FiresNextHolds ==
    ASSUME RegularCases, YearsAssumption
    PROVE  Spec => FiresNext
<1> DEFINE Fires == at' # at =>
                       /\ at' > at
                       /\ \E o \in Offsets : IsNamed(at' + o) /\ at' = TimeOf(at' + o)
                       /\ NothingBetween(at, at')
<1>1. RegularInv /\ [Next]_vars => [Fires]_vars
  <2> SUFFICES ASSUME RegularInv, [Next]_vars, at' # at PROVE Fires OBVIOUS
  <2>1. NextFireTime BY DEF Next, NewCronTrigger, vars
  <2>2. /\ at' \in Int /\ at' > at /\ IsNamed(at') /\ TimeOf(at') = at'
        /\ NothingBetween(at, at')
    BY <2>1, NextFireTimeIs
  <2>3. Offsets = {0} BY UTCClock DEF RegularInv
  <2>4. at' + 0 = at'
    <3>1. at' \in Int BY <2>2
    <3>2. \A x \in Int : x + 0 = x OBVIOUS
    <3>3. QED BY <3>1, <3>2, Zenon
  <2>5. \E o \in Offsets : IsNamed(at' + o) /\ at' = TimeOf(at' + o)
    <3>1. IsNamed(at' + 0) /\ at' = TimeOf(at' + 0) BY <2>2, <2>4
    <3>2. QED BY <2>3, <3>1
  <2>6. QED BY <2>2, <2>5
<1> HIDE DEF Fires
<1>3. Spec => [][Fires]_vars BY <1>1, RegularHolds, PTL DEF Spec
<1>4. QED BY <1>3 DEF FiresNext, Fires

\* Every variable of such a trigger keeps its type, each list of values included.
THEOREM TypeOKHolds ==
    ASSUME RegularCases, YearsAssumption
    PROVE  Spec => []TypeOK
<1>1. RegularInv => TypeOK
  <2> SUFFICES ASSUME RegularInv PROVE TypeOK OBVIOUS
  <2>1. ASSUME fields # <<>>, NEW i \in 1..7
        PROVE  fields[i].values \subseteq Int /\ fields[i].n \in -31..5
    <3>1. PICK t : t = WithYear(Tokens(expression)) OBVIOUS
    <3>2. PICK f : f = fields OBVIOUS
    <3>3. /\ IsExpression(expression) /\ Regular(expression)
          /\ f = newFields(expression)
      BY <2>1, <3>2, CasesAssumption DEF RegularInv, RegularCases
    <3>4. f[i].n = 0 BY <3>1, <3>3, RegularFields
    <3>5. \A j \in 1..7 : Chosen(t, j) \subseteq Int BY Bounds DEF Chosen, InField
    <3>6. CASE i \in {2, 3, 4, 5, 7}
      <4>1. HasField(f[i].values, t, i) BY <3>1, <3>3, <3>6, RegularFields
      <4>2. QED BY <3>2, <3>4, <3>5, <4>1 DEF HasField
    <3>7. CASE i = 1
      <4>1. HasField(f[1].values, t, 1) \/ (t[1].is \in Unset /\ f[1].values = 0..59)
        BY <3>1, <3>3, RegularFields
      <4>2. QED BY <3>2, <3>4, <3>5, <3>7, <4>1 DEF HasField
    <3>8. CASE i = 6
      <4>1. \/ t[6].is \in Unset /\ f[6].values = {}
            \/ /\ t[6].is \in Listed /\ Chosen(t, 6) # {}
               /\ f[6].values = {v - 1 : v \in Chosen(t, 6)}
        BY <3>1, <3>3, RegularFields
      <4>2. \A v \in Chosen(t, 6) : v - 1 \in Int BY <3>5
      <4>3. f[6].values \subseteq Int BY <4>1, <4>2
      <4>4. QED BY <3>2, <3>4, <3>8, <4>3
    <3>9. QED BY <3>6, <3>7, <3>8
  <2>2. QED BY <2>1 DEF RegularInv, TypeOK
<1>2. QED BY <1>1, RegularHolds, PTL

\* Such a trigger never returns ErrTriggerExpired, so never before the years of its
\* expression are over.
THEOREM NeverExpires ==
    ASSUME RegularCases, YearsAssumption
    PROVE  Spec => [](ExpiresAtTheEnd /\ status # "expired")
<1>1. RegularInv => ExpiresAtTheEnd /\ status # "expired" BY DEF RegularInv, ExpiresAtTheEnd
<1>2. QED BY <1>1, RegularHolds, PTL

=============================================================================
