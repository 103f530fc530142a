----------------------------- MODULE CronParser -----------------------------
(***************************************************************************)
(* From a cron expression to its fields (quartz/cron.go, quartz/util.go).  *)
(* An expression is the sequence of its tokens. What the parser tells      *)
(* apart by characters and regular expressions is the `is' of a token:     *)
(*                                                                         *)
(*   any          *                   last         L                       *)
(*   none         ?                   lastMinus    L-3                     *)
(*   value        5, MON              weekday      15W                     *)
(*   range        1-5, MON-FRI        lastWeekday  LW                      *)
(*   step         */5, 3/5, 1-9/2     lastOf       6L, FRIL                *)
(*   list         1,5-7,0/20          nth          6#3                     *)
(*   special      @daily                                                   *)
(*                                                                         *)
(* A literal is <<"num", n>> or <<"name", s>>. The sorted slice of a       *)
(* field's values is a set: it is only searched for its least element, for *)
(* the next greater one and for membership.                                *)
(***************************************************************************)
EXTENDS Integers, Sequences, SequencesExt

Num(n) == [is |-> "value", lit |-> <<"num", n>>]
AnyValue == [is |-> "any"]
Unset == {"any", "none"}

\* What a token of each kind is made of, once the parser has told it apart.
Literals == ({"num"} \X Int) \cup ({"name"} \X STRING)

IsSpan(t) ==
    /\ t.is = "value" => t.lit \in Literals
    /\ t.is = "range" => t.from \in Literals /\ t.to \in Literals

IsItem(t) ==
    /\ IsSpan(t)
    /\ t.is = "step" => /\ t.of.is \in Unset \cup {"value", "range"} /\ IsSpan(t.of)
                        /\ t.by \in Int

IsToken(t) ==
    /\ IsItem(t)
    /\ t.is = "list" => /\ ToSet(t.items) # {}
                        /\ \A item \in ToSet(t.items) : IsItem(item)
    /\ t.is \in {"lastMinus", "nth"} => t.n \in Int
    /\ t.is = "weekday" => t.day \in Int
    /\ t.is \in {"lastOf", "nth"} => t.day \in Literals

\* A sequence of tokens, one at least.
IsExpression(e) ==
    /\ e \in Seq({e[i] : i \in 1..Len(e)})
    /\ Len(e) > 0
    /\ \A i \in 1..Len(e) : IsToken(e[i])

monthNames ==
    [JAN |-> 1, FEB |-> 2, MAR |-> 3, APR |-> 4, MAY |-> 5, JUN |-> 6,
     JUL |-> 7, AUG |-> 8, SEP |-> 9, OCT |-> 10, NOV |-> 11, DEC |-> 12]
dayNames ==
    [SUN |-> 1, MON |-> 2, TUE |-> 3, WED |-> 4, THU |-> 5, FRI |-> 6, SAT |-> 7]
noNames == <<>>

\* The pre-defined expressions, by name.
special ==
    LET zero == Num(0)
        one == Num(1)
        star == AnyValue
    IN  [name \in {"@yearly", "@monthly", "@weekly", "@daily", "@hourly"} |->
            CASE name = "@yearly"  -> <<zero, zero, zero, one, one, star>>
              [] name = "@monthly" -> <<zero, zero, zero, one, star, star>>
              [] name = "@weekly"  -> <<zero, zero, zero, star, star, one>>
              [] name = "@daily"   -> <<zero, zero, zero, star, star, star>>
              [] name = "@hourly"  -> <<zero, zero, star, star, star, star>>]

\* normalize returns an error exactly when Known is false.
Known(lit, names) == lit[1] = "num" \/ lit[2] \in DOMAIN names
normalize(lit, names) == IF lit[1] = "num" THEN lit[2] ELSE names[lit[2]]

inScope(v, bound) == bound[1] <= v /\ v <= bound[2]

\* cronField; ParseError stands for every error of the parser.
Field(values, n) == [ok |-> TRUE, values |-> values, n |-> n]
ParseError == [ok |-> FALSE, values |-> {}, n |-> 0]
FieldIf(accepted, field) == IF accepted THEN field ELSE ParseError

Given(lit, bound, names) == Known(lit, names) /\ inScope(normalize(lit, names), bound)

fillRangeValues(from, to) == from..to
fillStepValues(from, step, to) == {i \in from..to : (i - from) % step = 0}

parseRangeField(t, bound, names) ==
    FieldIf(/\ Given(t.from, bound, names)
            /\ Given(t.to, bound, names)
            /\ normalize(t.from, names) <= normalize(t.to, names),
            Field(fillRangeValues(normalize(t.from, names), normalize(t.to, names)), 0))

\* The literals between which a step moves: those of `of', if it names them.
\* No field has a name "?".
StepFrom(of, bound) ==
    CASE of.is = "any" -> <<"num", bound[1]>>
      [] of.is = "none" -> <<"name", "?">>
      [] of.is = "value" -> of.lit
      [] of.is = "range" -> of.from
StepTo(of, bound) == IF of.is = "range" THEN of.to ELSE <<"num", bound[2]>>

parseStepField(t, bound, names) ==
    LET from == StepFrom(t.of, bound)
        to == StepTo(t.of, bound)
    IN  FieldIf(/\ Given(from, bound, names)
                /\ Given(to, bound, names)
                /\ inScope(t.by, <<1, bound[2]>>)
                /\ normalize(from, names) <= normalize(to, names),
                Field(fillStepValues(normalize(from, names), t.by, normalize(to, names)), 0))

\* The elements of a list are values, ranges and steps. A plain value only
\* has to be known: it is not compared with the bound.
parseListItem(t, bound, names) ==
    CASE t.is = "step" -> parseStepField(t, bound, names)
      [] t.is = "range" -> parseRangeField(t, bound, names)
      [] t.is = "value" -> FieldIf(Known(t.lit, names), Field({normalize(t.lit, names)}, 0))
      [] OTHER -> ParseError

parseListField(t, bound, names) ==
    LET items == {parseListItem(item, bound, names) : item \in ToSet(t.items)}
    IN  FieldIf(\A item \in items : item.ok, Field(UNION {item.values : item \in items}, 0))

parseField(t, bound, names) ==
    CASE t.is \in Unset -> Field({}, 0)
      [] t.is = "list" -> parseListField(t, bound, names)
      [] t.is = "step" -> parseStepField(t, bound, names)
      [] t.is = "range" -> parseRangeField(t, bound, names)
      [] t.is = "value" -> FieldIf(Given(t.lit, bound, names),
                                   Field({normalize(t.lit, names)}, 0))
      [] OTHER -> ParseError

\* The special values n of a day node (internal/csm/day_node.go); a negative
\* n counts days from the end of the month, or stands for the last weekday.
NLastDayOfMonth == 1
NWeekday == 2

parseDayOfMonthField(t, bound, names) ==
    CASE t.is = "last" -> Field({}, NLastDayOfMonth)
      [] t.is = "lastMinus" -> FieldIf(inScope(t.n, bound), Field({}, -t.n))
      [] t.is = "lastWeekday" -> Field({0}, NLastDayOfMonth + NWeekday)
      [] t.is = "weekday" -> FieldIf(inScope(t.day, bound), Field({t.day}, NWeekday))
      [] OTHER -> parseField(t, bound, names)

\* Mutant of parseDayOfWeekField: the number after # is not looked at.
parseAnyNth(t, bound, names) ==
    CASE t.is = "last" -> Field({7}, -1)
      [] t.is = "lastOf" -> FieldIf(Given(t.day, bound, names),
                                    Field({normalize(t.day, names)}, -1))
      [] t.is = "nth" -> FieldIf(Given(t.day, bound, names),
                                 Field({normalize(t.day, names)}, t.n))
      [] OTHER -> parseField(t, bound, names)

parseDayOfWeekField(t, bound, names) ==
    CASE t.is = "last" -> Field({7}, -1)
      [] t.is = "lastOf" -> FieldIf(Given(t.day, bound, names),
                                    Field({normalize(t.day, names)}, -1))
      [] t.is = "nth" -> FieldIf(Given(t.day, bound, names) /\ inScope(t.n, <<1, 5>>),
                                 Field({normalize(t.day, names)}, t.n))
      [] OTHER -> parseField(t, bound, names)

\* cronField.add: from 1..7 to the numbers of time.Weekday.
add(field, delta) == [field EXCEPT !.values = {v + delta : v \in field.values}]

buildCronField(t) ==
    << parseField(t[1], <<0, 59>>, noNames),
       parseField(t[2], <<0, 59>>, noNames),
       parseField(t[3], <<0, 23>>, noNames),
       parseDayOfMonthField(t[4], <<1, 31>>, noNames),
       parseField(t[5], <<1, 12>>, monthNames),
       add(parseDayOfWeekField(t[6], <<1, 7>>, dayNames), -1),
       parseField(t[7], <<1970, 3940>>, noNames) >>

Tokens(expression) ==
    IF expression[1].is = "special" /\ expression[1].name \in DOMAIN special
    THEN special[expression[1].name]
    ELSE expression

\* The seven tokens: without a year, every year.
WithYear(tokens) == IF Len(tokens) = 6 THEN Append(tokens, AnyValue) ELSE tokens

\* Mutant of DayFieldSetTwice: * or ? is required of neither.
NeverTwice(t) == FALSE

DayFieldSetTwice(t) == t[4].is \notin Unset /\ t[6].is \notin Unset

\* The fields, or <<>> for an error.
parseCronExpression(expression) ==
    LET t == WithYear(Tokens(expression))
        fields == buildCronField(t)
    IN  IF /\ Len(t) = 7
           /\ ~DayFieldSetTwice(t)
           /\ \A i \in 1..7 : fields[i].ok
        THEN fields
        ELSE <<>>

\* NewCronTrigger: a full wildcard expression gets the list of all seconds.
newFields(expression) ==
    LET fields == parseCronExpression(expression)
    IN  IF fields # <<>> /\ \A i \in 1..7 : fields[i].values = {}
        THEN [fields EXCEPT ![1].values = fillRangeValues(0, 59)]
        ELSE fields

=============================================================================
