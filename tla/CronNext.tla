------------------------------ MODULE CronNext ------------------------------
(***************************************************************************)
(* From a schedule the user enters to the next time it stands for: the     *)
(* form of the actions panel (build_cron_from_form), the five fields and   *)
(* their validation (libraries/cron_parser), classify_schedule (storage),  *)
(* and cron_expression::calc_next, one action per round of its loop.       *)
(*                                                                         *)
(* A field's text is modelled by what it parses to: "*", "?", a list of    *)
(* items, or one of the forms with L, W and #.  A time is the day since    *)
(* the epoch, hour, minute, and 1 for any seconds past the minute: no      *)
(* operation of the search but date_time(y, m, d) changes the seconds, and *)
(* that one clears them.                                                   *)
(*                                                                         *)
(* Texts the parser takes for something else than they look like are left  *)
(* out (FieldValue): a list that ends in a step (1,2/60, whose step is     *)
(* compared with another length, and whose values may repeat), and, in the *)
(* day fields, ?, L, W or # inside a list, a range or a step (?/5, 5L,2)   *)
(* or after a weekday's name (FRIL: accepted, and match throws).           *)
(***************************************************************************)
EXTENDS Integers, Sequences, FiniteSets, SequencesExt

CONSTANTS
    Form,       \* what the user may enter: [kind, minute, hour, ..., custom]
    StartTime,  \* times at which next_scheduled_dag may ask
    Horizon     \* bound: days looked ahead for a match when the search gives up

VARIABLES
    form,       \* the form that was filled in
    at,         \* where the request is
    expr,       \* the cron expression: field name -> value
    start,      \* timePoint, to the second
    fraction,   \* timePoint has a fraction of a second
    next,       \* nextTime
    rounds      \* rounds of calc_next's loop

vars == <<form, at, expr, start, fraction, next, rounds>>

-----------------------------------------------------------------------------
\* date_time: the civil calendar, after Howard Hinnant's algorithms.

DaysFromCivil(y, m, d) ==
    LET yy == IF m <= 2 THEN y - 1 ELSE y
        era == yy \div 400
        yoe == yy - era * 400
        doy == (153 * (IF m > 2 THEN m - 3 ELSE m + 9) + 2) \div 5 + d - 1
    IN  era * 146097 + yoe * 365 + yoe \div 4 - yoe \div 100 + doy - 719468

CivilFromDays(days) ==
    LET z == days + 719468
        era == z \div 146097
        doe == z - era * 146097
        yoe == (doe - doe \div 1460 + doe \div 36524 - doe \div 146096) \div 365
        doy == doe - (365 * yoe + yoe \div 4 - yoe \div 100)
        mp == (5 * doy + 2) \div 153
        m == IF mp < 10 THEN mp + 3 ELSE mp - 9
    IN  [year |-> yoe + era * 400 + (IF m <= 2 THEN 1 ELSE 0),
         month |-> m,
         day |-> doy - (153 * mp + 2) \div 5 + 1]

DayOfWeek(days) == (days + 4) % 7
IsWeekend(days) == DayOfWeek(days) \in {0, 6}
IsLeap(y) == y % 4 = 0 /\ (y % 100 # 0 \/ y % 400 = 0)
LastDayOfMonth(y, m) ==
    IF m = 2 THEN (IF IsLeap(y) THEN 29 ELSE 28)
    ELSE <<31, 28, 31, 30, 31, 30, 31, 31, 30, 31, 30, 31>>[m]

\* to_time_point takes the years 1970 to 5137: a search from before 4100 stays
\* within them, as no round moves on by more than a year and some days.
Midnight(days) == [day |-> days, hour |-> 0, minute |-> 0, sec |-> 0]
Date(y, m, d) == Midnight(DaysFromCivil(y, m, d))
Epoch == Midnight(0)
MinuteNumber(t) == (t.day * 24 + t.hour) * 60 + t.minute

-----------------------------------------------------------------------------
\* Fields: range_start(), range_end() and _allowBackwardRange.
Limits == [month      |-> [lo |-> 1, hi |-> 12, backward |-> TRUE],
           dayOfMonth |-> [lo |-> 1, hi |-> 31, backward |-> FALSE],
           dayOfWeek  |-> [lo |-> 0, hi |-> 6,  backward |-> TRUE],
           hour       |-> [lo |-> 0, hi |-> 23, backward |-> TRUE],
           minute     |-> [lo |-> 0, hi |-> 59, backward |-> TRUE]]
FieldOrder == <<"month", "dayOfMonth", "dayOfWeek", "hour", "minute">>

\* A number n is the item n..n without a step (0); "a/s" and "*/s" reach to
\* the field's end.
Item(from, to, step) == [from |-> from, to |-> to, step |-> step]
List(items) == [form |-> "list", items |-> items]
Number(n) == List(<<Item(n, n, 0)>>)
Star == [form |-> "star"]
Whatever == [form |-> "any"]                                         \* ?
LastDay == [form |-> "last"]                                       \* L
NearestWeekday(d) == [form |-> "weekday", day |-> d]            \* 15W
LastOfMonth(w) == [form |-> "lastOfMonth", day |-> w]           \* 5L
NthOfMonth(w, n) == [form |-> "nth", day |-> w, count |-> n]    \* 5#2

\* create_list.
Arithmetic(a, b, step) ==
    [k \in 1..((b - a) \div step + 1) |-> a + (k - 1) * step]
ItemValues(f, i) ==
    LET step == IF i.step = 0 THEN 1 ELSE i.step
    IN  IF i.from > i.to
        THEN Arithmetic(i.from, Limits[f].hi, step) \o Arithmetic(Limits[f].lo, i.to, step)
        ELSE Arithmetic(i.from, i.to, step)
CreateList(f, v) ==
    FlattenSeq([k \in DOMAIN v.items |-> ItemValues(f, v.items[k])])

\* cron_field::validate of one item: bounds, direction and step width.
ItemValid(f, i) ==
    LET lim == Limits[f]
        length == IF i.to < i.from
                  THEN lim.hi - i.from + i.to + (IF lim.lo < 1 THEN 1 ELSE 0)
                  ELSE i.to - i.from
    IN  /\ {i.from, i.to} \subseteq lim.lo..lim.hi
        /\ i.from > i.to => lim.backward
        /\ i.step > 0 => i.step <= length

\* The text is split at its step first: one before another item is refused.
ListValid(f, v) == /\ \A k \in DOMAIN v.items :
                         /\ ItemValid(f, v.items[k])
                         /\ v.items[k].step > 0 => k = Len(v.items)
                   /\ IsInjective(CreateList(f, v))

DayOfMonthValid(v) == \/ v.form \in {"any", "last"}
                      \/ v.form = "weekday" /\ v.day \in 1..31
DayOfWeekValid(v) == \/ v.form = "any"
                     \/ v.form \in {"lastOfMonth", "nth"} /\ v.day \in 0..6
                        /\ (v.form = "nth" => v.count \in 1..5)

FieldValid(f, v) == \/ v.form = "star"
                    \/ v.form = "list" /\ ListValid(f, v)
                    \/ f = "dayOfMonth" /\ DayOfMonthValid(v)
                    \/ f = "dayOfWeek" /\ DayOfWeekValid(v)
Valid(e) == \A f \in DOMAIN Limits : FieldValid(f, e[f])

-----------------------------------------------------------------------------
\* match.

\* Mutant: the nearest weekday may lie in another month.
CalcNearestWeekdayAnywhere(y, m, d) ==
    LET days == DaysFromCivil(y, m, d)
    IN  CASE DayOfWeek(days) = 6 -> CivilFromDays(days - 1).day
          [] DayOfWeek(days) = 0 -> CivilFromDays(days + 1).day
          [] OTHER -> d

\* calc_nearest_weekday: the first of four neighbors that is in the month.
CalcNearestWeekday(y, m, d) ==
    LET offsets == <<-1, 1, -2, 2>>
        Fits(o) == /\ d + o \in 1..LastDayOfMonth(y, m)
                   /\ ~IsWeekend(DaysFromCivil(y, m, d + o))
        fitting == {k \in 1..4 : Fits(offsets[k])}
    IN  IF ~IsWeekend(DaysFromCivil(y, m, d)) THEN d
        ELSE d + offsets[CHOOSE k \in fitting : \A j \in fitting : k <= j]

\* The n-th such weekday counted from the first of the month.  The loop's
\* exit test, day() < lastDayOfMonth + 1, does not stop it at the month's end.
NthFrom(y, m, w, n) ==
    LET first == DaysFromCivil(y, m, 1)
    IN  CivilFromDays(first + ((w - DayOfWeek(first)) % 7) + 7 * (n - 1)).day

ListMatches(f, v, value) == v.form = "list" /\ value \in ToSet(CreateList(f, v))

DayOfMonthMatches(v, c) ==
    LET last == LastDayOfMonth(c.year, c.month)
    IN  \/ v.form = "last" /\ c.day = last
        \/ /\ v.form = "weekday"
           /\ c.day = CalcNearestWeekday(c.year, c.month, IF v.day > last THEN last ELSE v.day)
        \/ ListMatches("dayOfMonth", v, c.day)

DayOfWeekMatches(v, c, weekday) ==
    LET last == DaysFromCivil(c.year, c.month, LastDayOfMonth(c.year, c.month))
    IN  \/ /\ v.form = "lastOfMonth"
           /\ c.day = CivilFromDays(last - ((DayOfWeek(last) - v.day) % 7)).day
        \/ /\ v.form = "nth"
           /\ weekday = v.day
           /\ c.day = NthFrom(c.year, c.month, v.day, v.count)
        \/ ListMatches("dayOfWeek", v, weekday)

FieldMatches(f, v, t) ==
    LET c == CivilFromDays(t.day)
    IN  CASE v.form \in {"star", "any"} -> TRUE
          [] v.form \notin {"star", "any"} /\ f = "dayOfMonth" -> DayOfMonthMatches(v, c)
          [] v.form \notin {"star", "any"} /\ f = "dayOfWeek" ->
                DayOfWeekMatches(v, c, DayOfWeek(t.day))
          [] OTHER -> ListMatches(f, v, [month |-> c.month, hour |-> t.hour,
                                         minute |-> t.minute][f])

Mismatches(e, t) ==
    {k \in DOMAIN FieldOrder : ~FieldMatches(FieldOrder[k], e[FieldOrder[k]], t)}
Matches(e, t) == Mismatches(e, t) = {}

-----------------------------------------------------------------------------
\* increment.

\* Mutant: the value itself counts as a later one.
LaterInListOrSame(list, x) ==
    LET between == {i \in 1..Len(list) - 1 : x > list[i] /\ x <= list[i + 1]}
    IN  list[IF between = {} THEN 1 ELSE 1 + CHOOSE i \in between : \A j \in between : i <= j]

\* list[pos]: the end of the first gap of the list x lies in, else its head.
LaterInList(list, x) ==
    LET between == {i \in 1..Len(list) - 1 : x >= list[i] /\ x < list[i + 1]}
    IN  list[IF between = {} THEN 1 ELSE 1 + CHOOSE i \in between : \A j \in between : i <= j]

NextDay(t) == [Midnight(t.day + 1) EXCEPT !.sec = t.sec]

IncrementMinute(v, t) ==
    LET hourLater == IF t.hour = 23
                     THEN NextDay(t)
                     ELSE [t EXCEPT !.hour = t.hour + 1, !.minute = 0]
        later == LaterInList(CreateList("minute", v), t.minute)
    IN  CASE v.form = "star" /\ t.minute < 59 -> [t EXCEPT !.minute = t.minute + 1]
          [] v.form = "star" /\ t.minute = 59 -> hourLater
          [] v.form # "star" /\ t.minute >= later -> hourLater
          [] OTHER -> [t EXCEPT !.minute = later]

\* The others are called only when they do not match, so never for "*" or "?".
IncrementHour(v, t) ==
    LET later == LaterInList(CreateList("hour", v), t.hour)
    IN  IF t.hour >= later THEN NextDay(t)
                           ELSE [t EXCEPT !.hour = later, !.minute = 0]

IncrementMonth(v, c) ==
    LET later == LaterInList(CreateList("month", v), c.month)
    IN  IF c.month >= later THEN Date(c.year + 1, 1, 1) ELSE Date(c.year, later, 1)

\* Mutant: the first of the month, but not of the next.
IncrementDayOfMonthStays(v, c, t) ==
    LET later == LaterInList(CreateList("dayOfMonth", v), c.day)
    IN  CASE v.form # "list" -> NextDay(t)
          [] v.form = "list" /\ c.day >= later -> Midnight(t.day - c.day + 1)
          [] OTHER -> Date(c.year, c.month, later)

\* A day the month does not have runs over into the next.
IncrementDayOfMonth(v, c, t) ==
    LET later == LaterInList(CreateList("dayOfMonth", v), c.day)
    IN  CASE v.form # "list" -> NextDay(t)
          [] v.form = "list" /\ c.day >= later -> Midnight(t.day - c.day + 1
                                                   + LastDayOfMonth(c.year, c.month))
          [] OTHER -> Date(c.year, c.month, later)

Increment(f, v, t) ==
    LET c == CivilFromDays(t.day)
    IN  CASE f = "month" -> IncrementMonth(v, c)
          [] f = "dayOfMonth" -> IncrementDayOfMonth(v, c, t)
          [] f = "dayOfWeek" -> NextDay(t)
          [] f = "hour" -> IncrementHour(v, t)
          [] f = "minute" -> IncrementMinute(v, t)

-----------------------------------------------------------------------------
\* build_cron_from_form: five numbers by the kind of schedule, each parsed
\* within its range; none if one is out of range, or for kind "none".

\* Mutant: the weekday stands where the day of the month belongs.
FormFieldsSwapped(kind) ==
    CASE kind = "weekly" -> {"minute", "hour", "dayOfMonth"}
      [] kind = "monthly" -> {"minute", "hour", "dayOfWeek"}
      [] OTHER -> {"minute", "hour"}

FormFields(kind) ==
    CASE kind = "hourly" -> {"minute"}
      [] kind = "daily" -> {"minute", "hour"}
      [] kind = "weekly" -> {"minute", "hour", "dayOfWeek"}
      [] kind = "monthly" -> {"minute", "hour", "dayOfMonth"}
      [] kind = "yearly" -> {"minute", "hour", "dayOfMonth", "month"}

InRange(f, n) == n \in Limits[f].lo..Limits[f].hi
FormAccepted(x) == x.kind = "custom" \/ \A f \in FormFields(x.kind) : InRange(f, x[f])
CronFromForm(x) ==
    IF x.kind = "custom" THEN x.custom
    ELSE [f \in DOMAIN Limits |-> IF f \in FormFields(x.kind) THEN Number(x[f]) ELSE Star]

\* classify_schedule.
IsStarLike(v) == v.form \in {"star", "any"}
IsSimple(v) == \/ v.form \notin {"star", "list"}
               \/ /\ v.form = "list"
                  /\ Len(v.items) = 1
                  /\ v.items[1].from = v.items[1].to
Classify(e) ==
    LET days == {"dayOfMonth", "month", "dayOfWeek"}
        starred == {f \in days : IsStarLike(e[f])}
    IN  IF ~IsSimple(e.minute) THEN "custom"
        ELSE IF starred = days /\ IsStarLike(e.hour) THEN "hourly"
        ELSE IF ~IsSimple(e.hour) THEN "custom"
        ELSE CASE starred = days -> "daily"
               [] starred = {"dayOfMonth", "month"} -> "weekly"
               [] starred = {"month", "dayOfWeek"} -> "monthly"
               [] starred \subseteq {"dayOfWeek"} -> "yearly"
               [] OTHER -> "custom"

-----------------------------------------------------------------------------
\* What a user may enter, and when the search may begin.  A step below 1 is
\* refused as the text it is; a list has an item, or the field is no field.
Items == {s \in Seq([from : Int, to : Int, step : Nat]) :
             s # <<>> /\ (Len(s) > 1 => s[Len(s)].step = 0)}
FieldValue == {Star, Whatever, LastDay}
    \cup [form : {"list"}, items : Items]
    \cup [form : {"weekday", "lastOfMonth"}, day : Int]
    \cup [form : {"nth"}, day : Int, count : Int]
Kinds == {"hourly", "daily", "weekly", "monthly", "yearly"}
PanelForm == [kind : Kinds, minute : Int, hour : Int, dayOfMonth : Int, month : Int,
              dayOfWeek : Int]
CustomForm == [kind : {"custom"}, custom : [DOMAIN Limits -> FieldValue]]
Time == [day : Int, hour : 0..23, minute : 0..59, sec : {0, 1}]

ASSUME CronAssumption == /\ Form \subseteq PanelForm \cup CustomForm
                         /\ StartTime \subseteq Time
                         /\ Horizon \in Nat

NoCron == [f \in {} |-> Star]
MaxRounds == 1000

Init == /\ form \in Form
        /\ at = "form"
        /\ expr = NoCron
        /\ start = Epoch
        /\ fraction = FALSE
        /\ next = Epoch
        /\ rounds = 0

\* The user submits the form: "Invalid schedule input", or a cron expression.
Submit == /\ at = "form"
          /\ IF FormAccepted(form)
             THEN at' = "stored" /\ expr' = CronFromForm(form)
             ELSE at' = "refused" /\ expr' = expr
          /\ UNCHANGED <<form, start, fraction, next, rounds>>

\* next_scheduled_dag constructs the cron_expression, which throws if a field
\* is invalid: the schedule is then ignored.  The search starts now.
Ask == /\ at = "stored"
       /\ IF Valid(expr)
          THEN /\ at' = "search"
               /\ start' \in StartTime
               /\ fraction' \in BOOLEAN
               /\ next' = start'
          ELSE at' = "ignored" /\ UNCHANGED <<start, fraction, next>>
       /\ UNCHANGED <<form, expr, rounds>>

Round == /\ at = "search"
         /\ rounds < MaxRounds
         /\ rounds' = rounds + 1
         /\ UNCHANGED <<form, expr, start, fraction>>

\* A field does not match: it moves the time on.
Advance == /\ Round
           /\ ~Matches(expr, next)
           /\ LET first == CHOOSE k \in Mismatches(expr, next) :
                              \A j \in Mismatches(expr, next) : k <= j
                  f == FieldOrder[first]
              IN  next' = Increment(f, expr[f], next)
           /\ UNCHANGED at

\* The time asked for matches itself, to the fraction of a second.
LeaveNow == /\ Round
            /\ Matches(expr, next)
            /\ next = start /\ ~fraction
            /\ next' = IncrementMinute(expr.minute, next)
            /\ UNCHANGED at

Return == /\ Round
          /\ Matches(expr, next)
          /\ next # start \/ fraction
          /\ at' = "answered"
          /\ UNCHANGED next

\* After the last round the default time_point is returned.
GiveUp == /\ at = "search"
          /\ rounds = MaxRounds
          /\ at' = "gaveUp"
          /\ next' = Epoch
          /\ UNCHANGED <<form, expr, start, fraction, rounds>>

Next == Submit \/ Ask \/ Advance \/ LeaveNow \/ Return \/ GiveUp

Spec == Init /\ [][Next]_vars

-----------------------------------------------------------------------------
\* A list the search follows: ascending, or wrapping round once at the field's
\* start, as a backward range does.
InOrder(f, list) ==
    LET descents == {k \in 1..Len(list) - 1 : list[k] > list[k + 1]}
    IN  descents = {} \/ /\ Cardinality(descents) = 1
                         /\ \A k \in descents : list[k + 1] = Limits[f].lo
                         /\ list[Len(list)] < list[1]
AllInOrder(e) == \A f \in DOMAIN e : e[f].form = "list" => InOrder(f, CreateList(f, e[f]))

\* The list of days names one that the month before this day lacks: stepping
\* to it ran over into the month of this day.
PassedOver(e, days) ==
    LET c == CivilFromDays(days)
        before == CivilFromDays(days - c.day)
    IN  /\ c.day <= 2
        /\ e.dayOfMonth.form = "list"
        /\ \E d \in ToSet(CreateList("dayOfMonth", e.dayOfMonth)) : d > before.day

DayMatches(e, days) == \A k \in 1..3 :
    FieldMatches(FieldOrder[k], e[FieldOrder[k]], Midnight(days))
ValuesOf(f, v) == IF v.form = "list" THEN ToSet(CreateList(f, v))
                                     ELSE Limits[f].lo..Limits[f].hi

(* No step of the search jumps over a minute that matches, from one field  *)
(* to the next, over the ends of days, months and years, except where the  *)
(* code does: in a list that is not in order, and on the first days of a   *)
(* month when the list names a day the month before does not have.         *)
NothingElseIsSkipped ==
    [][at = "search" /\ at' = "search" /\ AllInOrder(expr) =>
          \A days \in next.day..next'.day :
             DayMatches(expr, days) /\ ~PassedOver(expr, days) =>
                \A h \in ValuesOf("hour", expr.hour),
                   m \in ValuesOf("minute", expr.minute) :
                   LET n == (days * 24 + h) * 60 + m
                   IN  n <= MinuteNumber(next) \/ n >= MinuteNumber(next')]_vars

Distance(a, b) == IF a < b THEN b - a ELSE a - b

\* What the comments of the fields say a day is to be.
DocumentedDay(e, days) ==
    LET c == CivilFromDays(days)
        last == LastDayOfMonth(c.year, c.month)
        weekdays == {d \in 1..last : ~IsWeekend(days - c.day + d)}
        dom == e.dayOfMonth
        dow == e.dayOfWeek
        target == IF dom.day > last THEN last ELSE dom.day
    IN  /\ FieldMatches("month", e.month, Midnight(days))
        /\ CASE dom.form = "last" -> CivilFromDays(days + 1).day = 1
             [] dom.form = "weekday" ->
                   /\ c.day \in weekdays
                   /\ \A d \in weekdays : Distance(c.day, target) <= Distance(d, target)
             [] OTHER -> FieldMatches("dayOfMonth", dom, Midnight(days))
        /\ CASE dow.form = "lastOfMonth" ->
                   DayOfWeek(days) = dow.day /\ CivilFromDays(days + 7).month # c.month
             [] dow.form = "nth" ->
                   DayOfWeek(days) = dow.day /\ (c.day - 1) \div 7 + 1 = dow.count
             [] OTHER -> FieldMatches("dayOfWeek", dow, Midnight(days))

\* In a February of 28 days the fifth such weekday, counted on into March,
\* falls on the same day of the month as the first.
FifthInFebruary(e, days) ==
    LET c == CivilFromDays(days)
    IN  /\ e.dayOfWeek.form = "nth" /\ e.dayOfWeek.count = 5
        /\ c.month = 2 /\ ~IsLeap(c.year) /\ c.day <= 7

(* An answer is not before the time asked for, and one the expression      *)
(* stands for, as the comments of the fields explain it.  The exception is *)
(* a fifth weekday of the month in a common February.                      *)
AnswersAsDocumented ==
    at = "answered" =>
        /\ MinuteNumber(next) >= MinuteNumber(start)
        /\ next.hour \in ValuesOf("hour", expr.hour)
        /\ next.minute \in ValuesOf("minute", expr.minute)
        /\ DocumentedDay(expr, next.day) \/ FifthInFebruary(expr, next.day)

(* The search gives up only on an expression that stands for no later day  *)
(* within reach: its 1000 rounds are enough for any that does, unless a    *)
(* list is not in order (30,10 in February: it never comes to the 10th) or *)
(* the day is one the code passes over.                                    *)
GivesUpOnNone ==
    at = "gaveUp" /\ AllInOrder(expr) =>
        \A days \in start.day + 1..start.day + Horizon :
           DocumentedDay(expr, days) => PassedOver(expr, days)

(* The three parts that read a schedule agree: what the panel builds for a *)
(* kind of schedule is an expression the parser accepts and the storage    *)
(* files under that kind.                                                  *)
FormsAreUnderstood ==
    at # "form" /\ form.kind # "custom" =>
        /\ at # "ignored"
        /\ at # "refused" => Classify(expr) = form.kind

=============================================================================
