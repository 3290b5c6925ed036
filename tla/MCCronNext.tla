----------------------------- MODULE MCCronNext -----------------------------
(* Instances of CronNext for TLC.                                          *)
EXTENDS CronNext

\* Days at the ends of months and of years, common and leap.
StartDays == {DaysFromCivil(2023, 1, 31), DaysFromCivil(2024, 2, 28),
              DaysFromCivil(2025, 12, 31), DaysFromCivil(2026, 7, 31)}
StartTimes ==
    {[Midnight(d) EXCEPT !.hour = t[1], !.minute = t[2], !.sec = t[3]] :
        d \in StartDays,
        t \in {<<0, 0, 0>>, <<10, 30, 1>>, <<12, 0, 1>>, <<23, 59, 0>>}}

Cron(m, h, dom, mon, dow) ==
    [minute |-> m, hour |-> h, dayOfMonth |-> dom, month |-> mon, dayOfWeek |-> dow]
Noon == Number(12)
Zero == Number(0)
Listed(s) == List([k \in DOMAIN s |-> Item(s[k], s[k], 0)])

CustomCrons == {
    Cron(Star, Star, Star, Star, Star),
    Cron(List(<<Item(0, 59, 15)>>), Star, Star, Star, Star),                \* */15
    Cron(List(<<Item(50, 10, 20)>>), List(<<Item(22, 2, 0)>>), Whatever, Star, Whatever),
    Cron(List(<<Item(58, 1, 0), Item(30, 30, 0)>>), Star, Star, Star, Star),
    Cron(Listed(<<30, 10>>), Star, Star, Star, Star),                       \* out of order
    Cron(Zero, Noon, LastDay, Star, Star),
    Cron(Zero, Noon, LastDay, Number(2), Number(5)),
    Cron(Zero, Noon, NearestWeekday(1), Star, Whatever),
    Cron(Zero, Noon, NearestWeekday(31), Star, Whatever),
    Cron(Zero, Noon, Star, Star, LastOfMonth(5)),
    Cron(Zero, Noon, Whatever, Star, NthOfMonth(5, 2)),
    Cron(Zero, Noon, Whatever, Star, NthOfMonth(0, 5)),
    Cron(Zero, Noon, Listed(<<1, 30>>), Star, Star),
    Cron(Zero, Zero, Number(13), Star, Number(5)),
    Cron(Zero, Zero, Number(29), Number(2), Number(1)),
    Cron(Zero, Zero, Number(30), Number(2), Star),                          \* never
    Cron(Zero, Zero, Listed(<<30, 10>>), Number(2), Star),                  \* never found
    Cron(Zero, Zero, List(<<Item(5, 10, 0)>>), List(<<Item(11, 2, 0)>>), List(<<Item(5, 1, 0)>>)),
    Cron(Zero, Zero, List(<<Item(10, 5, 0)>>), Star, Star),                 \* refused below
    Cron(List(<<Item(0, 59, 60)>>), Star, Star, Star, Star),
    Cron(Listed(<<5, 5>>), Star, Star, Star, Star),
    Cron(List(<<Item(0, 59, 15), Item(7, 7, 0)>>), Star, Star, Star, Star),
    Cron(Zero, Number(24), Star, Star, Star)}

\* The panel's inputs, in range and just past it; a date of leap years, and one
\* of no year.
PanelForms ==
    {[kind |-> k, minute |-> i[1], hour |-> i[2], dayOfMonth |-> i[3],
      month |-> i[4], dayOfWeek |-> i[5]] :
        k \in Kinds, i \in {<<0, 0, 1, 1, 0>>, <<59, 23, 31, 12, 6>>, <<60, 24, 0, 0, 7>>,
                         <<30, 6, 29, 2, 3>>, <<0, 0, 31, 4, 3>>}}
Forms == PanelForms \cup {[kind |-> "custom", custom |-> c] : c \in CustomCrons}
ThirtyYears == 30 * 365 + 8

=============================================================================
