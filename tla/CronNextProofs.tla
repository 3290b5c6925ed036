--------------------------- MODULE CronNextProofs ---------------------------
(***************************************************************************)
(* From a schedule to the next time it stands for, for every form, every   *)
(* time and every length of the search.  In the order of what needs what:  *)
(* the civil calendar, in which date and day number are inverses; lists of *)
(* values, and where the code's search of a list ends; the fields and the  *)
(* expressions the parser accepts; one lemma for the increment of each     *)
(* field; the inductive invariant of the search; what an answer's day is;  *)
(* how far each round leads, and a second invariant that counts them; what *)
(* a search that gives up has looked through; the schedules of the panel.  *)
(***************************************************************************)
EXTENDS CronNext, NaturalsInduction, WellFoundedInduction, FiniteSetTheorems,
        SequenceTheorems, TLAPS

\* The year of the 400 years of an era, and the day of that year.
LEMMA YearOfEra ==
    ASSUME NEW doe \in Int, 0 <= doe, doe <= 146096
    PROVE  LET yoe == (doe - doe \div 1460 + doe \div 36524 - doe \div 146096) \div 365
               doy == doe - (365 * yoe + yoe \div 4 - yoe \div 100)
           IN  /\ yoe \in 0..399
               /\ doy \in 0..365
               /\ doy = 365 => (yoe + 1) % 4 = 0 /\ ((yoe + 1) % 100 # 0 \/ yoe = 399)
BY SMTT(30)

\* The month, counted from March, that a day of the year lies in.
LEMMA MonthOfYear ==
    ASSUME NEW doy \in Int, 0 <= doy, doy <= 365
    PROVE  LET mp == (5 * doy + 2) \div 153
           IN  /\ mp \in 0..11
               /\ doy >= (153 * mp + 2) \div 5
               /\ mp < 11 => doy < (153 * (mp + 1) + 2) \div 5
BY SMTT(30)

\* A month has 28 to 31 days.
LEMMA MonthTypes ==
    ASSUME NEW y \in Int, NEW m \in 1..12
    PROVE  /\ DaysFromCivil(y, m, 1) \in Int
           /\ LastDayOfMonth(y, m) \in Int
           /\ 28 <= LastDayOfMonth(y, m) /\ LastDayOfMonth(y, m) <= 31
<1>1. LastDayOfMonth(y, m) \in Int /\ 28 <= LastDayOfMonth(y, m) /\ LastDayOfMonth(y, m) <= 31
    BY SMTT(30) DEF LastDayOfMonth
<1>2. DaysFromCivil(y, m, 1) \in Int
    BY SMTT(30) DEF DaysFromCivil
<1> QED
    BY <1>1, <1>2

\* A month begins where the one before it ends.
LEMMA NextMonth ==
    ASSUME NEW y \in Int, NEW m \in 1..12
    PROVE  DaysFromCivil(y, m, 1) + LastDayOfMonth(y, m)
             = IF m = 12 THEN DaysFromCivil(y + 1, 1, 1) ELSE DaysFromCivil(y, m + 1, 1)
<1>1. CASE m = 2
    BY <1>1, SMTT(30) DEF DaysFromCivil, LastDayOfMonth, IsLeap
<1>2. CASE m = 12
    BY <1>2, SMTT(30) DEF DaysFromCivil, LastDayOfMonth
<1>3. CASE m # 2 /\ m # 12
    BY <1>3, SMTT(30) DEF DaysFromCivil, LastDayOfMonth
<1> QED
    BY <1>1, <1>2, <1>3

\* Reading a date back: every day lies in its month.
LEMMA CivilProperties ==
    ASSUME NEW days \in Int
    PROVE  LET c == CivilFromDays(days)
           IN  /\ c.year \in Int /\ c.month \in 1..12
               /\ c.day \in Int /\ 1 <= c.day /\ c.day <= LastDayOfMonth(c.year, c.month)
               /\ days = DaysFromCivil(c.year, c.month, 1) + c.day - 1
<1> DEFINE z == days + 719468
           era == z \div 146097
           doe == z - era * 146097
           yoe == (doe - doe \div 1460 + doe \div 36524 - doe \div 146096) \div 365
           doy == doe - (365 * yoe + yoe \div 4 - yoe \div 100)
           mp == (5 * doy + 2) \div 153
           m == IF mp < 10 THEN mp + 3 ELSE mp - 9
           y == yoe + era * 400 + (IF m <= 2 THEN 1 ELSE 0)
           d == doy - (153 * mp + 2) \div 5 + 1
<1>1. CivilFromDays(days) = [year |-> y, month |-> m, day |-> d]
    BY DEF CivilFromDays
<1>2. era \in Int /\ doe \in Int /\ 0 <= doe /\ doe <= 146096 /\ z = era * 146097 + doe /\ z \in Int
    BY SMTT(30)
<1> HIDE DEF era, doe, z
<1>3. /\ yoe \in 0..399 /\ doy \in 0..365
      /\ doy = 365 => (yoe + 1) % 4 = 0 /\ ((yoe + 1) % 100 # 0 \/ yoe = 399)
    BY <1>2, YearOfEra
<1>4. doe = 365 * yoe + yoe \div 4 - yoe \div 100 + doy
    BY <1>2, <1>3
<1> HIDE DEF yoe, doy
<1>5. /\ mp \in 0..11
      /\ doy >= (153 * mp + 2) \div 5
      /\ mp < 11 => doy < (153 * (mp + 1) + 2) \div 5
    BY <1>3, MonthOfYear
<1> HIDE DEF mp
<1>6. m \in 1..12 /\ y \in Int /\ d \in Int /\ d >= 1
    BY <1>2, <1>3, <1>5
<1>7. days = DaysFromCivil(y, m, 1) + d - 1
    <2>1. (IF m <= 2 THEN y - 1 ELSE y) = yoe + era * 400
        BY <1>6, <1>3, <1>2
    <2>2. (IF m > 2 THEN m - 3 ELSE m + 9) = mp
        BY <1>5
    <2>3. (yoe + era * 400) \div 400 = era
        BY <1>2, <1>3, SMTT(30)
    <2> HIDE DEF m, y, d
    <2>4. DaysFromCivil(y, m, 1) = era * 146097 + yoe * 365 + yoe \div 4 - yoe \div 100
                + (153 * mp + 2) \div 5 - 719468
        BY <2>1, <2>2, <2>3, <1>2, <1>3, <1>5, <1>6, SMTT(30) DEF DaysFromCivil
    <2>5. d = doy - (153 * mp + 2) \div 5 + 1
        BY DEF d
    <2>6. z = days + 719468
        BY DEF z
    <2> QED
        BY <2>4, <2>5, <2>6, <1>2, <1>3, <1>4, <1>5, <1>6, SMTT(30)
<1>8. d <= LastDayOfMonth(y, m)
    <2>1. CASE mp = 11
        <3>1. m = 2 /\ d = doy - 336 /\ y = yoe + era * 400 + 1
            BY <2>1, SMTT(30), <1>3
        <3>2. doy = 365 => IsLeap(y)
            BY <3>1, <1>2, <1>3, SMTT(30) DEF IsLeap
        <3> HIDE DEF m, y, d
        <3> QED
            BY <3>1, <3>2, <1>2, <1>3 DEF LastDayOfMonth
    <2>2. CASE mp < 11
        BY <2>2, <1>5, <1>3, <1>6, SMTT(30) DEF LastDayOfMonth
    <2> QED
        BY <2>1, <2>2, <1>5
<1> QED
    BY <1>1, <1>6, <1>7, <1>8, NextMonth

\* Months begin one after the other.
LEMMA MonthsAreOrdered ==
    ASSUME NEW y1 \in Int, NEW m1 \in 1..12, NEW y2 \in Int, NEW m2 \in 1..12,
           y1 < y2 \/ (y1 = y2 /\ m1 <= m2)
    PROVE  DaysFromCivil(y1, m1, 1) <= DaysFromCivil(y2, m2, 1)
<1> DEFINE yy(y, m) == IF m <= 2 THEN y - 1 ELSE y
           in(m) == (153 * (IF m > 2 THEN m - 3 ELSE m + 9) + 2) \div 5
           first(y) == 365 * y + y \div 4 - y \div 100 + y \div 400 - 719468
<1>1. ASSUME NEW y \in Int, NEW m \in 1..12
      PROVE  DaysFromCivil(y, m, 1) = first(yy(y, m)) + in(m)
    BY SMTT(30) DEF DaysFromCivil
<1>2. ASSUME NEW y \in Int, NEW z \in Int, y < z
      PROVE  first(y) + 365 <= first(z)
    BY <1>2, SMTT(30)
<1>3. \A m \in 1..12 : in(m) \in Int /\ 0 <= in(m) /\ in(m) <= 337
    BY SMTT(30)
<1>4. \A y \in Int : first(y) \in Int
    OBVIOUS
<1>5. CASE yy(y1, m1) < yy(y2, m2)
    <2> DEFINE a == yy(y1, m1)
               b == yy(y2, m2)
    <2>1. a \in Int /\ b \in Int
        OBVIOUS
    <2>2. first(a) + 365 <= first(b)
        <3> HIDE DEF a, b, first
        <3> QED
            BY <1>5, <1>2, <2>1 DEF a, b
    <2> HIDE DEF a, b, first, in
    <2>3. /\ DaysFromCivil(y1, m1, 1) = first(a) + in(m1)
          /\ DaysFromCivil(y2, m2, 1) = first(b) + in(m2)
        BY <1>1 DEF a, b
    <2>4. /\ first(a) \in Int /\ first(b) \in Int
          /\ in(m1) \in Int /\ in(m2) \in Int
          /\ 0 <= in(m1) /\ in(m1) <= 337 /\ 0 <= in(m2) /\ in(m2) <= 337
        BY <2>1, <1>3, <1>4
    <2> QED
        BY <2>2, <2>3, <2>4
<1>6. CASE ~(yy(y1, m1) < yy(y2, m2))
    <2>1. yy(y1, m1) = yy(y2, m2) /\ in(m1) <= in(m2)
        BY <1>6, SMTT(30)
    <2>2. yy(y2, m2) \in Int
        OBVIOUS
    <2> HIDE DEF in, first, yy
    <2>3. /\ DaysFromCivil(y1, m1, 1) = first(yy(y2, m2)) + in(m1)
          /\ DaysFromCivil(y2, m2, 1) = first(yy(y2, m2)) + in(m2)
        BY <2>1, <1>1
    <2>4. /\ first(yy(y2, m2)) \in Int
          /\ in(m1) \in Int /\ in(m2) \in Int
          /\ 0 <= in(m1) /\ in(m1) <= 337 /\ 0 <= in(m2) /\ in(m2) <= 337
        BY <2>2, <1>3, <1>4
    <2> QED
        BY <2>1, <2>3, <2>4
<1> QED
    BY <1>5, <1>6

Before(y1, m1, y2, m2) == y1 < y2 \/ (y1 = y2 /\ m1 < m2)

\* A month ends before a later one begins.
LEMMA MonthsApart ==
    ASSUME NEW y1 \in Int, NEW m1 \in 1..12, NEW y2 \in Int, NEW m2 \in 1..12,
           Before(y1, m1, y2, m2)
    PROVE  DaysFromCivil(y1, m1, 1) + LastDayOfMonth(y1, m1) <= DaysFromCivil(y2, m2, 1)
<1>1. CASE m1 = 12
    <2>1. /\ y1 + 1 \in Int /\ 1 \in 1..12
          /\ y1 + 1 < y2 \/ (y1 + 1 = y2 /\ 1 <= m2)
        BY <1>1 DEF Before
    <2>2. DaysFromCivil(y1 + 1, 1, 1) <= DaysFromCivil(y2, m2, 1)
        BY <2>1, MonthsAreOrdered
    <2> QED
        BY <1>1, <2>2, NextMonth
<1>2. CASE m1 # 12
    <2>1. /\ m1 + 1 \in 1..12
          /\ y1 < y2 \/ (y1 = y2 /\ m1 + 1 <= m2)
        BY <1>2 DEF Before
    <2>2. DaysFromCivil(y1, m1 + 1, 1) <= DaysFromCivil(y2, m2, 1)
        BY <2>1, MonthsAreOrdered
    <2> QED
        BY <1>2, <2>2, NextMonth
<1> QED
    BY <1>1, <1>2

\* The days of a month are counted from its first.
LEMMA DayOfThatMonth ==
    ASSUME NEW y \in Int, NEW m \in 1..12, NEW d \in Int
    PROVE  DaysFromCivil(y, m, d) = DaysFromCivil(y, m, 1) + d - 1
BY SMTT(30) DEF DaysFromCivil

\* Two months that share a day, or are not one before the other, are the same.
LEMMA LaterMonthOfLaterDay ==
    ASSUME NEW y1 \in Int, NEW m1 \in 1..12, NEW d1 \in Int, 1 <= d1,
           NEW y2 \in Int, NEW m2 \in 1..12, NEW d2 \in Int, d2 <= LastDayOfMonth(y2, m2),
           DaysFromCivil(y1, m1, 1) + d1 - 1 <= DaysFromCivil(y2, m2, 1) + d2 - 1
    PROVE  ~Before(y2, m2, y1, m1)
<1> SUFFICES ASSUME Before(y2, m2, y1, m1) PROVE FALSE
    OBVIOUS
<1>1. DaysFromCivil(y2, m2, 1) + LastDayOfMonth(y2, m2) <= DaysFromCivil(y1, m1, 1)
    BY MonthsApart
<1>2. /\ DaysFromCivil(y1, m1, 1) \in Int /\ DaysFromCivil(y2, m2, 1) \in Int
      /\ LastDayOfMonth(y2, m2) \in Int
    BY MonthTypes
<1> QED
    BY <1>1, <1>2

\* A date has one day, and a day one date.
LEMMA CivilOfDate ==
    ASSUME NEW y \in Int, NEW m \in 1..12,
           NEW d \in Int, 1 <= d, d <= LastDayOfMonth(y, m)
    PROVE  CivilFromDays(DaysFromCivil(y, m, d)) = [year |-> y, month |-> m, day |-> d]
<1> DEFINE days == DaysFromCivil(y, m, d)
           c == CivilFromDays(days)
           cy == c.year
           cm == c.month
           cd == c.day
<1>1. days = DaysFromCivil(y, m, 1) + d - 1 /\ days \in Int
    <2>1. DaysFromCivil(y, m, d) = DaysFromCivil(y, m, 1) + d - 1
        BY DayOfThatMonth
    <2>2. DaysFromCivil(y, m, 1) \in Int
        BY MonthTypes
    <2> QED
        BY <2>1, <2>2
<1> HIDE DEF days
<1>2. /\ cy \in Int /\ cm \in 1..12 /\ cd \in Int
      /\ 1 <= cd /\ cd <= LastDayOfMonth(cy, cm)
      /\ days = DaysFromCivil(cy, cm, 1) + cd - 1
    BY <1>1, CivilProperties
<1>3. c = [year |-> cy, month |-> cm, day |-> cd]
    BY DEF CivilFromDays
<1> HIDE DEF c, cy, cm, cd
<1>4. days <= days
    BY <1>1
<1>5. ~Before(cy, cm, y, m) /\ ~Before(y, m, cy, cm)
    BY <1>1, <1>2, <1>4, LaterMonthOfLaterDay
<1>6. cy = y /\ cm = m
    BY <1>2, <1>5 DEF Before
<1>7. cd = d
    <2>1. DaysFromCivil(y, m, 1) + cd - 1 = DaysFromCivil(y, m, 1) + d - 1
        BY <1>1, <1>2, <1>6
    <2>2. DaysFromCivil(y, m, 1) \in Int
        BY MonthTypes
    <2> QED
        BY <2>1, <2>2, <1>2
<1> QED
    BY <1>3, <1>6, <1>7 DEF days, c

\* Later days do not lie in earlier months.
LEMMA CivilIsOrdered ==
    ASSUME NEW a \in Int, NEW b \in Int, a <= b
    PROVE  LET ca == CivilFromDays(a)
               cb == CivilFromDays(b)
           IN  ~Before(cb.year, cb.month, ca.year, ca.month)
<1> DEFINE ya == CivilFromDays(a).year
           ma == CivilFromDays(a).month
           da == CivilFromDays(a).day
           yb == CivilFromDays(b).year
           mb == CivilFromDays(b).month
           db == CivilFromDays(b).day
<1>1. /\ ya \in Int /\ ma \in 1..12 /\ da \in Int /\ 1 <= da
      /\ a = DaysFromCivil(ya, ma, 1) + da - 1
    BY CivilProperties
<1>2. /\ yb \in Int /\ mb \in 1..12 /\ db \in Int /\ db <= LastDayOfMonth(yb, mb)
      /\ b = DaysFromCivil(yb, mb, 1) + db - 1
    BY CivilProperties
<1> HIDE DEF ya, ma, da, yb, mb, db
<1>3. ~Before(yb, mb, ya, ma)
    BY <1>1, <1>2, LaterMonthOfLaterDay
<1> QED
    BY <1>3 DEF ya, ma, yb, mb

\* A set of numbers has a least one.
LEMMA LeastNumber ==
    ASSUME NEW S, S \subseteq Nat, S # {}
    PROVE  \E m \in S : \A t \in S : m <= t
<1> DEFINE before == OpToRel(<, Nat)
<1>1. PICK m \in S : \A t \in S : <<t, m>> \notin before
    <2>1. IsWellFoundedOn(before, Nat)
        BY NatLessThanWellFounded
    <2> HIDE DEF before
    <2> QED
        BY <2>1, WFMin
<1>2. before = {p \in Nat \X Nat : p[1] < p[2]}
    BY DEF OpToRel
<1> HIDE DEF before
<1>3. \A t \in S : ~(t < m)
    BY <1>1, <1>2
<1> QED
    BY <1>3

\* Induction, for a set of numbers.
LEMMA Induction ==
    ASSUME NEW S, 0 \in S, \A n \in Nat : n \in S => n + 1 \in S
    PROVE  Nat \subseteq S
<1> SUFFICES ASSUME Nat \ S # {} PROVE FALSE
    OBVIOUS
<1>1. PICK m \in Nat \ S : \A t \in Nat \ S : m <= t
    BY LeastNumber
<1>2. m - 1 \in Nat
    BY <1>1
<1>3. m - 1 \in S
    BY <1>1, <1>2
<1> QED
    BY <1>1, <1>2, <1>3

\* What FlattenSeq builds is there.
LEMMA FlattenBuilds ==
    ASSUME NEW ss, Len(ss) \in Nat, Len(ss) > 0
    PROVE  \E f : /\ f = [i \in 1..Len(ss) |-> IF i = 1 THEN ss[i] ELSE f[i-1] \o ss[i]]
                  /\ FlattenSeq(ss) = f[Len(ss)]
<1> DEFINE n == Len(ss)
           Built(f, m) == f = [i \in 1..m |-> IF i = 1 THEN ss[i] ELSE f[i-1] \o ss[i]]
           Found == {m \in Nat : \E f : Built(f, m)}
<1>1. 0 \in Found
    <2>1. Built([i \in 1..0 |-> <<>>], 0)
        OBVIOUS
    <2> QED
        BY <2>1
<1>2. ASSUME NEW m \in Nat, m \in Found PROVE m + 1 \in Found
    <2>1. PICK f : Built(f, m)
        BY <1>2
    <2> DEFINE g == [i \in 1..m + 1 |-> IF i = 1 THEN ss[i] ELSE f[i-1] \o ss[i]]
    <2>2. \A i \in 1..m : g[i] = f[i]
        <3>1. f = [i \in 1..m |-> IF i = 1 THEN ss[i] ELSE f[i-1] \o ss[i]]
            BY <2>1
        <3>2. \A i \in 1..m : f[i] = IF i = 1 THEN ss[i] ELSE f[i-1] \o ss[i]
            BY <3>1
        <3> QED
            BY <3>2
    <2>3. \A i \in 1..m + 1 : g[i] = IF i = 1 THEN ss[i] ELSE g[i-1] \o ss[i]
        <3> SUFFICES ASSUME NEW i \in 1..m + 1, i # 1
                     PROVE  g[i - 1] = f[i - 1]
            OBVIOUS
        <3>1. i - 1 \in 1..m
            OBVIOUS
        <3> HIDE DEF g
        <3> QED
            BY <3>1, <2>2
    <2>4. Built(g, m + 1)
        BY <2>3
    <2> HIDE DEF g, Built
    <2> QED
        BY <2>4
<1>3. \E f : Built(f, n)
    <2> HIDE DEF Found
    <2>1. Nat \subseteq Found
        BY <1>1, <1>2, Induction
    <2> QED
        BY <2>1 DEF Found
<1> DEFINE g == CHOOSE f : Built(f, n)
<1>4. Built(g, n)
    BY <1>3
<1>5. FlattenSeq(ss) = g[n]
    BY DEF FlattenSeq
<1> HIDE DEF g
<1> QED
    BY <1>4, <1>5

\* A list has a value if its parts have, and those of its parts.
LEMMA FlattenSome ==
    ASSUME NEW S, NEW ss, Len(ss) \in Nat, Len(ss) > 0,
           \A k \in 1..Len(ss) : ss[k] \in Seq(S) \ {<<>>}
    PROVE  FlattenSeq(ss) \in Seq(S) \ {<<>>}
<1> DEFINE Some == Seq(S) \ {<<>>}
<1>1. PICK f : /\ f = [i \in 1..Len(ss) |-> IF i = 1 THEN ss[i] ELSE f[i-1] \o ss[i]]
               /\ FlattenSeq(ss) = f[Len(ss)]
    BY FlattenBuilds
<1>2. \A a, b \in Some : a \o b \in Some
    OBVIOUS
<1> HIDE DEF Some
<1>3. \A k \in 1..Len(ss) : ss[k] \in Some
    BY DEF Some
<1> DEFINE Good == {i \in Nat : i + 1 <= Len(ss) => f[i + 1] \in Some}
<1>4. 0 \in Good
    BY <1>1, <1>3
<1>5. ASSUME NEW i \in Nat, i \in Good PROVE i + 1 \in Good
    <2> SUFFICES ASSUME i + 2 <= Len(ss) PROVE f[i + 2] \in Some
        OBVIOUS
    <2>1. i + 2 \in 1..Len(ss) /\ i + 2 # 1 /\ (i + 2) - 1 = i + 1
        OBVIOUS
    <2>2. f[i + 2] = f[i + 1] \o ss[i + 2]
        BY <1>1, <2>1
    <2>3. f[i + 1] \in Some
        BY <1>5
    <2> QED
        BY <1>2, <1>3, <2>1, <2>2, <2>3
<1>6. Len(ss) - 1 \in Good
    <2> HIDE DEF Good
    <2>1. Nat \subseteq Good
        BY <1>4, <1>5, Induction
    <2> QED
        BY <2>1
<1> QED
    BY <1>1, <1>6 DEF Some

\* One part alone is the list.
LEMMA FlattenOne ==
    ASSUME NEW ss, Len(ss) = 1
    PROVE  FlattenSeq(ss) = ss[1]
<1>1. Len(ss) \in Nat /\ Len(ss) > 0
    OBVIOUS
<1>2. PICK f : /\ f = [i \in 1..Len(ss) |-> IF i = 1 THEN ss[i] ELSE f[i-1] \o ss[i]]
               /\ FlattenSeq(ss) = f[Len(ss)]
    BY <1>1, FlattenBuilds
<1>3. \A i \in 1..Len(ss) : f[i] = IF i = 1 THEN ss[i] ELSE f[i-1] \o ss[i]
    BY <1>2
<1>4. f[1] = ss[1]
    BY <1>3
<1> QED
    BY <1>2, <1>4

-----------------------------------------------------------------------------
(* Lists.                                                                  *)

\* list[i] <= list[i + 1] from a to b: in between it ascends as a whole.
LEMMA Ascends ==
    ASSUME NEW list \in Seq(Int), NEW a \in 1..Len(list), NEW b \in 1..Len(list),
           \A k \in a..b - 1 : list[k] <= list[k + 1]
    PROVE  \A i, j \in a..b : i <= j => list[i] <= list[j]
<1> SUFFICES ASSUME NEW i \in a..b PROVE \A j \in a..b : i <= j => list[i] <= list[j]
    OBVIOUS
<1> DEFINE Good == {n \in Nat : i + n \in a..b => list[i] <= list[i + n]}
<1>1. 0 \in Good
    OBVIOUS
<1>2. ASSUME NEW n \in Nat, n \in Good PROVE n + 1 \in Good
    <2> SUFFICES ASSUME i + (n + 1) \in a..b PROVE list[i] <= list[i + (n + 1)]
        OBVIOUS
    <2>1. i + n \in a..b - 1 /\ (i + n) + 1 = i + (n + 1)
        OBVIOUS
    <2>2. list[i] <= list[i + n] /\ list[i + n] <= list[i + (n + 1)]
        BY <1>2, <2>1
    <2>3. list[i] \in Int /\ list[i + n] \in Int /\ list[i + (n + 1)] \in Int
        BY <2>1
    <2> DEFINE u == list[i]
               v == list[i + n]
               w == list[i + (n + 1)]
    <2> HIDE DEF u, v, w
    <2>4. u <= v /\ v <= w /\ u \in Int /\ v \in Int /\ w \in Int
        BY <2>2, <2>3 DEF u, v, w
    <2>5. u <= w
        BY <2>4
    <2> QED
        BY <2>5 DEF u, w
<1>3. ASSUME NEW j \in a..b, i <= j PROVE list[i] <= list[j]
    <2> HIDE DEF Good
    <2>1. j - i \in Nat /\ i + (j - i) = j
        BY <1>3
    <2>2. j - i \in Good
        BY <1>1, <1>2, <2>1, Induction
    <2> QED
        BY <2>1, <2>2 DEF Good
<1> QED
    BY <1>3

\* A list that starts at or below x and has a later value goes past x somewhere.
LEMMA Crosses ==
    ASSUME NEW list \in Seq(Int), NEW x \in Int,
           NEW a \in 1..Len(list), NEW b \in 1..Len(list), a <= b,
           list[a] <= x, list[b] > x
    PROVE  \E k \in a..b - 1 : list[k] <= x /\ list[k + 1] > x
<1> DEFINE Later == {n \in Nat : a + n \in 1..Len(list) /\ list[a + n] > x}
<1>1. b - a \in Later
    OBVIOUS
<1>2. PICK n \in Later : \A m \in Later : n <= m
    <2>1. Later \subseteq Nat
        OBVIOUS
    <2> HIDE DEF Later
    <2> QED
        BY <1>1, <2>1, LeastNumber
<1>3. n \in Nat /\ a + n \in 1..Len(list) /\ list[a + n] > x
    BY <1>2
<1>4. n <= b - a
    BY <1>1, <1>2
<1>5. n # 0
    <2> SUFFICES ASSUME n = 0 PROVE FALSE
        OBVIOUS
    <2>1. list[a] > x /\ list[a] \in Int
        BY <1>3
    <2> QED
        BY <2>1
<1>6. n - 1 \in Nat /\ n - 1 \notin Later /\ a + (n - 1) \in 1..Len(list)
    <2> HIDE DEF Later
    <2> QED
        BY <1>2, <1>3, <1>4, <1>5
<1>7. a + (n - 1) \in a..b - 1 /\ (a + (n - 1)) + 1 = a + n
    BY <1>3, <1>4, <1>5
<1>8. list[a + (n - 1)] <= x
    <2>1. list[a + (n - 1)] \in Int /\ ~(list[a + (n - 1)] > x)
        BY <1>6
    <2> QED
        BY <2>1
<1> QED
    BY <1>3, <1>7, <1>8

\* A list runs from a to b without a descent.
Ascending(list, a, b) == \A i, j \in a..b : i <= j => list[i] <= list[j]

\* Within such a run, the value after x is the least one above x.
LEMMA NextInRun ==
    ASSUME NEW list \in Seq(Int), NEW x \in Int,
           NEW a \in 1..Len(list), NEW b \in 1..Len(list), Ascending(list, a, b),
           NEW i \in a..b - 1, list[i] <= x, NEW p \in a..b, list[p] > x
    PROVE  list[i + 1] <= list[p]
<1>1. i \in 1..Len(list) /\ p \in 1..Len(list) /\ i \in a..b /\ i + 1 \in a..b
    OBVIOUS
<1>2. ~(p <= i)
    <2> SUFFICES ASSUME p <= i PROVE FALSE
        OBVIOUS
    <2>1. list[p] <= list[i] /\ list[p] \in Int /\ list[i] \in Int
        BY <1>1 DEF Ascending
    <2> QED
        BY <2>1
<1>3. i + 1 <= p
    BY <1>2
<1> QED
    BY <1>1, <1>3 DEF Ascending

\* The search of a list ends on one of its values.
LEMMA LaterInListIsThere ==
    ASSUME NEW list \in Seq(Int), list # <<>>, NEW x \in Int
    PROVE  LaterInList(list, x) \in ToSet(list)
<1> DEFINE n == Len(list)
           between == {i \in 1..n - 1 : x >= list[i] /\ x < list[i + 1]}
           first == CHOOSE i \in between : \A j \in between : i <= j
           pos == IF between = {} THEN 1 ELSE 1 + first
<1>1. n \in Nat /\ n >= 1
    OBVIOUS
<1>2. between # {} => first \in 1..n - 1
    <2> SUFFICES ASSUME between # {} PROVE first \in between
        OBVIOUS
    <2>1. between \subseteq Nat
        OBVIOUS
    <2> HIDE DEF between
    <2>2. \E m \in between : \A t \in between : m <= t
        BY <2>1, LeastNumber
    <2> QED
        BY <2>2
<1> HIDE DEF first, between
<1>3. pos \in 1..n
    BY <1>1, <1>2
<1>4. LaterInList(list, x) = list[pos]
    BY DEF LaterInList, between, first
<1> QED
    BY <1>3, <1>4 DEF ToSet

\* The values above x, and where the code looks for the first of them.
LEMMA LaterInListIsNext ==
    ASSUME NEW f, Limits[f].lo \in Int, NEW list \in Seq(Int), list # <<>>, InOrder(f, list),
           NEW x \in Int, Limits[f].lo <= x
    PROVE  \A y \in ToSet(list) : y > x => /\ LaterInList(list, x) > x
                                           /\ LaterInList(list, x) <= y
<1> DEFINE n == Len(list)
           between == {i \in 1..n - 1 : x >= list[i] /\ x < list[i + 1]}
           first == CHOOSE i \in between : \A j \in between : i <= j
           pos == IF between = {} THEN 1 ELSE 1 + first
           descents == {k \in 1..n - 1 : list[k] > list[k + 1]}
<1>1. n \in Nat /\ n >= 1 /\ 1 \in 1..n /\ n \in 1..n /\ \A i \in 1..n : list[i] \in Int
    OBVIOUS
<1>2. LaterInList(list, x) = list[pos]
    BY DEF LaterInList
<1>3. between # {} => first \in 1..n - 1 /\ list[first] <= x /\ list[first + 1] > x
    <2> SUFFICES ASSUME between # {} PROVE first \in between
        BY <1>1
    <2>1. between \subseteq Nat
        OBVIOUS
    <2> HIDE DEF between
    <2>2. \E m \in between : \A t \in between : m <= t
        BY <2>1, LeastNumber
    <2> QED
        BY <2>2
<1> HIDE DEF first
<1>4. pos \in 1..n
    <2>1. n \in Nat /\ n >= 1 /\ (between # {} => first \in 1..n - 1)
        BY <1>1, <1>3
    <2> HIDE DEF n, between
    <2>2. CASE between = {}
        BY <2>1, <2>2
    <2>3. CASE between # {}
        BY <2>1, <2>3
    <2> QED
        BY <2>2, <2>3
<1>5. \A k \in 1..n - 1 : list[k] <= x /\ list[k + 1] > x => between # {}
    BY <1>1
<1> HIDE DEF between
<1>6. ASSUME NEW p \in 1..n, list[p] > x
      PROVE  list[pos] > x /\ list[pos] <= list[p]
    <2>1. ASSUME NEW a \in 1..n, NEW b \in 1..n, p \in a..b, list[a] <= x
          PROVE  between # {}
        <3>1. a <= p /\ a \in 1..n /\ list[a] <= x
            BY <2>1
        <3>2. PICK k \in a..p - 1 : list[k] <= x /\ list[k + 1] > x
            BY <1>6, <3>1, Crosses
        <3>3. k \in 1..n - 1
            OBVIOUS
        <3> QED
            BY <1>5, <3>2, <3>3
    <2>2. ASSUME NEW a \in 1..n, NEW b \in 1..n, Ascending(list, a, b),
                 between # {}, first \in a..b - 1, p \in a..b
          PROVE  list[pos] <= list[p]
        BY <1>1, <1>3, <1>6, <2>2, NextInRun
    <2>3. CASE descents = {}
        <3>1. Ascending(list, 1, n)
            <4>1. \A k \in 1..n - 1 : list[k] <= list[k + 1]
                <5>1. \A k \in 1..n - 1 : ~(list[k] > list[k + 1])
                    BY <2>3
                <5>2. \A k \in 1..n - 1 : list[k] \in Int /\ list[k + 1] \in Int
                    BY <1>1
                <5> QED
                    BY <5>1, <5>2
            <4> QED
                BY <1>1, <4>1, Ascends DEF Ascending
        <3>2. CASE between = {}
            <4>1. list[1] > x
                BY <1>1, <2>1, <3>2
            <4>2. list[1] <= list[p]
                BY <1>1, <3>1 DEF Ascending
            <4> QED
                BY <3>2, <4>1, <4>2
        <3>3. CASE between # {}
            <4>1. list[pos] <= list[p]
                BY <1>1, <1>3, <2>2, <3>1, <3>3
            <4> QED
                BY <1>3, <3>3, <4>1
        <3> QED
            BY <3>2, <3>3
    <2>4. CASE descents # {}
        <3>1. PICK d : descents = {d}
            <4>1. Cardinality(descents) = 1
                BY <2>4 DEF InOrder
            <4>2. n - 1 \in Int /\ 1 \in Int
                BY <1>1
            <4> DEFINE indices == 1..n - 1
            <4>3. descents \in SUBSET indices
                OBVIOUS
            <4>4. IsFiniteSet(indices)
                BY <4>2, FS_Interval
            <4> HIDE DEF descents, indices
            <4>5. IsFiniteSet(descents)
                BY <4>3, <4>4, FS_Subset
            <4> QED
                BY <4>1, <4>5, FS_Singleton
        <3>2. /\ d \in 1..n - 1 /\ list[d] > list[d + 1]
              /\ \A k \in 1..n - 1 : k # d => ~(list[k] > list[k + 1])
            BY <3>1
        <3>3. list[d + 1] = Limits[f].lo /\ list[n] < list[1]
            BY <2>4, <3>1 DEF InOrder
        <3>4. Ascending(list, 1, d) /\ Ascending(list, d + 1, n)
            <4>1. /\ \A k \in 1..d - 1 : list[k] <= list[k + 1]
                  /\ \A k \in d + 1..n - 1 : list[k] <= list[k + 1]
                <5>1. \A k \in 1..n - 1 : k # d => list[k] <= list[k + 1]
                    BY <1>1, <3>2
                <5>2. \A k \in 1..d - 1 : k \in 1..n - 1 /\ k # d
                    BY <3>2
                <5>3. \A k \in d + 1..n - 1 : k \in 1..n - 1 /\ k # d
                    BY <3>2
                <5> QED
                    BY <5>1, <5>2, <5>3
            <4>2. d \in 1..n /\ d + 1 \in 1..n
                BY <3>2
            <4> QED
                BY <1>1, <4>1, <4>2, Ascends DEF Ascending
        <3>5. between # {} => first # d
            BY <1>1, <1>3, <3>2, <3>3
        <3>8. n \in Int /\ d \in Int /\ 1 <= d /\ d <= n - 1 /\ p \in Int /\ 1 <= p /\ p <= n
            BY <1>1, <3>2
        <3>9. between # {} => first \in Int /\ 1 <= first /\ first <= n - 1
            BY <1>1, <1>3
        <3> HIDE DEF n, descents
        <3>6. CASE p <= d
            <4>1. list[1] <= list[p]
                BY <1>1, <3>2, <3>4, <3>6 DEF Ascending
            <4>2. CASE between = {}
                <5>1. list[1] > x
                    BY <1>1, <2>1, <4>2
                <5> QED
                    BY <4>1, <4>2, <5>1
            <4>3. CASE between # {} /\ first < d
                <5>1. first \in 1..d - 1 /\ d \in 1..n /\ p \in 1..d
                    BY <3>6, <3>8, <3>9, <4>3
                <5>2. list[pos] <= list[p]
                    BY <1>1, <2>2, <3>4, <4>3, <5>1
                <5> QED
                    BY <1>3, <4>3, <5>2
            <4>4. CASE between # {} /\ first > d
                <5>1. first + 1 \in d + 1..n /\ n \in d + 1..n /\ first + 1 <= n /\ first + 1 \in 1..n
                    BY <3>8, <3>9, <4>4
                <5>2. list[first + 1] <= list[n]
                    BY <3>4, <5>1 DEF Ascending
                <5>3. list[pos] = list[first + 1] /\ list[first + 1] > x
                    BY <1>3, <4>4
                <5>4. list[n] <= list[p]
                    BY <1>1, <3>3, <4>1
                <5>5. list[first + 1] \in Int /\ list[n] \in Int /\ list[p] \in Int
                    BY <1>1, <5>1
                <5> QED
                    BY <5>2, <5>3, <5>4, <5>5
            <4>5. between # {} => first < d \/ first > d
                BY <1>3, <3>2, <3>5
            <4> QED
                BY <4>2, <4>3, <4>4, <4>5
        <3>7. CASE p > d
            <4>1. d + 1 \in 1..n /\ p \in d + 1..n /\ n \in d + 1..n
                BY <3>7, <3>8
            <4>2. between # {}
                <5>1. list[d + 1] <= x
                    BY <3>3
                <5> QED
                    BY <2>1, <4>1, <5>1
            <4>3. list[p] <= list[n] /\ list[n] < list[1]
                BY <3>3, <3>4, <4>1 DEF Ascending
            <4>4. ~(first < d)
                <5> SUFFICES ASSUME first < d PROVE FALSE
                    OBVIOUS
                <5>1. first \in 1..d /\ 1 \in 1..d /\ 1 <= first
                    BY <3>8, <3>9, <4>2
                <5>2. list[1] <= list[first] /\ list[first] <= x
                    BY <1>3, <3>4, <4>2, <5>1 DEF Ascending
                <5>3. list[1] \in Int /\ list[first] \in Int /\ list[p] \in Int /\ list[n] \in Int
                    <6>1. 1 \in 1..n /\ first \in 1..n /\ p \in 1..n /\ n \in 1..n
                        BY <3>8, <3>9, <4>2
                    <6> QED
                        BY <1>1, <6>1
                <5> QED
                    BY <1>6, <4>3, <5>2, <5>3
            <4>5. first \in d + 1..n - 1
                BY <3>5, <3>8, <3>9, <4>2, <4>4
            <4> QED
                BY <1>1, <1>3, <2>2, <3>4, <4>1, <4>2, <4>5
        <3> QED
            BY <3>6, <3>7, <3>8
    <2> QED
        BY <2>3, <2>4
<1> QED
    BY <1>2, <1>4, <1>6 DEF ToSet

-----------------------------------------------------------------------------
(* Fields: what their lists hold.                                          *)

InField(f) == Limits[f].lo..Limits[f].hi
Fields == DOMAIN Limits

\* The five fields, and that each has a least and a greatest value.
LEMMA FieldNames ==
    /\ Fields = {"month", "dayOfMonth", "dayOfWeek", "hour", "minute"}
    /\ \A f \in Fields : Limits[f].lo \in Int /\ Limits[f].hi \in Int
                         /\ Limits[f].lo >= 0 /\ Limits[f].lo <= Limits[f].hi
<1>1. Fields = {"month", "dayOfMonth", "dayOfWeek", "hour", "minute"}
    BY DEF Fields, Limits
<1>2. \A f \in Fields : Limits[f].lo \in Int /\ Limits[f].hi \in Int
                        /\ Limits[f].lo >= 0 /\ Limits[f].lo <= Limits[f].hi
    BY <1>1 DEF Limits
<1> QED
    BY <1>1, <1>2

\* The values of each field.
LEMMA LimitsOfFields ==
    /\ InField("month") = 1..12 /\ InField("dayOfMonth") = 1..31 /\ InField("dayOfWeek") = 0..6
    /\ InField("hour") = 0..23 /\ InField("minute") = 0..59
BY DEF InField, Limits

\* A product of a smaller factor is smaller.
LEMMA StepsWithin ==
    ASSUME NEW length \in Nat, NEW step \in Nat, step > 0,
           NEW k \in 1..(length \div step) + 1
    PROVE  (k - 1) * step \in Nat /\ (k - 1) * step <= length
<1> DEFINE q == length \div step
<1>1. q \in Nat /\ step * q <= length
    BY Z3
<1> HIDE DEF q
<1>2. k - 1 \in Nat /\ k - 1 <= q
    BY <1>1 DEF q
<1> DEFINE j == k - 1
<1> HIDE DEF j
<1>3. j * step \in Nat /\ j * step <= step * q
    BY <1>1, <1>2, Z3 DEF j
<1> QED
    BY <1>1, <1>3 DEF j

\* A range counted in steps stays within its bounds.
LEMMA ArithmeticWithin ==
    ASSUME NEW a \in Int, NEW b \in Int, a <= b, NEW step \in Nat, step > 0
    PROVE  Arithmetic(a, b, step) \in Seq(a..b) \ {<<>>}
<1> DEFINE n == (b - a) \div step + 1
<1>1. n \in Nat /\ n >= 1
    BY SMTT(30)
<1>2. \A k \in 1..n : a + (k - 1) * step \in a..b
    <2>1. \A k \in 1..n : (k - 1) * step \in Nat /\ (k - 1) * step <= b - a
        BY StepsWithin
    <2> QED
        BY <2>1
<1> HIDE DEF n
<1> QED
    BY <1>1, <1>2 DEF Arithmetic, n

\* A list over a set is one over a larger set.
LEMMA WiderSeq ==
    ASSUME NEW S, NEW T, S \subseteq T, NEW s \in Seq(S) \ {<<>>}
    PROVE  s \in Seq(T) \ {<<>>}
<1>1. Len(s) \in Nat /\ s \in [1..Len(s) -> T]
    OBVIOUS
<1> QED
    BY <1>1

\* An item the parser accepts stands for values of its field.
LEMMA ItemHasValues ==
    ASSUME NEW f \in Fields, NEW i \in [from : Int, to : Int, step : Nat], ItemValid(f, i)
    PROVE  ItemValues(f, i) \in Seq(InField(f)) \ {<<>>}
<1> DEFINE lo == Limits[f].lo
           hi == Limits[f].hi
           step == IF i.step = 0 THEN 1 ELSE i.step
<1>1. lo \in Int /\ hi \in Int /\ InField(f) = lo..hi
    BY FieldNames DEF InField
<1>2. i.from \in lo..hi /\ i.to \in lo..hi
    BY DEF ItemValid
<1>3. step \in Nat /\ step > 0
    OBVIOUS
<1> HIDE DEF step
<1>4. \A a, b \in lo..hi : a <= b => Arithmetic(a, b, step) \in Seq(lo..hi) \ {<<>>}
    <2> SUFFICES ASSUME NEW a \in lo..hi, NEW b \in lo..hi, a <= b
                 PROVE  Arithmetic(a, b, step) \in Seq(lo..hi) \ {<<>>}
        OBVIOUS
    <2>1. a \in Int /\ b \in Int /\ a..b \subseteq lo..hi
        BY <1>1
    <2>2. Arithmetic(a, b, step) \in Seq(a..b) \ {<<>>}
        BY <1>3, <2>1, ArithmeticWithin
    <2> QED
        BY <2>1, <2>2, WiderSeq
<1>5. CASE i.from > i.to
    <2>1. lo \in lo..hi /\ hi \in lo..hi /\ i.from <= hi /\ lo <= i.to
        BY <1>1, <1>2
    <2> DEFINE u == Arithmetic(i.from, hi, step)
               v == Arithmetic(lo, i.to, step)
    <2>2. u \in Seq(lo..hi) \ {<<>>} /\ v \in Seq(lo..hi) \ {<<>>}
        BY <1>2, <1>4, <2>1
    <2>3. ItemValues(f, i) = u \o v
        BY <1>5 DEF ItemValues, step
    <2> HIDE DEF u, v, lo, hi
    <2>4. u \o v \in Seq(lo..hi) \ {<<>>}
        BY <2>2
    <2> QED
        BY <1>1, <2>3, <2>4
<1>6. CASE ~(i.from > i.to)
    <2>1. i.from <= i.to
        BY <1>1, <1>2, <1>6
    <2>2. ItemValues(f, i) = Arithmetic(i.from, i.to, step)
        BY <1>6 DEF ItemValues, step
    <2> QED
        BY <1>1, <1>2, <1>4, <2>1, <2>2
<1> QED
    BY <1>5, <1>6

Lists == [form : {"list"}, items : Items]

\* A list the parser accepts has a value, and values of its field only.
LEMMA ListHasValues ==
    ASSUME NEW f \in Fields, NEW v \in Lists, ListValid(f, v)
    PROVE  CreateList(f, v) \in Seq(InField(f)) \ {<<>>}
<1> DEFINE parts == [k \in DOMAIN v.items |-> ItemValues(f, v.items[k])]
<1>1. /\ v.items \in Seq([from : Int, to : Int, step : Nat]) /\ v.items # <<>>
      /\ \A k \in DOMAIN v.items : ItemValid(f, v.items[k])
    BY DEF Lists, Items, ListValid
<1>2. Len(v.items) \in Nat /\ Len(v.items) > 0 /\ DOMAIN v.items = 1..Len(v.items)
    BY <1>1
<1>3. \A k \in 1..Len(v.items) : v.items[k] \in [from : Int, to : Int, step : Nat]
    BY <1>1, ElementOfSeq
<1>4. \A k \in 1..Len(v.items) : ItemValues(f, v.items[k]) \in Seq(InField(f)) \ {<<>>}
    BY <1>1, <1>2, <1>3, ItemHasValues
<1>5. Len(parts) = Len(v.items)
    BY <1>2
<1>6. \A k \in 1..Len(parts) : parts[k] \in Seq(InField(f)) \ {<<>>}
    BY <1>2, <1>4, <1>5
<1>7. CreateList(f, v) = FlattenSeq(parts)
    BY DEF CreateList
<1> HIDE DEF parts
<1> QED
    BY <1>2, <1>5, <1>6, <1>7, FlattenSome

-----------------------------------------------------------------------------
(* The schedule form.                                                      *)

\* A number in the field's range is a list the parser accepts.
LEMMA NumberIsValid ==
    ASSUME NEW f \in Fields, NEW n \in Int, InRange(f, n)
    PROVE  ListValid(f, Number(n)) /\ CreateList(f, Number(n)) = [k \in 1..1 |-> n]
<1> DEFINE i == Item(n, n, 0)
           v == Number(n)
           parts == [k \in DOMAIN v.items |-> ItemValues(f, v.items[k])]
<1>1. v.items = <<i>> /\ DOMAIN v.items = 1..1 /\ v.items[1] = i
    BY DEF Number, List
<1>2. i.from = n /\ i.to = n /\ i.step = 0
    BY DEF Item
<1>3. ItemValid(f, i)
    BY <1>2, FieldNames DEF ItemValid, InRange
<1>4. ItemValues(f, i) = [k \in 1..1 |-> n]
    <2>1. ItemValues(f, i) = Arithmetic(n, n, 1)
        BY <1>2 DEF ItemValues
    <2>2. (n - n) \div 1 + 1 = 1
        OBVIOUS
    <2>3. \A k \in 1..1 : n + (k - 1) * 1 = n
        OBVIOUS
    <2> QED
        BY <2>1, <2>2, <2>3 DEF Arithmetic
<1> HIDE DEF i
<1>5. Len(parts) = 1 /\ parts[1] = ItemValues(f, i)
    BY <1>1
<1>6. CreateList(f, v) = ItemValues(f, i)
    <2>1. CreateList(f, v) = FlattenSeq(parts)
        BY DEF CreateList
    <2> HIDE DEF parts
    <2> QED
        BY <1>5, <2>1, FlattenOne
<1>7. IsInjective(CreateList(f, v))
    BY <1>4, <1>6 DEF IsInjective
<1>8. \A k \in DOMAIN v.items : ItemValid(f, v.items[k])
    BY <1>1, <1>3
<1> QED
    BY <1>1, <1>2, <1>4, <1>6, <1>7, <1>8 DEF ListValid

\* What the panel builds is accepted, and read as what was chosen.
LEMMA PanelFormIsUnderstood ==
    ASSUME NEW x \in PanelForm, FormAccepted(x)
    PROVE  /\ Valid(CronFromForm(x))
           /\ Classify(CronFromForm(x)) = x.kind
<1> DEFINE e == CronFromForm(x)
<1>1. x.kind \in Kinds /\ x.kind # "custom"
    BY DEF PanelForm, Kinds
<1>2. e = [f \in Fields |-> IF f \in FormFields(x.kind) THEN Number(x[f]) ELSE Star]
    BY <1>1 DEF CronFromForm, Fields
<1>3. FormFields(x.kind) \subseteq Fields
    BY <1>1, FieldNames DEF FormFields, Kinds
<1>4. \A f \in FormFields(x.kind) : x[f] \in Int /\ InRange(f, x[f])
    <2>1. \A f \in Fields : x[f] \in Int
        BY FieldNames DEF PanelForm
    <2> QED
        BY <1>1, <1>3, <2>1 DEF FormAccepted
<1>5. Valid(e)
    <2> SUFFICES ASSUME NEW f \in Fields PROVE FieldValid(f, e[f])
        BY DEF Valid, Fields
    <2>1. CASE f \in FormFields(x.kind)
        <3>1. e[f] = Number(x[f]) /\ e[f].form = "list"
            BY <1>2, <2>1 DEF Number, List
        <3>2. ListValid(f, e[f])
            BY <1>4, <2>1, <3>1, NumberIsValid
        <3> QED
            BY <3>1, <3>2 DEF FieldValid
    <2>2. CASE f \notin FormFields(x.kind)
        BY <1>2, <2>2 DEF FieldValid, Star
    <2> QED
        BY <2>1, <2>2
<1>6. \A f \in Fields : /\ IsSimple(e[f]) <=> f \in FormFields(x.kind)
                        /\ IsStarLike(e[f]) <=> f \notin FormFields(x.kind)
    <2> SUFFICES ASSUME NEW f \in Fields
                 PROVE  /\ IsSimple(e[f]) <=> f \in FormFields(x.kind)
                        /\ IsStarLike(e[f]) <=> f \notin FormFields(x.kind)
        OBVIOUS
    <2>1. CASE f \in FormFields(x.kind)
        <3>1. e[f].form = "list" /\ e[f].items = <<Item(x[f], x[f], 0)>>
            BY <1>2, <2>1 DEF Number, List
        <3> QED
            BY <2>1, <3>1 DEF IsSimple, IsStarLike, Item
    <2>2. CASE f \notin FormFields(x.kind)
        <3>1. e[f].form = "star"
            BY <1>2, <2>2 DEF Star
        <3> QED
            BY <2>2, <3>1 DEF IsSimple, IsStarLike
    <2> QED
        BY <2>1, <2>2
<1>7. Classify(e) = x.kind
    <2> HIDE DEF e
    <2>1. IsSimple(e.minute) /\ (IsSimple(e.hour) <=> "hour" \in FormFields(x.kind))
        BY <1>1, <1>6, FieldNames DEF FormFields, Kinds
    <2> DEFINE days == {"dayOfMonth", "month", "dayOfWeek"}
               starred == {f \in days : IsStarLike(e[f])}
    <2>2. starred = days \ FormFields(x.kind) /\ ("hour" \in FormFields(x.kind) <=> ~IsStarLike(e.hour))
        BY <1>6, FieldNames
    <2>3. CASE x.kind = "hourly"
        <3>1. starred = days /\ IsStarLike(e.hour)
            BY <2>2, <2>3 DEF FormFields
        <3> QED
            BY <2>1, <2>3, <3>1 DEF Classify
    <2>4. CASE x.kind = "daily"
        <3>1. starred = days /\ ~IsStarLike(e.hour) /\ IsSimple(e.hour)
            BY <2>1, <2>2, <2>4 DEF FormFields
        <3>2. starred # {"dayOfMonth", "month"} /\ starred # {"month", "dayOfWeek"}
              /\ ~(starred \subseteq {"dayOfWeek"})
            BY <3>1
        <3> QED
            BY <2>1, <2>4, <3>1, <3>2 DEF Classify
    <2>5. CASE x.kind = "weekly"
        <3>1. starred = {"dayOfMonth", "month"} /\ IsSimple(e.hour)
            BY <2>1, <2>2, <2>5 DEF FormFields
        <3>2. starred # days /\ starred # {"month", "dayOfWeek"} /\ ~(starred \subseteq {"dayOfWeek"})
            BY <3>1
        <3> QED
            BY <2>1, <2>5, <3>1, <3>2 DEF Classify
    <2>6. CASE x.kind = "monthly"
        <3>1. starred = {"month", "dayOfWeek"} /\ IsSimple(e.hour)
            BY <2>1, <2>2, <2>6 DEF FormFields
        <3>2. starred # days /\ starred # {"dayOfMonth", "month"} /\ ~(starred \subseteq {"dayOfWeek"})
            BY <3>1
        <3> QED
            BY <2>1, <2>6, <3>1, <3>2 DEF Classify
    <2>7. CASE x.kind = "yearly"
        <3>1. starred = {"dayOfWeek"} /\ IsSimple(e.hour)
            BY <2>1, <2>2, <2>7 DEF FormFields
        <3>2. starred # days /\ starred # {"dayOfMonth", "month"} /\ starred # {"month", "dayOfWeek"}
              /\ starred \subseteq {"dayOfWeek"}
            BY <3>1
        <3> QED
            BY <2>1, <2>7, <3>1, <3>2 DEF Classify
    <2> QED
        BY <1>1, <2>3, <2>4, <2>5, <2>6, <2>7 DEF Kinds
<1> QED
    BY <1>5, <1>7

-----------------------------------------------------------------------------
(* Expressions the parser accepts.                                         *)

Crons == {e \in [Fields -> FieldValue] : Valid(e)}

\* The forms the parser accepts in each field.
LEMMA FormsOfFields ==
    ASSUME NEW e \in Crons
    PROVE  /\ \A f \in Fields : FieldValid(f, e[f])
           /\ \A f \in {"month", "hour", "minute"} : e[f].form \in {"star", "list"}
           /\ e.dayOfMonth.form \in {"star", "list", "any", "last", "weekday"}
           /\ e.dayOfMonth.form = "weekday" => e.dayOfMonth.day \in 1..31
           /\ e.dayOfWeek.form \in {"star", "list", "any", "lastOfMonth", "nth"}
           /\ e.dayOfWeek.form \in {"lastOfMonth", "nth"} => e.dayOfWeek.day \in 0..6
           /\ e.dayOfWeek.form = "nth" => e.dayOfWeek.count \in 1..5
<1>1. \A f \in Fields : FieldValid(f, e[f])
    BY DEF Crons, Valid, Fields
<1>2. {"month", "hour", "minute", "dayOfMonth", "dayOfWeek"} \subseteq Fields
    BY FieldNames
<1>3. \A f \in {"month", "hour", "minute"} : e[f].form \in {"star", "list"}
    BY <1>1, <1>2 DEF FieldValid
<1>4. /\ e.dayOfMonth.form \in {"star", "list"} \/ DayOfMonthValid(e.dayOfMonth)
      /\ e.dayOfWeek.form \in {"star", "list"} \/ DayOfWeekValid(e.dayOfWeek)
    BY <1>1, <1>2 DEF FieldValid
<1> QED
    BY <1>1, <1>3, <1>4 DEF DayOfMonthValid, DayOfWeekValid

\* The list of a field of such an expression.
LEMMA ListOfField ==
    ASSUME NEW e \in Crons, NEW f \in Fields, e[f].form = "list"
    PROVE  CreateList(f, e[f]) \in Seq(InField(f)) \ {<<>>}
<1>1. e[f] \in Lists
    BY DEF Crons, FieldValue, Lists, Star, Whatever, LastDay
<1>2. ListValid(f, e[f])
    BY FormsOfFields DEF FieldValid, DayOfMonthValid, DayOfWeekValid
<1> QED
    BY <1>1, <1>2, ListHasValues

\* The values a field stands for are the field's.
LEMMA ValuesInField ==
    ASSUME NEW e \in Crons, NEW f \in Fields
    PROVE  ValuesOf(f, e[f]) \subseteq InField(f)
<1>1. CASE e[f].form = "list"
    <2> DEFINE list == CreateList(f, e[f])
    <2>1. list \in Seq(InField(f))
        BY <1>1, ListOfField
    <2>2. \A i \in DOMAIN list : list[i] \in InField(f)
        BY <2>1, ElementOfSeq
    <2> QED
        BY <1>1, <2>2 DEF ValuesOf, ToSet
<1>2. CASE e[f].form # "list"
    BY <1>2 DEF ValuesOf, InField
<1> QED
    BY <1>1, <1>2

\* A field that does not match has a list, or is one of the days' forms.
LEMMA MismatchOfList ==
    ASSUME NEW e \in Crons, NEW f \in Fields, NEW t, ~FieldMatches(f, e[f], t)
    PROVE  /\ e[f].form \notin {"star", "any"}
           /\ f \in {"month", "hour", "minute"} => e[f].form = "list"
<1>1. e[f].form \notin {"star", "any"}
    BY DEF FieldMatches
<1> QED
    BY <1>1, FormsOfFields

\* Where the step of a list leads: to a value of the field, and to the next one.
LEMMA LaterOfField ==
    ASSUME NEW e \in Crons, NEW f \in Fields, e[f].form = "list",
           NEW x \in InField(f)
    PROVE  LET list == CreateList(f, e[f])
               later == LaterInList(list, x)
           IN  /\ later \in InField(f) /\ later \in ToSet(list)
               /\ AllInOrder(e) => \A y \in ToSet(list) : y > x => later > x /\ later <= y
<1> DEFINE list == CreateList(f, e[f])
           later == LaterInList(list, x)
<1>1. list \in Seq(InField(f)) \ {<<>>}
    BY ListOfField
<1>2. InField(f) \subseteq Int /\ Limits[f].lo \in Int /\ Limits[f].lo <= x
    BY FieldNames DEF InField
<1>3. list \in Seq(Int) /\ list # <<>>
    BY <1>1, <1>2, WiderSeq
<1>4. AllInOrder(e) => InOrder(f, list)
    BY DEF AllInOrder, Crons
<1>5. ToSet(list) \subseteq InField(f)
    BY ValuesInField DEF ValuesOf
<1> HIDE DEF list
<1>6. later \in ToSet(list)
    BY <1>2, <1>3, LaterInListIsThere
<1>7. AllInOrder(e) => \A y \in ToSet(list) : y > x => later > x /\ later <= y
    BY <1>2, <1>3, <1>4, LaterInListIsNext
<1> QED
    BY <1>5, <1>6, <1>7 DEF list

-----------------------------------------------------------------------------
(* Steps of the search.                                                    *)

\* From t to u no minute is passed over that the expression stands for.
NoneSkipped(e, t, u) ==
    \A days \in t.day..u.day :
       DayMatches(e, days) /\ ~PassedOver(e, days) =>
          \A h \in ValuesOf("hour", e.hour), m \in ValuesOf("minute", e.minute) :
             LET n == (days * 24 + h) * 60 + m
             IN  n <= MinuteNumber(t) \/ n >= MinuteNumber(u)

\* A step of the search: to a time, not backwards, and past nothing.
GoodStep(e, t, u) == /\ u \in Time
                     /\ MinuteNumber(t) <= MinuteNumber(u)
                     /\ AllInOrder(e) => NoneSkipped(e, t, u)

\* The hours and minutes an expression stands for are those of a day.
LEMMA HoursAndMinutes ==
    ASSUME NEW e \in Crons
    PROVE  /\ \A h \in ValuesOf("hour", e.hour) : h \in 0..23
           /\ \A m \in ValuesOf("minute", e.minute) : m \in 0..59
<1>1. "hour" \in Fields /\ "minute" \in Fields
    BY FieldNames
<1> QED
    BY <1>1, ValuesInField, LimitsOfFields

\* To a later midnight, when the days before it do not match.
LEMMA StepToDay ==
    ASSUME NEW e \in Crons, NEW t \in Time, NEW u \in Time,
           t.day < u.day, u.hour = 0, u.minute = 0,
           ASSUME AllInOrder(e), NEW days \in Int, t.day <= days, days < u.day,
                  ~PassedOver(e, days)
           PROVE  ~DayMatches(e, days)
    PROVE  GoodStep(e, t, u)
<1>1. /\ t.day \in Int /\ t.hour \in 0..23 /\ t.minute \in 0..59
      /\ u.day \in Int
    BY DEF Time
<1>2. MinuteNumber(t) <= MinuteNumber(u)
    BY <1>1 DEF MinuteNumber
<1>3. ASSUME AllInOrder(e), NEW days \in t.day..u.day, DayMatches(e, days), ~PassedOver(e, days),
             NEW h \in ValuesOf("hour", e.hour), NEW m \in ValuesOf("minute", e.minute)
      PROVE  (days * 24 + h) * 60 + m >= MinuteNumber(u)
    <2>1. ~(days < u.day)
        BY <1>1, <1>3
    <2>2. days = u.day
        BY <1>1, <2>1
    <2>3. h \in 0..23 /\ m \in 0..59
        BY HoursAndMinutes
    <2> QED
        BY <1>1, <2>2, <2>3 DEF MinuteNumber
<1> QED
    BY <1>2, <1>3 DEF GoodStep, NoneSkipped

\* Days of the civil calendar, for what follows.
Civil(t) == CivilFromDays(t.day)

\* From a day that does not match to the next.
LEMMA StepToNextDay ==
    ASSUME NEW e \in Crons, NEW t \in Time, ~DayMatches(e, t.day)
    PROVE  GoodStep(e, t, NextDay(t))
<1> DEFINE u == NextDay(t)
<1>1. u \in Time /\ t.day < u.day /\ u.hour = 0 /\ u.minute = 0 /\ u.day = t.day + 1 /\ t.day \in Int
    BY DEF NextDay, Midnight, Time
<1> HIDE DEF u
<1>2. ASSUME NEW days \in Int, t.day <= days, days < u.day PROVE ~DayMatches(e, days)
    <2>1. days = t.day
        BY <1>1, <1>2
    <2> QED
        BY <2>1
<1> QED
    BY <1>1, <1>2, StepToDay DEF u

\* A day that lies between two others lies in a month between theirs.
LEMMA MonthBetween ==
    ASSUME NEW a \in Int, NEW days \in Int, NEW y \in Int, NEW m \in 1..12,
           a <= days, days < DaysFromCivil(y, m, 1)
    PROVE  LET ca == CivilFromDays(a)
               c == CivilFromDays(days)
           IN  /\ ~Before(c.year, c.month, ca.year, ca.month)
               /\ Before(c.year, c.month, y, m)
<1> DEFINE cy == CivilFromDays(days).year
           cm == CivilFromDays(days).month
           cd == CivilFromDays(days).day
<1>1. ~Before(cy, cm, CivilFromDays(a).year, CivilFromDays(a).month)
    BY CivilIsOrdered
<1>2. /\ cy \in Int /\ cm \in 1..12 /\ cd \in Int /\ 1 <= cd
      /\ days = DaysFromCivil(cy, cm, 1) + cd - 1
    BY CivilProperties
<1> HIDE DEF cy, cm, cd
<1>3. Before(cy, cm, y, m)
    <2> SUFFICES ASSUME ~Before(cy, cm, y, m) PROVE FALSE
        OBVIOUS
    <2>1. y < cy \/ (y = cy /\ m <= cm)
        BY <1>2 DEF Before
    <2>2. DaysFromCivil(y, m, 1) <= DaysFromCivil(cy, cm, 1)
        BY <1>2, <2>1, MonthsAreOrdered
    <2>3. DaysFromCivil(y, m, 1) \in Int /\ DaysFromCivil(cy, cm, 1) \in Int
        BY <1>2, MonthTypes
    <2> QED
        BY <1>2, <2>2, <2>3
<1> QED
    BY <1>1, <1>3 DEF cy, cm

\* A day number is that of its date.
LEMMA CivilTypes ==
    ASSUME NEW days \in Int
    PROVE  LET c == CivilFromDays(days)
           IN  /\ c.year \in Int /\ c.month \in 1..12 /\ c.day \in 1..31
               /\ c.day <= LastDayOfMonth(c.year, c.month)
               /\ days = DaysFromCivil(c.year, c.month, 1) + c.day - 1
<1> DEFINE y == CivilFromDays(days).year
           m == CivilFromDays(days).month
           d == CivilFromDays(days).day
<1>1. /\ y \in Int /\ m \in 1..12 /\ d \in Int /\ 1 <= d /\ d <= LastDayOfMonth(y, m)
      /\ days = DaysFromCivil(y, m, 1) + d - 1
    BY CivilProperties
<1> HIDE DEF y, m, d
<1>2. LastDayOfMonth(y, m) \in Int /\ LastDayOfMonth(y, m) <= 31
    BY <1>1, MonthTypes
<1>3. d \in 1..31
    BY <1>1, <1>2
<1> QED
    BY <1>1, <1>3 DEF y, m, d

\* A date at midnight is a time.
LEMMA DateIsTime ==
    ASSUME NEW y \in Int, NEW m \in 1..12, NEW d \in Int
    PROVE  /\ Date(y, m, d) \in Time
           /\ Date(y, m, d).day = DaysFromCivil(y, m, 1) + d - 1
           /\ Date(y, m, d).hour = 0 /\ Date(y, m, d).minute = 0
<1>1. DaysFromCivil(y, m, d) = DaysFromCivil(y, m, 1) + d - 1
    BY DayOfThatMonth
<1>2. DaysFromCivil(y, m, 1) \in Int
    BY MonthTypes
<1>3. DaysFromCivil(y, m, d) \in Int
    BY <1>1, <1>2
<1> QED
    BY <1>1, <1>3 DEF Date, Midnight, Time

\* From one month to the first of a later one.
LEMMA MonthStep ==
    ASSUME NEW e \in Crons, NEW t \in Time, ~FieldMatches("month", e.month, t)
    PROVE  GoodStep(e, t, IncrementMonth(e.month, Civil(t)))
<1> DEFINE y == Civil(t).year
           m == Civil(t).month
           list == CreateList("month", e.month)
           later == LaterInList(list, m)
           y2 == IF m >= later THEN y + 1 ELSE y
           m2 == IF m >= later THEN 1 ELSE later
           u == IncrementMonth(e.month, Civil(t))
<1>1. t.day \in Int /\ "month" \in Fields
    BY FieldNames DEF Time
<1>2. y \in Int /\ m \in 1..12 /\ t.day = DaysFromCivil(y, m, 1) + Civil(t).day - 1
      /\ Civil(t).day \in 1..31 /\ Civil(t).day <= LastDayOfMonth(y, m)
    BY <1>1, CivilTypes DEF Civil
<1>3. e.month.form = "list"
    BY <1>1, MismatchOfList
<1>4. later \in 1..12 /\ (AllInOrder(e) => \A x \in ToSet(list) : x > m => later > m /\ later <= x)
    BY <1>1, <1>2, <1>3, LaterOfField, LimitsOfFields
<1>5. ASSUME NEW days \in Int, FieldMatches("month", e.month, Midnight(days))
      PROVE  CivilFromDays(days).month \in ToSet(list)
    BY <1>3, <1>5 DEF FieldMatches, ListMatches, Midnight
<1>6. m \notin ToSet(list)
    BY <1>3 DEF FieldMatches, ListMatches, Civil
<1>7. u = Date(y2, m2, 1)
    BY DEF IncrementMonth
<1> HIDE DEF y, m, list, later, u
<1>8. y2 \in Int /\ m2 \in 1..12 /\ Before(y, m, y2, m2)
    BY <1>2, <1>4 DEF Before
<1>9. u \in Time /\ u.day = DaysFromCivil(y2, m2, 1) /\ u.hour = 0 /\ u.minute = 0
    <2> HIDE DEF y2, m2
    <2>1. DaysFromCivil(y2, m2, 1) \in Int
        BY <1>8, MonthTypes
    <2>2. y2 \in Int /\ m2 \in 1..12 /\ 1 \in Int
        BY <1>8
    <2>3. /\ Date(y2, m2, 1) \in Time
          /\ Date(y2, m2, 1).day = DaysFromCivil(y2, m2, 1) + 1 - 1
          /\ Date(y2, m2, 1).hour = 0 /\ Date(y2, m2, 1).minute = 0
        BY <2>2, DateIsTime
    <2> QED
        BY <1>7, <2>1, <2>3
<1>10. t.day < u.day
    <2> HIDE DEF y2, m2
    <2>1. DaysFromCivil(y, m, 1) + LastDayOfMonth(y, m) <= DaysFromCivil(y2, m2, 1)
        BY <1>2, <1>8, MonthsApart
    <2>2. DaysFromCivil(y, m, 1) \in Int /\ DaysFromCivil(y2, m2, 1) \in Int
          /\ LastDayOfMonth(y, m) \in Int
        BY <1>2, <1>8, MonthTypes
    <2> QED
        BY <1>2, <1>9, <2>1, <2>2
<1>11. ASSUME AllInOrder(e), NEW days \in Int, t.day <= days, days < u.day
       PROVE  ~DayMatches(e, days)
    <2> SUFFICES ASSUME DayMatches(e, days) PROVE FALSE
        OBVIOUS
    <2> DEFINE cy == CivilFromDays(days).year
               cm == CivilFromDays(days).month
    <2>1. cm \in ToSet(list)
        BY <1>5 DEF DayMatches, FieldOrder
    <2>2. cy \in Int /\ cm \in 1..12
        BY CivilTypes
    <2>3. ~Before(cy, cm, y, m) /\ Before(cy, cm, y2, m2)
        <3> HIDE DEF y2, m2
        <3> QED
            BY <1>1, <1>8, <1>9, <1>11, MonthBetween DEF y, m, Civil
    <2> HIDE DEF cy, cm
    <2>4. cm # m
        BY <1>6, <2>1
    <2>5. cy = y /\ cm > m
        BY <1>2, <1>4, <2>2, <2>3, <2>4 DEF Before
    <2>6. later > m /\ later <= cm
        BY <1>4, <1>11, <2>1, <2>5
    <2> QED
        BY <1>2, <1>4, <2>2, <2>3, <2>5, <2>6 DEF Before
<1> QED
    BY <1>9, <1>10, <1>11, StepToDay DEF u

\* The days of a month, in order.
LEMMA DaysOfMonth ==
    ASSUME NEW days \in Int, NEW y \in Int, NEW m \in 1..12,
           DaysFromCivil(y, m, 1) <= days,
           days < DaysFromCivil(y, m, 1) + LastDayOfMonth(y, m)
    PROVE  CivilFromDays(days)
             = [year |-> y, month |-> m, day |-> days - DaysFromCivil(y, m, 1) + 1]
<1> DEFINE x == days - DaysFromCivil(y, m, 1) + 1
<1>1. DaysFromCivil(y, m, 1) \in Int /\ LastDayOfMonth(y, m) \in Int
    BY MonthTypes
<1>2. x \in Int /\ 1 <= x /\ x <= LastDayOfMonth(y, m) /\ days = DaysFromCivil(y, m, 1) + x - 1
    BY <1>1
<1> HIDE DEF x
<1>3. days = DaysFromCivil(y, m, x)
    BY <1>2, DayOfThatMonth
<1>4. CivilFromDays(DaysFromCivil(y, m, x)) = [year |-> y, month |-> m, day |-> x]
    BY <1>2, CivilOfDate
<1> QED
    BY <1>3, <1>4 DEF x

\* The days of the month that follows.
LEMMA DaysOfNextMonth ==
    ASSUME NEW days \in Int, NEW y \in Int, NEW m \in 1..12,
           DaysFromCivil(y, m, 1) + LastDayOfMonth(y, m) <= days,
           days < DaysFromCivil(y, m, 1) + LastDayOfMonth(y, m) + 28
    PROVE  /\ CivilFromDays(days).month # m
           /\ CivilFromDays(days).day
                = days - (DaysFromCivil(y, m, 1) + LastDayOfMonth(y, m)) + 1
<1> DEFINE first == DaysFromCivil(y, m, 1)
           last == LastDayOfMonth(y, m)
           y2 == IF m = 12 THEN y + 1 ELSE y
           m2 == IF m = 12 THEN 1 ELSE m + 1
<1>1. first \in Int /\ last \in Int
    BY MonthTypes
<1>2. y2 \in Int /\ m2 \in 1..12 /\ m2 # m
    OBVIOUS
<1>3. first + last = DaysFromCivil(y2, m2, 1)
    BY NextMonth
<1>4. first + last <= days /\ days < first + last + 28
    OBVIOUS
<1> HIDE DEF first, last, y2, m2
<1>5. LastDayOfMonth(y2, m2) \in Int /\ 28 <= LastDayOfMonth(y2, m2)
    BY <1>2, MonthTypes
<1>6. DaysFromCivil(y2, m2, 1) <= days
    BY <1>3, <1>4
<1>7. days < DaysFromCivil(y2, m2, 1) + LastDayOfMonth(y2, m2)
    BY <1>1, <1>3, <1>4, <1>5
<1>8. CivilFromDays(days)
         = [year |-> y2, month |-> m2, day |-> days - DaysFromCivil(y2, m2, 1) + 1]
    BY <1>2, <1>6, <1>7, DaysOfMonth
<1> QED
    BY <1>2, <1>3, <1>8 DEF first, last

\* The first days after a month that is shorter than the list expects.
LEMMA Overrun ==
    ASSUME NEW e \in Crons, e.dayOfMonth.form = "list",
           NEW y \in Int, NEW m \in 1..12, NEW days \in Int,
           NEW later \in ToSet(CreateList("dayOfMonth", e.dayOfMonth)),
           later \in Int, later <= 31,
           DaysFromCivil(y, m, 1) + LastDayOfMonth(y, m) <= days,
           days < DaysFromCivil(y, m, 1) + later - 1
    PROVE  PassedOver(e, days)
<1> DEFINE first == DaysFromCivil(y, m, 1)
           last == LastDayOfMonth(y, m)
           x == days - (first + last) + 1
<1>1. first \in Int /\ last \in Int /\ 28 <= last
    BY MonthTypes
<1>2. x \in Int /\ 1 <= x /\ x <= 2 /\ later > last
    BY <1>1
<1>3. CivilFromDays(days).day = x
    <2>1. days < DaysFromCivil(y, m, 1) + LastDayOfMonth(y, m) + 28
        BY <1>1
    <2> QED
        BY <2>1, DaysOfNextMonth
<1>4. CivilFromDays(days - x).day = last
    <2>1. days - x = first + last - 1 /\ days - x \in Int
        BY <1>1, <1>2
    <2> HIDE DEF x, first, last
    <2>2. first <= days - x /\ days - x < first + last /\ (days - x) - first + 1 = last
        BY <1>1, <2>1
    <2>3. CivilFromDays(days - x) = [year |-> y, month |-> m, day |-> (days - x) - first + 1]
        BY <2>1, <2>2, DaysOfMonth DEF first, last
    <2> QED
        BY <2>2, <2>3
<1> HIDE DEF x
<1> QED
    BY <1>2, <1>3, <1>4 DEF PassedOver

\* From one day to a later one of the month, or to the next month.
LEMMA DayOfMonthStep ==
    ASSUME NEW e \in Crons, NEW t \in Time, ~FieldMatches("dayOfMonth", e.dayOfMonth, t)
    PROVE  GoodStep(e, t, IncrementDayOfMonth(e.dayOfMonth, Civil(t), t))
<1> DEFINE y == Civil(t).year
           m == Civil(t).month
           d == Civil(t).day
           last == LastDayOfMonth(y, m)
           list == CreateList("dayOfMonth", e.dayOfMonth)
           later == LaterInList(list, d)
           u == IncrementDayOfMonth(e.dayOfMonth, Civil(t), t)
<1>1. t.day \in Int /\ "dayOfMonth" \in Fields
    BY FieldNames DEF Time
<1>2. y \in Int /\ m \in 1..12 /\ t.day = DaysFromCivil(y, m, 1) + d - 1
      /\ d \in 1..31 /\ d <= last
    BY <1>1, CivilTypes DEF Civil
<1>3. last \in Int /\ 28 <= last /\ last <= 31 /\ DaysFromCivil(y, m, 1) \in Int
    <2> HIDE DEF y, m
    <2> QED
        BY <1>2, MonthTypes
<1>4. ~DayMatches(e, t.day)
    <2>1. ~FieldMatches("dayOfMonth", e.dayOfMonth, Midnight(t.day))
        BY MismatchOfList, <1>1 DEF FieldMatches, Midnight
    <2> QED
        BY <2>1 DEF DayMatches, FieldOrder
<1>5. CASE e.dayOfMonth.form # "list"
    <2>1. u = NextDay(t)
        BY <1>5 DEF IncrementDayOfMonth
    <2> QED
        BY <1>4, <2>1, StepToNextDay
<1>6. CASE e.dayOfMonth.form = "list"
    <2>1. later \in 1..31 /\ later \in ToSet(list)
          /\ (AllInOrder(e) => \A x \in ToSet(list) : x > d => later > d /\ later <= x)
        BY <1>1, <1>2, <1>6, LaterOfField, LimitsOfFields
    <2>2. ASSUME NEW days \in Int, DayMatches(e, days)
          PROVE  CivilFromDays(days).day \in ToSet(list)
        <3>1. FieldMatches("dayOfMonth", e.dayOfMonth, Midnight(days))
            BY <2>2 DEF DayMatches, FieldOrder
        <3> QED
            BY <1>6, <3>1 DEF FieldMatches, DayOfMonthMatches, ListMatches, Midnight
    <2>3. d \notin ToSet(list)
        BY <1>6 DEF FieldMatches, DayOfMonthMatches, ListMatches, Civil
    <2> HIDE DEF y, m, d, last, list, later
    <2>4. CASE d >= later
        <3>1. u = Midnight(t.day - d + 1 + last)
            BY <1>6, <2>4 DEF IncrementDayOfMonth, later, list, d, last, y, m
        <3>2. u \in Time /\ u.day = DaysFromCivil(y, m, 1) + last /\ u.hour = 0 /\ u.minute = 0
            BY <1>1, <1>2, <1>3, <3>1 DEF Midnight, Time
        <3> HIDE DEF u
        <3>3. t.day < u.day
            BY <1>2, <1>3, <3>2
        <3>4. ASSUME AllInOrder(e), NEW days \in Int, t.day <= days, days < u.day
              PROVE  ~DayMatches(e, days)
            <4> SUFFICES ASSUME DayMatches(e, days) PROVE FALSE
                OBVIOUS
            <4>1. CivilFromDays(days) = [year |-> y, month |-> m, day |-> d + (days - t.day)]
                <5>1. /\ DaysFromCivil(y, m, 1) <= days
                      /\ days < DaysFromCivil(y, m, 1) + LastDayOfMonth(y, m)
                      /\ days - DaysFromCivil(y, m, 1) + 1 = d + (days - t.day)
                    BY <1>1, <1>2, <1>3, <3>2, <3>4 DEF last
                <5> QED
                    BY <1>2, <3>4, <5>1, DaysOfMonth
            <4>2. d + (days - t.day) \in ToSet(list)
                BY <2>2, <4>1
            <4>3. d + (days - t.day) > d
                BY <1>1, <1>2, <2>3, <3>4, <4>2
            <4>4. later > d
                BY <2>1, <3>4, <4>2, <4>3
            <4>5. later \in Int /\ d \in Int
                BY <1>2, <2>1
            <4> QED
                BY <2>4, <4>4, <4>5
        <3> QED
            BY <3>2, <3>3, <3>4, StepToDay DEF u
    <2>5. CASE d < later
        <3>1. u = Date(y, m, later)
            BY <1>2, <1>6, <2>1, <2>5 DEF IncrementDayOfMonth, later, list, d, last, y, m
        <3>2. u \in Time /\ u.day = DaysFromCivil(y, m, 1) + later - 1 /\ u.hour = 0 /\ u.minute = 0
            <4>1. y \in Int /\ m \in 1..12 /\ later \in Int
                BY <1>2, <2>1
            <4> HIDE DEF u
            <4> QED
                BY <3>1, <4>1, DateIsTime
        <3> HIDE DEF u
        <3>3. t.day < u.day
            BY <1>2, <1>3, <2>1, <2>5, <3>2
        <3>4. ASSUME AllInOrder(e), NEW days \in Int, t.day <= days, days < u.day,
                     ~PassedOver(e, days)
              PROVE  ~DayMatches(e, days)
            <4> SUFFICES ASSUME DayMatches(e, days) PROVE FALSE
                OBVIOUS
            <4>1. d \in Int /\ 1 <= d /\ later \in Int /\ later <= 31
                BY <1>2, <2>1
            <4>2. CASE days < DaysFromCivil(y, m, 1) + last
                <5>1. CivilFromDays(days) = [year |-> y, month |-> m, day |-> d + (days - t.day)]
                    <6>1. /\ DaysFromCivil(y, m, 1) <= days
                          /\ days < DaysFromCivil(y, m, 1) + LastDayOfMonth(y, m)
                          /\ days - DaysFromCivil(y, m, 1) + 1 = d + (days - t.day)
                        BY <1>1, <1>2, <1>3, <3>4, <4>1, <4>2 DEF last
                    <6> QED
                        BY <1>2, <3>4, <6>1, DaysOfMonth
                <5>2. d + (days - t.day) \in ToSet(list)
                    BY <2>2, <5>1
                <5>3. d + (days - t.day) > d
                    BY <1>1, <1>2, <2>3, <3>4, <4>1, <5>2
                <5>4. later <= d + (days - t.day)
                    BY <2>1, <3>4, <5>2, <5>3
                <5> QED
                    BY <1>1, <1>2, <1>3, <3>2, <3>4, <4>1, <5>4
            <4>3. CASE DaysFromCivil(y, m, 1) + last <= days
                <5>1. days < DaysFromCivil(y, m, 1) + later - 1
                    BY <3>2, <3>4
                <5>2. DaysFromCivil(y, m, 1) + LastDayOfMonth(y, m) <= days
                    BY <4>3 DEF last
                <5>3. later \in ToSet(CreateList("dayOfMonth", e.dayOfMonth))
                    BY <2>1 DEF list
                <5> QED
                    BY <1>2, <1>6, <3>4, <4>1, <5>1, <5>2, <5>3, Overrun
            <4> QED
                BY <1>3, <4>2, <4>3
        <3> QED
            BY <3>2, <3>3, <3>4, StepToDay DEF u
    <2>6. later \in Int /\ d \in Int
        BY <1>2, <2>1
    <2>7. d >= later \/ d < later
        BY <2>6
    <2> QED
        BY <2>4, <2>5, <2>7
<1> QED
    BY <1>5, <1>6

\* Within a day, or to the midnight that ends it.
LEMMA StepWithinDay ==
    ASSUME NEW e \in Crons, NEW t \in Time, NEW u \in Time,
           u.day = t.day \/ (u.day = t.day + 1 /\ u.hour = 0 /\ u.minute = 0),
           MinuteNumber(t) <= MinuteNumber(u),
           ASSUME AllInOrder(e),
                  NEW h \in ValuesOf("hour", e.hour), NEW m \in ValuesOf("minute", e.minute)
           PROVE  \/ (t.day * 24 + h) * 60 + m <= MinuteNumber(t)
                  \/ (t.day * 24 + h) * 60 + m >= MinuteNumber(u)
    PROVE  GoodStep(e, t, u)
<1>1. t.day \in Int /\ u.day \in Int
    BY DEF Time
<1>2. ASSUME AllInOrder(e), NEW days \in t.day..u.day,
             NEW h \in ValuesOf("hour", e.hour), NEW m \in ValuesOf("minute", e.minute)
      PROVE  \/ (days * 24 + h) * 60 + m <= MinuteNumber(t)
             \/ (days * 24 + h) * 60 + m >= MinuteNumber(u)
    <2>1. h \in 0..23 /\ m \in 0..59
        BY HoursAndMinutes
    <2>2. CASE days = t.day
        BY <1>2, <2>2
    <2>3. CASE days # t.day
        <3>1. days = u.day /\ u.hour = 0 /\ u.minute = 0
            BY <1>1, <2>3
        <3> QED
            BY <1>1, <2>1, <3>1 DEF MinuteNumber
    <2> QED
        BY <2>2, <2>3
<1> QED
    BY <1>2 DEF GoodStep, NoneSkipped

\* A weekday that does not match leads to the next day.
LEMMA DayOfWeekStep ==
    ASSUME NEW e \in Crons, NEW t \in Time, ~FieldMatches("dayOfWeek", e.dayOfWeek, t)
    PROVE  GoodStep(e, t, NextDay(t))
<1>1. "dayOfWeek" \in Fields
    BY FieldNames
<1>2. ~FieldMatches("dayOfWeek", e.dayOfWeek, Midnight(t.day))
    BY <1>1, MismatchOfList DEF FieldMatches, Midnight
<1>3. ~DayMatches(e, t.day)
    BY <1>2 DEF DayMatches, FieldOrder
<1> QED
    BY <1>3, StepToNextDay

\* The minutes of an hour that are not between m0 and x.
LEMMA WithinHour ==
    ASSUME NEW d \in Int, NEW h0 \in Int, NEW m0 \in Int, 0 <= m0, NEW x \in Int, x <= 60,
           NEW h \in Int, NEW m \in Int, 0 <= m, m <= 59, m <= m0 \/ m >= x
    PROVE  \/ (d * 24 + h) * 60 + m <= (d * 24 + h0) * 60 + m0
           \/ (d * 24 + h) * 60 + m >= (d * 24 + h0) * 60 + x
OBVIOUS

\* To the top of a later hour of the day.
LEMMA LaterHour ==
    ASSUME NEW t \in Time, NEW h \in 0..23
    PROVE  LET v == [t EXCEPT !.hour = h, !.minute = 0]
           IN  v \in Time /\ v.day = t.day /\ v.hour = h /\ v.minute = 0
<1> DEFINE v == [t EXCEPT !.hour = h, !.minute = 0]
<1>1. v.day = t.day /\ v.hour = h /\ v.minute = 0
    BY DEF Time
<1>2. 0 \in 0..59
    OBVIOUS
<1>3. v \in Time
    BY <1>2 DEF Time
<1> QED
    BY <1>1, <1>3

\* To a later hour of the list, or to the next day.
LEMMA HourStep ==
    ASSUME NEW e \in Crons, NEW t \in Time, ~FieldMatches("hour", e.hour, t)
    PROVE  GoodStep(e, t, IncrementHour(e.hour, t))
<1> DEFINE list == CreateList("hour", e.hour)
           later == LaterInList(list, t.hour)
           u == IncrementHour(e.hour, t)
<1>1. "hour" \in Fields /\ InField("hour") = 0..23
    BY FieldNames, LimitsOfFields
<1>2. t.day \in Int /\ t.hour \in 0..23 /\ t.minute \in 0..59 /\ t.hour \in Int
    BY DEF Time
<1>3. e.hour.form = "list"
    BY <1>1, MismatchOfList
<1>4. later \in 0..23 /\ later \in Int
      /\ (AllInOrder(e) => \A x \in ToSet(list) : x > t.hour => later > t.hour /\ later <= x)
    BY <1>1, <1>2, <1>3, LaterOfField
<1>5. t.hour \notin ToSet(list)
    BY <1>3 DEF FieldMatches, ListMatches
<1>6. ValuesOf("hour", e.hour) = ToSet(list)
    BY <1>3 DEF ValuesOf
<1>7. u = IF t.hour >= later THEN NextDay(t) ELSE [t EXCEPT !.hour = later, !.minute = 0]
    BY DEF IncrementHour
<1> HIDE DEF list, later, u
<1>8. CASE t.hour >= later
    <2>1. /\ u \in Time /\ u.day = t.day + 1 /\ u.hour = 0 /\ u.minute = 0
        BY <1>2, <1>7, <1>8 DEF NextDay, Midnight, Time
    <2>2. MinuteNumber(t) <= MinuteNumber(u)
        BY <1>2, <2>1 DEF MinuteNumber
    <2>3. ASSUME AllInOrder(e),
                 NEW h \in ValuesOf("hour", e.hour), NEW m \in ValuesOf("minute", e.minute)
          PROVE  (t.day * 24 + h) * 60 + m <= MinuteNumber(t)
        <3>1. h \in 0..23 /\ m \in 0..59
            BY HoursAndMinutes
        <3>2. ~(h > t.hour)
            BY <1>4, <1>6, <1>8, <2>3, <1>2
        <3>3. h # t.hour
            BY <1>5, <1>6
        <3> QED
            BY <1>2, <3>1, <3>2, <3>3 DEF MinuteNumber
    <2> QED
        BY <2>1, <2>2, <2>3, StepWithinDay DEF u
<1>9. CASE t.hour < later
    <2>1. /\ u \in Time /\ u.day = t.day /\ u.hour = later /\ u.minute = 0
        <3>1. u = [t EXCEPT !.hour = later, !.minute = 0]
            BY <1>2, <1>4, <1>7, <1>9
        <3> QED
            BY <1>4, <3>1, LaterHour
    <2>2. MinuteNumber(t) <= MinuteNumber(u)
        BY <1>2, <1>4, <1>9, <2>1 DEF MinuteNumber
    <2>3. ASSUME AllInOrder(e),
                 NEW h \in ValuesOf("hour", e.hour), NEW m \in ValuesOf("minute", e.minute)
          PROVE  \/ (t.day * 24 + h) * 60 + m <= MinuteNumber(t)
                 \/ (t.day * 24 + h) * 60 + m >= MinuteNumber(u)
        <3>1. h \in 0..23 /\ m \in 0..59
            BY HoursAndMinutes
        <3>2. h > t.hour => h >= later
            BY <1>4, <1>6, <2>3, <3>1
        <3>3. h # t.hour
            BY <1>5, <1>6
        <3> QED
            BY <1>2, <1>4, <2>1, <3>1, <3>2, <3>3 DEF MinuteNumber
    <2> QED
        BY <2>1, <2>2, <2>3, StepWithinDay DEF u
<1> QED
    BY <1>2, <1>4, <1>8, <1>9

\* To a later minute, or to the next hour: also from a minute that matches.
LEMMA MinuteStep ==
    ASSUME NEW e \in Crons, NEW t \in Time
    PROVE  GoodStep(e, t, IncrementMinute(e.minute, t))
<1> DEFINE list == CreateList("minute", e.minute)
           later == LaterInList(list, t.minute)
           hourLater == IF t.hour = 23 THEN NextDay(t)
                        ELSE [t EXCEPT !.hour = t.hour + 1, !.minute = 0]
           u == IncrementMinute(e.minute, t)
<1>1. "minute" \in Fields /\ InField("minute") = 0..59
    BY FieldNames, LimitsOfFields
<1>2. t.day \in Int /\ t.hour \in 0..23 /\ t.minute \in 0..59
    BY DEF Time
<1>3. /\ hourLater \in Time
      /\ hourLater.day = t.day \/ (hourLater.day = t.day + 1 /\ hourLater.hour = 0
                                   /\ hourLater.minute = 0)
      /\ MinuteNumber(hourLater) = (t.day * 24 + t.hour + 1) * 60
    <2>1. CASE t.hour = 23
        <3>1. hourLater = NextDay(t)
            BY <2>1
        <3> HIDE DEF hourLater
        <3> QED
            BY <1>2, <2>1, <3>1 DEF NextDay, Midnight, Time, MinuteNumber
    <2>2. CASE t.hour # 23
        <3>1. hourLater = [t EXCEPT !.hour = t.hour + 1, !.minute = 0]
            BY <2>2
        <3> HIDE DEF hourLater
        <3>2. /\ hourLater \in Time /\ hourLater.day = t.day
              /\ hourLater.hour = t.hour + 1 /\ hourLater.minute = 0
            <4>1. t.hour + 1 \in 0..23
                BY <1>2, <2>2
            <4> QED
                BY <3>1, <4>1, LaterHour
        <3> QED
            BY <1>2, <3>2 DEF MinuteNumber
    <2> HIDE DEF hourLater
    <2> QED
        BY <2>1, <2>2
<1>10. MinuteNumber(t) = (t.day * 24 + t.hour) * 60 + t.minute
    BY DEF MinuteNumber
<1> DEFINE Past(x) == \A m \in ValuesOf("minute", e.minute) : m <= t.minute \/ m >= x
<1>4. ASSUME AllInOrder(e) => Past(60) PROVE GoodStep(e, t, hourLater)
    <2> HIDE DEF hourLater, u
    <2>1. MinuteNumber(t) <= MinuteNumber(hourLater)
        BY <1>2, <1>3, <1>10
    <2>2. ASSUME AllInOrder(e),
                 NEW h \in ValuesOf("hour", e.hour), NEW m \in ValuesOf("minute", e.minute)
          PROVE  \/ (t.day * 24 + h) * 60 + m <= MinuteNumber(t)
                 \/ (t.day * 24 + h) * 60 + m >= MinuteNumber(hourLater)
        <3>1. h \in 0..23 /\ m \in 0..59
            BY HoursAndMinutes
        <3>2. m <= t.minute \/ m >= 60
            BY <1>4, <2>2
        <3> QED
            <4>1. /\ t.day \in Int /\ t.hour \in Int /\ t.minute \in Int /\ 0 <= t.minute
                  /\ h \in Int /\ m \in Int /\ 0 <= m /\ m <= 59
                BY <1>2, <3>1
            <4>2. \/ (t.day * 24 + h) * 60 + m <= (t.day * 24 + t.hour) * 60 + t.minute
                  \/ (t.day * 24 + h) * 60 + m >= (t.day * 24 + t.hour) * 60 + 60
                BY <3>2, <4>1, WithinHour
            <4>3. (t.day * 24 + t.hour) * 60 + 60 = (t.day * 24 + t.hour + 1) * 60
                BY <4>1
            <4> QED
                BY <1>3, <1>10, <4>2, <4>3
    <2> QED
        BY <1>3, <2>1, <2>2, StepWithinDay
<1>5. ASSUME NEW x \in 0..59, x > t.minute, AllInOrder(e) => Past(x)
      PROVE  GoodStep(e, t, [t EXCEPT !.minute = x])
    <2> DEFINE v == [t EXCEPT !.minute = x]
    <2> HIDE DEF hourLater, u
    <2>1. v \in Time /\ v.day = t.day /\ v.hour = t.hour /\ v.minute = x
        BY <1>2 DEF Time
    <2> HIDE DEF v
    <2>2. MinuteNumber(v) = (t.day * 24 + t.hour) * 60 + x
        BY <2>1 DEF MinuteNumber
    <2>3. MinuteNumber(t) <= MinuteNumber(v)
        BY <1>2, <1>5, <1>10, <2>2
    <2>4. ASSUME AllInOrder(e),
                 NEW h \in ValuesOf("hour", e.hour), NEW m \in ValuesOf("minute", e.minute)
          PROVE  \/ (t.day * 24 + h) * 60 + m <= MinuteNumber(t)
                 \/ (t.day * 24 + h) * 60 + m >= MinuteNumber(v)
        <3>1. h \in 0..23 /\ m \in 0..59
            BY HoursAndMinutes
        <3>2. m <= t.minute \/ m >= x
            BY <1>5, <2>4
        <3> QED
            <4>1. /\ t.day \in Int /\ t.hour \in Int /\ t.minute \in Int /\ 0 <= t.minute
                  /\ h \in Int /\ m \in Int /\ 0 <= m /\ m <= 59 /\ x \in Int /\ x <= 60
                BY <1>2, <1>5, <3>1
            <4> HIDE DEF v
            <4>2. \/ (t.day * 24 + h) * 60 + m <= (t.day * 24 + t.hour) * 60 + t.minute
                  \/ (t.day * 24 + h) * 60 + m >= (t.day * 24 + t.hour) * 60 + x
                BY <3>2, <4>1, WithinHour
            <4> QED
                BY <1>10, <2>2, <4>2
    <2> QED
        BY <2>1, <2>3, <2>4, StepWithinDay DEF v
<1>11. \A m \in ValuesOf("minute", e.minute) : m \in 0..59
    BY HoursAndMinutes
<1>6. CASE e.minute.form = "star"
    <2>1. CASE t.minute < 59
        <3>1. u = [t EXCEPT !.minute = t.minute + 1]
            BY <1>2, <1>6, <2>1 DEF IncrementMinute
        <3> HIDE DEF u, hourLater
        <3>2. Past(t.minute + 1)
            BY <1>2, <1>11
        <3>3. t.minute + 1 \in 0..59 /\ t.minute + 1 > t.minute
            BY <1>2, <2>1
        <3> HIDE DEF Past
        <3>4. GoodStep(e, t, [t EXCEPT !.minute = t.minute + 1])
            BY <1>5, <3>2, <3>3
        <3> QED
            BY <3>1, <3>4 DEF u
    <2>2. CASE t.minute = 59
        <3>1. u = hourLater
            BY <1>6, <2>2 DEF IncrementMinute
        <3> HIDE DEF u, hourLater
        <3>2. Past(60)
            BY <1>11, <2>2
        <3> HIDE DEF Past
        <3> QED
            BY <1>4, <3>1, <3>2 DEF u
    <2> QED
        BY <1>2, <2>1, <2>2
<1>7. CASE e.minute.form # "star"
    <2>1. e.minute.form = "list" /\ ValuesOf("minute", e.minute) = ToSet(list)
        BY <1>7, FormsOfFields DEF ValuesOf
    <2>2. later \in 0..59 /\ later \in Int
          /\ (AllInOrder(e) => \A x \in ToSet(list) : x > t.minute => later > t.minute /\ later <= x)
        BY <1>1, <1>2, <2>1, LaterOfField
    <2>3. u = IF t.minute >= later THEN hourLater ELSE [t EXCEPT !.minute = later]
        BY <1>7 DEF IncrementMinute
    <2> HIDE DEF u, hourLater, later, list
    <2>5. CASE t.minute >= later
        <3>1. ASSUME AllInOrder(e), NEW m \in ToSet(list) PROVE m <= t.minute
            <4>1. ~(m > t.minute)
                BY <1>2, <2>2, <2>5, <3>1
            <4> QED
                BY <1>2, <1>11, <2>1, <4>1
        <3>2. AllInOrder(e) => Past(60)
            BY <2>1, <3>1
        <3>3. u = hourLater
            BY <2>3, <2>5
        <3> HIDE DEF Past
        <3> QED
            BY <1>4, <3>2, <3>3 DEF u
    <2>6. CASE later > t.minute
        <3>1. ASSUME AllInOrder(e), NEW m \in ToSet(list) PROVE m <= t.minute \/ m >= later
            BY <1>2, <1>11, <2>1, <2>2, <3>1
        <3>2. AllInOrder(e) => Past(later)
            BY <2>1, <3>1
        <3>3. u = [t EXCEPT !.minute = later]
            BY <1>2, <2>2, <2>3, <2>6
        <3> HIDE DEF Past
        <3>4. GoodStep(e, t, [t EXCEPT !.minute = later])
            BY <1>5, <2>2, <2>6, <3>2
        <3> QED
            BY <3>3, <3>4 DEF u
    <2>7. t.minute >= later \/ later > t.minute
        BY <1>2, <2>2
    <2> QED
        BY <2>5, <2>6, <2>7
<1> QED
    BY <1>6, <1>7

-----------------------------------------------------------------------------
(* The whole search: its inductive invariant.                              *)

\* An expression is there once the form was accepted, one the parser accepted
\* once the search has begun, and the time moved on from the one asked for.
SearchInv ==
    /\ form \in Form
    /\ at \in {"form", "refused", "stored", "ignored", "search", "answered", "gaveUp"}
    /\ at \notin {"form", "refused"} => FormAccepted(form) /\ expr = CronFromForm(form)
    /\ at = "ignored" => ~Valid(expr)
    /\ at \in {"search", "answered"} => /\ expr \in Crons
                                        /\ start \in Time /\ next \in Time
                                        /\ MinuteNumber(start) <= MinuteNumber(next)
    /\ at = "answered" => Matches(expr, next)

\* A form's expression has a value for each field.
LEMMA CronOfForm ==
    ASSUME NEW x \in Form
    PROVE  CronFromForm(x) \in [Fields -> FieldValue]
<1>1. CASE x.kind = "custom"
    <2>1. x \in CustomForm
        BY <1>1, CronAssumption DEF PanelForm, Kinds
    <2> QED
        BY <1>1, <2>1 DEF CronFromForm, CustomForm, Fields
<1>2. CASE x.kind # "custom"
    <2>1. x \in PanelForm
        BY <1>2, CronAssumption DEF CustomForm
    <2>2. \A f \in Fields : x[f] \in Int
        BY <2>1, FieldNames DEF PanelForm
    <2>3. \A n \in Int : Number(n) \in FieldValue
        BY DEF Number, List, Item, Items, FieldValue
    <2>4. Star \in FieldValue
        BY DEF FieldValue
    <2>5. CronFromForm(x)
            = [f \in Fields |-> IF f \in FormFields(x.kind) THEN Number(x[f]) ELSE Star]
        BY <1>2 DEF CronFromForm, Fields
    <2> QED
        BY <2>2, <2>3, <2>4, <2>5
<1> QED
    BY <1>1, <1>2

\* Times are counted in minutes.
LEMMA NumbersOfTime ==
    ASSUME NEW t \in Time
    PROVE  MinuteNumber(t) \in Int
BY DEF MinuteNumber, Time

\* The step of the first field that does not match.
LEMMA FieldStep ==
    ASSUME NEW e \in Crons, NEW t \in Time, NEW f \in Fields, ~FieldMatches(f, e[f], t)
    PROVE  GoodStep(e, t, Increment(f, e[f], t))
<1>1. CASE f = "month"
    BY <1>1, MonthStep DEF Increment, Civil
<1>2. CASE f = "dayOfMonth"
    BY <1>2, DayOfMonthStep DEF Increment, Civil
<1>3. CASE f = "dayOfWeek"
    BY <1>3, DayOfWeekStep DEF Increment
<1>4. CASE f = "hour"
    BY <1>4, HourStep DEF Increment
<1>5. CASE f = "minute"
    BY <1>5, MinuteStep DEF Increment
<1> QED
    BY <1>1, <1>2, <1>3, <1>4, <1>5, FieldNames

\* A round in which a field does not match is a good step.
LEMMA AdvanceStep ==
    ASSUME SearchInv, Advance
    PROVE  GoodStep(expr, next, next')
<1>1. expr \in Crons /\ next \in Time
    BY DEF SearchInv, Advance, Round
<1> DEFINE bad == Mismatches(expr, next)
           first == CHOOSE k \in bad : \A j \in bad : k <= j
<1>2. bad \subseteq Nat /\ bad # {}
    BY DEF Mismatches, Matches, Advance, FieldOrder
<1>3. first \in bad
    <2> HIDE DEF bad
    <2> QED
        BY <1>2, LeastNumber
<1> DEFINE f == FieldOrder[first]
<1>4. next' = Increment(f, expr[f], next)
    BY DEF Advance
<1> HIDE DEF first
<1>5. f \in Fields /\ ~FieldMatches(f, expr[f], next)
    BY <1>3, FieldNames DEF Mismatches, FieldOrder
<1> HIDE DEF f
<1> QED
    BY <1>1, <1>4, <1>5, FieldStep

\* So is the round that leaves the time asked for.
LEMMA LeaveNowStep ==
    ASSUME SearchInv, LeaveNow
    PROVE  GoodStep(expr, next, next')
<1>1. expr \in Crons /\ next \in Time
    BY DEF SearchInv, LeaveNow, Round
<1> QED
    BY <1>1, MinuteStep DEF LeaveNow

\* The invariant holds in every reachable state.
LEMMA SearchInvHolds == Spec => []SearchInv
<1>1. Init => SearchInv
    BY DEF Init, SearchInv
<1>2. SearchInv /\ [Next]_vars => SearchInv'
    <2> SUFFICES ASSUME SearchInv, [Next]_vars PROVE SearchInv'
        OBVIOUS
    <2>1. CASE Submit
        BY <2>1 DEF SearchInv, Submit
    <2>2. CASE Ask
        <3>1. CASE Valid(expr)
            <4>1. expr \in Crons
                BY <2>2, <3>1, CronOfForm DEF SearchInv, Ask, Crons
            <4>2. start' \in Time /\ next' = start'
                BY <2>2, <3>1, CronAssumption DEF Ask
            <4>3. MinuteNumber(start') \in Int
                BY <4>2, NumbersOfTime
            <4>4. MinuteNumber(start') <= MinuteNumber(next')
                BY <4>2, <4>3
            <4> QED
                BY <2>2, <3>1, <4>1, <4>2, <4>4 DEF SearchInv, Ask
        <3>2. CASE ~Valid(expr)
            BY <2>2, <3>2 DEF SearchInv, Ask
        <3> QED
            BY <3>1, <3>2
    <2>3. ASSUME Advance \/ LeaveNow PROVE SearchInv'
        <3>1. GoodStep(expr, next, next')
            BY <2>3, AdvanceStep, LeaveNowStep
        <3>2. at = "search" /\ UNCHANGED <<form, at, expr, start>>
            BY <2>3 DEF Advance, LeaveNow, Round
        <3>3. /\ MinuteNumber(start) \in Int /\ MinuteNumber(next) \in Int
              /\ MinuteNumber(next') \in Int /\ next' \in Time
              /\ MinuteNumber(start) <= MinuteNumber(next)
              /\ MinuteNumber(next) <= MinuteNumber(next')
            BY <3>1, <3>2, NumbersOfTime DEF SearchInv, GoodStep
        <3>4. MinuteNumber(start) <= MinuteNumber(next')
            BY <3>3
        <3> QED
            BY <3>2, <3>3, <3>4 DEF SearchInv
    <2>4. CASE Return
        BY <2>4 DEF SearchInv, Return, Round
    <2>5. CASE GiveUp
        BY <2>5 DEF SearchInv, GiveUp
    <2>6. CASE UNCHANGED vars
        BY <2>6 DEF SearchInv, vars, Matches, Mismatches
    <2> QED
        BY <2>1, <2>2, <2>3, <2>4, <2>5, <2>6 DEF Next
<1> QED
    BY <1>1, <1>2, PTL DEF Spec

\* What the panel builds for a kind of schedule, the parser accepts and the
\* storage files under that kind.
THEOREM PanelStorageAndParserAgree == Spec => []FormsAreUnderstood
<1>1. SearchInv => FormsAreUnderstood
    <2> SUFFICES ASSUME SearchInv, at # "form", form.kind # "custom"
                 PROVE  /\ at # "ignored"
                        /\ at # "refused" => Classify(expr) = form.kind
        BY DEF FormsAreUnderstood
    <2>1. form \in PanelForm
        BY CronAssumption DEF SearchInv, CustomForm
    <2>2. CASE at = "refused"
        BY <2>2
    <2>3. CASE at # "refused"
        <3>1. FormAccepted(form) /\ expr = CronFromForm(form)
            BY <2>3 DEF SearchInv
        <3>2. Valid(expr) /\ Classify(expr) = form.kind
            BY <2>1, <3>1, PanelFormIsUnderstood
        <3> QED
            BY <3>2 DEF SearchInv
    <2> QED
        BY <2>2, <2>3
<1> QED
    BY <1>1, SearchInvHolds, PTL

\* No step of the search jumps over a minute that matches, except in a list
\* that is not in order and after a month that lacks a day of the list.
THEOREM SearchSkipsNothingElse == Spec => NothingElseIsSkipped
<1> DEFINE A == at = "search" /\ at' = "search" /\ AllInOrder(expr) =>
                   NoneSkipped(expr, next, next')
<1>1. SearchInv /\ [Next]_vars => [A]_vars
    <2> SUFFICES ASSUME SearchInv, Next, at = "search", at' = "search", AllInOrder(expr)
                 PROVE  NoneSkipped(expr, next, next')
        OBVIOUS
    <2>1. Advance \/ LeaveNow
        BY DEF Next, Submit, Ask, Return, GiveUp
    <2> QED
        BY <2>1, AdvanceStep, LeaveNowStep DEF GoodStep
<1>2. Spec => [][A]_vars
    BY <1>1, SearchInvHolds, PTL DEF Spec
<1> QED
    BY <1>2 DEF NothingElseIsSkipped, NoneSkipped, MinuteNumber

-----------------------------------------------------------------------------
(* What an answer says of its day.                                         *)

\* Two Saturdays or Sundays, and what lies around them.
LEMMA AroundWeekend ==
    ASSUME NEW a \in Int, a % 7 \in {0, 6}
    PROVE  \/ (a - 1) % 7 \notin {0, 6} /\ (a + 2) % 7 \notin {0, 6}
           \/ (a + 1) % 7 \notin {0, 6} /\ (a - 2) % 7 \notin {0, 6}
BY SMTT(30)

\* calc_nearest_weekday finds a weekday of the month, and none is nearer.
LEMMA NearestIsNearest ==
    ASSUME NEW y \in Int, NEW m \in 1..12,
           NEW target \in Int, 1 <= target, target <= LastDayOfMonth(y, m)
    PROVE  LET d == CalcNearestWeekday(y, m, target)
               weekdays == {x \in 1..LastDayOfMonth(y, m) :
                               ~IsWeekend(DaysFromCivil(y, m, 1) - 1 + x)}
           IN  d \in weekdays /\ \A x \in weekdays : Distance(d, target) <= Distance(x, target)
<1> DEFINE first == DaysFromCivil(y, m, 1)
           last == LastDayOfMonth(y, m)
           W(x) == IsWeekend(first - 1 + x)
           weekdays == {x \in 1..last : ~W(x)}
           d == CalcNearestWeekday(y, m, target)
           offsets == <<-1, 1, -2, 2>>
           Fits(o) == target + o \in 1..last /\ ~W(target + o)
           fitting == {k \in 1..4 : Fits(offsets[k])}
           k == CHOOSE k \in fitting : \A j \in fitting : k <= j
<1>1. first \in Int /\ last \in Int /\ 28 <= last /\ target <= last
    BY MonthTypes
<1>2. \A x \in Int : IsWeekend(DaysFromCivil(y, m, x)) <=> W(x)
    <2> TAKE x \in Int
    <2>1. DaysFromCivil(y, m, x) = first + x - 1
        BY DayOfThatMonth
    <2>2. first + x - 1 = first - 1 + x
        BY <1>1
    <2> QED
        BY <2>1, <2>2
<1>3. d = IF ~W(target) THEN target ELSE target + offsets[k]
    <2> DEFINE InMonth(o) == /\ target + o \in 1..LastDayOfMonth(y, m)
                             /\ ~IsWeekend(DaysFromCivil(y, m, target + o))
               found == {j \in 1..4 : InMonth(offsets[j])}
    <2>1. d = IF ~IsWeekend(DaysFromCivil(y, m, target)) THEN target
              ELSE target + offsets[CHOOSE n \in found : \A j \in found : n <= j]
        BY DEF CalcNearestWeekday
    <2>2. \A j \in 1..4 : offsets[j] \in Int
        OBVIOUS
    <2> HIDE DEF offsets, W, d
    <2>3. \A j \in 1..4 : InMonth(offsets[j]) <=> Fits(offsets[j])
        BY <1>2, <2>2
    <2>4. found = fitting
        BY <2>3
    <2> HIDE DEF found, fitting
    <2> QED
        BY <1>2, <2>1, <2>4
<1>4. ASSUME NEW x \in Int PROVE W(x) <=> (first + 3 + x) % 7 \in {0, 6}
    BY <1>1 DEF IsWeekend, DayOfWeek
<1> SUFFICES d \in weekdays /\ \A x \in weekdays : Distance(d, target) <= Distance(x, target)
    BY DEF weekdays, d
<1> HIDE DEF d, W, first, last
<1>5. CASE ~W(target)
    BY <1>1, <1>3, <1>5 DEF Distance
<1>6. CASE W(target)
    <2>1. fitting # {}
        <3>1. (first + 3 + target) % 7 \in {0, 6} /\ first + 3 + target \in Int
            BY <1>1, <1>4, <1>6
        <3>2. \/ ~W(target - 1) /\ ~W(target + 2)
              \/ ~W(target + 1) /\ ~W(target - 2)
            <4>1. /\ (first + 3 + target) - 1 = first + 3 + (target - 1)
                  /\ (first + 3 + target) + 1 = first + 3 + (target + 1)
                  /\ (first + 3 + target) - 2 = first + 3 + (target - 2)
                  /\ (first + 3 + target) + 2 = first + 3 + (target + 2)
                BY <1>1
            <4> QED
                BY <1>4, <3>1, <4>1, AroundWeekend
        <3>3. Fits(-1) \/ Fits(2) \/ Fits(1) \/ Fits(-2)
            BY <1>1, <3>2
        <3> QED
            BY <3>3
    <2>2. k \in fitting /\ \A j \in fitting : k <= j
        <3>1. fitting \subseteq Nat
            OBVIOUS
        <3> HIDE DEF fitting
        <3> QED
            BY <2>1, <3>1, LeastNumber
    <2> HIDE DEF k
    <2>3. d = target + offsets[k]
        BY <1>3, <1>6
    <2>4. k \in 1..4 /\ Fits(offsets[k])
        BY <2>2
    <2>5. d \in weekdays
        BY <2>3, <2>4, <1>1
    <2>6. ASSUME NEW x \in weekdays PROVE Distance(d, target) <= Distance(x, target)
        <3>1. x \in Int /\ x # target /\ x \in 1..last /\ ~W(x)
            BY <1>1, <1>6, <2>6
        <3>2. CASE k \in {1, 2}
            BY <1>1, <2>3, <3>1, <3>2 DEF Distance
        <3>3. CASE k \in {3, 4}
            <4>1. ~Fits(-1) /\ ~Fits(1)
                BY <2>2, <3>3
            <4>2. x # target - 1 /\ x # target + 1
                BY <1>1, <3>1, <4>1
            <4> QED
                BY <1>1, <2>3, <3>1, <3>3, <4>2 DEF Distance
        <3> QED
            BY <2>4, <3>2, <3>3
    <2> QED
        BY <2>5, <2>6
<1> QED
    BY <1>5, <1>6

\* The day of the month that matches is the one its comment tells.
LEMMA DayOfMonthAsDocumented ==
    ASSUME NEW v, NEW days \in Int, v.form = "weekday" => v.day \in 1..31,
           v.form \in {"last", "weekday"},
           DayOfMonthMatches(v, CivilFromDays(days))
    PROVE  LET c == CivilFromDays(days)
               last == LastDayOfMonth(c.year, c.month)
               weekdays == {d \in 1..last : ~IsWeekend(days - c.day + d)}
               target == IF v.day > last THEN last ELSE v.day
           IN  /\ v.form = "last" => CivilFromDays(days + 1).day = 1
               /\ v.form = "weekday" =>
                     /\ c.day \in weekdays
                     /\ \A d \in weekdays : Distance(c.day, target) <= Distance(d, target)
<1> DEFINE c == CivilFromDays(days)
           y == c.year
           m == c.month
           last == LastDayOfMonth(y, m)
           first == DaysFromCivil(y, m, 1)
<1>1. y \in Int /\ m \in 1..12 /\ c.day \in 1..31 /\ days = first + c.day - 1
    BY CivilTypes
<1>2. /\ v.form = "last" => c.day = last
      /\ v.form = "weekday" => c.day = CalcNearestWeekday(y, m, IF v.day > last THEN last ELSE v.day)
    BY DEF DayOfMonthMatches, ListMatches
<1> HIDE DEF c, y, m
<1>3. first \in Int /\ last \in Int /\ 28 <= last
    BY <1>1, MonthTypes
<1>4. CASE v.form = "last"
    <2>1. /\ DaysFromCivil(y, m, 1) + LastDayOfMonth(y, m) = days + 1
          /\ DaysFromCivil(y, m, 1) + LastDayOfMonth(y, m) <= days + 1
          /\ days + 1 < DaysFromCivil(y, m, 1) + LastDayOfMonth(y, m) + 28
        BY <1>1, <1>2, <1>3, <1>4
    <2>2. days + 1 \in Int
        OBVIOUS
    <2>3. CivilFromDays(days + 1).day
             = (days + 1) - (DaysFromCivil(y, m, 1) + LastDayOfMonth(y, m)) + 1
        BY <1>1, <2>1, <2>2, DaysOfNextMonth
    <2>4. CivilFromDays(days + 1).day = 1
        BY <2>1, <2>2, <2>3
    <2> QED
        BY <1>4, <2>4
<1>5. CASE v.form = "weekday"
    <2> DEFINE target == IF v.day > last THEN last ELSE v.day
               weekdays == {d \in 1..last : ~IsWeekend(days - c.day + d)}
    <2>1. target \in Int /\ 1 <= target /\ target <= LastDayOfMonth(y, m)
        BY <1>3, <1>5
    <2>2. days - c.day = DaysFromCivil(y, m, 1) - 1
        BY <1>1, <1>3
    <2>3. weekdays = {x \in 1..LastDayOfMonth(y, m) : ~IsWeekend(DaysFromCivil(y, m, 1) - 1 + x)}
        BY <2>2
    <2>4. c.day = CalcNearestWeekday(y, m, target)
        BY <1>2, <1>5
    <2> HIDE DEF target, weekdays
    <2>5. c.day \in weekdays
          /\ \A d \in weekdays : Distance(c.day, target) <= Distance(d, target)
        BY <1>1, <2>1, <2>3, <2>4, NearestIsNearest
    <2> QED
        BY <1>5, <2>5 DEF target, weekdays, c, y, m
<1> QED
    BY <1>4, <1>5 DEF c, y, m

\* The last such weekday of the month: a week later it is another month.
LEMMA LastOfMonthAsDocumented ==
    ASSUME NEW v, v.form = "lastOfMonth", v.day \in 0..6, NEW days \in Int,
           DayOfWeekMatches(v, CivilFromDays(days), DayOfWeek(days))
    PROVE  DayOfWeek(days) = v.day /\ CivilFromDays(days + 7).month # CivilFromDays(days).month
<1> DEFINE c == CivilFromDays(days)
           y == c.year
           m == c.month
           first == DaysFromCivil(y, m, 1)
           last == LastDayOfMonth(y, m)
           end == first + last - 1
           back == (DayOfWeek(end) - v.day) % 7
<1>1. y \in Int /\ m \in 1..12 /\ c.day \in 1..31 /\ days = first + c.day - 1
    BY CivilTypes
<1>2. DaysFromCivil(y, m, last) = end
    <2> HIDE DEF y, m
    <2>1. last \in Int
        BY <1>1, MonthTypes
    <2> QED
        BY <1>1, <2>1, DayOfThatMonth
<1>3. c.day = CivilFromDays(end - back).day
    BY <1>2 DEF DayOfWeekMatches, ListMatches
<1> HIDE DEF c, y, m
<1>4. first \in Int /\ last \in Int /\ 28 <= last
    BY <1>1, MonthTypes
<1>5. end \in Int
    BY <1>4
<1> HIDE DEF end
<1>6. back \in Int /\ 0 <= back /\ back <= 6 /\ DayOfWeek(end - back) = v.day
    BY <1>5, SMTT(30) DEF DayOfWeek
<1> HIDE DEF back, first, last
<1>7. c.day = last - back
    <2>1. /\ first <= end - back /\ end - back < first + last
          /\ (end - back) - first + 1 = last - back /\ end - back \in Int
        BY <1>4, <1>6 DEF end
    <2>2. CivilFromDays(end - back)
             = [year |-> y, month |-> m, day |-> (end - back) - first + 1]
        BY <1>1, <2>1, DaysOfMonth DEF first, last
    <2> QED
        BY <1>3, <2>1, <2>2
<1>8. days = end - back
    BY <1>1, <1>4, <1>6, <1>7 DEF end
<1>9. CivilFromDays(days + 7).month # m
    <2>1. /\ first + last <= days + 7 /\ days + 7 < first + last + 28 /\ days + 7 \in Int
        BY <1>4, <1>6, <1>8 DEF end
    <2> QED
        BY <1>1, <2>1, DaysOfNextMonth DEF first, last
<1> QED
    BY <1>6, <1>8, <1>9 DEF m, c

\* The n-th such weekday of the month, or the fifth in a common February.
LEMMA NthOfMonthAsDocumented ==
    ASSUME NEW v, v.form = "nth", v.day \in 0..6, v.count \in 1..5, NEW days \in Int,
           DayOfWeekMatches(v, CivilFromDays(days), DayOfWeek(days))
    PROVE  LET c == CivilFromDays(days)
           IN  /\ DayOfWeek(days) = v.day
               /\ \/ (c.day - 1) \div 7 + 1 = v.count
                  \/ v.count = 5 /\ c.month = 2 /\ ~IsLeap(c.year) /\ c.day <= 7
<1> DEFINE c == CivilFromDays(days)
           y == c.year
           m == c.month
           first == DaysFromCivil(y, m, 1)
           last == LastDayOfMonth(y, m)
           on == (v.day - DayOfWeek(first)) % 7
           found == first + on + 7 * (v.count - 1)
<1>1. y \in Int /\ m \in 1..12 /\ c.day \in 1..31 /\ days = first + c.day - 1
      /\ c.day <= last
    BY CivilTypes
<1>2. DayOfWeek(days) = v.day /\ c.day = CivilFromDays(found).day
    BY DEF DayOfWeekMatches, ListMatches, NthFrom
<1> HIDE DEF c, y, m
<1>3. first \in Int /\ last \in Int /\ 28 <= last
    BY <1>1, MonthTypes
<1> HIDE DEF first, last
<1>4. on \in Int /\ 0 <= on /\ on <= 6 /\ DayOfWeek(first + on) = v.day
    BY <1>3, SMTT(30) DEF DayOfWeek
<1> HIDE DEF on
<1>5. CASE found < first + last
    <2>1. /\ first <= found /\ found \in Int /\ found - first + 1 = on + 7 * (v.count - 1) + 1
        BY <1>3, <1>4
    <2> HIDE DEF found
    <2>2. CivilFromDays(found) = [year |-> y, month |-> m, day |-> found - first + 1]
        BY <1>1, <1>5, <2>1, DaysOfMonth DEF first, last
    <2>3. c.day = on + 7 * (v.count - 1) + 1
        BY <1>2, <2>1, <2>2
    <2>4. (c.day - 1) \div 7 + 1 = v.count
        BY <1>4, <2>3, SMTT(30)
    <2> QED
        BY <1>2, <2>4 DEF c
<1>6. CASE first + last <= found
    <2>1. /\ found \in Int /\ found < first + last + 28
          /\ v.count = 5 /\ found = first + on + 28
        BY <1>3, <1>4, <1>6
    <2> HIDE DEF found
    <2>2. CivilFromDays(found).day = found - (first + last) + 1
        BY <1>1, <1>6, <2>1, DaysOfNextMonth DEF first, last
    <2>3. c.day = on + 29 - last
        BY <1>2, <1>3, <1>4, <2>1, <2>2
    <2>4. days = first + on + (28 - last)
        BY <1>1, <1>3, <1>4, <2>3
    <2>5. last = 28
        <3>1. last <= 34 /\ 28 <= last
            BY <1>1, <1>3, <1>4, <2>3
        <3>2. DayOfWeek(first + on + (28 - last)) = DayOfWeek(first + on)
            BY <1>2, <1>4, <2>4
        <3> DEFINE a == first + on
        <3>3. a \in Int
            BY <1>3, <1>4
        <3> HIDE DEF a
        <3>4. (a + (28 - last) + 4) % 7 = (a + 4) % 7
            BY <3>2 DEF a, DayOfWeek
        <3> QED
            BY <1>3, <3>1, <3>3, <3>4, SMTT(30)
    <2>6. m = 2 /\ ~IsLeap(y)
        BY <1>1, <2>5 DEF last, LastDayOfMonth
    <2>7. c.day <= 7
        BY <1>3, <1>4, <2>3, <2>5
    <2> QED
        BY <1>2, <2>1, <2>6, <2>7 DEF c, y, m
<1>7. found \in Int /\ first + last \in Int
    BY <1>3, <1>4
<1> HIDE DEF found
<1> QED
    BY <1>5, <1>6, <1>7, <1>3

\* An answer's day is one its comments tell of, or a fifth weekday in February.
LEMMA DayAsDocumented ==
    ASSUME NEW e \in Crons, NEW t \in Time, Matches(e, t)
    PROVE  DocumentedDay(e, t.day) \/ FifthInFebruary(e, t.day)
<1> DEFINE days == t.day
           c == CivilFromDays(days)
           dom == e.dayOfMonth
           dow == e.dayOfWeek
<1>1. days \in Int
    BY DEF Time
<1>2. \A f \in Fields : FieldMatches(f, e[f], t)
    <2>1. \A k \in 1..5 : FieldMatches(FieldOrder[k], e[FieldOrder[k]], t)
        BY DEF Matches, Mismatches, FieldOrder
    <2>2. \A f \in Fields : \E k \in 1..5 : FieldOrder[k] = f
        BY FieldNames DEF FieldOrder
    <2> QED
        BY <2>1, <2>2
<1>3. /\ FieldMatches("month", e.month, t) /\ FieldMatches("dayOfMonth", dom, t)
      /\ FieldMatches("dayOfWeek", dow, t)
    BY <1>2, FieldNames
<1>4. /\ FieldMatches("month", e.month, Midnight(days))
      /\ FieldMatches("dayOfMonth", dom, Midnight(days))
      /\ FieldMatches("dayOfWeek", dow, Midnight(days))
    BY <1>3 DEF FieldMatches, Midnight
<1>5. /\ dom.form \in {"star", "list", "any", "last", "weekday"}
      /\ dom.form = "weekday" => dom.day \in 1..31
      /\ dow.form \in {"star", "list", "any", "lastOfMonth", "nth"}
      /\ dow.form \in {"lastOfMonth", "nth"} => dow.day \in 0..6
      /\ dow.form = "nth" => dow.count \in 1..5
    BY FormsOfFields
<1>6. dom.form \in {"last", "weekday"} => DayOfMonthMatches(dom, c)
    BY <1>3 DEF FieldMatches
<1>7. dow.form \in {"lastOfMonth", "nth"} => DayOfWeekMatches(dow, c, DayOfWeek(days))
    BY <1>3 DEF FieldMatches
<1> DEFINE last == LastDayOfMonth(c.year, c.month)
           weekdays == {d \in 1..last : ~IsWeekend(days - c.day + d)}
           target == IF dom.day > last THEN last ELSE dom.day
           DomOK == CASE dom.form = "last" -> CivilFromDays(days + 1).day = 1
                      [] dom.form = "weekday" ->
                            /\ c.day \in weekdays
                            /\ \A d \in weekdays : Distance(c.day, target) <= Distance(d, target)
                      [] OTHER -> FieldMatches("dayOfMonth", dom, Midnight(days))
           DowOK == CASE dow.form = "lastOfMonth" ->
                            DayOfWeek(days) = dow.day /\ CivilFromDays(days + 7).month # c.month
                      [] dow.form = "nth" ->
                            DayOfWeek(days) = dow.day /\ (c.day - 1) \div 7 + 1 = dow.count
                      [] OTHER -> FieldMatches("dayOfWeek", dow, Midnight(days))
<1>8. DomOK
    <2>1. /\ dom.form = "last" => CivilFromDays(days + 1).day = 1
          /\ dom.form = "weekday" =>
                /\ c.day \in weekdays
                /\ \A d \in weekdays : Distance(c.day, target) <= Distance(d, target)
        <3>1. CASE dom.form \in {"last", "weekday"}
            <4> HIDE DEF days, dom
            <4> QED
                BY <1>1, <1>5, <1>6, <3>1, DayOfMonthAsDocumented
        <3> QED
            BY <3>1
    <2> HIDE DEF weekdays, target, days, dom, c
    <2> QED
        BY <1>4, <2>1
<1>9. DowOK \/ FifthInFebruary(e, days)
    <2>1. CASE dow.form = "lastOfMonth"
        BY <1>1, <1>5, <1>7, <2>1, LastOfMonthAsDocumented
    <2>2. CASE dow.form = "nth"
        <3>1. /\ DayOfWeek(days) = dow.day
              /\ \/ (c.day - 1) \div 7 + 1 = dow.count
                 \/ dow.count = 5 /\ c.month = 2 /\ ~IsLeap(c.year) /\ c.day <= 7
            BY <1>1, <1>5, <1>7, <2>2, NthOfMonthAsDocumented
        <3> QED
            BY <2>2, <3>1 DEF FifthInFebruary
    <2>3. CASE dow.form \notin {"lastOfMonth", "nth"}
        BY <1>4, <2>3
    <2> QED
        BY <2>1, <2>2, <2>3
<1>10. DocumentedDay(e, days) <=> FieldMatches("month", e.month, Midnight(days)) /\ DomOK /\ DowOK
    BY DEF DocumentedDay
<1> HIDE DEF DomOK, DowOK, days
<1> QED
    BY <1>4, <1>8, <1>9, <1>10 DEF days

\* An answer is not before the time asked for, at an hour and a minute of the
\* expression, on a day the comments of its fields tell of: but for the fifth
\* weekday of a common February.
THEOREM AnswersAreDocumented == Spec => []AnswersAsDocumented
<1>1. SearchInv => AnswersAsDocumented
    <2> SUFFICES ASSUME SearchInv, at = "answered" PROVE AnswersAsDocumented
        BY DEF AnswersAsDocumented
    <2>1. expr \in Crons /\ next \in Time /\ Matches(expr, next)
          /\ MinuteNumber(start) <= MinuteNumber(next)
        BY DEF SearchInv
    <2>2. MinuteNumber(next) >= MinuteNumber(start)
        BY <2>1, NumbersOfTime DEF SearchInv
    <2>3. next.hour \in ValuesOf("hour", expr.hour)
          /\ next.minute \in ValuesOf("minute", expr.minute)
        <3>1. FieldMatches("hour", expr.hour, next) /\ FieldMatches("minute", expr.minute, next)
            BY <2>1 DEF Matches, Mismatches, FieldOrder
        <3>2. next.hour \in 0..23 /\ next.minute \in 0..59
            BY <2>1 DEF Time
        <3>3. expr.hour.form \in {"star", "list"} /\ expr.minute.form \in {"star", "list"}
            BY <2>1, FormsOfFields
        <3>4. expr.hour.form = "list" => ListMatches("hour", expr.hour, next.hour)
            BY <3>1 DEF FieldMatches
        <3>5. expr.minute.form = "list" => ListMatches("minute", expr.minute, next.minute)
            BY <3>1 DEF FieldMatches
        <3> QED
            BY <3>2, <3>3, <3>4, <3>5 DEF ValuesOf, ListMatches, Limits
    <2>4. DocumentedDay(expr, next.day) \/ FifthInFebruary(expr, next.day)
        BY <2>1, DayAsDocumented
    <2> QED
        BY <2>2, <2>3, <2>4 DEF AnswersAsDocumented
<1> QED
    BY <1>1, SearchInvHolds, PTL

-----------------------------------------------------------------------------
(* How far the rounds of a search reach.                                   *)

\* Months in the order they come.
MonthNumber(days) == 12 * CivilFromDays(days).year + CivilFromDays(days).month

\* Later days are not in earlier months.
LEMMA MonthsFollowDays ==
    ASSUME NEW a \in Int, NEW b \in Int, a <= b
    PROVE  MonthNumber(a) \in Int /\ MonthNumber(b) \in Int /\ MonthNumber(a) <= MonthNumber(b)
<1> DEFINE ya == CivilFromDays(a).year
           ma == CivilFromDays(a).month
           yb == CivilFromDays(b).year
           mb == CivilFromDays(b).month
<1>1. ya \in Int /\ ma \in 1..12 /\ yb \in Int /\ mb \in 1..12
    BY CivilTypes
<1>2. ~Before(yb, mb, ya, ma)
    BY CivilIsOrdered
<1>3. MonthNumber(a) = 12 * ya + ma /\ MonthNumber(b) = 12 * yb + mb
    BY DEF MonthNumber
<1> HIDE DEF ya, ma, yb, mb
<1> QED
    BY <1>1, <1>2, <1>3 DEF Before

\* The first day of a later month, and those after it, are in later months.
LEMMA MonthReached ==
    ASSUME NEW y \in Int, NEW m \in 1..12, NEW days \in Int, DaysFromCivil(y, m, 1) <= days
    PROVE  MonthNumber(days) \in Int /\ 12 * y + m <= MonthNumber(days)
<1>1. DaysFromCivil(y, m, 1) \in Int /\ 1 <= LastDayOfMonth(y, m)
    <2>1. /\ DaysFromCivil(y, m, 1) \in Int /\ LastDayOfMonth(y, m) \in Int
          /\ 28 <= LastDayOfMonth(y, m)
        BY MonthTypes
    <2> QED
        BY <2>1
<1>2. CivilFromDays(DaysFromCivil(y, m, 1)) = [year |-> y, month |-> m, day |-> 1]
    <2>1. 1 \in Int /\ 1 <= 1 /\ 1 <= LastDayOfMonth(y, m)
        BY <1>1
    <2> QED
        BY <2>1, CivilOfDate
<1>3. MonthNumber(DaysFromCivil(y, m, 1)) = 12 * y + m
    BY <1>2 DEF MonthNumber
<1> QED
    BY <1>1, <1>3, MonthsFollowDays

\* The fields of the day look at the day alone.
LEMMA DayFields ==
    ASSUME NEW e \in Crons, NEW t \in Time
    PROVE  /\ \A f \in {"month", "dayOfMonth", "dayOfWeek"} :
                 FieldMatches(f, e[f], t) <=> FieldMatches(f, e[f], Midnight(t.day))
           /\ DayMatches(e, t.day) <=>
                 \A f \in {"month", "dayOfMonth", "dayOfWeek"} : FieldMatches(f, e[f], t)
<1>1. Midnight(t.day).day = t.day
    BY DEF Midnight
<1>2. FieldMatches("month", e.month, t) <=> FieldMatches("month", e.month, Midnight(t.day))
    BY <1>1 DEF FieldMatches
<1>3. FieldMatches("dayOfMonth", e.dayOfMonth, t)
        <=> FieldMatches("dayOfMonth", e.dayOfMonth, Midnight(t.day))
    BY <1>1 DEF FieldMatches
<1>4. FieldMatches("dayOfWeek", e.dayOfWeek, t)
        <=> FieldMatches("dayOfWeek", e.dayOfWeek, Midnight(t.day))
    BY <1>1 DEF FieldMatches
<1>5. DayMatches(e, t.day) <=>
         /\ FieldMatches("month", e.month, Midnight(t.day))
         /\ FieldMatches("dayOfMonth", e.dayOfMonth, Midnight(t.day))
         /\ FieldMatches("dayOfWeek", e.dayOfWeek, Midnight(t.day))
    BY DEF DayMatches, FieldOrder
<1> QED
    BY <1>2, <1>3, <1>4, <1>5

\* A time matches by its day, its hour and its minute.
LEMMA MatchesInParts ==
    ASSUME NEW e \in Crons, NEW t \in Time
    PROVE  Matches(e, t) <=> /\ DayMatches(e, t.day)
                             /\ FieldMatches("hour", e.hour, t)
                             /\ FieldMatches("minute", e.minute, t)
<1>1. Matches(e, t) <=> \A k \in 1..5 : FieldMatches(FieldOrder[k], e[FieldOrder[k]], t)
    BY DEF Matches, Mismatches, FieldOrder
<1>2. Matches(e, t) <=> /\ FieldMatches("month", e.month, t)
                        /\ FieldMatches("dayOfMonth", e.dayOfMonth, t)
                        /\ FieldMatches("dayOfWeek", e.dayOfWeek, t)
                        /\ FieldMatches("hour", e.hour, t)
                        /\ FieldMatches("minute", e.minute, t)
    BY <1>1 DEF FieldOrder
<1> QED
    BY <1>2, DayFields

\* A month that does not match leads to the first of a later month.
LEMMA MonthLeads ==
    ASSUME NEW e \in Crons, NEW t \in Time, ~FieldMatches("month", e.month, t)
    PROVE  LET u == IncrementMonth(e.month, Civil(t))
           IN  /\ t.day < u.day /\ u.hour = 0 /\ u.minute = 0
               /\ MonthNumber(t.day) < MonthNumber(u.day)
<1> DEFINE y == Civil(t).year
           m == Civil(t).month
           d == Civil(t).day
           list == CreateList("month", e.month)
           later == LaterInList(list, m)
           y2 == IF m >= later THEN y + 1 ELSE y
           m2 == IF m >= later THEN 1 ELSE later
           u == IncrementMonth(e.month, Civil(t))
<1>1. t.day \in Int /\ "month" \in Fields
    BY FieldNames DEF Time
<1>2. y \in Int /\ m \in 1..12 /\ t.day = DaysFromCivil(y, m, 1) + d - 1
      /\ d \in 1..31 /\ d <= LastDayOfMonth(y, m)
    BY <1>1, CivilTypes DEF Civil
<1>3. e.month.form = "list"
    BY <1>1, MismatchOfList
<1>4. later \in 1..12
    BY <1>1, <1>2, <1>3, LaterOfField, LimitsOfFields
<1>5. u = Date(y2, m2, 1)
    BY DEF IncrementMonth
<1>6. MonthNumber(t.day) = 12 * y + m
    BY DEF MonthNumber, Civil
<1> HIDE DEF y, m, d, list, later, u
<1>7. y2 \in Int /\ m2 \in 1..12 /\ Before(y, m, y2, m2) /\ 12 * y + m < 12 * y2 + m2
    BY <1>2, <1>4 DEF Before
<1> HIDE DEF y2, m2
<1>8. DaysFromCivil(y2, m2, 1) \in Int /\ DaysFromCivil(y, m, 1) \in Int /\ LastDayOfMonth(y, m) \in Int
    BY <1>2, <1>7, MonthTypes
<1>9. /\ u.day = DaysFromCivil(y2, m2, 1) + 1 - 1
      /\ u.hour = 0 /\ u.minute = 0
    <2>1. y2 \in Int /\ m2 \in 1..12 /\ 1 \in Int
        BY <1>7
    <2> QED
        BY <1>5, <2>1, DateIsTime
<1>10. DaysFromCivil(y, m, 1) + LastDayOfMonth(y, m) <= DaysFromCivil(y2, m2, 1)
    BY <1>2, <1>7, MonthsApart
<1>11. t.day < u.day
    BY <1>2, <1>8, <1>9, <1>10
<1>12. 12 * y2 + m2 <= MonthNumber(u.day) /\ MonthNumber(u.day) \in Int
    BY <1>7, <1>8, <1>9, MonthReached
<1>13. 12 * y + m \in Int /\ 12 * y2 + m2 \in Int
    BY <1>2, <1>7
<1>14. MonthNumber(t.day) < MonthNumber(u.day)
    BY <1>6, <1>7, <1>12, <1>13
<1> QED
    BY <1>9, <1>11, <1>14 DEF u

\* The month after one begins with later numbers.
LEMMA MonthAfter ==
    ASSUME NEW y \in Int, NEW m \in 1..12, NEW days \in Int,
           DaysFromCivil(y, m, 1) + LastDayOfMonth(y, m) <= days
    PROVE  12 * y + m < MonthNumber(days)
<1> DEFINE y2 == IF m = 12 THEN y + 1 ELSE y
           m2 == IF m = 12 THEN 1 ELSE m + 1
<1>1. DaysFromCivil(y, m, 1) + LastDayOfMonth(y, m) = DaysFromCivil(y2, m2, 1)
    BY NextMonth
<1>2. y2 \in Int /\ m2 \in 1..12 /\ 12 * y + m < 12 * y2 + m2
    OBVIOUS
<1>3. 12 * y + m \in Int /\ 12 * y2 + m2 \in Int
    BY <1>2
<1> HIDE DEF y2, m2
<1>4. 12 * y2 + m2 <= MonthNumber(days) /\ MonthNumber(days) \in Int
    BY <1>1, <1>2, MonthReached
<1> QED
    BY <1>2, <1>3, <1>4

\* A day of the month that does not match leads to a later midnight, and if
\* the days are a list, to one of them in this month or to a later month.
LEMMA DayOfMonthLeads ==
    ASSUME NEW e \in Crons, NEW t \in Time, ~FieldMatches("dayOfMonth", e.dayOfMonth, t)
    PROVE  LET u == IncrementDayOfMonth(e.dayOfMonth, Civil(t), t)
           IN  /\ t.day < u.day /\ u.hour = 0 /\ u.minute = 0
               /\ e.dayOfMonth.form = "list" =>
                     \/ MonthNumber(t.day) < MonthNumber(u.day)
                     \/ /\ Civil(u).year = Civil(t).year /\ Civil(u).month = Civil(t).month
                        /\ Civil(u).day \in ToSet(CreateList("dayOfMonth", e.dayOfMonth))
<1> DEFINE y == Civil(t).year
           m == Civil(t).month
           d == Civil(t).day
           last == LastDayOfMonth(y, m)
           list == CreateList("dayOfMonth", e.dayOfMonth)
           later == LaterInList(list, d)
           u == IncrementDayOfMonth(e.dayOfMonth, Civil(t), t)
<1>1. t.day \in Int /\ "dayOfMonth" \in Fields
    BY FieldNames DEF Time
<1>2. y \in Int /\ m \in 1..12 /\ t.day = DaysFromCivil(y, m, 1) + d - 1
      /\ d \in 1..31 /\ d <= last
    BY <1>1, CivilTypes DEF Civil
<1>3. last \in Int /\ 28 <= last /\ last <= 31 /\ DaysFromCivil(y, m, 1) \in Int
    <2> HIDE DEF y, m
    <2> QED
        BY <1>2, MonthTypes
<1>4. MonthNumber(t.day) = 12 * y + m
    BY DEF MonthNumber, Civil
<1>5. CASE e.dayOfMonth.form # "list"
    <2>1. u = NextDay(t)
        BY <1>5 DEF IncrementDayOfMonth
    <2>2. u.day = t.day + 1 /\ u.hour = 0 /\ u.minute = 0
        BY <2>1 DEF NextDay, Midnight
    <2> QED
        BY <1>1, <1>5, <2>2
<1>6. CASE e.dayOfMonth.form = "list"
    <2>1. later \in 1..31 /\ later \in ToSet(list)
        BY <1>1, <1>2, <1>6, LaterOfField, LimitsOfFields
    <2> HIDE DEF y, m, d, last, list, later
    <2>2. later \in Int /\ d \in Int
        BY <1>2, <2>1
    <2>3. CASE d >= later
        <3>1. u = Midnight(t.day - d + 1 + last)
            BY <1>6, <2>3 DEF IncrementDayOfMonth, later, list, d, last, y, m
        <3>2. u.day = DaysFromCivil(y, m, 1) + last /\ u.hour = 0 /\ u.minute = 0
            BY <1>1, <1>2, <1>3, <3>1 DEF Midnight
        <3> HIDE DEF u
        <3>3. t.day < u.day /\ u.day \in Int
            BY <1>2, <1>3, <3>2
        <3>4. 12 * y + m < MonthNumber(u.day)
            BY <1>2, <1>3, <3>2, <3>3, MonthAfter DEF last
        <3> QED
            BY <1>4, <3>2, <3>3, <3>4 DEF u
    <2>4. CASE d < later
        <3>1. u = Date(y, m, later)
            BY <1>2, <1>6, <2>1, <2>4 DEF IncrementDayOfMonth, later, list, d, last, y, m
        <3> HIDE DEF u
        <3>2. u.day = DaysFromCivil(y, m, 1) + later - 1 /\ u.hour = 0 /\ u.minute = 0
            BY <1>2, <2>2, <3>1, DateIsTime
        <3>3. t.day < u.day /\ u.day \in Int
            BY <1>2, <1>3, <2>2, <2>4, <3>2
        <3>4. CASE later <= last
            <4>1. CivilFromDays(u.day)
                    = [year |-> y, month |-> m, day |-> u.day - DaysFromCivil(y, m, 1) + 1]
                <5>1. /\ DaysFromCivil(y, m, 1) <= u.day
                      /\ u.day < DaysFromCivil(y, m, 1) + LastDayOfMonth(y, m)
                    BY <1>3, <2>1, <2>2, <3>2, <3>4 DEF last
                <5> QED
                    BY <1>2, <3>3, <5>1, DaysOfMonth
            <4>2. u.day - DaysFromCivil(y, m, 1) + 1 = later
                BY <1>3, <2>2, <3>2
            <4>3. Civil(u).year = y /\ Civil(u).month = m /\ Civil(u).day \in ToSet(list)
                BY <2>1, <4>1, <4>2 DEF Civil
            <4> QED
                BY <3>2, <3>3, <4>3 DEF u, y, m, list
        <3>5. CASE last < later
            <4>1. DaysFromCivil(y, m, 1) + last <= u.day
                BY <1>3, <2>2, <3>2, <3>5
            <4>2. 12 * y + m < MonthNumber(u.day)
                BY <1>2, <1>3, <3>3, <4>1, MonthAfter DEF last
            <4> QED
                BY <1>4, <3>2, <3>3, <4>2 DEF u
        <3> QED
            BY <1>3, <2>2, <3>4, <3>5
    <2> QED
        BY <2>2, <2>3, <2>4
<1> QED
    BY <1>5, <1>6

\* An expression without weekdays, whose days of the month, if any, are listed.
Dated(e) == /\ e.dayOfWeek.form \in {"star", "any"}
            /\ e.dayOfMonth.form \in {"star", "any", "list"}

\* How far the search of a dated expression has come: two places a month, the
\* second for a day that matches.
Place(e, days) == 2 * MonthNumber(days) + (IF DayMatches(e, days) THEN 1 ELSE 0)

\* From one day to the next a search loses at most one place.
LEMMA PlaceFollowsDays ==
    ASSUME NEW e, NEW a \in Int, NEW b \in Int, a <= b
    PROVE  /\ Place(e, a) \in Int /\ Place(e, b) \in Int
           /\ Place(e, a) <= Place(e, b) + 1
           /\ MonthNumber(a) < MonthNumber(b) => Place(e, a) < Place(e, b)
<1>1. MonthNumber(a) \in Int /\ MonthNumber(b) \in Int /\ MonthNumber(a) <= MonthNumber(b)
    BY MonthsFollowDays
<1> DEFINE more(x) == IF DayMatches(e, x) THEN 1 ELSE 0
<1>2. more(a) \in {0, 1} /\ more(b) \in {0, 1}
    OBVIOUS
<1>3. Place(e, a) = 2 * MonthNumber(a) + more(a) /\ Place(e, b) = 2 * MonthNumber(b) + more(b)
    BY DEF Place
<1> HIDE DEF more
<1> QED
    BY <1>1, <1>2, <1>3

\* The first field that does not match.
FirstMismatch(e, t) ==
    FieldOrder[CHOOSE k \in Mismatches(e, t) : \A j \in Mismatches(e, t) : k <= j]

\* It does not match, and those before it do.
LEMMA FirstMismatchIsFirst ==
    ASSUME NEW e \in Crons, NEW t \in Time, ~Matches(e, t)
    PROVE  LET f == FirstMismatch(e, t)
           IN  /\ f \in Fields /\ ~FieldMatches(f, e[f], t)
               /\ f = "dayOfMonth" => FieldMatches("month", e.month, t)
               /\ f \in {"hour", "minute"} => DayMatches(e, t.day)
               /\ f = "minute" => FieldMatches("hour", e.hour, t)
<1> DEFINE bad == Mismatches(e, t)
           first == CHOOSE k \in bad : \A j \in bad : k <= j
<1>1. bad \subseteq Nat /\ bad # {}
    BY DEF Mismatches, Matches, FieldOrder
<1>2. first \in bad /\ \A j \in bad : first <= j
    <2> HIDE DEF bad
    <2> QED
        BY <1>1, LeastNumber
<1>3. FirstMismatch(e, t) = FieldOrder[first]
    BY DEF FirstMismatch
<1>4. first \in 1..5 /\ ~FieldMatches(FieldOrder[first], e[FieldOrder[first]], t)
    <2> HIDE DEF first
    <2>1. DOMAIN FieldOrder = 1..5
        BY DEF FieldOrder
    <2> QED
        BY <1>2, <2>1 DEF Mismatches
<1>5. \A j \in 1..5 : j < first => FieldMatches(FieldOrder[j], e[FieldOrder[j]], t)
    <2> SUFFICES ASSUME NEW j \in 1..5, j < first, j \notin bad => FALSE PROVE FALSE
        BY DEF Mismatches, FieldOrder
    <2> HIDE DEF bad, first
    <2>1. j \in bad
        OBVIOUS
    <2> QED
        BY <1>2, <1>4, <2>1
<1> HIDE DEF first, bad
<1>6. first > 1 => FieldMatches("month", e.month, t)
    BY <1>4, <1>5 DEF FieldOrder
<1>7. first > 2 => FieldMatches("dayOfMonth", e.dayOfMonth, t)
    BY <1>4, <1>5 DEF FieldOrder
<1>8. first > 3 => FieldMatches("dayOfWeek", e.dayOfWeek, t)
    BY <1>4, <1>5 DEF FieldOrder
<1>9. first > 4 => FieldMatches("hour", e.hour, t)
    BY <1>4, <1>5 DEF FieldOrder
<1>10. first > 3 => DayMatches(e, t.day)
    BY <1>4, <1>6, <1>7, <1>8, DayFields
<1>11. /\ first = 1 => FieldOrder[first] = "month"
       /\ first = 2 => FieldOrder[first] = "dayOfMonth"
       /\ first = 3 => FieldOrder[first] = "dayOfWeek"
       /\ first = 4 => FieldOrder[first] = "hour"
       /\ first = 5 => FieldOrder[first] = "minute"
       /\ first \in {1, 2, 3, 4, 5}
    BY <1>4 DEF FieldOrder
<1> DEFINE f == FieldOrder[first]
<1>12. f \in Fields
    BY <1>11, FieldNames
<1>13. /\ f = "dayOfMonth" => first = 2
       /\ f \in {"hour", "minute"} => first \in {4, 5}
       /\ f = "minute" => first = 5
    BY <1>11
<1>14. f = "dayOfMonth" => FieldMatches("month", e.month, t)
    BY <1>6, <1>13
<1>15. f \in {"hour", "minute"} => DayMatches(e, t.day)
    BY <1>10, <1>13
<1>16. f = "minute" => FieldMatches("hour", e.hour, t)
    BY <1>9, <1>13
<1> QED
    BY <1>3, <1>4, <1>12, <1>14, <1>15, <1>16

\* A field of the day that does not match leads to a later midnight; a dated
\* search gains a place.
LEMMA DayLeads ==
    ASSUME NEW e \in Crons, NEW t \in Time, ~Matches(e, t), ~DayMatches(e, t.day)
    PROVE  LET f == FirstMismatch(e, t)
               u == Increment(f, e[f], t)
           IN  /\ u \in Time /\ t.day < u.day /\ u.hour = 0 /\ u.minute = 0
               /\ Dated(e) => Place(e, t.day) < Place(e, u.day)
<1> DEFINE f == FirstMismatch(e, t)
           u == Increment(f, e[f], t)
<1>1. /\ f \in Fields /\ ~FieldMatches(f, e[f], t)
      /\ f = "dayOfMonth" => FieldMatches("month", e.month, t)
      /\ f \notin {"hour", "minute"}
    BY FirstMismatchIsFirst
<1>2. f \in {"month", "dayOfMonth", "dayOfWeek"}
    BY <1>1, FieldNames
<1> HIDE DEF f
<1>3. u \in Time
    BY <1>1, FieldStep DEF GoodStep
<1>4. t.day \in Int /\ u.day \in Int
    BY <1>3 DEF Time
<1>5. CASE f = "month"
    <2>1. u = IncrementMonth(e.month, Civil(t))
        BY <1>5 DEF Increment, Civil
    <2> HIDE DEF u
    <2>2. /\ t.day < u.day /\ u.hour = 0 /\ u.minute = 0
          /\ MonthNumber(t.day) < MonthNumber(u.day)
        BY <1>1, <1>5, <2>1, MonthLeads
    <2>3. Place(e, t.day) < Place(e, u.day)
        BY <1>4, <2>2, PlaceFollowsDays
    <2> QED
        BY <1>3, <2>2, <2>3 DEF u, f
<1>6. CASE f = "dayOfMonth"
    <2>1. u = IncrementDayOfMonth(e.dayOfMonth, Civil(t), t)
        BY <1>6 DEF Increment, Civil
    <2> HIDE DEF u
    <2>2. /\ t.day < u.day /\ u.hour = 0 /\ u.minute = 0
          /\ e.dayOfMonth.form = "list" =>
                \/ MonthNumber(t.day) < MonthNumber(u.day)
                \/ /\ Civil(u).year = Civil(t).year /\ Civil(u).month = Civil(t).month
                   /\ Civil(u).day \in ToSet(CreateList("dayOfMonth", e.dayOfMonth))
        BY <1>1, <1>6, <2>1, DayOfMonthLeads
    <2>3. ASSUME Dated(e) PROVE Place(e, t.day) < Place(e, u.day)
        <3>1. e.dayOfMonth.form = "list"
            BY <1>1, <1>6, <2>3, MismatchOfList DEF Dated
        <3>2. CASE MonthNumber(t.day) < MonthNumber(u.day)
            BY <1>4, <2>2, <3>2, PlaceFollowsDays
        <3>3. CASE /\ Civil(u).year = Civil(t).year /\ Civil(u).month = Civil(t).month
                   /\ Civil(u).day \in ToSet(CreateList("dayOfMonth", e.dayOfMonth))
            <4>1. FieldMatches("month", e.month, u)
                BY <1>1, <1>6, <3>3 DEF FieldMatches, ListMatches, Civil
            <4>2. FieldMatches("dayOfMonth", e.dayOfMonth, u)
                BY <3>1, <3>3 DEF FieldMatches, DayOfMonthMatches, ListMatches, Civil
            <4>3. FieldMatches("dayOfWeek", e.dayOfWeek, u)
                BY <2>3 DEF FieldMatches, Dated
            <4>4. DayMatches(e, u.day)
                BY <1>3, <4>1, <4>2, <4>3, DayFields DEF u
            <4>5. MonthNumber(u.day) = MonthNumber(t.day) /\ MonthNumber(t.day) \in Int
                BY <1>4, <3>3, CivilTypes DEF MonthNumber, Civil
            <4>6. Place(e, u.day) = 2 * MonthNumber(t.day) + 1
                BY <4>4, <4>5 DEF Place
            <4>7. Place(e, t.day) = 2 * MonthNumber(t.day) + 0
                BY DEF Place
            <4> QED
                BY <4>5, <4>6, <4>7
        <3> QED
            BY <2>2, <3>1, <3>2, <3>3
    <2> QED
        BY <1>3, <2>2, <2>3 DEF u, f
<1>7. CASE f = "dayOfWeek"
    <2>1. u = NextDay(t)
        BY <1>7 DEF Increment
    <2>2. u.day = t.day + 1 /\ u.hour = 0 /\ u.minute = 0
        BY <2>1 DEF NextDay, Midnight
    <2>3. ~Dated(e)
        BY <1>1, <1>7, MismatchOfList DEF Dated
    <2> HIDE DEF u
    <2>4. t.day < u.day
        BY <1>4, <2>2
    <2> QED
        BY <1>3, <2>2, <2>3, <2>4 DEF u, f
<1> QED
    BY <1>2, <1>5, <1>6, <1>7

\* The midnight that ends the day of t.
NextMidnight(t, u) == u.day = t.day + 1 /\ u.hour = 0 /\ u.minute = 0

\* A field with a list in order has a value after the field's start, when the
\* start itself is none.
LEMMA LaterThanStart ==
    ASSUME NEW e \in Crons, AllInOrder(e), NEW f \in {"hour", "minute"}, e[f].form = "list",
           0 \notin ToSet(CreateList(f, e[f]))
    PROVE  LaterInList(CreateList(f, e[f]), 0) > 0
<1> DEFINE list == CreateList(f, e[f])
           later == LaterInList(list, 0)
<1>1. f \in Fields /\ InField(f) \subseteq Nat /\ 0 \in InField(f)
    BY FieldNames, LimitsOfFields
<1>2. /\ later \in InField(f) /\ later \in ToSet(list)
      /\ \A y \in ToSet(list) : y > 0 => later > 0
    BY <1>1, LaterOfField
<1> HIDE DEF list, later
<1>3. later # 0
    BY <1>2 DEF list
<1> QED
    BY <1>1, <1>2, <1>3 DEF later, list

\* An hour that does not match leads to a later one that does, or to midnight:
\* only to the former from midnight.
LEMMA HourLeads ==
    ASSUME NEW e \in Crons, NEW t \in Time, ~FieldMatches("hour", e.hour, t)
    PROVE  LET u == IncrementHour(e.hour, t)
           IN  \/ NextMidnight(t, u) /\ (AllInOrder(e) => t.hour # 0)
               \/ /\ u.day = t.day /\ t.hour < u.hour /\ u.minute = 0
                  /\ FieldMatches("hour", e.hour, u)
<1> DEFINE list == CreateList("hour", e.hour)
           later == LaterInList(list, t.hour)
           u == IncrementHour(e.hour, t)
<1>1. "hour" \in Fields /\ InField("hour") = 0..23
    BY FieldNames, LimitsOfFields
<1>2. t.day \in Int /\ t.hour \in 0..23 /\ t.minute \in 0..59
    BY DEF Time
<1>3. e.hour.form = "list"
    BY <1>1, MismatchOfList
<1>4. later \in 0..23 /\ later \in ToSet(list)
    BY <1>1, <1>2, <1>3, LaterOfField
<1>5. t.hour \notin ToSet(list)
    BY <1>3 DEF FieldMatches, ListMatches
<1>6. u = IF t.hour >= later THEN NextDay(t) ELSE [t EXCEPT !.hour = later, !.minute = 0]
    BY DEF IncrementHour
<1>7. AllInOrder(e) /\ t.hour = 0 => later > 0
    BY <1>3, <1>5, LaterThanStart
<1> HIDE DEF later, u
<1>8. CASE t.hour >= later
    <2>1. NextMidnight(t, u)
        BY <1>6, <1>8 DEF NextDay, Midnight, NextMidnight
    <2>2. AllInOrder(e) => t.hour # 0
        BY <1>4, <1>7, <1>8
    <2> QED
        BY <2>1, <2>2 DEF u
<1>9. CASE t.hour < later
    <2>1. u = [t EXCEPT !.hour = later, !.minute = 0]
        BY <1>2, <1>4, <1>6, <1>9
    <2>2. u.day = t.day /\ u.hour = later /\ u.minute = 0
        BY <1>4, <2>1, LaterHour
    <2>3. FieldMatches("hour", e.hour, u)
        BY <1>3, <1>4, <2>2 DEF FieldMatches, ListMatches
    <2> QED
        BY <1>9, <2>2, <2>3 DEF u
<1> QED
    BY <1>2, <1>4, <1>8, <1>9

\* A round on a minute leads to a later one of the hour that matches, or to the
\* next hour: only to the former from the hour's start, if that does not match.
LEMMA MinuteLeads ==
    ASSUME NEW e \in Crons, NEW t \in Time
    PROVE  LET u == IncrementMinute(e.minute, t)
           IN  \/ /\ u.day = t.day /\ u.hour = t.hour /\ t.minute < u.minute
                  /\ FieldMatches("minute", e.minute, u)
               \/ /\ NextMidnight(t, u) \/ (u.day = t.day /\ t.hour < u.hour /\ u.minute = 0)
                  /\ AllInOrder(e) => t.minute # 0 \/ FieldMatches("minute", e.minute, t)
<1> DEFINE list == CreateList("minute", e.minute)
           later == LaterInList(list, t.minute)
           hourLater == IF t.hour = 23 THEN NextDay(t)
                        ELSE [t EXCEPT !.hour = t.hour + 1, !.minute = 0]
           u == IncrementMinute(e.minute, t)
<1>1. "minute" \in Fields /\ InField("minute") = 0..59
    BY FieldNames, LimitsOfFields
<1>2. t.day \in Int /\ t.hour \in 0..23 /\ t.minute \in 0..59
    BY DEF Time
<1>3. \/ NextMidnight(t, hourLater)
      \/ hourLater.day = t.day /\ t.hour < hourLater.hour /\ hourLater.minute = 0
    <2>1. CASE t.hour = 23
        BY <2>1 DEF NextDay, Midnight, NextMidnight
    <2>2. CASE t.hour # 23
        <3>1. t.hour + 1 \in 0..23 /\ t.hour < t.hour + 1
            BY <1>2, <2>2
        <3>2. hourLater = [t EXCEPT !.hour = t.hour + 1, !.minute = 0]
            BY <2>2
        <3> HIDE DEF hourLater
        <3> QED
            BY <3>1, <3>2, LaterHour
    <2> QED
        BY <2>1, <2>2
<1>4. ASSUME NEW x \in 0..59
      PROVE  LET v == [t EXCEPT !.minute = x]
             IN  v.day = t.day /\ v.hour = t.hour /\ v.minute = x
    BY DEF Time
<1>5. CASE e.minute.form = "star"
    <2>1. CASE t.minute < 59
        <3>1. u = [t EXCEPT !.minute = t.minute + 1]
            BY <1>2, <1>5, <2>1 DEF IncrementMinute
        <3>2. t.minute + 1 \in 0..59 /\ t.minute < t.minute + 1
            BY <1>2, <2>1
        <3>3. FieldMatches("minute", e.minute, u)
            BY <1>5 DEF FieldMatches
        <3> HIDE DEF u, hourLater
        <3>4. u.day = t.day /\ u.hour = t.hour /\ u.minute = t.minute + 1
            BY <1>4, <3>1, <3>2
        <3> QED
            BY <3>2, <3>3, <3>4 DEF u
    <2>2. CASE t.minute = 59
        <3>1. u = hourLater
            BY <1>5, <2>2 DEF IncrementMinute
        <3> HIDE DEF u, hourLater
        <3> QED
            BY <1>3, <2>2, <3>1 DEF u
    <2> QED
        BY <1>2, <2>1, <2>2
<1>6. CASE e.minute.form # "star"
    <2>1. e.minute.form = "list"
        BY <1>6, FormsOfFields
    <2>2. later \in 0..59 /\ later \in ToSet(list)
        BY <1>1, <1>2, <2>1, LaterOfField
    <2>3. u = IF t.minute >= later THEN hourLater ELSE [t EXCEPT !.minute = later]
        BY <1>6 DEF IncrementMinute
    <2>4. ASSUME AllInOrder(e), t.minute = 0, ~FieldMatches("minute", e.minute, t)
          PROVE  later > 0
        <3>1. 0 \notin ToSet(list)
            BY <2>1, <2>4 DEF FieldMatches, ListMatches
        <3> QED
            BY <2>1, <2>4, <3>1, LaterThanStart
    <2> HIDE DEF u, hourLater, later
    <2>5. CASE t.minute >= later
        <3>1. u = hourLater
            BY <2>3, <2>5
        <3>2. AllInOrder(e) => t.minute # 0 \/ FieldMatches("minute", e.minute, t)
            BY <2>2, <2>4, <2>5
        <3> QED
            BY <1>3, <3>1, <3>2 DEF u
    <2>6. CASE later > t.minute
        <3>1. u = [t EXCEPT !.minute = later]
            BY <1>2, <2>2, <2>3, <2>6
        <3>2. u.day = t.day /\ u.hour = t.hour /\ u.minute = later
            BY <1>4, <2>2, <3>1
        <3>3. FieldMatches("minute", e.minute, u)
            BY <2>1, <2>2, <3>2 DEF FieldMatches, ListMatches
        <3> QED
            BY <2>6, <3>2, <3>3 DEF u
    <2> QED
        BY <1>2, <2>2, <2>5, <2>6
<1> QED
    BY <1>5, <1>6

\* The hour of a time decides whether its hour matches.
LEMMA SameHourMatches ==
    ASSUME NEW e \in Crons, NEW t \in Time, NEW u \in Time, u.hour = t.hour,
           FieldMatches("hour", e.hour, t)
    PROVE  FieldMatches("hour", e.hour, u)
<1>1. e.hour.form \in {"star", "list"}
    BY FormsOfFields
<1> QED
    BY <1>1 DEF FieldMatches, ListMatches

\* Where a round of a search from s leads, from t to u: to a later day, to the
\* midnight that ends a day that matches, to an hour that matches, to a time
\* that matches, or from one hour to the next.
Leads(e, s, t, u) ==
    LET HourMatches(x) == FieldMatches("hour", e.hour, x)
    IN  /\ MinuteNumber(t) < MinuteNumber(u)
        /\ ~Matches(e, t) \/ t = s
        /\ \/ /\ ~DayMatches(e, t.day)
              /\ t.day < u.day /\ u.hour = 0 /\ u.minute = 0
              /\ Dated(e) => Place(e, t.day) < Place(e, u.day)
           \/ /\ DayMatches(e, t.day)
              /\ \/ NextMidnight(t, u)
                    /\ \/ t = s
                       \/ ~HourMatches(t) /\ t.hour # 0
                       \/ HourMatches(t) /\ t.minute # 0
                 \/ u.day = t.day /\ u.minute = 0 /\ ~HourMatches(t) /\ HourMatches(u)
                 \/ u.day = t.day /\ HourMatches(t) /\ Matches(e, u)
                 \/ u.day = t.day /\ u.minute = 0 /\ (t = s \/ (HourMatches(t) /\ t.minute # 0))

\* Minutes of a later hour or of a later day are later.
LEMMA LaterTimes ==
    ASSUME NEW t \in Time, NEW u \in Time,
           \/ t.day < u.day
           \/ t.day = u.day /\ t.hour < u.hour
           \/ t.day = u.day /\ t.hour = u.hour /\ t.minute < u.minute
    PROVE  MinuteNumber(t) < MinuteNumber(u)
<1>1. /\ t.day \in Int /\ t.hour \in Int /\ 0 <= t.hour /\ t.hour <= 23
      /\ t.minute \in Int /\ 0 <= t.minute /\ t.minute <= 59
      /\ u.day \in Int /\ u.hour \in Int /\ 0 <= u.hour /\ u.hour <= 23
      /\ u.minute \in Int /\ 0 <= u.minute /\ u.minute <= 59
    BY DEF Time
<1> QED
    BY <1>1 DEF MinuteNumber

\* The round that moves a field on leads there.
LEMMA AdvanceLeads ==
    ASSUME NEW e \in Crons, AllInOrder(e), NEW s \in Time, NEW t \in Time, ~Matches(e, t)
    PROVE  LET f == FirstMismatch(e, t)
               u == Increment(f, e[f], t)
           IN  u \in Time /\ Leads(e, s, t, u)
<1> DEFINE f == FirstMismatch(e, t)
           u == Increment(f, e[f], t)
           HourMatches(x) == FieldMatches("hour", e.hour, x)
<1>1. /\ f \in Fields /\ ~FieldMatches(f, e[f], t)
      /\ f \in {"hour", "minute"} => DayMatches(e, t.day)
      /\ f = "minute" => HourMatches(t)
    BY FirstMismatchIsFirst
<1>2. u \in Time
    BY <1>1, FieldStep DEF GoodStep
<1>3. t.day \in Int /\ t.day < t.day + 1
    BY DEF Time
<1>4. CASE ~DayMatches(e, t.day)
    <2>1. /\ t.day < u.day /\ u.hour = 0 /\ u.minute = 0
          /\ Dated(e) => Place(e, t.day) < Place(e, u.day)
        BY <1>4, DayLeads
    <2> HIDE DEF u
    <2>2. MinuteNumber(t) < MinuteNumber(u)
        BY <1>2, <2>1, LaterTimes
    <2> QED
        BY <1>2, <1>4, <2>1, <2>2 DEF Leads, u
<1>5. CASE f = "hour"
    <2>1. u = IncrementHour(e.hour, t)
        BY <1>5 DEF Increment
    <2> HIDE DEF u
    <2>2. ~HourMatches(t) /\ DayMatches(e, t.day)
        BY <1>1, <1>5
    <2>3. \/ NextMidnight(t, u) /\ t.hour # 0
          \/ u.day = t.day /\ t.hour < u.hour /\ u.minute = 0 /\ HourMatches(u)
        BY <2>1, <2>2, HourLeads
    <2>4. MinuteNumber(t) < MinuteNumber(u)
        BY <1>2, <1>3, <2>3, LaterTimes DEF NextMidnight
    <2> QED
        BY <1>2, <2>2, <2>3, <2>4 DEF Leads, u
<1>6. CASE f = "minute"
    <2>1. u = IncrementMinute(e.minute, t)
        BY <1>6 DEF Increment
    <2>2. HourMatches(t) /\ DayMatches(e, t.day) /\ ~FieldMatches("minute", e.minute, t)
        BY <1>1, <1>6
    <2> HIDE DEF u, HourMatches
    <2>3. \/ /\ u.day = t.day /\ u.hour = t.hour /\ t.minute < u.minute
             /\ FieldMatches("minute", e.minute, u)
          \/ /\ NextMidnight(t, u) \/ (u.day = t.day /\ t.hour < u.hour /\ u.minute = 0)
             /\ t.minute # 0
        BY <2>1, <2>2, MinuteLeads
    <2>4. MinuteNumber(t) < MinuteNumber(u)
        BY <1>2, <1>3, <2>3, LaterTimes DEF NextMidnight
    <2>5. CASE u.day = t.day /\ u.hour = t.hour /\ FieldMatches("minute", e.minute, u)
        <3>1. HourMatches(u)
            BY <1>2, <2>2, <2>5, SameHourMatches DEF HourMatches
        <3>2. Matches(e, u)
            BY <1>2, <2>2, <2>5, <3>1, MatchesInParts DEF HourMatches
        <3> QED
            BY <1>2, <2>2, <2>4, <2>5, <3>2 DEF Leads, HourMatches, u
    <2>6. CASE (NextMidnight(t, u) \/ (u.day = t.day /\ u.minute = 0)) /\ t.minute # 0
        BY <1>2, <2>2, <2>4, <2>6 DEF Leads, HourMatches, u
    <2> QED
        BY <2>3, <2>5, <2>6
<1>7. f \notin {"hour", "minute"} => ~DayMatches(e, t.day)
    <2> HIDE DEF f
    <2>1. f \notin {"hour", "minute"} => f \in {"month", "dayOfMonth", "dayOfWeek"}
        BY <1>1, FieldNames
    <2> QED
        BY <1>1, <2>1, DayFields
<1> QED
    BY <1>4, <1>5, <1>6, <1>7

\* So does the round that leaves the time asked for.
LEMMA LeavingLeads ==
    ASSUME NEW e \in Crons, AllInOrder(e), NEW t \in Time, Matches(e, t)
    PROVE  LET u == IncrementMinute(e.minute, t) IN u \in Time /\ Leads(e, t, t, u)
<1> DEFINE u == IncrementMinute(e.minute, t)
           HourMatches(x) == FieldMatches("hour", e.hour, x)
<1>1. u \in Time
    BY MinuteStep DEF GoodStep
<1>2. HourMatches(t) /\ DayMatches(e, t.day)
    BY MatchesInParts
<1>3. \/ /\ u.day = t.day /\ u.hour = t.hour /\ t.minute < u.minute
         /\ FieldMatches("minute", e.minute, u)
      \/ NextMidnight(t, u)
      \/ u.day = t.day /\ t.hour < u.hour /\ u.minute = 0
    BY MinuteLeads
<1>4. t.day \in Int /\ t.day < t.day + 1
    BY DEF Time
<1> HIDE DEF u, HourMatches
<1>5. MinuteNumber(t) < MinuteNumber(u)
    BY <1>1, <1>3, <1>4, LaterTimes DEF NextMidnight
<1>6. CASE u.day = t.day /\ u.hour = t.hour /\ FieldMatches("minute", e.minute, u)
    <2>1. HourMatches(u)
        BY <1>1, <1>2, <1>6, SameHourMatches DEF HourMatches
    <2>2. Matches(e, u)
        BY <1>1, <1>2, <1>6, <2>1, MatchesInParts DEF HourMatches
    <2> QED
        BY <1>1, <1>2, <1>5, <1>6, <2>2 DEF Leads, HourMatches, u
<1>7. CASE NextMidnight(t, u) \/ (u.day = t.day /\ u.minute = 0)
    BY <1>1, <1>2, <1>5, <1>7 DEF Leads, u
<1> QED
    BY <1>3, <1>6, <1>7

\* After n rounds from s a search has come to this day: a day each, and if it
\* is dated, a place each, but for some that it lost.
Within(e, s, d, n, lost) == /\ n <= d - s.day + lost
                            /\ Dated(e) => n <= Place(e, d) - Place(e, s.day) + lost

\* Where n rounds of a search from s lead: nowhere yet; to an hour of the first
\* day; to a later midnight; to an hour that matches, and to its minute.
Progress(e, s, t, n) ==
    \/ n = 0 /\ t = s
    \/ /\ MinuteNumber(s) < MinuteNumber(t)
       /\ \/ t.day = s.day /\ n <= 1 /\ t.minute = 0 /\ DayMatches(e, t.day)
          \/ s.day < t.day /\ t.hour = 0 /\ t.minute = 0 /\ Within(e, s, t.day, n, 3)
          \/ /\ t.minute = 0 /\ DayMatches(e, t.day) /\ FieldMatches("hour", e.hour, t)
             /\ s.day <= t.day
             /\ Within(e, s, t.day, n, 4)
          \/ Matches(e, t) /\ s.day <= t.day /\ Within(e, s, t.day, n, 5)

\* Another round, to a later day or on the same one.
LEMMA WithinStep ==
    ASSUME NEW e, NEW s \in Time, NEW d \in Int, NEW n \in Nat, NEW lost \in Nat,
           Within(e, s, d, n, lost)
    PROVE  /\ Within(e, s, d, n + 1, lost + 1)
           /\ \A x \in Nat : lost <= x => Within(e, s, d, n, x)
           /\ \A b \in Int : d < b /\ (Dated(e) => Place(e, d) < Place(e, b))
                                => Within(e, s, b, n + 1, lost)
<1>1. s.day \in Int
    BY DEF Time
<1>2. Place(e, s.day) \in Int /\ \A b \in Int : Place(e, b) \in Int
    <2>1. \A b \in Int : b <= b
        OBVIOUS
    <2> QED
        BY <1>1, <2>1, PlaceFollowsDays
<1>3. n <= d - s.day + lost /\ (Dated(e) => n <= Place(e, d) - Place(e, s.day) + lost)
    BY DEF Within
<1>4. Within(e, s, d, n + 1, lost + 1)
    BY <1>1, <1>2, <1>3 DEF Within
<1>5. ASSUME NEW x \in Nat, lost <= x PROVE Within(e, s, d, n, x)
    BY <1>1, <1>2, <1>3, <1>5 DEF Within
<1>6. ASSUME NEW b \in Int, d < b, Dated(e) => Place(e, d) < Place(e, b)
      PROVE  Within(e, s, b, n + 1, lost)
    BY <1>1, <1>2, <1>3, <1>6 DEF Within
<1> QED
    BY <1>4, <1>5, <1>6

\* The days a search starts on, and the one after, are within reach.
LEMMA WithinStart ==
    ASSUME NEW e, NEW s \in Time
    PROVE  /\ \A lost \in Nat : Within(e, s, s.day, lost, lost)
           /\ Within(e, s, s.day + 1, 2, 3)
<1>1. s.day \in Int /\ s.day <= s.day /\ s.day <= s.day + 1
    BY DEF Time
<1>2. /\ Place(e, s.day) \in Int /\ Place(e, s.day + 1) \in Int
      /\ Place(e, s.day) <= Place(e, s.day + 1) + 1
    BY <1>1, PlaceFollowsDays
<1>3. ASSUME NEW lost \in Nat PROVE Within(e, s, s.day, lost, lost)
    BY <1>1, <1>2 DEF Within
<1>4. Within(e, s, s.day + 1, 2, 3)
    BY <1>1, <1>2 DEF Within
<1> QED
    BY <1>3, <1>4

\* A later number of rounds is a larger one: fewer are within reach too.
LEMMA WithinFewer ==
    ASSUME NEW e, NEW s \in Time, NEW d \in Int, NEW n \in Nat, NEW k \in Nat, k <= n,
           NEW lost \in Nat, Within(e, s, d, n, lost)
    PROVE  Within(e, s, d, k, lost)
<1>1. s.day \in Int
    BY DEF Time
<1>2. Place(e, s.day) \in Int /\ Place(e, d) \in Int
    <2>1. s.day <= s.day /\ d <= d
        BY <1>1
    <2> QED
        BY <1>1, <2>1, PlaceFollowsDays
<1> QED
    BY <1>1, <1>2 DEF Within

\* A round keeps the search in one of these places, and on a later day that
\* matches, on that day.
LEMMA ProgressStep ==
    ASSUME NEW e \in Crons, NEW s \in Time, NEW t \in Time, NEW u \in Time, NEW n \in Nat,
           Progress(e, s, t, n), Leads(e, s, t, u)
    PROVE  /\ Progress(e, s, u, n + 1)
           /\ s.day < t.day /\ DayMatches(e, t.day) => u.day = t.day
<1> DEFINE HourMatches(x) == FieldMatches("hour", e.hour, x)
           Later == ~DayMatches(e, t.day) /\ t.day < u.day /\ u.hour = 0 /\ u.minute = 0
                    /\ (Dated(e) => Place(e, t.day) < Place(e, u.day))
           Ends == DayMatches(e, t.day) /\ NextMidnight(t, u)
           ToHour == DayMatches(e, t.day) /\ u.day = t.day /\ u.minute = 0
                     /\ ~HourMatches(t) /\ HourMatches(u)
           ToMinute == DayMatches(e, t.day) /\ u.day = t.day /\ HourMatches(t) /\ Matches(e, u)
           NextHour == DayMatches(e, t.day) /\ u.day = t.day /\ u.minute = 0
<1>1. /\ s.day \in Int /\ t.day \in Int /\ u.day \in Int
      /\ MinuteNumber(s) \in Int /\ MinuteNumber(t) \in Int /\ MinuteNumber(u) \in Int
    BY NumbersOfTime DEF Time
<1>2. MinuteNumber(t) < MinuteNumber(u) /\ (~Matches(e, t) \/ t = s)
    BY DEF Leads
<1>3. \/ Later
      \/ Ends /\ (t = s \/ (~HourMatches(t) /\ t.hour # 0) \/ (HourMatches(t) /\ t.minute # 0))
      \/ ToHour
      \/ ToMinute
      \/ NextHour /\ (t = s \/ (HourMatches(t) /\ t.minute # 0))
    BY DEF Leads
<1>4. Ends => u.day = t.day + 1 /\ u.hour = 0 /\ u.minute = 0
    BY DEF NextMidnight
<1>5. \A k \in {0, 1, 2, 3, 4, 5} : k \in Nat
    OBVIOUS
<1>6. CASE n = 0 /\ t = s
    <2>1. MinuteNumber(s) < MinuteNumber(u)
        BY <1>1, <1>2, <1>6
    <2>2. Within(e, s, s.day, 0, 0)
        BY <1>5, WithinStart
    <2>3. n + 1 = 1 /\ 0 + 1 = 1 /\ n + 1 <= 1
        BY <1>6
    <2>4. Within(e, s, s.day, 1, 1) /\ Within(e, s, s.day, 1, 4) /\ Within(e, s, s.day, 1, 5)
        <3>1. Within(e, s, s.day, 1, 1)
            BY <1>5, WithinStart
        <3>2. 1 <= 4 /\ 1 <= 5
            OBVIOUS
        <3> QED
            BY <1>1, <1>5, <3>1, <3>2, WithinStep
    <2>5. CASE Later
        <3>1. Within(e, s, u.day, 1, 0)
            <4>1. s.day < u.day /\ (Dated(e) => Place(e, s.day) < Place(e, u.day))
                BY <1>6, <2>5
            <4> HIDE DEF Later
            <4>2. 0 \in Nat /\ Within(e, s, u.day, 0 + 1, 0)
                BY <1>1, <1>5, <2>2, <4>1, WithinStep
            <4> QED
                BY <2>3, <4>2
        <3>2. Within(e, s, u.day, 1, 3)
            <4>1. 0 <= 3
                OBVIOUS
            <4> QED
                BY <1>1, <1>5, <3>1, <4>1, WithinStep
        <3> QED
            BY <1>6, <2>1, <2>3, <2>5, <3>2 DEF Progress
    <2>6. CASE Ends
        <3>1. Within(e, s, s.day + 1, 2, 3)
            BY WithinStart
        <3>2. Within(e, s, u.day, 1, 3)
            <4>1. s.day + 1 \in Int /\ 1 <= 2 /\ u.day = s.day + 1
                BY <1>1, <1>4, <1>6, <2>6
            <4> QED
                BY <1>5, <3>1, <4>1, WithinFewer
        <3>3. s.day < u.day /\ u.hour = 0 /\ u.minute = 0
            BY <1>1, <1>4, <1>6, <2>6
        <3>4. ~(s.day < t.day)
            BY <1>1, <1>6
        <3> QED
            BY <2>1, <2>3, <3>2, <3>3, <3>4 DEF Progress
    <2>7. CASE ToHour \/ ToMinute \/ NextHour
        <3>1. u.day = s.day /\ s.day <= u.day
            BY <1>1, <1>6, <2>7
        <3>2. DayMatches(e, u.day)
            BY <2>7
        <3>3. ToHour \/ NextHour => u.minute = 0
            OBVIOUS
        <3>4. ToHour => HourMatches(u)
            OBVIOUS
        <3>5. ToMinute => Matches(e, u)
            OBVIOUS
        <3> HIDE DEF Later, Ends, ToHour, ToMinute, NextHour
        <3>6. u.day = t.day
            BY <1>6, <3>1
        <3> QED
            BY <2>1, <2>3, <2>4, <2>7, <3>1, <3>2, <3>3, <3>4, <3>5, <3>6 DEF Progress
    <2> HIDE DEF Later, Ends, ToHour, ToMinute, NextHour
    <2> QED
        BY <1>3, <2>5, <2>6, <2>7
<1>7. CASE MinuteNumber(s) < MinuteNumber(t)
    <2>1. t # s /\ MinuteNumber(s) < MinuteNumber(u) /\ ~Matches(e, t)
        BY <1>1, <1>2, <1>7
    <2>2. n + 1 \in Nat
        OBVIOUS
    <2>3. CASE t.day = s.day /\ n <= 1 /\ t.minute = 0 /\ DayMatches(e, t.day)
        <3>1. Ends \/ ToHour \/ ToMinute
            BY <1>3, <2>1, <2>3
        <3>2. n + 1 <= 2
            BY <2>3
        <3>3. CASE Ends
            <4>1. s.day + 1 \in Int /\ u.day = s.day + 1
                BY <1>1, <1>4, <2>3, <3>3
            <4>2. Within(e, s, s.day + 1, n + 1, 3)
                BY <1>5, <2>2, <3>2, <4>1, WithinStart, WithinFewer
            <4>3. s.day < u.day /\ u.hour = 0 /\ u.minute = 0 /\ ~(s.day < t.day)
                BY <1>1, <1>4, <2>3, <3>3, <4>1
            <4> QED
                BY <2>1, <4>1, <4>2, <4>3 DEF Progress
        <3>4. CASE ToHour \/ ToMinute
            <4>1. u.day = s.day /\ s.day <= u.day /\ u.day = t.day /\ DayMatches(e, u.day)
                BY <1>1, <2>3, <3>4
            <4>2. Within(e, s, u.day, n + 1, 4) /\ Within(e, s, u.day, n + 1, 5)
                <5>1. n + 1 <= 4 /\ n + 1 <= 5
                    BY <3>2
                <5>2. Within(e, s, u.day, 4, 4) /\ Within(e, s, u.day, 5, 5)
                    BY <1>5, <4>1, WithinStart
                <5> QED
                    BY <1>1, <1>5, <2>2, <5>1, <5>2, WithinFewer
            <4>3. \/ u.minute = 0 /\ HourMatches(u)
                  \/ Matches(e, u)
                BY <3>4
            <4> HIDE DEF Later, Ends, ToHour, ToMinute, NextHour
            <4> QED
                BY <2>1, <4>1, <4>2, <4>3 DEF Progress
        <3> HIDE DEF Ends, ToHour, ToMinute
        <3> QED
            BY <3>1, <3>3, <3>4
    <2>4. CASE s.day < t.day /\ t.hour = 0 /\ t.minute = 0 /\ Within(e, s, t.day, n, 3)
        <3>1. Later \/ ToHour \/ ToMinute
            BY <1>3, <2>1, <2>4
        <3>2. CASE Later
            <4>1. Within(e, s, u.day, n + 1, 3)
                BY <1>1, <1>5, <2>4, <3>2, WithinStep
            <4>2. s.day < u.day
                BY <1>1, <2>4, <3>2
            <4> QED
                BY <2>1, <3>2, <4>1, <4>2 DEF Progress
        <3>3. CASE ToHour \/ ToMinute
            <4>1. u.day = t.day /\ s.day <= u.day /\ DayMatches(e, u.day)
                BY <1>1, <2>4, <3>3
            <4>2. Within(e, s, u.day, n + 1, 4) /\ Within(e, s, u.day, n + 1, 5)
                <5>1. 3 + 1 = 4 /\ 4 <= 5
                    OBVIOUS
                <5>2. Within(e, s, u.day, n + 1, 4)
                    BY <1>1, <1>5, <2>4, <4>1, <5>1, WithinStep
                <5> QED
                    BY <1>1, <1>5, <2>2, <5>1, <5>2, WithinStep
            <4>3. \/ u.minute = 0 /\ HourMatches(u)
                  \/ Matches(e, u)
                BY <3>3
            <4> HIDE DEF Later, Ends, ToHour, ToMinute, NextHour
            <4> QED
                BY <2>1, <4>1, <4>2, <4>3 DEF Progress
        <3> HIDE DEF Later, ToHour, ToMinute
        <3> QED
            BY <3>1, <3>2, <3>3
    <2>5. CASE /\ t.minute = 0 /\ DayMatches(e, t.day) /\ HourMatches(t)
               /\ s.day <= t.day /\ Within(e, s, t.day, n, 4)
        <3>1. ToMinute
            BY <1>3, <2>1, <2>5
        <3>2. u.day = t.day /\ Matches(e, u)
            BY <3>1
        <3>3. Within(e, s, u.day, n + 1, 5)
            <4>1. 4 + 1 = 5
                OBVIOUS
            <4> QED
                BY <1>1, <1>5, <2>5, <3>2, <4>1, WithinStep
        <3> QED
            BY <2>1, <2>5, <3>2, <3>3 DEF Progress
    <2> HIDE DEF Later, Ends, ToHour, ToMinute, NextHour
    <2>6. \/ t.day = s.day /\ n <= 1 /\ t.minute = 0 /\ DayMatches(e, t.day)
          \/ s.day < t.day /\ t.hour = 0 /\ t.minute = 0 /\ Within(e, s, t.day, n, 3)
          \/ /\ t.minute = 0 /\ DayMatches(e, t.day) /\ HourMatches(t)
             /\ s.day <= t.day /\ Within(e, s, t.day, n, 4)
        BY <2>1 DEF Progress
    <2> QED
        BY <2>3, <2>4, <2>5, <2>6
<1> QED
    BY <1>6, <1>7 DEF Progress

\* No day the search has left behind is one the expression stands for.
Searched(e, s, d) ==
    \A days \in s.day + 1..d - 1 : DayMatches(e, days) => PassedOver(e, days)

\* Every expression stands for some hour and minute.
LEMMA HasValues ==
    ASSUME NEW e \in Crons, NEW f \in {"hour", "minute"}
    PROVE  \E x \in ValuesOf(f, e[f]) : x \in Int
<1>1. f \in Fields /\ InField(f) \subseteq Int /\ 0 \in InField(f)
    BY FieldNames, LimitsOfFields
<1>2. CASE e[f].form = "list"
    <2> DEFINE list == CreateList(f, e[f])
    <2>1. list \in Seq(InField(f)) \ {<<>>}
        BY <1>1, <1>2, ListOfField
    <2> HIDE DEF list
    <2>2. Len(list) \in Nat /\ Len(list) # 0 /\ 1 \in DOMAIN list /\ list[1] \in InField(f)
        BY <2>1
    <2>3. list[1] \in ToSet(list)
        BY <2>2 DEF ToSet
    <2> QED
        BY <1>1, <1>2, <2>2, <2>3 DEF ValuesOf, list
<1>3. CASE e[f].form # "list"
    BY <1>1, <1>3 DEF ValuesOf, InField
<1> QED
    BY <1>2, <1>3

\* A round leaves no such day behind.
LEMMA SearchedStep ==
    ASSUME NEW e \in Crons, AllInOrder(e), NEW s \in Time, NEW t \in Time, NEW u \in Time,
           Searched(e, s, t.day), NoneSkipped(e, t, u),
           s.day < t.day /\ DayMatches(e, t.day) => u.day = t.day
    PROVE  Searched(e, s, u.day)
<1> SUFFICES ASSUME NEW days \in s.day + 1..u.day - 1, DayMatches(e, days), ~PassedOver(e, days)
             PROVE  FALSE
    BY DEF Searched
<1>1. s.day \in Int /\ t.day \in Int /\ u.day \in Int /\ days \in Int
      /\ s.day < days /\ days < u.day
    BY DEF Time
<1>2. CASE days < t.day
    <2>1. days \in s.day + 1..t.day - 1
        BY <1>1, <1>2
    <2> QED
        BY <2>1 DEF Searched
<1>3. CASE days = t.day
    BY <1>1, <1>3
<1>4. CASE t.day < days
    <2>1. days \in t.day..u.day
        BY <1>1, <1>4
    <2>2. PICK h \in ValuesOf("hour", e.hour), m \in ValuesOf("minute", e.minute) :
             h \in 0..23 /\ m \in 0..59
        <3>1. (\E h \in ValuesOf("hour", e.hour) : TRUE) /\ (\E m \in ValuesOf("minute", e.minute) : TRUE)
            BY HasValues
        <3> QED
            BY <3>1, HoursAndMinutes
    <2> DEFINE n == (days * 24 + h) * 60 + m
    <2>3. n <= MinuteNumber(t) \/ n >= MinuteNumber(u)
        BY <2>1, <2>2 DEF NoneSkipped
    <2>4. /\ t.hour \in 0..23 /\ t.minute \in 0..59 /\ u.hour \in 0..23 /\ u.minute \in 0..59
        BY DEF Time
    <2>8. /\ h \in Int /\ 0 <= h /\ h <= 23 /\ m \in Int /\ 0 <= m /\ m <= 59
          /\ t.hour \in Int /\ t.hour <= 23 /\ t.minute \in Int /\ t.minute <= 59
          /\ u.hour \in Int /\ 0 <= u.hour /\ u.minute \in Int /\ 0 <= u.minute
        BY <2>2, <2>4
    <2>5. n > MinuteNumber(t)
        BY <1>1, <1>4, <2>8 DEF MinuteNumber
    <2>6. n < MinuteNumber(u)
        BY <1>1, <2>8 DEF MinuteNumber
    <2>7. n \in Int /\ MinuteNumber(t) \in Int /\ MinuteNumber(u) \in Int
        BY <1>1, <2>2, NumbersOfTime
    <2> HIDE DEF n
    <2> QED
        BY <2>3, <2>5, <2>6, <2>7
<1> QED
    BY <1>1, <1>2, <1>3, <1>4

\* Through the search, if the lists are in order, its rounds are accounted for
\* and no day is left behind: so when it gives up, after the last round.
RoundsInv ==
    /\ at \in {"form", "stored"} => rounds = 0
    /\ at = "search" => rounds \in Nat
    /\ at = "search" /\ AllInOrder(expr) =>
          Progress(expr, start, next, rounds) /\ Searched(expr, start, next.day)
    /\ at = "gaveUp" =>
          /\ expr \in Crons /\ start \in Time
          /\ AllInOrder(expr) =>
                \E d \in Int : Within(expr, start, d, MaxRounds, 5) /\ Searched(expr, start, d)

\* A round of the search keeps it.
LEMMA RoundsOfStep ==
    ASSUME SearchInv, RoundsInv, Advance \/ LeaveNow, AllInOrder(expr)
    PROVE  Progress(expr, start, next', rounds + 1) /\ Searched(expr, start, next'.day)
<1>1. /\ at = "search" /\ expr \in Crons /\ start \in Time /\ next \in Time /\ rounds \in Nat
      /\ Progress(expr, start, next, rounds) /\ Searched(expr, start, next.day)
    BY DEF SearchInv, RoundsInv, Advance, LeaveNow, Round
<1>2. next' \in Time /\ Leads(expr, start, next, next')
    <2>1. CASE Advance
        <3>1. ~Matches(expr, next)
            BY <2>1 DEF Advance
        <3>2. next' = Increment(FirstMismatch(expr, next), expr[FirstMismatch(expr, next)], next)
            BY <2>1 DEF Advance, FirstMismatch
        <3> QED
            BY <1>1, <3>1, <3>2, AdvanceLeads
    <2>2. CASE LeaveNow
        <3>1. Matches(expr, next) /\ next = start /\ next' = IncrementMinute(expr.minute, next)
            BY <2>2 DEF LeaveNow
        <3> QED
            BY <1>1, <3>1, LeavingLeads
    <2> QED
        BY <2>1, <2>2
<1>3. NoneSkipped(expr, next, next')
    BY AdvanceStep, LeaveNowStep DEF GoodStep
<1>4. /\ Progress(expr, start, next', rounds + 1)
      /\ start.day < next.day /\ DayMatches(expr, next.day) => next'.day = next.day
    BY <1>1, <1>2, ProgressStep
<1>5. Searched(expr, start, next'.day)
    BY <1>1, <1>2, <1>3, <1>4, SearchedStep
<1> QED
    BY <1>4, <1>5

\* It holds when the search begins.
LEMMA RoundsOfStart ==
    ASSUME NEW e, NEW s \in Time
    PROVE  Progress(e, s, s, 0) /\ Searched(e, s, s.day)
<1>1. \A x \in s.day + 1..s.day - 1 : FALSE
    BY DEF Time
<1> QED
    BY <1>1 DEF Progress, Searched

\* The invariant holds in every reachable state.
LEMMA RoundsInvHolds == Spec => []RoundsInv
<1>1. Init => RoundsInv
    BY DEF Init, RoundsInv
<1>2. SearchInv /\ RoundsInv /\ [Next]_vars => RoundsInv'
    <2> SUFFICES ASSUME SearchInv, RoundsInv, [Next]_vars PROVE RoundsInv'
        OBVIOUS
    <2>1. CASE Submit
        BY <2>1 DEF RoundsInv, Submit
    <2>2. CASE Ask
        <3>1. CASE Valid(expr)
            <4>1. /\ at' = "search" /\ start' \in Time /\ next' = start'
                  /\ rounds' = 0 /\ expr' = expr
                BY <2>2, <3>1, CronAssumption DEF Ask, RoundsInv
            <4>2. Progress(expr', start', start', 0) /\ Searched(expr', start', start'.day)
                BY <4>1, RoundsOfStart
            <4> QED
                BY <4>1, <4>2 DEF RoundsInv
        <3>2. CASE ~Valid(expr)
            BY <2>2, <3>2 DEF RoundsInv, Ask
        <3> QED
            BY <3>1, <3>2
    <2>3. ASSUME Advance \/ LeaveNow PROVE RoundsInv'
        <3>1. at = "search" /\ UNCHANGED <<at, expr, start>> /\ rounds' = rounds + 1
            BY <2>3 DEF Advance, LeaveNow, Round
        <3>2. AllInOrder(expr) => /\ Progress(expr, start, next', rounds + 1)
                                  /\ Searched(expr, start, next'.day)
            BY <2>3, RoundsOfStep
        <3>3. rounds \in Nat /\ rounds + 1 \in Nat
            BY <3>1 DEF RoundsInv
        <3> QED
            BY <3>1, <3>2, <3>3 DEF RoundsInv
    <2>4. CASE Return
        BY <2>4 DEF RoundsInv, Return, Round
    <2>5. CASE GiveUp
        <3>1. /\ at = "search" /\ at' = "gaveUp" /\ rounds = MaxRounds
              /\ expr' = expr /\ start' = start
              /\ expr \in Crons /\ start \in Time /\ next \in Time
            BY <2>5 DEF GiveUp, SearchInv
        <3>2. ASSUME AllInOrder(expr)
              PROVE  Within(expr, start, next.day, MaxRounds, 5) /\ Searched(expr, start, next.day)
            <4>1. Progress(expr, start, next, MaxRounds) /\ Searched(expr, start, next.day)
                BY <3>1, <3>2 DEF RoundsInv
            <4>2. MaxRounds \in Nat /\ MaxRounds # 0 /\ ~(MaxRounds <= 1)
                BY DEF MaxRounds
            <4>3. \E x \in {3, 4, 5} : Within(expr, start, next.day, MaxRounds, x)
                BY <4>1, <4>2 DEF Progress
            <4>4. \A x \in {3, 4, 5} : x \in Nat /\ x <= 5 /\ 5 \in Nat
                OBVIOUS
            <4>5. next.day \in Int
                BY <3>1 DEF Time
            <4>6. Within(expr, start, next.day, MaxRounds, 5)
                BY <3>1, <4>2, <4>3, <4>4, <4>5, WithinStep
            <4> QED
                BY <4>1, <4>6
        <3>3. next.day \in Int
            BY <3>1 DEF Time
        <3> QED
            BY <3>1, <3>2, <3>3 DEF RoundsInv
    <2>6. CASE UNCHANGED vars
        BY <2>6 DEF RoundsInv, vars
    <2> QED
        BY <2>1, <2>2, <2>3, <2>4, <2>5, <2>6 DEF Next
<1> QED
    BY <1>1, <1>2, SearchInvHolds, PTL DEF Spec

-----------------------------------------------------------------------------
(* A documented day is one that matches.                                   *)

\* The weekdays of a month that begins on day number first.
WeekdaysFrom(first, last) == {d \in 1..last : ~IsWeekend(first - 1 + d)}

\* Two weekdays of a month, each as near to a day as any: they are the same.
LEMMA NearestIsOne ==
    ASSUME NEW first \in Int, NEW last \in Int, NEW t \in Int, 1 <= t, t <= last,
           NEW a \in WeekdaysFrom(first, last), NEW b \in WeekdaysFrom(first, last),
           \A d \in WeekdaysFrom(first, last) : Distance(a, t) <= Distance(d, t),
           \A d \in WeekdaysFrom(first, last) : Distance(b, t) <= Distance(d, t)
    PROVE  a = b
<1> DEFINE weekdays == WeekdaysFrom(first, last)
           x == first + 3
           W(d) == (x + d) % 7 \in {0, 6}
<1>10. x \in Int /\ \A d \in Int : IsWeekend(first - 1 + d) <=> W(d)
    BY DEF IsWeekend, DayOfWeek
<1>11. \A d \in Int : d \in weekdays <=> 1 <= d /\ d <= last /\ ~W(d)
    <2> HIDE DEF W
    <2> QED
        BY <1>10 DEF WeekdaysFrom
<1>12. a \in Int /\ b \in Int
    BY DEF WeekdaysFrom
<1>13. 1 <= a /\ a <= last /\ ~W(a) /\ 1 <= b /\ b <= last /\ ~W(b)
    BY <1>11, <1>12
<1> HIDE DEF x
<1> SUFFICES ASSUME a # b PROVE FALSE
    OBVIOUS
<1>1. Distance(a, t) = Distance(b, t)
    BY <1>12 DEF Distance
<1>2. a + b = 2 * t /\ a # t
    BY <1>1, <1>12 DEF Distance
<1>3. W(t)
    <2> SUFFICES ASSUME ~W(t) PROVE FALSE
        OBVIOUS
    <2>1. t \in weekdays
        BY <1>11
    <2>2. Distance(a, t) <= Distance(t, t)
        BY <2>1
    <2> QED
        BY <1>2, <1>12, <2>2 DEF Distance
<1>4. (x + t) % 7 \in {0, 6}
    BY <1>3
<1>5. ~W(t - 1) \/ ~W(t + 1)
    <2>1. (x + t - 1) % 7 \notin {0, 6} \/ (x + t + 1) % 7 \notin {0, 6}
        BY <1>4, <1>10, SMTT(30)
    <2>2. x + t - 1 = x + (t - 1) /\ x + t + 1 = x + (t + 1)
        BY <1>10
    <2> QED
        BY <2>1, <2>2
<1>6. W(t - 1) \/ W(t + 1)
    <2>1. (x + t - 1) % 7 \in {0, 6} \/ (x + t + 1) % 7 \in {0, 6}
        BY <1>4, <1>10, SMTT(30)
    <2>2. x + t - 1 = x + (t - 1) /\ x + t + 1 = x + (t + 1)
        BY <1>10
    <2> QED
        BY <2>1, <2>2
<1>7. 1 <= t - 1 /\ t + 1 <= last
    BY <1>2, <1>12, <1>13
<1>8. Distance(a, t) <= 1
    <2>1. t - 1 \in weekdays \/ t + 1 \in weekdays
        <3>1. t - 1 \in Int /\ 1 <= t - 1 /\ t - 1 <= last /\ t + 1 \in Int /\ 1 <= t + 1
            BY <1>7
        <3> HIDE DEF W
        <3> QED
            BY <1>5, <1>7, <1>11, <3>1
    <2>2. Distance(a, t) <= Distance(t - 1, t) \/ Distance(a, t) <= Distance(t + 1, t)
        BY <2>1
    <2> QED
        BY <1>12, <2>2 DEF Distance
<1>9. (a = t - 1 /\ b = t + 1) \/ (a = t + 1 /\ b = t - 1)
    BY <1>2, <1>8, <1>12 DEF Distance
<1> HIDE DEF W
<1> QED
    BY <1>6, <1>9, <1>13

\* The day its comment tells matches the day of the month.
LEMMA DocumentedDayOfMonth ==
    ASSUME NEW v, NEW days \in Int, v.form = "weekday" => v.day \in 1..31,
           v.form \in {"last", "weekday"},
           LET c == CivilFromDays(days)
               last == LastDayOfMonth(c.year, c.month)
               weekdays == {d \in 1..last : ~IsWeekend(days - c.day + d)}
               target == IF v.day > last THEN last ELSE v.day
           IN  /\ v.form = "last" => CivilFromDays(days + 1).day = 1
               /\ v.form = "weekday" =>
                     /\ c.day \in weekdays
                     /\ \A d \in weekdays : Distance(c.day, target) <= Distance(d, target)
    PROVE  DayOfMonthMatches(v, CivilFromDays(days))
<1> DEFINE c == CivilFromDays(days)
           y == c.year
           m == c.month
           cd == c.day
           last == LastDayOfMonth(y, m)
           first == DaysFromCivil(y, m, 1)
<1>1. y \in Int /\ m \in 1..12 /\ cd \in 1..31 /\ days = first + cd - 1 /\ cd <= last
    BY CivilTypes
<1> HIDE DEF c, y, m, cd
<1>2. first \in Int /\ last \in Int /\ 28 <= last
    BY <1>1, MonthTypes
<1>3. CASE v.form = "last"
    <2>1. CivilFromDays(days + 1).day = 1
        BY <1>3
    <2>2. SUFFICES ASSUME cd < last PROVE FALSE
        BY <1>1, <1>2, <1>3 DEF DayOfMonthMatches, c, y, m, cd
    <2>3. /\ days + 1 \in Int /\ first <= days + 1 /\ days + 1 < first + last
          /\ (days + 1) - first + 1 = cd + 1 /\ cd \in Int /\ 1 <= cd
        BY <1>1, <1>2, <2>2
    <2>4. CivilFromDays(days + 1) = [year |-> y, month |-> m, day |-> (days + 1) - first + 1]
        BY <1>1, <2>3, DaysOfMonth
    <2> QED
        BY <2>1, <2>3, <2>4
<1>4. CASE v.form = "weekday"
    <2> DEFINE target == IF v.day > last THEN last ELSE v.day
               weekdays == {x \in 1..last : ~IsWeekend(first - 1 + x)}
               d == CalcNearestWeekday(y, m, target)
    <2>1. target \in Int /\ 1 <= target /\ target <= last
        BY <1>2, <1>4
    <2>2. /\ cd \in {x \in 1..last : ~IsWeekend(days - cd + x)}
          /\ \A x \in {z \in 1..last : ~IsWeekend(days - cd + z)} :
                Distance(cd, target) <= Distance(x, target)
        BY <1>4 DEF c, y, m, cd
    <2>3. days - cd = first - 1
        BY <1>1, <1>2
    <2>4. cd \in weekdays /\ \A x \in weekdays : Distance(cd, target) <= Distance(x, target)
        BY <2>2, <2>3
    <2> HIDE DEF target, d
    <2>5. d \in weekdays /\ \A x \in weekdays : Distance(d, target) <= Distance(x, target)
        BY <1>1, <2>1, NearestIsNearest DEF d
    <2>6. weekdays = WeekdaysFrom(first, last)
        BY DEF WeekdaysFrom
    <2> HIDE DEF weekdays, first, last
    <2>7. cd = d
        BY <1>2, <2>1, <2>4, <2>5, <2>6, NearestIsOne
    <2> QED
        BY <1>4, <2>7 DEF DayOfMonthMatches, c, y, m, cd, d, target, last
<1> QED
    BY <1>3, <1>4

\* The last such weekday of the month matches.
LEMMA DocumentedLastOfMonth ==
    ASSUME NEW v, v.form = "lastOfMonth", v.day \in 0..6, NEW days \in Int,
           DayOfWeek(days) = v.day, CivilFromDays(days + 7).month # CivilFromDays(days).month
    PROVE  DayOfWeekMatches(v, CivilFromDays(days), DayOfWeek(days))
<1> DEFINE c == CivilFromDays(days)
           y == c.year
           m == c.month
           cd == c.day
           first == DaysFromCivil(y, m, 1)
           last == LastDayOfMonth(y, m)
           end == first + last - 1
           back == (DayOfWeek(end) - v.day) % 7
<1>1. y \in Int /\ m \in 1..12 /\ cd \in 1..31 /\ days = first + cd - 1 /\ cd <= last
    BY CivilTypes
<1>2. DaysFromCivil(y, m, last) = end
    <2> HIDE DEF y, m
    <2>1. last \in Int
        BY <1>1, MonthTypes
    <2> QED
        BY <1>1, <2>1, DayOfThatMonth
<1>3. CivilFromDays(days + 7).month # m
    OBVIOUS
<1> HIDE DEF c, y, m, cd
<1>4. first \in Int /\ last \in Int /\ 28 <= last
    BY <1>1, MonthTypes
<1>5. ~(days + 7 < first + last)
    <2> SUFFICES ASSUME days + 7 < first + last PROVE FALSE
        OBVIOUS
    <2>1. days + 7 \in Int /\ first <= days + 7
        BY <1>1, <1>4
    <2>2. CivilFromDays(days + 7) = [year |-> y, month |-> m, day |-> (days + 7) - first + 1]
        BY <1>1, <2>1, DaysOfMonth
    <2> QED
        BY <1>3, <2>2
<1>6. end \in Int /\ 0 <= end - days /\ end - days <= 6
    BY <1>1, <1>4, <1>5
<1>7. back = end - days
    <2> HIDE DEF end
    <2>1. back = (((end + 4) % 7) - ((days + 4) % 7)) % 7
        BY DEF DayOfWeek
    <2> QED
        BY <1>6, <2>1, SMTT(30)
<1>8. end - back = days
    BY <1>6, <1>7
<1>9. cd = CivilFromDays(end - back).day
    BY <1>8 DEF cd, c
<1> QED
    BY <1>2, <1>9 DEF DayOfWeekMatches, c, y, m, cd

\* The days from one day to the next such weekday.
LEMMA WeekdayGap ==
    ASSUME NEW f \in Int, NEW k \in Int, 0 <= k
    PROVE  k % 7 = (((f + k + 4) % 7) - ((f + 4) % 7)) % 7
    BY SMTT(30)

\* So does the n-th one.
LEMMA DocumentedNthOfMonth ==
    ASSUME NEW v, v.form = "nth", v.day \in 0..6, v.count \in 1..5, NEW days \in Int,
           DayOfWeek(days) = v.day, (CivilFromDays(days).day - 1) \div 7 + 1 = v.count
    PROVE  DayOfWeekMatches(v, CivilFromDays(days), DayOfWeek(days))
<1> DEFINE c == CivilFromDays(days)
           y == c.year
           m == c.month
           cd == c.day
           first == DaysFromCivil(y, m, 1)
           on == (v.day - DayOfWeek(first)) % 7
<1>1. y \in Int /\ m \in 1..12 /\ cd \in 1..31 /\ days = first + cd - 1
    BY CivilTypes
<1>2. (cd - 1) \div 7 + 1 = v.count
    OBVIOUS
<1> HIDE DEF c, y, m, cd
<1>3. first \in Int
    BY <1>1, MonthTypes
<1>4. on = (cd - 1) % 7
    <2>1. on = (((days + 4) % 7) - ((first + 4) % 7)) % 7
        BY DEF DayOfWeek
    <2> DEFINE k == cd - 1
               f == first
    <2>2. k \in Int /\ 0 <= k /\ days = f + k /\ f \in Int
        BY <1>1, <1>3
    <2>3. on = (((f + k + 4) % 7) - ((f + 4) % 7)) % 7
        BY <2>1, <2>2
    <2>4. k % 7 = on
        <3> HIDE DEF on, f, k
        <3> QED
            BY <2>2, <2>3, WeekdayGap
    <2> QED
        BY <2>4
<1>5. first + on + 7 * (v.count - 1) = days
    <2> HIDE DEF on, first
    <2>1. cd - 1 \in Int /\ days = first + (cd - 1)
        BY <1>1, <1>3
    <2>2. cd - 1 = 7 * ((cd - 1) \div 7) + ((cd - 1) % 7)
        BY <2>1
    <2>3. (cd - 1) \div 7 = v.count - 1
        BY <1>2, <2>1
    <2> QED
        BY <1>3, <1>4, <2>1, <2>2, <2>3
<1>6. NthFrom(y, m, v.day, v.count) = CivilFromDays(days).day
    BY <1>5 DEF NthFrom
<1> QED
    BY <1>6 DEF DayOfWeekMatches, c, y, m, cd

\* A day the comments of an expression's fields tell of matches it.
LEMMA DocumentedMatches ==
    ASSUME NEW e \in Crons, NEW days \in Int, DocumentedDay(e, days)
    PROVE  DayMatches(e, days)
<1> DEFINE c == CivilFromDays(days)
           dom == e.dayOfMonth
           dow == e.dayOfWeek
           last == LastDayOfMonth(c.year, c.month)
           weekdays == {d \in 1..last : ~IsWeekend(days - c.day + d)}
           target == IF dom.day > last THEN last ELSE dom.day
           DomOK == CASE dom.form = "last" -> CivilFromDays(days + 1).day = 1
                      [] dom.form = "weekday" ->
                            /\ c.day \in weekdays
                            /\ \A d \in weekdays : Distance(c.day, target) <= Distance(d, target)
                      [] OTHER -> FieldMatches("dayOfMonth", dom, Midnight(days))
           DowOK == CASE dow.form = "lastOfMonth" ->
                            DayOfWeek(days) = dow.day /\ CivilFromDays(days + 7).month # c.month
                      [] dow.form = "nth" ->
                            DayOfWeek(days) = dow.day /\ (c.day - 1) \div 7 + 1 = dow.count
                      [] OTHER -> FieldMatches("dayOfWeek", dow, Midnight(days))
<1>1. FieldMatches("month", e.month, Midnight(days)) /\ DomOK /\ DowOK
    BY DEF DocumentedDay
<1>2. /\ dom.form \in {"star", "list", "any", "last", "weekday"}
      /\ dom.form = "weekday" => dom.day \in 1..31
      /\ dow.form \in {"star", "list", "any", "lastOfMonth", "nth"}
      /\ dow.form \in {"lastOfMonth", "nth"} => dow.day \in 0..6
      /\ dow.form = "nth" => dow.count \in 1..5
    BY FormsOfFields
<1>3. FieldMatches("dayOfMonth", dom, Midnight(days))
    <2>1. CASE dom.form \in {"last", "weekday"}
        <3>1. /\ dom.form = "last" => CivilFromDays(days + 1).day = 1
              /\ dom.form = "weekday" =>
                    /\ c.day \in weekdays
                    /\ \A d \in weekdays : Distance(c.day, target) <= Distance(d, target)
            <4> HIDE DEF weekdays, target, c, dom
            <4> QED
                BY <1>1, <2>1
        <3> HIDE DEF dom
        <3>2. DayOfMonthMatches(dom, c)
            BY <1>2, <2>1, <3>1, DocumentedDayOfMonth
        <3> QED
            BY <2>1, <3>2 DEF FieldMatches, Midnight
    <2>2. CASE dom.form \notin {"last", "weekday"}
        <3> HIDE DEF weekdays, target, c, dom
        <3> QED
            BY <1>1, <2>2
    <2> QED
        BY <2>1, <2>2
<1>4. FieldMatches("dayOfWeek", dow, Midnight(days))
    <2>1. CASE dow.form = "lastOfMonth"
        <3>1. DayOfWeek(days) = dow.day /\ CivilFromDays(days + 7).month # c.month
            BY <1>1, <2>1
        <3> HIDE DEF dow
        <3>2. DayOfWeekMatches(dow, c, DayOfWeek(days))
            BY <1>2, <2>1, <3>1, DocumentedLastOfMonth
        <3> QED
            BY <2>1, <3>2 DEF FieldMatches, Midnight
    <2>2. CASE dow.form = "nth"
        <3>1. DayOfWeek(days) = dow.day /\ (c.day - 1) \div 7 + 1 = dow.count
            BY <1>1, <2>2
        <3> HIDE DEF dow
        <3>2. DayOfWeekMatches(dow, c, DayOfWeek(days))
            BY <1>2, <2>2, <3>1, DocumentedNthOfMonth
        <3> QED
            BY <2>2, <3>2 DEF FieldMatches, Midnight
    <2>3. CASE dow.form \notin {"lastOfMonth", "nth"}
        <3> HIDE DEF c, dow
        <3> QED
            BY <1>1, <2>3
    <2> QED
        BY <2>1, <2>2, <2>3
<1> QED
    BY <1>1, <1>3, <1>4 DEF DayMatches, FieldOrder

-----------------------------------------------------------------------------
(* What the search gives up on.                                            *)

\* A year has 365 days or 366.
LEMMA YearsOn ==
    ASSUME NEW y \in Int, NEW m \in 1..12, NEW k \in {9, 41}
    PROVE  /\ DaysFromCivil(y, m, 1) \in Int /\ DaysFromCivil(y + k, m, 1) \in Int
           /\ DaysFromCivil(y, m, 1) + 365 * k <= DaysFromCivil(y + k, m, 1)
           /\ DaysFromCivil(y + k, m, 1) <= DaysFromCivil(y, m, 1) + 366 * k
<1> DEFINE yy(x) == IF m <= 2 THEN x - 1 ELSE x
           in == (153 * (IF m > 2 THEN m - 3 ELSE m + 9) + 2) \div 5
           first(x) == 365 * x + x \div 4 - x \div 100 + x \div 400 - 719468
<1>1. ASSUME NEW x \in Int PROVE DaysFromCivil(x, m, 1) = first(yy(x)) + in
    BY SMTT(30) DEF DaysFromCivil
<1>2. ASSUME NEW x \in Int
      PROVE  /\ first(x) \in Int /\ first(x + k) \in Int
             /\ first(x) + 365 * k <= first(x + k) /\ first(x + k) <= first(x) + 366 * k
    <2>1. CASE k = 9
        BY <2>1, SMTT(30)
    <2>2. CASE k = 41
        BY <2>2, SMTT(30)
    <2> QED
        BY <2>1, <2>2
<1>3. yy(y) \in Int /\ yy(y + k) = yy(y) + k /\ in \in Int /\ y + k \in Int
    OBVIOUS
<1> HIDE DEF first, in, yy
<1>4. DaysFromCivil(y, m, 1) = first(yy(y)) + in
    BY <1>1
<1>5. DaysFromCivil(y + k, m, 1) = first(yy(y) + k) + in
    BY <1>1, <1>3
<1> DEFINE a == first(yy(y))
           b == first(yy(y) + k)
<1>6. a \in Int /\ b \in Int /\ a + 365 * k <= b /\ b <= a + 366 * k
    BY <1>2, <1>3
<1> HIDE DEF a, b
<1>7. DaysFromCivil(y, m, 1) = a + in /\ DaysFromCivil(y + k, m, 1) = b + in
    BY <1>4, <1>5 DEF a, b
<1> QED
    BY <1>3, <1>6, <1>7

\* Forty years on are fewer than 497 months.
LEMMA FortyYears ==
    ASSUME NEW s \in Int, NEW d \in Int, d <= s + 40 * 366
    PROVE  MonthNumber(d) \in Int /\ MonthNumber(s) \in Int /\ MonthNumber(d) < MonthNumber(s) + 497
<1> DEFINE y == CivilFromDays(s).year
           m == CivilFromDays(s).month
           k == CivilFromDays(s).day
           z == y + 41
           far == DaysFromCivil(z, m, 1)
<1>1. y \in Int /\ m \in 1..12 /\ k \in 1..31 /\ s = DaysFromCivil(y, m, 1) + k - 1
    BY CivilTypes
<1>2. MonthNumber(s) = 12 * y + m
    BY DEF MonthNumber
<1> HIDE DEF y, m, k
<1>3. /\ far \in Int /\ DaysFromCivil(y, m, 1) \in Int
      /\ far >= DaysFromCivil(y, m, 1) + 365 * 41
    BY <1>1, YearsOn
<1>4. d <= far
    BY <1>1, <1>3
<1>5. z \in Int /\ z = y + 41
    BY <1>1
<1> HIDE DEF far, z
<1>6. MonthNumber(d) \in Int /\ MonthNumber(far) \in Int /\ MonthNumber(d) <= MonthNumber(far)
    BY <1>3, <1>4, MonthsFollowDays
<1>7. MonthNumber(far) = 12 * z + m
    <2>1. LastDayOfMonth(z, m) \in Int /\ 28 <= LastDayOfMonth(z, m)
        BY <1>1, <1>5, MonthTypes
    <2>2. 1 \in Int /\ 1 <= 1 /\ 1 <= LastDayOfMonth(z, m)
        BY <2>1
    <2>3. CivilFromDays(far) = [year |-> z, month |-> m, day |-> 1]
        BY <1>1, <1>5, <2>2, CivilOfDate DEF far
    <2> QED
        BY <2>3 DEF MonthNumber
<1> QED
    BY <1>1, <1>2, <1>5, <1>6, <1>7

\* The days a search looks through before it gives up: a day a round, but
\* forty years if its expression has no weekdays and no L or W.
Reach(e) == IF Dated(e) THEN 40 * 366 ELSE MaxRounds - 6

\* A search that has come to a day after all its rounds has come past them.
LEMMA ReachOfRounds ==
    ASSUME NEW e, NEW s \in Time, NEW d \in Int, Within(e, s, d, MaxRounds, 5)
    PROVE  s.day + Reach(e) < d
<1>1. s.day \in Int
    BY DEF Time
<1>2. 1000 <= d - s.day + 5
    BY DEF Within, MaxRounds
<1>3. CASE ~Dated(e)
    BY <1>1, <1>2, <1>3 DEF Reach, MaxRounds
<1>4. CASE Dated(e)
    <2>1. 1000 <= Place(e, d) - Place(e, s.day) + 5
        BY <1>4 DEF Within, MaxRounds
    <2> SUFFICES ASSUME d <= s.day + 40 * 366 PROVE FALSE
        BY <1>1, <1>4 DEF Reach
    <2>2. /\ MonthNumber(d) \in Int /\ MonthNumber(s.day) \in Int
          /\ MonthNumber(d) < MonthNumber(s.day) + 497
        BY <1>1, FortyYears
    <2> DEFINE more(x) == IF DayMatches(e, x) THEN 1 ELSE 0
    <2>3. more(d) \in {0, 1} /\ more(s.day) \in {0, 1}
        OBVIOUS
    <2>4. Place(e, d) = 2 * MonthNumber(d) + more(d)
          /\ Place(e, s.day) = 2 * MonthNumber(s.day) + more(s.day)
        BY DEF Place
    <2> HIDE DEF more
    <2> QED
        BY <2>1, <2>2, <2>3, <2>4
<1> QED
    BY <1>3, <1>4

\* What giving up says of the days within reach.
NoneWithinReach ==
    \A days \in start.day + 1..start.day + Reach(expr) :
       DayMatches(expr, days) => PassedOver(expr, days)

LEMMA GivenUp ==
    ASSUME RoundsInv, at = "gaveUp", AllInOrder(expr)
    PROVE  NoneWithinReach
<1>1. PICK d \in Int : Within(expr, start, d, MaxRounds, 5) /\ Searched(expr, start, d)
    BY DEF RoundsInv
<1>2. expr \in Crons /\ start \in Time /\ start.day \in Int
    BY DEF RoundsInv, Time
<1>3. start.day + Reach(expr) < d
    BY <1>1, <1>2, ReachOfRounds
<1>4. Reach(expr) \in Int
    BY DEF Reach, MaxRounds
<1> SUFFICES ASSUME NEW days \in start.day + 1..start.day + Reach(expr), DayMatches(expr, days)
             PROVE  PassedOver(expr, days)
    BY DEF NoneWithinReach
<1>5. days \in start.day + 1..d - 1
    <2> DEFINE r == Reach(expr)
    <2>1. days \in start.day + 1..start.day + r /\ start.day + r < d /\ r \in Int
        BY <1>3, <1>4
    <2> HIDE DEF r
    <2> QED
        BY <1>2, <2>1
<1> QED
    BY <1>1, <1>5 DEF Searched

\* A search gives up only when no day within its reach is one its expression
\* stands for, as the comments of the fields explain it, other than days the
\* code passes over: 40 years for a dated expression, 994 days for another.
THEOREM GivesUpBeyondReach ==
    Spec => [](at = "gaveUp" /\ AllInOrder(expr) =>
                  \A days \in start.day + 1..start.day + Reach(expr) :
                     DocumentedDay(expr, days) => PassedOver(expr, days))
<1> DEFINE A == at = "gaveUp" /\ AllInOrder(expr) =>
                   \A days \in start.day + 1..start.day + Reach(expr) :
                      DocumentedDay(expr, days) => PassedOver(expr, days)
<1>1. RoundsInv => A
    <2> SUFFICES ASSUME RoundsInv, at = "gaveUp", AllInOrder(expr),
                        NEW days \in start.day + 1..start.day + Reach(expr),
                        DocumentedDay(expr, days)
                 PROVE  PassedOver(expr, days)
        OBVIOUS
    <2>1. NoneWithinReach
        BY GivenUp
    <2>2. expr \in Crons /\ days \in Int
        BY DEF RoundsInv
    <2>3. DayMatches(expr, days)
        BY <2>2, DocumentedMatches
    <2> QED
        BY <2>1, <2>3 DEF NoneWithinReach
<1> QED
    BY <1>1, RoundsInvHolds, PTL

-----------------------------------------------------------------------------
(* The schedules of the panel.                                             *)

\* The expression of a kind of schedule holds one number in each field of the
\* form, and stands for the days that have those numbers.
LEMMA DaysOfForm ==
    ASSUME NEW x \in PanelForm, FormAccepted(x)
    PROVE  LET e == CronFromForm(x)
               F == FormFields(x.kind)
           IN  /\ e \in Crons /\ AllInOrder(e)
               /\ \A f \in Fields : f \notin F => e[f] = Star
               /\ \A f \in F : /\ f \in Fields /\ x[f] \in InField(f)
                               /\ e[f].form = "list" /\ ToSet(CreateList(f, e[f])) = {x[f]}
               /\ \A days \in Int : DayMatches(e, days) <=>
                     /\ "month" \in F => CivilFromDays(days).month = x.month
                     /\ "dayOfMonth" \in F => CivilFromDays(days).day = x.dayOfMonth
                     /\ "dayOfWeek" \in F => DayOfWeek(days) = x.dayOfWeek
<1> DEFINE e == CronFromForm(x)
           F == FormFields(x.kind)
<1>1. x.kind \in Kinds /\ x.kind # "custom"
    BY DEF PanelForm, Kinds
<1>2. e = [f \in Fields |-> IF f \in F THEN Number(x[f]) ELSE Star]
    BY <1>1 DEF CronFromForm, Fields
<1>3. F \subseteq Fields
    BY <1>1, FieldNames DEF FormFields, Kinds
<1>4. \A f \in F : x[f] \in Int /\ InRange(f, x[f])
    <2>1. \A f \in Fields : x[f] \in Int
        BY FieldNames DEF PanelForm
    <2> QED
        BY <1>1, <1>3, <2>1 DEF FormAccepted
<1>5. Valid(e)
    BY PanelFormIsUnderstood
<1> HIDE DEF F, e
<1>6. e \in Crons
    <2>1. \A f \in F : Number(x[f]) \in FieldValue
        BY <1>4 DEF Number, List, Item, Items, FieldValue
    <2>2. Star \in FieldValue
        BY DEF FieldValue
    <2> QED
        BY <1>2, <1>5, <2>1, <2>2 DEF Crons
<1>7. ASSUME NEW f \in F
      PROVE  /\ f \in Fields /\ x[f] \in InField(f) /\ e[f].form = "list"
             /\ CreateList(f, e[f]) = [k \in 1..1 |-> x[f]]
    <2>1. e[f] = Number(x[f]) /\ f \in Fields /\ x[f] \in Int /\ InRange(f, x[f])
        BY <1>2, <1>3, <1>4
    <2>2. CreateList(f, e[f]) = [k \in 1..1 |-> x[f]]
        BY <2>1, NumberIsValid
    <2> QED
        BY <2>1, <2>2 DEF Number, List, InRange, InField
<1>8. \A f \in F : ToSet(CreateList(f, e[f])) = {x[f]}
    <2> SUFFICES ASSUME NEW f \in F PROVE ToSet(CreateList(f, e[f])) = {x[f]}
        OBVIOUS
    <2> DEFINE list == CreateList(f, e[f])
               n == x[f]
    <2>1. list = [k \in 1..1 |-> n]
        BY <1>7
    <2> HIDE DEF list, n
    <2>2. DOMAIN list = 1..1 /\ list[1] = n /\ 1..1 = {1}
        BY <2>1
    <2>3. ToSet(list) = {n}
        BY <2>2 DEF ToSet
    <2> QED
        BY <2>3 DEF list, n
<1>9. \A f \in F : InOrder(f, CreateList(f, e[f]))
    <2> SUFFICES ASSUME NEW f \in F PROVE InOrder(f, CreateList(f, e[f]))
        OBVIOUS
    <2> DEFINE list == CreateList(f, e[f])
    <2>1. list = [k \in 1..1 |-> x[f]]
        BY <1>7
    <2> HIDE DEF list
    <2>2. Len(list) = 1
        BY <2>1
    <2>3. {k \in 1..Len(list) - 1 : list[k] > list[k + 1]} = {}
        BY <2>2
    <2> QED
        BY <2>3 DEF InOrder, list
<1>10. \A f \in Fields : f \notin F => e[f] = Star /\ e[f].form = "star"
    BY <1>2 DEF Star
<1>11. AllInOrder(e)
    <2>1. DOMAIN e = Fields
        BY <1>2
    <2> QED
        BY <1>9, <1>10, <2>1 DEF AllInOrder
<1>12. ASSUME NEW days \in Int
       PROVE  DayMatches(e, days) <=>
                 /\ "month" \in F => CivilFromDays(days).month = x.month
                 /\ "dayOfMonth" \in F => CivilFromDays(days).day = x.dayOfMonth
                 /\ "dayOfWeek" \in F => DayOfWeek(days) = x.dayOfWeek
    <2>1. DayMatches(e, days) <=> /\ FieldMatches("month", e.month, Midnight(days))
                                  /\ FieldMatches("dayOfMonth", e.dayOfMonth, Midnight(days))
                                  /\ FieldMatches("dayOfWeek", e.dayOfWeek, Midnight(days))
        BY DEF DayMatches, FieldOrder
    <2>2. Midnight(days).day = days
        BY DEF Midnight
    <2>3. {"month", "dayOfMonth", "dayOfWeek"} \subseteq Fields
        BY FieldNames
    <2>4. \A f \in {"month", "dayOfMonth", "dayOfWeek"} :
             f \notin F => FieldMatches(f, e[f], Midnight(days))
        BY <1>10, <2>3 DEF FieldMatches
    <2>5. "month" \in F => (FieldMatches("month", e.month, Midnight(days))
                              <=> CivilFromDays(days).month = x.month)
        BY <1>7, <1>8, <2>2 DEF FieldMatches, ListMatches
    <2>6. "dayOfMonth" \in F => (FieldMatches("dayOfMonth", e.dayOfMonth, Midnight(days))
                                   <=> CivilFromDays(days).day = x.dayOfMonth)
        BY <1>7, <1>8, <2>2 DEF FieldMatches, DayOfMonthMatches, ListMatches
    <2>7. "dayOfWeek" \in F => (FieldMatches("dayOfWeek", e.dayOfWeek, Midnight(days))
                                  <=> DayOfWeek(days) = x.dayOfWeek)
        BY <1>7, <1>8, <2>2 DEF FieldMatches, DayOfWeekMatches, ListMatches
    <2> QED
        BY <2>1, <2>4, <2>5, <2>6, <2>7
<1> QED
    BY <1>6, <1>7, <1>8, <1>10, <1>11, <1>12 DEF e, F

\* The day before a month begins is at least the 28th.
LEMMA MonthBefore ==
    ASSUME NEW days \in Int
    PROVE  CivilFromDays(days - CivilFromDays(days).day).day \in Int
           /\ 28 <= CivilFromDays(days - CivilFromDays(days).day).day
<1> DEFINE y == CivilFromDays(days).year
           m == CivilFromDays(days).month
           d == CivilFromDays(days).day
           y0 == IF m = 1 THEN y - 1 ELSE y
           m0 == IF m = 1 THEN 12 ELSE m - 1
           last == LastDayOfMonth(y0, m0)
<1>1. y \in Int /\ m \in 1..12 /\ d \in 1..31 /\ days = DaysFromCivil(y, m, 1) + d - 1
    BY CivilTypes
<1> HIDE DEF y, m, d
<1>2. y0 \in Int /\ m0 \in 1..12 /\ (m0 = 12 => y = y0 + 1 /\ m = 1)
      /\ (m0 # 12 => y = y0 /\ m = m0 + 1)
    BY <1>1
<1> HIDE DEF y0, m0
<1>3. DaysFromCivil(y0, m0, 1) + last = DaysFromCivil(y, m, 1)
    BY <1>2, NextMonth
<1>4. last \in Int /\ 28 <= last /\ last <= 31
      /\ DaysFromCivil(y0, m0, 1) \in Int
    BY <1>2, MonthTypes
<1> HIDE DEF last
<1>5. days - d = DaysFromCivil(y0, m0, 1) + last - 1
    <2>1. DaysFromCivil(y, m, 1) \in Int
        BY <1>3, <1>4
    <2> QED
        BY <1>1, <1>3, <1>4, <2>1
<1>6. days - d \in Int /\ DaysFromCivil(y0, m0, 1) <= days - d
      /\ days - d < DaysFromCivil(y0, m0, 1) + last
      /\ (days - d) - DaysFromCivil(y0, m0, 1) + 1 = last
    BY <1>1, <1>4, <1>5
<1>7. CivilFromDays(days - d) = [year |-> y0, month |-> m0,
                                 day |-> (days - d) - DaysFromCivil(y0, m0, 1) + 1]
    BY <1>2, <1>6, DaysOfMonth DEF last
<1> QED
    BY <1>4, <1>6, <1>7 DEF d

\* The code passes over no day of such an expression: its one day is not past
\* the end of the month before, if it is the first or the second.
LEMMA FormPassesNoneOver ==
    ASSUME NEW x \in PanelForm, FormAccepted(x), NEW days \in Int,
           DayMatches(CronFromForm(x), days), PassedOver(CronFromForm(x), days)
    PROVE  FALSE
<1> DEFINE e == CronFromForm(x)
           F == FormFields(x.kind)
           k == CivilFromDays(days).day
           b == CivilFromDays(days - k).day
<1>1. \A f \in Fields : f \notin F => e[f] = Star
    BY DaysOfForm
<1>2. k <= 2 /\ e.dayOfMonth.form = "list"
      /\ \E d \in ToSet(CreateList("dayOfMonth", e.dayOfMonth)) : d > b
    BY DEF PassedOver
<1>3. "dayOfMonth" \in F
    BY <1>1, <1>2, FieldNames DEF Star
<1>4. ToSet(CreateList("dayOfMonth", e.dayOfMonth)) = {x.dayOfMonth} /\ k = x.dayOfMonth
    BY <1>3, DaysOfForm
<1>5. b \in Int /\ 28 <= b /\ k \in Int
    BY MonthBefore, CivilTypes
<1> HIDE DEF k, b
<1> QED
    BY <1>2, <1>4, <1>5

\* A date of a later year, not far ahead.
LEMMA DateAhead ==
    ASSUME NEW s \in Int, NEW y \in Int, CivilFromDays(s).year < y,
           y <= CivilFromDays(s).year + 8,
           NEW m \in 1..12, NEW d \in Int, 1 <= d, d <= LastDayOfMonth(y, m)
    PROVE  \E days \in s + 1..s + 40 * 366 :
              CivilFromDays(days) = [year |-> y, month |-> m, day |-> d]
<1> DEFINE y0 == CivilFromDays(s).year
           m0 == CivilFromDays(s).month
           d0 == CivilFromDays(s).day
           last0 == LastDayOfMonth(y0, m0)
           last == LastDayOfMonth(y, m)
           first == DaysFromCivil(y, m, 1)
           first0 == DaysFromCivil(y0, m0, 1)
           far == DaysFromCivil(y0 + 9, m0, 1)
           days == DaysFromCivil(y, m, d)
<1>1. y0 \in Int /\ m0 \in 1..12 /\ d0 \in 1..31 /\ d0 <= last0 /\ s = first0 + d0 - 1
    BY CivilTypes
<1>2. y0 < y /\ y <= y0 + 8
    OBVIOUS
<1> HIDE DEF y0, m0, d0
<1>3. days = first + d - 1
    BY DayOfThatMonth
<1>4. first0 + last0 <= first
    BY <1>1, <1>2, MonthsApart DEF Before
<1>5. first + last <= far
    <2>1. y0 + 9 \in Int /\ Before(y, m, y0 + 9, m0)
        BY <1>1, <1>2 DEF Before
    <2> QED
        BY <1>1, <2>1, MonthsApart
<1>6. far <= first0 + 366 * 9 /\ far \in Int /\ first0 \in Int
    BY <1>1, YearsOn
<1>7. first \in Int /\ last \in Int /\ last0 \in Int /\ d <= last
    BY <1>1, MonthTypes
<1>8. CivilFromDays(days) = [year |-> y, month |-> m, day |-> d]
    BY CivilOfDate
<1> HIDE DEF days, first, first0, far, last, last0
<1>9. days \in s + 1..s + 40 * 366
    BY <1>1, <1>3, <1>4, <1>5, <1>6, <1>7
<1> QED
    BY <1>8, <1>9

\* Of the eight years after a common or a leap year one is a leap year.
LEMMA LeapYearAhead ==
    ASSUME NEW y \in Int
    PROVE  \E k \in 1..8 : IsLeap(y + k)
<1>1. PICK k \in 1..4 : (y + k) % 4 = 0
    <2>1. \/ (y + 1) % 4 = 0 \/ (y + 2) % 4 = 0 \/ (y + 3) % 4 = 0 \/ (y + 4) % 4 = 0
        BY SMTT(30)
    <2> QED
        BY <2>1
<1>2. CASE (y + k) % 100 # 0
    BY <1>1, <1>2 DEF IsLeap
<1>3. CASE (y + k) % 100 = 0
    <2> DEFINE z == y + k
    <2>1. z \in Int /\ z % 4 = 0 /\ z % 100 = 0
        BY <1>1, <1>3
    <2> HIDE DEF z
    <2>2. (z + 4) % 4 = 0 /\ (z + 4) % 100 # 0
        BY <2>1, SMTT(30)
    <2>3. IsLeap(z + 4)
        BY <2>2 DEF IsLeap
    <2>4. z + 4 = y + (k + 4) /\ k + 4 \in 1..8
        BY DEF z
    <2> QED
        BY <2>3, <2>4
<1> QED
    BY <1>2, <1>3

\* A schedule of the panel gives up only if it is a date no year has.
NoSuchDate(x) == x.kind = "yearly" /\ \A y \in Int : x.dayOfMonth > LastDayOfMonth(y, x.month)

\* Every other one stands for a day within reach.
LEMMA FormHasDay ==
    ASSUME NEW x \in PanelForm, FormAccepted(x), ~NoSuchDate(x), NEW s \in Int
    PROVE  \E days \in s + 1..s + Reach(CronFromForm(x)) : DayMatches(CronFromForm(x), days)
<1> DEFINE e == CronFromForm(x)
           F == FormFields(x.kind)
           r == Reach(e)
           y0 == CivilFromDays(s).year
           Good(days) == /\ "month" \in F => CivilFromDays(days).month = x.month
                         /\ "dayOfMonth" \in F => CivilFromDays(days).day = x.dayOfMonth
                         /\ "dayOfWeek" \in F => DayOfWeek(days) = x.dayOfWeek
<1>1. x.kind \in Kinds
    BY DEF PanelForm
<1>2. \A days \in Int : DayMatches(e, days) <=> Good(days)
    BY DaysOfForm
<1>3. \A f \in F : f \in Fields /\ x[f] \in InField(f) /\ e[f].form = "list"
    BY DaysOfForm
<1>4. \A f \in Fields : f \notin F => e[f].form = "star"
    BY DaysOfForm DEF Star
<1>5. r \in Int /\ 994 <= r /\ (Dated(e) => r = 40 * 366)
    BY DEF Reach, MaxRounds
<1>6. y0 \in Int
    BY CivilTypes
<1>7. \A days \in s + 1..s + r : days \in Int
    OBVIOUS
<1> HIDE DEF e, r, y0, Good
<1> SUFFICES \E days \in s + 1..s + r : Good(days)
    BY <1>2, <1>7 DEF e, r
<1>8. CASE x.kind \in {"hourly", "daily"}
    <2>1. "month" \notin F /\ "dayOfMonth" \notin F /\ "dayOfWeek" \notin F
        BY <1>8 DEF FormFields
    <2>2. s + 1 \in s + 1..s + r
        BY <1>5
    <2> QED
        BY <2>1, <2>2 DEF Good
<1>9. CASE x.kind = "weekly"
    <2>1. "month" \notin F /\ "dayOfMonth" \notin F /\ "dayOfWeek" \in F
        BY <1>9 DEF FormFields
    <2>2. x.dayOfWeek \in 0..6
        BY <1>3, <2>1, LimitsOfFields
    <2> DEFINE w == x.dayOfWeek
               days == s + 1 + ((w - DayOfWeek(s + 1)) % 7)
    <2> HIDE DEF w
    <2>3. w \in Int /\ 0 <= w /\ w <= 6
        BY <2>2 DEF w
    <2>4. (days + 4) % 7 = w
        <3>1. days = s + 1 + ((w - ((s + 5) % 7)) % 7)
            BY DEF DayOfWeek
        <3> HIDE DEF days
        <3> QED
            BY <2>3, <3>1, SMTT(30)
    <2>5. days \in s + 1..s + r
        <3> DEFINE gap == (w - DayOfWeek(s + 1)) % 7
        <3>1. gap \in 0..6
            BY <2>3 DEF DayOfWeek
        <3> HIDE DEF gap
        <3>2. days = s + 1 + gap
            BY DEF gap
        <3> QED
            BY <1>5, <3>1, <3>2
    <2> QED
        BY <2>1, <2>4, <2>5 DEF Good, DayOfWeek, w
<1>10. CASE x.kind \in {"monthly", "yearly"}
    <2>1. "dayOfMonth" \in F /\ "dayOfWeek" \notin F /\ ("month" \in F <=> x.kind = "yearly")
        BY <1>10 DEF FormFields
    <2>2. Dated(e)
        <3>1. e.dayOfMonth.form = "list" /\ e.dayOfWeek.form = "star"
            BY <1>3, <1>4, <2>1, FieldNames
        <3> QED
            BY <3>1 DEF Dated
    <2>3. r = 40 * 366
        BY <1>5, <2>2
    <2>4. x.dayOfMonth \in 1..31
        BY <1>3, <2>1, LimitsOfFields
    <2>5. ASSUME NEW y \in Int, y0 < y, y <= y0 + 8, NEW m \in 1..12,
                 x.dayOfMonth <= LastDayOfMonth(y, m), x.kind = "yearly" => m = x.month
          PROVE  \E days \in s + 1..s + r : Good(days)
        <3>1. PICK days \in s + 1..s + 40 * 366 :
                 CivilFromDays(days) = [year |-> y, month |-> m, day |-> x.dayOfMonth]
            <4>1. x.dayOfMonth \in Int /\ 1 <= x.dayOfMonth
                BY <2>4
            <4> QED
                BY <2>5, <4>1, DateAhead DEF y0
        <3> QED
            BY <2>1, <2>3, <2>5, <3>1 DEF Good
    <2>6. CASE x.kind = "monthly"
        <3>1. LastDayOfMonth(y0 + 1, 1) = 31
            BY DEF LastDayOfMonth
        <3>2. x.dayOfMonth <= LastDayOfMonth(y0 + 1, 1) /\ 1 \in 1..12
              /\ y0 + 1 \in Int /\ y0 < y0 + 1 /\ y0 + 1 <= y0 + 8
            BY <1>6, <2>4, <3>1
        <3> QED
            BY <2>5, <2>6, <3>2
    <2>7. CASE x.kind = "yearly"
        <3>1. x.month \in 1..12
            BY <1>3, <2>1, <2>7, LimitsOfFields
        <3>2. PICK y1 \in Int : ~(x.dayOfMonth > LastDayOfMonth(y1, x.month))
            BY <2>7 DEF NoSuchDate
        <3>3. PICK k \in 1..8 : IsLeap(y0 + k)
            BY <1>6, LeapYearAhead
        <3> DEFINE y == y0 + k
        <3>4. LastDayOfMonth(y1, x.month) <= LastDayOfMonth(y, x.month)
            <4>1. CASE x.month = 2
                BY <3>3, <4>1 DEF LastDayOfMonth
            <4>2. CASE x.month # 2
                <5>1. LastDayOfMonth(y1, x.month) = LastDayOfMonth(y, x.month)
                    BY <4>2 DEF LastDayOfMonth
                <5>2. LastDayOfMonth(y1, x.month) \in Int
                    BY <3>1, <3>2, MonthTypes
                <5> QED
                    BY <5>1, <5>2
            <4> QED
                BY <4>1, <4>2
        <3>5. y \in Int /\ y0 < y /\ y <= y0 + 8
            BY <1>6
        <3> HIDE DEF y
        <3>6. LastDayOfMonth(y1, x.month) \in Int /\ LastDayOfMonth(y, x.month) \in Int
            BY <3>1, <3>2, <3>5, MonthTypes
        <3>7. x.dayOfMonth <= LastDayOfMonth(y, x.month)
            BY <2>4, <3>2, <3>4, <3>6
        <3> QED
            BY <2>5, <3>1, <3>5, <3>7
    <2> QED
        BY <1>10, <2>6, <2>7
<1> QED
    BY <1>1, <1>8, <1>9, <1>10 DEF Kinds

\* So a search for it does not give up.
LEMMA FormNeverGivesUp ==
    ASSUME SearchInv, RoundsInv, at = "gaveUp", form.kind # "custom"
    PROVE  NoSuchDate(form) /\ form \in PanelForm /\ FormAccepted(form) /\ expr = CronFromForm(form)
<1>1. FormAccepted(form) /\ expr = CronFromForm(form) /\ start.day \in Int
    BY DEF SearchInv, RoundsInv, Time
<1>2. form \in PanelForm
    BY CronAssumption DEF SearchInv, CustomForm
<1>3. AllInOrder(expr)
    BY <1>1, <1>2, DaysOfForm
<1>4. ASSUME ~NoSuchDate(form) PROVE FALSE
    <2>1. PICK days \in start.day + 1..start.day + Reach(expr) : DayMatches(expr, days)
        BY <1>1, <1>2, <1>4, FormHasDay
    <2>2. NoneWithinReach
        BY <1>3, GivenUp
    <2>3. PassedOver(expr, days) /\ days \in Int
        BY <2>1, <2>2 DEF NoneWithinReach
    <2> QED
        BY <1>1, <1>2, <2>1, <2>3, FormPassesNoneOver
<1> QED
    BY <1>1, <1>2, <1>4

\* Whatever the user chooses among the panel's kinds of schedule, the search
\* finds its next time, unless it is a date that no year has: an hourly,
\* daily, weekly or monthly one always has an answer.
THEOREM PanelSchedulesAreAnswered ==
    Spec => [](at = "gaveUp" /\ form.kind # "custom" => NoSuchDate(form))
<1>1. SearchInv /\ RoundsInv => (at = "gaveUp" /\ form.kind # "custom" => NoSuchDate(form))
    BY FormNeverGivesUp
<1> QED
    BY <1>1, SearchInvHolds, RoundsInvHolds, PTL

\* The search gives up only on an expression that stands for no day within the
\* horizon.  A custom expression must reach that far: its 1000 rounds take it
\* 40 years on if it is dated, and 994 days at the least if it is not.
THEOREM SearchGivesUpOnNone ==
    ASSUME \A x \in Form : x.kind = "custom" => Horizon <= Reach(x.custom)
    PROVE  Spec => []GivesUpOnNone
<1>1. SearchInv /\ RoundsInv => GivesUpOnNone
    <2> SUFFICES ASSUME SearchInv, RoundsInv, at = "gaveUp", AllInOrder(expr),
                        NEW days \in start.day + 1..start.day + Horizon,
                        DocumentedDay(expr, days)
                 PROVE  PassedOver(expr, days)
        BY DEF GivesUpOnNone
    <2>1. expr \in Crons /\ start.day \in Int /\ days \in Int
        BY DEF RoundsInv, Time
    <2>2. DayMatches(expr, days)
        BY <2>1, DocumentedMatches
    <2>3. CASE form.kind = "custom"
        <3>1. form \in Form /\ expr = form.custom
            BY <2>3 DEF SearchInv, CronFromForm
        <3>2. Horizon <= Reach(expr) /\ Horizon \in Int /\ Reach(expr) \in Int
            BY <2>3, <3>1, CronAssumption DEF Reach, MaxRounds
        <3> DEFINE r == Reach(expr)
        <3>3. Horizon <= r /\ Horizon \in Int /\ r \in Int
            BY <3>2
        <3>4. days \in start.day + 1..start.day + r
            <4> HIDE DEF r
            <4> QED
                BY <2>1, <3>3
        <3>5. NoneWithinReach
            BY GivenUp
        <3> QED
            BY <2>2, <3>4, <3>5 DEF NoneWithinReach
    <2>4. CASE form.kind # "custom"
        <3> DEFINE c == CivilFromDays(days)
        <3>1. /\ NoSuchDate(form) /\ form \in PanelForm /\ FormAccepted(form)
              /\ expr = CronFromForm(form)
            BY <2>4, FormNeverGivesUp
        <3>2. "dayOfMonth" \in FormFields(form.kind) /\ "month" \in FormFields(form.kind)
            BY <3>1 DEF NoSuchDate, FormFields
        <3>3. c.month = form.month /\ c.day = form.dayOfMonth
            BY <2>1, <2>2, <3>1, <3>2, DaysOfForm
        <3>4. /\ c.year \in Int /\ c.month \in 1..12 /\ c.day \in 1..31
              /\ c.day <= LastDayOfMonth(c.year, c.month)
            BY <2>1, CivilTypes
        <3>5. form.dayOfMonth > LastDayOfMonth(c.year, form.month)
            BY <3>1, <3>4 DEF NoSuchDate
        <3>6. LastDayOfMonth(c.year, c.month) \in Int
            BY <3>4, MonthTypes
        <3> HIDE DEF c
        <3> QED
            BY <3>3, <3>4, <3>5, <3>6
    <2> QED
        BY <2>3, <2>4
<1> QED
    BY <1>1, SearchInvHolds, RoundsInvHolds, PTL

=============================================================================
