------------------------- MODULE ScheduleLoopProofs -------------------------
(***************************************************************************)
(* Which wakeups of the schedule thread are lost, for any DAGs, schedules  *)
(* and lengths of the day.  OversleepsOnlyUnread is about the sleep alone; *)
(* the inductive invariant follows the schedule thread from the choice of  *)
(* its time on, and tells the two reasons to wake it apart, since each has *)
(* its own thread that notifies.                                           *)
(***************************************************************************)
EXTENDS ScheduleLoop, WellFoundedInduction, SequenceTheorems, FiniteSetTheorems, TLAPS

USE ScheduleAssumption

-----------------------------------------------------------------------------
(* The inductive invariant.                                                *)

SleepTypes == /\ now \in 0..Day - 1
              /\ schedules \in [Dag -> Cron \cup {NoCron}]
              /\ until \in Nat

\* The schedule thread has chosen its time and will sleep until then.
Committed == \/ schedule \in {"compare", "ensure", "sleep"}
             \/ schedule = "asleep" /\ ~woken

\* The end of the daemon is main's to announce ...
StopInv == Committed /\ ~terminator => cachedTime \/ main = "notify"

Missed == \E d \in Scheduled : CalcNext(schedules[d]) < until

\* ... and an earlier run the request thread's.
MissedInv == Committed /\ Missed => cachedTime \/ request \in {"look", "notify"}

IInv == SleepTypes /\ StopInv /\ MissedInv

-----------------------------------------------------------------------------
(* Times.                                                                  *)

\* A set of times that is not empty has an earliest one.
LEMMA LeastOfTimes ==
    ASSUME NEW S, S \subseteq Nat, S # {}
    PROVE  Least(S) \in S /\ \A t \in S : Least(S) <= t
<1> DEFINE before == OpToRel(<, Nat)
<1>1. PICK m \in S : \A t \in S : <<t, m>> \notin before
    <2>1. IsWellFoundedOn(before, Nat)
        BY NatLessThanWellFounded
    <2> HIDE DEF before
    <2> QED
        BY <2>1, WFMin
<1>2. \A t \in S : m <= t
    <2>1. before = {p \in Nat \X Nat : p[1] < p[2]}
        BY DEF OpToRel
    <2> HIDE DEF before
    <2>2. \A t \in S : ~(t < m)
        BY <1>1, <2>1
    <2> QED
        BY <2>2
<1> QED
    BY <1>2 DEF Least, Min

\* calc_next answers the first time of the schedule.
LEMMA CalcNextIsFirst ==
    ASSUME now \in 0..Day - 1, NEW cron \in Cron
    PROVE  /\ CalcNext(cron) \in Nat
           /\ cron = {} => CalcNext(cron) = 0
           /\ \A t \in cron : CalcNext(cron) <= Ahead(t)
           /\ cron # {} => \E t \in cron : CalcNext(cron) = Ahead(t)
<1> DEFINE times == {Ahead(t) : t \in cron}
<1>1. cron \subseteq 0..Day - 1
    OBVIOUS
<1>2. times \subseteq Nat
    BY <1>1 DEF Ahead
<1>3. CASE cron = {}
    BY <1>3 DEF CalcNext
<1>4. CASE cron # {}
    <2>1. times # {} /\ CalcNext(cron) = Least(times)
        BY <1>4 DEF CalcNext
    <2>2. Least(times) \in times /\ \A t \in times : Least(times) <= t
        BY <2>1, <1>2, LeastOfTimes
    <2> QED
        BY <2>1, <2>2, <1>2, <1>4
<1> QED
    BY <1>3, <1>4

\* A tick brings a run nearer by one tick at most.
LEMMA TickBringsNearer ==
    ASSUME now \in 0..Day - 1, NEW cron \in Cron, Tick
    PROVE  /\ CalcNext(cron) \in Nat /\ CalcNext(cron)' \in Nat
           /\ CalcNext(cron) <= CalcNext(cron)' + 1
<1>1. now' = (IF now = Day - 1 THEN 0 ELSE now + 1) /\ now' \in 0..Day - 1
    BY DEF Tick
<1>2. CASE cron = {}
    BY <1>2 DEF CalcNext
<1>3. CASE cron # {}
    <2>1. PICK t \in cron : CalcNext(cron)' = Ahead(t)'
        <3>1. CalcNext(cron)' = Least({Ahead(t)' : t \in cron})
            BY <1>3 DEF CalcNext
        <3>2. {Ahead(t)' : t \in cron} \subseteq Nat
            BY <1>1 DEF Ahead
        <3>3. {Ahead(t)' : t \in cron} # {}
            BY <1>3
        <3>4. Least({Ahead(t)' : t \in cron}) \in {Ahead(t)' : t \in cron}
            BY <3>2, <3>3, LeastOfTimes
        <3> QED
            BY <3>1, <3>4
    <2>2. CalcNext(cron) <= Ahead(t) /\ CalcNext(cron) \in Nat
        BY CalcNextIsFirst
    <2>3. Ahead(t) <= Ahead(t)' + 1 /\ Ahead(t) \in Nat /\ Ahead(t)' \in Nat
        BY <1>1 DEF Ahead
    <2> QED
        BY <2>1, <2>2, <2>3
<1> QED
    BY <1>2, <1>3

-----------------------------------------------------------------------------
(* Steps.                                                                  *)

LEMMA InitInv == Init => IInv
BY DEF Init, IInv, SleepTypes, StopInv, MissedInv, Committed

LEMMA TickStep == ASSUME IInv, Tick PROVE IInv'
<1>1. /\ now' \in 0..Day - 1 /\ until' = Passed(until)
      /\ UNCHANGED <<terminator, main, schedules, request, schedule, cachedTime, woken>>
    BY DEF Tick, IInv, SleepTypes, registry, notifier
<1>2. until \in Nat /\ until' \in Nat
    BY <1>1 DEF IInv, SleepTypes, Passed
<1>3. ASSUME NEW d \in Scheduled, CalcNext(schedules[d])' < until'
      PROVE  CalcNext(schedules[d]) < until
    <2>1. now \in 0..Day - 1 /\ schedules[d] \in Cron
        BY DEF IInv, SleepTypes, Scheduled
    <2>2. /\ CalcNext(schedules[d]) \in Nat /\ CalcNext(schedules[d])' \in Nat
          /\ CalcNext(schedules[d]) <= CalcNext(schedules[d])' + 1
        BY <2>1, <1>1, TickBringsNearer DEF CalcNext, Ahead
    <2> QED
        BY <2>2, <1>1, <1>2, <1>3 DEF Passed
<1>4. Missed' => Missed
    BY <1>1, <1>3 DEF Missed, Scheduled
<1>5. SleepTypes'
    BY <1>1, <1>2 DEF IInv, SleepTypes
<1>6. StopInv' /\ MissedInv'
    BY <1>1, <1>4 DEF IInv, StopInv, MissedInv, Committed
<1> QED
    BY <1>5, <1>6 DEF IInv

\* The schedules are only changed by the request thread, which is going to
\* look at them.
LEMMA ProcessStep == ASSUME IInv, Process PROVE IInv'
<1>1. /\ request' = "look"
      /\ UNCHANGED <<now, terminator, main, schedule, until, cachedTime, woken>>
    BY DEF Process, sleeper, notifier
<1>2. schedules' \in [Dag -> Cron \cup {NoCron}]
    BY DEF Process, CreateDag, RemoveDag, Execute, registry, IInv, SleepTypes
<1>3. StopInv'
    BY <1>1 DEF IInv, StopInv, Committed
<1> QED
    BY <1>1, <1>2, <1>3 DEF IInv, SleepTypes, MissedInv

LEMMA RequestLookStep == ASSUME IInv, RequestLook PROVE IInv'
<1>1. /\ request' \in {"notify", "ensure"}
      /\ request' = "ensure" => Scheduled = {}
      /\ UNCHANGED <<now, terminator, main, schedules, schedule, until, cachedTime, woken>>
    BY DEF RequestLook, registry, sleeper, notifier
<1>2. (Missed' <=> Missed) /\ (Missed => Scheduled # {})
    BY <1>1 DEF Missed, Scheduled, CalcNext, Ahead
<1> QED
    BY <1>1, <1>2 DEF IInv, SleepTypes, StopInv, MissedInv, Committed

\* Both threads that notify store into cached_time_.
LEMMA NotifyStep == ASSUME IInv, RequestNotify \/ LastNotification PROVE IInv'
<1>1. /\ cachedTime' = TRUE
      /\ UNCHANGED <<now, schedules, until>>
    BY DEF RequestNotify, LastNotification, NotifyWakeup, registry, sleeper
<1> QED
    BY <1>1 DEF IInv, SleepTypes, StopInv, MissedInv

\* Steps of threads that the schedule thread does not wait for.
LEMMA OtherStep ==
    ASSUME IInv, RequestEnsure \/ RequestDone \/ Take \/ Wait \/ LookAgain \/ GiveUp
    PROVE  IInv'
<1>1. /\ UNCHANGED <<now, terminator, main, schedules, schedule, until, cachedTime, woken>>
      /\ request \in {"look", "notify"} => request' = request
    BY DEF RequestEnsure, RequestDone, Take, TakeOf, Wait, LookAgain, GiveUp,
       registry, sleeper, notifier
<1>2. Missed' <=> Missed
    BY <1>1 DEF Missed, Scheduled, CalcNext, Ahead
<1> QED
    BY <1>1, <1>2 DEF IInv, SleepTypes, StopInv, MissedInv, Committed

LEMMA QuitStep == ASSUME IInv, Quit PROVE IInv'
<1>1. /\ main' = "notify"
      /\ UNCHANGED <<now, schedules, request, schedule, until, cachedTime, woken>>
    BY DEF Quit, registry, sleeper, notifier
<1>2. Missed' <=> Missed
    BY <1>1 DEF Missed, Scheduled, CalcNext, Ahead
<1> QED
    BY <1>1, <1>2 DEF IInv, SleepTypes, StopInv, MissedInv, Committed

\* The time the schedule thread chooses misses nothing.
LEMMA ScheduleLookStep == ASSUME IInv, ScheduleLook PROVE IInv'
<1>1. UNCHANGED <<now, terminator, main, schedules, request, cachedTime, woken>>
    BY DEF ScheduleLook, registry, notifier
<1>2. CASE ~terminator
    <2>1. schedule' = "done" /\ until' = until
        BY <1>2 DEF ScheduleLook
    <2> QED
        BY <1>1, <2>1 DEF IInv, SleepTypes, StopInv, MissedInv, Committed
<1>3. CASE terminator /\ Scheduled = {} /\ until' = Month
    <2>1. ~Missed'
        BY <1>1, <1>3 DEF Missed, Scheduled
    <2> QED
        BY <1>1, <1>3, <2>1 DEF IInv, SleepTypes, StopInv, MissedInv
<1>4. CASE terminator /\ \E d \in Earliest : until' = CalcNext(schedules[d])
    <2>1. PICK d \in Earliest : until' = CalcNext(schedules[d])
        BY <1>4
    <2>2. d \in Scheduled /\ \A e \in Scheduled : schedules[e] \in Cron
        BY DEF Earliest, Scheduled, IInv, SleepTypes
    <2>3. \A e \in Scheduled : CalcNext(schedules[e]) \in Nat
        BY <2>2, CalcNextIsFirst DEF IInv, SleepTypes
    <2>4. \A e \in Scheduled : until' <= CalcNext(schedules[e])
        <3>1. CASE schedules[d] = {}
            <4>1. until' = 0
                BY <3>1, <2>1, <2>2, CalcNextIsFirst DEF IInv, SleepTypes
            <4> QED
                BY <4>1, <2>3
        <3>2. CASE schedules[d] # {}
            BY <3>2, <2>1 DEF Earliest
        <3> QED
            BY <3>1, <3>2
    <2>5. \A e \in Scheduled : ~(CalcNext(schedules[e]) < until')
        BY <2>1, <2>2, <2>3, <2>4
    <2>6. ~Missed'
        BY <1>1, <2>5 DEF Missed, Scheduled, CalcNext, Ahead
    <2>7. SleepTypes'
        BY <1>1, <2>1, <2>2, <2>3 DEF IInv, SleepTypes
    <2> QED
        BY <1>1, <1>4, <2>6, <2>7 DEF IInv, StopInv, MissedInv
<1> QED
    BY <1>2, <1>3, <1>4 DEF ScheduleLook

\* On its way to sleep it looks at nothing more.
LEMMA ToSleepStep ==
    ASSUME IInv, ScheduleCompare \/ ScheduleEnsure \/ FallAsleep
    PROVE  IInv'
<1>1. /\ UNCHANGED <<now, terminator, main, schedules, request, until, cachedTime, woken>>
      /\ schedule \in {"compare", "ensure", "sleep"}
    BY DEF ScheduleCompare, ScheduleEnsure, FallAsleep, IsOld, IsNew, ExecuteAt, Enqueue,
       registry, notifier
<1>2. Missed' <=> Missed
    BY <1>1 DEF Missed, Scheduled, CalcNext, Ahead
<1> QED
    BY <1>1, <1>2 DEF IInv, SleepTypes, StopInv, MissedInv, Committed

LEMMA WakeUpStep == ASSUME IInv, WakeUp PROVE IInv'
BY DEF WakeUp, registry, IInv, SleepTypes, StopInv, MissedInv, Committed

LEMMA NextInv == IInv /\ [Next]_vars => IInv'
<1> SUFFICES ASSUME IInv, [Next]_vars PROVE IInv'
    OBVIOUS
<1>1. CASE UNCHANGED vars
    <2>1. UNCHANGED <<now, terminator, main, schedules, request, schedule, until,
                      cachedTime, woken>>
        BY <1>1 DEF vars, registry, sleeper, notifier
    <2>2. Missed' <=> Missed
        BY <2>1 DEF Missed, Scheduled, CalcNext, Ahead
    <2> QED
        BY <2>1, <2>2 DEF IInv, SleepTypes, StopInv, MissedInv, Committed
<1>2. CASE Next
    BY <1>2, TickStep, ProcessStep, RequestLookStep, NotifyStep, OtherStep, QuitStep,
       ScheduleLookStep, ToSleepStep, WakeUpStep DEF Next, RequestStep, ScheduleStep
<1> QED
    BY <1>1, <1>2

LEMMA InvHolds == Spec => []IInv
BY InitInv, NextInv, PTL DEF Spec

-----------------------------------------------------------------------------
(* However requests, clock and threads interleave, the only wakeup that is *)
(* lost is the one that came before sleep_until_or_notified began to wait. *)
THEOREM OnlyUnreadIsLost == Spec => []OversleepsOnlyUnread
<1>1. IInv => OversleepsOnlyUnread
    BY DEF IInv, StopInv, MissedInv, Committed, Missed, Oversleeps, OversleepsOnlyUnread
<1> QED
    BY <1>1, InvHolds, PTL

-----------------------------------------------------------------------------
(* The heap.  Its order is what makes a look at the first run enough.      *)

Sorted(q) == \A i, j \in DOMAIN q : i <= j => q[i][2] <= q[j][2]

LEMMA InsertAtProperties ==
    ASSUME NEW S, NEW s \in Seq(S), NEW n \in 1..Len(s) + 1, NEW e \in S
    PROVE  /\ InsertAt(s, n, e) \in Seq(S)
           /\ DOMAIN InsertAt(s, n, e) = 1..Len(s) + 1
           /\ \A i \in 1..Len(s) + 1 :
                 InsertAt(s, n, e)[i] = IF i < n THEN s[i] ELSE IF i = n THEN e ELSE s[i - 1]
<1> DEFINE first == SubSeq(s, 1, n - 1)
           last == SubSeq(s, n, Len(s))
           front == first \o <<e>>
<1>1. Len(s) \in Nat /\ \A i \in 1..Len(s) : s[i] \in S
    BY LenProperties, ElementOfSeq
<1>2. /\ first \in Seq(S) /\ Len(first) = n - 1
      /\ \A i \in 1..n - 1 : first[i] = s[i]
    BY <1>1, SubSeqProperties
<1>3. /\ last \in Seq(S) /\ Len(last) = Len(s) - n + 1
      /\ \A i \in 1..Len(s) - n + 1 : last[i] = s[n + i - 1]
    BY <1>1, SubSeqProperties
<1>4. <<e>> \in Seq(S) /\ Len(<<e>>) = 1 /\ <<e>>[1] = e
    OBVIOUS
<1> HIDE DEF first, last
<1>5. /\ front \in Seq(S) /\ Len(front) = n
      /\ \A i \in 1..n : front[i] = IF i < n THEN s[i] ELSE e
    BY <1>2, <1>4, ConcatProperties
<1> HIDE DEF front
<1>6. /\ front \o last \in Seq(S) /\ Len(front \o last) = Len(s) + 1
      /\ \A i \in 1..Len(s) + 1 :
            (front \o last)[i] = IF i <= n THEN front[i] ELSE last[i - n]
    <2>1. Len(front) + Len(last) = Len(s) + 1
        BY <1>1, <1>3, <1>5
    <2>2. /\ front \o last \in Seq(S) /\ Len(front \o last) = Len(front) + Len(last)
          /\ \A i \in 1..Len(front) + Len(last) :
                (front \o last)[i] = IF i <= Len(front) THEN front[i]
                                      ELSE last[i - Len(front)]
        BY <1>3, <1>5, ConcatProperties
    <2> QED
        BY <1>5, <2>1, <2>2
<1>7. \A i \in 1..Len(s) + 1 :
          (front \o last)[i] = IF i < n THEN s[i] ELSE IF i = n THEN e ELSE s[i - 1]
    BY <1>1, <1>3, <1>5, <1>6
<1>8. InsertAt(s, n, e) = front \o last
    BY DEF InsertAt, front, first, last
<1> QED
    BY <1>6, <1>7, <1>8, LenProperties

\* In a sorted sequence the runs up to a time are the first ones.
LEMMA RunsUpToATime ==
    ASSUME NEW q \in Seq(Run), Sorted(q), NEW t \in Nat,
           NEW n, n = Cardinality({i \in DOMAIN q : q[i][2] <= t})
    PROVE  /\ n \in 0..Len(q)
           /\ \A i \in DOMAIN q : q[i][2] <= t <=> i <= n
<1> DEFINE early == {i \in DOMAIN q : q[i][2] <= t}
           after == {i \in 1..Len(q) + 1 : i \notin early}
<1>1. /\ Len(q) \in Nat /\ DOMAIN q = 1..Len(q)
      /\ \A i \in DOMAIN q : q[i][2] \in Nat
    BY LenProperties, ElementOfSeq DEF Run
<1>2. after \subseteq Nat /\ Len(q) + 1 \in after
    BY <1>1
<1>3. PICK m \in after : \A i \in after : m <= i
    <2> HIDE DEF after
    <2>1. Least(after) \in after /\ \A i \in after : Least(after) <= i
        BY <1>2, LeastOfTimes
    <2> QED
        BY <2>1
<1>4. m \in 1..Len(q) + 1 /\ m \notin early
    BY <1>3
<1>5. early \subseteq 1..m - 1
    <2> SUFFICES ASSUME NEW i \in early PROVE i < m
        BY <1>1, <1>4
    <2> SUFFICES ASSUME m <= i PROVE FALSE
        BY <1>1, <1>4
    <2>1. m \in DOMAIN q /\ i \in DOMAIN q
        BY <1>1, <1>4
    <2>2. q[m][2] <= q[i][2] /\ q[i][2] <= t
        BY <2>1 DEF Sorted
    <2> QED
        BY <1>1, <1>4, <2>1, <2>2
<1>6. 1..m - 1 \subseteq early
    <2> SUFFICES ASSUME NEW i \in 1..m - 1, i \notin early PROVE FALSE
        OBVIOUS
    <2>1. i \in after /\ i < m
        BY <1>1, <1>4
    <2> QED
        BY <1>3, <1>4, <2>1
<1>7. early = 1..m - 1
    BY <1>5, <1>6
<1>8. n = m - 1
    <2>1. n = Cardinality(1..m - 1)
        BY <1>7
    <2>2. m - 1 \in Int /\ m - 1 >= 0
        BY <1>1, <1>4
    <2>3. Cardinality(1..m - 1) = IF 1 > m - 1 THEN 0 ELSE m - 1 - 1 + 1
        BY <2>2, FS_Interval
    <2> QED
        BY <2>1, <2>2, <2>3
<1>9. n \in 0..Len(q)
    BY <1>1, <1>4, <1>8
<1>10. \A i \in DOMAIN q : i \in early <=> i <= n
    BY <1>1, <1>4, <1>7, <1>8
<1> QED
    BY <1>9, <1>10

LEMMA InsertedHeap ==
    ASSUME queue \in Seq(Run), Sorted(queue), NEW d \in Dag, NEW t \in 0..Day - 1
    PROVE  Inserted(d, t) \in Seq(Run) /\ Sorted(Inserted(d, t))
<1>1. CASE <<d, t>> \in ToSet(queue)
    BY <1>1 DEF Inserted
<1>2. CASE <<d, t>> \notin ToSet(queue)
    <2> DEFINE n == Cardinality({i \in DOMAIN queue : queue[i][2] <= t})
               q == InsertAt(queue, n + 1, <<d, t>>)
    <2>1. Inserted(d, t) = q
        BY <1>2 DEF Inserted
    <2>2. n \in 0..Len(queue) /\ \A i \in DOMAIN queue : queue[i][2] <= t <=> i <= n
        BY RunsUpToATime
    <2>3. /\ Len(queue) \in Nat /\ DOMAIN queue = 1..Len(queue)
          /\ \A i \in DOMAIN queue : queue[i][2] \in Nat
        BY LenProperties, ElementOfSeq DEF Run
    <2>4. <<d, t>> \in Run /\ n + 1 \in 1..Len(queue) + 1
        BY <2>2, <2>3 DEF Run
    <2> HIDE DEF n
    <2>5. /\ q \in Seq(Run)
          /\ DOMAIN q = 1..Len(queue) + 1
          /\ \A i \in 1..Len(queue) + 1 :
                q[i] = IF i < n + 1 THEN queue[i]
                       ELSE IF i = n + 1 THEN <<d, t>> ELSE queue[i - 1]
        <3> DEFINE k == n + 1
                   run == <<d, t>>
        <3>1. k \in 1..Len(queue) + 1 /\ run \in Run
            BY <2>4
        <3> HIDE DEF k, run
        <3>2. /\ InsertAt(queue, k, run) \in Seq(Run)
              /\ DOMAIN InsertAt(queue, k, run) = 1..Len(queue) + 1
              /\ \A i \in 1..Len(queue) + 1 :
                    InsertAt(queue, k, run)[i] = IF i < k THEN queue[i]
                        ELSE IF i = k THEN run ELSE queue[i - 1]
            BY <3>1, InsertAtProperties
        <3> QED
            BY <3>2 DEF k, run
    <2> HIDE DEF q
    <2>6. ASSUME NEW i \in DOMAIN q, NEW j \in DOMAIN q, i <= j
          PROVE  q[i][2] <= q[j][2]
        <3>1. /\ i < n + 1 => q[i] = queue[i] /\ i \in DOMAIN queue
              /\ j < n + 1 => q[j] = queue[j] /\ j \in DOMAIN queue
              /\ i > n + 1 => q[i] = queue[i - 1] /\ i - 1 \in DOMAIN queue
              /\ j > n + 1 => q[j] = queue[j - 1] /\ j - 1 \in DOMAIN queue
              /\ i = n + 1 => q[i][2] = t
              /\ j = n + 1 => q[j][2] = t
            BY <2>2, <2>3, <2>5
        <3>2. CASE i < n + 1 /\ j < n + 1
            BY <2>6, <3>1, <3>2 DEF Sorted
        <3>3. CASE i < n + 1 /\ j = n + 1
            BY <2>2, <2>3, <3>1, <3>3
        <3>4. CASE i < n + 1 /\ j > n + 1
            <4>1. i <= j - 1
                BY <2>2, <2>3, <2>5, <3>4
            <4> QED
                BY <3>1, <3>4, <4>1 DEF Sorted
        <3>5. CASE i = n + 1 /\ j = n + 1
            BY <3>1, <3>5
        <3>6. CASE i = n + 1 /\ j > n + 1
            <4>1. ~(queue[j - 1][2] <= t)
                BY <2>2, <2>3, <2>5, <3>1, <3>6
            <4> QED
                BY <2>3, <3>1, <3>6, <4>1
        <3>7. CASE i > n + 1
            <4>1. j > n + 1 /\ i - 1 <= j - 1
                BY <2>2, <2>5, <2>6, <3>7
            <4> QED
                BY <3>1, <3>7, <4>1 DEF Sorted
        <3> QED
            BY <2>2, <2>5, <2>6, <3>2, <3>3, <3>4, <3>5, <3>6, <3>7
    <2> QED
        BY <2>1, <2>5, <2>6 DEF Sorted
<1> QED
    BY <1>1, <1>2

-----------------------------------------------------------------------------
(* Types, the order of the heap, and the executioner's wait.  The time the *)
(* schedule thread is about to enqueue a run for lies within a day.        *)

TypeInv == TypeOK /\ (schedule = "compare" => until \in 0..Day - 1)
WaitInv == TypeInv /\ Sorted(queue) /\ WaitsForTheFirst

LEMMA WaitInit == Init => WaitInv
<1> SUFFICES ASSUME Init PROVE WaitInv
    OBVIOUS
<1>1. queue \in Seq(Run) /\ DOMAIN queue = {}
    BY EmptySeq DEF Init
<1>2. chosen \subseteq Choice /\ Cardinality(chosen) <= 1
    BY FS_EmptySet DEF Init
<1>3. until \in Time
    BY DEF Init, Time
<1>4. schedules \in [Dag -> Cron \cup {NoCron}] /\ lastEnqueued \in [Dag -> 0..Epoch]
    BY DEF Init, Epoch
<1>5. /\ terminator \in BOOLEAN /\ cachedTime \in BOOLEAN
      /\ woken \in BOOLEAN /\ signalled \in BOOLEAN
    BY DEF Init
<1>6. now \in 0..Day - 1 /\ requests \in 0..MaxRequests
      /\ wake \in 0..Idle /\ deadline \in 0..Idle
    BY DEF Init
<1>7. TypeInv
    BY <1>1, <1>2, <1>3, <1>4, <1>5, <1>6 DEF Init, TypeInv, TypeOK
<1> QED
    BY <1>1, <1>7 DEF Init, WaitInv, Sorted, WaitsForTheFirst

\* The times of the schedules lie within a day.
LEMMA CalcNextWithinDay ==
    ASSUME now \in 0..Day - 1, NEW cron \in Cron
    PROVE  CalcNext(cron) \in 0..Day - 1
<1>1. \A t \in cron : Ahead(t) \in 0..Day - 1
    BY DEF Ahead
<1> QED
    BY <1>1, CalcNextIsFirst

LEMMA EnqueueKeeps ==
    ASSUME WaitInv, NEW d \in Dag, NEW t \in 0..Day - 1, Enqueue(d, t), UNCHANGED <<exec, wake>>
    PROVE  /\ queue' \in Seq(Run) /\ Sorted(queue') /\ signalled' \in BOOLEAN
           /\ WaitsForTheFirst'
<1>1. queue' \in Seq(Run) /\ Sorted(queue')
    BY InsertedHeap DEF Enqueue, WaitInv, TypeInv, TypeOK
<1>2. signalled' \in BOOLEAN /\ (exec' = "waiting" => signalled')
    BY DEF Enqueue, WaitInv, TypeInv, TypeOK
<1> QED
    BY <1>1, <1>2 DEF WaitsForTheFirst

\* A tick leaves runs out and brings all times nearer, the wait's own too.
LEMMA TickKeepsHeap ==
    ASSUME WaitInv, Tick
    PROVE  queue' \in Seq(Run) /\ Sorted(queue') /\ WaitsForTheFirst'
<1> DEFINE left == {i \in DOMAIN queue : ~Met(queue[i])}
<1>1. PICK kept \in InOrder(left) :
          queue' = [i \in DOMAIN kept |-> <<queue[kept[i]][1], Passed(queue[kept[i]][2])>>]
    BY DEF Tick
<1>2. /\ Len(queue) \in Nat /\ DOMAIN queue = 1..Len(queue)
      /\ \A i \in DOMAIN queue : queue[i] \in Run
    BY LenProperties, ElementOfSeq DEF WaitInv, TypeInv, TypeOK
<1>3. \A i \in DOMAIN queue : queue[i][1] \in Dag /\ queue[i][2] \in 0..Day - 1
    BY <1>2 DEF Run
<1>4. IsFiniteSet(left) /\ Cardinality(left) \in Nat
    <2>1. IsFiniteSet(1..Len(queue))
        BY <1>2, FS_Interval
    <2> QED
        BY <1>2, <2>1, FS_Subset, FS_CardinalityType
<1>5. /\ DOMAIN kept = 1..Cardinality(left)
      /\ \A i \in DOMAIN kept : kept[i] \in DOMAIN queue
      /\ \A i, j \in DOMAIN kept : i < j => kept[i] < kept[j]
    BY DEF InOrder, SetToSeqs
<1> HIDE DEF left
<1>6. /\ DOMAIN queue' = DOMAIN kept
      /\ \A i \in DOMAIN kept : /\ queue'[i] \in Run
                                /\ queue'[i][2] = Passed(queue[kept[i]][2])
    <2> SUFFICES ASSUME NEW i \in DOMAIN kept
                 PROVE  queue'[i] \in Run /\ queue'[i][2] = Passed(queue[kept[i]][2])
        BY <1>1
    <2>1. queue'[i] = <<queue[kept[i]][1], Passed(queue[kept[i]][2])>>
        BY <1>1
    <2>2. queue[kept[i]][1] \in Dag /\ Passed(queue[kept[i]][2]) \in 0..Day - 1
        BY <1>3, <1>5 DEF Passed
    <2> QED
        BY <2>1, <2>2 DEF Run
<1>7. queue' \in Seq(Run)
    <2>1. queue' \in [1..Cardinality(left) -> Run]
        BY <1>1, <1>5, <1>6
    <2> QED
        BY <1>4, <2>1, SeqDef
<1>8. \A s, t \in Nat : s <= t => Passed(s) <= Passed(t)
    BY DEF Passed
<1>9. Sorted(queue')
    <2> SUFFICES ASSUME NEW i \in DOMAIN queue', NEW j \in DOMAIN queue', i <= j
                 PROVE  queue'[i][2] <= queue'[j][2]
        BY DEF Sorted
    <2>1. i \in Nat /\ j \in Nat /\ kept[i] \in DOMAIN queue /\ kept[j] \in DOMAIN queue
        BY <1>4, <1>5, <1>6
    <2>2. kept[i] <= kept[j]
        BY <1>2, <1>5, <1>6, <2>1
    <2>3. queue[kept[i]][2] <= queue[kept[j]][2]
        BY <2>1, <2>2 DEF WaitInv, Sorted
    <2> QED
        BY <1>3, <1>6, <1>8, <2>1, <2>3
<1>10. WaitsForTheFirst'
    <2> SUFFICES ASSUME exec' = "waiting", ~signalled', NEW i \in DOMAIN queue'
                 PROVE  wake' <= queue'[i][2]
        BY DEF WaitsForTheFirst
    <2>1. exec = "waiting" /\ ~signalled /\ wake' = Passed(wake) /\ wake \in Nat
        BY DEF Tick, WaitInv, TypeInv, TypeOK
    <2>2. kept[i] \in DOMAIN queue /\ wake <= queue[kept[i]][2]
        BY <1>5, <1>6, <2>1 DEF WaitInv, WaitsForTheFirst
    <2> QED
        BY <1>3, <1>6, <1>8, <2>1, <2>2
<1> QED
    BY <1>7, <1>9, <1>10

LEMMA TickWait == ASSUME WaitInv, Tick PROVE WaitInv'
<1>1. queue' \in Seq(Run) /\ Sorted(queue') /\ WaitsForTheFirst'
    BY TickKeepsHeap
<1>2. now' \in 0..Day - 1
    BY DEF Tick, WaitInv, TypeInv, TypeOK
<1>3. /\ until' \in Time /\ (schedule = "compare" => until' \in 0..Day - 1)
      /\ wake' \in 0..Idle /\ deadline' \in 0..Idle
    BY DEF Tick, WaitInv, TypeInv, TypeOK, Passed, Time
<1>4. lastEnqueued' \in [Dag -> 0..Epoch]
    BY DEF Tick, Epoch, WaitInv, TypeInv, TypeOK
<1> QED
    BY <1>1, <1>2, <1>3, <1>4
       DEF Tick, WaitInv, TypeInv, TypeOK, registry, notifier

LEMMA ProcessWait == ASSUME WaitInv, Process PROVE WaitInv'
<1>1. UNCHANGED <<now, terminator, main, sleeper, notifier, consumer>>
      /\ request' = "look" /\ requests' \in 0..MaxRequests
    BY DEF Process, WaitInv, TypeInv, TypeOK
<1>2. PICK d \in Dag : \/ \E cron \in Cron \cup {NoCron} :
                             CreateDag(d, cron) \/ RemoveDag(d, cron)
                       \/ Execute(d)
    BY DEF Process
<1>3. dags' \subseteq Dag /\ schedules' \in [Dag -> Cron \cup {NoCron}]
    BY <1>2 DEF CreateDag, RemoveDag, Execute, registry, WaitInv, TypeInv, TypeOK
<1>4. /\ queue' \in Seq(Run) /\ Sorted(queue') /\ signalled' \in BOOLEAN
      /\ WaitsForTheFirst'
    <2>1. CASE UNCHANGED <<queue, signalled>>
        BY <1>1, <2>1 DEF WaitInv, TypeInv, TypeOK, WaitsForTheFirst, consumer
    <2>2. CASE Execute(d)
        <3>1. Enqueue(d, 0) /\ 0 \in 0..Day - 1
            BY <2>2 DEF Execute
        <3> QED
            BY <1>1, <3>1, EnqueueKeeps DEF consumer
    <2> QED
        BY <1>2, <2>1, <2>2 DEF CreateDag, RemoveDag
<1> QED
    BY <1>1, <1>3, <1>4 DEF WaitInv, TypeInv, TypeOK, sleeper, notifier, consumer

LEMMA NotifyTypes ==
    ASSUME WaitInv, NotifyWakeup
    PROVE  cachedTime' \in BOOLEAN /\ woken' \in BOOLEAN
BY DEF NotifyWakeup

LEMMA RequestWait == ASSUME WaitInv, RequestStep PROVE WaitInv'
<1>1. CASE RequestLook \/ RequestDone
    BY <1>1 DEF RequestLook, RequestDone, WaitInv, TypeInv, TypeOK, WaitsForTheFirst,
       registry, sleeper, notifier, consumer
<1>2. CASE RequestNotify
    BY <1>2, NotifyTypes DEF RequestNotify, WaitInv, TypeInv, TypeOK, WaitsForTheFirst,
       registry, sleeper, consumer
<1>3. CASE RequestEnsure
    <2>1. /\ exec' \in {exec, "dequeue"} /\ deadline' \in 0..Idle /\ request' = "loop"
          /\ UNCHANGED <<now, terminator, main, registry, requests, sleeper, notifier,
                         queue, wake, signalled>>
        BY <1>3 DEF RequestEnsure, EnsureExecutionerRunning, Call, WaitInv, TypeInv, TypeOK
    <2> QED
        BY <2>1 DEF WaitInv, TypeInv, TypeOK, WaitsForTheFirst, registry, sleeper, notifier
<1> QED
    BY <1>1, <1>2, <1>3 DEF RequestStep

LEMMA ScheduleLookWait == ASSUME WaitInv, ScheduleLook PROVE WaitInv'
<1>1. UNCHANGED <<now, terminator, main, registry, requests, request, lastEnqueued, notifier,
                  queue, consumer, signalled>>
    BY DEF ScheduleLook
<1>2. /\ schedule' \in {"done", "sleep", "compare"}
      /\ chosen' \subseteq Choice /\ Cardinality(chosen') <= 1
      /\ until' \in Time /\ (schedule' = "compare" => until' \in 0..Day - 1)
    <2>1. CASE UNCHANGED chosen /\ schedule' \in {"done", "sleep"} /\ until' \in {until, Month}
        BY <2>1 DEF WaitInv, TypeInv, TypeOK, Time
    <2>2. CASE /\ \E d \in Earliest : /\ chosen' = {[dag |-> d, matches |-> schedules[d] # {}]}
                                       /\ until' = CalcNext(schedules[d])
               /\ schedule' = "compare"
        <3>1. PICK d \in Earliest : /\ chosen' = {[dag |-> d, matches |-> schedules[d] # {}]}
                                    /\ until' = CalcNext(schedules[d])
            BY <2>2
        <3>2. d \in Dag /\ schedules[d] \in Cron /\ now \in 0..Day - 1
            BY DEF Earliest, Scheduled, WaitInv, TypeInv, TypeOK
        <3>3. until' \in 0..Day - 1
            BY <3>1, <3>2, CalcNextWithinDay
        <3>4. until' \in Time
            BY <3>3 DEF Time
        <3>5. chosen' \subseteq Choice /\ Cardinality(chosen') <= 1
            <4> DEFINE c == [dag |-> d, matches |-> schedules[d] # {}]
            <4>1. c \in Choice
                BY <3>2 DEF Choice
            <4> HIDE DEF c
            <4>2. Cardinality({c}) = 1
                BY FS_Singleton
            <4>3. chosen' = {c}
                BY <3>1 DEF c
            <4> QED
                BY <4>1, <4>2, <4>3
        <3> QED
            BY <2>2, <3>1, <3>2, <3>3, <3>4, <3>5
    <2> QED
        BY <2>1, <2>2 DEF ScheduleLook
<1> QED
    BY <1>1, <1>2
       DEF WaitInv, TypeInv, TypeOK, WaitsForTheFirst, registry, notifier, consumer

LEMMA ScheduleCompareWait == ASSUME WaitInv, ScheduleCompare PROVE WaitInv'
<1>1. UNCHANGED <<now, terminator, main, registry, requests, request, chosen, until,
                  notifier, consumer>>
      /\ schedule' \in {"sleep", "ensure"}
    BY DEF ScheduleCompare
<1>2. PICK c \in chosen : IsOld(c) \/ IsNew(c)
    BY DEF ScheduleCompare
<1>3. c.dag \in Dag /\ until \in 0..Day - 1 /\ ChosenTime(c) \in 0..Epoch
    BY DEF ScheduleCompare, Choice, ChosenTime, Epoch, WaitInv, TypeInv, TypeOK
<1>4. lastEnqueued' \in [Dag -> 0..Epoch]
    BY <1>2, <1>3 DEF IsOld, IsNew, WaitInv, TypeInv, TypeOK
<1>5. /\ queue' \in Seq(Run) /\ Sorted(queue') /\ signalled' \in BOOLEAN
      /\ WaitsForTheFirst'
    <2>1. CASE UNCHANGED <<queue, signalled>>
        BY <1>1, <2>1 DEF WaitInv, TypeInv, TypeOK, WaitsForTheFirst, consumer
    <2>2. CASE Enqueue(c.dag, until)
        BY <1>1, <1>3, <2>2, EnqueueKeeps DEF consumer
    <2> QED
        BY <1>2, <2>1, <2>2 DEF IsOld, IsNew, ExecuteAt
<1> QED
    BY <1>1, <1>4, <1>5 DEF WaitInv, TypeInv, TypeOK, registry, notifier, consumer

LEMMA SleepWait == ASSUME WaitInv, ScheduleEnsure \/ FallAsleep \/ WakeUp PROVE WaitInv'
<1>1. 0 \in Time /\ {} \subseteq Choice /\ Cardinality({}) <= 1
    BY FS_EmptySet DEF Time
<1>2. CASE ScheduleEnsure \/ FallAsleep
    BY <1>2 DEF ScheduleEnsure, FallAsleep, EnsureExecutionerRunning, Call,
       WaitInv, TypeInv, TypeOK, WaitsForTheFirst, registry, notifier, consumer
<1>3. CASE WakeUp
    BY <1>1, <1>3
       DEF WakeUp, WaitInv, TypeInv, TypeOK, WaitsForTheFirst, registry, consumer
<1> QED
    BY <1>2, <1>3

LEMMA TakeWait == ASSUME WaitInv, Take PROVE WaitInv'
<1>1. /\ queue # <<>> /\ queue' = Tail(queue) /\ exec' = "dequeue" /\ deadline' = Idle
      /\ UNCHANGED <<now, terminator, main, registry, requests, request, sleeper, notifier,
                     wake, signalled>>
    BY DEF Take, TakeOf, HeadIsDue, Call
<1>2. queue \in Seq(Run) /\ Sorted(queue)
    BY DEF WaitInv, TypeInv, TypeOK
<1>3. /\ Len(queue) \in Nat /\ DOMAIN queue = 1..Len(queue)
      /\ queue' \in Seq(Run) /\ Len(queue') = Len(queue) - 1
      /\ \A i \in 1..Len(queue') : queue'[i] = queue[i + 1]
    BY <1>1, <1>2, HeadTailProperties, LenProperties
<1>4. DOMAIN queue' = 1..Len(queue) - 1
    BY <1>3, LenProperties
<1>5. Sorted(queue')
    <2> SUFFICES ASSUME NEW i \in DOMAIN queue', NEW j \in DOMAIN queue', i <= j
                 PROVE  queue'[i][2] <= queue'[j][2]
        BY DEF Sorted
    <2>1. i + 1 \in DOMAIN queue /\ j + 1 \in DOMAIN queue /\ i + 1 <= j + 1
        BY <1>3, <1>4
    <2> QED
        BY <1>2, <1>3, <1>4, <2>1 DEF Sorted
<1> QED
    BY <1>1, <1>3, <1>5
       DEF WaitInv, TypeInv, TypeOK, WaitsForTheFirst, registry, sleeper, notifier

\* The wait ends at its deadline or at the time of the first run, whichever
\* comes first; no run is earlier than the first.
LEMMA WaitWait == ASSUME WaitInv, Wait PROVE WaitInv'
<1>1. /\ exec' = "waiting"
      /\ UNCHANGED <<now, terminator, main, registry, requests, request, sleeper, notifier,
                     queue, deadline, signalled>>
    BY DEF Wait
<1>2. queue \in Seq(Run) /\ deadline \in 0..Idle
    BY DEF WaitInv, TypeInv, TypeOK
<1>3. wake' \in 0..Idle /\ \A i \in DOMAIN queue : wake' <= queue[i][2]
    <2>1. CASE queue = <<>>
        BY <1>2, <2>1 DEF Wait
    <2>2. CASE queue # <<>>
        <3>1. /\ DOMAIN queue = 1..Len(queue) /\ Len(queue) \in Nat \ {0}
              /\ Head(queue) = queue[1]
              /\ \A i \in DOMAIN queue : queue[i][2] \in Nat
            BY <1>2, <2>2, EmptySeq, LenProperties, ElementOfSeq DEF Run
        <3>2. 1 \in DOMAIN queue
            BY <3>1
        <3> DEFINE times == {deadline, Head(queue)[2]}
        <3>3. times \subseteq Nat /\ times # {}
            BY <1>2, <3>1, <3>2
        <3>4. Least(times) \in times /\ \A t \in times : Least(times) <= t
            BY <3>3, LeastOfTimes
        <3>5. wake' = Least(times)
            BY <2>2 DEF Wait
        <3>6. wake' \in Nat /\ wake' <= deadline /\ wake' <= queue[1][2]
            BY <3>1, <3>3, <3>4, <3>5
        <3>7. \A i \in DOMAIN queue : queue[1][2] <= queue[i][2]
            BY <3>1, <3>2 DEF WaitInv, Sorted
        <3> QED
            BY <1>2, <3>1, <3>2, <3>6, <3>7
    <2> QED
        BY <2>1, <2>2
<1> QED
    BY <1>1, <1>3
       DEF WaitInv, TypeInv, TypeOK, WaitsForTheFirst, registry, sleeper, notifier

LEMMA OtherWait ==
    ASSUME WaitInv, LookAgain \/ GiveUp \/ Quit \/ LastNotification
    PROVE  WaitInv'
<1>1. CASE LookAgain \/ GiveUp
    <2>1. exec' \in {"out", "dequeue"} /\ wake' = 0 /\ deadline' \in 0..Idle
        BY <1>1 DEF LookAgain, GiveUp, Call, WaitInv, TypeInv, TypeOK
    <2>2. signalled' \in BOOLEAN
        BY <1>1 DEF LookAgain, GiveUp
    <2>3. UNCHANGED <<now, terminator, main, registry, requests, request, sleeper,
                      notifier, queue>>
        BY <1>1 DEF LookAgain, GiveUp
    <2> QED
        BY <2>1, <2>2, <2>3
           DEF WaitInv, TypeInv, TypeOK, WaitsForTheFirst, registry, sleeper, notifier
<1>2. CASE Quit
    BY <1>2 DEF Quit, WaitInv, TypeInv, TypeOK, WaitsForTheFirst,
       registry, sleeper, notifier, consumer
<1>3. CASE LastNotification
    BY <1>3, NotifyTypes DEF LastNotification, WaitInv, TypeInv, TypeOK, WaitsForTheFirst,
       registry, sleeper, consumer
<1> QED
    BY <1>1, <1>2, <1>3

LEMMA WaitNext == WaitInv /\ [Next]_vars => WaitInv'
<1> SUFFICES ASSUME WaitInv, [Next]_vars PROVE WaitInv'
    OBVIOUS
<1>1. CASE UNCHANGED vars
    BY <1>1 DEF vars, WaitInv, TypeInv, TypeOK, WaitsForTheFirst,
       registry, sleeper, notifier, consumer
<1>2. CASE Next
    BY <1>2, TickWait, ProcessWait, RequestWait, ScheduleLookWait, ScheduleCompareWait,
       SleepWait, TakeWait, WaitWait, OtherWait DEF Next, ScheduleStep
<1> QED
    BY <1>1, <1>2

LEMMA WaitInvHolds == Spec => []WaitInv
BY WaitInit, WaitNext, PTL DEF Spec

(* Every variable keeps its type; times stay within a day, a month and the *)
(* executioner's idle time.                                                *)
THEOREM TypeCorrect == Spec => []TypeOK
<1>1. WaitInv => TypeOK
    BY DEF WaitInv, TypeInv
<1> QED
    BY <1>1, WaitInvHolds, PTL

(* The executioner never waits past a run in the queue: whoever enqueues   *)
(* one while it waits notifies it, and the heap it looked at was in order. *)
THEOREM NeverWaitsPastARun == Spec => []WaitsForTheFirst
<1>1. WaitInv => WaitsForTheFirst
    BY DEF WaitInv
<1> QED
    BY <1>1, WaitInvHolds, PTL

=============================================================================
