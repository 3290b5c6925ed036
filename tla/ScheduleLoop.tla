---------------------------- MODULE ScheduleLoop ----------------------------
(***************************************************************************)
(* How a scheduled DAG comes to run: the schedule thread of shyguy::run,   *)
(* notify_updater on which it sleeps, the request thread that wakes it,    *)
(* the run queue (blocking_priority_queue) and the executioner's wait on   *)
(* it.                                                                     *)
(*                                                                         *)
(* Time is a day of Day ticks that repeats; a tick stands for the minute a *)
(* cron expression names.  A point in time is kept as the number of ticks  *)
(* left until it, 0 once it has come.  calc_next answers a time of the     *)
(* current minute as long as that minute lasts, and the epoch when nothing *)
(* matches: both lie in the past (module CronNext).  A time is computed    *)
(* from two clocks, so the same occurrence comes out equal or not, and so  *)
(* does the epoch each time it is computed anew.                           *)
(*                                                                         *)
(* Runs of one DAG for the same minute are not told apart: they are taken  *)
(* from the queue one after the other.  How the executioner is started and *)
(* ends is one step here and the subject of ExecutionerControl.            *)
(***************************************************************************)
EXTENDS Naturals, FiniteSetsExt, SequencesExt

CONSTANTS
    Dag,
    Cron,       \* cron expressions: sets of ticks of the day
    NoCron,
    Day,        \* ticks of a day
    Month,      \* ticks the schedule thread sleeps when nothing is scheduled
    Idle,       \* ticks of execution_idle_ms
    MaxRequests \* bound: requests

ASSUME ScheduleAssumption ==
    /\ Day \in Nat \ {0}
    /\ Cron \subseteq SUBSET (0..Day - 1)
    /\ NoCron \notin Cron
    /\ Month \in Nat /\ Month >= Day
    /\ Idle \in Nat
    /\ MaxRequests \in Nat

VARIABLES
    now,            \* tick of the day
    terminator,
    main,           \* shyguy::run: "serving", "notify", "join"
    dags,           \* DAGs of the registry
    schedules,      \* DAG -> cron or NoCron
    requests,       \* requests so far
    request,        \* where the request thread is
    schedule,       \* where the schedule thread is
    chosen,         \* what next_scheduled_dag gave it: one Choice, or none
    until,          \* and the time it is going to sleep until
    lastEnqueued,   \* DAG -> time of its last run; Day for one long past, or Epoch
    cachedTime,     \* notify_updater: cached_time_ is set
    woken,          \* notify_updater: the sleeper was notified
    queue,          \* runs, pairs of a DAG and a time, in the order of the heap
    exec,           \* executioner: "out", "dequeue", "waiting"
    wake, deadline, \* times of its wait
    signalled       \* the queue's condition variable was notified

registry == <<dags, schedules>>
sleeper == <<schedule, chosen, until, lastEnqueued>>
notifier == <<cachedTime, woken>>
consumer == <<exec, wake, deadline>>
vars == <<now, terminator, main, registry, requests, request, sleeper, notifier, queue,
          consumer, signalled>>

Time == 0..Month
Epoch == Day + 1
Run == Dag \X (0..Day - 1)
Choice == [dag : Dag, matches : BOOLEAN]
Least(S) == Min(S)

Init == /\ now = 0
        /\ terminator = TRUE
        /\ main = "serving"
        /\ dags = {}
        /\ schedules = [d \in Dag |-> NoCron]
        /\ requests = 0
        /\ request = "loop"
        /\ schedule = "loop"
        /\ chosen = {}
        /\ until = 0
        /\ lastEnqueued = [d \in Dag |-> Day]
        /\ cachedTime = FALSE
        /\ woken = FALSE
        /\ queue = <<>>
        /\ exec = "out"
        /\ wake = 0
        /\ deadline = 0
        /\ signalled = FALSE

Passed(t) == IF t = 0 THEN 0 ELSE t - 1

\* A run for the next tick, when one of the same DAG has come already.
Met(r) == r[2] = 1 /\ <<r[1], 0>> \in ToSet(queue)

\* The members of a set of numbers, one after the other.
InOrder(S) == {p \in SetToSeqs(S) : \A i, j \in DOMAIN p : i < j => p[i] < p[j]}

Tick == /\ now' = IF now = Day - 1 THEN 0 ELSE now + 1
        /\ until' = Passed(until)
        /\ lastEnqueued' = [d \in Dag |-> CASE lastEnqueued[d] = 0 -> Day
                                            [] lastEnqueued[d] \in {Day, Epoch} -> lastEnqueued[d]
                                            [] OTHER -> lastEnqueued[d] - 1]
        /\ \E kept \in InOrder({i \in DOMAIN queue : ~Met(queue[i])}) :
              queue' = [i \in DOMAIN kept |->
                           <<queue[kept[i]][1], Passed(queue[kept[i]][2])>>]
        /\ wake' = Passed(wake)
        /\ deadline' = Passed(deadline)
        /\ UNCHANGED <<terminator, main, registry, requests, request, schedule, chosen,
                       notifier, exec, signalled>>

-----------------------------------------------------------------------------
\* The registry's next_scheduled_dag.

\* Ticks until t comes, today or tomorrow.
Ahead(t) == IF now <= t THEN t - now ELSE t + Day - now

\* Mutant: an occurrence in the current minute counts as tomorrow's.
CalcNextTomorrow(cron) == IF cron = {} THEN 0
                          ELSE Least({t + Day - now : t \in cron})

CalcNext(cron) == IF cron = {} THEN 0
                  ELSE Least({Ahead(t) : t \in cron})

Scheduled == {d \in Dag : schedules[d] # NoCron}

\* The epoch comes before every other time; of equal times the first counts
\* that the map of schedules has.
Earliest == {d \in Scheduled :
    \/ schedules[d] = {}
    \/ \A e \in Scheduled : /\ schedules[e] # {}
                            /\ CalcNext(schedules[d]) <= CalcNext(schedules[e])}

\* The heap: earlier times first, equal ones in the order of their sequence
\* numbers.
Inserted(d, t) ==
    IF <<d, t>> \in ToSet(queue) THEN queue
    ELSE LET n == Cardinality({i \in DOMAIN queue : queue[i][2] <= t})
         IN  InsertAt(queue, n + 1, <<d, t>>)

\* Enqueueing, as requests and the schedule thread do it: the heap is changed
\* and the condition variable notified in one critical section.
\* Mutant: it is notified only when the heap was empty.
EnqueueIntoEmpty(d, t) ==
    /\ queue' = Inserted(d, t)
    /\ signalled' = (signalled \/ (exec = "waiting" /\ queue = <<>>))

Enqueue(d, t) == /\ queue' = Inserted(d, t)
                 /\ signalled' = (signalled \/ exec = "waiting")

-----------------------------------------------------------------------------
\* The request thread.

\* create emplaces the schedule: one that is already there stays.
CreateDag(d, cron) ==
    /\ d \notin dags
    /\ dags' = dags \cup {d}
    /\ schedules' = [schedules EXCEPT ![d] = IF @ = NoCron THEN cron ELSE @]
    /\ UNCHANGED <<queue, signalled>>

RemoveDag(d, cron) ==
    /\ d \in dags
    /\ dags' = dags \ {d}
    /\ schedules' = [schedules EXCEPT ![d] = IF cron = NoCron THEN @ ELSE NoCron]
    /\ UNCHANGED <<queue, signalled>>

Execute(d) == d \in dags /\ Enqueue(d, 0) /\ UNCHANGED registry

\* io_queue had a request: process answers, whatever it is.
Process == /\ request = "loop"
           /\ terminator
           /\ requests < MaxRequests
           /\ requests' = requests + 1
           /\ request' = "look"
           /\ \E d \in Dag : \/ \E cron \in Cron \cup {NoCron} :
                                   CreateDag(d, cron) \/ RemoveDag(d, cron)
                             \/ Execute(d)
           /\ UNCHANGED <<now, terminator, main, sleeper, notifier, consumer>>

RequestLook == /\ request = "look"
               /\ request' = IF Scheduled # {} THEN "notify" ELSE "ensure"
               /\ UNCHANGED <<now, terminator, main, registry, requests, sleeper, notifier,
                              queue, consumer, signalled>>

\* notify_wakeup.
\* Mutant: the notification is not kept.
NotifyWakeupOnly ==
    /\ cachedTime' = cachedTime
    /\ woken' = (woken \/ schedule = "asleep")

NotifyWakeup == /\ cachedTime' = TRUE
                /\ woken' = (woken \/ schedule = "asleep")

RequestNotify == /\ request = "notify"
                 /\ NotifyWakeup
                 /\ request' = "ensure"
                 /\ UNCHANGED <<now, terminator, main, registry, requests, sleeper, queue,
                                consumer, signalled>>

\* dequeue_wait computes its deadline when it is called.
Call == exec' = "dequeue" /\ deadline' = Idle

EnsureExecutionerRunning ==
    IF exec = "out" /\ terminator THEN Call ELSE UNCHANGED <<exec, deadline>>

RequestEnsure == /\ request = "ensure"
                 /\ EnsureExecutionerRunning
                 /\ request' = "loop"
                 /\ UNCHANGED <<now, terminator, main, registry, requests, sleeper, notifier,
                                queue, wake, signalled>>

RequestDone == /\ request = "loop"
               /\ ~terminator
               /\ request' = "done"
               /\ UNCHANGED <<now, terminator, main, registry, requests, sleeper, notifier,
                              queue, consumer, signalled>>

-----------------------------------------------------------------------------
\* The schedule thread.

\* The test of terminator and next_scheduled_dag.
ScheduleLook ==
    /\ schedule = "loop"
    /\ \/ /\ ~terminator
          /\ schedule' = "done"
          /\ UNCHANGED <<chosen, until>>
       \/ /\ terminator
          /\ Scheduled = {}
          /\ schedule' = "sleep"
          /\ until' = Month
          /\ UNCHANGED chosen
       \/ /\ terminator
          /\ \E d \in Earliest : /\ chosen' = {[dag |-> d, matches |-> schedules[d] # {}]}
                                  /\ until' = CalcNext(schedules[d])
          /\ schedule' = "compare"
    /\ UNCHANGED <<now, terminator, main, registry, requests, request, lastEnqueued, notifier,
                   queue, consumer, signalled>>

\* A DAG that was removed without its schedule is not found.
ExecuteAt(d, t) == IF d \in dags THEN Enqueue(d, t) ELSE UNCHANGED <<queue, signalled>>

\* scheduled.time.
ChosenTime(c) == IF c.matches THEN until ELSE Epoch

\* last != scheduled.time.
IsNew(c) == /\ lastEnqueued' = [lastEnqueued EXCEPT ![c.dag] = ChosenTime(c)]
            /\ ExecuteAt(c.dag, until)
IsOld(c) == /\ lastEnqueued[c.dag] = ChosenTime(c)
            /\ UNCHANGED <<lastEnqueued, queue, signalled>>

\* Mutant: the times are compared the other way round.
ScheduleCompareSwapped ==
    /\ schedule = "compare"
    /\ \E c \in chosen :
          IF lastEnqueued[c.dag] = ChosenTime(c)
          THEN IsNew(c) /\ schedule' = "ensure"
          ELSE schedule' = "sleep" /\ UNCHANGED <<lastEnqueued, queue, signalled>>
    /\ UNCHANGED <<now, terminator, main, registry, requests, request, chosen, until,
                   notifier, consumer>>

ScheduleCompare ==
    /\ schedule = "compare"
    /\ \E c \in chosen : \/ IsOld(c) /\ schedule' = "sleep"
                         \/ IsNew(c) /\ schedule' = "ensure"
    /\ UNCHANGED <<now, terminator, main, registry, requests, request, chosen, until,
                   notifier, consumer>>

ScheduleEnsure == /\ schedule = "ensure"
                  /\ EnsureExecutionerRunning
                  /\ schedule' = "sleep"
                  /\ UNCHANGED <<now, terminator, main, registry, requests, request, chosen, until,
                                 lastEnqueued, notifier, queue, wake, signalled>>

\* sleep_until_or_notified waits without a look at cached_time_ ...
FallAsleep == /\ schedule = "sleep"
              /\ schedule' = "asleep"
              /\ UNCHANGED <<now, terminator, main, registry, requests, request, chosen, until,
                             lastEnqueued, notifier, queue, consumer, signalled>>

\* ... until it is notified, the time has come, or for no reason.
WakeUp == /\ schedule = "asleep"
          /\ cachedTime' = FALSE
          /\ woken' = FALSE
          /\ schedule' = "loop"
          /\ chosen' = {}
          /\ until' = 0
          /\ UNCHANGED <<now, terminator, main, registry, requests, request,
                         lastEnqueued, queue, consumer, signalled>>

-----------------------------------------------------------------------------
\* The executioner's dequeue_wait.

HeadIsDue == queue # <<>> /\ Head(queue)[2] = 0

TakeOf(d) ==
        /\ exec = "dequeue"
        /\ HeadIsDue
        /\ Head(queue)[1] = d
        /\ queue' = Tail(queue)
        /\ Call
        /\ UNCHANGED <<now, terminator, main, registry, requests, request, sleeper, notifier,
                       wake, signalled>>

Take == \E d \in Dag : TakeOf(d)

Wait == /\ exec = "dequeue"
        /\ ~HeadIsDue
        /\ exec' = "waiting"
        /\ wake' = IF queue = <<>> THEN deadline ELSE Least({deadline, Head(queue)[2]})
        /\ UNCHANGED <<now, terminator, main, registry, requests, request, sleeper, notifier,
                       queue, deadline, signalled>>

LookAgain == /\ exec = "waiting"
             /\ exec' = "dequeue"
             /\ wake' = 0
             /\ signalled' = FALSE
             /\ UNCHANGED <<now, terminator, main, registry, requests, request, sleeper, notifier,
                            queue, deadline>>

\* A wait that ends at its deadline gives up without another look; the
\* executioner goes on as long as runs are in flight.
GiveUp == /\ exec = "waiting"
          /\ wake = 0 /\ deadline = 0
          /\ \/ Call
             \/ exec' = "out" /\ UNCHANGED deadline
          /\ wake' = 0
          /\ signalled' = FALSE
          /\ UNCHANGED <<now, terminator, main, registry, requests, request, sleeper, notifier,
                         queue>>

-----------------------------------------------------------------------------
\* The end of the daemon.

Quit == /\ main = "serving"
        /\ terminator' = FALSE
        /\ main' = "notify"
        /\ UNCHANGED <<now, registry, requests, request, sleeper, notifier, queue, consumer,
                       signalled>>

LastNotification == /\ main = "notify"
                    /\ NotifyWakeup
                    /\ main' = "join"
                    /\ UNCHANGED <<now, terminator, registry, requests, request, sleeper, queue,
                                   consumer, signalled>>

RequestStep == RequestLook \/ RequestNotify \/ RequestEnsure \/ RequestDone
ScheduleStep == ScheduleLook \/ ScheduleCompare \/ ScheduleEnsure \/ FallAsleep
SleepEnds == (until = 0 \/ woken) /\ WakeUp
WaitEnds == \/ GiveUp
            \/ (signalled \/ (wake = 0 /\ deadline # 0)) /\ LookAgain

Next == \/ Tick
        \/ Process \/ RequestStep
        \/ ScheduleStep \/ WakeUp
        \/ Take \/ Wait \/ LookAgain \/ GiveUp
        \/ Quit \/ LastNotification

Spec == Init /\ [][Next]_vars

\* Time passes, and threads that can go on do.  A sleep ends at its time or
\* when it is notified; that it ends for no reason is never relied upon.
Fairness == /\ WF_vars(Tick) /\ WF_vars(RequestStep)
            /\ WF_vars(ScheduleStep) /\ WF_vars(SleepEnds)
            /\ WF_vars(Take) /\ WF_vars(Wait) /\ WF_vars(WaitEnds)

FairSpec == Spec /\ Fairness

-----------------------------------------------------------------------------
\* Properties.

TypeOK ==
    /\ now \in 0..Day - 1
    /\ terminator \in BOOLEAN
    /\ main \in {"serving", "notify", "join"}
    /\ dags \subseteq Dag
    /\ schedules \in [Dag -> Cron \cup {NoCron}]
    /\ requests \in 0..MaxRequests
    /\ request \in {"loop", "look", "notify", "ensure", "done"}
    /\ schedule \in {"loop", "compare", "ensure", "sleep", "asleep", "done"}
    /\ chosen \subseteq Choice /\ Cardinality(chosen) <= 1
    /\ until \in Time
    /\ lastEnqueued \in [Dag -> 0..Epoch]
    /\ cachedTime \in BOOLEAN /\ woken \in BOOLEAN /\ signalled \in BOOLEAN
    /\ queue \in Seq(Run)
    /\ exec \in {"out", "dequeue", "waiting"}
    /\ wake \in 0..Idle /\ deadline \in 0..Idle

Oversleeps == \/ ~terminator
              \/ \E d \in Scheduled : CalcNext(schedules[d]) < until

\* The schedule thread sleeps past the next occurrence, or past the end of
\* the daemon, only if the thread that brought it about is about to notify it,
\* or has done so before the sleep began: such a notification lies unread in
\* cached_time_.  No other wakeup is lost, however registry, clock and threads
\* interleave.
OversleepsOnlyUnread ==
    schedule = "asleep" /\ ~woken /\ Oversleeps =>
        cachedTime \/ request \in {"look", "notify"} \/ main = "notify"

\* The executioner never waits past the time of a run in the queue, whichever
\* thread enqueued it and whatever was first in the heap when the wait began.
WaitsForTheFirst ==
    exec = "waiting" /\ ~signalled => \A i \in DOMAIN queue : wake <= queue[i][2]

Alone(d) == d \in dags /\ Scheduled = {d} /\ schedules[d] # {}

\* A DAG that stays the only scheduled one, by an expression that matches some
\* time, runs again and again until the daemon is stopped: although the
\* executioner goes idle between its runs, runs are enqueued a day ahead, the
\* same run may be enqueued twice, and a wakeup may be lost for a month.
\* Beside another schedule it need not run at all: of two for the same minute
\* the first is chosen throughout the minute.  An expression that matches no
\* time is left out, since calc_next answers the epoch for it: it is always
\* chosen, and its DAG, which should never run, is enqueued at once and, as
\* the two clocks make the epochs differ, any number of times again.
ScheduledDagRuns ==
    \A d \in Dag : <>[](terminator /\ Alone(d)) => []<><<TakeOf(d)>>_vars

=============================================================================
