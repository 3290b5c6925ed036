# Verification of babyLuigi

TLA+ models of the daemon `shyguy`, the TLC runs that check them and the
theorems TLAPS proves about them. Paths are relative to the root of the
repository (`src/...` here is `src/` of this checkout).

## 1. Inventory

The daemon keeps directed acyclic graphs of tasks (DAGs), runs them on demand
or by a cron schedule, and shadows them on disk.

| Part | Source | State | Operations | Who calls it |
| --- | --- | --- | --- | --- |
| Task graph | `include/graph/graph.hpp` | node -> vector of dependency names | `push_task`, `remove_task`, `run_order`, `is_task_ready` | registry, executioner (a copy) |
| Registry | `libraries/threadsafe_shyguy/concurrent_shyguy.*` | `dags`, `schedules`, sequence number, recursive mutex | create / remove / execute / snapshot of DAGs and tasks, `execute_at`, `next_scheduled_dag` | request thread, schedule thread, TUI, task threads (mutex) |
| Daemon threads | `src/shyGuy/shyguy.cc` | terminator, `execution_running`, `execution_thread`, `execution_mutex` | `ensure_executioner_running`, shutdown | main |
| Executioner | `src/shyGuy/shyexecutioner.cc` | in-flight count, per run: pending, completed, wave | take a run, run waves of ready tasks on two pools, idle exit | its thread, DAG pool, task pool |
| Run queue | `include/blocking_priority_queue.hpp`, `include/task_request.hpp` | heap by (time, sequence) | `enqueue`, `dequeue_wait` | registry, executioner |
| Request queue | `include/blocking_queue.hpp` | deque | `enqueue`, `dequeue_wait` | TUI, request thread |
| Scheduler | `concurrent_shyguy.hpp`, `shyguy.cc` | cached notification, last enqueued times | `notify_wakeup`, `sleep_until_or_notified` | request thread, schedule thread |
| Storage | `libraries/storage/fs_storage.cpp` | one file per DAG and task, blobs, versions | upsert, get, list, erase, `put_blob` | registry, TUI |
| Cron parser | `libraries/cron_parser` | none | `calc_next`, `match`, `increment` per field | registry |
| Client, router | `src/babyLuigi`, `src/shyGuy/zmq_router.cc` | sockets | submit, acknowledge | command line; `shyguy::run` does not use the router |
| TUI | `libraries/tui` | selections, listed names | build and enqueue requests, draw | user |
| Task system | `include/task_system` | work-stealing queues | `push`, run loop | nobody |

How they interact: the request thread takes a request from the request queue
and calls `process`; an execute request (or the schedule thread, through
`execute_at`) puts a copy of the graph and one runner per node into the run
queue; both threads then call `ensure_executioner_running`. The executioner
thread takes runs that are due; each run is a coroutine on the DAG pool that
hands waves of ready tasks to the task pool and waits for each wave. A task
locks the registry's mutex around its command. Every public operation of the
registry is `noexcept`: an exception that escapes ends the process.

What is hard:

- **Graph**: long sequences of pushes and removals under old names; searches
  that start in hash order; `at` that throws inside `noexcept`.
- **Registry**: memory and files that must agree across requests that fail half
  way and across restarts (nothing reads the files back into memory).
- **Daemon threads**: atomics loaded one at a time, an idle timeout racing with
  a new run, joining and replacing a thread, the order of shutdown.
- **Executioner**: a barrier inside a bounded pool, a mutex shared with the
  requests, waves of several runs interleaving.
- **Scheduler**: notifications lost before a wait; times recomputed from two
  clocks; of several schedules only the earliest is ever looked at.
- **Run queue**: a wait for the first run while earlier ones are pushed.
- **Storage**: crashes inside a write; temporary files that are listed; blobs
  written in place; errors that show only when a stream is closed; versions
  that begin again when a document is erased.
- **Cron**: a minute's boundary, the ends of months and years, lists that are
  not in order, the limit of 1000 rounds; three parsers of one string.
- **TUI**: lists read from files beside a registry that answers from memory.

What makes each part correct is stated as the properties below; `PROJECT.json`
lists the hazards line by line, with the properties that answer them.

## 2. Modules

| Module | Models | Kind |
| --- | --- | --- |
| `TaskGraph` | the graph as operators on values | operators |
| `DagSearch` | the graph as written: vectors, hash order, the two depth-first searches call by call | state machine, implements the operators of `TaskGraph` |
| `ShyguyRegistry` | the registry, its files, restarts | state machine over `TaskGraph` |
| `ExecutionerControl` | the daemon's threads and the executioner's loop | state machine |
| `DagRun` | what the executioner promises of one run | abstract specification |
| `Executioner` | waves, pools, mutex | state machine over `TaskGraph`, implements `DagRun` |
| `ScheduleLoop` | schedule thread, `notify_updater`, run queue, clock | state machine |
| `CronNext` | cron fields, calendar, `calc_next`, the schedule form, `classify_schedule` | operators and state machine |
| `DocumentMap` | what the document stores promise | abstract specification |
| `FsStore` | the stores, one file operation a step, crashes, disk errors | state machine, implements `DocumentMap` |
| `ActionsPanel` | the TUI's panel, `io_queue`, the request thread | state machine, extends `ShyguyRegistry` |
| `DagSearchProofs`, `ShyguyRegistryProofs`, `ExecutionerControlProofs`, `ExecutionerProofs`, `FsStoreProofs`, `ScheduleLoopProofs`, `CronNextProofs`, `ActionsPanelProofs` | theorems | proofs |
| `MCDagSearch`, `MCShyguyRegistry`, `MCExecutionerControl`, `MCExecutioner`, `MCScheduleLoop`, `MCCronNext`, `MCFsStore`, `MCActionsPanel` | small instances | TLC |

How they fit together. `DagSearch` justifies the operators of
`TaskGraph` (`ImplementsTaskGraph`).
`ShyguyRegistry` uses them and guarantees that every queued run has a closed
acyclic graph (`QueuedRunsComplete`). That is the assumption `Executioner`
makes of the graphs it gets (`ExecutionerAssumption`). `ExecutionerControl`
counts runs only; that a run in flight ends (`RunEnds` under weak fairness) is
what `Executioner` shows (`DispatchedRunsEnd`), and that no run outlives the
loop that drains it rests on the count `Executioner` shows to be right
(`InFlightCounts`). `ActionsPanel` puts the panel and the request thread before
the registry: it extends `ShyguyRegistry`, and its requests are that module's
actions. `ScheduleLoop` details what `ExecutionerControl` leaves open, the time
a schedule thread sleeps and the order of the run queue; that `calc_next`
answers a matching minute, or the epoch, is what `CronNext` shows
(`AnswersAsDocumented`). That a file holds the document last written is what
`ShyguyRegistry` assumes of the storage and `FsStore` shows
(`ImplementsDocumentMap`).

### TaskGraph and DagSearch

A graph is a function from nodes to bags of names. Bags, because `remove_task`
erases one occurrence of a name from each vector: a name listed twice stays
listed once. Order is dropped; what depends on it (which of two errors a search
meets first) is a set of outcomes, `SearchOutcomes`. A cycle is a set of nodes
each of which depends on a node of the set (`Trapped`); this form needs no
paths and no recursion, which is what makes it provable.

`DagSearch` is the same class with its vectors. `push_task` begins `has_cycle`
and `run_order` begins `topological_sort`; the recursive calls of
`depth_first_search` and `dfs` are frames of `stack`, and `color` is both
`visited` and `state`: the two walk alike, and only `dfs` books an `order`. One
step is one call (`StartFrom`, `Descend`), one turn of a loop without a call
(`PassOver`), one return (`Leave`), or the end of the search (`FindCycle`,
`SearchEnds`, `Throws`). The next key is any white one (`KeysLeft`): every order
of a hash map gives such a choice, and every choice comes from an order. While
`has_cycle` runs the new task is in the list (`pushed`) and not yet in `Graph`,
which is what `TaskGraph` sees. An `answer` of "terminate" stands for an
exception inside `push_task`, which is noexcept; `run_order` lets it out
("out_of_range"). `order` ends as `run_order` returns it, reversed
(`RunOrderReturned`): dependants before dependencies.

### ShyguyRegistry

One action is one request, because `process`, `execute_at` and
`next_scheduled_dag` hold one mutex from entry to return. `dags`, `schedules`
and `queue` are the members of those names, `taskMap` is `task_map`, of which it
keeps the name of a task and its DAG; `diskDags` and `diskTasks` are the
files the stores write; `reply` is the result. `Down` is the end of the
process, by request or by `std::terminate`; `Restart` starts a daemon with
empty memory and the old files. With `WritesMayFail` a call of the store may
leave the file as it was, and the caller does not notice. Left out: the content
of task files and their blobs, versions (no call passes one), the `running_*`
vectors, which nothing uses, and files that cannot be parsed (`FsStore` has
the blobs, the versions and such files).

### ExecutionerControl

`pc` follows the request thread and the schedule thread through their loops and
`ensure_executioner_running`, one load, store, lock, join or start per step.
`exec` follows the executioner thread through the loop of `run_until_idle` to
the store that clears `execution_running`. `main` follows `run` from the end of
the TUI to its return. The queue is two counters: runs that are due and runs
scheduled for later. `crashed` is the `std::terminate` that destroying a
joinable thread causes. The schedule thread's sleep and its choice of a time
are one step that always comes to an end here, and the subject of `ScheduleLoop`.

### Executioner and DagRun

A run goes from "queued" over "spawned" (on the DAG scope) and "select" (on a
DAG thread) to "wave" (blocked in `sync_wait`) and back, until it has "ended".
The tasks of a wave are spawned, then started on a task thread, then finished;
a started task takes the mutex (`holder`) for its command. `Selections` allows
any choice among ready names, since the pending names are a hash set. Requests
of the daemon take the same mutex. `Stop` clears `running` at any time; a run
may still be dispatched after it, because the loop looks at `running` before it
waits for the queue.

`DagRun` has three actions: a task finishes, once and after its dependencies;
the run ends, with every task finished or after a stop; the daemon stops. The
refinement maps `done` to the completed tasks and the finished ones of the
wave.

### ScheduleLoop

`schedule` follows the schedule thread: `next_scheduled_dag` ("loop"), the
comparison with `last_enqueued` ("compare"), `ensure_executioner_running`
("ensure"), the call of `sleep_until_or_notified` ("sleep") and the wait in it
("asleep"). `request` follows the request thread from its answer over the look
at the schedules to the notification. `cachedTime` and `woken` are
`notify_updater`: a notification is stored, and wakes the thread only if it
waits already. `exec`, `wake`, `deadline` and `signalled` are the executioner's
`dequeue_wait`. Points in time are kept as the ticks left until them, so that
the clock (`Tick`) can run for ever in finitely many states; a time that has
come is 0. Two clocks are read to compute a time, so whether a recomputed time
equals the one kept is left open (`IsOld` or `IsNew`) unless they differ by a
tick. So it is with the epoch, the time of a schedule that never matches, which
`last_enqueued` keeps under a value of its own (`Epoch`) however much time
passes: enqueued once, the DAG may be enqueued again or not. Starting and ending
the executioner is one step here. The notification
`run` sends before the TUI starts is left out: no request can have come, and
memory is empty.

### CronNext

A field is what its text parses to: "*", "?", a list of items from-to/step, or
one of the forms with L, W and #. The operators follow the classes of
`libraries/cron_parser`: `DaysFromCivil` and `CivilFromDays` are `date_time`,
`CreateList` and `ItemValid` are `cron_field`, and each field has its match and
its increment. The state machine takes one request from the form
(`build_cron_from_form`) over the validation to the search; `Advance`,
`LeaveNow` and `Return` are the three ways a round of the loop may go. Seconds
are 0 or 1 (some): no operation of the search tells more apart. What a user may
enter is named by `PanelForm` (any numbers) and `CustomForm` (any fields of
`FieldValue`), which is what the theorems assume of `Form`.

`FieldValue` leaves out texts that the parser accepts for something else than
they look like, and the theorems say nothing of them:

- a list of several items of which the last has a step ("1,2/60"). The text is
  split at "/" first (`cron_field.cpp:11`), so that the step is compared with a
  length that begins at -1, and values the step adds may repeat others. (A step
  before another item, "*/15,7", is refused: `ListValid`.)
- in the two day fields, "?", L, W or # inside a list, a range or a step:
  "?/5" counts from -1, and in "5L,2" and "5#2,1" what follows the comma is
  not looked at.
- a weekday by its name before L or #, "FRIL" or "FRI#2": it is validated, and
  `match` throws in `stoi`. `next_scheduled_dag` catches that, and the schedule
  is ignored, as an invalid one is.

### FsStore and DocumentMap

`doc` and `tmp` are a document's file and its temporary file, `writing` is the
`write_json_atomic` each store is in, `blobs` are the files under `blobs/`.
The stores hold their mutex throughout a call, so what comes between the steps
of a write is a crash, the other store, and a blob. `seen` is what a caller
read and may come back with as `if_version`; `held` are ids of blobs. When the
disk refuses a write (`DiskMayFail`), the stream may notice before it is closed,
or not: then the truncated file is renamed. `erased`, `interrupted` and `torn`
are history variables the properties use to name their exceptions.

`DocumentMap` is the map the stores promise: a write counts the version, keeps
the metadata and is one step; a document is damaged only after the disk has
refused a write.

### ActionsPanel

`Refresh` and `ListTasks` are `refresh_lists`, one `list_*` call a step;
`SubmitRequest` enqueues what `submit_request` may build from form and
selection. The menus of DAGs and tasks stand in no container, so that no event
reaches them and the selection is the first entry. Return calls through a
reference that dangles (`EnterKey`): it submits, or the process ends.
`ThreadTest`, `ThreadTimeout` and `ProcessRequest` are the request thread, and
`ProcessRequest` is the registry's action for the request. `OtherThreads` lets
the schedule thread and the executioner use the registry meanwhile. `orphans`
and `gone` are history variables: files that memory does not know, and what left
memory or disk since the list was begun.

## 3. Runs

| Run | Bounds | What it shows |
| --- | --- | --- |
| `dag_search` | 4 nodes, vectors of up to 2 names (repeated, unknown and own names too), all key orders | `RunOrderIsComplete`, `ImplementsTaskGraph`, `SearchesEnd` |
| `registry_requests` | 1 DAG, task names include the DAG's own, names listed up to twice, 2 runs since a start | `GraphsAcyclic`, `DanglingWasRepeated`, `QueuedRunsComplete`, `MemoryIsPersisted`, `RefusalLeavesOnlyTask` |
| `control_threads` | both threads, 3 runs queued or in flight | `FlagCoversExecutioner`, `JoinNeverWaits`, `RunsWithinExecutioner`, `NothingOutlivesRun`, `ShutdownCompletes`, `EnsuredRunStarts` |
| `executioner_pools` | 2 runs, 3 tasks, 5 shapes of graphs, 2 + 2 threads | `DependenciesFirst`, `NoRunIsGivenUp`, `TasksRunOnce`, `InFlightCounts`, `ImplementsDagRun`, `DispatchedRunsEnd` |
| `cron_search` | 5 kinds of forms with inputs in and out of range, 23 custom expressions, 16 times, 1000 rounds, no match within 30 years | `AnswersAsDocumented`, `GivesUpOnNone`, `FormsAreUnderstood`, `NothingElseIsSkipped` |
| `fs_store` | 1 DAG, 1 task, 1 blob, 1 value, versions up to 2, crashes anywhere, disk errors | `ListedTwiceAfterInterruption`, `BlobsAreWhole`, `ImplementsDocumentMap`, `CasReplacesWhatWasRead` |
| `schedule_sleep` | 2 DAGs, days of 2 ticks, schedules of one tick or of none, 2 requests | `OversleepsOnlyUnread`, `WaitsForTheFirst`, `ScheduledDagRuns` |
| `panel_requests` | 1 DAG, 1 task that may depend on the DAG's root or itself, 1 request waiting, 1 run since a start | `ShownIsKnown`, `SelectionsAreHarmless`, `SubmittedIsAnswered` |
| `registry_unknown_dependency` | 1 DAG, 2 tasks | violated: `UnknownDependencyIsReported` |
| `registry_removed_schedule` | 1 DAG with a schedule | violated: `RemovedDagIsNotScheduled` |
| `control_restart` | request thread, 1 run | violated: `IdleShutdownIsHarmless` |
| `control_stranded` | request thread, 1 run | violated: `DueRunStarts` |

Why the bounds are enough. Four nodes allow cycles of each length up to four,
a node reached twice, a dangling name beside a cycle, and a repeated name; the
searches have no constant that depends on more. One DAG is enough for the
registry: no operation looks at two, and what they share, `task_map`, nothing
reads. Removing the node that has the DAG's own
name and pushing it again gives the sequences in which a dangling name becomes
a node again. Three runs let one be due, one be later and one be in flight
while the executioner goes idle. Two runs on two threads are what is needed for
waves to interleave and for a pool to be full, and "Independent" has more ready
tasks than a wave takes. The theorems of section 5 hold without these bounds.

Sixteen times, at the ends of months and years (common and leap), just before,
on and after a matching minute, are where `calc_next` carries from one field to
the next; thirty years hold every weekday of a 29th of February. One document
of each store is enough for `FsStore`, since no operation looks at two and the
stores share nothing; versions 1 and 2 tell a first write, a second one and a
new document apart. Days of two ticks let a time lie in the current minute, in
the next and a day ahead, and a DAG be removed while its run is enqueued; two
requests create a DAG and execute or remove it, or create both. In `panel_requests`
a list is stale as soon as one request is answered; a second waiting request
would be taken from the same list.

Symmetry is used for task names only, in runs without liveness properties.

What the four violated properties say:

1. A task with an unknown dependency ends the daemon. The error "dependencies
   not found" exists (`graph.hpp:40`), and nothing returns it.
2. Removing a DAG leaves its schedule, as the request carries none
   (`concurrent_shyguy.cpp:90`).
3. An idle shutdown of the executioner between the two loads of
   `execution_running` (`shyguy.cc:62` and `:68`) makes `emplace` destroy a
   joinable thread, which is `std::terminate`.
4. A run enqueued between the executioner's idle timeout and its store to
   `execution_running` is not started by anybody until a later request comes.
   With requests that keep coming it is: `EnsuredRunStarts`.

## 4. Fairness

`ExecutionerControl`: weak fairness of each caller thread, of the executioner
thread, of runs in the pools (their commands end), of time (`Ripen`) and of the
two joins. Nothing obliges a client to send a request or the user to leave the
TUI; `EnsuredRunStarts` therefore names its assumption, that requests keep
coming. `execution_mutex` needs no more than weak fairness, since each thread
holds it for a bounded number of steps and `JoinNeverWaits`.

`Executioner`: weak fairness of DAG threads, task threads, commands and
requests in progress. A task thread that waits for the registry's mutex gets it
at last (strong fairness of `LockTask`): the standard does not promise this of
`std::recursive_mutex`, but an endless stream of requests that leaves no gap
for a waiting thread is not what the daemon serves. Dispatching is not fair:
the loop may end first.

`ScheduleLoop`: weak fairness of time, of the two threads' own steps, of the
executioner's steps, and of the ends of both waits at their time or when they
are notified. Spurious wakeups may happen and are not relied upon, and nobody
is obliged to send requests: `ScheduledDagRuns` holds although a wakeup may be
lost for a month.

`ActionsPanel`: weak fairness of the request thread, whose wait has a timeout.

`DagSearch`: weak fairness of the search, which is code that runs.

## 5. Proofs

All theorems hold for any number of names, DAGs, runs and threads; the
assumptions are the named ASSUMEs of the modules (types of the constants, and
for `Executioner` finite, closed and acyclic graphs: a graph is a hash map, and
the rest is what `RunsComplete` establishes of the runs in the queue).

- `DagSearchProofs`. `SearchesImplementTaskGraph`, `RunOrderCorrect`,
  `RunOrderIsReversed`: depth-first search is correct, for vectors of any
  length and every order of the hash map.
  The inductive invariant (`IInv`) is what a search knows while it runs: the gray
  nodes are those of the calls, one each (`StackOK`); a call waits for one of its
  own names, and all it has passed is black (`LoopOK`); black nodes depend on
  black nodes and no set of them is trapped (`BlackOK`); what is booked are the
  black nodes, each after those it depends on (`OrderOK`), so that the answer,
  which is their order reversed (`ReversedOrder`), has each before them
  (`DependantsFirst`). A gray name then closes
  a cycle, the calls from its own to the last (`GrayIsCycle`); when the last key
  is black nothing is missing and nothing is trapped (`AllBlackIsSound`): a set
  trapped with the node that turns black would be trapped without it. That
  erasing the first occurrence from a vector is `Unlisted` of its bag needs a
  bijection between the positions (`ErasedIsUnlisted`). With no cycle in what was
  pushed before (`GraphInv`), `run_order` never answers nullopt.
  `SearchesAreShort` is `SearchesEnd` but for its fairness: what a search has yet
  to walk (`Ahead`: the call, the turns of the loop and the return of each node)
  loses a member with each step it goes on after, and no step adds one, since a
  node never turns white again and no loop looks back. With n nodes of at most m
  names it is over after n (m + 2) steps and the one that answers.
- `ShyguyRegistryProofs`. First the operators of `TaskGraph`: a push that
  succeeds leaves a closed acyclic graph (`PushKeepsSound`), as a trapped set of
  the new graph without the new node is trapped in the old one, where no node
  lists the new one; a removal only takes dependencies away
  (`RemoveKeepsAcyclic`, `RemoveKeepsClosed`). Then the registry: `TypeCorrect`, `AlwaysAcyclic`, `RunsComplete`,
  `AlwaysClosed`, `AlwaysPersisted`, `DanglingHasOneSource`,
  `RefusalsLeaveOnlyTask`. Acyclicity alone is inductive only
  with the types; closedness needs that no vector in memory repeats a name, which
  is why it carries the bound `MaxCopies < 2`; persistence is relative to
  `WritesMayFail = FALSE`. Where names do repeat, that a dangling name was
  repeated needs a count (`CountInv`): a name that is no node is listed in memory
  fewer times than the file of the task lists it, as a removal takes one
  occurrence from memory and none from the file. That a refused push changes no
  graph needs that graphs are functions on the names they may have (`FunInv`),
  so that leaving a graph as it was is leaving `dags` as it was.
- `ExecutionerControlProofs`. The flag alone is not inductive: that it covers
  the executioner rests on who may start and join one. The inductive invariant
  (`IInv`) adds that the mutex is held by exactly the caller between lock and
  unlock (`MutexInv`), that main goes on to the executioner's thread only when
  no caller is left (`MainInv`), that a caller about to join finds an
  executioner that has ended (`JoinNeverWaits`), and that runs are in flight
  only before the executioner clears the flag (`RunsWithinExecutioner`).
- `ExecutionerProofs`. The inductive invariant (`IInv`) says how the sets of a
  run divide its nodes: the wave is within the pending ones, pending and
  completed ones are disjoint and together all of them, a wave is empty outside
  "wave", and its tasks have their dependencies completed (`Division`); that the
  holder of the mutex is a started task; and that the counter counts.
  Were no pending node ready, the pending nodes would be trapped
  (`SomePendingTaskIsReady`), so that the branch "No ready tasks but pending
  remain" is never taken (`EndOnlyWhenDone`). `ExecutionerImplementsDagRun` is the
  refinement: every step is a step of `DagRun` for each run, or a stutter.
  Of `DispatchedRunsEnd` two theorems prove all that needs no fairness.
  `NoDeadlock`: while a run is in flight some thread can move, with pools of any
  size; a task that waits for the mutex waits for a task that is started or for
  a request, a task that waits for a thread waits for one that is started, and a
  barrier waits for either. `RunsAreShort`: what is left of a run, counted by
  `Work`, is 6 n + 3 steps for n tasks at first, falls with each of its steps,
  is never negative and is raised by nobody else. It falls at the end of a wave
  too because no wave is empty (`WaveInv`): its tasks leave `pending`. What
  remains for TLC is that the fairness assumed picks the run that can move.
- `FsStoreProofs`. All five properties of `FsStore`. The inductive invariant
  (`IInv`) says what a write in progress knows: its document is as it was when
  the version was compared, and the new entry follows it (`WritingInv`), because
  the store's mutex keeps every other operation away and a crash ends the write;
  that DAGs have no metadata a rename could lose (`DagInv`); that what a caller
  read is the document, or has an older version, unless it was erased
  (`SeenInv`, from which `ExpectedInv` and the compare-and-swap follow); whose
  a temporary file is that parses (`TmpInv`); and that every blob named anywhere
  is whole or torn (`BlobInv`). `StoresImplementMap` is the refinement: only a
  rename, an erasure and an error of the disk are steps of `DocumentMap`.
- `ScheduleLoopProofs`. `OversleepsOnlyUnread`, `TypeCorrect`,
  `NeverWaitsPastARun`. The sleep alone is not inductive: the invariant begins
  where the schedule thread chooses its time, and keeps the two reasons to wake it
  apart, the end of the daemon (`StopInv`, announced by main) and an earlier run
  (`MissedInv`, announced by the request thread that changed the schedules). A tick
  brings a run nearer by one tick at most (`TickBringsNearer`), so that time alone
  misses nothing. That the executioner waits for the first run needs the order of
  the heap (`WaitInv`): an insertion puts a run after the runs that come no later
  (`InsertedHeap`), a removal takes the first, and a tick, which brings all runs
  nearer at once and lets those fall together that meet, keeps the rest in order
  (`TickKeepsHeap`).
- `CronNextProofs`. `AnswersAreDocumented`, `SearchSkipsNothingElse`,
  `PanelStorageAndParserAgree`, for any numbers the panel is given, any custom
  expression and any time (`CronAssumption`). The civil calendar comes first: a
  month begins where the one before it ends (`NextMonth`), every day number is
  that of its date (`CivilProperties`), and every date is given back
  (`CivilOfDate`), for all years. A list the parser accepts has values of its
  field (`ListHasValues`), and in a list that ascends, or wraps round once, the
  search of the code ends on the least value above the one it has
  (`LaterInListIsNext`). Each field's increment then has a lemma (`MonthStep`,
  `DayOfMonthStep`, `DayOfWeekStep`, `HourStep`, `MinuteStep`): it does not go
  back, and no matching minute lies between (`GoodStep`). The inductive invariant
  (`SearchInv`) says that the expression is the form's, that the parser accepted
  it once the search has begun, that the search never goes behind the time asked
  for, and that an answer matches; what a match means for the day is
  `NearestIsNearest` (W), `LastOfMonthAsDocumented` (L) and
  `NthOfMonthAsDocumented` (#), where the count that runs over the month's end is
  shown to answer wrongly in a February of 28 days only. The proof found an error
  in the model, a CASE whose guards overlapped (`Classify`). Induction over a list
  is put as a least number of a set (`LeastNumber`), since the library's theorems
  on induction take an operator.
- `CronNextProofs` again, on the limit of 1000 rounds. What a round that finds no
  match does is sorted out in `AdvanceLeads`: it goes to a later midnight, to an
  hour that matches, or to a time that matches altogether. From this a second
  invariant (`RoundsInv`) keeps the books of the rounds: at most five of them
  (`Within`, `ProgressStep`) go by without a new day, and, if the expression is
  dated (no weekdays, no L, no W), without a step from place to place (`Place`), of
  which a month has two, its other days and one that matches; and no day between
  the start and the day of the search matches (`Searched`), but those the code
  passes over. After the last round 995 days lie behind the start, or, dated, 497
  months, which are more than forty years (`FortyYears`). That is `Reach`, and a
  day the comments of the fields describe is a day that matches
  (`DocumentedMatches`), so that no such day within reach is given up on
  (`GivesUpBeyondReach`). A schedule of the panel other than a date no year has
  stands for a day within reach (`FormHasDay`: 29 February within eight years,
  `LeapYearAhead`) which the code does not pass over (`FormPassesNoneOver`): it is
  always answered (`PanelSchedulesAreAnswered`). `SearchGivesUpOnNone` puts the two
  together for `GivesUpOnNone`, assuming that the custom expressions reach as far
  as the horizon. The attempt to prove this without the exceptions it has now
  showed `GivesUpOnNone` false as it was first stated: "0 0 30,10 2 *" stands for
  10 February, and the search, which goes from the 1st to the 30th and so into
  March, never comes to it.
- `ActionsPanelProofs`. The panel adds no step to the registry that the registry
  does not have (`RegistryKeepsItsInvariants`), so that its invariants carry over.
  `SelectionsNeverTerminate` goes through the requests the panel can build: the
  only way out is the creation of a task in a DAG, or with a dependency, that
  memory does not have. `AlwaysShownIsKnown` keeps the books (`BookInv`): the
  files memory does not know are exactly the orphans, and what is shown was in
  memory, was lost since, or is one of them; it rests on `MemoryIsPersisted` and
  is relative to `WritesMayFail = FALSE` like it.

The inductive invariants were checked by TLC on the instances of the runs first.

Only model-checked: the liveness properties (`SearchesEnd`, `ShutdownCompletes`,
`EnsuredRunStarts`, `DispatchedRunsEnd`, `ScheduledDagRuns`,
`SubmittedIsAnswered`), which are out of this prover's reach (of `SearchesEnd`
and `DispatchedRunsEnd` the part without fairness is proved, above); and, of
`GivesUpOnNone`, custom expressions with weekdays, L or W from the 995th day on.
The horizon of `cron_search`, 30 years, is beyond the reach that is proved for
those, and no longer one holds for all of them: "0 0 L 2 4#5" is a 29 February
that is a Thursday, of which there is none between 2080 and 2120, and with 29
rounds for each February the search gives up after 34 years.

## 6. What the code does beside its properties

Properties name the exceptions the code makes. These are worth a reader's time:

- A notification that comes before the schedule thread waits is stored and not
  read, so that it may sleep past a new schedule, or past the end of the daemon,
  for up to a month (`concurrent_shyguy.hpp:98`, `OversleepsOnlyUnread`).
- What `run_order` returns is no order to run in: every task stands before the
  tasks it depends on. `dfs` books a node after its dependencies
  (`graph.hpp:186`), which would be one, and `topological_sort` reverses it
  (`graph.hpp:165`; the theorem `RunOrderIsReversed`). Nothing runs in that
  order: the executioner hashes the runners by name and asks `is_task_ready`
  (`DependenciesFirst`). What `execute_at` relies on is that no task is missing
  or listed twice, and that is all `RunOrderIsComplete` says.
- A create that is refused, as the name is taken or a cycle would close, has
  replaced the task of its name in `task_map` before, of whatever DAG
  (`concurrent_shyguy.cpp:166`, `RefusalLeavesOnlyTask`). Nothing reads it.
- During a minute that matches, `calc_next` answers a time of that minute which
  has passed already: the schedule thread does not sleep and enqueues runs again
  as the recomputed time differs (`ScheduleLoop`, `IsNew`).
- Of two DAGs due in the same minute the first in hash order is chosen for as
  long as the minute lasts: the other need not run.
- A schedule that never matches ("0 0 30 2 *") does not stay quiet: `calc_next`
  gives up with the epoch, which comes before every other time, so that its DAG
  is always chosen and all others starve. It is enqueued at once, and again
  whenever the epoch, computed from two clocks that are read one after the
  other (`concurrent_shyguy.cpp:276`), differs from the one kept
  (`shyguy.cc:117`). How often depends on the clocks: `IsOld` and `IsNew` are
  both possible, no property promises either, and the schedule thread never
  sleeps meanwhile. For these two reasons `ScheduledDagRuns` speaks of a DAG
  scheduled alone, by an expression that matches some time.
- `create` keeps a schedule that is there already, and the panel's delete
  carries none: a DAG created again keeps its old schedule.
- "5#5" fires on the first such weekday of a common February; lists that are not
  ascending, and lists of days a month does not have, pass over matching times.
  "0 0 30,10 2 *" is accepted and never comes to 10 February: the search gives up.
- An error when a stream is closed goes unseen: the truncated document replaces
  the old one, and cannot be overwritten before it is erased. A torn blob is
  taken for whole ever after. A temporary file left by a crash is listed as a
  task. `if_version` does not notice that a document was erased and written anew.
- The panel lists files of tasks no graph has: after a restart, and after a DAG
  was removed and created again. A DAG known from its file only cannot be
  deleted (`dag_deletion_failed`), and "update" is refused for whatever exists.

## 7. Not modelled

- Drawing (`dagpanel`, `dagpage`, `homepage`, `horizontaltabpanel`): layout. The
  panel of runs lists the files once and keeps what it drew.
- `baby_luigi` and `zmq_router`: `shyguy::run` creates no router. `test_run`
  does, but starts with the terminator FALSE, so that its loop never runs. The
  client would wait for an answer for ever, and be told OK before its request
  is processed; no process of this commit receives one.
- `function_schedule_runner` (`concurrent_shyguy.hpp:110`) and `task_system`:
  nothing calls them.
- Command-line parsing, JSON, the text of cron expressions (tokens, names of
  months and weekdays), build files.
- `get_blob` and `has_blob`, which change nothing and which nothing calls.

## 8. Running

    tlc -config Registry_requests.cfg MCShyguyRegistry.tla
    tlapm ExecutionerProofs.tla

`PROJECT.json` names the module and the configuration of each run, the source
lines each definition models, and for each property a mutated definition
(marked "Mutant" in the modules) under which it fails. The mutants are used by
no specification.
