--------------------------- MODULE ShyguyRegistry ---------------------------
(***************************************************************************)
(* concurrent_shyguy (libraries/threadsafe_shyguy): the daemon's table of  *)
(* DAGs and schedules, its shadow on disk and the requests it answers.     *)
(*                                                                         *)
(* One action is one request.  process, execute_at and next_scheduled_dag  *)
(* hold one recursive mutex from entry to return, so requests of the two   *)
(* daemon threads never interleave.  Every public operation is noexcept:   *)
(* an exception that escapes (dags.at, adjacency_list.at) ends the process *)
(* by std::terminate.  Memory is then lost, the files are not, and nothing *)
(* reads them back into memory when the daemon starts again.               *)
(*                                                                         *)
(* Of a task in task_map, which nothing reads, the DAG it names is kept.   *)
(* Left out: the running_* vectors, which nothing uses; the content of     *)
(* task files and their blobs; versions (no call passes one).              *)
(***************************************************************************)
EXTENDS TaskGraph, FiniteSets

CONSTANTS
    Dag,            \* names of DAGs
    TaskName,       \* names task requests use (any string, a DAG's name too)
    Cron,           \* cron strings
    ValidCron,      \* those geheb::cron_expression accepts
    NoCron,         \* no schedule (std::nullopt or an empty string)
    MaxCopies,      \* bound: how often a dependency vector repeats a name
    MaxSequence,    \* bound: runs enqueued since the daemon started
    WritesMayFail   \* whether the storage may report an error (ENOSPC, EACCES)

ASSUME RegistryAssumption ==
    /\ Dag \subseteq Name
    /\ TaskName \subseteq Name
    /\ ValidCron \subseteq Cron
    /\ NoCron \notin Cron
    /\ MaxCopies \in Nat
    /\ MaxSequence \in Nat
    /\ WritesMayFail \in BOOLEAN

VARIABLES
    up,             \* the process exists
    dags,           \* dags: DAG name -> graph
    schedules,      \* schedules: DAG name -> cron
    queue,          \* request_queue: runs enqueued and not yet dequeued
    sequence,       \* task_request_sequence
    taskMap,        \* task_map: name -> DAG of the task last asked for
    diskDags,       \* metadata/dags/<dag>/dag.json: DAG name -> schedule
    diskTasks,      \* metadata/tasks/<dag>/<task>.json
    reply           \* command_result_type of the last request

memory == <<dags, schedules, queue, sequence, taskMap>>
disk == <<diskDags, diskTasks>>
vars == <<up, memory, disk, reply>>

CronOrNone == Cron \cup {NoCron}
Dependencies == [Name -> 0..MaxCopies]
NoEntries == [x \in {} |-> x]

\* insert_or_assign / write, and erase, on a map.
Put(f, k, v) == [x \in DOMAIN f \cup {k} |-> IF x = k THEN v ELSE f[x]]
Without(f, k) == [x \in DOMAIN f \ {k} |-> f[x]]

\* What a call of the store leaves: every caller discards its error.
Stored(old, new) == IF WritesMayFail THEN {old, new} ELSE {new}

-----------------------------------------------------------------------------
Init == /\ up = TRUE
        /\ dags = NoEntries
        /\ schedules = NoEntries
        /\ queue = {}
        /\ sequence = 0
        /\ taskMap = NoEntries
        /\ diskDags = NoEntries
        /\ diskTasks = NoEntries
        /\ reply = "none"

Answer(r) == up' = TRUE /\ reply' = r
Refuse(r) == Answer(r) /\ UNCHANGED <<memory, disk>>

\* The process ends: what was in memory is gone.
Down(r) == /\ up' = FALSE
           /\ reply' = r
           /\ dags' = NoEntries
           /\ schedules' = NoEntries
           /\ queue' = {}
           /\ sequence' = 0
           /\ taskMap' = NoEntries
           /\ UNCHANGED disk

-----------------------------------------------------------------------------
\* create(shyguy_dag).  schedules.emplace keeps an entry that is there.
CreateDag(d, cron) ==
    /\ up
    /\ IF d \in DOMAIN dags
       THEN Refuse("dag_duplicate")
       ELSE /\ Answer("ok")
            /\ dags' = Put(dags, d, RootGraph(d))
            /\ schedules' = IF cron = NoCron \/ d \in DOMAIN schedules
                            THEN schedules
                            ELSE Put(schedules, d, cron)
            /\ diskDags' \in Stored(diskDags, Put(diskDags, d, cron))
            /\ UNCHANGED <<queue, sequence, taskMap, diskTasks>>

\* remove(shyguy_dag).  The schedule goes only if the request carries one;
\* the files of the DAG's tasks stay.
RemoveDag(d, cron) ==
    /\ up
    /\ IF d \notin DOMAIN dags
       THEN Refuse("dag_deletion_failed")
       ELSE /\ Answer("ok")
            /\ dags' = Without(dags, d)
            /\ schedules' = IF cron = NoCron THEN schedules
                                             ELSE Without(schedules, d)
            /\ diskDags' \in Stored(diskDags, Without(diskDags, d))
            /\ UNCHANGED <<queue, sequence, taskMap, diskTasks>>

\* make_task_metadata: the schedule in memory, else the one on disk.
MetadataCron(d) ==
    CASE d \in DOMAIN schedules -> schedules[d]
      [] d \notin DOMAIN schedules /\ d \in DOMAIN diskDags -> diskDags[d]
      [] OTHER -> NoCron

\* Mutant: a file that is there keeps its dependencies.
TaskEntryKeepsFile(d, n, deps) ==
    [deps |-> IF <<d, n>> \in DOMAIN diskTasks THEN diskTasks[<<d, n>>].deps ELSE deps,
     cron |-> MetadataCron(d)]

\* upsert_task: without new metadata the file keeps the metadata it has.
TaskEntry(d, n, deps) ==
    [deps |-> deps,
     cron |-> IF MetadataCron(d) = NoCron /\ <<d, n>> \in DOMAIN diskTasks
              THEN diskTasks[<<d, n>>].cron
              ELSE MetadataCron(d)]

\* create(shyguy_task).  The task is in task_map before anything is asked of
\* the DAG, and stays there when it is refused.  dags.at throws for an unknown
\* DAG.
CreateTask(d, n, deps) ==
    /\ up
    /\ IF d \notin DOMAIN dags
       THEN Down("terminate")
       ELSE \E pushed \in PushResults(dags[d], n, deps) :
               \/ /\ pushed.result = "terminate"
                  /\ Down("terminate")
               \/ /\ pushed.result # "terminate"
                  /\ Answer(pushed.result)
                  /\ taskMap' = Put(taskMap, n, d)
                  /\ dags' = [dags EXCEPT ![d] = pushed.graph]
                  /\ diskTasks' \in
                        IF pushed.result = "ok"
                        THEN Stored(diskTasks,
                                    Put(diskTasks, <<d, n>>, TaskEntry(d, n, deps)))
                        ELSE {diskTasks}
                  /\ UNCHANGED <<schedules, queue, sequence, diskDags>>

\* Mutant: the DAG is looked up with at, as create does.
RemoveTaskAt(d, n) ==
    /\ up
    /\ CASE d \notin DOMAIN dags -> Down("terminate")
         [] d \in DOMAIN dags /\ n \notin DOMAIN dags[d] -> Refuse("task_not_found")
         [] d \in DOMAIN dags /\ n \in DOMAIN dags[d] ->
              /\ Answer("ok")
              /\ dags' = [dags EXCEPT ![d] = Removed(dags[d], n)]
              /\ diskTasks' \in Stored(diskTasks, Without(diskTasks, <<d, n>>))
              /\ UNCHANGED <<schedules, queue, sequence, taskMap, diskDags>>

\* remove(shyguy_task).  With no such DAG in memory the file is erased all
\* the same, and the request succeeds.  task_map keeps the task.
RemoveTask(d, n) ==
    /\ up
    /\ IF d \in DOMAIN dags /\ n \notin DOMAIN dags[d]
       THEN Refuse("task_not_found")
       ELSE /\ Answer("ok")
            /\ dags' = IF d \in DOMAIN dags
                       THEN [dags EXCEPT ![d] = Removed(dags[d], n)]
                       ELSE dags
            /\ diskTasks' \in Stored(diskTasks, Without(diskTasks, <<d, n>>))
            /\ UNCHANGED <<schedules, queue, sequence, taskMap, diskDags>>

-----------------------------------------------------------------------------
\* execute_at.  A run is a copy of the graph and one runner per node; it is
\* enqueued although the answer is an error.
ExecuteAt(d) ==
    /\ up
    /\ IF d \notin DOMAIN dags
       THEN Refuse("dag_not_found")
       ELSE \E found \in SearchOutcomes(dags[d]) :
               \/ /\ found = "throws"
                  /\ Down("terminate")
               \/ /\ found = "cycle"
                  /\ Refuse("task_creates_cycle")
               \/ /\ found = "acyclic"
                  /\ sequence < MaxSequence
                  /\ Answer("not_currently_supported")
                  /\ queue' = queue \cup
                        {[sequence |-> sequence, dag |-> d, graph |-> dags[d]]}
                  /\ sequence' = sequence + 1
                  /\ UNCHANGED <<dags, schedules, taskMap, disk>>

\* next_scheduled_dag, as the schedule thread uses it: an invalid cron string
\* is skipped.  Which of the others comes first depends on the time of day.
ScheduledExecute(d) ==
    /\ d \in DOMAIN schedules
    /\ schedules[d] \in ValidCron
    /\ ExecuteAt(d)

\* execute(shyguy_task) computes the run order and drops it.
ExecuteTask(d) ==
    /\ up
    /\ IF d \notin DOMAIN dags
       THEN Refuse("dag_not_found")
       ELSE \E found \in SearchOutcomes(dags[d]) :
               \/ found = "throws" /\ Down("terminate")
               \/ found = "cycle" /\ Refuse("task_creates_cycle")
               \/ found = "acyclic" /\ Refuse("not_currently_supported")

\* Both snapshots, a request without data, and any other command.
ProcessOther == /\ up
                /\ \E r \in {"not_currently_supported", "monostate_reached",
                             "unknown_command"} : Refuse(r)

\* The executioner takes a run that is due.
Dequeue == /\ up
           /\ \E run \in queue : queue' = queue \ {run}
           /\ UNCHANGED <<up, dags, schedules, sequence, taskMap, disk, reply>>

\* The daemon is stopped or killed, and started again.
Stop == up /\ Down("none")
Restart == ~up /\ up' = TRUE /\ reply' = "none" /\ UNCHANGED <<memory, disk>>

Next ==
    \/ \E d \in Dag, cron \in CronOrNone : CreateDag(d, cron) \/ RemoveDag(d, cron)
    \/ \E d \in Dag, n \in TaskName :
          \/ \E deps \in Dependencies : CreateTask(d, n, deps)
          \/ RemoveTask(d, n)
    \/ \E d \in Dag : ExecuteAt(d) \/ ScheduledExecute(d) \/ ExecuteTask(d)
    \/ ProcessOther
    \/ Dequeue
    \/ Stop
    \/ Restart

Spec == Init /\ [][Next]_vars

-----------------------------------------------------------------------------
(* Type invariant.                                                         *)
TypeOK ==
    /\ up \in BOOLEAN
    /\ DOMAIN dags \subseteq Dag
    /\ \A d \in DOMAIN dags : IsGraph(dags[d])
    /\ DOMAIN schedules \subseteq Dag
    /\ \A d \in DOMAIN schedules : schedules[d] \in Cron
    /\ sequence \in 0..MaxSequence
    /\ DOMAIN taskMap \subseteq TaskName
    /\ \A n \in DOMAIN taskMap : taskMap[n] \in Dag
    /\ \A run \in queue : /\ run.sequence \in 0..sequence - 1
                          /\ run.dag \in Dag
                          /\ IsGraph(run.graph)
    /\ DOMAIN diskDags \subseteq Dag
    /\ \A d \in DOMAIN diskDags : diskDags[d] \in CronOrNone
    /\ DOMAIN diskTasks \subseteq Dag \X TaskName
    /\ \A t \in DOMAIN diskTasks : /\ diskTasks[t].deps \in Dependencies
                                   /\ diskTasks[t].cron \in CronOrNone

(* A failed push leaves no cycle behind and a removal closes none, so the  *)
(* graph of every DAG in memory stays acyclic: execute_at never finds a    *)
(* cycle, whatever was pushed, removed and pushed again under old names.   *)
GraphsAcyclic == \A d \in DOMAIN dags : ~Cyclic(dags[d])

(* As long as no request repeats a name in its dependency list, no graph   *)
(* names a missing node: remove_task takes a name out of every vector it   *)
(* stands in, and the search of a later push or execute does not throw.    *)
GraphsClosed == MaxCopies < 2 => \A d \in DOMAIN dags : Closed(dags[d])

(* A dependency on a missing node has one source: the request of the task  *)
(* that lists it named it more than once, and remove_task erased fewer     *)
(* occurrences than the task's file still lists.                           *)
DanglingWasRepeated ==
    \A d \in DOMAIN dags : \A n \in DOMAIN dags[d] :
        \A m \in DepsOf(dags[d], n) \ DOMAIN dags[d] :
            /\ <<d, n>> \in DOMAIN diskTasks
            /\ diskTasks[<<d, n>>].deps[m] > dags[d][n][m]

(* Whatever was done to the graph after execute_at copied it, each run in  *)
(* the queue can be executed to its end: its graph is closed and acyclic,  *)
(* which is what the executioner needs to find a ready task in each wave.  *)
QueuedRunsComplete ==
    \A run \in queue : Closed(run.graph) /\ ~Cyclic(run.graph)

(* When the storage works, memory never holds more than the files: every   *)
(* DAG has its file, every task but the root node its own, and that lists  *)
(* at least the dependencies the graph still has.  The TUI, which lists    *)
(* the files, then shows every DAG and task there is.                      *)
MemoryIsPersisted ==
    \A d \in DOMAIN dags :
        /\ d \in DOMAIN diskDags
        /\ \A n \in DOMAIN dags[d] \ {d} :
              /\ <<d, n>> \in DOMAIN diskTasks
              /\ \A m \in Name : dags[d][n][m] <= diskTasks[<<d, n>>].deps[m]

(* A request that is refused changes no DAG, no schedule, no run in the    *)
(* queue and no file, though push_task has changed the graph when it finds *)
(* the cycle.  It is not without a trace: a task whose name is taken, or   *)
(* that closes a cycle, has replaced the one of its name in task_map.  The *)
(* one answer that is an error and not a refusal is that of execute(dag).  *)
Refusals == {"dag_duplicate", "dag_deletion_failed", "contains_duplicates",
             "task_creates_cycle", "task_not_found", "dag_not_found",
             "monostate_reached", "unknown_command"}
RefusalLeavesOnlyTask ==
    [][reply' \in Refusals =>
          /\ UNCHANGED <<dags, schedules, sequence, disk>>
          /\ queue' \subseteq queue
          /\ \/ UNCHANGED taskMap
             \/ /\ reply' \in {"contains_duplicates", "task_creates_cycle"}
                /\ \E d \in DOMAIN dags, n \in TaskName : taskMap' = Put(taskMap, n, d)]_vars

-----------------------------------------------------------------------------
(* What the program says of itself and the code does not do.               *)

(* to_cstring(dependencies_not_found) "dependencies not found": a task     *)
(* with an unknown dependency is refused, and the daemon goes on.          *)
UnknownDependencyIsReported ==
    [][\A d \in DOMAIN dags, n \in TaskName, deps \in Dependencies :
          /\ n \notin DOMAIN dags[d]
          /\ ~(Listed(deps) \subseteq DOMAIN dags[d])
          /\ CreateTask(d, n, deps)
          => up']_vars

(* "Remove a DAG": a DAG that was removed is not scheduled any more.       *)
RemovedDagIsNotScheduled == DOMAIN schedules \subseteq DOMAIN dags

=============================================================================
