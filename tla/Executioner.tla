----------------------------- MODULE Executioner -----------------------------
(***************************************************************************)
(* shy_executioner::run_until_idle (src/shyGuy/shyexecutioner.cc): how the *)
(* runs taken from the queue are executed, wave by wave, on a pool of DAG  *)
(* threads and a pool of task threads.                                     *)
(*                                                                         *)
(* A DAG thread selects ready tasks, hands them to the task pool, waits    *)
(* for all of them (the barrier of run_wave) and selects again.  A task    *)
(* thread runs task_function, which locks the registry's mutex around the  *)
(* command (concurrent_shyguy.cpp), so commands of all runs exclude each   *)
(* other and the requests the daemon processes.                            *)
(*                                                                         *)
(* The loop that takes runs from the queue, its idle exit and the thread   *)
(* it runs on are module ExecutionerControl.                               *)
(***************************************************************************)
EXTENDS TaskGraph, FiniteSets

CONSTANTS
    Run,            \* runs taken from the queue
    Graph,          \* the graphs they may have
    MaxDagConcurrency,      \* --max-dag-concurrency
    MaxTaskConcurrency      \* --max-task-concurrency

\* execute_at enqueues a run only if its search of the graph succeeds
\* (QueuedRunsComplete of ShyguyRegistry); a graph is a finite hash map.
ASSUME ExecutionerAssumption ==
    /\ IsFiniteSet(Run)
    /\ \A g \in Graph : /\ IsGraph(g) /\ Closed(g) /\ ~Cyclic(g)
                       /\ IsFiniteSet(DOMAIN g)
    /\ MaxDagConcurrency \in Nat
    /\ MaxTaskConcurrency \in Nat

VARIABLES
    running,        \* the terminator the daemon shares
    inFlight,       \* in_flight_dags
    graph,          \* Run -> graph of the payload
    state,          \* Run -> where the run is
    pending,        \* Run -> tasks that have not finished
    completed,      \* Run -> tasks of earlier waves
    spawned,        \* Run -> tasks of the wave that have no thread yet
    started,        \* Run -> tasks of the wave on a task thread
    finished,       \* Run -> finished_names of the wave
    holder          \* who holds the registry's mutex

waves == <<pending, completed, spawned, started, finished>>
vars == <<running, inFlight, graph, state, waves, holder>>

Nobody == << >>
Request == <<"request">>

AtLeastOne(n) == IF n = 0 THEN 1 ELSE n
DagThreads == AtLeastOne(MaxDagConcurrency)
TaskThreads == AtLeastOne(MaxTaskConcurrency)
WaveSize == AtLeastOne(MaxTaskConcurrency)

OnDagThread == {r \in Run : state[r] \in {"select", "wave"}}
OnTaskThread == {task \in Run \X Name : task[2] \in started[task[1]]}

Init == /\ running = TRUE
        /\ inFlight = 0
        /\ graph \in [Run -> Graph]
        /\ state = [r \in Run |-> "queued"]
        /\ pending = [r \in Run |-> {}]
        /\ completed = [r \in Run |-> {}]
        /\ spawned = [r \in Run |-> {}]
        /\ started = [r \in Run |-> {}]
        /\ finished = [r \in Run |-> {}]
        /\ holder = Nobody

-----------------------------------------------------------------------------
\* Mutant: in_flight_dags is not incremented.
DispatchUncounted(r) == /\ state[r] = "queued"
                        /\ state' = [state EXCEPT ![r] = "spawned"]
                        /\ UNCHANGED <<running, inFlight, graph, waves, holder>>

\* The loop takes a run and spawns it on the DAG pool.  It looked at running
\* before it waited for the queue (ExecTest of ExecutionerControl), so a run
\* may be spawned after the daemon was told to stop.
Dispatch(r) == /\ state[r] = "queued"
               /\ state' = [state EXCEPT ![r] = "spawned"]
               /\ inFlight' = inFlight + 1
               /\ UNCHANGED <<running, graph, waves, holder>>

\* run_dependency_waves begins on a free DAG thread: one runner per node.
StartRun(r) == /\ state[r] = "spawned"
               /\ Cardinality(OnDagThread) < DagThreads
               /\ state' = [state EXCEPT ![r] = "select"]
               /\ pending' = [pending EXCEPT ![r] = DOMAIN graph[r]]
               /\ UNCHANGED <<running, inFlight, graph, completed, spawned,
                              started, finished, holder>>

\* Mutant: every pending task counts as ready.
ReadyUnasked(r) == pending[r]

\* select_ready_tasks: the first ready names of a hash set, up to a limit.
Ready(r) == {n \in pending[r] : IsTaskReady(graph[r], completed[r], n)}
Selections(r) == {wave \in SUBSET Ready(r) :
                    \/ Cardinality(wave) = WaveSize
                    \/ wave = Ready(r) /\ Cardinality(wave) < WaveSize}

\* A wave is selected and spawned on the task pool.
StartWave(r) == /\ state[r] = "select"
                /\ running
                /\ Ready(r) # {}
                /\ \E wave \in Selections(r) :
                       spawned' = [spawned EXCEPT ![r] = wave]
                /\ state' = [state EXCEPT ![r] = "wave"]
                /\ UNCHANGED <<running, inFlight, graph, pending, completed,
                               started, finished, holder>>

\* Mutant: one pool for DAGs and tasks.
StartTaskOnOnePool(r, n) ==
    /\ n \in spawned[r]
    /\ Cardinality(OnTaskThread) + Cardinality(OnDagThread) < TaskThreads
    /\ spawned' = [spawned EXCEPT ![r] = @ \ {n}]
    /\ started' = [started EXCEPT ![r] = @ \cup {n}]
    /\ UNCHANGED <<running, inFlight, graph, state, pending, completed, finished,
                   holder>>

StartTask(r, n) == /\ n \in spawned[r]
                   /\ Cardinality(OnTaskThread) < TaskThreads
                   /\ spawned' = [spawned EXCEPT ![r] = @ \ {n}]
                   /\ started' = [started EXCEPT ![r] = @ \cup {n}]
                   /\ UNCHANGED <<running, inFlight, graph, state, pending,
                                  completed, finished, holder>>

\* task_function: the command runs between lock and unlock.
LockTask(r, n) == /\ n \in started[r]
                  /\ holder = Nobody
                  /\ holder' = <<r, n>>
                  /\ UNCHANGED <<running, inFlight, graph, state, waves>>

FinishTask(r, n) == /\ holder = <<r, n>>
                    /\ holder' = Nobody
                    /\ started' = [started EXCEPT ![r] = @ \ {n}]
                    /\ finished' = [finished EXCEPT ![r] = @ \cup {n}]
                    /\ UNCHANGED <<running, inFlight, graph, state, pending,
                                   completed, spawned>>

\* Mutants: a finished task is not booked, or stays among the pending ones.
EndWaveUnbooked(r) == /\ state[r] = "wave"
                      /\ spawned[r] = {} /\ started[r] = {}
                      /\ pending' = [pending EXCEPT ![r] = @ \ finished[r]]
                      /\ finished' = [finished EXCEPT ![r] = {}]
                      /\ state' = [state EXCEPT ![r] = "select"]
                      /\ UNCHANGED <<running, inFlight, graph, completed, spawned,
                                     started, holder>>
EndWaveStillPending(r) == /\ state[r] = "wave"
                          /\ spawned[r] = {} /\ started[r] = {}
                          /\ completed' = [completed EXCEPT ![r] = @ \cup finished[r]]
                          /\ finished' = [finished EXCEPT ![r] = {}]
                          /\ state' = [state EXCEPT ![r] = "select"]
                          /\ UNCHANGED <<running, inFlight, graph, pending, spawned,
                                         started, holder>>

\* sync_wait(wave_scope.on_empty()) returns, the names are booked.
EndWave(r) == /\ state[r] = "wave"
              /\ spawned[r] = {} /\ started[r] = {}
              /\ completed' = [completed EXCEPT ![r] = @ \cup finished[r]]
              /\ pending' = [pending EXCEPT ![r] = @ \ finished[r]]
              /\ finished' = [finished EXCEPT ![r] = {}]
              /\ state' = [state EXCEPT ![r] = "select"]
              /\ UNCHANGED <<running, inFlight, graph, spawned, started, holder>>

\* Mutants: one wave is enough; in_flight_dags is not decremented.
EndRunEarly(r) == /\ state[r] = "select"
                  /\ state' = [state EXCEPT ![r] = "ended"]
                  /\ inFlight' = inFlight - 1
                  /\ UNCHANGED <<running, graph, waves, holder>>
EndRunUncounted(r) == /\ state[r] = "select"
                      /\ pending[r] = {} \/ ~running \/ Ready(r) = {}
                      /\ state' = [state EXCEPT ![r] = "ended"]
                      /\ UNCHANGED <<running, inFlight, graph, waves, holder>>

\* The loop of run_dependency_waves ends: nothing pending, the daemon stops,
\* or "No ready tasks but pending remain".
EndRun(r) == /\ state[r] = "select"
             /\ pending[r] = {} \/ ~running \/ Ready(r) = {}
             /\ state' = [state EXCEPT ![r] = "ended"]
             /\ inFlight' = inFlight - 1
             /\ UNCHANGED <<running, graph, waves, holder>>

\* The daemon processes a request under the same mutex.
RequestLocks == /\ holder = Nobody
                /\ holder' = Request
                /\ UNCHANGED <<running, inFlight, graph, state, waves>>
RequestUnlocks == /\ holder = Request
                  /\ holder' = Nobody
                  /\ UNCHANGED <<running, inFlight, graph, state, waves>>

\* The daemon is told to stop.
Stop == /\ running
        /\ running' = FALSE
        /\ UNCHANGED <<inFlight, graph, state, waves, holder>>

RunStep(r) == StartRun(r) \/ StartWave(r) \/ EndWave(r) \/ EndRun(r)

Next == \/ \E r \in Run : Dispatch(r) \/ RunStep(r)
        \/ \E r \in Run, n \in Name :
              StartTask(r, n) \/ LockTask(r, n) \/ FinishTask(r, n)
        \/ RequestLocks \/ RequestUnlocks
        \/ Stop

Spec == Init /\ [][Next]_vars

\* Pool threads that can move do, every command ends, every request is
\* processed, and a thread that waits for the mutex gets it at last (the
\* requests of a client leave it free most of the time).
Fairness == /\ \A r \in Run : WF_vars(RunStep(r))
            /\ \A r \in Run, n \in Name : /\ WF_vars(StartTask(r, n))
                                          /\ SF_vars(LockTask(r, n))
                                          /\ WF_vars(FinishTask(r, n))
            /\ WF_vars(RequestUnlocks)

FairSpec == Spec /\ Fairness

-----------------------------------------------------------------------------
(* Type invariant.                                                         *)
TypeOK == /\ running \in BOOLEAN
          /\ inFlight \in Nat
          /\ graph \in [Run -> Graph]
          /\ state \in [Run -> {"queued", "spawned", "select", "wave", "ended"}]
          /\ pending \in [Run -> SUBSET Name]
          /\ completed \in [Run -> SUBSET Name]
          /\ spawned \in [Run -> SUBSET Name]
          /\ started \in [Run -> SUBSET Name]
          /\ finished \in [Run -> SUBSET Name]
          /\ holder \in {Nobody, Request} \cup (Run \X Name)

(* No task is handed to a thread before every task it depends on has       *)
(* finished in an earlier wave, however waves of several runs interleave.  *)
DependenciesFirst ==
    \A r \in Run : \A n \in spawned[r] \cup started[r] \cup finished[r] :
        DepsOf(graph[r], n) \subseteq completed[r]

(* A run whose DAG could be ordered is never given up: unless the daemon   *)
(* is told to stop, it ends with every task completed, and the branch      *)
(* "No ready tasks but pending remain" is not taken.                       *)
NoRunIsGivenUp ==
    \A r \in Run : state[r] = "ended" /\ running => completed[r] = DOMAIN graph[r]

(* The mutex is held for the task of a thread that waits in a wave, so no  *)
(* task is executed twice in a run, nor after its run has ended.           *)
TasksRunOnce ==
    \A r \in Run :
        /\ (spawned[r] \cup started[r] \cup finished[r]) \cap completed[r] = {}
        /\ \A n \in Name : holder = <<r, n>> => /\ n \in started[r]
                                                /\ n \notin finished[r]
                                                /\ state[r] = "wave"

(* in_flight_dags is the number of runs dispatched and not ended: the idle *)
(* exit, which asks whether it is zero, never leaves a run behind.         *)
InFlightCounts ==
    inFlight = Cardinality({r \in Run : state[r] \in {"spawned", "select", "wave"}})

(* A dispatched run ends: neither the barrier of a wave, nor a full pool,  *)
(* nor the mutex the commands share with the requests blocks it for good.  *)
DispatchedRunsEnd == \A r \in Run : state[r] = "spawned" ~> state[r] = "ended"

(* Each run behaves as DagRun says: this is \A r : Abstract(r)!Spec, with   *)
(* the box outside the quantifier.                                         *)
Done(r) == completed[r] \cup finished[r]
Phase(r) == IF state[r] = "ended" THEN "ended" ELSE "open"
Abstract(r) == INSTANCE DagRun WITH graph <- graph[r], done <- Done(r),
                                    phase <- Phase(r)
ImplementsDagRun ==
    /\ \A r \in Run : Abstract(r)!Init
    /\ [][\A r \in Run : [Abstract(r)!Next]_(Abstract(r)!vars)]_vars

=============================================================================
