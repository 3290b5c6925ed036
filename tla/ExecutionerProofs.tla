-------------------------- MODULE ExecutionerProofs --------------------------
(***************************************************************************)
(* The safety invariants of Executioner, for any number of runs, any       *)
(* graphs and any pool sizes.  The inductive invariant says of each run    *)
(* how its sets divide the nodes of its graph (Division) and that the      *)
(* tasks of the current wave are ready (DependenciesFirst).  That no run   *)
(* is given up then follows from SomePendingTaskIsReady: a closed acyclic  *)
(* graph always has a ready node while one is pending.                     *)
(* The last part is what can be said without fairness of runs coming to an *)
(* end: some thread can move (NoDeadlock) and only so many steps are left  *)
(* to a run (RunsAreShort).                                                *)
(***************************************************************************)
EXTENDS Executioner, FiniteSetTheorems, Sequences, TLAPS

(***************************************************************************)
(* No wave is empty before the run is over: in a closed acyclic graph, as  *)
(* long as a node is pending, select_ready_tasks finds a ready one, so     *)
(* "No ready tasks but pending remain" is never reported.                  *)
(***************************************************************************)
THEOREM SomePendingTaskIsReady ==
    ASSUME NEW g, IsGraph(g), Closed(g), ~Cyclic(g),
           NEW done, DOMAIN g \ done # {}
    PROVE  \E n \in DOMAIN g \ done : IsTaskReady(g, done, n)
<1> DEFINE left == DOMAIN g \ done
<1> SUFFICES ASSUME \A n \in left : ~IsTaskReady(g, done, n)
             PROVE  Trapped(g, left)
    BY DEF Cyclic
<1>1. ASSUME NEW n \in left PROVE DepsOf(g, n) \cap left # {}
    <2>1. DepsOf(g, n) \subseteq DOMAIN g
        BY DEF Closed
    <2>2. ~(DepsOf(g, n) \subseteq done)
        BY DEF IsTaskReady
    <2> QED
        BY <2>1, <2>2
<1> QED
    BY <1>1 DEF Trapped

USE ExecutionerAssumption

Wave(r) == spawned[r] \cup started[r] \cup finished[r]

Division(r) ==
    /\ Wave(r) \subseteq pending[r]
    /\ pending[r] \cap completed[r] = {}
    /\ started[r] \cap finished[r] = {}
    /\ spawned[r] \cap (started[r] \cup finished[r]) = {}
    /\ state[r] # "wave" => Wave(r) = {}
    /\ IF state[r] \in {"queued", "spawned"}
       THEN pending[r] = {} /\ completed[r] = {}
       ELSE pending[r] \cup completed[r] = DOMAIN graph[r]
    /\ state[r] = "ended" /\ running => pending[r] = {}
    /\ \A n \in Wave(r) : DepsOf(graph[r], n) \subseteq completed[r]

HolderInv == \A r \in Run, n \in Name : holder = <<r, n>> => n \in started[r]

\* The runs in_flight_dags counts.
InFlightRuns == {r \in Run : state[r] \in {"spawned", "select", "wave"}}

IInv == TypeOK /\ HolderInv /\ InFlightCounts /\ \A r \in Run : Division(r)

\* Run r is as it was; it may be that the daemon is told to stop.
Same(r) == /\ graph'[r] = graph[r]
           /\ state'[r] = state[r]
           /\ pending'[r] = pending[r]
           /\ completed'[r] = completed[r]
           /\ spawned'[r] = spawned[r]
           /\ started'[r] = started[r]
           /\ finished'[r] = finished[r]
           /\ running' => running

LEMMA SameDivides == ASSUME NEW r, Division(r), Same(r) PROVE Division(r)'
BY DEF Division, Same, Wave

LEMMA HolderKinds ==
    ASSUME NEW r, NEW n
    PROVE  <<r, n>> # Nobody /\ <<r, n>> # Request
<1>1. Len(<<r, n>>) = 2 /\ Len(Nobody) = 0 /\ Len(Request) = 1
    BY DEF Nobody, Request
<1> QED
    BY <1>1

LEMMA RunsAreFinite ==
    /\ IsFiniteSet(InFlightRuns)
    /\ Cardinality(InFlightRuns) \in Nat
<1>1. InFlightRuns \subseteq Run
    BY DEF InFlightRuns
<1> QED
    BY <1>1, FS_Subset, FS_CardinalityType

LEMMA SameCounts ==
    ASSUME InFlightCounts, inFlight' = inFlight, InFlightRuns' = InFlightRuns
    PROVE  InFlightCounts'
BY DEF InFlightCounts, InFlightRuns

LEMMA GraphOfRun ==
    ASSUME IInv, NEW r \in Run
    PROVE  /\ IsGraph(graph[r]) /\ Closed(graph[r]) /\ ~Cyclic(graph[r])
           /\ DOMAIN graph[r] \subseteq Name
BY DEF IInv, TypeOK, IsGraph

LEMMA InitInv == Init => IInv
<1> SUFFICES ASSUME Init PROVE IInv
    OBVIOUS
<1>1. TypeOK
    BY DEF Init, TypeOK
<1>2. HolderInv
    BY HolderKinds DEF Init, HolderInv
<1>3. \A r \in Run : Division(r)
    BY DEF Init, Division, Wave
<1>4. InFlightCounts
    <2>1. InFlightRuns = {}
        BY DEF Init, InFlightRuns
    <2> QED
        BY <2>1, FS_EmptySet DEF Init, InFlightCounts, InFlightRuns
<1> QED
    BY <1>1, <1>2, <1>3, <1>4 DEF IInv

-----------------------------------------------------------------------------
(* A DAG thread's steps.                                                   *)

LEMMA DispatchStep == ASSUME IInv, NEW r \in Run, Dispatch(r) PROVE IInv'
<1>1. TypeOK'
    BY DEF Dispatch, IInv, TypeOK, waves
<1>2. HolderInv'
    BY DEF Dispatch, IInv, HolderInv, waves
<1>3. Division(r)'
    BY DEF Dispatch, waves, IInv, TypeOK, Division, Wave
<1>4. \A s \in Run \ {r} : Same(s)
    BY DEF Dispatch, waves, IInv, TypeOK, Same
<1>5. InFlightCounts'
    <2>1. InFlightRuns' = InFlightRuns \cup {r} /\ r \notin InFlightRuns
        BY DEF Dispatch, IInv, TypeOK, InFlightRuns
    <2>2. Cardinality(InFlightRuns') = Cardinality(InFlightRuns) + 1
        BY <2>1, RunsAreFinite, FS_AddElement
    <2>3. inFlight' = inFlight + 1 /\ inFlight = Cardinality(InFlightRuns)
        BY DEF Dispatch, IInv, InFlightCounts, InFlightRuns
    <2> QED
        BY <2>2, <2>3 DEF InFlightCounts, InFlightRuns
<1> QED
    BY <1>1, <1>2, <1>3, <1>4, <1>5, SameDivides DEF IInv

\* The branch "No ready tasks but pending remain" is not taken.
LEMMA EndOnlyWhenDone ==
    ASSUME IInv, NEW r \in Run, EndRun(r)
    PROVE  running => pending[r] = {}
<1> SUFFICES ASSUME running, pending[r] # {} PROVE FALSE
    OBVIOUS
<1>1. Ready(r) = {}
    BY DEF EndRun
<1>2. pending[r] = DOMAIN graph[r] \ completed[r]
    BY DEF EndRun, IInv, Division
<1>3. \E n \in DOMAIN graph[r] \ completed[r] : IsTaskReady(graph[r], completed[r], n)
    BY <1>2, GraphOfRun, SomePendingTaskIsReady
<1> QED
    BY <1>1, <1>2, <1>3 DEF Ready

LEMMA EndRunStep == ASSUME IInv, NEW r \in Run, EndRun(r) PROVE IInv'
<1>1. InFlightCounts' /\ inFlight' \in Nat
    <2>1. InFlightRuns' = InFlightRuns \ {r} /\ r \in InFlightRuns
        BY DEF EndRun, IInv, TypeOK, InFlightRuns
    <2>2. Cardinality(InFlightRuns') = Cardinality(InFlightRuns) - 1
        BY <2>1, RunsAreFinite, FS_RemoveElement
    <2>3. inFlight' = inFlight - 1 /\ inFlight = Cardinality(InFlightRuns)
        BY DEF EndRun, IInv, InFlightCounts, InFlightRuns
    <2>4. IsFiniteSet(InFlightRuns')
        BY <2>1, RunsAreFinite, FS_Subset
    <2>5. Cardinality(InFlightRuns') \in Nat
        BY <2>4, FS_CardinalityType
    <2> QED
        BY <2>2, <2>3, <2>5 DEF InFlightCounts, InFlightRuns
<1>2. TypeOK'
    BY <1>1 DEF EndRun, waves, IInv, TypeOK
<1>3. HolderInv'
    BY DEF EndRun, waves, IInv, HolderInv
<1>4. running => pending[r] = {}
    BY EndOnlyWhenDone
<1>5. Division(r)'
    BY <1>4 DEF EndRun, waves, IInv, TypeOK, Division, Wave
<1>6. \A s \in Run \ {r} : Same(s)
    BY DEF EndRun, waves, IInv, TypeOK, Same
<1> QED
    BY <1>1, <1>2, <1>3, <1>5, <1>6, SameDivides DEF IInv

LEMMA StartRunStep == ASSUME IInv, NEW r \in Run, StartRun(r) PROVE IInv'
<1>1. TypeOK'
    BY GraphOfRun DEF StartRun, IInv, TypeOK
<1>2. HolderInv'
    BY DEF StartRun, IInv, HolderInv
<1>3. Division(r)'
    BY DEF StartRun, IInv, TypeOK, Division, Wave
<1>4. \A s \in Run \ {r} : Same(s)
    BY DEF StartRun, IInv, TypeOK, Same
<1>5. InFlightCounts'
    <2>1. inFlight' = inFlight /\ InFlightRuns' = InFlightRuns
        BY DEF StartRun, IInv, TypeOK, InFlightRuns
    <2> QED
        BY <2>1, SameCounts DEF IInv
<1> QED
    BY <1>1, <1>2, <1>3, <1>4, <1>5, SameDivides DEF IInv

LEMMA StartWaveStep == ASSUME IInv, NEW r \in Run, StartWave(r) PROVE IInv'
<1> PICK wave \in Selections(r) : spawned' = [spawned EXCEPT ![r] = wave]
    BY DEF StartWave
<1>0. wave \subseteq Ready(r)
    BY DEF Selections
<1>1. TypeOK'
    BY <1>0 DEF StartWave, Ready, IInv, TypeOK
<1>2. HolderInv'
    BY DEF StartWave, IInv, HolderInv
<1>3. Division(r)'
    BY <1>0 DEF StartWave, Ready, IsTaskReady, IInv, TypeOK, Division, Wave
<1>4. \A s \in Run \ {r} : Same(s)
    BY DEF StartWave, IInv, TypeOK, Same
<1>5. InFlightCounts'
    <2>1. inFlight' = inFlight /\ InFlightRuns' = InFlightRuns
        BY DEF StartWave, IInv, TypeOK, InFlightRuns
    <2> QED
        BY <2>1, SameCounts DEF IInv
<1> QED
    BY <1>1, <1>2, <1>3, <1>4, <1>5, SameDivides DEF IInv

LEMMA EndWaveStep == ASSUME IInv, NEW r \in Run, EndWave(r) PROVE IInv'
<1>1. TypeOK'
    BY DEF EndWave, IInv, TypeOK
<1>2. HolderInv'
    BY DEF EndWave, IInv, HolderInv
<1>3. Division(r)'
    BY DEF EndWave, IInv, TypeOK, Division, Wave
<1>4. \A s \in Run \ {r} : Same(s)
    BY DEF EndWave, IInv, TypeOK, Same
<1>5. InFlightCounts'
    <2>1. inFlight' = inFlight /\ InFlightRuns' = InFlightRuns
        BY DEF EndWave, IInv, TypeOK, InFlightRuns
    <2> QED
        BY <2>1, SameCounts DEF IInv
<1> QED
    BY <1>1, <1>2, <1>3, <1>4, <1>5, SameDivides DEF IInv

-----------------------------------------------------------------------------
(* A task thread's steps.                                                  *)

LEMMA StartTaskStep ==
    ASSUME IInv, NEW r \in Run, NEW n \in Name, StartTask(r, n) PROVE IInv'
<1>1. TypeOK'
    BY DEF StartTask, IInv, TypeOK
<1>2. HolderInv'
    BY DEF StartTask, IInv, TypeOK, HolderInv
<1>3. Division(r)'
    BY DEF StartTask, IInv, TypeOK, Division, Wave
<1>4. \A s \in Run \ {r} : Same(s)
    BY DEF StartTask, IInv, TypeOK, Same
<1>5. InFlightCounts'
    <2>1. inFlight' = inFlight /\ InFlightRuns' = InFlightRuns
        BY DEF StartTask, IInv, TypeOK, InFlightRuns
    <2> QED
        BY <2>1, SameCounts DEF IInv
<1> QED
    BY <1>1, <1>2, <1>3, <1>4, <1>5, SameDivides DEF IInv

LEMMA FinishTaskStep ==
    ASSUME IInv, NEW r \in Run, NEW n \in Name, FinishTask(r, n) PROVE IInv'
<1>0. n \in started[r]
    BY DEF FinishTask, IInv, HolderInv
<1>1. TypeOK'
    BY DEF FinishTask, IInv, TypeOK
<1>2. HolderInv'
    BY HolderKinds DEF FinishTask, HolderInv
<1>3. Division(r)'
    BY <1>0 DEF FinishTask, IInv, TypeOK, Division, Wave
<1>4. \A s \in Run \ {r} : Same(s)
    BY DEF FinishTask, IInv, TypeOK, Same
<1>5. InFlightCounts'
    <2>1. inFlight' = inFlight /\ InFlightRuns' = InFlightRuns
        BY DEF FinishTask, IInv, TypeOK, InFlightRuns
    <2> QED
        BY <2>1, SameCounts DEF IInv
<1> QED
    BY <1>1, <1>2, <1>3, <1>4, <1>5, SameDivides DEF IInv

LEMMA HolderStep ==
    ASSUME IInv,
           \/ \E r \in Run, n \in Name : LockTask(r, n)
           \/ RequestLocks \/ RequestUnlocks \/ Stop \/ UNCHANGED vars
    PROVE  IInv'
<1>0. /\ UNCHANGED <<inFlight, graph, state, pending, completed, spawned,
                     started, finished>>
      /\ running' = running \/ running' = FALSE
    BY DEF LockTask, RequestLocks, RequestUnlocks, Stop, vars, waves
<1>1. /\ UNCHANGED <<inFlight, graph, state, pending, completed, spawned,
                     started, finished>>
      /\ running' \in BOOLEAN
      /\ running' => running
    <2>1. running \in BOOLEAN
        BY DEF IInv, TypeOK
    <2>2. CASE running' = running
        BY <1>0, <2>1, <2>2, Zenon
    <2>3. CASE running' = FALSE
        BY <1>0, <2>3, Zenon
    <2> QED
        BY <1>0, <2>2, <2>3
<1>2. holder' \in {Nobody, Request} \cup (Run \X Name)
    BY DEF LockTask, RequestLocks, RequestUnlocks, Stop, vars, IInv, TypeOK
<1>3. HolderInv'
    <2>1. CASE \E r \in Run, n \in Name : LockTask(r, n)
        <3>1. PICK r \in Run, n \in Name : LockTask(r, n)
            BY <2>1
        <3>2. n \in started[r] /\ holder' = <<r, n>>
            BY <3>1 DEF LockTask
        <3> QED
            BY <1>1, <3>2 DEF HolderInv
    <2>2. CASE RequestLocks \/ RequestUnlocks
        BY <2>2, HolderKinds DEF RequestLocks, RequestUnlocks, HolderInv
    <2>3. CASE Stop \/ UNCHANGED vars
        BY <1>1, <2>3 DEF Stop, vars, IInv, HolderInv
    <2> QED
        BY <2>1, <2>2, <2>3
<1>4. \A r \in Run : Same(r)
    BY <1>1 DEF Same
<1>5. InFlightCounts'
    BY <1>1, SameCounts DEF InFlightRuns, IInv
<1>6. TypeOK'
    BY <1>1, <1>2 DEF IInv, TypeOK
<1> QED
    BY <1>3, <1>4, <1>5, <1>6, SameDivides DEF IInv

LEMMA NextInv == IInv /\ [Next]_vars => IInv'
<1> SUFFICES ASSUME IInv, [Next]_vars PROVE IInv'
    OBVIOUS
<1>1. CASE \E r \in Run : Dispatch(r) \/ RunStep(r)
    BY <1>1, DispatchStep, StartRunStep, StartWaveStep, EndWaveStep, EndRunStep DEF RunStep
<1>2. CASE \E r \in Run, n \in Name :
              StartTask(r, n) \/ LockTask(r, n) \/ FinishTask(r, n)
    BY <1>2, StartTaskStep, HolderStep, FinishTaskStep
<1>3. CASE RequestLocks \/ RequestUnlocks \/ Stop \/ UNCHANGED vars
    BY <1>3, HolderStep
<1> QED
    BY <1>1, <1>2, <1>3 DEF Next

LEMMA InvHolds == Spec => []IInv
BY InitInv, NextInv, PTL DEF Spec

-----------------------------------------------------------------------------
(* The types of the executioner's state; in_flight_dags never wraps below  *)
(* zero.                                                                   *)
THEOREM TypeCorrect == Spec => []TypeOK
<1>1. IInv => TypeOK
    BY DEF IInv
<1> QED
    BY <1>1, InvHolds, PTL

(* A task is handed to a thread only when all it depends on has finished.  *)
THEOREM OrderIsRespected == Spec => []DependenciesFirst
<1>1. IInv => DependenciesFirst
    BY DEF IInv, Division, Wave, DependenciesFirst
<1> QED
    BY <1>1, InvHolds, PTL

(* A run ends with all its tasks completed unless the daemon stops.        *)
THEOREM RunsAreFinished == Spec => []NoRunIsGivenUp
<1>1. IInv => NoRunIsGivenUp
    BY DEF IInv, Division, NoRunIsGivenUp
<1> QED
    BY <1>1, InvHolds, PTL

(* No task is executed twice in a run, or outside a wave.                  *)
THEOREM NoTaskTwice == Spec => []TasksRunOnce
<1>1. IInv => TasksRunOnce
    BY DEF IInv, HolderInv, Division, Wave, TasksRunOnce
<1> QED
    BY <1>1, InvHolds, PTL

(* in_flight_dags counts the runs that were dispatched and have not ended. *)
THEOREM CountIsRight == Spec => []InFlightCounts
<1>1. IInv => InFlightCounts
    BY DEF IInv
<1> QED
    BY <1>1, InvHolds, PTL

-----------------------------------------------------------------------------
(* The executioner implements DagRun, run by run: EndRun is End, the task  *)
(* thread that finishes a command is Finish, Stop is Stop, and every other *)
(* step leaves what a run promises as it was.                              *)

LEMMA AbstractInit == ASSUME Init, NEW r \in Run PROVE Abstract(r)!Init
<1>1. IsGraph(graph[r]) /\ Done(r) = {} /\ Phase(r) = "open" /\ running = TRUE
    BY ExecutionerAssumption DEF Init, Done, Phase
<1> QED
    BY <1>1 DEF Abstract!Init, Abstract!IsGraph, Abstract!Bag, IsGraph, Bag

LEMMA QuietStep ==
    ASSUME NEW r \in Run, graph'[r] = graph[r], Done(r)' = Done(r),
           Phase(r)' = Phase(r), running' = running
    PROVE  [Abstract(r)!Next]_(Abstract(r)!vars)
BY DEF Abstract!vars

LEMMA FinishRefines ==
    ASSUME IInv, NEW r \in Run, NEW n \in Name, FinishTask(r, n)
    PROVE  Abstract(r)!Finish(n)
<1>1. n \in started[r]
    BY DEF FinishTask, IInv, HolderInv
<1>2. /\ state[r] = "wave" /\ n \in pending[r]
      /\ n \notin completed[r] /\ n \notin finished[r]
      /\ DepsOf(graph[r], n) \subseteq completed[r]
      /\ n \in DOMAIN graph[r]
    BY <1>1 DEF IInv, Division, Wave
<1>3. Done(r)' = Done(r) \cup {n}
    BY DEF FinishTask, IInv, TypeOK, Done
<1>4. n \notin Done(r) /\ IsTaskReady(graph[r], Done(r), n)
    BY <1>2 DEF Done, IsTaskReady
<1>5. Phase(r) = "open" /\ Phase(r)' = Phase(r)
      /\ graph'[r] = graph[r] /\ running' = running
    BY <1>2 DEF FinishTask, Phase
<1> QED
    BY <1>3, <1>4, <1>5
       DEF Abstract!Finish, Abstract!IsTaskReady, IsTaskReady, Abstract!DepsOf, DepsOf,
           Abstract!Listed, Listed

LEMMA EndRefines ==
    ASSUME IInv, NEW r \in Run, EndRun(r)
    PROVE  Abstract(r)!End
<1>1. running => pending[r] = {}
    BY EndOnlyWhenDone
<1>2. Phase(r) = "open" /\ Phase(r)' = "ended"
    BY DEF EndRun, IInv, TypeOK, Phase
<1>3. graph' = graph /\ running' = running /\ Done(r)' = Done(r)
    BY DEF EndRun, waves, Done
<1>4. finished[r] = {}
    BY DEF EndRun, IInv, Division, Wave
<1>5. running => completed[r] = DOMAIN graph[r]
    BY <1>1 DEF EndRun, IInv, Division
<1>6. Done(r) = DOMAIN graph[r] \/ ~running
    BY <1>4, <1>5 DEF Done
<1> QED
    BY <1>2, <1>3, <1>6 DEF Abstract!End

LEMMA StopRefines == ASSUME NEW r \in Run, Stop PROVE Abstract(r)!Stop
BY DEF Stop, waves, Done, Phase, Abstract!Stop

LEMMA AbstractStep ==
    ASSUME IInv, [Next]_vars, NEW r \in Run
    PROVE  [Abstract(r)!Next]_(Abstract(r)!vars)
<1>1. CASE \E s \in Run : Dispatch(s) \/ StartRun(s) \/ StartWave(s)
    <2>1. graph' = graph /\ Done(r)' = Done(r) /\ running' = running
        BY <1>1 DEF Dispatch, StartRun, StartWave, waves, Done
    <2>2. Phase(r)' = Phase(r)
        BY <1>1 DEF Dispatch, StartRun, StartWave, IInv, TypeOK, Phase
    <2> QED
        BY <2>1, <2>2, QuietStep
<1>2. CASE \E s \in Run : EndWave(s)
    <2>1. graph' = graph /\ running' = running
        BY <1>2 DEF EndWave
    <2>2. Done(r)' = Done(r) /\ Phase(r)' = Phase(r)
        BY <1>2 DEF EndWave, IInv, TypeOK, Done, Phase
    <2> QED
        BY <2>1, <2>2, QuietStep
<1>3. CASE \E s \in Run : EndRun(s)
    <2> PICK s \in Run : EndRun(s)
        BY <1>3
    <2>1. CASE s = r
        BY <2>1, EndRefines DEF Abstract!Next
    <2>2. CASE s # r
        <3>1. graph' = graph /\ Done(r)' = Done(r) /\ running' = running
            BY DEF EndRun, waves, Done
        <3>2. Phase(r)' = Phase(r)
            BY <2>2 DEF EndRun, IInv, TypeOK, Phase
        <3> QED
            BY <3>1, <3>2, QuietStep
    <2> QED
        BY <2>1, <2>2
<1>4. CASE \E s \in Run, n \in Name : StartTask(s, n) \/ LockTask(s, n)
    BY <1>4, QuietStep DEF StartTask, LockTask, waves, Done, Phase
<1>5. CASE \E s \in Run, n \in Name : FinishTask(s, n)
    <2> PICK s \in Run, n \in Name : FinishTask(s, n)
        BY <1>5
    <2>1. CASE s = r
        BY <2>1, FinishRefines DEF Abstract!Next
    <2>2. CASE s # r
        <3>1. Done(r)' = Done(r)
            BY <2>2 DEF FinishTask, IInv, TypeOK, Done
        <3> QED
            BY <3>1, QuietStep DEF FinishTask, Phase
    <2> QED
        BY <2>1, <2>2
<1>6. CASE RequestLocks \/ RequestUnlocks \/ UNCHANGED vars
    BY <1>6, QuietStep DEF RequestLocks, RequestUnlocks, vars, waves, Done, Phase
<1>7. CASE Stop
    BY <1>7, StopRefines DEF Abstract!Next
<1> QED
    BY <1>1, <1>2, <1>3, <1>4, <1>5, <1>6, <1>7 DEF Next, RunStep

THEOREM ExecutionerImplementsDagRun == Spec => ImplementsDagRun
<1>1. Init => \A r \in Run : Abstract(r)!Init
    BY AbstractInit
<1>2. IInv /\ [Next]_vars => [\A r \in Run : [Abstract(r)!Next]_(Abstract(r)!vars)]_vars
    BY AbstractStep
<1> QED
    BY <1>1, <1>2, InvHolds, PTL DEF Spec, ImplementsDagRun

-----------------------------------------------------------------------------
(* Runs come to an end: what is left of the argument without fairness.     *)

\* A finite set has subsets of every smaller size.
LEMMA SubsetOfSize ==
    ASSUME NEW S, IsFiniteSet(S), NEW k \in Nat, k <= Cardinality(S)
    PROVE  \E T \in SUBSET S : Cardinality(T) = k
<1>1. Cardinality(S) \in Nat /\ ExistsBijection(1..Cardinality(S), S)
    BY FS_CardinalityType
<1> DEFINE n == Cardinality(S)
<1>2. PICK f \in Bijection(1..n, S) : TRUE
    BY <1>1 DEF ExistsBijection
<1>3. /\ f \in [1..n -> S]
      /\ \A i, j \in 1..n : f[i] = f[j] => i = j
    BY <1>2 DEF Bijection, Injection, IsInjective
<1> DEFINE T == {f[i] : i \in 1..k}
           g == [i \in 1..k |-> f[i]]
<1>4. 1..k \subseteq 1..n
    BY <1>1
<1>5. T \subseteq S
    BY <1>3, <1>4
<1>6. g \in Bijection(1..k, T)
    BY <1>3, <1>4 DEF Bijection, Injection, Surjection, IsInjective
<1> HIDE DEF T
<1>7. ExistsBijection(1..k, T)
    BY <1>6 DEF ExistsBijection
<1>8. Cardinality(T) = k
    BY <1>7, FS_CountingElements
<1> QED
    BY <1>5, <1>8

\* A wave that is being executed is not empty.
WaveInv == \A r \in Run : state[r] = "wave" => Wave(r) # {}

LEMMA PoolSizes ==
    /\ DagThreads \in Nat /\ TaskThreads \in Nat /\ WaveSize \in Nat
    /\ 1 <= DagThreads /\ 1 <= TaskThreads /\ 1 <= WaveSize
BY DEF DagThreads, TaskThreads, WaveSize, AtLeastOne

\* Ready tasks can be selected, and a selection is not empty.
LEMMA SelectionsOfReady ==
    ASSUME IInv, NEW r \in Run, Ready(r) # {}
    PROVE  Selections(r) # {} /\ \A wave \in Selections(r) : wave # {}
<1>1. IsFiniteSet(Ready(r))
    <2>1. Ready(r) \subseteq pending[r] /\ IsFiniteSet(DOMAIN graph[r])
        BY DEF Ready, IInv, TypeOK
    <2>2. pending[r] \subseteq DOMAIN graph[r]
        BY DEF IInv, Division
    <2> QED
        BY <2>1, <2>2, FS_Subset
<1> DEFINE n == Cardinality(Ready(r))
<1>2. n \in Nat /\ WaveSize \in Nat /\ 1 <= WaveSize
    BY <1>1, FS_CardinalityType, PoolSizes
<1>3. Selections(r) # {}
    <2>1. CASE n < WaveSize
        BY <2>1 DEF Selections
    <2>2. CASE WaveSize <= n
        <3>1. PICK T \in SUBSET Ready(r) : Cardinality(T) = WaveSize
            BY <1>1, <1>2, <2>2, SubsetOfSize
        <3> QED
            BY <3>1 DEF Selections
    <2> QED
        BY <1>2, <2>1, <2>2
<1>4. \A wave \in Selections(r) : wave # {}
    <2>1. Cardinality({}) # WaveSize
        BY <1>2, FS_EmptySet
    <2> QED
        BY <2>1 DEF Selections
<1> QED
    BY <1>3, <1>4

LEMMA WaveInvHolds == Spec => []WaveInv
<1>1. Init => WaveInv
    BY DEF Init, WaveInv
<1>2. IInv /\ WaveInv /\ [Next]_vars => WaveInv'
    <2> SUFFICES ASSUME IInv, WaveInv, [Next]_vars, NEW r \in Run, state'[r] = "wave"
                 PROVE  Wave(r)' # {}
        BY DEF WaveInv
    <2>1. CASE \E s \in Run : Dispatch(s) \/ StartRun(s) \/ EndWave(s) \/ EndRun(s)
        BY <2>1 DEF Dispatch, StartRun, EndWave, EndRun, WaveInv, Wave, IInv, TypeOK, waves
    <2>2. CASE \E s \in Run : StartWave(s)
        <3>1. PICK s \in Run : StartWave(s)
            BY <2>2
        <3>2. CASE s = r
            <4>1. spawned'[r] \in Selections(r)
                BY <3>1, <3>2 DEF StartWave, IInv, TypeOK
            <4>2. spawned'[r] # {}
                BY <3>1, <3>2, <4>1, SelectionsOfReady DEF StartWave
            <4> QED
                BY <4>2 DEF Wave
        <3>3. CASE s # r
            BY <3>1, <3>3 DEF StartWave, WaveInv, Wave, IInv, TypeOK
        <3> QED
            BY <3>2, <3>3
    <2>3. CASE \E s \in Run, n \in Name : StartTask(s, n) \/ FinishTask(s, n)
        BY <2>3 DEF StartTask, FinishTask, WaveInv, Wave, IInv, TypeOK
    <2>4. CASE \/ \E s \in Run, n \in Name : LockTask(s, n)
               \/ RequestLocks \/ RequestUnlocks \/ Stop \/ UNCHANGED vars
        BY <2>4 DEF LockTask, RequestLocks, RequestUnlocks, Stop, vars, waves, WaveInv, Wave
    <2> QED
        BY <2>1, <2>2, <2>3, <2>4 DEF Next, RunStep
<1> QED
    BY <1>1, <1>2, InvHolds, PTL DEF Spec

\* A step that a thread of the pools, or a request that is being processed,
\* can take.
SomeoneCanMove ==
    \/ holder = Request
    \/ \E r \in Run :
          \/ state[r] = "spawned" /\ Cardinality(OnDagThread) < DagThreads
          \/ state[r] = "select" /\ running /\ Ready(r) # {} /\ Selections(r) # {}
          \/ state[r] = "select" /\ (pending[r] = {} \/ ~running \/ Ready(r) = {})
          \/ state[r] = "wave" /\ spawned[r] = {} /\ started[r] = {}
    \/ \E r \in Run, n \in Name :
          \/ n \in spawned[r] /\ Cardinality(OnTaskThread) < TaskThreads
          \/ n \in started[r] /\ holder \in {Nobody, <<r, n>>}

\* The barriers of the waves, the two pools and the mutex never block each
\* other for good: as long as a run is in flight, some thread can move,
\* however small the pools are.
THEOREM NoDeadlock == Spec => [](InFlightRuns # {} => SomeoneCanMove)
<1>1. IInv => (InFlightRuns # {} => SomeoneCanMove)
    <2> SUFFICES ASSUME IInv, NEW r \in InFlightRuns, ~SomeoneCanMove PROVE FALSE
        OBVIOUS
    <2>1. ASSUME NEW s \in Run PROVE state[s] # "select"
        BY <2>1, SelectionsOfReady DEF SomeoneCanMove
    <2>2. ASSUME NEW s \in Run PROVE started[s] = {}
        <3> SUFFICES ASSUME NEW n \in started[s] PROVE FALSE
            OBVIOUS
        <3>1. n \in Name /\ holder \in {Nobody, Request} \cup (Run \X Name)
            BY DEF IInv, TypeOK
        <3>2. holder \in Run \X Name
            BY <3>1 DEF SomeoneCanMove
        <3>3. PICK s1 \in Run, n1 \in Name : holder = <<s1, n1>>
            BY <3>2
        <3>4. n1 \in started[s1]
            BY <3>3 DEF IInv, HolderInv
        <3> QED
            BY <3>3, <3>4 DEF SomeoneCanMove
    <2>3. OnTaskThread = {} /\ Cardinality(OnTaskThread) < TaskThreads
        <3>1. OnTaskThread = {}
            BY <2>2 DEF OnTaskThread
        <3> QED
            BY <3>1, FS_EmptySet, PoolSizes
    <2>4. ASSUME NEW s \in Run PROVE state[s] # "wave"
        <3>1. spawned[s] \subseteq Name
            BY DEF IInv, TypeOK
        <3>2. spawned[s] = {}
            BY <2>3, <3>1 DEF SomeoneCanMove
        <3> QED
            BY <2>2, <3>2 DEF SomeoneCanMove
    <2>5. OnDagThread = {}
        BY <2>1, <2>4 DEF OnDagThread
    <2>6. Cardinality(OnDagThread) < DagThreads
        BY <2>5, FS_EmptySet, PoolSizes
    <2>7. state[r] = "spawned" /\ r \in Run
        BY <2>1, <2>4 DEF InFlightRuns
    <2> QED
        BY <2>6, <2>7 DEF SomeoneCanMove
<1> QED
    BY <1>1, InvHolds, PTL

\* What is left of a run to do, in steps: of a task that is pending and not in
\* the wave six, of one in the wave fewer, and those of the run itself.
Left(r) == IF state[r] \in {"queued", "spawned"} THEN DOMAIN graph[r] ELSE pending[r]
Rank(r) == CASE state[r] = "queued" -> 3
             [] state[r] = "spawned" -> 2
             [] state[r] = "select" -> 1
             [] OTHER -> 0
Holds(r) == IF \E n \in Name : holder = <<r, n>> THEN 1 ELSE 0
Work(r) == 6 * Cardinality(Left(r)) + Rank(r) - Holds(r) - Cardinality(spawned[r])
             - 2 * Cardinality(started[r]) - 4 * Cardinality(finished[r])

\* The steps of a run.
StepOf(r) == \/ Dispatch(r) \/ RunStep(r)
             \/ \E n \in Name : StartTask(r, n) \/ LockTask(r, n) \/ FinishTask(r, n)

\* The sets of a run are finite.
LEMMA SetsAreFinite ==
    ASSUME IInv, NEW r \in Run
    PROVE  /\ \A S \in SUBSET DOMAIN graph[r] : IsFiniteSet(S) /\ Cardinality(S) \in Nat
           /\ Left(r) \subseteq DOMAIN graph[r]
           /\ spawned[r] \subseteq DOMAIN graph[r] /\ started[r] \subseteq DOMAIN graph[r]
           /\ finished[r] \subseteq DOMAIN graph[r] /\ pending[r] \subseteq DOMAIN graph[r]
<1>1. IsFiniteSet(DOMAIN graph[r])
    BY DEF IInv, TypeOK
<1>2. pending[r] \subseteq DOMAIN graph[r]
    BY DEF IInv, Division
<1>3. Wave(r) \subseteq pending[r]
    BY DEF IInv, Division
<1>4. Left(r) \subseteq DOMAIN graph[r]
    BY <1>2 DEF Left
<1>5. \A S \in SUBSET DOMAIN graph[r] : IsFiniteSet(S) /\ Cardinality(S) \in Nat
    BY <1>1, FS_Subset, FS_CardinalityType
<1> QED
    BY <1>2, <1>3, <1>4, <1>5 DEF Wave

\* The numbers Work is made of.
LEMMA WorkTypes ==
    ASSUME IInv, NEW r \in Run
    PROVE  /\ Cardinality(Left(r)) \in Nat /\ Cardinality(spawned[r]) \in Nat
           /\ Cardinality(started[r]) \in Nat /\ Cardinality(finished[r]) \in Nat
           /\ Cardinality(pending[r]) \in Nat
           /\ Rank(r) \in {0, 1, 2, 3} /\ Holds(r) \in {0, 1}
           /\ Work(r) \in Int
<1>1. /\ Cardinality(Left(r)) \in Nat /\ Cardinality(spawned[r]) \in Nat
      /\ Cardinality(started[r]) \in Nat /\ Cardinality(finished[r]) \in Nat
      /\ Cardinality(pending[r]) \in Nat
    BY SetsAreFinite
<1>2. Rank(r) \in {0, 1, 2, 3} /\ Holds(r) \in {0, 1}
    BY DEF Rank, Holds
<1> QED
    BY <1>1, <1>2 DEF Work

\* A run holds the mutex only for a task that is started.
LEMMA HoldersAreStarted ==
    ASSUME IInv, NEW r \in Run
    PROVE  Holds(r) <= Cardinality(started[r])
<1>1. CASE Holds(r) = 0
    BY <1>1, WorkTypes
<1>2. CASE Holds(r) = 1
    <2>1. started[r] # {}
        BY <1>2 DEF Holds, IInv, HolderInv
    <2>2. IsFiniteSet(started[r]) /\ Cardinality(started[r]) \in Nat
        BY SetsAreFinite
    <2>3. Cardinality(started[r]) # 0
        BY <2>1, <2>2, FS_EmptySet
    <2> QED
        BY <1>2, <2>2, <2>3
<1> QED
    BY <1>1, <1>2, WorkTypes

\* Work never runs out before the run does.
LEMMA WorkIsNatural ==
    ASSUME IInv, NEW r \in Run
    PROVE  Work(r) \in Nat
<1> DEFINE a == Cardinality(spawned[r])
           b == Cardinality(started[r])
           c == Cardinality(finished[r])
           l == Cardinality(Left(r))
<1>1. a \in Nat /\ b \in Nat /\ c \in Nat /\ l \in Nat
      /\ Rank(r) \in {0, 1, 2, 3} /\ Holds(r) \in {0, 1} /\ Holds(r) <= b
    BY WorkTypes, HoldersAreStarted
<1>2. IsFiniteSet(spawned[r]) /\ IsFiniteSet(started[r]) /\ IsFiniteSet(finished[r])
      /\ IsFiniteSet(Left(r))
    BY SetsAreFinite
<1>3. /\ started[r] \cap finished[r] = {}
      /\ spawned[r] \cap (started[r] \cup finished[r]) = {}
      /\ spawned[r] \cup (started[r] \cup finished[r]) \subseteq Left(r)
    BY DEF IInv, Division, Wave, Left
<1> DEFINE U == started[r] \cup finished[r]
<1>4. IsFiniteSet(U) /\ Cardinality(U) = b + c - Cardinality(started[r] \cap finished[r])
    BY <1>2, FS_Union
<1>5. Cardinality(started[r] \cap finished[r]) = 0
    BY <1>3, FS_EmptySet
<1>6. /\ IsFiniteSet(spawned[r] \cup U)
      /\ Cardinality(spawned[r] \cup U) = a + Cardinality(U) - Cardinality(spawned[r] \cap U)
    <2> HIDE DEF U
    <2> QED
        BY <1>2, <1>4, FS_Union
<1>7. Cardinality(spawned[r] \cap U) = 0
    BY <1>3, FS_EmptySet
<1>8. Cardinality(spawned[r] \cup U) <= l
    <2>1. spawned[r] \cup U \in SUBSET Left(r)
        BY <1>3
    <2> HIDE DEF U
    <2> QED
        BY <1>2, <2>1, FS_Subset
<1>9. Work(r) = 6 * l + Rank(r) - Holds(r) - a - 2 * b - 4 * c
    BY DEF Work
<1> HIDE DEF a, b, c, l, U
<1>10. a + b + c <= l
    BY <1>1, <1>4, <1>5, <1>6, <1>7, <1>8
<1> QED
    BY <1>1, <1>9, <1>10

\* A run that no step concerns keeps its work.
LEMMA WorkStays ==
    ASSUME NEW r \in Run, graph'[r] = graph[r], state'[r] = state[r],
           pending'[r] = pending[r], spawned'[r] = spawned[r],
           started'[r] = started[r], finished'[r] = finished[r],
           \A n \in Name : holder' = <<r, n>> <=> holder = <<r, n>>
    PROVE  Work(r)' = Work(r)
<1>1. Left(r)' = Left(r) /\ Rank(r)' = Rank(r)
    BY DEF Left, Rank
<1>2. Holds(r)' = Holds(r)
    BY DEF Holds
<1> QED
    BY <1>1, <1>2 DEF Work


\* A run's own steps lower its work: what each of them moves.
LEMMA DispatchLowers ==
    ASSUME IInv, NEW r \in Run, Dispatch(r)
    PROVE  Work(r)' \in Int /\ Work(r)' < Work(r)
<1>1. Rank(r)' = 2 /\ Rank(r) = 3 /\ Left(r)' = Left(r)
    BY DEF Dispatch, waves, IInv, TypeOK, Rank, Left
<1>2. Holds(r)' = Holds(r) /\ UNCHANGED <<spawned, started, finished>>
    BY DEF Dispatch, waves, Holds
<1> QED
    BY <1>1, <1>2, WorkTypes DEF Work

LEMMA StartRunLowers ==
    ASSUME IInv, NEW r \in Run, StartRun(r)
    PROVE  Work(r)' \in Int /\ Work(r)' < Work(r)
<1>1. Rank(r)' = 1 /\ Rank(r) = 2 /\ Left(r)' = Left(r)
    BY DEF StartRun, IInv, TypeOK, Rank, Left
<1>2. Holds(r)' = Holds(r) /\ UNCHANGED <<spawned, started, finished>>
    BY DEF StartRun, Holds
<1> QED
    BY <1>1, <1>2, WorkTypes DEF Work

LEMMA EndRunLowers ==
    ASSUME IInv, NEW r \in Run, EndRun(r)
    PROVE  Work(r)' \in Int /\ Work(r)' < Work(r)
<1>1. Rank(r)' = 0 /\ Rank(r) = 1 /\ Left(r)' = Left(r)
    BY DEF EndRun, waves, IInv, TypeOK, Rank, Left
<1>2. Holds(r)' = Holds(r) /\ UNCHANGED <<spawned, started, finished>>
    BY DEF EndRun, waves, Holds
<1> QED
    BY <1>1, <1>2, WorkTypes DEF Work

LEMMA StartWaveLowers ==
    ASSUME IInv, NEW r \in Run, StartWave(r)
    PROVE  Work(r)' \in Int /\ Work(r)' < Work(r)
<1>1. Rank(r)' = 0 /\ Rank(r) = 1 /\ Left(r)' = Left(r)
    BY DEF StartWave, IInv, TypeOK, Rank, Left
<1>2. Holds(r)' = Holds(r) /\ UNCHANGED <<started, finished>>
    BY DEF StartWave, Holds
<1>3. Cardinality(spawned[r]) = 0
    <2>1. spawned[r] = {}
        BY DEF StartWave, IInv, Division, Wave
    <2> QED
        BY <2>1, FS_EmptySet
<1>4. Cardinality(spawned'[r]) \in Nat
    <2>1. spawned'[r] \in Selections(r)
        BY DEF StartWave, IInv, TypeOK
    <2>2. spawned'[r] \subseteq pending[r]
        BY <2>1 DEF Selections, Ready
    <2> QED
        BY <2>2, SetsAreFinite
<1> QED
    BY <1>1, <1>2, <1>3, <1>4, WorkTypes DEF Work

LEMMA StartTaskLowers ==
    ASSUME IInv, NEW r \in Run, NEW n \in Name, StartTask(r, n)
    PROVE  Work(r)' \in Int /\ Work(r)' < Work(r)
<1>1. Rank(r)' = Rank(r) /\ Left(r)' = Left(r) /\ Holds(r)' = Holds(r)
    BY DEF StartTask, Rank, Left, Holds
<1>2. finished' = finished
    BY DEF StartTask
<1>3. /\ spawned'[r] = spawned[r] \ {n} /\ started'[r] = started[r] \cup {n}
      /\ n \in spawned[r] /\ n \notin started[r]
    BY DEF StartTask, IInv, TypeOK, Division
<1>4. IsFiniteSet(spawned[r]) /\ IsFiniteSet(started[r])
    BY SetsAreFinite
<1>5. Cardinality(spawned'[r]) = Cardinality(spawned[r]) - 1
    BY <1>3, <1>4, FS_RemoveElement
<1>6. Cardinality(started'[r]) = Cardinality(started[r]) + 1
    BY <1>3, <1>4, FS_AddElement
<1> QED
    BY <1>1, <1>2, <1>5, <1>6, WorkTypes DEF Work

LEMMA LockTaskLowers ==
    ASSUME IInv, NEW r \in Run, NEW n \in Name, LockTask(r, n)
    PROVE  Work(r)' \in Int /\ Work(r)' < Work(r)
<1>1. Rank(r)' = Rank(r) /\ Left(r)' = Left(r) /\ UNCHANGED <<spawned, started, finished>>
    BY DEF LockTask, waves, Rank, Left
<1>2. Holds(r)' = 1 /\ Holds(r) = 0
    BY HolderKinds DEF LockTask, Holds
<1> QED
    BY <1>1, <1>2, WorkTypes DEF Work

LEMMA FinishTaskLowers ==
    ASSUME IInv, NEW r \in Run, NEW n \in Name, FinishTask(r, n)
    PROVE  Work(r)' \in Int /\ Work(r)' < Work(r)
<1>1. Rank(r)' = Rank(r) /\ Left(r)' = Left(r) /\ spawned' = spawned
    BY DEF FinishTask, Rank, Left
<1>2. Holds(r)' = 0 /\ Holds(r) = 1
    BY HolderKinds DEF FinishTask, Holds
<1>3. /\ started'[r] = started[r] \ {n} /\ finished'[r] = finished[r] \cup {n}
      /\ n \in started[r] /\ n \notin finished[r]
    BY DEF FinishTask, IInv, TypeOK, HolderInv, Division
<1>4. IsFiniteSet(started[r]) /\ IsFiniteSet(finished[r])
    BY SetsAreFinite
<1>5. Cardinality(started'[r]) = Cardinality(started[r]) - 1
    BY <1>3, <1>4, FS_RemoveElement
<1>6. Cardinality(finished'[r]) = Cardinality(finished[r]) + 1
    BY <1>3, <1>4, FS_AddElement
<1> QED
    BY <1>1, <1>2, <1>5, <1>6, WorkTypes DEF Work

LEMMA EndWaveLowers ==
    ASSUME IInv, WaveInv, NEW r \in Run, EndWave(r)
    PROVE  Work(r)' \in Int /\ Work(r)' < Work(r)
<1>1. Rank(r)' = 1 /\ Rank(r) = 0
    BY DEF EndWave, IInv, TypeOK, Rank
<1>2. Holds(r)' = Holds(r) /\ UNCHANGED <<spawned, started>>
    BY DEF EndWave, Holds
<1>3. Left(r)' = pending[r] \ finished[r] /\ Left(r) = pending[r] /\ finished'[r] = {}
    BY DEF EndWave, IInv, TypeOK, Left
<1>4. finished[r] # {} /\ finished[r] \subseteq pending[r]
    BY DEF EndWave, WaveInv, Wave, IInv, Division
<1> DEFINE p == Cardinality(pending[r])
           f == Cardinality(finished[r])
<1>5. IsFiniteSet(pending[r]) /\ IsFiniteSet(finished[r]) /\ p \in Nat /\ f \in Nat
    BY SetsAreFinite
<1>6. Cardinality(Left(r)') = p - f
    <2>1. pending[r] \cap finished[r] = finished[r]
        BY <1>4
    <2>2. Cardinality(pending[r] \ finished[r]) = p - Cardinality(pending[r] \cap finished[r])
        BY <1>5, FS_Difference
    <2> QED
        BY <1>3, <2>1, <2>2
<1>7. f # 0 /\ Cardinality(finished'[r]) = 0
    BY <1>3, <1>4, <1>5, FS_EmptySet
<1>8. Work(r) = 6 * p + 0 - Holds(r) - Cardinality(spawned[r])
                  - 2 * Cardinality(started[r]) - 4 * f
    BY <1>1, <1>3 DEF Work
<1>9. Work(r)' = 6 * (p - f) + 1 - Holds(r) - Cardinality(spawned[r])
                   - 2 * Cardinality(started[r]) - 4 * 0
    BY <1>1, <1>2, <1>6, <1>7 DEF Work
<1> HIDE DEF p, f
<1> QED
    BY <1>5, <1>7, <1>8, <1>9, WorkTypes

\* Whatever happens, a run's work does not grow.
LEMMA WorkOfNext ==
    ASSUME IInv, WaveInv, [Next]_vars, NEW r \in Run
    PROVE  Work(r)' <= Work(r) /\ (StepOf(r) => Work(r)' < Work(r))
<1>1. StepOf(r) => Work(r)' < Work(r)
    BY DispatchLowers, StartRunLowers, StartWaveLowers, EndWaveLowers, EndRunLowers,
       StartTaskLowers, LockTaskLowers, FinishTaskLowers DEF StepOf, RunStep
<1>2. Work(r) \in Int /\ (StepOf(r) => Work(r)' \in Int)
    BY WorkTypes, DispatchLowers, StartRunLowers, StartWaveLowers, EndWaveLowers,
       EndRunLowers, StartTaskLowers, LockTaskLowers, FinishTaskLowers
    DEF StepOf, RunStep
<1>3. ASSUME ~StepOf(r) PROVE Work(r)' = Work(r)
    <2>1. CASE \E s \in Run : Dispatch(s) \/ RunStep(s)
        <3>1. PICK s \in Run : Dispatch(s) \/ RunStep(s)
            BY <2>1
        <3>2. s # r
            BY <1>3, <3>1 DEF StepOf
        <3> QED
            BY <3>1, <3>2, WorkStays
            DEF Dispatch, RunStep, StartRun, StartWave, EndWave, EndRun, waves, IInv, TypeOK
    <2>2. CASE \E s \in Run, n \in Name : StartTask(s, n) \/ LockTask(s, n) \/ FinishTask(s, n)
        <3>1. PICK s \in Run, n \in Name : StartTask(s, n) \/ LockTask(s, n) \/ FinishTask(s, n)
            BY <2>2
        <3>2. s # r
            BY <1>3, <3>1 DEF StepOf
        <3>3. \A m \in Name : <<r, m>> # <<s, n>> /\ <<r, m>> # Nobody
            BY <3>2, HolderKinds
        <3>4. \A m \in Name : holder' = <<r, m>> <=> holder = <<r, m>>
            BY <3>1, <3>3 DEF StartTask, LockTask, FinishTask
        <3>5. /\ graph' = graph /\ state' = state /\ pending' = pending
              /\ spawned'[r] = spawned[r] /\ started'[r] = started[r]
              /\ finished'[r] = finished[r]
            BY <3>1, <3>2 DEF StartTask, LockTask, FinishTask, waves, IInv, TypeOK
        <3> QED
            BY <3>4, <3>5, WorkStays
    <2>3. CASE RequestLocks \/ RequestUnlocks \/ Stop \/ UNCHANGED vars
        <3>1. \A m \in Name : holder' = <<r, m>> <=> holder = <<r, m>>
            BY <2>3, HolderKinds DEF RequestLocks, RequestUnlocks, Stop, vars
        <3>2. UNCHANGED <<graph, state, pending, spawned, started, finished>>
            BY <2>3 DEF RequestLocks, RequestUnlocks, Stop, vars, waves
        <3> QED
            BY <3>1, <3>2, WorkStays
    <2> QED
        BY <2>1, <2>2, <2>3 DEF Next
<1> QED
    BY <1>1, <1>2, <1>3

\* The steps a run of n tasks begins with.
LEMMA WorkAtFirst ==
    ASSUME Init, NEW r \in Run
    PROVE  Work(r) = 6 * Cardinality(DOMAIN graph[r]) + 3
<1>1. /\ Left(r) = DOMAIN graph[r] /\ Rank(r) = 3
      /\ spawned[r] = {} /\ started[r] = {} /\ finished[r] = {}
    BY DEF Init, Left, Rank
<1>2. Holds(r) = 0
    BY HolderKinds DEF Init, Holds
<1>3. Cardinality(DOMAIN graph[r]) \in Nat
    <2>1. IsFiniteSet(DOMAIN graph[r])
        BY DEF Init
    <2> QED
        BY <2>1, FS_CardinalityType
<1> QED
    BY <1>1, <1>2, <1>3, FS_EmptySet DEF Work

\* A run of n tasks is over after at most 6 n + 3 steps of its threads: that
\* many are left to it at first, each of its steps, from its dispatch to its
\* end, lowers what is left, which is never negative, and nothing that other
\* runs, requests or the daemon do raises it.
WorkNeverGrows ==
    \A r \in Run : /\ Work(r)' <= Work(r)
                   /\ StepOf(r) => Work(r)' < Work(r)

THEOREM RunsAreShort ==
    Spec => /\ \A r \in Run : Work(r) = 6 * Cardinality(DOMAIN graph[r]) + 3
            /\ [](\A r \in Run : Work(r) \in Nat)
            /\ [][WorkNeverGrows]_vars
<1>1. Init => \A r \in Run : Work(r) = 6 * Cardinality(DOMAIN graph[r]) + 3
    BY WorkAtFirst
<1>2. IInv => \A r \in Run : Work(r) \in Nat
    BY WorkIsNatural
<1>3. IInv /\ WaveInv /\ [Next]_vars => [WorkNeverGrows]_vars
    BY WorkOfNext DEF WorkNeverGrows
<1> QED
    BY <1>1, <1>2, <1>3, InvHolds, WaveInvHolds, PTL DEF Spec

=============================================================================
