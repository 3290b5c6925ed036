------------------------ MODULE ShyguyRegistryProofs ------------------------
(***************************************************************************)
(* The invariants of ShyguyRegistry, for any sets of names and cron        *)
(* strings and any bounds.  The inductive invariant keeps, beside the      *)
(* types, that no vector repeats a name more often than a request may      *)
(* (CopiesBounded): that is why remove_task, which erases one occurrence,  *)
(* leaves no dangling dependency when MaxCopies < 2.  Where names repeat,  *)
(* CountInv counts them in memory and in the files.                        *)
(***************************************************************************)
EXTENDS ShyguyRegistry, TLAPS

-----------------------------------------------------------------------------
(* What the operators of TaskGraph preserve, for every set of names and    *)
(* every graph.  Nothing here needs the graph to be finite.                *)

(* The graph a DAG starts with is well formed, closed and acyclic.         *)
LEMMA RootGraphSound ==
    ASSUME NEW root \in Name
    PROVE  /\ IsGraph(RootGraph(root))
           /\ Closed(RootGraph(root))
           /\ ~Cyclic(RootGraph(root))
<1>1. \A n \in DOMAIN RootGraph(root) : DepsOf(RootGraph(root), n) = {}
    BY DEF RootGraph, DepsOf, Listed, NoDependencies
<1>2. IsGraph(RootGraph(root))
    BY DEF IsGraph, RootGraph, Bag, NoDependencies
<1>3. Closed(RootGraph(root))
    BY <1>1 DEF Closed
<1>4. ~Cyclic(RootGraph(root))
    BY <1>1 DEF Cyclic, Trapped
<1> QED
    BY <1>2, <1>3, <1>4

LEMMA InsertedIsGraph ==
    ASSUME NEW g, IsGraph(g), NEW n \in Name, NEW bag \in Bag
    PROVE  IsGraph(Inserted(g, n, bag))
BY DEF IsGraph, Inserted

LEMMA RemovedIsGraph ==
    ASSUME NEW g, IsGraph(g), NEW n \in Name
    PROVE  IsGraph(Removed(g, n))
<1>1. \A bag \in Bag : Unlisted(bag, n) \in Bag
    <2> SUFFICES ASSUME NEW bag \in Bag PROVE Unlisted(bag, n) \in Bag
        OBVIOUS
    <2>1. bag[n] \in Nat
        BY DEF Bag
    <2>2. (IF bag[n] > 0 THEN bag[n] - 1 ELSE 0) \in Nat
        BY <2>1
    <2> QED
        BY <2>2 DEF Bag, Unlisted
<1> QED
    BY <1>1 DEF IsGraph, Removed

(***************************************************************************)
(* push_task can answer task_creates_cycle for one reason only: in a       *)
(* closed acyclic graph, a new node whose dependencies all exist closes no *)
(* cycle, because nothing depends on it yet.                               *)
(***************************************************************************)
THEOREM PushKeepsSound ==
    ASSUME NEW g, IsGraph(g), Closed(g), ~Cyclic(g),
           NEW n \in Name \ DOMAIN g, NEW bag \in Bag,
           Listed(bag) \subseteq DOMAIN g
    PROVE  /\ Closed(Inserted(g, n, bag))
           /\ ~Cyclic(Inserted(g, n, bag))
<1> DEFINE h == Inserted(g, n, bag)
<1>1. DOMAIN h = DOMAIN g \cup {n}
    BY DEF Inserted
<1>2. DepsOf(h, n) = Listed(bag)
    BY DEF Inserted, DepsOf
<1>3. ASSUME NEW m \in DOMAIN g PROVE DepsOf(h, m) = DepsOf(g, m)
    BY DEF Inserted, DepsOf
<1>4. Closed(h)
    BY <1>1, <1>2, <1>3 DEF Closed
<1>5. ASSUME NEW S \in SUBSET DOMAIN h, Trapped(h, S) PROVE FALSE
    <2> DEFINE T == S \ {n}
    <2>1. T \subseteq DOMAIN g
        BY <1>1
    <2>2. ASSUME NEW m \in S PROVE DepsOf(h, m) \cap T # {}
        <3>1. DepsOf(h, m) \subseteq DOMAIN g
            BY <1>1, <1>2, <1>3 DEF Closed
        <3> QED
            BY <1>5, <3>1 DEF Trapped
    <2>3. Trapped(g, T)
        BY <1>3, <1>5, <2>1, <2>2 DEF Trapped
    <2> QED
        BY <2>1, <2>3 DEF Cyclic
<1>6. ~Cyclic(h)
    BY <1>5 DEF Cyclic
<1> QED
    BY <1>4, <1>6

(***************************************************************************)
(* remove_task only takes dependencies away, so it closes no cycle.        *)
(***************************************************************************)
LEMMA RemovedListsLess ==
    ASSUME NEW g, IsGraph(g), NEW n \in Name, NEW m \in DOMAIN Removed(g, n)
    PROVE  /\ m \in DOMAIN g
           /\ DepsOf(Removed(g, n), m) \subseteq DepsOf(g, m)
           /\ g[m][n] < 2 => n \notin DepsOf(Removed(g, n), m)
<1>1. m \in DOMAIN g /\ Removed(g, n)[m] = Unlisted(g[m], n)
    BY DEF Removed
<1>2. g[m] \in Bag /\ g[m][n] \in Nat
    BY <1>1 DEF IsGraph, Bag
<1>3. Unlisted(g[m], n)[n] = IF g[m][n] > 0 THEN g[m][n] - 1 ELSE 0
    BY <1>2 DEF Unlisted, Bag
<1>4. \A d \in Name \ {n} : Unlisted(g[m], n)[d] = g[m][d]
    BY <1>2 DEF Unlisted, Bag
<1>5. Unlisted(g[m], n)[n] > 0 => g[m][n] > 1
    BY <1>2, <1>3
<1>6. Listed(Unlisted(g[m], n)) \subseteq Listed(g[m])
    BY <1>2, <1>4, <1>5 DEF Listed
<1>7. g[m][n] < 2 => n \notin Listed(Unlisted(g[m], n))
    BY <1>2, <1>5 DEF Listed
<1> QED
    BY <1>1, <1>6, <1>7 DEF DepsOf

THEOREM RemoveKeepsAcyclic ==
    ASSUME NEW g, IsGraph(g), ~Cyclic(g), NEW n \in Name
    PROVE  ~Cyclic(Removed(g, n))
<1> SUFFICES ASSUME NEW S \in SUBSET DOMAIN Removed(g, n),
                    Trapped(Removed(g, n), S)
             PROVE  Cyclic(g)
    BY DEF Cyclic
<1>1. S \subseteq DOMAIN g
    BY DEF Removed
<1>2. ASSUME NEW m \in S PROVE DepsOf(Removed(g, n), m) \subseteq DepsOf(g, m)
    BY RemovedListsLess
<1>3. Trapped(g, S)
    BY <1>2 DEF Trapped
<1> QED
    BY <1>1, <1>3 DEF Cyclic

(***************************************************************************)
(* remove_task leaves no dangling dependency when no vector lists the      *)
(* removed name twice: it erases one occurrence, and one is all there is.  *)
(***************************************************************************)
THEOREM RemoveKeepsClosed ==
    ASSUME NEW g, IsGraph(g), Closed(g), NEW n \in Name,
           \A m \in DOMAIN g : g[m][n] < 2
    PROVE  Closed(Removed(g, n))
<1> SUFFICES ASSUME NEW m \in DOMAIN Removed(g, n)
             PROVE  DepsOf(Removed(g, n), m) \subseteq DOMAIN Removed(g, n)
    BY DEF Closed
<1>1. /\ m \in DOMAIN g
      /\ DepsOf(Removed(g, n), m) \subseteq DepsOf(g, m)
      /\ g[m][n] < 2 => n \notin DepsOf(Removed(g, n), m)
    BY RemovedListsLess
<1>2. DepsOf(g, m) \subseteq DOMAIN g
    BY <1>1 DEF Closed
<1> QED
    BY <1>1, <1>2 DEF Removed

-----------------------------------------------------------------------------
(* The invariants of the registry.                                         *)

USE RegistryAssumption

GraphOK(g) == /\ IsGraph(g)
              /\ ~Cyclic(g)
              /\ \A n \in DOMAIN g, m \in Name : g[n][m] <= MaxCopies
              /\ MaxCopies < 2 => Closed(g)

RunOK(run) == /\ run.dag \in Dag
              /\ IsGraph(run.graph)
              /\ Closed(run.graph)
              /\ ~Cyclic(run.graph)

GraphInv == /\ DOMAIN dags \subseteq Dag
            /\ \A d \in DOMAIN dags : GraphOK(dags[d])
ScheduleInv == /\ DOMAIN schedules \subseteq Dag
               /\ \A d \in DOMAIN schedules : schedules[d] \in Cron
QueueInv == /\ sequence \in 0..MaxSequence
            /\ \A run \in queue : RunOK(run) /\ run.sequence \in 0..sequence - 1
DiskInv == /\ DOMAIN diskDags \subseteq Dag
           /\ \A d \in DOMAIN diskDags : diskDags[d] \in CronOrNone
           /\ DOMAIN diskTasks \subseteq Dag \X TaskName
           /\ \A t \in DOMAIN diskTasks : /\ diskTasks[t].deps \in Dependencies
                                          /\ diskTasks[t].cron \in CronOrNone

IInv == up \in BOOLEAN /\ GraphInv /\ ScheduleInv /\ QueueInv /\ DiskInv

-----------------------------------------------------------------------------
(* The graph operations keep a graph in order.                             *)

LEMMA RootOK == ASSUME NEW d \in Dag PROVE GraphOK(RootGraph(d))
<1>1. \A n \in DOMAIN RootGraph(d), m \in Name : RootGraph(d)[n][m] <= MaxCopies
    BY DEF RootGraph, NoDependencies
<1> QED
    BY <1>1, RootGraphSound DEF GraphOK

LEMMA PushOK ==
    ASSUME NEW g, GraphOK(g), NEW n \in TaskName, NEW deps \in Dependencies,
           NEW pushed \in PushResults(g, n, deps)
    PROVE  GraphOK(pushed.graph)
<1>1. deps \in Bag /\ \A m \in Name : deps[m] <= MaxCopies
    BY DEF Dependencies, Bag
<1>2. CASE pushed.graph = g
    BY <1>2
<1>3. CASE pushed.graph # g
    <2>1. n \notin DOMAIN g
        BY <1>3 DEF PushResults
    <2>2. /\ pushed.graph = Inserted(g, n, deps)
          /\ "acyclic" \in SearchOutcomes(Inserted(g, n, deps))
        BY <1>3, <2>1 DEF PushResults
    <2>3. ~Cyclic(pushed.graph) /\ Closed(pushed.graph)
        BY <2>2 DEF SearchOutcomes
    <2>4. IsGraph(pushed.graph)
        BY <1>1, <2>2, InsertedIsGraph DEF GraphOK
    <2>5. \A k \in DOMAIN pushed.graph, m \in Name : pushed.graph[k][m] <= MaxCopies
        BY <1>1, <2>2 DEF GraphOK, Inserted
    <2> QED
        BY <2>3, <2>4, <2>5 DEF GraphOK
<1> QED
    BY <1>2, <1>3

LEMMA RemovedCounts ==
    ASSUME NEW g, IsGraph(g), NEW n \in Name, NEW k \in DOMAIN Removed(g, n), NEW m \in Name
    PROVE  k \in DOMAIN g /\ g[k][m] \in Nat /\ Removed(g, n)[k][m] <= g[k][m]
<1>1. k \in DOMAIN g /\ Removed(g, n)[k] = Unlisted(g[k], n)
    BY DEF Removed
<1>2. g[k] \in Bag /\ g[k][m] \in Nat /\ g[k][n] \in Nat
    BY <1>1 DEF IsGraph, Bag
<1>3. Unlisted(g[k], n)[m] <= g[k][m]
    BY <1>2 DEF Unlisted, Bag
<1> QED
    BY <1>1, <1>2, <1>3

LEMMA RemoveOK ==
    ASSUME NEW g, GraphOK(g), NEW n \in TaskName
    PROVE  GraphOK(Removed(g, n))
<1>1. IsGraph(g) /\ ~Cyclic(g) /\ n \in Name
    BY DEF GraphOK
<1>2. IsGraph(Removed(g, n)) /\ ~Cyclic(Removed(g, n))
    BY <1>1, RemovedIsGraph, RemoveKeepsAcyclic
<1>3. ASSUME NEW k \in DOMAIN Removed(g, n), NEW m \in Name
      PROVE  Removed(g, n)[k][m] <= MaxCopies
    <2>1. k \in DOMAIN g /\ g[k][m] \in Nat /\ Removed(g, n)[k][m] <= g[k][m]
        BY <1>1, RemovedCounts
    <2>2. Removed(g, n)[k][m] \in Nat
        BY <1>2 DEF IsGraph, Bag
    <2>3. g[k][m] <= MaxCopies
        BY <2>1 DEF GraphOK
    <2> QED
        BY <2>1, <2>2, <2>3
<1>4. ASSUME MaxCopies < 2 PROVE Closed(Removed(g, n))
    <2>1. Closed(g)
        BY <1>4 DEF GraphOK
    <2>2. \A m \in DOMAIN g : g[m][n] \in Nat /\ g[m][n] <= MaxCopies
        BY <1>1 DEF GraphOK, IsGraph, Bag
    <2>3. \A m \in DOMAIN g : g[m][n] < 2
        BY <1>4, <2>2
    <2> QED
        BY <1>1, <2>1, <2>3, RemoveKeepsClosed
<1> QED
    BY <1>2, <1>3, <1>4 DEF GraphOK

-----------------------------------------------------------------------------
(* Steps that many actions share.                                          *)

LEMMA InitInv == Init => IInv
<1> SUFFICES ASSUME Init PROVE IInv
    OBVIOUS
<1> QED
    BY DEF Init, IInv, GraphInv, ScheduleInv, QueueInv, DiskInv, NoEntries

LEMMA RefuseStep == ASSUME IInv, NEW r, Refuse(r) PROVE IInv'
BY DEF IInv, GraphInv, ScheduleInv, QueueInv, DiskInv, Refuse, Answer, memory, disk

LEMMA DownStep == ASSUME IInv, NEW r, Down(r) PROVE IInv'
<1>1. DiskInv'
    BY DEF IInv, DiskInv, Down, disk
<1>2. DOMAIN dags' = {} /\ DOMAIN schedules' = {}
    BY DEF Down, NoEntries
<1>3. GraphInv' /\ ScheduleInv'
    BY <1>2 DEF GraphInv, ScheduleInv
<1>4. QueueInv'
    BY DEF Down, QueueInv
<1> QED
    BY <1>1, <1>3, <1>4 DEF IInv, Down

LEMMA StoredIsOne ==
    ASSUME NEW old, NEW new, NEW x \in Stored(old, new)
    PROVE  x = old \/ x = new
BY DEF Stored

LEMMA MetadataType ==
    ASSUME IInv, NEW d \in Dag
    PROVE  MetadataCron(d) \in CronOrNone
BY DEF IInv, ScheduleInv, DiskInv, MetadataCron, CronOrNone

-----------------------------------------------------------------------------
(* One step lemma per request that changes the table.                      *)

LEMMA CreateDagStep ==
    ASSUME IInv, NEW d \in Dag, NEW cron \in CronOrNone, CreateDag(d, cron)
    PROVE  IInv'
<1>1. CASE d \in DOMAIN dags
    BY <1>1, RefuseStep DEF CreateDag
<1>2. CASE d \notin DOMAIN dags
    <2>1. GraphInv'
        BY <1>2, RootOK DEF CreateDag, Put, IInv, GraphInv
    <2>2. ScheduleInv'
        BY <1>2 DEF CreateDag, Put, IInv, ScheduleInv, CronOrNone
    <2>3. QueueInv'
        BY <1>2 DEF CreateDag, IInv, QueueInv
    <2>4. diskTasks' = diskTasks
          /\ (diskDags' = diskDags \/ diskDags' = Put(diskDags, d, cron))
        BY <1>2, StoredIsOne DEF CreateDag
    <2>5. DiskInv'
        BY <2>4 DEF Put, IInv, DiskInv
    <2> QED
        BY <1>2, <2>1, <2>2, <2>3, <2>5 DEF CreateDag, Answer, IInv
<1> QED
    BY <1>1, <1>2

LEMMA RemoveDagStep ==
    ASSUME IInv, NEW d \in Dag, NEW cron \in CronOrNone, RemoveDag(d, cron)
    PROVE  IInv'
<1>1. CASE d \notin DOMAIN dags
    BY <1>1, RefuseStep DEF RemoveDag
<1>2. CASE d \in DOMAIN dags
    <2>1. GraphInv'
        BY <1>2 DEF RemoveDag, Without, IInv, GraphInv
    <2>2. ScheduleInv'
        BY <1>2 DEF RemoveDag, Without, IInv, ScheduleInv
    <2>3. QueueInv'
        BY <1>2 DEF RemoveDag, IInv, QueueInv
    <2>4. diskTasks' = diskTasks
          /\ (diskDags' = diskDags \/ diskDags' = Without(diskDags, d))
        BY <1>2, StoredIsOne DEF RemoveDag
    <2>5. DiskInv'
        BY <2>4 DEF Without, IInv, DiskInv
    <2> QED
        BY <1>2, <2>1, <2>2, <2>3, <2>5 DEF RemoveDag, Answer, IInv
<1> QED
    BY <1>1, <1>2

LEMMA CreateTaskStep ==
    ASSUME IInv, NEW d \in Dag, NEW n \in TaskName, NEW deps \in Dependencies,
           CreateTask(d, n, deps)
    PROVE  IInv'
<1>1. CASE d \notin DOMAIN dags
    BY <1>1, DownStep DEF CreateTask
<1>2. CASE d \in DOMAIN dags
    <2>1. PICK pushed \in PushResults(dags[d], n, deps) :
               \/ /\ pushed.result = "terminate"
                  /\ Down("terminate")
               \/ /\ pushed.result # "terminate"
                  /\ Answer(pushed.result)
                  /\ dags' = [dags EXCEPT ![d] = pushed.graph]
                  /\ diskTasks' \in
                        IF pushed.result = "ok"
                        THEN Stored(diskTasks,
                                    Put(diskTasks, <<d, n>>, TaskEntry(d, n, deps)))
                        ELSE {diskTasks}
                  /\ UNCHANGED <<schedules, queue, sequence, diskDags>>
        BY <1>2 DEF CreateTask
    <2>2. CASE pushed.result = "terminate"
        BY <2>1, <2>2, DownStep
    <2>3. CASE pushed.result # "terminate"
        <3>1. GraphOK(pushed.graph)
            BY <1>2, PushOK DEF IInv, GraphInv
        <3>2. GraphInv'
            BY <2>1, <2>3, <3>1 DEF IInv, GraphInv
        <3>3. ScheduleInv' /\ QueueInv'
            BY <2>1, <2>3 DEF IInv, ScheduleInv, QueueInv
        <3>4. TaskEntry(d, n, deps).deps \in Dependencies
              /\ TaskEntry(d, n, deps).cron \in CronOrNone
            BY MetadataType DEF TaskEntry, IInv, DiskInv
        <3>5. \/ diskTasks' = diskTasks
              \/ diskTasks' = Put(diskTasks, <<d, n>>, TaskEntry(d, n, deps))
            BY <2>1, <2>3, StoredIsOne
        <3>6. DiskInv'
            BY <2>1, <2>3, <3>4, <3>5 DEF Put, IInv, DiskInv
        <3> QED
            BY <2>1, <2>3, <3>2, <3>3, <3>6 DEF Answer, IInv
    <2> QED
        BY <2>2, <2>3
<1> QED
    BY <1>1, <1>2

LEMMA RemoveTaskStep ==
    ASSUME IInv, NEW d \in Dag, NEW n \in TaskName, RemoveTask(d, n)
    PROVE  IInv'
<1>1. CASE d \in DOMAIN dags /\ n \notin DOMAIN dags[d]
    BY <1>1, RefuseStep DEF RemoveTask
<1>2. CASE ~(d \in DOMAIN dags /\ n \notin DOMAIN dags[d])
    <2>1. dags' = dags \/ (d \in DOMAIN dags
                           /\ dags' = [dags EXCEPT ![d] = Removed(dags[d], n)])
        BY <1>2 DEF RemoveTask
    <2>2. GraphInv'
        BY <2>1, RemoveOK DEF IInv, GraphInv
    <2>3. ScheduleInv' /\ QueueInv'
        BY <1>2 DEF RemoveTask, IInv, ScheduleInv, QueueInv
    <2>4. diskDags' = diskDags
          /\ (diskTasks' = diskTasks \/ diskTasks' = Without(diskTasks, <<d, n>>))
        BY <1>2, StoredIsOne DEF RemoveTask
    <2>5. DiskInv'
        BY <2>4 DEF Without, IInv, DiskInv
    <2> QED
        BY <1>2, <2>2, <2>3, <2>5 DEF RemoveTask, Answer, IInv
<1> QED
    BY <1>1, <1>2

LEMMA ExecuteAtStep ==
    ASSUME IInv, NEW d \in Dag, ExecuteAt(d)
    PROVE  IInv'
<1>1. CASE d \notin DOMAIN dags
    BY <1>1, RefuseStep DEF ExecuteAt
<1>2. CASE d \in DOMAIN dags
    <2> DEFINE run == [sequence |-> sequence, dag |-> d, graph |-> dags[d]]
    <2>1. CASE Refuse("task_creates_cycle") \/ Down("terminate")
        BY <2>1, RefuseStep, DownStep
    <2>2. CASE /\ "acyclic" \in SearchOutcomes(dags[d])
               /\ sequence < MaxSequence
               /\ Answer("not_currently_supported")
               /\ queue' = queue \cup {run}
               /\ sequence' = sequence + 1
               /\ UNCHANGED <<dags, schedules, disk>>
        <3>1. GraphInv' /\ ScheduleInv' /\ DiskInv'
            BY <2>2 DEF IInv, GraphInv, ScheduleInv, DiskInv, disk
        <3>2. ~Cyclic(dags[d]) /\ Closed(dags[d])
            BY <2>2 DEF SearchOutcomes
        <3>3. RunOK(run)
            BY <1>2, <3>2 DEF RunOK, IInv, GraphInv, GraphOK
        <3>4. sequence' \in 0..MaxSequence
            BY <2>2 DEF IInv, QueueInv
        <3>5. ASSUME NEW r \in queue' PROVE RunOK(r) /\ r.sequence \in 0..sequence' - 1
            <4>1. CASE r \in queue
                BY <2>2, <4>1 DEF IInv, QueueInv
            <4>2. CASE r = run
                <5>1. RunOK(r)
                    BY <3>3, <4>2
                <5>2. r.sequence = sequence
                    BY <4>2
                <5>3. r.sequence \in 0..sequence' - 1
                    BY <2>2, <5>2 DEF IInv, QueueInv
                <5> QED
                    BY <5>1, <5>3
            <4> QED
                BY <2>2, <4>1, <4>2
        <3>6. QueueInv'
            BY <3>4, <3>5 DEF QueueInv, RunOK
        <3> QED
            BY <2>2, <3>1, <3>6 DEF Answer, IInv
    <2> QED
        BY <1>2, <2>1, <2>2 DEF ExecuteAt, SearchOutcomes
<1> QED
    BY <1>1, <1>2

LEMMA ExecuteTaskStep ==
    ASSUME IInv, NEW d \in Dag, ExecuteTask(d)
    PROVE  IInv'
BY RefuseStep, DownStep DEF ExecuteTask

LEMMA OtherStep ==
    ASSUME IInv, ProcessOther \/ Dequeue \/ Stop \/ Restart
    PROVE  IInv'
<1>1. CASE ProcessOther
    BY <1>1, RefuseStep DEF ProcessOther
<1>2. CASE Dequeue
    <2>1. QueueInv'
        BY <1>2 DEF Dequeue, IInv, QueueInv
    <2> QED
        BY <1>2, <2>1 DEF Dequeue, IInv, GraphInv, ScheduleInv, DiskInv, disk
<1>3. CASE Stop
    BY <1>3, DownStep DEF Stop
<1>4. CASE Restart
    BY <1>4 DEF Restart, IInv, GraphInv, ScheduleInv, QueueInv, DiskInv, memory, disk
<1> QED
    BY <1>1, <1>2, <1>3, <1>4

LEMMA NextInv == IInv /\ [Next]_vars => IInv'
<1> SUFFICES ASSUME IInv, [Next]_vars PROVE IInv'
    OBVIOUS
<1>1. CASE \E d \in Dag, cron \in CronOrNone : CreateDag(d, cron) \/ RemoveDag(d, cron)
    BY <1>1, CreateDagStep, RemoveDagStep
<1>2. CASE \E d \in Dag, n \in TaskName :
              \/ \E deps \in Dependencies : CreateTask(d, n, deps)
              \/ RemoveTask(d, n)
    BY <1>2, CreateTaskStep, RemoveTaskStep
<1>3. CASE \E d \in Dag : ExecuteAt(d) \/ ScheduledExecute(d) \/ ExecuteTask(d)
    BY <1>3, ExecuteAtStep, ExecuteTaskStep DEF ScheduledExecute
<1>4. CASE ProcessOther \/ Dequeue \/ Stop \/ Restart
    BY <1>4, OtherStep
<1>5. CASE UNCHANGED vars
    BY <1>5 DEF vars, memory, disk, IInv, GraphInv, ScheduleInv, QueueInv, DiskInv
<1> QED
    BY <1>1, <1>2, <1>3, <1>4, <1>5 DEF Next

LEMMA InvHolds == Spec => []IInv
BY InitInv, NextInv, PTL DEF Spec

-----------------------------------------------------------------------------
\* task_map: only create(task) assigns, and only the end of the process clears.
TaskMapInv == /\ DOMAIN taskMap \subseteq TaskName
              /\ \A n \in DOMAIN taskMap : taskMap[n] \in Dag

LEMMA TaskMapStep == TaskMapInv /\ [Next]_vars => TaskMapInv'
<1> SUFFICES ASSUME TaskMapInv, [Next]_vars PROVE TaskMapInv'
    OBVIOUS
<1>1. CASE UNCHANGED taskMap
    BY <1>1 DEF TaskMapInv
<1>2. CASE taskMap' = NoEntries
    BY <1>2 DEF TaskMapInv, NoEntries
<1>3. CASE \E d \in Dag, n \in TaskName : taskMap' = Put(taskMap, n, d)
    BY <1>3 DEF TaskMapInv, Put
<1>4. \A r : Refuse(r) => UNCHANGED taskMap
    BY DEF Refuse, memory
<1>5. \A r : Down(r) => taskMap' = NoEntries
    BY DEF Down
<1>6. ASSUME NEW d \in Dag, NEW n \in TaskName, NEW deps \in Dependencies,
             CreateTask(d, n, deps)
      PROVE  taskMap' \in {NoEntries, Put(taskMap, n, d)}
    BY <1>5, <1>6 DEF CreateTask
<1>7. ASSUME ProcessOther \/ Dequeue \/ Stop \/ Restart \/ UNCHANGED vars
      PROVE  taskMap' \in {NoEntries, taskMap}
    BY <1>4, <1>5, <1>7 DEF ProcessOther, Dequeue, Stop, Restart, vars, memory
<1>8. \/ taskMap' \in {NoEntries, taskMap}
      \/ \E d \in Dag, n \in TaskName : taskMap' = Put(taskMap, n, d)
    <2>1. CASE \E d \in Dag, n \in TaskName, deps \in Dependencies : CreateTask(d, n, deps)
        BY <1>6, <2>1
    <2>2. CASE \E d \in Dag :
                  \/ \E cron \in CronOrNone : CreateDag(d, cron) \/ RemoveDag(d, cron)
                  \/ \E n \in TaskName : RemoveTask(d, n)
                  \/ ExecuteAt(d) \/ ScheduledExecute(d) \/ ExecuteTask(d)
        <3>1. PICK d \in Dag :
                  \/ \E cron \in CronOrNone : CreateDag(d, cron) \/ RemoveDag(d, cron)
                  \/ \E n \in TaskName : RemoveTask(d, n)
                  \/ ExecuteAt(d) \/ ScheduledExecute(d) \/ ExecuteTask(d)
            BY <2>2
        <3>2. taskMap' \in {NoEntries, taskMap}
            BY <1>4, <1>5, <3>1
               DEF CreateDag, RemoveDag, RemoveTask, ExecuteAt, ScheduledExecute, ExecuteTask
        <3> QED
            BY <3>2
    <2>3. CASE ProcessOther \/ Dequeue \/ Stop \/ Restart \/ UNCHANGED vars
        BY <1>7, <2>3
    <2> QED
        BY <2>1, <2>2, <2>3 DEF Next
<1> QED
    BY <1>1, <1>2, <1>3, <1>8

(* Every variable keeps its type, on disk and in memory.                   *)
THEOREM TypeCorrect == Spec => []TypeOK
<1>1. IInv /\ TaskMapInv => TypeOK
    BY DEF IInv, GraphInv, ScheduleInv, QueueInv, DiskInv, TaskMapInv, GraphOK, RunOK, TypeOK
<1>2. Init => TaskMapInv
    BY DEF Init, TaskMapInv, NoEntries
<1> QED
    BY <1>1, <1>2, TaskMapStep, InvHolds, PTL DEF Spec

(* No sequence of requests puts a cycle into the graph of a DAG.           *)
THEOREM AlwaysAcyclic == Spec => []GraphsAcyclic
<1>1. IInv => GraphsAcyclic
    BY DEF IInv, GraphInv, GraphOK, GraphsAcyclic
<1> QED
    BY <1>1, InvHolds, PTL

(* When no request repeats a name, no graph names a missing node, so no    *)
(* search throws: removing a task never breaks the DAG it is taken from.   *)
THEOREM AlwaysClosed == Spec => []GraphsClosed
<1>1. IInv => GraphsClosed
    BY DEF IInv, GraphInv, GraphOK, GraphsClosed
<1> QED
    BY <1>1, InvHolds, PTL

(* Every run the executioner can be given, it can execute to the end.      *)
THEOREM RunsComplete == Spec => []QueuedRunsComplete
<1>1. IInv => QueuedRunsComplete
    BY DEF IInv, QueueInv, RunOK, QueuedRunsComplete
<1> QED
    BY <1>1, InvHolds, PTL

-----------------------------------------------------------------------------
(* Memory and files, when the storage works.  An entry of the table is on  *)
(* disk by itself, so each request is a question about one DAG.            *)

EntryOnDisk(d) ==
    /\ d \in DOMAIN diskDags
    /\ \A n \in DOMAIN dags[d] \ {d} :
          /\ <<d, n>> \in DOMAIN diskTasks
          /\ \A m \in Name : dags[d][n][m] <= diskTasks[<<d, n>>].deps[m]

LEMMA PersistedIsOnDisk == MemoryIsPersisted <=> \A d \in DOMAIN dags : EntryOnDisk(d)
BY DEF MemoryIsPersisted, EntryOnDisk

LEMMA SameTablesPersist ==
    ASSUME MemoryIsPersisted, UNCHANGED disk,
           DOMAIN dags' = DOMAIN dags, \A d \in DOMAIN dags : dags'[d] = dags[d]
    PROVE  MemoryIsPersisted'
BY DEF MemoryIsPersisted, disk

LEMMA DownPersists == ASSUME NEW r, Down(r) PROVE MemoryIsPersisted'
<1>1. DOMAIN dags' = {}
    BY DEF Down, NoEntries
<1> QED
    BY <1>1 DEF MemoryIsPersisted

LEMMA RefusePersists ==
    ASSUME MemoryIsPersisted, NEW r, Refuse(r)
    PROVE  MemoryIsPersisted'
BY SameTablesPersist DEF Refuse, memory

LEMMA DagRequestsPersist ==
    ASSUME IInv, MemoryIsPersisted, WritesMayFail = FALSE,
           NEW d \in Dag, NEW cron \in CronOrNone,
           CreateDag(d, cron) \/ RemoveDag(d, cron)
    PROVE  MemoryIsPersisted'
<1>1. CASE CreateDag(d, cron) /\ d \notin DOMAIN dags
    <2>1. /\ dags' = Put(dags, d, RootGraph(d))
          /\ diskDags' = Put(diskDags, d, cron)
          /\ diskTasks' = diskTasks
        BY <1>1 DEF CreateDag, Stored
    <2>2. ASSUME NEW e \in DOMAIN dags' PROVE EntryOnDisk(e)'
        <3>1. CASE e = d
            BY <2>1, <3>1 DEF Put, RootGraph, EntryOnDisk
        <3>2. CASE e # d
            <4>1. e \in DOMAIN dags /\ dags'[e] = dags[e] /\ EntryOnDisk(e)
                BY <2>1, <3>2, PersistedIsOnDisk DEF Put
            <4> QED
                BY <2>1, <4>1 DEF Put, EntryOnDisk
        <3> QED
            BY <3>1, <3>2
    <2> QED
        BY <2>2 DEF MemoryIsPersisted, EntryOnDisk
<1>2. CASE RemoveDag(d, cron) /\ d \in DOMAIN dags
    <2>1. /\ dags' = Without(dags, d)
          /\ diskDags' = Without(diskDags, d)
          /\ diskTasks' = diskTasks
        BY <1>2 DEF RemoveDag, Stored
    <2> QED
        BY <2>1 DEF Without, MemoryIsPersisted
<1> QED
    BY <1>1, <1>2, RefusePersists DEF CreateDag, RemoveDag

\* What create(shyguy_task) does, when the storage works.
LEMMA CreateTaskCases ==
    ASSUME WritesMayFail = FALSE, NEW d \in Dag, NEW n \in TaskName,
           NEW deps \in Dependencies, CreateTask(d, n, deps)
    PROVE  \/ Down("terminate")
           \/ /\ d \in DOMAIN dags
              /\ dags' = [dags EXCEPT ![d] = dags[d]]
              /\ UNCHANGED <<schedules, queue, sequence, disk>>
              /\ Answer("contains_duplicates") \/ Answer("task_creates_cycle")
           \/ /\ d \in DOMAIN dags
              /\ n \notin DOMAIN dags[d]
              /\ Closed(Inserted(dags[d], n, deps))
              /\ dags' = [dags EXCEPT ![d] = Inserted(dags[d], n, deps)]
              /\ diskDags' = diskDags
              /\ diskTasks' = Put(diskTasks, <<d, n>>, TaskEntry(d, n, deps))
              /\ Answer("ok")
<1>1. CASE d \notin DOMAIN dags
    BY <1>1 DEF CreateTask
<1>2. CASE d \in DOMAIN dags
    <2>1. PICK pushed \in PushResults(dags[d], n, deps) :
              \/ Down("terminate")
              \/ /\ pushed.result # "terminate"
                 /\ Answer(pushed.result)
                 /\ dags' = [dags EXCEPT ![d] = pushed.graph]
                 /\ diskDags' = diskDags
                 /\ UNCHANGED <<schedules, queue, sequence>>
                 /\ IF pushed.result = "ok"
                    THEN diskTasks' = Put(diskTasks, <<d, n>>, TaskEntry(d, n, deps))
                    ELSE diskTasks' = diskTasks
        BY <1>2 DEF CreateTask, Stored
    <2>2. pushed.result = "ok" => /\ n \notin DOMAIN dags[d]
                                  /\ Closed(Inserted(dags[d], n, deps))
                                  /\ pushed.graph = Inserted(dags[d], n, deps)
        BY DEF PushResults, SearchOutcomes
    <2>3. pushed.result # "ok" =>
              /\ pushed.graph = dags[d]
              /\ pushed.result \in {"contains_duplicates", "task_creates_cycle", "terminate"}
        BY DEF PushResults, SearchOutcomes
    <2> QED
        BY <1>2, <2>1, <2>2, <2>3 DEF disk
<1> QED
    BY <1>1, <1>2

LEMMA CreateTaskPersists ==
    ASSUME IInv, MemoryIsPersisted, WritesMayFail = FALSE,
           NEW d \in Dag, NEW n \in TaskName, NEW deps \in Dependencies,
           CreateTask(d, n, deps)
    PROVE  MemoryIsPersisted'
<1>1. CASE \E r : Down(r)
    BY <1>1, DownPersists
<1>2. CASE /\ d \in DOMAIN dags
           /\ dags' = [dags EXCEPT ![d] = dags[d]]
           /\ UNCHANGED disk
    BY <1>2, SameTablesPersist
<1>3. CASE /\ d \in DOMAIN dags
           /\ dags' = [dags EXCEPT ![d] = Inserted(dags[d], n, deps)]
           /\ diskDags' = diskDags
           /\ diskTasks' = Put(diskTasks, <<d, n>>, TaskEntry(d, n, deps))
    <2>1. ASSUME NEW e \in DOMAIN dags' PROVE EntryOnDisk(e)'
        <3>1. e \in DOMAIN dags /\ EntryOnDisk(e)
            BY <1>3, PersistedIsOnDisk
        <3>2. CASE e # d
            <4>1. dags'[e] = dags[e]
                BY <1>3, <3>1, <3>2
            <4>2. \A k : <<e, k>> \in DOMAIN diskTasks =>
                            /\ <<e, k>> \in DOMAIN diskTasks'
                            /\ diskTasks'[<<e, k>>] = diskTasks[<<e, k>>]
                BY <1>3, <3>2 DEF Put
            <4> QED
                BY <1>3, <3>1, <4>1, <4>2 DEF EntryOnDisk
        <3>3. CASE e = d
            <4>1. dags'[e] = Inserted(dags[e], n, deps)
                BY <1>3, <3>3
            <4>2. ASSUME NEW k \in DOMAIN dags'[e] \ {e}
                  PROVE  /\ <<e, k>> \in DOMAIN diskTasks'
                         /\ \A m \in Name :
                               dags'[e][k][m] <= diskTasks'[<<e, k>>].deps[m]
                <5>1. CASE k = n
                    <6>1. <<e, k>> \in DOMAIN diskTasks'
                          /\ diskTasks'[<<e, k>>].deps = deps
                        BY <1>3, <3>3, <5>1 DEF Put, TaskEntry
                    <6>2. dags'[e][k] = deps
                        BY <4>1, <5>1 DEF Inserted
                    <6>3. \A m \in Name : deps[m] \in Nat
                        BY DEF Dependencies
                    <6> QED
                        BY <6>1, <6>2, <6>3
                <5>2. CASE k # n
                    <6>1. k \in DOMAIN dags[e] \ {e} /\ dags'[e][k] = dags[e][k]
                        BY <4>1, <5>2 DEF Inserted
                    <6>2. <<e, k>> \in DOMAIN diskTasks
                        BY <3>1, <6>1 DEF EntryOnDisk
                    <6>3. <<e, k>> \in DOMAIN diskTasks'
                          /\ diskTasks'[<<e, k>>] = diskTasks[<<e, k>>]
                        BY <1>3, <5>2, <6>2 DEF Put
                    <6> QED
                        BY <3>1, <6>1, <6>3 DEF EntryOnDisk
                <5> QED
                    BY <5>1, <5>2
            <4> QED
                BY <1>3, <3>1, <4>2 DEF EntryOnDisk
        <3> QED
            BY <3>2, <3>3
    <2> QED
        BY <2>1 DEF MemoryIsPersisted, EntryOnDisk
<1> QED
    BY <1>1, <1>2, <1>3, CreateTaskCases

LEMMA RemoveTaskPersists ==
    ASSUME IInv, MemoryIsPersisted, WritesMayFail = FALSE,
           NEW d \in Dag, NEW n \in TaskName, RemoveTask(d, n)
    PROVE  MemoryIsPersisted'
<1>1. CASE d \in DOMAIN dags /\ n \notin DOMAIN dags[d]
    BY <1>1, RefusePersists DEF RemoveTask
<1>2. CASE ~(d \in DOMAIN dags /\ n \notin DOMAIN dags[d])
    <2>1. /\ dags' = IF d \in DOMAIN dags
                     THEN [dags EXCEPT ![d] = Removed(dags[d], n)]
                     ELSE dags
          /\ diskDags' = diskDags
          /\ diskTasks' = Without(diskTasks, <<d, n>>)
        BY <1>2 DEF RemoveTask, Stored
    <2>2. ASSUME NEW e \in DOMAIN dags' PROVE EntryOnDisk(e)'
        <3>1. e \in DOMAIN dags /\ EntryOnDisk(e) /\ IsGraph(dags[e])
            BY <2>1, PersistedIsOnDisk DEF IInv, GraphInv, GraphOK
        <3>2. CASE e # d
            <4>1. dags'[e] = dags[e]
                BY <2>1, <3>1, <3>2
            <4>2. \A k : <<e, k>> \in DOMAIN diskTasks =>
                            /\ <<e, k>> \in DOMAIN diskTasks'
                            /\ diskTasks'[<<e, k>>] = diskTasks[<<e, k>>]
                BY <2>1, <3>2 DEF Without
            <4> QED
                BY <2>1, <3>1, <4>1, <4>2 DEF EntryOnDisk
        <3>3. CASE e = d
            <4>1. dags'[e] = Removed(dags[e], n)
                BY <2>1, <3>1, <3>3
            <4>2. ASSUME NEW k \in DOMAIN dags'[e] \ {e}
                  PROVE  /\ <<e, k>> \in DOMAIN diskTasks'
                         /\ \A m \in Name :
                               dags'[e][k][m] <= diskTasks'[<<e, k>>].deps[m]
                <5>1. k # n /\ k \in DOMAIN dags[e] \ {e}
                    BY <4>1 DEF Removed
                <5>2. /\ <<e, k>> \in DOMAIN diskTasks
                      /\ \A m \in Name :
                            dags[e][k][m] <= diskTasks[<<e, k>>].deps[m]
                    BY <3>1, <5>1 DEF EntryOnDisk
                <5>3. <<e, k>> \in DOMAIN diskTasks'
                      /\ diskTasks'[<<e, k>>] = diskTasks[<<e, k>>]
                    BY <2>1, <5>1, <5>2 DEF Without
                <5>4. ASSUME NEW m \in Name
                      PROVE  dags'[e][k][m] <= diskTasks'[<<e, k>>].deps[m]
                    <6>1. /\ dags[e][k][m] \in Nat
                          /\ dags'[e][k][m] <= dags[e][k][m]
                        BY <3>1, <4>1, RemovedCounts
                    <6>2. dags'[e][k][m] \in Nat
                        BY <3>1, <4>1, RemovedIsGraph DEF IsGraph, Bag
                    <6>3. diskTasks[<<e, k>>].deps[m] \in Nat
                        BY <5>2 DEF IInv, DiskInv, Dependencies
                    <6> QED
                        BY <5>2, <5>3, <6>1, <6>2, <6>3
                <5> QED
                    BY <5>3, <5>4
            <4> QED
                BY <2>1, <3>1, <4>2 DEF EntryOnDisk
        <3> QED
            BY <3>2, <3>3
    <2> QED
        BY <2>2 DEF MemoryIsPersisted, EntryOnDisk
<1> QED
    BY <1>1, <1>2

LEMMA OthersPersist ==
    ASSUME IInv, MemoryIsPersisted,
           \/ \E d \in Dag : ExecuteAt(d) \/ ScheduledExecute(d) \/ ExecuteTask(d)
           \/ ProcessOther \/ Dequeue \/ Stop \/ Restart
           \/ UNCHANGED vars
    PROVE  MemoryIsPersisted'
<1>1. CASE \E d \in Dag : ExecuteAt(d) \/ ScheduledExecute(d)
    BY <1>1, RefusePersists, DownPersists, SameTablesPersist
       DEF ExecuteAt, ScheduledExecute
<1>2. CASE \E d \in Dag : ExecuteTask(d)
    BY <1>2, RefusePersists, DownPersists DEF ExecuteTask
<1>3. CASE ProcessOther \/ Stop
    BY <1>3, RefusePersists, DownPersists DEF ProcessOther, Stop
<1>4. CASE Dequeue \/ Restart \/ UNCHANGED vars
    BY <1>4, SameTablesPersist DEF Dequeue, Restart, vars, memory
<1> QED
    BY <1>1, <1>2, <1>3, <1>4

(* When the storage reports no error, memory never holds a DAG, a task or  *)
(* a dependency that the files lack: what the TUI lists is complete.       *)
THEOREM AlwaysPersisted ==
    ASSUME WritesMayFail = FALSE
    PROVE  Spec => []MemoryIsPersisted
<1>1. Init => MemoryIsPersisted
    BY DEF Init, MemoryIsPersisted, NoEntries
<1>2. IInv /\ MemoryIsPersisted /\ [Next]_vars => MemoryIsPersisted'
    BY DagRequestsPersist, CreateTaskPersists, RemoveTaskPersists, OthersPersist
       DEF Next
<1> QED
    BY <1>1, <1>2, InvHolds, PTL DEF Spec

-----------------------------------------------------------------------------
(* Dangling dependencies, when the storage works.  A node that lists a     *)
(* name has a file that lists it at least as often, and strictly more      *)
(* often once the name is no node any more: the count in memory went down  *)
(* when the node was removed, the file was not written.  Unlike            *)
(* MemoryIsPersisted this speaks of the root too, which has a file only    *)
(* when it was pushed again.                                               *)

CountOnDisk(d, n, m) ==
    dags[d][n][m] > 0 =>
        /\ <<d, n>> \in DOMAIN diskTasks
        /\ dags[d][n][m] <= diskTasks[<<d, n>>].deps[m]
        /\ m \notin DOMAIN dags[d] => dags[d][n][m] < diskTasks[<<d, n>>].deps[m]
CountInv == \A d \in DOMAIN dags : \A n \in DOMAIN dags[d], m \in Name : CountOnDisk(d, n, m)

LEMMA SameTablesCount ==
    ASSUME CountInv, UNCHANGED disk,
           DOMAIN dags' = DOMAIN dags, \A d \in DOMAIN dags : dags'[d] = dags[d]
    PROVE  CountInv'
BY DEF CountInv, CountOnDisk, disk

LEMMA DownCounts == ASSUME NEW r, Down(r) PROVE CountInv'
<1>1. DOMAIN dags' = {}
    BY DEF Down, NoEntries
<1> QED
    BY <1>1 DEF CountInv

LEMMA RefuseCounts == ASSUME CountInv, NEW r, Refuse(r) PROVE CountInv'
BY SameTablesCount DEF Refuse, memory

\* A DAG that is not the one of the request keeps its entries.
LEMMA OtherDagCounts ==
    ASSUME CountInv, NEW e \in DOMAIN dags, dags'[e] = dags[e],
           \A k : <<e, k>> \in DOMAIN diskTasks =>
                     /\ <<e, k>> \in DOMAIN diskTasks'
                     /\ diskTasks'[<<e, k>>] = diskTasks[<<e, k>>]
    PROVE  \A n \in DOMAIN dags'[e], m \in Name : CountOnDisk(e, n, m)'
BY DEF CountInv, CountOnDisk

LEMMA DagRequestsCount ==
    ASSUME CountInv, NEW d \in Dag, NEW cron \in CronOrNone,
           CreateDag(d, cron) \/ RemoveDag(d, cron)
    PROVE  CountInv'
<1>1. CASE CreateDag(d, cron) /\ d \notin DOMAIN dags
    <2>1. dags' = Put(dags, d, RootGraph(d)) /\ diskTasks' = diskTasks
        BY <1>1 DEF CreateDag
    <2>2. ASSUME NEW e \in DOMAIN dags'
          PROVE  \A n \in DOMAIN dags'[e], m \in Name : CountOnDisk(e, n, m)'
        <3>1. CASE e = d
            <4>1. dags'[e] = RootGraph(d)
                BY <2>1, <3>1 DEF Put
            <4>2. \A n \in DOMAIN dags'[e], m \in Name : dags'[e][n][m] = 0
                BY <4>1 DEF RootGraph, NoDependencies
            <4> QED
                BY <4>2 DEF CountOnDisk
        <3>2. CASE e # d
            BY <2>1, <3>2, OtherDagCounts DEF Put
        <3> QED
            BY <3>1, <3>2
    <2> QED
        BY <2>2 DEF CountInv
<1>2. CASE RemoveDag(d, cron) /\ d \in DOMAIN dags
    <2>1. dags' = Without(dags, d) /\ diskTasks' = diskTasks
        BY <1>2 DEF RemoveDag
    <2> QED
        BY <2>1 DEF Without, CountInv, CountOnDisk
<1> QED
    BY <1>1, <1>2, RefuseCounts DEF CreateDag, RemoveDag

LEMMA CreateTaskCounts ==
    ASSUME IInv, CountInv, WritesMayFail = FALSE,
           NEW d \in Dag, NEW n \in TaskName, NEW deps \in Dependencies,
           CreateTask(d, n, deps)
    PROVE  CountInv'
<1>1. CASE Down("terminate")
    BY <1>1, DownCounts
<1>2. CASE d \in DOMAIN dags /\ dags' = [dags EXCEPT ![d] = dags[d]] /\ UNCHANGED disk
    BY <1>2, SameTablesCount
<1>3. CASE /\ d \in DOMAIN dags
           /\ n \notin DOMAIN dags[d]
           /\ Closed(Inserted(dags[d], n, deps))
           /\ dags' = [dags EXCEPT ![d] = Inserted(dags[d], n, deps)]
           /\ diskTasks' = Put(diskTasks, <<d, n>>, TaskEntry(d, n, deps))
    <2>1. ASSUME NEW e \in DOMAIN dags'
          PROVE  \A k \in DOMAIN dags'[e], m \in Name : CountOnDisk(e, k, m)'
        <3>1. CASE e # d
            BY <1>3, <3>1, OtherDagCounts DEF Put
        <3>2. CASE e = d
            <4>1. dags'[e] = Inserted(dags[d], n, deps)
                BY <1>3, <3>2
            <4>2. ASSUME NEW k \in DOMAIN dags'[e], NEW m \in Name, dags'[e][k][m] > 0
                  PROVE  /\ m \in DOMAIN dags'[e]
                         /\ <<e, k>> \in DOMAIN diskTasks'
                         /\ dags'[e][k][m] <= diskTasks'[<<e, k>>].deps[m]
                <5>1. m \in DOMAIN dags'[e]
                    BY <1>3, <4>1, <4>2 DEF Closed, DepsOf, Listed
                <5>2. CASE k = n
                    <6>1. <<e, k>> \in DOMAIN diskTasks'
                          /\ diskTasks'[<<e, k>>].deps = deps
                        BY <1>3, <3>2, <5>2 DEF Put, TaskEntry
                    <6>2. dags'[e][k] = deps /\ deps[m] \in Nat
                        BY <4>1, <5>2 DEF Inserted, Dependencies
                    <6> QED
                        BY <5>1, <6>1, <6>2
                <5>3. CASE k # n
                    <6>1. k \in DOMAIN dags[d] /\ dags'[e][k] = dags[d][k]
                        BY <4>1, <5>3 DEF Inserted
                    <6>2. /\ <<d, k>> \in DOMAIN diskTasks
                          /\ dags[d][k][m] <= diskTasks[<<d, k>>].deps[m]
                        BY <1>3, <4>2, <6>1 DEF CountInv, CountOnDisk
                    <6>3. <<e, k>> \in DOMAIN diskTasks'
                          /\ diskTasks'[<<e, k>>] = diskTasks[<<d, k>>]
                        BY <1>3, <3>2, <5>3, <6>2 DEF Put
                    <6> QED
                        BY <5>1, <6>1, <6>2, <6>3
                <5> QED
                    BY <5>2, <5>3
            <4> QED
                BY <4>2 DEF CountOnDisk
        <3> QED
            BY <3>1, <3>2
    <2> QED
        BY <2>1 DEF CountInv
<1> QED
    BY <1>1, <1>2, <1>3, CreateTaskCases

LEMMA RemoveTaskCounts ==
    ASSUME IInv, CountInv, WritesMayFail = FALSE,
           NEW d \in Dag, NEW n \in TaskName, RemoveTask(d, n)
    PROVE  CountInv'
<1>1. CASE d \in DOMAIN dags /\ n \notin DOMAIN dags[d]
    BY <1>1, RefuseCounts DEF RemoveTask
<1>2. CASE ~(d \in DOMAIN dags /\ n \notin DOMAIN dags[d])
    <2>1. /\ dags' = IF d \in DOMAIN dags
                     THEN [dags EXCEPT ![d] = Removed(dags[d], n)]
                     ELSE dags
          /\ diskTasks' = Without(diskTasks, <<d, n>>)
        BY <1>2 DEF RemoveTask, Stored
    <2>2. ASSUME NEW e \in DOMAIN dags'
          PROVE  \A k \in DOMAIN dags'[e], m \in Name : CountOnDisk(e, k, m)'
        <3>1. e \in DOMAIN dags /\ IsGraph(dags[e])
            BY <2>1 DEF IInv, GraphInv, GraphOK
        <3>2. CASE e # d
            BY <2>1, <3>1, <3>2, OtherDagCounts DEF Without
        <3>3. CASE e = d
            <4>1. dags'[e] = Removed(dags[e], n)
                BY <2>1, <3>1, <3>3
            <4>2. SUFFICES ASSUME NEW k \in DOMAIN dags'[e], NEW m \in Name,
                                  dags'[e][k][m] > 0
                           PROVE  /\ <<e, k>> \in DOMAIN diskTasks'
                                  /\ dags'[e][k][m] <= diskTasks'[<<e, k>>].deps[m]
                                  /\ m \notin DOMAIN dags'[e] =>
                                        dags'[e][k][m] < diskTasks'[<<e, k>>].deps[m]
                BY DEF CountOnDisk
            <4>3. /\ k \in DOMAIN dags[e] /\ k # n
                  /\ dags'[e][k] = Unlisted(dags[e][k], n)
                BY <4>1 DEF Removed
            <4>4. dags[e][k] \in Bag /\ dags[e][k][m] \in Nat
                BY <3>1, <4>3 DEF IsGraph, Bag
            <4>5. dags'[e][k][m] = IF m = n /\ dags[e][k][m] > 0
                                   THEN dags[e][k][m] - 1 ELSE dags[e][k][m]
                BY <4>3, <4>4 DEF Unlisted, Bag
            <4>6. dags[e][k][m] > 0
                BY <4>2, <4>4, <4>5
            <4>7. /\ <<e, k>> \in DOMAIN diskTasks
                  /\ dags[e][k][m] <= diskTasks[<<e, k>>].deps[m]
                  /\ m \notin DOMAIN dags[e] =>
                        dags[e][k][m] < diskTasks[<<e, k>>].deps[m]
                BY <3>1, <4>3, <4>6 DEF CountInv, CountOnDisk
            <4>8. diskTasks[<<e, k>>].deps[m] \in Nat
                BY <4>7 DEF IInv, DiskInv, Dependencies
            <4>9. <<e, k>> \in DOMAIN diskTasks'
                  /\ diskTasks'[<<e, k>>] = diskTasks[<<e, k>>]
                BY <2>1, <4>3, <4>7 DEF Without
            <4>10. CASE m = n
                BY <4>4, <4>5, <4>6, <4>7, <4>8, <4>9, <4>10
            <4>11. CASE m # n
                <5>1. dags'[e][k][m] = dags[e][k][m]
                    BY <4>5, <4>11
                <5>2. m \notin DOMAIN dags'[e] => m \notin DOMAIN dags[e]
                    BY <4>1, <4>11 DEF Removed
                <5> QED
                    BY <4>7, <4>9, <5>1, <5>2
            <4> QED
                BY <4>10, <4>11
        <3> QED
            BY <3>2, <3>3
    <2> QED
        BY <2>2 DEF CountInv
<1> QED
    BY <1>1, <1>2

LEMMA OthersCount ==
    ASSUME CountInv,
           \/ \E d \in Dag : ExecuteAt(d) \/ ScheduledExecute(d) \/ ExecuteTask(d)
           \/ ProcessOther \/ Dequeue \/ Stop \/ Restart
           \/ UNCHANGED vars
    PROVE  CountInv'
<1>1. CASE \E d \in Dag : ExecuteAt(d) \/ ScheduledExecute(d)
    BY <1>1, RefuseCounts, DownCounts, SameTablesCount DEF ExecuteAt, ScheduledExecute
<1>2. CASE \E d \in Dag : ExecuteTask(d)
    BY <1>2, RefuseCounts, DownCounts DEF ExecuteTask
<1>3. CASE ProcessOther \/ Stop
    BY <1>3, RefuseCounts, DownCounts DEF ProcessOther, Stop
<1>4. CASE Dequeue \/ Restart \/ UNCHANGED vars
    BY <1>4, SameTablesCount DEF Dequeue, Restart, vars, memory
<1> QED
    BY <1>1, <1>2, <1>3, <1>4

(* A name that is listed and is no node was listed more than once by the   *)
(* request of that very task: remove_task has no other way to leave one.   *)
THEOREM DanglingHasOneSource ==
    ASSUME WritesMayFail = FALSE
    PROVE  Spec => []DanglingWasRepeated
<1>1. Init => CountInv
    BY DEF Init, CountInv, NoEntries
<1>2. IInv /\ CountInv /\ [Next]_vars => CountInv'
    BY DagRequestsCount, CreateTaskCounts, RemoveTaskCounts, OthersCount DEF Next
<1>3. ASSUME IInv, CountInv PROVE DanglingWasRepeated
    <2> SUFFICES ASSUME NEW d \in DOMAIN dags, NEW n \in DOMAIN dags[d],
                        NEW m \in DepsOf(dags[d], n) \ DOMAIN dags[d]
                 PROVE  /\ <<d, n>> \in DOMAIN diskTasks
                        /\ diskTasks[<<d, n>>].deps[m] > dags[d][n][m]
        BY DEF DanglingWasRepeated
    <2>1. m \in Name /\ dags[d][n][m] > 0
        BY DEF DepsOf, Listed
    <2>2. <<d, n>> \in DOMAIN diskTasks /\ dags[d][n][m] < diskTasks[<<d, n>>].deps[m]
        BY <1>3, <2>1 DEF CountInv, CountOnDisk
    <2>3. IsGraph(dags[d]) /\ diskTasks[<<d, n>>].deps \in Dependencies
        BY <1>3, <2>2 DEF IInv, GraphInv, GraphOK, DiskInv
    <2>4. dags[d][n][m] \in Nat
        BY <2>1, <2>3 DEF IsGraph, Bag
    <2>5. diskTasks[<<d, n>>].deps[m] \in Nat
        BY <2>1, <2>3 DEF Dependencies
    <2> QED
        BY <2>2, <2>4, <2>5
<1> QED
    BY <1>1, <1>2, <1>3, InvHolds, PTL DEF Spec

-----------------------------------------------------------------------------
(* Refusals.  An assignment to an entry of dags leaves the table alone     *)
(* when it is the entry that was there, since dags is a function (FunInv). *)

FunInv == dags = [d \in DOMAIN dags |-> dags[d]]

LEMMA FunStep == FunInv /\ [Next]_vars => FunInv'
<1> SUFFICES ASSUME FunInv, [Next]_vars PROVE FunInv'
    OBVIOUS
<1>1. dags' = dags => FunInv'
    BY DEF FunInv
<1>2. dags' = NoEntries => FunInv'
    BY DEF FunInv, NoEntries
<1>3. ASSUME NEW d, NEW g, dags' = Put(dags, d, g) PROVE FunInv'
    BY <1>3 DEF FunInv, Put
<1>4. ASSUME NEW d, dags' = Without(dags, d) PROVE FunInv'
    BY <1>4 DEF FunInv, Without
<1>5. ASSUME NEW d \in DOMAIN dags, NEW g, dags' = [dags EXCEPT ![d] = g] PROVE FunInv'
    BY <1>5 DEF FunInv
<1>6. CASE \E d \in Dag, cron \in CronOrNone : CreateDag(d, cron) \/ RemoveDag(d, cron)
    BY <1>1, <1>3, <1>4, <1>6 DEF CreateDag, RemoveDag, Refuse, memory
<1>7. CASE \E d \in Dag, n \in TaskName :
              \/ \E deps \in Dependencies : CreateTask(d, n, deps)
              \/ RemoveTask(d, n)
    BY <1>1, <1>2, <1>5, <1>7 DEF CreateTask, RemoveTask, Down, Refuse, memory
<1>8. CASE \/ \E d \in Dag : ExecuteAt(d) \/ ScheduledExecute(d) \/ ExecuteTask(d)
           \/ ProcessOther \/ Dequeue \/ Stop \/ Restart
           \/ UNCHANGED vars
    BY <1>1, <1>2, <1>8
       DEF ExecuteAt, ScheduledExecute, ExecuteTask, ProcessOther, Dequeue, Stop, Restart,
           Down, Refuse, memory, vars
<1> QED
    BY <1>6, <1>7, <1>8 DEF Next

\* What create(shyguy_task) does when it neither answers "ok" nor ends the
\* process: it assigns the graph that was there, and leaves the task in task_map.
LEMMA RefusedPush ==
    ASSUME FunInv, NEW d \in Dag, NEW n \in TaskName, NEW deps \in Dependencies,
           CreateTask(d, n, deps), reply' \notin {"ok", "terminate"}
    PROVE  /\ UNCHANGED <<dags, schedules, queue, sequence, disk>>
           /\ d \in DOMAIN dags /\ taskMap' = Put(taskMap, n, d)
           /\ reply' \in {"contains_duplicates", "task_creates_cycle"}
<1>1. d \in DOMAIN dags
    BY DEF CreateTask, Down
<1>2. PICK pushed \in PushResults(dags[d], n, deps) :
          /\ pushed.result = reply'
          /\ taskMap' = Put(taskMap, n, d)
          /\ dags' = [dags EXCEPT ![d] = pushed.graph]
          /\ diskTasks' \in IF pushed.result = "ok"
                            THEN Stored(diskTasks,
                                        Put(diskTasks, <<d, n>>, TaskEntry(d, n, deps)))
                            ELSE {diskTasks}
          /\ UNCHANGED <<schedules, queue, sequence, diskDags>>
    BY <1>1 DEF CreateTask, Down, Answer
<1>3. /\ pushed.graph = dags[d]
      /\ pushed.result \in {"contains_duplicates", "task_creates_cycle"}
    BY <1>2 DEF PushResults, SearchOutcomes
<1>4. dags' = dags
    BY <1>1, <1>2, <1>3 DEF FunInv
<1> QED
    BY <1>1, <1>2, <1>3, <1>4 DEF disk

(* A request that is refused leaves DAGs, schedules, runs and files as     *)
(* they were: what was assigned before the error was found is taken back,  *)
(* but for the task in task_map, which a refused create has replaced.      *)
THEOREM RefusalsLeaveOnlyTask == Spec => RefusalLeavesOnlyTask
<1> DEFINE Replaced == /\ reply' \in {"contains_duplicates", "task_creates_cycle"}
                       /\ \E d \in DOMAIN dags, n \in TaskName : taskMap' = Put(taskMap, n, d)
           Left == /\ UNCHANGED <<dags, schedules, sequence, disk>>
                   /\ queue' \subseteq queue
                   /\ UNCHANGED taskMap \/ Replaced
<1>1. Init => FunInv
    BY DEF Init, FunInv, NoEntries
<1>2. ASSUME FunInv, [Next]_vars, reply' \in Refusals PROVE Left
    <2>1. ~(reply' \in {"ok", "terminate", "none", "not_currently_supported"})
        BY <1>2 DEF Refusals
    <2>2. ASSUME NEW r, Refuse(r) PROVE Left
        BY <2>2 DEF Refuse, memory
    <2>3. CASE \E d \in Dag, cron \in CronOrNone :
                  CreateDag(d, cron) \/ RemoveDag(d, cron)
        BY <2>1, <2>2, <2>3 DEF CreateDag, RemoveDag, Answer
    <2>4. CASE \E d \in Dag, n \in TaskName, deps \in Dependencies : CreateTask(d, n, deps)
        <3>1. PICK d \in Dag, n \in TaskName, deps \in Dependencies : CreateTask(d, n, deps)
            BY <2>4
        <3>2. /\ UNCHANGED <<dags, schedules, queue, sequence, disk>>
              /\ d \in DOMAIN dags /\ taskMap' = Put(taskMap, n, d)
              /\ reply' \in {"contains_duplicates", "task_creates_cycle"}
            BY <1>2, <2>1, <3>1, RefusedPush
        <3> QED
            BY <3>2
    <2>5. CASE \E d \in Dag, n \in TaskName : RemoveTask(d, n)
        BY <2>1, <2>2, <2>5 DEF RemoveTask, Answer
    <2>6. CASE \E d \in Dag : ExecuteAt(d) \/ ScheduledExecute(d) \/ ExecuteTask(d)
        BY <2>1, <2>2, <2>6 DEF ExecuteAt, ScheduledExecute, ExecuteTask, Answer, Down
    <2>7. CASE ProcessOther \/ Stop \/ Restart
        BY <2>1, <2>2, <2>7 DEF ProcessOther, Stop, Restart, Down
    <2>8. CASE Dequeue
        BY <2>8 DEF Dequeue
    <2>9. CASE UNCHANGED vars
        BY <2>9 DEF vars, memory
    <2> QED
        BY <1>2, <2>3, <2>4, <2>5, <2>6, <2>7, <2>8, <2>9 DEF Next
<1>3. Spec => []FunInv
    BY <1>1, FunStep, PTL DEF Spec
<1>4. FunInv /\ [Next]_vars => [reply' \in Refusals => Left]_vars
    BY <1>2
<1> QED
    BY <1>3, <1>4, PTL DEF Spec, RefusalLeavesOnlyTask

=============================================================================
