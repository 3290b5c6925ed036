------------------------- MODULE ActionsPanelProofs -------------------------
(***************************************************************************)
(* The invariants of ActionsPanel, for any sets of names and any bounds.   *)
(* What the panel does to the registry is a step of the registry, or ends  *)
(* the process: the registry's invariant (IInv) carries over, since the    *)
(* requests in io_queue have the types the registry expects (RequestInv).  *)
(* That what is shown is known then is a matter of what each answer may    *)
(* add to the files, or take from memory (AnswersAccount).                 *)
(***************************************************************************)
EXTENDS ActionsPanel, ShyguyRegistryProofs, SequenceTheorems, FiniteSetTheorems

USE RegistryAssumption, PanelAssumption

Command == {"create", "remove", "execute", "snapshot"}
Request == [command : Command, target : {"dag"}, dag : Dag, cron : CronOrNone]
           \cup [command : {"create"}, target : {"task"}, dag : Dag, task : TaskName,
                 deps : Dependencies]
           \cup [command : Command \ {"create"}, target : {"task"}, dag : Dag,
                 task : TaskName]

RequestInv == ioQueue \in Seq(Request)
ListInv == /\ dagNames \in Seq(Dag)
           /\ toList \in Seq(Dag)
           /\ taskRefs \in Seq(Dag \X TaskName)
FiniteInv == IsFiniteSet(DOMAIN diskDags) /\ IsFiniteSet(DOMAIN diskTasks)
PanelInv == IInv /\ RequestInv /\ ListInv /\ FiniteInv

\* With a storage that works.
BookInv == /\ OnDisk \subseteq InMemory \cup orphans
           /\ orphans \subseteq OnDisk
           /\ Shown \subseteq InMemory \cup gone \cup orphans

-----------------------------------------------------------------------------
(* Lemmas about sequences and requests.                                    *)

LEMMA OrderIsSeq ==
    ASSUME NEW T, NEW S \in SUBSET T, IsFiniteSet(S), NEW order \in SetToSeqs(S)
    PROVE  order \in Seq(T) /\ ToSet(order) \subseteq S
<1>1. Cardinality(S) \in Nat
    BY FS_CardinalityType
<1>2. order \in [1..Cardinality(S) -> S]
    BY DEF SetToSeqs
<1>3. order \in Seq(S)
    BY <1>1, <1>2, SeqDef
<1> QED
    BY <1>2, <1>3, SeqMonotonic DEF ToSet

LEMMA ToSetOfConcat ==
    ASSUME NEW S, NEW s \in Seq(S), NEW t \in Seq(S)
    PROVE  s \o t \in Seq(S) /\ ToSet(s \o t) \subseteq ToSet(s) \cup ToSet(t)
<1>1. s \o t \in Seq(S) /\ Len(s \o t) = Len(s) + Len(t)
    BY ConcatProperties
<1>2. /\ Len(s) \in Nat /\ Len(t) \in Nat
      /\ DOMAIN s = 1..Len(s) /\ DOMAIN t = 1..Len(t)
      /\ DOMAIN (s \o t) = 1..(Len(s) + Len(t))
    BY <1>1, LenProperties
<1>3. ASSUME NEW i \in DOMAIN (s \o t)
      PROVE  (s \o t)[i] \in ToSet(s) \cup ToSet(t)
    <2>1. (s \o t)[i] = IF i <= Len(s) THEN s[i] ELSE t[i - Len(s)]
        BY <1>2, ConcatProperties
    <2>2. i <= Len(s) => i \in DOMAIN s
        BY <1>2
    <2>3. ~(i <= Len(s)) => i - Len(s) \in DOMAIN t
        BY <1>2
    <2> QED
        BY <2>1, <2>2, <2>3 DEF ToSet
<1> QED
    BY <1>1, <1>3 DEF ToSet

LEMMA DagRequestType ==
    ASSUME ListInv, NEW command \in Command, NEW r \in DagRequests(command)
    PROVE  r \in Request
<1>1. \A i \in DOMAIN dagNames : dagNames[i] \in Dag
    BY LenProperties, ElementOfSeq DEF ListInv
<1>2. CASE command = "create"
    BY <1>2 DEF DagRequests, Request, Command
<1>3. CASE command # "create"
    <2>1. PICK d \in {dagNames[i] : i \in DOMAIN dagNames \cap {1}} :
              r = [command |-> command, target |-> "dag", dag |-> d, cron |-> NoCron]
        BY <1>3 DEF DagRequests
    <2>2. d \in Dag /\ NoCron \in CronOrNone
        BY <1>1, <2>1 DEF CronOrNone
    <2> QED
        BY <2>1, <2>2 DEF Request
<1> QED
    BY <1>2, <1>3

LEMMA TaskRequestType ==
    ASSUME ListInv, NEW command \in Command, NEW r \in TaskRequests(command)
    PROVE  r \in Request
<1>1. \A i \in DOMAIN taskRefs : taskRefs[i] \in Dag \X TaskName
    BY LenProperties, ElementOfSeq DEF ListInv
<1>2. CASE command = "create"
    BY <1>2 DEF TaskRequests, Request
<1>3. CASE command # "create"
    <2>1. PICK t \in {taskRefs[i] : i \in DOMAIN taskRefs \cap {1}} :
              r = [command |-> command, target |-> "task", dag |-> t[1], task |-> t[2]]
        BY <1>3 DEF TaskRequests
    <2>2. t[1] \in Dag /\ t[2] \in TaskName
        BY <1>1, <2>1
    <2> QED
        BY <1>3, <2>1, <2>2 DEF Request
<1> QED
    BY <1>2, <1>3

-----------------------------------------------------------------------------
(* What a panel step is to the registry.                                   *)

LEMMA AnswerIsNext ==
    ASSUME up, NEW r \in Request, Answered(r)
    PROVE  Next
<1>1. r.command \in Command /\ r.target \in {"dag", "task"} /\ r.dag \in Dag
    BY DEF Request, Command
<1>2. CASE r.target = "dag"
    <2>1. r.cron \in CronOrNone
        BY <1>2 DEF Request
    <2> QED
        BY <1>1, <1>2, <2>1 DEF Answered, Command, Next, ProcessOther
<1>3. CASE r.target = "task"
    <2>1. r.task \in TaskName
        BY <1>3 DEF Request
    <2>2. r.command = "create" => r.deps \in Dependencies
        BY <1>3 DEF Request, Command
    <2> QED
        BY <1>1, <1>3, <2>1, <2>2 DEF Answered, Command, Next, ProcessOther
<1> QED
    BY <1>1, <1>2, <1>3

LEMMA HeadIsRequest ==
    ASSUME RequestInv, ioQueue # <<>>
    PROVE  Head(ioQueue) \in Request /\ Tail(ioQueue) \in Seq(Request)
BY HeadTailProperties DEF RequestInv

\* The steps of the panel that leave the registry alone.
Aside == \/ Refresh \/ ListTasks \/ SubmitRequest
         \/ ThreadTest \/ ThreadTimeout \/ CloseTui

LEMMA PanelStepKinds ==
    ASSUME PanelInv, PanelNext
    PROVE  \/ Aside /\ UNCHANGED vars
           \/ Ended /\ (Next \/ \E r : Down(r))
           \/ ProcessRequest /\ up /\ up' /\ Next
           \/ UNCHANGED panelVars /\ Next /\ UNCHANGED <<dags, disk>>
<1>1. CASE Aside
    BY <1>1
       DEF Aside, Refresh, ListTasks, SubmitRequest, ThreadTest, ThreadTimeout, CloseTui
<1>2. CASE EnterKey
    BY <1>1, <1>2 DEF EnterKey, Aside
<1>3. CASE ProcessRequest
    <2>1. Next
        BY <1>3, AnswerIsNext, HeadIsRequest DEF ProcessRequest, PanelInv
    <2> QED
        BY <1>3, <2>1 DEF ProcessRequest
<1>4. CASE OtherThreads
    <2>1. Next
        BY <1>4 DEF OtherThreads, Next
    <2>2. up' => UNCHANGED <<dags, disk>>
        BY <1>4 DEF OtherThreads, ScheduledExecute, ExecuteAt, Dequeue, Refuse, Down, memory
    <2> QED
        BY <1>4, <2>1, <2>2 DEF OtherThreads
<1>5. CASE RunReturns
    BY <1>5 DEF RunReturns
<1>6. CASE StartAgain
    BY <1>6 DEF StartAgain, Restart, Next, memory
<1> QED
    BY <1>1, <1>2, <1>3, <1>4, <1>5, <1>6 DEF PanelNext, RequestThread, Aside

-----------------------------------------------------------------------------
(* The types of what the panel keeps.                                      *)

LEMMA FinitePut ==
    ASSUME NEW f, IsFiniteSet(DOMAIN f), NEW k, NEW v
    PROVE  /\ IsFiniteSet(DOMAIN Put(f, k, v))
           /\ IsFiniteSet(DOMAIN Without(f, k))
<1>1. IsFiniteSet(DOMAIN f \cup {k}) /\ IsFiniteSet(DOMAIN f \ {k})
    BY FS_AddElement, FS_RemoveElement
<1> QED
    BY <1>1 DEF Put, Without

LEMMA FiniteStep ==
    ASSUME FiniteInv, [Next]_vars \/ \E r : Down(r)
    PROVE  FiniteInv'
<1>1. UNCHANGED disk => FiniteInv'
    BY DEF disk, FiniteInv
<1>2. CASE \E d \in Dag, cron \in CronOrNone : CreateDag(d, cron) \/ RemoveDag(d, cron)
    <2>1. PICK d \in Dag, cron \in CronOrNone : CreateDag(d, cron) \/ RemoveDag(d, cron)
        BY <1>2
    <2>2. \/ UNCHANGED disk
          \/ /\ diskTasks' = diskTasks
             /\ diskDags' \in {diskDags, Put(diskDags, d, cron), Without(diskDags, d)}
        BY <2>1, StoredIsOne DEF CreateDag, RemoveDag, Refuse
    <2> QED
        BY <1>1, <2>2, FinitePut DEF FiniteInv
<1>3. CASE \E d \in Dag, n \in TaskName :
              \/ \E deps \in Dependencies : CreateTask(d, n, deps)
              \/ RemoveTask(d, n)
    <2>1. PICK d \in Dag, n \in TaskName :
              \/ \E deps \in Dependencies : CreateTask(d, n, deps)
              \/ RemoveTask(d, n)
        BY <1>3
    <2>2. \/ UNCHANGED disk
          \/ /\ diskDags' = diskDags
             /\ \E entry : diskTasks' \in {diskTasks, Put(diskTasks, <<d, n>>, entry),
                                           Without(diskTasks, <<d, n>>)}
        BY <2>1, StoredIsOne DEF CreateTask, RemoveTask, Refuse, Down
    <2> QED
        BY <1>1, <2>2, FinitePut DEF FiniteInv
<1>4. CASE \E r : Down(r)
    BY <1>1, <1>4 DEF Down
<1>5. CASE \/ \E d \in Dag : ExecuteAt(d) \/ ScheduledExecute(d) \/ ExecuteTask(d)
           \/ ProcessOther \/ Dequeue \/ Stop \/ Restart
           \/ UNCHANGED vars
    BY <1>1, <1>5
       DEF ExecuteAt, ScheduledExecute, ExecuteTask, ProcessOther, Dequeue, Stop, Restart,
           Refuse, Down, vars
<1> QED
    BY <1>2, <1>3, <1>4, <1>5 DEF Next

LEMMA EndedTypes == ASSUME Ended PROVE RequestInv' /\ ListInv'
BY EmptySeq DEF Ended, RequestInv, ListInv

LEMMA AsideTypes ==
    ASSUME PanelInv, Aside
    PROVE  RequestInv' /\ ListInv'
<1>1. CASE Refresh
    <2>1. PICK order \in SetToSeqs(DOMAIN diskDags) : dagNames' = order /\ toList' = order
        BY <1>1 DEF Refresh, BeginList
    <2>2. order \in Seq(Dag)
        BY OrderIsSeq DEF PanelInv, FiniteInv, IInv, DiskInv
    <2>3. taskRefs' = <<>> /\ ioQueue' = ioQueue
        BY <1>1 DEF Refresh, BeginList
    <2> QED
        BY <2>1, <2>2, <2>3, EmptySeq DEF PanelInv, RequestInv, ListInv
<1>2. CASE ListTasks
    <2>1. ioQueue' = ioQueue /\ dagNames' = dagNames
        BY <1>2 DEF ListTasks
    <2>2. CASE toList = <<>>
        BY <1>2, <2>1, <2>2 DEF ListTasks, PanelInv, RequestInv, ListInv
    <2>3. CASE toList # <<>>
        <3>1. PICK tasks \in SetToSeqs({t \in DOMAIN diskTasks : t[1] = Head(toList)}) :
                  taskRefs' = taskRefs \o tasks
            BY <1>2, <2>3 DEF ListTasks
        <3>2. tasks \in Seq(Dag \X TaskName)
            <4> DEFINE S == {t \in DOMAIN diskTasks : t[1] = Head(toList)}
            <4>1. S \in SUBSET (Dag \X TaskName) /\ IsFiniteSet(S)
                BY FS_Subset DEF PanelInv, FiniteInv, IInv, DiskInv
            <4> QED
                BY <4>1, OrderIsSeq
        <3>3. taskRefs' \in Seq(Dag \X TaskName)
            BY <3>1, <3>2, ConcatProperties DEF PanelInv, ListInv
        <3>4. toList' \in Seq(Dag)
            BY <1>2, <2>3, HeadTailProperties DEF ListTasks, PanelInv, ListInv
        <3> QED
            BY <2>1, <3>3, <3>4 DEF PanelInv, RequestInv, ListInv
    <2> QED
        BY <2>2, <2>3
<1>3. CASE SubmitRequest
    <2>1. PICK action \in DOMAIN CommandForAction :
              \E request \in DagRequests(CommandForAction[action])
                             \cup TaskRequests(CommandForAction[action]) :
                 ioQueue' = Append(ioQueue, request)
        BY <1>3 DEF SubmitRequest
    <2>2. CommandForAction[action] \in Command
        BY DEF CommandForAction, Command
    <2>3. PICK request \in Request : ioQueue' = Append(ioQueue, request)
        BY <2>1, <2>2, DagRequestType, TaskRequestType DEF PanelInv
    <2>4. ioQueue' \in Seq(Request)
        BY <2>3, AppendProperties DEF PanelInv, RequestInv
    <2> QED
        BY <1>3, <2>4 DEF SubmitRequest, lists, PanelInv, RequestInv, ListInv
<1>4. CASE ThreadTest \/ ThreadTimeout \/ CloseTui
    BY <1>4 DEF ThreadTest, ThreadTimeout, CloseTui, lists, PanelInv, RequestInv, ListInv
<1> QED
    BY <1>1, <1>2, <1>3, <1>4 DEF Aside

LEMMA PanelInvStep == PanelInv /\ [PanelNext]_allVars => PanelInv'
<1> SUFFICES ASSUME PanelInv, [PanelNext]_allVars PROVE PanelInv'
    OBVIOUS
<1>1. CASE UNCHANGED allVars
    <2>1. UNCHANGED vars /\ UNCHANGED <<ioQueue, toList, dagNames, taskRefs, diskDags, diskTasks>>
        BY <1>1 DEF allVars, panelVars, lists, vars, disk
    <2>2. IInv'
        BY <2>1, NextInv DEF PanelInv
    <2> QED
        BY <2>1, <2>2 DEF PanelInv, RequestInv, ListInv, FiniteInv
<1>2. CASE PanelNext
    <2>1. [Next]_vars \/ \E r : Down(r)
        BY <1>2, PanelStepKinds
    <2>2. IInv' /\ FiniteInv'
        BY <2>1, NextInv, DownStep, FiniteStep DEF PanelInv
    <2>3. RequestInv' /\ ListInv'
        <3>1. CASE Aside
            BY <3>1, AsideTypes
        <3>2. CASE Ended
            BY <3>2, EndedTypes
        <3>3. CASE ProcessRequest /\ up'
            BY <3>3, HeadIsRequest DEF ProcessRequest, lists, PanelInv, RequestInv, ListInv
        <3>4. CASE UNCHANGED panelVars
            BY <3>4 DEF panelVars, lists, PanelInv, RequestInv, ListInv
        <3> QED
            BY <1>2, <3>1, <3>2, <3>3, <3>4, PanelStepKinds
    <2> QED
        BY <2>2, <2>3 DEF PanelInv
<1> QED
    BY <1>1, <1>2

LEMMA PanelInvHolds == PanelSpec => []PanelInv
<1>1. PanelInit => PanelInv
    <2> SUFFICES ASSUME PanelInit PROVE PanelInv
        OBVIOUS
    <2>1. IInv
        BY InitInv DEF PanelInit
    <2>2. RequestInv /\ ListInv
        BY EmptySeq DEF PanelInit, RequestInv, ListInv
    <2>3. DOMAIN diskDags = {} /\ DOMAIN diskTasks = {}
        BY DEF PanelInit, Init, NoEntries
    <2> QED
        BY <2>1, <2>2, <2>3, FS_EmptySet DEF PanelInv, FiniteInv
<1> QED
    BY <1>1, PanelInvStep, PTL DEF PanelSpec

(* What holds of the registry alone holds of it behind the panel: graphs   *)
(* stay acyclic, and every run in the queue can be executed to its end,    *)
(* whatever the panel asks for from lists that are out of date.            *)
THEOREM RegistryKeepsItsInvariants ==
    PanelSpec => [](TypeOK /\ GraphsAcyclic /\ GraphsClosed /\ QueuedRunsComplete)
<1>1. IInv /\ TaskMapInv => TypeOK /\ GraphsAcyclic /\ GraphsClosed
    BY DEF IInv, GraphInv, ScheduleInv, QueueInv, DiskInv, TaskMapInv, GraphOK, RunOK,
           TypeOK, GraphsAcyclic, GraphsClosed
<1>2. IInv => QueuedRunsComplete
    BY DEF IInv, QueueInv, RunOK, QueuedRunsComplete
<1>3. PanelInit => TaskMapInv
    BY DEF PanelInit, Init, TaskMapInv, NoEntries
<1>4. ASSUME PanelInv, TaskMapInv, [PanelNext]_allVars
      PROVE  TaskMapInv'
    <2>1. CASE [Next]_vars
        BY <1>4, <2>1, TaskMapStep
    <2>2. CASE \E r : Down(r)
        BY <2>2 DEF Down, TaskMapInv, NoEntries
    <2>3. [Next]_vars \/ \E r : Down(r)
        <3>1. CASE UNCHANGED allVars
            BY <3>1 DEF allVars, vars, disk
        <3>2. CASE PanelNext
            BY <1>4, <3>2, PanelStepKinds
        <3> QED
            BY <1>4, <3>1, <3>2
    <2> QED
        BY <2>1, <2>2, <2>3
<1> QED
    BY <1>1, <1>2, <1>3, <1>4, PanelInvHolds, PTL DEF PanelSpec, PanelInv

-----------------------------------------------------------------------------
(* What is selected can be asked for.                                      *)

LEMMA DownIsUnknown ==
    ASSUME IInv, MaxCopies < 2, NEW r \in Request, Answered(r), ~up'
    PROVE  /\ r.command = "create" /\ r.target = "task"
           /\ \/ r.dag \notin DOMAIN dags
              \/ ~(Listed(r.deps) \subseteq DOMAIN dags[r.dag])
<1>1. \A d \in DOMAIN dags : GraphOK(dags[d]) /\ Closed(dags[d])
    BY DEF IInv, GraphInv, GraphOK
<1>2. /\ \A d \in Dag : \A cron : CreateDag(d, cron) \/ RemoveDag(d, cron) => up'
      /\ \A d \in Dag : \A n : RemoveTask(d, n) => up'
      /\ \A a : Refuse(a) => up'
    BY DEF CreateDag, RemoveDag, RemoveTask, Refuse, Answer
<1>3. \A d \in Dag : ExecuteAt(d) \/ ExecuteTask(d) => up'
    BY <1>1, <1>2 DEF ExecuteAt, ExecuteTask, SearchOutcomes, Answer
<1>4. r.dag \in Dag /\ r.command \in Command /\ r.target \in {"dag", "task"}
    BY DEF Request, Command
<1>5. r.command = "create" /\ r.target = "task"
    BY <1>2, <1>3, <1>4 DEF Answered, Command
<1>6. CreateTask(r.dag, r.task, r.deps)
    BY <1>5 DEF Answered
<1>7. r.task \in Name /\ r.deps \in Bag
    <2>1. r.task \in TaskName /\ r.deps \in Dependencies
        BY <1>5 DEF Request
    <2> QED
        BY <2>1 DEF Dependencies, Bag
<1>8. ASSUME r.dag \in DOMAIN dags, Listed(r.deps) \subseteq DOMAIN dags[r.dag]
      PROVE  FALSE
    <2> DEFINE g == dags[r.dag]
    <2>1. PICK pushed \in PushResults(g, r.task, r.deps) :
              pushed.result = "terminate" \/ Answer(pushed.result)
        BY <1>6, <1>8 DEF CreateTask
    <2>2. pushed.result = "terminate"
        BY <2>1 DEF Answer
    <2>3. r.task \notin DOMAIN g /\ ~Closed(Inserted(g, r.task, r.deps))
        BY <2>2 DEF PushResults, SearchOutcomes
    <2>4. IsGraph(g) /\ Closed(g) /\ ~Cyclic(g)
        BY <1>1, <1>8 DEF GraphOK
    <2> QED
        BY <1>7, <1>8, <2>3, <2>4, PushKeepsSound
<1> QED
    BY <1>5, <1>8

(* Whatever is selected in a stale list, the request for it does not end   *)
(* the daemon; only the creation of a task in an unknown DAG, or with an   *)
(* unknown dependency, can (as long as no request repeats a dependency).   *)
THEOREM SelectionsNeverTerminate == PanelSpec => SelectionsAreHarmless
<1> DEFINE Harmless ==
        MaxCopies < 2 /\ ProcessRequest /\ ~up' =>
            LET r == Head(ioQueue)
            IN  /\ r.command = "create" /\ r.target = "task"
                /\ \/ r.dag \notin DOMAIN dags
                   \/ ~(Listed(r.deps) \subseteq DOMAIN dags[r.dag])
<1>1. PanelInv => Harmless
    BY HeadIsRequest, DownIsUnknown DEF PanelInv, ProcessRequest
<1>2. PanelInv /\ [PanelNext]_allVars => [Harmless]_allVars
    BY <1>1
<1> QED
    BY <1>2, PanelInvHolds, PTL DEF PanelSpec, SelectionsAreHarmless

-----------------------------------------------------------------------------
(* What an answer adds to the files, and what it takes from memory.        *)

LEMMA DagIsNoTask == \A d, e, n : <<d>> # <<e, n>>
<1> SUFFICES ASSUME NEW d, NEW e, NEW n, <<d>> = <<e, n>> PROVE FALSE
    OBVIOUS
<1>1. Len(<<d>>) = 1 /\ Len(<<e, n>>) = 2
    OBVIOUS
<1> QED
    BY <1>1

LEMMA KnownSame ==
    ASSUME DOMAIN dags' = DOMAIN dags,
           \A d \in DOMAIN dags : DOMAIN dags'[d] = DOMAIN dags[d]
    PROVE  InMemory' = InMemory
BY DEF InMemory

LEMMA AnswersAccount ==
    ASSUME WritesMayFail = FALSE, NEW r \in Request, Answered(r), up',
           NEW x \in OnDisk', x \notin InMemory'
    PROVE  /\ x \in OnDisk
           /\ x \in InMemory => r.target = "dag" /\ r.command = "remove"
<1>1. CASE InMemory' = InMemory /\ UNCHANGED disk
    BY <1>1 DEF OnDisk, disk
<1>2. ASSUME NEW a, Refuse(a) PROVE InMemory' = InMemory /\ UNCHANGED disk
    BY <1>2 DEF Refuse, memory, InMemory
<1>3. CASE r.target = "dag" /\ r.command = "create"
    <2>1. CreateDag(r.dag, r.cron)
        BY <1>3 DEF Answered
    <2>2. CASE r.dag \in DOMAIN dags
        BY <1>1, <1>2, <2>1, <2>2 DEF CreateDag
    <2>3. CASE r.dag \notin DOMAIN dags
        <3>1. /\ dags' = Put(dags, r.dag, RootGraph(r.dag))
              /\ diskDags' = Put(diskDags, r.dag, r.cron)
              /\ diskTasks' = diskTasks
            BY <2>1, <2>3 DEF CreateDag, Stored
        <3>2. InMemory \cup {<<r.dag>>} \subseteq InMemory'
            BY <2>3, <3>1 DEF Put, InMemory
        <3>3. OnDisk' \subseteq OnDisk \cup {<<r.dag>>}
            BY <3>1 DEF Put, OnDisk
        <3> QED
            BY <3>2, <3>3
    <2> QED
        BY <2>2, <2>3
<1>4. CASE r.target = "dag" /\ r.command = "remove"
    <2>1. RemoveDag(r.dag, r.cron)
        BY <1>4 DEF Answered
    <2>2. UNCHANGED disk \/ (diskDags' = Without(diskDags, r.dag) /\ diskTasks' = diskTasks)
        BY <2>1 DEF RemoveDag, Refuse, Stored
    <2>3. OnDisk' \subseteq OnDisk
        BY <2>2 DEF Without, OnDisk, disk
    <2> QED
        BY <1>4, <2>3
<1>5. CASE r.target = "task" /\ r.command = "create"
    <2>1. CreateTask(r.dag, r.task, r.deps)
        BY <1>5 DEF Answered
    <2>2. r.dag \in Dag /\ r.task \in TaskName /\ r.deps \in Dependencies
        BY <1>5 DEF Request
    <2>3. ~Down("terminate")
        BY DEF Down
    <2>4. CASE /\ r.dag \in DOMAIN dags
               /\ dags' = [dags EXCEPT ![r.dag] = dags[r.dag]]
               /\ UNCHANGED disk
        BY <1>1, <2>4, KnownSame
    <2>5. CASE /\ r.dag \in DOMAIN dags
               /\ dags' = [dags EXCEPT ![r.dag] = Inserted(dags[r.dag], r.task, r.deps)]
               /\ diskDags' = diskDags
               /\ \E entry : diskTasks' = Put(diskTasks, <<r.dag, r.task>>, entry)
        <3>1. /\ DOMAIN dags' = DOMAIN dags
              /\ \A d \in DOMAIN dags : DOMAIN dags[d] \subseteq DOMAIN dags'[d]
              /\ r.task \in DOMAIN dags'[r.dag]
            BY <2>5 DEF Inserted
        <3>2. InMemory \cup {<<r.dag, r.task>>} \subseteq InMemory'
            BY <2>5, <3>1 DEF InMemory
        <3>3. OnDisk' \subseteq OnDisk \cup {<<r.dag, r.task>>}
            BY <2>5 DEF Put, OnDisk
        <3> QED
            BY <3>2, <3>3
    <2> QED
        BY <2>1, <2>2, <2>3, <2>4, <2>5, CreateTaskCases DEF disk
<1>6. CASE r.target = "task" /\ r.command = "remove"
    <2>1. RemoveTask(r.dag, r.task)
        BY <1>6 DEF Answered
    <2>2. CASE r.dag \in DOMAIN dags /\ r.task \notin DOMAIN dags[r.dag]
        BY <1>1, <1>2, <2>1, <2>2 DEF RemoveTask
    <2>3. CASE ~(r.dag \in DOMAIN dags /\ r.task \notin DOMAIN dags[r.dag])
        <3>1. /\ dags' = IF r.dag \in DOMAIN dags
                         THEN [dags EXCEPT ![r.dag] = Removed(dags[r.dag], r.task)]
                         ELSE dags
              /\ diskDags' = diskDags
              /\ diskTasks' = Without(diskTasks, <<r.dag, r.task>>)
            BY <2>1, <2>3 DEF RemoveTask, Stored
        <3>2. /\ DOMAIN dags' = DOMAIN dags
              /\ \A d \in DOMAIN dags :
                    DOMAIN dags[d] \ DOMAIN dags'[d] \subseteq
                        (IF d = r.dag THEN {r.task} ELSE {})
            BY <3>1 DEF Removed
        <3>3. InMemory \subseteq InMemory' \cup {<<r.dag, r.task>>}
            BY <3>2 DEF InMemory
        <3>4. OnDisk' \subseteq OnDisk /\ <<r.dag, r.task>> \notin OnDisk'
            BY <3>1, DagIsNoTask DEF Without, OnDisk
        <3> QED
            BY <3>3, <3>4
    <2> QED
        BY <2>2, <2>3
<1>7. CASE r.command = "execute"
    <2>1. ExecuteAt(r.dag) \/ ExecuteTask(r.dag)
        BY <1>7 DEF Answered, Request
    <2>2. InMemory' = InMemory /\ UNCHANGED disk
        BY <1>2, <2>1 DEF ExecuteAt, ExecuteTask, Down, InMemory
    <2> QED
        BY <1>1, <2>2
<1>8. CASE r.command = "snapshot"
    <2>1. Refuse("not_currently_supported")
        BY <1>8 DEF Answered
    <2> QED
        BY <1>1, <1>2, <2>1
<1> QED
    BY <1>3, <1>4, <1>5, <1>6, <1>7, <1>8 DEF Request, Command

LEMMA BookedStep ==
    ASSUME BookInv, UNCHANGED lists, NEW r, Booked(r),
           \A x \in OnDisk' : x \notin InMemory' =>
               /\ x \in OnDisk
               /\ x \in InMemory => r.target = "dag" /\ r.command = "remove"
    PROVE  BookInv'
<1> DEFINE kept == (IF r.target = "dag" /\ r.command = "remove"
                    THEN orphans \cup (InMemory \ InMemory') ELSE orphans)
<1>1. /\ gone' = gone \cup (InMemory \ InMemory') \cup (OnDisk \ OnDisk')
      /\ orphans' = (kept \cap OnDisk') \ InMemory'
    BY DEF Booked
<1>2. Shown' = Shown
    BY DEF Shown, lists
<1>3. orphans' \subseteq OnDisk'
    BY <1>1
<1>4. ASSUME NEW x \in OnDisk', x \notin InMemory' PROVE x \in orphans'
    <2>1. x \in orphans \/ (x \in InMemory /\ r.target = "dag" /\ r.command = "remove")
        BY <1>4 DEF BookInv
    <2>2. x \in kept
        BY <1>4, <2>1
    <2> QED
        BY <1>1, <1>4, <2>2
<1>5. ASSUME NEW x \in Shown', x \notin InMemory', x \notin gone' PROVE x \in orphans'
    <2>1. x \in orphans
        BY <1>1, <1>2, <1>5 DEF BookInv
    <2>2. x \in OnDisk'
        BY <1>1, <1>5, <2>1 DEF BookInv
    <2> QED
        BY <1>4, <1>5, <2>2
<1> QED
    BY <1>3, <1>4, <1>5 DEF BookInv

\* Steps that neither change the registry nor close the books.
LEMMA SameBooks ==
    ASSUME BookInv, DOMAIN dags' = DOMAIN dags,
           \A d \in DOMAIN dags : DOMAIN dags'[d] = DOMAIN dags[d],
           UNCHANGED <<disk, orphans>>
    PROVE  /\ InMemory' = InMemory /\ OnDisk' = OnDisk
           /\ OnDisk' \subseteq InMemory' \cup orphans'
           /\ orphans' \subseteq OnDisk'
BY KnownSame DEF BookInv, OnDisk, disk

LEMMA EndedBooks == ASSUME Ended PROVE BookInv'
<1>1. orphans' = OnDisk'
    BY DEF Ended, OnDisk
<1>2. dagNames' = <<>> /\ taskRefs' = <<>>
    BY DEF Ended
<1>3. Shown' = {}
    BY <1>2 DEF Shown, ToSet
<1> QED
    BY <1>1, <1>3 DEF BookInv

LEMMA ListingBooks ==
    ASSUME PanelInv, BookInv, Aside, UNCHANGED vars
    PROVE  BookInv'
<1>1. /\ InMemory' = InMemory /\ OnDisk' = OnDisk /\ UNCHANGED orphans
      /\ OnDisk' \subseteq InMemory' \cup orphans' /\ orphans' \subseteq OnDisk'
    <2>1. UNCHANGED <<dags, disk, orphans>>
        BY DEF Aside, Refresh, ListTasks, SubmitRequest, ThreadTest, ThreadTimeout,
               CloseTui, vars, memory
    <2> QED
        BY <2>1, SameBooks
<1>2. CASE Refresh
    <2>1. PICK order \in SetToSeqs(DOMAIN diskDags) : dagNames' = order
        BY <1>2 DEF Refresh, BeginList
    <2>2. ToSet(order) \subseteq DOMAIN diskDags
        BY OrderIsSeq DEF PanelInv, FiniteInv, IInv, DiskInv
    <2>3. taskRefs' = <<>>
        BY <1>2 DEF Refresh, BeginList
    <2>4. Shown' \subseteq OnDisk
        BY <2>1, <2>2, <2>3 DEF Shown, ToSet, OnDisk
    <2> QED
        BY <1>1, <2>4 DEF BookInv
<1>3. CASE ListTasks
    <2>1. dagNames' = dagNames /\ gone' = gone
        BY <1>3 DEF ListTasks
    <2>2. CASE taskRefs' = taskRefs
        BY <1>1, <2>1, <2>2 DEF BookInv, Shown
    <2>3. CASE toList # <<>>
        <3> DEFINE S == {t \in DOMAIN diskTasks : t[1] = Head(toList)}
        <3>1. PICK tasks \in SetToSeqs(S) : taskRefs' = taskRefs \o tasks
            BY <1>3, <2>3 DEF ListTasks
        <3>2. S \in SUBSET (Dag \X TaskName) /\ IsFiniteSet(S)
            BY FS_Subset DEF PanelInv, FiniteInv, IInv, DiskInv
        <3>3. tasks \in Seq(Dag \X TaskName) /\ ToSet(tasks) \subseteq S
            BY <3>2, OrderIsSeq
        <3>4. ToSet(taskRefs') \subseteq ToSet(taskRefs) \cup S
            BY <3>1, <3>3, ToSetOfConcat DEF PanelInv, ListInv
        <3>5. Shown' \subseteq Shown \cup OnDisk
            BY <2>1, <3>4 DEF Shown, OnDisk
        <3> QED
            BY <1>1, <2>1, <3>5 DEF BookInv
    <2> QED
        BY <1>3, <2>2, <2>3 DEF ListTasks
<1>4. CASE SubmitRequest \/ ThreadTest \/ ThreadTimeout \/ CloseTui
    <2>1. UNCHANGED <<dagNames, taskRefs, gone>>
        BY <1>4 DEF SubmitRequest, ThreadTest, ThreadTimeout, CloseTui, lists
    <2> QED
        BY <1>1, <2>1 DEF BookInv, Shown
<1> QED
    BY <1>2, <1>3, <1>4 DEF Aside

LEMMA BookInvStep ==
    ASSUME WritesMayFail = FALSE, PanelInv, BookInv, [PanelNext]_allVars
    PROVE  BookInv'
<1>1. CASE Aside /\ UNCHANGED vars
    BY <1>1, ListingBooks
<1>2. CASE Ended
    BY <1>2, EndedBooks
<1>3. CASE ProcessRequest /\ up'
    <2> DEFINE r == Head(ioQueue)
    <2>1. r \in Request /\ Answered(r) /\ Booked(r) /\ UNCHANGED lists
        BY <1>3, HeadIsRequest DEF ProcessRequest, PanelInv
    <2>2. \A x \in OnDisk' : x \notin InMemory' =>
              /\ x \in OnDisk
              /\ x \in InMemory => r.target = "dag" /\ r.command = "remove"
        BY <1>3, <2>1, AnswersAccount
    <2> QED
        BY <2>1, <2>2, BookedStep
<1>4. CASE UNCHANGED <<panelVars, dags, disk>>
    <2>1. UNCHANGED <<dagNames, taskRefs, orphans, gone>>
        BY <1>4 DEF panelVars, lists
    <2> QED
        BY <1>4, <2>1, SameBooks DEF BookInv, Shown
<1> QED
    BY <1>1, <1>2, <1>3, <1>4, PanelStepKinds DEF allVars, vars, memory

(* Whatever the panel shows, memory has, or has lost since the list was    *)
(* begun, or never read from the files: a list read while requests are     *)
(* answered invents nothing.                                               *)
THEOREM AlwaysShownIsKnown ==
    ASSUME WritesMayFail = FALSE
    PROVE  PanelSpec => []ShownIsKnown
<1>1. PanelInit => BookInv
    <2> SUFFICES ASSUME PanelInit PROVE BookInv
        OBVIOUS
    <2>1. OnDisk = {} /\ Shown = {}
        BY DEF PanelInit, Init, NoEntries, OnDisk, Shown, ToSet
    <2> QED
        BY <2>1 DEF PanelInit, BookInv
<1>2. PanelInv /\ BookInv /\ [PanelNext]_allVars => BookInv'
    BY BookInvStep
<1>3. BookInv => ShownIsKnown
    BY DEF BookInv, ShownIsKnown
<1> QED
    BY <1>1, <1>2, <1>3, PanelInvHolds, PTL DEF PanelSpec

=============================================================================
