---------------------------- MODULE ActionsPanel ----------------------------
(***************************************************************************)
(* The actions panel of the TUI (libraries/tui/actionspanel.cpp) and the   *)
(* request thread of shyguy::run, with the registry between them: the      *)
(* panel lists DAGs and tasks from the files, and sends requests through   *)
(* io_queue to the registry, which answers from memory.                    *)
(*                                                                         *)
(* The menus of DAGs and of tasks are drawn but stand in no container, so  *)
(* that no event reaches them: the selection is always the first entry, in *)
(* the order the directory happens to have.  What 'u' copies into the form *)
(* was typed into it before; 'r' and 'u' are taken before the fields see   *)
(* them, so that Name holds the names without these letters.  A submit     *)
(* that only changes the status line is left out.                          *)
(*                                                                         *)
(* The panel that shows the runs (dagpanel.cpp) lists once, as this one    *)
(* does when it opens.                                                     *)
(***************************************************************************)
EXTENDS ShyguyRegistry, SequencesExt

CONSTANT MaxRequests    \* bound: requests in io_queue

ASSUME PanelAssumption == MaxRequests \in Nat

VARIABLES
    terminator,     \* the daemon is to go on
    requestThread,  \* "test" of terminator, "wait" for a request, or "done"
    ioQueue,        \* io_queue
    panel,          \* "closed", "listing" in refresh_lists, or "open"
    toList,         \* DAGs whose tasks refresh_lists has yet to list
    dagNames,       \* dag_names
    taskRefs,       \* task_refs: pairs of a DAG and a task
    orphans,        \* files whose DAG or task memory lost, by a removal of the
                    \* DAG or a restart: <<d>> and <<d, n>>
    gone            \* what left memory, or the files, since the list was begun

lists == <<toList, dagNames, taskRefs>>
threads == <<terminator, requestThread>>
panelVars == <<threads, ioQueue, panel, lists, orphans, gone>>
allVars == <<vars, panelVars>>

PanelInit ==
    /\ Init
    /\ terminator = TRUE
    /\ requestThread = "test"
    /\ ioQueue = <<>>
    /\ panel = "closed"
    /\ toList = <<>>
    /\ dagNames = <<>>
    /\ taskRefs = <<>>
    /\ orphans = {}
    /\ gone = {}

-----------------------------------------------------------------------------
\* refresh_lists: the constructor's call, and 'r'.

\* Mutant: the lists are not cleared first.
BeginListAppends ==
    /\ \E order \in SetToSeqs(DOMAIN diskDags) :
          dagNames' = dagNames \o order /\ toList' = order
    /\ taskRefs' = taskRefs
    /\ gone' = {}

\* The directories come in any order.
BeginList ==
    /\ \E order \in SetToSeqs(DOMAIN diskDags) : dagNames' = order /\ toList' = order
    /\ taskRefs' = <<>>
    /\ gone' = {}

Refresh == /\ up /\ terminator
           /\ panel \in {"closed", "open"}
           /\ BeginList
           /\ panel' = "listing"
           /\ UNCHANGED <<vars, threads, ioQueue, orphans>>

\* list_tasks of one DAG after the other, requests coming in between.
ListTasks ==
    /\ up /\ panel = "listing"
    /\ IF toList = <<>>
       THEN panel' = "open" /\ UNCHANGED <<toList, taskRefs>>
       ELSE /\ \E tasks \in SetToSeqs({t \in DOMAIN diskTasks : t[1] = Head(toList)}) :
                  taskRefs' = taskRefs \o tasks
            /\ toList' = Tail(toList)
            /\ UNCHANGED panel
    /\ UNCHANGED <<vars, threads, ioQueue, dagNames, orphans, gone>>

-----------------------------------------------------------------------------
\* submit_request.

CommandForAction == [create |-> "create", update |-> "create", delete |-> "remove",
                     execute |-> "execute", restart |-> "execute",
                     snapshot |-> "snapshot"]

\* What the panel can ask for: create and update read the form, the others
\* take the selection.  Only a create carries a schedule or dependencies.
DagRequests(command) ==
    IF command = "create"
    THEN {[command |-> command, target |-> "dag", dag |-> d, cron |-> c] :
             d \in Dag, c \in CronOrNone}
    ELSE {[command |-> command, target |-> "dag", dag |-> d, cron |-> NoCron] :
             d \in {dagNames[i] : i \in DOMAIN dagNames \cap {1}}}
TaskRequests(command) ==
    IF command = "create"
    THEN {[command |-> command, target |-> "task", dag |-> d, task |-> n, deps |-> deps] :
             d \in Dag, n \in TaskName, deps \in Dependencies}
    ELSE {[command |-> command, target |-> "task", dag |-> t[1], task |-> t[2]] :
             t \in {taskRefs[i] : i \in DOMAIN taskRefs \cap {1}}}

\* Bound: runs enqueued, and those asked for.
RunsFit == sequence' + Cardinality({i \in DOMAIN ioQueue' :
               ioQueue'[i].command = "execute" /\ ioQueue'[i].target = "dag"}) <= MaxSequence

SubmitRequest ==
    /\ up /\ terminator
    /\ panel = "open"
    /\ Len(ioQueue) < MaxRequests
    /\ \E action \in DOMAIN CommandForAction :
          \E request \in DagRequests(CommandForAction[action])
                         \cup TaskRequests(CommandForAction[action]) :
             ioQueue' = Append(ioQueue, request)
    /\ UNCHANGED <<vars, threads, panel, lists, orphans, gone>>
    /\ RunsFit

\* What is left when the process is gone.
Ended == /\ terminator' = TRUE
         /\ requestThread' = "test"
         /\ ioQueue' = <<>>
         /\ panel' = "closed"
         /\ toList' = <<>> /\ dagNames' = <<>> /\ taskRefs' = <<>>
         /\ orphans' = {<<d>> : d \in DOMAIN diskDags'} \cup DOMAIN diskTasks'
         /\ gone' = {}

\* Return calls submit_request through a reference to a variable of rebuild,
\* which has returned: what happens is undefined.  It submits, or the process
\* ends.
EnterKey == /\ up /\ terminator
            /\ panel = "open"
            /\ \/ SubmitRequest
               \/ Down("terminate") /\ Ended

-----------------------------------------------------------------------------
\* The request thread.

ThreadTest == /\ up /\ requestThread = "test"
              /\ requestThread' = IF terminator THEN "wait" ELSE "done"
              /\ UNCHANGED <<vars, terminator, ioQueue, panel, lists, orphans, gone>>

\* Mutant: the loop ends where it should go on.
ThreadTimeoutBreaks ==
    /\ up /\ requestThread = "wait"
    /\ ioQueue = <<>>
    /\ requestThread' = "done"
    /\ UNCHANGED <<vars, terminator, ioQueue, panel, lists, orphans, gone>>

\* dequeue_wait times out after 50 ms.
ThreadTimeout == /\ up /\ requestThread = "wait"
                 /\ ioQueue = <<>>
                 /\ requestThread' = "test"
                 /\ UNCHANGED <<vars, terminator, ioQueue, panel, lists, orphans, gone>>

Answered(r) ==
    CASE r.target = "dag" /\ r.command = "create" -> CreateDag(r.dag, r.cron)
      [] r.target = "dag" /\ r.command = "remove" -> RemoveDag(r.dag, r.cron)
      [] r.target = "dag" /\ r.command = "execute" -> ExecuteAt(r.dag)
      [] r.target = "task" /\ r.command = "create" -> CreateTask(r.dag, r.task, r.deps)
      [] r.target = "task" /\ r.command = "remove" -> RemoveTask(r.dag, r.task)
      [] r.target = "task" /\ r.command = "execute" -> ExecuteTask(r.dag)
      [] r.command = "snapshot" -> Refuse("not_currently_supported")

InMemory == {<<d>> : d \in DOMAIN dags}
            \cup UNION {{<<d, n>> : n \in DOMAIN dags[d]} : d \in DOMAIN dags}
OnDisk == {<<d>> : d \in DOMAIN diskDags} \cup DOMAIN diskTasks

\* What an answer does to the two records of what the lists may still show.
Booked(r) ==
    LET known == InMemory
        files == OnDisk
    IN  /\ gone' = gone \cup (known \ InMemory') \cup (files \ OnDisk')
        /\ orphans' = ((IF r.target = "dag" /\ r.command = "remove"
                        THEN orphans \cup (known \ InMemory') ELSE orphans)
                       \cap OnDisk') \ InMemory'

ProcessRequest ==
    /\ up /\ requestThread = "wait"
    /\ ioQueue # <<>>
    /\ Answered(Head(ioQueue))
    /\ IF up'
       THEN /\ ioQueue' = Tail(ioQueue)
            /\ requestThread' = "test"
            /\ Booked(Head(ioQueue))
            /\ UNCHANGED <<terminator, panel, lists>>
       ELSE Ended

\* The schedule thread and the executioner use the registry as well.
OtherThreads == /\ (\E d \in Dag : ScheduledExecute(d)) \/ Dequeue
                /\ IF up' THEN UNCHANGED panelVars /\ RunsFit ELSE Ended

\* tui::run returns: no request is submitted any more, and what io_queue
\* still holds is dropped with it.
CloseTui == /\ up /\ terminator /\ panel = "open"
            /\ terminator' = FALSE
            /\ panel' = "closed"
            /\ UNCHANGED <<vars, requestThread, ioQueue, lists, orphans, gone>>

RunReturns == /\ up /\ ~terminator
              /\ requestThread = "done"
              /\ Down("none") /\ Ended

StartAgain == Restart /\ UNCHANGED panelVars

RequestThread == ThreadTest \/ ThreadTimeout \/ ProcessRequest

PanelNext == \/ Refresh \/ ListTasks \/ SubmitRequest \/ EnterKey
             \/ RequestThread \/ OtherThreads
             \/ CloseTui \/ RunReturns \/ StartAgain

PanelSpec == PanelInit /\ [][PanelNext]_allVars

FairPanelSpec == PanelSpec /\ WF_allVars(RequestThread)

-----------------------------------------------------------------------------
\* Properties.

Shown == {<<d>> : d \in ToSet(dagNames)} \cup ToSet(taskRefs)

\* Whatever the panel shows, memory has: even of lists that were read while
\* requests were answered.  The exceptions are what left since the refresh
\* began, and files that memory does not know: those of before a restart, and
\* the task files of a DAG that was removed and created again.
ShownIsKnown == up => Shown \subseteq InMemory \cup gone \cup orphans

\* A request for what is selected never ends the daemon, however stale the
\* list it was taken from: it is refused, or deletes files nothing knew.  Only
\* a create may, of a task whose DAG or dependency memory does not have.  (With
\* names repeated in dependency lists an execute may as well: GraphsClosed.)
SelectionsAreHarmless ==
    [][MaxCopies < 2 /\ ProcessRequest /\ ~up' =>
          LET r == Head(ioQueue)
          IN  /\ r.command = "create" /\ r.target = "task"
              /\ \/ r.dag \notin DOMAIN dags
                 \/ ~(Listed(r.deps) \subseteq DOMAIN dags[r.dag])]_allVars

\* Requests go on being answered as long as some wait, until the TUI is closed
\* or the process ends: the thread outlives every time it finds none.
SubmittedIsAnswered ==
    <>[](up /\ terminator /\ ioQueue # <<>>) => []<><<ProcessRequest>>_allVars

=============================================================================
