------------------------- MODULE ExecutionerControl -------------------------
(***************************************************************************)
(* How the daemon starts, restarts and stops its executioner: shyguy::run  *)
(* (src/shyGuy/shyguy.cc) with the loop of run_until_idle                  *)
(* (src/shyGuy/shyexecutioner.cc) that the executioner thread runs.        *)
(*                                                                         *)
(* Threads: main, the request thread and the schedule thread (Caller), and *)
(* at most one executioner.  They share terminator, execution_running,     *)
(* execution_mutex, the optional execution_thread and the request queue.   *)
(* Every load and store of an atomic is a step of its own.  The runs in    *)
(* the queue are counted, due ones apart from those scheduled for later;   *)
(* what a run does is the subject of module Executioner.                   *)
(***************************************************************************)
EXTENDS Naturals

CONSTANTS
    Caller,     \* threads that call ensure_executioner_running
    MaxRuns     \* bound: runs in the queue and in flight together

ASSUME ControlAssumption ==
    /\ Caller \subseteq {"request", "schedule"}
    /\ MaxRuns \in Nat

NoCaller == "nobody"

VARIABLES
    terminator,         \* TRUE while the daemon is to go on
    executionRunning,   \* execution_running
    mutexOwner,         \* who holds execution_mutex
    pc,                 \* Caller -> where the thread is
    exec,               \* execution_thread and where it is; "none" for nullopt
    due,                \* runs in the queue whose time has come
    later,              \* runs in the queue whose time has not come
    inFlight,           \* in_flight_dags of the executioner
    main,               \* the thread in shyguy::run
    crashed             \* std::terminate was called

queueVars == <<due, later>>
vars == <<terminator, executionRunning, mutexOwner, pc, exec, queueVars,
          inFlight, main, crashed>>

InsideMutex == {"joinTest", "join", "startTest", "start"}
CallerAt == {"loop", "poll", "check", "lock", "done"} \cup InsideMutex
\* Places of the executioner thread before it clears execution_running.
Active == {"test", "enter", "waiting", "drain", "store"}
ExecAt == {"none", "ended"} \cup Active

Init == /\ terminator = TRUE
        /\ executionRunning = FALSE
        /\ mutexOwner = NoCaller
        /\ pc = [c \in Caller |-> "loop"]
        /\ exec = "none"
        /\ due = 0
        /\ later = 0
        /\ inFlight = 0
        /\ main = "serving"
        /\ crashed = FALSE

Goto(c, from, to) == /\ ~crashed
                     /\ pc[c] = from
                     /\ pc' = [pc EXCEPT ![c] = to]

-----------------------------------------------------------------------------
\* The loops of the request thread and of the schedule thread.

\* Mutant: the loop does not look at terminator.
LoopForever(c) == /\ Goto(c, "loop", "poll")
                  /\ UNCHANGED <<terminator, executionRunning, mutexOwner, exec,
                                 queueVars, inFlight, main, crashed>>

Loop(c) == /\ Goto(c, "loop", IF terminator THEN "poll" ELSE "done")
           /\ UNCHANGED <<terminator, executionRunning, mutexOwner, exec,
                          queueVars, inFlight, main, crashed>>

\* No request within 50 ms; nothing new to schedule, and the sleep is over.
PollNothing(c) ==
    /\ Goto(c, "poll", "loop")
    /\ UNCHANGED <<terminator, executionRunning, mutexOwner, exec, queueVars,
                   inFlight, main, crashed>>

\* process(request) or execute_at has enqueued a run: execute(dag) stamps it
\* with the time of the call, the schedule thread with the next cron time.
PollEnqueues(c) ==
    /\ Goto(c, "poll", "check")
    /\ due + later + inFlight < MaxRuns
    /\ \/ due' = due + 1 /\ later' = later
       \/ c = "schedule" /\ due' = due /\ later' = later + 1
    /\ UNCHANGED <<terminator, executionRunning, mutexOwner, exec, inFlight,
                   main, crashed>>

\* Any other request: the request thread looks after the executioner too.
PollOther(c) ==
    /\ c = "request"
    /\ Goto(c, "poll", "check")
    /\ UNCHANGED <<terminator, executionRunning, mutexOwner, exec, queueVars,
                   inFlight, main, crashed>>

-----------------------------------------------------------------------------
\* ensure_executioner_running.

Check(c) == /\ Goto(c, "check", IF terminator THEN "lock" ELSE "loop")
            /\ UNCHANGED <<terminator, executionRunning, mutexOwner, exec,
                           queueVars, inFlight, main, crashed>>

Lock(c) == /\ Goto(c, "lock", "joinTest")
           /\ mutexOwner = NoCaller
           /\ mutexOwner' = c
           /\ UNCHANGED <<terminator, executionRunning, exec, queueVars,
                          inFlight, main, crashed>>

\* Mutant: joins whatever thread there is.
JoinTestBlindly(c) ==
    /\ Goto(c, "joinTest", IF exec # "none" THEN "join" ELSE "startTest")
    /\ UNCHANGED <<terminator, executionRunning, mutexOwner, exec, queueVars,
                   inFlight, main, crashed>>

\* execution_thread && joinable() && not execution_running: the first load.
JoinTest(c) ==
    /\ Goto(c, "joinTest", IF exec # "none" /\ ~executionRunning
                           THEN "join" ELSE "startTest")
    /\ UNCHANGED <<terminator, executionRunning, mutexOwner, exec, queueVars,
                   inFlight, main, crashed>>

Join(c) == /\ Goto(c, "join", "startTest")
           /\ exec = "ended"
           /\ exec' = "none"
           /\ UNCHANGED <<terminator, executionRunning, mutexOwner, queueVars,
                          inFlight, main, crashed>>

\* The second load of execution_running; the guard is released on return.
StartTest(c) ==
    /\ Goto(c, "startTest", IF executionRunning THEN "loop" ELSE "start")
    /\ mutexOwner' = IF executionRunning THEN NoCaller ELSE mutexOwner
    /\ UNCHANGED <<terminator, executionRunning, exec, queueVars, inFlight,
                   main, crashed>>

\* execution_thread.emplace destroys the thread the optional holds: one that
\* was not joined calls std::terminate.
Start(c) ==
    /\ Goto(c, "start", "loop")
    /\ executionRunning' = TRUE
    /\ IF exec = "none"
       THEN exec' = "test" /\ crashed' = FALSE
       ELSE exec' = exec /\ crashed' = TRUE
    /\ mutexOwner' = NoCaller
    /\ UNCHANGED <<terminator, queueVars, inFlight, main>>

CallerStep(c) ==
    \/ Loop(c) \/ PollNothing(c) \/ PollEnqueues(c) \/ PollOther(c)
    \/ Check(c) \/ Lock(c) \/ JoinTest(c) \/ Join(c) \/ StartTest(c) \/ Start(c)

-----------------------------------------------------------------------------
\* The executioner thread: run_until_idle, then execution_running = false.

ExecGoto(from, to) == ~crashed /\ exec = from /\ exec' = to
OthersUnchanged == UNCHANGED <<terminator, mutexOwner, pc, main, crashed>>

ExecTest == /\ ExecGoto("test", IF terminator THEN "enter" ELSE "drain")
            /\ UNCHANGED <<executionRunning, queueVars, inFlight>>
            /\ OthersUnchanged

\* dequeue_wait blocks when no run is due.
ExecBlock == /\ ExecGoto("enter", "waiting")
             /\ due = 0
             /\ UNCHANGED <<executionRunning, queueVars, inFlight>>
             /\ OthersUnchanged

\* Mutant: the run is read from the heap and not popped.
ExecTakePeeks == /\ ExecGoto(exec, "test")
                 /\ exec \in {"enter", "waiting"}
                 /\ due > 0
                 /\ inFlight' = inFlight + 1
                 /\ UNCHANGED <<queueVars, executionRunning>>
                 /\ OthersUnchanged

\* A run that is due is dequeued and handed to the DAG pool.
ExecTake == /\ ExecGoto(exec, "test")
            /\ exec \in {"enter", "waiting"}
            /\ due > 0
            /\ due' = due - 1
            /\ inFlight' = inFlight + 1
            /\ UNCHANGED <<later, executionRunning>>
            /\ OthersUnchanged

\* The idle timeout.  A wait that timed out gives up without another look at
\* the heap, so a run may have become due.  The clock's conjunct of the exit
\* test holds whenever the wait times out.
ExecTimeout == /\ ExecGoto("waiting", IF inFlight = 0 THEN "drain" ELSE "test")
               /\ UNCHANGED <<executionRunning, queueVars, inFlight>>
               /\ OthersUnchanged

\* Mutants: no wait for the DAG pool; the flag cleared before the wait ends.
ExecDrainAtOnce == /\ ExecGoto("drain", "store")
                   /\ UNCHANGED <<executionRunning, queueVars, inFlight>>
                   /\ OthersUnchanged
ExecDrainClears == /\ ExecGoto("drain", "store")
                   /\ inFlight = 0
                   /\ executionRunning' = FALSE
                   /\ UNCHANGED <<queueVars, inFlight>>
                   /\ OthersUnchanged

\* sync_wait(dag_scope.on_empty()): every run in flight ends first.
ExecDrain == /\ ExecGoto("drain", "store")
             /\ inFlight = 0
             /\ UNCHANGED <<executionRunning, queueVars, inFlight>>
             /\ OthersUnchanged

\* Mutant: execution_running is never cleared.
ExecStoreForgets == /\ ExecGoto("store", "ended")
                    /\ UNCHANGED <<executionRunning, queueVars, inFlight>>
                    /\ OthersUnchanged

ExecStore == /\ ExecGoto("store", "ended")
             /\ executionRunning' = FALSE
             /\ UNCHANGED <<queueVars, inFlight>>
             /\ OthersUnchanged

ExecStep == ExecTest \/ ExecBlock \/ ExecTake \/ ExecTimeout \/ ExecDrain \/ ExecStore

\* A run in the DAG pool ends.
RunEnds == /\ ~crashed
           /\ inFlight > 0
           /\ inFlight' = inFlight - 1
           /\ UNCHANGED <<executionRunning, exec, queueVars>>
           /\ OthersUnchanged

\* Time passes: the next run of the queue is due.
Ripen == /\ ~crashed
         /\ later > 0
         /\ later' = later - 1
         /\ due' = due + 1
         /\ UNCHANGED <<executionRunning, exec, inFlight>>
         /\ OthersUnchanged

-----------------------------------------------------------------------------
\* The main thread.  The TUI was left, or there is none: terminator = false.
Quit == /\ ~crashed
        /\ main = "serving"
        /\ terminator' = FALSE
        /\ main' = "joinCallers"
        /\ UNCHANGED <<executionRunning, mutexOwner, pc, exec, queueVars,
                       inFlight, crashed>>

JoinCallers == /\ ~crashed
               /\ main = "joinCallers"
               /\ \A c \in Caller : pc[c] = "done"
               /\ main' = "joinExec"
               /\ UNCHANGED <<terminator, executionRunning, mutexOwner, pc,
                              exec, queueVars, inFlight, crashed>>

\* Mutant: the executioner is detached.
JoinExecDetaches == /\ ~crashed
                    /\ main = "joinExec"
                    /\ main' = "done"
                    /\ UNCHANGED <<terminator, executionRunning, mutexOwner, pc,
                                   exec, queueVars, inFlight, crashed>>

JoinExec == /\ ~crashed
            /\ main = "joinExec"
            /\ exec \in {"none", "ended"}
            /\ exec' = "none"
            /\ main' = "done"
            /\ UNCHANGED <<terminator, executionRunning, mutexOwner, pc,
                           queueVars, inFlight, crashed>>

\* The process is over.
Over == (crashed \/ main = "done") /\ UNCHANGED vars

Next == \/ \E c \in Caller : CallerStep(c)
        \/ ExecStep
        \/ RunEnds
        \/ Ripen
        \/ Quit \/ JoinCallers \/ JoinExec
        \/ Over

Spec == Init /\ [][Next]_vars

\* Every thread that can move is scheduled, every command a run executes and
\* every sleep ends.  Nothing obliges a client to send requests or the user to
\* leave the TUI.
Fairness == /\ \A c \in Caller : WF_vars(CallerStep(c))
            /\ WF_vars(ExecStep)
            /\ WF_vars(RunEnds)
            /\ WF_vars(Ripen)
            /\ WF_vars(JoinCallers \/ JoinExec)

FairSpec == Spec /\ Fairness

-----------------------------------------------------------------------------
(* Type invariant.                                                         *)
TypeOK == /\ terminator \in BOOLEAN
          /\ executionRunning \in BOOLEAN
          /\ mutexOwner \in Caller \cup {NoCaller}
          /\ pc \in [Caller -> CallerAt]
          /\ exec \in ExecAt
          /\ due \in Nat
          /\ later \in Nat
          /\ inFlight \in Nat
          /\ due + later + inFlight <= MaxRuns
          /\ main \in {"serving", "joinCallers", "joinExec", "done"}
          /\ crashed \in BOOLEAN

(* execution_running never lies in the direction that would start a second *)
(* executioner beside one that still takes runs from the queue.            *)
FlagCoversExecutioner ==
    ~crashed => (executionRunning <=> exec \in Active)

(* A thread that joins the executioner inside execution_mutex never waits  *)
(* there for a DAG: the executioner has drained its runs and cleared the   *)
(* flag.                                                                   *)
JoinNeverWaits == \A c \in Caller : ~crashed /\ pc[c] = "join" => exec = "ended"

(* No DAG run outlives the executioner whose locals it refers to: not when *)
(* the idle timeout and a new run race, nor at shutdown.                   *)
RunsWithinExecutioner ==
    inFlight > 0 => exec \in {"test", "enter", "waiting", "drain"}

(* When run returns, no thread is left that could use its locals, and the  *)
(* optional it destroys holds no thread to be joined.                      *)
NothingOutlivesRun ==
    main = "done" => /\ exec = "none"
                     /\ inFlight = 0
                     /\ \A c \in Caller : pc[c] = "done"

(* Once the daemon is told to stop, it stops (or std::terminate has hit):  *)
(* no thread waits for another in a circle.                                *)
ShutdownCompletes == ~terminator ~> (main = "done" \/ crashed)

(* A run that is due is started.  It holds as long as requests keep coming *)
(* in, because every one of them makes the request thread look again.      *)
DueRunStarts == due > 0 ~> (inFlight > 0 \/ ~terminator \/ crashed)
EnsuredRunStarts ==
    ([]<>(\E c \in Caller : c = "request" /\ pc[c] = "check")) => DueRunStarts

-----------------------------------------------------------------------------
(* What the program says of itself and the code does not do.               *)

(* "Executioner idle shutdown milliseconds": an executioner that shut down *)
(* because it was idle is replaced by the next request; while the daemon   *)
(* serves, nothing else shuts down.                                        *)
IdleShutdownIsHarmless == crashed => ~terminator

=============================================================================
