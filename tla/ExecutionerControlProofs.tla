---------------------- MODULE ExecutionerControlProofs ----------------------
(***************************************************************************)
(* The safety invariants of ExecutionerControl, for any set of callers and *)
(* any number of runs.  FlagCoversExecutioner and JoinNeverWaits are not   *)
(* inductive as they stand: they hold because the steps inside             *)
(* execution_mutex exclude each other (MutexInv) and because main touches  *)
(* execution_thread only after the callers are done (MainInv).             *)
(***************************************************************************)
EXTENDS ExecutionerControl, TLAPS

USE ControlAssumption

\* The mutex is held by exactly the caller that is between lock and unlock.
MutexInv == \A c \in Caller : pc[c] \in InsideMutex <=> mutexOwner = c

\* main goes on to the executioner's thread when no caller is left.
MainInv == main \in {"joinExec", "done"} => \A c \in Caller : pc[c] = "done"

\* Once main has joined the executioner's thread, there is none.
DoneInv == main = "done" => exec = "none"

IInv == /\ TypeOK
        /\ MutexInv
        /\ MainInv
        /\ DoneInv
        /\ FlagCoversExecutioner
        /\ JoinNeverWaits
        /\ RunsWithinExecutioner

LEMMA CallerNames == NoCaller \notin Caller
BY DEF NoCaller

LEMMA InitInv == Init => IInv
<1> SUFFICES ASSUME Init PROVE IInv
    OBVIOUS
<1>1. TypeOK
    <2>1. pc \in [Caller -> CallerAt]
        BY DEF Init, CallerAt
    <2>2. due + later + inFlight <= MaxRuns
        BY DEF Init
    <2> QED
        BY <2>1, <2>2 DEF Init, TypeOK, ExecAt
<1>2. MutexInv
    BY CallerNames DEF Init, MutexInv, InsideMutex
<1> QED
    BY <1>1, <1>2 DEF Init, IInv, MainInv, DoneInv, FlagCoversExecutioner,
       JoinNeverWaits, RunsWithinExecutioner, Active

-----------------------------------------------------------------------------
(* Steps of a caller outside execution_mutex.                              *)
LEMMA OutsideStep ==
    ASSUME IInv, NEW c \in Caller,
           Loop(c) \/ PollNothing(c) \/ PollEnqueues(c) \/ PollOther(c) \/ Check(c)
    PROVE  IInv'
<1> PICK from \in {"loop", "poll", "check"}, to \in {"loop", "poll", "check", "lock", "done"} :
        Goto(c, from, to)
    BY DEF Loop, PollNothing, PollEnqueues, PollOther, Check
<1>1. UNCHANGED <<terminator, executionRunning, mutexOwner, exec, inFlight, main, crashed>>
    BY DEF Loop, PollNothing, PollEnqueues, PollOther, Check
<1>2. /\ due' \in Nat /\ later' \in Nat
      /\ due' + later' + inFlight' <= MaxRuns
    BY DEF Loop, PollNothing, PollEnqueues, PollOther, Check, IInv, TypeOK, queueVars
<1>3. TypeOK'
    BY <1>1, <1>2 DEF Goto, IInv, TypeOK, CallerAt
<1>4. MutexInv'
    BY <1>1 DEF Goto, IInv, TypeOK, MutexInv, InsideMutex
<1>5. MainInv' /\ DoneInv'
    BY <1>1 DEF Goto, IInv, TypeOK, MainInv, DoneInv
<1>6. JoinNeverWaits'
    BY <1>1 DEF Goto, IInv, TypeOK, JoinNeverWaits
<1> QED
    BY <1>1, <1>3, <1>4, <1>5, <1>6
       DEF IInv, FlagCoversExecutioner, RunsWithinExecutioner

(* ensure_executioner_running inside execution_mutex.                      *)
LEMMA LockStep ==
    ASSUME IInv, NEW c \in Caller, Lock(c) \/ JoinTest(c) \/ StartTest(c)
    PROVE  IInv'
<1>1. UNCHANGED <<terminator, executionRunning, exec, due, later, inFlight, main, crashed>>
    BY DEF Lock, JoinTest, StartTest, queueVars
<1>2. TypeOK'
    BY <1>1 DEF Lock, JoinTest, StartTest, Goto, IInv, TypeOK, CallerAt, InsideMutex
<1>3. MutexInv'
    BY <1>1, CallerNames DEF Lock, JoinTest, StartTest, Goto, IInv, TypeOK, MutexInv, InsideMutex
<1>4. MainInv' /\ DoneInv'
    BY <1>1 DEF Lock, JoinTest, StartTest, Goto, IInv, TypeOK, MainInv, DoneInv
<1>5. JoinNeverWaits'
    BY <1>1 DEF Lock, JoinTest, StartTest, Goto, IInv, TypeOK, JoinNeverWaits,
                FlagCoversExecutioner, ExecAt
<1> QED
    BY <1>1, <1>2, <1>3, <1>4, <1>5
       DEF IInv, FlagCoversExecutioner, RunsWithinExecutioner

LEMMA ThreadStep ==
    ASSUME IInv, NEW c \in Caller, Join(c) \/ Start(c)
    PROVE  IInv'
<1>1. pc[c] \in InsideMutex /\ ~crashed /\ mutexOwner = c
    BY DEF Join, Start, Goto, IInv, MutexInv, InsideMutex
<1>2. main \notin {"joinExec", "done"}
    BY <1>1 DEF IInv, MainInv, InsideMutex
<1>3. TypeOK'
    BY DEF Join, Start, Goto, IInv, TypeOK, CallerAt, InsideMutex, ExecAt, Active, queueVars
<1>4. MutexInv'
    BY <1>1, CallerNames DEF Join, Start, Goto, IInv, TypeOK, MutexInv, InsideMutex
<1>5. MainInv' /\ DoneInv'
    BY <1>2 DEF Join, Start, MainInv, DoneInv
<1>6. \A d \in Caller : pc'[d] # "join"
    BY <1>1 DEF Join, Start, Goto, IInv, TypeOK, MutexInv, InsideMutex
<1>7. FlagCoversExecutioner' /\ RunsWithinExecutioner'
    BY DEF Join, Start, Goto, IInv, TypeOK, FlagCoversExecutioner, RunsWithinExecutioner, Active
<1> QED
    BY <1>3, <1>4, <1>5, <1>6, <1>7 DEF IInv, JoinNeverWaits

-----------------------------------------------------------------------------
(* The executioner's thread, the DAG pool and the clock.                   *)
LEMMA ExecutionerStep ==
    ASSUME IInv, ExecStep \/ RunEnds \/ Ripen
    PROVE  IInv'
<1>1. /\ UNCHANGED <<terminator, mutexOwner, pc, main, crashed>>
      /\ ~crashed
    BY DEF ExecStep, ExecTest, ExecBlock, ExecTake, ExecTimeout, ExecDrain, ExecStore,
           RunEnds, Ripen, OthersUnchanged, ExecGoto
<1>2. TypeOK'
    <2>1. exec' \in ExecAt /\ executionRunning' \in BOOLEAN
        BY DEF ExecStep, ExecTest, ExecBlock, ExecTake, ExecTimeout, ExecDrain, ExecStore,
               RunEnds, Ripen, ExecGoto, IInv, TypeOK, ExecAt, Active
    <2>2. /\ due' \in Nat /\ later' \in Nat /\ inFlight' \in Nat
          /\ due' + later' + inFlight' <= MaxRuns
        <3>1. CASE UNCHANGED <<due, later, inFlight>>
            BY <3>1 DEF IInv, TypeOK
        <3>2. CASE ExecTake
            BY <3>2 DEF ExecTake, IInv, TypeOK
        <3>3. CASE RunEnds
            BY <3>3 DEF RunEnds, queueVars, IInv, TypeOK
        <3>4. CASE Ripen
            BY <3>4 DEF Ripen, IInv, TypeOK
        <3> QED
            BY <3>1, <3>2, <3>3, <3>4
               DEF ExecStep, ExecTest, ExecBlock, ExecTimeout, ExecDrain, ExecStore, queueVars
    <2> QED
        BY <1>1, <2>1, <2>2 DEF IInv, TypeOK
<1>3. \/ exec' = exec
      \/ exec \in Active
    BY DEF ExecStep, ExecTest, ExecBlock, ExecTake, ExecTimeout, ExecDrain, ExecStore,
           RunEnds, Ripen, ExecGoto, Active
<1>4. MutexInv' /\ MainInv' /\ DoneInv' /\ JoinNeverWaits'
    BY <1>1, <1>3 DEF IInv, MutexInv, MainInv, DoneInv, JoinNeverWaits, Active
<1>5. FlagCoversExecutioner'
    BY <1>1 DEF ExecStep, ExecTest, ExecBlock, ExecTake, ExecTimeout, ExecDrain, ExecStore,
           RunEnds, Ripen, ExecGoto, IInv, FlagCoversExecutioner, Active
<1>6. RunsWithinExecutioner'
    BY DEF ExecStep, ExecTest, ExecBlock, ExecTake, ExecTimeout, ExecDrain, ExecStore,
           RunEnds, Ripen, ExecGoto, IInv, TypeOK, RunsWithinExecutioner
<1> QED
    BY <1>2, <1>4, <1>5, <1>6 DEF IInv

(* The main thread.                                                        *)
LEMMA MainStep ==
    ASSUME IInv, Quit \/ JoinCallers \/ JoinExec
    PROVE  IInv'
<1>1. CASE Quit \/ JoinCallers
    <2>1. UNCHANGED <<executionRunning, mutexOwner, pc, exec, due, later, inFlight, crashed>>
        BY <1>1 DEF Quit, JoinCallers, queueVars
    <2>2. /\ terminator' \in BOOLEAN
          /\ main' \in {"joinCallers", "joinExec"}
          /\ main' = "joinExec" => \A c \in Caller : pc[c] = "done"
        BY <1>1 DEF Quit, JoinCallers, IInv, TypeOK
    <2>3. TypeOK' /\ MainInv' /\ DoneInv'
        BY <2>1, <2>2 DEF IInv, TypeOK, MainInv, DoneInv
    <2> QED
        BY <2>1, <2>3 DEF IInv, MutexInv, FlagCoversExecutioner, JoinNeverWaits,
                          RunsWithinExecutioner
<1>2. CASE JoinExec
    <2>1. /\ UNCHANGED <<terminator, executionRunning, mutexOwner, pc, due, later,
                         inFlight, crashed>>
          /\ exec' = "none" /\ main' = "done"
          /\ exec \in {"none", "ended"} /\ main = "joinExec"
        BY <1>2 DEF JoinExec, queueVars
    <2>2. TypeOK' /\ MutexInv' /\ DoneInv' /\ MainInv'
        BY <2>1 DEF IInv, TypeOK, ExecAt, MutexInv, MainInv, DoneInv
    <2>3. JoinNeverWaits'
        BY <2>1 DEF IInv, MainInv, JoinNeverWaits
    <2>4. FlagCoversExecutioner' /\ RunsWithinExecutioner'
        BY <2>1 DEF IInv, TypeOK, FlagCoversExecutioner, RunsWithinExecutioner, Active
    <2> QED
        BY <2>2, <2>3, <2>4 DEF IInv
<1> QED
    BY <1>1, <1>2

LEMMA NextInv == IInv /\ [Next]_vars => IInv'
<1> SUFFICES ASSUME IInv, [Next]_vars PROVE IInv'
    OBVIOUS
<1>1. CASE \E c \in Caller : CallerStep(c)
    BY <1>1, OutsideStep, LockStep, ThreadStep DEF CallerStep
<1>2. CASE ExecStep \/ RunEnds \/ Ripen
    BY <1>2, ExecutionerStep
<1>3. CASE Quit \/ JoinCallers \/ JoinExec
    BY <1>3, MainStep
<1>4. CASE Over \/ UNCHANGED vars
    BY <1>4 DEF Over, vars, queueVars, IInv, TypeOK, MutexInv, MainInv, DoneInv,
       FlagCoversExecutioner, JoinNeverWaits, RunsWithinExecutioner
<1> QED
    BY <1>1, <1>2, <1>3, <1>4 DEF Next

LEMMA InvHolds == Spec => []IInv
BY InitInv, NextInv, PTL DEF Spec

-----------------------------------------------------------------------------
(* The types of the shared state, and the bound on the runs.               *)
THEOREM TypeCorrect == Spec => []TypeOK
<1>1. IInv => TypeOK
    BY DEF IInv
<1> QED
    BY <1>1, InvHolds, PTL

(* execution_running is set exactly while an executioner may still take    *)
(* runs: the daemon never starts a second one beside it.                   *)
THEOREM FlagIsRight == Spec => []FlagCoversExecutioner
<1>1. IInv => FlagCoversExecutioner
    BY DEF IInv
<1> QED
    BY <1>1, InvHolds, PTL

(* Joining the old executioner under execution_mutex never waits for a     *)
(* DAG.                                                                    *)
THEOREM JoinIsPrompt == Spec => []JoinNeverWaits
<1>1. IInv => JoinNeverWaits
    BY DEF IInv
<1> QED
    BY <1>1, InvHolds, PTL

(* A DAG run never outlives the executioner whose locals it refers to.     *)
THEOREM RunsAreContained == Spec => []RunsWithinExecutioner
<1>1. IInv => RunsWithinExecutioner
    BY DEF IInv
<1> QED
    BY <1>1, InvHolds, PTL

(* When shyguy::run returns, every thread it started has ended.            *)
THEOREM RunReturnsAlone == Spec => []NothingOutlivesRun
<1>1. IInv => NothingOutlivesRun
    BY DEF IInv, TypeOK, MainInv, DoneInv, RunsWithinExecutioner, NothingOutlivesRun
<1> QED
    BY <1>1, InvHolds, PTL

=============================================================================
