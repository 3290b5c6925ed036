------------------------------- MODULE DagRun -------------------------------
(***************************************************************************)
(* What the executioner promises of one run of a DAG: tasks finish in an   *)
(* order that respects the dependencies, each once, and the run ends when  *)
(* all have finished, earlier only when the daemon is told to stop.        *)
(***************************************************************************)
EXTENDS TaskGraph

VARIABLES
    graph,      \* the graph of the run
    done,       \* tasks that have finished
    phase,      \* "open", then "ended"
    running     \* FALSE once the daemon is told to stop

vars == <<graph, done, phase, running>>

Init == /\ IsGraph(graph)
        /\ done = {}
        /\ phase = "open"
        /\ running = TRUE

Finish(n) == /\ phase = "open"
             /\ n \notin done
             /\ IsTaskReady(graph, done, n)
             /\ done' = done \cup {n}
             /\ UNCHANGED <<graph, phase, running>>

End == /\ phase = "open"
       /\ done = DOMAIN graph \/ ~running
       /\ phase' = "ended"
       /\ UNCHANGED <<graph, done, running>>

Stop == running /\ running' = FALSE /\ UNCHANGED <<graph, done, phase>>

Next == (\E n \in Name : Finish(n)) \/ End \/ Stop

Spec == Init /\ [][Next]_vars

=============================================================================
