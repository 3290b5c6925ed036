---------------------------- MODULE MCExecutioner ----------------------------
(* Small instances of Executioner for TLC.                                 *)
EXTENDS Executioner

CONSTANTS a, b, c

Tasks == {a, b, c}

\* The graph of a set of edges <<task, dependency>>.
FromEdges(edges) ==
    [n \in Tasks |-> [d \in Tasks |-> IF <<n, d>> \in edges THEN 1 ELSE 0]]

Independent == FromEdges({})        \* more tasks are ready than fit into a wave
Pair == FromEdges({<<b, a>>})
Chain == FromEdges({<<b, a>>, <<c, b>>})
Fork == FromEdges({<<b, a>>, <<c, a>>})
Join == FromEdges({<<c, a>>, <<c, b>>})

Shapes == {Independent, Pair, Chain, Fork, Join}

=============================================================================
