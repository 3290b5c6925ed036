------------------------------ MODULE TaskGraph ------------------------------
(***************************************************************************)
(* The dependency graph of one DAG: directed_acyclic_graph of              *)
(* include/graph/graph.hpp, as operators on values.                        *)
(*                                                                         *)
(* A graph is a function whose domain is the set of nodes.  It maps a node *)
(* to the bag of the names its dependency vector lists: g[n][d] is how     *)
(* often the vector of n lists d.  The bag keeps what the code can tell    *)
(* apart (remove_task erases one occurrence only) and drops the order.     *)
(* DagSearch models the vectors, the hash order and the two recursive      *)
(* searches themselves, and is checked against the operators below.        *)
(***************************************************************************)
EXTENDS Naturals

CONSTANT Name       \* every name a task, a dependency or a DAG may have

Bag == [Name -> Nat]
NoDependencies == [d \in Name |-> 0]

IsGraph(g) == /\ DOMAIN g \subseteq Name
              /\ g \in [DOMAIN g -> Bag]

Listed(bag) == {d \in Name : bag[d] > 0}
DepsOf(g, n) == Listed(g[n])

\* The explicit constructor: a DAG starts with a node that has its own name.
RootGraph(root) == [n \in {root} |-> NoDependencies]

Inserted(g, n, bag) == [m \in DOMAIN g \cup {n} |-> IF m = n THEN bag ELSE g[m]]

-----------------------------------------------------------------------------
\* No dependency vector names a missing node: adjacency_list.at never throws.
Closed(g) == \A n \in DOMAIN g : DepsOf(g, n) \subseteq DOMAIN g

\* Some nodes all depend on one of themselves: in a finite graph, a cycle.
Trapped(g, S) == /\ S # {}
                 /\ \A n \in S : DepsOf(g, n) \cap S # {}
Cyclic(g) == \E S \in SUBSET DOMAIN g : Trapped(g, S)

\* Mutant: a search that compares a node with its own neighbors only.
FindsSelfLoops(g) ==
    IF \E n \in DOMAIN g : n \in DepsOf(g, n) THEN {"cycle"}
    ELSE IF Closed(g) THEN {"acyclic"} ELSE {"throws"}

\* Mutant: find in the place of at, so that a missing node is no error.
SkipsMissing(g) == IF Cyclic(g) THEN {"cycle"} ELSE {"acyclic"}

\* What has_cycle and topological_sort may do with g: report a cycle, let
\* std::out_of_range escape from adjacency_list.at, or visit every node.  With
\* a cycle and a missing node the hash order decides which is met first.
SearchOutcomes(g) ==
    {o \in {"cycle", "throws", "acyclic"} :
        \/ o = "cycle" /\ Cyclic(g)
        \/ o = "throws" /\ ~Closed(g)
        \/ o = "acyclic" /\ ~Cyclic(g) /\ Closed(g)}

-----------------------------------------------------------------------------
\* Mutant: the node is not erased again after a cycle.
PushKeepsNode(g, n, bag) ==
    IF n \in DOMAIN g
    THEN {[result |-> "contains_duplicates", graph |-> g]}
    ELSE LET pushed == Inserted(g, n, bag)
         IN  {[result |-> CASE o = "cycle" -> "task_creates_cycle"
                            [] o = "throws" -> "terminate"
                            [] OTHER -> "ok",
               graph |-> pushed] : o \in SearchOutcomes(pushed)}

\* What push_task may do: its error or "ok", and the graph it leaves.  It is
\* noexcept, so a search that throws is std::terminate: "terminate".
PushResults(g, n, bag) ==
    IF n \in DOMAIN g
    THEN {[result |-> "contains_duplicates", graph |-> g]}
    ELSE LET pushed == Inserted(g, n, bag)
         IN  {[result |-> CASE o = "cycle" -> "task_creates_cycle"
                            [] o = "throws" -> "terminate"
                            [] OTHER -> "ok",
               graph |-> IF o = "acyclic" THEN pushed ELSE g] :
                  o \in SearchOutcomes(pushed)}

\* Mutants: the vectors are left alone; found is erased without a look at end.
UnlistedNever(bag, n) == bag
UnlistedUnchecked(bag, n) == [bag EXCEPT ![n] = bag[n] - 1]

\* remove_task erases the node, and the first occurrence of its name from
\* every dependency vector: a name listed twice stays listed once.
Unlisted(bag, n) == [bag EXCEPT ![n] = IF bag[n] > 0 THEN bag[n] - 1 ELSE 0]
Removed(g, n) == [m \in DOMAIN g \ {n} |-> Unlisted(g[m], n)]

\* is_task_ready: every listed name is completed (false for a missing node).
IsTaskReady(g, completed, n) == /\ n \in DOMAIN g
                                /\ DepsOf(g, n) \subseteq completed

=============================================================================
