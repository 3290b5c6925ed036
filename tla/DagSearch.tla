------------------------------ MODULE DagSearch ------------------------------
(***************************************************************************)
(* directed_acyclic_graph (include/graph/graph.hpp) as it is written: each *)
(* node has a vector of names, and has_cycle and topological_sort walk     *)
(* them depth first, from the keys of a hash map in the order it lists     *)
(* them.  The recursive calls are frames of a stack; one step of a search  *)
(* is one call, one turn of a call's loop that makes none, or one return.  *)
(*                                                                         *)
(* TaskGraph says what these searches find without walking.  This module   *)
(* shows that: it implements TaskGraph for every order of the keys and of  *)
(* the vectors.                                                            *)
(*                                                                         *)
(* run_order's answer is no order to run in: dfs books a node after those  *)
(* it depends on, and topological_sort turns that round.  Nothing goes by  *)
(* it: execute_at makes one runner of each name, the executioner hashes    *)
(* them by name and takes those that is_task_ready lets through.           *)
(***************************************************************************)
EXTENDS TaskGraph, SequencesExt

CONSTANTS
    Root,           \* the node the constructor inserts
    MaxListed       \* bound: length of a dependency vector

ASSUME SearchAssumption == Root \in Name /\ MaxListed \in Nat

VARIABLES
    adjacency_list,     \* node -> vector of names
    pushed,             \* what push_task may erase again: none or one task
    color,              \* visited and state of the searches
    stack,              \* calls of depth_first_search or dfs, the last on top
    order,              \* order of topological_sort
    answer              \* what the last call returned, "pending" until then

walk == <<color, stack>>
vars == <<adjacency_list, pushed, walk, order, answer>>

Vectors == BoundedSeq(Name, MaxListed)

\* A name that neither map has yet is white, or not_visited: operator[]
\* inserts that value.  gray is also visiting, black is also visited.
Color == {"white", "gray", "black"}
AllWhite == [n \in Name |-> "white"]

\* A call: its node, and which name of the node's vector its loop looks at.
Frame == [node : Name, next : Nat \ {0}]

Answers == {"ok", "contains_duplicates", "task_creates_cycle", "task_not_found",
            "ordered", "nullopt", "out_of_range", "pending", "terminate"}

\* The graph of TaskGraph a list stands for.
BagOf(vector) == [d \in Name |-> Cardinality({i \in DOMAIN vector : vector[i] = d})]
Bags(list) == [n \in DOMAIN list |-> BagOf(list[n])]

Without(list, names) == [n \in DOMAIN list \ names |-> list[n]]

\* What the calls that have returned have made of the graph.
Graph == Bags(Without(adjacency_list, pushed))

Init == /\ adjacency_list = [n \in {Root} |-> << >>]
        /\ pushed = {}
        /\ color = AllWhite
        /\ stack = << >>
        /\ order = << >>
        /\ answer = "ok"

-----------------------------------------------------------------------------
\* The searches.  has_cycle is push_task's and topological_sort run_order's,
\* so that pushed tells which it is.
Searching == answer = "pending"
Sorting == pushed = {}

\* The search is over: its maps and its calls are gone.
Over(result) == /\ answer' = result
                /\ color' = AllWhite
                /\ stack' = << >>

\* adjacency_list.at throws.  push_task is noexcept, run_order is not.
Throws == IF Sorting
          THEN Over("out_of_range") /\ order' = << >> /\ UNCHANGED <<adjacency_list, pushed>>
          ELSE answer' = "terminate" /\ UNCHANGED <<adjacency_list, pushed, walk, order>>

\* A call for node, from the calls below it.
Call(node, calls) ==
    IF node \in DOMAIN adjacency_list
    THEN /\ color' = [color EXCEPT ![node] = "gray"]
         /\ stack' = Append(calls, [node |-> node, next |-> 1])
         /\ UNCHANGED <<adjacency_list, pushed, order, answer>>
    ELSE Throws

\* Mutant: only what the first key reaches is searched.
FirstKeyOnly == IF color = AllWhite THEN DOMAIN adjacency_list ELSE {}

\* The keys that may come next.  The order of a hash map is any order; the
\* keys that are not white when it is their turn are passed over.
KeysLeft == {key \in DOMAIN adjacency_list : color[key] = "white"}

StartFrom(key) == /\ Searching
                  /\ stack = << >>
                  /\ Call(key, stack)

Top == Last(stack)
InLoop == /\ Searching
          /\ stack # << >>
          /\ Top.next \in DOMAIN adjacency_list[Top.node]
Neighbor == adjacency_list[Top.node][Top.next]
Advanced == [stack EXCEPT ![Len(stack)].next = @ + 1]

\* Every call returns, and push_task erases what it has emplaced.
FindCycle ==
    /\ InLoop
    /\ color[Neighbor] = "gray"
    /\ Over(IF Sorting THEN "nullopt" ELSE "task_creates_cycle")
    /\ order' = << >>
    /\ pushed' = {}
    /\ adjacency_list' = Without(adjacency_list, pushed)

\* Mutant: a name that is done is walked, and booked, once more.
DescendAgain == /\ InLoop
                /\ color[Neighbor] # "gray"
                /\ Call(Neighbor, Advanced)

Descend == /\ InLoop
           /\ color[Neighbor] = "white"
           /\ Call(Neighbor, Advanced)

PassOver == /\ InLoop
            /\ color[Neighbor] = "black"
            /\ stack' = Advanced
            /\ UNCHANGED <<adjacency_list, pushed, color, order, answer>>

\* Mutant: the color is taken back.
UnmarkedAgain == "white"

Finished == "black"

\* After the loop: the node is done, and dfs books it, after its dependencies.
Leave == /\ Searching
         /\ stack # << >>
         /\ Top.next \notin DOMAIN adjacency_list[Top.node]
         /\ color' = [color EXCEPT ![Top.node] = Finished]
         /\ stack' = Front(stack)
         /\ order' = IF Sorting THEN Append(order, Top.node) ELSE order
         /\ UNCHANGED <<adjacency_list, pushed, answer>>

\* The order of booking, from its end: dependants before dependencies.
RunOrderReturned == Reverse(order)

\* Every key is done.
SearchEnds == /\ Searching
              /\ stack = << >>
              /\ KeysLeft = {}
              /\ Over(IF Sorting THEN "ordered" ELSE "ok")
              /\ order' = RunOrderReturned
              /\ pushed' = {}
              /\ UNCHANGED adjacency_list

Search == \/ \E key \in KeysLeft : StartFrom(key)
          \/ FindCycle
          \/ Descend
          \/ PassOver
          \/ Leave
          \/ SearchEnds

-----------------------------------------------------------------------------
Idle == answer \notin {"pending", "terminate"}

Emplaced(list, n, vector) ==
    [m \in DOMAIN list \cup {n} |-> IF m = n THEN vector ELSE list[m]]

\* push_task emplaces, and begins has_cycle.
PushTask(n, vector) ==
    /\ Idle
    /\ order' = << >>
    /\ IF n \in DOMAIN adjacency_list
       THEN /\ answer' = "contains_duplicates"
            /\ UNCHANGED <<adjacency_list, pushed, walk>>
       ELSE /\ answer' = "pending"
            /\ adjacency_list' = Emplaced(adjacency_list, n, vector)
            /\ pushed' = {n}
            /\ UNCHANGED walk

\* remove_task: ranges::find meets the first occurrence, erase takes that one.
Erased(vector, n) == RemoveFirst(vector, n)

RemoveTask(n) ==
    /\ Idle
    /\ order' = << >>
    /\ IF n \notin DOMAIN adjacency_list
       THEN answer' = "task_not_found" /\ UNCHANGED <<adjacency_list, pushed, walk>>
       ELSE /\ answer' = "ok"
            /\ adjacency_list' = [m \in DOMAIN adjacency_list \ {n} |->
                                     Erased(adjacency_list[m], n)]
            /\ UNCHANGED <<pushed, walk>>

\* run_order begins topological_sort.
RunOrder == /\ Idle
            /\ answer' = "pending"
            /\ order' = << >>
            /\ UNCHANGED <<adjacency_list, pushed, walk>>

\* The process is gone.
Gone == answer = "terminate" /\ UNCHANGED vars

Next == \/ \E n \in Name, vector \in Vectors : PushTask(n, vector)
        \/ \E n \in Name : RemoveTask(n)
        \/ RunOrder
        \/ Search
        \/ Gone

\* A call that has begun goes on.
Spec == Init /\ [][Next]_vars /\ WF_vars(Search)

-----------------------------------------------------------------------------
(* run_order never finds a cycle, as push_task lets none in and            *)
(* remove_task closes none, and lists each node once: execute_at, which    *)
(* makes the runners of a run from the list, leaves no task out and gives  *)
(* none two runners.                                                       *)
RunOrderIsComplete ==
    /\ answer # "nullopt"
    /\ answer = "ordered" => /\ ToSet(order) = DOMAIN adjacency_list
                             /\ IsInjective(order)

(* A call that returns has done to the vectors what TaskGraph does to the  *)
(* bags, and found what TaskGraph says is there; until it returns nothing  *)
(* is done.  A search reports a cycle only if there is one, throws only if *)
(* a name is missing, and ends well only if neither is so.                 *)
TaskGraphStep ==
    \/ answer' = "pending" /\ UNCHANGED Graph
    \/ \E n \in pushed : [result |-> answer', graph |-> Graph']
           \in PushResults(Graph, n, BagOf(adjacency_list[n]))
    \/ answer' \in {"contains_duplicates", "task_not_found"} /\ UNCHANGED Graph
    \/ \E n \in DOMAIN Graph : answer' = "ok" /\ Graph' = Removed(Graph, n)
    \/ /\ Searching /\ Sorting /\ UNCHANGED Graph
       /\ \E found \in SearchOutcomes(Graph) :
             answer' = CASE found = "cycle" -> "nullopt"
                         [] found = "throws" -> "out_of_range"
                         [] OTHER -> "ordered"

ImplementsTaskGraph == [][TaskGraphStep]_vars

(* No search goes on for ever, whatever the vectors hold: cycles, missing  *)
(* names, names listed twice.                                              *)
SearchesEnd == Searching ~> ~Searching

=============================================================================
