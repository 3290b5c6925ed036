-------------------------- MODULE MCShyguyRegistry --------------------------
(* Small instances of ShyguyRegistry for TLC.                              *)
EXTENDS ShyguyRegistry, TLC

CONSTANTS d1, t1, t2, c1

Task == {t1, t2}
TaskSymmetry == Permutations(Task)

AllNames == {d1, t1, t2}    \* one DAG, its root node and two tasks
TwoNames == {d1, t1}        \* one DAG whose root may be removed, one task

=============================================================================
