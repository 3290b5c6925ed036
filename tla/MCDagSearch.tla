----------------------------- MODULE MCDagSearch -----------------------------
(* Small instances of DagSearch for TLC.                                   *)
EXTENDS DagSearch

CONSTANTS root, a, b, c

RootAndThree == {root, a, b, c}

=============================================================================
