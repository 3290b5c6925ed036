--------------------------- MODULE MCActionsPanel ---------------------------
\* ActionsPanel for TLC.
EXTENDS ActionsPanel

CONSTANTS d1, t1, c1

OneDag == {d1, t1}

=============================================================================
