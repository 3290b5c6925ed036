------------------------ MODULE MCExecutionerControl ------------------------
(* Small instances of ExecutionerControl for TLC.                          *)
EXTENDS ExecutionerControl

=============================================================================
