------------------------------ MODULE MCJobLog ------------------------------
(* Instances of JobLog for TLC. *)
EXTENDS JobLog

CONSTANTS j1, j2, a, b
=============================================================================
