---------------------------- MODULE MCSupervisor ----------------------------
(* Instances of Supervisor for TLC. *)
EXTENDS Supervisor

CONSTANTS r1, w1, w2, w3, p1, p2, plain, blank, slash

\* cleanRemotePath: "a /" is stored as "/a ", and "/a " as "/a".
Cleaned == [c \in {plain, blank, slash} |-> IF c = slash THEN blank ELSE plain]
===========================================================================
