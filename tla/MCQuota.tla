------------------------------ MODULE MCQuota ------------------------------
(* Instances of Quota for TLC. *)
EXTENDS Quota

CONSTANTS r1, r2, u1, u2, g1, j1, j2

OneEach   == [u \in {u1, u2} |-> IF u = u1 THEN r1 ELSE r2]
NoneOfOwn == [r \in {r1, r2} |-> IF r = r1 THEN 1 ELSE 0]
===========================================================================
