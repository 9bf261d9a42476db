---------------------------- MODULE MCAdmission ----------------------------
(* Instances of Admission for TLC. *)
EXTENDS Admission, TLC

CONSTANTS j1, j2, j3

Setting(n, f, l) == [limit |-> n, first |-> f, last |-> l]

\* Off, one, and more than the capacity; ranges that shrink below a port in use,
\* end before they start, or have no valid start.
Changing == {Setting(0, 1, 2), Setting(1, 2, 1), Setting(5, 0, 2)}
Constant == {Setting(1, 1, 2)}
===========================================================================
