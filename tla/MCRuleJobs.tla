---------------------------- MODULE MCRuleJobs ----------------------------
(* Instances of RuleJobs for TLC. *)
EXTENDS RuleJobs, TLC

CONSTANTS a, b, j1, j2

NoFilter  == {{}}
AnyFilter == {{}, {a}}
None      == {}
One       == {1}

\* Jobs are interchangeable, and so are paths unless a filter names one.
\* No run that checks liveness uses either.
Symmetry == Permutations(Jobs)
FullSymmetry == Permutations(Jobs) \cup Permutations(Paths)
===========================================================================
