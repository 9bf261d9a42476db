---------------------------- MODULE FileLedger ----------------------------
(***************************************************************************)
(* What the tables of a rule promise, with no worker, no goroutine, no      *)
(* rclone and no recovery in sight: a ledger of who holds which file and    *)
(* which files are synchronized.  A job takes free files, once, in one      *)
(* step; it gives all of them back in one step and may mark some of them    *)
(* synchronized as it does; nobody else marks a file, and nobody touches a  *)
(* file that is held, but the start of the daemon, which frees everything.  *)
(* RuleJobs implements it.                                                 *)
(***************************************************************************)
CONSTANTS Files, Holders, Nobody

VARIABLES
    owner,   \* file -> the job that holds it
    synced   \* the files marked as synchronized

HeldBy(j) == {p \in Files : owner[p] = j}
Free      == HeldBy(Nobody)

Init ==
    /\ owner = [p \in Files |-> Nobody]
    /\ synced = {}

Take(j, B) ==
    /\ HeldBy(j) = {}
    /\ B # {} /\ B \subseteq Free \ synced
    /\ owner' = [p \in Files |-> IF p \in B THEN j ELSE owner[p]]
    /\ UNCHANGED synced

Settle(j, done) ==
    /\ done \subseteq HeldBy(j)
    /\ owner' = [p \in Files |-> IF owner[p] = j THEN Nobody ELSE owner[p]]
    /\ synced' = synced \cup done

\* A listing shows that synchronized files have changed.
Outdate(S) ==
    /\ S \subseteq synced
    /\ synced' = synced \ S
    /\ UNCHANGED owner

FreeAll ==
    /\ owner' = [p \in Files |-> Nobody]
    /\ UNCHANGED synced

Next ==
    \/ \E j \in Holders, B \in SUBSET Files : Take(j, B) \/ Settle(j, B)
    \/ \E S \in SUBSET Files : Outdate(S)
    \/ FreeAll

Spec == Init /\ [][Next]_<<owner, synced>>
===========================================================================
