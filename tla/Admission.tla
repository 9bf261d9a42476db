----------------------------- MODULE Admission -----------------------------
(***************************************************************************)
(* What every job, automatic or manual, passes before it may run rclone:    *)
(* the global limiter (internal/daemon/limiter.go) and the port manager     *)
(* (internal/daemon/ports.go), in the order of startOneJob (worker.go:212)  *)
(* and runManualJob (supervisor.go:183), with the supervisor refreshing     *)
(* their settings at any moment (supervisor.go:55).                        *)
(*                                                                         *)
(* The limiter has no lock: the atomic limit and the length of the channel  *)
(* are read, compared and acted on in separate steps, and a step is what    *)
(* happens atomically there.  The port manager works under its mutex.       *)
(***************************************************************************)
EXTENDS Integers, FiniteSets

CONSTANTS
    Jobs,        \* the goroutines that ask for admission
    Capacity,    \* capacity of the channel (65535)
    Settings     \* the settings the user may save: limit, first and last port

ASSUME JobsAssumption == IsFiniteSet(Jobs)
ASSUME CapacityAssumption == Capacity \in Nat \ {0}
ASSUME SettingsAssumption ==
    Settings \subseteq [limit : Int, first : Int, last : Int]

VARIABLES
    limit,   \* GlobalLimiter.limit
    tokens,  \* len(GlobalLimiter.sem)
    first,   \* PortManager.start
    last,    \* PortManager.end
    inUse,   \* PortManager.inUse
    fresh,   \* refreshRuntime: settings read, range still to be set ({} or one)
    pc,      \* job -> station
    seen,    \* job -> the limit it loaded
    port     \* job -> its port (0: none)

limiter == <<limit, tokens>>
ports   == <<first, last, inUse>>
vars    == <<limit, tokens, first, last, inUse, fresh, pc, seen, port>>

\* "loading" .. "waiting": in the loop of GlobalLimiter.Acquire, by the next
\* step; "admitted": out of it; "running": with a port; "leaving": the port is
\* released, the limiter not yet.
Asking   == {"loading", "testing", "sending", "waiting"}
Inside   == {"admitted", "running", "leaving"}
Stations == Asking \cup Inside \cup {"out"}

At(S)    == {j \in Jobs : pc[j] \in S}
Admitted == At(Inside)

Move(j, from, to) == pc[j] = from /\ pc' = [pc EXCEPT ![j] = to]

\* Mutant: the capacity is not heeded.
ClampedBelow(n) == IF n < 0 THEN 0 ELSE n

ClampedLimit(n) == IF n < 0 THEN 0 ELSE IF n > Capacity THEN Capacity ELSE n
DefaultStart == 55720

\* The first refreshRuntime runs before the supervisor starts any worker.
Init ==
    /\ \E s \in Settings :
          /\ limit = ClampedLimit(s.limit)
          /\ first = IF s.first <= 0 THEN DefaultStart ELSE s.first
          /\ last = IF s.last < first THEN first ELSE s.last
    /\ tokens = 0
    /\ inUse = {}
    /\ fresh = {}
    /\ pc = [j \in Jobs |-> "out"]
    /\ seen = [j \in Jobs |-> 0]
    /\ port = [j \in Jobs |-> 0]

---------------------------------------------------------------------------
(* refreshRuntime: SetLimit, then SetRange.                                *)

SetLimit(s) ==
    /\ fresh = {}
    /\ limit' = ClampedLimit(s.limit)
    /\ fresh' = {s}
    /\ UNCHANGED <<tokens, ports, pc, seen, port>>

SetRange ==
    \E s \in fresh :
        /\ first' = IF s.first <= 0 THEN first ELSE s.first
        /\ last' = IF s.last < first' THEN first' ELSE s.last
        /\ fresh' = {}
        /\ UNCHANGED <<limiter, inUse, pc, seen, port>>

---------------------------------------------------------------------------
(* GlobalLimiter.                                                          *)

Arrive(j) ==
    /\ Move(j, "out", "loading")
    /\ UNCHANGED <<limiter, ports, fresh, seen, port>>

\* A limit of 0 admits at once, without a token.
Load(j) ==
    /\ Move(j, "loading", IF limit = 0 THEN "admitted" ELSE "testing")
    /\ seen' = [seen EXCEPT ![j] = limit]
    /\ UNCHANGED <<limiter, ports, fresh, port>>

Test(j) ==
    /\ Move(j, "testing", IF tokens < seen[j] THEN "sending" ELSE "waiting")
    /\ UNCHANGED <<limiter, ports, fresh, seen, port>>

Send(j) ==
    /\ Move(j, "sending", "admitted")
    /\ tokens < Capacity
    /\ tokens' = tokens + 1
    /\ UNCHANGED <<limit, ports, fresh, seen, port>>

\* Mutant: the limit is loaded once, before the loop.
WakeStale(j) ==
    /\ Move(j, "waiting", "testing")
    /\ UNCHANGED <<limiter, ports, fresh, seen, port>>

Wake(j) ==
    /\ Move(j, "waiting", "loading")
    /\ UNCHANGED <<limiter, ports, fresh, seen, port>>

\* The context is done: seen at the head of the loop and by both selects.
Cancel(j) ==
    /\ pc[j] \in {"loading", "sending", "waiting"}
    /\ pc' = [pc EXCEPT ![j] = "out"]
    /\ UNCHANGED <<limiter, ports, fresh, seen, port>>

\* Mutant: no token is taken back while the limiter is switched off.
ReleaseLimited(j) ==
    /\ Move(j, "leaving", "out")
    /\ tokens' = IF tokens > 0 /\ limit > 0 THEN tokens - 1 ELSE tokens
    /\ UNCHANGED <<limit, ports, fresh, seen, port>>

\* A token is taken back, if there is one, whether or not this job sent it.
Release(j) ==
    /\ Move(j, "leaving", "out")
    /\ tokens' = IF tokens > 0 THEN tokens - 1 ELSE 0
    /\ UNCHANGED <<limit, ports, fresh, seen, port>>

---------------------------------------------------------------------------
(* PortManager.                                                            *)

\* Mutant: a port that can be bound is taken for free, used or not.
AcquireBindable(j) ==
    /\ pc[j] = "admitted"
    /\ \E p \in first..last :
          /\ pc' = [pc EXCEPT ![j] = "running"]
          /\ port' = [port EXCEPT ![j] = p]
          /\ inUse' = inUse \cup {p}
    /\ UNCHANGED <<limiter, first, last, fresh, seen>>

\* The first port of the range that is not in use and can be bound: other
\* programs may hold any of the others.
AcquirePort(j) ==
    /\ pc[j] = "admitted"
    /\ \E p \in (first..last) \ inUse :
          /\ pc' = [pc EXCEPT ![j] = "running"]
          /\ port' = [port EXCEPT ![j] = p]
          /\ inUse' = inUse \cup {p}
    /\ UNCHANGED <<limiter, first, last, fresh, seen>>

\* No free port: the job gives up and leaves the limiter.
NoPort(j) ==
    /\ Move(j, "admitted", "leaving")
    /\ UNCHANGED <<limiter, ports, fresh, seen, port>>

\* The job is over, however it ended: the deferred calls run.
ReleasePort(j) ==
    /\ Move(j, "running", "leaving")
    /\ inUse' = inUse \ {port[j]}
    /\ port' = [port EXCEPT ![j] = 0]
    /\ UNCHANGED <<limiter, first, last, fresh, seen>>

---------------------------------------------------------------------------
Loop(j) == Load(j) \/ Test(j) \/ Send(j) \/ Wake(j)

Refresh == SetRange \/ \E s \in Settings : SetLimit(s)

Next ==
    \/ Refresh
    \/ \E j \in Jobs : \/ Arrive(j) \/ Loop(j) \/ Cancel(j) \/ Release(j)
                       \/ AcquirePort(j) \/ NoPort(j) \/ ReleasePort(j)

Spec == Init /\ [][Next]_vars

\* A goroutine in the loop of Acquire goes on: it waits 150 ms at most.  Nothing
\* is assumed of the jobs that run: they may run for ever.
FairSpec == Spec /\ WF_vars(SetRange) /\ \A j \in Jobs : WF_vars(Loop(j))

---------------------------------------------------------------------------
(* Correctness.                                                            *)

\* Every variable holds a value of its type.
TypeOK ==
    /\ limit \in 0..Capacity
    /\ tokens \in 0..Capacity
    /\ first \in Nat \ {0} /\ last \in Nat \ {0} /\ first <= last
    /\ inUse \subseteq Nat \ {0}
    /\ fresh \subseteq Settings
    /\ pc \in [Jobs -> Stations]
    /\ seen \in [Jobs -> 0..Capacity]
    /\ port \in [Jobs -> Nat]

\* No token outlives the job it was sent for, whatever the limit was when the
\* job came and is when it leaves: a token that stayed behind would shrink the
\* limit until the next restart (limiter.go:59).
NoTokenLeak == tokens <= Cardinality(Admitted)

\* The ports in use are those of the jobs that run, one for each: statistics
\* are read from one's own rclone, and no port is lost to a job that ended,
\* even when the range changes under a running job.
PortsHeld ==
    /\ inUse = {port[j] : j \in At({"running"})}
    /\ \A i, j \in At({"running"}) : port[i] = port[j] => i = j

\* What settings.html:33 says of the limit: a job is admitted only if then no
\* more jobs are admitted than the limit allows.
WithinLimit ==
    [][\A j \in Jobs : j \in Admitted' \ Admitted =>
          limit = 0 \/ Cardinality(Admitted') <= limit]_vars

Steady == <>[][limit' = limit]_limit

\* When the limit is no more changed, no job waits for ever beside a free slot:
\* it gets in or gives up, or again and again all the slots are taken.
WorkConserving ==
    Steady => \A j \in Jobs :
                 []<>(\/ pc[j] \notin Asking
                      \/ limit > 0 /\ Cardinality(Admitted) >= limit)
===========================================================================
