------------------------------- MODULE Quota -------------------------------
(***************************************************************************)
(* The daily quota: of a rule, or of the limit group several rules share.   *)
(* A job reads what its account has used twice in startOneJob, before and   *)
(* after its claim (internal/daemon/worker.go), each time with two          *)
(* statements (internal/store/jobs.go); jobs of all the rules of a group do *)
(* so at the same time, while other jobs end, rows leave the window of 24   *)
(* hours, and a user edits the group (internal/server/server.go).           *)
(*                                                                         *)
(* Bytes are counted in units; a unit is a member of Units, so that every   *)
(* sum the code takes is the cardinality of a set.  A unit is waiting in    *)
(* the queue, claimed by a job, or reported by the row of a job that ended  *)
(* within the window; one that has left all three stands for a new one.     *)
(***************************************************************************)
EXTENDS Integers, FiniteSets

CONSTANTS
    Rules, Groups, NoGroup,
    Jobs,       \* goroutines in startOneJob, of all rules
    Units, RuleOf, \* a unit belongs to a file of one rule
    OwnLimit,   \* daily_limit_bytes of a rule (0: none)
    Entered,    \* the sizes a user may enter as the limit of a group
    Top,        \* the first size that no int64 holds
    BatchUnits, \* how much one claim takes
    MaxUpsets,  \* bound on the edits of groups and on such failures of "db"
    Faults      \* "db": a statement that reads usage or sizes fails

NoLimit == 0   \* also what the code takes for a group that has no row

ASSUME QuotaRules == Rules # {}
ASSUME QuotaFinite == IsFiniteSet(Units) /\ RuleOf \in [Units -> Rules]
ASSUME QuotaNoGroup == NoGroup \notin Groups
ASSUME QuotaLimits == OwnLimit \in [Rules -> Nat] /\ Entered \subseteq Nat
                      /\ Top \in Nat \ {0} /\ MaxUpsets \in Nat
ASSUME QuotaBatch == BatchUnits \in Nat \ {0}

VARIABLES
    group,   \* rules.limit_group
    limit,   \* limit_groups: the limit of each group, NoLimit if it has no row
    copy,    \* the limit group in the copy of the rule its worker holds
    queued,  \* the units in rows "queued"
    spent,   \* the units in bytes_done of rows ended within the window
    job,     \* what each goroutine is at
    saving,  \* limitGroupsSavePost between its two statements, or Done
    upsets,  \* how many edits and failures there were
    clean    \* history: no job got past the second check unseen, no edit

vars == <<group, limit, copy, queued, spent, job, saving, upsets, clean>>

---------------------------------------------------------------------------
(* What parseSizeBytes and UpsertLimitGroup make of a size.  The bound is    *)
(* tested in floating point, where the largest int64 is Top itself: Top is   *)
(* accepted, and its conversion overflows (on amd64, to the smallest int64). *)

Accepted(v)  == v <= Top
SizeBytes(v) == IF v = Top THEN 0 - Top ELSE v

\* Mutant: a negative limit is stored.
Unclamped(n) == n

Clamped(n) == IF n < 0 THEN NoLimit ELSE n

---------------------------------------------------------------------------
(* A goroutine, by its next statement.  "limit": GetLimitGroup; "ended1",   *)
(* "inflight1": the check before the claim; "claim"; "ended2", "inflight2": *)
(* the check after it; "refused": the claim is to be released; "running":   *)
(* from CreateJobRow on; "closed": its row has ended, its files' rows still *)
(* say "transferring".                                                     *)

Before  == {"limit", "ended1", "inflight1", "claim"}
Between == {"ended2", "inflight2"}
Phases  == {"idle", "refused", "running", "closed"} \cup Before \cup Between

AnyRule == CHOOSE r \in Rules : TRUE

\* ended: what the first statement of a check returned.  History: "blind", the
\* account has changed since the goroutine looked; "missed", a job of it has
\* ended since the first statement of the second check.
Idle == [phase |-> "idle", rule |-> AnyRule, group |-> NoGroup, limit |-> 0, ended |-> 0,
         claim |-> {}, blind |-> FALSE, missed |-> FALSE]

NotSaving == [group |-> NoGroup, members |-> {}]

UnitsOf(A) == {u \in Units : RuleOf[u] \in A}

\* The rules whose usage is summed for a rule that is in group g.
Account(r, g) == IF g = NoGroup THEN {r} ELSE {q \in Rules : group[q] = g}

LimitOf(r, g) == IF g = NoGroup THEN OwnLimit[r] ELSE limit[g]

InForce(r) == LimitOf(r, group[r])
Mine(r)    == UnitsOf(Account(r, group[r]))

Transferring == UNION {job[j].claim : j \in Jobs}

Claims(phases) == UNION {job[j].claim : j \in {i \in Jobs : job[i].phase \in phases}}

\* The units a job's budget is summed over.
Scope(j) == UnitsOf(Account(job[j].rule, job[j].group))

Waiting(r) == queued \cap UnitsOf({r})

Goto(j, phase) == job' = [job EXCEPT ![j].phase = phase, ![j].ended = 0]
Return(j)      == job' = [job EXCEPT ![j] = Idle]

\* The job starts and forgets what it has read.
Start(j, blind) == job' = [job EXCEPT ![j] = [Idle EXCEPT !.phase = "running", !.blind = blind,
                                              !.rule = job[j].rule, !.claim = job[j].claim]]

\* History: the account changes under the goroutines.
Blinded == [j \in Jobs |-> IF job[j].phase = "idle" THEN job[j] ELSE [job[j] EXCEPT !.blind = TRUE]]

---------------------------------------------------------------------------
Init ==
    /\ group \in [Rules -> Groups \cup {NoGroup}]
    /\ limit \in [Groups -> {Clamped(SizeBytes(v)) : v \in Entered}]
    /\ copy = group
    /\ queued = {}
    /\ spent = {}
    /\ job = [j \in Jobs |-> Idle]
    /\ saving = NotSaving
    /\ upsets = 0
    /\ clean = TRUE

---------------------------------------------------------------------------
(* startOneJob.                                                            *)

Enter(j, r) ==
    /\ job[j].phase = "idle"
    /\ Waiting(r) # {}
    /\ job' = [job EXCEPT ![j] = [Idle EXCEPT !.phase = "limit", !.rule = r, !.group = copy[r],
                                              !.blind = (copy[r] # group[r])]]
    /\ UNCHANGED <<group, limit, copy, queued, spent, saving, upsets, clean>>

ReadLimit(j) ==
    /\ job[j].phase = "limit"
    /\ LET l == LimitOf(job[j].rule, job[j].group)
       IN  job' = [job EXCEPT ![j].limit = l, ![j].phase = IF l > 0 THEN "ended1" ELSE "claim"]
    /\ UNCHANGED <<group, limit, copy, queued, spent, saving, upsets, clean>>

\* Budget functions, first statement: bytes_done of the rows that ended.
ReadEnded(j) ==
    /\ job[j].phase \in {"ended1", "ended2"}
    /\ job' = [job EXCEPT ![j].ended = Cardinality(spent \cap Scope(j)), ![j].missed = FALSE,
                          ![j].phase = IF @ = "ended1" THEN "inflight1" ELSE "inflight2"]
    /\ UNCHANGED <<group, limit, copy, queued, spent, saving, upsets, clean>>

\* Mutant: rows being transferred are not counted.
EndedOnly(j) == job[j].ended

\* Second statement: the sizes of the rows being transferred.
Budget(j) == job[j].ended + Cardinality(Transferring \cap Scope(j))

\* The first check fails open: an error is logged.
Precheck(j) ==
    /\ job[j].phase = "inflight1"
    /\ \/ Budget(j) >= job[j].limit /\ Return(j)
       \/ (Budget(j) < job[j].limit \/ "db" \in Faults) /\ Goto(j, "claim")
    /\ UNCHANGED <<group, limit, copy, queued, spent, saving, upsets, clean>>

Batch(S) == {B \in SUBSET S : \/ Cardinality(B) = BatchUnits
                              \/ B = S /\ Cardinality(S) < BatchUnits}

Claim(j) ==
    /\ job[j].phase = "claim"
    /\ \E B \in Batch(Waiting(job[j].rule)) :
          /\ queued' = queued \ B
          /\ IF B = {} THEN Return(j)
             ELSE job' = [job EXCEPT ![j].claim = B,
                             ![j].phase = IF job[j].limit > 0 THEN "ended2" ELSE "running"]
    /\ UNCHANGED <<group, limit, copy, spent, saving, upsets, clean>>

\* Mutant: the budget read after the claim is not the one that decides.
RecheckStale(j) ==
    /\ job[j].phase = "inflight2"
    /\ IF job[j].ended >= job[j].limit
       THEN Goto(j, "refused") /\ UNCHANGED clean
       ELSE Start(j, job[j].blind) /\ clean' = (clean /\ ~job[j].blind /\ ~job[j].missed)
    /\ UNCHANGED <<group, limit, copy, queued, spent, saving, upsets>>

Recheck(j) ==
    /\ job[j].phase = "inflight2"
    /\ IF Budget(j) > job[j].limit
       THEN Goto(j, "refused") /\ UNCHANGED clean
       ELSE Start(j, job[j].blind) /\ clean' = (clean /\ ~job[j].blind /\ ~job[j].missed)
    /\ UNCHANGED <<group, limit, copy, queued, spent, saving, upsets>>

\* The second check fails open too: GetJobFilesSize fails, or the budget is 0
\* because the statement that reads it failed.
RecheckFails(j) ==
    /\ "db" \in Faults
    /\ upsets < MaxUpsets
    /\ job[j].phase = "inflight2"
    /\ upsets' = upsets + 1
    /\ Start(j, TRUE)
    /\ clean' = FALSE
    /\ UNCHANGED <<group, limit, copy, queued, spent, saving>>

Release(j) ==
    /\ job[j].phase = "refused"
    /\ queued' = queued \cup job[j].claim
    /\ Return(j)
    /\ UNCHANGED <<group, limit, copy, spent, saving, upsets, clean>>

\* UpdateJobDone, UpdateJobFailed, UpdateJobTerminated: bytes_done is what the
\* last poll of rclone returned, so any part of what it has transferred.
CloseRow(j) ==
    /\ job[j].phase = "running"
    /\ \E D \in SUBSET job[j].claim :
          /\ spent' = spent \cup D
          /\ job' = [i \in Jobs |->
                        IF i = j THEN [job[i] EXCEPT !.phase = "closed"]
                        ELSE IF job[i].phase = "inflight2" /\ D \cap Scope(i) # {}
                        THEN [job[i] EXCEPT !.missed = TRUE]
                        ELSE job[i]]
    /\ UNCHANGED <<group, limit, copy, queued, saving, upsets, clean>>

\* FinalizeJobFiles: what was not transferred goes back to the queue or fails.
Finalize(j) ==
    /\ job[j].phase = "closed"
    /\ \E R \in SUBSET (job[j].claim \ spent) : queued' = queued \cup R
    /\ Return(j)
    /\ UNCHANGED <<group, limit, copy, spent, saving, upsets, clean>>

---------------------------------------------------------------------------
(* The world.                                                              *)

\* A scan queues files, or failed ones are tried again.
Arrive(u) ==
    /\ u \notin queued \cup spent \cup Transferring
    /\ queued' = queued \cup {u}
    /\ UNCHANGED <<group, limit, copy, spent, job, saving, upsets, clean>>

\* Rows that ended leave the window.
Expire(u) ==
    /\ u \in spent
    /\ spent' = spent \ {u}
    /\ UNCHANGED <<group, limit, copy, queued, job, saving, upsets, clean>>

\* limitGroupsSavePost: two statements, the second a transaction that empties
\* the group before it fills it.
SaveGroup(g, v, members) ==
    /\ Accepted(v)
    /\ saving = NotSaving
    /\ upsets < MaxUpsets
    /\ upsets' = upsets + 1
    /\ limit' = [limit EXCEPT ![g] = Clamped(SizeBytes(v))]
    /\ saving' = [group |-> g, members |-> members]
    /\ job' = Blinded
    /\ clean' = FALSE
    /\ UNCHANGED <<group, copy, queued, spent>>

SetRules ==
    /\ saving # NotSaving
    /\ group' = [r \in Rules |-> IF r \in saving.members THEN saving.group
                                 ELSE IF group[r] = saving.group THEN NoGroup ELSE group[r]]
    /\ saving' = NotSaving
    /\ job' = Blinded
    /\ clean' = FALSE
    /\ UNCHANGED <<limit, copy, queued, spent, upsets>>

\* The rules of a group that is deleted go on naming it.
DeleteGroup(g) ==
    /\ upsets < MaxUpsets
    /\ limit[g] # NoLimit
    /\ upsets' = upsets + 1
    /\ limit' = [limit EXCEPT ![g] = NoLimit]
    /\ job' = Blinded
    /\ clean' = FALSE
    /\ UNCHANGED <<group, copy, queued, spent, saving>>

\* Mutant: a rule whose group has changed keeps its worker.
RefreshNothing(r) ==
    /\ copy[r] # group[r]
    /\ UNCHANGED vars

\* reconcile replaces the worker of a rule whose group has changed.  What its
\* goroutines have not claimed is left, what they have not started is released.
Refresh(r) ==
    /\ copy[r] # group[r]
    /\ copy' = [copy EXCEPT ![r] = group[r]]
    /\ job' = [j \in Jobs |->
                  IF job[j].rule # r THEN job[j]
                  ELSE IF job[j].phase \in Before THEN Idle
                  ELSE IF job[j].phase \in Between THEN [job[j] EXCEPT !.phase = "refused"]
                  ELSE job[j]]
    /\ UNCHANGED <<group, limit, queued, spent, saving, upsets, clean>>

---------------------------------------------------------------------------
JobStep(j) == \/ ReadLimit(j) \/ ReadEnded(j) \/ Precheck(j) \/ Claim(j) \/ Recheck(j)
              \/ Release(j) \/ CloseRow(j) \/ Finalize(j)

Edit == \/ \E g \in Groups, v \in Entered, M \in SUBSET Rules : SaveGroup(g, v, M)
        \/ \E g \in Groups : DeleteGroup(g)

Next == \/ \E j \in Jobs : JobStep(j) \/ \E r \in Rules : Enter(j, r)
        \/ \E u \in Units : Arrive(u) \/ Expire(u)
        \/ \E r \in Rules : Refresh(r)
        \/ SetRules \/ Edit \/ \E j \in Jobs : RecheckFails(j)

Spec == Init /\ [][Next]_vars

---------------------------------------------------------------------------
(* Correctness.                                                            *)

JobRecords == [phase : Phases, rule : Rules, group : Groups \cup {NoGroup}, limit : Nat,
               ended : Nat, claim : SUBSET Units, blind : BOOLEAN, missed : BOOLEAN]

\* Every variable holds a value of its type.
TypeOK ==
    /\ group \in [Rules -> Groups \cup {NoGroup}]
    /\ limit \in [Groups -> Nat]
    /\ copy \in [Rules -> Groups \cup {NoGroup}]
    /\ queued \in SUBSET Units
    /\ spent \in SUBSET Units
    /\ job \in [Jobs -> JobRecords]
    /\ saving \in [group : Groups \cup {NoGroup}, members : SUBSET Rules]
    /\ upsets \in 0..MaxUpsets
    /\ clean \in BOOLEAN

\* The jobs an account has at work, less those it could not know of: let in
\* while the database failed, or before the account was edited.
AtWork  == {j \in Jobs : job[j].phase \in {"running", "closed"} /\ ~job[j].blind}
Seen(r) == Mine(r) \cap UNION {job[j].claim : j \in AtWork}

\* However many jobs of however many rules check the quota at once, together
\* they never have more at work than the quota allows ("prevents concurrent
\* jobs in the same group from collectively exceeding quota", worker.go:236).
InflightWithinLimit ==
    \A r \in Rules : InForce(r) > 0 => Cardinality(Seen(r)) <= InForce(r)

\* What an account has used in the window and what its jobs are at stay within
\* the quota, unless an edit, a failing database, or a job that ended between
\* the two statements of a check has let a job in.
QuotaKept ==
    clean => \A r \in Rules : InForce(r) > 0 =>
                 Cardinality((spent \cup Claims({"running"})) \cap Mine(r)) <= InForce(r)

---------------------------------------------------------------------------
(* Liveness: each goroutine makes its next step, rclone ends, the second    *)
(* statement of an edit comes, reconcile ticks.                            *)

Fairness == /\ \A j \in Jobs : WF_vars(JobStep(j))
            /\ \A r \in Rules : WF_vars(Refresh(r))
            /\ WF_vars(SetRules)

FairSpec == Spec /\ Fairness

Within == \A r \in Rules :
    InForce(r) > 0 => Cardinality(Claims({"running", "closed"}) \cap Mine(r)) <= InForce(r)

\* A limit that is lowered, a rule moved to another group, a group created anew:
\* once edits and failures cease (here after MaxUpsets), all the jobs of an
\* account together are within the limit in force, and stay so, though workers
\* hold copies of their rules.
EditsTakeEffect == <>[]Within
===========================================================================
