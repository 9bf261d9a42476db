---------------------------- MODULE FilesTable ----------------------------
(***************************************************************************)
(* The rows one rule owns in the table "files" (internal/store/files.go),   *)
(* and the statements the program runs on them.  The store holds a single   *)
(* connection (store.go:22), so a statement or a transaction is atomic:     *)
(* each operator below maps the rows before it to the rows after it.        *)
(*                                                                         *)
(* What a listing tells of a file (its size and its modification time, to  *)
(* the second) is a version number; numbers grow as the file is rewritten.  *)
(* last_seen, fail_count and last_error are left out: they pick the order   *)
(* in which rows are served, which is left open, or are only displayed.     *)
(***************************************************************************)
EXTENDS Naturals, FiniteSets

CONSTANTS
    Paths,      \* the paths below the rule's source
    Jobs,       \* the job identifiers newID can return
    NoJob,      \* job_id IS NULL
    MaxVersion, \* bound on the rewrites of a file
    Small,      \* the versions smaller than the rule's min_file_size_bytes
    BatchSize   \* the rule's batch_size

ASSUME FiniteAssumption == IsFiniteSet(Paths) /\ IsFiniteSet(Jobs)
ASSUME NoJobAssumption == NoJob \notin Jobs
ASSUME VersionAssumption == MaxVersion \in Nat \ {0} /\ Small \subseteq 1..MaxVersion
ASSUME BatchAssumption == BatchSize \in Nat \ {0}

Versions == 1..MaxVersion
NoFile   == 0                     \* no such file, so no version

RowStates == {"absent", "new", "stable", "queued", "transferring", "done", "failed"}

Row == [state : RowStates, job : Jobs \cup {NoJob}, ver : Versions \cup {NoFile}]

Absent == [state |-> "absent", job |-> NoJob, ver |-> NoFile]

In(files, s) == {p \in Paths : files[p].state = s}

OwnedBy(files, j) == {p \in Paths : files[p].job = j}

\* ORDER BY last_seen DESC LIMIT n: some n of the rows, all of them if fewer.
Batch(S, n) == {B \in SUBSET S : Cardinality(B) = n \/ (B = S /\ Cardinality(S) < n)}

---------------------------------------------------------------------------
(* UpsertScanEntries: ON CONFLICT keeps job_id and overwrites the version   *)
(* whatever the state; the CASE decides the state.  "aged": the entry's     *)
(* modification time is more than stable_seconds in the past.               *)

\* Mutant: the first WHEN of the CASE is missing.
SeenStateUnguarded(row, ver, aged) ==
    IF row.state = "queued" THEN row.state
    ELSE IF row.state = "done" /\ ver = row.ver THEN "done"
    ELSE IF ver = row.ver \/ aged THEN "stable" ELSE "new"

\* Mutant: a row that is done stays so whatever the listing says.
SeenStateDoneKept(row, ver, aged) ==
    IF row.state \in {"transferring", "queued", "done"} THEN row.state
    ELSE IF ver = row.ver \/ aged THEN "stable" ELSE "new"

SeenState(row, ver, aged) ==
    IF row.state \in {"transferring", "queued"} THEN row.state
    ELSE IF row.state = "done" THEN (IF ver = row.ver THEN "done" ELSE "new")
    ELSE IF ver = row.ver \/ aged THEN "stable" ELSE "new"

Seen(row, ver, aged) ==
    IF ver = NoFile THEN row
    ELSE [state |-> SeenState(row, ver, aged), job |-> row.job, ver |-> ver]

\* The two DELETEs: rows below the size limit or with an ignored extension.
\* (Mutant: the DELETE of ignored extensions spares no state.)
PurgedAnyState(row, ignored) ==
    IF ignored \/ (row.state # "transferring" /\ row.ver \in Small) THEN Absent ELSE row

Purged(row, ignored) ==
    IF /\ row.state \in {"new", "stable", "queued", "failed"}
       /\ row.ver \in Small \/ ignored
    THEN Absent ELSE row

UpsertScanEntries(files, listing, aged, ignored) ==
    [p \in Paths |-> Purged(Seen(files[p], listing[p], p \in aged), p \in ignored)]

---------------------------------------------------------------------------
(* The queue.                                                              *)

Stable(files) == {p \in In(files, "stable") : files[p].ver \notin Small}

EnqueueStable(files, B) ==
    [p \in Paths |-> IF p \in B THEN [files[p] EXCEPT !.state = "queued"] ELSE files[p]]

\* Mutant: the state is not tested.
ClaimableAnyState(files) ==
    {p \in Paths : files[p].state \in {"queued", "transferring"} /\ files[p].ver \notin Small}

\* What ClaimQueuedForJob selects: queued, no job_id, not below the size limit.
Claimable(files) ==
    {p \in In(files, "queued") : files[p].job = NoJob /\ files[p].ver \notin Small}

ClaimQueuedForJob(files, B, j) ==
    [p \in Paths |-> IF p \in B
                     THEN [files[p] EXCEPT !.state = "transferring", !.job = j]
                     ELSE files[p]]

Requeued(row) == [row EXCEPT !.state = "queued", !.job = NoJob]

RetryFailed(files, B) ==
    [p \in Paths |-> IF p \in B THEN Requeued(files[p]) ELSE files[p]]

---------------------------------------------------------------------------
(* The end of a job.                                                       *)

\* Mutant: job_id is kept.
ReleaseKeepingJob(files, j) ==
    [p \in Paths |-> IF files[p].job = j /\ files[p].state = "transferring"
                     THEN [files[p] EXCEPT !.state = "queued"] ELSE files[p]]

ReleaseTransferringBackToQueued(files, j) ==
    [p \in Paths |-> IF files[p].job = j /\ files[p].state = "transferring"
                     THEN Requeued(files[p]) ELSE files[p]]

\* Mutant: the paths are not tested.
FinalizeAllDone(files, j, done, rest) ==
    [p \in Paths |-> IF files[p].job = j THEN [files[p] EXCEPT !.state = "done"] ELSE files[p]]

\* Marks the paths "done" (whatever their state: the WHERE names the job and
\* the path only) and sends what is still transferring to "rest".  Only a
\* requeued row loses its job_id.
FinalizeJobFiles(files, j, done, rest) ==
    LET Marked(p) == IF files[p].job = j /\ p \in done
                     THEN [files[p] EXCEPT !.state = "done"] ELSE files[p]
    IN  [p \in Paths |->
            IF Marked(p).job = j /\ Marked(p).state = "transferring"
            THEN IF rest = "queued" THEN Requeued(files[p])
                                    ELSE [files[p] EXCEPT !.state = "failed"]
            ELSE Marked(p)]

ClearJobOnDone(files, j) ==
    [p \in Paths |-> IF files[p].job = j /\ files[p].state = "done"
                     THEN [files[p] EXCEPT !.job = NoJob] ELSE files[p]]

\* Mutant: only rows without a job are requeued.
RequeueUnowned(files) ==
    [p \in Paths |-> IF files[p].state = "transferring" /\ files[p].job = NoJob
                     THEN Requeued(files[p]) ELSE files[p]]

\* The safety net of RecoverDanglingRuns.
RequeueTransferring(files) ==
    [p \in Paths |-> IF files[p].state = "transferring"
                     THEN Requeued(files[p]) ELSE files[p]]
===========================================================================
