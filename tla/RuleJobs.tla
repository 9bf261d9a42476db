----------------------------- MODULE RuleJobs -----------------------------
(***************************************************************************)
(* One automatic rule: its worker (internal/daemon/worker.go), the jobs     *)
(* the worker starts, their rclone processes, the rows the rule owns in     *)
(* the tables "files" and "jobs", a crash of the daemon at any moment and   *)
(* the recovery the next start runs (internal/daemon/recover.go).           *)
(*                                                                         *)
(* A step is one statement on the database, one transaction, or one act of *)
(* rclone or of the world: between two of them every other goroutine may   *)
(* run.  What the program may meet besides its own steps is listed in       *)
(* Faults; a configuration chooses.                                        *)
(***************************************************************************)
EXTENDS FilesTable

CONSTANTS
    MaxParallelJobs,  \* capacity of the worker's semaphore
    RetryLimit,       \* the limit of RetryFailed
    Move,             \* transfer_mode is "move" (else "copy")
    Filters,          \* the sets of paths the rule's extension filter may ignore
    Faults            \* what may happen besides the program's own steps

AllFaults == {
    "crash",      \* the daemon dies, or is shut down, between two steps
    "orphan",     \* ... and rclone processes survive it
    "fail",       \* rclone exits with an error
    "terminate",  \* a user, a signal or a cancelled context kills rclone
    "refuse",     \* quota, limiter, port, settings or file system say no
    "restart",    \* the rule is disabled or edited: its worker is replaced
    "retry",      \* a user asks for the failed files to be tried again
    "log",        \* a job's log cannot be read
    "quiet",      \* rclone leaves lines out of it (its level is lowered, or only
                  \* the time of a file was set)
    "remove",     \* a file is deleted from the source, or moved out of it
    "restore",    \* ... and comes back with the size and time it had
    "inflight",   \* a file is rewritten while a job holds it
    "db" }        \* a statement that closes a job fails; its error is dropped

ASSUME ParallelAssumption == MaxParallelJobs \in Nat \ {0}
ASSUME RetryAssumption    == RetryLimit \in Nat \ {0}
ASSUME MoveAssumption     == Move \in BOOLEAN
ASSUME FilterAssumption   == Filters \subseteq SUBSET Paths
ASSUME FaultAssumption    == Faults \subseteq AllFaults

VARIABLES
    files,     \* table "files": path -> row
    jobs,      \* table "jobs": job -> status ("none": no row)
    log,       \* job -> the paths its log file reports as transferred
    src,       \* path -> newest version the source has had
    present,   \* the paths that exist at the source, in that version
    dst,       \* path -> version at the destination
    missed,    \* history: path -> version that was gone from the source, not
               \* delivered, when an rclone last came to it (0: none was)
    worker,    \* where the daemon and the rule's worker stand
    ignored,   \* the paths the worker's copy of the rule ignores
    listing,   \* the entries doScan holds between lsjson and the upsert
    starters,  \* goroutines in startOneJob that have claimed nothing yet
    run,       \* job -> what its goroutine and its rclone process are at
    dangling,  \* RecoverDanglingRuns: the jobs it has still to finalize
    fixing     \* RecoverDanglingRuns: the job it has finalized, not cleared

table   == <<files, jobs>>
world   == <<src, present, dst, missed, log>>
control == <<worker, ignored, listing, starters, dangling, fixing>>
vars    == <<files, jobs, log, src, present, dst, missed, worker, ignored, listing, starters, run,
             dangling, fixing>>

---------------------------------------------------------------------------
(* Stations.  "down" .. "netting" are the stations of RecoverDanglingRuns;  *)
(* "off": the daemon is up, no worker runs; the rest is the worker's loop.  *)

Recovering == {"down", "loaded", "requeuing", "clearing"}
Looping    == {"idle", "listed", "scanned"}
Stations   == Recovering \cup Looping \cup {"off"}

(* A job goroutine, by its next statement.  "claimed": the claim committed; *)
(* "recorded": the row of the job is inserted; "running": rclone started;   *)
(* "exited": outcome known; "saved": the row of the job is closed;          *)
(* "finalized": the rows of the files are; "dropping": stopped in time, the *)
(* claim is still to be released; "orphan": rclone without its daemon.      *)

Holding    == {"claimed", "recorded", "running", "exited", "saved", "dropping"}
Phases     == Holding \cup {"idle", "finalized", "orphan"}
Transient  == {"running", "orphan"}   \* an rclone process exists

\* What closes a job: its status, the paths done, where the others go, and
\* whether ClearJobOnDone is called.
Verdicts == [status : {"done", "failed", "terminated"}, done : SUBSET Paths,
             rest : {"queued", "failed"}, clear : BOOLEAN]
Pending  == [status |-> "failed", done |-> {}, rest |-> "queued", clear |-> FALSE]

\* stopped: the worker of the job was stopped (scanCtx.Err() # nil).
\* handled: the paths rclone is through with.
Runs == [phase : Phases, paths : SUBSET Paths, handled : SUBSET Paths,
         stopped : BOOLEAN, verdict : Verdicts]
Idle == [phase |-> "idle", paths |-> {}, handled |-> {}, stopped |-> FALSE,
         verdict |-> Pending]

Statuses == {"none", "running", "done", "failed", "terminated"}

Nothing == [p \in Paths |-> NoFile]

\* What is at the source now.
AtSource(p) == IF p \in present THEN src[p] ELSE NoFile

Live(j) == run[j].phase \notin {"idle", "orphan"}

\* The semaphore of the current worker: goroutines before and after their claim.
SemHolders == {j \in Jobs : Live(j) /\ ~run[j].stopped}
InSem == starters + Cardinality(SemHolders)

\* A job identifier nothing refers to any more stands for a new one.
Fresh(j) == run[j].phase = "idle" /\ jobs[j] # "running" /\ OwnedBy(files, j) = {}

Up == worker \notin Recovering

Goto(j, phase) == run' = [run EXCEPT ![j].phase = phase]
End(j)         == run' = [run EXCEPT ![j] = Idle]

\* A statement of the closing sequence: its error, if any, is dropped.
Write(new) == files' = new \/ ("db" \in Faults /\ files' = files)
Close(j, status) == jobs' = [jobs EXCEPT ![j] = status]
                    \/ ("db" \in Faults /\ jobs' = jobs)

---------------------------------------------------------------------------
Init ==
    /\ files = [p \in Paths |-> Absent]
    /\ jobs = [j \in Jobs |-> "none"]
    /\ log = [j \in Jobs |-> {}]
    /\ src \in [Paths -> {NoFile, 1}]
    /\ present = {p \in Paths : src[p] # NoFile}
    /\ dst = Nothing
    /\ missed = Nothing
    /\ worker = "down"
    /\ ignored = {}
    /\ listing = Nothing
    /\ starters = 0
    /\ run = [j \in Jobs |-> Idle]
    /\ dangling = {}
    /\ fixing = NoJob

---------------------------------------------------------------------------
(* The worker's loop.                                                      *)

\* reconcile starts a worker with a copy of the rule.
StartWorker ==
    /\ worker = "off"
    /\ worker' = "idle"
    /\ ignored' \in Filters
    /\ UNCHANGED <<table, world, listing, starters, run, dangling, fixing>>

\* stop(): every goroutine of the worker finds its context cancelled.  A scan
\* is abandoned, and a starter can only return: its statements fail.
StopWorker ==
    /\ "restart" \in Faults
    /\ worker \in Looping
    /\ worker' = "off"
    /\ listing' = Nothing
    /\ starters' = 0
    /\ run' = [j \in Jobs |-> IF Live(j) THEN [run[j] EXCEPT !.stopped = TRUE] ELSE run[j]]
    /\ UNCHANGED <<table, world, ignored, dangling, fixing>>

\* doScan, first half: rclone lsjson, less the ignored extensions.
ScanRule ==
    /\ worker = "idle"
    /\ worker' = "listed"
    /\ listing' = [p \in Paths |-> IF p \in ignored THEN NoFile ELSE AtSource(p)]
    /\ UNCHANGED <<table, world, ignored, starters, run, dangling, fixing>>

\* doScan, second half: the transaction, with whatever happened since.
UpsertScan ==
    /\ worker = "listed"
    /\ worker' = "scanned"
    /\ \E aged \in SUBSET {p \in Paths : listing[p] # NoFile} :
           files' = UpsertScanEntries(files, listing, aged, ignored)
    /\ listing' = Nothing
    /\ UNCHANGED <<jobs, world, ignored, starters, run, dangling, fixing>>

\* doScan, last statement.
EnqueueScanned ==
    /\ worker = "scanned"
    /\ worker' = "idle"
    /\ \E B \in Batch(Stable(files), BatchSize) : files' = EnqueueStable(files, B)
    /\ UNCHANGED <<jobs, world, ignored, listing, starters, run, dangling, fixing>>

\* Mutant: the slots of the goroutines at work are not counted.
ScheduleOverfull ==
    /\ worker = "idle"
    /\ \E B \in Batch(Stable(files), BatchSize) : files' = EnqueueStable(files, B)
    /\ starters' = starters + MaxParallelJobs
    /\ UNCHANGED <<jobs, world, worker, ignored, listing, run, dangling, fixing>>

\* doSchedule: enqueue, then fill the semaphore with goroutines.
Schedule ==
    /\ worker = "idle"
    /\ \E B \in Batch(Stable(files), BatchSize) : files' = EnqueueStable(files, B)
    /\ starters' = starters + (MaxParallelJobs - InSem)
    /\ UNCHANGED <<jobs, world, worker, ignored, listing, run, dangling, fixing>>

---------------------------------------------------------------------------
(* startOneJob, up to the start of rclone.                                  *)

\* Nothing queued, or queued rows none of which can be claimed.
ReturnEmpty ==
    /\ starters > 0
    /\ Claimable(files) = {}
    /\ starters' = starters - 1
    /\ UNCHANGED <<table, world, worker, ignored, listing, run, dangling, fixing>>

\* Settings, quota, global limiter or port manager refuse.
ReturnRefused ==
    /\ "refuse" \in Faults
    /\ starters > 0
    /\ starters' = starters - 1
    /\ UNCHANGED <<table, world, worker, ignored, listing, run, dangling, fixing>>

Claim(j) ==
    /\ starters > 0
    /\ Fresh(j)
    /\ \E B \in Batch(Claimable(files), BatchSize) \ {{}} :
          /\ files' = ClaimQueuedForJob(files, B, j)
          /\ run' = [run EXCEPT ![j] = [Idle EXCEPT !.phase = "claimed", !.paths = B]]
    /\ starters' = starters - 1
    /\ jobs' = [jobs EXCEPT ![j] = "none"]
    /\ log' = [log EXCEPT ![j] = {}]
    /\ UNCHANGED <<src, present, dst, missed, worker, ignored, listing, dangling, fixing>>

\* Over quota, stopped, or a directory, a file or the row cannot be written.
Abandon(j) ==
    /\ run[j].phase = "claimed"
    /\ run[j].stopped \/ "refuse" \in Faults
    /\ Write(ReleaseTransferringBackToQueued(files, j))
    /\ End(j)
    /\ UNCHANGED <<jobs, world, control>>

CreateJobRow(j) ==
    /\ run[j].phase = "claimed"
    /\ jobs' = [jobs EXCEPT ![j] = "running"]
    /\ Goto(j, "recorded")
    /\ UNCHANGED <<files, world, control>>

\* Mutant: the row of the job is left "running".
StopRecordedOpen(j) ==
    /\ run[j].phase = "recorded"
    /\ run[j].stopped
    /\ Goto(j, "dropping")
    /\ UNCHANGED <<table, world, control>>

\* The last check found the worker stopped: close the row ...
StopRecorded(j) ==
    /\ run[j].phase = "recorded"
    /\ run[j].stopped
    /\ Close(j, "terminated")
    /\ Goto(j, "dropping")
    /\ UNCHANGED <<files, world, control>>

\* Mutant: the release is forgotten.
DropNothing(j) ==
    /\ run[j].phase = "dropping"
    /\ End(j)
    /\ UNCHANGED <<table, world, control>>

\* ... and release the files.
DropClaim(j) ==
    /\ run[j].phase = "dropping"
    /\ Write(ReleaseTransferringBackToQueued(files, j))
    /\ End(j)
    /\ UNCHANGED <<jobs, world, control>>

\* Nothing stops a worker that passed the last check: a stop that comes after
\* it finds the job running.
StartRclone(j) ==
    /\ run[j].phase = "recorded"
    /\ ~run[j].stopped
    /\ Goto(j, "running")
    /\ UNCHANGED <<table, world, control>>

---------------------------------------------------------------------------
(* rclone (external): it handles the paths of its --files-from list in any  *)
(* order, transfers what differs, and logs what it transferred.  A path     *)
(* that is not at the source is passed over without a word.                 *)

Transfer(j, p) ==
    /\ run[j].phase \in Transient
    /\ p \in run[j].paths \ run[j].handled
    /\ run' = [run EXCEPT ![j].handled = @ \cup {p}]
    /\ IF AtSource(p) \in {NoFile, dst[p]}
       THEN UNCHANGED <<dst, log>>
       ELSE /\ dst' = [dst EXCEPT ![p] = src[p]]
            /\ \/ log' = [log EXCEPT ![j] = @ \cup {p}]
               \/ "quiet" \in Faults /\ log' = log
    /\ missed' = [missed EXCEPT ![p] = IF p \in present \/ src[p] = dst[p] THEN NoFile ELSE src[p]]
    /\ present' = IF Move THEN present \ {p} ELSE present
    /\ UNCHANGED <<table, src, control>>

(* The programs that write to the source (external).                        *)

\* A file is rewritten, or a new one appears.
Rewrite(p) ==
    /\ src[p] < MaxVersion
    /\ files[p].state = "transferring" => "inflight" \in Faults
    /\ src' = [src EXCEPT ![p] = @ + 1]
    /\ present' = present \cup {p}
    /\ UNCHANGED <<table, log, dst, missed, control, run>>

\* A file disappears, a job holding it or not.
Remove(p) ==
    /\ "remove" \in Faults
    /\ p \in present
    /\ present' = present \ {p}
    /\ UNCHANGED <<table, log, src, dst, missed, control, run>>

\* It comes back as it was.
Restore(p) ==
    /\ "restore" \in Faults
    /\ p \notin present /\ src[p] # NoFile
    /\ present' = present \cup {p}
    /\ UNCHANGED <<table, log, src, dst, missed, control, run>>

---------------------------------------------------------------------------
(* rclone has exited: what startOneJob concludes.                           *)

\* transferredPathsFromLog, restricted to the job's paths; its error is
\* dropped on every path but the successful one.
LogReadings(j) == {log[j]} \cup (IF "log" \in Faults THEN {{}} ELSE {})

Conclude(j, verdict) ==
    /\ run[j].phase = "running"
    /\ run' = [run EXCEPT ![j].phase = "exited", ![j].verdict = verdict]
    /\ UNCHANGED <<table, world, control>>

ExitTerminated(j) ==
    /\ "terminate" \in Faults
    /\ \E done \in LogReadings(j) :
          Conclude(j, [status |-> "terminated", done |-> done, rest |-> "queued", clear |-> TRUE])

ExitFailed(j) ==
    /\ "fail" \in Faults
    /\ \E done \in LogReadings(j) :
          Conclude(j, [status |-> "failed", done |-> done, rest |-> "failed", clear |-> TRUE])

\* Exit status 0: everything was handled.
ExitUnreadable(j) ==
    /\ "log" \in Faults
    /\ run[j].handled = run[j].paths
    /\ Conclude(j, [status |-> "failed", done |-> {}, rest |-> "queued", clear |-> FALSE])

\* logHadNothingToTransfer: rclone says so when it has transferred nothing.
NothingReadings(j) == {log[j] = {}} \cup (IF "quiet" \in Faults THEN {FALSE} ELSE {})

\* Mutant: the paths in the log are not counted.
ExitOkUncounted(j) ==
    /\ run[j].handled = run[j].paths
    /\ \E nothing \in NothingReadings(j) :
          Conclude(j, [status |-> "done", done |-> IF nothing THEN run[j].paths ELSE log[j],
                       rest   |-> "queued", clear |-> TRUE])

\* All transferred, or nothing to transfer (whatever the reason), or incomplete.
ExitOk(j) ==
    /\ run[j].handled = run[j].paths
    /\ \E nothing \in NothingReadings(j) :
          Conclude(j, [status |-> IF nothing \/ log[j] = run[j].paths THEN "done" ELSE "failed",
                       done   |-> IF nothing THEN run[j].paths ELSE log[j],
                       rest   |-> "queued", clear |-> TRUE])

SaveJob(j) ==
    /\ run[j].phase = "exited"
    /\ Close(j, run[j].verdict.status)
    /\ Goto(j, "saved")
    /\ UNCHANGED <<files, world, control>>

\* Mutant: files that were not transferred are left as they are.
FinalizeDoneOnly(j) ==
    /\ run[j].phase = "saved"
    /\ files' = [p \in Paths |-> IF files[p].job = j /\ p \in run[j].verdict.done
                                 THEN [files[p] EXCEPT !.state = "done"] ELSE files[p]]
    /\ Goto(j, "finalized")
    /\ UNCHANGED <<jobs, world, control>>

FinalizeFiles(j) ==
    /\ run[j].phase = "saved"
    /\ Write(FinalizeJobFiles(files, j, run[j].verdict.done, run[j].verdict.rest))
    /\ IF run[j].verdict.clear THEN Goto(j, "finalized") ELSE End(j)
    /\ UNCHANGED <<jobs, world, control>>

ClearJob(j) ==
    /\ run[j].phase = "finalized"
    /\ Write(ClearJobOnDone(files, j))
    /\ End(j)
    /\ UNCHANGED <<jobs, world, control>>

\* The button that retries the failed files of the rule.
Retry ==
    /\ "retry" \in Faults
    /\ Up
    /\ In(files, "failed") # {}
    /\ \E B \in Batch(In(files, "failed"), RetryLimit) : files' = RetryFailed(files, B)
    /\ UNCHANGED <<jobs, world, control, run>>

---------------------------------------------------------------------------
(* Death of the daemon and RecoverDanglingRuns.                             *)

Crash ==
    /\ "crash" \in Faults
    /\ worker # "down"
    /\ worker' = "down"
    /\ listing' = Nothing
    /\ starters' = 0
    /\ dangling' = {}
    /\ fixing' = NoJob
    /\ run' = [j \in Jobs |->
                  IF run[j].phase \in Transient /\ "orphan" \in Faults
                  THEN [run[j] EXCEPT !.phase = "orphan"]
                  ELSE Idle]
    /\ UNCHANGED <<table, world, ignored>>

OrphanExits(j) ==
    /\ run[j].phase = "orphan"
    /\ End(j)
    /\ UNCHANGED <<table, world, control>>

LoadRunning ==
    /\ worker = "down"
    /\ worker' = "loaded"
    /\ dangling' = {j \in Jobs : jobs[j] = "running"}
    /\ UNCHANGED <<table, world, ignored, listing, starters, run, fixing>>

\* Mutant: the rows stay "running".
FailNothing ==
    /\ worker = "loaded"
    /\ worker' = "requeuing"
    /\ UNCHANGED <<table, world, ignored, listing, starters, run, dangling, fixing>>

FailRunning ==
    /\ worker = "loaded"
    /\ worker' = "requeuing"
    /\ jobs' = [j \in Jobs |-> IF jobs[j] = "running" THEN "failed" ELSE jobs[j]]
    /\ UNCHANGED <<files, world, ignored, listing, starters, run, dangling, fixing>>

RecoverFiles(j) ==
    /\ worker = "requeuing"
    /\ j \in dangling
    /\ worker' = "clearing"
    /\ \E done \in LogReadings(j) :
          Write(FinalizeJobFiles(files, j,
                    {p \in done : files[p].job = j /\ files[p].state = "transferring"},
                    "queued"))
    /\ dangling' = dangling \ {j}
    /\ fixing' = j
    /\ UNCHANGED <<jobs, world, ignored, listing, starters, run>>

RecoverClear ==
    /\ worker = "clearing"
    /\ worker' = "requeuing"
    /\ Write(ClearJobOnDone(files, fixing))
    /\ fixing' = NoJob
    /\ UNCHANGED <<jobs, world, ignored, listing, starters, run, dangling>>

SafetyNet ==
    /\ worker = "requeuing"
    /\ dangling = {}
    /\ worker' = "off"
    /\ files' = RequeueTransferring(files)
    /\ UNCHANGED <<jobs, world, ignored, listing, starters, run, dangling, fixing>>

---------------------------------------------------------------------------
WorkerStep  == \/ StartWorker \/ ScanRule \/ UpsertScan \/ EnqueueScanned \/ Schedule
StarterStep == \/ ReturnEmpty
               \/ \E j \in Jobs : Claim(j)
JobStep(j)  == \/ CreateJobRow(j) \/ StopRecorded(j) \/ DropClaim(j) \/ StartRclone(j)
               \/ ExitOk(j) \/ SaveJob(j) \/ FinalizeFiles(j) \/ ClearJob(j)
RcloneStep(j) == \E p \in Paths : Transfer(j, p)
RecoveryStep == \/ LoadRunning \/ FailRunning \/ RecoverClear \/ SafetyNet
                \/ \E j \in Jobs : RecoverFiles(j)

SourceStep(p) == Rewrite(p) \/ Remove(p) \/ Restore(p)

\* What goes wrong, or is asked for, from outside.
Fault == \/ Crash \/ StopWorker \/ ReturnRefused \/ Retry
         \/ \E j \in Jobs : Abandon(j) \/ ExitTerminated(j) \/ ExitFailed(j)
                            \/ ExitUnreadable(j)

Next == \/ WorkerStep \/ StarterStep \/ RecoveryStep \/ Fault
        \/ \E j \in Jobs : JobStep(j) \/ RcloneStep(j) \/ OrphanExits(j)
        \/ \E p \in Paths : SourceStep(p)

Spec == Init /\ [][Next]_vars

---------------------------------------------------------------------------
(* Correctness.                                                            *)

\* Every variable holds a value of its type.
TypeOK ==
    /\ files \in [Paths -> Row]
    /\ jobs \in [Jobs -> Statuses]
    /\ log \in [Jobs -> SUBSET Paths]
    /\ src \in [Paths -> 0..MaxVersion]
    /\ present \in SUBSET Paths
    /\ dst \in [Paths -> 0..MaxVersion]
    /\ missed \in [Paths -> 0..MaxVersion]
    /\ worker \in Stations
    /\ ignored \in SUBSET Paths
    /\ listing \in [Paths -> 0..MaxVersion]
    /\ starters \in 0..MaxParallelJobs
    /\ run \in [Jobs -> Runs]
    /\ dangling \in SUBSET Jobs
    /\ fixing \in Jobs \cup {NoJob}

\* From the claim to the statement that finalizes them, the rows of a job's
\* files stay "transferring" under its name: no scan, purge, retry, other job
\* or recovery touches them (worker.go:226-370 relies on it: FinalizeJobFiles
\* finds its rows by job_id).
ClaimsHeld ==
    \A j \in Jobs : run[j].phase \in Holding =>
        \A p \in run[j].paths : files[p].state = "transferring" /\ files[p].job = j

\* While the daemon is up, a "transferring" row is held by a live goroutine that
\* lists the path and will finalize it: no early return, stop, termination or
\* restart leaves a row that nobody will ever finish.
NoOrphanRow ==
    Up => \A p \in In(files, "transferring") :
             \E j \in Jobs : /\ files[p].job = j
                             /\ run[j].phase \in Holding
                             /\ p \in run[j].paths

\* While the daemon is up, a job whose row says "running" has a goroutine that
\* will close the row (the dashboard, the quota and the log stream trust it).
RunningIsLive ==
    Up => \A j \in Jobs : jobs[j] = "running" =>
                             run[j].phase \in {"recorded", "running", "exited"}

\* A row marked "done" records no version that is newer than the destination's,
\* but for one: a version that was gone from the source when rclone came to it.
\* What the table says is synchronized has been transferred, or had been removed
\* before it could be (worker.go:358 calls that job done, too).
DoneIsDelivered ==
    \A p \in In(files, "done") : files[p].ver <= dst[p] \/ files[p].ver <= missed[p]

\* The parts of an inductive invariant that no run needs on its own: the
\* semaphore is never over its capacity; no goroutine runs before recovery is
\* over; once recovery has closed the rows of the jobs, none says "running".
SemBound == InSem <= MaxParallelJobs
RecoveryQuiet == ~Up => starters = 0 /\ \A j \in Jobs : ~Live(j)
RecoveryClosed == worker \in {"requeuing", "clearing"} => \A j \in Jobs : jobs[j] # "running"

\* The steps between a transfer and a "done" row.  No version is newer than the
\* source's newest; what rclone logged for a row still claimed has arrived, and what
\* it handled or reported has arrived or was gone.
KnownVersion(p, v) == v <= src[p]
Arrived(p)         == dst[p] = src[p]
Delivered(p)       == src[p] \in {dst[p], missed[p]}
Claimed(p, j)      == files[p].state = "transferring" /\ files[p].job = j

VersionsKnown == \A p \in Paths :
    \A v \in {files[p].ver, listing[p], dst[p], missed[p]} : KnownVersion(p, v)

ReportsDelivered == \A j \in Jobs, p \in Paths : Claimed(p, j) =>
    /\ p \in log[j] => Arrived(p)
    /\ p \in run[j].handled => Delivered(p)
    /\ run[j].phase \in {"exited", "saved"} /\ p \in run[j].verdict.done => Delivered(p)

DoneInPaths == \A j \in Jobs :
    /\ log[j] \subseteq run[j].paths \/ ~Live(j)
    /\ run[j].phase \in {"exited", "saved"} => run[j].verdict.done \subseteq run[j].paths
    /\ run[j].phase = "exited" /\ run[j].verdict.status = "done"
           => run[j].verdict.done = run[j].paths /\ log[j] \in {{}, run[j].paths}

\* No two rclone processes work on the same file at the same time.
OneRclonePerFile ==
    \A i, j \in Jobs : /\ i # j
                       /\ run[i].phase \in Transient
                       /\ run[j].phase \in Transient
                       => run[i].paths \cap run[j].paths = {}

\* A worker never runs more jobs than the limit of its rule, through every
\* early return, failure and retry.  (The jobs of a worker that was replaced run
\* on and count for nobody.)
RuleConcurrency ==
    Cardinality({j \in Jobs : run[j].phase = "running" /\ ~run[j].stopped}) <= MaxParallelJobs

\* A job is reported "done" only when all its files are at the destination, or when
\* it has transferred nothing and each of them was there or gone from the source: a
\* single file that is gone does not let a job that worked pass for done.
DoneJobDelivered ==
    [][\A j \in Jobs : jobs[j] = "running" /\ jobs'[j] = "done" =>
          \A p \in run[j].paths : \/ files[p].ver <= dst[p]
                                  \/ log[j] = {} /\ files[p].ver <= missed[p]]_vars

---------------------------------------------------------------------------
(* The abstract view: a file is held by the job its row names while the row  *)
(* says "transferring", and synchronized while it says "done".              *)

Holder(row) == IF row.state = "transferring" THEN row.job ELSE NoJob
Owners == [p \in Paths |-> Holder(files[p])]

Ledger == INSTANCE FileLedger WITH
    Files <- Paths, Holders <- Jobs, Nobody <- NoJob,
    owner <- Owners, synced <- In(files, "done")

\* The tables implement the ledger: each statement of each goroutine, retry and
\* recovery takes, settles, outdates or frees, whole claims at a time, or shows
\* nothing to a reader of the tables.
LedgerSpec == Ledger!Spec

---------------------------------------------------------------------------
(* Liveness: the tickers of the worker's loop keep firing (SF: the loop      *)
(* serves its channels one at a time), goroutines and rclone make progress,  *)
(* and an enabled rule gets a worker within a tick of reconcile.             *)

Fairness ==
    /\ WF_vars(StartWorker)
    /\ WF_vars(ScanRule)
    /\ WF_vars(UpsertScan)
    /\ WF_vars(EnqueueScanned)
    /\ SF_vars(Schedule)
    /\ WF_vars(StarterStep)
    /\ WF_vars(RecoveryStep)
    /\ \A j \in Jobs : WF_vars(JobStep(j)) /\ WF_vars(RcloneStep(j)) /\ WF_vars(OrphanExits(j))

FairSpec == Spec /\ Fairness

Calm == <>[][~Fault]_vars

Wanted(p) == AtSource(p) \notin Small \cup {NoFile} /\ p \notin ignored

Synced == \A p \in Paths : Wanted(p) => dst[p] = src[p]

\* Once faults cease, every file the rule covers ends up at the destination in
\* its latest version, and stays so.
EventuallySynced == Calm => <>[]Synced

\* A file claimed by a job does not stay claimed, and a job row does not stay
\* "running".
ClaimsEnd ==
    Calm => /\ \A p \in Paths : []<>(files[p].state # "transferring")
            /\ \A j \in Jobs : []<>(jobs[j] # "running")

\* A queued file does not wait for ever.
QueueDrains == Calm => \A p \in Paths : []<>(files[p].state # "queued")
===========================================================================
