# A verification of rcloneSyncTool

rcloneSyncTool is a daemon with a web interface: each *rule* names a source and
a destination, a *worker* scans the source, queues what changed, and hands
batches of files to *jobs*, each of which runs one `rclone copy` or
`rclone move`.  State lives in SQLite; rclone runs outside.  This directory
holds TLA+ models of the part of that program where order matters, the TLC
configurations that check them, and proofs checked by TLAPS.

`PROJECT.json` is the index: components, runs, mutants, the map from each
definition to its lines, findings, hazards, theorems.

## Inventory

| component | state | operations | hard because of |
|---|---|---|---|
| files table (`store/files.go`) | one row per rule and path: state, job_id, size, mod_time | upsert of a scan, enqueue, claim, finalize, release, clear, retry | written by scans, jobs, recovery and the web interface; ownership is a column that several statements set and clear |
| rule worker (`daemon/worker.go`) | loop, scan context, `stopped`, semaphore, copy of the rule | doScan, doSchedule, startOneJob, stop | every job is a goroutine; a stop may come at any statement; a job outlives its worker |
| jobs (`worker.go`, `rclone_log.go`) | row in `jobs`, log file, rclone process | run, terminate, conclude from exit status and log, close in three statements | partial failure: errors of closing statements are dropped; rclone's log is the only witness of what was transferred |
| recovery (`daemon/recover.go`) | rows left by the previous process | close job rows, finalize files, safety net | it may itself be interrupted; rclone may have survived |
| global limiter (`daemon/limiter.go`) | limit, channel of tokens | Acquire (poll), Release, SetLimit | no lock; the limit changes while jobs wait and run |
| port manager (`daemon/ports.go`) | range, ports in use | Acquire, Release, SetRange | the range changes while ports are in use |
| supervisor (`daemon/supervisor.go`) | workers by rule | reconcile every 5 s, StopRule, TriggerScan, manual jobs, refreshRuntime | reconcile acts on rules read before it takes its lock |
| manual jobs, job registry | row `pending`, handle of the process | start, terminate | crash while pending; a kill racing the exit |
| quota and limit groups (`store/jobs.go`, `limit_groups.go`) | bytes of recent jobs and of claimed files | budget read before and after the claim | rules of a group check and claim concurrently |
| triggers (`worker.go`) | channel of one, debounce timer | triggerScan, watchLocal | coalescing |
| janitor, log stream, done count | files under the log directory | delete, follow, count | they read what rclone writes |
| arguments, sizes, extensions | none | parse, sanitize | boundaries |
| auth, pages, remotes, presets, settings | rows and cookies | forms | little |

How they interact: the supervisor starts one worker for each enabled rule and
replaces it when the rule is edited; worker, jobs, recovery and web handlers
share only the database, which has a single connection (`store.go:22`), so that a
statement or a transaction is atomic and anything may happen between two; all
jobs share the limiter and the port manager; rclone reports to the program
only through its exit status, its log and its statistics port.

What makes the components correct: claims are exclusive and always end; what
the tables call done was delivered; a wanted file is delivered sooner or later;
limits are kept; a crash loses nothing; tokens and ports are neither lost
nor shared.  `PROJECT.json` lists the hazards line by line.

## Modules

| module | models | composed with |
|---|---|---|
| `FilesTable` | rows of one rule in `files`, each statement as an operator from rows to rows | extended by `RuleJobs` |
| `RuleJobs` | one rule: worker, jobs, rclone, both tables, crash and recovery; properties | instantiates `FileLedger` |
| `FileLedger` | abstract: who holds which file, and which are synchronized | implemented by `RuleJobs` |
| `Admission` | limiter and port manager, in the order every job passes them, with `refreshRuntime` | |
| `Quota` | the checks of `startOneJob` before and after its claim, for the jobs of several rules of a limit group; edits of groups | |
| `Supervisor` | reconcile, StopRule, TriggerScan, the loop of a worker with its stop and its watcher; save, toggle, delete | |
| `RcloneArgs` | parsing and sanitizing of the user's arguments, the command line | extended by `ManualJobs` |
| `ManualJobs` | manual jobs from the form to the closing of the row, the registry, termination, shutdown, crash, recovery | extended by `JobLog` |
| `JobLog` | a job's log beside the readers of its pages and the janitor | |
| `MCRuleJobs`, `MCAdmission`, `MCQuota`, `MCSupervisor`, `MCJobLog` | instances for TLC | |
| `RuleJobsProofs` | inductive invariant; types, claims, orphans, live rows, exclusivity, limit | extends `RuleJobs` |
| `RuleJobsDeliveryProofs` | inductive invariant of delivery; done rows and done jobs; nothing is stuck | extends `RuleJobsProofs` |
| `RuleJobsLedgerProofs` | `RuleJobs` implements `FileLedger` | extends `RuleJobsProofs` |
| `AdmissionProofs` | types, tokens, ports | extends `Admission` |
| `QuotaProofs` | types, the limits of an account, edits that have settled | extends `Quota` |
| `SupervisorProofs` | types, workers that are not lost, stops, reconcile's restraint, triggers, lasting convergence | extends `Supervisor` |
| `RcloneArgsProofs` | folds over sequences of any length; quoting, sanitizers, lists without filters | extends `RcloneArgs` |
| `JobLogProofs` | types, rows of manual jobs, jobs that are terminated or pending, counts and streams, the field of the form | extends `JobLog`, `RcloneArgsProofs` |

### FilesTable and RuleJobs

`files` maps each path to a row: state (`"absent"`: no row), job_id, and a
version that stands for size and modification time together.  `last_seen`
only orders rows in `ORDER BY ... LIMIT`; the order is left open (`Batch`).
Whether a file is older than `stable_seconds` is left open (`aged`).

A step of `RuleJobs` is one statement or transaction, or one act of rclone or
of the world.  `worker` is the station of the daemon's main thread and of the
rule's loop: `down`, `loaded`, `requeuing`, `clearing` are the statements of
`RecoverDanglingRuns`; `off` means recovered, without a worker; `idle`,
`listed`, `scanned` is the loop (`worker.go:83`), whose scan is three steps:
`ScanRule` (lsjson), `UpsertScan` (the transaction), `EnqueueScanned`.
`Schedule` enqueues and fills the semaphore; the goroutines it starts are only
counted (`starters`) until they claim.  `run[j]` is a job's goroutine by its
next statement: `claimed`, `recorded`, `running`, `exited`, `saved`,
`finalized`, or `dropping` when the stop check at `worker.go:294` fires.
The branches after rclone's exit differ in the arguments of the same three
statements, so each branch is an action that stores a *verdict* and `SaveJob`,
`FinalizeFiles`, `ClearJob` apply it.  Jobs outlive their worker: `StopWorker`
only marks them `stopped`, and they no longer count for the semaphore of the
next worker.

rclone is external: it handles the listed paths in any order, copies what
differs, logs what it copied, and exits with status 0 only when it handled
everything.  A listed path that is not at the source is passed over without a
word and does not change the exit status; when nothing was transferred, the log
says so, whatever the reason (`NothingReadings`).  The programs that write to the
source are external, too: `Rewrite` writes a file or a new one, `Remove` takes one away,
held by a job or not, `Restore` puts it back with the size and time it had.  `src` is the
newest version a path has had, `present` the paths that exist, `dst` what is at
the destination.  `missed` is history, for the properties only: the version of a path
that was gone from the source, and not at the destination, when an rclone last came
to it.

A job identifier is reused once nothing refers to it any more (`Fresh`), so two
identifiers stand for any number of jobs in a row.

`Faults` selects what happens besides the program's own steps: `crash`,
`orphan` (rclone survives), `fail`, `terminate`, `refuse` (quota, limiter,
port, settings, directory), `restart` (rule disabled or edited), `retry`,
`log` (unreadable), `quiet` (lines are missing from it: the user's arguments lower
its level, or rclone has only set the time of a file), `remove` and `restore` (above),
`inflight` (a file is rewritten while claimed), `db` (a closing statement fails).  A clean shutdown cancels the context and exits
without waiting for jobs (`main.go:114`): a crash, for this model.

### Admission

Each job goes through the loop of `GlobalLimiter.Acquire` in the atomic steps the
code has: `Load` the limit, `Test` the length, `Send` a token or wait and
`Wake`; then a port, then the job, then the deferred releases in their order.
`SetLimit` and `SetRange` are the two steps of `refreshRuntime`.  The first
refresh comes before any worker (`supervisor.go:41`), so `Init` has it behind
it; a manual job started in the milliseconds before is left out.

### FileLedger

The abstract specification of what the tables of a rule promise: a job takes
free files in one step, gives all of them back in one step and may mark some
synchronized as it does; a synchronized file stops being so only when a listing
shows that it has changed; nobody touches a file that is held, but the start of
the daemon.  `LedgerSpec` in `RuleJobs` maps `owner` to the job_id of the rows
`transferring` and `synced` to the rows `done`; scans, the loop, the closing
statements of job rows and all of rclone map to stutters.

### Quota

Bytes are counted in units, a unit being a member of a set, so that the sums of
the code are cardinalities: a unit is queued, claimed (`job[j].claim`), or
reported by a row that ended within 24 hours (`spent`).  `job[j].phase` is the
next statement of `startOneJob`: the limit of the group, the two statements of
the first budget, the claim, the two statements of the second budget, the
release of a refused claim.  `group` and `limit` are the tables, `copy` is what
the worker's copy of the rule says, which reconcile replaces (`Refresh`).
`SaveGroup` and `SetRules` are the two transactions of `limitGroupsSavePost`.
A size passes `Accepted`, `SizeBytes` and `Clamped`, which keep what the parser does
at its upper bound: the largest float that passes overflows, and is clamped to
no limit by `UpsertLimitGroup`.

### Supervisor

`row` is the table of rules, `list` what reconcile has read before it takes its
lock, `workers` the map under the lock.  A rule is a configuration (whatever
`ruleSame` compares) and the flag `enabled`; `Normal` is the normalization
every write makes, which is not idempotent for some paths.  `wk[w].stage` is the
next step of `run`; its context, its stop channel, its channel of triggers and
the debounce timer of `watchLocal` are fields.  Requests (`post`) run beside the
loop: a toggle is a read and a write; `StopRule` takes the worker out of the map
under the lock and calls `stop` after it, in its two halves.

### RcloneArgs

Parsing works on characters of five kinds, the only ones the scanner tells
apart; sanitizing works on arguments, each its key and whether it has a `=`.
Both are folds of one round of the loop in the code (`Scan`, `Keep`).  `Options`
(of `Read`) is the external part: how rclone joins options and values, from its
documentation; it is what the properties compare with.

### ManualJobs and JobLog

`run[j].at` is the next statement of `runManualJob` and of `runWithMetrics` in it;
`job`, `rc`, `reg`, `flagged` are the row, the process, the registry and the
marked handles; `term` is a request to terminate, in its three steps (look-up
under the mutex, mark, kill).  A statement under a context that is cancelled
fails, and the code drops the error (`Update`).  `recovered` remembers the rows that
recovery has closed, which say failed whatever rclone did.

`JobLog` adds the log, as the sequence of the paths rclone reports, the cached
count of `done_count.go` in its two system calls, and the stream of
`logstream.go` in its three (tail, seek, follow).  Sizes and offsets count lines.
The readers never wait for the writer.

## Runs

Passing:

| run | question | bounds |
|---|---|---|
| `pipeline` | do claims, job rows and processes stay consistent under every order of scans, rewrites, failures, terminations, refusals, retries, edits; is done delivered; is the ledger implemented | 2 paths, 2 jobs, 2 versions, batch 2, 1 slot |
| `recovery` | the same through crashes at every step, surviving rclones, unreadable and incomplete logs; is done delivered, or was it gone from the source | 1 version, removed and put back; batch 1, 2 slots, so that two jobs run at once |
| `filters` | do purges (size, extensions) spare claims; is a job reported done for what it transferred only, when files vanish: in move mode, with incomplete logs, closing statements that fail and a daemon that dies | 2 versions, one of them small; batch 2, so that one file of a job is there and the other is gone; the filter is edited |
| `synced` | once faults cease, is every wanted file delivered, and do claims and running rows end | 1 version (no rewrite), batch 1; crash, orphan, terminate, restart |
| `admission` | are tokens and ports neither lost nor shared; does a waiting job ever miss a free slot for good | 3 jobs, capacity 3, limits 0, 1, 5, three ranges |
| `quota` | do jobs that check at the same time stay within the quota together; does an edit reach every job | 2 rules (one with a quota of its own), 1 group, 2 jobs, 2 units, limits 1, 2, 3, one edit or failure |
| `control` | is a worker ever lost, a stop missed, a worker replaced without a reason; do workers converge to the table; is a scan that was asked for made | 1 rule, 2 workers, 2 requests at once, 2 inputs (edits, triggers, file changes, failures) |
| `jobview` | does a manual job's row tell the truth, and end; do counts and streams tell what the log holds; does the command line hold what the user meant | 1 job, 1 restart, logs of 2 lines, tail of 1; 3 arguments of 10 keys, 4 characters |

In `quota` the limit 2 stands for the one whose conversion overflows (`Top`); two
rules of one group and two jobs are what a race of two checks needs, and a
unit of either rule what a sum over the group needs.  In `control` two workers
are the one that is going and the one that replaces it, and two requests are an
edit beside a stop; rules share nothing but the lock and the list, so one rule
is enough.  In `jobview` one job is enough, because jobs share only the limiter,
whose contention is the subject of `admission`; the form is filled in before the
first job, and a log is streamed before it is counted, since these have no state
in common.  Three arguments are an option, its value and what comes after
them; four characters nest both kinds of quotes and a backslash.  The proofs
need none of these bounds.

Two paths and two jobs are enough for every interaction the statements have:
they touch a row for itself or by its job_id, so a conflict needs one path and
two owners, and a batch that is treated in part needs two paths.  Two versions
distinguish changed from unchanged, and let a file cross the size limit.  Paths
and jobs are symmetric in the safety runs, jobs only where the filter names a
path; no liveness run uses symmetry.  `Capacity` stands for 65535: the clamp of
`SetLimit` is exercised by the limit 5.

Violated, each a finding (`PROJECT.json` has the quotes):

| run | what happens |
|---|---|
| `v_closing` | a scan between `FinalizeJobFiles` and `ClearJobOnDone` sees a rewritten file; the row keeps a dead job_id and is never claimed again |
| `v_failed` | a failed file keeps its job_id; the next scan sends it back to the queue, where no job can claim it and the retry button no longer sees it |
| `v_inflight` | a scan records the new version of a file being transferred; the job marks it done although the old version was copied |
| `v_race` | two jobs test the length of the channel before either sends |

`synced` therefore leaves out rewrites and failures of rclone: with them the
first two findings violate the property, and the run asks whether there is any
other way to lose a file, but the one that follows.  `DoneIsDelivered` is checked and
proved without `inflight`, for the third.

**Files that are gone.**  A file may be removed between its scan and its transfer.
rclone passes over it; if the job transfers nothing, its log says that there was
nothing to transfer, and the job and all its rows are marked done (`worker.go:358`),
although the file is not at the destination.  The comment at `worker.go:356` gives
as the meaning of that line that everything exists at the destination, which is not all
it may mean.  Therefore `DoneIsDelivered` and `DoneJobDelivered` except a version that
was gone when rclone came to it, and say that this is the only exception: a job that
transferred one of its files and not another is incomplete, and the other goes back to
the queue.  The row of a file that is gone remains: no scan removes a
row because its file is not listed any more.  If the file returns with another size or
time, the next scan sends it on its way; if it returns with the same (from a backup,
or from a source that was not mounted), the row is done and its file is never
transferred.  With `restore`, `EventuallySynced` is therefore violated, and so is
`NothingIsStuck`; with `remove` alone it is not, since what is gone is not
wanted.  `synced` has neither: `remove` would make two files too many states.

The conditions of the theorems below are needed as well.  With `restart`, a rule
may exceed its limit: the worker that replaces an edited one has a semaphore of
its own while the old one's jobs run on.  `RuleConcurrency`, which is proved and not
run, counts the jobs of one worker; nothing says of two workers together that they keep
to the limit, because they do not.  With `orphan`, `OneRclonePerFile`
fails: an rclone that survived the daemon shares a file with its successor.
With `db`, `NoOrphanRow` and `RunningIsLive` fail until the next start.  And the
limiter exceeds its limit not only by the race: a job admitted while there was
no limit holds no token, so that it is not counted once there is one.  A worker
started with a wider extension filter may schedule before its first scan, and
then claims queued rows of extensions the rule now ignores.

What the other properties except is what the code does, too:

* `QuotaKept` speaks of behaviours without edits, without failing reads (both
  checks fail open) and without a job that ends between the two statements of a
  check: its bytes are in neither sum.  `InflightWithinLimit` holds in spite
  of all three, for the jobs that were not let in that way.  A rule that names
  a group without a row has no limit at all.
* `Convergence` follows the table: a toggle writes back the row it has read, so
  an edit saved in between is lost, and a rule deleted in between returns.
  A worker whose settings could not be read at its start stays in the map and
  serves nothing until its rule is edited; `Serves` and `EventuallyScanned` name
  this case (`dead`).
* `PendingEnds` holds while the daemon is up: a job that waits when it goes down
  stays pending for ever, since recovery asks for running rows only.
* `StreamEnds` claims an end for jobs that were done or had failed when the
  request read their row; on a running or terminated job the stream goes on
  until the client leaves.  On the stream of a running job the lines written
  between the tail and the seek are not sent; such a stream never says done.
* `SanitizedAsMeant` excepts `--rc-no-auth` and `--stats-one-line` (`Misread`):
  they take no value, but their prefix makes the sanitizer drop the next
  argument as well.  So it is with `--files-from-replace`, which is blocked with
  a value although rclone has no such option; no run has this key among its
  ten, and only the proof for every set of keys told that it must be excepted.

### Fairness

`Fairness` of `RuleJobs`: the worker's loop takes its steps, a goroutine its
next statement, rclone its next file, an orphan exits in the end, and reconcile
gives an enabled rule a worker (its ticker fires every 5 seconds).  `Schedule` has
strong fairness: it competes with scans in a `select`, which picks among ready
channels at random, so a ticker that is ready again and again is served.
Nothing is assumed of `SourceStep`, of users, or of exits with an error; liveness
is claimed only for behaviours in which faults cease (`Calm`).  A job whose
rclone never exits would hold its claim for ever: rclone's own time limits are
trusted there.

`Admission` assumes only that a goroutine in the loop of `Acquire` goes on;
nothing of the jobs inside, which may run for ever.

`Quota`: each goroutine makes its next statement, rclone ends, the second
transaction of an edit comes, and reconcile refreshes a rule's copy.

`Supervisor`: reconcile ticks, requests go on, scans end.  `Exit` has strong
fairness for the reason `Schedule` has: the stop channel is ready for good, and a
`select` picks at random among the channels that are ready.

`JobLog`: the goroutine of a job, a request to terminate and an open stream go
on.  Nothing is assumed of rclone: `TerminationEnds` and `PendingEnds` hold even if
it would run for ever.

## Proofs

For any finite sets of paths and jobs, any bounds and all faults except where a
condition is named:

* `Inductive`: `IndInv == TypeOK /\ SemBound /\ RecoveryQuiet /\ ClaimsHeld /\
  Undisturbed`.  `TypeOK` alone is not inductive: the number of goroutines that
  `Schedule` starts is in range only because the semaphore is not over its
  capacity (`SemBound`).  `ClaimsHeld` needs `RecoveryQuiet`: recovery rewrites
  claimed rows, which is harmless because no goroutine lives while it runs.
  `Undisturbed` says what only a fault brings about (a stopped job, an orphan).
* `TypeCorrect`, `ClaimsAreHeld` follow.
* `NoRowIsOrphaned`, `RunningRowsAreLive` if closing statements do not fail
  (without `db`); the second needs `RecoveryClosed`: no row says running
  between the update at `recover.go:39` and the start of a worker.
* `RcloneExclusive` without `orphan`: two running jobs that list one path would
  both hold its row.
* `WorkerKeepsItsLimit`: a running job that was not stopped holds a slot of its
  worker; `RuleKeepsItsLimit` without `restart`: there is no other worker.
* `DoneRowsAreDelivered`, `DoneJobsAreDelivered` without `inflight`, with all
  other faults, `remove` and `restore` among them: done is delivered, or was gone from
  the source when rclone came to it, and a job that transferred anything has
  delivered all.  The invariant `DeliveryInv` says in addition that no recorded
  version is newer than the newest of the source (`VersionsKnown`); that, as long as
  the row is claimed, what the log reports has arrived, and what rclone handled
  and what a verdict calls done has arrived or was gone (`ReportsDelivered`); and that
  a verdict names only paths of its job, and if it says done all of them, with
  a log of all or of none (`DoneInPaths`).  `FinalizeJobFiles`
  marks rows by job_id and path; `ClaimsHeld` makes these rows claimed ones, so
  `ReportsDelivered` applies.
* `DoneRowsAreDeliveredUnlessRemoved` without `inflight` and `remove`: done is
  delivered, without exception, because what is then not at the source has
  been moved (`NothingMissed`).
* `ImplementsLedger`: every step of `RuleJobs` is a step of `FileLedger` or a stutter, under
  all faults.  It rests on `IndInv`: `FinalizeJobFiles` frees a job's rows all
  at once because a claim is held by its own goroutine (`ClaimsHeld`) and a verdict
  names rows of its job only (`Scoped`); scans free nothing, because their
  statements spare rows that are transferring.
* `AdmissionTypeCorrect`, `TokensDoNotLeak`, `PortsAreHeld`: for any number of
  jobs, capacity and settings.
* `QuotaTypeCorrect`: among the rest no stored limit is negative.
  `JobsTogetherWithinLimit` and `AccountWithinQuota`, for any rules, groups, jobs,
  units and limits.  The invariant `QInv` says in addition that a job which is not
  blind has the group and the limit in force (`Sighted`), that without edits none is blind
  (`AllSighted`), and that what the second check has read first still covers
  what was used, unless a job ended meanwhile (`ReadSound`).  Claims come before the
  second check, so that of two jobs that check at once the later one sees both.
* `SupervisorTypeCorrect`, `WorkersNeverLeak`, `StopReachesContext`, `SteadyWorkersKept`: for
  any rules, workers, requests and normalization.  `SInv` adds that the map holds
  a worker of its own rule which nobody has stopped (`MapInv`), that a
  worker taken out by a StopRule is in nobody's slot (`HeldInv`), and
  that the configuration of a steady worker is the one in its row and in the list
  reconcile has read (`SteadyInv`).
* `LogTypeCorrect`, `RowsTellTruth`, `RunningRowsAreTended`, `ClosedRowsAreFinal`, for any
  jobs, limit, faults and number of restarts.  `RowTellsTruth` is not inductive:
  `JobInv` says what rclone and the row are at by the next statement of the
  goroutine (`Stage`), what a verdict rests on (`Grounds`: while the daemon is
  up, a killed rclone has a marked handle, because the mark comes before the kill,
  `MarkedFirst`), and that nothing of the daemon outlives it (`Quiet`).
* `DoneCountsAreExact` and `DoneStreamsAreComplete`, for logs and tails of any length.
  `CountOK` adds that the offset is the remembered size and within the log;
  `StreamOK` that the row of a job that was over has not changed since, so that by
  `JobInv` no rclone of this daemon writes for it.
* `SanitizersTakeWholeOptions`, `ListsHaveNoFilters`, `QuotedIsParsed`, for any
  keys and any number of arguments and characters: `FieldTypeOK`, which is
  inductive, and a theorem of `RcloneArgsProofs` about every sequence each.
  That of the sanitizers says how far the sanitizer and rclone have read after
  each prefix of a line (`SanitizedInStep`): what rclone reads in the
  arguments kept so far is what it has read in all of them without the removed
  options, unless an option that waits for its value has just been removed, and
  then the sanitizer is about to skip that value.  It holds because
  the two agree, outside `Misread`, on the removed keys that take a value
  (`Knows`), and because what is removed by the one sanitizer leaves a line as a
  user means it, which is what the other one needs.  That of quoting says how
  the scanner stands after the escaped characters of each prefix.

A liveness property promises that something is reached, which needs fairness, and
rests on something that does not: that until then nothing is lost, and that what is
reached lasts.  These halves are proved:

* of `EventuallySynced`, `NothingGetsStuck`: each file that is wanted and not at the
  destination is to be scanned, enqueued or claimed, or is held by a goroutine at
  work, if no file is written a second time (`MaxVersion = 1`, as in `synced`), no
  rclone fails, none that was removed is put back, no file is rewritten in flight and
  closing statements succeed.  A row
  that is not claimed names no job (`FreeRows`), so that it can be claimed; no verdict
  sends files to the failed ones (`NoneFails`); rows that are transferring have their
  goroutine (`NoOrphanRow`), and done rows are delivered (`DoneIsDelivered`) or their
  files are gone still (`MissedIsGone`).  Without these conditions `v_closing`, `v_failed` and `v_inflight` show a file that
  is stuck.  That nothing is rewritten while its job is closing would not be enough: a
  scan that listed a new version before the claim may write it into the row
  between the two closing statements.
* of `EventuallyScanned`, `TriggersAreNotLost`: a scan that is owed is held by a
  request, the channel of the worker, its timer, or a worker that is to scan at its
  start (`Carries`); a full channel drops a trigger only because it holds one.
  `TriggerInv` adds that the worker in the map has not been cancelled.
* of `Convergence`, `ConvergenceLasts`: once the workers serve the table, no request is
  about to write and reconcile goes by no old list (`Settled`), a step that is no
  edit leaves it so, as long as the daemon goes on.
* of `EditsTakeEffect`, `SettledIsWithin` and `SettledLasts`: once no edit is half done,
  the copies are new and no blind job is left, what is at work is within the limits in
  force, and remains so until the next edit or failing read.
* of `TerminationEnds`, `AcknowledgedJobsAreOver`: when the user is told, rclone is at
  its end and a row not yet closed has its goroutine.  A row is `running` before its
  rclone starts and never pending again (`Launched`), and what is registered or
  about to be killed has been started (`Targets`).
* of `PendingEnds`, `PendingJobsAreTended`: by a goroutine before its rclone starts, or
  about to close the row, if the daemon was not restarted.

The proofs about arguments are inductions over data.  The library's induction theorems take a
predicate as a parameter and no installed prover can instantiate them, so
`RcloneArgsProofs` takes sets for predicates: from the least number outside a set
(`LeastNumber`, by `WFMin`) it has induction over numbers (`NumbersAll`) and
over sequences (`SequencesAll`).  `FoldLeft` also takes an operator; `Folded` is
the same with a function, shown to exist, to be unique and to take one more
round for one more element (`FoldExists`, `FoldUnique`, `FoldOfAppend`), and each fold
of the model is brought to it by its definition (`ScanFolded`, `KeepFolded`, and so on).

The assumptions on constants are those the modules state (finite sets,
positive bounds, `NoJob` no job); TLC evaluates them in the runs.

Only model-checked: the liveness properties as such, which are out of the prover's
reach (fairness and ENABLED); and the violations.

## Not modelled

* Web pages, authentication, remotes, presets and settings: forms over single
  rows, without steps that meet those of others.  A setting enters where the
  daemon reads it (limits, ports, `RuntimeSettings` that fails).
* Metrics and `UpdateJobRunningStats`: no property sees what they write.
* Sizes as text, with units and decimals, and the list of extensions: pure
  functions that tests reach; only the upper bound of a size is in `Quota`.
* Paths as strings: rows, log lines and `--files-from` entries are assumed to name
  a file alike.  A reader is assumed to see whole lines; one that is read while
  it is torn may be counted under another name.
* User arguments that make rclone leave out listed files or change what it logs, other
  than by lowering the level of the log: under `--dry-run` a line says "Skipped", which
  the parser counts as transferred (`rclone_log.go:31`), and `--ignore-existing` and
  its like leave a changed file as it is, with a log that says nothing to transfer.
* What `ON DELETE CASCADE` does to the rows of a rule that is deleted while its
  jobs run: the closing statements of these jobs match nothing.
* Intervals: a tick of 0 or less, which the settings page accepts, panics the
  ticker and ends the process.

## Plan

1. *done* `FilesTable`, `RuleJobs`, `Admission` and their proofs.
2. *done* `FileLedger` and the refinement; `Supervisor`, `Quota` and their proofs.
3. *done* `RcloneArgs`, `ManualJobs`, `JobLog` and their proofs.
4. Left: jobs of a deleted rule (the cascades in `FilesTable`); intervals and
   their panics; reading of torn lines.
