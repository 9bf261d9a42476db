----------------------------- MODULE ManualJobs -----------------------------
(***************************************************************************)
(* Jobs a user starts by hand (manualStartPost in internal/server/server.go *)
(* and runManualJob in internal/daemon/supervisor.go), the registry of      *)
(* running processes (job_registry.go), their termination by a user         *)
(* (jobTerminatePost), shutdown, crash and recovery.                        *)
(*                                                                         *)
(* A step is one statement, or one call on a shared object.  runWithMetrics *)
(* is the same for the jobs of rules, whose claims and files RuleJobs has.  *)
(***************************************************************************)
EXTENDS RcloneArgs, FiniteSets

CONSTANTS
    Jobs, NoJob,
    Limit,        \* slots of the global limiter
    MaxRestarts,  \* bound on restarts of the daemon
    Faults        \* "refuse": settings, port or start may fail; "crash"

ASSUME JobsFinite == IsFiniteSet(Jobs) /\ NoJob \notin Jobs
ASSUME LimitBounds == Limit \in Nat \ {0} /\ MaxRestarts \in Nat

VARIABLES
    job,       \* the rows of the jobs table, by status
    run,       \* the goroutines of runManualJob
    rc,        \* the rclone processes
    reg,       \* JobRegistry.m
    flagged,   \* the handles with terminated set
    term,      \* a request to terminate a job
    up,        \* "up", "stopping": the root context is cancelled, or "down"
    restarts,
    acked,     \* history: terminations the user was told of
    recovered  \* history: jobs that recovery has closed

mvars == <<job, run, rc, reg, flagged, term, up, restarts, acked, recovered>>

Ended  == {"done", "failed", "terminated"}
Exited == {"zero", "nonzero", "killed"}

---------------------------------------------------------------------------
(* A goroutine, by its next statement.  "asked": RuntimeSettings; "waiting": *)
(* limiter; "admitted": port; "ported": UpdateJobRunning; "starting": the   *)
(* command; "started": Register; "polling": until rclone's port answers, 10 *)
(* seconds at most; "watching": the select; "exited": the handle's flag;    *)
(* "checked": Unregister; "closing": the last update of the row; "leaving": *)
(* the deferred releases of port and slot.                                  *)

Stages  == {"none", "asked", "waiting", "admitted", "ported", "starting", "started",
            "polling", "watching", "exited", "checked", "closing", "leaving"}
NoRun   == [at |-> "none", slot |-> FALSE, verdict |-> "none"]

At(j, s)    == run[j].at = s
Goto(j, s)  == run' = [run EXCEPT ![j].at = s]
Holders     == {j \in Jobs : run[j].slot}

\* The goroutine closes the row with a verdict and returns.
Conclude(j, s, v) == run' = [run EXCEPT ![j].at = s, ![j].verdict = v]

\* A statement under a context that is cancelled fails, and the error is dropped.
Update(j, status) == job' = IF up = "up" THEN [job EXCEPT ![j] = status] ELSE job

NoRequest == [at |-> "idle", job |-> NoJob]

MInit ==
    /\ job = [j \in Jobs |-> "none"]
    /\ run = [j \in Jobs |-> NoRun]
    /\ rc = [j \in Jobs |-> "none"]
    /\ reg = {} /\ flagged = {}
    /\ term = NoRequest
    /\ up = "up"
    /\ restarts = 0
    /\ acked = {} /\ recovered = {}

---------------------------------------------------------------------------
(* Starting.                                                               *)

\* UpsertRule, CreateJobRowPending, StartManualJob.  (A daemon that dies between
\* them leaves what one leaves that dies after them.)
manualStartPost(j) ==
    /\ up # "down"
    /\ job[j] = "none"
    /\ job' = [job EXCEPT ![j] = "pending"]
    /\ run' = [run EXCEPT ![j] = [NoRun EXCEPT !.at = "asked"]]
    /\ UNCHANGED <<rc, reg, flagged, term, up, restarts, acked, recovered>>

Refused == "refuse" \in Faults \/ up = "stopping"

\* RuntimeSettings.
LoadSettings(j) ==
    /\ At(j, "asked")
    /\ \/ up = "up" /\ Goto(j, "waiting")
       \/ Refused /\ Conclude(j, "closing", "failed")
    /\ UNCHANGED <<job, rc, reg, flagged, term, up, restarts, acked, recovered>>

\* globalLimiter.Acquire.
Acquire(j) ==
    /\ At(j, "waiting")
    /\ \/ /\ up = "up" /\ Cardinality(Holders) < Limit
          /\ run' = [run EXCEPT ![j].at = "admitted", ![j].slot = TRUE]
       \/ up = "stopping" /\ Conclude(j, "closing", "failed")
    /\ UNCHANGED <<job, rc, reg, flagged, term, up, restarts, acked, recovered>>

\* portManager.Acquire.
AcquirePort(j) ==
    /\ At(j, "admitted")
    /\ \/ Goto(j, "ported")
       \/ "refuse" \in Faults /\ Conclude(j, "closing", "failed")
    /\ UNCHANGED <<job, rc, reg, flagged, term, up, restarts, acked, recovered>>

UpdateJobRunning(j) ==
    /\ At(j, "ported")
    /\ IF job[j] = "pending" THEN Update(j, "running") ELSE job' = job
    /\ Goto(j, "starting")
    /\ UNCHANGED <<rc, reg, flagged, term, up, restarts, acked, recovered>>

\* cmd.Start.
StartCommand(j) ==
    /\ At(j, "starting")
    /\ \/ /\ up = "up"
          /\ Goto(j, "started")
          /\ rc' = [rc EXCEPT ![j] = "alive"]
       \/ /\ Refused
          /\ Conclude(j, "closing", "failed")
          /\ rc' = rc
    /\ UNCHANGED <<job, reg, flagged, term, up, restarts, acked, recovered>>

Register(j) ==
    /\ At(j, "started")
    /\ reg' = reg \cup {j}
    /\ Goto(j, "polling")
    /\ UNCHANGED <<job, rc, flagged, term, up, restarts, acked, recovered>>

Ready(j) ==
    /\ At(j, "polling")
    /\ Goto(j, "watching")
    /\ UNCHANGED <<job, rc, reg, flagged, term, up, restarts, acked, recovered>>

---------------------------------------------------------------------------
(* Ending.                                                                 *)

\* The cases ctx.Done and done of the select.  Both wait for the process; the
\* first kills it, and its error is the context's.
SelectDone(j) ==
    /\ At(j, "watching")
    /\ rc[j] \in Exited
    /\ Conclude(j, "exited", IF rc[j] = "zero" THEN "done" ELSE "failed")
    /\ UNCHANGED <<job, rc, reg, flagged, term, up, restarts, acked, recovered>>

SelectCancelled(j) ==
    /\ At(j, "watching")
    /\ up = "stopping"
    /\ rc' = [rc EXCEPT ![j] = IF @ = "alive" THEN "killed" ELSE @]
    /\ Conclude(j, "exited", "failed")
    /\ UNCHANGED <<job, reg, flagged, term, up, restarts, acked, recovered>>

\* Mutant: the flag counts only when rclone failed.
VerdictOfExit(j) == IF j \in flagged /\ rc[j] = "nonzero" THEN "terminated" ELSE run[j].verdict

\* h.Terminated, and which update runManualJob will make.
Verdict(j) == IF j \in flagged THEN "terminated" ELSE run[j].verdict

CheckFlag(j) ==
    /\ At(j, "exited")
    /\ Conclude(j, "checked", Verdict(j))
    /\ UNCHANGED <<job, rc, reg, flagged, term, up, restarts, acked, recovered>>

Unregister(j) ==
    /\ At(j, "checked")
    /\ reg' = reg \ {j}
    /\ Goto(j, "closing")
    /\ UNCHANGED <<job, rc, flagged, term, up, restarts, acked, recovered>>

\* Mutant: only a row that is running is closed.
ClosedIfRunning(status, verdict) == IF status = "running" THEN verdict ELSE status

\* UpdateJobDone, UpdateJobFailed, UpdateJobTerminated: no status is asked for.
Closed(status, verdict) == verdict

CloseRow(j) ==
    /\ At(j, "closing")
    /\ Update(j, Closed(job[j], run[j].verdict))
    /\ Goto(j, "leaving")
    /\ UNCHANGED <<rc, reg, flagged, term, up, restarts, acked, recovered>>

Leave(j) ==
    /\ At(j, "leaving")
    /\ run' = [run EXCEPT ![j] = NoRun]
    /\ UNCHANGED <<job, rc, reg, flagged, term, up, restarts, acked, recovered>>

---------------------------------------------------------------------------
(* jobTerminatePost.                                                       *)

\* GetJob: only a job that is running.
AskTermination(j) ==
    /\ up # "down"
    /\ term.at = "idle"
    /\ job[j] = "running"
    /\ term' = [at |-> "lookup", job |-> j]
    /\ UNCHANGED <<job, run, rc, reg, flagged, up, restarts, acked, recovered>>

\* Terminate, under the mutex; a job that is not registered is refused.
LookUp ==
    /\ term.at = "lookup"
    /\ term' = IF term.job \in reg THEN [term EXCEPT !.at = "mark"] ELSE NoRequest
    /\ UNCHANGED <<job, run, rc, reg, flagged, up, restarts, acked, recovered>>

Mark ==
    /\ term.at = "mark"
    /\ flagged' = flagged \cup {term.job}
    /\ term' = [term EXCEPT !.at = "kill"]
    /\ UNCHANGED <<job, run, rc, reg, up, restarts, acked, recovered>>

\* Mutant: the process is not killed.
KillNone(r) == r

\* Process.Kill; of one that has exited the error is dropped.
Kill(r) == IF r = "alive" THEN "killed" ELSE r

KillProcess ==
    /\ term.at = "kill"
    /\ rc' = [rc EXCEPT ![term.job] = Kill(@)]
    /\ acked' = acked \cup {term.job}
    /\ term' = NoRequest
    /\ UNCHANGED <<job, run, reg, flagged, up, restarts, recovered>>

---------------------------------------------------------------------------
(* rclone, and the end of the daemon.                                      *)

Exit(j) ==
    /\ rc[j] = "alive"
    /\ \E code \in {"zero", "nonzero"} : rc' = [rc EXCEPT ![j] = code]
    /\ UNCHANGED <<job, run, reg, flagged, term, up, restarts, acked, recovered>>

\* exec.CommandContext kills its process once the context is done.
ContextKills(j) ==
    /\ up = "stopping"
    /\ rc[j] = "alive" /\ run[j].at # "none"
    /\ rc' = [rc EXCEPT ![j] = "killed"]
    /\ UNCHANGED <<job, run, reg, flagged, term, up, restarts, acked, recovered>>

\* main: a signal, cancel.
Shutdown ==
    /\ up = "up"
    /\ restarts < MaxRestarts
    /\ up' = "stopping"
    /\ UNCHANGED <<job, run, rc, reg, flagged, term, restarts, acked, recovered>>

\* main returns and waits for no goroutine; or the daemon dies.
Down ==
    /\ up = "stopping" \/ (up = "up" /\ "crash" \in Faults /\ restarts < MaxRestarts)
    /\ up' = "down"
    /\ run' = [j \in Jobs |-> NoRun]
    /\ reg' = {} /\ flagged' = {}
    /\ term' = NoRequest
    /\ UNCHANGED <<job, rc, restarts, acked, recovered>>

\* Mutant: recovery closes every row.
RecoveredAll(status) == "failed"

\* Mutant: recovery leaves the rows as they are.
RecoveredNone(status) == status

\* The update of RecoverDanglingRuns.
Recovered(status) == IF status = "running" THEN "failed" ELSE status

Restart ==
    /\ up = "down"
    /\ up' = "up"
    /\ restarts' = restarts + 1
    /\ job' = [j \in Jobs |-> Recovered(job[j])]
    /\ recovered' = recovered \cup {j \in Jobs : job[j] = "running"}
    /\ UNCHANGED <<run, rc, reg, flagged, term, acked>>

---------------------------------------------------------------------------
RunStep(j) == \/ LoadSettings(j) \/ Acquire(j) \/ AcquirePort(j) \/ UpdateJobRunning(j)
              \/ StartCommand(j) \/ Register(j) \/ Ready(j) \/ SelectDone(j) \/ SelectCancelled(j)
              \/ CheckFlag(j) \/ Unregister(j) \/ CloseRow(j) \/ Leave(j)

TermStep == LookUp \/ Mark \/ KillProcess

\* The form is sent, and with it the field.  (A bound: a field is filled in
\* before the first job only.)
FormStep == \/ (\A j \in Jobs : job[j] = "none") /\ (TypeArgument \/ TypeCharacter) /\ UNCHANGED mvars
            \/ \E j \in Jobs : manualStartPost(j) /\ args' = <<>> /\ text' = <<>>

DaemonStep == \/ \E j \in Jobs : RunStep(j) \/ AskTermination(j) \/ Exit(j) \/ ContextKills(j)
              \/ TermStep \/ Shutdown \/ Down \/ Restart

---------------------------------------------------------------------------
(* Correctness.                                                            *)

Runs == [at : Stages, slot : BOOLEAN, verdict : {"none", "done", "failed", "terminated"}]

\* Every variable holds a value of its type.
MTypeOK ==
    /\ job \in [Jobs -> {"none", "pending", "running"} \cup Ended]
    /\ run \in [Jobs -> Runs]
    /\ rc \in [Jobs -> {"none", "alive"} \cup Exited]
    /\ reg \subseteq Jobs /\ flagged \subseteq Jobs
    /\ term \in {NoRequest} \cup [at : {"lookup", "mark", "kill"}, job : Jobs]
    /\ up \in {"up", "stopping", "down"}
    /\ restarts \in 0..MaxRestarts
    /\ acked \subseteq Jobs /\ recovered \subseteq Jobs

\* A row tells what became of rclone, whoever terminates it when: done only if
\* it exited with 0, and never failed when it exited with 0 or was killed by a
\* user.  (After a restart the row says failed.)
RowTellsTruth ==
    \A j \in Jobs \ recovered :
        /\ job[j] = "done" => rc[j] = "zero"
        /\ job[j] = "failed" => rc[j] \in {"none", "nonzero"}
        /\ job[j] = "terminated" => rc[j] \in Exited

\* While the daemon is up, a row that says running has a goroutine that will
\* close it.
RunningIsTended ==
    \A j \in Jobs : job[j] = "running" /\ up = "up" => run[j].at \notin {"none", "leaving"}

\* A row that is closed is never changed again, by no update that comes late and
\* by no recovery.
ClosedIsFinal == [][\A j \in Jobs : job[j] \in Ended => job'[j] = job[j]]_mvars

\* The goroutines and the request go on.  Nothing is assumed of rclone: it may
\* run for ever.
MFairness == (\A j \in Jobs : WF_mvars(RunStep(j))) /\ WF_mvars(TermStep)

\* A termination the user was told of ends the job, even one whose rclone is
\* still to answer or exits just then; as long as the daemon stays up.
TerminationEnds == \A j \in Jobs : j \in acked ~> job[j] \in Ended \/ up # "up"

\* Whichever step of its start fails, a pending job comes to run its rclone or to
\* an end, as long as the daemon stays up.  (A job that is pending when the daemon
\* goes down stays so for ever.)
PendingEnds == \A j \in Jobs : job[j] = "pending" /\ ~At(j, "none")
                             ~> job[j] \in Ended \/ rc[j] = "alive" \/ up # "up"
=============================================================================
