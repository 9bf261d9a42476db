----------------------- MODULE RuleJobsLedgerProofs -----------------------
(***************************************************************************)
(* Proof that RuleJobs implements FileLedger, for any number of paths and   *)
(* jobs, any bounds and every fault.                                       *)
(***************************************************************************)
EXTENDS RuleJobsProofs

USE NoJobAssumption

---------------------------------------------------------------------------
\* What a job's log and its verdict name are paths of the job: needed because
\* FinalizeJobFiles marks the rows of the verdict whatever their state.
Scoped == \A j \in Jobs :
    /\ Live(j) => log[j] \subseteq run[j].paths
    /\ run[j].phase \in {"exited", "saved"} => run[j].verdict.done \subseteq run[j].paths

LEMMA ScopedInit == Init => Scoped
BY DEF Init, Scoped, Idle, Live

\* A job's step that neither begins a claim nor concludes.
LEMMA ScopedMove ==
  ASSUME TypeOK, Scoped, NEW j \in Jobs, log' = log,
         \A i \in Jobs \ {j} : run'[i] = run[i],
         \/ run'[j].phase \in {"idle", "orphan"}
         \/ /\ Live(j) /\ run'[j].paths = run[j].paths /\ run'[j].verdict = run[j].verdict
            /\ run'[j].phase \in {"exited", "saved"} => run[j].phase \in {"exited", "saved"}
  PROVE  Scoped'
BY DEF Scoped, Live

LEMMA ScopedConclude ==
  ASSUME TypeOK, Scoped, NEW j \in Jobs, NEW v \in Verdicts, Conclude(j, v),
         v.done \subseteq log[j] \/ v.done \subseteq run[j].paths
  PROVE  Scoped'
<1>1. /\ run'[j].phase = "exited" /\ run'[j].verdict = v /\ run'[j].paths = run[j].paths
      /\ run[j].phase = "running" /\ log' = log
      /\ \A i \in Jobs \ {j} : run'[i] = run[i]
  BY DEF Conclude, TypeOK, Runs, world
<1> QED BY <1>1 DEF Scoped, Live

\* Steps that leave every goroutine and every log alone.
LEMMA ScopedSame == Scoped /\ UNCHANGED <<run, log>> => Scoped'
BY DEF Scoped, Live

LEMMA ScopedStep == TypeOK /\ Scoped /\ [Next]_vars => Scoped'
<1> SUFFICES ASSUME TypeOK, Scoped, [Next]_vars PROVE Scoped'
  OBVIOUS
<1>1. CASE WorkerStep
  BY <1>1, ScopedSame
     DEF WorkerStep, StartWorker, ScanRule, UpsertScan, EnqueueScanned, Schedule, world
<1>2. CASE RecoveryStep
  BY <1>2, ScopedSame
     DEF RecoveryStep, LoadRunning, FailRunning, RecoverClear, SafetyNet, RecoverFiles, world
<1>3. CASE ReturnEmpty \/ ReturnRefused \/ Retry
  BY <1>3, ScopedSame DEF ReturnEmpty, ReturnRefused, Retry, world
<1>4. CASE Crash
  BY <1>4 DEF Crash, Scoped, Live, TypeOK, Runs, Idle, world
<1>5. CASE StopWorker
  <2>1. \A j \in Jobs : /\ run'[j].phase = run[j].phase /\ run'[j].paths = run[j].paths
                        /\ run'[j].verdict = run[j].verdict
    BY <1>5 DEF StopWorker, TypeOK, Runs
  <2> QED BY <1>5, <2>1 DEF StopWorker, Scoped, Live, world
<1>6. ASSUME NEW j \in Jobs, Claim(j) PROVE Scoped'
  <2>1. /\ log'[j] = {} /\ \A i \in Jobs \ {j} : log'[i] = log[i] /\ run'[i] = run[i]
        /\ run'[j].phase = "claimed"
    BY <1>6 DEF Claim, TypeOK, Idle
  <2> QED BY <2>1 DEF Scoped, Live
<1>7. ASSUME NEW j \in Jobs, JobStep(j), ~ExitOk(j) PROVE Scoped'
  BY <1>7, ScopedMove
     DEF JobStep, CreateJobRow, StopRecorded, DropClaim, StartRclone, SaveJob, FinalizeFiles, ClearJob,
         Goto, End, Idle, TypeOK, Runs, Live, world
<1>8. ASSUME NEW j \in Jobs, ExitOk(j) PROVE Scoped'
  <2>1. log[j] \in SUBSET Paths /\ run[j].paths \in SUBSET Paths
    BY DEF TypeOK, Runs
  <2> QED BY <1>8, <2>1, ScopedConclude DEF ExitOk, Verdicts
<1>9. ASSUME NEW j \in Jobs, Abandon(j) \/ OrphanExits(j) PROVE Scoped'
  BY <1>9, ScopedMove DEF Abandon, OrphanExits, End, Idle, TypeOK, Runs, world
<1>10. ASSUME NEW j \in Jobs, ExitTerminated(j) \/ ExitFailed(j) \/ ExitUnreadable(j) PROVE Scoped'
  <2>1. log[j] \in SUBSET Paths
    BY DEF TypeOK
  <2> QED BY <1>10, <2>1, ScopedConclude
          DEF ExitTerminated, ExitFailed, ExitUnreadable, LogReadings, Verdicts
<1>11. ASSUME NEW j \in Jobs, NEW p \in Paths, Transfer(j, p) PROVE Scoped'
  <2>1. /\ \A i \in Jobs : /\ run'[i].phase = run[i].phase /\ run'[i].paths = run[i].paths
                           /\ run'[i].verdict = run[i].verdict
        /\ p \in run[j].paths
        /\ \A i \in Jobs \ {j} : log'[i] = log[i]
        /\ log'[j] \subseteq log[j] \cup {p}
    BY <1>11 DEF Transfer, TypeOK, Runs, world
  <2> QED BY <2>1 DEF Scoped, Live
<1>12. ASSUME NEW p \in Paths, SourceStep(p) PROVE Scoped'
  BY <1>12, ScopedSame DEF SourceStep, Rewrite, Remove, Restore
<1>13. CASE UNCHANGED vars
  BY <1>13, ScopedSame DEF vars
<1> QED
  BY <1>1, <1>2, <1>3, <1>4, <1>5, <1>6, <1>7, <1>8, <1>9, <1>10, <1>11, <1>12, <1>13
  DEF Next, StarterStep, RcloneStep, Fault

---------------------------------------------------------------------------
(* The statements, seen through the mapping.                               *)

LedgerStep == [Ledger!Next]_<<Owners, In(files, "done")>>

\* A statement that neither claims nor releases nor marks a row.
LEMMA LedgerStutter ==
  ASSUME \A p \in Paths : /\ Holder(files'[p]) = Holder(files[p])
                          /\ files'[p].state = "done" <=> files[p].state = "done"
  PROVE  LedgerStep
BY DEF LedgerStep, Owners, In

LEMMA LedgerSame == files' = files => LedgerStep
BY LedgerStutter

\* A release of all that j holds, with some of it marked.
LEMMA LedgerSettle ==
  ASSUME TypeOK, NEW j \in Jobs, NEW done \in SUBSET Paths,
         \A p \in done : Holder(files[p]) = j,
         \A p \in Paths :
             /\ Holder(files'[p]) = IF Holder(files[p]) = j THEN NoJob ELSE Holder(files[p])
             /\ files'[p].state = "done" <=> files[p].state = "done" \/ p \in done
  PROVE  LedgerStep
<1>1. Ledger!Settle(j, done)
  BY DEF Ledger!Settle, Ledger!HeldBy, Owners, In
<1> QED BY <1>1 DEF LedgerStep, Ledger!Next

LEMMA LedgerRelease ==
  ASSUME TypeOK, NEW j \in Jobs, files' = ReleaseTransferringBackToQueued(files, j)
  PROVE  LedgerStep
<1>1. ASSUME NEW p \in Paths
      PROVE  /\ Holder(files'[p]) = IF Holder(files[p]) = j THEN NoJob ELSE Holder(files[p])
             /\ files'[p].state = "done" <=> files[p].state = "done" \/ p \in {}
  <2>1. files[p] \in Row /\ Requeued(files[p]).state = "queued"
    BY RequeuedFields DEF TypeOK
  <2>2. files'[p] = IF Holder(files[p]) = j THEN Requeued(files[p]) ELSE files[p]
    BY DEF ReleaseTransferringBackToQueued, Holder
  <2>3. CASE Holder(files[p]) = j
    <3>1. files[p].state = "transferring"
      BY <2>3 DEF Holder
    <3> QED BY <2>1, <2>2, <2>3, <3>1 DEF Holder
  <2>4. CASE Holder(files[p]) # j
    BY <2>2, <2>4
  <2> QED BY <2>3, <2>4
<1>2. {} \in SUBSET Paths /\ \A p \in {} : Holder(files[p]) = j
  OBVIOUS
<1> QED BY <1>1, <1>2, LedgerSettle

\* The marked rows must be claimed: FinalizeJobFiles does not test it.
LEMMA LedgerFinalize ==
  ASSUME TypeOK, NEW j \in Jobs, NEW done \in SUBSET Paths, NEW rest,
         \A p \in done : Holder(files[p]) = j,
         files' = FinalizeJobFiles(files, j, done, rest)
  PROVE  LedgerStep
<1>1. ASSUME NEW p \in Paths
      PROVE  /\ Holder(files'[p]) = IF Holder(files[p]) = j THEN NoJob ELSE Holder(files[p])
             /\ files'[p].state = "done" <=> files[p].state = "done" \/ p \in done
  <2>1. files[p] \in Row
    BY DEF TypeOK
  <2>2. CASE p \in done
    BY <2>1, <2>2 DEF FinalizeJobFiles, Holder, Row
  <2>3. CASE p \notin done
    BY <2>1, <2>3, RequeuedFields DEF FinalizeJobFiles, Holder, Row
  <2> QED BY <2>2, <2>3
<1> QED BY <1>1, LedgerSettle

LEMMA LedgerScan ==
  ASSUME TypeOK, NEW old \in SUBSET Paths, files' = UpsertScanEntries(files, listing, old, ignored)
  PROVE  LedgerStep
<1>1. ASSUME NEW p \in Paths
      PROVE  /\ Holder(files'[p]) = Holder(files[p])
             /\ files'[p].state = "done" => files[p].state = "done"
  BY DEF UpsertScanEntries, Purged, Seen, SeenState, Absent, Holder, TypeOK
<1> DEFINE S == In(files, "done") \ In(files', "done")
<1>2. Ledger!Outdate(S)
  BY <1>1 DEF Ledger!Outdate, Owners, In
<1>3. S \in SUBSET Paths
  BY DEF In
<1> QED BY <1>2, <1>3 DEF LedgerStep, Ledger!Next

LEMMA LedgerClaim ==
  ASSUME TypeOK, NEW j \in Jobs, NEW B \in SUBSET Claimable(files), B # {},
         OwnedBy(files, j) = {}, files' = ClaimQueuedForJob(files, B, j)
  PROVE  LedgerStep
<1>1. B \in SUBSET Paths /\ \A p \in B : files[p].state = "queued"
  BY DEF Claimable, In
<1>2. ASSUME NEW p \in Paths
      PROVE  /\ Holder(files'[p]) = IF p \in B THEN j ELSE Holder(files[p])
             /\ files'[p].state = "done" <=> files[p].state = "done"
             /\ Holder(files[p]) # j
  <2>1. files[p] \in Row
    BY DEF TypeOK
  <2>2. Holder(files[p]) # j
    BY DEF Holder, OwnedBy
  <2>3. CASE p \in B
    <3>1. files'[p] = [files[p] EXCEPT !.state = "transferring", !.job = j]
      BY <2>3 DEF ClaimQueuedForJob
    <3>2. files'[p].state = "transferring" /\ files'[p].job = j
      BY <2>1, <3>1 DEF Row
    <3> QED BY <1>1, <2>2, <2>3, <3>2 DEF Holder
  <2>4. CASE p \notin B
    BY <2>2, <2>4 DEF ClaimQueuedForJob
  <2> QED BY <2>3, <2>4
<1>3. Ledger!Take(j, B)
  BY <1>1, <1>2 DEF Ledger!Take, Ledger!HeldBy, Ledger!Free, Owners, In, Holder
<1> QED BY <1>1, <1>3 DEF LedgerStep, Ledger!Next

---------------------------------------------------------------------------
(* The refinement: the initial states, one step per action, the temporal    *)
(* step.                                                                   *)

LEMMA LedgerInit == Init => Ledger!Init
BY DEF Init, Ledger!Init, Owners, Holder, In, Absent

LEMMA LedgerNext == IndInv /\ Scoped /\ [Next]_vars => LedgerStep
<1> SUFFICES ASSUME IndInv, Scoped, [Next]_vars PROVE LedgerStep
  OBVIOUS
<1> USE DEF IndInv
<1>1. CASE UpsertScan
  BY <1>1, LedgerScan DEF UpsertScan
<1>2. ASSUME NEW B \in SUBSET Stable(files), files' = EnqueueStable(files, B) PROVE LedgerStep
  BY <1>2, LedgerStutter DEF TypeOK, EnqueueStable, Stable, In, Holder, Row
<1>3. CASE EnqueueScanned \/ Schedule
  BY <1>2, <1>3 DEF EnqueueScanned, Schedule, Batch
<1>4. CASE Retry
  <2>1. PICK B \in SUBSET In(files, "failed") : files' = RetryFailed(files, B)
    BY <1>4 DEF Retry, Batch
  <2> QED BY <2>1, LedgerStutter, RequeuedFields DEF TypeOK, RetryFailed, In, Holder
<1>5. ASSUME NEW j \in Jobs, Claim(j) PROVE LedgerStep
  BY <1>5, LedgerClaim DEF Claim, Fresh, Batch
<1>6. ASSUME NEW j \in Jobs, Abandon(j) \/ DropClaim(j) PROVE LedgerStep
  BY <1>6, LedgerRelease, LedgerSame DEF Abandon, DropClaim, Write
<1>7. ASSUME NEW j \in Jobs, FinalizeFiles(j) PROVE LedgerStep
  <2>1. /\ run[j].phase = "saved"
        /\ Write(FinalizeJobFiles(files, j, run[j].verdict.done, run[j].verdict.rest))
    BY <1>7 DEF FinalizeFiles
  <2>2. /\ run[j].verdict.done \in SUBSET Paths
        /\ \A p \in run[j].verdict.done : Holder(files[p]) = j
    BY <2>1 DEF Scoped, ClaimsHeld, Holding, Holder, TypeOK, Runs
  <2> QED BY <2>1, <2>2, LedgerFinalize, LedgerSame DEF Write
<1>8. ASSUME NEW j \in Jobs, RecoverFiles(j) PROVE LedgerStep
  <2>1. PICK done \in SUBSET Paths :
             /\ \A p \in done : Holder(files[p]) = j
             /\ Write(FinalizeJobFiles(files, j, done, "queued"))
    BY <1>8 DEF RecoverFiles, LogReadings, Holder, TypeOK
  <2> QED BY <2>1, LedgerFinalize, LedgerSame DEF Write
<1>9. ASSUME NEW j \in Jobs, Write(ClearJobOnDone(files, j)) PROVE LedgerStep
  BY <1>9, LedgerStutter, LedgerSame DEF Write, ClearJobOnDone, TypeOK, Holder, Row
<1>10. CASE RecoverClear
  <2>1. CASE fixing \in Jobs
    BY <1>10, <2>1, <1>9 DEF RecoverClear
  <2>2. CASE fixing = NoJob
    BY <1>10, <2>2, LedgerStutter, LedgerSame
       DEF RecoverClear, Write, ClearJobOnDone, TypeOK, Holder, Row
  <2> QED BY <2>1, <2>2 DEF TypeOK
<1>11. ASSUME NEW j \in Jobs, ClearJob(j) PROVE LedgerStep
  BY <1>9, <1>11 DEF ClearJob
<1>12. CASE SafetyNet
  <2>1. \A p \in Paths : /\ Holder(files'[p]) = NoJob
                         /\ files'[p].state = "done" <=> files[p].state = "done"
    BY <1>12, RequeuedFields DEF SafetyNet, RequeueTransferring, TypeOK, Holder
  <2>2. Ledger!FreeAll
    BY <2>1 DEF Ledger!FreeAll, Owners, In
  <2> QED BY <2>2 DEF LedgerStep, Ledger!Next
<1>13. CASE files' = files
  BY <1>13, LedgerSame
<1> QED
  BY <1>1, <1>3, <1>4, <1>5, <1>6, <1>7, <1>8, <1>10, <1>11, <1>12, <1>13
  DEF Next, WorkerStep, StarterStep, RecoveryStep, Fault, JobStep, RcloneStep, vars, table,
      StartWorker, ScanRule, ReturnEmpty, ReturnRefused, StopWorker, Crash, CreateJobRow,
      StopRecorded, StartRclone, ExitOk, SaveJob, ExitTerminated, ExitFailed, ExitUnreadable,
      Conclude, OrphanExits, LoadRunning, FailRunning, Transfer, SourceStep,
      Rewrite, Remove, Restore

\* RuleJobs implements FileLedger under every fault the model knows: whatever
\* scans, stops, retries, dropped errors, crashes and recoveries come between,
\* the rows of a rule change hands only as the ledger says.
THEOREM ImplementsLedger == Spec => LedgerSpec
<1>1. Spec => []Scoped
  <2>1. IndInv /\ Scoped /\ [Next]_vars => Scoped'
    BY ScopedStep DEF IndInv
  <2> QED BY <2>1, ScopedInit, Inductive, PTL DEF Spec
<1>2. IndInv /\ Scoped /\ [Next]_vars => [Ledger!Next]_<<Owners, In(files, "done")>>
  BY LedgerNext DEF LedgerStep
<1> QED BY <1>1, <1>2, LedgerInit, Inductive, PTL DEF Spec, LedgerSpec, Ledger!Spec
===========================================================================
