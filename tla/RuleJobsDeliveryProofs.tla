---------------------- MODULE RuleJobsDeliveryProofs ----------------------
(***************************************************************************)
(* Proofs about RuleJobs, continued: what the tables call done has been     *)
(* transferred, or was gone from the source when rclone came to it, as long *)
(* as no file is rewritten while a job holds it.                            *)
(***************************************************************************)
EXTENDS RuleJobsProofs

USE NoJobAssumption

---------------------------------------------------------------------------
\* The inductive invariant, on top of IndInv.
DeliveryInv == VersionsKnown /\ ReportsDelivered /\ DoneInPaths /\ DoneIsDelivered

\* A step of the table that changes no version and adds neither a claimed row
\* nor a done one.
Keeps(f, g) == \A p \in Paths :
    /\ g[p].ver = f[p].ver
    /\ g[p].state = "done" => f[p].state = "done"
    /\ g[p].state = "transferring" => f[p].state = "transferring" /\ g[p].job = f[p].job

\* A step of the goroutines that begins no claim and concludes nothing.
Quiet(r, s) == \A j \in Jobs :
    /\ s[j].handled \subseteq r[j].handled
    /\ s[j].phase \in {"exited", "saved"} =>
          r[j].phase \in {"exited", "saved"} /\ s[j].verdict = r[j].verdict
    /\ s[j].phase = "exited" => r[j].phase = "exited"
    /\ s[j].phase \notin {"idle", "orphan"} =>
          r[j].phase \notin {"idle", "orphan"} /\ s[j].paths = r[j].paths

LEMMA RequeuedVer ==
  ASSUME NEW r \in Row
  PROVE  Requeued(r).ver = r.ver
BY DEF Requeued, Row

LEMMA ReleaseKeeps ==
  ASSUME NEW f \in [Paths -> Row], NEW j
  PROVE  Keeps(f, ReleaseTransferringBackToQueued(f, j))
BY RequeuedFields, RequeuedVer DEF Keeps, ReleaseTransferringBackToQueued

LEMMA EnqueueKeeps ==
  ASSUME NEW f \in [Paths -> Row], NEW B
  PROVE  Keeps(f, EnqueueStable(f, B))
BY DEF Keeps, EnqueueStable, Row

LEMMA RetryKeeps ==
  ASSUME NEW f \in [Paths -> Row], NEW B
  PROVE  Keeps(f, RetryFailed(f, B))
BY RequeuedFields, RequeuedVer DEF Keeps, RetryFailed

LEMMA ClearKeeps ==
  ASSUME NEW f \in [Paths -> Row], NEW j
  PROVE  Keeps(f, ClearJobOnDone(f, j))
BY DEF Keeps, ClearJobOnDone, Row

LEMMA RequeueKeeps ==
  ASSUME NEW f \in [Paths -> Row]
  PROVE  Keeps(f, RequeueTransferring(f))
BY RequeuedFields, RequeuedVer DEF Keeps, RequeueTransferring

\* FinalizeJobFiles marks rows of its job done, and only listed ones.
LEMMA FinalizeRows ==
  ASSUME NEW f \in [Paths -> Row], NEW j, NEW done, NEW rest, NEW p \in Paths
  PROVE  LET g == FinalizeJobFiles(f, j, done, rest)
         IN  /\ g[p].ver = f[p].ver
             /\ g[p].state = "transferring" => g[p] = f[p] /\ f[p].job # j
             /\ g[p].state = "done" => f[p].state = "done" \/ (f[p].job = j /\ p \in done)
BY RequeuedFields, RequeuedVer DEF FinalizeJobFiles, Row

LEMMA SameKeeps == Keeps(files, files) /\ Quiet(run, run)
BY DEF Keeps, Quiet

LEMMA DeliveryKept ==
  ASSUME TypeOK, DeliveryInv, Keeps(files, files'), Quiet(run, run'),
         src' = src, dst' = dst, missed' = missed, log' = log,
         \A p \in Paths : KnownVersion(p, listing'[p])
  PROVE  DeliveryInv'
<1>1. VersionsKnown'
  BY DEF DeliveryInv, VersionsKnown, KnownVersion, Keeps
<1>2. ReportsDelivered'
  <2> SUFFICES ASSUME NEW j \in Jobs, NEW p \in Paths, Claimed(p, j)'
               PROVE  /\ p \in log[j] => Arrived(p)
                      /\ p \in run'[j].handled => Delivered(p)
                      /\ run'[j].phase \in {"exited", "saved"} /\ p \in run'[j].verdict.done
                            => Delivered(p)
    BY DEF ReportsDelivered, Delivered, Arrived
  <2>1. Claimed(p, j)
    BY DEF Claimed, Keeps
  <2> QED BY <2>1 DEF Quiet, DeliveryInv, ReportsDelivered
<1>3. DoneInPaths'
  BY DEF DeliveryInv, DoneInPaths, Quiet, Live
<1>4. DoneIsDelivered'
  BY DEF DeliveryInv, DoneIsDelivered, Keeps, In
<1> QED BY <1>1, <1>2, <1>3, <1>4 DEF DeliveryInv

\* The outcome of a job reports what is logged, or everything when rclone found
\* nothing to transfer.
LEMMA DeliveryConclude ==
  ASSUME IndInv, DeliveryInv, NEW j \in Jobs, NEW v \in Verdicts, Conclude(j, v),
         v.done \subseteq log[j] \/ (run[j].handled = run[j].paths /\ v.done = run[j].paths),
         v.status = "done" => v.done = run[j].paths /\ log[j] \in {{}, run[j].paths}
  PROVE  DeliveryInv'
<1> USE DEF IndInv
<1>1. /\ run'[j].phase = "exited" /\ run'[j].verdict = v
      /\ run'[j].paths = run[j].paths /\ run'[j].handled = run[j].handled
      /\ run[j].phase = "running" /\ Live(j)
      /\ \A i \in Jobs \ {j} : run'[i] = run[i]
  BY DEF Conclude, TypeOK, Runs, Live
<1>2. UNCHANGED <<files, src, dst, missed, log, listing>>
  BY DEF Conclude, table, world, control
<1>3. VersionsKnown' /\ DoneIsDelivered'
  BY <1>2 DEF DeliveryInv, VersionsKnown, KnownVersion, DoneIsDelivered, In
<1>4. ReportsDelivered'
  BY <1>1, <1>2 DEF DeliveryInv, ReportsDelivered, Claimed, Delivered, Arrived
<1>5. DoneInPaths'
  BY <1>1, <1>2 DEF DeliveryInv, DoneInPaths, Live
<1> QED BY <1>3, <1>4, <1>5 DEF DeliveryInv

\* The version a row records is not newer than what has arrived, or was gone.
LEMMA DeliveredVersion ==
  ASSUME TypeOK, VersionsKnown, NEW p \in Paths
  PROVE  /\ Arrived(p) => files[p].ver <= dst[p]
         /\ Delivered(p) => files[p].ver <= dst[p] \/ files[p].ver <= missed[p]
BY DEF VersionsKnown, KnownVersion, Delivered, Arrived

LEMMA DeliveryInit == Init => DeliveryInv
BY VersionAssumption
   DEF Init, DeliveryInv, VersionsKnown, KnownVersion, ReportsDelivered, DoneInPaths, DoneIsDelivered,
       Claimed, Delivered, Arrived, In, Absent, Nothing, NoFile, Idle, Live

LEMMA DeliveryStep ==
  ASSUME "inflight" \notin Faults
  PROVE  IndInv /\ DeliveryInv /\ [Next]_vars => DeliveryInv'
<1> SUFFICES ASSUME IndInv, DeliveryInv, [Next]_vars PROVE DeliveryInv'
  OBVIOUS
<1> USE DEF IndInv
<1>0. \A p \in Paths : KnownVersion(p, listing[p]) /\ KnownVersion(p, NoFile)
  <2>1. \A p \in Paths : src[p] \in Nat
    BY VersionAssumption DEF TypeOK
  <2> QED BY <2>1 DEF DeliveryInv, VersionsKnown, KnownVersion, NoFile
<1>1. CASE StartWorker
  BY <1>1, <1>0, SameKeeps, DeliveryKept DEF StartWorker, table, world, control
<1>2. CASE ScanRule
  <2>1. \A p \in Paths : KnownVersion(p, listing'[p])
    BY <1>2, <1>0, VersionAssumption DEF ScanRule, KnownVersion, TypeOK, AtSource
  <2> QED BY <1>2, <2>1, SameKeeps, DeliveryKept DEF ScanRule, table, world
<1>3. CASE UpsertScan
  <2>1. PICK old \in SUBSET Paths : files' = UpsertScanEntries(files, listing, old, ignored)
    BY <1>3 DEF UpsertScan
  <2>2. UNCHANGED <<src, dst, missed, log, run>> /\ listing' = Nothing
    BY <1>3 DEF UpsertScan, world
  <2>3. ASSUME NEW p \in Paths
        PROVE  /\ KnownVersion(p, files'[p].ver)
               /\ files'[p].state = "transferring" =>
                     files[p].state = "transferring" /\ files'[p].job = files[p].job
               /\ files'[p].state = "done" => files[p].state = "done" /\ files'[p].ver = files[p].ver
    <3>1. files'[p] \in {files[p], Absent,
                         [state |-> SeenState(files[p], listing[p], p \in old),
                          job |-> files[p].job, ver |-> listing[p]]}
      BY <2>1 DEF UpsertScanEntries, Purged, Seen
    <3>2. KnownVersion(p, files[p].ver) /\ KnownVersion(p, listing[p]) /\ KnownVersion(p, NoFile)
      BY <1>0 DEF DeliveryInv, VersionsKnown
    <3>3. files'[p].ver \in {files[p].ver, listing[p], NoFile}
      BY <3>1 DEF Absent
    <3>4. files'[p].state = "transferring" =>
             files[p].state = "transferring" /\ files'[p].job = files[p].job
      BY <3>1 DEF Absent, SeenState
    <3>5. files'[p].state = "done" => files[p].state = "done" /\ files'[p].ver = files[p].ver
      BY <3>1 DEF Absent, SeenState
    <3> QED BY <3>2, <3>3, <3>4, <3>5
  <2>4. VersionsKnown'
    BY <1>0, <2>2, <2>3 DEF DeliveryInv, VersionsKnown, KnownVersion, Nothing
  <2>5. ReportsDelivered' /\ DoneInPaths'
    BY <2>2, <2>3 DEF DeliveryInv, ReportsDelivered, DoneInPaths, Claimed, Delivered, Arrived, Live
  <2>6. DoneIsDelivered'
    BY <2>2, <2>3 DEF DeliveryInv, DoneIsDelivered, In
  <2> QED BY <2>4, <2>5, <2>6 DEF DeliveryInv
<1>4. CASE EnqueueScanned
  <2>1. Keeps(files, files')
    BY <1>4, EnqueueKeeps DEF EnqueueScanned, TypeOK
  <2> QED BY <1>4, <1>0, <2>1, SameKeeps, DeliveryKept DEF EnqueueScanned, world, control
<1>5. CASE Schedule
  <2>1. Keeps(files, files')
    BY <1>5, EnqueueKeeps DEF Schedule, TypeOK
  <2> QED BY <1>5, <1>0, <2>1, SameKeeps, DeliveryKept DEF Schedule, world, control
<1>6. CASE ReturnEmpty
  BY <1>6, <1>0, SameKeeps, DeliveryKept DEF ReturnEmpty, table, world, control
<1>7. CASE StopWorker
  <2>1. Quiet(run, run')
    BY <1>7 DEF StopWorker, TypeOK, Runs, Quiet
  <2>2. \A p \in Paths : KnownVersion(p, listing'[p])
    BY <1>7, <1>0 DEF StopWorker, Nothing
  <2> QED BY <1>7, <2>1, <2>2, SameKeeps, DeliveryKept DEF StopWorker, table, world
<1>8. CASE ReturnRefused
  BY <1>8, <1>0, SameKeeps, DeliveryKept DEF ReturnRefused, table, world, control
<1>9. CASE Retry
  <2>1. Keeps(files, files')
    BY <1>9, RetryKeeps DEF Retry, TypeOK
  <2> QED BY <1>9, <1>0, <2>1, SameKeeps, DeliveryKept DEF Retry, world, control
<1>10. CASE Crash
  <2>1. Quiet(run, run')
    BY <1>10 DEF Crash, TypeOK, Runs, Idle, Quiet
  <2>2. \A p \in Paths : KnownVersion(p, listing'[p])
    BY <1>10, <1>0 DEF Crash, Nothing
  <2> QED BY <1>10, <2>1, <2>2, SameKeeps, DeliveryKept DEF Crash, table, world
<1>11. CASE LoadRunning
  BY <1>11, <1>0, SameKeeps, DeliveryKept DEF LoadRunning, table, world, control
<1>12. CASE FailRunning
  BY <1>12, <1>0, SameKeeps, DeliveryKept DEF FailRunning, table, world, control
<1>13. CASE RecoverClear
  <2>1. Keeps(files, files')
    BY <1>13, SameKeeps, ClearKeeps DEF RecoverClear, Write, TypeOK
  <2> QED BY <1>13, <1>0, <2>1, SameKeeps, DeliveryKept DEF RecoverClear, world
<1>14. CASE SafetyNet
  <2>1. Keeps(files, files')
    BY <1>14, RequeueKeeps DEF SafetyNet, TypeOK
  <2> QED BY <1>14, <1>0, <2>1, SameKeeps, DeliveryKept DEF SafetyNet, world
<1>15. ASSUME NEW j \in Jobs, Claim(j) PROVE DeliveryInv'
  <2>1. PICK B \in Batch(Claimable(files), BatchSize) :
               /\ files' = ClaimQueuedForJob(files, B, j)
               /\ run' = [run EXCEPT ![j] = [Idle EXCEPT !.phase = "claimed", !.paths = B]]
    BY <1>15 DEF Claim
  <2>2. UNCHANGED <<src, dst, missed, listing>> /\ log' = [log EXCEPT ![j] = {}]
    BY <1>15 DEF Claim
  <2>3. /\ run'[j].phase = "claimed" /\ run'[j].handled = {} /\ log'[j] = {}
        /\ \A i \in Jobs \ {j} : run'[i] = run[i] /\ log'[i] = log[i]
    BY <2>1, <2>2 DEF Idle, TypeOK
  <2>4. ASSUME NEW p \in Paths
        PROVE  /\ files'[p].ver = files[p].ver
               /\ files'[p].state = "done" => files[p].state = "done"
               /\ \A i \in Jobs \ {j} : Claimed(p, i)' => Claimed(p, i)
    <3>1. files'[p] = IF p \in B THEN [files[p] EXCEPT !.state = "transferring", !.job = j]
                                 ELSE files[p]
      BY <2>1 DEF ClaimQueuedForJob
    <3>2. CASE p \notin B
      BY <3>1, <3>2 DEF Claimed
    <3>3. CASE p \in B
      <4>1. files'[p].state = "transferring" /\ files'[p].job = j /\ files'[p].ver = files[p].ver
        BY <3>1, <3>3 DEF TypeOK, Row
      <4> QED BY <4>1 DEF Claimed
    <3> QED BY <3>2, <3>3
  <2>5. VersionsKnown' /\ DoneIsDelivered'
    BY <2>2, <2>4 DEF DeliveryInv, VersionsKnown, KnownVersion, DoneIsDelivered, In
  <2>6. ReportsDelivered'
    BY <2>2, <2>3, <2>4 DEF DeliveryInv, ReportsDelivered, Delivered, Arrived
  <2>7. DoneInPaths'
    BY <2>3 DEF DeliveryInv, DoneInPaths, Live
  <2> QED BY <2>5, <2>6, <2>7 DEF DeliveryInv
<1>16. ASSUME NEW j \in Jobs, CreateJobRow(j) PROVE DeliveryInv'
  <2>1. Quiet(run, run')
    BY <1>16 DEF CreateJobRow, Goto, TypeOK, Runs, Quiet
  <2> QED BY <1>16, <1>0, <2>1, SameKeeps, DeliveryKept DEF CreateJobRow, table, world, control
<1>17. ASSUME NEW j \in Jobs, StopRecorded(j) PROVE DeliveryInv'
  <2>1. Quiet(run, run')
    BY <1>17 DEF StopRecorded, Goto, TypeOK, Runs, Quiet
  <2> QED BY <1>17, <1>0, <2>1, SameKeeps, DeliveryKept DEF StopRecorded, table, world, control
<1>18. ASSUME NEW j \in Jobs, DropClaim(j) PROVE DeliveryInv'
  <2>1. Quiet(run, run')
    BY <1>18 DEF DropClaim, End, Idle, TypeOK, Runs, Quiet
  <2>2. Keeps(files, files')
    BY <1>18, SameKeeps, ReleaseKeeps DEF DropClaim, Write, TypeOK
  <2> QED BY <1>18, <1>0, <2>1, <2>2, DeliveryKept DEF DropClaim, world, control
<1>19. ASSUME NEW j \in Jobs, StartRclone(j) PROVE DeliveryInv'
  <2>1. Quiet(run, run')
    BY <1>19 DEF StartRclone, Goto, TypeOK, Runs, Quiet
  <2> QED BY <1>19, <1>0, <2>1, SameKeeps, DeliveryKept DEF StartRclone, table, world, control
<1>20. ASSUME NEW j \in Jobs, ExitOk(j) PROVE DeliveryInv'
  <2>1. log[j] \in SUBSET Paths /\ run[j].paths \in SUBSET Paths
    BY DEF TypeOK, Runs
  <2> QED BY <1>20, <2>1, DeliveryConclude DEF ExitOk, NothingReadings, Verdicts
<1>21. ASSUME NEW j \in Jobs, SaveJob(j) PROVE DeliveryInv'
  <2>1. Quiet(run, run')
    BY <1>21 DEF SaveJob, Goto, TypeOK, Runs, Quiet
  <2> QED BY <1>21, <1>0, <2>1, SameKeeps, DeliveryKept DEF SaveJob, table, world, control
<1>22. ASSUME NEW j \in Jobs, FinalizeFiles(j) PROVE DeliveryInv'
  <2>1. UNCHANGED <<src, dst, missed, log, listing>>
    BY <1>22 DEF FinalizeFiles, world, control
  <2>2. \A i \in Jobs : \/ run'[i] = run[i]
                        \/ run'[i].phase \in {"idle", "finalized"} /\ run'[i].handled \subseteq run[i].handled
                           /\ run'[i].paths \in {{}, run[i].paths}
                           /\ (run'[i].phase = "finalized" => run'[i].paths = run[i].paths /\ Live(i))
    BY <1>22 DEF FinalizeFiles, Goto, End, Idle, TypeOK, Runs, Live
  <2>3. ASSUME NEW p \in Paths
        PROVE  /\ files'[p].ver = files[p].ver
               /\ files'[p].state = "transferring" =>
                     files[p].state = "transferring" /\ files'[p].job = files[p].job
               /\ files'[p].state = "done" => files[p].state = "done" \/ Delivered(p)
    <3>1. CASE files' = files
      BY <3>1
    <3>2. CASE files' = FinalizeJobFiles(files, j, run[j].verdict.done, run[j].verdict.rest)
      <4>1. /\ files'[p].ver = files[p].ver
            /\ files'[p].state = "transferring" => files'[p] = files[p]
            /\ files'[p].state = "done" =>
                  files[p].state = "done" \/ (files[p].job = j /\ p \in run[j].verdict.done)
        BY <3>2, FinalizeRows DEF TypeOK
      <4>2. ASSUME files[p].job = j, p \in run[j].verdict.done PROVE Delivered(p)
        <5>1. Claimed(p, j)
          BY <1>22, <4>2 DEF FinalizeFiles, DeliveryInv, DoneInPaths, ClaimsHeld, Holding, Claimed
        <5> QED BY <1>22, <4>2, <5>1 DEF FinalizeFiles, DeliveryInv, ReportsDelivered
      <4> QED BY <4>1, <4>2
    <3> QED BY <1>22, <3>1, <3>2 DEF FinalizeFiles, Write
  <2>4. VersionsKnown' /\ ReportsDelivered'
    BY <2>1, <2>2, <2>3 DEF DeliveryInv, VersionsKnown, KnownVersion, ReportsDelivered, Claimed, Delivered, Arrived
  <2>5. DoneInPaths'
    BY <2>1, <2>2 DEF DeliveryInv, DoneInPaths, Live
  <2>6. DoneIsDelivered'
    BY <2>1, <2>2, <2>3, DeliveredVersion DEF DeliveryInv, DoneIsDelivered, In
  <2> QED BY <2>4, <2>5, <2>6 DEF DeliveryInv
<1>23. ASSUME NEW j \in Jobs, ClearJob(j) PROVE DeliveryInv'
  <2>1. Quiet(run, run')
    BY <1>23 DEF ClearJob, End, Idle, TypeOK, Runs, Quiet
  <2>2. Keeps(files, files')
    BY <1>23, SameKeeps, ClearKeeps DEF ClearJob, Write, TypeOK
  <2> QED BY <1>23, <1>0, <2>1, <2>2, DeliveryKept DEF ClearJob, world, control
<1>24. ASSUME NEW j \in Jobs, Abandon(j) PROVE DeliveryInv'
  <2>1. Quiet(run, run')
    BY <1>24 DEF Abandon, End, Idle, TypeOK, Runs, Quiet
  <2>2. Keeps(files, files')
    BY <1>24, SameKeeps, ReleaseKeeps DEF Abandon, Write, TypeOK
  <2> QED BY <1>24, <1>0, <2>1, <2>2, DeliveryKept DEF Abandon, world, control
<1>25. ASSUME NEW j \in Jobs, ExitTerminated(j) PROVE DeliveryInv'
  BY <1>25, DeliveryConclude DEF ExitTerminated, LogReadings, Verdicts, TypeOK
<1>26. ASSUME NEW j \in Jobs, ExitFailed(j) PROVE DeliveryInv'
  BY <1>26, DeliveryConclude DEF ExitFailed, LogReadings, Verdicts, TypeOK
<1>27. ASSUME NEW j \in Jobs, ExitUnreadable(j) PROVE DeliveryInv'
  BY <1>27, DeliveryConclude DEF ExitUnreadable, Verdicts
<1>28. ASSUME NEW j \in Jobs, RecoverFiles(j) PROVE DeliveryInv'
  <2>1. UNCHANGED <<src, dst, missed, log, listing>>
    BY <1>28 DEF RecoverFiles, world
  <2>2. run' = run
    BY <1>28 DEF RecoverFiles
  <2>3. ASSUME NEW p \in Paths
        PROVE  /\ files'[p].ver = files[p].ver
               /\ files'[p].state = "transferring" =>
                     files[p].state = "transferring" /\ files'[p].job = files[p].job
               /\ files'[p].state = "done" => files[p].state = "done" \/ Delivered(p)
    <3>1. CASE files' = files
      BY <3>1
    <3>2. ASSUME files' # files
          PROVE  \E done : /\ done \subseteq {q \in log[j] : Claimed(q, j)}
                           /\ files' = FinalizeJobFiles(files, j, done, "queued")
      BY <1>28, <3>2 DEF RecoverFiles, Write, LogReadings, Claimed
    <3>3. CASE files' # files
      <4>1. PICK done : /\ done \subseteq {q \in log[j] : Claimed(q, j)}
                        /\ files' = FinalizeJobFiles(files, j, done, "queued")
        BY <3>2, <3>3
      <4>2. /\ files'[p].ver = files[p].ver
            /\ files'[p].state = "transferring" => files'[p] = files[p]
            /\ files'[p].state = "done" => files[p].state = "done" \/ p \in done
        BY <4>1, FinalizeRows DEF TypeOK
      <4>3. p \in done => Delivered(p)
        BY <4>1 DEF DeliveryInv, ReportsDelivered, Arrived, Delivered
      <4> QED BY <4>2, <4>3
    <3> QED BY <3>1, <3>3
  <2>4. VersionsKnown' /\ ReportsDelivered'
    BY <2>1, <2>2, <2>3 DEF DeliveryInv, VersionsKnown, KnownVersion, ReportsDelivered, Claimed, Delivered, Arrived
  <2>5. DoneInPaths'
    BY <2>1, <2>2 DEF DeliveryInv, DoneInPaths, Live
  <2>6. DoneIsDelivered'
    BY <2>1, <2>2, <2>3, DeliveredVersion DEF DeliveryInv, DoneIsDelivered, In
  <2> QED BY <2>4, <2>5, <2>6 DEF DeliveryInv
<1>29. ASSUME NEW j \in Jobs, OrphanExits(j) PROVE DeliveryInv'
  <2>1. Quiet(run, run')
    BY <1>29 DEF OrphanExits, End, Idle, TypeOK, Runs, Quiet
  <2>2. Keeps(files, files')
    BY <1>29, SameKeeps DEF OrphanExits, table
  <2> QED BY <1>29, <1>0, <2>1, <2>2, DeliveryKept DEF OrphanExits, world, control
<1>30. ASSUME NEW j \in Jobs, NEW p \in Paths, Transfer(j, p) PROVE DeliveryInv'
  <2>1. /\ UNCHANGED <<files, listing>>
        /\ run' = [run EXCEPT ![j].handled = run[j].handled \cup {p}]
        /\ p \in run[j].paths
    BY <1>30 DEF Transfer, table, control
  <2>2. ASSUME NEW i \in Jobs
        PROVE  /\ run'[i].phase = run[i].phase /\ run'[i].verdict = run[i].verdict
               /\ run'[i].paths = run[i].paths
               /\ run'[i].handled \subseteq run[i].handled \cup {p}
    BY <2>1 DEF TypeOK, Runs
  <2>3. /\ src' = src
        /\ \A q \in Paths \ {p} : dst'[q] = dst[q] /\ missed'[q] = missed[q]
        /\ \A i \in Jobs \ {j} : log'[i] = log[i]
        /\ dst'[p] \in {dst[p], src[p]} /\ missed'[p] \in {NoFile, src[p]}
    BY <1>30 DEF Transfer, TypeOK
  <2>4. /\ Delivered(p)' /\ (Arrived(p) => Arrived(p)')
        /\ log'[j] = log[j] \/ (log'[j] = log[j] \cup {p} /\ Arrived(p)')
    <3>1. CASE AtSource(p) \in {NoFile, dst[p]}
      BY <1>30, <3>1, VersionAssumption DEF Transfer, TypeOK, AtSource, Delivered, Arrived, NoFile
    <3>2. CASE AtSource(p) \notin {NoFile, dst[p]}
      BY <1>30, <3>2 DEF Transfer, TypeOK, AtSource, Delivered, Arrived
    <3> QED BY <3>1, <3>2
  <2>5. VersionsKnown'
    <3>1. \A q \in Paths : src[q] \in Nat
      BY VersionAssumption DEF TypeOK
    <3> QED BY <2>1, <2>3, <3>1 DEF DeliveryInv, VersionsKnown, KnownVersion, NoFile
  <2>6. ReportsDelivered'
    <3> SUFFICES ASSUME NEW i \in Jobs, NEW q \in Paths, Claimed(q, i)'
                 PROVE  /\ q \in log'[i] => Arrived(q)'
                        /\ q \in run'[i].handled => Delivered(q)'
                        /\ run'[i].phase \in {"exited", "saved"} /\ q \in run'[i].verdict.done
                              => Delivered(q)'
      BY DEF ReportsDelivered
    <3>1. Claimed(q, i)
      BY <2>1 DEF Claimed
    <3>2. CASE q = p
      BY <2>3, <2>4, <3>1, <3>2 DEF DeliveryInv, ReportsDelivered
    <3>3. CASE q # p
      <4>1. (Arrived(q)' <=> Arrived(q)) /\ (Delivered(q)' <=> Delivered(q))
        BY <2>3, <3>3 DEF Arrived, Delivered
      <4>2. q \in log'[i] => q \in log[i]
        BY <2>3, <2>4, <3>3
      <4> QED BY <2>2, <3>1, <3>3, <4>1, <4>2 DEF DeliveryInv, ReportsDelivered
    <3> QED BY <3>2, <3>3
  <2>7. DoneInPaths'
    <3>1. run[j].phase \in {"running", "orphan"}
      BY <1>30 DEF Transfer, Transient
    <3> QED BY <2>1, <2>2, <2>3, <2>4, <3>1 DEF DeliveryInv, DoneInPaths, Live
  <2>8. DoneIsDelivered'
    <3> SUFFICES ASSUME NEW q \in Paths, files[q].state = "done"
                 PROVE  files[q].ver <= dst'[q] \/ files[q].ver <= missed'[q]
      BY <2>1 DEF DoneIsDelivered, In
    <3>1. CASE q = p
      BY <2>3, <2>4, <3>1 DEF DeliveryInv, VersionsKnown, KnownVersion, Delivered
    <3>2. CASE q # p
      BY <2>3, <3>2 DEF DeliveryInv, DoneIsDelivered, In
    <3> QED BY <3>1, <3>2
  <2> QED BY <2>5, <2>6, <2>7, <2>8 DEF DeliveryInv
<1>31. ASSUME NEW p \in Paths, SourceStep(p) PROVE DeliveryInv'
  <2>1. /\ UNCHANGED <<files, listing, log, dst, missed, run>>
        /\ files[p].state # "transferring" \/ src' = src
        /\ \A q \in Paths \ {p} : src'[q] = src[q]
    BY <1>31 DEF SourceStep, Rewrite, Remove, Restore, table, control, TypeOK
  <2>2. \A q \in Paths, v \in 0..MaxVersion : KnownVersion(q, v) => KnownVersion(q, v)'
    <3>1. src[p] \in Nat /\ src'[p] \in {src[p], src[p] + 1}
      BY <1>31, VersionAssumption DEF SourceStep, Rewrite, Remove, Restore, TypeOK
    <3> QED BY <2>1, <3>1, VersionAssumption DEF KnownVersion
  <2>3. VersionsKnown'
    <3> SUFFICES ASSUME NEW q \in Paths
                 PROVE  \A v \in {files[q].ver, listing[q], dst[q], missed[q]} : KnownVersion(q, v)'
      BY <2>1 DEF VersionsKnown
    <3>1. {files[q].ver, listing[q], dst[q], missed[q]} \subseteq 0..MaxVersion
      BY VersionAssumption DEF TypeOK, Row, Versions, NoFile
    <3> QED BY <2>2, <3>1 DEF DeliveryInv, VersionsKnown
  <2>4. ReportsDelivered'
    BY <2>1 DEF DeliveryInv, ReportsDelivered, Claimed, Delivered, Arrived
  <2>5. DoneInPaths' /\ DoneIsDelivered'
    BY <2>1 DEF DeliveryInv, DoneInPaths, DoneIsDelivered, Live, In
  <2> QED BY <2>3, <2>4, <2>5 DEF DeliveryInv
<1>32. CASE UNCHANGED vars
  BY <1>32 DEF vars, DeliveryInv, VersionsKnown, KnownVersion, ReportsDelivered, DoneInPaths, DoneIsDelivered, Claimed, Delivered, Arrived, In, Live
<1> QED
  BY <1>1, <1>2, <1>3, <1>4, <1>5, <1>6, <1>7, <1>8, <1>9, <1>10, <1>11, <1>12, <1>13, <1>14, <1>15, <1>16, <1>17, <1>18, <1>19, <1>20, <1>21, <1>22, <1>23, <1>24, <1>25, <1>26, <1>27, <1>28, <1>29, <1>30, <1>31, <1>32
  DEF Next, WorkerStep, StarterStep, RecoveryStep, Fault, JobStep, RcloneStep

---------------------------------------------------------------------------
(* The theorems.                                                           *)

THEOREM DeliveryInductive ==
  ASSUME "inflight" \notin Faults
  PROVE  Spec => []DeliveryInv
BY DeliveryInit, DeliveryStep, Inductive, PTL DEF Spec

\* If no file is rewritten while a job holds it, a row marked "done" records no
\* version newer than the destination's, unless that version was gone from the source
\* when rclone came to it: not after failures, terminations, unreadable or incomplete
\* logs, dropped errors of the database, crashes and recoveries.
THEOREM DoneRowsAreDelivered ==
  ASSUME "inflight" \notin Faults
  PROVE  Spec => []DoneIsDelivered
BY DeliveryInductive, PTL DEF DeliveryInv

\* On the same condition, a job reported "done" has delivered all its files, or it
\* transferred none and those it did not find at the destination were gone.
THEOREM DoneJobsAreDelivered ==
  ASSUME "inflight" \notin Faults
  PROVE  Spec => DoneJobDelivered
<1>1. ASSUME IndInv, DeliveryInv, [Next]_vars,
             NEW j \in Jobs, jobs[j] = "running", jobs'[j] = "done", NEW p \in run[j].paths
      PROVE  files[p].ver <= dst[p] \/ (log[j] = {} /\ files[p].ver <= missed[p])
  <2>1. run[j].phase = "exited" /\ run[j].verdict.status = "done"
    BY <1>1 DEF IndInv, TypeOK, Next, WorkerStep, StarterStep, RecoveryStep, Fault, JobStep, RcloneStep,
                SourceStep, StartWorker, ScanRule, UpsertScan, EnqueueScanned, Schedule, ReturnEmpty,
                Claim, CreateJobRow, StopRecorded, DropClaim, StartRclone, ExitOk, SaveJob,
                FinalizeFiles, ClearJob, Transfer, LoadRunning, FailRunning, RecoverClear, SafetyNet,
                RecoverFiles, Crash, StopWorker, ReturnRefused, Retry, Abandon, ExitTerminated,
                ExitFailed, ExitUnreadable, OrphanExits, Rewrite, Remove, Restore, Conclude, Close,
                table, vars
  <2>2. p \in Paths /\ Claimed(p, j)
    BY <1>1, <2>1 DEF IndInv, TypeOK, Runs, ClaimsHeld, Holding, Claimed
  <2>3. Delivered(p) /\ (log[j] = {} \/ Arrived(p))
    BY <1>1, <2>1, <2>2 DEF DeliveryInv, DoneInPaths, ReportsDelivered
  <2> QED BY <1>1, <2>2, <2>3, DeliveredVersion DEF IndInv, DeliveryInv
<1>2. IndInv /\ DeliveryInv /\ [Next]_vars =>
        [\A j \in Jobs : jobs[j] = "running" /\ jobs'[j] = "done" =>
              \A p \in run[j].paths : \/ files[p].ver <= dst[p]
                                      \/ log[j] = {} /\ files[p].ver <= missed[p]]_vars
  BY <1>1
<1> QED BY <1>2, Inductive, DeliveryInductive, PTL DEF Spec, DoneJobDelivered

---------------------------------------------------------------------------
(* What the exception stands for.  A step that handles no path leaves what  *)
(* is at the source, or is one of the source's own.                         *)

SameSource == UNCHANGED <<src, present, dst, missed>>

LEMMA SourceKept ==
  ASSUME [Next]_vars
  PROVE  \/ SameSource
         \/ \E j \in Jobs, p \in Paths : Transfer(j, p)
         \/ \E p \in Paths : SourceStep(p)
BY DEF Next, WorkerStep, StarterStep, RecoveryStep, Fault, JobStep, RcloneStep, SameSource,
       StartWorker, ScanRule, UpsertScan, EnqueueScanned, Schedule, ReturnEmpty, Claim,
       CreateJobRow, StopRecorded, DropClaim, StartRclone, ExitOk, SaveJob, FinalizeFiles,
       ClearJob, LoadRunning, FailRunning, RecoverClear, SafetyNet, RecoverFiles, Crash,
       StopWorker, ReturnRefused, Retry, Abandon, ExitTerminated, ExitFailed, ExitUnreadable,
       OrphanExits, Conclude, world, vars

\* Nothing is missed where nothing is removed: what is not at the source has been moved.
NothingMissed == \A p \in Paths : missed[p] = NoFile /\ (p \in present \/ src[p] = dst[p])

LEMMA NothingMissedStep ==
  ASSUME "remove" \notin Faults, TypeOK, DeliveryInv, NothingMissed, [Next]_vars
  PROVE  NothingMissed'
<1>1. CASE SameSource
  BY <1>1 DEF SameSource, NothingMissed
<1>2. ASSUME NEW j \in Jobs, NEW p \in Paths, Transfer(j, p) PROVE NothingMissed'
  <2>1. missed' = [missed EXCEPT ![p] = NoFile] /\ src' = src
    BY <1>2 DEF Transfer, NothingMissed
  <2>2. dst'[p] = src[p]
    <3>1. CASE AtSource(p) \in {NoFile, dst[p]}
      <4>1. dst' = dst
        BY <1>2, <3>1 DEF Transfer
      <4>2. src[p] = dst[p]
        BY <3>1, VersionAssumption DEF AtSource, NothingMissed, DeliveryInv, VersionsKnown, KnownVersion, TypeOK, NoFile
      <4> QED BY <4>1, <4>2
    <3>2. CASE AtSource(p) \notin {NoFile, dst[p]}
      BY <1>2, <3>2 DEF Transfer, TypeOK
    <3> QED BY <3>1, <3>2
  <2>3. \A q \in Paths \ {p} : dst'[q] = dst[q]
    BY <1>2 DEF Transfer, TypeOK
  <2>4. \A q \in Paths \ {p} : q \in present' <=> q \in present
    BY <1>2 DEF Transfer
  <2> QED BY <2>1, <2>2, <2>3, <2>4 DEF NothingMissed, TypeOK
<1>3. ASSUME NEW p \in Paths, SourceStep(p) PROVE NothingMissed'
  BY <1>3 DEF SourceStep, Rewrite, Remove, Restore, NothingMissed, TypeOK
<1> QED BY <1>1, <1>2, <1>3, SourceKept

\* If no file is removed from the source, nor rewritten while a job holds it, what
\* the table calls done has been delivered, without exception.
THEOREM DoneRowsAreDeliveredUnlessRemoved ==
  ASSUME "inflight" \notin Faults, "remove" \notin Faults
  PROVE  Spec => [](\A p \in In(files, "done") : files[p].ver <= dst[p])
<1>1. Init => NothingMissed
  BY DEF Init, NothingMissed, Nothing, NoFile
<1>2. IndInv /\ DeliveryInv /\ NothingMissed /\ [Next]_vars => NothingMissed'
  BY NothingMissedStep DEF IndInv
<1>3. IndInv /\ NothingMissed /\ DoneIsDelivered =>
         \A p \in In(files, "done") : files[p].ver <= dst[p]
  <2> SUFFICES ASSUME IndInv, NothingMissed, DoneIsDelivered, NEW p \in In(files, "done")
               PROVE  files[p].ver <= dst[p]
    OBVIOUS
  <2>1. p \in Paths /\ missed[p] = 0 /\ files[p].ver \in Nat /\ dst[p] \in Nat
    BY VersionAssumption DEF NothingMissed, In, IndInv, TypeOK, Row, Versions, NoFile
  <2> QED BY <2>1 DEF DoneIsDelivered
<1> QED BY <1>1, <1>2, <1>3, DoneRowsAreDelivered, DeliveryInductive, Inductive, PTL DEF Spec

---------------------------------------------------------------------------
(* Nothing is stuck.  That files move on needs fairness (EventuallySynced); *)
(* that each is where the program moves it on does not.                     *)

\* A row that is not claimed names no job, so that it can be claimed once it is
\* queued; no file has failed, and every row records a version.
FreeRow(row) == /\ row.state # "failed"
                /\ row.state \in {"absent", "new", "stable", "queued"} => row.job = NoJob
                /\ row.state # "absent" => row.ver # NoFile

FreeRows == \A p \in Paths : FreeRow(files[p])

\* No job sends its files to the failed ones.
NoneFails == \A j \in Jobs : run[j].verdict.rest = "queued"

\* What the next scan, enqueue, claim or goroutine brings further.
OnItsWay(p) == \/ files[p].state \in {"absent", "new"}
               \/ p \in Stable(files) \cup Claimable(files)
               \/ \E j \in Jobs : Claimed(p, j) /\ run[j].phase \in Holding /\ p \in run[j].paths

\* While the daemon is up, a file that the rule wants and that is not at the
\* destination is on its way.
NothingIsStuck == Up => \A p \in Paths : Wanted(p) /\ dst[p] # src[p] => OnItsWay(p)

LEMMA NoneFailsConclude ==
  ASSUME TypeOK, NoneFails, NEW j \in Jobs, NEW v, v.rest = "queued", Conclude(j, v)
  PROVE  NoneFails'
<1> DEFINE rec == [[run[j] EXCEPT !.phase = "exited"] EXCEPT !.verdict = v]
<1>1. run[j] \in Runs
  BY DEF TypeOK
<1>2. rec.verdict = v
  BY <1>1 DEF Runs
<1>3. run' = [run EXCEPT ![j] = rec]
  BY DEF Conclude
<1> HIDE DEF rec
<1> QED BY <1>2, <1>3 DEF NoneFails, TypeOK

\* The other steps leave a goroutine's verdict, or begin a claim, or end it.
LEMMA NoneFailsKept ==
  ASSUME NoneFails, \A j \in Jobs : run'[j].verdict \in {run[j].verdict, Pending}
  PROVE  NoneFails'
BY DEF NoneFails, Pending

LEMMA NoneFailsStep ==
  ASSUME "fail" \notin Faults, TypeOK, NoneFails, [Next]_vars
  PROVE  NoneFails'
<1>0. \A j \in Jobs : run[j] \in Runs
  BY DEF TypeOK
<1>1. CASE StartWorker
  BY <1>1 DEF StartWorker, NoneFails
<1>2. CASE ScanRule
  BY <1>2 DEF ScanRule, NoneFails
<1>3. CASE UpsertScan
  BY <1>3 DEF UpsertScan, NoneFails
<1>4. CASE EnqueueScanned
  BY <1>4 DEF EnqueueScanned, NoneFails
<1>5. CASE Schedule
  BY <1>5 DEF Schedule, NoneFails
<1>6. CASE ReturnEmpty
  BY <1>6 DEF ReturnEmpty, NoneFails
<1>7. CASE ReturnRefused
  BY <1>7 DEF ReturnRefused, NoneFails
<1>8. CASE Retry
  BY <1>8 DEF Retry, NoneFails
<1>9. CASE LoadRunning
  BY <1>9 DEF LoadRunning, NoneFails
<1>10. CASE FailRunning
  BY <1>10 DEF FailRunning, NoneFails
<1>11. CASE RecoverClear
  BY <1>11 DEF RecoverClear, NoneFails
<1>12. CASE SafetyNet
  BY <1>12 DEF SafetyNet, NoneFails
<1>13. CASE StopWorker
  BY <1>0, <1>13, NoneFailsKept DEF StopWorker, Runs, TypeOK
<1>14. CASE Crash
  BY <1>0, <1>14, NoneFailsKept DEF Crash, Idle, Runs, TypeOK
<1>15. ASSUME NEW j \in Jobs, Claim(j) PROVE NoneFails'
  <2>1. PICK B \in SUBSET Paths : run' = [run EXCEPT ![j] = [Idle EXCEPT !.phase = "claimed", !.paths = B]]
    BY <1>15 DEF Claim, Batch, Claimable, In
  <2> DEFINE rec == [Idle EXCEPT !.phase = "claimed", !.paths = B]
  <2>2. rec.verdict = Pending
    BY DEF Idle
  <2>3. run' = [run EXCEPT ![j] = rec]
    BY <2>1
  <2> HIDE DEF rec
  <2> QED BY <2>2, <2>3, NoneFailsKept DEF TypeOK
<1>16. ASSUME NEW j \in Jobs, CreateJobRow(j) PROVE NoneFails'
  BY <1>0, <1>16, NoneFailsKept DEF CreateJobRow, Goto, Runs, TypeOK
<1>17. ASSUME NEW j \in Jobs, StopRecorded(j) PROVE NoneFails'
  BY <1>0, <1>17, NoneFailsKept DEF StopRecorded, Goto, Runs, TypeOK
<1>18. ASSUME NEW j \in Jobs, StartRclone(j) PROVE NoneFails'
  BY <1>0, <1>18, NoneFailsKept DEF StartRclone, Goto, Runs, TypeOK
<1>19. ASSUME NEW j \in Jobs, SaveJob(j) PROVE NoneFails'
  BY <1>0, <1>19, NoneFailsKept DEF SaveJob, Goto, Runs, TypeOK
<1>20. ASSUME NEW j \in Jobs, DropClaim(j) PROVE NoneFails'
  BY <1>20, NoneFailsKept DEF DropClaim, End, Idle, TypeOK
<1>21. ASSUME NEW j \in Jobs, ClearJob(j) PROVE NoneFails'
  BY <1>21, NoneFailsKept DEF ClearJob, End, Idle, TypeOK
<1>22. ASSUME NEW j \in Jobs, Abandon(j) PROVE NoneFails'
  BY <1>22, NoneFailsKept DEF Abandon, End, Idle, TypeOK
<1>23. ASSUME NEW j \in Jobs, OrphanExits(j) PROVE NoneFails'
  BY <1>23, NoneFailsKept DEF OrphanExits, End, Idle, TypeOK
<1>24. ASSUME NEW j \in Jobs, FinalizeFiles(j) PROVE NoneFails'
  BY <1>0, <1>24, NoneFailsKept DEF FinalizeFiles, Goto, End, Idle, Runs, TypeOK
<1>25. ASSUME NEW j \in Jobs, ExitOk(j) PROVE NoneFails'
  BY <1>25, NoneFailsConclude DEF ExitOk
<1>26. ASSUME NEW j \in Jobs, ExitTerminated(j) PROVE NoneFails'
  BY <1>26, NoneFailsConclude DEF ExitTerminated
<1>27. ASSUME NEW j \in Jobs, ExitUnreadable(j) PROVE NoneFails'
  BY <1>27, NoneFailsConclude DEF ExitUnreadable
<1>28. ASSUME NEW j \in Jobs, ExitFailed(j) PROVE NoneFails'
  BY <1>28 DEF ExitFailed
<1>29. ASSUME NEW j \in Jobs, RecoverFiles(j) PROVE NoneFails'
  BY <1>29 DEF RecoverFiles, NoneFails
<1>30. ASSUME NEW j \in Jobs, NEW p \in Paths, Transfer(j, p) PROVE NoneFails'
  BY <1>0, <1>30, NoneFailsKept DEF Transfer, Runs, TypeOK
<1>31. ASSUME NEW p \in Paths, SourceStep(p) PROVE NoneFails'
  BY <1>31 DEF SourceStep, Rewrite, Remove, Restore, NoneFails
<1>32. CASE UNCHANGED vars
  BY <1>32 DEF vars, NoneFails
<1> QED
  BY <1>1, <1>2, <1>3, <1>4, <1>5, <1>6, <1>7, <1>8, <1>9, <1>10, <1>11, <1>12, <1>13, <1>14, <1>15, <1>16, <1>17, <1>18, <1>19, <1>20, <1>21, <1>22, <1>23, <1>24, <1>25, <1>26, <1>27, <1>28, <1>29, <1>30, <1>31, <1>32
  DEF Next, WorkerStep, StarterStep, RecoveryStep, Fault, JobStep, RcloneStep

\* The statements on the table leave free rows free.
LEMMA FreeScan ==
  ASSUME MaxVersion = 1, NEW f \in [Paths -> Row], NEW l \in [Paths -> 0..MaxVersion],
         NEW aged, NEW gone, \A p \in Paths : FreeRow(f[p])
  PROVE  \A p \in Paths : FreeRow(UpsertScanEntries(f, l, aged, gone)[p])
<1> SUFFICES ASSUME NEW p \in Paths
             PROVE  FreeRow(Purged(Seen(f[p], l[p], p \in aged), p \in gone))
  BY DEF UpsertScanEntries
<1>1. /\ f[p] \in Row /\ FreeRow(f[p]) /\ l[p] \in {0, 1}
      /\ f[p].ver \in {0, 1}
  BY DEF Row, Versions, NoFile
<1>2. FreeRow(Seen(f[p], l[p], p \in aged))
  <2>1. CASE l[p] = NoFile
    BY <1>1, <2>1 DEF Seen
  <2>2. CASE l[p] # NoFile
    <3> DEFINE s == SeenState(f[p], l[p], p \in aged)
    <3>1. Seen(f[p], l[p], p \in aged) = [state |-> s, job |-> f[p].job, ver |-> l[p]]
      BY <2>2 DEF Seen
    <3>2. s # "failed" /\ (s \in {"absent", "new", "stable", "queued"} => f[p].job = NoJob)
      BY <1>1, <2>2 DEF SeenState, FreeRow, NoFile, Row, RowStates
    <3> HIDE DEF s
    <3> QED BY <2>2, <3>1, <3>2 DEF FreeRow
  <2> QED BY <2>1, <2>2
<1> QED BY <1>2 DEF Purged, FreeRow, Absent

LEMMA FreeEnqueue ==
  ASSUME NEW f \in [Paths -> Row], NEW B, B \subseteq In(f, "stable"), \A p \in Paths : FreeRow(f[p])
  PROVE  \A p \in Paths : FreeRow(EnqueueStable(f, B)[p])
BY DEF EnqueueStable, In, FreeRow, Row

LEMMA FreeClaim ==
  ASSUME NEW f \in [Paths -> Row], NEW B, B \subseteq In(f, "queued"), NEW j,
         \A p \in Paths : FreeRow(f[p])
  PROVE  \A p \in Paths : FreeRow(ClaimQueuedForJob(f, B, j)[p])
BY DEF ClaimQueuedForJob, In, FreeRow, Row

LEMMA FreeRequeued ==
  ASSUME NEW r \in Row, FreeRow(r), r.state # "absent"
  PROVE  FreeRow(Requeued(r))
BY DEF Requeued, FreeRow, Row

LEMMA FreeRelease ==
  ASSUME NEW f \in [Paths -> Row], NEW j, \A p \in Paths : FreeRow(f[p])
  PROVE  \A p \in Paths : FreeRow(ReleaseTransferringBackToQueued(f, j)[p])
BY FreeRequeued DEF ReleaseTransferringBackToQueued

LEMMA FreeFinalize ==
  ASSUME NEW f \in [Paths -> Row], NEW j \in Jobs, NEW done, \A p \in Paths : FreeRow(f[p])
  PROVE  \A p \in Paths : FreeRow(FinalizeJobFiles(f, j, done, "queued")[p])
<1> SUFFICES ASSUME NEW p \in Paths PROVE FreeRow(FinalizeJobFiles(f, j, done, "queued")[p])
  OBVIOUS
<1> DEFINE row == [f[p] EXCEPT !.state = "done"]
<1>1. f[p] \in Row /\ FreeRow(f[p])
  OBVIOUS
<1>2. FinalizeJobFiles(f, j, done, "queued")[p] \in {f[p]}
      \/ (f[p].job = j /\ FinalizeJobFiles(f, j, done, "queued")[p] = row)
      \/ (f[p].state = "transferring" /\ FinalizeJobFiles(f, j, done, "queued")[p] = Requeued(f[p]))
  BY <1>1 DEF FinalizeJobFiles, Row
<1>3. ASSUME f[p].job = j PROVE FreeRow(row)
  <2>1. f[p].state # "absent"
    BY <1>1, <1>3, NoJobAssumption DEF FreeRow
  <2> QED BY <1>1, <2>1 DEF FreeRow, Row
<1> HIDE DEF row
<1> QED BY <1>1, <1>2, <1>3, FreeRequeued

LEMMA FreeClear ==
  ASSUME NEW f \in [Paths -> Row], NEW j, \A p \in Paths : FreeRow(f[p])
  PROVE  \A p \in Paths : FreeRow(ClearJobOnDone(f, j)[p])
BY DEF ClearJobOnDone, FreeRow, Row

LEMMA FreeRequeue ==
  ASSUME NEW f \in [Paths -> Row], \A p \in Paths : FreeRow(f[p])
  PROVE  \A p \in Paths : FreeRow(RequeueTransferring(f)[p])
BY FreeRequeued DEF RequeueTransferring

LEMMA FreeStep ==
  ASSUME MaxVersion = 1, "fail" \notin Faults, TypeOK, NoneFails, FreeRows, [Next]_vars
  PROVE  FreeRows'
<1>0. files \in [Paths -> Row] /\ \A p \in Paths : FreeRow(files[p])
  BY DEF TypeOK, FreeRows
<1>1. CASE StartWorker
  BY <1>1 DEF StartWorker, table, FreeRows
<1>2. CASE ScanRule
  BY <1>2 DEF ScanRule, table, FreeRows
<1>3. CASE ReturnEmpty
  BY <1>3 DEF ReturnEmpty, table, FreeRows
<1>4. CASE ReturnRefused
  BY <1>4 DEF ReturnRefused, table, FreeRows
<1>5. CASE StopWorker
  BY <1>5 DEF StopWorker, table, FreeRows
<1>6. CASE Crash
  BY <1>6 DEF Crash, table, FreeRows
<1>7. CASE LoadRunning
  BY <1>7 DEF LoadRunning, table, FreeRows
<1>8. CASE FailRunning
  BY <1>8 DEF FailRunning, table, FreeRows
<1>9. ASSUME NEW j \in Jobs, CreateJobRow(j) PROVE FreeRows'
  BY <1>9 DEF CreateJobRow, Conclude, table, FreeRows
<1>10. ASSUME NEW j \in Jobs, StopRecorded(j) PROVE FreeRows'
  BY <1>10 DEF StopRecorded, Conclude, table, FreeRows
<1>11. ASSUME NEW j \in Jobs, StartRclone(j) PROVE FreeRows'
  BY <1>11 DEF StartRclone, Conclude, table, FreeRows
<1>12. ASSUME NEW j \in Jobs, SaveJob(j) PROVE FreeRows'
  BY <1>12 DEF SaveJob, Conclude, table, FreeRows
<1>13. ASSUME NEW j \in Jobs, OrphanExits(j) PROVE FreeRows'
  BY <1>13 DEF OrphanExits, Conclude, table, FreeRows
<1>14. ASSUME NEW j \in Jobs, ExitOk(j) PROVE FreeRows'
  BY <1>14 DEF ExitOk, Conclude, table, FreeRows
<1>15. ASSUME NEW j \in Jobs, ExitTerminated(j) PROVE FreeRows'
  BY <1>15 DEF ExitTerminated, Conclude, table, FreeRows
<1>16. ASSUME NEW j \in Jobs, ExitFailed(j) PROVE FreeRows'
  BY <1>16 DEF ExitFailed, Conclude, table, FreeRows
<1>17. ASSUME NEW j \in Jobs, ExitUnreadable(j) PROVE FreeRows'
  BY <1>17 DEF ExitUnreadable, Conclude, table, FreeRows
<1>18. CASE UpsertScan
  <2>1. PICK old : files' = UpsertScanEntries(files, listing, old, ignored)
    BY <1>18 DEF UpsertScan
  <2> QED BY <1>0, <2>1, FreeScan DEF TypeOK, FreeRows
<1>19. CASE EnqueueScanned
  <2>1. PICK B \in Batch(Stable(files), BatchSize) : files' = EnqueueStable(files, B)
    BY <1>19 DEF EnqueueScanned
  <2>2. B \subseteq In(files, "stable")
    BY DEF Batch, Stable
  <2> QED BY <1>0, <2>1, <2>2, FreeEnqueue DEF FreeRows
<1>20. CASE Schedule
  <2>1. PICK B \in Batch(Stable(files), BatchSize) : files' = EnqueueStable(files, B)
    BY <1>20 DEF Schedule
  <2>2. B \subseteq In(files, "stable")
    BY DEF Batch, Stable
  <2> QED BY <1>0, <2>1, <2>2, FreeEnqueue DEF FreeRows
<1>21. CASE Retry
  <2>1. In(files, "failed") = {}
    BY <1>0 DEF In, FreeRow
  <2> QED BY <1>21, <2>1 DEF Retry
<1>22. CASE RecoverClear
  BY <1>0, <1>22, FreeClear DEF RecoverClear, Write, FreeRows
<1>23. CASE SafetyNet
  BY <1>0, <1>23, FreeRequeue DEF SafetyNet, FreeRows
<1>24. ASSUME NEW j \in Jobs, Claim(j) PROVE FreeRows'
  <2>1. PICK B \in Batch(Claimable(files), BatchSize) : files' = ClaimQueuedForJob(files, B, j)
    BY <1>24 DEF Claim
  <2>2. B \subseteq In(files, "queued")
    BY DEF Batch, Claimable
  <2> QED BY <1>0, <2>1, <2>2, FreeClaim DEF FreeRows
<1>25. ASSUME NEW j \in Jobs, DropClaim(j) PROVE FreeRows'
  BY <1>0, <1>25, FreeRelease DEF DropClaim, Write, FreeRows
<1>26. ASSUME NEW j \in Jobs, Abandon(j) PROVE FreeRows'
  BY <1>0, <1>26, FreeRelease DEF Abandon, Write, FreeRows
<1>27. ASSUME NEW j \in Jobs, FinalizeFiles(j) PROVE FreeRows'
  <2>1. run[j].verdict.rest = "queued"
    BY DEF NoneFails
  <2> QED BY <1>0, <1>27, <2>1, FreeFinalize DEF FinalizeFiles, Write, FreeRows
<1>28. ASSUME NEW j \in Jobs, ClearJob(j) PROVE FreeRows'
  BY <1>0, <1>28, FreeClear DEF ClearJob, Write, FreeRows
<1>29. ASSUME NEW j \in Jobs, RecoverFiles(j) PROVE FreeRows'
  BY <1>0, <1>29, FreeFinalize DEF RecoverFiles, Write, FreeRows
<1>30. ASSUME NEW j \in Jobs, NEW p \in Paths, Transfer(j, p) PROVE FreeRows'
  BY <1>30 DEF Transfer, table, FreeRows
<1>31. ASSUME NEW p \in Paths, SourceStep(p) PROVE FreeRows'
  BY <1>31 DEF SourceStep, Rewrite, Remove, Restore, table, FreeRows
<1>32. CASE UNCHANGED vars
  BY <1>32 DEF vars, FreeRows
<1> QED
  BY <1>1, <1>2, <1>3, <1>4, <1>5, <1>6, <1>7, <1>8, <1>9, <1>10, <1>11, <1>12, <1>13, <1>14, <1>15, <1>16, <1>17, <1>18, <1>19, <1>20, <1>21, <1>22, <1>23, <1>24, <1>25, <1>26, <1>27, <1>28, <1>29, <1>30, <1>31, <1>32
  DEF Next, WorkerStep, StarterStep, RecoveryStep, Fault, JobStep, RcloneStep

\* A version that was gone when rclone came to it does not return.
MissedIsGone == \A p \in present : missed[p] = NoFile

LEMMA MissedIsGoneStep ==
  ASSUME MaxVersion = 1, "restore" \notin Faults, TypeOK, VersionsKnown, MissedIsGone, [Next]_vars
  PROVE  MissedIsGone'
<1>1. CASE SameSource
  BY <1>1 DEF SameSource, MissedIsGone
<1>2. ASSUME NEW j \in Jobs, NEW p \in Paths, Transfer(j, p) PROVE MissedIsGone'
  BY <1>2 DEF Transfer, MissedIsGone, TypeOK
<1>3. ASSUME NEW p \in Paths, SourceStep(p) PROVE MissedIsGone'
  <2>1. CASE Rewrite(p)
    <3>1. src[p] = 0 /\ missed[p] \in {0, 1}
      BY <2>1 DEF Rewrite, TypeOK
    <3>2. missed[p] = NoFile
      BY <3>1 DEF VersionsKnown, KnownVersion, NoFile
    <3> QED BY <2>1, <3>2 DEF Rewrite, MissedIsGone
  <2>2. CASE Remove(p)
    BY <2>2 DEF Remove, MissedIsGone
  <2> QED BY <1>3, <2>1, <2>2 DEF SourceStep, Restore
<1> QED BY <1>1, <1>2, <1>3, SourceKept

\* If every file is written once and none that was removed returns, no rclone fails
\* and the statements that close a job succeed: while the daemon is up, each file that
\* the rule wants and that is not at the destination is to be scanned, enqueued or
\* claimed, or is held by a goroutine at work.  However workers are replaced, jobs
\* terminated or refused, files removed, logs unreadable or incomplete and daemons
\* killed, none is left in a state that nothing ends.
THEOREM NothingGetsStuck ==
  ASSUME MaxVersion = 1, Faults \cap {"fail", "db", "inflight", "restore"} = {}
  PROVE  Spec => []NothingIsStuck
<1>0. "fail" \notin Faults /\ "db" \notin Faults /\ "inflight" \notin Faults /\ "restore" \notin Faults
  OBVIOUS
<1>1. Init => NoneFails /\ FreeRows
  BY DEF Init, NoneFails, FreeRows, FreeRow, Idle, Pending, Absent
<1>2. IndInv /\ NoneFails /\ FreeRows /\ [Next]_vars => NoneFails' /\ FreeRows'
  BY <1>0, NoneFailsStep, FreeStep DEF IndInv
<1>3. Spec => [](NoneFails /\ FreeRows)
  BY <1>1, <1>2, Inductive, PTL DEF Spec
<1>4. Spec => []MissedIsGone
  <2>1. Init => MissedIsGone
    BY DEF Init, MissedIsGone, Nothing
  <2>2. IndInv /\ DeliveryInv /\ MissedIsGone /\ [Next]_vars => MissedIsGone'
    BY <1>0, MissedIsGoneStep DEF IndInv, DeliveryInv
  <2>3. Spec => []DeliveryInv
    BY <1>0, DeliveryInductive
  <2> QED BY <2>1, <2>2, <2>3, Inductive, PTL DEF Spec
<1>5. ASSUME IndInv, FreeRows, NoOrphanRow, DoneIsDelivered, MissedIsGone, Up,
             NEW p \in Paths, Wanted(p), dst[p] # src[p]
      PROVE  OnItsWay(p)
  <2>1. /\ files[p] \in Row /\ FreeRow(files[p]) /\ src[p] \in {0, 1} /\ dst[p] \in {0, 1}
        /\ files[p].ver \in {0, 1} /\ files[p].state \in RowStates
    BY <1>5 DEF IndInv, TypeOK, FreeRows, Row, Versions, NoFile
  <2>2. src[p] = 1 /\ dst[p] = 0 /\ missed[p] = 0 /\ 1 \notin Small
    BY <1>5, <2>1 DEF Wanted, AtSource, MissedIsGone, NoFile
  <2>3. CASE files[p].state \in {"absent", "new"}
    BY <2>3 DEF OnItsWay
  <2>4. CASE files[p].state \in {"stable", "queued"}
    <3>1. files[p].ver = 1 /\ files[p].job = NoJob
      BY <2>1, <2>4 DEF FreeRow, NoFile
    <3> QED BY <2>2, <2>4, <3>1 DEF OnItsWay, Stable, Claimable, In
  <2>5. CASE files[p].state = "transferring"
    <3>1. PICK j \in Jobs : files[p].job = j /\ run[j].phase \in Holding /\ p \in run[j].paths
      BY <1>5, <2>5 DEF NoOrphanRow, In
    <3> QED BY <2>5, <3>1 DEF OnItsWay, Claimed
  <2>6. files[p].state # "done"
    <3> SUFFICES ASSUME files[p].state = "done" PROVE FALSE
      OBVIOUS
    <3>1. files[p].ver <= dst[p] \/ files[p].ver <= missed[p]
      BY <1>5 DEF DoneIsDelivered, In
    <3> QED BY <2>1, <2>2, <3>1 DEF FreeRow, NoFile
  <2> QED BY <2>1, <2>3, <2>4, <2>5, <2>6 DEF RowStates, FreeRow
<1>6. IndInv /\ FreeRows /\ NoOrphanRow /\ DoneIsDelivered /\ MissedIsGone => NothingIsStuck
  BY <1>5 DEF NothingIsStuck
<1>7. Spec => []NoOrphanRow
  BY <1>0, NoRowIsOrphaned
<1>8. Spec => []DoneIsDelivered
  BY <1>0, DoneRowsAreDelivered
<1> QED BY <1>3, <1>4, <1>6, <1>7, <1>8, Inductive, PTL
===========================================================================
