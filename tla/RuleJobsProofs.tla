-------------------------- MODULE RuleJobsProofs --------------------------
(***************************************************************************)
(* Proofs about RuleJobs, for any number of paths and jobs, any bounds and  *)
(* any faults unless a theorem names one.                                  *)
(***************************************************************************)
EXTENDS RuleJobs, FiniteSetTheorems, TLAPS

USE NoJobAssumption

---------------------------------------------------------------------------
(* The statements on the table keep its type.                              *)

LEMMA ScanType ==
  ASSUME NEW f \in [Paths -> Row], NEW l \in [Paths -> 0..MaxVersion],
         NEW old \in SUBSET Paths, NEW ig \in SUBSET Paths
  PROVE  UpsertScanEntries(f, l, old, ig) \in [Paths -> Row]
<1> SUFFICES ASSUME NEW p \in Paths
             PROVE  Purged(Seen(f[p], l[p], p \in old), p \in ig) \in Row
    BY DEF UpsertScanEntries
<1>1. Seen(f[p], l[p], p \in old) \in Row
  <2>1. CASE l[p] = NoFile
    BY <2>1 DEF Seen
  <2>2. CASE l[p] # NoFile
    <3>1. l[p] \in Versions \cup {NoFile}
      BY VersionAssumption DEF Versions, NoFile
    <3>2. SeenState(f[p], l[p], p \in old) \in RowStates
      BY DEF SeenState, Row, RowStates
    <3> QED BY <2>2, <3>1, <3>2 DEF Seen, Row
  <2> QED BY <2>1, <2>2
<1>2. Absent \in Row
  BY DEF Absent, Row, RowStates
<1> QED BY <1>1, <1>2 DEF Purged

LEMMA RequeuedFields ==
  ASSUME NEW r \in Row
  PROVE  Requeued(r) \in Row /\ Requeued(r).state = "queued" /\ Requeued(r).job = NoJob
BY DEF Requeued, Row, RowStates

LEMMA ClaimedFields ==
  ASSUME NEW r \in Row, NEW j \in Jobs
  PROVE  LET c == [r EXCEPT !.state = "transferring", !.job = j]
         IN  c \in Row /\ c.state = "transferring" /\ c.job = j
BY DEF Row, RowStates

LEMMA EnqueueType ==
  ASSUME NEW f \in [Paths -> Row], NEW B
  PROVE  EnqueueStable(f, B) \in [Paths -> Row]
BY DEF EnqueueStable, Row, RowStates

LEMMA ClaimType ==
  ASSUME NEW f \in [Paths -> Row], NEW B, NEW j \in Jobs
  PROVE  ClaimQueuedForJob(f, B, j) \in [Paths -> Row]
BY ClaimedFields DEF ClaimQueuedForJob

LEMMA RetryType ==
  ASSUME NEW f \in [Paths -> Row], NEW B
  PROVE  RetryFailed(f, B) \in [Paths -> Row]
BY RequeuedFields DEF RetryFailed

LEMMA ReleaseType ==
  ASSUME NEW f \in [Paths -> Row], NEW j
  PROVE  ReleaseTransferringBackToQueued(f, j) \in [Paths -> Row]
BY RequeuedFields DEF ReleaseTransferringBackToQueued

LEMMA FinalizeType ==
  ASSUME NEW f \in [Paths -> Row], NEW j, NEW done, NEW rest
  PROVE  FinalizeJobFiles(f, j, done, rest) \in [Paths -> Row]
BY RequeuedFields DEF FinalizeJobFiles, Row, RowStates

LEMMA ClearType ==
  ASSUME NEW f \in [Paths -> Row], NEW j
  PROVE  ClearJobOnDone(f, j) \in [Paths -> Row]
BY DEF ClearJobOnDone, Row, RowStates

LEMMA RequeueType ==
  ASSUME NEW f \in [Paths -> Row]
  PROVE  RequeueTransferring(f) \in [Paths -> Row]
BY RequeuedFields DEF RequeueTransferring

---------------------------------------------------------------------------
(* The semaphore.                                                          *)

LEMMA HoldersFinite == IsFiniteSet(SemHolders)
BY FiniteAssumption, FS_Subset DEF SemHolders

LEMMA SemAntitone ==
  ASSUME TypeOK, SemBound, SemHolders' \subseteq SemHolders,
         starters' \in Nat, starters' <= starters
  PROVE  SemBound'
<1>1. Cardinality(SemHolders') \in Nat /\ Cardinality(SemHolders) \in Nat
      /\ Cardinality(SemHolders') <= Cardinality(SemHolders)
  BY HoldersFinite, FS_Subset, FS_CardinalityType
<1> QED BY <1>1, ParallelAssumption DEF SemBound, InSem, TypeOK

---------------------------------------------------------------------------
(* Type correctness: one step per action.                                  *)

LEMMA IdleType == Idle \in Runs
BY DEF Idle, Runs, Phases, Pending, Verdicts

LEMMA NothingType == Nothing \in [Paths -> 0..MaxVersion]
BY VersionAssumption DEF Nothing, NoFile

LEMMA GotoType ==
  ASSUME TypeOK, NEW j \in Jobs, NEW phase \in Phases, Goto(j, phase)
  PROVE  run' \in [Jobs -> Runs]
<1>1. [run[j] EXCEPT !.phase = phase] \in Runs
  BY DEF TypeOK, Runs
<1> QED BY <1>1 DEF TypeOK, Goto

LEMMA EndType ==
  ASSUME TypeOK, NEW j \in Jobs, End(j)
  PROVE  run' \in [Jobs -> Runs]
BY IdleType DEF TypeOK, End

LEMMA ConcludeType ==
  ASSUME TypeOK, NEW j \in Jobs, NEW v \in Verdicts, Conclude(j, v)
  PROVE  TypeOK'
<1>1. run' \in [Jobs -> Runs]
  <2>1. [[run[j] EXCEPT !.phase = "exited"] EXCEPT !.verdict = v] \in Runs
    BY DEF TypeOK, Runs, Phases, Holding
  <2>2. run' = [run EXCEPT ![j] = [[run[j] EXCEPT !.phase = "exited"] EXCEPT !.verdict = v]]
    BY DEF Conclude, TypeOK
  <2> QED BY <2>1, <2>2 DEF TypeOK
<1> QED BY <1>1 DEF Conclude, TypeOK, table, world, control

LEMMA TypeInit == Init => TypeOK
<1> SUFFICES ASSUME Init PROVE TypeOK
  OBVIOUS
<1>1. files \in [Paths -> Row]
  BY DEF Init, Absent, Row, RowStates
<1>2. src \in [Paths -> 0..MaxVersion]
  BY VersionAssumption DEF Init, NoFile
<1> QED BY <1>1, <1>2, NothingType, IdleType, ParallelAssumption
        DEF Init, TypeOK, Stations, Recovering, Statuses

LEMMA TypeStep == TypeOK /\ SemBound /\ [Next]_vars => TypeOK'
<1> SUFFICES ASSUME TypeOK, SemBound, [Next]_vars PROVE TypeOK'
  OBVIOUS
<1>1. CASE StartWorker
  BY <1>1, FilterAssumption DEF StartWorker, TypeOK, table, world, control, Stations, Recovering, Looping
<1>2. CASE ScanRule
  BY <1>2, VersionAssumption DEF ScanRule, TypeOK, table, world, control, Stations, Looping, NoFile, AtSource
<1>3. CASE UpsertScan
  <2>1. listing' \in [Paths -> 0..MaxVersion]
    BY <1>3, NothingType DEF UpsertScan
  <2>2. files' \in [Paths -> Row]
    <3>1. PICK old \in SUBSET Paths : files' = UpsertScanEntries(files, listing, old, ignored)
      BY <1>3 DEF UpsertScan
    <3> QED BY <3>1, ScanType DEF TypeOK
  <2> QED BY <1>3, <2>1, <2>2 DEF UpsertScan, TypeOK, world, Stations, Looping
<1>4. CASE EnqueueScanned
  BY <1>4, EnqueueType DEF EnqueueScanned, TypeOK, table, world, control, Stations, Looping
<1>5. CASE Schedule
  <2>1. files' \in [Paths -> Row]
    BY <1>5, EnqueueType DEF Schedule, TypeOK
  <2>2. Cardinality(SemHolders) \in Nat
    BY HoldersFinite, FS_CardinalityType
  <2>3. starters' \in 0..MaxParallelJobs
    BY <1>5, <2>2, ParallelAssumption DEF Schedule, TypeOK, SemBound, InSem
  <2> QED BY <1>5, <2>1, <2>3 DEF Schedule, TypeOK, world
<1>6. CASE ReturnEmpty
  BY <1>6, ParallelAssumption DEF ReturnEmpty, TypeOK, table, world, control
<1>7. CASE StopWorker
  <2>1. run' \in [Jobs -> Runs]
    <3> SUFFICES ASSUME NEW j \in Jobs
                 PROVE  [run[j] EXCEPT !.stopped = TRUE] \in Runs
      BY <1>7 DEF StopWorker, TypeOK
    <3> QED BY DEF TypeOK, Runs
  <2> QED BY <1>7, <2>1, NothingType, ParallelAssumption
          DEF StopWorker, TypeOK, table, world, Stations
<1>8. CASE ReturnRefused
  BY <1>8, ParallelAssumption DEF ReturnRefused, TypeOK, table, world, control
<1>9. CASE Retry
  BY <1>9, RetryType DEF Retry, TypeOK, table, world, control
<1>10. CASE Crash
  <2>1. run' \in [Jobs -> Runs]
    <3> SUFFICES ASSUME NEW j \in Jobs
                 PROVE  [run[j] EXCEPT !.phase = "orphan"] \in Runs
      BY <1>10, IdleType DEF Crash
    <3> QED BY DEF TypeOK, Runs, Phases
  <2> QED BY <1>10, <2>1, NothingType, ParallelAssumption
          DEF Crash, TypeOK, table, world, Stations, Recovering
<1>11. CASE LoadRunning
  BY <1>11, FilterAssumption DEF LoadRunning, TypeOK, table, world, control, Stations, Recovering, Looping
<1>12. CASE FailRunning
  BY <1>12 DEF FailRunning, TypeOK, table, world, control, Stations, Recovering, Statuses
<1>13. CASE RecoverClear
  BY <1>13, ClearType DEF RecoverClear, TypeOK, table, world, control, Stations, Recovering, Write
<1>14. CASE SafetyNet
  BY <1>14, RequeueType DEF SafetyNet, TypeOK, table, world, control, Stations
<1>15. ASSUME NEW j \in Jobs, Claim(j) PROVE TypeOK'
  <2>1. PICK B \in SUBSET Paths : /\ files' = ClaimQueuedForJob(files, B, j)
                                  /\ run' = [run EXCEPT ![j] = [Idle EXCEPT !.phase = "claimed", !.paths = B]]
    BY <1>15 DEF Claim, Batch, Claimable, In
  <2>2. run' \in [Jobs -> Runs]
    BY <2>1, IdleType DEF TypeOK, Runs, Phases, Holding
  <2>3. files' \in [Paths -> Row]
    BY <2>1, ClaimType DEF TypeOK
  <2> QED BY <1>15, <2>2, <2>3, ParallelAssumption DEF Claim, TypeOK, Statuses
<1>16. ASSUME NEW j \in Jobs, CreateJobRow(j) PROVE TypeOK'
  <2>1. run' \in [Jobs -> Runs]
    BY <1>16, GotoType DEF CreateJobRow, Phases, Holding
  <2> QED BY <1>16, <2>1 DEF CreateJobRow, TypeOK, world, control, Statuses
<1>17. ASSUME NEW j \in Jobs, StopRecorded(j) PROVE TypeOK'
  <2>1. run' \in [Jobs -> Runs]
    BY <1>17, GotoType DEF StopRecorded, Phases, Holding
  <2> QED BY <1>17, <2>1 DEF StopRecorded, TypeOK, world, control, Close, Statuses
<1>18. ASSUME NEW j \in Jobs, DropClaim(j) PROVE TypeOK'
  BY <1>18, ReleaseType, IdleType DEF DropClaim, TypeOK, table, world, control, Write, End
<1>19. ASSUME NEW j \in Jobs, StartRclone(j) PROVE TypeOK'
  <2>1. run' \in [Jobs -> Runs]
    BY <1>19, GotoType DEF StartRclone, Phases, Holding
  <2> QED BY <1>19, <2>1 DEF StartRclone, TypeOK, table, world, control
<1>20. ASSUME NEW j \in Jobs, ExitOk(j) PROVE TypeOK'
  <2>1. log[j] \in SUBSET Paths /\ run[j].paths \in SUBSET Paths
    BY DEF TypeOK, Runs
  <2> QED BY <1>20, <2>1, ConcludeType DEF ExitOk, Verdicts
<1>21. ASSUME NEW j \in Jobs, SaveJob(j) PROVE TypeOK'
  <2>1. run' \in [Jobs -> Runs]
    BY <1>21, GotoType DEF SaveJob, Phases, Holding
  <2>2. run[j].verdict.status \in Statuses
    BY DEF TypeOK, Runs, Verdicts, Statuses
  <2> QED BY <1>21, <2>1, <2>2 DEF SaveJob, Close, TypeOK, world, control
<1>22. ASSUME NEW j \in Jobs, FinalizeFiles(j) PROVE TypeOK'
  <2>1. run' \in [Jobs -> Runs]
    BY <1>22, GotoType, EndType DEF FinalizeFiles, Phases
  <2> QED BY <1>22, <2>1, FinalizeType DEF FinalizeFiles, Write, TypeOK, world, control
<1>23. ASSUME NEW j \in Jobs, ClearJob(j) PROVE TypeOK'
  BY <1>23, ClearType, IdleType DEF ClearJob, TypeOK, table, world, control, Write, End
<1>24. ASSUME NEW j \in Jobs, Abandon(j) PROVE TypeOK'
  BY <1>24, ReleaseType, IdleType DEF Abandon, TypeOK, table, world, control, Write, End
<1>25. ASSUME NEW j \in Jobs, ExitTerminated(j) PROVE TypeOK'
  BY <1>25, ConcludeType DEF ExitTerminated, LogReadings, TypeOK, Verdicts
<1>26. ASSUME NEW j \in Jobs, ExitFailed(j) PROVE TypeOK'
  BY <1>26, ConcludeType DEF ExitFailed, LogReadings, TypeOK, Verdicts
<1>27. ASSUME NEW j \in Jobs, ExitUnreadable(j) PROVE TypeOK'
  BY <1>27, ConcludeType DEF ExitUnreadable, Verdicts
<1>28. ASSUME NEW j \in Jobs, RecoverFiles(j) PROVE TypeOK'
  BY <1>28, FinalizeType DEF RecoverFiles, TypeOK, table, world, control, Stations, Recovering, Write
<1>29. ASSUME NEW j \in Jobs, OrphanExits(j) PROVE TypeOK'
  BY <1>29, IdleType DEF OrphanExits, TypeOK, table, world, control, End
<1>30. ASSUME NEW j \in Jobs, NEW p \in Paths, Transfer(j, p) PROVE TypeOK'
  <2>1. run' \in [Jobs -> Runs]
    <3>1. run[j].handled \cup {p} \in SUBSET Paths
      BY DEF TypeOK, Runs
    <3> QED BY <1>30, <3>1 DEF Transfer, TypeOK, Runs
  <2>2. log' \in [Jobs -> SUBSET Paths]
    BY <1>30 DEF Transfer, TypeOK, world
  <2>3. /\ src' \in [Paths -> 0..MaxVersion] /\ dst' \in [Paths -> 0..MaxVersion]
        /\ missed' \in [Paths -> 0..MaxVersion] /\ present' \in SUBSET Paths
    BY <1>30, VersionAssumption DEF Transfer, TypeOK, NoFile
  <2> QED BY <1>30, <2>1, <2>2, <2>3 DEF Transfer, TypeOK, table, control
<1>31. ASSUME NEW p \in Paths, SourceStep(p) PROVE TypeOK'
  BY <1>31, VersionAssumption DEF SourceStep, Rewrite, Remove, Restore, TypeOK, table, world, control, NoFile
<1>32. CASE UNCHANGED vars
  BY <1>32 DEF vars, TypeOK
<1> QED
  BY <1>1, <1>2, <1>3, <1>4, <1>5, <1>6, <1>7, <1>8, <1>9, <1>10, <1>11, <1>12, <1>13, <1>14, <1>15, <1>16, <1>17, <1>18, <1>19, <1>20, <1>21, <1>22, <1>23, <1>24, <1>25, <1>26, <1>27, <1>28, <1>29, <1>30, <1>31, <1>32
  DEF Next, WorkerStep, StarterStep, RecoveryStep, Fault, JobStep, RcloneStep

---------------------------------------------------------------------------
(* The semaphore is never over its capacity.                               *)

\* A step that sends one job to a phase with a live goroutine, or ends it.
LEMMA GotoSem ==
  ASSUME TypeOK, SemBound, NEW j \in Jobs, NEW phase, Live(j),
         Goto(j, phase) \/ End(j), starters' = starters
  PROVE  SemBound'
<1>1. SemHolders' \subseteq SemHolders
  BY DEF TypeOK, Goto, End, Idle, SemHolders, Live, Runs
<1> QED BY <1>1, SemAntitone DEF TypeOK

LEMMA ConcludeSem ==
  ASSUME TypeOK, SemBound, NEW j \in Jobs, NEW v, Conclude(j, v)
  PROVE  SemBound'
<1>1. SemHolders' \subseteq SemHolders
  BY DEF TypeOK, Conclude, SemHolders, Live, Runs
<1>2. starters' = starters
  BY DEF Conclude, control
<1> QED BY <1>1, <1>2, SemAntitone DEF TypeOK

LEMMA SemInit == Init => SemBound
<1> SUFFICES ASSUME Init PROVE SemBound
  OBVIOUS
<1>1. SemHolders = {}
  BY DEF Init, SemHolders, Live, Idle
<1> QED BY <1>1, FS_EmptySet, ParallelAssumption DEF Init, SemBound, InSem

LEMMA SemStep == TypeOK /\ SemBound /\ [Next]_vars => SemBound'
<1> SUFFICES ASSUME TypeOK, SemBound, [Next]_vars PROVE SemBound'
  OBVIOUS
<1>1. CASE StartWorker
  BY <1>1 DEF StartWorker, SemBound, InSem, SemHolders, Live, control
<1>2. CASE ScanRule
  BY <1>2 DEF ScanRule, SemBound, InSem, SemHolders, Live, control
<1>3. CASE UpsertScan
  BY <1>3 DEF UpsertScan, SemBound, InSem, SemHolders, Live, control
<1>4. CASE EnqueueScanned
  BY <1>4 DEF EnqueueScanned, SemBound, InSem, SemHolders, Live, control
<1>5. CASE Schedule
  <2>1. SemHolders' = SemHolders
    BY <1>5 DEF Schedule, SemHolders, Live
  <2>2. Cardinality(SemHolders) \in Nat
    BY HoldersFinite, FS_CardinalityType
  <2> QED BY <1>5, <2>1, <2>2, ParallelAssumption DEF Schedule, TypeOK, SemBound, InSem
<1>6. CASE ReturnEmpty
  BY <1>6, ParallelAssumption, SemAntitone DEF ReturnEmpty, TypeOK, SemHolders, Live, control
<1>7. CASE StopWorker
  BY <1>7, SemAntitone DEF StopWorker, TypeOK, SemHolders, Live, control, Runs
<1>8. CASE ReturnRefused
  BY <1>8, ParallelAssumption, SemAntitone DEF ReturnRefused, TypeOK, SemHolders, Live, control
<1>9. CASE Retry
  BY <1>9 DEF Retry, SemBound, InSem, SemHolders, Live, control
<1>10. CASE Crash
  BY <1>10, SemAntitone DEF Crash, TypeOK, SemHolders, Live, control, Idle, Runs
<1>11. CASE LoadRunning
  BY <1>11 DEF LoadRunning, SemBound, InSem, SemHolders, Live, control
<1>12. CASE FailRunning
  BY <1>12 DEF FailRunning, SemBound, InSem, SemHolders, Live, control
<1>13. CASE RecoverClear
  BY <1>13 DEF RecoverClear, SemBound, InSem, SemHolders, Live, control
<1>14. CASE SafetyNet
  BY <1>14 DEF SafetyNet, SemBound, InSem, SemHolders, Live, control
<1>15. ASSUME NEW j \in Jobs, Claim(j) PROVE SemBound'
  <2>1. SemHolders' \subseteq SemHolders \cup {j} /\ j \notin SemHolders
    BY <1>15 DEF Claim, Fresh, TypeOK, SemHolders, Live, Idle, Runs
  <2>2. /\ IsFiniteSet(SemHolders \cup {j})
        /\ Cardinality(SemHolders \cup {j}) = Cardinality(SemHolders) + 1
        /\ Cardinality(SemHolders) \in Nat
    BY <2>1, HoldersFinite, FS_AddElement, FS_CardinalityType
  <2>3. Cardinality(SemHolders') \in Nat /\ Cardinality(SemHolders') <= Cardinality(SemHolders) + 1
    BY <2>1, <2>2, FS_Subset, FS_CardinalityType
  <2> QED BY <1>15, <2>2, <2>3, ParallelAssumption DEF Claim, TypeOK, SemBound, InSem
<1>16. ASSUME NEW j \in Jobs, CreateJobRow(j) PROVE SemBound'
  BY <1>16, GotoSem DEF CreateJobRow, Live, control
<1>17. ASSUME NEW j \in Jobs, StopRecorded(j) PROVE SemBound'
  BY <1>17, GotoSem DEF StopRecorded, Live, control
<1>18. ASSUME NEW j \in Jobs, DropClaim(j) PROVE SemBound'
  BY <1>18, GotoSem DEF DropClaim, Live, control
<1>19. ASSUME NEW j \in Jobs, StartRclone(j) PROVE SemBound'
  BY <1>19, GotoSem DEF StartRclone, Live, control
<1>20. ASSUME NEW j \in Jobs, ExitOk(j) PROVE SemBound'
  BY <1>20, ConcludeSem DEF ExitOk
<1>21. ASSUME NEW j \in Jobs, SaveJob(j) PROVE SemBound'
  BY <1>21, GotoSem DEF SaveJob, Live, control
<1>22. ASSUME NEW j \in Jobs, FinalizeFiles(j) PROVE SemBound'
  BY <1>22, GotoSem DEF FinalizeFiles, Live, control
<1>23. ASSUME NEW j \in Jobs, ClearJob(j) PROVE SemBound'
  BY <1>23, GotoSem DEF ClearJob, Live, control
<1>24. ASSUME NEW j \in Jobs, Abandon(j) PROVE SemBound'
  BY <1>24, GotoSem DEF Abandon, Live, control
<1>25. ASSUME NEW j \in Jobs, ExitTerminated(j) PROVE SemBound'
  BY <1>25, ConcludeSem DEF ExitTerminated
<1>26. ASSUME NEW j \in Jobs, ExitFailed(j) PROVE SemBound'
  BY <1>26, ConcludeSem DEF ExitFailed
<1>27. ASSUME NEW j \in Jobs, ExitUnreadable(j) PROVE SemBound'
  BY <1>27, ConcludeSem DEF ExitUnreadable
<1>28. ASSUME NEW j \in Jobs, RecoverFiles(j) PROVE SemBound'
  BY <1>28 DEF RecoverFiles, SemBound, InSem, SemHolders, Live, control
<1>29. ASSUME NEW j \in Jobs, OrphanExits(j) PROVE SemBound'
  BY <1>29, SemAntitone DEF OrphanExits, TypeOK, SemHolders, Live, control, End, Idle, Runs
<1>30. ASSUME NEW j \in Jobs, NEW p \in Paths, Transfer(j, p) PROVE SemBound'
  BY <1>30, SemAntitone DEF Transfer, TypeOK, SemHolders, Live, control, Runs
<1>31. ASSUME NEW p \in Paths, SourceStep(p) PROVE SemBound'
  BY <1>31 DEF SourceStep, Rewrite, Remove, Restore, SemBound, InSem, SemHolders, Live, control
<1>32. CASE UNCHANGED vars
  BY <1>32 DEF vars, SemBound, InSem, SemHolders, Live
<1> QED
  BY <1>1, <1>2, <1>3, <1>4, <1>5, <1>6, <1>7, <1>8, <1>9, <1>10, <1>11, <1>12, <1>13, <1>14, <1>15, <1>16, <1>17, <1>18, <1>19, <1>20, <1>21, <1>22, <1>23, <1>24, <1>25, <1>26, <1>27, <1>28, <1>29, <1>30, <1>31, <1>32
  DEF Next, WorkerStep, StarterStep, RecoveryStep, Fault, JobStep, RcloneStep

---------------------------------------------------------------------------
(* No goroutine of a rule runs before recovery is over.                     *)

LEMMA QuietInit == Init => RecoveryQuiet
BY DEF Init, RecoveryQuiet, Live, Idle

LEMMA QuietStep == TypeOK /\ RecoveryQuiet /\ [Next]_vars => RecoveryQuiet'
<1> SUFFICES ASSUME TypeOK, RecoveryQuiet, [Next]_vars PROVE RecoveryQuiet'
  OBVIOUS
<1> USE DEF RecoveryQuiet, Up, Recovering
<1>1. CASE StartWorker
  BY <1>1 DEF StartWorker, Looping
<1>2. CASE ScanRule
  BY <1>2 DEF ScanRule, Looping
<1>3. CASE UpsertScan
  BY <1>3 DEF UpsertScan, Looping
<1>4. CASE EnqueueScanned
  BY <1>4 DEF EnqueueScanned, Looping
<1>5. CASE Schedule
  BY <1>5 DEF Schedule, Looping
<1>6. CASE ReturnEmpty
  BY <1>6 DEF ReturnEmpty, TypeOK
<1>7. CASE StopWorker
  BY <1>7 DEF StopWorker, Looping
<1>8. CASE ReturnRefused
  BY <1>8 DEF ReturnRefused, TypeOK
<1>9. CASE Retry
  BY <1>9 DEF Retry, Live, control
<1>10. CASE Crash
  BY <1>10 DEF Crash, TypeOK, Idle, Runs, Live
<1>11. CASE LoadRunning
  BY <1>11 DEF LoadRunning, Live
<1>12. CASE FailRunning
  BY <1>12 DEF FailRunning, Live
<1>13. CASE RecoverClear
  BY <1>13 DEF RecoverClear, Live
<1>14. CASE SafetyNet
  BY <1>14 DEF SafetyNet, Live
<1>15. ASSUME NEW j \in Jobs, Claim(j) PROVE RecoveryQuiet'
  BY <1>15 DEF Claim, TypeOK
<1>16. ASSUME NEW j \in Jobs, CreateJobRow(j) PROVE RecoveryQuiet'
  BY <1>16 DEF CreateJobRow, Live, control
<1>17. ASSUME NEW j \in Jobs, StopRecorded(j) PROVE RecoveryQuiet'
  BY <1>17 DEF StopRecorded, Live, control
<1>18. ASSUME NEW j \in Jobs, DropClaim(j) PROVE RecoveryQuiet'
  BY <1>18 DEF DropClaim, Live, control
<1>19. ASSUME NEW j \in Jobs, StartRclone(j) PROVE RecoveryQuiet'
  BY <1>19 DEF StartRclone, Live, control
<1>20. ASSUME NEW j \in Jobs, ExitOk(j) PROVE RecoveryQuiet'
  BY <1>20 DEF ExitOk, Conclude, Live, control
<1>21. ASSUME NEW j \in Jobs, SaveJob(j) PROVE RecoveryQuiet'
  BY <1>21 DEF SaveJob, Live, control
<1>22. ASSUME NEW j \in Jobs, FinalizeFiles(j) PROVE RecoveryQuiet'
  BY <1>22 DEF FinalizeFiles, Live, control
<1>23. ASSUME NEW j \in Jobs, ClearJob(j) PROVE RecoveryQuiet'
  BY <1>23 DEF ClearJob, Live, control
<1>24. ASSUME NEW j \in Jobs, Abandon(j) PROVE RecoveryQuiet'
  BY <1>24 DEF Abandon, Live, control
<1>25. ASSUME NEW j \in Jobs, ExitTerminated(j) PROVE RecoveryQuiet'
  BY <1>25 DEF ExitTerminated, Conclude, Live, control
<1>26. ASSUME NEW j \in Jobs, ExitFailed(j) PROVE RecoveryQuiet'
  BY <1>26 DEF ExitFailed, Conclude, Live, control
<1>27. ASSUME NEW j \in Jobs, ExitUnreadable(j) PROVE RecoveryQuiet'
  BY <1>27 DEF ExitUnreadable, Conclude, Live, control
<1>28. ASSUME NEW j \in Jobs, RecoverFiles(j) PROVE RecoveryQuiet'
  BY <1>28 DEF RecoverFiles, Live
<1>29. ASSUME NEW j \in Jobs, OrphanExits(j) PROVE RecoveryQuiet'
  BY <1>29 DEF OrphanExits, TypeOK, End, Idle, Live, control
<1>30. ASSUME NEW j \in Jobs, NEW p \in Paths, Transfer(j, p) PROVE RecoveryQuiet'
  BY <1>30 DEF Transfer, TypeOK, Runs, Live, control
<1>31. ASSUME NEW p \in Paths, SourceStep(p) PROVE RecoveryQuiet'
  BY <1>31 DEF SourceStep, Rewrite, Remove, Restore, Live, control
<1>32. CASE UNCHANGED vars
  BY <1>32 DEF vars, Live
<1> QED
  BY <1>1, <1>2, <1>3, <1>4, <1>5, <1>6, <1>7, <1>8, <1>9, <1>10, <1>11, <1>12, <1>13, <1>14, <1>15, <1>16, <1>17, <1>18, <1>19, <1>20, <1>21, <1>22, <1>23, <1>24, <1>25, <1>26, <1>27, <1>28, <1>29, <1>30, <1>31, <1>32
  DEF Next, WorkerStep, StarterStep, RecoveryStep, Fault, JobStep, RcloneStep

---------------------------------------------------------------------------
(* Claims are held.                                                        *)

\* A step that keeps every goroutine where it is and every transferring row.
LEMMA HeldKept ==
  ASSUME ClaimsHeld, run' = run,
         \A p \in Paths : files[p].state = "transferring" =>
             files'[p].state = "transferring" /\ files'[p].job = files[p].job,
         TypeOK
  PROVE  ClaimsHeld'
BY DEF ClaimsHeld, TypeOK, Runs

\* A step of one job that keeps the rows and does not begin a claim.
LEMMA HeldMove ==
  ASSUME TypeOK, ClaimsHeld, files' = files, NEW j \in Jobs,
         \A i \in Jobs \ {j} : run'[i] = run[i],
         run'[j].paths = run[j].paths,
         run'[j].phase \in Holding => run[j].phase \in Holding
  PROVE  ClaimsHeld'
BY DEF ClaimsHeld

\* A step that ends the claim of one job and touches no row of another.
LEMMA HeldEnd ==
  ASSUME TypeOK, ClaimsHeld, NEW j \in Jobs,
         \A i \in Jobs \ {j} : run'[i] = run[i],
         run'[j].phase \notin Holding,
         \A p \in Paths : files[p].job # j => files'[p] = files[p]
  PROVE  ClaimsHeld'
BY DEF ClaimsHeld, TypeOK, Runs

\* While recovery runs nothing is held.
LEMMA HeldNone ==
  ASSUME \A j \in Jobs : ~Live(j), run' = run
  PROVE  ClaimsHeld'
BY DEF ClaimsHeld, Live, Holding

LEMMA HeldConclude ==
  ASSUME TypeOK, ClaimsHeld, NEW j \in Jobs, NEW v, Conclude(j, v)
  PROVE  ClaimsHeld'
BY HeldMove DEF Conclude, TypeOK, Runs, Holding, table

LEMMA HeldInit == Init => ClaimsHeld
BY DEF Init, ClaimsHeld, Idle, Holding

LEMMA HeldStep ==
  TypeOK /\ RecoveryQuiet /\ ClaimsHeld /\ [Next]_vars => ClaimsHeld'
<1> SUFFICES ASSUME TypeOK, RecoveryQuiet, ClaimsHeld, [Next]_vars PROVE ClaimsHeld'
  OBVIOUS
<1>1. CASE StartWorker
  BY <1>1, HeldKept DEF StartWorker, table, control
<1>2. CASE ScanRule
  BY <1>2, HeldKept DEF ScanRule, table, control
<1>3. CASE UpsertScan
  <2>1. PICK old \in SUBSET Paths : files' = UpsertScanEntries(files, listing, old, ignored)
    BY <1>3 DEF UpsertScan
  <2>2. ASSUME NEW p \in Paths, files[p].state = "transferring"
        PROVE  files'[p].state = "transferring" /\ files'[p].job = files[p].job
    BY <2>1, <2>2 DEF UpsertScanEntries, Purged, Seen, SeenState
  <2> QED BY <1>3, <2>2, HeldKept DEF UpsertScan
<1>4. CASE EnqueueScanned
  <2>1. PICK B \in Batch(Stable(files), BatchSize) : files' = EnqueueStable(files, B)
    BY <1>4 DEF EnqueueScanned
  <2>2. B \subseteq In(files, "stable")
    BY DEF Batch, Stable
  <2>3. ASSUME NEW p \in Paths, files[p].state = "transferring"
        PROVE  files'[p] = files[p]
    BY <2>1, <2>2, <2>3 DEF EnqueueStable, In
  <2> QED BY <1>4, <2>3, HeldKept DEF EnqueueScanned
<1>5. CASE Schedule
  <2>1. PICK B \in Batch(Stable(files), BatchSize) : files' = EnqueueStable(files, B)
    BY <1>5 DEF Schedule
  <2>2. B \subseteq In(files, "stable")
    BY DEF Batch, Stable
  <2>3. ASSUME NEW p \in Paths, files[p].state = "transferring"
        PROVE  files'[p] = files[p]
    BY <2>1, <2>2, <2>3 DEF EnqueueStable, In
  <2> QED BY <1>5, <2>3, HeldKept DEF Schedule
<1>6. CASE ReturnEmpty
  BY <1>6, HeldKept DEF ReturnEmpty, table, control
<1>7. CASE StopWorker
  BY <1>7 DEF StopWorker, ClaimsHeld, TypeOK, Runs, Live, table
<1>8. CASE ReturnRefused
  BY <1>8, HeldKept DEF ReturnRefused, table, control
<1>9. CASE Retry
  <2>1. PICK B \in Batch(In(files, "failed"), RetryLimit) : files' = RetryFailed(files, B)
    BY <1>9 DEF Retry
  <2>2. B \subseteq In(files, "failed")
    BY DEF Batch
  <2>3. ASSUME NEW p \in Paths, files[p].state = "transferring"
        PROVE  files'[p] = files[p]
    BY <2>1, <2>2, <2>3 DEF RetryFailed, In
  <2> QED BY <1>9, <2>3, HeldKept DEF Retry
<1>10. CASE Crash
  BY <1>10 DEF Crash, ClaimsHeld, TypeOK, Runs, Idle, Holding, table
<1>11. CASE LoadRunning
  <2>1. ~Up /\ run' = run
    BY <1>11 DEF LoadRunning, Up, Recovering
  <2> QED BY <2>1, HeldNone DEF RecoveryQuiet
<1>12. CASE FailRunning
  <2>1. ~Up /\ run' = run
    BY <1>12 DEF FailRunning, Up, Recovering
  <2> QED BY <2>1, HeldNone DEF RecoveryQuiet
<1>13. CASE RecoverClear
  <2>1. ~Up /\ run' = run
    BY <1>13 DEF RecoverClear, Up, Recovering
  <2> QED BY <2>1, HeldNone DEF RecoveryQuiet
<1>14. CASE SafetyNet
  <2>1. ~Up /\ run' = run
    BY <1>14 DEF SafetyNet, Up, Recovering
  <2> QED BY <2>1, HeldNone DEF RecoveryQuiet
<1>15. ASSUME NEW j \in Jobs, Claim(j) PROVE ClaimsHeld'
  <2>1. PICK B \in Batch(Claimable(files), BatchSize) :
               /\ files' = ClaimQueuedForJob(files, B, j)
               /\ run' = [run EXCEPT ![j] = [Idle EXCEPT !.phase = "claimed", !.paths = B]]
    BY <1>15 DEF Claim
  <2>2. B \subseteq In(files, "queued")
    BY DEF Batch, Claimable
  <2> SUFFICES ASSUME NEW i \in Jobs, run'[i].phase \in Holding, NEW p \in run'[i].paths
               PROVE  files'[p].state = "transferring" /\ files'[p].job = i
    BY DEF ClaimsHeld
  <2>3. CASE i = j
    <3>1. p \in B
      BY <2>1, <2>3 DEF TypeOK, Idle
    <3>2. p \in Paths /\ files[p] \in Row
      BY <2>2, <3>1 DEF In, TypeOK
    <3>3. files'[p] = [files[p] EXCEPT !.state = "transferring", !.job = j]
      BY <2>1, <3>1, <3>2 DEF ClaimQueuedForJob
    <3> QED BY <2>3, <3>2, <3>3 DEF Row
  <2>4. CASE i # j
    <3>1. run'[i] = run[i]
      BY <2>1, <2>4 DEF TypeOK
    <3>2. /\ p \in Paths
          /\ files[p].state = "transferring"
          /\ files[p].job = i
      BY <3>1 DEF ClaimsHeld, TypeOK, Runs
    <3> QED BY <2>1, <2>2, <3>2 DEF ClaimQueuedForJob, In
  <2> QED BY <2>3, <2>4
<1>16. ASSUME NEW j \in Jobs, CreateJobRow(j) PROVE ClaimsHeld'
  BY <1>16, HeldMove DEF CreateJobRow, Goto, TypeOK, Runs, Holding, table
<1>17. ASSUME NEW j \in Jobs, StopRecorded(j) PROVE ClaimsHeld'
  BY <1>17, HeldMove DEF StopRecorded, Goto, TypeOK, Runs, Holding, table
<1>18. ASSUME NEW j \in Jobs, DropClaim(j) PROVE ClaimsHeld'
  BY <1>18, HeldEnd DEF DropClaim, Write, End, Idle, Holding, TypeOK, ReleaseTransferringBackToQueued
<1>19. ASSUME NEW j \in Jobs, StartRclone(j) PROVE ClaimsHeld'
  BY <1>19, HeldMove DEF StartRclone, Goto, TypeOK, Runs, Holding, table
<1>20. ASSUME NEW j \in Jobs, ExitOk(j) PROVE ClaimsHeld'
  BY <1>20, HeldConclude DEF ExitOk
<1>21. ASSUME NEW j \in Jobs, SaveJob(j) PROVE ClaimsHeld'
  BY <1>21, HeldMove DEF SaveJob, Goto, TypeOK, Runs, Holding, table
<1>22. ASSUME NEW j \in Jobs, FinalizeFiles(j) PROVE ClaimsHeld'
  <2>1. run'[j].phase \notin Holding /\ \A i \in Jobs \ {j} : run'[i] = run[i]
    BY <1>22 DEF FinalizeFiles, Goto, End, Idle, Holding, TypeOK, Runs
  <2>2. ASSUME NEW p \in Paths, files[p].job # j
        PROVE  files'[p] = files[p]
    BY <1>22, <2>2 DEF FinalizeFiles, Write, FinalizeJobFiles
  <2> QED BY <2>1, <2>2, HeldEnd
<1>23. ASSUME NEW j \in Jobs, ClearJob(j) PROVE ClaimsHeld'
  BY <1>23, HeldEnd DEF ClearJob, Write, End, Idle, Holding, TypeOK, ClearJobOnDone
<1>24. ASSUME NEW j \in Jobs, Abandon(j) PROVE ClaimsHeld'
  BY <1>24, HeldEnd DEF Abandon, Write, End, Idle, Holding, TypeOK, ReleaseTransferringBackToQueued
<1>25. ASSUME NEW j \in Jobs, ExitTerminated(j) PROVE ClaimsHeld'
  BY <1>25, HeldConclude DEF ExitTerminated
<1>26. ASSUME NEW j \in Jobs, ExitFailed(j) PROVE ClaimsHeld'
  BY <1>26, HeldConclude DEF ExitFailed
<1>27. ASSUME NEW j \in Jobs, ExitUnreadable(j) PROVE ClaimsHeld'
  BY <1>27, HeldConclude DEF ExitUnreadable
<1>28. ASSUME NEW j \in Jobs, RecoverFiles(j) PROVE ClaimsHeld'
  <2>1. ~Up /\ run' = run
    BY <1>28 DEF RecoverFiles, Up, Recovering
  <2> QED BY <2>1, HeldNone DEF RecoveryQuiet
<1>29. ASSUME NEW j \in Jobs, OrphanExits(j) PROVE ClaimsHeld'
  BY <1>29, HeldEnd DEF OrphanExits, End, Idle, Holding, TypeOK, table
<1>30. ASSUME NEW j \in Jobs, NEW p \in Paths, Transfer(j, p) PROVE ClaimsHeld'
  BY <1>30, HeldMove DEF Transfer, TypeOK, Runs, table
<1>31. ASSUME NEW p \in Paths, SourceStep(p) PROVE ClaimsHeld'
  BY <1>31, HeldKept DEF SourceStep, Rewrite, Remove, Restore, table, control
<1>32. CASE UNCHANGED vars
  BY <1>32 DEF vars, ClaimsHeld
<1> QED
  BY <1>1, <1>2, <1>3, <1>4, <1>5, <1>6, <1>7, <1>8, <1>9, <1>10, <1>11, <1>12, <1>13, <1>14, <1>15, <1>16, <1>17, <1>18, <1>19, <1>20, <1>21, <1>22, <1>23, <1>24, <1>25, <1>26, <1>27, <1>28, <1>29, <1>30, <1>31, <1>32
  DEF Next, WorkerStep, StarterStep, RecoveryStep, Fault, JobStep, RcloneStep

---------------------------------------------------------------------------
(* No transferring row is left behind, if the closing statements succeed.   *)

\* A step that keeps every goroutine where it is and adds no transferring row.
LEMMA RowKept ==
  ASSUME NoOrphanRow, Up' => Up, run' = run,
         \A p \in Paths : files'[p].state = "transferring" =>
             files[p].state = "transferring" /\ files'[p].job = files[p].job
  PROVE  NoOrphanRow'
<1>1. ASSUME Up', NEW p \in In(files, "transferring")'
      PROVE  p \in In(files, "transferring") /\ files'[p].job = files[p].job
  BY <1>1 DEF In
<1> QED BY <1>1 DEF NoOrphanRow

\* A step of one job that keeps the rows and does not end its claim.
LEMMA RowMove ==
  ASSUME NoOrphanRow, Up' => Up, files' = files, NEW j \in Jobs,
         \A i \in Jobs \ {j} : run'[i] = run[i],
         run'[j].paths = run[j].paths,
         run[j].phase \in Holding => run'[j].phase \in Holding
  PROVE  NoOrphanRow'
BY DEF NoOrphanRow, In

\* A step after which one job has no transferring row, and adds none.
LEMMA RowEnd ==
  ASSUME NoOrphanRow, Up' => Up, NEW j \in Jobs,
         \A i \in Jobs \ {j} : run'[i] = run[i],
         \A p \in Paths : files'[p].state = "transferring" =>
             files'[p] = files[p] /\ files[p].job # j
  PROVE  NoOrphanRow'
<1>1. ASSUME Up', NEW p \in In(files, "transferring")'
      PROVE  p \in In(files, "transferring") /\ files'[p].job = files[p].job /\ files[p].job # j
  BY <1>1 DEF In
<1>2. ASSUME Up', NEW p \in In(files, "transferring")'
      PROVE  \E i \in Jobs \ {j} : files'[p].job = i /\ run'[i].phase \in Holding /\ p \in run'[i].paths
  BY <1>1, <1>2 DEF NoOrphanRow
<1> QED BY <1>2 DEF NoOrphanRow

LEMMA RowConclude ==
  ASSUME TypeOK, NoOrphanRow, NEW j \in Jobs, NEW v, Conclude(j, v)
  PROVE  NoOrphanRow'
BY RowMove DEF Conclude, TypeOK, Runs, Holding, table, control, Up

LEMMA RowInit == Init => NoOrphanRow
BY DEF Init, NoOrphanRow, Up, Recovering

LEMMA RowStep ==
  ASSUME "db" \notin Faults
  PROVE  TypeOK /\ NoOrphanRow /\ [Next]_vars => NoOrphanRow'
<1> SUFFICES ASSUME TypeOK, NoOrphanRow, [Next]_vars PROVE NoOrphanRow'
  OBVIOUS
<1>1. CASE StartWorker
  BY <1>1, RowKept DEF StartWorker, table, control, Up, Recovering, Looping
<1>2. CASE ScanRule
  BY <1>2, RowKept DEF ScanRule, table, control, Up, Recovering, Looping
<1>3. CASE UpsertScan
  <2>1. PICK old \in SUBSET Paths : files' = UpsertScanEntries(files, listing, old, ignored)
    BY <1>3 DEF UpsertScan
  <2>2. ASSUME NEW p \in Paths, files'[p].state = "transferring"
        PROVE  files[p].state = "transferring" /\ files'[p].job = files[p].job
    BY <2>1, <2>2 DEF UpsertScanEntries, Purged, Seen, SeenState, Absent
  <2> QED BY <1>3, <2>2, RowKept DEF UpsertScan, Up, Recovering
<1>4. CASE EnqueueScanned
  <2>1. PICK B : files' = EnqueueStable(files, B)
    BY <1>4 DEF EnqueueScanned
  <2>2. ASSUME NEW p \in Paths, files'[p].state = "transferring"
        PROVE  files'[p] = files[p]
    BY <2>1, <2>2, RequeuedFields DEF EnqueueStable, TypeOK, Row
  <2> QED BY <1>4, <2>2, RowKept DEF EnqueueScanned, control, Up, Recovering
<1>5. CASE Schedule
  <2>1. PICK B : files' = EnqueueStable(files, B)
    BY <1>5 DEF Schedule
  <2>2. ASSUME NEW p \in Paths, files'[p].state = "transferring"
        PROVE  files'[p] = files[p]
    BY <2>1, <2>2, RequeuedFields DEF EnqueueStable, TypeOK, Row
  <2> QED BY <1>5, <2>2, RowKept DEF Schedule, control, Up, Recovering
<1>6. CASE ReturnEmpty
  BY <1>6, RowKept DEF ReturnEmpty, table, control, Up, Recovering, Looping
<1>7. CASE StopWorker
  <2>1. \A j \in Jobs : run'[j].phase = run[j].phase /\ run'[j].paths = run[j].paths
    BY <1>7 DEF StopWorker, TypeOK, Runs
  <2> QED BY <1>7, <2>1 DEF StopWorker, NoOrphanRow, In, Up, Recovering, Looping, table
<1>8. CASE ReturnRefused
  BY <1>8, RowKept DEF ReturnRefused, table, control, Up, Recovering, Looping
<1>9. CASE Retry
  <2>1. PICK B : files' = RetryFailed(files, B)
    BY <1>9 DEF Retry
  <2>2. ASSUME NEW p \in Paths, files'[p].state = "transferring"
        PROVE  files'[p] = files[p]
    BY <2>1, <2>2, RequeuedFields DEF RetryFailed, TypeOK, Row
  <2> QED BY <1>9, <2>2, RowKept DEF Retry, control, Up, Recovering
<1>10. CASE Crash
  BY <1>10 DEF Crash, NoOrphanRow, Up, Recovering
<1>11. CASE LoadRunning
  BY <1>11 DEF LoadRunning, NoOrphanRow, Up, Recovering
<1>12. CASE FailRunning
  BY <1>12 DEF FailRunning, NoOrphanRow, Up, Recovering
<1>13. CASE RecoverClear
  BY <1>13 DEF RecoverClear, NoOrphanRow, Up, Recovering
<1>14. CASE SafetyNet
  <2>1. In(files, "transferring")' = {}
    BY <1>14, RequeuedFields DEF SafetyNet, RequeueTransferring, In, TypeOK
  <2> QED BY <2>1 DEF NoOrphanRow
<1>15. ASSUME NEW j \in Jobs, Claim(j) PROVE NoOrphanRow'
  <2>1. PICK B \in Batch(Claimable(files), BatchSize) :
               /\ files' = ClaimQueuedForJob(files, B, j)
               /\ run' = [run EXCEPT ![j] = [Idle EXCEPT !.phase = "claimed", !.paths = B]]
    BY <1>15 DEF Claim
  <2>2. B \subseteq Paths /\ run[j].phase = "idle" /\ Up' = Up
    BY <1>15 DEF Claim, Fresh, Batch, Claimable, In, Up
  <2>3. run'[j].phase \in Holding /\ run'[j].paths = B
    BY <2>1 DEF TypeOK, Idle, Holding
  <2> SUFFICES ASSUME Up, NEW p \in Paths, files'[p].state = "transferring"
               PROVE  \E i \in Jobs : files'[p].job = i /\ run'[i].phase \in Holding /\ p \in run'[i].paths
    BY <2>2 DEF NoOrphanRow, In
  <2>4. CASE p \in B
    <3>1. files'[p].job = j
      BY <2>1, <2>4, ClaimedFields DEF ClaimQueuedForJob, TypeOK
    <3> QED BY <2>3, <2>4, <3>1
  <2>5. CASE p \notin B
    <3>1. files'[p] = files[p]
      BY <2>1, <2>5 DEF ClaimQueuedForJob
    <3>2. PICK i \in Jobs : files[p].job = i /\ run[i].phase \in Holding /\ p \in run[i].paths
      BY <3>1 DEF NoOrphanRow, In
    <3>3. i # j
      BY <2>2, <3>2 DEF Holding
    <3> QED BY <2>1, <3>1, <3>2, <3>3 DEF TypeOK
  <2> QED BY <2>4, <2>5
<1>16. ASSUME NEW j \in Jobs, CreateJobRow(j) PROVE NoOrphanRow'
  BY <1>16, RowMove DEF CreateJobRow, Goto, TypeOK, Runs, Holding, table, control, Up
<1>17. ASSUME NEW j \in Jobs, StopRecorded(j) PROVE NoOrphanRow'
  BY <1>17, RowMove DEF StopRecorded, Goto, TypeOK, Runs, Holding, table, control, Up
<1>18. ASSUME NEW j \in Jobs, DropClaim(j) PROVE NoOrphanRow'
  <2>1. files' = ReleaseTransferringBackToQueued(files, j)
    BY <1>18 DEF DropClaim, Write
  <2>2. ASSUME NEW p \in Paths, files'[p].state = "transferring"
        PROVE  files'[p] = files[p] /\ files[p].job # j
    BY <2>1, <2>2, RequeuedFields DEF ReleaseTransferringBackToQueued, TypeOK
  <2> QED BY <1>18, <2>2, RowEnd DEF DropClaim, End, TypeOK, control, Up
<1>19. ASSUME NEW j \in Jobs, StartRclone(j) PROVE NoOrphanRow'
  BY <1>19, RowMove DEF StartRclone, Goto, TypeOK, Runs, Holding, table, control, Up
<1>20. ASSUME NEW j \in Jobs, ExitOk(j) PROVE NoOrphanRow'
  BY <1>20, RowConclude DEF ExitOk
<1>21. ASSUME NEW j \in Jobs, SaveJob(j) PROVE NoOrphanRow'
  BY <1>21, RowMove DEF SaveJob, Goto, TypeOK, Runs, Holding, table, control, Up
<1>22. ASSUME NEW j \in Jobs, FinalizeFiles(j) PROVE NoOrphanRow'
  <2>1. files' = FinalizeJobFiles(files, j, run[j].verdict.done, run[j].verdict.rest)
    BY <1>22 DEF FinalizeFiles, Write
  <2>2. ASSUME NEW p \in Paths, files'[p].state = "transferring"
        PROVE  files'[p] = files[p] /\ files[p].job # j
    BY <2>1, <2>2, RequeuedFields DEF FinalizeJobFiles, TypeOK, Row
  <2> QED BY <1>22, <2>2, RowEnd DEF FinalizeFiles, Goto, End, TypeOK, control, Up
<1>23. ASSUME NEW j \in Jobs, ClearJob(j) PROVE NoOrphanRow'
  <2>1. files' = ClearJobOnDone(files, j)
    BY <1>23 DEF ClearJob, Write
  <2>2. ASSUME NEW p \in Paths, files'[p].state = "transferring"
        PROVE  files'[p] = files[p]
    BY <2>1, <2>2 DEF ClearJobOnDone, TypeOK, Row
  <2>3. \A i \in Jobs \ {j} : run'[i] = run[i]
    BY <1>23 DEF ClearJob, End, TypeOK
  <2>4. run[j].phase \notin Holding /\ Up' = Up
    BY <1>23 DEF ClearJob, Holding, control, Up
  <2> QED BY <2>2, <2>3, <2>4 DEF NoOrphanRow, In
<1>24. ASSUME NEW j \in Jobs, Abandon(j) PROVE NoOrphanRow'
  <2>1. files' = ReleaseTransferringBackToQueued(files, j)
    BY <1>24 DEF Abandon, Write
  <2>2. ASSUME NEW p \in Paths, files'[p].state = "transferring"
        PROVE  files'[p] = files[p] /\ files[p].job # j
    BY <2>1, <2>2, RequeuedFields DEF ReleaseTransferringBackToQueued, TypeOK
  <2> QED BY <1>24, <2>2, RowEnd DEF Abandon, End, TypeOK, control, Up
<1>25. ASSUME NEW j \in Jobs, ExitTerminated(j) PROVE NoOrphanRow'
  BY <1>25, RowConclude DEF ExitTerminated
<1>26. ASSUME NEW j \in Jobs, ExitFailed(j) PROVE NoOrphanRow'
  BY <1>26, RowConclude DEF ExitFailed
<1>27. ASSUME NEW j \in Jobs, ExitUnreadable(j) PROVE NoOrphanRow'
  BY <1>27, RowConclude DEF ExitUnreadable
<1>28. ASSUME NEW j \in Jobs, RecoverFiles(j) PROVE NoOrphanRow'
  BY <1>28 DEF RecoverFiles, NoOrphanRow, Up, Recovering
<1>29. ASSUME NEW j \in Jobs, OrphanExits(j) PROVE NoOrphanRow'
  BY <1>29 DEF OrphanExits, End, TypeOK, Holding, NoOrphanRow, In, table, control, Up
<1>30. ASSUME NEW j \in Jobs, NEW p \in Paths, Transfer(j, p) PROVE NoOrphanRow'
  BY <1>30, RowMove DEF Transfer, TypeOK, Runs, table, control, Up
<1>31. ASSUME NEW p \in Paths, SourceStep(p) PROVE NoOrphanRow'
  BY <1>31, RowKept DEF SourceStep, Rewrite, Remove, Restore, table, control, Up, Recovering, Looping
<1>32. CASE UNCHANGED vars
  BY <1>32 DEF vars, NoOrphanRow, In, Up
<1> QED
  BY <1>1, <1>2, <1>3, <1>4, <1>5, <1>6, <1>7, <1>8, <1>9, <1>10, <1>11, <1>12, <1>13, <1>14, <1>15, <1>16, <1>17, <1>18, <1>19, <1>20, <1>21, <1>22, <1>23, <1>24, <1>25, <1>26, <1>27, <1>28, <1>29, <1>30, <1>31, <1>32
  DEF Next, WorkerStep, StarterStep, RecoveryStep, Fault, JobStep, RcloneStep

---------------------------------------------------------------------------
(* Every row that says "running" has a goroutine.                          *)

LEMMA LiveInit == Init => RunningIsLive /\ RecoveryClosed
BY DEF Init, RunningIsLive, RecoveryClosed

LEMMA LiveConclude ==
  ASSUME TypeOK, RecoveryQuiet, RunningIsLive, RecoveryClosed, NEW j \in Jobs, NEW v, Conclude(j, v)
  PROVE  RunningIsLive' /\ RecoveryClosed'
BY DEF Conclude, TypeOK, Runs, RunningIsLive, RecoveryClosed, table, control, Up

LEMMA LiveStep ==
  ASSUME "db" \notin Faults
  PROVE  TypeOK /\ RecoveryQuiet /\ RunningIsLive /\ RecoveryClosed /\ [Next]_vars
            => RunningIsLive' /\ RecoveryClosed'
<1> SUFFICES ASSUME TypeOK, RecoveryQuiet, RunningIsLive, RecoveryClosed, [Next]_vars
             PROVE  RunningIsLive' /\ RecoveryClosed'
  OBVIOUS
<1>1. CASE StartWorker
  BY <1>1 DEF StartWorker, table, control, Looping, RunningIsLive, RecoveryClosed, Up, Recovering
<1>2. CASE ScanRule
  BY <1>2 DEF ScanRule, table, control, Looping, RunningIsLive, RecoveryClosed, Up, Recovering
<1>3. CASE UpsertScan
  BY <1>3 DEF UpsertScan, table, control, Looping, RunningIsLive, RecoveryClosed, Up, Recovering
<1>4. CASE EnqueueScanned
  BY <1>4 DEF EnqueueScanned, table, control, Looping, RunningIsLive, RecoveryClosed, Up, Recovering
<1>5. CASE Schedule
  BY <1>5 DEF Schedule, table, control, Looping, RunningIsLive, RecoveryClosed, Up, Recovering
<1>6. CASE ReturnEmpty
  BY <1>6 DEF ReturnEmpty, table, control, Looping, RunningIsLive, RecoveryClosed, Up, Recovering
<1>7. CASE StopWorker
  BY <1>7 DEF StopWorker, table, TypeOK, Runs, Looping, RunningIsLive, RecoveryClosed, Up, Recovering
<1>8. CASE ReturnRefused
  BY <1>8 DEF ReturnRefused, table, control, Looping, RunningIsLive, RecoveryClosed, Up, Recovering
<1>9. CASE Retry
  BY <1>9 DEF Retry, table, control, Looping, RunningIsLive, RecoveryClosed, Up, Recovering
<1>10. CASE Crash
  BY <1>10 DEF Crash, RunningIsLive, RecoveryClosed, Up, Recovering
<1>11. CASE LoadRunning
  BY <1>11 DEF LoadRunning, table, control, Looping, RunningIsLive, RecoveryClosed, Up, Recovering
<1>12. CASE FailRunning
  BY <1>12 DEF FailRunning, table, control, Looping, RunningIsLive, RecoveryClosed, Up, Recovering
<1>13. CASE RecoverClear
  BY <1>13 DEF RecoverClear, table, control, Looping, RunningIsLive, RecoveryClosed, Up, Recovering
<1>14. CASE SafetyNet
  BY <1>14 DEF SafetyNet, table, control, Looping, RunningIsLive, RecoveryClosed, Up, Recovering
<1>15. ASSUME NEW j \in Jobs, Claim(j) PROVE RunningIsLive' /\ RecoveryClosed'
  BY <1>15 DEF Claim, TypeOK, Fresh, RecoveryQuiet, RunningIsLive, RecoveryClosed, Up, Recovering
<1>16. ASSUME NEW j \in Jobs, CreateJobRow(j) PROVE RunningIsLive' /\ RecoveryClosed'
  BY <1>16 DEF CreateJobRow, Goto, TypeOK, Runs, Live, RecoveryQuiet, table, control, RunningIsLive, RecoveryClosed, Up, Recovering
<1>17. ASSUME NEW j \in Jobs, StopRecorded(j) PROVE RunningIsLive' /\ RecoveryClosed'
  BY <1>17 DEF StopRecorded, Close, Goto, TypeOK, Runs, Live, RecoveryQuiet, control, RunningIsLive, RecoveryClosed, Up, Recovering
<1>18. ASSUME NEW j \in Jobs, DropClaim(j) PROVE RunningIsLive' /\ RecoveryClosed'
  BY <1>18 DEF DropClaim, End, TypeOK, table, control, RunningIsLive, RecoveryClosed, Up, Recovering
<1>19. ASSUME NEW j \in Jobs, StartRclone(j) PROVE RunningIsLive' /\ RecoveryClosed'
  BY <1>19 DEF StartRclone, Goto, TypeOK, Runs, Live, RecoveryQuiet, table, control, RunningIsLive, RecoveryClosed, Up, Recovering
<1>20. ASSUME NEW j \in Jobs, ExitOk(j) PROVE RunningIsLive' /\ RecoveryClosed'
  BY <1>20, LiveConclude DEF ExitOk
<1>21. ASSUME NEW j \in Jobs, SaveJob(j) PROVE RunningIsLive' /\ RecoveryClosed'
  <2>1. run[j].verdict.status # "running"
    BY DEF TypeOK, Runs, Verdicts
  <2> QED BY <1>21, <2>1 DEF SaveJob, Close, Goto, TypeOK, Runs, Live, RecoveryQuiet, control, RunningIsLive, RecoveryClosed, Up, Recovering
<1>22. ASSUME NEW j \in Jobs, FinalizeFiles(j) PROVE RunningIsLive' /\ RecoveryClosed'
  BY <1>22 DEF FinalizeFiles, End, Goto, TypeOK, table, control, RunningIsLive, RecoveryClosed, Up, Recovering
<1>23. ASSUME NEW j \in Jobs, ClearJob(j) PROVE RunningIsLive' /\ RecoveryClosed'
  BY <1>23 DEF ClearJob, End, TypeOK, table, control, RunningIsLive, RecoveryClosed, Up, Recovering
<1>24. ASSUME NEW j \in Jobs, Abandon(j) PROVE RunningIsLive' /\ RecoveryClosed'
  BY <1>24 DEF Abandon, End, TypeOK, table, control, RunningIsLive, RecoveryClosed, Up, Recovering
<1>25. ASSUME NEW j \in Jobs, ExitTerminated(j) PROVE RunningIsLive' /\ RecoveryClosed'
  BY <1>25, LiveConclude DEF ExitTerminated
<1>26. ASSUME NEW j \in Jobs, ExitFailed(j) PROVE RunningIsLive' /\ RecoveryClosed'
  BY <1>26, LiveConclude DEF ExitFailed
<1>27. ASSUME NEW j \in Jobs, ExitUnreadable(j) PROVE RunningIsLive' /\ RecoveryClosed'
  BY <1>27, LiveConclude DEF ExitUnreadable
<1>28. ASSUME NEW j \in Jobs, RecoverFiles(j) PROVE RunningIsLive' /\ RecoveryClosed'
  BY <1>28 DEF RecoverFiles, table, control, Looping, RunningIsLive, RecoveryClosed, Up, Recovering
<1>29. ASSUME NEW j \in Jobs, OrphanExits(j) PROVE RunningIsLive' /\ RecoveryClosed'
  BY <1>29 DEF OrphanExits, End, TypeOK, table, control, RunningIsLive, RecoveryClosed, Up, Recovering
<1>30. ASSUME NEW j \in Jobs, NEW p \in Paths, Transfer(j, p) PROVE RunningIsLive' /\ RecoveryClosed'
  BY <1>30 DEF Transfer, TypeOK, Runs, table, control, RunningIsLive, RecoveryClosed, Up, Recovering
<1>31. ASSUME NEW p \in Paths, SourceStep(p) PROVE RunningIsLive' /\ RecoveryClosed'
  BY <1>31 DEF SourceStep, Rewrite, Remove, Restore, table, control, Looping, RunningIsLive, RecoveryClosed, Up, Recovering
<1>32. CASE UNCHANGED vars
  BY <1>32 DEF vars, RunningIsLive, RecoveryClosed, Up, Recovering
<1> QED
  BY <1>1, <1>2, <1>3, <1>4, <1>5, <1>6, <1>7, <1>8, <1>9, <1>10, <1>11, <1>12, <1>13, <1>14, <1>15, <1>16, <1>17, <1>18, <1>19, <1>20, <1>21, <1>22, <1>23, <1>24, <1>25, <1>26, <1>27, <1>28, <1>29, <1>30, <1>31, <1>32
  DEF Next, WorkerStep, StarterStep, RecoveryStep, Fault, JobStep, RcloneStep

---------------------------------------------------------------------------
(* What some faults alone bring about.                                     *)

Undisturbed ==
    /\ "orphan" \notin Faults => \A j \in Jobs : run[j].phase # "orphan"
    /\ "restart" \notin Faults => \A j \in Jobs : ~run[j].stopped

LEMMA UndisturbedInit == Init => Undisturbed
BY DEF Init, Undisturbed, Idle

LEMMA UndisturbedMove ==
  ASSUME TypeOK, Undisturbed, NEW j \in Jobs,
         \A i \in Jobs \ {j} : run'[i] = run[i],
         run'[j].phase # "orphan", run'[j].stopped => run[j].stopped
  PROVE  Undisturbed'
BY DEF Undisturbed

LEMMA UndisturbedConclude ==
  ASSUME TypeOK, Undisturbed, NEW j \in Jobs, NEW v, Conclude(j, v)
  PROVE  Undisturbed'
BY DEF Undisturbed, Conclude, TypeOK, Runs

LEMMA UndisturbedStep == TypeOK /\ Undisturbed /\ [Next]_vars => Undisturbed'
<1> SUFFICES ASSUME TypeOK, Undisturbed, [Next]_vars PROVE Undisturbed'
  OBVIOUS
<1>1. CASE StartWorker
  BY <1>1 DEF StartWorker, Undisturbed, control
<1>2. CASE ScanRule
  BY <1>2 DEF ScanRule, Undisturbed, control
<1>3. CASE UpsertScan
  BY <1>3 DEF UpsertScan, Undisturbed, control
<1>4. CASE EnqueueScanned
  BY <1>4 DEF EnqueueScanned, Undisturbed, control
<1>5. CASE Schedule
  BY <1>5 DEF Schedule, Undisturbed, control
<1>6. CASE ReturnEmpty
  BY <1>6 DEF ReturnEmpty, Undisturbed, control
<1>7. CASE StopWorker
  BY <1>7 DEF StopWorker, TypeOK, Runs, Undisturbed
<1>8. CASE ReturnRefused
  BY <1>8 DEF ReturnRefused, Undisturbed, control
<1>9. CASE Retry
  BY <1>9 DEF Retry, Undisturbed, control
<1>10. CASE Crash
  BY <1>10 DEF Crash, TypeOK, Runs, Idle, Undisturbed
<1>11. CASE LoadRunning
  BY <1>11 DEF LoadRunning, Undisturbed, control
<1>12. CASE FailRunning
  BY <1>12 DEF FailRunning, Undisturbed, control
<1>13. CASE RecoverClear
  BY <1>13 DEF RecoverClear, Undisturbed, control
<1>14. CASE SafetyNet
  BY <1>14 DEF SafetyNet, Undisturbed, control
<1>15. ASSUME NEW j \in Jobs, Claim(j) PROVE Undisturbed'
  BY <1>15, UndisturbedMove DEF Claim, Idle, TypeOK
<1>16. ASSUME NEW j \in Jobs, CreateJobRow(j) PROVE Undisturbed'
  BY <1>16, UndisturbedMove DEF CreateJobRow, Goto, TypeOK, Runs
<1>17. ASSUME NEW j \in Jobs, StopRecorded(j) PROVE Undisturbed'
  BY <1>17, UndisturbedMove DEF StopRecorded, Goto, TypeOK, Runs
<1>18. ASSUME NEW j \in Jobs, DropClaim(j) PROVE Undisturbed'
  BY <1>18, UndisturbedMove DEF DropClaim, End, Idle, TypeOK, Runs
<1>19. ASSUME NEW j \in Jobs, StartRclone(j) PROVE Undisturbed'
  BY <1>19, UndisturbedMove DEF StartRclone, Goto, TypeOK, Runs
<1>20. ASSUME NEW j \in Jobs, ExitOk(j) PROVE Undisturbed'
  BY <1>20, UndisturbedConclude DEF ExitOk
<1>21. ASSUME NEW j \in Jobs, SaveJob(j) PROVE Undisturbed'
  BY <1>21, UndisturbedMove DEF SaveJob, Goto, TypeOK, Runs
<1>22. ASSUME NEW j \in Jobs, FinalizeFiles(j) PROVE Undisturbed'
  BY <1>22, UndisturbedMove DEF FinalizeFiles, Goto, End, Idle, TypeOK, Runs
<1>23. ASSUME NEW j \in Jobs, ClearJob(j) PROVE Undisturbed'
  BY <1>23, UndisturbedMove DEF ClearJob, End, Idle, TypeOK, Runs
<1>24. ASSUME NEW j \in Jobs, Abandon(j) PROVE Undisturbed'
  BY <1>24, UndisturbedMove DEF Abandon, End, Idle, TypeOK, Runs
<1>25. ASSUME NEW j \in Jobs, ExitTerminated(j) PROVE Undisturbed'
  BY <1>25, UndisturbedConclude DEF ExitTerminated
<1>26. ASSUME NEW j \in Jobs, ExitFailed(j) PROVE Undisturbed'
  BY <1>26, UndisturbedConclude DEF ExitFailed
<1>27. ASSUME NEW j \in Jobs, ExitUnreadable(j) PROVE Undisturbed'
  BY <1>27, UndisturbedConclude DEF ExitUnreadable
<1>28. ASSUME NEW j \in Jobs, RecoverFiles(j) PROVE Undisturbed'
  BY <1>28 DEF RecoverFiles, Undisturbed, control
<1>29. ASSUME NEW j \in Jobs, OrphanExits(j) PROVE Undisturbed'
  BY <1>29, UndisturbedMove DEF OrphanExits, End, Idle, TypeOK, Runs
<1>30. ASSUME NEW j \in Jobs, NEW p \in Paths, Transfer(j, p) PROVE Undisturbed'
  BY <1>30 DEF Transfer, TypeOK, Runs, Undisturbed
<1>31. ASSUME NEW p \in Paths, SourceStep(p) PROVE Undisturbed'
  BY <1>31 DEF SourceStep, Rewrite, Remove, Restore, Undisturbed, control
<1>32. CASE UNCHANGED vars
  BY <1>32 DEF vars, Undisturbed
<1> QED
  BY <1>1, <1>2, <1>3, <1>4, <1>5, <1>6, <1>7, <1>8, <1>9, <1>10, <1>11, <1>12, <1>13, <1>14, <1>15, <1>16, <1>17, <1>18, <1>19, <1>20, <1>21, <1>22, <1>23, <1>24, <1>25, <1>26, <1>27, <1>28, <1>29, <1>30, <1>31, <1>32
  DEF Next, WorkerStep, StarterStep, RecoveryStep, Fault, JobStep, RcloneStep

---------------------------------------------------------------------------
(* The theorems.                                                           *)

\* The inductive invariant behind the theorems that need no assumption on the
\* faults.
IndInv == TypeOK /\ SemBound /\ RecoveryQuiet /\ ClaimsHeld /\ Undisturbed

\* Under every fault the model knows, the database stays well-formed, the
\* semaphore within its capacity, and each claim with its owner.
THEOREM Inductive == Spec => []IndInv
<1>1. Init => IndInv
  BY TypeInit, SemInit, QuietInit, HeldInit, UndisturbedInit DEF IndInv
<1>2. IndInv /\ [Next]_vars => IndInv'
  BY TypeStep, SemStep, QuietStep, HeldStep, UndisturbedStep DEF IndInv
<1> QED BY <1>1, <1>2, PTL DEF Spec

\* Type correctness.
THEOREM TypeCorrect == Spec => []TypeOK
BY Inductive, PTL DEF IndInv

\* The rows of a claim are not touched by any scan, purge, retry, other job,
\* stop, crash or recovery before the job finalizes them.
THEOREM ClaimsAreHeld == Spec => []ClaimsHeld
BY Inductive, PTL DEF IndInv

\* If the statements that close a job succeed, then while the daemon is up no
\* file is "transferring" without a goroutine that will finalize it, whatever
\* stops, terminations, failures and crashes there were.
THEOREM NoRowIsOrphaned ==
  ASSUME "db" \notin Faults
  PROVE  Spec => []NoOrphanRow
<1>1. Init => NoOrphanRow
  BY RowInit
<1>2. IndInv /\ NoOrphanRow /\ [Next]_vars => NoOrphanRow'
  BY RowStep DEF IndInv
<1> QED BY <1>1, <1>2, Inductive, PTL DEF Spec

\* On the same condition, a job whose row says "running" has a goroutine.
THEOREM RunningRowsAreLive ==
  ASSUME "db" \notin Faults
  PROVE  Spec => []RunningIsLive
<1>1. Init => RunningIsLive /\ RecoveryClosed
  BY LiveInit
<1>2. IndInv /\ RunningIsLive /\ RecoveryClosed /\ [Next]_vars => RunningIsLive' /\ RecoveryClosed'
  BY LiveStep DEF IndInv
<1> QED BY <1>1, <1>2, Inductive, PTL DEF Spec

\* If no rclone process survives its daemon, no two of them ever work on the
\* same file, not even when the rule is edited while its jobs run.
THEOREM RcloneExclusive ==
  ASSUME "orphan" \notin Faults
  PROVE  Spec => []OneRclonePerFile
<1>1. IndInv => OneRclonePerFile
  <2> SUFFICES ASSUME IndInv, NEW i \in Jobs, NEW j \in Jobs, i # j,
                      run[i].phase \in Transient, run[j].phase \in Transient,
                      NEW p \in run[i].paths, p \in run[j].paths
               PROVE  FALSE
    BY DEF OneRclonePerFile
  <2>1. run[i].phase = "running" /\ run[j].phase = "running"
    BY DEF IndInv, Undisturbed, Transient
  <2> QED BY <2>1 DEF IndInv, ClaimsHeld, Holding
<1> QED BY <1>1, Inductive, PTL

\* A worker keeps to the limit of its rule.
THEOREM WorkerKeepsItsLimit == Spec => []RuleConcurrency
<1>1. IndInv => RuleConcurrency
  <2> SUFFICES ASSUME IndInv PROVE RuleConcurrency
    OBVIOUS
  <2> DEFINE Running == {j \in Jobs : run[j].phase = "running" /\ ~run[j].stopped}
  <2>1. Running \subseteq SemHolders
    BY DEF SemHolders, Live
  <2>2. /\ Cardinality(Running) \in Nat /\ Cardinality(SemHolders) \in Nat
        /\ Cardinality(Running) <= Cardinality(SemHolders)
    BY <2>1, HoldersFinite, FS_Subset, FS_CardinalityType
  <2> QED BY <2>2, ParallelAssumption DEF IndInv, TypeOK, SemBound, InSem, RuleConcurrency
<1> QED BY <1>1, Inductive, PTL

\* A rule that is never disabled or edited keeps to its own limit, all its jobs
\* counted.
THEOREM RuleKeepsItsLimit ==
  ASSUME "restart" \notin Faults
  PROVE  Spec => [](Cardinality({j \in Jobs : run[j].phase = "running"}) <= MaxParallelJobs)
<1>1. IndInv /\ RuleConcurrency => Cardinality({j \in Jobs : run[j].phase = "running"}) <= MaxParallelJobs
  <2> SUFFICES ASSUME IndInv, RuleConcurrency
               PROVE  Cardinality({j \in Jobs : run[j].phase = "running"}) <= MaxParallelJobs
    OBVIOUS
  <2>1. {j \in Jobs : run[j].phase = "running"} = {j \in Jobs : run[j].phase = "running" /\ ~run[j].stopped}
    BY DEF IndInv, Undisturbed
  <2> QED BY <2>1 DEF RuleConcurrency
<1> QED BY <1>1, Inductive, WorkerKeepsItsLimit, PTL
===========================================================================
