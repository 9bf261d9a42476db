---------------------------- MODULE JobLogProofs ----------------------------
(***************************************************************************)
(* Proofs about JobLog and ManualJobs, for any jobs, limits, faults and     *)
(* lengths of logs.                                                        *)
(***************************************************************************)
EXTENDS JobLog, RcloneArgsProofs, TLAPS

USE JobsFinite, LimitBounds, LogBounds DEF Entries, Streams

---------------------------------------------------------------------------
(* The inductive invariant of manual jobs.                                 *)

\* Nothing of the daemon outlives it.
Quiet == up = "down" => /\ \A j \in Jobs : run[j] = NoRun
                        /\ flagged = {} /\ term = NoRequest

\* The bound on restarts holds the end of the daemon back.
Bounded == up # "up" => restarts < MaxRestarts

\* A handle is marked before its process is killed.
MarkedFirst == term.at = "kill" => term.job \in flagged

Early == {"asked", "waiting", "admitted", "ported", "starting"}

\* What the row and rclone are at, by the next statement of the goroutine.
Stage(j) ==
    /\ job[j] = "none" => run[j].at = "none" /\ rc[j] = "none"
    /\ run[j].at \notin {"none", "leaving"} => job[j] \in {"pending", "running"}
    /\ run[j].at \in Early => rc[j] = "none"
    /\ run[j].at \in {"started", "polling", "watching"} => rc[j] # "none"
    /\ run[j].at \in {"exited", "checked"} => rc[j] \in Exited

\* What a verdict rests on; while the daemon is up, rclone is killed by users only.
Grounds(j) ==
    /\ run[j].at \in {"exited", "checked", "closing"} =>
          /\ run[j].verdict \in Ended
          /\ run[j].verdict = "done" => rc[j] = "zero"
          /\ run[j].verdict = "terminated" => rc[j] \in Exited
    /\ up = "up" =>
          /\ run[j].at = "exited" /\ run[j].verdict = "failed" => rc[j] \in {"nonzero", "killed"}
          /\ run[j].at \in {"checked", "closing"} /\ run[j].verdict = "failed" => rc[j] \in {"none", "nonzero"}
          /\ run[j].at # "none" /\ rc[j] = "killed" => j \in flagged

\* RowTellsTruth and RunningIsTended, of one job.
Truth(j) ==
    /\ j \notin recovered => /\ job[j] = "done" => rc[j] = "zero"
                             /\ job[j] = "failed" => rc[j] \in {"none", "nonzero"}
                             /\ job[j] = "terminated" => rc[j] \in Exited
    /\ job[j] = "running" /\ up = "up" => run[j].at \notin {"none", "leaving"}

JobOK(j) == Stage(j) /\ Grounds(j) /\ Truth(j)

JobInv == MTypeOK /\ Quiet /\ Bounded /\ MarkedFirst /\ \A j \in Jobs : JobOK(j)

MNext == (\E j \in Jobs : manualStartPost(j)) \/ DaemonStep

LEMMA StepOfJobs == [Next]_vars => MNext \/ UNCHANGED mvars
BY DEF Next, vars, FormStep, LogStep, MNext, mvars

\* Records of one goroutine.
LEMMA RunType ==
  ASSUME MTypeOK, NEW j \in Jobs
  PROVE  /\ run[j] \in Runs /\ run[j].at \in Stages
         /\ run[j].verdict \in {"none", "done", "failed", "terminated"}
BY DEF MTypeOK, Runs

LEMMA NoRunType == NoRun \in Runs /\ [NoRun EXCEPT !.at = "asked"] \in Runs
BY DEF Runs, NoRun, Stages

LEMMA GotoType ==
  ASSUME MTypeOK, NEW j \in Jobs, NEW s \in Stages, Goto(j, s)
  PROVE  run' \in [Jobs -> Runs]
BY DEF Goto, MTypeOK, Runs

LEMMA ConcludeType ==
  ASSUME MTypeOK, NEW j \in Jobs, NEW s \in Stages,
         NEW v \in {"none", "done", "failed", "terminated"}, Conclude(j, s, v)
  PROVE  run' \in [Jobs -> Runs]
<1>1. run[j] \in Runs /\ run \in [Jobs -> Runs]
  BY DEF MTypeOK
<1>2. run' = [run EXCEPT ![j] = [[run[j] EXCEPT !.at = s] EXCEPT !.verdict = v]]
  BY <1>1 DEF Conclude
<1>3. [[run[j] EXCEPT !.at = s] EXCEPT !.verdict = v] \in Runs
  BY <1>1 DEF Runs
<1> QED BY <1>1, <1>2, <1>3

LEMMA MTypeStep == ASSUME MTypeOK, Bounded, MNext PROVE MTypeOK'
<1> USE DEF Stages, Ended, Exited
<1>1. ASSUME NEW j \in Jobs, manualStartPost(j) PROVE MTypeOK'
  BY <1>1, NoRunType DEF manualStartPost, MTypeOK
<1>2. ASSUME NEW j \in Jobs, LoadSettings(j) PROVE MTypeOK'
  BY <1>2, GotoType, ConcludeType DEF LoadSettings, MTypeOK
<1>3. ASSUME NEW j \in Jobs, Acquire(j) PROVE MTypeOK'
  <2>1. run' \in [Jobs -> Runs]
    <3>1. CASE run' = [run EXCEPT ![j].at = "admitted", ![j].slot = TRUE]
      <4>1. run[j] \in Runs /\ run \in [Jobs -> Runs]
        BY DEF MTypeOK
      <4>2. run' = [run EXCEPT ![j] = [[run[j] EXCEPT !.at = "admitted"] EXCEPT !.slot = TRUE]]
        BY <3>1, <4>1
      <4>3. [[run[j] EXCEPT !.at = "admitted"] EXCEPT !.slot = TRUE] \in Runs
        BY <4>1 DEF Runs
      <4> QED BY <4>1, <4>2, <4>3
    <3>2. CASE Conclude(j, "closing", "failed")
      BY <3>2, ConcludeType
    <3> QED BY <1>3, <3>1, <3>2 DEF Acquire
  <2> QED BY <1>3, <2>1 DEF Acquire, MTypeOK
<1>4. ASSUME NEW j \in Jobs, AcquirePort(j) PROVE MTypeOK'
  BY <1>4, GotoType, ConcludeType DEF AcquirePort, MTypeOK
<1>5. ASSUME NEW j \in Jobs, UpdateJobRunning(j) PROVE MTypeOK'
  BY <1>5, GotoType DEF UpdateJobRunning, Update, MTypeOK
<1>6. ASSUME NEW j \in Jobs, StartCommand(j) PROVE MTypeOK'
  BY <1>6, GotoType, ConcludeType DEF StartCommand, MTypeOK
<1>7. ASSUME NEW j \in Jobs, Register(j) PROVE MTypeOK'
  BY <1>7, GotoType DEF Register, MTypeOK
<1>8. ASSUME NEW j \in Jobs, Ready(j) PROVE MTypeOK'
  BY <1>8, GotoType DEF Ready, MTypeOK
<1>9. ASSUME NEW j \in Jobs, SelectDone(j) PROVE MTypeOK'
  BY <1>9, ConcludeType DEF SelectDone, MTypeOK
<1>10. ASSUME NEW j \in Jobs, SelectCancelled(j) PROVE MTypeOK'
  BY <1>10, ConcludeType DEF SelectCancelled, MTypeOK
<1>11. ASSUME NEW j \in Jobs, CheckFlag(j) PROVE MTypeOK'
  BY <1>11, RunType, ConcludeType DEF CheckFlag, Verdict, MTypeOK
<1>12. ASSUME NEW j \in Jobs, Unregister(j) PROVE MTypeOK'
  BY <1>12, GotoType DEF Unregister, MTypeOK
<1>13. ASSUME NEW j \in Jobs, CloseRow(j) PROVE MTypeOK'
  BY <1>13, RunType, GotoType DEF CloseRow, Update, Closed, MTypeOK
<1>14. ASSUME NEW j \in Jobs, Leave(j) PROVE MTypeOK'
  BY <1>14, NoRunType DEF Leave, MTypeOK
<1>15. ASSUME NEW j \in Jobs, AskTermination(j) PROVE MTypeOK'
  BY <1>15 DEF AskTermination, MTypeOK
<1>16. CASE LookUp
  BY <1>16 DEF LookUp, MTypeOK, NoRequest
<1>17. CASE Mark
  BY <1>17 DEF Mark, MTypeOK, NoRequest
<1>18. CASE KillProcess
  BY <1>18 DEF KillProcess, Kill, MTypeOK, NoRequest
<1>19. ASSUME NEW j \in Jobs, Exit(j) PROVE MTypeOK'
  BY <1>19 DEF Exit, MTypeOK
<1>20. ASSUME NEW j \in Jobs, ContextKills(j) PROVE MTypeOK'
  BY <1>20 DEF ContextKills, MTypeOK
<1>21. CASE Shutdown
  BY <1>21 DEF Shutdown, MTypeOK
<1>22. CASE Down
  BY <1>22, NoRunType DEF Down, MTypeOK
<1>23. CASE Restart
  <2>1. restarts + 1 \in 0..MaxRestarts
    BY <1>23 DEF Restart, Bounded, MTypeOK
  <2> QED BY <1>23, <2>1 DEF Restart, Recovered, MTypeOK
<1> QED BY <1>1, <1>2, <1>3, <1>4, <1>5, <1>6, <1>7, <1>8, <1>9, <1>10, <1>11, <1>12, <1>13,
           <1>14, <1>15, <1>16, <1>17, <1>18, <1>19, <1>20, <1>21, <1>22, <1>23
        DEF MNext, DaemonStep, RunStep, TermStep

---------------------------------------------------------------------------
(* Every step preserves the invariant.                                     *)

\* What a step leaves of a job it is not about.
Same(j) == /\ job'[j] = job[j] /\ run'[j] = run[j] /\ rc'[j] = rc[j]
           /\ recovered' = recovered /\ flagged \subseteq flagged'
           /\ up' = up \/ up' = "stopping"

LEMMA Frame == ASSUME NEW j \in Jobs, JobOK(j), Same(j) PROVE JobOK(j)'
BY DEF JobOK, Stage, Grounds, Truth, Same

LEMMA SmallStep == ASSUME MTypeOK, Quiet, Bounded, MarkedFirst, MNext
                   PROVE  Quiet' /\ Bounded' /\ MarkedFirst'
<1> USE DEF Quiet, Bounded, MarkedFirst
<1>1. ASSUME NEW j \in Jobs, manualStartPost(j) PROVE Quiet' /\ Bounded' /\ MarkedFirst'
  BY <1>1 DEF manualStartPost, At, NoRun, MTypeOK
<1>2. ASSUME NEW j \in Jobs, LoadSettings(j) PROVE Quiet' /\ Bounded' /\ MarkedFirst'
  BY <1>2 DEF LoadSettings, At, NoRun, MTypeOK
<1>3. ASSUME NEW j \in Jobs, Acquire(j) PROVE Quiet' /\ Bounded' /\ MarkedFirst'
  BY <1>3 DEF Acquire, At, NoRun, MTypeOK
<1>4. ASSUME NEW j \in Jobs, AcquirePort(j) PROVE Quiet' /\ Bounded' /\ MarkedFirst'
  BY <1>4 DEF AcquirePort, At, NoRun, MTypeOK
<1>5. ASSUME NEW j \in Jobs, UpdateJobRunning(j) PROVE Quiet' /\ Bounded' /\ MarkedFirst'
  BY <1>5 DEF UpdateJobRunning, At, NoRun, MTypeOK
<1>6. ASSUME NEW j \in Jobs, StartCommand(j) PROVE Quiet' /\ Bounded' /\ MarkedFirst'
  BY <1>6 DEF StartCommand, At, NoRun, MTypeOK
<1>7. ASSUME NEW j \in Jobs, Register(j) PROVE Quiet' /\ Bounded' /\ MarkedFirst'
  BY <1>7 DEF Register, At, NoRun, MTypeOK
<1>8. ASSUME NEW j \in Jobs, Ready(j) PROVE Quiet' /\ Bounded' /\ MarkedFirst'
  BY <1>8 DEF Ready, At, NoRun, MTypeOK
<1>9. ASSUME NEW j \in Jobs, SelectDone(j) PROVE Quiet' /\ Bounded' /\ MarkedFirst'
  BY <1>9 DEF SelectDone, At, NoRun, MTypeOK
<1>10. ASSUME NEW j \in Jobs, SelectCancelled(j) PROVE Quiet' /\ Bounded' /\ MarkedFirst'
  BY <1>10 DEF SelectCancelled, At, NoRun, MTypeOK
<1>11. ASSUME NEW j \in Jobs, CheckFlag(j) PROVE Quiet' /\ Bounded' /\ MarkedFirst'
  BY <1>11 DEF CheckFlag, At, NoRun, MTypeOK
<1>12. ASSUME NEW j \in Jobs, Unregister(j) PROVE Quiet' /\ Bounded' /\ MarkedFirst'
  BY <1>12 DEF Unregister, At, NoRun, MTypeOK
<1>13. ASSUME NEW j \in Jobs, CloseRow(j) PROVE Quiet' /\ Bounded' /\ MarkedFirst'
  BY <1>13 DEF CloseRow, At, NoRun, MTypeOK
<1>14. ASSUME NEW j \in Jobs, Leave(j) PROVE Quiet' /\ Bounded' /\ MarkedFirst'
  BY <1>14 DEF Leave, At, NoRun, MTypeOK
<1>15. ASSUME NEW j \in Jobs, AskTermination(j) PROVE Quiet' /\ Bounded' /\ MarkedFirst'
  BY <1>15 DEF AskTermination, NoRequest, NoRun, MTypeOK
<1>16. ASSUME NEW j \in Jobs, Exit(j) PROVE Quiet' /\ Bounded' /\ MarkedFirst'
  BY <1>16 DEF Exit, NoRequest, NoRun, MTypeOK
<1>17. ASSUME NEW j \in Jobs, ContextKills(j) PROVE Quiet' /\ Bounded' /\ MarkedFirst'
  BY <1>17 DEF ContextKills, NoRequest, NoRun, MTypeOK
<1>18. CASE LookUp
  BY <1>18 DEF LookUp, NoRequest, MTypeOK
<1>19. CASE Mark
  BY <1>19 DEF Mark, NoRequest, MTypeOK
<1>20. CASE KillProcess
  BY <1>20 DEF KillProcess, NoRequest, MTypeOK
<1>21. CASE Shutdown
  BY <1>21 DEF Shutdown, NoRequest, MTypeOK
<1>22. CASE Down
  BY <1>22 DEF Down, NoRequest, MTypeOK
<1>23. CASE Restart
  BY <1>23 DEF Restart, NoRequest, MTypeOK
<1> QED BY <1>1, <1>2, <1>3, <1>4, <1>5, <1>6, <1>7, <1>8, <1>9, <1>10, <1>11, <1>12, <1>13, <1>14, <1>15, <1>16, <1>17, <1>18, <1>19, <1>20, <1>21, <1>22, <1>23
        DEF MNext, DaemonStep, RunStep, TermStep

LEMMA JobStep == ASSUME JobInv, MNext, NEW j \in Jobs PROVE JobOK(j)'
<1>1. /\ MTypeOK /\ Quiet /\ MarkedFirst /\ JobOK(j)
      /\ run[j] \in Runs /\ run[j].at \in Stages
  BY RunType DEF JobInv
<1> USE DEF Stages, Early, Ended, Exited
<1>2. ASSUME NEW k \in Jobs, manualStartPost(k) PROVE JobOK(j)'
  <2>1. CASE k # j
    BY <1>1, <1>2, <2>1, Frame DEF manualStartPost, Same, Goto, Conclude, Update, MTypeOK
  <2>2. CASE k = j
    BY <1>1, <1>2, <2>2 DEF manualStartPost, At, Goto, Conclude, NoRun, Runs, JobOK, Stage, Grounds, Truth, MTypeOK
  <2> QED BY <2>1, <2>2
<1>3. ASSUME NEW k \in Jobs, LoadSettings(k) PROVE JobOK(j)'
  <2>1. CASE k # j
    BY <1>1, <1>3, <2>1, Frame DEF LoadSettings, Same, Goto, Conclude, Update, MTypeOK
  <2>2. CASE k = j
    BY <1>1, <1>3, <2>2 DEF LoadSettings, At, Goto, Conclude, NoRun, Runs, JobOK, Stage, Grounds, Truth, MTypeOK
  <2> QED BY <2>1, <2>2
<1>4. ASSUME NEW k \in Jobs, Acquire(k) PROVE JobOK(j)'
  <2>1. CASE k # j
    BY <1>1, <1>4, <2>1, Frame DEF Acquire, Same, Goto, Conclude, Update, MTypeOK
  <2>2. CASE k = j
    BY <1>1, <1>4, <2>2 DEF Acquire, At, Goto, Conclude, NoRun, Runs, JobOK, Stage, Grounds, Truth, MTypeOK
  <2> QED BY <2>1, <2>2
<1>5. ASSUME NEW k \in Jobs, AcquirePort(k) PROVE JobOK(j)'
  <2>1. CASE k # j
    BY <1>1, <1>5, <2>1, Frame DEF AcquirePort, Same, Goto, Conclude, Update, MTypeOK
  <2>2. CASE k = j
    BY <1>1, <1>5, <2>2 DEF AcquirePort, At, Goto, Conclude, NoRun, Runs, JobOK, Stage, Grounds, Truth, MTypeOK
  <2> QED BY <2>1, <2>2
<1>6. ASSUME NEW k \in Jobs, UpdateJobRunning(k) PROVE JobOK(j)'
  <2>1. CASE k # j
    BY <1>1, <1>6, <2>1, Frame DEF UpdateJobRunning, Same, Goto, Conclude, Update, MTypeOK
  <2>2. CASE k = j
    BY <1>1, <1>6, <2>2 DEF UpdateJobRunning, At, Goto, Conclude, Update, NoRun, Runs, JobOK, Stage, Grounds, Truth, MTypeOK
  <2> QED BY <2>1, <2>2
<1>7. ASSUME NEW k \in Jobs, StartCommand(k) PROVE JobOK(j)'
  <2>1. CASE k # j
    BY <1>1, <1>7, <2>1, Frame DEF StartCommand, Same, Goto, Conclude, Update, MTypeOK
  <2>2. CASE k = j
    BY <1>1, <1>7, <2>2 DEF StartCommand, At, Goto, Conclude, NoRun, Runs, JobOK, Stage, Grounds, Truth, MTypeOK
  <2> QED BY <2>1, <2>2
<1>8. ASSUME NEW k \in Jobs, Register(k) PROVE JobOK(j)'
  <2>1. CASE k # j
    BY <1>1, <1>8, <2>1, Frame DEF Register, Same, Goto, Conclude, Update, MTypeOK
  <2>2. CASE k = j
    BY <1>1, <1>8, <2>2 DEF Register, At, Goto, Conclude, NoRun, Runs, JobOK, Stage, Grounds, Truth, MTypeOK
  <2> QED BY <2>1, <2>2
<1>9. ASSUME NEW k \in Jobs, Ready(k) PROVE JobOK(j)'
  <2>1. CASE k # j
    BY <1>1, <1>9, <2>1, Frame DEF Ready, Same, Goto, Conclude, Update, MTypeOK
  <2>2. CASE k = j
    BY <1>1, <1>9, <2>2 DEF Ready, At, Goto, Conclude, NoRun, Runs, JobOK, Stage, Grounds, Truth, MTypeOK
  <2> QED BY <2>1, <2>2
<1>10. ASSUME NEW k \in Jobs, SelectDone(k) PROVE JobOK(j)'
  <2>1. CASE k # j
    BY <1>1, <1>10, <2>1, Frame DEF SelectDone, Same, Goto, Conclude, Update, MTypeOK
  <2>2. CASE k = j
    BY <1>1, <1>10, <2>2 DEF SelectDone, At, Goto, Conclude, NoRun, Runs, JobOK, Stage, Grounds, Truth, MTypeOK
  <2> QED BY <2>1, <2>2
<1>11. ASSUME NEW k \in Jobs, SelectCancelled(k) PROVE JobOK(j)'
  <2>1. CASE k # j
    BY <1>1, <1>11, <2>1, Frame DEF SelectCancelled, Same, Goto, Conclude, Update, MTypeOK
  <2>2. CASE k = j
    BY <1>1, <1>11, <2>2 DEF SelectCancelled, At, Goto, Conclude, NoRun, Runs, JobOK, Stage, Grounds, Truth, MTypeOK
  <2> QED BY <2>1, <2>2
<1>12. ASSUME NEW k \in Jobs, CheckFlag(k) PROVE JobOK(j)'
  <2>1. CASE k # j
    BY <1>1, <1>12, <2>1, Frame DEF CheckFlag, Same, Goto, Conclude, Update, MTypeOK
  <2>2. CASE k = j
    BY <1>1, <1>12, <2>2 DEF CheckFlag, At, Goto, Conclude, Verdict, NoRun, Runs, JobOK, Stage, Grounds, Truth, MTypeOK
  <2> QED BY <2>1, <2>2
<1>13. ASSUME NEW k \in Jobs, Unregister(k) PROVE JobOK(j)'
  <2>1. CASE k # j
    BY <1>1, <1>13, <2>1, Frame DEF Unregister, Same, Goto, Conclude, Update, MTypeOK
  <2>2. CASE k = j
    BY <1>1, <1>13, <2>2 DEF Unregister, At, Goto, Conclude, NoRun, Runs, JobOK, Stage, Grounds, Truth, MTypeOK
  <2> QED BY <2>1, <2>2
<1>14. ASSUME NEW k \in Jobs, CloseRow(k) PROVE JobOK(j)'
  <2>1. CASE k # j
    BY <1>1, <1>14, <2>1, Frame DEF CloseRow, Same, Goto, Conclude, Update, MTypeOK
  <2>2. CASE k = j
    BY <1>1, <1>14, <2>2 DEF CloseRow, At, Goto, Conclude, Update, Closed, NoRun, Runs, JobOK, Stage, Grounds, Truth, MTypeOK
  <2> QED BY <2>1, <2>2
<1>15. ASSUME NEW k \in Jobs, Leave(k) PROVE JobOK(j)'
  <2>1. CASE k # j
    BY <1>1, <1>15, <2>1, Frame DEF Leave, Same, Goto, Conclude, Update, MTypeOK
  <2>2. CASE k = j
    BY <1>1, <1>15, <2>2 DEF Leave, At, Goto, Conclude, NoRun, Runs, JobOK, Stage, Grounds, Truth, MTypeOK
  <2> QED BY <2>1, <2>2
<1>16. ASSUME NEW k \in Jobs, AskTermination(k) PROVE JobOK(j)'
  BY <1>1, <1>16, Frame DEF AskTermination, Same
<1>17. ASSUME NEW k \in Jobs, Exit(k) PROVE JobOK(j)'
  <2>1. CASE k # j
    BY <1>1, <1>17, <2>1, Frame DEF Exit, Same, MTypeOK
  <2>2. CASE k = j
    BY <1>1, <1>17, <2>2 DEF Exit, JobOK, Stage, Grounds, Truth, MTypeOK
  <2> QED BY <2>1, <2>2
<1>18. ASSUME NEW k \in Jobs, ContextKills(k) PROVE JobOK(j)'
  <2>1. CASE k # j
    BY <1>1, <1>18, <2>1, Frame DEF ContextKills, Same, MTypeOK
  <2>2. CASE k = j
    BY <1>1, <1>18, <2>2 DEF ContextKills, JobOK, Stage, Grounds, Truth, MTypeOK
  <2> QED BY <2>1, <2>2
<1>19. CASE LookUp
  BY <1>1, <1>19, Frame DEF LookUp, Same
<1>20. CASE Mark
  BY <1>1, <1>20, Frame DEF Mark, Same
<1>21. CASE Shutdown
  BY <1>1, <1>21, Frame DEF Shutdown, Same
<1>22. CASE KillProcess
  <2>1. term.job \in flagged
    BY <1>1, <1>22 DEF KillProcess, MarkedFirst
  <2> QED BY <1>1, <1>22, <2>1 DEF KillProcess, Kill, JobOK, Stage, Grounds, Truth, MTypeOK
<1>23. CASE Down
  BY <1>1, <1>23 DEF Down, NoRun, JobOK, Stage, Grounds, Truth, MTypeOK
<1>24. CASE Restart
  BY <1>1, <1>24 DEF Restart, Recovered, Quiet, NoRun, JobOK, Stage, Grounds, Truth, MTypeOK
<1> QED BY <1>2, <1>3, <1>4, <1>5, <1>6, <1>7, <1>8, <1>9, <1>10, <1>11, <1>12, <1>13, <1>14, <1>15, <1>16, <1>17, <1>18, <1>19, <1>20, <1>21, <1>22, <1>23, <1>24
        DEF MNext, DaemonStep, RunStep, TermStep

LEMMA InvInit == Init => JobInv
<1> SUFFICES ASSUME MInit PROVE JobInv
  BY DEF Init
<1>1. MTypeOK
  BY NoRunType DEF MInit, MTypeOK
<1>2. Quiet /\ Bounded /\ MarkedFirst
  BY DEF MInit, Quiet, Bounded, MarkedFirst, NoRequest
<1>3. ASSUME NEW j \in Jobs PROVE JobOK(j)
  BY DEF MInit, JobOK, Stage, Grounds, Truth, NoRun, Early, Exited, Ended
<1> QED BY <1>1, <1>2, <1>3 DEF JobInv

LEMMA InvStep == JobInv /\ [Next]_vars => JobInv'
<1> SUFFICES ASSUME JobInv, [Next]_vars PROVE JobInv'
  OBVIOUS
<1>1. CASE MNext
  <2>1. MTypeOK /\ Quiet /\ Bounded /\ MarkedFirst
    BY DEF JobInv
  <2>2. MTypeOK' /\ Quiet' /\ Bounded' /\ MarkedFirst'
    BY <1>1, <2>1, MTypeStep, SmallStep
  <2>3. \A j \in Jobs : JobOK(j)'
    BY <1>1, JobStep
  <2> QED BY <2>2, <2>3 DEF JobInv
<1>2. CASE UNCHANGED mvars
  BY <1>2 DEF mvars, JobInv, MTypeOK, Quiet, Bounded, MarkedFirst, JobOK, Stage, Grounds, Truth
<1> QED BY <1>1, <1>2, StepOfJobs

LEMMA Invariance == Spec => []JobInv
BY InvInit, InvStep, PTL DEF Spec

\* A row that is closed stays as it is, and what recovery has closed stays so.
LEMMA ClosedStep == ASSUME JobInv, MNext, NEW j \in Jobs, job[j] \in Ended PROVE job'[j] = job[j]
<1>1. /\ run[j].at \in {"none", "leaving"} /\ MTypeOK
      /\ \A k \in Jobs : run[k].at \notin {"none", "leaving"} => job[k] \in {"pending", "running"}
  BY DEF JobInv, JobOK, Stage, Ended
<1> QED BY <1>1 DEF MNext, DaemonStep, RunStep, TermStep, manualStartPost, LoadSettings, Acquire,
       AcquirePort, UpdateJobRunning, StartCommand, Register, Ready, SelectDone, SelectCancelled,
       CheckFlag, Unregister, CloseRow, Leave, AskTermination, LookUp, Mark, KillProcess, Exit,
       ContextKills, Shutdown, Down, Restart, At, Update, Recovered, MTypeOK, Ended

LEMMA RecoveredStep == ASSUME MNext PROVE recovered \subseteq recovered'
BY DEF MNext, DaemonStep, RunStep, TermStep, manualStartPost, LoadSettings, Acquire,
       AcquirePort, UpdateJobRunning, StartCommand, Register, Ready, SelectDone, SelectCancelled,
       CheckFlag, Unregister, CloseRow, Leave, AskTermination, LookUp, Mark, KillProcess, Exit,
       ContextKills, Shutdown, Down, Restart

---------------------------------------------------------------------------
(* Theorems about manual jobs.                                             *)

\* Whoever terminates which job when, whichever step of a start fails and whenever
\* the daemon dies, a row that recovery has not closed tells what became of its
\* rclone.
THEOREM RowsTellTruth == Spec => []RowTellsTruth
<1>1. ASSUME JobInv, NEW j \in Jobs, j \notin recovered
      PROVE  /\ job[j] = "done" => rc[j] = "zero"
             /\ job[j] = "failed" => rc[j] \in {"none", "nonzero"}
             /\ job[j] = "terminated" => rc[j] \in Exited
  <2>1. Truth(j)
    BY <1>1 DEF JobInv, JobOK
  <2> QED BY <1>1, <2>1 DEF Truth
<1>2. JobInv => RowTellsTruth
  BY <1>1 DEF RowTellsTruth
<1> QED BY <1>2, Invariance, PTL

\* While the daemon is up, a row that says running has a goroutine that will
\* close it.
THEOREM RunningRowsAreTended == Spec => []RunningIsTended
<1>1. JobInv => RunningIsTended
  BY DEF JobInv, JobOK, Truth, RunningIsTended
<1> QED BY <1>1, Invariance, PTL

\* A goroutine closes its row once: the row is open until it does, and no step
\* changes one that is closed.
THEOREM ClosedRowsAreFinal == Spec => ClosedIsFinal
<1>1. JobInv /\ [Next]_vars => [\A j \in Jobs : job[j] \in Ended => job'[j] = job[j]]_mvars
  BY ClosedStep, StepOfJobs
<1> QED BY <1>1, Invariance, PTL DEF Spec, ClosedIsFinal

---------------------------------------------------------------------------
(* The invariant of the logs.                                              *)

\* What a count has read is remembered by the size it read to.
CountOK(j) ==
    /\ entry[j].offset = entry[j].size /\ entry[j].size <= Len(log[j])
    /\ Lines(j, 1, entry[j].size) \subseteq entry[j].done
    /\ entry[j].done \subseteq Lines(j, 1, Len(log[j]))

CountAhead == count.at = "read" => count.size <= Len(log[count.job])

\* The row of a job that was over is still what the request read, and its tail has
\* all that its log will ever hold.
StreamOK ==
    stream.at # "idle" /\ stream.saw \in {"done", "failed"} =>
        /\ job[stream.job] = stream.saw
        /\ stream.at \in {"tailed", "following", "done"} /\ stream.job \notin recovered =>
              stream.from .. Len(log[stream.job]) \subseteq stream.got

\* Only the stream of a job that was over says that it is done.
DoneIsOver == stream.at = "done" => stream.saw \in {"done", "failed"}

LogInv == LTypeOK /\ (\A j \in Jobs : CountOK(j)) /\ CountAhead /\ StreamOK /\ DoneIsOver

LEMMA NoLogTypes ==
  /\ NoEntry \in Entries
  /\ NoEntry.offset = 0 /\ NoEntry.size = 0 /\ NoEntry.done = {}
  /\ NoCount.at = "idle" /\ NoStream.at = "idle"
BY DEF NoEntry, NoCount, NoStream

LEMMA LogInit == Init => LogInv
<1> SUFFICES ASSUME LInit PROVE LogInv
  BY DEF Init
<1> USE NoLogTypes
<1>1. /\ file \in [Jobs -> {"none", "there", "removed"}]
      /\ entry \in [Jobs -> Entries]
      /\ count = NoCount /\ stream = NoStream
  BY DEF LInit
<1>2. /\ log \in [Jobs -> Seq(Paths)]
      /\ \A j \in Jobs : log[j] = <<>> /\ Len(log[j]) = 0 /\ entry[j] = NoEntry
  BY DEF LInit
<1>3. LTypeOK
  BY <1>1, <1>2 DEF LTypeOK
<1>4. \A j \in Jobs : CountOK(j)
  BY <1>2 DEF CountOK, Lines
<1> QED BY <1>1, <1>3, <1>4 DEF LogInv, CountAhead, StreamOK, DoneIsOver

---------------------------------------------------------------------------
(* Steps of the daemon.                                                    *)

LEMMA DaemonKeepsLogs == ASSUME JobInv, LogInv, MNext, UNCHANGED lvars PROVE LogInv'
<1>1. LTypeOK' /\ (\A j \in Jobs : CountOK(j))' /\ CountAhead' /\ DoneIsOver'
  BY DEF LogInv, LTypeOK, CountOK, CountAhead, DoneIsOver, Lines, lvars
<1>2. StreamOK'
  <2> SUFFICES ASSUME stream.at # "idle", stream.saw \in {"done", "failed"}
               PROVE  /\ job'[stream.job] = stream.saw
                      /\ stream.at \in {"tailed", "following", "done"} /\ stream.job \notin recovered' =>
                            stream.from .. Len(log[stream.job]) \subseteq stream.got
    BY DEF StreamOK, lvars
  <2>1. stream.job \in Jobs /\ job[stream.job] = stream.saw /\ job[stream.job] \in Ended
    BY NoLogTypes DEF LogInv, LTypeOK, StreamOK, Ended
  <2>2. job'[stream.job] = stream.saw
    BY <2>1, ClosedStep
  <2> QED BY <2>2, RecoveredStep DEF LogInv, StreamOK
<1> QED BY <1>1, <1>2 DEF LogInv

LEMMA DaemonForgets == ASSUME LogInv, Forget PROVE LogInv'
<1> USE NoLogTypes
<1>1. /\ entry' \in [Jobs -> Entries]
      /\ \A j \in Jobs : entry'[j] = NoEntry
      /\ count' = NoCount /\ stream' = NoStream /\ log' = log /\ file' = file
  BY DEF Forget
<1>2. LTypeOK'
  BY <1>1 DEF LogInv, LTypeOK
<1>3. (\A j \in Jobs : CountOK(j))'
  <2>1. \A j \in Jobs : Len(log[j]) \in Nat
    BY DEF LogInv, LTypeOK
  <2> QED BY <1>1, <2>1 DEF CountOK, Lines
<1> QED BY <1>1, <1>2, <1>3 DEF LogInv, CountAhead, StreamOK, DoneIsOver

---------------------------------------------------------------------------
(* Steps of rclone, the janitor and the readers.                           *)

\* A log only grows.
LEMMA LinesOfAppend ==
  ASSUME NEW j \in Jobs, LTypeOK, NEW k \in Jobs, NEW p \in Paths,
         log' = [log EXCEPT ![k] = Append(@, p)], NEW n \in Nat, n <= Len(log[j])
  PROVE  /\ Len(log'[j]) \in Nat /\ Len(log[j]) <= Len(log'[j])
         /\ Lines(j, 1, n)' = Lines(j, 1, n)
         /\ Lines(j, 1, Len(log[j])) \subseteq Lines(j, 1, Len(log[j]))'
<1>1. log[j] \in Seq(Paths) /\ Len(log[j]) \in Nat
  BY DEF LTypeOK
<1>2. \A i \in 1..Len(log[j]) : log'[j][i] = log[j][i]
  BY <1>1 DEF LTypeOK
<1>3. Len(log'[j]) \in Nat /\ Len(log[j]) <= Len(log'[j])
  BY <1>1 DEF LTypeOK
<1>4. \A i \in 1..n : i \in 1..Len(log[j])
  BY <1>1
<1> QED BY <1>1, <1>2, <1>3, <1>4 DEF Lines

LEMMA WriteStep == ASSUME JobInv, LogInv, NEW k \in Jobs, WriteLog(k), UNCHANGED mvars PROVE LogInv'
<1>1. LTypeOK /\ entry' = entry /\ count' = count /\ stream' = stream /\ UNCHANGED <<job, recovered>>
  BY DEF WriteLog, LogInv, mvars
<1>2. CASE log' = log /\ file' = [file EXCEPT ![k] = "there"]
  BY <1>1, <1>2 DEF LogInv, LTypeOK, CountOK, CountAhead, StreamOK, DoneIsOver, Lines
<1>3. ASSUME NEW p \in Paths, Len(log[k]) < MaxLines, log' = [log EXCEPT ![k] = Append(@, p)], file' = file
      PROVE  LogInv'
  <2>1. LTypeOK'
    <3>1. log[k] \in Seq(Paths) /\ log \in [Jobs -> Seq(Paths)] /\ Len(log[k]) \in Nat
      BY <1>1 DEF LTypeOK
    <3>2. Append(log[k], p) \in Seq(Paths) /\ Len(Append(log[k], p)) = Len(log[k]) + 1
      BY <3>1
    <3>3. log' \in [Jobs -> Seq(Paths)] /\ \A j \in Jobs : Len(log'[j]) <= MaxLines
      BY <1>1, <1>3, <3>1, <3>2 DEF LTypeOK
    <3> QED BY <1>1, <1>3, <3>3 DEF LTypeOK
  <2>2. ASSUME NEW j \in Jobs PROVE CountOK(j)'
    <3>1. CountOK(j) /\ entry[j].size \in Nat /\ Len(log[j]) \in Nat
      BY <1>1 DEF LogInv, LTypeOK
    <3>2. entry[j].size <= Len(log[j])
      BY <3>1 DEF CountOK
    <3> DEFINE n == entry[j].size
               L == Len(log[j])
    <3>3. /\ Len(log'[j]) \in Nat /\ L <= Len(log'[j])
          /\ Lines(j, 1, n)' = Lines(j, 1, n)
          /\ Lines(j, 1, L) \subseteq Lines(j, 1, L)'
      BY <1>1, <1>3, <3>1, <3>2, LinesOfAppend
    <3> QED BY <1>1, <3>1, <3>2, <3>3 DEF CountOK
  <2>3. CountAhead'
    <3> SUFFICES ASSUME count.at = "read" PROVE count.size <= Len(log'[count.job])
      BY <1>1 DEF CountAhead
    <3>1. count.job \in Jobs /\ count.size \in Nat /\ count.size <= Len(log[count.job])
      BY <1>1, NoLogTypes DEF LogInv, LTypeOK, CountAhead
    <3>2. Len(log'[count.job]) \in Nat /\ Len(log[count.job]) <= Len(log'[count.job]) /\ Len(log[count.job]) \in Nat
      BY <1>1, <1>3, <3>1, LinesOfAppend DEF LTypeOK
    <3> QED BY <3>1, <3>2
  <2>4. StreamOK'
    <3> SUFFICES ASSUME stream.at # "idle", stream.saw \in {"done", "failed"}, stream.job \notin recovered
                 PROVE  log'[stream.job] = log[stream.job]
      BY <1>1 DEF StreamOK, LogInv
    <3>1. stream.job \in Jobs /\ job[stream.job] \in {"done", "failed"}
      BY <1>1, NoLogTypes DEF LogInv, LTypeOK, StreamOK
    <3>2. rc[stream.job] # "alive"
      BY <3>1 DEF JobInv, JobOK, Truth
    <3> QED BY <1>1, <1>3, <3>1, <3>2 DEF WriteLog, LTypeOK
  <2> QED BY <1>1, <2>1, <2>2, <2>3, <2>4 DEF LogInv, DoneIsOver
<1> QED BY <1>2, <1>3 DEF WriteLog

LEMMA StatStep == ASSUME LogInv, NEW k \in Jobs, StatLog(k), UNCHANGED mvars PROVE LogInv'
<1>1. /\ LTypeOK /\ entry[k].offset <= Len(log[k]) /\ Len(log[k]) \in 0..MaxLines
      /\ UNCHANGED <<file, log, stream, job, recovered>>
  BY DEF StatLog, LogInv, LTypeOK, CountOK, mvars
<1>2. entry' = entry /\ count' = [at |-> "read", job |-> k, size |-> Len(log[k])]
  <2>1. entry[k].offset \in Nat
    BY <1>1 DEF LTypeOK
  <2> QED BY <1>1, <2>1 DEF StatLog
<1> QED BY <1>1, <1>2 DEF LogInv, LTypeOK, CountOK, CountAhead, StreamOK, DoneIsOver, Lines

LEMMA ReadStep == ASSUME LogInv, ReadLog, UNCHANGED mvars PROVE LogInv'
<1> DEFINE k == count.job
           n == count.size
<1>1. /\ LTypeOK /\ count' = NoCount /\ k \in Jobs /\ n \in 0..MaxLines /\ n <= Len(log[k])
      /\ UNCHANGED <<file, log, stream, job, recovered>> /\ Len(log[k]) \in Nat
  BY NoLogTypes DEF ReadLog, LogInv, LTypeOK, CountAhead, mvars
<1>2. CASE entry' = entry
  BY <1>1, <1>2, NoLogTypes DEF LogInv, LTypeOK, CountOK, CountAhead, StreamOK, DoneIsOver, Lines
<1>3. CASE entry' = [entry EXCEPT ![k] = ReadToEnd(k, n)]
  <2> DEFINE e == ReadToEnd(k, n)
  <2>1. /\ CountOK(k) /\ entry[k] \in Entries
        /\ entry \in [Jobs -> Entries]
    BY <1>1 DEF LogInv, LTypeOK
  <2>2. ASSUME NEW m \in Nat, 1 <= m PROVE Lines(k, m, Len(log[k])) \subseteq Paths
    BY <1>1, <2>2 DEF Lines, LTypeOK
  <2>3. e.offset = n /\ e.size = n /\ e.done = entry[k].done \cup Lines(k, entry[k].offset + 1, Len(log[k]))
    BY DEF ReadToEnd
  <2>4. e \in Entries
    <3>1. Lines(k, entry[k].offset + 1, Len(log[k])) \subseteq Paths
      BY <2>1, <2>2
    <3> QED BY <1>1, <2>1, <3>1 DEF ReadToEnd
  <2>5. Lines(k, 1, n) \subseteq e.done
    BY <1>1, <2>1, <2>3 DEF CountOK, Lines
  <2>6. e.done \subseteq Lines(k, 1, Len(log[k]))
    BY <1>1, <2>1, <2>3 DEF CountOK, Lines
  <2>7. \A j \in Jobs : entry'[j] = IF j = k THEN e ELSE entry[j]
    BY <1>3, <2>1
  <2>8. LTypeOK'
    BY <1>1, <1>3, <2>1, <2>4 DEF LTypeOK
  <2>9. ASSUME NEW j \in Jobs PROVE CountOK(j)'
    <3>1. CASE j = k
      <4>1. entry'[j] = e /\ log' = log
        BY <1>1, <2>7, <3>1
      <4>2. /\ e.offset = e.size /\ e.size <= Len(log[j])
            /\ Lines(j, 1, e.size) \subseteq e.done /\ e.done \subseteq Lines(j, 1, Len(log[j]))
        BY <1>1, <2>3, <2>5, <2>6, <3>1
      <4> HIDE DEF e
      <4> QED BY <4>1, <4>2 DEF CountOK, Lines
    <3>2. CASE j # k
      BY <1>1, <2>7, <3>2 DEF LogInv, CountOK, Lines
    <3> QED BY <3>1, <3>2
  <2> QED BY <1>1, <2>8, <2>9, NoLogTypes DEF LogInv, CountAhead, StreamOK, DoneIsOver
<1> QED BY <1>2, <1>3 DEF ReadLog

\* Steps that change the stream only.
LEMMA StreamChanges ==
  ASSUME LogInv, UNCHANGED mvars, UNCHANGED <<file, log, entry, count>>,
         stream' \in {NoStream} \cup Streams,
         StreamOK', DoneIsOver'
  PROVE  LogInv'
<1>1. LTypeOK' /\ CountAhead'
  BY DEF LogInv, LTypeOK, CountAhead
<1>2. (\A j \in Jobs : CountOK(j))'
  BY DEF LogInv, CountOK, Lines
<1> QED BY <1>1, <1>2 DEF LogInv

LEMMA StreamStepKeeps ==
  ASSUME JobInv, LogInv, StreamStep \/ LeaveStream \/ \E j \in Jobs : OpenStream(j), UNCHANGED mvars
  PROVE  LogInv'
<1>1. /\ LTypeOK /\ MTypeOK /\ StreamOK /\ DoneIsOver
      /\ stream.at # "idle" => stream \in Streams
      /\ UNCHANGED <<job, recovered>>
  BY NoLogTypes DEF LogInv, LTypeOK, JobInv, mvars
<1>2. ASSUME NEW j \in Jobs PROVE Len(log[j]) \in 0..MaxLines
  <2>1. log[j] \in Seq(Paths) /\ Len(log[j]) <= MaxLines
    BY <1>1 DEF LTypeOK
  <2> QED BY <2>1
<1> SUFFICES /\ stream' \in {NoStream} \cup Streams /\ StreamOK' /\ DoneIsOver'
             /\ UNCHANGED <<file, log, entry, count>>
  BY StreamChanges
<1>3. UNCHANGED <<file, log, entry, count>>
  BY DEF StreamStep, LeaveStream, OpenStream, SendTail, GiveUp, SeekEnd, Follow
<1>4. ASSUME NEW j \in Jobs, OpenStream(j) PROVE stream' \in {NoStream} \cup Streams /\ StreamOK' /\ DoneIsOver'
  <2>1. stream' = [at |-> "opening", job |-> j, saw |-> job[j], offset |-> 0, from |-> 1, got |-> {}]
    BY <1>4 DEF OpenStream, NoStream
  <2>2. job[j] \in {"pending", "running"} \cup Ended
    BY <1>1, <1>4 DEF OpenStream, MTypeOK
  <2> QED BY <1>1, <2>1, <2>2 DEF StreamOK, DoneIsOver
<1>5. CASE SendTail
  <2> DEFINE n    == Len(log[stream.job])
             from == IF n > TailLines THEN n - TailLines + 1 ELSE 1
  <2>1. stream \in Streams /\ n \in 0..MaxLines
    BY <1>1, <1>2, <1>5 DEF SendTail
  <2>2. stream' = [stream EXCEPT !.at = "tailed", !.from = from, !.got = from..n]
    BY <1>5 DEF SendTail
  <2>3. from \in 1..MaxLines + 1 /\ from..n \subseteq 1..MaxLines
    BY <2>1
  <2> HIDE DEF from
  <2>4. stream' \in Streams /\ stream'.at = "tailed" /\ stream'.from = from /\ stream'.got = from..n
        /\ stream'.job = stream.job /\ stream'.saw = stream.saw
    BY <2>1, <2>2, <2>3
  <2>5. stream.at # "idle"
    BY <1>5 DEF SendTail
  <2> QED BY <1>1, <1>3, <2>4, <2>5 DEF StreamOK, DoneIsOver
<1>6. CASE GiveUp
  <2>1. stream \in Streams /\ stream.at # "idle"
    BY <1>1, <1>6 DEF GiveUp
  <2>2. stream' \in Streams /\ stream'.at = "closed" /\ stream'.job = stream.job /\ stream'.saw = stream.saw
    BY <1>6, <2>1 DEF GiveUp
  <2> QED BY <1>1, <1>3, <2>1, <2>2 DEF StreamOK, DoneIsOver
<1>7. CASE SeekEnd
  <2>1. stream \in Streams /\ stream.at = "tailed" /\ Len(log[stream.job]) \in 0..MaxLines
    BY <1>1, <1>2, <1>7 DEF SeekEnd
  <2>2. /\ stream' \in Streams /\ stream'.at = "following" /\ stream'.job = stream.job
        /\ stream'.saw = stream.saw /\ stream'.got = stream.got /\ stream'.from = stream.from
    BY <1>7, <2>1 DEF SeekEnd
  <2> QED BY <1>1, <1>3, <2>1, <2>2 DEF StreamOK, DoneIsOver
<1>8. CASE Follow
  <2> DEFINE n  == Len(log[stream.job])
             g  == stream.got \cup (stream.offset + 1 .. n)
             at == IF jobEnded(stream.saw) THEN "done" ELSE stream.at
  <2>1. stream \in Streams /\ stream.at = "following" /\ n \in 0..MaxLines
    BY <1>1, <1>2, <1>8 DEF Follow
  <2>2. stream' = [stream EXCEPT !.offset = n, !.got = g, !.at = at]
    BY <1>8 DEF Follow
  <2>3. g \in SUBSET (1..MaxLines)
    <3>1. stream.got \in SUBSET (1..MaxLines) /\ stream.offset \in Nat
      BY <2>1
    <3> QED BY <2>1, <3>1
  <2>4. /\ at \in {"following", "done"}
        /\ at = "done" => stream.saw \in {"done", "failed"}
    BY <2>1 DEF jobEnded
  <2> HIDE DEF at, g, n
  <2>5. /\ stream'.at = at /\ stream'.job = stream.job /\ stream'.saw = stream.saw
        /\ stream'.got = g /\ stream'.from = stream.from /\ stream'.offset = n
    BY <2>1, <2>2
  <2>6. stream' \in Streams
    <3>1. stream' = [at |-> at, job |-> stream.job, saw |-> stream.saw,
                     offset |-> n, from |-> stream.from, got |-> g]
      BY <2>1, <2>2
    <3>2. at \in {"tailed", "following", "done"}
      BY <2>4
    <3> QED BY <2>1, <2>3, <3>1, <3>2
  <2>7. stream.got \subseteq g
    BY DEF g
  <2> QED BY <1>1, <1>3, <2>1, <2>4, <2>5, <2>6, <2>7 DEF StreamOK, DoneIsOver
<1>9. CASE LeaveStream
  BY <1>9, NoLogTypes DEF LeaveStream, StreamOK, DoneIsOver
<1> QED BY <1>3, <1>4, <1>5, <1>6, <1>7, <1>8, <1>9 DEF StreamStep

LEMMA LogStepKeeps == JobInv /\ LogInv /\ [Next]_vars => LogInv'
<1> SUFFICES ASSUME JobInv, LogInv, [Next]_vars PROVE LogInv'
  OBVIOUS
<1>1. CASE FormStep /\ UNCHANGED lvars
  <2>1. CASE MNext
    BY <1>1, <2>1, DaemonKeepsLogs
  <2>2. CASE UNCHANGED mvars
    <3>1. UNCHANGED <<job, recovered>>
      BY <2>2 DEF mvars
    <3>2. LTypeOK' /\ CountAhead' /\ (\A j \in Jobs : CountOK(j))'
      BY <1>1 DEF lvars, LogInv, LTypeOK, CountOK, CountAhead, Lines
    <3>3. StreamOK' /\ DoneIsOver'
      BY <1>1, <3>1 DEF lvars, LogInv, StreamOK, DoneIsOver
    <3> QED BY <3>2, <3>3 DEF LogInv
  <2> QED BY <1>1, <2>1, <2>2 DEF FormStep, MNext
<1>2. CASE DaemonStep /\ UNCHANGED lvars
  BY <1>2, DaemonKeepsLogs DEF MNext
<1>3. CASE Forget
  BY <1>3, DaemonForgets
<1>4. CASE LogStep /\ UNCHANGED mvars
  <2>1. ASSUME NEW j \in Jobs, WriteLog(j) PROVE LogInv'
    BY <1>4, <2>1, WriteStep
  <2>2. ASSUME NEW j \in Jobs, CleanLog(j) PROVE LogInv'
    BY <1>4, <2>2 DEF CleanLog, mvars, LogInv, LTypeOK, CountOK, CountAhead, StreamOK, DoneIsOver, Lines
  <2>3. ASSUME NEW j \in Jobs, StatLog(j) PROVE LogInv'
    BY <1>4, <2>3, StatStep
  <2>4. CASE ReadLog
    BY <1>4, <2>4, ReadStep
  <2>5. CASE StreamStep \/ LeaveStream \/ \E j \in Jobs : OpenStream(j)
    BY <1>4, <2>5, StreamStepKeeps
  <2> QED BY <1>4, <2>1, <2>2, <2>3, <2>4, <2>5 DEF LogStep
<1>5. CASE UNCHANGED vars
  <2>1. UNCHANGED lvars /\ UNCHANGED <<job, recovered>>
    BY <1>5 DEF vars, lvars
  <2>2. LTypeOK' /\ CountAhead'
    BY <2>1 DEF lvars, LogInv, LTypeOK, CountAhead
  <2>3. (\A j \in Jobs : CountOK(j))'
    BY <2>1 DEF lvars, LogInv, CountOK, Lines
  <2>4. StreamOK' /\ DoneIsOver'
    BY <2>1 DEF lvars, LogInv, StreamOK, DoneIsOver
  <2> QED BY <2>2, <2>3, <2>4 DEF LogInv
<1> QED BY <1>1, <1>2, <1>3, <1>4, <1>5 DEF Next

LEMMA LogInvariance == Spec => []LogInv
BY Invariance, LogInit, LogStepKeeps, PTL DEF Spec

---------------------------------------------------------------------------
(* The field of the form.                                                  *)

\* A field is filled in within its bounds, or emptied.
LEMMA FieldChange ==
  ASSUME FormStep
  PROVE  TypeArgument \/ TypeCharacter \/ (args' = <<>> /\ text' = <<>>)
BY DEF FormStep

LEMMA FieldStep == ASSUME FieldTypeOK, [Next]_vars PROVE FieldTypeOK'
<1>1. CASE TypeArgument
  <2>1. PICK a \in Arguments : args' = Append(args, a)
    BY <1>1 DEF TypeArgument
  <2>2. args' \in Seq(Arguments) /\ Len(args') = Len(args) + 1
    BY <2>1, AppendProperties DEF FieldTypeOK
  <2>3. Len(args) \in Nat
    BY LenProperties DEF FieldTypeOK
  <2> QED
    BY <1>1, <2>2, <2>3, FieldBounds DEF TypeArgument, FieldTypeOK
<1>2. CASE TypeCharacter
  <2>1. PICK c \in Characters : text' = Append(text, c)
    BY <1>2 DEF TypeCharacter
  <2>2. text' \in Seq(Characters) /\ Len(text') = Len(text) + 1
    BY <2>1, AppendProperties DEF FieldTypeOK
  <2>3. Len(text) \in Nat
    BY LenProperties DEF FieldTypeOK
  <2> QED
    BY <1>2, <2>2, <2>3, FieldBounds DEF TypeCharacter, FieldTypeOK
<1>3. CASE args' = <<>> /\ text' = <<>>
  BY <1>3, FieldBounds DEF FieldTypeOK
<1>4. CASE UNCHANGED field
  BY <1>4 DEF field, FieldTypeOK
<1>5. FormStep \/ UNCHANGED field
  BY DEF Next, vars, field
<1> QED
  BY <1>1, <1>2, <1>3, <1>4, <1>5, FieldChange

LEMMA FieldInvariance == Spec => []FieldTypeOK
<1>1. Init => FieldTypeOK
  BY FieldBounds DEF Init, EmptyField, FieldTypeOK
<1>2. FieldTypeOK /\ [Next]_vars => FieldTypeOK'
  BY FieldStep
<1> QED BY <1>1, <1>2, PTL DEF Spec

\* Whatever options there are and whichever of them a user writes, and whatever
\* their number: the sanitizers take out the managed options, for a job with a list
\* of files the filters too, each with its value, and leave every other with its own.
THEOREM SanitizersTakeWholeOptions == Spec => []SanitizedAsMeant
<1>1. FieldTypeOK => SanitizedAsMeant
  BY SanitizersAsMeant DEF FieldTypeOK
<1> QED BY <1>1, FieldInvariance, PTL

\* Whatever a user writes, as he means it or not: no command joins a list of files
\* with what rclone calls a filter.
THEOREM ListsHaveNoFilters == Spec => []ListWithoutFilters
<1>1. FieldTypeOK => ListWithoutFilters
  BY NoFilterWithList DEF FieldTypeOK
<1> QED BY <1>1, FieldInvariance, PTL

\* An argument of any characters, and any number of them, is parsed as it was once
\* it is quoted, within double quotes or within single ones.
THEOREM QuotedIsParsed == Spec => []ParsesQuoted
<1>1. FieldTypeOK => ParsesQuoted
  BY QuotingParses DEF FieldTypeOK
<1> QED BY <1>1, FieldInvariance, PTL

---------------------------------------------------------------------------
(* Theorems about the logs.                                                *)

\* Every variable holds a value of its type.
THEOREM LogTypeCorrect == Spec => []TypeOK
<1>1. FieldTypeOK /\ JobInv /\ LogInv => TypeOK
  BY DEF JobInv, LogInv, TypeOK
<1> QED BY <1>1, FieldInvariance, Invariance, LogInvariance, PTL

\* However rclone writes between the calls that stat and read its log, and whenever
\* the janitor removes it: the files that are counted are all those of the size that
\* is remembered, and none that the log does not report.
THEOREM DoneCountsAreExact == Spec => []DoneCountExact
<1>1. LogInv => DoneCountExact
  BY DEF LogInv, CountOK, DoneCountExact
<1> QED BY <1>1, LogInvariance, PTL

\* A stream that says that it is done has sent every line from its tail on: its job
\* was over when the request read the row, and no rclone writes for such a job, but
\* one that survived its daemon.
THEOREM DoneStreamsAreComplete == Spec => []DoneStreamComplete
<1>1. LogInv => DoneStreamComplete
  BY DEF LogInv, StreamOK, DoneIsOver, DoneStreamComplete
<1> QED BY <1>1, LogInvariance, PTL

---------------------------------------------------------------------------
(* What TerminationEnds and PendingEnds claim that needs no fairness.      *)

Over(j) == rc[j] \in Exited

\* From Start to the last update of the row.
Tending == {"started", "polling", "watching", "exited", "checked", "closing"}

\* A job that is being terminated, or is registered, has had its rclone started.
Targets == /\ term.at \in {"mark", "kill"} => rc[term.job] # "none"
           /\ \A j \in reg : rc[j] # "none"
           /\ \A j \in acked : Over(j)

\* The row is updated before rclone is started, and by a daemon that is not
\* stopping; no job is pending again.
Launched(j) == /\ rc[j] # "none" => job[j] \in {"running"} \cup Ended
               /\ At(j, "starting") /\ up = "up" => job[j] = "running"
               /\ job[j] = "pending" /\ up = "up" /\ restarts = 0 => run[j].at \in Early \cup {"closing"}

TermInv == Targets /\ \A j \in Jobs : Launched(j)

\* A job whose termination the user was told of has seen the end of its rclone, and
\* while the daemon is up its row is closed or has a goroutine that will close it.
AcknowledgedIsOver ==
    \A j \in acked : /\ Over(j)
                     /\ up = "up" => job[j] \in Ended \/ run[j].at \in Tending

\* A job that is pending, with a daemon that has not been restarted, has a goroutine
\* that is to start its rclone or to close its row.
PendingIsTended ==
    \A j \in Jobs : job[j] = "pending" /\ up = "up" /\ restarts = 0 =>
        rc[j] = "none" /\ run[j].at \in Early \cup {"closing"}

\* Most steps touch no process, no handle and no request.
LEMMA SameTargets == ASSUME Targets, UNCHANGED <<rc, reg, term, acked>> PROVE Targets'
BY DEF Targets, Over

LEMMA TargetsStep == ASSUME JobInv, TermInv, MNext PROVE Targets'
<1>1. /\ MTypeOK /\ Targets /\ \A j \in Jobs : Stage(j)
      /\ term.at = "idle" \/ term.job \in Jobs
  BY DEF JobInv, JobOK, TermInv, MTypeOK, NoRequest
<1>2. ASSUME NEW j \in Jobs, manualStartPost(j) PROVE Targets'
  BY <1>1, <1>2, SameTargets DEF manualStartPost
<1>3. ASSUME NEW j \in Jobs, LoadSettings(j) PROVE Targets'
  BY <1>1, <1>3, SameTargets DEF LoadSettings
<1>4. ASSUME NEW j \in Jobs, Acquire(j) PROVE Targets'
  BY <1>1, <1>4, SameTargets DEF Acquire
<1>5. ASSUME NEW j \in Jobs, AcquirePort(j) PROVE Targets'
  BY <1>1, <1>5, SameTargets DEF AcquirePort
<1>6. ASSUME NEW j \in Jobs, UpdateJobRunning(j) PROVE Targets'
  BY <1>1, <1>6, SameTargets DEF UpdateJobRunning
<1>7. ASSUME NEW j \in Jobs, StartCommand(j) PROVE Targets'
  BY <1>1, <1>7 DEF StartCommand, MTypeOK, At, Stage, Early, Targets, Over, Exited
<1>8. ASSUME NEW j \in Jobs, Register(j) PROVE Targets'
  BY <1>1, <1>8 DEF Register, MTypeOK, At, Stage, Targets, Over, Exited
<1>9. ASSUME NEW j \in Jobs, Ready(j) PROVE Targets'
  BY <1>1, <1>9, SameTargets DEF Ready
<1>10. ASSUME NEW j \in Jobs, SelectDone(j) PROVE Targets'
  BY <1>1, <1>10, SameTargets DEF SelectDone
<1>11. ASSUME NEW j \in Jobs, SelectCancelled(j) PROVE Targets'
  BY <1>1, <1>11 DEF SelectCancelled, MTypeOK, Targets, Over, Exited
<1>12. ASSUME NEW j \in Jobs, CheckFlag(j) PROVE Targets'
  BY <1>1, <1>12, SameTargets DEF CheckFlag
<1>13. ASSUME NEW j \in Jobs, Unregister(j) PROVE Targets'
  BY <1>1, <1>13 DEF Unregister, MTypeOK, Targets, Over, Exited
<1>14. ASSUME NEW j \in Jobs, CloseRow(j) PROVE Targets'
  BY <1>1, <1>14, SameTargets DEF CloseRow
<1>15. ASSUME NEW j \in Jobs, Leave(j) PROVE Targets'
  BY <1>1, <1>15, SameTargets DEF Leave
<1>16. ASSUME NEW j \in Jobs, AskTermination(j) PROVE Targets'
  BY <1>1, <1>16 DEF AskTermination, MTypeOK, Targets, Over, Exited
<1>17. ASSUME NEW j \in Jobs, Exit(j) PROVE Targets'
  BY <1>1, <1>17 DEF Exit, MTypeOK, Targets, Over, Exited
<1>18. ASSUME NEW j \in Jobs, ContextKills(j) PROVE Targets'
  BY <1>1, <1>18 DEF ContextKills, MTypeOK, Targets, Over, Exited
<1>19. CASE LookUp
  BY <1>1, <1>19 DEF LookUp, MTypeOK, NoRequest, Targets, Over, Exited
<1>20. CASE Mark
  BY <1>1, <1>20 DEF Mark, MTypeOK, NoRequest, Targets, Over, Exited
<1>21. CASE KillProcess
  BY <1>1, <1>21 DEF KillProcess, MTypeOK, NoRequest, Kill, Targets, Over, Exited
<1>22. CASE Shutdown
  BY <1>1, <1>22, SameTargets DEF Shutdown
<1>23. CASE Down
  BY <1>1, <1>23 DEF Down, MTypeOK, NoRequest, Targets, Over, Exited
<1>24. CASE Restart
  BY <1>1, <1>24, SameTargets DEF Restart
<1> QED BY <1>2, <1>3, <1>4, <1>5, <1>6, <1>7, <1>8, <1>9, <1>10, <1>11, <1>12, <1>13, <1>14, <1>15, <1>16, <1>17, <1>18, <1>19, <1>20, <1>21, <1>22, <1>23, <1>24
        DEF MNext, DaemonStep, RunStep, TermStep

\* What a step leaves of a job it is not about.
Untouched(j) == /\ job'[j] = job[j] /\ run'[j] = run[j] /\ rc'[j] = rc[j]
                /\ restarts' = restarts
                /\ up' = up \/ up' = "stopping"

LEMMA LaunchedFrame == ASSUME NEW j \in Jobs, Launched(j), Untouched(j) PROVE Launched(j)'
BY DEF Launched, Untouched, At

LEMMA LaunchedStep == ASSUME JobInv, TermInv, MNext, NEW j \in Jobs PROVE Launched(j)'
<1> USE DEF Early, Ended, Exited
<1>1. /\ MTypeOK /\ Quiet /\ Targets /\ Stage(j) /\ Grounds(j) /\ Truth(j) /\ Launched(j)
      /\ run[j] \in Runs /\ run[j].at \in Stages /\ restarts \in Nat
      /\ term.at = "idle" \/ term.job \in Jobs
  BY RunType DEF JobInv, JobOK, TermInv, MTypeOK, NoRequest
<1>2. ASSUME NEW k \in Jobs, manualStartPost(k) PROVE Launched(j)'
  <2>1. CASE k # j
    BY <1>1, <1>2, <2>1, LaunchedFrame DEF manualStartPost, Untouched, Goto, Conclude, Update, MTypeOK
  <2>2. CASE k = j
    BY <1>1, <1>2, <2>2 DEF manualStartPost, At, Goto, Conclude, NoRun, Stages, Stage, Grounds, Launched, Runs, MTypeOK
  <2> QED BY <2>1, <2>2
<1>3. ASSUME NEW k \in Jobs, LoadSettings(k) PROVE Launched(j)'
  <2>1. CASE k # j
    BY <1>1, <1>3, <2>1, LaunchedFrame DEF LoadSettings, Untouched, Goto, Conclude, Update, MTypeOK
  <2>2. CASE k = j
    BY <1>1, <1>3, <2>2 DEF LoadSettings, At, Goto, Conclude, NoRun, Stages, Stage, Grounds, Launched, Runs, MTypeOK
  <2> QED BY <2>1, <2>2
<1>4. ASSUME NEW k \in Jobs, Acquire(k) PROVE Launched(j)'
  <2>1. CASE k # j
    BY <1>1, <1>4, <2>1, LaunchedFrame DEF Acquire, Untouched, Goto, Conclude, Update, MTypeOK
  <2>2. CASE k = j
    BY <1>1, <1>4, <2>2 DEF Acquire, At, Goto, Conclude, NoRun, Stages, Stage, Grounds, Launched, Runs, MTypeOK
  <2> QED BY <2>1, <2>2
<1>5. ASSUME NEW k \in Jobs, AcquirePort(k) PROVE Launched(j)'
  <2>1. CASE k # j
    BY <1>1, <1>5, <2>1, LaunchedFrame DEF AcquirePort, Untouched, Goto, Conclude, Update, MTypeOK
  <2>2. CASE k = j
    BY <1>1, <1>5, <2>2 DEF AcquirePort, At, Goto, Conclude, NoRun, Stages, Stage, Grounds, Launched, Runs, MTypeOK
  <2> QED BY <2>1, <2>2
<1>6. ASSUME NEW k \in Jobs, UpdateJobRunning(k) PROVE Launched(j)'
  <2>1. CASE k # j
    BY <1>1, <1>6, <2>1, LaunchedFrame DEF UpdateJobRunning, Untouched, Goto, Conclude, Update, MTypeOK
  <2>2. CASE k = j
    BY <1>1, <1>6, <2>2 DEF UpdateJobRunning, At, Goto, Conclude, Update, NoRun, Stages, Stage, Grounds, Launched, Runs, MTypeOK
  <2> QED BY <2>1, <2>2
<1>7. ASSUME NEW k \in Jobs, StartCommand(k) PROVE Launched(j)'
  <2>1. CASE k # j
    BY <1>1, <1>7, <2>1, LaunchedFrame DEF StartCommand, Untouched, Goto, Conclude, Update, MTypeOK
  <2>2. CASE k = j
    BY <1>1, <1>7, <2>2 DEF StartCommand, At, Goto, Conclude, NoRun, Stages, Stage, Grounds, Launched, Runs, MTypeOK
  <2> QED BY <2>1, <2>2
<1>8. ASSUME NEW k \in Jobs, Register(k) PROVE Launched(j)'
  <2>1. CASE k # j
    BY <1>1, <1>8, <2>1, LaunchedFrame DEF Register, Untouched, Goto, Conclude, Update, MTypeOK
  <2>2. CASE k = j
    BY <1>1, <1>8, <2>2 DEF Register, At, Goto, Conclude, NoRun, Stages, Stage, Grounds, Launched, Runs, MTypeOK
  <2> QED BY <2>1, <2>2
<1>9. ASSUME NEW k \in Jobs, Ready(k) PROVE Launched(j)'
  <2>1. CASE k # j
    BY <1>1, <1>9, <2>1, LaunchedFrame DEF Ready, Untouched, Goto, Conclude, Update, MTypeOK
  <2>2. CASE k = j
    BY <1>1, <1>9, <2>2 DEF Ready, At, Goto, Conclude, NoRun, Stages, Stage, Grounds, Launched, Runs, MTypeOK
  <2> QED BY <2>1, <2>2
<1>10. ASSUME NEW k \in Jobs, SelectDone(k) PROVE Launched(j)'
  <2>1. CASE k # j
    BY <1>1, <1>10, <2>1, LaunchedFrame DEF SelectDone, Untouched, Goto, Conclude, Update, MTypeOK
  <2>2. CASE k = j
    BY <1>1, <1>10, <2>2 DEF SelectDone, At, Goto, Conclude, NoRun, Stages, Stage, Grounds, Launched, Runs, MTypeOK
  <2> QED BY <2>1, <2>2
<1>11. ASSUME NEW k \in Jobs, SelectCancelled(k) PROVE Launched(j)'
  <2>1. CASE k # j
    BY <1>1, <1>11, <2>1, LaunchedFrame DEF SelectCancelled, Untouched, Goto, Conclude, Update, MTypeOK
  <2>2. CASE k = j
    BY <1>1, <1>11, <2>2 DEF SelectCancelled, At, Goto, Conclude, NoRun, Stages, Stage, Grounds, Launched, Runs, MTypeOK
  <2> QED BY <2>1, <2>2
<1>12. ASSUME NEW k \in Jobs, CheckFlag(k) PROVE Launched(j)'
  <2>1. CASE k # j
    BY <1>1, <1>12, <2>1, LaunchedFrame DEF CheckFlag, Untouched, Goto, Conclude, Update, MTypeOK
  <2>2. CASE k = j
    BY <1>1, <1>12, <2>2 DEF CheckFlag, At, Goto, Conclude, Verdict, NoRun, Stages, Stage, Grounds, Launched, Runs, MTypeOK
  <2> QED BY <2>1, <2>2
<1>13. ASSUME NEW k \in Jobs, Unregister(k) PROVE Launched(j)'
  <2>1. CASE k # j
    BY <1>1, <1>13, <2>1, LaunchedFrame DEF Unregister, Untouched, Goto, Conclude, Update, MTypeOK
  <2>2. CASE k = j
    BY <1>1, <1>13, <2>2 DEF Unregister, At, Goto, Conclude, NoRun, Stages, Stage, Grounds, Launched, Runs, MTypeOK
  <2> QED BY <2>1, <2>2
<1>14. ASSUME NEW k \in Jobs, CloseRow(k) PROVE Launched(j)'
  <2>1. CASE k # j
    BY <1>1, <1>14, <2>1, LaunchedFrame DEF CloseRow, Untouched, Goto, Conclude, Update, MTypeOK
  <2>2. CASE k = j
    BY <1>1, <1>14, <2>2 DEF CloseRow, At, Goto, Conclude, Update, Closed, NoRun, Stages, Stage, Grounds, Launched, Runs, MTypeOK
  <2> QED BY <2>1, <2>2
<1>15. ASSUME NEW k \in Jobs, Leave(k) PROVE Launched(j)'
  <2>1. CASE k # j
    BY <1>1, <1>15, <2>1, LaunchedFrame DEF Leave, Untouched, Goto, Conclude, Update, MTypeOK
  <2>2. CASE k = j
    BY <1>1, <1>15, <2>2 DEF Leave, At, Goto, Conclude, NoRun, Stages, Stage, Grounds, Launched, Runs, MTypeOK
  <2> QED BY <2>1, <2>2
<1>16. ASSUME NEW k \in Jobs, Exit(k) PROVE Launched(j)'
  <2>1. CASE k # j
    BY <1>1, <1>16, <2>1, LaunchedFrame DEF Exit, Untouched, Goto, Conclude, Update, MTypeOK
  <2>2. CASE k = j
    BY <1>1, <1>16, <2>2 DEF Exit, At, Goto, Conclude, NoRun, Stages, Stage, Grounds, Launched, Runs, MTypeOK
  <2> QED BY <2>1, <2>2
<1>17. ASSUME NEW k \in Jobs, ContextKills(k) PROVE Launched(j)'
  <2>1. CASE k # j
    BY <1>1, <1>17, <2>1, LaunchedFrame DEF ContextKills, Untouched, Goto, Conclude, Update, MTypeOK
  <2>2. CASE k = j
    BY <1>1, <1>17, <2>2 DEF ContextKills, At, Goto, Conclude, NoRun, Stages, Stage, Grounds, Launched, Runs, MTypeOK
  <2> QED BY <2>1, <2>2
<1>18. ASSUME NEW k \in Jobs, AskTermination(k) PROVE Launched(j)'
  BY <1>1, <1>18, LaunchedFrame DEF AskTermination, Untouched
<1>19. CASE LookUp
  BY <1>1, <1>19, LaunchedFrame DEF LookUp, Untouched
<1>20. CASE Mark
  BY <1>1, <1>20, LaunchedFrame DEF Mark, Untouched
<1>21. CASE Shutdown
  BY <1>1, <1>21, LaunchedFrame DEF Shutdown, Untouched
<1>22. CASE KillProcess
  BY <1>1, <1>22 DEF KillProcess, Kill, Targets, Launched, At, MTypeOK
<1>23. CASE Down
  BY <1>1, <1>23 DEF Down, NoRun, Launched, At, MTypeOK
<1>24. CASE Restart
  BY <1>1, <1>24 DEF Restart, Recovered, Quiet, NoRun, Launched, At, MTypeOK
<1> QED BY <1>2, <1>3, <1>4, <1>5, <1>6, <1>7, <1>8, <1>9, <1>10, <1>11, <1>12, <1>13, <1>14, <1>15, <1>16, <1>17, <1>18, <1>19, <1>20, <1>21, <1>22, <1>23, <1>24
        DEF MNext, DaemonStep, RunStep, TermStep

LEMMA TermInvariance == Spec => []TermInv
<1>1. Init => TermInv
  <2>1. ASSUME Init PROVE Targets
    BY <2>1 DEF Init, MInit, Targets, NoRequest
  <2>2. ASSUME Init, NEW j \in Jobs PROVE Launched(j)
    BY <2>2 DEF Init, MInit, Launched, At, NoRun
  <2> QED BY <2>1, <2>2 DEF TermInv
<1>2. JobInv /\ TermInv /\ [Next]_vars => TermInv'
  <2>1. ASSUME JobInv, TermInv, MNext PROVE TermInv'
    BY <2>1, TargetsStep, LaunchedStep DEF TermInv
  <2>2. ASSUME TermInv, UNCHANGED mvars PROVE TermInv'
    BY <2>2 DEF mvars, TermInv, Targets, Launched, Over, At
  <2> QED BY <2>1, <2>2, StepOfJobs
<1> QED BY <1>1, <1>2, Invariance, PTL DEF Spec

\* What TerminationEnds promises does not rest on luck: when the user is told that a
\* job is terminated, its rclone is at its end, and its row is closed or, while the
\* daemon is up, in the hands of the goroutine that will close it.
THEOREM AcknowledgedJobsAreOver == Spec => []AcknowledgedIsOver
<1>1. ASSUME JobInv, TermInv, NEW j \in acked
      PROVE  Over(j) /\ (up = "up" => job[j] \in Ended \/ run[j].at \in Tending)
  <2>1. /\ j \in Jobs /\ Over(j) /\ Stage(j) /\ Truth(j) /\ Launched(j) /\ run[j].at \in Stages
    BY <1>1, RunType DEF JobInv, JobOK, TermInv, Targets, MTypeOK
  <2>2. rc[j] # "none" /\ job[j] \in {"running"} \cup Ended
    BY <2>1 DEF Over, Exited, Launched
  <2> QED BY <2>1, <2>2 DEF Stage, Truth, Stages, Early, Tending
<1>2. JobInv /\ TermInv => AcknowledgedIsOver
  BY <1>1 DEF AcknowledgedIsOver
<1> QED BY <1>2, Invariance, TermInvariance, PTL

\* Whichever step of a start fails, as long as the daemon has not been restarted: a
\* job that is pending is in the hands of a goroutine that is to start its rclone or
\* to close its row, which is what PendingEnds needs.
THEOREM PendingJobsAreTended == Spec => []PendingIsTended
<1>1. ASSUME TermInv, NEW j \in Jobs, job[j] = "pending", up = "up", restarts = 0
      PROVE  rc[j] = "none" /\ run[j].at \in Early \cup {"closing"}
  BY <1>1 DEF TermInv, Launched, Ended
<1>2. TermInv => PendingIsTended
  BY <1>1 DEF PendingIsTended
<1> QED BY <1>2, TermInvariance, PTL
=============================================================================
