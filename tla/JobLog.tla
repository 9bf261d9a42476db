------------------------------- MODULE JobLog -------------------------------
(***************************************************************************)
(* A job's log: rclone writes it, a page counts the files it reports        *)
(* (jobDoneCount in internal/server/done_count.go) and follows it           *)
(* (streamFileSSE in internal/server/logstream.go), the janitor removes it  *)
(* (internal/daemon/janitor.go).  None of them waits for another.           *)
(*                                                                         *)
(* rclone writes a line with one call, so a reader sees whole lines; a line *)
(* names the path that was transferred.  Sizes and offsets count lines.     *)
(***************************************************************************)
EXTENDS ManualJobs

CONSTANTS
    Paths,
    MaxLines,  \* bound on the lines of a log
    TailLines  \* the lines a stream begins with (199: of 200 the last is empty)

ASSUME LogBounds == MaxLines \in Nat /\ TailLines \in Nat \ {0}

VARIABLES
    file,    \* the log files: "none", "there" or "removed"
    log,     \* what rclone has written
    entry,   \* doneCache
    count,   \* a call of doneCountFromLog (doneMu lets one in at a time)
    stream   \* a call of streamFileSSE

lvars == <<file, log, entry, count, stream>>
vars  == <<args, text, job, run, rc, reg, flagged, term, up, restarts, acked, recovered,
           file, log, entry, count, stream>>

NoEntry == [offset |-> 0, size |-> 0, done |-> {}]
NoCount == [at |-> "idle", job |-> NoJob, size |-> 0]

\* saw: the status read by the request; from: the first line of the tail; got:
\* history, the lines that were sent.
NoStream == [at |-> "idle", job |-> NoJob, saw |-> "none", offset |-> 0, from |-> 1, got |-> {}]

LInit ==
    /\ file = [j \in Jobs |-> "none"]
    /\ log = [j \in Jobs |-> <<>>]
    /\ entry = [j \in Jobs |-> NoEntry]
    /\ count = NoCount
    /\ stream = NoStream

Lines(j, m, n) == {log[j][i] : i \in m..n}

---------------------------------------------------------------------------
(* Writers.                                                                *)

\* rclone opens its log first; it writes on when the file has been unlinked.
WriteLog(j) ==
    /\ rc[j] = "alive"
    /\ \/ /\ file[j] = "none"
          /\ file' = [file EXCEPT ![j] = "there"]
          /\ log' = log
       \/ /\ file[j] # "none" /\ Len(log[j]) < MaxLines
          /\ \E p \in Paths : log' = [log EXCEPT ![j] = Append(@, p)]
          /\ file' = file
    /\ UNCHANGED <<entry, count, stream>>

\* cleanOldJobLogs, of a file that has not been written for log_retention_days,
\* whatever its job does.
CleanLog(j) ==
    /\ up = "up"
    /\ "retention" \in Faults
    /\ file[j] = "there"
    /\ file' = [file EXCEPT ![j] = "removed"]
    /\ UNCHANGED <<log, entry, count, stream>>

---------------------------------------------------------------------------
(* doneCountFromLog.                                                       *)

\* (A bound: the stream and the count have no state in common, and a job's log is
\* streamed before it is counted, one at a time.)

\* os.Stat.  When the size is that of the last call, its answer stands.  (The
\* time is compared too; a log grows whenever it is written.)
StatLog(j) ==
    /\ up # "down" /\ job[j] # "none"
    /\ count.at = "idle" /\ stream.at = "idle"
    /\ file[j] = "there"
    /\ Len(log[j]) # entry[j].size
    /\ count' = [at |-> "read", job |-> j, size |-> Len(log[j])]
    /\ entry' = IF Len(log[j]) < entry[j].offset THEN [entry EXCEPT ![j] = NoEntry] ELSE entry
    /\ UNCHANGED <<file, log, stream>>

\* Mutant: the next call begins where this one has begun to read no more, at
\* the end the file has by now, and takes the lines up to the size it knew.
ReadToSize(j, size) ==
    [offset |-> Len(log[j]), size |-> size,
     done |-> entry[j].done \cup Lines(j, entry[j].offset + 1, size)]

\* Mutant: the offset is that of the next line.
ReadPastEnd(j, size) ==
    [offset |-> size + 1, size |-> size,
     done |-> entry[j].done \cup Lines(j, entry[j].offset + 1, Len(log[j]))]

\* All lines from the offset to the end, which may be past the size by now; the
\* next call reads those again.
ReadToEnd(j, size) ==
    [offset |-> size, size |-> size,
     done |-> entry[j].done \cup Lines(j, entry[j].offset + 1, Len(log[j]))]

ReadLog ==
    /\ count.at = "read"
    /\ LET j == count.job
       IN  entry' = IF file[j] = "there" THEN [entry EXCEPT ![j] = ReadToEnd(j, count.size)] ELSE entry
    /\ count' = NoCount
    /\ UNCHANGED <<file, log, stream>>

---------------------------------------------------------------------------
(* streamFileSSE.                                                          *)

\* Mutant: only a job that is done is over.
jobEndedDone(status) == status = "done"

\* Mutant: every job is taken for over.
jobEndedAlways(status) == TRUE

\* Of the row as the request has read it, not as it is by now.
jobEnded(status) == status \in {"done", "failed"}

OpenStream(j) ==
    /\ up # "down" /\ job[j] # "none"
    /\ stream.at = "idle" /\ count.at = "idle" /\ entry[j] = NoEntry
    /\ stream' = [NoStream EXCEPT !.at = "opening", !.job = j, !.saw = job[j]]
    /\ UNCHANGED <<file, log, entry, count>>

\* os.Open, tailLastLines.
SendTail ==
    /\ stream.at = "opening"
    /\ file[stream.job] = "there"
    /\ LET n    == Len(log[stream.job])
           from == IF n > TailLines THEN n - TailLines + 1 ELSE 1
       IN  stream' = [stream EXCEPT !.at = "tailed", !.from = from, !.got = from..n]
    /\ UNCHANGED <<file, log, entry, count>>

\* It cannot be opened for 8 seconds.
GiveUp ==
    /\ stream.at = "opening"
    /\ file[stream.job] # "there"
    /\ stream' = [stream EXCEPT !.at = "closed"]
    /\ UNCHANGED <<file, log, entry, count>>

\* f.Seek to the end, wherever that is by now.
SeekEnd ==
    /\ stream.at = "tailed"
    /\ stream' = [stream EXCEPT !.at = "following", !.offset = Len(log[stream.job])]
    /\ UNCHANGED <<file, log, entry, count>>

\* A tick sends what has come, and closes the stream of a job that is over.
Follow ==
    /\ stream.at = "following"
    /\ LET n == Len(log[stream.job])
       IN  /\ n > stream.offset \/ jobEnded(stream.saw)
           /\ stream' = [stream EXCEPT !.offset = n, !.got = @ \cup (stream.offset + 1 .. n),
                                       !.at = IF jobEnded(stream.saw) THEN "done" ELSE @]
    /\ UNCHANGED <<file, log, entry, count>>

\* The client goes.
LeaveStream ==
    /\ stream.at # "idle"
    /\ stream' = NoStream
    /\ UNCHANGED <<file, log, entry, count>>

---------------------------------------------------------------------------
\* The cache and the requests die with the daemon.
Forget == /\ entry' = [j \in Jobs |-> NoEntry]
          /\ count' = NoCount
          /\ stream' = NoStream
          /\ UNCHANGED <<file, log>>

StreamStep == SendTail \/ GiveUp \/ SeekEnd \/ Follow

LogStep == \/ \E j \in Jobs : WriteLog(j) \/ CleanLog(j) \/ StatLog(j) \/ OpenStream(j)
           \/ ReadLog \/ StreamStep \/ LeaveStream

Init == MInit /\ LInit /\ EmptyField

Next == \/ FormStep /\ UNCHANGED lvars
        \/ DaemonStep /\ UNCHANGED field
           /\ IF up' = "down" /\ up # "down" THEN Forget ELSE UNCHANGED lvars
        \/ LogStep /\ UNCHANGED <<field, mvars>>

Fairness == MFairness /\ WF_lvars(StreamStep)

Spec == Init /\ [][Next]_vars /\ Fairness

---------------------------------------------------------------------------
(* Correctness.                                                            *)

Entries == [offset : 0..MaxLines, size : 0..MaxLines, done : SUBSET Paths]
Streams == [at : {"opening", "tailed", "following", "done", "closed"}, job : Jobs,
            saw : {"pending", "running"} \cup Ended,
            offset : 0..MaxLines, from : 1..MaxLines + 1, got : SUBSET (1..MaxLines)]

LTypeOK ==
    /\ file \in [Jobs -> {"none", "there", "removed"}]
    /\ log \in [Jobs -> Seq(Paths)] /\ \A j \in Jobs : Len(log[j]) <= MaxLines
    /\ entry \in [Jobs -> Entries]
    /\ count \in {NoCount} \cup [at : {"read"}, job : Jobs, size : 0..MaxLines]
    /\ stream \in {NoStream} \cup Streams

\* Every variable holds a value of its type.
TypeOK == FieldTypeOK /\ MTypeOK /\ LTypeOK

\* However the log grows between the calls that stat and read it: the files
\* that are counted are all those of the size it is remembered by, and none that
\* the log does not report.
DoneCountExact ==
    \A j \in Jobs : /\ Lines(j, 1, entry[j].size) \subseteq entry[j].done
                    /\ entry[j].done \subseteq Lines(j, 1, Len(log[j]))

\* When a stream says that it is done, the user has every line from the tail on.
\* (Not so when an rclone that survived its daemon writes on.)
DoneStreamComplete ==
    stream.at = "done" /\ stream.job \notin recovered =>
        stream.from .. Len(log[stream.job]) \subseteq stream.got

\* The stream of a job that was done or had failed comes to its end, without a
\* client that goes.
StreamEnds == stream.at = "opening" /\ stream.saw \in {"done", "failed"} ~> stream.at \in {"done", "closed", "idle"}
=============================================================================
