-------------------------- MODULE SupervisorProofs --------------------------
(***************************************************************************)
(* Proofs about Supervisor, for any number of rules, workers and requests,  *)
(* any configurations and any faults.                                      *)
(***************************************************************************)
EXTENDS Supervisor, TLAPS

USE ConfigsNormal, InputsBound, NoneIsNone

---------------------------------------------------------------------------
(* Type correctness.                                                       *)

LEMMA WorkerType ==
  ASSUME TypeOK, NEW w \in Workers, wk[w].stage # "none"
  PROVE  /\ wk[w] \in WorkerRecords \ {NoWorker}
         /\ wk[w].rule \in Rules /\ wk[w].config \in Configs
         /\ wk[w].stopped \in BOOLEAN /\ wk[w].cancelled \in BOOLEAN
         /\ wk[w].steady \in BOOLEAN
BY DEF TypeOK, WorkerRecords, NoWorker

LEMMA WorkerFields ==
  ASSUME NEW rec \in WorkerRecords \ {NoWorker}
  PROVE  /\ \A s \in Stages \ {"none"} : [rec EXCEPT !.stage = s] \in WorkerRecords \ {NoWorker}
         /\ \A b \in BOOLEAN : /\ [rec EXCEPT !.stopped = b] \in WorkerRecords \ {NoWorker}
                               /\ [rec EXCEPT !.cancelled = b] \in WorkerRecords \ {NoWorker}
                               /\ [rec EXCEPT !.scanCh = b] \in WorkerRecords \ {NoWorker}
                               /\ [rec EXCEPT !.pending = b] \in WorkerRecords \ {NoWorker}
                               /\ [rec EXCEPT !.steady = b] \in WorkerRecords \ {NoWorker}
BY DEF WorkerRecords, NoWorker

LEMMA NewWorkerType ==
  ASSUME NEW r \in Rules, NEW c \in Configs, NEW b \in BOOLEAN
  PROVE  newRuleWorker(r, c, b) \in WorkerRecords \ {NoWorker}
BY DEF newRuleWorker, NoWorker, WorkerRecords, Stages

LEMMA ReturnedType ==
  ASSUME TypeOK, NEW w \in Workers, wk[w].stage # "none", NEW how \in {"exited", "dead"}
  PROVE  Returned(w, how) \in WorkerRecords
BY WorkerType DEF Returned, NoWorker, WorkerRecords, Stages

LEMMA StoppedType ==
  ASSUME NEW rec \in WorkerRecords
  PROVE  closed(rec) \in WorkerRecords /\ stopped(rec) \in WorkerRecords
<1>1. CASE rec = NoWorker
  BY <1>1 DEF closed, stopped, NoWorker, Alive
<1>2. CASE rec # NoWorker
  BY <1>2, WorkerFields DEF closed, stopped
<1> QED BY <1>1, <1>2

LEMMA TypeInit == Init => TypeOK
<1> SUFFICES ASSUME Init PROVE TypeOK
  OBVIOUS
<1>1. row \in [Rules -> Rows]
  BY DEF Init, Rows, Stored
<1>2. wk \in [Workers -> WorkerRecords] /\ post \in [Posts -> PostRecords]
  BY DEF Init, WorkerRecords, PostRecords
<1> QED BY <1>1, <1>2 DEF Init, TypeOK

LEMMA WriteType ==
  ASSUME TypeOK, NEW r \in Rules, NEW new \in Rows, Write(r, new)
  PROVE  row' \in [Rules -> Rows] /\ wk' \in [Workers -> WorkerRecords] /\ inputs' \in 0..MaxInputs
<1>1. inputs' \in 0..MaxInputs
  BY DEF Write, TypeOK
<1>2. row' \in [Rules -> Rows]
  BY DEF Write, TypeOK
<1>3. ASSUME NEW w \in Workers PROVE wk'[w] \in WorkerRecords
  <2>1. wk[w] \in WorkerRecords
    BY DEF TypeOK
  <2>2. CASE wk[w] = NoWorker
    <3>1. wk'[w] = wk[w]
      BY <2>2 DEF Write, NoWorker
    <3> QED BY <2>1, <3>1
  <2>3. CASE wk[w] # NoWorker
    <3>1. [wk[w] EXCEPT !.steady = FALSE] \in WorkerRecords
      BY <2>1, <2>3, WorkerFields
    <3> QED BY <2>1, <3>1 DEF Write
  <2> QED BY <2>2, <2>3
<1>4. wk' \in [Workers -> WorkerRecords]
  BY <1>3 DEF Write
<1> QED BY <1>1, <1>2, <1>4

LEMMA ThenStopType ==
  ASSUME TypeOK, NEW p \in Posts, NEW r \in Rules, NEW b, ThenStop(p, r, b)
  PROVE  post' \in [Posts -> PostRecords]
<1>1. Idle \in PostRecords /\ [Idle EXCEPT !.at = "stop", !.rule = r] \in PostRecords
  BY DEF PostRecords, Idle
<1> QED BY <1>1 DEF ThenStop, TypeOK

LEMMA PostType ==
  ASSUME TypeOK, NEW p \in Posts
  PROVE  /\ post[p] \in PostRecords
         /\ post[p].at \in {"idle", "write", "stop", "close", "cancel", "trigger"}
         /\ post[p].at = "write" => post[p].rule \in Rules /\ post[p].row \in Stored
         /\ post[p].at = "stop" => post[p].rule \in Rules
         /\ post[p].at \in {"close", "cancel", "trigger"} => post[p].worker \in Workers
         /\ post[p].at \notin {"close", "cancel", "trigger"} => post[p].worker = None
<1>1. post[p] \in PostRecords
  BY DEF TypeOK
<1> QED BY <1>1 DEF PostRecords, Idle

\* The new map and workers of a reconcile: the chosen assignment.
LEMMA Chosen ==
  ASSUME TypeOK, Reconcile
  PROVE  \E f \in Assignments :
            /\ workers' = [r \in Rules |-> IF r \in Started THEN f[r]
                                           ELSE IF Outdated(r) THEN None ELSE workers[r]]
            /\ wk' \in [Workers -> WorkerRecords]
            /\ \A r \in Started : wk'[f[r]] = newRuleWorker(r, list[r].config, row[r] = list[r])
            /\ \A w \in Workers : (\A r \in Started : f[r] # w) =>
                  wk'[w] = IF w \in Dropped THEN stopped(wk[w]) ELSE wk[w]
            /\ \A r \in Started : list[r] \in Stored /\ list[r].enabled
<1> DEFINE f == CHOOSE g \in Assignments : TRUE
<1>1. f \in Assignments
  BY DEF Reconcile
<1>2. /\ workers' = [r \in Rules |-> IF r \in Started THEN f[r]
                                     ELSE IF Outdated(r) THEN None ELSE workers[r]]
      /\ wk' = [w \in Workers |->
                   IF w \in Range(f)
                   THEN LET r == CHOOSE q \in Started : f[q] = w
                        IN  newRuleWorker(r, list[r].config, row[r] = list[r])
                   ELSE IF w \in Dropped THEN stopped(wk[w]) ELSE wk[w]]
  BY DEF Reconcile
<1> HIDE DEF f
<1>3. f \in [Started -> Reusable] /\ \A a, b \in Started : f[a] = f[b] => a = b
  BY <1>1 DEF Assignments, IsInjective
<1>4. Started \subseteq Rules /\ Reusable \subseteq Workers
  BY DEF Started, Desired, Reusable
<1>5. ASSUME NEW r \in Started PROVE wk'[f[r]] = newRuleWorker(r, list[r].config, row[r] = list[r])
  <2>1. f[r] \in Range(f) /\ f[r] \in Workers
    BY <1>3, <1>4 DEF Range
  <2>2. (CHOOSE q \in Started : f[q] = f[r]) = r
    BY <1>3
  <2> QED BY <1>2, <2>1, <2>2
<1>6. ASSUME NEW w \in Workers, \A r \in Started : f[r] # w
      PROVE  wk'[w] = IF w \in Dropped THEN stopped(wk[w]) ELSE wk[w]
  <2>1. w \notin Range(f)
    BY <1>3, <1>6 DEF Range
  <2> QED BY <1>2, <2>1
<1>7. ASSUME NEW r \in Started PROVE list[r] \in Stored /\ list[r].enabled
  <2>1. list[r] \in Rows /\ list[r].enabled
    BY <1>4 DEF Reconcile, TypeOK, Started, Desired
  <2> QED BY <2>1 DEF Rows, NoRow
<1>8. ASSUME NEW w \in Workers PROVE wk'[w] \in WorkerRecords
  <2>1. CASE \E r \in Started : f[r] = w
    <3>1. PICK r \in Started : f[r] = w
      BY <2>1
    <3> DEFINE b == row[r] = list[r]
    <3>2. r \in Rules /\ list[r].config \in Configs /\ b \in BOOLEAN
      BY <1>4, <1>7 DEF Stored
    <3>3. wk'[w] = newRuleWorker(r, list[r].config, b)
      BY <1>5, <3>1
    <3> HIDE DEF b
    <3>4. newRuleWorker(r, list[r].config, b) \in WorkerRecords \ {NoWorker}
      BY <3>2, NewWorkerType
    <3> QED BY <3>3, <3>4
  <2>2. CASE \A r \in Started : f[r] # w
    BY <1>6, <2>2, StoppedType DEF TypeOK
  <2> QED BY <2>1, <2>2
<1>9. wk' \in [Workers -> WorkerRecords]
  BY <1>2, <1>8
<1> QED BY <1>1, <1>2, <1>5, <1>6, <1>7, <1>9

\* A step of one worker.
LEMMA OneWorkerType ==
  ASSUME TypeOK, NEW w \in Workers, NEW rec \in WorkerRecords, wk' = [wk EXCEPT ![w] = rec]
  PROVE  wk' \in [Workers -> WorkerRecords] /\ \A v \in Workers : wk'[v] = IF v = w THEN rec ELSE wk[v]
BY DEF TypeOK

\* What run, before it returns, watchLocal and triggerScan do to a worker.
Steps(w) ==
    /\ wk' \in [Workers -> WorkerRecords]
    /\ \A v \in Workers \ {w} : wk'[v] = wk[v]
    /\ wk'[w].rule = wk[w].rule /\ wk'[w].config = wk[w].config
    /\ wk'[w].stopped = wk[w].stopped /\ wk'[w].steady = wk[w].steady
    /\ wk[w].stage # "none"
    /\ wk'[w].stage = wk[w].stage \/ (wk[w].stage \in Alive /\ wk'[w].stage \in Alive)
    /\ wk[w].cancelled => wk'[w].cancelled
    /\ wk[w].stage = "created" /\ wk[w].stopped => wk'[w].stage = "created" \/ wk'[w].cancelled

LEMMA AliveStage == /\ Alive \subseteq Stages \ {"none"}
                    /\ NoWorker.stage \notin Alive
                    /\ {"created", "entered", "looping", "scanning"} \subseteq Alive
BY DEF Alive, Stages, NoWorker

\* A step changes the stage and up to two more fields.
LEMMA FieldSteps ==
  ASSUME TypeOK, NEW w \in Workers, wk[w].stage # "none",
         NEW s \in Alive, NEW b \in BOOLEAN
  PROVE  /\ wk' = [wk EXCEPT ![w] = [wk[w] EXCEPT !.stage = s, !.scanCh = b]]
               /\ wk[w].stage \in Alive \ {"created"} => Steps(w)
         /\ wk' = [wk EXCEPT ![w] = [wk[w] EXCEPT !.stage = s]] /\ wk[w].stage \in Alive \ {"created"} => Steps(w)
         /\ wk' = [wk EXCEPT ![w] = [wk[w] EXCEPT !.scanCh = b]] => Steps(w)
         /\ wk' = [wk EXCEPT ![w] = [wk[w] EXCEPT !.pending = b]] => Steps(w)
         /\ wk' = [wk EXCEPT ![w] = [wk[w] EXCEPT !.scanCh = TRUE, !.pending = b]] => Steps(w)
         /\ wk' = [wk EXCEPT ![w] = [wk[w] EXCEPT !.stage = s, !.cancelled = wk[w].cancelled \/ wk[w].stopped]]
               /\ wk[w].stage \in Alive => Steps(w)
<1>1. wk[w] \in WorkerRecords \ {NoWorker} /\ s \in Stages \ {"none"}
      /\ wk[w].cancelled \in BOOLEAN /\ wk[w].stopped \in BOOLEAN
  BY WorkerType, AliveStage
<1>2. wk[w] \in [stage : Stages \ {"none"}, rule : Rules, config : Configs,
                  stopped : BOOLEAN, cancelled : BOOLEAN, scanCh : BOOLEAN,
                  pending : BOOLEAN, steady : BOOLEAN]
  BY <1>1 DEF WorkerRecords
<1>3. ASSUME NEW rec \in WorkerRecords, wk' = [wk EXCEPT ![w] = rec],
             rec.rule = wk[w].rule, rec.config = wk[w].config, rec.stopped = wk[w].stopped,
             rec.steady = wk[w].steady, wk[w].cancelled => rec.cancelled,
             rec.stage = wk[w].stage \/ (wk[w].stage \in Alive /\ rec.stage \in Alive),
             wk[w].stage = "created" /\ wk[w].stopped => rec.stage = "created" \/ rec.cancelled
      PROVE  Steps(w)
  BY <1>3, OneWorkerType DEF Steps
<1>4. ASSUME wk' = [wk EXCEPT ![w] = [wk[w] EXCEPT !.stage = s, !.scanCh = b]],
             wk[w].stage \in Alive \ {"created"}
      PROVE  Steps(w)
  <2> DEFINE rec == [wk[w] EXCEPT !.stage = s, !.scanCh = b]
  <2>1. rec \in WorkerRecords
    BY <1>1, <1>2 DEF WorkerRecords
  <2>2. /\ rec.rule = wk[w].rule /\ rec.config = wk[w].config /\ rec.stopped = wk[w].stopped
        /\ rec.steady = wk[w].steady /\ rec.stage = s /\ rec.cancelled = wk[w].cancelled
    BY <1>2
  <2> HIDE DEF rec
  <2>3. wk' = [wk EXCEPT ![w] = rec]
    BY <1>4 DEF rec
  <2> QED BY <1>3, <1>4, <2>1, <2>2, <2>3
<1>5. ASSUME wk' = [wk EXCEPT ![w] = [wk[w] EXCEPT !.stage = s]],
             wk[w].stage \in Alive \ {"created"}
      PROVE  Steps(w)
  <2> DEFINE rec == [wk[w] EXCEPT !.stage = s]
  <2>1. rec \in WorkerRecords
    BY <1>1, <1>2 DEF WorkerRecords
  <2>2. /\ rec.rule = wk[w].rule /\ rec.config = wk[w].config /\ rec.stopped = wk[w].stopped
        /\ rec.steady = wk[w].steady /\ rec.stage = s /\ rec.cancelled = wk[w].cancelled
    BY <1>2
  <2> HIDE DEF rec
  <2>3. wk' = [wk EXCEPT ![w] = rec]
    BY <1>5 DEF rec
  <2> QED BY <1>3, <1>5, <2>1, <2>2, <2>3
<1>6. ASSUME NEW rec \in WorkerRecords, wk' = [wk EXCEPT ![w] = rec],
             \/ rec = [wk[w] EXCEPT !.scanCh = b]
             \/ rec = [wk[w] EXCEPT !.pending = b]
             \/ rec = [wk[w] EXCEPT !.scanCh = TRUE, !.pending = b]
      PROVE  Steps(w)
  <2>2. /\ rec.rule = wk[w].rule /\ rec.config = wk[w].config /\ rec.stopped = wk[w].stopped
        /\ rec.steady = wk[w].steady /\ rec.stage = wk[w].stage /\ rec.cancelled = wk[w].cancelled
    BY <1>2, <1>6
  <2> QED BY <1>3, <1>6, <2>2
<1>7. /\ [wk[w] EXCEPT !.scanCh = b] \in WorkerRecords
      /\ [wk[w] EXCEPT !.pending = b] \in WorkerRecords
      /\ [wk[w] EXCEPT !.scanCh = TRUE, !.pending = b] \in WorkerRecords
  BY <1>2 DEF WorkerRecords
<1>8. ASSUME wk' = [wk EXCEPT ![w] = [wk[w] EXCEPT !.stage = s, !.cancelled = wk[w].cancelled \/ wk[w].stopped]],
             wk[w].stage \in Alive
      PROVE  Steps(w)
  <2> DEFINE c == wk[w].cancelled \/ wk[w].stopped
             rec == [wk[w] EXCEPT !.stage = s, !.cancelled = c]
  <2>1. c \in BOOLEAN
    BY <1>1
  <2>2. rec \in WorkerRecords
    <3> HIDE DEF c
    <3> QED BY <1>1, <1>2, <2>1 DEF WorkerRecords
  <2>3. /\ rec.rule = wk[w].rule /\ rec.config = wk[w].config /\ rec.stopped = wk[w].stopped
        /\ rec.steady = wk[w].steady /\ rec.stage = s /\ rec.cancelled = c
    <3> HIDE DEF c
    <3> QED BY <1>2
  <2> HIDE DEF rec
  <2>4. wk' = [wk EXCEPT ![w] = rec]
    BY <1>8 DEF rec
  <2> QED BY <1>3, <1>8, <2>2, <2>3, <2>4
<1> QED BY <1>4, <1>5, <1>6, <1>7, <1>8

\* The steps of run and watchLocal, one by one.
LEMMA RunSteps ==
  ASSUME TypeOK, NEW w \in Workers
  PROVE  /\ setCancel(w) \/ Prime(w) \/ EndScan(w) \/ WatchEvent(w) => Steps(w)
         /\ ScanAsked(w) \/ ScanTicked(w) => Steps(w)
         /\ Debounced(w) \/ WatchEnds(w) => Steps(w)
         /\ wk[w].stage \in Alive /\ wk' = triggerScan(w) => Steps(w)
<1>0. ASSUME wk[w].stage \in Alive
      PROVE  wk[w].scanCh \in BOOLEAN /\ wk[w].pending \in BOOLEAN
  BY <1>0, WorkerType, AliveStage DEF WorkerRecords, NoWorker
<1>1. ASSUME setCancel(w) PROVE Steps(w)
  <2>1. wk[w].stage \in Alive /\ "entered" \in Alive
    BY <1>1, AliveStage DEF setCancel
  <2>2. wk' = [wk EXCEPT ![w] = [wk[w] EXCEPT !.stage = "entered", !.cancelled = wk[w].cancelled \/ wk[w].stopped]]
    BY <1>1 DEF setCancel, CancelIfStopped, TypeOK
  <2> QED BY <2>1, <2>2, FieldSteps, AliveStage
<1>2. ASSUME Prime(w) PROVE Steps(w)
  <2>1. wk[w].stage \in Alive /\ "looping" \in Alive /\ wk[w].stage # "created"
    BY <1>2, AliveStage DEF Prime
  <2>2. wk' = [wk EXCEPT ![w] = [wk[w] EXCEPT !.stage = "looping", !.scanCh = TRUE]]
    BY <1>2 DEF Prime, TypeOK
  <2> QED BY <2>1, <2>2, FieldSteps, AliveStage
<1>3. ASSUME EndScan(w) PROVE Steps(w)
  <2>1. wk[w].stage \in Alive /\ "looping" \in Alive /\ wk[w].stage # "created"
    BY <1>3, AliveStage DEF EndScan
  <2>2. wk' = [wk EXCEPT ![w] = [wk[w] EXCEPT !.stage = "looping"]]
    BY <1>3 DEF EndScan, TypeOK
  <2> QED BY <2>1, <2>2, FieldSteps, AliveStage
<1>4. ASSUME WatchEvent(w) PROVE Steps(w)
  <2>1. wk[w].stage \in Alive
    BY <1>4, AliveStage DEF WatchEvent
  <2>2. wk' = [wk EXCEPT ![w] = [wk[w] EXCEPT !.pending = TRUE]]
    BY <1>4 DEF WatchEvent, TypeOK
  <2> QED BY <2>1, <2>2, FieldSteps, AliveStage
<1>5. ASSUME ScanAsked(w) \/ ScanTicked(w) PROVE Steps(w)
  <2>1. wk[w].stage \in Alive /\ "scanning" \in Alive /\ wk[w].stage # "created"
    BY <1>5, AliveStage DEF ScanAsked, ScanTicked, BeginScan
  <2>2. \E b \in BOOLEAN : wk' = [wk EXCEPT ![w] = [wk[w] EXCEPT !.stage = "scanning", !.scanCh = b]]
    BY <1>0, <1>5, <2>1 DEF ScanAsked, ScanTicked, BeginScan, TypeOK
  <2> QED BY <2>1, <2>2, FieldSteps, AliveStage
<1>6. ASSUME Debounced(w) PROVE Steps(w)
  <2>1. wk[w].stage # "none"
    BY <1>6 DEF Debounced, TypeOK, WorkerRecords, NoWorker
  <2>2. wk' = [wk EXCEPT ![w] = [wk[w] EXCEPT !.scanCh = TRUE, !.pending = FALSE]]
    BY <1>6 DEF Debounced, triggerScan, TypeOK
  <2> QED BY <2>1, <2>2, FieldSteps, AliveStage
<1>7. ASSUME WatchEnds(w) PROVE Steps(w)
  <2>1. wk[w].stage # "none"
    BY <1>7 DEF WatchEnds, TypeOK, WorkerRecords, NoWorker
  <2>2. wk' = [wk EXCEPT ![w] = [wk[w] EXCEPT !.pending = FALSE]]
    BY <1>7 DEF WatchEnds, TypeOK
  <2> QED BY <2>1, <2>2, FieldSteps, AliveStage
<1>8. ASSUME wk[w].stage \in Alive, wk' = triggerScan(w) PROVE Steps(w)
  <2>2. wk' = [wk EXCEPT ![w] = [wk[w] EXCEPT !.scanCh = TRUE]]
    BY <1>8 DEF triggerScan, TypeOK
  <2> QED BY <1>8, <2>2, FieldSteps, AliveStage
<1> QED BY <1>1, <1>2, <1>3, <1>4, <1>5, <1>6, <1>7, <1>8

---------------------------------------------------------------------------
(* The inductive invariant.                                                *)

\* The map names a rule's own worker, which nobody has stopped.
MapInv == \A r \in Rules : workers[r] # None =>
             /\ wk[workers[r]].rule = r /\ wk[workers[r]].stage # "none"
             /\ ~wk[workers[r]].stopped

\* Who is to stop a worker has taken it out of the map.
HeldInv == \A p \in Posts : post[p].at \in {"close", "cancel"} =>
              \A r \in Rules : workers[r] # post[p].worker

\* What the map's worker runs with is in its row, and in the list that was read.
SteadyInv == \A r \in Rules : workers[r] # None /\ wk[workers[r]].steady =>
                /\ row[r].enabled /\ row[r].config = wk[workers[r]].config
                /\ list # Unread => list[r].enabled /\ list[r].config = wk[workers[r]].config

SInv == TypeOK /\ MapInv /\ HeldInv /\ SteadyInv /\ NoLeakedWorker /\ StopCancels

\* No request begins to stop a worker, or ends.
SameHeld == \A p \in Posts :
               post[p].at \in {"close", "cancel"} \/ post'[p].at \in {"close", "cancel"}
               => post'[p] = post[p]

LEMMA SameHeldHeld ==
  ASSUME SameHeld, NEW w
  PROVE  /\ Held(w, "close") <=> Held(w, "close")'
         /\ Held(w, "cancel") <=> Held(w, "cancel")'
BY DEF SameHeld, Held

\* The map's entry, when it has one, is a worker.
LEMMA MapType ==
  ASSUME TypeOK, NEW r \in Rules, workers[r] # None
  PROVE  workers[r] \in Workers
BY DEF TypeOK

LEMMA SInit == Init => SInv
<1> SUFFICES ASSUME Init PROVE SInv
  OBVIOUS
<1>1. TypeOK
  BY TypeInit
<1>2. MapInv /\ SteadyInv
  BY DEF Init, MapInv, SteadyInv
<1>3. HeldInv
  BY DEF Init, HeldInv, Idle
<1>4. NoLeakedWorker /\ StopCancels
  BY AliveStage DEF Init, NoLeakedWorker, StopCancels, NoWorker
<1> QED BY <1>1, <1>2, <1>3, <1>4 DEF SInv

\* A write of a row disturbs only what is steady.
LEMMA WriteKeeps ==
  ASSUME SInv, TypeOK', NEW r \in Rules, NEW new \in Rows, Write(r, new), SameHeld,
         UNCHANGED <<list, workers, up>>
  PROVE  SInv'
<1>1. ASSUME NEW w \in Workers, wk[w].stage # "none"
      PROVE  /\ wk'[w].rule = wk[w].rule /\ wk'[w].config = wk[w].config
             /\ wk'[w].stopped = wk[w].stopped /\ wk'[w].stage = wk[w].stage
             /\ wk'[w].cancelled = wk[w].cancelled
             /\ wk'[w].steady => /\ wk[w].steady
                                 /\ wk[w].rule = r => new.enabled /\ new.config = wk[w].config
  <2>1. wk[w] \in [stage : Stages \ {"none"}, rule : Rules, config : Configs,
                   stopped : BOOLEAN, cancelled : BOOLEAN, scanCh : BOOLEAN,
                   pending : BOOLEAN, steady : BOOLEAN]
    BY <1>1, WorkerType DEF SInv, WorkerRecords
  <2> QED BY <2>1 DEF Write
<1>2. ASSUME NEW w \in Workers PROVE wk'[w].stage = wk[w].stage
  <2>1. CASE wk[w].stage = "none"
    <3>1. wk[w] = NoWorker
      BY <2>1, WorkerType DEF SInv, TypeOK, WorkerRecords
    <3>2. wk[w].rule # r
      BY <3>1 DEF NoWorker
    <3> QED BY <3>2 DEF Write
  <2> QED BY <1>1, <2>1
<1>3. MapInv' /\ HeldInv'
  BY <1>1, MapType DEF SInv, MapInv, HeldInv, SameHeld
<1>4. SteadyInv'
  <2> SUFFICES ASSUME NEW q \in Rules, workers[q] # None, wk'[workers[q]].steady
               PROVE  /\ row'[q].enabled /\ row'[q].config = wk'[workers[q]].config
                      /\ list # Unread => list[q].enabled /\ list[q].config = wk'[workers[q]].config
    BY DEF SteadyInv
  <2>1. workers[q] \in Workers /\ wk[workers[q]].rule = q /\ wk[workers[q]].stage # "none"
    BY MapType DEF SInv, MapInv
  <2>2. /\ row[q].enabled /\ row[q].config = wk[workers[q]].config
        /\ list # Unread => list[q].enabled /\ list[q].config = wk[workers[q]].config
    BY <1>1, <2>1 DEF SInv, SteadyInv
  <2>3. row'[q] = IF q = r THEN new ELSE row[q]
    BY DEF Write, SInv, TypeOK
  <2> QED BY <1>1, <2>1, <2>2, <2>3
<1>5. NoLeakedWorker'
  BY <1>1, <1>2, SameHeldHeld, AliveStage DEF SInv, NoLeakedWorker
<1>6. StopCancels'
  BY <1>1, <1>2, SameHeldHeld, AliveStage DEF SInv, StopCancels
<1> QED BY <1>3, <1>4, <1>5, <1>6 DEF SInv

\* A step of run or watchLocal, before run returns, or a trigger.
LEMMA StepsKeep ==
  ASSUME SInv, TypeOK', NEW w \in Workers, Steps(w), SameHeld,
         UNCHANGED <<row, list, workers, up>>
  PROVE  SInv'
<1>1. ASSUME NEW v \in Workers
      PROVE  /\ wk'[v].rule = wk[v].rule /\ wk'[v].config = wk[v].config
             /\ wk'[v].stopped = wk[v].stopped /\ wk'[v].steady = wk[v].steady
             /\ wk'[v].stage \in Alive <=> wk[v].stage \in Alive
             /\ wk[v].stage # "none" => wk'[v].stage # "none"
             /\ wk[v].cancelled => wk'[v].cancelled
  BY AliveStage DEF Steps
<1>2. MapInv' /\ HeldInv' /\ SteadyInv'
  BY <1>1, MapType DEF SInv, MapInv, HeldInv, SteadyInv, SameHeld
<1>3. NoLeakedWorker'
  BY <1>1, SameHeldHeld DEF SInv, NoLeakedWorker
<1>4. StopCancels'
  <2> SUFFICES ASSUME NEW v \in Workers, wk'[v].stopped, wk'[v].stage \in Alive \ {"created"}
               PROVE  wk'[v].cancelled \/ Held(v, "cancel")'
    BY DEF StopCancels
  <2>1. CASE wk[v].stage # "created"
    BY <1>1, <2>1, SameHeldHeld DEF SInv, StopCancels
  <2>2. CASE wk[v].stage = "created"
    BY <1>1, <2>2 DEF Steps
  <2> QED BY <2>1, <2>2
<1> QED BY <1>2, <1>3, <1>4 DEF SInv

\* run returns.
LEMMA ReturnKeeps ==
  ASSUME SInv, TypeOK', NEW w \in Workers, NEW how \in {"exited", "dead"}, wk[w].stage # "none",
         wk' = [wk EXCEPT ![w] = Returned(w, how)], UNCHANGED <<row, list, workers, up, post>>
  PROVE  SInv'
<1>1. /\ \A v \in Workers \ {w} : wk'[v] = wk[v]
      /\ wk'[w] = Returned(w, how)
  BY DEF SInv, TypeOK
<1>2. /\ wk'[w].stage \notin Alive /\ ~wk'[w].stopped /\ ~wk'[w].steady
      /\ (\E r \in Rules : workers[r] = w) => wk'[w].rule = wk[w].rule /\ wk'[w].stage # "none"
  <2> DEFINE kept == [NoWorker EXCEPT !.stage = how, !.rule = wk[w].rule, !.config = wk[w].config]
  <2>1. wk'[w] = IF \E r \in Rules : workers[r] = w THEN kept ELSE NoWorker
    BY <1>1 DEF Returned
  <2>2. /\ kept.stage = how /\ kept.rule = wk[w].rule /\ kept.stopped = FALSE /\ kept.steady = FALSE
        /\ NoWorker.stage = "none" /\ NoWorker.stopped = FALSE /\ NoWorker.steady = FALSE
    BY DEF NoWorker
  <2> HIDE DEF kept
  <2> QED BY <2>1, <2>2 DEF Alive
<1>3. MapInv' /\ HeldInv' /\ SteadyInv'
  BY <1>1, <1>2, MapType DEF SInv, MapInv, HeldInv, SteadyInv
<1>4. NoLeakedWorker' /\ StopCancels'
  BY <1>1, <1>2 DEF SInv, NoLeakedWorker, StopCancels, Held
<1> QED BY <1>3, <1>4 DEF SInv

\* StopRule and the halves of stop.
LEMMA StopKeeps ==
  ASSUME SInv, TypeOK', NEW p \in Posts, StopRule(p) \/ CloseStopCh(p) \/ CallCancel(p)
  PROVE  SInv'
<1>1. CASE StopRule(p)
  <2> DEFINE q == post[p].rule
  <2>1. q \in Rules /\ workers' = [workers EXCEPT ![q] = None]
    BY <1>1, PostType DEF StopRule, SInv
  <2>2. \A r \in Rules : workers'[r] # None => r # q /\ workers'[r] = workers[r]
    BY <2>1 DEF SInv, TypeOK
  <2>3. /\ \A o \in Posts : o # p => post'[o] = post[o]
        /\ post'[p].at \in {"close", "cancel"} => workers[q] # None /\ post'[p].worker = workers[q]
        /\ workers[q] # None => post'[p].at = "close" /\ post'[p].worker = workers[q]
        /\ post[p].at = "stop"
    BY <1>1 DEF StopRule, SInv, TypeOK, Idle
  <2>4. wk' = wk /\ row' = row /\ list' = list /\ up' = up
    BY <1>1 DEF StopRule
  <2>5. MapInv' /\ SteadyInv'
    BY <2>2, <2>4 DEF SInv, MapInv, SteadyInv
  <2>6. HeldInv'
    <3>1. ASSUME NEW o \in Posts, post'[o].at \in {"close", "cancel"}, NEW r \in Rules
          PROVE  workers'[r] # post'[o].worker
      <4>1. CASE workers'[r] = None
        <5>1. post'[o].worker \in Workers
          BY <3>1, PostType DEF SInv, TypeOK, PostRecords, Idle
        <5> QED BY <4>1, <5>1
      <4>2. CASE workers'[r] # None /\ o = p
        <5>1. wk[workers[r]].rule = r /\ wk[workers[q]].rule = q
          BY <2>1, <2>2, <2>3, <3>1, <4>2 DEF SInv, MapInv
        <5> QED BY <2>2, <2>3, <3>1, <4>2, <5>1
      <4>3. CASE workers'[r] # None /\ o # p
        BY <2>2, <2>3, <3>1, <4>3 DEF SInv, HeldInv
      <4> QED BY <4>1, <4>2, <4>3
    <3> QED BY <3>1 DEF HeldInv
  <2>7. NoLeakedWorker'
    <3> SUFFICES ASSUME NEW w \in Workers, wk[w].stage \in Alive, ~wk[w].stopped, up
                 PROVE  \/ Held(w, "close")'
                        \/ \E r \in Rules : workers'[r] = w /\ wk'[w].rule = r
      BY <2>4 DEF NoLeakedWorker
    <3>1. CASE Held(w, "close")
      BY <2>3, <3>1 DEF Held
    <3>2. CASE \E r \in Rules : workers[r] = w /\ wk[w].rule = r
      <4>1. PICK r \in Rules : workers[r] = w /\ wk[w].rule = r
        BY <3>2
      <4>2. CASE r = q
        BY <2>3, <4>1, <4>2 DEF Held
      <4>3. CASE r # q
        BY <2>1, <2>4, <4>1, <4>3 DEF SInv, TypeOK
      <4> QED BY <4>2, <4>3
    <3> QED BY <3>1, <3>2 DEF SInv, NoLeakedWorker
  <2>8. StopCancels'
    BY <2>3, <2>4 DEF SInv, StopCancels, Held
  <2> QED BY <2>5, <2>6, <2>7, <2>8 DEF SInv
<1>2. ASSUME NEW rec \in WorkerRecords, NEW w \in Workers, post[p].worker = w,
             post[p].at \in {"close", "cancel"},
             wk' = [wk EXCEPT ![w] = rec],
             rec.stage = wk[w].stage, rec.stage \in Alive => rec.stopped,
             rec.stage \notin Alive => rec.stopped = wk[w].stopped /\ rec.cancelled = wk[w].cancelled,
             \A o \in Posts : o # p => post'[o] = post[o],
             post'[p].at \in {"close", "cancel"} => post'[p].at = "cancel" /\ post'[p].worker = w,
             rec.stage \in Alive \ {"created"} => rec.cancelled \/ post'[p].at = "cancel",
             UNCHANGED <<row, list, workers, up>>
      PROVE  SInv'
  <2>1. /\ \A v \in Workers \ {w} : wk'[v] = wk[v]
        /\ wk'[w] = rec
    BY <1>2 DEF SInv, TypeOK
  <2>2. \A r \in Rules : workers[r] # w
    BY <1>2 DEF SInv, HeldInv
  <2>3. MapInv' /\ SteadyInv'
    BY <1>2, <2>1, <2>2, MapType DEF SInv, MapInv, SteadyInv
  <2>4. HeldInv'
    BY <1>2, <2>2 DEF SInv, HeldInv
  <2>5. NoLeakedWorker'
    BY <1>2, <2>1 DEF SInv, NoLeakedWorker, Held
  <2>6. StopCancels'
    <3> SUFFICES ASSUME NEW v \in Workers, wk'[v].stopped, wk'[v].stage \in Alive \ {"created"}
                 PROVE  wk'[v].cancelled \/ Held(v, "cancel")'
      BY DEF StopCancels
    <3>1. CASE v = w
      BY <1>2, <2>1, <3>1 DEF Held
    <3>2. CASE v # w
      BY <1>2, <2>1, <3>2 DEF SInv, StopCancels, Held
    <3> QED BY <3>1, <3>2
  <2> QED BY <2>3, <2>4, <2>5, <2>6 DEF SInv
<1>3. ASSUME CloseStopCh(p) \/ CallCancel(p) PROVE SInv'
  <2> DEFINE w == post[p].worker
             rec == IF post[p].at = "close" THEN closed(wk[w]) ELSE stopped(wk[w])
  <2>1. post[p].at \in {"close", "cancel"} /\ w \in Workers
    BY <1>3, PostType DEF CloseStopCh, CallCancel, SInv
  <2>2. wk' = [wk EXCEPT ![w] = rec]
    BY <1>3, <2>1 DEF CloseStopCh, CallCancel, SInv, TypeOK
  <2>3. rec \in WorkerRecords
    BY <2>1, StoppedType DEF SInv, TypeOK
  <2>4. /\ rec.stage = wk[w].stage /\ (rec.stage \in Alive => rec.stopped)
        /\ rec.stage \notin Alive => rec.stopped = wk[w].stopped /\ rec.cancelled = wk[w].cancelled
        /\ rec.stage \in Alive \ {"created"} => rec.cancelled \/ post[p].at = "close"
    <3>1. CASE wk[w].stage \notin Alive
      BY <3>1 DEF closed, stopped
    <3>2. CASE wk[w].stage \in Alive
      <4>1. wk[w] \in [stage : Stages \ {"none"}, rule : Rules, config : Configs,
                   stopped : BOOLEAN, cancelled : BOOLEAN, scanCh : BOOLEAN,
                   pending : BOOLEAN, steady : BOOLEAN]
        BY <2>1, <3>2, WorkerType, AliveStage DEF SInv, WorkerRecords
      <4> QED BY <3>2, <4>1 DEF closed, stopped
    <3> QED BY <3>1, <3>2
  <2>5. /\ \A o \in Posts : o # p => post'[o] = post[o]
        /\ post'[p].at \in {"close", "cancel"} => post'[p].at = "cancel" /\ post'[p].worker = w
        /\ post[p].at = "close" => post'[p].at = "cancel"
    <3>1. CASE CloseStopCh(p)
      <4>1. post[p] \in [at : {"close", "cancel", "trigger"}, rule : {None}, row : {NoRow}, worker : Workers]
        BY <3>1, PostType DEF CloseStopCh, SInv, PostRecords, Idle
      <4> QED BY <3>1, <4>1 DEF CloseStopCh, SInv, TypeOK
    <3>2. CASE CallCancel(p)
      BY <3>2 DEF CallCancel, Idle, SInv, TypeOK
    <3> QED BY <1>3, <3>1, <3>2
  <2>6. UNCHANGED <<row, list, workers, up>>
    BY <1>3 DEF CloseStopCh, CallCancel
  <2> HIDE DEF rec, w
  <2>7. post[p].worker = w
    BY DEF w
  <2> QED BY <1>2, <2>1, <2>2, <2>3, <2>4, <2>5, <2>6, <2>7
<1> QED BY <1>1, <1>3

\* What stop does to a record.
LEMMA StoppedFields ==
  ASSUME NEW rec \in WorkerRecords
  PROVE  /\ stopped(rec).stage = rec.stage
         /\ rec.stage \in Alive => stopped(rec).stopped
         /\ rec.stage \notin Alive => stopped(rec) = rec
         /\ rec.stage \in Alive \ {"created"} => stopped(rec).cancelled
<1>1. CASE rec.stage \notin Alive
  BY <1>1 DEF closed, stopped
<1>2. CASE rec.stage \in Alive
  <2>1. rec \in [stage : Stages \ {"none"}, rule : Rules, config : Configs,
                 stopped : BOOLEAN, cancelled : BOOLEAN, scanCh : BOOLEAN,
                 pending : BOOLEAN, steady : BOOLEAN]
    BY <1>2, AliveStage DEF WorkerRecords
  <2> QED BY <1>2, <2>1 DEF closed, stopped
<1> QED BY <1>1, <1>2

\* reconcile leaves the workers it does not replace as they are.
LEMMA Kept ==
  ASSUME SInv, Reconcile, NEW r \in Rules, workers[r] # None, ~Outdated(r)
  PROVE  workers'[r] = workers[r] /\ wk'[workers[r]] = wk[workers[r]]
<1>1. PICK f \in Assignments :
          /\ workers' = [q \in Rules |-> IF q \in Started THEN f[q]
                                         ELSE IF Outdated(q) THEN None ELSE workers[q]]
          /\ \A w \in Workers : (\A q \in Started : f[q] # w) =>
                wk'[w] = IF w \in Dropped THEN stopped(wk[w]) ELSE wk[w]
  BY Chosen DEF SInv
<1>2. workers'[r] = workers[r]
  BY <1>1 DEF Started
<1>3. workers[r] \in Workers
  BY MapType DEF SInv
<1>4. \A q \in Started : f[q] # workers[r]
  BY DEF Assignments, Reusable
<1>5. workers[r] \notin Dropped
  <2>1. ASSUME NEW q \in Rules, Outdated(q) PROVE workers[q] # workers[r]
    BY <2>1 DEF Outdated, SInv, MapInv
  <2> QED BY <2>1 DEF Dropped
<1> QED BY <1>1, <1>2, <1>3, <1>4, <1>5

LEMMA ReconcileKeeps ==
  ASSUME SInv, TypeOK', Reconcile
  PROVE  SInv'
<1>1. PICK f \in Assignments :
          /\ workers' = [q \in Rules |-> IF q \in Started THEN f[q]
                                         ELSE IF Outdated(q) THEN None ELSE workers[q]]
          /\ \A r \in Started : wk'[f[r]] = newRuleWorker(r, list[r].config, row[r] = list[r])
          /\ \A w \in Workers : (\A q \in Started : f[q] # w) =>
                wk'[w] = IF w \in Dropped THEN stopped(wk[w]) ELSE wk[w]
          /\ \A r \in Started : list[r] \in Stored /\ list[r].enabled
  BY Chosen DEF SInv
<1>2. /\ \A r \in Started : f[r] \in Reusable
      /\ Started \subseteq Rules /\ Reusable \subseteq Workers
  BY DEF Assignments, Started, Desired, Reusable
<1>3. row' = row /\ post' = post /\ up' = up /\ list' = Unread
  BY DEF Reconcile
\* The entries of the map, afterwards.
<1>4. ASSUME NEW r \in Rules, workers'[r] # None
      PROVE  \/ r \in Started /\ workers'[r] = f[r]
             \/ workers[r] # None /\ ~Outdated(r) /\ workers'[r] = workers[r]
                /\ wk'[workers[r]] = wk[workers[r]]
  BY <1>1, <1>4, Kept
<1>5. ASSUME NEW r \in Started
      PROVE  /\ wk'[f[r]].rule = r /\ wk'[f[r]].stage = "created" /\ ~wk'[f[r]].stopped
             /\ wk'[f[r]].config = list[r].config
             /\ wk'[f[r]].steady => row[r] = list[r]
  <2> DEFINE b == row[r] = list[r]
  <2>1. wk'[f[r]] = newRuleWorker(r, list[r].config, b)
    BY <1>1
  <2>2. b => row[r] = list[r]
    OBVIOUS
  <2> HIDE DEF b
  <2>3. /\ newRuleWorker(r, list[r].config, b).rule = r
        /\ newRuleWorker(r, list[r].config, b).stage = "created"
        /\ newRuleWorker(r, list[r].config, b).stopped = FALSE
        /\ newRuleWorker(r, list[r].config, b).config = list[r].config
        /\ newRuleWorker(r, list[r].config, b).steady = b
    BY DEF newRuleWorker, NoWorker
  <2> QED BY <2>1, <2>2, <2>3
<1>6. MapInv'
  <2> SUFFICES ASSUME NEW r \in Rules, workers'[r] # None
               PROVE  /\ wk'[workers'[r]].rule = r /\ wk'[workers'[r]].stage # "none"
                      /\ ~wk'[workers'[r]].stopped
    BY DEF MapInv
  <2> QED BY <1>4, <1>5 DEF SInv, MapInv
<1>7. HeldInv'
  <2> SUFFICES ASSUME NEW p \in Posts, post[p].at \in {"close", "cancel"}, NEW r \in Rules
               PROVE  workers'[r] # post[p].worker
    BY <1>3 DEF HeldInv
  <2>1. post[p].worker \in Workers
    BY PostType DEF SInv
  <2>2. CASE workers'[r] = None
    BY <2>1, <2>2
  <2>3. CASE workers'[r] # None
    BY <1>2, <1>4, <2>3 DEF SInv, HeldInv, Reusable
  <2> QED BY <2>2, <2>3
<1>8. SteadyInv'
  <2> SUFFICES ASSUME NEW r \in Rules, workers'[r] # None, wk'[workers'[r]].steady
               PROVE  row[r].enabled /\ row[r].config = wk'[workers'[r]].config
    BY <1>3 DEF SteadyInv
  <2>1. CASE r \in Started /\ workers'[r] = f[r]
    BY <1>1, <1>5, <2>1
  <2>2. CASE workers[r] # None /\ ~Outdated(r) /\ workers'[r] = workers[r]
             /\ wk'[workers[r]] = wk[workers[r]]
    BY <2>2 DEF SInv, SteadyInv
  <2> QED BY <1>4, <2>1, <2>2
<1>9. ASSUME NEW w \in Workers
      PROVE  \/ \E r \in Started : f[r] = w
             \/ \E r \in Rules : workers[r] = w /\ ~Outdated(r)
             \/ /\ wk'[w] = stopped(wk[w]) /\ \E r \in Rules : workers[r] = w
             \/ /\ wk'[w] = wk[w] /\ \A r \in Rules : workers[r] # w
  BY <1>1 DEF Dropped
<1>10. NoLeakedWorker'
  <2> SUFFICES ASSUME NEW w \in Workers, wk'[w].stage \in Alive, ~wk'[w].stopped, up
               PROVE  \/ Held(w, "close")
                      \/ \E r \in Rules : workers'[r] = w /\ wk'[w].rule = r
    BY <1>3 DEF NoLeakedWorker, Held
  <2>1. CASE \E r \in Started : f[r] = w
    BY <1>1, <1>2, <1>5, <2>1
  <2>2. CASE \E r \in Rules : workers[r] = w /\ ~Outdated(r)
    BY <2>2, Kept DEF SInv, MapInv
  <2>3. CASE wk'[w] = stopped(wk[w])
    BY <2>3, StoppedFields DEF SInv, TypeOK
  <2>4. CASE wk'[w] = wk[w] /\ \A r \in Rules : workers[r] # w
    BY <2>4 DEF SInv, NoLeakedWorker
  <2> QED BY <1>9, <2>1, <2>2, <2>3, <2>4
<1>11. StopCancels'
  <2> SUFFICES ASSUME NEW w \in Workers, wk'[w].stopped, wk'[w].stage \in Alive \ {"created"}
               PROVE  wk'[w].cancelled \/ Held(w, "cancel")
    BY <1>3 DEF StopCancels, Held
  <2>1. CASE \E r \in Started : f[r] = w
    BY <1>5, <2>1
  <2>2. CASE \E r \in Rules : workers[r] = w /\ ~Outdated(r)
    BY <2>2, Kept DEF SInv, StopCancels
  <2>3. CASE wk'[w] = stopped(wk[w])
    BY <2>3, StoppedFields DEF SInv, TypeOK
  <2>4. CASE wk'[w] = wk[w]
    BY <2>4 DEF SInv, StopCancels
  <2> QED BY <1>9, <2>1, <2>2, <2>3, <2>4
<1> QED BY <1>6, <1>7, <1>8, <1>10, <1>11 DEF SInv

LEMMA StopAllKeeps ==
  ASSUME SInv, TypeOK', stopAll
  PROVE  SInv'
<1>1. \A r \in Rules : workers'[r] = None
  BY DEF stopAll
<1>2. ~up' /\ post' = post
  BY DEF stopAll
<1>3. ASSUME NEW w \in Workers, wk'[w].stage \in Alive PROVE wk'[w].cancelled
  <2>1. CASE wk[w].stage \notin Alive
    BY <1>3, <2>1 DEF stopAll
  <2>2. CASE wk[w].stage \in Alive
    <3>1. wk[w] \in [stage : Stages \ {"none"}, rule : Rules, config : Configs,
                     stopped : BOOLEAN, cancelled : BOOLEAN, scanCh : BOOLEAN,
                     pending : BOOLEAN, steady : BOOLEAN]
      BY <2>2, WorkerType, AliveStage DEF SInv, WorkerRecords
    <3> DEFINE b == wk[w].stopped \/ \E r \in Rules : workers[r] = w
    <3>2. wk'[w] = [wk[w] EXCEPT !.cancelled = TRUE, !.stopped = b]
      BY <2>2 DEF stopAll
    <3> HIDE DEF b
    <3> QED BY <3>1, <3>2
  <2> QED BY <2>1, <2>2
<1>4. MapInv' /\ SteadyInv' /\ NoLeakedWorker'
  BY <1>1, <1>2 DEF MapInv, SteadyInv, NoLeakedWorker
<1>5. HeldInv'
  <2>1. ASSUME NEW p \in Posts, post[p].at \in {"close", "cancel"} PROVE post[p].worker # None
    BY <2>1, PostType DEF SInv
  <2> QED BY <1>1, <1>2, <2>1 DEF HeldInv
<1>6. StopCancels'
  BY <1>3 DEF StopCancels
<1> QED BY <1>4, <1>5, <1>6 DEF SInv

---------------------------------------------------------------------------
(* Every step.                                                             *)

\* The kinds a step can be of.
WriteStep == \E r \in Rules, new \in Rows :
                Write(r, new) /\ SameHeld /\ UNCHANGED <<list, workers, up>>
                /\ post' \in [Posts -> PostRecords] /\ owed' = owed
WorkerStep == \E w \in Workers : Steps(w) /\ SameHeld /\ UNCHANGED <<row, list, workers, up>>
                /\ post' \in [Posts -> PostRecords] /\ inputs' \in 0..MaxInputs /\ owed' \in SUBSET Rules
ReturnStep == \E w \in Workers, how \in {"exited", "dead"} :
                wk[w].stage # "none" /\ wk' = [wk EXCEPT ![w] = Returned(w, how)]
                /\ UNCHANGED <<row, list, workers, up, post, owed>> /\ inputs' \in 0..MaxInputs
PostOnly == SameHeld /\ UNCHANGED <<row, list, workers, wk, up>>
                /\ post' \in [Posts -> PostRecords] /\ inputs' \in 0..MaxInputs /\ owed' \in SUBSET Rules

LEMMA Kinds ==
  ASSUME TypeOK, Next
  PROVE  \/ WriteStep \/ WorkerStep \/ ReturnStep \/ PostOnly
         \/ \E p \in Posts : StopRule(p) \/ CloseStopCh(p) \/ CallCancel(p)
         \/ ListRules \/ Reconcile \/ stopAll
<1>1. ASSUME NEW p \in Posts, NEW r \in Rules, NEW c \in Entered, NEW b \in BOOLEAN, ruleSavePost(p, r, c, b)
      PROVE  WriteStep
  <2>1. [config |-> Normal[c], enabled |-> b] \in Rows
    BY DEF Rows, Stored
  <2>2. SameHeld
    BY <1>1 DEF ruleSavePost, ThenStop, SameHeld, Idle, TypeOK
  <2>3. post' \in [Posts -> PostRecords]
    BY <1>1, ThenStopType DEF ruleSavePost
  <2> QED BY <1>1, <2>1, <2>2, <2>3 DEF ruleSavePost, WriteStep
<1>2. ASSUME NEW p \in Posts, NEW r \in Rules, NEW b \in BOOLEAN, ruleTogglePost(p, r, b)
      PROVE  PostOnly
  <2> DEFINE rec == [Idle EXCEPT !.at = "write", !.rule = r, !.row = [row[r] EXCEPT !.enabled = b]]
  <2>1. row[r] \in Stored
    BY <1>2 DEF ruleTogglePost, TypeOK, Rows
  <2>2. [row[r] EXCEPT !.enabled = b] \in Stored
    BY <2>1 DEF Stored
  <2>3. rec \in PostRecords /\ rec.at = "write"
    BY <2>2 DEF PostRecords, Idle
  <2> HIDE DEF rec
  <2>4. post' = [post EXCEPT ![p] = rec] /\ post[p].at = "idle"
    BY <1>2 DEF ruleTogglePost, rec
  <2> QED BY <1>2, <2>3, <2>4 DEF ruleTogglePost, PostOnly, SameHeld, TypeOK
<1>3. ASSUME NEW r \in Rules, ruleDeletePost(r) PROVE WriteStep
  <2>1. NoRow \in Rows
    BY DEF Rows
  <2> QED BY <1>3, <2>1 DEF ruleDeletePost, WriteStep, SameHeld, TypeOK
<1>4. ASSUME NEW p \in Posts, ToggleWrite(p) PROVE WriteStep
  <2> DEFINE new == [post[p].row EXCEPT !.config = Normal[@]]
  <2>1. post[p].rule \in Rules /\ post[p].row \in Stored
    BY <1>4, PostType DEF ToggleWrite
  <2>2. new \in Rows
    BY <2>1 DEF Rows, Stored
  <2>3. SameHeld
    BY <1>4 DEF ToggleWrite, ThenStop, SameHeld, Idle, TypeOK
  <2>4. post' \in [Posts -> PostRecords]
    BY <1>4, <2>1, ThenStopType DEF ToggleWrite
  <2>5. Write(post[p].rule, new) /\ UNCHANGED <<list, workers, up, owed>>
    BY <1>4 DEF ToggleWrite
  <2> HIDE DEF new
  <2> QED BY <2>1, <2>2, <2>3, <2>4, <2>5 DEF WriteStep
<1>5. ASSUME NEW p \in Posts, ToggleFails(p) PROVE PostOnly
  <2>1. Idle \in PostRecords
    BY DEF PostRecords
  <2> QED BY <1>5, <2>1 DEF ToggleFails, PostOnly, SameHeld, Idle, TypeOK
<1>6. ASSUME NEW p \in Posts, NEW r \in Rules, ruleScanPost(p, r) PROVE PostOnly
  <2> DEFINE rec == [Idle EXCEPT !.at = "trigger", !.worker = workers[r]]
  <2>1. workers[r] \in Workers
    BY <1>6, MapType DEF ruleScanPost
  <2>2. rec \in PostRecords /\ rec.at = "trigger"
    BY <2>1 DEF PostRecords, Idle
  <2> HIDE DEF rec
  <2>3. post' = [post EXCEPT ![p] = rec] /\ post[p].at = "idle"
    BY <1>6 DEF ruleScanPost, rec
  <2> QED BY <1>6, <2>2, <2>3 DEF ruleScanPost, PostOnly, SameHeld, TypeOK
<1>7. ASSUME NEW p \in Posts, Trigger(p) PROVE PostOnly \/ WorkerStep
  <2> DEFINE w == post[p].worker
  <2>1. w \in Workers
    BY <1>7, PostType DEF Trigger
  <2>2. SameHeld /\ post' \in [Posts -> PostRecords]
    <3>1. Idle \in PostRecords
      BY DEF PostRecords
    <3> QED BY <1>7, <3>1 DEF Trigger, SameHeld, Idle, TypeOK
  <2>3. CASE wk[w].stage \in Alive
    <3>1. Steps(w)
      BY <1>7, <2>1, <2>3, RunSteps DEF Trigger
    <3> QED BY <1>7, <2>1, <2>2, <3>1 DEF Trigger, WorkerStep, TypeOK
  <2>4. CASE wk[w].stage \notin Alive
    BY <1>7, <2>2, <2>4 DEF Trigger, PostOnly, TypeOK
  <2> QED BY <2>3, <2>4
<1>8. ASSUME NEW w \in Workers,
             \/ setCancel(w) \/ Prime(w) \/ ScanAsked(w) \/ ScanTicked(w) \/ EndScan(w)
             \/ Debounced(w) \/ WatchEvent(w) \/ WatchEnds(w)
      PROVE  WorkerStep
  <2>1. Steps(w)
    BY <1>8, RunSteps
  <2>2. UNCHANGED <<row, list, workers, up, post>>
    BY <1>8 DEF setCancel, Prime, ScanAsked, ScanTicked, BeginScan, EndScan, Debounced, WatchEvent, WatchEnds
  <2>3. inputs' \in 0..MaxInputs
    BY <1>8 DEF setCancel, Prime, ScanAsked, ScanTicked, BeginScan, EndScan, Debounced, WatchEvent,
                WatchEnds, TypeOK
  <2>4. owed' \in SUBSET Rules
    BY <1>8 DEF setCancel, Prime, ScanAsked, ScanTicked, BeginScan, EndScan, Debounced, WatchEvent,
                WatchEnds, Ask, TypeOK
  <2> QED BY <2>1, <2>2, <2>3, <2>4 DEF WorkerStep, SameHeld, TypeOK
<1>9. ASSUME NEW w \in Workers, PrimeFails(w) \/ PrimeCancelled(w) \/ Exit(w)
      PROVE  ReturnStep
  <2>1. wk[w].stage # "none" /\ inputs' \in 0..MaxInputs
    BY <1>9 DEF PrimeFails, PrimeCancelled, Exit, TypeOK
  <2> QED BY <1>9, <2>1 DEF PrimeFails, PrimeCancelled, Exit, ReturnStep
<1> QED BY <1>1, <1>2, <1>3, <1>4, <1>5, <1>6, <1>7, <1>8, <1>9
        DEF Next, Edit, PostStep, RunStep, Tick

LEMMA TypeStep == TypeOK /\ [Next]_vars => TypeOK'
<1> SUFFICES ASSUME TypeOK, [Next]_vars PROVE TypeOK'
  OBVIOUS
<1>1. CASE WriteStep
  BY <1>1, WriteType DEF WriteStep, TypeOK
<1>2. CASE WorkerStep
  BY <1>2 DEF WorkerStep, Steps, TypeOK
<1>3. CASE ReturnStep
  <2>1. PICK w \in Workers, how \in {"exited", "dead"} :
           wk[w].stage # "none" /\ wk' = [wk EXCEPT ![w] = Returned(w, how)]
    BY <1>3 DEF ReturnStep
  <2>2. wk' \in [Workers -> WorkerRecords]
    BY <2>1, ReturnedType, OneWorkerType
  <2> QED BY <1>3, <2>2 DEF ReturnStep, TypeOK
<1>4. CASE PostOnly
  BY <1>4 DEF PostOnly, TypeOK
<1>5. ASSUME NEW p \in Posts, StopRule(p) \/ CloseStopCh(p) \/ CallCancel(p) PROVE TypeOK'
  <2>1. post[p].at \in {"stop", "close", "cancel"}
    BY <1>5 DEF StopRule, CloseStopCh, CallCancel
  <2>2. wk' \in [Workers -> WorkerRecords]
    <3>1. CASE StopRule(p)
      BY <3>1 DEF StopRule, TypeOK
    <3>2. CASE CloseStopCh(p) \/ CallCancel(p)
      <4>1. post[p].worker \in Workers
        BY <3>2, PostType DEF CloseStopCh, CallCancel
      <4> QED BY <3>2, <4>1, StoppedType DEF CloseStopCh, CallCancel, TypeOK
    <3> QED BY <1>5, <3>1, <3>2
  <2>3. workers' \in [Rules -> Workers \cup {None}]
    BY <1>5 DEF StopRule, CloseStopCh, CallCancel, TypeOK
  <2>4. post' \in [Posts -> PostRecords]
    <3>1. CASE StopRule(p)
      <4> DEFINE w == workers[post[p].rule]
                 rec == [Idle EXCEPT !.at = "close", !.worker = w]
      <4>1. Idle \in PostRecords
        BY DEF PostRecords
      <4>2. w # None => w \in Workers
        BY <3>1, PostType, MapType DEF StopRule
      <4>3. w # None => rec \in PostRecords
        BY <4>2 DEF PostRecords, Idle
      <4>4. post' = [post EXCEPT ![p] = IF w = None THEN Idle ELSE rec]
        BY <3>1 DEF StopRule
      <4> HIDE DEF rec, w
      <4> QED BY <4>1, <4>3, <4>4 DEF TypeOK
    <3>2. CASE CloseStopCh(p)
      <4>1. post[p] \in [at : {"close", "cancel", "trigger"}, rule : {None}, row : {NoRow}, worker : Workers]
        BY <3>2, PostType DEF CloseStopCh, PostRecords, Idle
      <4>2. [post[p] EXCEPT !.at = "cancel"] \in PostRecords
        BY <4>1 DEF PostRecords
      <4> QED BY <3>2, <4>2 DEF CloseStopCh, TypeOK
    <3>3. CASE CallCancel(p)
      BY <3>3 DEF CallCancel, PostRecords, TypeOK
    <3> QED BY <1>5, <3>1, <3>2, <3>3
  <2> QED BY <1>5, <2>2, <2>3, <2>4 DEF StopRule, CloseStopCh, CallCancel, TypeOK
<1>6. CASE ListRules
  BY <1>6 DEF ListRules, TypeOK
<1>7. CASE Reconcile
  <2>1. PICK f \in Assignments :
            /\ workers' = [r \in Rules |-> IF r \in Started THEN f[r]
                                           ELSE IF Outdated(r) THEN None ELSE workers[r]]
            /\ wk' \in [Workers -> WorkerRecords]
    BY <1>7, Chosen
  <2>2. workers' \in [Rules -> Workers \cup {None}]
    BY <2>1 DEF Assignments, Reusable, TypeOK
  <2> QED BY <1>7, <2>1, <2>2 DEF Reconcile, TypeOK
<1>8. CASE stopAll
  <2>1. ASSUME NEW w \in Workers PROVE wk'[w] \in WorkerRecords
    <3>1. wk[w] \in WorkerRecords
      BY DEF TypeOK
    <3>2. CASE wk[w].stage \notin Alive
      BY <1>8, <3>1, <3>2 DEF stopAll
    <3>3. CASE wk[w].stage \in Alive
      <4> DEFINE b == wk[w].stopped \/ \E r \in Rules : workers[r] = w
                 rec == [wk[w] EXCEPT !.cancelled = TRUE, !.stopped = b]
      <4>1. wk'[w] = rec
        BY <1>8, <3>3 DEF stopAll
      <4>2. wk[w] \in [stage : Stages \ {"none"}, rule : Rules, config : Configs,
                       stopped : BOOLEAN, cancelled : BOOLEAN, scanCh : BOOLEAN,
                       pending : BOOLEAN, steady : BOOLEAN]
        BY <3>1, <3>3, AliveStage DEF WorkerRecords
      <4>3. b \in BOOLEAN
        BY <4>2
      <4>4. rec \in WorkerRecords
        <5> HIDE DEF b
        <5> QED BY <4>2, <4>3 DEF WorkerRecords
      <4> QED BY <4>1, <4>4
    <3> QED BY <3>2, <3>3
  <2>2. wk' \in [Workers -> WorkerRecords]
    BY <1>8, <2>1 DEF stopAll
  <2>3. workers' \in [Rules -> Workers \cup {None}]
    BY <1>8 DEF stopAll
  <2> QED BY <1>8, <2>2, <2>3 DEF stopAll, TypeOK
<1>9. CASE UNCHANGED vars
  BY <1>9 DEF vars, TypeOK
<1> QED BY <1>1, <1>2, <1>3, <1>4, <1>5, <1>6, <1>7, <1>8, <1>9, Kinds

LEMMA SStep == SInv /\ [Next]_vars => SInv'
<1> SUFFICES ASSUME SInv, [Next]_vars PROVE SInv'
  OBVIOUS
<1>0. TypeOK /\ TypeOK'
  BY TypeStep DEF SInv
<1>1. CASE WriteStep
  BY <1>0, <1>1, WriteKeeps DEF WriteStep
<1>2. CASE WorkerStep
  BY <1>0, <1>2, StepsKeep DEF WorkerStep
<1>3. CASE ReturnStep
  BY <1>0, <1>3, ReturnKeeps DEF ReturnStep
<1>4. CASE PostOnly
  <2>1. MapInv' /\ SteadyInv' /\ HeldInv'
    BY <1>4 DEF PostOnly, SInv, MapInv, SteadyInv, HeldInv, SameHeld
  <2>2. NoLeakedWorker' /\ StopCancels'
    BY <1>4, SameHeldHeld DEF PostOnly, SInv, NoLeakedWorker, StopCancels
  <2> QED BY <1>0, <2>1, <2>2 DEF SInv
<1>5. ASSUME NEW p \in Posts, StopRule(p) \/ CloseStopCh(p) \/ CallCancel(p) PROVE SInv'
  BY <1>0, <1>5, StopKeeps
<1>6. CASE ListRules
  <2>1. row' = row /\ workers' = workers /\ wk' = wk /\ post' = post /\ up' = up /\ list' = row
    BY <1>6 DEF ListRules
  <2>2. MapInv' /\ SteadyInv' /\ HeldInv'
    BY <2>1 DEF SInv, MapInv, SteadyInv, HeldInv
  <2>3. NoLeakedWorker' /\ StopCancels'
    BY <2>1 DEF SInv, NoLeakedWorker, StopCancels, Held
  <2> QED BY <1>0, <2>2, <2>3 DEF SInv
<1>7. CASE Reconcile
  BY <1>0, <1>7, ReconcileKeeps
<1>8. CASE stopAll
  BY <1>0, <1>8, StopAllKeeps
<1>9. CASE UNCHANGED vars
  BY <1>9 DEF vars, SInv, TypeOK, MapInv, HeldInv, SteadyInv, NoLeakedWorker, StopCancels, Held
<1> QED BY <1>0, <1>1, <1>2, <1>3, <1>4, <1>5, <1>6, <1>7, <1>8, <1>9, Kinds

\* Only reconcile uses a list up.
LEMMA ListUsed ==
  ASSUME SInv, [Next]_vars, list # Unread, list' = Unread
  PROVE  Reconcile
<1>1. CASE UNCHANGED vars
  BY <1>1 DEF vars
<1>2. CASE Next
  <2>1. ASSUME WriteStep \/ WorkerStep \/ ReturnStep \/ PostOnly PROVE list' = list
    BY <2>1 DEF WriteStep, WorkerStep, ReturnStep, PostOnly
  <2>2. ASSUME NEW p \in Posts, StopRule(p) \/ CloseStopCh(p) \/ CallCancel(p) PROVE list' = list
    BY <2>2 DEF StopRule, CloseStopCh, CallCancel
  <2>3. ASSUME ListRules \/ stopAll PROVE FALSE
    BY <2>3 DEF ListRules, stopAll
  <2> QED BY <1>2, <2>1, <2>2, <2>3, Kinds DEF SInv
<1> QED BY <1>1, <1>2

---------------------------------------------------------------------------
LEMMA Inductive == Spec => []SInv
BY SInit, SStep, PTL DEF Spec

\* The rows, the map, the workers and the requests keep their types, whatever
\* the rules, the requests and their order.
THEOREM SupervisorTypeCorrect == Spec => []TypeOK
<1>1. SInv => TypeOK
  BY DEF SInv
<1> QED BY <1>1, Inductive, PTL

\* No goroutine of run is ever lost: neither reconcile, stopAll nor StopRule,
\* in any interleaving, drops a worker that nobody will stop.
THEOREM WorkersNeverLeak == Spec => []NoLeakedWorker
<1>1. SInv => NoLeakedWorker
  BY DEF SInv
<1> QED BY <1>1, Inductive, PTL

\* A stop reaches the worker's context, also when it comes before run has
\* published its cancel function.
THEOREM StopReachesContext == Spec => []StopCancels
<1>1. SInv => StopCancels
  BY DEF SInv
<1> QED BY <1>1, Inductive, PTL

\* A worker whose row has kept saying the same is left to run by reconcile,
\* also when the list it goes by is old.
THEOREM SteadyWorkersKept == Spec => NoChurn
<1>1. ASSUME SInv, [Next]_vars
      PROVE  [\A w \in Workers :
                 /\ list # Unread /\ list' = Unread
                 /\ \E r \in Rules : workers[r] = w
                 /\ wk[w].steady
                 => ~wk'[w].stopped /\ \E r \in Rules : workers'[r] = w]_vars
  <2> SUFFICES ASSUME NEW w \in Workers, list # Unread, list' = Unread,
                      NEW r \in Rules, workers[r] = w, wk[w].steady
               PROVE  ~wk'[w].stopped /\ \E q \in Rules : workers'[q] = w
    OBVIOUS
  <2>1. Reconcile
    BY <1>1, ListUsed
  <2>2. workers[r] # None
    OBVIOUS
  <2>3. list[r].enabled /\ list[r].config = wk[w].config
    BY <1>1, <2>2 DEF SInv, SteadyInv
  <2>4. ~Outdated(r)
    BY <2>3 DEF Outdated, Desired
  <2>5. ~wk[w].stopped
    BY <1>1, <2>2 DEF SInv, MapInv
  <2> QED BY <1>1, <2>1, <2>2, <2>4, <2>5, Kept
<1> QED BY <1>1, Inductive, PTL DEF Spec, NoChurn

---------------------------------------------------------------------------
(* Scans that are asked for.  What EventuallyScanned claims needs fairness; *)
(* that a trigger is never lost on its way does not.                       *)

\* A new worker asks itself, a channel holds the trigger, a timer is to send it,
\* a request is to; a worker that could not start never scans.
Carries(w) == \/ wk[w].stage \in {"created", "entered", "dead"}
              \/ wk[w].scanCh \/ wk[w].pending
              \/ Held(w, "trigger")

\* While the daemon is up, a scan that is owed to a rule with a worker is carried
\* by one of these.
OwedIsCarried == up => \A r \in owed : workers[r] # None => Carries(workers[r])

\* A worker in the map has not returned, unless it could not start.
Going(r) == workers[r] # None =>
               /\ ~wk[workers[r]].cancelled
               /\ wk[workers[r]].stage \in Alive \cup {"dead"}
               /\ r \in owed => Carries(workers[r])

TriggerInv == /\ up => \A r \in Rules : Going(r)
              /\ ~up => list = Unread

\* What a step leaves of a worker's way to its next scan.
SameWay(w) == /\ wk'[w].stage = wk[w].stage /\ wk'[w].cancelled = wk[w].cancelled
              /\ wk'[w].scanCh = wk[w].scanCh /\ wk'[w].pending = wk[w].pending

SameTriggers == \A p \in Posts : post[p].at = "trigger" => post'[p] = post[p]

LEMMA GoingSame ==
  ASSUME NEW r \in Rules, Going(r), workers[r] # None => SameWay(workers[r]), SameTriggers,
         workers'[r] \in {workers[r], None}, r \in owed' => r \in owed
  PROVE  Going(r)'
BY DEF Going, SameWay, SameTriggers, Carries, Held

\* The record of a worker that is at some stage.
LEMMA WorkerRecord ==
  ASSUME TypeOK, NEW w \in Workers, wk[w].stage # "none"
  PROVE  wk[w] \in [stage : Stages \ {"none"}, rule : Rules, config : Configs,
                    stopped : BOOLEAN, cancelled : BOOLEAN, scanCh : BOOLEAN,
                    pending : BOOLEAN, steady : BOOLEAN]
BY WorkerType DEF WorkerRecords

\* What a request, or a tick that reads the rules, does to it.
LEMMA RequestsKeepGoing ==
  ASSUME SInv, up, NEW r \in Rules, Going(r),
         \/ Edit \/ ListRules
         \/ \E p \in Posts : ToggleWrite(p) \/ ToggleFails(p) \/ StopRule(p) \/ CloseStopCh(p) \/ CallCancel(p)
  PROVE  Going(r)'
<1>0. workers[r] # None => /\ workers[r] \in Workers
                           /\ wk[workers[r]].stage # "none"
  BY MapType DEF SInv, MapInv
<1>1. ASSUME NEW q \in Rules, NEW new, Write(q, new), workers[r] # None
      PROVE  SameWay(workers[r])
  <2>1. wk[workers[r]] \in [stage : Stages \ {"none"}, rule : Rules, config : Configs,
                    stopped : BOOLEAN, cancelled : BOOLEAN, scanCh : BOOLEAN,
                    pending : BOOLEAN, steady : BOOLEAN]
    BY <1>0, <1>1, WorkerRecord DEF SInv
  <2> QED BY <1>0, <1>1, <2>1 DEF Write, SameWay
<1>2. ASSUME NEW p \in Posts, NEW q \in Rules, NEW c \in Entered, NEW b \in BOOLEAN, ruleSavePost(p, q, c, b)
      PROVE  Going(r)'
  <2>1. SameTriggers
    BY <1>2 DEF ruleSavePost, ThenStop, SameTriggers, SInv, TypeOK
  <2>2. UNCHANGED <<workers, owed>> /\ Write(q, [config |-> Normal[c], enabled |-> b])
    BY <1>2 DEF ruleSavePost
  <2> QED BY <1>1, <2>1, <2>2, GoingSame
<1>3. ASSUME NEW p \in Posts, NEW q \in Rules, NEW b \in BOOLEAN, ruleTogglePost(p, q, b)
      PROVE  Going(r)'
  <2>1. SameTriggers
    BY <1>3 DEF ruleTogglePost, SameTriggers, SInv, TypeOK
  <2> QED BY <1>3, <2>1, GoingSame DEF ruleTogglePost, SameWay
<1>4. ASSUME NEW q \in Rules, ruleDeletePost(q) PROVE Going(r)'
  <2>1. UNCHANGED <<workers, post, owed>> /\ Write(q, NoRow)
    BY <1>4 DEF ruleDeletePost
  <2> QED BY <1>1, <2>1, GoingSame DEF SameTriggers
<1>5. ASSUME NEW p \in Posts, ToggleWrite(p) PROVE Going(r)'
  <2> DEFINE new == [post[p].row EXCEPT !.config = Normal[@]]
  <2>1. SameTriggers
    BY <1>5 DEF ToggleWrite, ThenStop, SameTriggers, SInv, TypeOK
  <2>2. UNCHANGED <<workers, owed>> /\ Write(post[p].rule, new) /\ post[p].rule \in Rules
    BY <1>5, PostType DEF ToggleWrite, SInv
  <2> HIDE DEF new
  <2> QED BY <1>1, <2>1, <2>2, GoingSame
<1>6. ASSUME NEW p \in Posts, ToggleFails(p) PROVE Going(r)'
  <2>1. SameTriggers
    BY <1>6 DEF ToggleFails, SameTriggers, SInv, TypeOK
  <2> QED BY <1>6, <2>1, GoingSame DEF ToggleFails, SameWay
<1>7. ASSUME NEW p \in Posts, StopRule(p) PROVE Going(r)'
  <2>1. SameTriggers /\ UNCHANGED <<wk, owed>>
    BY <1>7 DEF StopRule, SameTriggers, SInv, TypeOK
  <2>2. workers'[r] \in {workers[r], None}
    BY <1>7 DEF StopRule, SInv, TypeOK
  <2> QED BY <2>1, <2>2, GoingSame DEF SameWay
<1>8. ASSUME NEW p \in Posts, CloseStopCh(p) \/ CallCancel(p) PROVE Going(r)'
  <2>1. SameTriggers /\ UNCHANGED <<workers, owed>>
    BY <1>8 DEF CloseStopCh, CallCancel, SameTriggers, SInv, TypeOK
  <2>2. workers[r] # post[p].worker
    BY <1>8 DEF CloseStopCh, CallCancel, SInv, HeldInv
  <2>3. workers[r] # None => wk'[workers[r]] = wk[workers[r]]
    BY <1>0, <1>8, <2>2 DEF CloseStopCh, CallCancel, SInv, TypeOK
  <2> QED BY <2>1, <2>3, GoingSame DEF SameWay
<1>9. ASSUME ListRules PROVE Going(r)'
  BY <1>9, GoingSame DEF ListRules, SameWay, SameTriggers
<1> QED BY <1>2, <1>3, <1>4, <1>5, <1>6, <1>7, <1>8, <1>9 DEF Edit

\* What a request for a scan does to it, in its two steps.
LEMMA TriggersKeepGoing ==
  ASSUME SInv, up, NEW r \in Rules, Going(r), NEW p \in Posts,
         Trigger(p) \/ \E q \in Rules : ruleScanPost(p, q)
  PROVE  Going(r)'
<1> DEFINE w == workers[r]
<1>1. CASE w = None
  BY <1>1 DEF Trigger, ruleScanPost, Going
<1>2. CASE w # None /\ \E q \in Rules : ruleScanPost(p, q)
  <2>1. PICK q \in Rules : ruleScanPost(p, q)
    BY <1>2
  <2>2. SameTriggers
    BY <2>1 DEF ruleScanPost, SameTriggers, SInv, TypeOK
  <2>3. CASE q = r
    <3>1. post'[p].at = "trigger" /\ post'[p].worker = w
      BY <2>1, <2>3 DEF ruleScanPost, SInv, TypeOK, Idle
    <3>2. Held(w, "trigger")'
      BY <2>1, <3>1 DEF Held, ruleScanPost
    <3> QED BY <1>2, <2>1, <3>2 DEF ruleScanPost, Going, Carries
  <2>4. CASE q # r
    BY <2>1, <2>2, <2>4, GoingSame DEF ruleScanPost, SameWay
  <2> QED BY <2>3, <2>4
<1>3. CASE w # None /\ Trigger(p)
  <2>1. w \in Workers /\ wk[w].stage # "none" /\ UNCHANGED <<workers, owed>>
    BY <1>3, MapType DEF SInv, MapInv, Trigger
  <2>2. wk[w] \in [stage : Stages \ {"none"}, rule : Rules, config : Configs,
                   stopped : BOOLEAN, cancelled : BOOLEAN, scanCh : BOOLEAN,
                   pending : BOOLEAN, steady : BOOLEAN]
    BY <2>1, WorkerRecord DEF SInv
  <2>3. CASE post[p].worker = w /\ wk[w].stage \in Alive
    <3>1. wk'[w] = [wk[w] EXCEPT !.scanCh = TRUE]
      BY <1>3, <2>1, <2>3 DEF Trigger, triggerScan, SInv, TypeOK
    <3> QED BY <1>3, <2>1, <2>2, <3>1 DEF Going, Carries
  <2>4. CASE post[p].worker = w /\ wk[w].stage \notin Alive
    BY <1>3, <2>1, <2>4 DEF Trigger, Going, Carries
  <2>5. CASE post[p].worker # w
    <3>1. wk'[w] = wk[w]
      BY <1>3, <2>1, <2>5 DEF Trigger, triggerScan, SInv, TypeOK
    <3>2. Held(w, "trigger") => Held(w, "trigger")'
      BY <1>3, <2>1, <2>5 DEF Trigger, Held, SInv, TypeOK
    <3> QED BY <1>3, <2>1, <3>1, <3>2 DEF Going, Carries
  <2> QED BY <2>3, <2>4, <2>5
<1> QED BY <1>1, <1>2, <1>3

\* What a step of run or watchLocal does to it.
LEMMA WorkersKeepGoing ==
  ASSUME SInv, up, NEW r \in Rules, Going(r), NEW v \in Workers,
         RunStep(v) \/ ScanTicked(v) \/ Exit(v) \/ PrimeFails(v) \/ WatchEvent(v) \/ WatchEnds(v)
  PROVE  Going(r)'
<1> DEFINE w == workers[r]
<1>0. UNCHANGED <<workers, post>>
  BY DEF RunStep, setCancel, Prime, PrimeCancelled, ScanAsked, ScanTicked, BeginScan, EndScan, Debounced,
         Exit, PrimeFails, WatchEvent, WatchEnds
<1>1. CASE w = None
  BY <1>0, <1>1 DEF Going
<1>2. ASSUME w # None
      PROVE  /\ w \in Workers /\ wk[w].rule = r /\ ~wk[w].stopped /\ ~wk[w].cancelled
             /\ wk[w].stage \in Alive \cup {"dead"}
             /\ wk[w] \in [stage : Stages \ {"none"}, rule : Rules, config : Configs,
                    stopped : BOOLEAN, cancelled : BOOLEAN, scanCh : BOOLEAN,
                    pending : BOOLEAN, steady : BOOLEAN]
  BY <1>2, MapType, WorkerRecord DEF SInv, MapInv, Going
<1>3. CASE w # None /\ v # w
  <2>1. wk'[w] = wk[w]
    <3>1. CASE setCancel(v) \/ Prime(v) \/ EndScan(v) \/ WatchEvent(v) \/ ScanAsked(v) \/ ScanTicked(v)
               \/ Debounced(v) \/ WatchEnds(v)
      <4>1. Steps(v)
        BY <3>1, RunSteps DEF SInv
      <4> QED BY <1>2, <1>3, <4>1 DEF Steps
    <3>2. CASE PrimeFails(v) \/ PrimeCancelled(v) \/ Exit(v)
      <4>1. \E rec : wk' = [wk EXCEPT ![v] = rec]
        BY <3>2 DEF PrimeFails, PrimeCancelled, Exit
      <4> QED BY <1>2, <1>3, <4>1 DEF SInv, TypeOK
    <3> QED BY <3>1, <3>2 DEF RunStep
  <2>2. r \in owed' => r \in owed
    BY <1>3 DEF RunStep, setCancel, Prime, PrimeCancelled, ScanAsked, ScanTicked, BeginScan, EndScan,
           Debounced, Exit, PrimeFails, WatchEvent, WatchEnds, Ask
  <2> QED BY <1>0, <2>1, <2>2, GoingSame DEF SameWay, SameTriggers
<1>4. CASE w # None /\ v = w
  <2>1. ASSUME setCancel(v) PROVE Going(r)'
    <3> DEFINE c == wk[w].cancelled \/ wk[w].stopped
    <3>1. wk'[w] = [wk[w] EXCEPT !.stage = "entered", !.cancelled = c]
      BY <1>2, <1>4, <2>1 DEF setCancel, CancelIfStopped, SInv, TypeOK
    <3>2. c = FALSE
      BY <1>2, <1>4
    <3> HIDE DEF c
    <3> QED BY <1>0, <1>2, <1>4, <3>1, <3>2 DEF Going, Carries, Alive
  <2>2. ASSUME Prime(v) PROVE Going(r)'
    <3>1. wk'[w] = [wk[w] EXCEPT !.stage = "looping", !.scanCh = TRUE]
      BY <1>2, <1>4, <2>2 DEF Prime, SInv, TypeOK
    <3> QED BY <1>0, <1>2, <1>4, <3>1 DEF Going, Carries, Alive
  <2>3. ASSUME PrimeFails(v) PROVE Going(r)'
    <3>1. wk'[w] = Returned(w, "dead")
      BY <1>2, <1>4, <2>3 DEF PrimeFails, SInv, TypeOK
    <3>2. Returned(w, "dead").stage = "dead" /\ ~Returned(w, "dead").cancelled
      BY <1>4 DEF Returned, NoWorker
    <3> QED BY <1>0, <3>1, <3>2 DEF Going, Carries
  <2>4. ASSUME ScanAsked(v) \/ ScanTicked(v) PROVE Going(r)'
    <3>1. \E b : wk'[w] = [wk[w] EXCEPT !.stage = "scanning", !.scanCh = b]
      BY <1>2, <1>4, <2>4 DEF ScanAsked, ScanTicked, BeginScan, SInv, TypeOK
    <3>2. r \notin owed'
      BY <1>2, <1>4, <2>4 DEF ScanAsked, ScanTicked, BeginScan
    <3> QED BY <1>0, <1>2, <1>4, <3>1, <3>2 DEF Going, Alive
  <2>5. ASSUME EndScan(v) PROVE Going(r)'
    <3>1. wk'[w] = [wk[w] EXCEPT !.stage = "looping"] /\ wk[w].stage = "scanning"
          /\ owed' = owed
      BY <1>2, <1>4, <2>5 DEF EndScan, SInv, TypeOK
    <3> QED BY <1>0, <1>2, <1>4, <3>1 DEF Going, Carries, Held, Alive
  <2>6. ASSUME WatchEvent(v) PROVE Going(r)'
    <3>1. wk'[w] = [wk[w] EXCEPT !.pending = TRUE]
      BY <1>2, <1>4, <2>6 DEF WatchEvent, SInv, TypeOK
    <3> QED BY <1>0, <1>2, <1>4, <3>1 DEF Going, Carries
  <2>7. ASSUME Debounced(v) PROVE Going(r)'
    <3>1. wk'[w] = [wk[w] EXCEPT !.scanCh = TRUE, !.pending = FALSE]
      BY <1>2, <1>4, <2>7 DEF Debounced, triggerScan, SInv, TypeOK
    <3> QED BY <1>0, <1>2, <1>4, <3>1 DEF Going, Carries
  <2>8. ~PrimeCancelled(v) /\ ~Exit(v) /\ ~WatchEnds(v)
    BY <1>2, <1>4 DEF PrimeCancelled, Exit, WatchEnds
  <2> QED BY <2>1, <2>2, <2>3, <2>4, <2>5, <2>6, <2>7, <2>8 DEF RunStep
<1> QED BY <1>1, <1>3, <1>4

\* What reconcile does: its new workers have yet to ask themselves.
LEMMA ReconcileKeepsGoing ==
  ASSUME SInv, up, NEW r \in Rules, Going(r), Reconcile
  PROVE  Going(r)'
<1>1. PICK f \in Assignments :
          /\ workers' = [q \in Rules |-> IF q \in Started THEN f[q]
                                         ELSE IF Outdated(q) THEN None ELSE workers[q]]
          /\ \A q \in Started : wk'[f[q]] = newRuleWorker(q, list[q].config, row[q] = list[q])
  BY Chosen DEF SInv
<1>2. post' = post /\ owed' = owed
  BY DEF Reconcile
<1>3. CASE r \in Started
  <2> DEFINE b == row[r] = list[r]
  <2>1. workers'[r] = f[r] /\ wk'[f[r]] = newRuleWorker(r, list[r].config, b)
    BY <1>1, <1>3
  <2> HIDE DEF b
  <2>2. /\ newRuleWorker(r, list[r].config, b).stage = "created"
        /\ newRuleWorker(r, list[r].config, b).cancelled = FALSE
    BY DEF newRuleWorker, NoWorker
  <2> QED BY <2>1, <2>2 DEF Going, Carries, Alive
<1>4. CASE r \notin Started /\ workers'[r] # None
  <2>1. workers[r] # None /\ ~Outdated(r)
    BY <1>1, <1>4
  <2>2. workers'[r] = workers[r] /\ wk'[workers[r]] = wk[workers[r]]
    BY <2>1, Kept
  <2> QED BY <1>2, <2>2, GoingSame DEF SameWay, SameTriggers
<1>5. CASE workers'[r] = None
  BY <1>5 DEF Going
<1> QED BY <1>3, <1>4, <1>5

LEMMA TriggerStep == SInv /\ TriggerInv /\ [Next]_vars => TriggerInv'
<1> SUFFICES ASSUME SInv, TriggerInv, [Next]_vars PROVE TriggerInv'
  OBVIOUS
<1>1. ASSUME up', NEW r \in Rules PROVE Going(r)'
  <2>1. CASE stopAll
    BY <1>1, <2>1 DEF stopAll
  <2>2. CASE UNCHANGED vars
    BY <1>1, <2>2 DEF vars, TriggerInv, Going, Carries, Held
  <2>3. CASE Next /\ ~stopAll
    <3>1. up
      BY <1>1, <2>3 DEF Next, Edit, ruleSavePost, ruleTogglePost, ruleDeletePost, PostStep, ToggleWrite, ToggleFails,
             StopRule, CloseStopCh, CallCancel, Trigger, ruleScanPost, Tick, ListRules, Reconcile, RunStep,
             setCancel, Prime, PrimeCancelled, ScanAsked, ScanTicked, BeginScan, EndScan, Debounced, Exit,
             PrimeFails, WatchEvent, WatchEnds
    <3>2. Going(r)
      BY <3>1 DEF TriggerInv
    <3> QED BY <2>3, <3>1, <3>2, RequestsKeepGoing, TriggersKeepGoing, WorkersKeepGoing, ReconcileKeepsGoing
            DEF Next, PostStep, Tick
  <2> QED BY <2>1, <2>2, <2>3
<1>2. ASSUME ~up' PROVE list' = Unread
  <2>1. CASE up
    <3>1. CASE stopAll
      BY <3>1 DEF stopAll
    <3>2. CASE ~stopAll
      BY <1>2, <2>1, <3>2 DEF Next, vars, Edit, ruleSavePost, ruleTogglePost, ruleDeletePost, PostStep, ToggleWrite,
             ToggleFails, StopRule, CloseStopCh, CallCancel, Trigger, ruleScanPost, Tick, ListRules, Reconcile,
             RunStep, setCancel, Prime, PrimeCancelled, ScanAsked, ScanTicked, BeginScan, EndScan, Debounced,
             Exit, PrimeFails, WatchEvent, WatchEnds
    <3> QED BY <3>1, <3>2
  <2>2. CASE ~up
    BY <2>2 DEF TriggerInv, Next, vars, Edit, ruleSavePost, ruleTogglePost, ruleDeletePost, PostStep, ToggleWrite,
           ToggleFails, StopRule, CloseStopCh, CallCancel, Trigger, ruleScanPost, Tick, ListRules, Reconcile,
           stopAll, RunStep, setCancel, Prime, PrimeCancelled, ScanAsked, ScanTicked, BeginScan, EndScan,
           Debounced, Exit, PrimeFails, WatchEvent, WatchEnds
  <2> QED BY <2>1, <2>2
<1> QED BY <1>1, <1>2 DEF TriggerInv

LEMMA TriggerAlways == Spec => [](SInv /\ TriggerInv)
<1>1. Init => TriggerInv
  BY DEF Init, TriggerInv, Going
<1>2. SInv /\ TriggerInv /\ [Next]_vars => SInv' /\ TriggerInv'
  BY SStep, TriggerStep
<1> QED BY <1>1, <1>2, SInit, PTL DEF Spec

\* A scan that a request, a change of a local file or a new worker has asked for is
\* not lost on its way, however the trigger meets scans that go on, stops, edits
\* and reconcile: as long as it has not begun, somebody is to send the rule's worker
\* a trigger, or its channel holds one, or there is no worker yet.
THEOREM TriggersAreNotLost == Spec => []OwedIsCarried
<1>1. TypeOK /\ TriggerInv => OwedIsCarried
  BY DEF TriggerInv, Going, OwedIsCarried, TypeOK
<1> QED BY <1>1, TriggerAlways, SupervisorTypeCorrect, PTL

---------------------------------------------------------------------------
(* Convergence lasts: what Convergence claims of the end needs no fairness  *)
(* once it is reached.                                                     *)

\* No request is to write or to stop, and reconcile goes by no old list.
Settled == /\ Converged
           /\ \A p \in Posts : post[p].at \in {"idle", "trigger"}
           /\ list \in {Unread, row}

\* The same rows, map and list, and requests that have nothing to do but trigger.
LEMMA SettledSame ==
  ASSUME Settled, UNCHANGED <<row, workers, up, list>>,
         \A p \in Posts : post'[p].at \in {"idle", "trigger"},
         \A r \in Rules : workers[r] # None =>
            /\ wk'[workers[r]].rule = wk[workers[r]].rule /\ wk'[workers[r]].config = wk[workers[r]].config
            /\ wk'[workers[r]].stopped = wk[workers[r]].stopped
            /\ wk[workers[r]].stage \in Alive \cup {"dead"} => wk'[workers[r]].stage \in Alive \cup {"dead"},
         \A w \in Workers : wk'[w].stage \in Alive => wk[w].stage \in Alive
  PROVE  Settled'
BY DEF Settled, Converged, Serves

\* A step of a worker: the one in the map does not return, but at its start.
LEMMA SettledWorkerStep ==
  ASSUME SInv, TriggerInv, Settled, NEW v \in Workers,
         RunStep(v) \/ ScanTicked(v) \/ Exit(v) \/ PrimeFails(v) \/ WatchEvent(v) \/ WatchEnds(v)
  PROVE  Settled'
<1>0. UNCHANGED <<row, workers, up, list, post>>
  BY DEF RunStep, setCancel, Prime, PrimeCancelled, ScanAsked, ScanTicked, BeginScan, EndScan, Debounced,
         Exit, PrimeFails, WatchEvent, WatchEnds
<1>1. CASE setCancel(v) \/ Prime(v) \/ EndScan(v) \/ WatchEvent(v) \/ ScanAsked(v) \/ ScanTicked(v)
           \/ Debounced(v) \/ WatchEnds(v)
  <2>1. Steps(v)
    BY <1>1, RunSteps DEF SInv
  <2>2. ASSUME NEW w \in Workers
        PROVE  /\ wk'[w].rule = wk[w].rule /\ wk'[w].config = wk[w].config
               /\ wk'[w].stopped = wk[w].stopped
               /\ wk'[w].stage \in Alive <=> wk[w].stage \in Alive
               /\ wk[w].stage = "dead" => wk'[w].stage = "dead"
    BY <2>1 DEF Steps, Alive
  <2> QED BY <1>0, <2>2, SettledSame, MapType DEF SInv, Settled
<1>2. CASE PrimeFails(v) \/ PrimeCancelled(v) \/ Exit(v)
  <2>2. PICK how \in {"exited", "dead"} : /\ wk' = [wk EXCEPT ![v] = Returned(v, how)]
                                          /\ how = "exited" => PrimeCancelled(v) \/ Exit(v)
    BY <1>2 DEF PrimeFails, PrimeCancelled, Exit
  <2>3. /\ \A w \in Workers \ {v} : wk'[w] = wk[w]
        /\ wk'[v] = Returned(v, how)
    BY <2>2 DEF SInv, TypeOK
  <2>4. wk'[v].stage \notin Alive
    BY <2>3 DEF Returned, NoWorker, Alive
  <2>5. ASSUME NEW r \in Rules, workers[r] = v
        PROVE  /\ wk'[v].rule = wk[v].rule /\ wk'[v].config = wk[v].config
               /\ wk'[v].stopped = wk[v].stopped /\ wk'[v].stage = "dead"
    <3>1. up /\ ~wk[v].cancelled /\ ~wk[v].stopped
      BY <2>5 DEF SInv, MapInv, TriggerInv, Going, Settled, Converged
    <3>2. how = "dead"
      BY <2>2, <3>1 DEF PrimeCancelled, Exit
    <3>3. wk'[v] = [NoWorker EXCEPT !.stage = "dead", !.rule = wk[v].rule, !.config = wk[v].config]
      BY <2>3, <2>5, <3>2 DEF Returned
    <3>4. wk[v].stopped = FALSE
      BY <3>1, <2>5, WorkerType DEF SInv, MapInv
    <3> QED BY <3>3, <3>4 DEF NoWorker
  <2> QED BY <1>0, <2>3, <2>4, <2>5, SettledSame, MapType DEF SInv, Settled
<1> QED BY <1>1, <1>2 DEF RunStep

\* reconcile finds every worker as the rows say.
LEMMA SettledTick ==
  ASSUME SInv, TriggerInv, Settled, Tick
  PROVE  Settled'
<1>1. CASE ListRules
  BY <1>1 DEF ListRules, Settled, Converged, Serves
<1>2. CASE Reconcile
  <2>1. up /\ list = row
    BY <1>2 DEF Reconcile, TriggerInv, Settled
  <2>2. \A r \in Rules : ~Outdated(r)
    BY <2>1 DEF Outdated, Desired, Settled, Converged, Serves
  <2>3. Started = {}
    BY <2>1, <2>2 DEF Started, Desired, Settled, Converged
  <2>4. PICK f \in Assignments :
            /\ workers' = [q \in Rules |-> IF q \in Started THEN f[q]
                                           ELSE IF Outdated(q) THEN None ELSE workers[q]]
            /\ wk' \in [Workers -> WorkerRecords]
            /\ \A w \in Workers : (\A q \in Started : f[q] # w) =>
                  wk'[w] = IF w \in Dropped THEN stopped(wk[w]) ELSE wk[w]
    BY <1>2, Chosen DEF SInv
  <2>5. \A r \in Rules : workers'[r] = workers[r]
    BY <2>2, <2>3, <2>4
  <2>6. \A w \in Workers : wk'[w] = wk[w]
    BY <2>2, <2>3, <2>4 DEF Dropped
  <2>7. workers' = workers /\ wk' = wk
    BY <2>4, <2>5, <2>6 DEF SInv, TypeOK
  <2>8. UNCHANGED <<row, up, post>> /\ list' = Unread
    BY <1>2 DEF Reconcile
  <2> QED BY <2>7, <2>8 DEF Settled, Converged, Serves
<1> QED BY <1>1, <1>2 DEF Tick

LEMMA SettledStep ==
  ASSUME SInv, TriggerInv, Settled, [Next]_vars, ~Edit, ~stopAll
  PROVE  Settled'
<1>1. CASE UNCHANGED vars
  BY <1>1 DEF vars, Settled, Converged, Serves
<1>2. ASSUME NEW p \in Posts, NEW r \in Rules, ruleScanPost(p, r) PROVE Settled'
  <2>1. \A o \in Posts : post'[o].at \in {"idle", "trigger"}
    BY <1>2 DEF ruleScanPost, Settled, Idle, SInv, TypeOK
  <2> QED BY <1>2, <2>1, SettledSame DEF ruleScanPost
<1>3. ASSUME NEW p \in Posts, PostStep(p) PROVE Settled'
  <2>1. Trigger(p)
    BY <1>3 DEF PostStep, ToggleWrite, ToggleFails, StopRule, CloseStopCh, CallCancel, Settled
  <2>2. \A o \in Posts : post'[o].at \in {"idle", "trigger"}
    BY <2>1 DEF Trigger, Settled, Idle, SInv, TypeOK
  <2>3. UNCHANGED <<row, list, workers, up>> /\ post[p].worker \in Workers
    BY <2>1, PostType DEF Trigger, SInv
  <2> DEFINE v == post[p].worker
  <2>4. CASE wk[v].stage \in Alive
    <3>1. Steps(v)
      BY <2>1, <2>3, <2>4, RunSteps DEF Trigger, SInv
    <3>2. ASSUME NEW w \in Workers
          PROVE  /\ wk'[w].rule = wk[w].rule /\ wk'[w].config = wk[w].config
                 /\ wk'[w].stopped = wk[w].stopped
                 /\ wk'[w].stage \in Alive <=> wk[w].stage \in Alive
                 /\ wk[w].stage = "dead" => wk'[w].stage = "dead"
      BY <3>1 DEF Steps, Alive
    <3> QED BY <2>2, <2>3, <3>2, SettledSame, MapType DEF SInv
  <2>5. CASE wk[v].stage \notin Alive
    <3>1. wk' = wk
      BY <2>1, <2>5 DEF Trigger
    <3> QED BY <2>2, <2>3, <3>1, SettledSame
  <2> QED BY <2>4, <2>5
<1> QED BY <1>1, <1>2, <1>3, SettledTick, SettledWorkerStep DEF Next

\* Once each enabled rule has its worker with the stored configuration, and no other
\* worker is left, it stays so until a request edits a rule or the daemon ends: no
\* tick, trigger, failure or old list replaces a worker, stops one or starts another.
THEOREM ConvergenceLasts == Spec => [][Settled /\ ~Edit /\ ~stopAll => Settled']_vars
<1>1. SInv /\ TriggerInv /\ [Next]_vars => [Settled /\ ~Edit /\ ~stopAll => Settled']_vars
  BY SettledStep
<1> QED BY <1>1, TriggerAlways, PTL DEF Spec
===========================================================================
