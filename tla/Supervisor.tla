----------------------------- MODULE Supervisor -----------------------------
(***************************************************************************)
(* The supervisor (internal/daemon/supervisor.go), the life of its workers  *)
(* (newRuleWorker, run, stop, triggerScan, watchLocal in worker.go) and the *)
(* requests that edit rules (internal/server/server.go, store/rules.go).    *)
(* Requests run beside the supervisor's loop; both use the map of workers   *)
(* under a mutex, and the table of rules outside of it.                     *)
(*                                                                         *)
(* What a worker's jobs do is in RuleJobs; here a worker scans, or not.     *)
(***************************************************************************)
EXTENDS Naturals, Functions

CONSTANTS
    Rules, None,
    Configs,  \* what ruleSame compares, but for enabled
    Entered,  \* the forms a user sends
    Normal,   \* what Normalize makes of a form, or of a row that is written back
    Workers,  \* goroutines of run
    Posts,    \* goroutines of requests
    MaxInputs, \* bound on requests, changes of local files and failures
    Faults    \* "settings": RuntimeSettings may fail when a worker starts

ASSUME ConfigsNormal == Entered \subseteq Configs /\ Normal \in [Configs -> Configs]
ASSUME InputsBound == MaxInputs \in Nat
ASSUME NoneIsNone == None \notin Workers \cup Rules

VARIABLES
    row,     \* the rules table
    list,    \* the rows reconcile has read, or Unread
    workers, \* s.workers
    wk,      \* the goroutines of run
    post,    \* the requests
    up,      \* the root context is not cancelled
    inputs,  \* how many requests, changes of local files and failures
    owed     \* history: the rules a scan was asked for and has not begun

vars == <<row, list, workers, wk, post, up, inputs, owed>>

NoRow  == [config |-> None, enabled |-> FALSE]
Unread == [r \in Rules |-> None]

---------------------------------------------------------------------------
(* A worker, by its next step.  "created": go w.run; "entered": setCancel   *)
(* has returned; "looping": at the select; "scanning": in doScan; "dead":   *)
(* RuntimeSettings failed at the start, and run has returned.               *)
(* pending: watchLocal has seen a change and waits out the debounce.        *)
(* steady, history: since the worker was started its row has said the same. *)

Stages == {"none", "created", "entered", "looping", "scanning", "exited", "dead"}
Alive  == {"created", "entered", "looping", "scanning"}

NoWorker == [stage |-> "none", rule |-> None, config |-> None, stopped |-> FALSE,
             cancelled |-> FALSE, scanCh |-> FALSE, pending |-> FALSE, steady |-> FALSE]

\* Mutant: the worker is made without its rule.
newRuleWorkerBare(r, c, same) == [NoWorker EXCEPT !.stage = "created", !.rule = r, !.steady = same]

newRuleWorker(r, c, same) == [NoWorker EXCEPT !.stage = "created", !.rule = r, !.config = c, !.steady = same]

\* The first half of stop, and all of it: w.cancel is nil before setCancel.
closed(w)  == IF w.stage \in Alive THEN [w EXCEPT !.stopped = TRUE] ELSE w
stopped(w) == IF w.stage \in Alive \ {"created"} THEN [closed(w) EXCEPT !.cancelled = TRUE] ELSE closed(w)

\* run has returned, and watchLocal with it.  The map may still have the worker.
Returned(w, how) == IF \E r \in Rules : workers[r] = w
                    THEN [NoWorker EXCEPT !.stage = how, !.rule = wk[w].rule, !.config = wk[w].config]
                    ELSE NoWorker

---------------------------------------------------------------------------
(* A request, by its next step.  "write": a toggle has read the rule;       *)
(* "stop": StopRule is to take the lock; "close", "cancel": the halves of   *)
(* w.stop, after the unlock; "trigger": w.triggerScan, after the unlock.    *)

Idle == [at |-> "idle", rule |-> None, row |-> NoRow, worker |-> None]

Reusable == {w \in Workers : /\ wk[w].stage \notin Alive
                             /\ \A r \in Rules : workers[r] # w
                             /\ \A p \in Posts : post[p].worker # w}

Init ==
    /\ row \in [Rules -> {[config |-> Normal[c], enabled |-> b] : c \in Entered, b \in BOOLEAN} \cup {NoRow}]
    /\ list = Unread
    /\ workers = [r \in Rules |-> None]
    /\ wk = [w \in Workers |-> NoWorker]
    /\ post = [p \in Posts |-> Idle]
    /\ up = TRUE
    /\ inputs = 0
    /\ owed = {}

---------------------------------------------------------------------------
(* Requests.                                                               *)

\* UpsertRule and DeleteRule.
Write(r, new) ==
    /\ inputs < MaxInputs
    /\ inputs' = inputs + 1
    /\ row' = [row EXCEPT ![r] = new]
    /\ wk' = [w \in Workers |-> IF wk[w].rule = r /\ ~(new.enabled /\ new.config = wk[w].config)
                                THEN [wk[w] EXCEPT !.steady = FALSE] ELSE wk[w]]

\* What a request does after its write.
ThenStop(p, r, enabled) ==
    post' = [post EXCEPT ![p] = IF enabled THEN Idle ELSE [Idle EXCEPT !.at = "stop", !.rule = r]]

ruleSavePost(p, r, c, enabled) ==
    /\ post[p].at = "idle"
    /\ Write(r, [config |-> Normal[c], enabled |-> enabled])
    /\ ThenStop(p, r, enabled)
    /\ UNCHANGED <<list, workers, up, owed>>

\* GetRule.
ruleTogglePost(p, r, enabled) ==
    /\ inputs < MaxInputs
    /\ post[p].at = "idle"
    /\ row[r] # NoRow
    /\ post' = [post EXCEPT ![p] = [Idle EXCEPT !.at = "write", !.rule = r,
                                                !.row = [row[r] EXCEPT !.enabled = enabled]]]
    /\ UNCHANGED <<row, list, workers, wk, up, inputs, owed>>

\* It writes the whole row back, normalized once more.
ToggleWrite(p) ==
    /\ post[p].at = "write"
    /\ Write(post[p].rule, [post[p].row EXCEPT !.config = Normal[@]])
    /\ ThenStop(p, post[p].rule, post[p].row.enabled)
    /\ UNCHANGED <<list, workers, up, owed>>

\* UpsertRule fails: the request answers with the error.
ToggleFails(p) ==
    /\ post[p].at = "write"
    /\ post' = [post EXCEPT ![p] = Idle]
    /\ UNCHANGED <<row, list, workers, wk, up, inputs, owed>>

\* The worker is left to reconcile.
ruleDeletePost(r) ==
    /\ row[r] # NoRow
    /\ Write(r, NoRow)
    /\ UNCHANGED <<list, workers, post, up, owed>>

\* StopRule, under the lock.
StopRule(p) ==
    /\ post[p].at = "stop"
    /\ LET r == post[p].rule
       IN  /\ workers' = [workers EXCEPT ![r] = None]
           /\ post' = [post EXCEPT ![p] = IF workers[r] = None THEN Idle
                                          ELSE [Idle EXCEPT !.at = "close", !.worker = workers[r]]]
    /\ UNCHANGED <<row, list, wk, up, inputs, owed>>

CloseStopCh(p) ==
    /\ post[p].at = "close"
    /\ wk' = [wk EXCEPT ![post[p].worker] = closed(@)]
    /\ post' = [post EXCEPT ![p].at = "cancel"]
    /\ UNCHANGED <<row, list, workers, up, inputs, owed>>

CallCancel(p) ==
    /\ post[p].at = "cancel"
    /\ wk' = [wk EXCEPT ![post[p].worker] = stopped(@)]
    /\ post' = [post EXCEPT ![p] = Idle]
    /\ UNCHANGED <<row, list, workers, up, inputs, owed>>

\* TriggerScan, under the lock.
ruleScanPost(p, r) ==
    /\ post[p].at = "idle"
    /\ workers[r] # None
    /\ inputs < MaxInputs /\ inputs' = inputs + 1
    /\ post' = [post EXCEPT ![p] = [Idle EXCEPT !.at = "trigger", !.worker = workers[r]]]
    /\ owed' = owed \cup {r}
    /\ UNCHANGED <<row, list, workers, wk, up>>

\* Mutant: the channel has no room, and run is not always at its select.
triggerUnbuffered(w) == [wk EXCEPT ![w].scanCh = (wk[w].stage = "looping")]

\* A send that does not block, on a channel of one.
triggerScan(w) == [wk EXCEPT ![w].scanCh = TRUE]

Trigger(p) ==
    /\ post[p].at = "trigger"
    /\ LET w == post[p].worker
       IN  wk' = IF wk[w].stage \in Alive THEN triggerScan(w) ELSE wk
    /\ post' = [post EXCEPT ![p] = Idle]
    /\ UNCHANGED <<row, list, workers, up, inputs, owed>>

---------------------------------------------------------------------------
(* The supervisor's loop.                                                  *)

\* ListRules; when it fails, reconcile returns.
ListRules ==
    /\ up /\ list = Unread
    /\ list' = row
    /\ UNCHANGED <<row, workers, wk, post, up, inputs, owed>>

Desired == {r \in Rules : list[r].enabled}

\* Mutant: a worker is replaced whether or not its rule has changed.
OutdatedAlways(r) == workers[r] # None

\* Mutant: ruleSame does not see what was edited.
OutdatedIfGone(r) == workers[r] # None /\ r \notin Desired

Outdated(r) == workers[r] # None /\ (r \notin Desired \/ wk[workers[r]].config # list[r].config)

Started == {r \in Desired : workers[r] = None \/ Outdated(r)}

\* Mutant: the workers that reconcile drops are not stopped.
DroppedNone == {}

Dropped == {workers[r] : r \in {q \in Rules : Outdated(q)}}

Assignments == {f \in [Started -> Reusable] : IsInjective(f)}

\* Under the lock.  (A bound: there are goroutines left for the new workers.)
Reconcile ==
    /\ list # Unread
    /\ Assignments # {}
    /\ LET f == CHOOSE g \in Assignments : TRUE
       IN  /\ workers' = [r \in Rules |-> IF r \in Started THEN f[r]
                                          ELSE IF Outdated(r) THEN None ELSE workers[r]]
           /\ wk' = [w \in Workers |->
                        IF w \in Range(f)
                        THEN LET r == CHOOSE q \in Started : f[q] = w
                             IN  newRuleWorker(r, list[r].config, row[r] = list[r])
                        ELSE IF w \in Dropped THEN stopped(wk[w]) ELSE wk[w]]
    /\ list' = Unread
    /\ UNCHANGED <<row, post, up, inputs, owed>>

\* ctx.Done: stopAll.  Each scanCtx is derived from the context that is cancelled.
stopAll ==
    /\ up /\ list = Unread
    /\ up' = FALSE
    /\ workers' = [r \in Rules |-> None]
    /\ wk' = [w \in Workers |->
                 IF wk[w].stage \in Alive
                 THEN [wk[w] EXCEPT !.cancelled = TRUE, !.stopped = @ \/ \E r \in Rules : workers[r] = w]
                 ELSE wk[w]]
    /\ UNCHANGED <<row, list, post, inputs, owed>>

---------------------------------------------------------------------------
(* run and watchLocal.                                                     *)

\* Mutant: a stop that came before is not noticed.
CancelIfStoppedNever(w) == FALSE

CancelIfStopped(w) == wk[w].stopped

\* History: a scan is owed to those who reach the rule's present worker.
Ask(w) == owed' = owed \cup {r \in Rules : workers[r] = w}

setCancel(w) ==
    /\ wk[w].stage = "created"
    /\ wk' = [wk EXCEPT ![w].stage = "entered", ![w].cancelled = @ \/ CancelIfStopped(w)]
    /\ UNCHANGED <<row, list, workers, post, up, inputs, owed>>

\* RuntimeSettings, the tickers, go w.watchLocal, and the first triggerScan.
Prime(w) ==
    /\ wk[w].stage = "entered"
    /\ ~wk[w].cancelled
    /\ wk' = [wk EXCEPT ![w].stage = "looping", ![w].scanCh = TRUE]
    /\ Ask(w)
    /\ UNCHANGED <<row, list, workers, post, up, inputs>>

\* RuntimeSettings fails: run returns, and the worker stays in the map.
PrimeFails(w) ==
    /\ wk[w].stage = "entered"
    /\ "settings" \in Faults
    /\ inputs < MaxInputs /\ inputs' = inputs + 1
    /\ wk' = [wk EXCEPT ![w] = Returned(w, "dead")]
    /\ UNCHANGED <<row, list, workers, post, up, owed>>

\* It does when the context is cancelled.
PrimeCancelled(w) ==
    /\ wk[w].stage = "entered"
    /\ wk[w].cancelled
    /\ wk' = [wk EXCEPT ![w] = Returned(w, "exited")]
    /\ UNCHANGED <<row, list, workers, post, up, inputs, owed>>

BeginScan(w, scanCh) ==
    /\ wk[w].stage = "looping"
    /\ wk' = [wk EXCEPT ![w].stage = "scanning", ![w].scanCh = scanCh]
    /\ owed' = IF wk[w].cancelled THEN owed ELSE owed \ {wk[w].rule}
    /\ UNCHANGED <<row, list, workers, post, up, inputs>>

ScanAsked(w)  == wk[w].scanCh /\ BeginScan(w, FALSE)
ScanTicked(w) == BeginScan(w, wk[w].scanCh)

EndScan(w) ==
    /\ wk[w].stage = "scanning"
    /\ wk' = [wk EXCEPT ![w].stage = "looping"]
    /\ UNCHANGED <<row, list, workers, post, up, inputs, owed>>

\* scanCtx.Done or stopCh.
Exit(w) ==
    /\ wk[w].stage = "looping"
    /\ wk[w].cancelled \/ wk[w].stopped
    /\ wk' = [wk EXCEPT ![w] = Returned(w, "exited")]
    /\ UNCHANGED <<row, list, workers, post, up, inputs, owed>>

\* A change below src_local_root: the debounce timer runs from the first one.
WatchEvent(w) ==
    /\ wk[w].stage \in {"looping", "scanning"}
    /\ ~wk[w].cancelled
    /\ inputs < MaxInputs /\ inputs' = inputs + 1
    /\ wk' = [wk EXCEPT ![w].pending = TRUE]
    /\ Ask(w)
    /\ UNCHANGED <<row, list, workers, post, up>>

Debounced(w) ==
    /\ wk[w].pending
    /\ wk' = [triggerScan(w) EXCEPT ![w].pending = FALSE]
    /\ UNCHANGED <<row, list, workers, post, up, inputs, owed>>

\* watchLocal returns on ctx.Done.
WatchEnds(w) ==
    /\ wk[w].pending /\ wk[w].cancelled
    /\ wk' = [wk EXCEPT ![w].pending = FALSE]
    /\ UNCHANGED <<row, list, workers, post, up, inputs, owed>>

---------------------------------------------------------------------------
Edit == \/ \E p \in Posts, r \in Rules, b \in BOOLEAN :
              (\E c \in Entered : ruleSavePost(p, r, c, b)) \/ ruleTogglePost(p, r, b)
        \/ \E r \in Rules : ruleDeletePost(r)

PostStep(p) == \/ ToggleWrite(p) \/ ToggleFails(p) \/ StopRule(p)
               \/ CloseStopCh(p) \/ CallCancel(p) \/ Trigger(p)

RunStep(w) == setCancel(w) \/ Prime(w) \/ PrimeCancelled(w) \/ ScanAsked(w) \/ EndScan(w) \/ Debounced(w)

Tick == ListRules \/ Reconcile

Next == \/ Edit \/ \E p \in Posts : PostStep(p)
        \/ \E p \in Posts, r \in Rules : ruleScanPost(p, r)
        \/ Tick \/ stopAll
        \/ \E w \in Workers : RunStep(w) \/ ScanTicked(w) \/ Exit(w) \/ PrimeFails(w)
                              \/ WatchEvent(w) \/ WatchEnds(w)

Spec == Init /\ [][Next]_vars

---------------------------------------------------------------------------
(* Correctness.                                                            *)

Stored == [config : Configs, enabled : BOOLEAN]
Rows   == Stored \cup {NoRow}

WorkerRecords == [stage : Stages \ {"none"}, rule : Rules, config : Configs,
                  stopped : BOOLEAN, cancelled : BOOLEAN, scanCh : BOOLEAN,
                  pending : BOOLEAN, steady : BOOLEAN] \cup {NoWorker}

PostRecords ==
    {Idle} \cup [at : {"write"}, rule : Rules, row : Stored, worker : {None}]
           \cup [at : {"stop"}, rule : Rules, row : {NoRow}, worker : {None}]
           \cup [at : {"close", "cancel", "trigger"}, rule : {None}, row : {NoRow}, worker : Workers]

\* Every variable holds a value of its type.
TypeOK ==
    /\ row \in [Rules -> Rows]
    /\ list \in [Rules -> Rows] \cup {Unread}
    /\ workers \in [Rules -> Workers \cup {None}]
    /\ wk \in [Workers -> WorkerRecords]
    /\ post \in [Posts -> PostRecords]
    /\ up \in BOOLEAN
    /\ inputs \in 0..MaxInputs
    /\ owed \in SUBSET Rules

Held(w, at) == \E p \in Posts : post[p].at = at /\ post[p].worker = w

\* No goroutine of run is lost: one nobody has stopped can be stopped, for the
\* map holds it, or a StopRule that took it out does.
NoLeakedWorker ==
    \A w \in Workers : wk[w].stage \in Alive /\ ~wk[w].stopped =>
        \/ Held(w, "close") \/ ~up
        \/ \E r \in Rules : workers[r] = w /\ wk[w].rule = r

\* A stop is never missed, even one that comes before run has published its
\* cancel function: the scan's context is cancelled, or about to be.
StopCancels ==
    \A w \in Workers : wk[w].stopped /\ wk[w].stage \in Alive \ {"created"} =>
        wk[w].cancelled \/ Held(w, "cancel")

\* reconcile leaves a worker alone whose row has said the same since it was
\* started, whatever requests were served meanwhile.
NoChurn == [][\A w \in Workers :
                  /\ list # Unread /\ list' = Unread
                  /\ \E r \in Rules : workers[r] = w
                  /\ wk[w].steady
                  => ~wk'[w].stopped /\ \E r \in Rules : workers'[r] = w]_vars

---------------------------------------------------------------------------
(* Liveness: the ticker of 5 seconds, requests go on, scans end.  Of the    *)
(* cases of run's select that are ready one is chosen at random, so the one *)
(* that ends the loop is chosen in the end (strong fairness).               *)

Fairness ==
    /\ WF_vars(Tick)
    /\ \A p \in Posts : WF_vars(PostStep(p))
    /\ \A w \in Workers : WF_vars(RunStep(w)) /\ SF_vars(Exit(w))

FairSpec == Spec /\ Fairness

Serves(w, r) == /\ wk[w].rule = r /\ wk[w].config = row[r].config /\ ~wk[w].stopped
                /\ wk[w].stage \in Alive \cup {"dead"}

Converged ==
    /\ \A r \in Rules : IF up /\ row[r].enabled
                        THEN workers[r] # None /\ Serves(workers[r], r)
                        ELSE workers[r] = None
    /\ \A w \in Workers : wk[w].stage \in Alive => \E r \in Rules : workers[r] = w

\* However saves, toggles, deletions and reconcile's old lists interleave: once
\* edits cease, each enabled rule is served by one worker with the stored
\* configuration, and no other worker is left.
Convergence == <>[]Converged

\* A scan that a request, a change of a local file or a new worker asked for
\* begins, by this worker or the next, unless the rule is no longer enabled or
\* its worker could not start.
EventuallyScanned ==
    \A r \in Rules : r \in owed ~>
        \/ r \notin owed \/ ~row[r].enabled \/ ~up
        \/ workers[r] # None /\ wk[workers[r]].stage = "dead"
===========================================================================
