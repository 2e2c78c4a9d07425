------------------------------ MODULE Reconcile ------------------------------
(***************************************************************************)
(* The reconcile loop of one experiment (pkg/controller/experiment).  The  *)
(* worker copies the Experiment from the informer cache, works on the copy,*)
(* and writes it back with optimistic concurrency; it writes the routing   *)
(* rules and deletes targets directly.  One action runs from one API call  *)
(* to the next, so users, targets, the informer, faults and crashes        *)
(* interleave at every call.  The control state names the call to come:    *)
(*                                                                         *)
(*   idle, initStatus, finalizer, decide, pause, resume, metrics,          *)
(*   metricsError, metricsUpdate, fetch, detect, baselineVS, baselineDR,   *)
(*   candidates, candidatesVS, candidatesDR, iterate, trafficVS, finish,   *)
(*   complete, stableVS, stableDR, deleteVS, deleteDR, endRequest,         *)
(*   removeFinalizer                                                       *)
(***************************************************************************)
EXTENDS IstioRules, Functions

CONSTANTS
    Service,          \* the internal service, a target besides the versions
    Responses,        \* what the analytics service may answer
    MaxEdits,         \* bound: edits of the experiment by users
    MaxTargetEvents,  \* bound: targets created or deleted by users
    MaxFaults,        \* bound: API calls that fail
    MaxCrashes        \* bound: crashes of the controller

Targets == Versions \cup {Service}

\* An answer of the analytics service: covered has the versions whose new
\* weight is found before one is missing, none when the strategy is missing.
Response == [rollback : SUBSET Candidates, winner : Versions \cup {NoWinner},
             covered : SUBSET Versions, split : Traffic]

ASSUME EnvironmentAssumption ==
    /\ Service \notin Versions
    /\ Responses \subseteq Response
    /\ {MaxEdits, MaxTargetEvents, MaxFaults, MaxCrashes} \subseteq Nat

VARIABLES
    obj,       \* the Experiment in the API server
    cache,     \* the informer's copy of it
    synced,    \* the copy is the latest version
    event,     \* a version not in the cache yet passes the watch predicate
    vs, dr,    \* the routing rules in the cluster
    live,      \* the targets in the cluster
    registered, targetAction,  \* the experiment's entry in the adapter
    queued,    \* the experiment is in the work queue
    timer,     \* its entry in the delaying queue: none, waiting, ready
    pc,        \* the worker: the API call to come
    inst,      \* the worker's copy of the Experiment
    current,   \* the copy has the resourceVersion of obj
    finalizing, fetched,               \* finalize called; r.router.rules # nil
    statusUpdate, refresh, progress,   \* interState
    edits, targetEvents, faults, crashes  \* what the bounds count

store == <<obj, cache, synced, event>>
rules == <<vs, dr>>
adapter == <<registered, targetAction>>
workqueue == <<queued, timer>>
interState == <<statusUpdate, refresh, progress>>
worker == <<pc, inst, current, finalizing, fetched, interState>>
users == <<edits, targetEvents>>
vars == <<store, rules, live, adapter, workqueue, worker, users, faults, crashes>>

PCs == {"idle", "initStatus", "finalizer", "decide", "pause", "resume", "metrics",
        "metricsError", "metricsUpdate", "fetch", "detect", "baselineVS", "baselineDR",
        "candidates", "candidatesVS", "candidatesDR", "iterate", "trafficVS", "finish",
        "complete", "stableVS", "stableDR", "deleteVS", "deleteDR", "endRequest", "removeFinalizer"}

Init ==
    /\ obj \in {[NewObject EXCEPT !.valid = valid] : valid \in Validity}
    /\ cache = obj /\ synced = TRUE /\ event = FALSE
    /\ \/ vs = AbsentVS /\ dr = AbsentDR
       \/ /\ vs = [role |-> "stable", init |-> FALSE, weight |-> AllTo(Baseline)]
          /\ dr = AbsentDR \/ (RequireDR /\ dr = [role |-> "stable", init |-> FALSE])
    /\ live \in {Targets} \cup {Targets \ {t} : t \in Targets}
    /\ registered = FALSE /\ targetAction = ""
    /\ queued = TRUE /\ timer = "none"
    /\ pc = "idle" /\ inst = NewObject /\ current = FALSE
    /\ finalizing = FALSE /\ fetched = FALSE
    /\ statusUpdate = FALSE /\ refresh = FALSE /\ progress = FALSE
    /\ edits = 0 /\ targetEvents = 0 /\ faults = 0 /\ crashes = 0

-----------------------------------------------------------------------------
\* API calls.

CallFails == faults < MaxFaults /\ faults' = faults + 1
CallSucceeds == UNCHANGED faults

\* The answer to Update or Status().Update of the worker's copy.
Answer(a) ==
    \/ a = "ok" /\ obj.exists /\ current /\ CallSucceeds
    \/ a = "conflict" /\ obj.exists /\ ~current /\ CallSucceeds
    \/ a = "error" /\ ~obj.exists /\ CallSucceeds
    \/ a = "error" /\ obj.exists /\ CallFails

\* validUpdateErr: a conflict passes for success.
Benign(a) == a # "error"

Store(new) ==
    /\ obj' = new
    /\ synced' = (synced /\ new = obj)
    /\ event' = (event \/ AcceptsUpdate(obj, new) \/ obj.exists # new.exists)
    /\ UNCHANGED cache

\* Status().Update(x): the server stores the status and answers with its object.
UpdateStatus(a, x) ==
    IF a = "ok" THEN Store([obj EXCEPT !.status = x.status]) ELSE UNCHANGED store

\* Update(x): the server stores all but the status.
UpdateObject(a, x) ==
    IF a = "ok" THEN Store([x EXCEPT !.status = obj.status]) ELSE UNCHANGED store

\* The worker's copy after the call.
Decoded(a, x) == IF a = "ok" THEN obj' ELSE x

-----------------------------------------------------------------------------
\* The worker moves to its next call, or returns from Reconcile.

Goto(next, x) == pc' = next /\ inst' = x

Return ==
    /\ pc' = "idle" /\ inst' = NewObject /\ current' = FALSE
    /\ finalizing' = FALSE /\ fetched' = FALSE
    /\ statusUpdate' = FALSE /\ refresh' = FALSE /\ progress' = FALSE

\* endRequest from an error path: the copy is written if its status changed.
Fail(x, changed) ==
    /\ Goto("endRequest", x)
    /\ statusUpdate' = (statusUpdate \/ changed)
    /\ UNCHANGED <<current, finalizing, fetched, refresh, progress>>

Continue(next, x) ==
    /\ Goto(next, x)
    /\ UNCHANGED <<current, finalizing, fetched, interState>>

toDetectTargets(x, r) == ~(x.override = "terminate" \/ (x.status.targets = "Found" /\ ~r))
toProcessIteration(x) == x.override # "terminate" /\ x.status.last # "recent"
toCompleteByCount(x) == MaxIterations <= x.status.iteration  \* mutants
toCompleteEarly(x) == MaxIterations <= x.status.iteration + 1 \/ x.override = "terminate"
toCompleteLate(x) == MaxIterations < x.status.iteration \/ x.override = "terminate"
toComplete(x) == MaxIterations <= x.status.iteration \/ x.override = "terminate"
-----------------------------------------------------------------------------
\* Reconcile, up to the point where the experiment is known to be active.

\* Reconcile starts: Get reads the informer cache.
Get ==
    /\ pc = "idle" /\ queued
    /\ queued' = FALSE
    /\ IF ~cache.exists THEN Return
       ELSE LET x == IF cache.status.inited THEN cache ELSE InitStatus(cache)
            IN  /\ current' = synced
                /\ UNCHANGED <<finalizing, fetched, refresh, progress>>
                /\ IF cache.status.inited
                     THEN Goto(IF x.finalizer THEN "decide" ELSE "finalizer", x)
                          /\ UNCHANGED statusUpdate
                   ELSE IF x.valid
                     THEN Goto("initStatus", x) /\ UNCHANGED statusUpdate
                   ELSE Goto("endRequest", MarkTargetsError(x, "Invalid")) /\ statusUpdate' = TRUE
    /\ UNCHANGED <<store, rules, live, adapter, timer, users, faults, crashes>>

\* Status().Update after InitStatus; an error ends the request with no retry.
WriteInitStatus ==
    /\ pc = "initStatus"
    /\ \E a \in {"ok", "conflict", "error"} :
         /\ Answer(a)
         /\ UpdateStatus(a, inst)
         /\ IF Benign(a)
              THEN Continue(IF inst.finalizer THEN "decide" ELSE "finalizer", Decoded(a, inst))
              ELSE Return
    /\ UNCHANGED <<rules, live, adapter, workqueue, users, crashes>>

addFinalizerIfAbsent ==
    /\ pc = "finalizer"
    /\ LET x == [inst EXCEPT !.finalizer = TRUE]
       IN  \E a \in {"ok", "conflict", "error"} :
             /\ Answer(a)
             /\ UpdateObject(a, x)
             /\ IF Benign(a) THEN Continue("decide", Decoded(a, x)) /\ UNCHANGED queued
                             ELSE Return /\ queued' = TRUE
    /\ UNCHANGED <<rules, live, adapter, timer, users, crashes>>

\* A mutant: a completed experiment is finalized like an active one.
FinalizeAlways ==
    /\ pc = "decide" /\ inst.deleting
    /\ Goto("fetch", TerminateExperiment(inst))
    /\ finalizing' = TRUE
    /\ statusUpdate' = FALSE /\ refresh' = FALSE /\ progress' = FALSE
    /\ UNCHANGED <<current, fetched>>
    /\ UNCHANGED <<store, rules, live, adapter, workqueue, users, faults, crashes>>

\* finalize: the copy is terminated in memory; r.syncExperiment without an action.
Finalize ==
    /\ pc = "decide" /\ inst.deleting
    /\ IF ExperimentCompleted(inst)
         THEN Continue("removeFinalizer", inst)
         ELSE /\ Goto("fetch", TerminateExperiment(inst))
              /\ finalizing' = TRUE
              /\ statusUpdate' = FALSE /\ refresh' = FALSE /\ progress' = FALSE
              /\ UNCHANGED <<current, fetched>>
    /\ UNCHANGED <<store, rules, live, adapter, workqueue, users, faults, crashes>>

NotToProceed ==
    /\ pc = "decide" /\ ~inst.deleting /\ ExperimentCompleted(inst)
    /\ Return
    /\ UNCHANGED <<store, rules, live, adapter, workqueue, users, faults, crashes>>

toSyncMetrics(x) == IF Criteria /\ x.status.metricsSynced # "True" THEN "metrics" ELSE "fetch"

\* RegisterExperiment and GetAction, syncExperiment, and proceed:
\* refresh/terminate-command > pause-action > resume-action.
Proceed ==
    /\ pc = "decide" /\ ~inst.deleting /\ ~ExperimentCompleted(inst)
    /\ registered' = TRUE /\ targetAction' = ""
    /\ LET toRefresh == registered /\ targetAction # ""
           cleared == [inst EXCEPT !.override = "none", !.split = NoSplit]
       IN  /\ statusUpdate' = FALSE /\ refresh' = toRefresh /\ progress' = FALSE
           /\ UNCHANGED <<current, finalizing, fetched>>
           /\ IF toRefresh \/ inst.override = "terminate" THEN Goto(toSyncMetrics(inst), inst)
              ELSE IF inst.override \in {"pause", "resume"} THEN Goto(inst.override, cleared)
              ELSE Goto(IF inst.status.phase = "Pause" THEN "endRequest"
                                                     ELSE toSyncMetrics(inst), inst)
    /\ UNCHANGED <<store, rules, live, workqueue, users, faults, crashes>>

\* A mutant: the phase is not marked.
PauseUnmarked ==
    /\ pc = "pause"
    /\ \E a \in {"ok", "conflict", "error"} :
         Answer(a) /\ UpdateObject(a, inst) /\ Fail(Decoded(a, inst), FALSE)
    /\ UNCHANGED <<rules, live, adapter, workqueue, users, crashes>>

\* Update clears the command; the phase is written by the endRequest to come.
Pause ==
    /\ pc = "pause"
    /\ \E a \in {"ok", "conflict", "error"} :
         /\ Answer(a)
         /\ UpdateObject(a, inst)
         /\ IF Benign(a) THEN Fail(MarkExperimentPause(Decoded(a, inst)), TRUE)
                         ELSE Fail(inst, FALSE)
    /\ UNCHANGED <<rules, live, adapter, workqueue, users, crashes>>

Resume ==
    /\ pc = "resume"
    /\ \E a \in {"ok", "conflict", "error"} :
         /\ Answer(a)
         /\ UpdateObject(a, inst)
         /\ IF ~Benign(a) THEN Fail(inst, FALSE)
            ELSE LET x == MarkExperimentResume(Decoded(a, inst))
                 IN  /\ Goto(toSyncMetrics(x), x)
                     /\ statusUpdate' = TRUE /\ refresh' = TRUE
                     /\ UNCHANGED <<current, finalizing, fetched, progress>>
    /\ UNCHANGED <<rules, live, adapter, workqueue, users, crashes>>

-----------------------------------------------------------------------------
\* syncMetrics.

ReadMetrics ==
    /\ pc = "metrics"
    /\ \/ CallSucceeds /\ Continue("metricsUpdate", [inst EXCEPT !.metrics = TRUE])
       \/ /\ CallFails
          /\ Goto("metricsError", MarkMetricsSyncedError(inst))
          /\ \E another \in BOOLEAN :
               statusUpdate' = (statusUpdate \/ another \/ inst.status.metricsSynced # "False")
          /\ UNCHANGED <<current, finalizing, fetched, refresh, progress>>
    /\ UNCHANGED <<store, rules, live, adapter, workqueue, users, crashes>>

WriteMetricsError ==
    /\ pc = "metricsError"
    /\ \E a \in {"ok", "conflict", "error"} :
         /\ Answer(a)
         /\ UpdateStatus(a, inst)
         /\ Fail(Decoded(a, inst), FALSE)
    /\ UNCHANGED <<rules, live, adapter, workqueue, users, crashes>>

WriteMetrics ==
    /\ pc = "metricsUpdate"
    /\ \E a \in {"ok", "conflict", "error"} :
         /\ Answer(a)
         /\ UpdateObject(a, inst)
         /\ IF ~Benign(a) THEN Fail(inst, FALSE)
            ELSE /\ Goto("fetch", [Decoded(a, inst) EXCEPT !.status.metricsSynced = "True"])
                 /\ statusUpdate' = TRUE
                 /\ UNCHANGED <<current, finalizing, fetched, refresh, progress>>
    /\ UNCHANGED <<rules, live, adapter, workqueue, users, crashes>>

-----------------------------------------------------------------------------
\* syncKubernetes.

\* What follows the detection of targets: an iteration that is due, or the end.
AfterDetection(x) == IF toProcessIteration(x) THEN "iterate" ELSE "finish"

\* checkOrInitRules: when the rules cannot be read or used, the experiment ends.
Fetch ==
    /\ pc = "fetch"
    /\ \/ /\ CallSucceeds
          /\ FetchAccepts(vs, dr)
          /\ fetched' = TRUE
          /\ IF toDetectTargets(inst, refresh)
               THEN Goto("detect", inst)
               ELSE Goto(AfterDetection(inst), inst)
          /\ UNCHANGED <<current, finalizing, interState>>
       \/ /\ CallFails \/ (~FetchAccepts(vs, dr) /\ CallSucceeds)
          /\ Continue("complete", MarkRoutingRulesError(inst))
    /\ UNCHANGED <<store, rules, live, adapter, workqueue, users, crashes>>

TargetsError(role) ==
    LET reason == TargetsErrorReason(inst, role)
    IN  Fail(MarkTargetsError(inst, reason), inst.status.targets # reason)

\* markCondition reports a change of the message, too: the error may be another.
RulesError ==
    \E another \in BOOLEAN :
        Fail(MarkRoutingRulesError(inst), another \/ inst.status.rulesReady # "False")

\* detectTargets, up to the baseline.
DetectBaseline ==
    /\ pc = "detect"
    /\ IF Service \notin live THEN TargetsError("service")
       ELSE IF Baseline \notin live THEN TargetsError("baseline")
       ELSE Continue(IF isProgressing(vs, dr) \/ isInitializing(vs, dr)
                       THEN "candidates" ELSE "baselineVS", inst)
    /\ UNCHANGED <<store, rules, live, adapter, workqueue, users, faults, crashes>>

\* UpdateRouteWithBaseline: Create or Update of the VirtualService ...
UpdateBaselineVS ==
    /\ pc = "baselineVS"
    /\ IF ToCreate(vs) /\ vs.role # "absent"
         THEN CallSucceeds /\ RulesError /\ UNCHANGED vs
         ELSE \/ /\ CallSucceeds
                 /\ vs' = WithBaseline(vs)
                 /\ IF RequireDR THEN Continue("baselineDR", inst)
                    ELSE Continue("candidates", [inst EXCEPT !.status.weight[Baseline] = 100])
              \/ CallFails /\ RulesError /\ UNCHANGED vs
    /\ UNCHANGED <<store, dr, live, adapter, workqueue, users, crashes>>

\* ... and of the DestinationRule.
UpdateBaselineDR ==
    /\ pc = "baselineDR"
    /\ IF ToCreate(dr) /\ dr.role # "absent"
         THEN CallSucceeds /\ RulesError /\ UNCHANGED dr
         ELSE \/ /\ CallSucceeds
                 /\ dr' = WithInitializing(dr)
                 /\ Continue("candidates", [inst EXCEPT !.status.weight[Baseline] = 100])
              \/ CallFails /\ RulesError /\ UNCHANGED dr
    /\ UNCHANGED <<store, vs, live, adapter, workqueue, users, crashes>>

\* markTargetsFound and markRoutingRulesReady.
Detected ==
    LET x == MarkTargetsAndRulesReady(inst)
    IN  /\ statusUpdate' = (statusUpdate \/ x # inst)
        /\ UNCHANGED <<current, finalizing, fetched, refresh, progress>>
        /\ Goto(AfterDetection(x), x)

DetectCandidates ==
    /\ pc = "candidates"
    /\ IF ~(Candidates \subseteq live) THEN TargetsError("candidate")
       ELSE IF isProgressing(vs, dr) THEN Detected
       ELSE Continue("candidatesVS", inst)
    /\ UNCHANGED <<store, rules, live, adapter, workqueue, users, faults, crashes>>

\* A mutant: the DestinationRule is forgotten.
UpdateCandidatesVSOnly ==
    /\ pc = "candidatesVS"
    /\ \/ CallSucceeds /\ vs' = WithProgressing(vs) /\ Detected
       \/ CallFails /\ RulesError /\ UNCHANGED vs
    /\ UNCHANGED <<store, dr, live, adapter, workqueue, users, crashes>>

\* UpdateRouteWithCandidates.
UpdateCandidatesVS ==
    /\ pc = "candidatesVS"
    /\ \/ /\ CallSucceeds
          /\ vs' = WithProgressing(vs)
          /\ IF RequireDR THEN Continue("candidatesDR", inst) ELSE Detected
       \/ CallFails /\ RulesError /\ UNCHANGED vs
    /\ UNCHANGED <<store, dr, live, adapter, workqueue, users, crashes>>

UpdateCandidatesDR ==
    /\ pc = "candidatesDR"
    /\ \/ CallSucceeds /\ dr' = WithProgressing(dr) /\ Detected
       \/ CallFails /\ RulesError /\ UNCHANGED dr
    /\ UNCHANGED <<store, vs, live, adapter, workqueue, users, crashes>>

-----------------------------------------------------------------------------
\* processIteration.

\* A successful iteration, after the traffic was updated if it had to be.
IterationDone(x) ==
    /\ Goto("finish", MarkIterationUpdate(x))
    /\ statusUpdate' = TRUE /\ progress' = TRUE
    /\ UNCHANGED <<current, finalizing, fetched, refresh>>

AnalyticsError(x, changed) ==
    \E another \in BOOLEAN :
        Fail(MarkAnalyticsServiceError(x),
             changed \/ another \/ x.status.analytics # "False")

CanShiftFromAny(weight) == weight[Baseline] >= 0  \* a mutant

\* Without criteria every candidate gains MaxIncrement until baseline runs out.
CanShift(weight) == weight[Baseline] - MaxIncrement * Cardinality(Candidates) >= 0

Shifted(weight) ==
    [v \in Versions |-> IF v = Baseline
                          THEN weight[v] - MaxIncrement * Cardinality(Candidates)
                          ELSE weight[v] + MaxIncrement]

\* A mutant: the weights in the route are shifted, not those of the status.
ShiftRoute ==
    /\ pc = "iterate" /\ ~Criteria
    /\ IF CanShift(vs.weight)
         THEN Continue("trafficVS", [inst EXCEPT !.status.weight = Shifted(vs.weight)])
         ELSE IterationDone(inst)
    /\ UNCHANGED <<store, rules, live, adapter, workqueue, users, faults, crashes>>

ShiftTraffic ==
    /\ pc = "iterate" /\ ~Criteria
    /\ IF CanShift(inst.status.weight)
         THEN Continue("trafficVS", [inst EXCEPT !.status.weight = Shifted(inst.status.weight)])
         ELSE IterationDone(inst)
    /\ UNCHANGED <<store, rules, live, adapter, workqueue, users, faults, crashes>>

NoStrategy(r) == r.covered = {}  \* a mutant

\* The recommendation lacks the strategy or the weight of a version.
Incomplete(r) == r.covered # Versions

\* With criteria the analytics service decides.  When every candidate is to be
\* rolled back the copy is terminated in memory.
Analyze(r) ==
    LET assessed == [inst EXCEPT !.status.winner = r.winner, !.status.phase = "Progressing",
                                 !.status.completed = FALSE]
        weight == [v \in Versions |->
                     IF v \notin r.covered THEN inst.status.weight[v]
                     ELSE IF v \in r.rollback THEN 0 ELSE r.split[v]]
        x == [assessed EXCEPT !.status.weight = weight]
        running == [x EXCEPT !.status.analytics = "True"]
    IN  IF r.rollback = Candidates THEN Continue("finish", TerminateExperiment(inst))
        ELSE IF Incomplete(r) THEN AnalyticsError(x, TRUE)
        ELSE IF r.rollback # {} \/ weight # inst.status.weight THEN Continue("trafficVS", running)
        ELSE IterationDone(running)

Iterate ==
    /\ pc = "iterate" /\ Criteria
    /\ \/ CallSucceeds /\ \E r \in Responses : Analyze(r)
       \/ CallFails /\ AnalyticsError(inst, FALSE)
    /\ UNCHANGED <<store, rules, live, adapter, workqueue, users, crashes>>

\* UpdateRouteWithTrafficUpdate.
UpdateTrafficVS ==
    /\ pc = "trafficVS"
    /\ \/ /\ CallSucceeds /\ vs.role # "absent"
          /\ vs' = [vs EXCEPT !.weight = inst.status.weight]
          /\ IterationDone(inst)
       \/ /\ CallFails \/ (CallSucceeds /\ vs.role = "absent")
          /\ RulesError
          /\ UNCHANGED vs
    /\ UNCHANGED <<store, dr, live, adapter, workqueue, users, crashes>>

\* A mutant: the iteration is counted before it is compared.
FinishCounting ==
    /\ pc = "finish"
    /\ LET x == IF progress THEN [inst EXCEPT !.status.iteration = @ + 1] ELSE inst
       IN  IF toComplete(x) THEN Continue("complete", x)
           ELSE IF progress THEN Fail(x, TRUE) ELSE Continue("endRequest", x)
    /\ UNCHANGED <<store, rules, live, adapter, workqueue, users, faults, crashes>>

\* toComplete, then hasProgress and updateIteration.
Finish ==
    /\ pc = "finish"
    /\ IF toComplete(inst) THEN Continue("complete", inst)
       ELSE IF progress
         THEN Fail([inst EXCEPT !.status.iteration = @ + 1], TRUE)
         ELSE Continue("endRequest", inst)
    /\ UNCHANGED <<store, rules, live, adapter, workqueue, users, faults, crashes>>

-----------------------------------------------------------------------------
\* completeExperiment.

Completed(x) == Fail(MarkExperimentCompleted(x), TRUE)

RemoveExperiment == registered' = FALSE /\ targetAction' = ""

NotProgressing == ~fetched \/ ~isProgressing(vs, dr)  \* a mutant

\* UpdateRouteToStable has nothing to do.
NoOpInUpdateRouteToStable ==
    ~fetched \/ ~(isProgressing(vs, dr) \/ isInitializing(vs, dr))

\* RemoveExperiment, overrideAssessment, Cleanup (whose errors are ignored).
Complete ==
    /\ pc = "complete"
    /\ RemoveExperiment
    /\ LET x == overrideAssessment(inst)
       IN  /\ \/ CallSucceeds /\ live' = live \cap ({Service} \cup ToKeep(x))
              \/ Cleanup /\ CallFails /\ UNCHANGED live
           /\ IF NoOpInUpdateRouteToStable THEN Completed(x)
              ELSE Continue(IF Cleanup /\ isInit(vs, dr) THEN "deleteVS" ELSE "stableVS", x)
    /\ UNCHANGED <<store, rules, workqueue, users, crashes>>

\* completeExperiment fails: finalize ignores the result, syncKubernetes asks
\* to requeue and writes nothing.
CompletionFails ==
    IF finalizing THEN Continue("removeFinalizer", inst) /\ UNCHANGED queued
                  ELSE Return /\ queued' = TRUE

\* UpdateRouteToStable: the VirtualService, then the DestinationRule.
StableVS ==
    /\ pc \in {"stableVS", "deleteVS"}
    /\ \/ /\ CallSucceeds
          /\ vs' = IF pc = "deleteVS" THEN AbsentVS
                   ELSE WithStable(FinalTraffic(vs, dr, inst.status.weight))
          /\ IF ~RequireDR THEN Completed(inst)
             ELSE Continue(IF pc = "deleteVS" THEN "deleteDR" ELSE "stableDR", inst)
          /\ UNCHANGED queued
       \/ CallFails /\ CompletionFails /\ UNCHANGED vs
    /\ UNCHANGED <<store, dr, live, adapter, timer, users, crashes>>

StableDR ==
    /\ pc \in {"stableDR", "deleteDR"}
    /\ \/ /\ CallSucceeds
          /\ dr' = IF pc = "deleteDR" THEN AbsentDR ELSE WithStable(dr)
          /\ Completed(inst)
          /\ UNCHANGED queued
       \/ CallFails /\ CompletionFails /\ UNCHANGED dr
    /\ UNCHANGED <<store, vs, live, adapter, timer, users, crashes>>

-----------------------------------------------------------------------------
\* The end of Reconcile.

\* A mutant: no timer for what is taken for the last iteration.
RequeueWithinLimit ==
    timer' = IF progress /\ ~ExperimentCompleted(inst) /\ timer = "none"
                  /\ inst.status.iteration < MaxIterations THEN "waiting" ELSE timer

\* RequeueAfter: the delaying queue keeps the earlier of two entries.
Requeue ==
    timer' = IF progress /\ ~ExperimentCompleted(inst) /\ timer = "none" THEN "waiting" ELSE timer

\* endRequest: errors of the status update are only logged.  finalize goes on.
Ended(x) == IF finalizing THEN Continue("removeFinalizer", x) ELSE Return

EndRequest ==
    /\ pc = "endRequest"
    /\ Requeue
    /\ \/ ~statusUpdate /\ CallSucceeds /\ UNCHANGED store /\ Ended(inst)
       \/ /\ statusUpdate
          /\ \E a \in {"ok", "conflict", "error"} :
               Answer(a) /\ UpdateStatus(a, inst) /\ Ended(Decoded(a, inst))
    /\ UNCHANGED <<rules, live, adapter, queued, users, crashes>>

RetryUnlessBenign(a) == queued' = (queued \/ ~Benign(a))  \* a mutant
Retry(a) == queued' = (queued \/ a # "ok")

\* removeFinalizer: the API server then drops the object.  An error, a conflict
\* too, makes the work queue retry.
RemoveFinalizer ==
    /\ pc = "removeFinalizer"
    /\ \E a \in {"ok", "conflict", "error"} :
         /\ Answer(a)
         /\ UpdateObject(a, [inst EXCEPT !.finalizer = FALSE, !.exists = FALSE])
         /\ Retry(a)
    /\ Return
    /\ UNCHANGED <<rules, live, adapter, timer, users, crashes>>

-----------------------------------------------------------------------------
\* The environment of the worker.

\* The informer's cache catches up with the API server.
Sync ==
    /\ ~synced
    /\ cache' = obj /\ synced' = TRUE /\ event' = FALSE
    /\ queued' = (queued \/ event)
    /\ UNCHANGED <<obj, rules, live, adapter, timer, worker, users, faults, crashes>>

\* A user sets manualOverride, or deletes the experiment.
UserChange(new) ==
    /\ edits < MaxEdits /\ edits' = edits + 1
    /\ Store(new)
    /\ current' = FALSE
    /\ UNCHANGED <<rules, live, adapter, workqueue, pc, inst, finalizing, fetched, interState,
                   targetEvents, faults, crashes>>

Override(action, split) ==
    /\ obj.exists
    /\ <<obj.override, obj.split>> # <<action, split>>
    /\ UserChange([obj EXCEPT !.override = action, !.split = split])

Delete ==
    /\ obj.exists /\ ~obj.deleting
    /\ UserChange([obj EXCEPT !.deleting = TRUE, !.exists = obj.finalizer])

\* A target appears or disappears: the watch marks the experiment and enqueues it.
TargetEvent(t) ==
    /\ targetEvents < MaxTargetEvents /\ targetEvents' = targetEvents + 1
    /\ live' = IF t \in live THEN live \ {t} ELSE live \cup {t}
    /\ IF registered THEN /\ targetAction' = IF t \in live THEN "deleted" ELSE "detected"
                          /\ queued' = TRUE
                     ELSE UNCHANGED <<targetAction, queued>>
    /\ UNCHANGED <<store, rules, registered, timer, worker, edits, faults, crashes>>

\* The interval after LastUpdateTime passes.  A timer armed by the same
\* iteration is due a little later, so it is ready from here on.
IntervalElapses ==
    LET elapsed(x) == [x EXCEPT !.status.last = IF @ = "recent" THEN "elapsed" ELSE @]
    IN  /\ pc = "idle"
        /\ "recent" \in {obj.status.last, cache.status.last} \/ timer = "waiting"
        /\ obj' = elapsed(obj) /\ cache' = elapsed(cache)
        /\ timer' = IF timer = "waiting" THEN "ready" ELSE timer
        /\ UNCHANGED <<synced, event, rules, live, adapter, queued, worker, users, faults, crashes>>

TimerFires ==
    /\ timer = "ready"
    /\ timer' = "none" /\ queued' = TRUE
    /\ UNCHANGED <<store, rules, live, adapter, worker, users, faults, crashes>>

\* The controller crashes and restarts: the initial list fills the cache and
\* enqueues the experiment; adapter, queues and the worker's state are gone.
Crash ==
    /\ crashes < MaxCrashes /\ crashes' = crashes + 1
    /\ cache' = obj /\ synced' = TRUE /\ event' = FALSE
    /\ registered' = FALSE /\ targetAction' = ""
    /\ queued' = obj.exists /\ timer' = "none"
    /\ Return
    /\ UNCHANGED <<obj, rules, live, users, faults>>

-----------------------------------------------------------------------------
Worker ==
    \/ Get \/ WriteInitStatus \/ addFinalizerIfAbsent \/ Finalize \/ NotToProceed
    \/ Proceed \/ Pause \/ Resume \/ ReadMetrics \/ WriteMetricsError \/ WriteMetrics
    \/ Fetch \/ DetectBaseline \/ UpdateBaselineVS \/ UpdateBaselineDR
    \/ DetectCandidates \/ UpdateCandidatesVS \/ UpdateCandidatesDR
    \/ ShiftTraffic \/ Iterate \/ UpdateTrafficVS \/ Finish
    \/ Complete \/ StableVS \/ StableDR \/ EndRequest \/ RemoveFinalizer

User ==
    \/ \E action \in {"pause", "resume"} : Override(action, NoSplit)
    \/ \E split \in Splits \cup {NoSplit} : Override("terminate", split)
    \/ Delete
    \/ \E t \in Targets : TargetEvent(t)

Next == Worker \/ Sync \/ IntervalElapses \/ TimerFires \/ User \/ Crash

Spec == Init /\ [][Next]_vars

\* The worker, the informer and the clock go on; users, faults and crashes need not.
FairSpec ==
    /\ Spec
    /\ WF_vars(Worker) /\ WF_vars(Sync) /\ WF_vars(IntervalElapses) /\ WF_vars(TimerFires)

-----------------------------------------------------------------------------
\* The sum of all weights of a route.
Total(weight) == FoldFunction(+, 0, weight)

\* The shape of the cluster's and of the controller's state.
TypeOK ==
    /\ obj \in Object /\ cache \in Object /\ inst \in Object
    /\ {synced, event, registered, queued, current, finalizing, fetched,
        statusUpdate, refresh, progress} \subseteq BOOLEAN
    /\ vs \in VirtualService /\ dr \in DestinationRule
    /\ live \subseteq Targets
    /\ targetAction \in {"", "detected", "deleted"}
    /\ timer \in {"none", "waiting", "ready"}
    /\ pc \in PCs
    /\ edits \in 0..MaxEdits /\ targetEvents \in 0..MaxTargetEvents
    /\ faults \in 0..MaxFaults /\ crashes \in 0..MaxCrashes

Idle == pc = "idle"

\* Once the status says completed it says so for good, and the final weights it
\* shows never change: no later reconcile, started from an older copy, after a
\* crash or by a late timer, overwrites the outcome (Status().Update with the
\* copy's resourceVersion in endRequest, and NotToProceed).
CompletionFinal ==
    [][obj.status.completed /\ obj'.exists
         => obj'.status.completed /\ obj'.status.weight = obj.status.weight]_vars

\* The iterations counted in the status never go back or skip, and never exceed
\* maxIterations, however many writes are lost, retried or started from an old
\* copy (updateIteration, toComplete, InitStatus).
IterationsCounted ==
    [][obj'.exists => /\ obj'.status.iteration - obj.status.iteration \in {0, 1}
                      /\ obj'.status.iteration <= MaxIterations]_vars

\* CopyRelated, the invariant that the two properties above rest on: what the
\* server's object, the cache and the worker's copy have to do with each other.

\* The control states before and after the work on an active experiment.
Early == {"idle", "finalizer", "decide", "endRequest", "removeFinalizer"}

StatusOK(s) ==
    /\ s.completed => s.inited
    /\ ~s.inited => s.iteration = 0
    /\ s.iteration <= MaxIterations

StoreInv == StatusOK(obj.status) /\ StatusOK(cache.status) /\ (synced => cache = obj)

IdleInv == pc = "idle" => ~current /\ ~finalizing

\* The worker works on initialized copies of experiments that are not completed.
CopyInv ==
    pc # "idle" =>
        /\ inst.status.inited
        /\ inst.status.iteration <= MaxIterations
        /\ pc \notin Early => ~inst.status.completed

\* A copy that the server would accept a write of is, up to what this reconcile
\* did, the server's: a completed experiment is not worked on, and the copy is at
\* most the one iteration ahead that endRequest is about to record.
CurrentInv ==
    current =>
        /\ pc # "initStatus" /\ (pc = "endRequest" => finalizing) => obj.status.inited
        /\ obj.status.completed => pc \in {"finalizer", "decide", "removeFinalizer"}
        /\ pc \in {"finalizer", "decide"} => inst.status = obj.status
        /\ pc \notin {"endRequest", "removeFinalizer"} =>
               inst.status.iteration = obj.status.iteration
        /\ pc = "endRequest" =>
               \/ inst.status.iteration = obj.status.iteration
               \/ /\ obj.status.inited
                  /\ inst.status.iteration = obj.status.iteration + 1
                  /\ inst.status.phase = "Progressing" /\ ~inst.status.completed
        /\ ~obj.status.inited => ~inst.status.completed

\* Whatever users, faults, crashes and the cache's lag do, a reconcile whose
\* writes the server accepts works from the server's status (Get copies the
\* cache, validUpdateErr lets a reconcile with an outdated copy go on).
Related == StoreInv /\ IdleInv /\ CopyInv /\ CurrentInv

\* The control states that a processed iteration may lead to.
Processed == {"finish", "complete", "stableVS", "stableDR", "deleteVS", "deleteDR",
              "endRequest", "removeFinalizer"}

\* Only an iteration that left the experiment progressing is about to be counted.
ProgressInv ==
    progress => pc \in Processed /\ (pc = "finish" => inst.status.phase = "Progressing")

CopyRelated == Related /\ ProgressInv

\* Between reconciles no rule of an experiment that is completed still carries
\* the experiment's label (UpdateRouteToStable in completeExperiment).
CompletedReleasesRules ==
    Idle /\ obj.exists /\ obj.status.completed => ~Owned(vs) /\ ~Owned(dr)

\* Nor does a rule outlive the experiment it is labelled with: the finalizer
\* holds the object until finalize has returned the rules.
DeletedReleasesRules == Idle /\ ~obj.exists => ~Owned(vs) /\ ~Owned(dr)

\* Between reconciles the VirtualService and the DestinationRule have the same
\* role: all the functions of the router write both, one after the other.  Only a
\* stable VirtualService of the user's may be without one (validateAndInit).
RulesPaired ==
    Idle /\ RequireDR => vs.role = dr.role \/ (vs.role = "stable" /\ dr.role = "absent")

\* As long as no command interferes, the weights of the route add up to all the
\* traffic, although they come from a status whose writes may be lost, and from
\* answers that may be incomplete (Analyze, ShiftTraffic and overrideAssessment work
\* on the copy's weights, not on the rule's).  An experiment without criteria that is
\* to end with the traffic as it is may end without any (KeepsLastTraffic).
TrafficConserved ==
    /\ Idle /\ edits = 0
    /\ \/ vs.role = "progressing"
       \/ vs.role = "stable" /\ (Criteria \/ OnTermination # "keep_last")
    => Total(vs.weight) = 100

\* Without criteria the route never runs ahead of the recorded status by more
\* than one increment: an iteration whose status write was lost is repeated, not
\* added (processIteration shifts the copy's weights).
RampBounded ==
    vs.role = "progressing" =>
        \A v \in Candidates : vs.weight[v] <= obj.status.weight[v] + MaxIncrement

\* A pause command that the user leaves alone is carried out: its two writes, the
\* spec without the command and the status with the phase, end in the phase Pause,
\* whatever pass the worker was in.  What may come first is the end of the experiment,
\* and then the command is still there: it is never taken out of the spec and
\* forgotten.  That needs two writes without a crash or a failed call (README, section 3).
PauseTakesEffect ==
    (obj.override = "pause")
        ~> \/ obj.status.phase = "Pause"
           \/ obj.override = "pause" /\ obj.status.completed
           \/ obj.override \in {"resume", "terminate"}
           \/ ~obj.exists

\* A terminate command that the user does not take back ends the experiment, unless
\* its spec was refused.  No status write is retried, so a failed call excuses it.
TerminationEnds ==
    (obj.override = "terminate" /\ obj.valid)
        ~> (obj.status.completed \/ ~obj.exists \/ obj.override # "terminate" \/ faults > 0)

\* A deleted experiment goes away: the finalizer is removed in the end, although
\* each write may conflict or fail and the controller may restart.
DeletionEnds == obj.deleting ~> ~obj.exists

\* An experiment with all its targets that no user interferes with runs to its end: every iteration but the last leaves a timer for the next.
ExperimentEnds ==
    /\ obj.valid /\ live = Targets
    /\ [](edits = 0 /\ targetEvents = 0 /\ faults = 0)
    => <>(obj.status.completed)

\* When the analytics rejects all candidates, on the current status, baseline has
\* all the traffic in the end: the decision is only in the copy's manualOverride,
\* and has to get through completion and the status write of the same pass.
Aborting == pc = "finish" /\ current /\ inst.override = "terminate"

Disturbed == edits > 0 \/ targetEvents > 0 \/ faults > 0 \/ crashes > 0

AbortTakesEffect ==
    Aborting ~> \/ obj.status.completed /\ obj.status.weight = AllTo(Baseline)
                \/ Disturbed

\* No experiment is ended for another reason than its last iteration, an abort or
\* a user's command, or routing rules that cannot be used: not by the pause that
\* precedes a retry, nor by an iteration counted early.
EndsWithReason ==
    [][~obj.status.completed /\ obj'.status.completed
         => \/ inst.status.iteration = MaxIterations
            \/ inst.override = "terminate"
            \/ inst.status.rulesReady = "False"]_vars

\* A spec that was refused leaves the routing rules alone, although only the first
\* pass validates: every later one has to stop at the phase that it recorded.
RefusedOwnsNothing ==
    ~obj.valid /\ edits = 0 /\ targetEvents = 0 => ~Owned(vs) /\ ~Owned(dr)

-----------------------------------------------------------------------------
\* What the user sees of the experiment.

stage == IF ~obj.exists THEN "gone"
         ELSE IF obj.status.completed THEN "completed"
         ELSE IF ~obj.status.inited THEN "new"
         ELSE IF obj.status.phase = "Pause" THEN "paused" ELSE "progressing"

outcome == IF obj.status.completed THEN obj.status.weight ELSE NoSplit

Lifecycle == INSTANCE ExperimentLifecycle
    WITH Limit <- MaxIterations, Outcomes <- Traffic, Undecided <- NoSplit,
         iteration <- obj.status.iteration

\* The status goes through the life of an experiment: all the writes of all the
\* reconciles, with old copies, conflicts and commands in any phase, add up to
\* its steps.
ImplementsLifecycle == Lifecycle!Spec

-----------------------------------------------------------------------------
\* Statements of the docs and comments that the code does not keep.

\* constants.go:25: keep_last keeps the last traffic status.  The weight of the
\* baseline is set in the copy only after both rules were written, and never
\* again once they are there: a status write lost after that leaves weights of 0,
\* which are the final ones.
KeepsLastTraffic ==
    [][OnTermination = "keep_last" /\ edits = 0
         /\ vs.role = "progressing" /\ vs'.role = "stable" => vs'.weight = vs.weight]_vars

\* experiment_types.go:82, targets.go:144 and 155: what cleanup deletes receives
\* no traffic.  Cleanup runs before the route is changed.
CleanupSparesTraffic ==
    [][targetEvents' = targetEvents =>
         \A v \in Versions \cap (live \ live') : vs.weight[v] = 0]_vars

\* reconcile.go:33: completion removes the experiment from the adapter.  Between
\* reconciles, once the informer and the queue are drained, a registered
\* experiment is an active one: no later reconcile has undone it.
EntryOfActive ==
    Idle /\ synced /\ ~queued /\ registered => obj.exists /\ ~obj.status.completed
==============================================================================
