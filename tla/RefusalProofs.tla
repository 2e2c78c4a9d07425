------------------------------ MODULE RefusalProofs ------------------------------
(***************************************************************************)
(* A refused experiment does not touch the routing rules, for all values   *)
(* of the constants.                                                       *)
(***************************************************************************)
EXTENDS ReconcileOutcomeProofs

\* No write changes whether the spec is valid: all copies agree on it.
ValidInv == cache.valid = obj.valid /\ (pc # "idle" => inst.valid = obj.valid)

\* No status method changes it.
LEMMA MarksKeepSpec ==
    ASSUME NEW x \in Object
    PROVE  /\ InitStatus(x).valid = x.valid
           /\ \A reason : MarkTargetsError(x, reason).valid = x.valid
           /\ MarkRoutingRulesError(x).valid = x.valid
           /\ MarkAnalyticsServiceError(x).valid = x.valid
           /\ MarkMetricsSyncedError(x).valid = x.valid
           /\ MarkTargetsAndRulesReady(x).valid = x.valid
           /\ MarkExperimentPause(x).valid = x.valid
           /\ MarkExperimentResume(x).valid = x.valid
           /\ MarkIterationUpdate(x).valid = x.valid
           /\ MarkExperimentCompleted(x).valid = x.valid
           /\ TerminateExperiment(x).valid = x.valid
           /\ overrideAssessment(x).valid = x.valid
  BY DEF Object, InitStatus, MarkTargetsError, MarkRoutingRulesError,
         MarkAnalyticsServiceError, MarkMetricsSyncedError, MarkTargetsAndRulesReady,
         MarkExperimentPause, MarkExperimentResume, MarkIterationUpdate,
         MarkExperimentCompleted, TerminateExperiment, overrideAssessment

LEMMA StoreValid ==
    LoopInv /\ ValidInv /\ [Next]_vars => obj'.valid = obj.valid /\ cache'.valid = obj.valid
  <1> SUFFICES ASSUME LoopInv, ValidInv, [Next]_vars
               PROVE  obj'.valid = obj.valid /\ cache'.valid = obj.valid
    OBVIOUS
  <1>0. obj \in Object /\ cache \in Object /\ inst \in Object /\ cache.valid = obj.valid
    BY Copies DEF ValidInv
  <1>1. CASE addFinalizerIfAbsent \/ Pause \/ Resume \/ WriteMetrics \/ RemoveFinalizer
    <2>1. /\ [inst EXCEPT !.finalizer = TRUE] \in Object
          /\ [inst EXCEPT !.finalizer = TRUE].valid = inst.valid
          /\ [inst EXCEPT !.finalizer = FALSE, !.exists = FALSE] \in Object
          /\ [inst EXCEPT !.finalizer = FALSE, !.exists = FALSE].valid = inst.valid
      BY <1>0 DEF Object
    <2>2. PICK a, y : y \in Object /\ y.valid = inst.valid /\ UpdateObject(a, y)
      BY <1>0, <1>1, <2>1
         DEF addFinalizerIfAbsent, Pause, Resume, WriteMetrics, RemoveFinalizer
    <2>3. inst.valid = obj.valid
      BY <1>1 DEF ValidInv, addFinalizerIfAbsent, Pause, Resume, WriteMetrics, RemoveFinalizer
    <2>4. /\ obj' = obj \/ obj' = [y EXCEPT !.status = obj.status]
          /\ cache' = cache
      BY <2>2 DEF UpdateObject, Store, store
    <2>5. [y EXCEPT !.status = obj.status].valid = y.valid
      BY <2>2 DEF Object
    <2> QED
      BY <1>0, <2>2, <2>3, <2>4, <2>5
  <1>2. CASE StatusWriter
    <2>1. (obj' = obj \/ obj' = [obj EXCEPT !.status = inst.status]) /\ cache' = cache
      BY <1>2 DEF StatusWriter, WriteInitStatus, WriteMetricsError, EndRequest, UpdateStatus,
                  Store, store
    <2>2. [obj EXCEPT !.status = inst.status].valid = obj.valid
      BY <1>0 DEF Object
    <2> QED
      BY <1>0, <2>1, <2>2
  <1>3. CASE User
    <2>1. ASSUME NEW new, UserChange(new)
          PROVE  obj' = new /\ cache' = cache
      BY <2>1 DEF UserChange, Store
    <2> QED
      <3>0. /\ [obj EXCEPT !.deleting = TRUE, !.exists = obj.finalizer].valid = obj.valid
            /\ \A action, split :
                 [obj EXCEPT !.override = action, !.split = split].valid = obj.valid
        BY <1>0 DEF Object
      <3>1. CASE \E action \in Overrides, split \in Splits \cup {NoSplit} : Override(action, split)
        <4>1. PICK action, split :
                UserChange([obj EXCEPT !.override = action, !.split = split])
          BY <3>1 DEF Override
        <4>2. obj' = [obj EXCEPT !.override = action, !.split = split] /\ cache' = cache
          BY <2>1, <4>1
        <4> QED
          BY <1>0, <3>0, <4>2
      <3>2. CASE Delete
        <4>1. UserChange([obj EXCEPT !.deleting = TRUE, !.exists = obj.finalizer])
          BY <3>2 DEF Delete
        <4> QED
          BY <1>0, <2>1, <3>0, <4>1
      <3>3. CASE \E t \in Targets : TargetEvent(t)
        BY <1>0, <3>3 DEF TargetEvent, store
      <3> QED
        BY <1>3, <3>1, <3>2, <3>3 DEF User, Overrides
  <1>4. CASE IntervalElapses
    <2>1. /\ obj' = [obj EXCEPT !.status.last = IF @ = "recent" THEN "elapsed" ELSE @]
          /\ cache' = [cache EXCEPT !.status.last = IF @ = "recent" THEN "elapsed" ELSE @]
      BY <1>4 DEF IntervalElapses
    <2> QED
      BY <1>0, <2>1 DEF Object
  <1>5. CASE Sync \/ Crash
    BY <1>0, <1>5 DEF Sync, Crash
  <1>6. CASE \/ Get \/ Finalize \/ NotToProceed \/ Proceed \/ ReadMetrics \/ Fetch
             \/ DetectBaseline \/ UpdateBaselineVS \/ UpdateBaselineDR \/ DetectCandidates
             \/ UpdateCandidatesVS \/ UpdateCandidatesDR \/ ShiftTraffic \/ Iterate
             \/ UpdateTrafficVS \/ Finish \/ Complete \/ StableVS \/ StableDR
             \/ TimerFires \/ UNCHANGED vars
    <2>1. UNCHANGED store
      BY <1>6
         DEF Get, Finalize, NotToProceed, Proceed, ReadMetrics, Fetch, DetectBaseline,
             UpdateBaselineVS, UpdateBaselineDR, DetectCandidates, UpdateCandidatesVS,
             UpdateCandidatesDR, ShiftTraffic, Iterate, UpdateTrafficVS, Finish, Complete,
             StableVS, StableDR, TimerFires, vars
    <2> QED
      BY <1>0, <2>1 DEF store
  <1> QED
    BY <1>1, <1>2, <1>3, <1>4, <1>5, <1>6 DEF Next, Worker, StatusWriter

LEMMA ValidStep == LoopInv /\ ValidInv /\ [Next]_vars => ValidInv'
  <1> SUFFICES ASSUME LoopInv, ValidInv, [Next]_vars
               PROVE  ValidInv'
    OBVIOUS
  <1>0. /\ obj \in Object /\ cache \in Object /\ inst \in Object
        /\ obj'.valid = obj.valid /\ cache'.valid = obj.valid /\ cache.valid = obj.valid
    BY Copies, StoreValid DEF ValidInv
  <1>1. ASSUME Return PROVE ValidInv'
    BY <1>0, <1>1 DEF Return, ValidInv
  <1>2. ASSUME NEW next, NEW x, x.valid = obj.valid, Goto(next, x) PROVE ValidInv'
    BY <1>0, <1>2 DEF ValidInv, Goto
  <1>3. ASSUME NEW a, NEW x, x.valid = obj.valid PROVE Decoded(a, x).valid = obj.valid
    BY <1>0, <1>3 DEF Decoded
  <1>4. CASE Get
    <2> DEFINE x == IF cache.status.inited THEN cache ELSE InitStatus(cache)
    <2>1. Return \/ \E next : Goto(next, x) \/ Goto(next, MarkTargetsError(x, "Invalid"))
      BY <1>4 DEF Get
    <2>2. x \in Object /\ x.valid = obj.valid
      BY <1>0, InitStatusType, MarksKeepSpec
    <2> HIDE DEF x
    <2>3. MarkTargetsError(x, "Invalid").valid = obj.valid
      BY <2>2, MarksKeepSpec
    <2> QED
      BY <1>1, <1>2, <2>1, <2>2, <2>3
  <1>5. CASE UNCHANGED <<pc, inst>>
    BY <1>0, <1>5 DEF ValidInv
  <1>6. CASE Sync \/ IntervalElapses \/ TimerFires \/ User \/ UNCHANGED vars
    BY <1>5, <1>6 DEF Sync, IntervalElapses, TimerFires, User, Override, Delete, UserChange,
                      TargetEvent, vars, worker
  <1>7. CASE NotToProceed \/ RemoveFinalizer \/ Crash
    BY <1>1, <1>7 DEF NotToProceed, RemoveFinalizer, Crash
  <1>8. pc # "idle" => inst.valid = obj.valid
    BY DEF ValidInv
  <1>9. CASE WriteInitStatus \/ WriteMetricsError \/ EndRequest
    <2>1. inst.valid = obj.valid
      BY <1>8, <1>9 DEF WriteInitStatus, WriteMetricsError, EndRequest
    <2>2. Return \/ \E next, a : Goto(next, inst) \/ Goto(next, Decoded(a, inst))
      BY <1>9 DEF WriteInitStatus, WriteMetricsError, EndRequest, Continue, Fail, Ended
    <2> QED
      BY <1>1, <1>2, <1>3, <2>1, <2>2
  <1>10. CASE addFinalizerIfAbsent
    <2> DEFINE x == [inst EXCEPT !.finalizer = TRUE]
    <2>1. x.valid = obj.valid
      BY <1>0, <1>8, <1>10 DEF addFinalizerIfAbsent, Object
    <2>2. Return \/ \E a : Goto("decide", Decoded(a, x))
      BY <1>10 DEF addFinalizerIfAbsent, Continue
    <2> HIDE DEF x
    <2> QED
      BY <1>1, <1>2, <1>3, <2>1, <2>2
  <1>11. CASE Pause \/ Resume \/ WriteMetrics
    <2>1. inst.valid = obj.valid
      BY <1>8, <1>11 DEF Pause, Resume, WriteMetrics
    <2>2. PICK a \in {"ok", "conflict", "error"} :
            /\ UpdateObject(a, inst)
            /\ \E next : \/ Goto(next, inst)
                         \/ Goto(next, MarkExperimentPause(Decoded(a, inst)))
                         \/ Goto(next, MarkExperimentResume(Decoded(a, inst)))
                         \/ Goto(next, [Decoded(a, inst) EXCEPT !.status.metricsSynced = "True"])
      BY <1>11 DEF Pause, Resume, WriteMetrics, Fail
    <2>3. Decoded(a, inst) \in Object
      BY <1>0, <2>2, ObjectWrite, Parts DEF LoopInv
    <2>4. Decoded(a, inst).valid = obj.valid
      BY <1>3, <2>1
    <2>5. /\ MarkExperimentPause(Decoded(a, inst)).valid = obj.valid
          /\ MarkExperimentResume(Decoded(a, inst)).valid = obj.valid
          /\ [Decoded(a, inst) EXCEPT !.status.metricsSynced = "True"].valid = obj.valid
      BY <2>3, <2>4, MarksKeepSpec DEF Object
    <2> QED
      BY <1>2, <2>1, <2>2, <2>5
  <1>12. CASE Finalize \/ Proceed \/ ReadMetrics
    <2>1. inst.valid = obj.valid
      BY <1>8, <1>12 DEF Finalize, Proceed, ReadMetrics
    <2>2. \E next : \/ Goto(next, inst)
                    \/ Goto(next, TerminateExperiment(inst))
                    \/ Goto(next, [inst EXCEPT !.override = "none", !.split = NoSplit])
                    \/ Goto(next, [inst EXCEPT !.metrics = TRUE])
                    \/ Goto(next, MarkMetricsSyncedError(inst))
      BY <1>12 DEF Finalize, Proceed, ReadMetrics, Continue
    <2>3. /\ TerminateExperiment(inst).valid = obj.valid
          /\ [inst EXCEPT !.override = "none", !.split = NoSplit].valid = obj.valid
          /\ [inst EXCEPT !.metrics = TRUE].valid = obj.valid
          /\ MarkMetricsSyncedError(inst).valid = obj.valid
      BY <1>0, <2>1, MarksKeepSpec DEF Object
    <2> QED
      BY <1>2, <2>1, <2>2, <2>3
  <1>13. CASE \/ Fetch \/ DetectBaseline \/ UpdateBaselineVS \/ UpdateBaselineDR
              \/ DetectCandidates \/ UpdateCandidatesVS \/ UpdateCandidatesDR
    <2>1. inst.valid = obj.valid
      BY <1>8, <1>13 DEF Fetch, DetectBaseline, UpdateBaselineVS, UpdateBaselineDR,
                         DetectCandidates, UpdateCandidatesVS, UpdateCandidatesDR
    <2>2. \E next : \/ Goto(next, inst)
                    \/ Goto(next, MarkRoutingRulesError(inst))
                    \/ \E reason : Goto(next, MarkTargetsError(inst, reason))
                    \/ Goto(next, MarkTargetsAndRulesReady(inst))
                    \/ Goto(next, [inst EXCEPT !.status.weight[Baseline] = 100])
      BY <1>13 DEF Fetch, DetectBaseline, UpdateBaselineVS, UpdateBaselineDR,
                   DetectCandidates, UpdateCandidatesVS, UpdateCandidatesDR, TargetsError,
                   RulesError, Detected, Continue, Fail
    <2>3. /\ MarkRoutingRulesError(inst).valid = obj.valid
          /\ \A reason : MarkTargetsError(inst, reason).valid = obj.valid
          /\ MarkTargetsAndRulesReady(inst).valid = obj.valid
          /\ [inst EXCEPT !.status.weight[Baseline] = 100].valid = obj.valid
      BY <1>0, <2>1, MarksKeepSpec DEF Object
    <2> QED
      BY <1>2, <2>1, <2>2, <2>3
  <1>14. CASE ShiftTraffic \/ Iterate \/ UpdateTrafficVS
    <2>1. inst.valid = obj.valid
      BY <1>8, <1>14 DEF ShiftTraffic, Iterate, UpdateTrafficVS
    <2>2. ASSUME NEW x \in Object, x.valid = obj.valid, NEW next,
                 \/ Goto(next, x) \/ Goto(next, MarkIterationUpdate(x))
                 \/ Goto(next, MarkAnalyticsServiceError(x))
          PROVE  ValidInv'
      BY <1>2, <2>2, MarksKeepSpec
    <2>3. ASSUME NEW r \in Responses, Analyze(r) PROVE ValidInv'
      <3> DEFINE assessed == [inst EXCEPT !.status.winner = r.winner,
                                          !.status.phase = "Progressing",
                                          !.status.completed = FALSE]
                 weight == [v \in Versions |->
                              IF v \notin r.covered THEN inst.status.weight[v]
                              ELSE IF v \in r.rollback THEN 0 ELSE r.split[v]]
                 x == [assessed EXCEPT !.status.weight = weight]
                 running == [x EXCEPT !.status.analytics = "True"]
      <3>1. r \in Response
        BY EnvironmentAssumption
      <3>2. assessed \in Object /\ assessed.valid = obj.valid
        BY <1>0, <2>1, <3>1 DEF Response, Object, Status, Phases
      <3>3. weight \in Traffic
        BY <1>0, <3>1 DEF Response, Traffic, Object, Status
      <3>4. \/ Goto("finish", TerminateExperiment(inst))
            \/ Goto("endRequest", MarkAnalyticsServiceError(x))
            \/ Goto("trafficVS", running)
            \/ Goto("finish", MarkIterationUpdate(running))
        BY <2>3 DEF Analyze, AnalyticsError, IterationDone, Continue, Fail, assessed, weight
      <3> HIDE DEF weight, assessed
      <3>5. x \in Object
        BY <3>2, <3>3, WeightType
      <3>6. running \in Object
        BY <3>5, AnalyticsType
      <3>7. x.valid = obj.valid /\ running.valid = obj.valid
        BY <3>2, <3>5 DEF Object
      <3> HIDE DEF x, running
      <3>8. TerminateExperiment(inst).valid = obj.valid
        BY <1>0, <2>1, MarksKeepSpec
      <3> QED
        BY <1>2, <2>2, <3>4, <3>5, <3>6, <3>7, <3>8
    <2>4. \/ \E next : \/ Goto(next, MarkIterationUpdate(inst))
                       \/ Goto(next, MarkAnalyticsServiceError(inst))
                       \/ Goto(next, MarkRoutingRulesError(inst))
                       \/ Goto(next, [inst EXCEPT !.status.weight = Shifted(inst.status.weight)])
          \/ \E r \in Responses : Analyze(r)
      BY <1>14 DEF ShiftTraffic, Iterate, UpdateTrafficVS, IterationDone, AnalyticsError,
                   RulesError, Continue, Fail
    <2>5. /\ MarkRoutingRulesError(inst).valid = obj.valid
          /\ [inst EXCEPT !.status.weight = Shifted(inst.status.weight)].valid = obj.valid
      BY <1>0, <2>1, MarksKeepSpec DEF Object
    <2> QED
      BY <1>0, <1>2, <2>1, <2>2, <2>3, <2>4, <2>5
  <1>15. CASE Finish \/ Complete \/ StableVS \/ StableDR
    <2>1. inst.valid = obj.valid
      BY <1>8, <1>15 DEF Finish, Complete, StableVS, StableDR
    <2>2. \/ Return
          \/ \E next : \/ Goto(next, inst)
                       \/ Goto(next, [inst EXCEPT !.status.iteration = @ + 1])
                       \/ Goto(next, overrideAssessment(inst))
                       \/ Goto(next, MarkExperimentCompleted(inst))
                       \/ Goto(next, MarkExperimentCompleted(overrideAssessment(inst)))
      BY <1>15 DEF Finish, Complete, StableVS, StableDR, Completed, CompletionFails, Continue,
                   Fail
    <2>3. overrideAssessment(inst) \in Object
      BY <1>0, OverrideType
    <2>4. /\ [inst EXCEPT !.status.iteration = @ + 1].valid = obj.valid
          /\ overrideAssessment(inst).valid = obj.valid
          /\ MarkExperimentCompleted(inst).valid = obj.valid
      BY <1>0, <2>1, MarksKeepSpec DEF Object
    <2>5. MarkExperimentCompleted(overrideAssessment(inst)).valid = obj.valid
      BY <2>3, <2>4, MarksKeepSpec
    <2> QED
      BY <1>1, <1>2, <2>1, <2>2, <2>4, <2>5
  <1> QED
    BY <1>4, <1>6, <1>7, <1>9, <1>10, <1>11, <1>12, <1>13, <1>14, <1>15 DEF Next, Worker

-----------------------------------------------------------------------------
\* A copy of a refused experiment without a command: once it is initialized its
\* phase stops every pass.
Refusal(x) ==
    /\ ~x.valid /\ x.override = "none" /\ ~x.deleting
    /\ x.status.inited => x.status.phase = "Pause"

RefusalInv ==
    ~obj.valid /\ edits = 0 /\ targetEvents = 0 =>
        /\ pc \in {"idle", "finalizer", "decide", "endRequest"} /\ ~finalizing
        /\ Refusal(obj) /\ Refusal(cache) /\ (pc # "idle" => Refusal(inst))
        /\ targetAction = ""
        /\ ~Owned(vs) /\ ~Owned(dr)

LEMMA RefusalStep == LoopInv /\ ValidInv /\ RefusalInv /\ [Next]_vars => RefusalInv'
  <1> SUFFICES ASSUME LoopInv, ValidInv, RefusalInv, [Next]_vars,
                      ~obj'.valid, edits' = 0, targetEvents' = 0
               PROVE  /\ pc' \in {"idle", "finalizer", "decide", "endRequest"} /\ ~finalizing'
                      /\ Refusal(obj)' /\ Refusal(cache)' /\ (pc' # "idle" => Refusal(inst)')
                      /\ targetAction' = ""
                      /\ ~Owned(vs)' /\ ~Owned(dr)'
    BY DEF RefusalInv
  <1> DEFINE Goal == /\ pc' \in {"idle", "finalizer", "decide", "endRequest"} /\ ~finalizing'
                     /\ Refusal(obj') /\ Refusal(cache') /\ (pc' # "idle" => Refusal(inst'))
                     /\ targetAction' = ""
                     /\ ~Owned(vs') /\ ~Owned(dr')
  <1>0. obj \in Object /\ cache \in Object /\ inst \in Object /\ CopyInv
    BY Copies DEF LoopInv, CopyRelated, Related
  <1>1. ~obj.valid
    BY StoreValid
  <1>2. ~User
    <2>1. edits \in Nat /\ targetEvents \in Nat
      <3>1. edits \in 0..MaxEdits /\ targetEvents \in 0..MaxTargetEvents
        BY Parts DEF LoopInv, RestOK
      <3> QED
        BY <3>1, Bounds
    <2>2. ~(\E new : UserChange(new)) /\ ~(\E t : TargetEvent(t))
      BY <2>1 DEF UserChange, TargetEvent
    <2> QED
      BY <2>2 DEF User, Override, Delete
  <1>3. edits = 0 /\ targetEvents = 0
    <2>1. edits' = edits /\ targetEvents' = targetEvents
      BY <1>2 DEF Next, Worker, Get, WriteInitStatus, addFinalizerIfAbsent, Finalize,
                  NotToProceed, Proceed, Pause, Resume, ReadMetrics, WriteMetricsError,
                  WriteMetrics, Fetch, DetectBaseline, UpdateBaselineVS, UpdateBaselineDR,
                  DetectCandidates, UpdateCandidatesVS, UpdateCandidatesDR, ShiftTraffic,
                  Iterate, UpdateTrafficVS, Finish, Complete, StableVS, StableDR, EndRequest,
                  RemoveFinalizer, Sync, IntervalElapses, TimerFires, Crash, users, vars
    <2> QED
      BY <2>1
  <1>4. /\ pc \in {"idle", "finalizer", "decide", "endRequest"} /\ ~finalizing
        /\ Refusal(obj) /\ Refusal(cache) /\ (pc # "idle" => Refusal(inst))
        /\ targetAction = ""
        /\ ~Owned(vs) /\ ~Owned(dr)
    BY <1>1, <1>3 DEF RefusalInv
  <1>5. CASE Get
    <2>1. /\ UNCHANGED <<store, rules, adapter>> /\ finalizing' = FALSE
          /\ \/ pc' = "idle"
             \/ cache.status.inited /\ pc' \in {"decide", "finalizer"} /\ inst' = cache
             \/ pc' = "endRequest" /\ inst' = MarkTargetsError(InitStatus(cache), "Invalid")
      <3>1. ~cache.valid /\ ~InitStatus(cache).valid /\ finalizing = FALSE
        <4>1. finalizing \in BOOLEAN
          BY Parts DEF LoopInv, WorkerOK
        <4> QED
          BY <1>0, <1>4, <4>1, MarksKeepSpec DEF Refusal
      <3>2. CASE ~cache.exists
        BY <1>5, <3>2 DEF Get, Return
      <3>3. CASE cache.exists /\ cache.status.inited
        BY <1>5, <3>1, <3>3 DEF Get, Goto
      <3>4. CASE cache.exists /\ ~cache.status.inited
        BY <1>5, <3>1, <3>4 DEF Get, Goto
      <3> QED
        BY <3>2, <3>3, <3>4
    <2>2. Refusal(MarkTargetsError(InitStatus(cache), "Invalid"))
      <3>1. InitStatus(cache) \in Object
        BY <1>0, InitStatusType
      <3>2. /\ InitStatus(cache).valid = cache.valid
            /\ InitStatus(cache).override = cache.override
            /\ InitStatus(cache).deleting = cache.deleting
        BY <1>0 DEF InitStatus, Object
      <3> QED
        BY <1>4, <3>1, <3>2 DEF MarkTargetsError, Refusal, Object, Status
    <2> QED
      BY <1>4, <2>1, <2>2 DEF store, rules, adapter, Refusal, Owned
  <1>6. CASE addFinalizerIfAbsent
    <2> DEFINE x == [inst EXCEPT !.finalizer = TRUE]
               new == [x EXCEPT !.status = obj.status]
    <2>1. x \in Object /\ Refusal(x)
      BY <1>0, <1>4, <1>6 DEF addFinalizerIfAbsent, Refusal, Object
    <2>2. Refusal(new)
      BY <1>0, <1>4, <2>1 DEF Refusal, Object
    <2>3. /\ UNCHANGED <<cache, rules, adapter>>
          /\ obj' \in {obj, new}
          /\ finalizing' = FALSE
          /\ \/ pc' = "idle"
             \/ pc' = "decide" /\ (inst' = x \/ inst' = obj')
      <3>1. PICK a \in {"ok", "conflict", "error"} :
              UpdateObject(a, x) /\ (Continue("decide", Decoded(a, x)) \/ Return)
        BY <1>6 DEF addFinalizerIfAbsent
      <3>2. UNCHANGED <<rules, adapter>> /\ finalizing \in BOOLEAN
        BY <1>6, Parts DEF addFinalizerIfAbsent, LoopInv, WorkerOK
      <3> HIDE DEF x
      <3>3. cache' = cache /\ obj' \in {obj, new} /\ Decoded(a, x) \in {x, obj'}
        BY <3>1 DEF UpdateObject, Store, store, Decoded
      <3> HIDE DEF new
      <3> QED
        BY <1>4, <3>1, <3>2, <3>3 DEF Continue, Goto, Return
    <2> HIDE DEF x, new
    <2> QED
      BY <1>4, <2>1, <2>2, <2>3 DEF rules, adapter, Refusal, Owned
  <1>7. CASE NotToProceed \/ Crash
    <2>1. /\ obj' = obj /\ (cache' = cache \/ cache' = obj) /\ UNCHANGED rules
          /\ pc' = "idle" /\ finalizing' = FALSE
          /\ targetAction' = ""
      BY <1>4, <1>7 DEF NotToProceed, Crash, Return, store, adapter
    <2> QED
      BY <1>4, <2>1 DEF rules, Refusal, Owned
  <1>8. CASE Proceed
    <2>1. inst.status.phase = "Pause" /\ inst.override = "none"
      BY <1>0, <1>4, <1>8 DEF Proceed, CopyInv, Refusal
    <2>2. Goto("endRequest", inst)
      BY <1>4, <1>8, <2>1 DEF Proceed
    <2>3. UNCHANGED <<store, rules, finalizing>> /\ targetAction' = "" /\ pc # "idle"
      BY <1>8 DEF Proceed
    <2> QED
      BY <1>4, <2>2, <2>3 DEF Goto, store, rules, Refusal, Owned
  <1>9. CASE EndRequest
    <2>1. /\ UNCHANGED <<cache, rules, adapter>>
          /\ obj' = obj \/ obj' = [obj EXCEPT !.status = inst.status]
          /\ pc' = "idle" /\ finalizing' = FALSE
      BY <1>4, <1>9 DEF EndRequest, UpdateStatus, Store, store, Ended, Return
    <2>2. Refusal([obj EXCEPT !.status = inst.status])
      BY <1>0, <1>4, <1>9 DEF EndRequest, Refusal, Object
    <2> QED
      BY <1>4, <2>1, <2>2 DEF rules, adapter, Refusal, Owned
  <1>10. CASE Sync
    BY <1>4, <1>10 DEF Sync, worker, rules, adapter, Refusal, Owned
  <1>11. CASE IntervalElapses
    <2> DEFINE elapsed(x) == [x EXCEPT !.status.last = IF @ = "recent" THEN "elapsed" ELSE @]
    <2>1. ASSUME NEW x \in Object, Refusal(x) PROVE Refusal(elapsed(x))
      BY <2>1 DEF Refusal, Object, Status
    <2>2. obj' = elapsed(obj) /\ cache' = elapsed(cache) /\ UNCHANGED <<worker, rules, adapter>>
      BY <1>11 DEF IntervalElapses
    <2> HIDE DEF elapsed
    <2> QED
      BY <1>0, <1>4, <2>1, <2>2 DEF worker, rules, adapter, Refusal, Owned
  <1>12. CASE TimerFires \/ UNCHANGED vars
    <2>1. UNCHANGED <<store, worker, rules, adapter>>
      BY <1>12 DEF TimerFires, vars
    <2> QED
      BY <1>4, <2>1 DEF store, worker, rules, adapter, Refusal, Owned
  <1>13. ~Finalize
    BY <1>4 DEF Finalize, Refusal
  <1>14. ~(\/ WriteInitStatus \/ Pause \/ Resume \/ ReadMetrics \/ WriteMetricsError
           \/ WriteMetrics \/ Fetch \/ DetectBaseline \/ UpdateBaselineVS \/ UpdateBaselineDR
           \/ DetectCandidates \/ UpdateCandidatesVS \/ UpdateCandidatesDR \/ ShiftTraffic
           \/ Iterate \/ UpdateTrafficVS \/ Finish \/ Complete \/ StableVS \/ StableDR
           \/ RemoveFinalizer)
    BY <1>4 DEF WriteInitStatus, Pause, Resume, ReadMetrics, WriteMetricsError,
                WriteMetrics, Fetch, DetectBaseline, UpdateBaselineVS, UpdateBaselineDR,
                DetectCandidates, UpdateCandidatesVS, UpdateCandidatesDR, ShiftTraffic,
                Iterate, UpdateTrafficVS, Finish, Complete, StableVS, StableDR, RemoveFinalizer
  <1> QED
    BY <1>2, <1>5, <1>6, <1>7, <1>8, <1>9, <1>10, <1>11, <1>12, <1>13, <1>14 DEF Next, Worker

\* As long as no command and no target event comes, a refused experiment leaves
\* the rules alone (Reconcile validates in the first pass only; proceed).
THEOREM RefusedLeavesRules == Spec => []RefusedOwnsNothing
  <1>1. Init => ValidInv
    BY DEF Init, ValidInv
  <1>2. Init => RefusalInv
    <2> SUFFICES ASSUME Init
                 PROVE  RefusalInv
      OBVIOUS
    <2>1. /\ pc = "idle" /\ ~finalizing /\ cache = obj /\ targetAction = ""
          /\ ~Owned(vs) /\ ~Owned(dr)
      <3>1. pc = "idle" /\ ~finalizing /\ cache = obj /\ targetAction = ""
        BY DEF Init
      <3>2. AbsentVS.role = "absent" /\ AbsentDR.role = "absent"
        BY DEF AbsentVS, AbsentDR
      <3>3. CASE vs = AbsentVS /\ dr = AbsentDR
        BY <3>1, <3>2, <3>3 DEF Owned
      <3>4. CASE /\ vs = [role |-> "stable", init |-> FALSE, weight |-> AllTo(Baseline)]
                 /\ dr = AbsentDR \/ (RequireDR /\ dr = [role |-> "stable", init |-> FALSE])
        <4>1. vs.role = "stable"
          BY <3>4
        <4>2. dr.role \in {"stable", "absent"}
          BY <3>2, <3>4
        <4> QED
          BY <3>1, <4>1, <4>2 DEF Owned
      <3> QED
        BY <3>3, <3>4 DEF Init
    <2>2. PICK valid \in Validity : obj = [NewObject EXCEPT !.valid = valid]
      BY DEF Init
    <2>3. obj.override = "none" /\ obj.deleting = FALSE /\ obj.status = EmptyStatus
      BY <2>2 DEF NewObject
    <2>4. EmptyStatus.inited = FALSE
      BY DEF EmptyStatus
    <2> QED
      BY <2>1, <2>3, <2>4 DEF RefusalInv, Refusal
  <1>3. RefusalInv => RefusedOwnsNothing
    BY DEF RefusalInv, RefusedOwnsNothing
  <1> QED
    BY <1>1, <1>2, <1>3, ValidStep, RefusalStep, LoopInvariant, PTL DEF Spec
=================================================================================
