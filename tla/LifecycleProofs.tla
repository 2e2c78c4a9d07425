---------------------------- MODULE LifecycleProofs ----------------------------
(***************************************************************************)
(* The reconcile loop implements the life of an experiment, for all values *)
(* of the constants.  The status changes by one write of a current copy    *)
(* (StatusChanges), and CopyRelated bounds what such a copy may say; each  *)
(* write is then a step of ExperimentLifecycle, or leaves it where it is.  *)
(* The last step of that life has a reason: it is found before the API     *)
(* calls of completion, and is still in the copy that endRequest writes.   *)
(***************************************************************************)
EXTENDS ReconcileOutcomeProofs

\* The stage that a status stands for while the object exists.
StageOf(s) == IF s.completed THEN "completed"
              ELSE IF ~s.inited THEN "new"
              ELSE IF s.phase = "Pause" THEN "paused" ELSE "progressing"

\* The object never comes back.
LEMMA ExistenceStep == LoopInv /\ [Next]_vars => (obj'.exists => obj.exists)
  <1> SUFFICES ASSUME LoopInv, [Next]_vars, ~obj.exists
               PROVE  ~obj'.exists
    OBVIOUS
  <1>0. obj \in Object
    BY Copies
  <1>1. ASSUME NEW a, Answer(a) PROVE a # "ok"
    BY <1>1 DEF Answer
  <1>2. CASE StatusWriter
    <2>1. UNCHANGED store \/ \E a : Answer(a) /\ UpdateStatus(a, inst)
      BY <1>2 DEF StatusWriter, WriteInitStatus, WriteMetricsError, EndRequest
    <2> QED
      BY <1>1, <2>1 DEF UpdateStatus, store
  <1>3. CASE addFinalizerIfAbsent \/ Pause \/ Resume \/ WriteMetrics \/ RemoveFinalizer
    <2>1. \E a, y : Answer(a) /\ UpdateObject(a, y)
      BY <1>3 DEF addFinalizerIfAbsent, Pause, Resume, WriteMetrics, RemoveFinalizer
    <2> QED
      BY <1>1, <2>1 DEF UpdateObject, store
  <1>4. CASE IntervalElapses
    BY <1>0, <1>4 DEF IntervalElapses, Object
  <1>5. CASE User
    BY <1>5 DEF User, Override, Delete, TargetEvent, store
  <1>6. CASE \/ Get \/ Finalize \/ NotToProceed \/ Proceed \/ ReadMetrics \/ Fetch
             \/ DetectBaseline \/ UpdateBaselineVS \/ UpdateBaselineDR \/ DetectCandidates
             \/ UpdateCandidatesVS \/ UpdateCandidatesDR \/ ShiftTraffic \/ Iterate
             \/ UpdateTrafficVS \/ Finish \/ Complete \/ StableVS \/ StableDR
             \/ TimerFires \/ Sync \/ Crash \/ UNCHANGED vars
    BY <1>6
       DEF Get, Finalize, NotToProceed, Proceed, ReadMetrics, Fetch, DetectBaseline,
           UpdateBaselineVS, UpdateBaselineDR, DetectCandidates, UpdateCandidatesVS,
           UpdateCandidatesDR, ShiftTraffic, Iterate, UpdateTrafficVS, Finish, Complete,
           StableVS, StableDR, TimerFires, Sync, Crash, store, vars
  <1> QED
    BY <1>2, <1>3, <1>4, <1>5, <1>6 DEF Next, Worker, StatusWriter

\* A write of the status, and the deletion of the object, are never one step.
LEMMA DeletionKeepsStatus ==
    LoopInv /\ [Next]_vars /\ obj.exists /\ ~obj'.exists => obj'.status = obj.status
  <1> SUFFICES ASSUME LoopInv, [Next]_vars, obj.exists, obj'.status # obj.status
               PROVE  obj'.exists
    OBVIOUS
  <1>0. obj \in Object
    BY Copies
  <1>1. CASE StatusWriter
    <2>1. UNCHANGED store \/ \E a : UpdateStatus(a, inst)
      BY <1>1 DEF StatusWriter, WriteInitStatus, WriteMetricsError, EndRequest
    <2> QED
      BY <1>0, <2>1 DEF UpdateStatus, Store, store, Object
  <1>2. CASE IntervalElapses
    BY <1>0, <1>2 DEF IntervalElapses, Object
  <1> QED
    BY <1>1, <1>2, QuietStatus

-----------------------------------------------------------------------------
\* A step that leaves the status alone, but perhaps for the time, is the
\* deletion of the object or not seen by the user.
LEMMA QuietStep ==
    ASSUME LoopInv, [Next]_vars,
           \/ obj'.status = obj.status
           \/ obj'.status = [obj.status EXCEPT !.last = "elapsed"]
    PROVE  [Lifecycle!Next]_(Lifecycle!vars)
  <1>1. /\ StageOf(obj'.status) = StageOf(obj.status)
        /\ obj'.status.iteration = obj.status.iteration
        /\ outcome' = outcome
    BY Copies DEF Object, Status, StageOf, outcome
  <1>2. /\ stage = IF obj.exists THEN StageOf(obj.status) ELSE "gone"
        /\ stage' = IF obj'.exists THEN StageOf(obj'.status) ELSE "gone"
        /\ StageOf(obj.status) # "gone"
    BY DEF stage, StageOf
  <1> QED
    BY <1>1, <1>2, ExistenceStep DEF Lifecycle!Next, Lifecycle!Delete, Lifecycle!vars

\* A status write that the server accepts is one step in the life of the
\* experiment, or not seen by the user.
LEMMA WriteStep ==
    ASSUME LoopInv, [Next]_vars, obj'.exists,
           current, obj.exists, pc \in {"initStatus", "metricsError", "endRequest"},
           obj'.status = inst.status
    PROVE  [Lifecycle!Next]_(Lifecycle!vars)
  <1> DEFINE s == obj.status
             t == inst.status
  <1>1. s \in Status /\ t \in Status
    BY Copies DEF Object
  <1>2. /\ ~s.completed /\ t.inited /\ t.iteration <= MaxIterations
        /\ \/ t.iteration = s.iteration
           \/ /\ t.iteration = s.iteration + 1
              /\ s.inited /\ t.phase = "Progressing" /\ ~t.completed
        /\ ~s.inited => ~t.completed
    BY DEF LoopInv, CopyRelated, Related, CopyInv, CurrentInv
  <1>3. stage = StageOf(s) /\ stage' = StageOf(t)
    BY DEF stage, StageOf
  <1>4. /\ outcome = NoSplit
        /\ outcome' = IF t.completed THEN t.weight ELSE NoSplit
        /\ obj'.status.iteration = t.iteration
    BY <1>2 DEF outcome
  <1>5. t.weight \in Traffic /\ s.iteration \in Int
    BY <1>1 DEF Status
  <1> HIDE DEF s, t
  <1>6. CASE ~s.inited
    <2>1. Lifecycle!Start
      BY <1>2, <1>3, <1>4, <1>6 DEF StageOf, s, Lifecycle!Start, Lifecycle!Active
    <2> QED
      BY <2>1 DEF Lifecycle!Next
  <1>7. CASE s.inited /\ t.completed
    <2>1. Lifecycle!Complete
      BY <1>2, <1>3, <1>4, <1>5, <1>7 DEF StageOf, s, Lifecycle!Complete, Lifecycle!Active
    <2> QED
      BY <2>1 DEF Lifecycle!Next
  <1>8. CASE s.inited /\ t.iteration = s.iteration + 1
    <2>1. s.iteration < MaxIterations
      BY <1>2, <1>5, <1>8, ParametersAssumption
    <2>2. Lifecycle!Iterate
      BY <1>2, <1>3, <1>4, <1>5, <1>8, <2>1
         DEF StageOf, s, Lifecycle!Iterate, Lifecycle!Active
    <2> QED
      BY <2>2 DEF Lifecycle!Next
  <1>9. CASE s.inited /\ ~t.completed /\ t.iteration = s.iteration
    BY <1>2, <1>3, <1>4, <1>9
       DEF StageOf, s, Lifecycle!Next, Lifecycle!Pause, Lifecycle!Resume, Lifecycle!vars
  <1> QED
    BY <1>2, <1>6, <1>7, <1>8, <1>9

\* The status goes through the life of an experiment, whatever users, faults,
\* crashes and the lag of the cache do: every write that the API server accepts
\* is a step of it (endRequest, finalize, NotToProceed).
THEOREM LifecycleImplemented == Spec => ImplementsLifecycle
  <1>1. Init => Lifecycle!Init
    <2> SUFFICES ASSUME Init
                 PROVE  Lifecycle!Init
      OBVIOUS
    <2>1. PICK valid \in Validity : obj = [NewObject EXCEPT !.valid = valid]
      BY DEF Init
    <2>2. obj.exists /\ obj.status = EmptyStatus
      BY <2>1 DEF NewObject
    <2>3. ~EmptyStatus.completed /\ ~EmptyStatus.inited /\ EmptyStatus.iteration = 0
      BY DEF EmptyStatus
    <2> QED
      BY <2>2, <2>3 DEF Lifecycle!Init, stage, outcome
  <1>2. LoopInv /\ [Next]_vars => [Lifecycle!Next]_(Lifecycle!vars)
    BY StatusChanges, DeletionKeepsStatus, QuietStep, WriteStep
  <1> QED
    BY <1>1, <1>2, LoopInvariant, PTL DEF Spec, ImplementsLifecycle, Lifecycle!Spec

\* Completion is several API calls; the reason is found before the first.
Completing == {"complete", "stableVS", "stableDR", "deleteVS", "deleteDR"}

Justified(x) ==
    \/ x.status.iteration = MaxIterations
    \/ x.override = "terminate"
    \/ x.status.rulesReady = "False"

\* The copy that is being completed, or waits to be written as completed, still
\* shows the reason.
ReasonInv ==
    pc \in Completing \/ (pc = "endRequest" /\ inst.status.completed) => Justified(inst)

LEMMA ReasonStep == LoopInv /\ ReasonInv /\ [Next]_vars => ReasonInv'
  <1> SUFFICES ASSUME LoopInv, ReasonInv, [Next]_vars
               PROVE  ReasonInv'
    OBVIOUS
  <1>0. /\ obj \in Object /\ cache \in Object /\ inst \in Object
        /\ StoreInv /\ CopyInv
    BY Copies DEF LoopInv, CopyRelated, Related
  <1>1. ASSUME pc' \notin Completing \cup {"endRequest"} PROVE ReasonInv'
    BY <1>1 DEF ReasonInv
  <1>2. ASSUME NEW x, ~x.status.completed, Goto("endRequest", x) PROVE ReasonInv'
    BY <1>2 DEF ReasonInv, Goto, Completing
  <1>3. ASSUME NEW next, NEW x, Justified(x), Goto(next, x) PROVE ReasonInv'
    BY <1>3 DEF ReasonInv, Goto, Justified
  <1>4. ASSUME UNCHANGED <<pc, inst>> PROVE ReasonInv'
    BY <1>4 DEF ReasonInv, Justified
  <1>5. CASE \/ WriteInitStatus \/ addFinalizerIfAbsent \/ Finalize \/ NotToProceed
             \/ ReadMetrics \/ EndRequest \/ RemoveFinalizer \/ Crash
    <2>1. CASE WriteInitStatus \/ addFinalizerIfAbsent
      BY <1>1, <2>1
         DEF WriteInitStatus, addFinalizerIfAbsent, Continue, Goto, Return, Completing
    <2>2. CASE Finalize \/ NotToProceed \/ ReadMetrics
      BY <1>1, <2>2 DEF Finalize, NotToProceed, ReadMetrics, Continue, Goto, Return, Completing
    <2>3. CASE EndRequest \/ RemoveFinalizer \/ Crash
      <3>1. Return \/ pc' = "removeFinalizer"
        BY <2>3 DEF EndRequest, RemoveFinalizer, Crash, Ended, Continue, Goto
      <3> QED
        BY <1>1, <3>1 DEF Return, Completing
    <2> QED
      BY <1>5, <2>1, <2>2, <2>3
  <1>6. CASE Get
    <2> DEFINE x == IF cache.status.inited THEN cache ELSE InitStatus(cache)
    <2>1. \/ pc' \in {"idle", "decide", "finalizer", "initStatus"}
          \/ ~cache.status.inited /\ Goto("endRequest", MarkTargetsError(x, "Invalid"))
      BY <1>6 DEF Get, Goto, Return
    <2>2. CASE pc' \in {"idle", "decide", "finalizer", "initStatus"}
      BY <1>1, <2>2 DEF Completing
    <2>3. CASE ~cache.status.inited /\ Goto("endRequest", MarkTargetsError(x, "Invalid"))
      <3>1. /\ InitStatus(cache) \in Object
            /\ InitStatus(cache).status.completed = cache.status.completed
        <4>1. InitStatus(cache) \in Object
          BY <1>0, InitStatusType
        <4>2. InitStatus(cache).status.completed = cache.status.completed
          BY <1>0 DEF InitStatus, Object, Status
        <4> QED
          BY <4>1, <4>2
      <3>2. ~cache.status.completed /\ x = InitStatus(cache)
        BY <1>0, <2>3 DEF StoreInv, StatusOK
      <3> HIDE DEF x
      <3>3. x \in Object /\ ~x.status.completed
        BY <3>1, <3>2
      <3>4. ~MarkTargetsError(x, "Invalid").status.completed
        BY <3>3 DEF MarkTargetsError, Object, Status
      <3> QED
        BY <1>2, <2>3, <3>4
    <2> QED
      BY <2>1, <2>2, <2>3
  <1>7. CASE Proceed
    <2>1. \/ pc' \in {"pause", "resume", "metrics", "fetch"}
          \/ ~inst.status.completed /\ Goto("endRequest", inst)
      BY <1>0, <1>7 DEF Proceed, ExperimentCompleted, toSyncMetrics, Goto
    <2> QED
      BY <1>1, <1>2, <2>1 DEF Completing
  <1>8. CASE Pause
    <2>1. PICK a \in {"ok", "conflict", "error"} :
            /\ UpdateObject(a, inst)
            /\ \/ Fail(MarkExperimentPause(Decoded(a, inst)), TRUE)
               \/ Fail(inst, FALSE)
      BY <1>8 DEF Pause
    <2>2. Decoded(a, inst) \in Object
      BY <1>0, <2>1, ObjectWrite, Parts DEF LoopInv
    <2>3. ~MarkExperimentPause(Decoded(a, inst)).status.completed
      BY <2>2 DEF MarkExperimentPause, Object, Status
    <2>4. ~inst.status.completed
      BY <1>0, <1>8 DEF Pause, CopyInv, Early
    <2> QED
      BY <1>2, <2>1, <2>3, <2>4 DEF Fail
  <1>9. CASE Resume \/ WriteMetrics
    <2>1. pc' \in {"metrics", "fetch"} \/ Goto("endRequest", inst)
      BY <1>9 DEF Resume, WriteMetrics, toSyncMetrics, Fail, Goto
    <2>2. ~inst.status.completed
      BY <1>0, <1>9 DEF Resume, WriteMetrics, CopyInv, Early
    <2> QED
      BY <1>1, <1>2, <2>1, <2>2 DEF Completing
  <1>10. CASE WriteMetricsError
    <2>1. PICK a \in {"ok", "conflict", "error"} :
            UpdateStatus(a, inst) /\ Goto("endRequest", Decoded(a, inst))
      BY <1>10 DEF WriteMetricsError, Fail
    <2>2. pc # "idle" /\ ~inst.status.completed
      BY <1>0, <1>10 DEF WriteMetricsError, CopyInv, Early
    <2>3. Decoded(a, inst).status = inst.status
      BY <2>1, <2>2, StatusWritten
    <2> QED
      BY <1>2, <2>1, <2>2, <2>3
  <1>11. CASE Fetch
    <2>1. \/ pc' \in {"detect", "iterate", "finish"}
          \/ Goto("complete", MarkRoutingRulesError(inst))
      BY <1>11 DEF Fetch, AfterDetection, Continue, Goto
    <2>2. Justified(MarkRoutingRulesError(inst))
      BY <1>0 DEF Justified, MarkRoutingRulesError, Object, Status
    <2> QED
      BY <1>1, <1>3, <2>1, <2>2 DEF Completing
  <1>12. CASE \/ DetectBaseline \/ UpdateBaselineVS \/ UpdateBaselineDR
              \/ DetectCandidates \/ UpdateCandidatesVS \/ UpdateCandidatesDR
    <2>1. Working
      BY <1>12 DEF DetectBaseline, UpdateBaselineVS, UpdateBaselineDR, DetectCandidates,
                   UpdateCandidatesVS, UpdateCandidatesDR, Working, Early
    <2>2. /\ Derived(MarkRoutingRulesError(inst))
          /\ \A reason : Derived(MarkTargetsError(inst, reason))
      BY <1>0, <2>1, WorkingCopy, MarksDerived
    <2>3. \/ pc' \in {"candidates", "baselineVS", "baselineDR", "candidatesVS",
                      "candidatesDR", "iterate", "finish"}
          \/ Goto("endRequest", MarkRoutingRulesError(inst))
          \/ \E reason : Goto("endRequest", MarkTargetsError(inst, reason))
      BY <1>12 DEF DetectBaseline, UpdateBaselineVS, UpdateBaselineDR, DetectCandidates,
                   UpdateCandidatesVS, UpdateCandidatesDR, TargetsError, RulesError,
                   Detected, AfterDetection, Continue, Fail, Goto
    <2> QED
      BY <1>1, <1>2, <2>2, <2>3 DEF Completing, Derived
  <1>13. CASE ShiftTraffic \/ Iterate \/ UpdateTrafficVS
    <2>1. ~inst.status.completed
      BY <1>0, <1>13 DEF ShiftTraffic, Iterate, UpdateTrafficVS, CopyInv, Early
    <2>2. ASSUME NEW x \in Object, ~x.status.completed, NEW changed, AnalyticsError(x, changed)
          PROVE  ReasonInv'
      <3>1. ~MarkAnalyticsServiceError(x).status.completed
        BY <2>2 DEF MarkAnalyticsServiceError, Object, Status
      <3> QED
        BY <1>2, <2>2, <3>1 DEF AnalyticsError, Fail
    <2>3. CASE RulesError
      <3>1. ~MarkRoutingRulesError(inst).status.completed
        BY <1>0, <2>1 DEF MarkRoutingRulesError, Object, Status
      <3> QED
        BY <1>2, <2>3, <3>1 DEF RulesError, Fail
    <2>4. ASSUME pc' \in {"trafficVS", "finish"} PROVE ReasonInv'
      BY <1>1, <2>4 DEF Completing
    <2>5. ASSUME NEW r \in Responses, Analyze(r) PROVE ReasonInv'
      <3> DEFINE assessed == [inst EXCEPT !.status.winner = r.winner,
                                          !.status.phase = "Progressing",
                                          !.status.completed = FALSE]
                 weight == [v \in Versions |->
                              IF v \notin r.covered THEN inst.status.weight[v]
                              ELSE IF v \in r.rollback THEN 0 ELSE r.split[v]]
                 x == [assessed EXCEPT !.status.weight = weight]
      <3>1. r \in Response
        BY EnvironmentAssumption
      <3>2. assessed \in Object /\ ~assessed.status.completed
        BY <1>0, <3>1 DEF Response, Object, Status, Phases
      <3>3. weight \in Traffic
        BY <1>0, <3>1 DEF Response, Traffic, Object, Status
      <3>4. AnalyticsError(x, TRUE) \/ pc' \in {"trafficVS", "finish"}
        BY <2>5 DEF Analyze, Continue, IterationDone, Goto, assessed, weight
      <3> HIDE DEF weight, assessed
      <3>5. x \in Object
        BY <3>2, <3>3, WeightType
      <3>6. ~x.status.completed
        BY <3>2 DEF Object, Status
      <3> HIDE DEF x
      <3> QED
        BY <2>2, <2>4, <3>4, <3>5, <3>6
    <2>6. \/ pc' \in {"trafficVS", "finish"} \/ RulesError
          \/ AnalyticsError(inst, FALSE) \/ \E r \in Responses : Analyze(r)
      BY <1>13 DEF ShiftTraffic, Iterate, UpdateTrafficVS, IterationDone, Continue, Goto
    <2> QED
      BY <1>0, <2>1, <2>2, <2>3, <2>4, <2>5, <2>6
  <1>14. CASE Finish
    <2>1. /\ inst.status.iteration \in Int /\ inst.status.iteration <= MaxIterations
          /\ ~inst.status.completed
      BY <1>0, <1>14 DEF Finish, CopyInv, Early, Object, Status
    <2>2. toComplete(inst) => Justified(inst)
      BY <2>1, ParametersAssumption DEF toComplete, Justified
    <2>3. ~[inst EXCEPT !.status.iteration = @ + 1].status.completed
      BY <1>0, <2>1 DEF Object, Status
    <2>4. \/ toComplete(inst) /\ Goto("complete", inst)
          \/ Goto("endRequest", inst)
          \/ Goto("endRequest", [inst EXCEPT !.status.iteration = @ + 1])
      BY <1>14 DEF Finish, Continue, Fail
    <2> QED
      BY <1>2, <1>3, <2>1, <2>2, <2>3, <2>4
  <1>15. ASSUME NEW x \in Object, Justified(x), Completed(x) PROVE ReasonInv'
    <2>1. Justified(MarkExperimentCompleted(x))
      BY <1>15 DEF Justified, MarkExperimentCompleted, Object, Status
    <2> QED
      BY <1>3, <1>15, <2>1 DEF Completed, Fail
  <1>16. CASE Complete
    <2>1. Justified(inst)
      BY <1>16 DEF Complete, ReasonInv, Completing
    <2>2. overrideAssessment(inst) \in Object /\ Justified(overrideAssessment(inst))
      BY <1>0, <2>1, OverrideType DEF Justified, overrideAssessment, Object, Status
    <2>3. \/ Completed(overrideAssessment(inst))
          \/ \E next : Goto(next, overrideAssessment(inst))
      BY <1>16 DEF Complete, Continue
    <2> QED
      BY <1>3, <1>15, <2>2, <2>3
  <1>17. CASE StableVS \/ StableDR
    <2>1. Justified(inst)
      BY <1>17 DEF StableVS, StableDR, ReasonInv, Completing
    <2>2. pc' = "idle" \/ Completed(inst) \/ \E next : Goto(next, inst)
      BY <1>17 DEF StableVS, StableDR, CompletionFails, Continue, Return
    <2> QED
      BY <1>0, <1>1, <1>3, <1>15, <2>1, <2>2 DEF Completing
  <1>18. CASE Sync \/ IntervalElapses \/ TimerFires \/ User \/ UNCHANGED vars
    BY <1>4, <1>18 DEF Sync, IntervalElapses, TimerFires, User, Override, Delete, UserChange,
                       TargetEvent, vars, worker
  <1> QED
    BY <1>5, <1>6, <1>7, <1>8, <1>9, <1>10, <1>11, <1>12, <1>13, <1>14, <1>16, <1>17, <1>18
       DEF Next, Worker

\* An experiment ends with its last iteration, by an abort or a command, or when
\* its routing rules cannot be used (toComplete, checkOrInitRules, endRequest).
THEOREM CompletedForReason == Spec => EndsWithReason
  <1> DEFINE Reasoned == [~obj.status.completed /\ obj'.status.completed
                            => \/ inst.status.iteration = MaxIterations
                               \/ inst.override = "terminate"
                               \/ inst.status.rulesReady = "False"]_vars
  <1>1. Init => ReasonInv
    BY DEF Init, ReasonInv, Completing
  <1>2. LoopInv /\ ReasonInv /\ [Next]_vars => Reasoned
    <2> SUFFICES ASSUME LoopInv, ReasonInv, [Next]_vars,
                        ~obj.status.completed, obj'.status.completed
                 PROVE  Justified(inst)
      BY DEF Justified
    <2>1. obj \in Object /\ CopyInv
      BY Copies DEF LoopInv, CopyRelated, Related
    <2>2. ~[obj.status EXCEPT !.last = "elapsed"].completed
      BY <2>1 DEF Object, Status
    <2>3. pc \in {"initStatus", "metricsError", "endRequest"} /\ inst.status.completed
      BY <2>2, StatusChanges
    <2>4. pc = "endRequest"
      BY <2>1, <2>3 DEF CopyInv, Early
    <2> QED
      BY <2>3, <2>4 DEF ReasonInv
  <1> QED
    BY <1>1, <1>2, ReasonStep, LoopInvariant, PTL DEF Spec, EndsWithReason
================================================================================
