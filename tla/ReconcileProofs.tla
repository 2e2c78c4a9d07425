---------------------------- MODULE ReconcileProofs ----------------------------
(***************************************************************************)
(* The type invariant of the reconcile loop, for all values of the         *)
(* constants.  It is inductive.  Each part has a lemma with a step per     *)
(* action or per group of actions that leave it alone; what an action does *)
(* to the worker goes through one of Return, Continue, Fail and their      *)
(* special forms, which have lemmas of their own.                          *)
(***************************************************************************)
EXTENDS Reconcile, TLAPS, FiniteSetTheorems

\* TypeOK in four parts, by who changes them: the API server and the cache, the
\* worker, the rules, the rest.
StoreOK == obj \in Object /\ cache \in Object /\ synced \in BOOLEAN /\ event \in BOOLEAN
WorkerOK ==
    /\ pc \in PCs /\ inst \in Object
    /\ current \in BOOLEAN /\ finalizing \in BOOLEAN /\ fetched \in BOOLEAN
    /\ statusUpdate \in BOOLEAN /\ refresh \in BOOLEAN /\ progress \in BOOLEAN
RulesOK == vs \in VirtualService /\ dr \in DestinationRule
RestOK ==
    /\ live \subseteq Targets
    /\ registered \in BOOLEAN /\ targetAction \in {"", "detected", "deleted"}
    /\ queued \in BOOLEAN /\ timer \in {"none", "waiting", "ready"}
    /\ edits \in 0..MaxEdits /\ targetEvents \in 0..MaxTargetEvents
    /\ faults \in 0..MaxFaults /\ crashes \in 0..MaxCrashes

LEMMA Parts == TypeOK <=> StoreOK /\ WorkerOK /\ RulesOK /\ RestOK
  BY DEF TypeOK, StoreOK, WorkerOK, RulesOK, RestOK

LEMMA NextParts == TypeOK' <=> StoreOK' /\ WorkerOK' /\ RulesOK' /\ RestOK'
  BY DEF TypeOK, StoreOK, WorkerOK, RulesOK, RestOK

\* A version of the object that is stored is the next obj.
LEMMA StoreType ==
    ASSUME StoreOK, NEW new \in Object, Store(new)
    PROVE  StoreOK'
  <1>1. AcceptsUpdate(obj, new) \in BOOLEAN
    BY DEF AcceptsUpdate
  <1> QED
    BY <1>1 DEF StoreOK, Store

\* Status().Update keeps the object's type and answers with an object.
LEMMA StatusWrite ==
    ASSUME StoreOK, NEW a, NEW x \in Object, UpdateStatus(a, x)
    PROVE  StoreOK' /\ Decoded(a, x) \in Object
  <1>1. [obj EXCEPT !.status = x.status] \in Object
    BY DEF StoreOK, Object
  <1>2. CASE a = "ok"
    <2>1. StoreOK'
      BY <1>1, <1>2, StoreType DEF UpdateStatus
    <2> QED
      BY <1>2, <2>1 DEF Decoded, StoreOK
  <1>3. CASE a # "ok"
    BY <1>3 DEF UpdateStatus, store, StoreOK, Decoded
  <1> QED
    BY <1>2, <1>3

\* So does Update.
LEMMA ObjectWrite ==
    ASSUME StoreOK, NEW a, NEW y \in Object, NEW x \in Object, UpdateObject(a, y)
    PROVE  StoreOK' /\ Decoded(a, x) \in Object
  <1>1. [y EXCEPT !.status = obj.status] \in Object
    BY DEF StoreOK, Object
  <1>2. CASE a = "ok"
    <2>1. StoreOK'
      BY <1>1, <1>2, StoreType DEF UpdateObject
    <2> QED
      BY <1>2, <2>1 DEF Decoded, StoreOK
  <1>3. CASE a # "ok"
    BY <1>3 DEF UpdateObject, store, StoreOK, Decoded
  <1> QED
    BY <1>2, <1>3

\* An object as a user creates it.
LEMMA NewType == NewObject \in Object
  BY DEF NewObject, EmptyStatus, NoTraffic, Traffic, Object, Status, Phases, Conditions,
         Overrides, TargetsConditions

\* The three ways to leave an action: Return, Continue and Fail.
LEMMA ReturnType == Return => WorkerOK'
  BY NewType DEF Return, WorkerOK, PCs

LEMMA ContinueType ==
    ASSUME WorkerOK, NEW x \in Object, NEW next \in PCs, Continue(next, x)
    PROVE  WorkerOK'
  BY DEF Continue, Goto, interState, WorkerOK

LEMMA FailType ==
    ASSUME WorkerOK, NEW x \in Object, NEW ch \in BOOLEAN, Fail(x, ch)
    PROVE  WorkerOK'
  BY DEF Fail, Goto, WorkerOK, PCs

\* The status methods return objects.
LEMMA InitStatusType == ASSUME NEW x \in Object PROVE InitStatus(x) \in Object
  BY DEF InitStatus, Object, Status, Phases, NoTraffic, Traffic

LEMMA TargetsErrorType ==
    ASSUME NEW x \in Object, NEW reason \in TargetsConditions
    PROVE  MarkTargetsError(x, reason) \in Object
  BY DEF MarkTargetsError, Object, Status, Phases

\* The count of failed calls stays within its bound.
LEMMA CallType ==
    ASSUME faults \in 0..MaxFaults, CallFails \/ CallSucceeds
    PROVE  faults' \in 0..MaxFaults
  BY EnvironmentAssumption DEF CallFails, CallSucceeds

\* The bounds are natural numbers.
LEMMA Bounds ==
    MaxEdits \in Nat /\ MaxTargetEvents \in Nat /\ MaxFaults \in Nat /\ MaxCrashes \in Nat
  BY EnvironmentAssumption

LEMMA AnswerType ==
    ASSUME faults \in 0..MaxFaults, NEW a, Answer(a)
    PROVE  faults' \in 0..MaxFaults
  BY CallType DEF Answer

\* A targets error has one of the conditions' reasons.
LEMMA ReasonType ==
    ASSUME NEW x \in Object, NEW role \in TargetsRoles
    PROVE  TargetsErrorReason(x, role) \in TargetsConditions
  BY DEF TargetsErrorReason, TargetsConditions

LEMMA MarkTypes ==
    ASSUME NEW x \in Object
    PROVE  /\ MarkRoutingRulesError(x) \in Object
           /\ MarkAnalyticsServiceError(x) \in Object
           /\ MarkMetricsSyncedError(x) \in Object
           /\ MarkTargetsAndRulesReady(x) \in Object
           /\ MarkExperimentPause(x) \in Object
           /\ MarkExperimentResume(x) \in Object
           /\ MarkIterationUpdate(x) \in Object
           /\ MarkExperimentCompleted(x) \in Object
           /\ TerminateExperiment(x) \in Object
  <1>1. MarkRoutingRulesError(x) \in Object
    BY DEF MarkRoutingRulesError, Object, Status, Phases, Conditions
  <1>2. MarkAnalyticsServiceError(x) \in Object
    BY DEF MarkAnalyticsServiceError, Object, Status, Phases, Conditions
  <1>3. MarkMetricsSyncedError(x) \in Object
    BY DEF MarkMetricsSyncedError, Object, Status, Phases, Conditions
  <1>4. MarkTargetsAndRulesReady(x) \in Object
    BY DEF MarkTargetsAndRulesReady, Object, Status, Conditions, TargetsConditions
  <1>5. MarkExperimentPause(x) \in Object
    BY DEF MarkExperimentPause, Object, Status, Phases
  <1>6. MarkExperimentResume(x) \in Object
    BY DEF MarkExperimentResume, Object, Status, Phases
  <1>7. MarkIterationUpdate(x) \in Object
    BY DEF MarkIterationUpdate, Object, Status, Phases
  <1>8. MarkExperimentCompleted(x) \in Object
    BY DEF MarkExperimentCompleted, Object, Status, Phases
  <1>9. TerminateExperiment(x) \in Object
    BY DEF TerminateExperiment, Object, Overrides
  <1> QED
    BY <1>1, <1>2, <1>3, <1>4, <1>5, <1>6, <1>7, <1>8, <1>9

\* Weights of the right type may be put into the status.
LEMMA WeightType ==
    ASSUME NEW x \in Object, NEW weight \in Traffic
    PROVE  [x EXCEPT !.status.weight = weight] \in Object
  BY DEF Object, Status

LEMMA AnalyticsType ==
    ASSUME NEW x \in Object
    PROVE  [x EXCEPT !.status.analytics = "True"] \in Object
  BY DEF Object, Status, Conditions

\* overrideAssessment puts weights of the versions into the status: all of them
\* to one version, or the split of a terminate command, which is there when it
\* is used.
LEMMA OverrideType == ASSUME NEW x \in Object PROVE overrideAssessment(x) \in Object
  <1>1. CASE Receiver(x) # NoWinner
    <2>1. AllTo(Receiver(x)) \in Traffic
      BY DEF AllTo, Traffic
    <2> QED
      BY <1>1, <2>1, WeightType DEF overrideAssessment
  <1>2. CASE Receiver(x) = NoWinner /\ x.override = "terminate"
    <2>1. x.split # NoSplit
      BY <1>2, VersionsAssumption DEF Receiver, EffectiveOnTermination, Versions
    <2>2. x.split \in Traffic
      BY <2>1, VersionsAssumption DEF Object
    <2> QED
      BY <1>2, <2>2, WeightType DEF overrideAssessment
  <1>3. CASE Receiver(x) = NoWinner /\ x.override # "terminate"
    BY <1>3 DEF overrideAssessment
  <1> QED
    BY <1>1, <1>2, <1>3

\* No step of an experiment without criteria makes a weight negative: CanShift
\* is what the subtraction from the baseline needs.
LEMMA ShiftedType ==
    ASSUME NEW weight \in Traffic, CanShift(weight)
    PROVE  Shifted(weight) \in Traffic
  <1> DEFINE n == MaxIncrement * Cardinality(Candidates)
  <1>1. Cardinality(Candidates) \in Nat /\ MaxIncrement \in Nat
    BY VersionsAssumption, ParametersAssumption, FS_CardinalityType
  <1>2. n \in Int
    BY <1>1
  <1>3. weight[Baseline] - n >= 0
    BY DEF CanShift
  <1> HIDE DEF n
  <1>4. \A v \in Versions :
          (IF v = Baseline THEN weight[v] - n ELSE weight[v] + MaxIncrement) \in Nat
    BY <1>1, <1>2, <1>3 DEF Traffic, Versions
  <1> QED
    BY <1>4 DEF Shifted, Traffic, n

\* The changes the router makes to a rule.
LEMMA RuleTypes ==
    ASSUME NEW v \in VirtualService, NEW d \in DestinationRule
    PROVE  /\ WithBaseline(v) \in VirtualService
           /\ WithProgressing(v) \in VirtualService
           /\ WithStable(v) \in VirtualService
           /\ AbsentVS \in VirtualService
           /\ \A w \in Traffic : [v EXCEPT !.weight = w] \in VirtualService
           /\ WithInitializing(d) \in DestinationRule
           /\ WithProgressing(d) \in DestinationRule
           /\ WithStable(d) \in DestinationRule
           /\ AbsentDR \in DestinationRule
  BY DEF WithBaseline, WithInitializing, WithProgressing, WithStable, AbsentVS, AbsentDR,
         AllTo, NoTraffic, Traffic, Roles, VirtualService, DestinationRule

LEMMA FinalTrafficType ==
    ASSUME NEW v \in VirtualService, NEW d, NEW w \in Traffic
    PROVE  FinalTraffic(v, d, w) \in VirtualService
  BY DEF FinalTraffic, VirtualService

-----------------------------------------------------------------------------

\* One step keeps the types of the object and of the cache.
LEMMA StoreStep == TypeOK /\ [Next]_vars => StoreOK'
  <1> SUFFICES ASSUME TypeOK, [Next]_vars
               PROVE  StoreOK'
    OBVIOUS
  <1>0. StoreOK /\ inst \in Object
    BY Parts DEF WorkerOK
  <1>1. ASSUME UNCHANGED store
        PROVE  StoreOK'
    BY <1>0, <1>1 DEF StoreOK, store
  <1>2. ASSUME NEW a, UpdateStatus(a, inst)
        PROVE  StoreOK'
    BY <1>0, <1>2, StatusWrite
  <1>3. ASSUME NEW a, NEW y \in Object, UpdateObject(a, y)
        PROVE  StoreOK'
    BY <1>0, <1>3, ObjectWrite
  <1>4. CASE WriteInitStatus \/ WriteMetricsError
    BY <1>2, <1>4 DEF WriteInitStatus, WriteMetricsError
  <1>5. CASE Pause \/ Resume \/ WriteMetrics
    BY <1>0, <1>3, <1>5 DEF Pause, Resume, WriteMetrics
  <1>6. CASE addFinalizerIfAbsent
    <2>1. [inst EXCEPT !.finalizer = TRUE] \in Object
      BY <1>0 DEF Object
    <2> QED
      BY <1>3, <1>6, <2>1 DEF addFinalizerIfAbsent
  <1>7. CASE RemoveFinalizer
    <2>1. [inst EXCEPT !.finalizer = FALSE, !.exists = FALSE] \in Object
      BY <1>0 DEF Object
    <2> QED
      BY <1>3, <1>7, <2>1 DEF RemoveFinalizer
  <1>8. CASE EndRequest
    BY <1>1, <1>2, <1>8 DEF EndRequest
  <1>9. CASE Sync
    BY <1>0, <1>9 DEF Sync, StoreOK
  <1>10. CASE Crash
    BY <1>0, <1>10 DEF Crash, StoreOK
  <1>11. ASSUME NEW new \in Object, UserChange(new)
         PROVE  StoreOK'
    BY <1>0, <1>11, StoreType DEF UserChange
  <1>12. ASSUME NEW action \in Overrides, NEW split \in Splits \cup {NoSplit},
                Override(action, split)
         PROVE  StoreOK'
    <2>1. [obj EXCEPT !.override = action, !.split = split] \in Object
      BY <1>0 DEF StoreOK, Object
    <2> QED
      BY <1>11, <1>12, <2>1 DEF Override
  <1>13. CASE Delete
    <2>1. [obj EXCEPT !.deleting = TRUE, !.exists = obj.finalizer] \in Object
      BY <1>0 DEF StoreOK, Object
    <2> QED
      BY <1>11, <1>13, <2>1 DEF Delete
  <1>14. CASE IntervalElapses
    <2> DEFINE elapsed(x) == [x EXCEPT !.status.last = IF @ = "recent" THEN "elapsed" ELSE @]
    <2>1. ASSUME NEW x \in Object PROVE elapsed(x) \in Object
      BY DEF Object, Status
    <2>2. obj' = elapsed(obj) /\ cache' = elapsed(cache) /\ UNCHANGED <<synced, event>>
      BY <1>14 DEF IntervalElapses
    <2> HIDE DEF elapsed
    <2> QED
      BY <1>0, <2>1, <2>2 DEF StoreOK
  <1>15. CASE \/ Get \/ Finalize \/ NotToProceed \/ Proceed \/ ReadMetrics \/ Fetch
              \/ DetectBaseline \/ UpdateBaselineVS \/ UpdateBaselineDR
              \/ DetectCandidates \/ UpdateCandidatesVS \/ UpdateCandidatesDR
              \/ ShiftTraffic \/ Iterate \/ UpdateTrafficVS \/ Finish
              \/ Complete \/ StableVS \/ StableDR \/ TimerFires
              \/ \E t \in Targets : TargetEvent(t)
    BY <1>1, <1>15
       DEF Get, Finalize, NotToProceed, Proceed, ReadMetrics, Fetch,
           DetectBaseline, UpdateBaselineVS, UpdateBaselineDR, DetectCandidates,
           UpdateCandidatesVS, UpdateCandidatesDR, ShiftTraffic, Iterate,
           UpdateTrafficVS, Finish, Complete, StableVS, StableDR, TimerFires, TargetEvent
  <1>16. CASE UNCHANGED vars
    BY <1>1, <1>16 DEF vars
  <1> QED
    BY <1>4, <1>5, <1>6, <1>7, <1>8, <1>9, <1>10, <1>12, <1>13, <1>14, <1>15, <1>16
       DEF Next, Worker, User, Overrides

-----------------------------------------------------------------------------

\* One step keeps the types of the rules.
LEMMA RulesStep == TypeOK /\ [Next]_vars => RulesOK'
  <1> SUFFICES ASSUME TypeOK, [Next]_vars
               PROVE  RulesOK'
    OBVIOUS
  <1>0. RulesOK /\ inst.status.weight \in Traffic
    BY Parts DEF WorkerOK, Object, Status
  <1>1. ASSUME UNCHANGED rules
        PROVE  RulesOK'
    BY <1>0, <1>1 DEF rules, RulesOK
  <1>2. CASE UpdateBaselineVS
    BY <1>0, <1>2, RuleTypes DEF UpdateBaselineVS, RulesOK
  <1>3. CASE UpdateBaselineDR
    BY <1>0, <1>3, RuleTypes DEF UpdateBaselineDR, RulesOK
  <1>4. CASE UpdateCandidatesVS
    BY <1>0, <1>4, RuleTypes DEF UpdateCandidatesVS, RulesOK
  <1>5. CASE UpdateCandidatesDR
    BY <1>0, <1>5, RuleTypes DEF UpdateCandidatesDR, RulesOK
  <1>6. CASE UpdateTrafficVS
    BY <1>0, <1>6, RuleTypes DEF UpdateTrafficVS, RulesOK
  <1>7. CASE StableVS
    <2>1. WithStable(FinalTraffic(vs, dr, inst.status.weight)) \in VirtualService
      BY <1>0, RuleTypes, FinalTrafficType DEF RulesOK
    <2>2. AbsentVS \in VirtualService
      BY <1>0, RuleTypes DEF RulesOK
    <2> QED
      BY <1>0, <1>7, <2>1, <2>2 DEF StableVS, RulesOK
  <1>8. CASE StableDR
    BY <1>0, <1>8, RuleTypes DEF StableDR, RulesOK
  <1>9. CASE \/ Get \/ WriteInitStatus \/ addFinalizerIfAbsent \/ Finalize \/ NotToProceed
             \/ Proceed \/ Pause \/ Resume \/ ReadMetrics \/ WriteMetricsError
             \/ WriteMetrics \/ Fetch \/ DetectBaseline \/ DetectCandidates
             \/ ShiftTraffic \/ Iterate \/ Finish \/ Complete \/ EndRequest
             \/ RemoveFinalizer
    BY <1>1, <1>9
       DEF Get, WriteInitStatus, addFinalizerIfAbsent, Finalize, NotToProceed, Proceed,
           Pause, Resume, ReadMetrics, WriteMetricsError, WriteMetrics, Fetch,
           DetectBaseline, DetectCandidates, ShiftTraffic, Iterate, Finish, Complete,
           EndRequest, RemoveFinalizer
  <1>10. CASE Sync \/ IntervalElapses \/ TimerFires \/ User \/ Crash
    BY <1>1, <1>10
       DEF Sync, IntervalElapses, TimerFires, User, Override, Delete, UserChange,
           TargetEvent, Crash
  <1>11. CASE UNCHANGED vars
    BY <1>1, <1>11 DEF vars
  <1> QED
    BY <1>2, <1>3, <1>4, <1>5, <1>6, <1>7, <1>8, <1>9, <1>10, <1>11 DEF Next, Worker

\* One step keeps the types of the targets, the adapter's entry, the queues and
\* what the bounds count.
LEMMA RestStep == TypeOK /\ [Next]_vars => RestOK'
  <1> SUFFICES ASSUME TypeOK, [Next]_vars
               PROVE  RestOK'
    OBVIOUS
  <1>0. StoreOK /\ RestOK
    BY Parts
  <1>1. ASSUME UNCHANGED <<live, adapter, workqueue, users, crashes>>,
               CallFails \/ CallSucceeds
        PROVE  RestOK'
    BY <1>0, <1>1, CallType DEF RestOK, adapter, workqueue, users
  <1>2. ASSUME UNCHANGED <<live, adapter, workqueue, users, crashes>>, NEW a, Answer(a)
        PROVE  RestOK'
    BY <1>0, <1>2, AnswerType DEF RestOK, adapter, workqueue, users
  <1>3. CASE \/ Finalize \/ NotToProceed \/ ReadMetrics \/ Fetch \/ DetectBaseline
             \/ UpdateBaselineVS \/ UpdateBaselineDR \/ DetectCandidates
             \/ UpdateCandidatesVS \/ UpdateCandidatesDR \/ ShiftTraffic \/ Iterate
             \/ UpdateTrafficVS \/ Finish
    BY <1>1, <1>3
       DEF Finalize, NotToProceed, ReadMetrics, Fetch, DetectBaseline, UpdateBaselineVS,
           UpdateBaselineDR, DetectCandidates, UpdateCandidatesVS, UpdateCandidatesDR,
           ShiftTraffic, Iterate, UpdateTrafficVS, Finish, CallSucceeds
  <1>4. CASE WriteInitStatus \/ Pause \/ Resume \/ WriteMetricsError \/ WriteMetrics
    BY <1>2, <1>4
       DEF WriteInitStatus, Pause, Resume, WriteMetricsError, WriteMetrics
  <1>5. CASE Get
    BY <1>0, <1>5 DEF Get, RestOK, adapter, users
  <1>6. CASE addFinalizerIfAbsent
    BY <1>0, <1>6, AnswerType DEF addFinalizerIfAbsent, RestOK, adapter, users
  <1>7. CASE Proceed
    BY <1>0, <1>7 DEF Proceed, RestOK, workqueue, users
  <1>8. CASE Complete
    BY <1>0, <1>8, CallType DEF Complete, RemoveExperiment, RestOK, workqueue, users
  <1>9. CASE StableVS
    BY <1>0, <1>9, CallType DEF StableVS, CompletionFails, RestOK, adapter, users
  <1>10. CASE StableDR
    BY <1>0, <1>10, CallType DEF StableDR, CompletionFails, RestOK, adapter, users
  <1>11. CASE EndRequest
    <2>1. timer' \in {"none", "waiting", "ready"}
      BY <1>0, <1>11 DEF EndRequest, Requeue, RestOK
    <2>2. faults' \in 0..MaxFaults
      BY <1>0, <1>11, CallType, AnswerType DEF EndRequest, RestOK
    <2> QED
      BY <1>0, <1>11, <2>1, <2>2 DEF EndRequest, RestOK, adapter, users
  <1>12. CASE RemoveFinalizer
    <2>1. queued' \in BOOLEAN
      BY <1>12 DEF RemoveFinalizer, Retry
    <2>2. faults' \in 0..MaxFaults
      BY <1>0, <1>12, AnswerType DEF RemoveFinalizer, RestOK
    <2> QED
      BY <1>0, <1>12, <2>1, <2>2 DEF RemoveFinalizer, RestOK, adapter, users
  <1>13. CASE Sync
    <2>1. queued' \in BOOLEAN
      BY <1>13 DEF Sync
    <2> QED
      BY <1>0, <1>13, <2>1 DEF Sync, RestOK, adapter, users
  <1>14. CASE IntervalElapses
    BY <1>0, <1>14 DEF IntervalElapses, RestOK, adapter, users
  <1>15. CASE TimerFires
    BY <1>0, <1>15 DEF TimerFires, RestOK, adapter, users
  <1>16. ASSUME NEW new, UserChange(new)
         PROVE  RestOK'
    <2>1. edits' \in 0..MaxEdits
      <3>1. edits \in 0..MaxEdits
        BY <1>0 DEF RestOK
      <3>2. edits < MaxEdits /\ edits' = edits + 1
        BY <1>16 DEF UserChange
      <3> QED
        BY <3>1, <3>2, Bounds
    <2> QED
      BY <1>0, <1>16, <2>1 DEF UserChange, RestOK, adapter, workqueue
  <1>17. ASSUME NEW t \in Targets, TargetEvent(t)
         PROVE  RestOK'
    <2>1. targetEvents' \in 0..MaxTargetEvents
      <3>1. targetEvents \in 0..MaxTargetEvents
        BY <1>0 DEF RestOK
      <3>2. targetEvents < MaxTargetEvents /\ targetEvents' = targetEvents + 1
        BY <1>17 DEF TargetEvent
      <3> QED
        BY <3>1, <3>2, Bounds
    <2>2. live' \subseteq Targets
      BY <1>0, <1>17 DEF TargetEvent, RestOK
    <2>3. /\ registered' \in BOOLEAN /\ queued' \in BOOLEAN
          /\ targetAction' \in {"", "detected", "deleted"}
      <3>1. CASE registered
        BY <1>0, <1>17, <3>1 DEF TargetEvent, RestOK
      <3>2. CASE ~registered
        BY <1>0, <1>17, <3>2 DEF TargetEvent, RestOK
      <3> QED
        BY <3>1, <3>2
    <2> QED
      BY <1>0, <1>17, <2>1, <2>2, <2>3 DEF TargetEvent, RestOK
  <1>18. CASE Crash
    <2>1. queued' \in BOOLEAN
      BY <1>0, <1>18 DEF Crash, StoreOK, Object
    <2>2. crashes' \in 0..MaxCrashes
      <3>1. crashes \in 0..MaxCrashes
        BY <1>0 DEF RestOK
      <3>2. crashes < MaxCrashes /\ crashes' = crashes + 1
        BY <1>18 DEF Crash
      <3> QED
        BY <3>1, <3>2, Bounds
    <2> QED
      BY <1>0, <1>18, <2>1, <2>2 DEF Crash, RestOK, users
  <1>19. CASE UNCHANGED vars
    BY <1>0, <1>19 DEF vars, RestOK, adapter, workqueue, users
  <1> QED
    BY <1>3, <1>4, <1>5, <1>6, <1>7, <1>8, <1>9, <1>10, <1>11, <1>12, <1>13, <1>14,
       <1>15, <1>16, <1>17, <1>18, <1>19
       DEF Next, Worker, User, Override, Delete

-----------------------------------------------------------------------------

\* The ways to leave an action that are particular to a phase of the reconcile.
LEMMA IterationDoneType ==
    ASSUME WorkerOK, NEW x \in Object, IterationDone(x)
    PROVE  WorkerOK'
  BY MarkTypes DEF IterationDone, Goto, WorkerOK, PCs

LEMMA AnalyticsErrorType ==
    ASSUME WorkerOK, NEW x \in Object, NEW ch \in BOOLEAN, AnalyticsError(x, ch)
    PROVE  WorkerOK'
  <1>1. PICK another \in BOOLEAN :
          Fail(MarkAnalyticsServiceError(x), ch \/ another \/ x.status.analytics # "False")
    BY DEF AnalyticsError
  <1> QED
    BY <1>1, MarkTypes, FailType

LEMMA RulesErrorType == ASSUME WorkerOK, RulesError PROVE WorkerOK'
  <1>1. PICK another \in BOOLEAN :
          Fail(MarkRoutingRulesError(inst), another \/ inst.status.rulesReady # "False")
    BY DEF RulesError
  <1>2. MarkRoutingRulesError(inst) \in Object
    BY MarkTypes DEF WorkerOK
  <1> QED
    BY <1>1, <1>2, FailType

LEMMA TargetsErrorStep ==
    ASSUME WorkerOK, NEW role \in TargetsRoles, TargetsError(role)
    PROVE  WorkerOK'
  <1>1. TargetsErrorReason(inst, role) \in TargetsConditions
    BY ReasonType DEF WorkerOK
  <1>2. MarkTargetsError(inst, TargetsErrorReason(inst, role)) \in Object
    BY <1>1, TargetsErrorType DEF WorkerOK
  <1> QED
    BY <1>2, FailType DEF TargetsError

LEMMA DetectedType == ASSUME WorkerOK, Detected PROVE WorkerOK'
  <1>1. MarkTargetsAndRulesReady(inst) \in Object
    BY MarkTypes DEF WorkerOK
  <1> QED
    BY <1>1 DEF Detected, AfterDetection, Goto, WorkerOK, PCs

LEMMA CompletedType == ASSUME WorkerOK, NEW x \in Object, Completed(x) PROVE WorkerOK'
  BY MarkTypes, FailType DEF Completed

LEMMA CompletionFailsType == ASSUME WorkerOK, CompletionFails PROVE WorkerOK'
  <1>1. inst \in Object
    BY DEF WorkerOK
  <1>2. "removeFinalizer" \in PCs
    BY DEF PCs
  <1> QED
    BY <1>1, <1>2, ReturnType, ContinueType DEF CompletionFails

LEMMA EndedType == ASSUME WorkerOK, NEW x \in Object, Ended(x) PROVE WorkerOK'
  <1>1. "removeFinalizer" \in PCs
    BY DEF PCs
  <1> QED
    BY <1>1, ReturnType, ContinueType DEF Ended

\* An answer of the analytics service, complete or not, gives weights of the
\* versions.
LEMMA AnalyzeType ==
    ASSUME WorkerOK, NEW r \in Response, Analyze(r)
    PROVE  WorkerOK'
  <1> DEFINE assessed == [inst EXCEPT !.status.winner = r.winner,
                                      !.status.phase = "Progressing",
                                      !.status.completed = FALSE]
             weight == [v \in Versions |->
                          IF v \notin r.covered THEN inst.status.weight[v]
                          ELSE IF v \in r.rollback THEN 0 ELSE r.split[v]]
             x == [assessed EXCEPT !.status.weight = weight]
             running == [x EXCEPT !.status.analytics = "True"]
  <1>1. inst \in Object /\ TerminateExperiment(inst) \in Object
    BY MarkTypes DEF WorkerOK
  <1>2. assessed \in Object
    BY <1>1 DEF Response, Object, Status, Phases
  <1>3. weight \in Traffic
    BY <1>1 DEF Response, Traffic, Object, Status
  <1>4. x \in Object
    BY <1>2, <1>3, WeightType
  <1> HIDE DEF x
  <1>5. running \in Object
    BY <1>4, AnalyticsType
  <1> USE DEF x
  <1>6. \/ Continue("finish", TerminateExperiment(inst))
        \/ AnalyticsError(x, TRUE)
        \/ Continue("trafficVS", running)
        \/ IterationDone(running)
    BY DEF Analyze
  <1> HIDE DEF x, running
  <1>7. CASE AnalyticsError(x, TRUE)
    BY <1>4, <1>7, AnalyticsErrorType
  <1>8. CASE Continue("finish", TerminateExperiment(inst)) \/ Continue("trafficVS", running)
    BY <1>1, <1>5, <1>8, ContinueType DEF PCs
  <1>9. CASE IterationDone(running)
    BY <1>5, <1>9, IterationDoneType
  <1> QED
    BY <1>6, <1>7, <1>8, <1>9

\* One step keeps the types of the worker's state.
LEMMA WorkerStep == TypeOK /\ [Next]_vars => WorkerOK'
  <1> SUFFICES ASSUME TypeOK, [Next]_vars
               PROVE  WorkerOK'
    OBVIOUS
  <1>0. StoreOK /\ WorkerOK /\ inst \in Object
    BY Parts DEF WorkerOK
  <1>a. ASSUME UNCHANGED worker
        PROVE  WorkerOK'
    BY <1>0, <1>a DEF worker, interState, WorkerOK
  <1>1. CASE Get
    <2> DEFINE x == IF cache.status.inited THEN cache ELSE InitStatus(cache)
    <2>1. x \in Object
      BY <1>0, InitStatusType DEF StoreOK
    <2>2. CASE ~cache.exists
      BY <1>1, <2>2, ReturnType DEF Get
    <2>3. CASE cache.exists
      <3>1. MarkTargetsError(x, "Invalid") \in Object
        BY <2>1, TargetsErrorType DEF TargetsConditions
      <3> HIDE DEF x
      <3>2. /\ current' = synced
            /\ UNCHANGED <<finalizing, fetched, refresh, progress>>
            /\ IF cache.status.inited
                 THEN Goto(IF x.finalizer THEN "decide" ELSE "finalizer", x)
                      /\ UNCHANGED statusUpdate
               ELSE IF x.valid
                 THEN Goto("initStatus", x) /\ UNCHANGED statusUpdate
               ELSE Goto("endRequest", MarkTargetsError(x, "Invalid")) /\ statusUpdate' = TRUE
        BY <1>1, <2>3 DEF Get, x
      <3> QED
        BY <1>0, <2>1, <3>1, <3>2 DEF Goto, StoreOK, WorkerOK, PCs
    <2> QED
      BY <2>2, <2>3
  <1>2. CASE WriteInitStatus
    <2>1. PICK a \in {"ok", "conflict", "error"} :
            /\ UpdateStatus(a, inst)
            /\ IF Benign(a)
                 THEN Continue(IF inst.finalizer THEN "decide" ELSE "finalizer", Decoded(a, inst))
                 ELSE Return
      BY <1>2 DEF WriteInitStatus
    <2>2. Decoded(a, inst) \in Object
      BY <1>0, <2>1, StatusWrite
    <2> QED
      BY <1>0, <2>1, <2>2, ReturnType, ContinueType DEF PCs
  <1>3. CASE addFinalizerIfAbsent
    <2> DEFINE x == [inst EXCEPT !.finalizer = TRUE]
    <2>1. PICK a \in {"ok", "conflict", "error"} :
            UpdateObject(a, x) /\ (Continue("decide", Decoded(a, x)) \/ Return)
      BY <1>3 DEF addFinalizerIfAbsent
    <2>2. x \in Object
      BY <1>0 DEF Object
    <2>3. Decoded(a, x) \in Object
      BY <1>0, <2>1, <2>2, ObjectWrite
    <2> QED
      BY <1>0, <2>1, <2>3, ReturnType, ContinueType DEF PCs
  <1>4. CASE Finalize
    <2>1. TerminateExperiment(inst) \in Object
      BY <1>0, MarkTypes
    <2>2. CASE ExperimentCompleted(inst)
      BY <1>0, <1>4, <2>2, ContinueType DEF Finalize, PCs
    <2>3. CASE ~ExperimentCompleted(inst)
      BY <1>0, <1>4, <2>1, <2>3 DEF Finalize, Goto, WorkerOK, PCs
    <2> QED
      BY <2>2, <2>3
  <1>5. CASE NotToProceed
    BY <1>5, ReturnType DEF NotToProceed
  <1>6. CASE Proceed
    <2>1. [inst EXCEPT !.override = "none", !.split = NoSplit] \in Object
      BY <1>0 DEF Object, Overrides
    <2>2. \E next \in PCs, x \in Object : Goto(next, x)
      BY <1>0, <1>6, <2>1 DEF Proceed, toSyncMetrics, PCs, Overrides, Object
    <2>3. refresh' \in BOOLEAN /\ statusUpdate' = FALSE /\ progress' = FALSE
          /\ UNCHANGED <<current, finalizing, fetched>>
      BY <1>6 DEF Proceed
    <2> QED
      BY <1>0, <2>2, <2>3 DEF Goto, WorkerOK
  <1>7. CASE Pause
    <2>1. PICK a \in {"ok", "conflict", "error"} :
            /\ UpdateObject(a, inst)
            /\ \/ Fail(MarkExperimentPause(Decoded(a, inst)), TRUE)
               \/ Fail(inst, FALSE)
      BY <1>7 DEF Pause
    <2>2. Decoded(a, inst) \in Object
      BY <1>0, <2>1, ObjectWrite
    <2>3. MarkExperimentPause(Decoded(a, inst)) \in Object
      BY <2>2, MarkTypes
    <2> QED
      BY <1>0, <2>1, <2>3, FailType
  <1>8. CASE Resume
    <2>1. PICK a \in {"ok", "conflict", "error"} :
            /\ UpdateObject(a, inst)
            /\ IF ~Benign(a) THEN Fail(inst, FALSE)
               ELSE LET x == MarkExperimentResume(Decoded(a, inst))
                    IN  /\ Goto(toSyncMetrics(x), x)
                        /\ statusUpdate' = TRUE /\ refresh' = TRUE
                        /\ UNCHANGED <<current, finalizing, fetched, progress>>
      BY <1>8 DEF Resume
    <2>2. Decoded(a, inst) \in Object
      BY <1>0, <2>1, ObjectWrite
    <2> DEFINE x == MarkExperimentResume(Decoded(a, inst))
    <2>3. x \in Object
      BY <2>2, MarkTypes
    <2>4. CASE Benign(a)
      <3>1. /\ Goto(toSyncMetrics(x), x)
            /\ statusUpdate' = TRUE /\ refresh' = TRUE
            /\ UNCHANGED <<current, finalizing, fetched, progress>>
        BY <2>1, <2>4
      <3> HIDE DEF x
      <3> QED
        BY <1>0, <2>3, <3>1 DEF Goto, toSyncMetrics, WorkerOK, PCs
    <2>5. CASE ~Benign(a)
      BY <1>0, <2>1, <2>5, FailType
    <2> QED
      BY <2>4, <2>5
  <1>9. CASE ReadMetrics
    <2>1. [inst EXCEPT !.metrics = TRUE] \in Object
      BY <1>0 DEF Object
    <2>2. MarkMetricsSyncedError(inst) \in Object
      BY <1>0, MarkTypes
    <2>3. CASE Continue("metricsUpdate", [inst EXCEPT !.metrics = TRUE])
      BY <1>0, <2>1, <2>3, ContinueType DEF PCs
    <2>4. CASE /\ Goto("metricsError", MarkMetricsSyncedError(inst))
               /\ \E another \in BOOLEAN :
                    statusUpdate' = (statusUpdate \/ another \/ inst.status.metricsSynced # "False")
               /\ UNCHANGED <<current, finalizing, fetched, refresh, progress>>
      BY <1>0, <2>2, <2>4 DEF Goto, WorkerOK, PCs
    <2> QED
      BY <1>9, <2>3, <2>4 DEF ReadMetrics
  <1>10. CASE WriteMetricsError
    <2>1. PICK a \in {"ok", "conflict", "error"} :
            UpdateStatus(a, inst) /\ Fail(Decoded(a, inst), FALSE)
      BY <1>10 DEF WriteMetricsError
    <2>2. Decoded(a, inst) \in Object
      BY <1>0, <2>1, StatusWrite
    <2> QED
      BY <1>0, <2>1, <2>2, FailType
  <1>11. CASE WriteMetrics
    <2>1. PICK a \in {"ok", "conflict", "error"} :
            /\ UpdateObject(a, inst)
            /\ IF ~Benign(a) THEN Fail(inst, FALSE)
               ELSE /\ Goto("fetch", [Decoded(a, inst) EXCEPT !.status.metricsSynced = "True"])
                    /\ statusUpdate' = TRUE
                    /\ UNCHANGED <<current, finalizing, fetched, refresh, progress>>
      BY <1>11 DEF WriteMetrics
    <2>2. Decoded(a, inst) \in Object
      BY <1>0, <2>1, ObjectWrite
    <2>3. [Decoded(a, inst) EXCEPT !.status.metricsSynced = "True"] \in Object
      BY <2>2 DEF Object, Status, Conditions
    <2>4. CASE Benign(a)
      BY <1>0, <2>1, <2>3, <2>4 DEF Goto, WorkerOK, PCs
    <2>5. CASE ~Benign(a)
      BY <1>0, <2>1, <2>5, FailType
    <2> QED
      BY <2>4, <2>5
  <1>12. CASE Fetch
    <2>1. MarkRoutingRulesError(inst) \in Object
      BY <1>0, MarkTypes
    <2>2. CASE Continue("complete", MarkRoutingRulesError(inst))
      BY <1>0, <2>1, <2>2, ContinueType DEF PCs
    <2>3. CASE /\ fetched' = TRUE
               /\ \/ Goto("detect", inst)
                  \/ Goto(AfterDetection(inst), inst)
               /\ UNCHANGED <<current, finalizing, interState>>
      BY <1>0, <2>3 DEF Goto, AfterDetection, interState, WorkerOK, PCs
    <2> QED
      BY <1>12, <2>2, <2>3 DEF Fetch
  <1>13. CASE DetectBaseline
    <2>1. \/ TargetsError("service") \/ TargetsError("baseline")
          \/ Continue("candidates", inst) \/ Continue("baselineVS", inst)
      BY <1>13 DEF DetectBaseline
    <2> QED
      BY <1>0, <2>1, TargetsErrorStep, ContinueType DEF PCs, TargetsRoles, Missing
  <1>14. CASE UpdateBaselineVS \/ UpdateBaselineDR
    <2>1. [inst EXCEPT !.status.weight[Baseline] = 100] \in Object
      BY <1>0 DEF Object, Status, Traffic
    <2>2. \/ RulesError \/ Continue("baselineDR", inst)
          \/ Continue("candidates", [inst EXCEPT !.status.weight[Baseline] = 100])
      BY <1>14 DEF UpdateBaselineVS, UpdateBaselineDR
    <2> QED
      BY <1>0, <2>1, <2>2, RulesErrorType, ContinueType DEF PCs
  <1>15. CASE DetectCandidates
    <2>1. TargetsError("candidate") \/ Detected \/ Continue("candidatesVS", inst)
      BY <1>15 DEF DetectCandidates
    <2> QED
      BY <1>0, <2>1, TargetsErrorStep, DetectedType, ContinueType
         DEF PCs, TargetsRoles, Missing
  <1>16. CASE UpdateCandidatesVS \/ UpdateCandidatesDR
    <2>1. RulesError \/ Detected \/ Continue("candidatesDR", inst)
      BY <1>16 DEF UpdateCandidatesVS, UpdateCandidatesDR
    <2> QED
      BY <1>0, <2>1, RulesErrorType, DetectedType, ContinueType DEF PCs
  <1>17. CASE ShiftTraffic
    <2>1. inst.status.weight \in Traffic
      BY <1>0 DEF Object, Status
    <2>2. CASE CanShift(inst.status.weight)
      <3>1. [inst EXCEPT !.status.weight = Shifted(inst.status.weight)] \in Object
        BY <1>0, <2>1, <2>2, ShiftedType, WeightType
      <3> QED
        BY <1>0, <1>17, <2>2, <3>1, ContinueType DEF ShiftTraffic, PCs
    <2>3. CASE ~CanShift(inst.status.weight)
      BY <1>0, <1>17, <2>3, IterationDoneType DEF ShiftTraffic
    <2> QED
      BY <2>2, <2>3
  <1>18. CASE Iterate
    <2>1. (\E r \in Responses : Analyze(r)) \/ AnalyticsError(inst, FALSE)
      BY <1>18 DEF Iterate
    <2> QED
      BY <1>0, <2>1, EnvironmentAssumption, AnalyzeType, AnalyticsErrorType
  <1>19. CASE UpdateTrafficVS
    BY <1>0, <1>19, IterationDoneType, RulesErrorType DEF UpdateTrafficVS
  <1>20. CASE Finish
    <2>1. [inst EXCEPT !.status.iteration = @ + 1] \in Object
      BY <1>0 DEF Object, Status
    <2>2. \/ Continue("complete", inst) \/ Continue("endRequest", inst)
          \/ Fail([inst EXCEPT !.status.iteration = @ + 1], TRUE)
      BY <1>20 DEF Finish
    <2> QED
      BY <1>0, <2>1, <2>2, ContinueType, FailType DEF PCs
  <1>21. CASE Complete
    <2> DEFINE x == overrideAssessment(inst)
    <2>1. x \in Object
      BY <1>0, OverrideType
    <2>2. Completed(x) \/ Continue("deleteVS", x) \/ Continue("stableVS", x)
      BY <1>21 DEF Complete
    <2> HIDE DEF x
    <2> QED
      BY <1>0, <2>1, <2>2, CompletedType, ContinueType DEF PCs
  <1>22. CASE StableVS \/ StableDR
    <2>1. \/ Completed(inst) \/ CompletionFails
          \/ Continue("deleteDR", inst) \/ Continue("stableDR", inst)
      BY <1>22 DEF StableVS, StableDR
    <2> QED
      BY <1>0, <2>1, CompletedType, CompletionFailsType, ContinueType DEF PCs
  <1>23. CASE EndRequest
    <2>1. CASE Ended(inst)
      BY <1>0, <2>1, EndedType
    <2>2. ASSUME NEW a, UpdateStatus(a, inst), Ended(Decoded(a, inst))
          PROVE  WorkerOK'
      <3>1. Decoded(a, inst) \in Object
        BY <1>0, <2>2, StatusWrite
      <3> QED
        BY <1>0, <2>2, <3>1, EndedType
    <2> QED
      BY <1>23, <2>1, <2>2 DEF EndRequest
  <1>24. CASE RemoveFinalizer
    BY <1>24, ReturnType DEF RemoveFinalizer
  <1>25. ASSUME NEW new, UserChange(new)
         PROVE  WorkerOK'
    BY <1>0, <1>25 DEF UserChange, interState, WorkerOK
  <1>26. CASE User
    BY <1>a, <1>25, <1>26 DEF User, Override, Delete, TargetEvent
  <1>27. CASE Crash
    BY <1>27, ReturnType DEF Crash
  <1>28. CASE Sync \/ IntervalElapses \/ TimerFires \/ UNCHANGED vars
    BY <1>a, <1>28 DEF Sync, IntervalElapses, TimerFires, vars
  <1> QED
    BY <1>1, <1>2, <1>3, <1>4, <1>5, <1>6, <1>7, <1>8, <1>9, <1>10, <1>11, <1>12, <1>13,
       <1>14, <1>15, <1>16, <1>17, <1>18, <1>19, <1>20, <1>21, <1>22, <1>23, <1>24,
       <1>26, <1>27, <1>28
       DEF Next, Worker

-----------------------------------------------------------------------------

\* The initial states have the types.
LEMMA InitType == Init => TypeOK
  <1> SUFFICES ASSUME Init
               PROVE  TypeOK
    OBVIOUS
  <1>1. AbsentVS \in VirtualService /\ AbsentDR \in DestinationRule
    BY DEF AbsentVS, AbsentDR, NoTraffic, Traffic, Roles, VirtualService, DestinationRule
  <1>2. /\ [role |-> "stable", init |-> FALSE, weight |-> AllTo(Baseline)] \in VirtualService
        /\ [role |-> "stable", init |-> FALSE] \in DestinationRule
    BY DEF AllTo, Traffic, Roles, VirtualService, DestinationRule
  <1>3. RulesOK
    BY <1>1, <1>2 DEF Init, RulesOK
  <1>4. StoreOK /\ WorkerOK
    <2>1. \A valid \in Validity : [NewObject EXCEPT !.valid = valid] \in Object
      BY NewType, ParametersAssumption DEF Object
    <2>2. obj \in Object /\ cache \in Object
      BY <2>1 DEF Init
    <2> QED
      BY <2>2, NewType DEF Init, StoreOK, WorkerOK, PCs
  <1>5. RestOK
    <2>1. live \subseteq Targets
      <3>1. live \in {Targets} \cup {Targets \ {t} : t \in Targets}
        BY DEF Init
      <3> QED
        BY <3>1
    <2>2. edits = 0 /\ targetEvents = 0 /\ faults = 0 /\ crashes = 0
      BY DEF Init
    <2>3. /\ edits \in 0..MaxEdits /\ targetEvents \in 0..MaxTargetEvents
          /\ faults \in 0..MaxFaults /\ crashes \in 0..MaxCrashes
      BY <2>2, Bounds
    <2> QED
      BY <2>1, <2>3 DEF Init, RestOK
  <1> QED
    BY <1>3, <1>4, <1>5, Parts

\* The reconcile loop's state keeps its types, whatever the versions, the
\* analytics' answers and the bounds; in particular no weight becomes negative
\* (processIteration, overrideAssessment).
THEOREM LoopTypeCorrect == Spec => []TypeOK
  <1>1. TypeOK /\ [Next]_vars => TypeOK'
    BY StoreStep, WorkerStep, RulesStep, RestStep, NextParts
  <1> QED
    BY <1>1, InitType, PTL DEF Spec
================================================================================
