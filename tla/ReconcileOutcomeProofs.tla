------------------------- MODULE ReconcileOutcomeProofs -------------------------
(***************************************************************************)
(* The outcome in the status is final, and iterations are counted one by   *)
(* one, for all values of the constants.  Neither follows from the step    *)
(* that writes the status alone: endRequest writes whatever its copy says. *)
(* CopyRelated, the strengthening, says which copies the server accepts a  *)
(* write of, and what they may say.                                        *)
(***************************************************************************)
EXTENDS ReconcileProofs

LoopInv == TypeOK /\ CopyRelated

\* The worker is at an action of an active experiment's reconcile.
Working == \/ pc \notin Early \cup {"initStatus"}
           \/ pc = "decide" /\ ~inst.status.completed

\* The control states such an action leads to.
Later == PCs \ {"idle", "initStatus", "finalizer", "decide"}

\* A copy that such an action may go on with.
Derived(x) ==
    /\ x.status.inited /\ ~x.status.completed
    /\ x.status.iteration = inst.status.iteration

\* The three objects of LoopInv are objects.
LEMMA Copies == LoopInv => obj \in Object /\ cache \in Object /\ inst \in Object
  BY DEF LoopInv, TypeOK

\* The status methods neither count iterations nor complete the experiment.
LEMMA MarksDerived ==
    ASSUME NEW x \in Object, Derived(x)
    PROVE  /\ \A reason : Derived(MarkTargetsError(x, reason))
           /\ Derived(MarkRoutingRulesError(x))
           /\ Derived(MarkAnalyticsServiceError(x))
           /\ Derived(MarkMetricsSyncedError(x))
           /\ Derived(MarkTargetsAndRulesReady(x))
           /\ Derived(MarkExperimentPause(x))
           /\ Derived(MarkExperimentResume(x))
           /\ Derived(MarkIterationUpdate(x))
           /\ Derived(TerminateExperiment(x))
           /\ Derived(overrideAssessment(x))
  BY DEF Derived, Object, Status, MarkTargetsError, MarkRoutingRulesError,
         MarkAnalyticsServiceError, MarkMetricsSyncedError, MarkTargetsAndRulesReady,
         MarkExperimentPause, MarkExperimentResume, MarkIterationUpdate,
         TerminateExperiment, overrideAssessment

\* The worker's copy is one, and so is the server's object while the copy is
\* current.
LEMMA WorkingCopy ==
    ASSUME LoopInv, Working
    PROVE  /\ Derived(inst) /\ pc # "idle"
           /\ current => Derived(obj)
  BY Copies DEF Working, Early, LoopInv, CopyRelated, Related, CopyInv, CurrentInv, Derived

\* An action that goes on with a derived copy keeps CopyRelated, also if it
\* wrote the object, but not the status.
LEMMA Go ==
    ASSUME LoopInv, Working, StoreInv', obj'.status = obj.status, current' = current,
           NEW next \in Later, NEW x, Derived(x), Goto(next, x)
    PROVE  Related'
  <1>1. IdleInv'
    BY DEF Goto, Later, IdleInv
  <1>2. CopyInv'
    BY WorkingCopy DEF LoopInv, CopyRelated, Related, CopyInv, Goto, Derived
  <1>3. current => obj.status.inited /\ ~obj.status.completed
                   /\ x.status.iteration = obj.status.iteration
    BY WorkingCopy DEF Derived
  <1>4. inst.status.iteration \in Int
    BY Copies DEF Object, Status
  <1>5. CurrentInv'
    BY <1>3, <1>4 DEF CurrentInv, Goto, Later, Derived
  <1> QED
    BY <1>1, <1>2, <1>5 DEF Related

\* An action that ends the reconcile may have completed the experiment, or
\* counted an iteration.
LEMMA EndUnwritten ==
    ASSUME LoopInv, Working, UNCHANGED store, current' = current, NEW x, x.status.inited,
           Goto("endRequest", x),
           \/ x.status.iteration = inst.status.iteration
           \/ /\ x.status.iteration = inst.status.iteration + 1
              /\ x.status.iteration <= MaxIterations
              /\ x.status.phase = "Progressing" /\ ~x.status.completed
    PROVE  Related'
  <1>1. IdleInv'
    BY DEF Goto, IdleInv
  <1>2. CopyInv'
    BY WorkingCopy DEF LoopInv, CopyRelated, Related, CopyInv, Goto, Early
  <1>3. current => obj.status.inited /\ ~obj.status.completed
                   /\ inst.status.iteration = obj.status.iteration
    BY WorkingCopy DEF Derived
  <1>4. inst.status.iteration \in Int
    BY Copies DEF Object, Status
  <1>5. CurrentInv'
    BY <1>3, <1>4 DEF CurrentInv, Goto, store
  <1>6. StoreInv'
    BY DEF LoopInv, CopyRelated, Related, StoreInv, StatusOK, store
  <1> QED
    BY <1>1, <1>2, <1>5, <1>6 DEF Related

\* Return leaves nothing to relate.
LEMMA Returned == ASSUME StoreInv', Return PROVE Related'
  BY DEF Return, Related, IdleInv, CopyInv, CurrentInv

\* What the three kinds of writes do to StoreInv and to the status of the
\* object.
LEMMA StoreUntouched == ASSUME LoopInv, UNCHANGED store PROVE StoreInv' /\ obj' = obj
  BY DEF LoopInv, CopyRelated, Related, StoreInv, StatusOK, store

LEMMA StatusWritten ==
    ASSUME LoopInv, pc # "idle", NEW a, UpdateStatus(a, inst)
    PROVE  /\ StoreInv'
           /\ Decoded(a, inst).status = inst.status
           /\ a = "ok" => obj'.status = inst.status
           /\ a # "ok" => obj' = obj
  <1>1. CASE a = "ok"
    <2>1. Store([obj EXCEPT !.status = inst.status])
      BY <1>1 DEF UpdateStatus
    <2>2. obj' = [obj EXCEPT !.status = inst.status] /\ cache' = cache
          /\ synced' = (synced /\ obj' = obj)
      BY <2>1 DEF Store
    <2>3. obj'.status = inst.status
      BY <2>2, Copies DEF Object
    <2>4. StatusOK(inst.status)
      BY DEF LoopInv, CopyRelated, Related, CopyInv, StatusOK
    <2> QED
      BY <1>1, <2>2, <2>3, <2>4 DEF LoopInv, CopyRelated, Related, StoreInv, StatusOK, Decoded
  <1>2. CASE a # "ok"
    BY <1>2, StoreUntouched DEF UpdateStatus, Decoded
  <1> QED
    BY <1>1, <1>2

LEMMA StatusKept ==
    ASSUME LoopInv, NEW new \in Object, new.status = obj.status, Store(new)
    PROVE  StoreInv' /\ obj' = new
  <1>1. obj' = new /\ cache' = cache /\ synced' = (synced /\ obj' = obj)
    BY DEF Store
  <1> QED
    BY <1>1 DEF LoopInv, CopyRelated, Related, StoreInv, StatusOK

LEMMA ObjectWritten ==
    ASSUME LoopInv, NEW a, NEW y \in Object, NEW x, UpdateObject(a, y)
    PROVE  /\ StoreInv'
           /\ obj'.status = obj.status
           /\ a = "ok" => Decoded(a, x).status = obj.status
           /\ a # "ok" => Decoded(a, x) = x
  <1>1. CASE a = "ok"
    <2>1. [y EXCEPT !.status = obj.status] \in Object
          /\ [y EXCEPT !.status = obj.status].status = obj.status
      BY Copies DEF Object
    <2> QED
      BY <1>1, <2>1, StatusKept DEF UpdateObject, Decoded
  <1>2. CASE a # "ok"
    BY <1>2, StoreUntouched DEF UpdateObject, Decoded
  <1> QED
    BY <1>1, <1>2

\* The server's answer to an Update of the copy is a copy to go on with: if the
\* write was accepted, the copy was current.
LEMMA DecodedDerived ==
    ASSUME LoopInv, Working, NEW a, Answer(a), NEW y \in Object, UpdateObject(a, y),
           NEW x, Derived(x)
    PROVE  Derived(Decoded(a, x))
  <1>1. CASE a = "ok"
    <2>1. Derived(obj)
      BY <1>1, WorkingCopy DEF Answer
    <2> QED
      BY <1>1, <2>1, ObjectWritten DEF Derived
  <1>2. CASE a # "ok"
    BY <1>2, ObjectWritten
  <1> QED
    BY <1>1, <1>2

\* ... if it wrote nothing.
LEMMA GoUnwritten ==
    ASSUME LoopInv, Working, UNCHANGED store, current' = current,
           NEW next \in Later, NEW x, Derived(x), Goto(next, x)
    PROVE  Related'
  BY StoreUntouched, Go

-----------------------------------------------------------------------------
\* A step of the worker keeps CopyRelated.
LEMMA WorkerCopyStep == LoopInv /\ Worker => Related'
  <1> SUFFICES ASSUME LoopInv, Worker
               PROVE  Related'
    OBVIOUS
  <1>0. /\ obj \in Object /\ cache \in Object /\ inst \in Object
        /\ StoreInv /\ IdleInv /\ CopyInv /\ CurrentInv
    BY Copies DEF LoopInv, CopyRelated, Related
  <1>1. CASE Get
    <2> DEFINE x == IF cache.status.inited THEN cache ELSE InitStatus(cache)
    <2>1. StoreInv' /\ obj' = obj /\ UNCHANGED store
      BY <1>1, StoreUntouched DEF Get
    <2>2. CASE ~cache.exists
      BY <1>1, <2>1, <2>2, Returned DEF Get
    <2>3. CASE cache.exists
      <3>1. /\ x.status.inited /\ x.status.iteration <= MaxIterations
            /\ x.status.iteration = cache.status.iteration
            /\ cache.status.inited => x = cache
            /\ ~cache.status.inited => ~x.status.completed
        BY <1>0, ParametersAssumption
           DEF StoreInv, StatusOK, InitStatus, Object, Status
      <3>2. /\ MarkTargetsError(x, "Invalid").status.inited
            /\ MarkTargetsError(x, "Invalid").status.iteration = x.status.iteration
            /\ MarkTargetsError(x, "Invalid").status.completed = x.status.completed
        <4>1. x \in Object
          BY <1>0, InitStatusType
        <4> QED
          BY <3>1, <4>1 DEF MarkTargetsError, Object, Status
      <3> HIDE DEF x
      <3>3. /\ pc = "idle" /\ current' = synced /\ finalizing' = finalizing
            /\ IF cache.status.inited
                 THEN Goto("decide", x) \/ Goto("finalizer", x)
                 ELSE \/ Goto("initStatus", x)
                      \/ Goto("endRequest", MarkTargetsError(x, "Invalid"))
        BY <1>1, <2>3 DEF Get, x
      <3>4. cache.status.iteration \in Int /\ (synced => cache = obj) /\ ~finalizing
        BY <1>0, <3>3 DEF Object, Status, StoreInv, IdleInv
      <3>5. CASE cache.status.inited
        <4>1. pc' \in {"decide", "finalizer"} /\ inst' = cache
          BY <3>1, <3>3, <3>5 DEF Goto
        <4> QED
          BY <2>1, <3>1, <3>3, <3>4, <3>5, <4>1
             DEF Related, IdleInv, CopyInv, CurrentInv, Early
      <3>6. CASE ~cache.status.inited
        <4>1. ~cache.status.completed
          BY <1>0, <3>6 DEF StoreInv, StatusOK
        <4>2. CASE Goto("initStatus", x)
          BY <2>1, <3>1, <3>3, <3>4, <3>6, <4>1, <4>2
             DEF Related, IdleInv, CopyInv, CurrentInv, Goto
        <4>3. CASE Goto("endRequest", MarkTargetsError(x, "Invalid"))
          BY <2>1, <3>1, <3>2, <3>3, <3>4, <3>6, <4>1, <4>3
             DEF Related, IdleInv, CopyInv, CurrentInv, Goto, Early
        <4> QED
          BY <3>3, <3>6, <4>2, <4>3
      <3> QED
        BY <3>5, <3>6
    <2> QED
      BY <2>2, <2>3
  <1>2. CASE WriteInitStatus
    <2>1. PICK a \in {"ok", "conflict", "error"} :
            /\ Answer(a) /\ UpdateStatus(a, inst)
            /\ \/ Continue("decide", Decoded(a, inst)) /\ a # "error"
               \/ Continue("finalizer", Decoded(a, inst)) /\ a # "error"
               \/ Return
      BY <1>2 DEF WriteInitStatus, Benign
    <2>2. pc = "initStatus"
      BY <1>2 DEF WriteInitStatus
    <2>3. StoreInv' /\ Decoded(a, inst).status = inst.status
          /\ (a = "ok" => obj'.status = inst.status)
      BY <2>1, <2>2, StatusWritten
    <2>4. CASE Return
      BY <2>3, <2>4, Returned
    <2>5. CASE ~Return
      <3>1. /\ pc' \in {"decide", "finalizer"} /\ inst'.status = inst.status
            /\ current' = current /\ (a = "ok" \/ ~current)
        BY <2>1, <2>3, <2>5 DEF Continue, Goto, Answer
      <3>2. inst.status.inited /\ ~inst.status.completed
            /\ inst.status.iteration <= MaxIterations
        BY <1>0, <2>2 DEF CopyInv, Early
      <3> QED
        BY <2>3, <3>1, <3>2 DEF Related, IdleInv, CopyInv, CurrentInv, Early
    <2> QED
      BY <2>4, <2>5
  <1>3. CASE addFinalizerIfAbsent
    <2> DEFINE x == [inst EXCEPT !.finalizer = TRUE]
    <2>1. PICK a \in {"ok", "conflict", "error"} :
            /\ Answer(a) /\ UpdateObject(a, x)
            /\ (Continue("decide", Decoded(a, x)) /\ a # "error") \/ Return
      BY <1>3 DEF addFinalizerIfAbsent, Benign
    <2>2. x \in Object /\ x.status = inst.status
      BY <1>0 DEF Object
    <2>3. pc = "finalizer"
      BY <1>3 DEF addFinalizerIfAbsent
    <2> HIDE DEF x
    <2>4. /\ StoreInv' /\ obj'.status = obj.status
          /\ a = "ok" => Decoded(a, x).status = obj.status
          /\ a # "ok" => Decoded(a, x) = x
      BY <2>1, <2>2, ObjectWritten
    <2>5. CASE Return
      BY <2>4, <2>5, Returned
    <2>6. CASE ~Return
      <3>1. /\ pc' = "decide" /\ inst'.status = Decoded(a, x).status
            /\ current' = current /\ (a = "ok" <=> current)
        BY <2>1, <2>6 DEF Continue, Goto, Answer
      <3>2. inst.status.inited /\ inst.status.iteration <= MaxIterations
            /\ (current => inst.status = obj.status)
        BY <1>0, <2>3 DEF CopyInv, CurrentInv
      <3>3. inst'.status = inst.status
        BY <2>2, <2>4, <3>1, <3>2
      <3> QED
        BY <2>4, <3>1, <3>2, <3>3 DEF Related, IdleInv, CopyInv, CurrentInv, Early
    <2> QED
      BY <2>5, <2>6
  <1>4. CASE Finalize
    <2>1. CASE ExperimentCompleted(inst)
      <3>1. /\ pc = "decide" /\ pc' = "removeFinalizer" /\ inst' = inst
            /\ current' = current /\ UNCHANGED store
        BY <1>4, <2>1 DEF Finalize, Continue, Goto
      <3>2. StoreInv' /\ obj' = obj
        BY <3>1, StoreUntouched
      <3> QED
        BY <1>0, <3>1, <3>2 DEF Related, IdleInv, CopyInv, CurrentInv, Early
    <2>2. CASE ~ExperimentCompleted(inst)
      <3>1. Working
        BY <1>4, <2>2 DEF Finalize, Working, ExperimentCompleted
      <3>2. Derived(TerminateExperiment(inst))
        BY <1>0, <3>1, WorkingCopy, MarksDerived
      <3>3. Goto("fetch", TerminateExperiment(inst)) /\ current' = current /\ UNCHANGED store
        BY <1>4, <2>2 DEF Finalize
      <3>4. "fetch" \in Later
        BY DEF Later, PCs
      <3> QED
        BY <3>1, <3>2, <3>3, <3>4, GoUnwritten
    <2> QED
      BY <2>1, <2>2
  <1>5. CASE NotToProceed
    BY <1>5, StoreUntouched, Returned DEF NotToProceed
  <1>6. CASE Proceed
    <2> DEFINE cleared == [inst EXCEPT !.override = "none", !.split = NoSplit]
    <2>1. Working /\ current' = current /\ UNCHANGED store
      BY <1>6 DEF Proceed, Working, ExperimentCompleted
    <2>2. Derived(inst) /\ Derived(cleared)
      BY <1>0, <2>1, WorkingCopy DEF Derived, Object
    <2> HIDE DEF cleared
    <2>3. \E next \in Later : Goto(next, inst) \/ Goto(next, cleared)
      BY <1>0, <1>6 DEF Proceed, toSyncMetrics, cleared, Later, PCs
    <2> QED
      BY <2>1, <2>2, <2>3, GoUnwritten
  <1>7. CASE Pause
    <2>1. PICK a \in {"ok", "conflict", "error"} :
            /\ Answer(a) /\ UpdateObject(a, inst)
            /\ \/ Fail(MarkExperimentPause(Decoded(a, inst)), TRUE)
               \/ Fail(inst, FALSE)
      BY <1>7 DEF Pause
    <2>2. Working
      BY <1>7 DEF Pause, Working, Early
    <2>3. Derived(inst) /\ Derived(Decoded(a, inst))
      BY <1>0, <2>1, <2>2, WorkingCopy, DecodedDerived
    <2>4. Decoded(a, inst) \in Object
      BY <1>0, <2>1, ObjectWrite, Parts DEF LoopInv
    <2>5. Derived(MarkExperimentPause(Decoded(a, inst)))
      BY <2>3, <2>4, MarksDerived
    <2>6. StoreInv' /\ obj'.status = obj.status
      BY <1>0, <2>1, ObjectWritten
    <2>7. current' = current /\ "endRequest" \in Later
      BY <2>1 DEF Fail, Later, PCs
    <2>8. \E x : Derived(x) /\ Goto("endRequest", x)
      BY <2>1, <2>3, <2>5 DEF Fail
    <2> QED
      BY <2>2, <2>6, <2>7, <2>8, Go
  <1>8. CASE Resume
    <2>1. PICK a \in {"ok", "conflict", "error"} :
            /\ Answer(a) /\ UpdateObject(a, inst)
            /\ IF ~Benign(a) THEN Fail(inst, FALSE)
               ELSE LET x == MarkExperimentResume(Decoded(a, inst))
                    IN  /\ Goto(toSyncMetrics(x), x)
                        /\ statusUpdate' = TRUE /\ refresh' = TRUE
                        /\ UNCHANGED <<current, finalizing, fetched, progress>>
      BY <1>8 DEF Resume
    <2> DEFINE x == MarkExperimentResume(Decoded(a, inst))
    <2>2. Working
      BY <1>8 DEF Resume, Working, Early
    <2>3. Derived(inst) /\ Derived(Decoded(a, inst))
      BY <1>0, <2>1, <2>2, WorkingCopy, DecodedDerived
    <2>4. Decoded(a, inst) \in Object
      BY <1>0, <2>1, ObjectWrite, Parts DEF LoopInv
    <2>5. Derived(x)
      BY <2>3, <2>4, MarksDerived
    <2>6. StoreInv' /\ obj'.status = obj.status
      BY <1>0, <2>1, ObjectWritten
    <2>7. current' = current
      BY <2>1 DEF Fail
    <2>8. Goto("endRequest", inst) \/ Goto(toSyncMetrics(x), x)
      BY <2>1 DEF Fail
    <2> HIDE DEF x
    <2>9. "endRequest" \in Later /\ toSyncMetrics(x) \in Later
      BY DEF Later, PCs, toSyncMetrics
    <2> QED
      BY <2>2, <2>3, <2>5, <2>6, <2>7, <2>8, <2>9, Go
  <1>9. CASE ReadMetrics
    <2>1. Working
      BY <1>9 DEF ReadMetrics, Working, Early
    <2>2. Derived(inst) /\ Derived(MarkMetricsSyncedError(inst))
      BY <1>0, <2>1, WorkingCopy, MarksDerived
    <2>3. Derived([inst EXCEPT !.metrics = TRUE])
      BY <1>0, <2>2 DEF Derived, Object
    <2>4. \/ Goto("metricsUpdate", [inst EXCEPT !.metrics = TRUE])
          \/ Goto("metricsError", MarkMetricsSyncedError(inst))
      BY <1>9 DEF ReadMetrics, Continue
    <2>5. UNCHANGED store /\ current' = current
          /\ "metricsUpdate" \in Later /\ "metricsError" \in Later
      BY <1>9 DEF ReadMetrics, Continue, Later, PCs
    <2> QED
      BY <2>1, <2>2, <2>3, <2>4, <2>5, GoUnwritten
  <1>10. CASE WriteMetricsError
    <2>1. PICK a \in {"ok", "conflict", "error"} :
            UpdateStatus(a, inst) /\ Fail(Decoded(a, inst), FALSE)
      BY <1>10 DEF WriteMetricsError
    <2>2. Working /\ pc # "idle"
      BY <1>10 DEF WriteMetricsError, Working, Early
    <2>3. /\ StoreInv' /\ Decoded(a, inst).status = inst.status
          /\ obj' = obj \/ obj'.status = inst.status
      BY <2>1, <2>2, StatusWritten
    <2>4. pc' = "endRequest" /\ inst'.status = inst.status /\ current' = current
      BY <2>1, <2>3 DEF Fail, Goto
    <2>5. /\ Derived(inst) /\ (current => Derived(obj))
          /\ inst.status.iteration \in Int /\ inst.status.iteration <= MaxIterations
      BY <1>0, <2>2, WorkingCopy DEF Object, Status, CopyInv
    <2> QED
      BY <2>3, <2>4, <2>5 DEF Related, IdleInv, CopyInv, CurrentInv, Early, Derived
  <1>11. CASE WriteMetrics
    <2>1. PICK a \in {"ok", "conflict", "error"} :
            /\ Answer(a) /\ UpdateObject(a, inst)
            /\ IF ~Benign(a) THEN Fail(inst, FALSE)
               ELSE /\ Goto("fetch", [Decoded(a, inst) EXCEPT !.status.metricsSynced = "True"])
                    /\ statusUpdate' = TRUE
                    /\ UNCHANGED <<current, finalizing, fetched, refresh, progress>>
      BY <1>11 DEF WriteMetrics
    <2>2. Working
      BY <1>11 DEF WriteMetrics, Working, Early
    <2>3. Derived(inst) /\ Derived(Decoded(a, inst))
      BY <1>0, <2>1, <2>2, WorkingCopy, DecodedDerived
    <2>4. Decoded(a, inst) \in Object
      BY <1>0, <2>1, ObjectWrite, Parts DEF LoopInv
    <2>5. Derived([Decoded(a, inst) EXCEPT !.status.metricsSynced = "True"])
      BY <2>3, <2>4 DEF Derived, Object, Status
    <2>6. StoreInv' /\ obj'.status = obj.status
      BY <1>0, <2>1, ObjectWritten
    <2>7. current' = current
      BY <2>1 DEF Fail
    <2>8. \/ Goto("endRequest", inst)
          \/ Goto("fetch", [Decoded(a, inst) EXCEPT !.status.metricsSynced = "True"])
      BY <2>1 DEF Fail
    <2>9. "endRequest" \in Later /\ "fetch" \in Later
      BY DEF Later, PCs
    <2> QED
      BY <2>2, <2>3, <2>5, <2>6, <2>7, <2>8, <2>9, Go
  <1>12. CASE Fetch
    <2>1. Working /\ UNCHANGED store /\ current' = current
      BY <1>12 DEF Fetch, Working, Early, Continue
    <2>2. Derived(inst) /\ Derived(MarkRoutingRulesError(inst))
      BY <1>0, <2>1, WorkingCopy, MarksDerived
    <2>3. \/ Goto("detect", inst) \/ Goto("iterate", inst) \/ Goto("finish", inst)
          \/ Goto("complete", MarkRoutingRulesError(inst))
      BY <1>12 DEF Fetch, AfterDetection, Continue
    <2> QED
      BY <2>1, <2>2, <2>3, GoUnwritten DEF Later, PCs
  <1>13. CASE DetectBaseline \/ DetectCandidates
    <2>1. Working /\ UNCHANGED store
      BY <1>13 DEF DetectBaseline, DetectCandidates, Working, Early
    <2>2. /\ Derived(inst) /\ Derived(MarkTargetsAndRulesReady(inst))
          /\ \A reason : Derived(MarkTargetsError(inst, reason))
      BY <1>0, <2>1, WorkingCopy, MarksDerived
    <2>3. ASSUME NEW role, TargetsError(role)
          PROVE  Related'
      BY <2>1, <2>2, <2>3, GoUnwritten DEF TargetsError, Fail, Later, PCs
    <2>4. CASE Detected
      BY <2>1, <2>2, <2>4, GoUnwritten DEF Detected, AfterDetection, Later, PCs
    <2>5. ASSUME NEW next \in Later, Continue(next, inst)
          PROVE  Related'
      BY <2>1, <2>2, <2>5, GoUnwritten DEF Continue
    <2>6. \/ TargetsError("service") \/ TargetsError("baseline") \/ TargetsError("candidate")
          \/ Detected \/ Continue("candidates", inst) \/ Continue("baselineVS", inst)
          \/ Continue("candidatesVS", inst)
      BY <1>13 DEF DetectBaseline, DetectCandidates
    <2> QED
      BY <2>3, <2>4, <2>5, <2>6 DEF Later, PCs
  <1>14. CASE \/ UpdateBaselineVS \/ UpdateBaselineDR
              \/ UpdateCandidatesVS \/ UpdateCandidatesDR
    <2> DEFINE full == [inst EXCEPT !.status.weight[Baseline] = 100]
    <2>1. Working /\ UNCHANGED store
      BY <1>14 DEF UpdateBaselineVS, UpdateBaselineDR, UpdateCandidatesVS,
                   UpdateCandidatesDR, Working, Early
    <2>2. /\ Derived(inst) /\ Derived(MarkTargetsAndRulesReady(inst))
          /\ Derived(MarkRoutingRulesError(inst))
      BY <1>0, <2>1, WorkingCopy, MarksDerived
    <2>3. Derived(full)
      BY <1>0, <2>2 DEF Derived, Object, Status
    <2>4. CASE RulesError
      BY <2>1, <2>2, <2>4, GoUnwritten DEF RulesError, Fail, Later, PCs
    <2>5. CASE Detected
      BY <2>1, <2>2, <2>5, GoUnwritten DEF Detected, AfterDetection, Later, PCs
    <2>6. ASSUME NEW next \in Later, NEW x, Derived(x), Continue(next, x)
          PROVE  Related'
      BY <2>1, <2>6, GoUnwritten DEF Continue
    <2>7. \/ RulesError \/ Detected \/ Continue("baselineDR", inst)
          \/ Continue("candidates", full) \/ Continue("candidatesDR", inst)
      BY <1>14 DEF UpdateBaselineVS, UpdateBaselineDR, UpdateCandidatesVS, UpdateCandidatesDR
    <2> HIDE DEF full
    <2> QED
      BY <2>2, <2>3, <2>4, <2>5, <2>6, <2>7 DEF Later, PCs
  <1>15. CASE ShiftTraffic \/ Iterate \/ UpdateTrafficVS
    <2>1. Working /\ UNCHANGED store
      BY <1>15 DEF ShiftTraffic, Iterate, UpdateTrafficVS, Working, Early
    <2>2. Derived(inst) /\ Derived(MarkRoutingRulesError(inst))
          /\ Derived(TerminateExperiment(inst))
      BY <1>0, <2>1, WorkingCopy, MarksDerived
    <2>3. ASSUME NEW next \in Later, NEW x, Derived(x), Continue(next, x)
          PROVE  Related'
      BY <2>1, <2>3, GoUnwritten DEF Continue
    <2>4. ASSUME NEW x \in Object, Derived(x), IterationDone(x)
          PROVE  Related'
      BY <2>1, <2>4, MarksDerived, GoUnwritten DEF IterationDone, Later, PCs
    <2>5. ASSUME NEW x \in Object, Derived(x), NEW ch, AnalyticsError(x, ch)
          PROVE  Related'
      BY <2>1, <2>5, MarksDerived, GoUnwritten DEF AnalyticsError, Fail, Later, PCs
    <2>6. CASE RulesError
      BY <2>1, <2>2, <2>6, GoUnwritten DEF RulesError, Fail, Later, PCs
    <2>7. ASSUME NEW r \in Responses, Analyze(r)
          PROVE  Related'
      <3> DEFINE assessed == [inst EXCEPT !.status.winner = r.winner,
                                          !.status.phase = "Progressing",
                                          !.status.completed = FALSE]
                 weight == [v \in Versions |->
                              IF v \notin r.covered THEN inst.status.weight[v]
                              ELSE IF v \in r.rollback THEN 0 ELSE r.split[v]]
                 x == [assessed EXCEPT !.status.weight = weight]
                 running == [x EXCEPT !.status.analytics = "True"]
      <3>1. r \in Response
        BY EnvironmentAssumption
      <3>2. assessed \in Object
        BY <1>0, <3>1 DEF Response, Object, Status, Phases
      <3>3. weight \in Traffic
        BY <1>0, <3>1 DEF Response, Traffic, Object, Status
      <3>4. Derived(assessed)
        BY <1>0, <2>2 DEF Derived, Object, Status
      <3> HIDE DEF weight, assessed
      <3>5. x \in Object
        BY <3>2, <3>3, WeightType
      <3>6. running \in Object
        BY <3>5, AnalyticsType
      <3>7. Derived(x) /\ Derived(running)
        BY <3>2, <3>4 DEF Derived, Object, Status
      <3>8. \/ Continue("finish", TerminateExperiment(inst))
            \/ AnalyticsError(x, TRUE)
            \/ Continue("trafficVS", running)
            \/ IterationDone(running)
        BY <2>7 DEF Analyze, assessed, weight
      <3> HIDE DEF x, running
      <3> QED
        BY <2>2, <2>3, <2>4, <2>5, <3>5, <3>6, <3>7, <3>8 DEF Later, PCs
    <2>8. ASSUME NEW weight PROVE Derived([inst EXCEPT !.status.weight = weight])
      BY <1>0, <2>2 DEF Derived, Object, Status
    <2>9. CASE ShiftTraffic
      BY <1>0, <2>2, <2>3, <2>4, <2>8, <2>9 DEF ShiftTraffic, Later, PCs
    <2>10. CASE Iterate
      BY <1>0, <2>2, <2>5, <2>7, <2>10 DEF Iterate
    <2>11. CASE UpdateTrafficVS
      BY <1>0, <2>2, <2>4, <2>6, <2>11 DEF UpdateTrafficVS
    <2> QED
      BY <1>15, <2>9, <2>10, <2>11
  <1>16. CASE Finish
    <2>1. Working /\ UNCHANGED store
      BY <1>16 DEF Finish, Working, Early
    <2>2. Derived(inst)
      BY <2>1, WorkingCopy
    <2>3. CASE Continue("complete", inst) \/ Continue("endRequest", inst)
      BY <2>1, <2>2, <2>3, GoUnwritten DEF Continue, Later, PCs
    <2>4. CASE ~toComplete(inst) /\ progress
               /\ Fail([inst EXCEPT !.status.iteration = @ + 1], TRUE)
      <3> DEFINE x == [inst EXCEPT !.status.iteration = @ + 1]
      <3>1. /\ x.status.inited
            /\ x.status.iteration = inst.status.iteration + 1
            /\ x.status.iteration <= MaxIterations
            /\ x.status.phase = inst.status.phase /\ ~x.status.completed
        BY <1>0, <2>2, <2>4, ParametersAssumption DEF toComplete, Derived, Object, Status
      <3>2. Goto("endRequest", x) /\ current' = current
        BY <2>4 DEF Fail
      <3>3. inst.status.phase = "Progressing"
        BY <1>16, <2>4 DEF Finish, LoopInv, CopyRelated, ProgressInv
      <3> HIDE DEF x
      <3> QED
        BY <2>1, <3>1, <3>2, <3>3, EndUnwritten
    <2> QED
      BY <1>16, <2>3, <2>4 DEF Finish
  <1>17. ASSUME NEW x \in Object, Derived(x), Working, UNCHANGED store, Completed(x)
         PROVE  Related'
    <2>1. /\ MarkExperimentCompleted(x).status.inited
          /\ MarkExperimentCompleted(x).status.iteration = inst.status.iteration
      BY <1>17 DEF MarkExperimentCompleted, Derived, Object, Status
    <2>2. Goto("endRequest", MarkExperimentCompleted(x)) /\ current' = current
      BY <1>17 DEF Completed, Fail
    <2> QED
      BY <1>17, <2>1, <2>2, EndUnwritten
  <1>18. CASE Complete
    <2> DEFINE x == overrideAssessment(inst)
    <2>1. Working /\ UNCHANGED store
      BY <1>18 DEF Complete, Working, Early
    <2>2. x \in Object /\ Derived(x)
      BY <1>0, <2>1, OverrideType, WorkingCopy, MarksDerived
    <2>3. Completed(x) \/ Continue("deleteVS", x) \/ Continue("stableVS", x)
      BY <1>18 DEF Complete
    <2> HIDE DEF x
    <2> QED
      BY <1>17, <2>1, <2>2, <2>3, GoUnwritten DEF Continue, Later, PCs
  <1>19. CASE StableVS \/ StableDR
    <2>1. Working /\ UNCHANGED store
      BY <1>19 DEF StableVS, StableDR, Working, Early
    <2>2. Derived(inst) /\ StoreInv'
      BY <2>1, WorkingCopy, StoreUntouched
    <2>3. \/ Completed(inst) \/ Return \/ Continue("removeFinalizer", inst)
          \/ Continue("deleteDR", inst) \/ Continue("stableDR", inst)
      BY <1>19 DEF StableVS, StableDR, CompletionFails
    <2>4. CASE Return
      BY <2>2, <2>4, Returned
    <2>5. CASE ~Return
      BY <1>0, <1>17, <2>1, <2>2, <2>3, <2>5, GoUnwritten DEF Continue, Later, PCs
    <2> QED
      BY <2>4, <2>5
  <1>20. CASE EndRequest
    <2>1. pc = "endRequest"
      BY <1>20 DEF EndRequest
    <2>2. /\ StoreInv' /\ (obj' = obj \/ obj'.status = inst.status)
          /\ \E x : x.status = inst.status /\ Ended(x)
      <3>1. CASE UNCHANGED store /\ Ended(inst)
        BY <3>1, StoreUntouched
      <3>2. ASSUME NEW a, UpdateStatus(a, inst), Ended(Decoded(a, inst))
            PROVE  /\ StoreInv' /\ (obj' = obj \/ obj'.status = inst.status)
                   /\ \E x : x.status = inst.status /\ Ended(x)
        BY <2>1, <3>2, StatusWritten
      <3> QED
        BY <1>20, <3>1, <3>2 DEF EndRequest
    <2>3. CASE Return
      BY <2>2, <2>3, Returned
    <2>4. CASE ~Return
      <3>1. /\ finalizing /\ pc' = "removeFinalizer" /\ inst'.status = inst.status
            /\ current' = current
        BY <2>2, <2>4 DEF Ended, Continue, Goto
      <3>2. inst.status.inited /\ inst.status.iteration <= MaxIterations
            /\ (current => obj.status.inited)
        BY <1>0, <2>1, <3>1 DEF CopyInv, CurrentInv
      <3> QED
        BY <2>2, <3>1, <3>2 DEF Related, IdleInv, CopyInv, CurrentInv, Early
    <2> QED
      BY <2>3, <2>4
  <1>21. CASE RemoveFinalizer
    <2>1. [inst EXCEPT !.finalizer = FALSE, !.exists = FALSE] \in Object
      BY <1>0 DEF Object
    <2> QED
      BY <1>21, <2>1, ObjectWritten, Returned DEF RemoveFinalizer
  <1> QED
    BY <1>1, <1>2, <1>3, <1>4, <1>5, <1>6, <1>7, <1>8, <1>9, <1>10, <1>11, <1>12, <1>13,
       <1>14, <1>15, <1>16, <1>18, <1>19, <1>20, <1>21 DEF Worker

\* So does a step of the environment.
LEMMA EnvironmentCopyStep ==
    LoopInv /\ (Sync \/ IntervalElapses \/ TimerFires \/ User \/ Crash \/ UNCHANGED vars)
        => Related'
  <1> SUFFICES ASSUME LoopInv,
                      Sync \/ IntervalElapses \/ TimerFires \/ User \/ Crash \/ UNCHANGED vars
               PROVE  Related'
    OBVIOUS
  <1>0. /\ obj \in Object /\ cache \in Object /\ inst \in Object
        /\ StoreInv /\ IdleInv /\ CopyInv /\ CurrentInv
    BY Copies DEF LoopInv, CopyRelated, Related
  <1>1. ASSUME UNCHANGED worker, StoreInv', obj'.status = obj.status
        PROVE  Related'
    BY <1>0, <1>1 DEF worker, Related, IdleInv, CopyInv, CurrentInv
  <1>2. CASE Sync
    BY <1>0, <1>1, <1>2 DEF Sync, StoreInv, StatusOK
  <1>3. CASE IntervalElapses
    <2> DEFINE elapsed(x) == [x EXCEPT !.status.last = IF @ = "recent" THEN "elapsed" ELSE @]
    <2>1. ASSUME NEW x \in Object
          PROVE  StatusOK(x.status) => StatusOK(elapsed(x).status)
      BY DEF StatusOK, Object, Status
    <2>2. /\ pc = "idle" /\ obj' = elapsed(obj) /\ cache' = elapsed(cache)
          /\ UNCHANGED worker /\ synced' = synced
      BY <1>3 DEF IntervalElapses
    <2> HIDE DEF elapsed
    <2>3. StoreInv'
      BY <1>0, <2>1, <2>2 DEF StoreInv
    <2> QED
      BY <1>0, <2>2, <2>3 DEF worker, Related, IdleInv, CopyInv, CurrentInv
  <1>4. CASE TimerFires \/ (\E t \in Targets : TargetEvent(t)) \/ UNCHANGED vars
    BY <1>1, <1>4, StoreUntouched DEF TimerFires, TargetEvent, vars
  <1>5. ASSUME NEW new \in Object, new.status = obj.status, UserChange(new)
        PROVE  Related'
    <2>1. StoreInv'
      BY <1>5, StatusKept DEF UserChange
    <2> QED
      BY <1>0, <1>5, <2>1 DEF UserChange, Related, IdleInv, CopyInv, CurrentInv
  <1>6. ASSUME NEW action \in Overrides, NEW split \in Splits \cup {NoSplit},
               Override(action, split)
        PROVE  Related'
    <2>1. [obj EXCEPT !.override = action, !.split = split] \in Object
          /\ [obj EXCEPT !.override = action, !.split = split].status = obj.status
      BY <1>0 DEF Object
    <2> QED
      BY <1>5, <1>6, <2>1 DEF Override
  <1>7. CASE Delete
    <2>1. [obj EXCEPT !.deleting = TRUE, !.exists = obj.finalizer] \in Object
          /\ [obj EXCEPT !.deleting = TRUE, !.exists = obj.finalizer].status = obj.status
      BY <1>0 DEF Object
    <2> QED
      BY <1>5, <1>7, <2>1 DEF Delete
  <1>8. CASE Crash
    BY <1>0, <1>8, Returned DEF Crash, StoreInv, StatusOK
  <1> QED
    BY <1>2, <1>3, <1>4, <1>6, <1>7, <1>8 DEF User, Overrides

\* Every step keeps ProgressInv: an iteration that was processed leads to toComplete
\* at once, and no action but those after it goes on with the mark.
LEMMA ProgressStep == LoopInv /\ [Next]_vars => ProgressInv'
  <1> SUFFICES ASSUME LoopInv, [Next]_vars
               PROVE  ProgressInv'
    OBVIOUS
  <1>0. ProgressInv /\ inst \in Object
    BY Copies DEF LoopInv, CopyRelated
  <1>1. ASSUME Return PROVE ProgressInv'
    BY <1>1 DEF Return, ProgressInv
  <1>2. ASSUME ~progress, progress' = progress \/ progress' = FALSE PROVE ProgressInv'
    BY <1>2 DEF ProgressInv
  <1>3. ASSUME NEW next \in Processed \ {"finish"}, pc' = next PROVE ProgressInv'
    BY <1>3 DEF ProgressInv
  <1>4. ASSUME NEW x \in Object, IterationDone(x) PROVE ProgressInv'
    <2>1. MarkIterationUpdate(x).status.phase = "Progressing"
      BY <1>4 DEF MarkIterationUpdate, Object, Status
    <2> QED
      BY <1>4, <2>1 DEF IterationDone, Goto, ProgressInv, Processed
  <1>5. pc \notin Processed => ~progress
    BY <1>0 DEF ProgressInv
  <1>6. CASE \/ Get \/ WriteInitStatus \/ addFinalizerIfAbsent \/ Finalize \/ NotToProceed
             \/ Proceed \/ Pause \/ Resume \/ ReadMetrics \/ WriteMetricsError
             \/ WriteMetrics
    <2>1. ~progress
      BY <1>5, <1>6
         DEF Get, WriteInitStatus, addFinalizerIfAbsent, Finalize, NotToProceed, Proceed,
             Pause, Resume, ReadMetrics, WriteMetricsError, WriteMetrics, Processed
    <2>2. Return \/ progress' = progress \/ progress' = FALSE
      BY <1>6
         DEF Get, WriteInitStatus, addFinalizerIfAbsent, Finalize, NotToProceed, Proceed,
             Pause, Resume, ReadMetrics, WriteMetricsError, WriteMetrics, Continue, Fail,
             interState
    <2> QED
      BY <1>1, <1>2, <2>1, <2>2
  <1>7. CASE \/ Fetch \/ DetectBaseline \/ UpdateBaselineVS \/ UpdateBaselineDR
             \/ DetectCandidates \/ UpdateCandidatesVS \/ UpdateCandidatesDR
    <2>1. ~progress
      BY <1>5, <1>7
         DEF Fetch, DetectBaseline, UpdateBaselineVS, UpdateBaselineDR, DetectCandidates,
             UpdateCandidatesVS, UpdateCandidatesDR, Processed
    <2>2. progress' = progress
      BY <1>7
         DEF Fetch, DetectBaseline, UpdateBaselineVS, UpdateBaselineDR, DetectCandidates,
             UpdateCandidatesVS, UpdateCandidatesDR, TargetsError, RulesError, Detected,
             Continue, Fail, interState
    <2> QED
      BY <1>2, <2>1, <2>2
  <1>8. CASE ShiftTraffic \/ UpdateTrafficVS
    <2>1. ~progress
      BY <1>5, <1>8 DEF ShiftTraffic, UpdateTrafficVS, Processed
    <2>2. progress' = progress \/ IterationDone(inst)
      BY <1>8 DEF ShiftTraffic, UpdateTrafficVS, RulesError, Continue, Fail, interState
    <2> QED
      BY <1>0, <1>2, <1>4, <2>1, <2>2
  <1>9. CASE Iterate
    <2>1. ~progress
      BY <1>5, <1>9 DEF Iterate, Processed
    <2>2. ASSUME NEW r \in Responses, Analyze(r)
          PROVE  progress' = progress \/ \E x \in Object : IterationDone(x)
      <3> DEFINE assessed == [inst EXCEPT !.status.winner = r.winner,
                                          !.status.phase = "Progressing",
                                          !.status.completed = FALSE]
                 weight == [v \in Versions |->
                              IF v \notin r.covered THEN inst.status.weight[v]
                              ELSE IF v \in r.rollback THEN 0 ELSE r.split[v]]
                 x == [assessed EXCEPT !.status.weight = weight]
                 running == [x EXCEPT !.status.analytics = "True"]
      <3>1. r \in Response
        BY EnvironmentAssumption
      <3>2. assessed \in Object
        BY <1>0, <3>1 DEF Response, Object, Status, Phases
      <3>3. weight \in Traffic
        BY <1>0, <3>1 DEF Response, Traffic, Object, Status
      <3>4. \/ Continue("finish", TerminateExperiment(inst))
            \/ AnalyticsError(x, TRUE)
            \/ Continue("trafficVS", running)
            \/ IterationDone(running)
        BY <2>2 DEF Analyze, assessed, weight
      <3> HIDE DEF weight, assessed
      <3>5. x \in Object
        BY <3>2, <3>3, WeightType
      <3>6. running \in Object
        BY <3>5, AnalyticsType
      <3> HIDE DEF x, running
      <3> QED
        BY <3>4, <3>6 DEF AnalyticsError, Continue, Fail, interState
    <2>3. progress' = progress \/ \E x \in Object : IterationDone(x)
      BY <1>9, <2>2 DEF Iterate, AnalyticsError, Fail
    <2> QED
      BY <1>2, <1>4, <2>1, <2>3
  <1>10. CASE Finish \/ Complete
    BY <1>3, <1>10 DEF Finish, Complete, Completed, Continue, Fail, Goto, Processed
  <1>11. CASE StableVS \/ StableDR
    <2>1. Return \/ \E next \in Processed \ {"finish"} : pc' = next
      BY <1>11 DEF StableVS, StableDR, Completed, CompletionFails, Continue, Fail, Goto, Processed
    <2> QED
      BY <1>1, <1>3, <2>1
  <1>12. CASE EndRequest \/ RemoveFinalizer
    <2>1. Return \/ pc' = "removeFinalizer"
      BY <1>12 DEF EndRequest, RemoveFinalizer, Ended, Continue, Goto
    <2> QED
      BY <1>1, <1>3, <2>1 DEF Processed
  <1>13. CASE Sync \/ IntervalElapses \/ TimerFires \/ User \/ UNCHANGED vars
    <2>1. UNCHANGED <<pc, inst, progress>>
      BY <1>13 DEF Sync, IntervalElapses, TimerFires, User, Override, Delete, UserChange,
                   TargetEvent, vars, worker, interState
    <2> QED
      BY <1>0, <2>1 DEF ProgressInv
  <1>14. CASE Crash
    BY <1>1, <1>14 DEF Crash
  <1> QED
    BY <1>6, <1>7, <1>8, <1>9, <1>10, <1>11, <1>12, <1>13, <1>14 DEF Next, Worker

\* CopyRelated holds together with the types: Get copies the cache, which is
\* the server's object when synced; every write the server accepts of that copy
\* is one the relation allows; and a write of another copy is refused.
THEOREM LoopInvariant == Spec => []LoopInv
  <1>1. Init => CopyRelated
    <2> SUFFICES ASSUME Init
                 PROVE  CopyRelated
      OBVIOUS
    <2>1. StatusOK(NewObject.status)
      <3>1. NewObject.status = EmptyStatus
        BY DEF NewObject
      <3>2. EmptyStatus.completed = FALSE /\ EmptyStatus.iteration = 0
        BY DEF EmptyStatus
      <3>3. 0 <= MaxIterations
        BY ParametersAssumption
      <3> QED
        BY <3>1, <3>2, <3>3 DEF StatusOK
    <2>2. StoreInv
      <3>1. obj.status = NewObject.status
        BY NewType DEF Init, Object
      <3>2. cache = obj
        BY DEF Init
      <3>3. StatusOK(obj.status) /\ StatusOK(cache.status)
        BY <2>1, <3>1, <3>2, Zenon
      <3> QED
        BY <3>2, <3>3 DEF StoreInv
    <2>3. pc = "idle" /\ ~current /\ ~finalizing /\ ~progress
      BY DEF Init
    <2> QED
      BY <2>2, <2>3 DEF CopyRelated, Related, IdleInv, CopyInv, CurrentInv, ProgressInv
  <1>2. LoopInv /\ [Next]_vars => CopyRelated'
    BY WorkerCopyStep, EnvironmentCopyStep, ProgressStep DEF Next, CopyRelated
  <1>3. LoopInv /\ [Next]_vars => TypeOK'
    BY StoreStep, WorkerStep, RulesStep, RestStep, NextParts DEF LoopInv
  <1>4. Init => LoopInv
    BY <1>1, InitType DEF LoopInv
  <1>5. LoopInv /\ [Next]_vars => LoopInv'
    BY <1>2, <1>3 DEF LoopInv
  <1> QED
    BY <1>4, <1>5, PTL DEF Spec

\* A reconcile whose writes the server accepts works from the server's status,
\* whatever users, faults, crashes and the lag of the cache do (Get,
\* validUpdateErr).
THEOREM CopyAlwaysRelated == Spec => []CopyRelated
  BY LoopInvariant, PTL DEF LoopInv

-----------------------------------------------------------------------------
\* All steps but three of the worker and the clock's keep the status.
StatusWriter == WriteInitStatus \/ WriteMetricsError \/ EndRequest

LEMMA QuietStatus ==
    LoopInv /\ [Next]_vars /\ ~StatusWriter /\ ~IntervalElapses => obj'.status = obj.status
  <1> SUFFICES ASSUME LoopInv, [Next]_vars, ~StatusWriter, ~IntervalElapses
               PROVE  obj'.status = obj.status
    OBVIOUS
  <1>0. obj \in Object /\ cache \in Object /\ inst \in Object
    BY Copies
  <1>1. CASE addFinalizerIfAbsent \/ Pause \/ Resume \/ WriteMetrics \/ RemoveFinalizer
    <2>1. [inst EXCEPT !.finalizer = TRUE] \in Object
          /\ [inst EXCEPT !.finalizer = FALSE, !.exists = FALSE] \in Object
      BY <1>0 DEF Object
    <2>2. \E a, y : y \in Object /\ UpdateObject(a, y)
      BY <1>0, <1>1, <2>1
         DEF addFinalizerIfAbsent, Pause, Resume, WriteMetrics, RemoveFinalizer
    <2> QED
      BY <2>2, ObjectWritten
  <1>2. CASE User
    <2>1. ASSUME NEW new, UserChange(new)
          PROVE  obj' = new
      BY <2>1 DEF UserChange, Store
    <2> QED
      BY <1>0, <1>2, <2>1 DEF User, Override, Delete, TargetEvent, store, Object
  <1>3. CASE \/ Get \/ Finalize \/ NotToProceed \/ Proceed \/ ReadMetrics \/ Fetch
             \/ DetectBaseline \/ UpdateBaselineVS \/ UpdateBaselineDR \/ DetectCandidates
             \/ UpdateCandidatesVS \/ UpdateCandidatesDR \/ ShiftTraffic \/ Iterate
             \/ UpdateTrafficVS \/ Finish \/ Complete \/ StableVS \/ StableDR
             \/ TimerFires \/ Sync \/ Crash \/ UNCHANGED vars
    BY <1>3
       DEF Get, Finalize, NotToProceed, Proceed, ReadMetrics, Fetch, DetectBaseline,
           UpdateBaselineVS, UpdateBaselineDR, DetectCandidates, UpdateCandidatesVS,
           UpdateCandidatesDR, ShiftTraffic, Iterate, UpdateTrafficVS, Finish, Complete,
           StableVS, StableDR, TimerFires, Sync, Crash, store, vars
  <1> QED
    BY <1>1, <1>2, <1>3 DEF Next, Worker, StatusWriter

\* The status in the API server changes by the worker's write of a current
\* copy, or by time.
LEMMA StatusChanges ==
    LoopInv /\ [Next]_vars =>
        \/ obj'.status = obj.status
        \/ obj'.status = [obj.status EXCEPT !.last = "elapsed"]
        \/ /\ current /\ obj.exists /\ pc \in {"initStatus", "metricsError", "endRequest"}
           /\ obj'.status = inst.status
  <1> SUFFICES ASSUME LoopInv, [Next]_vars, obj'.status # obj.status
               PROVE  \/ obj'.status = [obj.status EXCEPT !.last = "elapsed"]
                      \/ /\ current /\ obj.exists
                         /\ pc \in {"initStatus", "metricsError", "endRequest"}
                         /\ obj'.status = inst.status
    OBVIOUS
  <1>1. ASSUME NEW a, Answer(a), UpdateStatus(a, inst), pc # "idle"
        PROVE  current /\ obj.exists /\ obj'.status = inst.status
    BY <1>1, StatusWritten DEF Answer
  <1>2. CASE StatusWriter
    <2>1. pc \in {"initStatus", "metricsError", "endRequest"}
      BY <1>2 DEF StatusWriter, WriteInitStatus, WriteMetricsError, EndRequest
    <2>2. UNCHANGED store \/ \E a : Answer(a) /\ UpdateStatus(a, inst)
      BY <1>2 DEF StatusWriter, WriteInitStatus, WriteMetricsError, EndRequest
    <2> QED
      BY <1>1, <2>1, <2>2 DEF store
  <1>3. CASE IntervalElapses
    <2>1. obj' = [obj EXCEPT !.status.last = IF @ = "recent" THEN "elapsed" ELSE @]
      BY <1>3 DEF IntervalElapses
    <2> QED
      BY <2>1, Copies DEF Object, Status
  <1> QED
    BY <1>2, <1>3, QuietStatus

\* What one step may do to the status.
LEMMA OutcomeStep ==
    LoopInv /\ [Next]_vars =>
        /\ obj.status.completed =>
               obj'.status.completed /\ obj'.status.weight = obj.status.weight
        /\ obj'.status.iteration - obj.status.iteration \in {0, 1}
        /\ obj'.status.iteration <= MaxIterations
  <1> SUFFICES ASSUME LoopInv, [Next]_vars
               PROVE  /\ obj.status.completed =>
                             obj'.status.completed /\ obj'.status.weight = obj.status.weight
                      /\ obj'.status.iteration - obj.status.iteration \in {0, 1}
                      /\ obj'.status.iteration <= MaxIterations
    OBVIOUS
  <1>0. /\ obj.status.iteration \in Int /\ obj.status.iteration <= MaxIterations
        /\ obj.status \in Status
    BY Copies DEF LoopInv, CopyRelated, Related, StoreInv, StatusOK, Object, Status
  <1>1. CASE obj'.status = obj.status
    BY <1>0, <1>1
  <1>2. CASE obj'.status = [obj.status EXCEPT !.last = "elapsed"]
    BY <1>0, <1>2 DEF Status
  <1>3. CASE /\ current /\ pc \in {"initStatus", "metricsError", "endRequest"}
             /\ obj'.status = inst.status
    <2>1. ~obj.status.completed /\ inst.status.iteration <= MaxIterations
          /\ inst.status.iteration - obj.status.iteration \in {0, 1}
      BY <1>0, <1>3 DEF LoopInv, CopyRelated, Related, CopyInv, CurrentInv
    <2> QED
      BY <1>3, <2>1
  <1> QED
    BY <1>1, <1>2, <1>3, StatusChanges

\* No reconcile overwrites a recorded completion or its final weights
\* (endRequest, NotToProceed, finalize).
THEOREM OutcomeFinal == Spec => CompletionFinal
  <1>1. LoopInv /\ [Next]_vars =>
          [obj.status.completed /\ obj'.exists
             => obj'.status.completed /\ obj'.status.weight = obj.status.weight]_vars
    BY OutcomeStep
  <1> QED
    BY <1>1, LoopInvariant, PTL DEF Spec, CompletionFinal

\* The recorded iterations go up one by one, and not beyond maxIterations
\* (updateIteration, toComplete, InitStatus).
THEOREM IterationsCountedOnce == Spec => IterationsCounted
  <1>1. LoopInv /\ [Next]_vars =>
          [obj'.exists => /\ obj'.status.iteration - obj.status.iteration \in {0, 1}
                          /\ obj'.status.iteration <= MaxIterations]_vars
    BY OutcomeStep
  <1> QED
    BY <1>1, LoopInvariant, PTL DEF Spec, IterationsCounted
=================================================================================
