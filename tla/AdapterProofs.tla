---------------------------- MODULE AdapterProofs ----------------------------
(***************************************************************************)
(* Proofs about the adapter, for any set of experiments, targets and       *)
(* service sections.  The type invariant is not inductive by itself: the   *)
(* Mark functions index the store with an entry of a lookup map, so it     *)
(* needs NoDanglingEntry, and NoDanglingEntry needs no more than the types.*)
(* That a mark is about to be handled needs them both, and that Services   *)
(* are exclusive.                                                          *)
(***************************************************************************)
EXTENDS Adapter, TLAPS

\* The keys an experiment claims are targets.
LEMMA KeysAreTargets ==
    ASSUME NEW spec \in Specs
    PROVE  /\ ServiceKeys(spec) \subseteq Targets
           /\ DeploymentKeys(spec) \subseteq Targets
           /\ newExperiment(spec) \in Abstract
  <1>1. /\ spec.name \in Targets \cup {Nil}
        /\ spec.baseline \in Targets
        /\ spec.candidates \subseteq Targets
    BY SpecsAssumption
  <1>2. ServiceKeys(spec) \subseteq Targets /\ DeploymentKeys(spec) \subseteq Targets
    BY <1>1 DEF ServiceKeys, DeploymentKeys
  <1>3. QED
    BY <1>2 DEF newExperiment, Abstract, Actions

\* The experiment a lookup map yields is in the store.
LEMMA EntryIsRegistered ==
    ASSUME TypeOK, NoDanglingEntry, NEW kind \in Kinds, NEW k \in Targets, NEW e,
           e = IF kind = "Deployment" THEN deployment2Experiment[k] ELSE service2Experiment[k],
           e # Nil
    PROVE  e \in Experiments /\ experimentAbstractStore[e] \in Abstract
  <1>1. e \in Experiments
    BY DEF TypeOK
  <1>2. experimentAbstractStore[e] # Nil
    BY DEF NoDanglingEntry
  <1>3. QED
    BY <1>1, <1>2 DEF TypeOK

LEMMA IdleTyped == IdleWorker \in [exp : Experiments \cup {Nil}, stage : Stages, copy : Phases]
  BY DEF IdleWorker, Stages, Phases

\* The steps that leave the adapter's maps alone.
Aside(e) ==
    \/ Object(e) \/ Dequeue(e) \/ NotToProceed(e) \/ FinalizeCompleted(e)
    \/ InitStatus(e) \/ EndUninitialized(e) \/ EndRequest(e) \/ Finalize(e) \/ Retry(e)

LEMMA AsideKeepsMaps ==
    ASSUME NEW e \in Experiments, Aside(e)
    PROVE  UNCHANGED adapterVars
  BY DEF Aside, Object, Create, Delete, Sync, Submit, Dequeue, NotToProceed, FinalizeCompleted,
         InitStatus, EndUninitialized, EndRequest, Finalize, Retry

\* Every step keeps the types.
LEMMA TypeStep == TypeOK /\ NoDanglingEntry /\ [Next]_vars => TypeOK'
  <1> SUFFICES ASSUME TypeOK, NoDanglingEntry, [Next]_vars
               PROVE  TypeOK'
    OBVIOUS
  <1>1. ASSUME NEW e \in Experiments, Object(e)
        PROVE  TypeOK'
    <2>1. CASE Create(e)
      BY <2>1 DEF Create, TypeOK, Phases, adapterVars
    <2>2. CASE Delete(e)
      BY <2>2 DEF Delete, TypeOK, Phases, adapterVars
    <2>3. CASE Sync(e)
      BY <2>3 DEF Sync, TypeOK, adapterVars
    <2>4. CASE Submit(e)
      BY <2>4 DEF Submit, TypeOK, adapterVars, objectVars
    <2>5. QED
      BY <1>1, <2>1, <2>2, <2>3, <2>4 DEF Object
  <1>2. ASSUME NEW e \in Experiments, Dequeue(e)
        PROVE  TypeOK'
    BY <1>2 DEF Dequeue, TypeOK, Stages, adapterVars, objectVars
  <1>3. ASSUME NEW e \in Experiments, TakeAction(e)
        PROVE  TypeOK'
    BY <1>3 DEF TakeAction, Abstract, Actions, TypeOK, Stages, objectVars
  <1>4. ASSUME NEW e \in Experiments, NEW spec \in Specs, RegisterExperiment(e, spec)
        PROVE  TypeOK'
    BY <1>4, KeysAreTargets DEF RegisterExperiment, TypeOK, Stages, objectVars
  <1>5. ASSUME NEW e \in Experiments, NEW spec \in Specs, RejectExperiment(e, spec)
        PROVE  TypeOK'
    BY <1>5, IdleTyped DEF RejectExperiment, TypeOK, adapterVars, objectVars
  <1>6. ASSUME NEW e \in Experiments, RemoveExperiment(e)
        PROVE  TypeOK'
    <2>1. worker' \in [exp : Experiments \cup {Nil}, stage : Stages, copy : Phases]
      BY <1>6 DEF RemoveExperiment, Completing, TypeOK, Stages
    <2>2. QED
      BY <1>6, <2>1 DEF RemoveExperiment, TypeOK, adapterVars, objectVars
  <1>7. ASSUME NEW e \in Experiments, EndRequest(e) \/ Retry(e) \/ EndUninitialized(e)
        PROVE  TypeOK'
    <2>1. object' \in [Experiments -> Phases] /\ worker' = IdleWorker /\ cached' = cached
      BY <1>7 DEF EndRequest, Retry, EndUninitialized, WriteStatus, Phases, TypeOK
    <2>2. queue' \subseteq Experiments /\ dropped' \subseteq Experiments
      BY <1>7 DEF EndRequest, Retry, EndUninitialized, TypeOK
    <2>3. UNCHANGED <<adapterVars, informer>>
      BY <1>7 DEF EndRequest, Retry, EndUninitialized
    <2>4. QED
      BY <2>1, <2>2, <2>3, IdleTyped DEF TypeOK, adapterVars
  <1>8. ASSUME NEW e \in Experiments,
               NotToProceed(e) \/ FinalizeCompleted(e) \/ Finalize(e) \/ InitStatus(e)
        PROVE  TypeOK'
    <2>1. CASE NotToProceed(e)
      BY <2>1, IdleTyped DEF NotToProceed, TypeOK, adapterVars, objectVars
    <2>2. CASE FinalizeCompleted(e)
      BY <2>2, IdleTyped DEF FinalizeCompleted, TypeOK, Phases, adapterVars
    <2>3. CASE Finalize(e)
      BY <2>3, IdleTyped DEF Finalize, TypeOK, Phases, adapterVars
    <2>4. CASE InitStatus(e)
      BY <2>4 DEF InitStatus, WriteStatus, TypeOK, Phases, adapterVars
    <2>5. QED
      BY <1>8, <2>1, <2>2, <2>3, <2>4
  <1>9. ASSUME NEW kind \in Kinds, NEW k \in Targets,
               NEW action \in Events, MarkTarget(kind, k, action)
        PROVE  TypeOK'
    <2> DEFINE e == IF kind = "Deployment" THEN deployment2Experiment[k]
                                           ELSE service2Experiment[k]
    <2>1. e # Nil
      BY <1>9 DEF MarkTarget
    <2>2. e \in Experiments /\ experimentAbstractStore[e] \in Abstract
      BY <2>1, EntryIsRegistered
    <2>3. experimentAbstractStore' = [experimentAbstractStore EXCEPT ![e].targetAction = action]
      BY <1>9 DEF MarkTarget
    <2>4. experimentAbstractStore' \in [Experiments -> Abstract \cup {Nil}]
      BY <2>2, <2>3, EventsAssumption DEF TypeOK, Abstract, Actions
    <2>5. informer' \in [Kinds -> [target : Targets \cup {Nil}]]
      BY <1>9 DEF MarkTarget, TypeOK
    <2>6. QED
      BY <1>9, <2>4, <2>5 DEF MarkTarget, TypeOK, objectVars
  <1>10. ASSUME NEW kind \in Kinds, TargetToExperiment(kind)
         PROVE  TypeOK'
    <2>1. informer[kind].target \in Targets
      BY <1>10 DEF TargetToExperiment, TargetOwner, NoEvent, TypeOK
    <2>2. queue' \subseteq Experiments
      BY <1>10, <2>1 DEF TargetToExperiment, TargetOwner, TypeOK
    <2>3. informer' \in [Kinds -> [target : Targets \cup {Nil}]]
      BY <1>10 DEF TargetToExperiment, TargetOwner, NoEvent, TypeOK
    <2>4. QED
      BY <1>10, <2>2, <2>3 DEF TargetToExperiment, TypeOK, adapterVars, objectVars
  <1>11. CASE UNCHANGED vars
    BY <1>11 DEF vars, TypeOK, adapterVars, objectVars
  <1>12. QED
    BY <1>1, <1>2, <1>3, <1>4, <1>5, <1>6, <1>7, <1>8, <1>9, <1>10, <1>11
       DEF Next, Worker, Informer

\* Every step keeps the lookup maps free of dangling entries: only a removal
\* empties the store, and it clears every key of the experiment it removes.
LEMMA NoDanglingStep == TypeOK /\ NoDanglingEntry /\ [Next]_vars => NoDanglingEntry'
  <1> SUFFICES ASSUME TypeOK, NoDanglingEntry, [Next]_vars
               PROVE  NoDanglingEntry'
    OBVIOUS
  <1>1. ASSUME UNCHANGED adapterVars
        PROVE  NoDanglingEntry'
    BY <1>1 DEF adapterVars, NoDanglingEntry
  <1>2. ASSUME NEW e \in Experiments, experimentAbstractStore[e] # Nil, NEW action \in Actions,
               experimentAbstractStore' =
                   [experimentAbstractStore EXCEPT ![e].targetAction = action],
               UNCHANGED <<deployment2Experiment, service2Experiment>>
        PROVE  NoDanglingEntry'
    <2>1. ASSUME NEW x \in Experiments, experimentAbstractStore[x] # Nil
          PROVE  /\ experimentAbstractStore'[x] # Nil
                 /\ experimentAbstractStore'[x].serviceKeys = experimentAbstractStore[x].serviceKeys
                 /\ experimentAbstractStore'[x].deploymentKeys =
                       experimentAbstractStore[x].deploymentKeys
      BY <1>2, <2>1, NilAssumption DEF TypeOK, Abstract
    <2>2. QED
      BY <1>2, <2>1 DEF TypeOK, NoDanglingEntry
  <1>3. ASSUME NEW e \in Experiments, TakeAction(e)
        PROVE  NoDanglingEntry'
    BY <1>2, <1>3 DEF TakeAction, Actions
  <1>4. ASSUME NEW e \in Experiments, NEW spec \in Specs, RegisterExperiment(e, spec)
        PROVE  NoDanglingEntry'
    <2>1. /\ newExperiment(spec) # Nil
          /\ newExperiment(spec).serviceKeys = ServiceKeys(spec)
          /\ newExperiment(spec).deploymentKeys = DeploymentKeys(spec)
      BY KeysAreTargets, NilAssumption DEF newExperiment
    <2>2. experimentAbstractStore' = [experimentAbstractStore EXCEPT ![e] = newExperiment(spec)]
      BY <1>4 DEF RegisterExperiment
    <2>3. ASSUME NEW k \in Targets, service2Experiment'[k] # Nil
          PROVE  /\ experimentAbstractStore'[service2Experiment'[k]] # Nil
                 /\ k \in experimentAbstractStore'[service2Experiment'[k]].serviceKeys
      BY <1>4, <2>1, <2>2, <2>3 DEF RegisterExperiment, TypeOK, NoDanglingEntry
    <2>4. ASSUME NEW k \in Targets, deployment2Experiment'[k] # Nil
          PROVE  /\ experimentAbstractStore'[deployment2Experiment'[k]] # Nil
                 /\ k \in experimentAbstractStore'[deployment2Experiment'[k]].deploymentKeys
      BY <1>4, <2>1, <2>2, <2>4 DEF RegisterExperiment, TypeOK, NoDanglingEntry
    <2>5. QED
      BY <2>3, <2>4 DEF NoDanglingEntry
  <1>5. ASSUME NEW e \in Experiments, RemoveExperiment(e)
        PROVE  NoDanglingEntry'
    <2>1. CASE experimentAbstractStore[e] = Nil
      BY <1>1, <1>5, <2>1 DEF RemoveExperiment
    <2>2. CASE experimentAbstractStore[e] # Nil
      <3>1. experimentAbstractStore' = [experimentAbstractStore EXCEPT ![e] = Nil]
        BY <1>5, <2>2 DEF RemoveExperiment
      <3>2. ASSUME NEW k \in Targets, service2Experiment'[k] # Nil
            PROVE  /\ experimentAbstractStore'[service2Experiment'[k]] # Nil
                   /\ k \in experimentAbstractStore'[service2Experiment'[k]].serviceKeys
        <4>1. /\ k \notin experimentAbstractStore[e].serviceKeys
              /\ service2Experiment'[k] = service2Experiment[k]
          BY <1>5, <2>2, <3>2 DEF RemoveExperiment
        <4>2. service2Experiment[k] \in Experiments /\ service2Experiment[k] # e
          BY <3>2, <4>1 DEF TypeOK, NoDanglingEntry
        <4>3. QED
          BY <3>1, <3>2, <4>1, <4>2 DEF TypeOK, NoDanglingEntry
      <3>3. ASSUME NEW k \in Targets, deployment2Experiment'[k] # Nil
            PROVE  /\ experimentAbstractStore'[deployment2Experiment'[k]] # Nil
                   /\ k \in experimentAbstractStore'[deployment2Experiment'[k]].deploymentKeys
        <4>1. /\ k \notin experimentAbstractStore[e].deploymentKeys
              /\ deployment2Experiment'[k] = deployment2Experiment[k]
          BY <1>5, <2>2, <3>3 DEF RemoveExperiment
        <4>2. deployment2Experiment[k] \in Experiments /\ deployment2Experiment[k] # e
          BY <3>3, <4>1 DEF TypeOK, NoDanglingEntry
        <4>3. QED
          BY <3>1, <3>3, <4>1, <4>2 DEF TypeOK, NoDanglingEntry
      <3>4. QED
        BY <3>2, <3>3 DEF NoDanglingEntry
    <2>3. QED
      BY <2>1, <2>2
  <1>6. ASSUME NEW kind \in Kinds, NEW k \in Targets,
               NEW action \in Events, MarkTarget(kind, k, action)
        PROVE  NoDanglingEntry'
    <2> DEFINE e == IF kind = "Deployment" THEN deployment2Experiment[k]
                                           ELSE service2Experiment[k]
    <2>1. e # Nil
      BY <1>6 DEF MarkTarget
    <2>2. e \in Experiments /\ experimentAbstractStore[e] # Nil
      BY <2>1, EntryIsRegistered, NilAssumption
    <2>3. /\ experimentAbstractStore' = [experimentAbstractStore EXCEPT ![e].targetAction = action]
          /\ UNCHANGED <<deployment2Experiment, service2Experiment>>
      BY <1>6 DEF MarkTarget
    <2> HIDE DEF e
    <2>4. QED
      BY <1>2, <2>2, <2>3, EventsAssumption DEF Actions
  <1>7. ASSUME NEW e \in Experiments, Aside(e)
        PROVE  UNCHANGED adapterVars
    BY <1>7, AsideKeepsMaps
  <1>8. ASSUME NEW e \in Experiments, NEW spec \in Specs, RejectExperiment(e, spec)
        PROVE  UNCHANGED adapterVars
    BY <1>8 DEF RejectExperiment
  <1>9. ASSUME NEW kind \in Kinds, TargetToExperiment(kind)
        PROVE  UNCHANGED adapterVars
    BY <1>9 DEF TargetToExperiment
  <1>10. CASE UNCHANGED vars
    BY <1>1, <1>10 DEF vars
  <1>11. QED
    BY <1>1, <1>3, <1>4, <1>5, <1>6, <1>7, <1>8, <1>9, <1>10
       DEF Next, Worker, Informer, Aside

\* Every step keeps the Services of registered experiments apart.
LEMMA ServiceKeysStep ==
    TypeOK /\ NoDanglingEntry /\ ServiceKeysRouted /\ [Next]_vars => ServiceKeysRouted'
  <1> SUFFICES ASSUME TypeOK, NoDanglingEntry, ServiceKeysRouted, [Next]_vars
               PROVE  ServiceKeysRouted'
    OBVIOUS
  <1>1. ASSUME UNCHANGED adapterVars
        PROVE  ServiceKeysRouted'
    BY <1>1 DEF adapterVars, ServiceKeysRouted
  <1>2. ASSUME NEW e \in Experiments, experimentAbstractStore[e] # Nil, NEW action \in Actions,
               experimentAbstractStore' =
                   [experimentAbstractStore EXCEPT ![e].targetAction = action],
               UNCHANGED service2Experiment
        PROVE  ServiceKeysRouted'
    <2>1. ASSUME NEW x \in Experiments, experimentAbstractStore'[x] # Nil
          PROVE  /\ experimentAbstractStore[x] # Nil
                 /\ experimentAbstractStore'[x].serviceKeys = experimentAbstractStore[x].serviceKeys
      BY <1>2, <2>1, NilAssumption DEF TypeOK, Abstract
    <2>2. QED
      BY <1>2, <2>1 DEF ServiceKeysRouted
  <1>3. ASSUME NEW e \in Experiments, TakeAction(e)
        PROVE  ServiceKeysRouted'
    BY <1>2, <1>3 DEF TakeAction, Actions
  <1>4. ASSUME NEW e \in Experiments, NEW spec \in Specs, RegisterExperiment(e, spec)
        PROVE  ServiceKeysRouted'
    <2>1. newExperiment(spec).serviceKeys = ServiceKeys(spec)
      BY DEF newExperiment
    <2>2. \A k \in ServiceKeys(spec) : service2Experiment[k] = Nil
      BY <1>4 DEF RegisterExperiment, checkAndGetServices
    <2>3. ASSUME NEW x \in Experiments, experimentAbstractStore'[x] # Nil,
                 NEW k \in experimentAbstractStore'[x].serviceKeys
          PROVE  service2Experiment'[k] = x
      <3>1. CASE x = e
        BY <1>4, <2>1, <2>3, <3>1, KeysAreTargets DEF RegisterExperiment, TypeOK
      <3>2. CASE x # e
        <4>1. /\ experimentAbstractStore[x] # Nil
              /\ k \in experimentAbstractStore[x].serviceKeys
          BY <1>4, <2>3, <3>2 DEF RegisterExperiment, TypeOK
        <4>2. service2Experiment[k] = x /\ x # Nil
          BY <4>1, NilAssumption DEF ServiceKeysRouted
        <4>3. k \in Targets
          BY <4>1 DEF TypeOK, Abstract
        <4>4. k \notin ServiceKeys(spec)
          BY <2>2, <4>2
        <4>5. QED
          BY <1>4, <4>2, <4>3, <4>4 DEF RegisterExperiment
      <3>3. QED
        BY <3>1, <3>2
    <2>4. QED
      BY <2>3 DEF ServiceKeysRouted
  <1>5. ASSUME NEW e \in Experiments, RemoveExperiment(e)
        PROVE  ServiceKeysRouted'
    <2>1. CASE experimentAbstractStore[e] = Nil
      BY <1>1, <1>5, <2>1 DEF RemoveExperiment
    <2>2. CASE experimentAbstractStore[e] # Nil
      <3>1. ASSUME NEW x \in Experiments, experimentAbstractStore'[x] # Nil,
                   NEW k \in experimentAbstractStore'[x].serviceKeys
            PROVE  service2Experiment'[k] = x
        <4>1. x # e /\ experimentAbstractStore'[x] = experimentAbstractStore[x]
          BY <1>5, <2>2, <3>1 DEF RemoveExperiment, TypeOK
        <4>2. service2Experiment[k] = x
          BY <3>1, <4>1 DEF ServiceKeysRouted
        <4>3. k \in Targets
          BY <3>1, <4>1 DEF TypeOK, Abstract
        <4>4. k \notin experimentAbstractStore[e].serviceKeys
          BY <2>2, <4>1, <4>2 DEF ServiceKeysRouted
        <4>5. QED
          BY <1>5, <2>2, <4>2, <4>3, <4>4 DEF RemoveExperiment
      <3>2. QED
        BY <3>1 DEF ServiceKeysRouted
    <2>3. QED
      BY <2>1, <2>2
  <1>6. ASSUME NEW kind \in Kinds, NEW k \in Targets,
               NEW action \in Events, MarkTarget(kind, k, action)
        PROVE  ServiceKeysRouted'
    <2> DEFINE e == IF kind = "Deployment" THEN deployment2Experiment[k]
                                           ELSE service2Experiment[k]
    <2>1. e # Nil
      BY <1>6 DEF MarkTarget
    <2>2. e \in Experiments /\ experimentAbstractStore[e] # Nil
      BY <2>1, EntryIsRegistered, NilAssumption
    <2>3. /\ experimentAbstractStore' = [experimentAbstractStore EXCEPT ![e].targetAction = action]
          /\ UNCHANGED service2Experiment
      BY <1>6 DEF MarkTarget
    <2> HIDE DEF e
    <2>4. QED
      BY <1>2, <2>2, <2>3, EventsAssumption DEF Actions
  <1>7. ASSUME NEW e \in Experiments, Aside(e)
        PROVE  UNCHANGED adapterVars
    BY <1>7, AsideKeepsMaps
  <1>8. ASSUME NEW e \in Experiments, NEW spec \in Specs, RejectExperiment(e, spec)
        PROVE  UNCHANGED adapterVars
    BY <1>8 DEF RejectExperiment
  <1>9. ASSUME NEW kind \in Kinds, TargetToExperiment(kind)
        PROVE  UNCHANGED adapterVars
    BY <1>9 DEF TargetToExperiment
  <1>10. CASE UNCHANGED vars
    BY <1>1, <1>10 DEF vars
  <1>11. QED
    BY <1>1, <1>3, <1>4, <1>5, <1>6, <1>7, <1>8, <1>9, <1>10
       DEF Next, Worker, Informer, Aside

-----------------------------------------------------------------------------
\* No step loses an event between the two lock sections of the Service informer.
\* The lemma needs the rest of the invariant: the key that is being handled leads
\* back to the experiment that was marked only because Services are exclusive.
LEMMA MarkStep ==
    TypeOK /\ NoDanglingEntry /\ ServiceKeysRouted /\ MarkReachesQueue /\ [Next]_vars
        => MarkReachesQueue'
  <1> SUFFICES ASSUME TypeOK, NoDanglingEntry, ServiceKeysRouted, MarkReachesQueue, [Next]_vars,
                      NEW x \in Experiments,
                      cached'[x] \in {"new", "running"}, x \notin dropped',
                      experimentAbstractStore'[x] # Nil,
                      experimentAbstractStore'[x].deploymentKeys = {},
                      experimentAbstractStore'[x].targetAction # ""
               PROVE  \/ x \in queue'
                      \/ At(x, "taken", {"new", "running"})'
                      \/ informer'["Service"].target \in experimentAbstractStore'[x].serviceKeys
    BY DEF MarkReachesQueue
  <1> DEFINE taken == At(x, "taken", {"new", "running"})
             takenNext == At(x, "taken", {"new", "running"})'
             Reached == \/ x \in queue'
                        \/ takenNext
                        \/ informer'["Service"].target \in experimentAbstractStore'[x].serviceKeys
  \* Before the step the event had not been lost, unless the step is the mark.
  <1>1. ASSUME experimentAbstractStore'[x] = experimentAbstractStore[x],
               cached[x] \in {"new", "running"}, x \notin dropped
        PROVE  x \in queue \/ taken
                   \/ informer["Service"].target \in experimentAbstractStore[x].serviceKeys
    BY <1>1 DEF MarkReachesQueue
  <1>2. ASSUME NEW e \in Experiments, Create(e) \/ Delete(e) \/ Submit(e)
        PROVE  Reached
    <2>1. /\ UNCHANGED <<adapterVars, informer, worker, cached, dropped>>
          /\ queue \subseteq queue'
      BY <1>2 DEF Create, Delete, Submit, objectVars
    <2>2. QED
      BY <1>1, <2>1 DEF adapterVars, At
  \* What the cache learns of an experiment that it did not have, or had
  \* completed, is the creation of an object.
  <1>3. ASSUME NEW e \in Experiments, Sync(e)
        PROVE  Reached
    <2>1. /\ UNCHANGED <<adapterVars, informer, worker, dropped>>
          /\ queue \subseteq queue'
      BY <1>3 DEF Sync
    <2>2. CASE cached[x] \in {"new", "running"}
      BY <1>1, <2>1, <2>2 DEF adapterVars, At
    <2>3. CASE cached[x] \notin {"new", "running"}
      <3>1. x = e
        BY <1>3, <2>3 DEF Sync, TypeOK
      <3>2. cached[x] \in {"absent", "completed"}
        BY <2>3 DEF TypeOK, Phases
      <3>3. QED
        BY <1>3, <3>1, <3>2 DEF Sync
    <2>4. QED
      BY <2>2, <2>3
  <1>4. ASSUME NEW e \in Experiments, Dequeue(e)
        PROVE  Reached
    <2>1. CASE e = x
      BY <1>4, <2>1 DEF Dequeue, At, objectVars
    <2>2. CASE e # x
      <3>1. ~taken
        BY <1>4 DEF Dequeue, IdleWorker, At
      <3>2. x \in queue
                \/ informer["Service"].target \in experimentAbstractStore[x].serviceKeys
        BY <1>1, <1>4, <2>2, <3>1 DEF Dequeue, adapterVars, objectVars
      <3>3. QED
        BY <1>4, <2>2, <3>2 DEF Dequeue, adapterVars
    <2>3. QED
      BY <2>1, <2>2
  \* Who takes the action, removes the entry or ends is not the experiment that waits.
  <1>5. ASSUME ~taken, experimentAbstractStore'[x] = experimentAbstractStore[x],
               UNCHANGED <<informer, queue, cached>>, x \notin dropped
        PROVE  Reached
    BY <1>1, <1>5
  <1>6. ASSUME NEW e \in Experiments,
               NotToProceed(e) \/ FinalizeCompleted(e) \/ EndRequest(e)
        PROVE  Reached
    <2>1. ~taken
      BY <1>6 DEF NotToProceed, FinalizeCompleted, EndRequest, At
    <2>2. UNCHANGED <<adapterVars, informer, queue, cached, dropped>>
      BY <1>6 DEF NotToProceed, FinalizeCompleted, EndRequest, objectVars
    <2>3. QED
      BY <1>5, <2>1, <2>2 DEF adapterVars
  <1>7. ASSUME NEW e \in Experiments, EndUninitialized(e) \/ Finalize(e)
        PROVE  Reached
    <2>1. /\ e # x /\ x \notin dropped
          /\ UNCHANGED <<adapterVars, informer, queue, cached>>
      BY <1>7 DEF EndUninitialized, Finalize
    <2>2. ~taken
      BY <1>7, <2>1 DEF EndUninitialized, Finalize, At
    <2>3. QED
      BY <1>5, <2>1, <2>2 DEF adapterVars
  <1>8. ASSUME NEW e \in Experiments, InitStatus(e)
        PROVE  Reached
    <2>1. UNCHANGED <<adapterVars, informer, queue, cached, dropped>>
      BY <1>8 DEF InitStatus
    <2>2. taken => takenNext
      BY <1>8 DEF InitStatus, At, TypeOK
    <2>3. QED
      BY <1>1, <2>1, <2>2 DEF adapterVars
  <1>9. ASSUME NEW e \in Experiments, TakeAction(e)
        PROVE  Reached
    <2>1. e # x
      <3>1. /\ experimentAbstractStore[e] \in Abstract
            /\ experimentAbstractStore' =
                   [experimentAbstractStore EXCEPT ![e].targetAction = ""]
        BY <1>9 DEF TakeAction, TypeOK
      <3>2. experimentAbstractStore'[e].targetAction = ""
        BY <3>1 DEF TypeOK, Abstract
      <3>3. QED
        BY <3>2
    <2>2. ~taken
      BY <1>9, <2>1 DEF TakeAction, At
    <2>3. QED
      BY <1>5, <1>9, <2>1, <2>2 DEF TakeAction, TypeOK, objectVars
  <1>10. ASSUME NEW e \in Experiments, NEW spec \in Specs, RegisterExperiment(e, spec)
         PROVE  Reached
    <2>1. e # x
      BY <1>10 DEF RegisterExperiment, newExperiment, TypeOK
    <2>2. ~taken
      BY <1>10, <2>1 DEF RegisterExperiment, At
    <2>3. QED
      BY <1>5, <1>10, <2>1, <2>2 DEF RegisterExperiment, TypeOK, objectVars
  <1>11. ASSUME NEW e \in Experiments, NEW spec \in Specs, RejectExperiment(e, spec)
         PROVE  Reached
    <2>1. e # x /\ experimentAbstractStore'[x] = experimentAbstractStore[x]
      BY <1>11 DEF RejectExperiment, adapterVars
    <2>2. ~taken
      BY <1>11, <2>1 DEF RejectExperiment, At
    <2>3. QED
      BY <1>5, <1>11, <2>1, <2>2 DEF RejectExperiment, objectVars
  <1>12. ASSUME NEW e \in Experiments, RemoveExperiment(e)
         PROVE  Reached
    <2>1. e # x /\ experimentAbstractStore'[x] = experimentAbstractStore[x]
      BY <1>12 DEF RemoveExperiment, adapterVars, TypeOK
    <2>2. ~taken
      BY <1>12, <2>1 DEF RemoveExperiment, Completing, At
    <2>3. QED
      BY <1>5, <1>12, <2>1, <2>2 DEF RemoveExperiment, objectVars
  <1>13. ASSUME NEW e \in Experiments, Retry(e)
         PROVE  Reached
    <2>1. CASE e = x
      BY <1>13, <2>1 DEF Retry
    <2>2. CASE e # x
      <3>1. /\ UNCHANGED <<adapterVars, informer, cached, dropped>>
            /\ queue \subseteq queue'
        BY <1>13 DEF Retry
      <3>2. ~taken
        BY <1>13, <2>2 DEF Retry, At
      <3>3. QED
        BY <1>1, <3>1, <3>2 DEF adapterVars
    <2>3. QED
      BY <2>1, <2>2
  <1>14. ASSUME NEW kind \in Kinds, NEW k \in Targets,
                NEW action \in Events, MarkTarget(kind, k, action)
         PROVE  Reached
    <2> DEFINE e == IF kind = "Deployment" THEN deployment2Experiment[k]
                                           ELSE service2Experiment[k]
    <2>1. e # Nil
      BY <1>14 DEF MarkTarget
    <2>2. e \in Experiments /\ experimentAbstractStore[e] \in Abstract
      BY <2>1, EntryIsRegistered
    <2>3. /\ experimentAbstractStore' = [experimentAbstractStore EXCEPT ![e].targetAction = action]
          /\ informer' = [informer EXCEPT ![kind] = [target |-> k]]
          /\ informer[kind] = NoEvent
          /\ UNCHANGED <<queue, worker, cached, dropped>>
      BY <1>14 DEF MarkTarget, objectVars
    <2>4. kind = "Service" => k \in experimentAbstractStore[e].serviceKeys
      BY <2>1 DEF NoDanglingEntry
    <2>5. kind = "Deployment" => k \in experimentAbstractStore[e].deploymentKeys
      BY <2>1 DEF NoDanglingEntry
    <2> HIDE DEF e
    <2>6. CASE e = x
      <3>1. /\ experimentAbstractStore'[x].deploymentKeys =
                  experimentAbstractStore[x].deploymentKeys
            /\ experimentAbstractStore'[x].serviceKeys = experimentAbstractStore[x].serviceKeys
        BY <2>2, <2>3, <2>6 DEF TypeOK, Abstract
      <3>2. kind = "Service"
        BY <2>5, <2>6, <3>1 DEF Kinds
      <3>3. informer'["Service"].target = k
        BY <2>3, <3>2 DEF TypeOK
      <3>4. QED
        BY <2>4, <2>6, <3>1, <3>2, <3>3
    <2>7. CASE e # x
      <3>1. experimentAbstractStore'[x] = experimentAbstractStore[x]
        BY <2>2, <2>3, <2>7 DEF TypeOK
      <3>2. x \in queue \/ taken
                \/ informer["Service"].target \in experimentAbstractStore[x].serviceKeys
        BY <1>1, <2>3, <3>1
      <3>3. kind = "Service" =>
                informer["Service"].target \notin experimentAbstractStore[x].serviceKeys
        <4>1. experimentAbstractStore[x].serviceKeys \subseteq Targets
          BY <3>1 DEF TypeOK, Abstract
        <4>2. Nil \notin Targets
          BY NilAssumption
        <4>3. informer[kind].target = Nil
          <5>1. NoEvent.target = Nil
            BY DEF NoEvent
          <5>2. QED
            BY <2>3, <5>1
        <4>4. QED
          BY <4>1, <4>2, <4>3
      <3>4. kind # "Service" => informer'["Service"] = informer["Service"]
        BY <2>3 DEF TypeOK, Kinds
      <3>5. taken => takenNext
        BY <2>3 DEF At
      <3>6. QED
        BY <2>3, <3>1, <3>2, <3>3, <3>4, <3>5
    <2>8. QED
      BY <2>6, <2>7
  <1>15. ASSUME NEW kind \in Kinds, TargetToExperiment(kind)
         PROVE  Reached
    <2>1. /\ experimentAbstractStore' = experimentAbstractStore
          /\ UNCHANGED <<worker, cached, dropped>>
          /\ queue' = queue \cup ({TargetOwner(kind)} \ {Nil})
          /\ informer' = [informer EXCEPT ![kind] = NoEvent]
      BY <1>15 DEF TargetToExperiment, adapterVars, objectVars
    <2>2. x \in queue \/ taken
              \/ informer["Service"].target \in experimentAbstractStore[x].serviceKeys
      BY <1>1, <2>1
    <2>3. CASE kind = "Service"
                 /\ informer["Service"].target \in experimentAbstractStore[x].serviceKeys
      <3>1. service2Experiment[informer["Service"].target] = x
        BY <2>1, <2>3 DEF ServiceKeysRouted
      <3>2. TargetOwner(kind) = x
        BY <2>3, <3>1 DEF TargetOwner
      <3>3. x # Nil
        BY NilAssumption
      <3>4. QED
        BY <2>1, <3>2, <3>3
    <2>4. taken => takenNext
      BY <2>1 DEF At
    <2>5. CASE kind # "Service"
      <3>1. informer'["Service"] = informer["Service"]
        BY <2>1, <2>5 DEF TypeOK, Kinds
      <3>2. QED
        BY <2>1, <2>2, <2>4, <3>1
    <2>6. QED
      BY <2>1, <2>2, <2>3, <2>4, <2>5
  <1>16. CASE UNCHANGED vars
    BY <1>1, <1>16 DEF vars, adapterVars, objectVars, At
  <1>17. QED
    BY <1>2, <1>3, <1>4, <1>6, <1>7, <1>8, <1>9, <1>10, <1>11, <1>12, <1>13, <1>14, <1>15, <1>16
       DEF Next, Object, Worker, Informer

-----------------------------------------------------------------------------
\* The inductive invariant of the adapter.
AdapterInv == TypeOK /\ NoDanglingEntry /\ ServiceKeysRouted /\ MarkReachesQueue

LEMMA InitInv == Init => AdapterInv
  BY NilAssumption, IdleTyped
     DEF Init, AdapterInv, TypeOK, NoDanglingEntry, ServiceKeysRouted, MarkReachesQueue,
         NoEvent, Phases

LEMMA StepInv == AdapterInv /\ [Next]_vars => AdapterInv'
  BY TypeStep, NoDanglingStep, ServiceKeysStep, MarkStep DEF AdapterInv

THEOREM AdapterInvariant == Spec => []AdapterInv
  BY InitInv, StepInv, PTL DEF Spec

\* The adapter's maps keep their types (adapter.go:48-63).
THEOREM TypeCorrect == Spec => []TypeOK
  BY AdapterInvariant, PTL DEF AdapterInv

\* An informer that marks a target never follows a dangling entry, however
\* registrations, removals and watch events interleave (adapter.go:132-208).
THEOREM NoCrashOnMark == Spec => []NoDanglingEntry
  BY AdapterInvariant, PTL DEF AdapterInv

\* A mark of a target of an experiment on Services is on its way to the worker as
\* long as the cache holds the experiment and not as completed: between the lock
\* section of the watch predicate and that of the map function no registration,
\* removal, other event or change of the experiment object loses it
\* (adapter.go:132-208), and neither does a pass, unless it fails to initialise the
\* status or finalizes without RemoveExperiment (experiment_controller.go:278-325).
THEOREM MarksAreHandled == Spec => []MarkReachesQueue
  BY AdapterInvariant, PTL DEF AdapterInv

\* No Service is involved in two registered experiments (adapter.go:231-261).
THEOREM ServicesExclusive == Spec => []ServiceKeysRouted
  BY AdapterInvariant, PTL DEF AdapterInv
==============================================================================
