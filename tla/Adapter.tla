------------------------------- MODULE Adapter -------------------------------
(***************************************************************************)
(* The iter8 adapter (pkg/controller/experiment/adapter): the in-memory    *)
(* store that tells which experiment a Deployment or a Service belongs to. *)
(* Three kinds of goroutine use it, one lock section at a time: the single *)
(* reconcile worker registers and removes experiments; the Deployment      *)
(* informer and the Service informer mark an experiment when one of its    *)
(* targets appears or disappears (the predicate) and then, in a second     *)
(* lock section, look the experiment up to enqueue it (the map function).  *)
(* How far an experiment object has come decides whether a pass reaches    *)
(* the adapter at all: the worker reads that from a cache that lags.       *)
(* A key (namespace/name) is an abstract member of Targets or Experiments. *)
(***************************************************************************)
EXTENDS FiniteSets

CONSTANTS
    Experiments,  \* keys of experiment objects
    Targets,      \* keys of Deployments and of Services
    Specs,        \* the service sections an experiment may be created with
    Events,       \* the target events that occur
    Nil           \* a missing map entry, an empty service name

Kinds == {"Deployment", "Service"}
Actions == {"", "detected", "deleted"}
Abstract == [serviceKeys : SUBSET Targets, deploymentKeys : SUBSET Targets,
             targetAction : Actions]

\* An experiment object: none, without InitTimestamp, initialised, completed.
Phases == {"absent", "new", "running", "completed"}
Stages == {"idle", "taken", "registered", "finalizing", "completing"}

ASSUME EventsAssumption == Events \subseteq {"detected", "deleted"}

ASSUME NilAssumption == Nil \notin Experiments \cup Targets \cup Abstract

ASSUME SpecsAssumption ==
    Specs \subseteq [kind : Kinds, name : Targets \cup {Nil},
                     baseline : Targets, candidates : SUBSET Targets]

VARIABLES
    experimentAbstractStore,  \* experiment key -> abstract, or Nil
    deployment2Experiment,    \* deployment key -> experiment key, or Nil
    service2Experiment,       \* service key -> experiment key, or Nil
    informer,                 \* per kind, the watch event being handled
    queue,                    \* the work queue's dirty set
    worker,                   \* the reconcile worker, with its copy of the object
    object,                   \* experiment key -> the phase of its object
    cached,                   \* the same in the cache of the experiment informer
    dropped                   \* history: whose last pass ended, not to be repeated,
                              \* without the adapter, though not completed in its copy

adapterVars == <<experimentAbstractStore, deployment2Experiment, service2Experiment>>
objectVars == <<object, cached>>
vars == <<adapterVars, informer, queue, worker, objectVars, dropped>>

NoEvent == [target |-> Nil]
IdleWorker == [exp |-> Nil, stage |-> "idle", copy |-> "absent"]
At(e, stage, copies) == worker.exp = e /\ worker.stage = stage /\ worker.copy \in copies

-----------------------------------------------------------------------------
\* Keys an experiment claims, and the checks made before it may claim them.

ServiceKeys(spec) ==
    {k \in {spec.name} : k # Nil}
        \cup {k \in {spec.baseline} \cup spec.candidates : spec.kind = "Service"}

DeploymentKeys(spec) ==
    {k \in {spec.baseline} \cup spec.candidates : spec.kind = "Deployment"}

checkNameAndBaseline(spec) ==  \* a mutant
    \A k \in ServiceKeys(spec) \ spec.candidates : service2Experiment[k] = Nil

checkAndGetServices(spec) ==
    \A k \in ServiceKeys(spec) : service2Experiment[k] = Nil

\* A candidate deployment is looked up in the map of services, as the code does.
checkAndGetDeployments(spec) ==
    spec.kind = "Deployment" =>
        /\ deployment2Experiment[spec.baseline] = Nil
        /\ \A c \in spec.candidates : service2Experiment[c] = Nil

newExperiment(spec) ==
    [serviceKeys |-> ServiceKeys(spec), deploymentKeys |-> DeploymentKeys(spec),
     targetAction |-> ""]

-----------------------------------------------------------------------------
Init ==
    /\ experimentAbstractStore = [e \in Experiments |-> Nil]
    /\ deployment2Experiment = [k \in Targets |-> Nil]
    /\ service2Experiment = [k \in Targets |-> Nil]
    /\ informer = [kind \in Kinds |-> NoEvent]
    /\ queue = {}
    /\ worker = IdleWorker
    /\ object = [e \in Experiments |-> "absent"]
    /\ cached = [e \in Experiments |-> "absent"]
    /\ dropped = {}

-----------------------------------------------------------------------------
\* The experiment objects and their informer.

Create(e) ==
    /\ object[e] = "absent"
    /\ object' = [object EXCEPT ![e] = "new"]
    /\ UNCHANGED <<adapterVars, informer, queue, worker, cached, dropped>>

\* An object without a finalizer (a conflict of its addition is ignored) is gone
\* as soon as it is deleted.
Delete(e) ==
    /\ object[e] # "absent"
    /\ object' = [object EXCEPT ![e] = "absent"]
    /\ UNCHANGED <<adapterVars, informer, queue, worker, cached, dropped>>

\* The cache catches up. Events of creation and deletion pass the predicates,
\* those of status updates do not.
Sync(e) ==
    /\ cached[e] # object[e]
    /\ cached' = [cached EXCEPT ![e] = object[e]]
    /\ queue' = IF object[e] = "absent" \/ cached[e] \in {"absent", "completed"}
                  THEN queue \cup {e} ELSE queue
    /\ UNCHANGED <<adapterVars, informer, worker, object, dropped>>

\* An edit of the experiment, a deletion that its finalizer holds up, its timer
\* or a requeue makes it dirty.
Submit(e) ==
    /\ queue' = queue \cup {e}
    /\ UNCHANGED <<adapterVars, informer, worker, objectVars, dropped>>

-----------------------------------------------------------------------------
\* A pass of the worker, up to the adapter and from there to its end.

Dequeue(e) ==
    /\ worker = IdleWorker
    /\ e \in queue
    /\ queue' = queue \ {e}
    /\ worker' = [exp |-> e, stage |-> "taken", copy |-> cached[e]]
    /\ dropped' = dropped \ {e}
    /\ UNCHANGED <<adapterVars, informer, objectVars>>

\* Without an object, or with a completed one, the pass ends where it began.
NotToProceed(e) ==
    /\ At(e, "taken", {"absent", "completed"})
    /\ worker' = IdleWorker
    /\ UNCHANGED <<adapterVars, informer, queue, objectVars, dropped>>

\* finalize of a completed object only removes the finalizer.
FinalizeCompleted(e) ==
    /\ At(e, "taken", {"completed"})
    /\ object[e] = "completed"
    /\ object' = [object EXCEPT ![e] = "absent"]
    /\ worker' = IdleWorker
    /\ UNCHANGED <<adapterVars, informer, queue, cached, dropped>>

\* A status write that moves the object from one phase to the next, or is lost
\* to a conflict or an error.
WriteStatus(e, from, to) ==
    \/ object' = [object EXCEPT ![e] = IF @ = from THEN to ELSE @]
    \/ UNCHANGED object

\* InitStatus and its write, where a conflict is no error.
InitStatus(e) ==
    /\ At(e, "taken", {"new"})
    /\ WriteStatus(e, "new", "running")
    /\ worker' = [worker EXCEPT !.copy = "running"]
    /\ UNCHANGED <<adapterVars, informer, queue, cached, dropped>>

\* The specification is invalid, or the first status write fails: no requeue.
EndUninitialized(e) ==
    /\ At(e, "taken", {"new"})
    /\ WriteStatus(e, "new", "running")
    /\ worker' = IdleWorker
    /\ dropped' = dropped \cup {e}
    /\ UNCHANGED <<adapterVars, informer, queue, cached>>

\* RegisterExperiment of an experiment in the store: only GetAction, which
\* hands the pending action to the reconcile and clears it.
TakeAction(e) ==
    /\ At(e, "taken", {"running"})
    /\ experimentAbstractStore[e] # Nil
    /\ experimentAbstractStore' = [experimentAbstractStore EXCEPT ![e].targetAction = ""]
    /\ worker' = [worker EXCEPT !.stage = "registered"]
    /\ UNCHANGED <<deployment2Experiment, service2Experiment, informer, queue,
                   objectVars, dropped>>

\* RegisterExperiment of a new experiment whose keys pass both checks.
RegisterExperiment(e, spec) ==
    /\ At(e, "taken", {"running"})
    /\ experimentAbstractStore[e] = Nil
    /\ checkAndGetServices(spec)
    /\ checkAndGetDeployments(spec)
    /\ experimentAbstractStore' = [experimentAbstractStore EXCEPT ![e] = newExperiment(spec)]
    /\ service2Experiment' =
           [k \in Targets |-> IF k \in ServiceKeys(spec) THEN e ELSE service2Experiment[k]]
    /\ deployment2Experiment' =
           [k \in Targets |-> IF k \in DeploymentKeys(spec) THEN e ELSE deployment2Experiment[k]]
    /\ worker' = [worker EXCEPT !.stage = "registered"]
    /\ UNCHANGED <<informer, queue, objectVars, dropped>>

\* RegisterExperiment refuses: the reconcile records the error and ends.
RejectExperiment(e, spec) ==
    /\ At(e, "taken", {"running"})
    /\ experimentAbstractStore[e] = Nil
    /\ ~(checkAndGetServices(spec) /\ checkAndGetDeployments(spec))
    /\ worker' = IdleWorker
    /\ UNCHANGED <<adapterVars, informer, queue, objectVars, dropped>>

\* completeExperiment goes on from a registered pass, or from finalize, which
\* does not register.
Completing(e) ==
    /\ At(e, worker.stage, {"running"})
    /\ \/ worker.stage = "taken" /\ worker' = [worker EXCEPT !.stage = "finalizing"]
       \/ worker.stage = "registered" /\ worker' = [worker EXCEPT !.stage = "completing"]

\* A mutant: only the services are unregistered.
RemoveServices(e) ==
    /\ Completing(e)
    /\ IF experimentAbstractStore[e] = Nil
         THEN UNCHANGED adapterVars
         ELSE /\ service2Experiment' =
                     [k \in Targets |-> IF k \in experimentAbstractStore[e].serviceKeys
                                          THEN Nil ELSE service2Experiment[k]]
              /\ experimentAbstractStore' = [experimentAbstractStore EXCEPT ![e] = Nil]
              /\ UNCHANGED deployment2Experiment
    /\ UNCHANGED <<informer, queue, objectVars, dropped>>

\* completeExperiment begins with RemoveExperiment.
RemoveExperiment(e) ==
    /\ Completing(e)
    /\ IF experimentAbstractStore[e] = Nil
         THEN UNCHANGED adapterVars
         ELSE /\ service2Experiment' =
                     [k \in Targets |-> IF k \in experimentAbstractStore[e].serviceKeys
                                          THEN Nil ELSE service2Experiment[k]]
              /\ deployment2Experiment' =
                     [k \in Targets |-> IF k \in experimentAbstractStore[e].deploymentKeys
                                          THEN Nil ELSE deployment2Experiment[k]]
              /\ experimentAbstractStore' = [experimentAbstractStore EXCEPT ![e] = Nil]
    /\ UNCHANGED <<informer, queue, objectVars, dropped>>

\* A registered pass ends without a requeue: nothing is completed, or the
\* completion is written.
EndRequest(e) ==
    /\ \/ At(e, "registered", {"running"}) /\ UNCHANGED object
       \/ At(e, "completing", {"running"}) /\ WriteStatus(e, "running", "completed")
    /\ worker' = IdleWorker
    /\ UNCHANGED <<adapterVars, informer, queue, cached, dropped>>

\* finalize removes the finalizer, whether or not its pass came to RemoveExperiment.
Finalize(e) ==
    /\ At(e, "taken", {"running"}) \/ At(e, "finalizing", {"running"})
    /\ object[e] \in {"running", "completed"}
    /\ object' = [object EXCEPT ![e] = "absent"]
    /\ worker' = IdleWorker
    /\ dropped' = dropped \cup {e}
    /\ UNCHANGED <<adapterVars, informer, queue, cached>>

\* The pass is to be repeated: the Get, the addition or the removal of the
\* finalizer fails, or the completion after RemoveExperiment. The status that
\* finalize wrote before it failed to remove the finalizer stays.
Retry(e) ==
    /\ \/ At(e, "taken", Phases) /\ UNCHANGED object
       \/ At(e, "completing", {"running"}) /\ UNCHANGED object
       \/ At(e, "finalizing", {"running"}) /\ WriteStatus(e, "running", "completed")
    /\ worker' = IdleWorker
    /\ queue' = queue \cup {e}
    /\ UNCHANGED <<adapterVars, informer, cached, dropped>>

-----------------------------------------------------------------------------
\* Mark{Deployment,Service}{Detected,Deleted}, called by a watch predicate: an
\* event of an unknown target is dropped.
MarkTarget(kind, k, action) ==
    LET e == IF kind = "Deployment" THEN deployment2Experiment[k] ELSE service2Experiment[k]
    IN  /\ informer[kind] = NoEvent
        /\ e # Nil
        /\ experimentAbstractStore' = [experimentAbstractStore EXCEPT ![e].targetAction = action]
        /\ informer' = [informer EXCEPT ![kind] = [target |-> k]]
        /\ UNCHANGED <<deployment2Experiment, service2Experiment, queue, worker,
                       objectVars, dropped>>

DeploymentOwner(kind) == deployment2Experiment[informer[kind].target]  \* a mutant

\* {Deployment,Service}ToExperiment.
TargetOwner(kind) ==
    LET k == informer[kind].target
    IN  IF kind = "Deployment" THEN deployment2Experiment[k] ELSE service2Experiment[k]

\* A mutant: the result of the lookup is not tested.
EnqueueUnchecked(kind) ==
    /\ informer[kind] # NoEvent
    /\ queue' = queue \cup {TargetOwner(kind)}
    /\ informer' = [informer EXCEPT ![kind] = NoEvent]
    /\ UNCHANGED <<adapterVars, worker, objectVars, dropped>>

\* The watch's map function enqueues the experiment it finds.
TargetToExperiment(kind) ==
    /\ informer[kind] # NoEvent
    /\ queue' = queue \cup ({TargetOwner(kind)} \ {Nil})
    /\ informer' = [informer EXCEPT ![kind] = NoEvent]
    /\ UNCHANGED <<adapterVars, worker, objectVars, dropped>>

Object(e) == Create(e) \/ Delete(e) \/ Sync(e) \/ Submit(e)

Worker(e) ==
    \/ Dequeue(e)
    \/ NotToProceed(e)
    \/ FinalizeCompleted(e)
    \/ InitStatus(e)
    \/ EndUninitialized(e)
    \/ TakeAction(e)
    \/ \E spec \in Specs : RegisterExperiment(e, spec)
    \/ \E spec \in Specs : RejectExperiment(e, spec)
    \/ RemoveExperiment(e)
    \/ EndRequest(e)
    \/ Finalize(e)
    \/ Retry(e)

Informer(kind) ==
    \/ \E k \in Targets, action \in Events : MarkTarget(kind, k, action)
    \/ TargetToExperiment(kind)

Next ==
    \/ \E e \in Experiments : Object(e) \/ Worker(e)
    \/ \E kind \in Kinds : Informer(kind)

Spec == Init /\ [][Next]_vars

-----------------------------------------------------------------------------
\* The shape of the adapter's maps, of the queue and of the goroutines' states.
TypeOK ==
    /\ experimentAbstractStore \in [Experiments -> Abstract \cup {Nil}]
    /\ deployment2Experiment \in [Targets -> Experiments \cup {Nil}]
    /\ service2Experiment \in [Targets -> Experiments \cup {Nil}]
    /\ informer \in [Kinds -> [target : Targets \cup {Nil}]]
    /\ queue \subseteq Experiments
    /\ worker \in [exp : Experiments \cup {Nil}, stage : Stages, copy : Phases]
    /\ object \in [Experiments -> Phases]
    /\ cached \in [Experiments -> Phases]
    /\ dropped \subseteq Experiments

\* Every entry of the two lookup maps names an experiment that is in the store
\* and that owns the key. The Mark functions index the store with the entry
\* and call a method on the result: a dangling entry would crash an informer.
NoDanglingEntry ==
    /\ \A k \in Targets : service2Experiment[k] # Nil =>
           /\ experimentAbstractStore[service2Experiment[k]] # Nil
           /\ k \in experimentAbstractStore[service2Experiment[k]].serviceKeys
    /\ \A k \in Targets : deployment2Experiment[k] # Nil =>
           /\ experimentAbstractStore[deployment2Experiment[k]] # Nil
           /\ k \in experimentAbstractStore[deployment2Experiment[k]].deploymentKeys

\* A registered experiment receives the events of every Service it claims, so
\* no Service is involved in two experiments at a time (checkAndGetServices).
ServiceKeysRouted ==
    \A e \in Experiments : experimentAbstractStore[e] # Nil =>
        \A k \in experimentAbstractStore[e].serviceKeys : service2Experiment[k] = e

\* The same of Deployments: what the message "Candidate %s is being involved in
\* other experiment" of checkAndGetDeployments says is refused.
DeploymentKeysRouted ==
    \A e \in Experiments : experimentAbstractStore[e] # Nil =>
        \A k \in experimentAbstractStore[e].deploymentKeys : deployment2Experiment[k] = e

\* No target event is lost between the predicate and the map function, however
\* they interleave with the worker: a pending action of an experiment on Services
\* that the cache knows and not as completed is handled yet. The experiment is
\* dirty, or the worker is about to take the action, or the informer is about to
\* enqueue it. The exceptions are passes that end before the adapter and are not
\* repeated: one that fails to initialise the status, and one that finalizes
\* without reaching RemoveExperiment (dropped). A completed experiment that is
\* still registered keeps its action: the worker returns at NotToProceed.
MarkReachesQueue ==
    \A e \in Experiments :
        /\ cached[e] \in {"new", "running"}
        /\ e \notin dropped
        /\ experimentAbstractStore[e] # Nil
        /\ experimentAbstractStore[e].deploymentKeys = {}
        /\ experimentAbstractStore[e].targetAction # ""
        => \/ e \in queue
           \/ At(e, "taken", {"new", "running"})
           \/ informer["Service"].target \in experimentAbstractStore[e].serviceKeys
==============================================================================
