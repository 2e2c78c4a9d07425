---------------------------- MODULE ExperimentAPI ----------------------------
(***************************************************************************)
(* The Experiment object (pkg/apis/iter8/v1alpha2) and the pure functions  *)
(* of the controller on it.  Kept of the object: what the controller's     *)
(* control flow reads.  A condition is one value: its status together with *)
(* its reason and message where the code tells them apart.  Timestamps are *)
(* abstracted to what toProcessIteration asks of LastUpdateTime.           *)
(***************************************************************************)
EXTENDS Integers, FiniteSets

CONSTANTS
    Baseline, Candidates,  \* the versions under experiment
    NoWinner, NoSplit,     \* winner not found; no trafficSplit in manualOverride
    Splits,                \* trafficSplits a user may give with terminate
    Criteria,              \* does the spec have criteria (analytics is used)
    Validity,              \* may service specs pass, or not, Spec.Validate
    Cleanup,               \* spec.cleanup
    OnTermination,         \* spec.trafficControl.onTermination
    MaxIterations, MaxIncrement

Versions == {Baseline} \cup Candidates
Traffic == [Versions -> Nat]
OnTerminations == {"to_winner", "to_baseline", "keep_last"}

ASSUME VersionsAssumption ==
    /\ Baseline \notin Candidates
    /\ IsFiniteSet(Candidates)
    /\ NoWinner \notin Versions
    /\ NoSplit \notin Traffic
    /\ Splits \subseteq Traffic

ASSUME ParametersAssumption ==
    /\ {Criteria, Cleanup} \subseteq BOOLEAN
    /\ Validity \subseteq BOOLEAN
    /\ OnTermination \in OnTerminations
    /\ MaxIterations \in Nat
    /\ MaxIncrement \in Nat

-----------------------------------------------------------------------------
Overrides == {"none", "pause", "resume", "terminate"}
Phases == {"", "Progressing", "Pause", "Completed"}
Missing == [service |-> "Missing Service", baseline |-> "Missing Baseline",
            candidate |-> "Missing Candidate"]
Deleted == [service |-> "Service Deleted", baseline |-> "Baseline Deleted",
            candidate |-> "Candidate Deleted"]
TargetsRoles == DOMAIN Missing
TargetsConditions ==
    {"Unknown", "Found", "Invalid"}
        \cup {Missing[role] : role \in TargetsRoles} \cup {Deleted[role] : role \in TargetsRoles}
Conditions == {"Unknown", "True", "False"}

Status == [inited : BOOLEAN, phase : Phases, iteration : Nat,
           last : {"never", "recent", "elapsed"},
           targets : TargetsConditions, metricsSynced : Conditions,
           analytics : Conditions, rulesReady : Conditions,
           completed : BOOLEAN, weight : Traffic, winner : Versions \cup {NoWinner}]

Object == [valid : BOOLEAN, exists : BOOLEAN, finalizer : BOOLEAN, deleting : BOOLEAN,
           override : Overrides, split : Splits \cup {NoSplit},
           metrics : BOOLEAN, status : Status]

NoTraffic == [v \in Versions |-> 0]
AllTo(w) == [v \in Versions |-> IF v = w THEN 100 ELSE 0]

EmptyStatus ==
    [inited |-> FALSE, phase |-> "", iteration |-> 0, last |-> "never",
     targets |-> "Unknown", metricsSynced |-> "Unknown", analytics |-> "Unknown",
     rulesReady |-> "Unknown", completed |-> FALSE, weight |-> NoTraffic,
     winner |-> NoWinner]

\* An object as a user creates it; valid tells whether its spec passes Spec.Validate.
NewObject ==
    [valid |-> TRUE, exists |-> TRUE, finalizer |-> FALSE, deleting |-> FALSE, override |-> "none",
     split |-> NoSplit, metrics |-> FALSE, status |-> EmptyStatus]

-----------------------------------------------------------------------------
\* Status methods: each takes the object and returns it changed.

InitStatus(x) ==
    [x EXCEPT !.status.inited = TRUE, !.status.phase = "Progressing",
              !.status.iteration = 0, !.status.weight = NoTraffic]

\* A mutant: the phase stays.
MarkTargetsErrorOnly(x, reason) == [x EXCEPT !.status.targets = reason]

MarkTargetsError(x, reason) ==
    [x EXCEPT !.status.phase = "Pause", !.status.targets = reason]

MarkRoutingRulesError(x) ==
    [x EXCEPT !.status.phase = "Pause", !.status.rulesReady = "False"]

MarkAnalyticsServiceError(x) ==
    [x EXCEPT !.status.phase = "Pause", !.status.analytics = "False"]

MarkMetricsSyncedError(x) ==
    [x EXCEPT !.status.phase = "Pause", !.status.metricsSynced = "False"]

MarkTargetsAndRulesReady(x) ==
    [x EXCEPT !.status.targets = "Found", !.status.rulesReady = "True"]

MarkExperimentPause(x) == [x EXCEPT !.status.phase = "Pause", !.status.completed = FALSE]
MarkExperimentResume(x) == [x EXCEPT !.status.phase = "Progressing", !.status.completed = FALSE]

MarkIterationUpdate(x) ==
    [x EXCEPT !.status.phase = "Progressing", !.status.completed = FALSE,
              !.status.last = "recent"]

MarkExperimentCompleted(x) ==
    [x EXCEPT !.status.phase = "Completed", !.status.completed = TRUE]

ExperimentCompletedByPhase(x) == x.status.phase # "Progressing"  \* a mutant

\* A mutant: a command revives a completed experiment.
ExperimentCompletedUnlessCommanded(x) == x.status.completed /\ x.override = "none"

ExperimentCompleted(x) == x.status.completed

\* MarkTargetsError's message tells a target that was never found from one that
\* disappeared.
TargetsErrorReason(x, role) ==
    IF x.status.targets = "Found" THEN Deleted[role] ELSE Missing[role]

TerminateExperiment(x) == [x EXCEPT !.override = "terminate", !.split = NoSplit]

-----------------------------------------------------------------------------
\* overrideAssessment and targets.Cleanup: the end of an experiment.

\* A terminate command replaces the spec's onTermination strategy.
EffectiveOnTermination(x) ==
    IF x.override # "terminate" THEN OnTermination
    ELSE IF x.split = NoSplit THEN "to_baseline" ELSE "keep_last"

\* The version that takes all the traffic, or NoWinner when traffic stays.
Receiver(x) ==
    CASE EffectiveOnTermination(x) = "keep_last" -> NoWinner
      [] EffectiveOnTermination(x) = "to_winner" /\ x.status.winner # NoWinner ->
             x.status.winner
      [] OTHER -> Baseline

overrideAssessment(x) ==
    IF Receiver(x) # NoWinner THEN [x EXCEPT !.status.weight = AllTo(Receiver(x))]
    ELSE IF x.override = "terminate" THEN [x EXCEPT !.status.weight = x.split]
    ELSE x

\* The targets Cleanup keeps, of an object whose assessment was overridden.
ToKeep(x) ==
    IF ~Cleanup THEN Versions
    ELSE IF Receiver(x) # NoWinner THEN {Receiver(x)}
    ELSE {v \in Versions : x.status.weight[v] > 0}

-----------------------------------------------------------------------------
\* The update predicate of the experiment watch: which change of the object
\* makes the informer enqueue it.  The API server bumps the generation when
\* the spec changes and when deletion is requested.
AcceptsUpdate(old, new) ==
    /\ \/ <<old.override, old.split, old.metrics>> # <<new.override, new.split, new.metrics>>
       \/ old.deleting # new.deleting
    /\ ~(~old.finalizer /\ new.finalizer)
    /\ ~(old.override # "none" /\ new.override = "none")
    /\ ~(~old.metrics /\ new.metrics)
==============================================================================
