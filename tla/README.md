# A verification model of the iter8 controller

iter8 is a Kubernetes controller. A user creates an `Experiment` that names a
baseline version and candidate versions of a service; the controller sets up
Istio routing rules, shifts traffic between the versions in iterations, asked of
an analytics service or by fixed increments, and ends with one outcome. This
directory holds TLA+ modules of the controller, the TLC configurations that check
them on small instances, and proofs that TLAPS checks.

## 1. The system

| component | code (under `src/`) | state | operations |
|---|---|---|---|
| iter8 adapter | `pkg/controller/experiment/adapter` | three maps under one mutex: experiments, Deployment to experiment, Service to experiment; a pending action per experiment | `RegisterExperiment`, `RemoveExperiment`, `Mark{Deployment,Service}{Detected,Deleted}`, `{Deployment,Service}ToExperiment` |
| experiment controller | `pkg/controller/experiment/{experiment_controller,kubernetes,reconcile,helper,recorder}.go` | the copy of the object, `interState` (refresh, progress, status update), the work queue and the delaying queue | `Reconcile` and all it calls |
| Experiment API | `pkg/apis/iter8/v1alpha2` | spec (manualOverride, metrics, ...) and status (phase, conditions, iteration, weights, winner) | `InitStatus`, `Mark*`, the spec's getters |
| Istio router | `pkg/controller/experiment/routing/router/istio` | VirtualService and DestinationRule, with role, init and experiment labels | `Fetch`, `UpdateRouteWithBaseline`, `...WithCandidates`, `...WithTrafficUpdate`, `...ToStable` |
| targets | `pkg/controller/experiment/targets` | - | `GetService`, `GetBaseline`, `GetCandidates`, `Cleanup` |
| analytics client, metrics reader | `pkg/analytics` | - | `Invoke`; `Read` of a ConfigMap |
| notification center | `pkg/notifier` | the map of configured notifiers, one mutex | `Notify`; the handlers of the notifiers' ConfigMap |
| grafana | `pkg/grafana` | - | `UpdateGrafanaURL` |
| manager, webhook, generated code | `cmd/manager`, `pkg/controller`, `pkg/webhook` | - | start-up |

How they interact. The API server is the shared state. Informers copy it to a
cache, which lags; watch predicates and map functions run in the informers'
goroutines, mark experiments in the adapter and fill the work queue. One worker
runs `Reconcile` for one key at a time. `Reconcile` reads the experiment from the
cache, changes the copy, and writes it back with optimistic concurrency, where a
conflict passes for success (`validUpdateErr`). It writes routing rules and deletes
targets directly. A returned `RequeueAfter` is an in-memory timer. Each condition
that a pass marks is announced by `Notify` before the status is written; `Notify`
posts to one channel after the other in the worker, while an informer's goroutine
keeps the map of channels in line with a ConfigMap.

What is hard. Users, targets and the informer act between any two API calls of
the worker; every call that reaches the API server may fail, and so may the reads of the
rules, the metrics and the analytics (the controller reads experiments and targets from
its informers' caches, where all that can go wrong is that an object is missing or old);
the process may restart, which loses the
adapter, both queues and the copy; each change of the rules is two writes; and
several operations (pause, initialisation, completion) are more than one write
with different reactions to failure. The hazards, each at its line, are listed in
`PROJECT.json`.

What makes each component correct: the adapter routes every event of a target to
the one experiment that claims it, never follows a dangling entry and loses no
wakeup; the controller keeps an outcome once it is recorded, counts iterations
one by one, carries out commands, and brings an experiment or its deletion to an
end; the router keeps both rules in step, conserves traffic, and gives the rules
back in the end; the notification center puts each version of its ConfigMap in
force as a whole, lets no failing or silent channel hold up the others or the
configuration, and announces whatever the status records.

## 2. The modules

| module | models |
|---|---|
| `Adapter` | the adapter with several experiments, both target informers and the worker; one action per lock section |
| `AdapterProofs` | the adapter's invariants, proved for all constants |
| `ExperimentAPI` | the object, the status methods, `overrideAssessment`, what `Cleanup` keeps, the watch predicate |
| `IstioRules` | the pair of rules: roles, labels, which pairs `Fetch` accepts, the changes each function makes |
| `Reconcile` | the reconcile loop of one experiment, over the two modules above; cache, queues, users, faults, crashes |
| `ExperimentLifecycle` | abstract: what the user sees of an experiment in its status, from new to completed or gone; `Reconcile` implements it |
| `ReconcileProofs` | the types of the reconcile loop |
| `ReconcileOutcomeProofs` | outcomes are final and iterations are counted one by one |
| `LifecycleProofs` | the loop implements `ExperimentLifecycle`; experiments end for a reason |
| `RoutingProofs` | who owns the routing rules: they change together, are released at the end, and follow the recorded ramp |
| `TrafficProofs` | the weights of the route add up; what the sum of a route's weights, a fold, comes to |
| `RefusalProofs` | a refused experiment leaves the routing rules alone |
| `NotificationCenter` | the notification center: the ConfigMap, its handlers, and the worker in `Notify`; crashes |
| `ChannelRegistry` | abstract: each version of the ConfigMap takes effect at once; `NotificationCenter` implements it |
| `NotificationProofs` | invariants of the notification center; it implements `ChannelRegistry` |
| `MCAdapter`, `MCReconcile`, `MCNotificationCenter` | small instances: versions `b`, `c`, `d`; the analytics' answers; service sections that overlap in every role; two channel configs and two marks of one condition |

### Adapter

`experimentAbstractStore`, `deployment2Experiment` and `service2Experiment` are
the maps of `Impl`. A watch event is handled in two lock sections, the predicate
(`MarkTarget`) and the map function (`TargetToExperiment`); `informer[kind]` holds
the event in between. The worker takes a key (`Dequeue`), hands over the pending
action (`TakeAction`, the first part of `RegisterExperiment` and `GetAction`) or
registers a new experiment, and ends (`EndRequest`, `RejectExperiment`) or completes
(`RemoveExperiment`). `queue` is the work queue's dirty set: the queue never hands out a
key that is being processed, and there is one worker.

Whether a pass gets as far as the adapter depends on the object it reads. `object`
says of each experiment whether it exists, is initialised and is completed; `cached` is
what the informer's cache shows of it (`Sync`), and `Dequeue` copies that. The ways out
before `RegisterExperiment` are

| `experiment_controller.go` | action | requeued |
|---|---|---|
| 280-283 no object; 316-319 completed | `NotToProceed` | no |
| 284-286 the Get fails; 306-309 the finalizer is not added | `Retry` | yes |
| 295-298 invalid spec; 300-303 the first status write fails | `EndUninitialized` | no |
| 312-314 deleted and completed | `FinalizeCompleted` | no |
| 312-314 deleted, not completed | `RemoveExperiment` and `Finalize`, or `Finalize` alone when `finalize` does not come to complete; `Retry` when the finalizer is not removed | if that fails |

`dropped` is a history variable: it has the experiments whose last pass ended without
a requeue and without coming to the adapter, although their copy was not completed.

### Reconcile

`pc` names the API call to come, so an action is the code from one API call to
just before the next:

| code | actions |
|---|---|
| `Reconcile` | `Get`, `WriteInitStatus`, `addFinalizerIfAbsent`, `NotToProceed` |
| `syncExperiment`, `proceed` | `Proceed`, `Pause`, `Resume` |
| `syncMetrics` | `ReadMetrics`, `WriteMetricsError`, `WriteMetrics` |
| `checkOrInitRules` | `Fetch` |
| `detectTargets`, `UpdateRouteWithBaseline`, `UpdateRouteWithCandidates` | `DetectBaseline`, `UpdateBaselineVS`, `UpdateBaselineDR`, `DetectCandidates`, `UpdateCandidatesVS`, `UpdateCandidatesDR` |
| `processIteration`, `UpdateRouteWithTrafficUpdate` | `ShiftTraffic` (no criteria), `Iterate` (analytics), `UpdateTrafficVS` |
| `toComplete`, `updateIteration` | `Finish` |
| `completeExperiment`, `UpdateRouteToStable` | `Complete`, `StableVS`, `StableDR` (each also as the deletion of the rule) |
| `endRequest` | `EndRequest` |
| `finalize`, `removeFinalizer` | `Finalize`, `RemoveFinalizer` |
| environment | `Sync` (informer), `Override`, `Delete` (users), `TargetEvent`, `IntervalElapses`, `TimerFires`, `Crash` |

`obj` is the object in the API server, `cache` the informer's copy, `inst` the
worker's. `current` says that `inst` has the resource version of `obj`; a write
with `~current` conflicts. `event` says that an update not delivered yet passes
the watch predicate (`AcceptsUpdate`), so `Sync` enqueues the experiment.
`timer` is the entry in the delaying queue, which keeps the earlier of two.
`stage` and `outcome` are what `ExperimentLifecycle` sees of `obj`.

### NotificationCenter

| code | actions |
|---|---|
| users of the ConfigMap, the informer | `Publish`, `Unpublish` |
| `updateConfigFromConfigmap`, under `nc.m` | `TakeEvent`, `SkipChannel`, `BeginWrite`, `EndWrite`, `EndFirstLoop`, `EndHandler` |
| `removeNotifiers` | the same actions: the data are empty, so the first loop has nothing to do and the second removes every channel |
| `FilterFunc` given a tombstone | `PanicOnTombstone` |
| `markCondition` and the mark functions | `Mark` |
| `Notify` | `Mark` (up to the first entry), `Visit`, `Answer`, `EndNotify` |
| `endRequest` | `EndRequest` |
| Go's check of concurrent map access | `ConcurrentMapAccess` |
| restart | `Crash` |

`Notifiers` is `nc.Notifiers`. A write of an entry has a beginning and an end, so
that the loop of `Notify`, which takes no lock, can fall between. A Go map is
walked in any order, and the walk may or may not come to an entry that is added
or removed meanwhile: `certain` has the entries it cannot miss, `visited` those
it was at. `stored` and `conditions` are the conditions in the API server and in
the worker's copy. A mark made while no channel is registered goes nowhere
(`MarkWithoutChannels`, `notifier.go:145`). `fatal` says what stopped the process. `owed`, `posted`, `announced` and `fatal` are history
variables that only properties read.

Definitions commented as mutants are variants with a plausible bug, one per
property, that show that the property can fail.

## 3. The runs

Each cfg of `MCReconcile` gives four bounds: `MaxEdits` (user commands or
deletion), `MaxTargetEvents`, `MaxFaults` (failed calls), `MaxCrashes`. They are
written (e, t, f, c) below. The events of each kind may come between any two API
calls of the worker, which is where one event already meets every intermediate
state; iterations are bounded by `MaxIterations`, 1 to 3, so a first, a middle
and a last iteration exist. `MCNotificationCenter` bounds the versions of the
ConfigMap, the marks and the crashes. An experiment ends, and users stop, so the
systems may stop, and deadlock is not checked there; it is in `MCAdapter`.

Passing:

| run | bounds | shows |
|---|---|---|
| `keys` | 2 experiments that are created, complete and are deleted any number of times, 3 targets, 3 service sections that overlap as names, baselines and candidates of both kinds, one kind of target event (the two differ in the stored action alone) | `TypeOK`, `NoDanglingEntry`, `ServiceKeysRouted`, `MarkReachesQueue`. The two experiments are symmetric |
| `routes` | (1,1,0,0), two candidates, no criteria, `keep_last`, 2 iterations | `TypeOK`, `RulesPaired`, `DeletedReleasesRules`, `RampBounded`, `TrafficConserved` |
| `lifecycle` | (1,0,1,1), a valid and a refused experiment, criteria, cleanup, `keep_last`, 1 iteration, fair | `CopyRelated`, `RefusedOwnsNothing`, `TrafficConserved`, `CompletionFinal`, `IterationsCounted`, `ImplementsLifecycle`, `EndsWithReason`, `DeletionEnds`, `TerminationEnds`, `AbortTakesEffect` |
| `services` | (1,0,0,0), versions are Services, two candidates, criteria, 3 iterations, fair | `CompletedReleasesRules`, `PauseTakesEffect`, `ExperimentEnds` |
| `notify` | 2 channels, 2 versions of the ConfigMap, 2 marks, 1 crash, fair | `TypeOK`, `ChannelsCurrent`, `RecordedWasAnnounced`, `AppliesWholeConfig`, `FailureIsolated`, `ConfigTakesEffect`, `NotifyReturns` |

`ImplementsLifecycle` and `AppliesWholeConfig` are refinements: the specifications
of `ExperimentLifecycle` and `ChannelRegistry` under the mappings at the end of
`Reconcile` and `NotificationCenter`. In the second a version takes effect when
its handler begins; from then on `Settled`, what the data and the entries already
written come to, stands for the registry. Two versions in `notify` are the least in which a
version replaces, refuses or removes what an earlier one set; two marks of one
condition are the least in which a mark can be lost.

Runs that violate what a comment or a document says (section 5): `finding`,
`cleanup`, `leftrules`, `leak`, `stall`, `keeplast`, `fatal`. Their instances
are chosen so that the behaviour TLC finds is the one described: `leftrules` has an
analytics service that rolls back, so that the experiment completes in its first pass;
`stall` has one rule and two iterations, so that the restart leaves no pair half
written and finds an iteration to come; `fatal` has two versions of the ConfigMap, the
first of which registers a channel.

The rules may be there at first: a stable VirtualService with all traffic at the
baseline, with or without a stable DestinationRule (`deployment.go:73-82`).

Where the properties stop holding. The bounds of the passing runs are also
claims about which disturbances the code survives. TLC finds counterexamples in
instances beyond them, and the runs of section 5 show some:

- `MarkReachesQueue` is about experiments that the cache shows and not as completed, and
  excepts those in `dropped`. A completed experiment that was registered again (run `leak`)
  gets the events of its targets, and the worker returns at `NotToProceed` with the
  action still stored. Nor does it speak of experiments on Deployments, whose events
  may go to another experiment (run `finding`).
- `RulesPaired` needs no failed write and no crash between the two writes. Users,
  targets and conflicts do not break it. What it shows is that every change that is carried
  through writes both rules; what a half-written pair leads to is the run `leftrules`.
- `CompletedReleasesRules` is checked without failed calls and crashes. It needs no failed
  call (run `leftrules`; a failed List of the rules alone breaks it, too, since it ends the
  experiment with the rules still labelled) and, where there are
  two rules, no crash between their writes. Three target events break it: they start a
  reconcile from a cache that lags the completion, and leave a target missing, so that the
  reconcile stops with the rules set up. A user's command alone breaks it when the
  analytics aborts: a resume that is read from a cache that lags the completion starts the
  experiment anew. In the instance of `services`, where the analytics does not abort,
  it holds with one command, but not with a crash, a target event or cleanup besides.
- `DeletedReleasesRules` is checked without failed calls and needs that: `finalize` ignores
  the result of `syncKubernetes` and removes the finalizer of an experiment whose
  rules it could not release (`kubernetes.go:85`). It needs one edit, which is then the
  deletion. With a target event it is broken if the experiment ends in
  its first reconcile (an abort, or `MaxIterations` of 0): the event makes a reconcile
  start from a cache that has neither the finalizer nor the outcome.
- `TrafficConserved` says `edits = 0`: with `keep_last`, an edit that makes the
  status write of a completion conflict lets the experiment run again from stable
  rules, whose set-up resets the baseline's weight only. The weights then add up
  to 150. Four target events do the same with criteria: the deletion of a candidate
  pauses the experiment, a reconcile from a cache that lags the pause completes it with a
  write that conflicts, and a later event sets the rules up again under the weights of an
  interval that still runs. It leaves out the end of an experiment without criteria and
  with `keep_last` (run `keeplast`). And it needs something to shift: with
  `maxIncrement` 0 or no candidates, a copy with no weights at all is "shifted" and
  written to the route.
- `RampBounded` is broken, with `to_winner`, by a resume command that meets a cache
  that lags the completion: the experiment runs anew, from a copy with the weights of
  the iteration before, while the status has the final ones. A failed `Fetch` breaks it,
  since it completes the experiment with the rules still progressing; so do four target
  events, the last of which makes a late reconcile take the rules of a completed
  experiment. The instance of `routes`, with `keep_last`, one edit and one target event
  in two iterations, has none of these. A crash breaks it in no instance that was tried.
- `PauseTakesEffect` lets the experiment end first, with the command still in its spec: a
  pass that read an older cache may complete it. It needs no crash: the command is
  cleared before the phase is written, and a crash in between loses the pause (with one crash
  besides the command TLC finds that the experiment runs to its end instead). A failed
  status write does the same.
- `EndsWithReason` counts unusable rules as a reason, so it is silent about an
  experiment that a transient error of the List calls ends (`reconcile.go:78`).
- `RecordedWasAnnounced` remembers announcements for good: what it guarantees is that a
  condition was announced once, before it was first recorded.
- `TerminationEnds` is excused by a failed call, since status writes are not
  retried; and a terminate command that is set before the first pass of an
  experiment whose spec is refused is never carried out, as no pass gets to it.
- `AbortTakesEffect` is excused by anything that interferes with the pass: the
  decision is in that pass's copy alone, and the next pass asks the analytics anew.
- `ExperimentEnds` needs no restart (run `stall`; with two rules also one between their
  writes, after which the set-up fails in every pass), no failed call (the phase
  becomes Pause and nothing requeues the experiment) and no target event.
- `NotifyReturns` assumes that each endpoint answers: `http.Post` has no timeout.
  `ConfigTakesEffect` does not.

Fairness. `FairSpec` of `Reconcile` assumes weak fairness of the worker, the
informer, the clock and the timer, each of which runs by itself in
controller-runtime; nothing is assumed of users, targets, faults and crashes.
Every fair step is continuously enabled until taken: the worker always has a next
call while it is not idle. `FairSpec` of `NotificationCenter` assumes it of the
informer's goroutine and of the worker, but not of the endpoints' answers.

## 4. The proofs

`AdapterProofs` proves, for any sets of experiments and targets and any service
sections, `Spec => []TypeOK`, `Spec => []NoDanglingEntry`,
`Spec => []ServiceKeysRouted` and `Spec => []MarkReachesQueue`. The assumptions are
those of `Adapter`: `Nil` is none of the values it stands beside, service
sections have the shape the API gives them, and the target events are those there are. Neither the types nor the routing is inductive alone. The Mark
functions index the store with an entry of a lookup map, so that the store keeps
its type only if the entry is not dangling; `RemoveExperiment` clears the entries
of the keys stored with the experiment, so none dangles only if an entry's key is
always one of those. `AdapterInv`, the conjunction, is inductive; each conjunct
has its lemma with a step per action. `MarkReachesQueue` is inductive on top of it:
an entry of a Service leads to the one experiment that claims it, so the map function
enqueues the experiment that the predicate marked; and a pass that returns without taking
the action either copied the object as absent or completed, so that the event of the
next creation has still to enqueue the key, or is of an experiment in `dropped`. It
does not cover the entry that a completed experiment leaves behind (section 3).

`ReconcileProofs` proves `Spec => []TypeOK` of the reconcile loop for any
versions, answers of the analytics service and bounds, from the assumptions of
`ExperimentAPI`, `IstioRules` and `Reconcile` on the shape of the constants. `TypeOK`
is inductive. It has content in one place: weights are natural numbers, so
`CanShift` must be what the subtraction in `processIteration` needs.

`ReconcileOutcomeProofs` proves `Spec => CompletionFinal` and
`Spec => IterationsCounted`: no number of users' changes, faults, crashes and
conflicts overwrites a recorded outcome, or counts an iteration twice. The write
that could do so is in `endRequest`, which stores whatever its copy says. The
strengthening, `CopyRelated`, says which copies get that far: while the server
would accept a write of the copy (`current`), the copy agrees with the server's
status up to what this reconcile did; a completed experiment passes `decide`
only towards its end; a copy that is worked on is initialized and not completed;
an object that was never initialized has no progress; and the mark that an
iteration was processed (`ProgressInv`) is only ever carried to `toComplete` by an
experiment in phase Progressing. It holds since `Get`
copies a cache that, when synced, is the server's object, and since a change by a
user makes the copy one whose writes conflict. TLC checks `CopyRelated` in the run
`lifecycle`. It is independent of the API calls' order after `decide`, so every
action in between is an instance of one lemma (`Go`). Without `current`, that is
without the resource version, none of it would hold.

`LifecycleProofs` proves `Spec => ImplementsLifecycle` on top of it. The status
changes only by a write of a current copy or by the clock (`StatusChanges`), the
object never comes back (`ExistenceStep`), and a write and the deletion are never
one step; `CopyRelated` then bounds what a written copy may say, and each case
is a step of `ExperimentLifecycle` or a stutter. The clause that a copy is one
iteration ahead only in phase Progressing is what makes a counted iteration one
`Iterate`, also from a pause whose resumption was never written by itself.

It also proves `Spec => EndsWithReason`. Completion takes up to three API
calls, and the write that records it is a fourth. `ReasonInv` says that the copy
shows the reason from the first of them on: `toComplete` finds the counter at its
limit or the terminate override, which nothing after it changes, and the only
other way to `completeExperiment` marks the rules as unusable.

`RefusalProofs` proves `Spec => []RefusedOwnsNothing`. Only the first pass
validates, so the invariant is about every later one: all copies agree on
the spec (`ValidInv`), and an initialized copy of a refused experiment has phase
Pause, no command and no deletion, at the four control states such an experiment
can reach (`RefusalInv`). It covers failed and conflicting writes and crashes. With a
command or a target event it would be false: a resume starts a refused experiment.

`RoutingProofs` is about the rules. Each of its four theorems says which disturbances it
allows, as an antecedent on the counters, since TLC shows the property to be false
beyond (section 3); the constants, and so the numbers of iterations, versions and
the disturbances allowed, are arbitrary.

- `RulesStayPaired`: `RulesPaired` while no call failed and the controller was not
  restarted. `PairInv` says what the two rules have in common at each call between
  their writes. The init label has to be part of it (`Labelled`): it decides whether the
  next set-up creates or updates a rule, a rule that is there with that label is refused,
  and the two rules need not agree on it.
- `DeletionReleases` and `CompletionReleases`: `DeletedReleasesRules` and
  `CompletedReleasesRules` while nothing but a deletion, at whatever call, disturbed the
  controller, and, where there is one rule, any number of crashes (`Calm`). The
  danger is a later reconcile that does not know of the end. So the invariant
  tracks who knows: `DeletingInv`, which needs no condition, that a copy with a deletion or
  a completion has it from the cache, which has it from the server, and that a
  reconcile that knows of a deletion does nothing but finalize; `PlainInv`, that no
  command is in any copy; and `ReleaseInv`, that no event, queue entry or timer is left
  that could start another reconcile while one is at work, so that the first one
  after a completion starts from a cache that has it. The own writes of the
  controller do not pass the predicate of its watch (`EventKept`).
- `RampStaysBounded`: `RampBounded` under the same conditions. The weights of the
  candidates in the status only grow; the cache is never ahead of the status, nor the
  copy before it is shifted, so that route and copy are at most one increment ahead
  (`RampInv`). A completed experiment is left to `ReleaseInv`, which is why crashes are
  excluded here where there are two rules, although none is known to break the ramp.

The four were TLC's first: `PairInv`, `DeletingInv`, `PlainInv`, `ReleaseInv` and
`RampInv` were checked as invariants of small instances with their conditions before they
were proved.

`TrafficProofs` proves `TrafficConserved` for any versions, increments and numbers
of failed calls, conflicts and crashes (`TrafficIsConserved`), and more: that the
weights add up at every API call, not only between reconciles, and also when the
experiment is deleted, at whatever call (`RouteAddsUp`). Its conditions are those of section 3:
no target event; with criteria, that what the analytics recommends in full adds up
(`AnswersConserve`, which is that service's part; incomplete answers and rollbacks are
the controller's); without, that there is something to shift. It has two parts.

- Sums. `Total` is a fold, a recursive function on sets, and the library's theorems on
  folds and induction take operators that no installed prover can instantiate. So the
  induction is done by hand, for this fold: `Sums(weight, sum)` says that `sum` is a
  function on the sets of versions that obeys the recursion; `SumsExist` and
  `SumsUnique` show that there is exactly one, by `NoSmallest`, that a collection
  of sets that has with each set also the set without the element taken out is empty, which follows
  from the least natural number (`LeastNumber`). The rest needs three sums: all the weight at one version is
  100 (`AllToFull`), moving an increment for each candidate from the baseline keeps the sum
  (`ShiftedFull`, where the cardinality of the candidates comes in), and no weights
  cannot be shifted (`NothingToShift`).
- The inductive invariant `TrafficInv`. The route is written from a copy, so it says
  which copies may get to which call (`FitFor`): what is written to the route adds up; only a
  copy that found its targets and is not running an interval gets to an iteration; and
  the rules are set up, which resets the baseline's weight alone, only by an experiment
  that was never iterated, so whose other weights are 0. It says what the status may hold
  (`Weighed`), since any reconcile may start from it after a crash: with criteria, weights
  that add up while an interval runs; without, weights of the route or none at all,
  which is the status that lost the write of the set-up. A completed status is left out:
  `DeletingInv` and `CopyRelated` keep it from being worked on. TLC checked `TrafficInv`
  on instances with and without criteria, a deletion, a failed call and a crash before
  it was proved.

`NotificationProofs` proves, for any channels, configs, marks and numbers of changes
and crashes, `Spec => []TypeOK`, `Spec => []RecordedWasAnnounced` and
`Spec => FailureIsolated`, from the assumptions that a config has its four fields,
that a mark has a known reason and that the bounds are numbers. The inductive
invariant `CenterInv` adds to the types what the handler's two loops have done
(`HandlerInv`), that a condition in the worker's copy was announced or is just
being announced (`AnnouncedInv`), and that a channel which `Notify` owes a post is
one its loop cannot miss and still matches (`OwedInv`). It also proves the
refinement `Spec => AppliesWholeConfig`: each write of an entry leaves `Settled`
as it is, because the entry becomes what `Settled` says already, and when the
handler ends `Settled` is the map itself; and
`Spec => []ChannelsCurrent`, from the invariant that the last version in the queue
of the informer, or the one being handled, is the ConfigMap's (`LatestInv`).

So every invariant and every action property that a passing run checks is also a
theorem, and so are both refinements. Only model-checked are

- the cases that the runs allow and the theorems of `RoutingProofs` and
  `TrafficProofs` do not: a command or a target event in `routes`, a command in `services`;
- liveness, which, with `ENABLED`, is beyond the prover: `DeletionEnds`, `TerminationEnds`,
  `AbortTakesEffect`, `PauseTakesEffect`, `ExperimentEnds`, `ConfigTakesEffect` and
  `NotifyReturns`.

## 5. Where the code departs from what it says

- `finding`: a candidate Deployment is looked up in the map of Services
  (`adapter.go:277`), so two experiments can claim it and the second takes its
  events away.
- `cleanup`: `completeExperiment` deletes versions before the route stops sending
  them traffic (`reconcile.go:37`).
- `leftrules`: a failed write of the DestinationRule at completion is retried, but
  the retry refuses the pair of rules and completes with the DestinationRule
  still labelled (`kubernetes.go:58`, `reconcile.go:78`).
- `leak`: a reconcile from a cache that lags the completion registers the
  experiment again, and its targets stay claimed (`experiment_controller.go:321`).
- `stall`: after a restart within the interval no timer is armed
  (`kubernetes.go:65`).
- `keeplast`: the baseline's weight of 100 is set in the copy only by the pass that
  sets up the rules; when that pass's status write is lost to a restart the status
  keeps weight 0, and `keep_last` gives the rules weights that the route never
  had (`router.go:278`).
- `fatal`: `Notify` walks through the map of notifiers without the lock that the
  ConfigMap's handler writes it under, and the Go runtime may stop the process
  (`notifier.go:149`); so does a tombstone (`handler.go:51`).

Met while modelling and not given a run: a pause command is taken out of the spec
before the phase is written, so a restart or a failed write in between forgets it
(`experiment_controller.go:423`, section 3); the pass that finds the counter at
`maxIterations` still processes an iteration (`kubernetes.go:113`); validation
happens only with the first initialisation, so a refused experiment runs after a
resume command (`experiment_controller.go:293`); an experiment without candidates
that has criteria aborts in its first iteration (`reconcile.go:189`); the reasons
AssessmentUpdate, TrafficUpdate and ActionResume have no severity in
`reasonSeverity`, so they are never sent, at any level.

## 6. What is abstracted

- One experiment in `Reconcile`: `RegisterExperiment` never refuses there;
  refusals and several experiments are in `Adapter`.
- The informer delivers the latest version: updates are coalesced, and `event`
  accumulates whether one of them passes the predicate. Its lag is unbounded.
  The Create events of targets after a restart are not modelled.
- A target's change and its delivery to the adapter are one step; the worker reads
  targets as they are.
- The interval elapses while the worker is idle; a pass takes less than it.
- A call that fails has no effect on the server. The deletions of `Cleanup` fail
  together.
- Whether a mark reports a change may depend on an error's text: `another` leaves
  it open.
- The analytics service answers with a known winner; its answers in `MCResponses`
  shift half or all of the traffic, forget a weight, or roll back.
- `service.name` is given; the router belongs to the one experiment; matches,
  hosts and gateways are left out.
- Timestamps other than `LastUpdateTime`, the analysis state and the Grafana URL
  are left out: no control flow reads them. `Reconcile` leaves out notifications,
  which `NotificationCenter` models with the part of a pass that marks conditions.
- The layout of the Slack message is left out, and the text of a mark is a value.
- The instance of `NotificationCenter` has the marks of one condition; conditions are
  independent of each other there, and the proofs hold for any marks.
- The ConfigMap informer hands over versions one by one in order, as a client-go
  informer does for its one handler; a resync is not modelled.

Not modelled: Grafana (a URL built from a ConfigMap, read by nothing), the webhook,
process start-up and the registration of watches (what the watches do is in
`Adapter` and `Reconcile`), generated code, the hosts, gateways and match clauses of
the rules, and several experiments that share one router.

## 7. Plan

Done: `Adapter` and `Reconcile` with their proofs; `ExperimentLifecycle` and the proof
that `Reconcile` implements it; `NotificationCenter`, `ChannelRegistry` and their
proofs; the endings and the refusal of an experiment, the pairing, the release, the
ramp and the weights of the routing rules, and the wakeups of the adapter, proved.

Left:

1. `Router`: several experiments that share a router, the owner label in
   `validateAndInit`.
2. Composition of `Adapter` and the loop for two experiments: refusal, release of
   targets, wakeups of Deployments.
3. Proofs: the ramp with two rules and crashes; the release of the rules with a user's
   command, for an experiment whose analytics does not abort; the weights with fewer target
   events than the four of section 3.
