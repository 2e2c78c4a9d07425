------------------------------ MODULE TrafficProofs ------------------------------
(***************************************************************************)
(* The weights of a route add up to all the traffic, for all values of the *)
(* constants, whether the analytics decides or the traffic is shifted by a *)
(* fixed increment, while targets leave the experiment alone and users at  *)
(* most delete it; calls may fail and the controller may restart.  The sum *)
(* is a fold over the versions; what it comes to is shown by the absence   *)
(* of a smallest set of versions for which it comes to anything else.      *)
(***************************************************************************)
EXTENDS RoutingProofs

\* Every set of natural numbers that is not empty has a least element.
LEMMA LeastNumber ==
    ASSUME NEW T \in SUBSET Nat, T # {}
    PROVE  \E n \in T : \A m \in T : n <= m
  <1>1. PICK n \in T : \A m \in T : <<m, n>> \notin OpToRel(<, Nat)
    BY NatLessThanWellFounded, WFMin
  <1>2. ASSUME NEW m \in T
        PROVE  n <= m
    <2>1. <<m, n>> \notin {p \in Nat \X Nat : p[1] < p[2]}
      BY <1>1 DEF OpToRel
    <2>2. <<m, n>> \in Nat \X Nat /\ m \in Nat /\ n \in Nat
      OBVIOUS
    <2> QED
      BY <2>1, <2>2
  <1> QED
    BY <1>2

LEMMA FiniteVersions ==
    \A s \in SUBSET Versions : IsFiniteSet(s) /\ Cardinality(s) \in Nat
  <1>1. IsFiniteSet(Versions)
    BY VersionsAssumption, FS_Singleton, FS_Union DEF Versions
  <1> QED
    BY <1>1, FS_Subset, FS_CardinalityType

\* The version that FoldFunction takes out of a set.
Pick(s) == CHOOSE v \in s : TRUE

\* A set of versions without the one that is taken out is smaller.
LEMMA Smaller ==
    ASSUME NEW s \in SUBSET Versions, s # {}
    PROVE  /\ Pick(s) \in s /\ s \ {Pick(s)} \in SUBSET Versions
           /\ Cardinality(s) \in Nat /\ Cardinality(s \ {Pick(s)}) \in Nat
           /\ Cardinality(s \ {Pick(s)}) = Cardinality(s) - 1
  <1>1. Pick(s) \in s
    BY DEF Pick
  <1>2. IsFiniteSet(s)
    BY FiniteVersions
  <1>3. /\ IsFiniteSet(s \ {Pick(s)}) /\ Cardinality(s) \in Nat
        /\ Cardinality(s \ {Pick(s)}) = Cardinality(s) - 1
    BY <1>1, <1>2, FS_CardinalityType, FS_RemoveElement
  <1>4. Cardinality(s \ {Pick(s)}) \in Nat
    BY <1>3, FS_CardinalityType
  <1> QED
    BY <1>1, <1>3, <1>4

\* What holds of a set of versions if it holds of those with fewer elements holds of
\* all of them: there is no smallest set in bad.
LEMMA NoSmallest ==
    ASSUME NEW bad \in SUBSET SUBSET Versions,
           \A s \in bad : s # {} /\ s \ {Pick(s)} \in bad
    PROVE  bad = {}
  <1> SUFFICES ASSUME bad # {}
               PROVE  FALSE
    OBVIOUS
  <1> DEFINE sizes == {Cardinality(s) : s \in bad}
  <1>1. sizes \in SUBSET Nat /\ sizes # {}
    BY FiniteVersions
  <1>2. PICK n \in sizes : \A m \in sizes : n <= m
    BY <1>1, LeastNumber
  <1>3. PICK s \in bad : Cardinality(s) = n
    BY <1>2
  <1>4. Cardinality(s \ {Pick(s)}) \in sizes
    BY <1>3
  <1>5. Cardinality(s \ {Pick(s)}) = n - 1 /\ n \in Nat
    BY <1>3, Smaller
  <1> QED
    BY <1>2, <1>4, <1>5

-----------------------------------------------------------------------------
\* sum gives the total of the weights of each set of versions.
Sums(weight, sum) ==
    sum = [s \in SUBSET Versions |->
             IF s = {} THEN 0 ELSE weight[Pick(s)] + sum[s \ {Pick(s)}]]

\* The same for the sets of at most n versions.
UpTo(n) == {s \in SUBSET Versions : Cardinality(s) <= n}
SumsUpTo(weight, n, sum) ==
    sum = [s \in UpTo(n) |-> IF s = {} THEN 0 ELSE weight[Pick(s)] + sum[s \ {Pick(s)}]]

LEMMA FewMore ==
    ASSUME NEW weight, NEW n \in Nat, NEW less, SumsUpTo(weight, n, less)
    PROVE  \E sum : SumsUpTo(weight, n + 1, sum)
  <1> DEFINE add(s) == IF s = {} THEN 0 ELSE weight[Pick(s)] + less[s \ {Pick(s)}]
             sum == [s \in UpTo(n + 1) |-> add(s)]
  <1>1. ASSUME NEW s \in UpTo(n + 1), s # {}
        PROVE  s \ {Pick(s)} \in UpTo(n) /\ s \ {Pick(s)} \in UpTo(n + 1)
    BY <1>1, Smaller DEF UpTo
  <1>2. ASSUME NEW s \in UpTo(n), s \in UpTo(n + 1)
        PROVE  sum[s] = less[s]
    <2>1. less[s] = IF s = {} THEN 0 ELSE weight[Pick(s)] + less[s \ {Pick(s)}]
      BY <1>2 DEF SumsUpTo
    <2> QED
      BY <1>2, <2>1
  <1>3. ASSUME NEW s \in UpTo(n + 1)
        PROVE  add(s) = IF s = {} THEN 0 ELSE weight[Pick(s)] + sum[s \ {Pick(s)}]
    <2>1. CASE s = {}
      BY <2>1
    <2>2. CASE s # {}
      <3>1. sum[s \ {Pick(s)}] = less[s \ {Pick(s)}]
        BY <1>1, <1>2, <2>2
      <3> QED
        BY <2>2, <3>1
    <2> QED
      BY <2>1, <2>2
  <1>4. SumsUpTo(weight, n + 1, sum)
    BY <1>3 DEF SumsUpTo
  <1> QED
    BY <1>4

LEMMA SumsExist == ASSUME NEW weight PROVE \E sum : Sums(weight, sum)
  <1> DEFINE bad == {n \in Nat : ~(\E sum : SumsUpTo(weight, n, sum))}
  <1>1. bad = {}
    <2> SUFFICES ASSUME bad # {}
                 PROVE  FALSE
      OBVIOUS
    <2>1. PICK n \in bad : \A m \in bad : n <= m
      BY LeastNumber
    <2>2. n # 0
      <3>1. \A s \in UpTo(0) : s = {}
        BY FiniteVersions, FS_EmptySet DEF UpTo
      <3>2. SumsUpTo(weight, 0, [s \in UpTo(0) |-> 0])
        BY <3>1 DEF SumsUpTo
      <3> QED
        BY <2>1, <3>2
    <2>3. n - 1 \in Nat /\ n - 1 \notin bad /\ n = (n - 1) + 1
      BY <2>1, <2>2
    <2> QED
      BY <2>1, <2>3, FewMore
  <1>2. Cardinality(Versions) \in Nat /\ UpTo(Cardinality(Versions)) = SUBSET Versions
    BY FiniteVersions, FS_CardinalityType, FS_Subset DEF UpTo
  <1>3. PICK sum : SumsUpTo(weight, Cardinality(Versions), sum)
    BY <1>1, <1>2
  <1> QED
    BY <1>2, <1>3 DEF Sums, SumsUpTo

LEMMA SumsUnique ==
    ASSUME NEW weight, NEW sum, Sums(weight, sum), NEW other, Sums(weight, other)
    PROVE  sum = other
  <1> DEFINE bad == {s \in SUBSET Versions : sum[s] # other[s]}
  <1>1. ASSUME NEW s \in bad
        PROVE  s # {} /\ s \ {Pick(s)} \in bad
    <2>1. /\ sum[s] = IF s = {} THEN 0 ELSE weight[Pick(s)] + sum[s \ {Pick(s)}]
          /\ other[s] = IF s = {} THEN 0 ELSE weight[Pick(s)] + other[s \ {Pick(s)}]
      BY DEF Sums
    <2>2. s # {}
      BY <2>1
    <2>3. s \ {Pick(s)} \in SUBSET Versions
      BY <2>2, Smaller
    <2> QED
      BY <2>1, <2>2, <2>3
  <1>2. bad = {}
    BY <1>1, NoSmallest
  <1>3. \A s \in SUBSET Versions : sum[s] = other[s]
    BY <1>2
  <1> QED
    BY <1>3 DEF Sums

\* The total is what the sums of all sets of versions come to for the largest.
LEMMA TotalIs ==
    ASSUME NEW weight, DOMAIN weight = Versions, NEW sum, Sums(weight, sum)
    PROVE  Total(weight) = sum[Versions]
  <1> DEFINE chosen == CHOOSE f : Sums(weight, f)
  <1>1. Sums(weight, chosen)
    OBVIOUS
  <1>2. Total(weight) = chosen[Versions]
    BY DEF Total, FoldFunction, FoldFunctionOnSet, MapThenFoldSet, Pick, Sums
  <1> QED
    BY <1>1, <1>2, SumsUnique

LEMMA SumsNatural ==
    ASSUME NEW weight \in Traffic, NEW sum, Sums(weight, sum)
    PROVE  \A s \in SUBSET Versions : sum[s] \in Nat
  <1> DEFINE bad == {s \in SUBSET Versions : sum[s] \notin Nat}
  <1>1. ASSUME NEW s \in bad
        PROVE  s # {} /\ s \ {Pick(s)} \in bad
    <2>1. sum[s] = IF s = {} THEN 0 ELSE weight[Pick(s)] + sum[s \ {Pick(s)}]
      BY DEF Sums
    <2>2. s # {}
      BY <2>1
    <2>3. s \ {Pick(s)} \in SUBSET Versions /\ weight[Pick(s)] \in Nat
      BY <2>2, Smaller DEF Traffic
    <2> QED
      BY <2>1, <2>2, <2>3
  <1> QED
    BY <1>1, NoSmallest

-----------------------------------------------------------------------------
\* A route that sends all the traffic to the versions.
Full(weight) == Total(weight) = 100

\* One that sends it all to one version does.
LEMMA AllToFull == ASSUME NEW w \in Versions PROVE Full(AllTo(w))
  <1> DEFINE weight == AllTo(w)
             share(s) == IF w \in s THEN 100 ELSE 0
             shares == [s \in SUBSET Versions |-> share(s)]
  <1>0. DOMAIN weight = Versions /\ \A v \in Versions : weight[v] = IF v = w THEN 100 ELSE 0
    BY DEF AllTo
  <1>1. Sums(weight, shares)
    <2>1. ASSUME NEW s \in SUBSET Versions
          PROVE  share(s) = IF s = {} THEN 0 ELSE weight[Pick(s)] + shares[s \ {Pick(s)}]
      <3>1. CASE s = {}
        BY <3>1
      <3>2. CASE s # {}
        <4>1. Pick(s) \in s /\ s \ {Pick(s)} \in SUBSET Versions
          BY <3>2, Smaller
        <4>2. weight[Pick(s)] = IF Pick(s) = w THEN 100 ELSE 0
          BY <1>0, <4>1
        <4>3. shares[s \ {Pick(s)}] = share(s \ {Pick(s)})
          BY <4>1
        <4> QED
          BY <3>2, <4>1, <4>2, <4>3
      <3> QED
        BY <3>1, <3>2
    <2> QED
      BY <2>1 DEF Sums
  <1>2. shares[Versions] = 100
    OBVIOUS
  <1> QED
    BY <1>0, <1>1, <1>2, TotalIs DEF Full

\* The increments that the candidates gain are what baseline loses.
LEMMA ShiftedFull ==
    ASSUME NEW weight \in Traffic, CanShift(weight), Full(weight)
    PROVE  Full(Shifted(weight))
  <1> DEFINE lost == MaxIncrement * Cardinality(Candidates)
             gained(s) == MaxIncrement * Cardinality(s \ {Baseline})
             part(sum, s) == sum[s] + gained(s) - IF Baseline \in s THEN lost ELSE 0
  <1>1. PICK sum : Sums(weight, sum)
    BY SumsExist
  <1>2. \A s \in SUBSET Versions : sum[s] \in Nat
    BY <1>1, SumsNatural
  <1>3. sum[Versions] = 100
    BY <1>1, TotalIs DEF Full, Traffic
  <1>4. MaxIncrement \in Nat /\ Cardinality(Candidates) \in Nat
    BY VersionsAssumption, ParametersAssumption, FS_CardinalityType
  <1>5. lost \in Nat
    BY <1>4
  <1>6. \A s \in SUBSET Versions :
            Cardinality(s \ {Baseline}) \in Nat /\ IsFiniteSet(s \ {Baseline})
    BY FiniteVersions, FS_CardinalityType
  <1>7. \A s \in SUBSET Versions : gained(s) \in Nat
    BY <1>4, <1>6
  <1> DEFINE parts == [s \in SUBSET Versions |-> part(sum, s)]
  <1>8. Sums(Shifted(weight), parts)
    <2>1. ASSUME NEW s \in SUBSET Versions
          PROVE  part(sum, s) =
                   IF s = {} THEN 0 ELSE Shifted(weight)[Pick(s)] + parts[s \ {Pick(s)}]
      <3>1. sum[s] = IF s = {} THEN 0 ELSE weight[Pick(s)] + sum[s \ {Pick(s)}]
        BY <1>1 DEF Sums
      <3>2. CASE s = {}
        <4>1. gained(s) = 0
          BY <1>4, <3>2, FS_EmptySet
        <4> QED
          BY <3>1, <3>2, <4>1
      <3>3. CASE s # {}
        <4> DEFINE p == Pick(s)
                   t == s \ {p}
        <4>1. p \in s /\ t \in SUBSET Versions /\ weight[p] \in Nat /\ p \in Versions
          BY <3>3, Smaller DEF Traffic
        <4>2. parts[t] = part(sum, t)
          BY <4>1
        <4>3. CASE p = Baseline
          <5>1. Shifted(weight)[p] = weight[p] - lost
            BY <4>1, <4>3 DEF Shifted
          <5>2. gained(t) = gained(s) /\ Baseline \in s /\ Baseline \notin t
            <6>1. t \ {Baseline} = s \ {Baseline}
              BY <4>3
            <6> QED
              BY <4>1, <4>3, <6>1
          <5> HIDE DEF p, t, lost, gained
          <5> QED
            BY <1>2, <1>5, <1>7, <3>1, <3>3, <4>1, <4>2, <5>1, <5>2 DEF p, t
        <4>4. CASE p # Baseline
          <5>1. Shifted(weight)[p] = weight[p] + MaxIncrement
            BY <4>1, <4>4 DEF Shifted
          <5>2. gained(s) = gained(t) + MaxIncrement
            <6>1. t \ {Baseline} = (s \ {Baseline}) \ {p} /\ p \in s \ {Baseline}
              BY <4>1, <4>4
            <6>2. Cardinality(t \ {Baseline}) = Cardinality(s \ {Baseline}) - 1
              BY <1>6, <6>1, FS_RemoveElement
            <6>3. ASSUME NEW k \in Nat, NEW j \in Nat, k = j - 1
                  PROVE  MaxIncrement * j = MaxIncrement * k + MaxIncrement
              BY <1>4, <6>3
            <6> QED
              BY <1>6, <4>1, <6>2, <6>3
          <5>3. Baseline \in s <=> Baseline \in t
            BY <4>4
          <5> HIDE DEF p, t, lost, gained
          <5> QED
            BY <1>2, <1>4, <1>5, <1>7, <3>1, <3>3, <4>1, <4>2, <5>1, <5>2, <5>3 DEF p, t
        <4> QED
          BY <4>3, <4>4
      <3> QED
        BY <3>2, <3>3
    <2> QED
      BY <2>1 DEF Sums
  <1>9. parts[Versions] = 100
    <2>1. Versions \ {Baseline} = Candidates /\ Baseline \in Versions
      BY VersionsAssumption DEF Versions
    <2>2. gained(Versions) = lost
      BY <2>1
    <2> HIDE DEF gained, lost
    <2> QED
      BY <1>3, <1>5, <2>1, <2>2
  <1>10. DOMAIN Shifted(weight) = Versions
    BY DEF Shifted
  <1> QED
    BY <1>8, <1>9, <1>10, TotalIs DEF Full

\* Nothing can be shifted from a route without weights.
LEMMA NothingToShift ==
    ASSUME MaxIncrement > 0, Candidates # {}
    PROVE  ~CanShift(NoTraffic)
  <1>1. Cardinality(Candidates) \in Nat \ {0} /\ MaxIncrement \in Nat
    BY VersionsAssumption, ParametersAssumption, FS_CardinalityType, FS_EmptySet
  <1>2. NoTraffic[Baseline] = 0
    BY DEF NoTraffic, Versions
  <1>3. MaxIncrement * Cardinality(Candidates) > 0
    BY <1>1
  <1>4. MaxIncrement * Cardinality(Candidates) \in Int
    BY <1>1
  <1> QED
    BY <1>2, <1>3, <1>4, FS_EmptySet DEF CanShift

-----------------------------------------------------------------------------
\* What the analytics service has to keep for this: when it recommends a weight for
\* every version and does not abort, what it does not roll back adds up.
Recommended(r) == [v \in Versions |-> IF v \in r.rollback THEN 0 ELSE r.split[v]]
AnswersConserve ==
    \A r \in Responses : ~Incomplete(r) /\ r.rollback # Candidates => Full(Recommended(r))

\* What the weights are expected to come from.
Regular ==
    /\ Criteria => AnswersConserve
    /\ ~Criteria => MaxIncrement > 0 /\ Candidates # {}

\* Targets have left the experiment alone and users at most deleted it; calls may fail,
\* and the controller may restart.
Untouched == Regular /\ Uncommanded /\ targetEvents = 0

\* Without criteria, an experiment that ends with the traffic as it is may have lost it.
Steady == Criteria \/ OnTermination # "keep_last"

\* An experiment whose interval is running has weights that the analytics gave it, and
\* one that was ever iterated had found its targets.  Without criteria the weights are
\* those of a route, or were never recorded, and of the baseline until then.
Weighed(s) ==
    /\ Criteria /\ s.last = "recent" => Full(s.weight)
    /\ ~Criteria /\ ~s.completed => s.weight = NoTraffic \/ Full(s.weight)
    /\ ~Criteria /\ ~s.completed /\ s.targets # "Found"
           => s.weight \in {NoTraffic, AllTo(Baseline)}
    /\ s.last # "never" => s.inited /\ s.targets = "Found"

\* The calls that set up the rules, and those before the rules are fetched.
SettingUp == {"detect", "baselineVS", "baselineDR", "candidates", "candidatesVS", "candidatesDR"}
Unfetched == {"idle", "initStatus", "finalizer", "decide", "metrics", "metricsUpdate", "fetch"}

\* No user terminated the experiment with weights of his own.
Consistent(x) == Weighed(x.status) /\ (x.override = "terminate" => x.split = NoSplit)

\* A copy with which the worker may go on to the call next, got telling whether it has
\* fetched the rules.
FitFor(next, got, x) ==
    /\ Consistent(x)
    /\ next \in Unfetched => ~got
    /\ next \in SettingUp => x.status.last = "never" /\ x.status.targets # "Found"
    /\ next \in {"iterate", "trafficVS"} =>
           x.status.inited /\ x.status.targets = "Found" /\ x.status.last # "recent"
    /\ next = "trafficVS" \/ (next = "stableVS" /\ Steady) => Full(x.status.weight)
    /\ next = "finish" \/ (next = "complete" /\ got) =>
           \/ x.override = "terminate"
           \/ x.status.targets = "Found" /\ (Criteria => Full(x.status.weight))

TrafficStore == Weighed(obj.status) /\ Weighed(cache.status)
TrafficCopy == ~refresh /\ targetAction = "" /\ FitFor(pc, fetched, inst)
TrafficRoute ==
    /\ Owned(vs) \/ (vs.role = "stable" /\ Steady) => Full(vs.weight)
    /\ pc \in SettingUp \ {"detect", "baselineVS"} \/ pc \in {"stableVS", "deleteVS"}
           => Owned(vs)

TrafficInv == Untouched => TrafficStore /\ TrafficCopy /\ TrafficRoute

\* What TrafficInv is shown from.
TrafficFacts ==
    /\ LoopInv /\ DeletingInv /\ NoCommand /\ Untouched
    /\ TrafficStore /\ TrafficCopy /\ TrafficRoute

LEMMA UntouchedStep ==
    ASSUME LoopInv, DeletingInv, [Next]_vars, Untouched'
    PROVE  /\ Untouched /\ ~(\E t : TargetEvent(t))
           /\ \A new : UserChange(new) =>
                  new = [obj EXCEPT !.deleting = TRUE, !.exists = obj.finalizer]
  <1>1. targetEvents = 0 /\ ~(\E t : TargetEvent(t))
    BY Counters DEF LoopInv, Untouched
  <1>2. Regular' = Regular
    BY DEF Regular, AnswersConserve, Full, Recommended, Incomplete
  <1>3. Uncommanded'
    BY DEF Untouched
  <1> QED
    BY <1>1, <1>2, <1>3, UncommandedStep DEF Untouched

-----------------------------------------------------------------------------
\* Copies that agree on what FitFor is about.
Alike(x, y) ==
    /\ x.status.last = y.status.last /\ x.status.weight = y.status.weight
    /\ x.status.targets = y.status.targets /\ x.status.inited = y.status.inited
    /\ x.status.completed = y.status.completed \/ x.status.completed = TRUE
    /\ x.override = y.override /\ x.split = y.split

\* Most status methods, and the changes of other fields, leave it as it is.
LEMMA MarksAlike ==
    ASSUME NEW x \in Object
    PROVE  /\ Alike(x, x)
           /\ Alike(MarkRoutingRulesError(x), x)
           /\ Alike(MarkAnalyticsServiceError(x), x)
           /\ Alike(MarkMetricsSyncedError(x), x)
           /\ Alike(MarkExperimentCompleted(x), x)
           /\ Alike([x EXCEPT !.metrics = TRUE], x)
           /\ Alike([x EXCEPT !.finalizer = TRUE], x)
           /\ Alike([x EXCEPT !.status.metricsSynced = "True"], x)
           /\ \A n : Alike([x EXCEPT !.status.iteration = n], x)
  BY DEF Object, Status, Alike, MarkRoutingRulesError, MarkAnalyticsServiceError,
         MarkMetricsSyncedError, MarkExperimentCompleted

LEMMA AlikeFit ==
    ASSUME NEW next, NEW got, NEW y, FitFor(next, got, y), NEW x, Alike(x, y)
    PROVE  FitFor(next, got, x)
  BY DEF Alike, FitFor, Consistent, Weighed

\* Going on to a call of which FitFor asks nothing but that the rules were not fetched.
Free == PCs \ (Unfetched \cup SettingUp
                 \cup {"iterate", "trafficVS", "finish", "complete", "stableVS"})

LEMMA FreeFit ==
    ASSUME NEW next, NEW got, next \in Free \/ (next \in Unfetched /\ ~got), NEW x, Consistent(x)
    PROVE  FitFor(next, got, x)
  BY DEF Free, FitFor, Unfetched, SettingUp

\* The other status methods.
LEMMA MarksWeigh ==
    ASSUME NEW x \in Object
    PROVE  /\ LET y == MarkTargetsAndRulesReady(x)
              IN  /\ y.status.last = x.status.last /\ y.status.weight = x.status.weight
                  /\ y.status.targets = "Found" /\ y.status.inited = x.status.inited
                  /\ y.status.completed = x.status.completed
                  /\ y.override = x.override /\ y.split = x.split
           /\ LET y == MarkIterationUpdate(x)
              IN  /\ y.status.last = "recent" /\ y.status.weight = x.status.weight
                  /\ y.status.targets = x.status.targets /\ y.status.inited = x.status.inited
                  /\ y.override = x.override /\ y.split = x.split
           /\ LET y == TerminateExperiment(x)
              IN  y.status = x.status /\ y.override = "terminate" /\ y.split = NoSplit
           /\ LET y == InitStatus(x)
              IN  /\ y.status.last = x.status.last /\ y.status.weight = NoTraffic
                  /\ y.override = x.override /\ y.split = x.split
  BY DEF Object, Status, MarkTargetsAndRulesReady, MarkIterationUpdate, TerminateExperiment,
         InitStatus

\* A missing target, when there are no weights but those that were set up.
LEMMA TargetsErrorWeighs ==
    ASSUME NEW x \in Object, NEW reason, Consistent(x), x.status.last = "never",
           ~Criteria => x.status.weight \in {NoTraffic, AllTo(Baseline)}
    PROVE  Consistent(MarkTargetsError(x, reason))
  <1> DEFINE y == MarkTargetsError(x, reason)
  <1>1. /\ y.status.last = "never" /\ y.status.weight = x.status.weight
        /\ y.override = x.override /\ y.split = x.split
    BY DEF MarkTargetsError, Object, Status
  <1> HIDE DEF y
  <1>2. Full(AllTo(Baseline))
    BY AllToFull DEF Versions
  <1>3. Consistent(y)
    BY <1>1, <1>2 DEF Consistent, Weighed
  <1> QED
    BY <1>3 DEF y

\* The end of an experiment that no user terminated: all the traffic goes to a version,
\* or stays as it was.
LEMMA OverrideWeighs ==
    ASSUME NEW x \in Object, x.override = "terminate" => x.split = NoSplit
    PROVE  LET y == overrideAssessment(x)
           IN  /\ y \in Object
               /\ y.status.last = x.status.last /\ y.status.targets = x.status.targets
               /\ y.status.inited = x.status.inited
               /\ y.status.completed = x.status.completed
               /\ y.override = x.override /\ y.split = x.split
               /\ x.override = "terminate" => y.status.weight = AllTo(Baseline)
               /\ \/ Full(y.status.weight)
                  \/ /\ y.status.weight = x.status.weight
                     /\ OnTermination = "keep_last" /\ x.override # "terminate"
  <1> DEFINE y == overrideAssessment(x)
  <1>1. y \in Object
    BY OverrideType
  <1>2. CASE Receiver(x) # NoWinner
    <2>1. Receiver(x) \in Versions
      BY <1>2 DEF Receiver, Versions, Object, Status
    <2>2. y = [x EXCEPT !.status.weight = AllTo(Receiver(x))]
      BY <1>2 DEF overrideAssessment
    <2>3. /\ y.status.weight = AllTo(Receiver(x))
          /\ y.status.last = x.status.last /\ y.status.targets = x.status.targets
          /\ y.status.inited = x.status.inited
          /\ y.status.completed = x.status.completed
          /\ y.override = x.override /\ y.split = x.split
      BY <2>2 DEF Object, Status
    <2>4. x.override = "terminate" => Receiver(x) = Baseline
      BY DEF Receiver, EffectiveOnTermination
    <2> QED
      BY <1>1, <2>1, <2>3, <2>4, AllToFull
  <1>3. CASE Receiver(x) = NoWinner
    <2>1. x.override # "terminate" /\ OnTermination = "keep_last"
      BY <1>3, VersionsAssumption DEF Receiver, EffectiveOnTermination, Versions
    <2>2. y = x
      BY <1>3, <2>1 DEF overrideAssessment
    <2> QED
      BY <1>1, <2>1, <2>2
  <1> QED
    BY <1>2, <1>3

-----------------------------------------------------------------------------
\* A step of the worker keeps the store consistent ...
LEMMA TrafficStoreByWorker ==
    ASSUME TrafficFacts, Worker
    PROVE  /\ TrafficStore' /\ cache' = cache /\ obj' \in Object
           /\ obj.exists /\ ~RemoveFinalizer => Consistent(obj')
  <1>0. /\ LoopInv /\ DeletingInv /\ NoCommand /\ [Next]_vars
        /\ obj \in Object /\ TrafficStore /\ Weighed(inst.status)
    BY Copies DEF TrafficFacts, TrafficCopy, FitFor, Consistent, Next
  <1>1. Plain(obj') /\ cache' = cache /\ obj' \in Object
    BY <1>0, PlainWrites, StoreStep DEF LoopInv, StoreOK
  <1>2. Weighed(obj'.status)
    <2>1. CASE StatusWriter
      <3>1. obj' = obj \/ obj' = [obj EXCEPT !.status = inst.status]
        BY <2>1 DEF StatusWriter, WriteInitStatus, WriteMetricsError, EndRequest, UpdateStatus,
                    Store, store
      <3>2. obj' = obj \/ obj'.status = inst.status
        BY <1>0, <3>1 DEF Object
      <3> QED
        BY <1>0, <3>2 DEF TrafficStore
    <2>2. CASE ~StatusWriter
      <3>1. ~IntervalElapses
        BY ActionAt DEF Get, IntervalElapses
      <3> QED
        BY <1>0, <2>2, <3>1, QuietStatus DEF TrafficStore
    <2> QED
      BY <2>1, <2>2
  <1>3. obj.exists /\ ~RemoveFinalizer => obj'.exists
    BY <1>0, LifetimeWritten DEF Lifetime
  <1> QED
    BY <1>0, <1>1, <1>2, <1>3 DEF TrafficStore, Plain, Consistent

\* The route of an experiment that ends has the weights it had, or those of the status.
LEMMA StableWeight ==
    ASSUME NEW v \in VirtualService, NEW d, NEW w
    PROVE  WithStable(FinalTraffic(v, d, w)).weight \in {v.weight, w}
  <1>1. CASE FinalTraffic(v, d, w) = v
    BY <1>1 DEF WithStable, VirtualService
  <1>2. CASE FinalTraffic(v, d, w) = [v EXCEPT !.weight = w]
    BY <1>2 DEF WithStable, VirtualService
  <1> QED
    BY <1>1, <1>2 DEF FinalTraffic

\* ... and the route.
LEMMA TrafficRouteByWorker ==
    ASSUME TrafficFacts, Worker
    PROVE  TrafficRoute'
  <1> DEFINE There == (SettingUp \ {"detect", "baselineVS"}) \cup {"stableVS", "deleteVS"}
  <1>0. /\ FitFor(pc, fetched, inst) /\ inst \in Object
        /\ vs \in VirtualService /\ dr \in DestinationRule
        /\ Owned(vs) \/ (vs.role = "stable" /\ Steady) => Full(vs.weight)
        /\ pc \in There => Owned(vs)
    BY Copies DEF TrafficFacts, TrafficCopy, TrafficRoute, LoopInv, TypeOK
  <1>1. ASSUME Owned(vs') \/ (vs'.role = "stable" /\ Steady) => Full(vs'.weight),
               pc' \in There => Owned(vs')
        PROVE  TrafficRoute'
    BY <1>1 DEF TrafficRoute, SettingUp, Owned, Steady
  <1>2. CASE UpdateBaselineVS
    <2>1. \/ vs' = vs /\ pc' = "endRequest"
          \/ vs' = WithBaseline(vs)
      BY <1>2 DEF UpdateBaselineVS, RulesError, Fail, Goto
    <2>2. CASE vs' = vs /\ pc' = "endRequest"
      BY <1>0, <1>1, <2>2 DEF SettingUp
    <2>3. CASE vs' = WithBaseline(vs)
      <3>1. vs'.role = "initializing" /\ vs'.weight = AllTo(Baseline)
        BY <1>0, <2>3, RuleChanges
      <3>2. Full(AllTo(Baseline))
        BY AllToFull DEF Versions
      <3> QED
        BY <1>1, <3>1, <3>2 DEF Owned
    <2> QED
      BY <2>1, <2>2, <2>3
  <1>3. CASE UpdateCandidatesVS
    <2>1. /\ pc = "candidatesVS"
          /\ \/ vs' = vs /\ pc' = "endRequest"
             \/ vs' = WithProgressing(vs)
      BY <1>3 DEF UpdateCandidatesVS, RulesError, Fail, Goto
    <2>2. CASE vs' = vs /\ pc' = "endRequest"
      BY <1>0, <1>1, <2>2 DEF SettingUp
    <2>3. CASE vs' = WithProgressing(vs)
      <3>1. vs'.role = "progressing" /\ vs'.weight = vs.weight
        BY <1>0, <2>3, RuleChanges
      <3> QED
        BY <1>0, <1>1, <2>1, <3>1 DEF SettingUp, Owned
    <2> QED
      BY <2>1, <2>2, <2>3
  <1>4. CASE UpdateTrafficVS
    <2>1. /\ pc = "trafficVS" /\ pc' \notin There
          /\ vs' = vs \/ vs' = [vs EXCEPT !.weight = inst.status.weight]
      BY <1>4 DEF UpdateTrafficVS, RulesError, IterationDone, Fail, Goto, SettingUp
    <2>2. [vs EXCEPT !.weight = inst.status.weight].weight = inst.status.weight
      BY <1>0 DEF VirtualService
    <2> QED
      BY <1>0, <1>1, <2>1, <2>2 DEF FitFor
  <1>5. CASE StableVS
    <2>1. /\ pc \in {"stableVS", "deleteVS"} /\ pc' \notin There
          /\ \/ vs' = vs
             \/ pc = "deleteVS" /\ vs' = AbsentVS
             \/ pc = "stableVS" /\ vs' = WithStable(FinalTraffic(vs, dr, inst.status.weight))
      BY <1>5 DEF StableVS, Completed, CompletionFails, Return, Fail, Continue, Goto, SettingUp
    <2>2. CASE vs' = vs
      BY <1>0, <1>1, <2>1, <2>2
    <2>3. CASE vs' = AbsentVS
      <3>1. vs'.role = "absent"
        BY <2>3 DEF AbsentVS
      <3> QED
        BY <1>1, <2>1, <3>1 DEF Owned
    <2>4. CASE pc = "stableVS" /\ vs' = WithStable(FinalTraffic(vs, dr, inst.status.weight))
      <3>1. vs'.weight \in {vs.weight, inst.status.weight}
        BY <1>0, <2>4, StableWeight
      <3>2. Full(vs.weight) /\ (Steady => Full(inst.status.weight))
        BY <1>0, <2>4 DEF FitFor
      <3>3. vs'.role = "stable"
        BY <1>0, <2>4, StableRoute
      <3>4. Steady => Full(vs'.weight)
        BY <3>1, <3>2
      <3> QED
        BY <1>1, <2>1, <3>3, <3>4 DEF Owned
    <2> QED
      BY <2>1, <2>2, <2>3, <2>4
  <1>6. CASE DetectBaseline
    <2>1. /\ vs' = vs
          /\ \/ pc' \notin There
             \/ pc' = "candidates" /\ (isProgressing(vs, dr) \/ isInitializing(vs, dr))
      BY <1>6 DEF DetectBaseline, TargetsError, Fail, Continue, Goto, rules, SettingUp
    <2> QED
      BY <1>0, <1>1, <2>1 DEF isProgressing, isInitializing, HaveRole, Owned
  <1>7. CASE Complete
    <2>1. /\ vs' = vs
          /\ pc' \notin There \/ isProgressing(vs, dr) \/ isInitializing(vs, dr)
      BY <1>7 DEF Complete, NoOpInUpdateRouteToStable, Completed, Fail, Goto, rules, SettingUp
    <2> QED
      BY <1>0, <1>1, <2>1 DEF isProgressing, isInitializing, HaveRole, Owned
  <1>8. CASE UpdateBaselineDR \/ DetectCandidates \/ UpdateCandidatesDR
    <2>1. vs' = vs /\ pc \in There
      BY <1>8 DEF UpdateBaselineDR, DetectCandidates, UpdateCandidatesDR, rules, SettingUp
    <2> QED
      BY <1>0, <1>1, <2>1
  <1>9. CASE \/ Get \/ WriteInitStatus \/ addFinalizerIfAbsent \/ Finalize \/ NotToProceed
             \/ Proceed \/ Pause \/ Resume \/ ReadMetrics \/ WriteMetricsError \/ WriteMetrics
             \/ Fetch \/ ShiftTraffic \/ Finish \/ StableDR \/ EndRequest \/ RemoveFinalizer
    <2>1. vs' = vs
      BY <1>9
         DEF Get, WriteInitStatus, addFinalizerIfAbsent, Finalize, NotToProceed, Proceed,
             Pause, Resume, ReadMetrics, WriteMetricsError, WriteMetrics, Fetch, ShiftTraffic,
             Finish, StableDR, EndRequest, RemoveFinalizer, rules
    <2>2. pc' \notin There
      BY <1>9, <1>0
         DEF Get, WriteInitStatus, addFinalizerIfAbsent, Finalize, NotToProceed, Proceed,
             Pause, Resume, ReadMetrics, WriteMetricsError, WriteMetrics, Fetch, ShiftTraffic,
             Finish, StableDR, EndRequest, RemoveFinalizer, Return, Fail, Continue, Goto,
             AfterDetection, toSyncMetrics, IterationDone, Completed, CompletionFails, Ended,
             SettingUp
    <2> QED
      BY <1>0, <1>1, <2>1, <2>2
  <1>10. CASE Iterate
    <2>1. ASSUME NEW r, Analyze(r)
          PROVE  pc' \in {"finish", "trafficVS", "endRequest"}
      BY <2>1 DEF Analyze, AnalyticsError, IterationDone, Continue, Fail, Goto
    <2>2. vs' = vs /\ pc' \in {"finish", "trafficVS", "endRequest"}
      BY <1>10, <2>1 DEF Iterate, AnalyticsError, Fail, Goto, rules
    <2> QED
      BY <1>0, <1>1, <2>2 DEF SettingUp
  <1> QED
    BY <1>2, <1>3, <1>4, <1>5, <1>6, <1>7, <1>8, <1>9, <1>10 DEF Worker

\* The worker goes on with a copy ...
LEMMA TrafficGo ==
    ASSUME NEW next, NEW x, Goto(next, x), FitFor(next, fetched', x), ~refresh', targetAction' = ""
    PROVE  TrafficCopy'
  BY DEF Goto, TrafficCopy

\* ... without the rules being fetched in between, ...
LEMMA TrafficContinue ==
    ASSUME TrafficFacts, NEW next, NEW x, Continue(next, x), FitFor(next, fetched, x),
           targetAction' = ""
    PROVE  TrafficCopy'
  BY TrafficGo DEF Continue, TrafficFacts, TrafficCopy, interState

\* ... or after an error; or it is done.
LEMMA TrafficFail ==
    ASSUME TrafficFacts, NEW x, NEW changed, Fail(x, changed), Consistent(x), targetAction' = ""
    PROVE  TrafficCopy'
  <1>1. FitFor("endRequest", fetched, x)
    BY FreeFit DEF Free, PCs, Unfetched, SettingUp
  <1> QED
    BY <1>1, TrafficGo DEF Fail, TrafficFacts, TrafficCopy

LEMMA TrafficReturn == ASSUME Return, targetAction' = "" PROVE TrafficCopy'
  <1>1. NewObject.status = EmptyStatus /\ NewObject.override = "none"
    BY DEF NewObject
  <1>2. EmptyStatus.last = "never" /\ EmptyStatus.weight = NoTraffic
    BY DEF EmptyStatus
  <1>3. Consistent(NewObject)
    BY <1>1, <1>2 DEF Consistent, Weighed
  <1>4. FitFor("idle", FALSE, NewObject)
    BY <1>3, FreeFit DEF Unfetched
  <1> QED
    BY <1>4 DEF Return, TrafficCopy

\* No step of the worker marks the experiment in the adapter.
LEMMA WorkerMarksNothing ==
    ASSUME TrafficFacts, Worker
    PROVE  targetAction' = ""
  <1>1. targetAction = ""
    BY DEF TrafficFacts, TrafficCopy
  <1>2. CASE Proceed \/ Complete
    BY <1>2 DEF Proceed, Complete, RemoveExperiment
  <1>3. CASE \/ Get \/ WriteInitStatus \/ addFinalizerIfAbsent \/ Finalize \/ NotToProceed
             \/ Pause \/ Resume \/ ReadMetrics \/ WriteMetricsError \/ WriteMetrics \/ Fetch
             \/ DetectBaseline \/ UpdateBaselineVS \/ UpdateBaselineDR \/ DetectCandidates
             \/ UpdateCandidatesVS \/ UpdateCandidatesDR \/ ShiftTraffic \/ Iterate
             \/ UpdateTrafficVS \/ Finish \/ StableVS \/ StableDR \/ EndRequest
             \/ RemoveFinalizer
    BY <1>1, <1>3
       DEF Get, WriteInitStatus, addFinalizerIfAbsent, Finalize, NotToProceed, Pause, Resume,
           ReadMetrics, WriteMetricsError, WriteMetrics, Fetch, DetectBaseline,
           UpdateBaselineVS, UpdateBaselineDR, DetectCandidates, UpdateCandidatesVS,
           UpdateCandidatesDR, ShiftTraffic, Iterate, UpdateTrafficVS, Finish, StableVS,
           StableDR, EndRequest, RemoveFinalizer, adapter
  <1> QED
    BY <1>2, <1>3 DEF Worker

\* What the worker has is a copy that it may go on with after a write of it.
LEMMA TrafficDecoded ==
    ASSUME TrafficFacts, Worker, ~RemoveFinalizer, NEW a, Answer(a), NEW x, Consistent(x)
    PROVE  Consistent(Decoded(a, x))
  BY TrafficStoreByWorker DEF Answer, Decoded

\* The steps up to the point where the rules are fetched.
LEMMA TrafficCopyRead ==
    ASSUME TrafficFacts, Worker,
           \/ Get \/ WriteInitStatus \/ addFinalizerIfAbsent \/ Finalize \/ NotToProceed
           \/ Proceed \/ ReadMetrics \/ WriteMetricsError \/ WriteMetrics
    PROVE  TrafficCopy'
  <1>0. /\ LoopInv /\ DeletingInv /\ NoCommand /\ CopyInv
        /\ obj \in Object /\ cache \in Object /\ inst \in Object
        /\ FitFor(pc, fetched, inst) /\ Consistent(inst) /\ ~refresh /\ targetAction = ""
        /\ Plain(cache) /\ Weighed(cache.status)
        /\ targetAction' = ""
    BY Copies, WorkerMarksNothing
       DEF TrafficFacts, TrafficCopy, TrafficStore, FitFor, LoopInv, CopyRelated, Related, NoCommand
  <1>1. \A x : Alike(x, inst) => Consistent(x)
    BY <1>0 DEF Alike, Consistent, Weighed
  <1>2. pc \in Unfetched => ~fetched
    BY <1>0 DEF FitFor
  <1>3. ASSUME NEW next \in Unfetched, NEW x, Consistent(x), Goto(next, x),
               ~fetched, fetched' = fetched,
               ~refresh'
        PROVE  TrafficCopy'
    BY <1>0, <1>3, FreeFit, TrafficGo
  <1>4. CASE Get
    <2>0. pc = "idle" /\ ~fetched
      BY <1>2, <1>4 DEF Get, Unfetched
    <2> DEFINE x == IF cache.status.inited THEN cache ELSE InitStatus(cache)
    <2>1. CASE ~cache.exists
      BY <1>0, <1>4, <2>1, TrafficReturn DEF Get
    <2>2. CASE cache.exists
      <3>1. /\ \/ \E next \in {"decide", "finalizer", "initStatus"} : Goto(next, x)
               \/ Goto("endRequest", MarkTargetsError(x, "Invalid"))
            /\ fetched' = fetched /\ refresh' = refresh
        BY <1>4, <2>2 DEF Get
      <3>2. /\ x \in Object /\ Consistent(x)
            /\ cache.status.inited \/ (x.status.last = "never" /\ x.status.weight = NoTraffic)
        <4>1. Consistent(cache)
          BY <1>0, <2>2 DEF Plain, Consistent
        <4>2. CASE cache.status.inited
          BY <1>0, <4>1, <4>2
        <4>3. CASE ~cache.status.inited
          <5>1. InitStatus(cache) \in Object
            BY <1>0, InitStatusType
          <5>2. cache.status.last = "never"
            BY <1>0, <4>3 DEF Weighed
          <5>3. /\ InitStatus(cache).status.last = "never"
                /\ InitStatus(cache).status.weight = NoTraffic
                /\ InitStatus(cache).override = cache.override
                /\ InitStatus(cache).split = cache.split
            BY <1>0, <5>2, MarksWeigh
          <5>4. Consistent(InitStatus(cache))
            BY <4>1, <5>3 DEF Consistent, Weighed
          <5> QED
            BY <4>3, <5>1, <5>3, <5>4
        <4> QED
          BY <4>2, <4>3
      <3>3. CASE Goto("endRequest", MarkTargetsError(x, "Invalid"))
        <4>1. ~cache.status.inited
          BY <1>4, <2>2, <3>3 DEF Get, Goto
        <4> HIDE DEF x
        <4>2. Consistent(MarkTargetsError(x, "Invalid"))
          BY <3>2, <4>1, TargetsErrorWeighs
        <4>3. FitFor("endRequest", fetched', MarkTargetsError(x, "Invalid"))
          BY <4>2, FreeFit DEF Free, PCs, Unfetched, SettingUp
        <4> QED
          BY <1>0, <3>1, <3>3, <4>3, TrafficGo
      <3> HIDE DEF x
      <3>4. CASE \E next \in {"decide", "finalizer", "initStatus"} : Goto(next, x)
        BY <1>0, <1>3, <2>0, <3>1, <3>2, <3>4 DEF Unfetched
      <3> QED
        BY <3>1, <3>3, <3>4
    <2> QED
      BY <2>1, <2>2
  <1>5. CASE WriteInitStatus
    <2>1. PICK a \in {"ok", "conflict", "error"} :
             /\ Answer(a)
             /\ \/ Return
                \/ \E next \in {"decide", "finalizer"} : Continue(next, Decoded(a, inst))
      BY <1>5 DEF WriteInitStatus
    <2>2. Consistent(Decoded(a, inst)) /\ ~fetched
      BY <1>0, <1>2, <1>5, <2>1, TrafficDecoded DEF WriteInitStatus, RemoveFinalizer, Unfetched
    <2>3. \A next \in {"decide", "finalizer"} : FitFor(next, fetched, Decoded(a, inst))
      BY <2>2, FreeFit DEF Unfetched
    <2> QED
      BY <1>0, <2>1, <2>3, TrafficReturn, TrafficContinue
  <1>6. CASE addFinalizerIfAbsent
    <2> DEFINE x == [inst EXCEPT !.finalizer = TRUE]
    <2>1. PICK a \in {"ok", "conflict", "error"} :
             Answer(a) /\ (Return \/ Continue("decide", Decoded(a, x)))
      BY <1>6 DEF addFinalizerIfAbsent
    <2>2. Consistent(x)
      BY <1>0, <1>1, MarksAlike
    <2> HIDE DEF x
    <2>3. Consistent(Decoded(a, x)) /\ ~fetched
      BY <1>0, <1>2, <1>6, <2>1, <2>2, TrafficDecoded
         DEF addFinalizerIfAbsent, RemoveFinalizer, Unfetched
    <2>4. FitFor("decide", fetched, Decoded(a, x))
      BY <2>3, FreeFit DEF Unfetched
    <2> QED
      BY <1>0, <2>1, <2>4, TrafficReturn, TrafficContinue
  <1>7. CASE Finalize
    <2>1. ~fetched
      BY <1>2, <1>7 DEF Finalize, Unfetched
    <2>2. CASE Continue("removeFinalizer", inst)
      <3>1. FitFor("removeFinalizer", fetched, inst)
        BY <1>0, FreeFit DEF Free, PCs, Unfetched, SettingUp
      <3> QED
        BY <1>0, <2>2, <3>1, TrafficContinue
    <2>3. CASE Goto("fetch", TerminateExperiment(inst)) /\ fetched' = fetched /\ ~refresh'
      <3>1. Consistent(TerminateExperiment(inst))
        BY <1>0, MarksWeigh DEF Consistent
      <3> QED
        BY <1>3, <2>1, <2>3, <3>1 DEF Unfetched
    <2> QED
      BY <1>7, <2>2, <2>3 DEF Finalize
  <1>8. CASE NotToProceed
    BY <1>0, <1>8, TrafficReturn DEF NotToProceed
  <1>9. CASE Proceed
    <2>1. ~fetched /\ Plain(inst) /\ inst.exists
      BY <1>0, <1>2, <1>9 DEF Proceed, Unfetched, NoCommand, Reading, DeletingInv, DeletionWork
    <2>2. /\ \E next \in {"metrics", "fetch", "endRequest"} : Goto(next, inst)
          /\ ~refresh' /\ fetched' = fetched
      BY <1>0, <1>9, <2>1 DEF Proceed, Plain, toSyncMetrics
    <2>3. \A next \in {"metrics", "fetch", "endRequest"} : FitFor(next, fetched, inst)
      BY <1>0, <2>1, FreeFit DEF Free, PCs, Unfetched, SettingUp
    <2> QED
      BY <1>0, <2>2, <2>3, TrafficGo
  <1>10. CASE ReadMetrics
    <2>1. /\ \/ Goto("metricsUpdate", [inst EXCEPT !.metrics = TRUE])
             \/ Goto("metricsError", MarkMetricsSyncedError(inst))
          /\ refresh' = refresh /\ fetched' = fetched /\ ~fetched
      BY <1>2, <1>10 DEF ReadMetrics, Continue, interState, Unfetched
    <2>2. /\ Consistent([inst EXCEPT !.metrics = TRUE])
          /\ Consistent(MarkMetricsSyncedError(inst))
      BY <1>0, <1>1, MarksAlike
    <2>3. /\ FitFor("metricsUpdate", fetched, [inst EXCEPT !.metrics = TRUE])
          /\ FitFor("metricsError", fetched, MarkMetricsSyncedError(inst))
      BY <2>1, <2>2, FreeFit DEF Free, PCs, Unfetched, SettingUp
    <2> QED
      BY <1>0, <2>1, <2>3, TrafficGo
  <1>11. CASE WriteMetricsError
    <2>1. PICK a \in {"ok", "conflict", "error"} : Answer(a) /\ Fail(Decoded(a, inst), FALSE)
      BY <1>11 DEF WriteMetricsError
    <2>2. Consistent(Decoded(a, inst))
      BY <1>0, <1>11, <2>1, TrafficDecoded DEF WriteMetricsError, RemoveFinalizer
    <2> QED
      BY <1>0, <2>1, <2>2, TrafficFail
  <1>12. CASE WriteMetrics
    <2>1. PICK a \in {"ok", "conflict", "error"} :
             /\ Answer(a) /\ UpdateObject(a, inst)
             /\ \/ Fail(inst, FALSE)
                \/ /\ Goto("fetch", [Decoded(a, inst) EXCEPT !.status.metricsSynced = "True"])
                   /\ refresh' = refresh /\ fetched' = fetched
      BY <1>12 DEF WriteMetrics
    <2> DEFINE y == Decoded(a, inst)
    <2>2. Consistent(y) /\ ~fetched
      BY <1>0, <1>2, <1>12, <2>1, TrafficDecoded DEF WriteMetrics, RemoveFinalizer, Unfetched
    <2>3. y \in Object
      BY <1>0, <2>1, ObjectWrite DEF LoopInv, TypeOK, StoreOK
    <2> HIDE DEF y
    <2>4. Alike([y EXCEPT !.status.metricsSynced = "True"], y)
      BY <2>3, MarksAlike
    <2>5. Consistent([y EXCEPT !.status.metricsSynced = "True"])
      BY <2>2, <2>4 DEF Alike, Consistent, Weighed
    <2>6. CASE Fail(inst, FALSE)
      BY <1>0, <2>6, TrafficFail
    <2>7. CASE /\ Goto("fetch", [y EXCEPT !.status.metricsSynced = "True"])
               /\ refresh' = refresh /\ fetched' = fetched
      BY <1>0, <1>3, <2>2, <2>5, <2>7 DEF Unfetched
    <2> QED
      BY <2>1, <2>6, <2>7 DEF y
  <1> QED
    BY <1>4, <1>5, <1>6, <1>7, <1>8, <1>9, <1>10, <1>11, <1>12

\* The worker goes on after the targets were detected.
LEMMA TrafficDetected ==
    ASSUME TrafficFacts, pc \in SettingUp, inst.status.last = "never", Detected,
           targetAction' = ""
    PROVE  TrafficCopy'
  <1> DEFINE x == MarkTargetsAndRulesReady(inst)
  <1>0. inst \in Object /\ inst.status.inited /\ Consistent(inst)
    BY Copies DEF TrafficFacts, LoopInv, CopyRelated, Related, CopyInv, TrafficCopy, FitFor,
                  SettingUp
  <1>1. /\ x.status.last = "never" /\ x.status.targets = "Found" /\ x.status.inited
        /\ x.override = inst.override /\ x.split = inst.split
        /\ x.status.weight = inst.status.weight /\ x.status.completed = inst.status.completed
    BY <1>0, MarksWeigh
  <1>2. Goto(AfterDetection(x), x) /\ fetched' = fetched /\ refresh' = refresh
    BY DEF Detected
  <1> HIDE DEF x
  <1>3. Consistent(x)
    BY <1>0, <1>1 DEF Consistent, Weighed
  <1>4. FitFor("iterate", fetched, x)
    BY <1>1, <1>3 DEF FitFor, Unfetched, SettingUp
  <1>5. x.override = "terminate" => FitFor("finish", fetched, x)
    BY <1>3 DEF FitFor, Unfetched, SettingUp
  <1>6. FitFor(AfterDetection(x), fetched, x)
    BY <1>1, <1>4, <1>5 DEF AfterDetection, toProcessIteration
  <1> QED
    BY <1>2, <1>6, TrafficGo DEF TrafficFacts, TrafficCopy

\* The steps that fetch and set up the rules.
LEMMA TrafficCopySetUp ==
    ASSUME TrafficFacts, Worker,
           \/ Fetch \/ DetectBaseline \/ UpdateBaselineVS \/ UpdateBaselineDR
           \/ DetectCandidates \/ UpdateCandidatesVS \/ UpdateCandidatesDR
    PROVE  TrafficCopy'
  <1>0. /\ inst \in Object /\ pc # "idle" /\ inst.status.inited
        /\ FitFor(pc, fetched, inst) /\ Consistent(inst) /\ ~refresh /\ targetAction' = ""
    <2>1. pc # "idle"
      BY DEF Fetch, DetectBaseline, UpdateBaselineVS, UpdateBaselineDR, DetectCandidates,
             UpdateCandidatesVS, UpdateCandidatesDR
    <2> QED
      BY <2>1, Copies, WorkerMarksNothing
         DEF TrafficFacts, LoopInv, CopyRelated, Related, CopyInv, TrafficCopy, FitFor
  <1>1. \A x : Alike(x, inst) => Consistent(x)
    BY <1>0 DEF Alike, Consistent, Weighed
  <1>2. RulesError => TrafficCopy'
    <2>1. Consistent(MarkRoutingRulesError(inst))
      BY <1>0, <1>1, MarksAlike
    <2> QED
      BY <1>0, <2>1, TrafficFail DEF RulesError
  <1>3. CASE Fetch
    <2>1. \/ fetched' = fetched /\ Goto("complete", MarkRoutingRulesError(inst))
          \/ fetched' /\ toDetectTargets(inst, refresh) /\ Goto("detect", inst)
          \/ fetched' /\ ~toDetectTargets(inst, refresh) /\ Goto(AfterDetection(inst), inst)
      BY <1>3 DEF Fetch, Continue
    <2>2. refresh' = refresh /\ ~fetched
      BY <1>0, <1>3 DEF Fetch, Continue, interState, FitFor, Unfetched
    <2>3. CASE fetched' = fetched /\ Goto("complete", MarkRoutingRulesError(inst))
      <3>1. Consistent(MarkRoutingRulesError(inst))
        BY <1>0, <1>1, MarksAlike
      <3>2. FitFor("complete", fetched', MarkRoutingRulesError(inst))
        BY <2>2, <2>3, <3>1 DEF FitFor, Unfetched, SettingUp
      <3> QED
        BY <1>0, <2>2, <2>3, <3>2, TrafficGo
    <2>4. CASE fetched' /\ toDetectTargets(inst, refresh) /\ Goto("detect", inst)
      <3>1. inst.status.last = "never" /\ inst.status.targets # "Found"
        BY <1>0, <2>4 DEF toDetectTargets, Consistent, Weighed
      <3>2. FitFor("detect", fetched', inst)
        BY <1>0, <3>1 DEF FitFor, Unfetched, SettingUp
      <3> QED
        BY <1>0, <2>2, <2>4, <3>2, TrafficGo
    <2>5. CASE fetched' /\ ~toDetectTargets(inst, refresh) /\ Goto(AfterDetection(inst), inst)
      <3>1. inst.override = "terminate" \/ inst.status.targets = "Found"
        BY <1>0, <2>5 DEF toDetectTargets
      <3>2. CASE toProcessIteration(inst)
        <4>1. FitFor("iterate", fetched', inst)
          BY <1>0, <3>1, <3>2 DEF toProcessIteration, FitFor, Unfetched, SettingUp
        <4> QED
          BY <1>0, <2>2, <2>5, <3>2, <4>1, TrafficGo DEF AfterDetection
      <3>3. CASE ~toProcessIteration(inst)
        <4>1. inst.override = "terminate" \/ (Criteria => Full(inst.status.weight))
          BY <1>0, <3>3 DEF toProcessIteration, Consistent, Weighed
        <4>2. FitFor("finish", fetched', inst)
          BY <1>0, <3>1, <4>1 DEF FitFor, Unfetched, SettingUp
        <4> QED
          BY <1>0, <2>2, <2>5, <3>3, <4>2, TrafficGo DEF AfterDetection
      <3> QED
        BY <3>2, <3>3
    <2> QED
      BY <2>1, <2>3, <2>4, <2>5
  <1>4. pc \in SettingUp =>
            /\ inst.status.last = "never" /\ inst.status.targets # "Found"
            /\ ~Criteria => inst.status.weight \in {NoTraffic, AllTo(Baseline)}
    <2>1. pc \in SettingUp => ~inst.status.completed
      BY <1>0 DEF TrafficFacts, LoopInv, CopyRelated, Related, CopyInv, Early, SettingUp
    <2> QED
      BY <1>0, <2>1 DEF FitFor, Consistent, Weighed
  <1>5. ASSUME NEW role, TargetsError(role), pc \in SettingUp
        PROVE  TrafficCopy'
    <2>1. Consistent(MarkTargetsError(inst, TargetsErrorReason(inst, role)))
      BY <1>0, <1>4, <1>5, TargetsErrorWeighs
    <2> QED
      BY <1>0, <1>5, <2>1, TrafficFail DEF TargetsError
  <1>6. ASSUME NEW next \in SettingUp, NEW x, Continue(next, x), Consistent(x),
               x.status.last = "never", x.status.targets # "Found"
        PROVE  TrafficCopy'
    <2>1. FitFor(next, fetched, x)
      BY <1>6 DEF FitFor, Unfetched, SettingUp
    <2> QED
      BY <1>0, <1>6, <2>1, TrafficContinue
  <1> DEFINE seeded == [inst EXCEPT !.status.weight[Baseline] = 100]
  <1>7. ASSUME pc \in SettingUp
        PROVE  /\ seeded.status.last = "never" /\ seeded.status.targets # "Found"
               /\ Consistent(seeded)
    <2>1. /\ seeded.status.last = inst.status.last /\ seeded.status.targets = inst.status.targets
          /\ seeded.override = inst.override /\ seeded.split = inst.split
          /\ seeded.status.weight = [inst.status.weight EXCEPT ![Baseline] = 100]
      BY <1>0 DEF Object, Status
    <2>2. [NoTraffic EXCEPT ![Baseline] = 100] = AllTo(Baseline)
      BY DEF NoTraffic, AllTo
    <2>3. [AllTo(Baseline) EXCEPT ![Baseline] = 100] = AllTo(Baseline)
      BY DEF AllTo
    <2>4. ~Criteria => seeded.status.weight = AllTo(Baseline)
      BY <1>4, <1>7, <2>1, <2>2, <2>3
    <2>5. Full(AllTo(Baseline))
      BY AllToFull DEF Versions
    <2> HIDE DEF seeded
    <2> QED
      BY <1>0, <1>4, <1>7, <2>1, <2>4, <2>5 DEF Consistent, Weighed
  <1> HIDE DEF seeded
  <1>8. CASE DetectBaseline
    <2>1. \/ \E role : TargetsError(role)
          \/ \E next \in {"candidates", "baselineVS"} : Continue(next, inst)
      BY <1>8 DEF DetectBaseline
    <2>2. pc \in SettingUp
      BY <1>8 DEF DetectBaseline, SettingUp
    <2> QED
      BY <1>0, <1>4, <1>5, <1>6, <2>1, <2>2 DEF SettingUp
  <1>9. CASE UpdateBaselineVS \/ UpdateBaselineDR
    <2>1. \/ RulesError \/ Continue("baselineDR", inst)
          \/ Continue("candidates", seeded)
      BY <1>9 DEF UpdateBaselineVS, UpdateBaselineDR, seeded
    <2>2. pc \in SettingUp
      BY <1>9 DEF UpdateBaselineVS, UpdateBaselineDR, SettingUp
    <2> QED
      BY <1>0, <1>2, <1>4, <1>6, <1>7, <2>1, <2>2 DEF SettingUp
  <1>10. CASE DetectCandidates \/ UpdateCandidatesVS \/ UpdateCandidatesDR
    <2>1. \/ RulesError \/ Detected
          \/ \E role : TargetsError(role)
          \/ \E next \in {"candidatesVS", "candidatesDR"} : Continue(next, inst)
      BY <1>10 DEF DetectCandidates, UpdateCandidatesVS, UpdateCandidatesDR
    <2>2. pc \in SettingUp
      BY <1>10 DEF DetectCandidates, UpdateCandidatesVS, UpdateCandidatesDR, SettingUp
    <2> QED
      BY <1>0, <1>2, <1>4, <1>5, <1>6, <2>1, <2>2, TrafficDetected DEF SettingUp
  <1> QED
    BY <1>3, <1>8, <1>9, <1>10

\* The worker goes on after an iteration.
LEMMA TrafficIterated ==
    ASSUME TrafficFacts, NEW x \in Object, IterationDone(x), Consistent(x),
           x.status.inited, x.status.targets = "Found",
           Full(x.status.weight) \/ (~Criteria /\ x.status.weight = NoTraffic),
           targetAction' = ""
    PROVE  TrafficCopy'
  <1> DEFINE y == MarkIterationUpdate(x)
  <1>1. /\ y.status.last = "recent" /\ y.status.weight = x.status.weight
        /\ y.status.targets = x.status.targets /\ y.status.inited = x.status.inited
        /\ y.override = x.override /\ y.split = x.split
    BY MarksWeigh
  <1>2. Goto("finish", y) /\ fetched' = fetched /\ refresh' = refresh
    BY DEF IterationDone
  <1> HIDE DEF y
  <1>3. FitFor("finish", fetched, y)
    BY <1>1 DEF FitFor, Consistent, Weighed, Unfetched, SettingUp
  <1> QED
    BY <1>2, <1>3, TrafficGo DEF TrafficFacts, TrafficCopy

\* What the analytics answered, if the experiment goes on with it.
LEMMA TrafficAnalyzed ==
    ASSUME TrafficFacts, Criteria, pc = "iterate", NEW r \in Responses, Analyze(r),
           targetAction' = ""
    PROVE  TrafficCopy'
  <1> DEFINE assessed == [inst EXCEPT !.status.winner = r.winner,
                                      !.status.phase = "Progressing",
                                      !.status.completed = FALSE]
             weight == [v \in Versions |->
                          IF v \notin r.covered THEN inst.status.weight[v]
                          ELSE IF v \in r.rollback THEN 0 ELSE r.split[v]]
             x == [assessed EXCEPT !.status.weight = weight]
             running == [x EXCEPT !.status.analytics = "True"]
  <1>0. /\ inst \in Object /\ r \in Response /\ FitFor("iterate", fetched, inst)
        /\ Consistent(inst) /\ inst.status.inited /\ inst.status.targets = "Found"
        /\ inst.status.last # "recent"
    BY Copies, EnvironmentAssumption DEF TrafficFacts, TrafficCopy, FitFor
  <1>1. /\ assessed \in Object /\ assessed.status.weight = inst.status.weight
        /\ assessed.status.last = inst.status.last
        /\ assessed.status.targets = inst.status.targets
        /\ assessed.status.inited = inst.status.inited
        /\ assessed.override = inst.override /\ assessed.split = inst.split
    BY <1>0 DEF Response, Object, Status, Phases
  <1>2. weight \in Traffic
    BY <1>0 DEF Response, Traffic, Object, Status
  <1> HIDE DEF assessed, weight
  <1>3. /\ x \in Object /\ x.status.weight = weight
        /\ x.status.last = inst.status.last /\ x.status.targets = inst.status.targets
        /\ x.status.inited = inst.status.inited
        /\ x.override = inst.override /\ x.split = inst.split
    BY <1>1, <1>2 DEF Object, Status
  <1> HIDE DEF x
  <1>4. running \in Object /\ Alike(running, x)
    BY <1>3, AnalyticsType DEF Object, Status, Alike
  <1> HIDE DEF running
  <1>5. Consistent(x) /\ Consistent(running)
    BY <1>0, <1>3, <1>4 DEF Alike, Consistent, Weighed
  <1>6. r.rollback # Candidates /\ ~Incomplete(r) => Full(weight)
    <2>1. ~Incomplete(r) => weight = Recommended(r)
      BY DEF Incomplete, Recommended, weight
    <2> QED
      BY <2>1 DEF TrafficFacts, Untouched, Regular, AnswersConserve
  <1>7. \/ Continue("finish", TerminateExperiment(inst))
        \/ AnalyticsError(x, TRUE)
        \/ /\ r.rollback # Candidates /\ ~Incomplete(r)
           /\ Continue("trafficVS", running) \/ IterationDone(running)
    BY DEF Analyze, running, x, weight, assessed
  <1>8. CASE Continue("finish", TerminateExperiment(inst))
    <2> DEFINE y == TerminateExperiment(inst)
    <2>1. y.status = inst.status /\ y.override = "terminate" /\ y.split = NoSplit
      BY <1>0, MarksWeigh
    <2> HIDE DEF y
    <2>2. FitFor("finish", fetched, y)
      BY <1>0, <2>1 DEF FitFor, Consistent, Unfetched, SettingUp
    <2> QED
      BY <1>8, <2>2, TrafficContinue DEF y
  <1>9. CASE AnalyticsError(x, TRUE)
    <2>1. PICK changed : Fail(MarkAnalyticsServiceError(x), changed)
      BY <1>9 DEF AnalyticsError
    <2>2. Alike(MarkAnalyticsServiceError(x), x)
      BY <1>3, MarksAlike
    <2>3. Consistent(MarkAnalyticsServiceError(x))
      BY <1>5, <2>2 DEF Alike, Consistent, Weighed
    <2> QED
      BY <2>1, <2>3, TrafficFail
  <1>10. CASE /\ r.rollback # Candidates /\ ~Incomplete(r)
              /\ Continue("trafficVS", running) \/ IterationDone(running)
    <2>1. /\ Full(running.status.weight) /\ running.status.inited
          /\ running.status.targets = "Found" /\ running.status.last # "recent"
      BY <1>0, <1>3, <1>4, <1>6, <1>10 DEF Alike
    <2>2. FitFor("trafficVS", fetched, running)
      BY <1>5, <2>1 DEF FitFor, Unfetched, SettingUp
    <2> QED
      BY <1>4, <1>5, <1>10, <2>1, <2>2, TrafficContinue, TrafficIterated
  <1> QED
    BY <1>7, <1>8, <1>9, <1>10

\* The steps of an iteration.
LEMMA TrafficCopyIterate ==
    ASSUME TrafficFacts, Worker, ShiftTraffic \/ Iterate \/ UpdateTrafficVS \/ Finish
    PROVE  TrafficCopy'
  <1>0. /\ inst \in Object /\ FitFor(pc, fetched, inst) /\ Consistent(inst)
        /\ targetAction' = ""
    BY Copies, WorkerMarksNothing DEF TrafficFacts, TrafficCopy, FitFor
  <1>1. \A x : Alike(x, inst) => Consistent(x)
    BY <1>0 DEF Alike, Consistent, Weighed
  <1>2. CASE Iterate
    <2>1. CASE AnalyticsError(inst, FALSE)
      <3>1. PICK changed : Fail(MarkAnalyticsServiceError(inst), changed)
        BY <2>1 DEF AnalyticsError
      <3>2. Consistent(MarkAnalyticsServiceError(inst))
        BY <1>0, <1>1, MarksAlike
      <3> QED
        BY <1>0, <3>1, <3>2, TrafficFail
    <2>2. /\ pc = "iterate" /\ Criteria
          /\ AnalyticsError(inst, FALSE) \/ \E r \in Responses : Analyze(r)
      BY <1>2 DEF Iterate
    <2> QED
      BY <1>0, <2>1, <2>2, TrafficAnalyzed
  <1>3. CASE UpdateTrafficVS
    <2>1. pc = "trafficVS" /\ (RulesError \/ IterationDone(inst))
      BY <1>3 DEF UpdateTrafficVS
    <2>2. CASE RulesError
      <3>1. Consistent(MarkRoutingRulesError(inst))
        BY <1>0, <1>1, MarksAlike
      <3> QED
        BY <1>0, <2>2, <3>1, TrafficFail DEF RulesError
    <2>3. CASE IterationDone(inst)
      <3>1. Full(inst.status.weight) /\ inst.status.inited /\ inst.status.targets = "Found"
        BY <1>0, <2>1 DEF FitFor
      <3> QED
        BY <1>0, <2>3, <3>1, TrafficIterated
    <2> QED
      BY <2>1, <2>2, <2>3
  <1>4. CASE Finish
    <2>1. /\ pc = "finish"
          /\ \/ Continue("complete", inst) \/ Continue("endRequest", inst)
             \/ Fail([inst EXCEPT !.status.iteration = @ + 1], TRUE)
      BY <1>4 DEF Finish
    <2>2. FitFor("complete", fetched, inst)
      BY <1>0, <2>1 DEF FitFor, Unfetched, SettingUp
    <2>3. FitFor("endRequest", fetched, inst)
      BY <1>0, FreeFit DEF Free, PCs, Unfetched, SettingUp
    <2>4. Consistent([inst EXCEPT !.status.iteration = @ + 1])
      BY <1>0, <1>1, MarksAlike
    <2> QED
      BY <1>0, <2>1, <2>2, <2>3, <2>4, TrafficContinue, TrafficFail
  <1>5. CASE ShiftTraffic
    <2>1. /\ pc = "iterate" /\ ~Criteria
          /\ \/ ~CanShift(inst.status.weight) /\ IterationDone(inst)
             \/ /\ CanShift(inst.status.weight)
                /\ Continue("trafficVS",
                            [inst EXCEPT !.status.weight = Shifted(inst.status.weight)])
      BY <1>5 DEF ShiftTraffic
    <2>2. /\ inst.status.inited /\ inst.status.targets = "Found" /\ inst.status.last # "recent"
          /\ inst.status.weight \in Traffic
      BY <1>0, <2>1 DEF FitFor, Object, Status
    <2>3. inst.status.weight = NoTraffic \/ Full(inst.status.weight)
      <3>1. ~inst.status.completed
        BY <2>1 DEF TrafficFacts, LoopInv, CopyRelated, Related, CopyInv, Early
      <3> QED
        BY <1>0, <2>1, <3>1 DEF Consistent, Weighed
    <2>4. CASE IterationDone(inst)
      BY <1>0, <2>1, <2>2, <2>3, <2>4, TrafficIterated
    <2>5. CASE /\ CanShift(inst.status.weight)
               /\ Continue("trafficVS", [inst EXCEPT !.status.weight = Shifted(inst.status.weight)])
      <3> DEFINE x == [inst EXCEPT !.status.weight = Shifted(inst.status.weight)]
      <3>1. inst.status.weight # NoTraffic
        BY <2>1, <2>5, NothingToShift DEF TrafficFacts, Untouched, Regular
      <3>2. Full(Shifted(inst.status.weight))
        BY <2>2, <2>3, <2>5, <3>1, ShiftedFull
      <3>3. /\ x.status.weight = Shifted(inst.status.weight)
            /\ x.status.last = inst.status.last /\ x.status.targets = inst.status.targets
            /\ x.status.inited = inst.status.inited
            /\ x.override = inst.override /\ x.split = inst.split
        BY <1>0 DEF Object, Status
      <3>4. Continue("trafficVS", x)
        BY <2>5
      <3> HIDE DEF x
      <3>5. FitFor("trafficVS", fetched, x)
        BY <1>0, <2>1, <2>2, <3>2, <3>3 DEF FitFor, Consistent, Weighed, Unfetched, SettingUp
      <3> QED
        BY <1>0, <3>4, <3>5, TrafficContinue
    <2> QED
      BY <2>1, <2>4, <2>5
  <1> QED
    BY <1>2, <1>3, <1>4, <1>5

\* The steps that complete the experiment, and end the pass.
LEMMA TrafficCopyEnd ==
    ASSUME TrafficFacts, Worker,
           Complete \/ StableVS \/ StableDR \/ EndRequest \/ RemoveFinalizer
    PROVE  TrafficCopy'
  <1>0. /\ inst \in Object /\ FitFor(pc, fetched, inst) /\ Consistent(inst)
        /\ targetAction' = ""
    BY Copies, WorkerMarksNothing DEF TrafficFacts, TrafficCopy, FitFor
  <1>1. ASSUME NEW x \in Object, Completed(x),
               Criteria /\ x.status.last = "recent" => Full(x.status.weight),
               x.status.last # "never" => x.status.inited /\ x.status.targets = "Found",
               x.override = "terminate" => x.split = NoSplit
        PROVE  TrafficCopy'
    <2>1. Alike(MarkExperimentCompleted(x), x) /\ MarkExperimentCompleted(x).status.completed
      BY MarksAlike DEF MarkExperimentCompleted, Object, Status
    <2>2. Consistent(MarkExperimentCompleted(x))
      BY <1>1, <2>1 DEF Alike, Consistent, Weighed
    <2> QED
      BY <1>0, <1>1, <2>2, TrafficFail DEF Completed
  <1>2. ASSUME NEW next \in {"stableDR", "deleteVS", "deleteDR", "removeFinalizer"},
               NEW x, Consistent(x), Continue(next, x)
        PROVE  TrafficCopy'
    <2>1. FitFor(next, fetched, x)
      BY <1>2, FreeFit DEF Free, PCs, Unfetched, SettingUp
    <2> QED
      BY <1>0, <1>2, <2>1, TrafficContinue
  <1>3. CASE Complete
    <2> DEFINE x == overrideAssessment(inst)
    <2>1. /\ pc = "complete"
          /\ \/ Completed(x)
             \/ fetched /\ \E next \in {"deleteVS", "stableVS"} : Continue(next, x)
      BY <1>3 DEF Complete, NoOpInUpdateRouteToStable
    <2>2. inst.override = "terminate" => inst.split = NoSplit
      BY <1>0 DEF Consistent
    <2>3. /\ x \in Object
          /\ x.status.last = inst.status.last /\ x.status.targets = inst.status.targets
          /\ x.status.inited = inst.status.inited
          /\ x.status.completed = inst.status.completed
          /\ x.override = inst.override /\ x.split = inst.split
          /\ x.override = "terminate" => x.status.weight = AllTo(Baseline)
          /\ \/ Full(x.status.weight)
             \/ /\ x.status.weight = inst.status.weight
                /\ OnTermination = "keep_last" /\ inst.override # "terminate"
      BY <1>0, <2>2, OverrideWeighs
    <2> HIDE DEF x
    <2>4. /\ Criteria /\ x.status.last = "recent" => Full(x.status.weight)
          /\ x.status.last # "never" => x.status.inited /\ x.status.targets = "Found"
          /\ x.override = "terminate" => x.split = NoSplit
      BY <1>0, <2>3 DEF Consistent, Weighed
    <2>5. CASE Completed(x)
      BY <1>1, <2>3, <2>4, <2>5
    <2>6. CASE fetched /\ \E next \in {"deleteVS", "stableVS"} : Continue(next, x)
      <3>1. \/ inst.override = "terminate"
            \/ inst.status.targets = "Found" /\ (Criteria => Full(inst.status.weight))
        BY <1>0, <2>1, <2>6 DEF FitFor
      <3>2. Steady => Full(x.status.weight)
        BY <2>3, <3>1 DEF Steady
      <3>3. Consistent(x)
        <4>1. ~Criteria /\ ~x.status.completed
                  => x.status.weight = NoTraffic \/ Full(x.status.weight)
          BY <1>0, <2>3 DEF Consistent, Weighed
        <4>2. x.status.targets # "Found" => x.status.weight = AllTo(Baseline)
          BY <2>3, <3>1
        <4> QED
          BY <2>4, <4>1, <4>2 DEF Consistent, Weighed
      <3>4. FitFor("stableVS", fetched, x)
        BY <3>2, <3>3 DEF FitFor, Unfetched, SettingUp
      <3> QED
        BY <1>0, <1>2, <2>6, <3>3, <3>4, TrafficContinue
    <2> QED
      BY <2>1, <2>5, <2>6
  <1>4. CASE StableVS \/ StableDR
    <2>1. \/ Completed(inst) \/ CompletionFails
          \/ \E next \in {"stableDR", "deleteDR"} : Continue(next, inst)
      BY <1>4 DEF StableVS, StableDR
    <2>2. CompletionFails => Return \/ Continue("removeFinalizer", inst)
      BY DEF CompletionFails
    <2>3. CASE Completed(inst)
      BY <1>0, <1>1, <2>3 DEF Consistent, Weighed
    <2> QED
      BY <1>0, <1>2, <2>1, <2>2, <2>3, TrafficReturn
  <1>5. CASE EndRequest
    <2>1. Ended(inst) \/ \E a : Answer(a) /\ Ended(Decoded(a, inst))
      BY <1>5 DEF EndRequest
    <2>2. \A x : Ended(x) => Return \/ Continue("removeFinalizer", x)
      BY DEF Ended
    <2>3. \A a : Answer(a) => Consistent(Decoded(a, inst))
      BY <1>0, <1>5, TrafficDecoded DEF EndRequest, RemoveFinalizer
    <2> QED
      BY <1>0, <1>2, <2>1, <2>2, <2>3, TrafficReturn
  <1>6. CASE RemoveFinalizer
    BY <1>0, <1>6, TrafficReturn DEF RemoveFinalizer
  <1> QED
    BY <1>3, <1>4, <1>5, <1>6

LEMMA TrafficCopyByWorker ==
    ASSUME TrafficFacts, Worker
    PROVE  TrafficCopy'
  <1>1. ~Pause /\ ~Resume
    BY DEF TrafficFacts, NoCommand, Pause, Resume
  <1> QED
    BY <1>1, TrafficCopyRead, TrafficCopySetUp, TrafficCopyIterate, TrafficCopyEnd DEF Worker

\* The informer, the clock, a restart and a deletion change nothing of it.
LEMMA TrafficByEnvironment ==
    ASSUME TrafficFacts, [Next]_vars, ~Worker, Untouched'
    PROVE  TrafficStore' /\ TrafficCopy' /\ TrafficRoute'
  <1>0. /\ LoopInv /\ obj \in Object /\ cache \in Object
        /\ TrafficStore /\ TrafficCopy /\ TrafficRoute
        /\ ~(\E t : TargetEvent(t))
    BY Copies, UntouchedStep DEF TrafficFacts
  <1>1. CASE Sync \/ TimerFires \/ UNCHANGED vars
    <2>1. /\ obj' = obj /\ cache' \in {cache, obj} /\ vs' = vs /\ pc' = pc /\ inst' = inst
          /\ fetched' = fetched /\ refresh' = refresh /\ targetAction' = targetAction
      BY <1>1 DEF Sync, TimerFires, vars, store, rules, worker, interState, adapter
    <2> QED
      BY <1>0, <2>1 DEF TrafficStore, TrafficCopy, TrafficRoute, SettingUp, Owned
  <1>2. CASE IntervalElapses
    <2> DEFINE elapsed(x) == [x EXCEPT !.status.last = IF @ = "recent" THEN "elapsed" ELSE @]
    <2>1. ASSUME NEW x \in Object, Weighed(x.status)
          PROVE  Weighed(elapsed(x).status)
      <3>1. /\ elapsed(x).status.weight = x.status.weight
            /\ elapsed(x).status.targets = x.status.targets
            /\ elapsed(x).status.inited = x.status.inited
            /\ elapsed(x).status.completed = x.status.completed
            /\ elapsed(x).status.last = IF x.status.last = "recent" THEN "elapsed"
                                                                    ELSE x.status.last
        BY DEF Object, Status
      <3> HIDE DEF elapsed
      <3> QED
        BY <2>1, <3>1 DEF Weighed
    <2>2. /\ obj' = elapsed(obj) /\ cache' = elapsed(cache) /\ vs' = vs /\ pc' = pc
          /\ inst' = inst /\ fetched' = fetched /\ refresh' = refresh
          /\ targetAction' = targetAction
      BY <1>2 DEF IntervalElapses, rules, worker, interState, adapter
    <2> HIDE DEF elapsed
    <2>3. TrafficStore'
      BY <1>0, <2>1, <2>2 DEF TrafficStore
    <2> QED
      BY <1>0, <2>2, <2>3 DEF TrafficCopy, TrafficRoute, SettingUp, Owned
  <1>3. CASE Crash
    <2>1. /\ obj' = obj /\ cache' = obj /\ vs' = vs /\ pc' = "idle" /\ Return
          /\ targetAction' = ""
      BY <1>3 DEF Crash, Return, rules
    <2> QED
      BY <1>0, <2>1, TrafficReturn DEF TrafficStore, TrafficRoute, SettingUp, Owned
  <1>4. CASE User
    <2>1. PICK new : UserChange(new)
      BY <1>0, <1>4 DEF User, Override, Delete
    <2>2. new = [obj EXCEPT !.deleting = TRUE, !.exists = obj.finalizer]
      BY <2>1, UntouchedStep DEF TrafficFacts
    <2>3. new.status = obj.status
      BY <1>0, <2>2 DEF Object
    <2>4. /\ obj' = new /\ cache' = cache /\ vs' = vs /\ pc' = pc /\ inst' = inst
          /\ fetched' = fetched /\ refresh' = refresh /\ targetAction' = targetAction
      BY <2>1 DEF UserChange, Store, rules, interState, adapter
    <2> QED
      BY <1>0, <2>3, <2>4 DEF TrafficStore, TrafficCopy, TrafficRoute, SettingUp, Owned
  <1> QED
    BY <1>1, <1>2, <1>3, <1>4 DEF Next

LEMMA TrafficStep == LoopInv /\ DeletingInv /\ PlainInv /\ TrafficInv /\ [Next]_vars => TrafficInv'
  <1> SUFFICES ASSUME LoopInv, DeletingInv, PlainInv, TrafficInv, [Next]_vars, Untouched'
               PROVE  TrafficStore' /\ TrafficCopy' /\ TrafficRoute'
    BY DEF TrafficInv
  <1>1. TrafficFacts
    BY UntouchedStep DEF TrafficFacts, PlainInv, TrafficInv, Untouched
  <1>2. CASE Worker
    BY <1>1, <1>2, TrafficStoreByWorker, TrafficCopyByWorker, TrafficRouteByWorker
  <1> QED
    BY <1>1, <1>2, TrafficByEnvironment

LEMMA TrafficInit == Init => TrafficInv
  <1> SUFFICES ASSUME Init
               PROVE  TrafficStore /\ TrafficCopy /\ TrafficRoute
    BY DEF TrafficInv
  <1>1. PICK valid \in Validity : obj = [NewObject EXCEPT !.valid = valid]
    BY DEF Init
  <1>2. /\ NewObject.status = EmptyStatus /\ NewObject.override = "none"
        /\ EmptyStatus.last = "never" /\ EmptyStatus.weight = NoTraffic
    BY DEF NewObject, EmptyStatus
  <1>3. obj.status = EmptyStatus /\ cache = obj
    BY <1>1, <1>2, NewType DEF Object, Init
  <1>4. Weighed(EmptyStatus)
    BY <1>2 DEF Weighed
  <1>5. TrafficCopy
    <2>1. Consistent(NewObject)
      BY <1>2, <1>4 DEF Consistent
    <2>2. FitFor("idle", FALSE, NewObject)
      BY <2>1, FreeFit DEF Unfetched
    <2>3. /\ pc = "idle" /\ inst = NewObject /\ fetched = FALSE /\ refresh = FALSE
          /\ targetAction = ""
      BY DEF Init
    <2> QED
      BY <2>2, <2>3 DEF TrafficCopy
  <1>6. TrafficRoute
    <2>1. pc = "idle" /\ (vs.role = "absent" \/ vs.weight = AllTo(Baseline))
      <3>1. CASE vs = AbsentVS
        BY <3>1 DEF Init, AbsentVS
      <3>2. CASE vs = [role |-> "stable", init |-> FALSE, weight |-> AllTo(Baseline)]
        BY <3>2 DEF Init
      <3> QED
        BY <3>1, <3>2 DEF Init
    <2>2. Full(AllTo(Baseline))
      BY AllToFull DEF Versions
    <2> QED
      BY <2>1, <2>2 DEF TrafficRoute, SettingUp, Owned
  <1> QED
    BY <1>3, <1>4, <1>5, <1>6 DEF TrafficStore

LEMMA TrafficInvariant == Spec => []TrafficInv
  <1>1. LoopInv /\ DeletingInv /\ PlainInv /\ TrafficInv /\ [Next]_vars => TrafficInv'
    BY TrafficStep
  <1> QED
    BY <1>1, TrafficInit, PlainInvariant, PTL DEF Spec

\* The weights of the route add up to all the traffic at any time, as long as users at
\* most delete the experiment and its targets stay: if the analytics decides, then when
\* what it recommends adds up; if not, then when there is something to shift, and until
\* the traffic is to stay as it is.  Calls may fail, writes conflict, the cache lag and
\* the controller restart at any point, and the answers of the analytics be incomplete
\* (Analyze, ShiftTraffic, overrideAssessment, UpdateRouteToStable).
THEOREM RouteAddsUp ==
    Spec => [](/\ Criteria => AnswersConserve
               /\ ~Criteria => MaxIncrement > 0 /\ Candidates # {}
               /\ edits = 0 \/ (edits = 1 /\ obj.deleting)
               /\ targetEvents = 0
               /\ \/ vs.role \in {"initializing", "progressing"}
                  \/ vs.role = "stable" /\ (Criteria \/ OnTermination # "keep_last")
               => Total(vs.weight) = 100)
  <1>1. TrafficInv =>
            (/\ Criteria => AnswersConserve
             /\ ~Criteria => MaxIncrement > 0 /\ Candidates # {}
             /\ edits = 0 \/ (edits = 1 /\ obj.deleting)
             /\ targetEvents = 0
             /\ \/ vs.role \in {"initializing", "progressing"}
                \/ vs.role = "stable" /\ (Criteria \/ OnTermination # "keep_last")
             => Total(vs.weight) = 100)
    BY DEF TrafficInv, Untouched, Uncommanded, Regular, Steady, TrafficRoute, Owned, Full
  <1> QED
    BY <1>1, TrafficInvariant, PTL

\* In particular they do between reconciles, as long as no user interferes.
THEOREM TrafficIsConserved ==
    Spec => [](/\ Criteria => AnswersConserve
               /\ ~Criteria => MaxIncrement > 0 /\ Candidates # {}
               /\ targetEvents = 0
               => TrafficConserved)
  <1>1. TrafficInv =>
            (/\ Criteria => AnswersConserve
             /\ ~Criteria => MaxIncrement > 0 /\ Candidates # {}
             /\ targetEvents = 0
             => TrafficConserved)
    BY DEF TrafficInv, Untouched, Uncommanded, Regular, Steady, TrafficRoute, TrafficConserved,
           Owned, Full
  <1> QED
    BY <1>1, TrafficInvariant, PTL
==============================================================================
