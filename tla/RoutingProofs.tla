------------------------------ MODULE RoutingProofs ------------------------------
(***************************************************************************)
(* Who owns the routing rules, for all values of the constants: the two    *)
(* rules change roles together, an experiment that is completed or deleted *)
(* leaves none of them with its label, and without criteria the route is   *)
(* at most an increment ahead of the status.  None of this holds of a      *)
(* cluster in which calls fail (README, where properties stop holding), so *)
(* the theorems say until when it does.                                    *)
(***************************************************************************)
EXTENDS ReconcileOutcomeProofs

\* The bounded events, once they occurred, have occurred for good, and as long as
\* they have not no step of theirs is taken.
LEMMA Counters ==
    ASSUME TypeOK, [Next]_vars
    PROVE  /\ edits \in Nat /\ targetEvents \in Nat /\ faults \in Nat /\ crashes \in Nat
           /\ edits' = edits \/ (edits' = edits + 1 /\ User /\ \E new : UserChange(new))
           /\ targetEvents' = 0 => targetEvents = 0 /\ ~(\E t : TargetEvent(t))
           /\ faults' = 0 => faults = 0 /\ ~CallFails
           /\ crashes' = 0 => crashes = 0 /\ ~Crash
  <1>1. edits \in Nat /\ targetEvents \in Nat /\ faults \in Nat /\ crashes \in Nat
    <2>1. /\ edits \in 0..MaxEdits /\ targetEvents \in 0..MaxTargetEvents
          /\ faults \in 0..MaxFaults /\ crashes \in 0..MaxCrashes
      BY Parts DEF RestOK
    <2> QED
      BY <2>1, Bounds
  <1>a. /\ \A t : TargetEvent(t) => targetEvents' = targetEvents + 1
        /\ CallFails => faults' = faults + 1
        /\ Crash => crashes' = crashes + 1
    BY DEF TargetEvent, CallFails, Crash
  <1>2. CASE Worker
    <2>1. UNCHANGED <<edits, targetEvents, crashes>>
      BY <1>2 DEF Worker, Get, WriteInitStatus, addFinalizerIfAbsent, Finalize,
                  NotToProceed, Proceed, Pause, Resume, ReadMetrics, WriteMetricsError,
                  WriteMetrics, Fetch, DetectBaseline, UpdateBaselineVS, UpdateBaselineDR,
                  DetectCandidates, UpdateCandidatesVS, UpdateCandidatesDR, ShiftTraffic,
                  Iterate, UpdateTrafficVS, Finish, Complete, StableVS, StableDR, EndRequest,
                  RemoveFinalizer, users
    <2>2. faults' = faults \/ faults' = faults + 1
      BY <1>2 DEF Worker, Get, WriteInitStatus, addFinalizerIfAbsent, Finalize,
                  NotToProceed, Proceed, Pause, Resume, ReadMetrics, WriteMetricsError,
                  WriteMetrics, Fetch, DetectBaseline, UpdateBaselineVS, UpdateBaselineDR,
                  DetectCandidates, UpdateCandidatesVS, UpdateCandidatesDR, ShiftTraffic,
                  Iterate, UpdateTrafficVS, Finish, Complete, StableVS, StableDR, EndRequest,
                  RemoveFinalizer, Answer, CallFails, CallSucceeds
    <2> QED
      BY <1>1, <1>a, <2>1, <2>2
  <1>3. ASSUME NEW new, UserChange(new)
        PROVE  edits' = edits + 1 /\ UNCHANGED <<targetEvents, faults, crashes>>
    BY <1>3 DEF UserChange
  <1>4. ASSUME NEW t, TargetEvent(t)
        PROVE  targetEvents' = targetEvents + 1 /\ UNCHANGED <<edits, faults, crashes>>
    BY <1>4 DEF TargetEvent
  <1>5. CASE Crash
    <2>1. crashes' = crashes + 1 /\ UNCHANGED <<edits, targetEvents, faults>>
      BY <1>5 DEF Crash, users
    <2> QED
      BY <1>1, <1>a, <2>1
  <1>6. CASE Sync \/ IntervalElapses \/ TimerFires \/ UNCHANGED vars
    <2>1. UNCHANGED <<edits, targetEvents, faults, crashes>>
      BY <1>6 DEF Sync, IntervalElapses, TimerFires, vars, users
    <2> QED
      BY <1>1, <1>a, <2>1
  <1>7. CASE User
    <2>1. CASE \E new : UserChange(new)
      <3>1. edits' = edits + 1 /\ UNCHANGED <<targetEvents, faults, crashes>>
        BY <1>3, <2>1
      <3> QED
        BY <1>1, <1>7, <1>a, <2>1, <3>1
    <2>2. CASE \E t : TargetEvent(t)
      <3>1. targetEvents' = targetEvents + 1 /\ UNCHANGED <<edits, faults, crashes>>
        BY <1>4, <2>2
      <3> QED
        BY <1>1, <1>a, <3>1
    <2>3. (\E new : UserChange(new)) \/ (\E t : TargetEvent(t))
      BY <1>7 DEF User, Override, Delete
    <2> QED
      BY <2>1, <2>2, <2>3
  <1> QED
    BY <1>2, <1>5, <1>6, <1>7 DEF Next

\* While no call failed an API call answers with an error only of a missing object.
LEMMA Answers ==
    ASSUME TypeOK, [Next]_vars, faults' = 0, NEW a, Answer(a)
    PROVE  /\ a = "ok" => obj.exists /\ current
           /\ a = "conflict" => obj.exists /\ ~current
           /\ a = "error" => ~obj.exists
  BY Counters DEF Answer

-----------------------------------------------------------------------------
\* Between the writes of the two rules they differ.
HalfWritten == {"baselineDR", "candidatesDR", "stableDR", "deleteDR"}

\* A stable VirtualService of the user's may come without a DestinationRule.
RolesAlike == vs.role = dr.role \/ (vs.role = "stable" /\ dr.role = "absent")

\* At any other call they are alike, and in between the second write is what makes
\* them so again.  The set-up starts from rules of nobody.
PairedRules ==
    /\ pc \notin HalfWritten => RolesAlike
    /\ pc = "baselineVS" => ~Owned(vs)
    /\ pc = "baselineDR" => vs.role = "initializing" /\ ~Owned(dr)
    /\ pc = "candidatesDR" => vs.role = "progressing"
    /\ pc = "stableDR" => vs.role = "stable"
    /\ pc = "deleteDR" => vs.role = "absent"

\* A rule that Fetch made up keeps the init label until it is released.
Labelled == (vs.init => Owned(vs)) /\ (dr.init => Owned(dr))

PairInv ==
    /\ ~RequireDR => pc \notin HalfWritten /\ dr.role = "absent"
    /\ RequireDR /\ faults = 0 /\ crashes = 0 => PairedRules

\* What the functions of the router do to a rule.
LEMMA RuleChanges ==
    ASSUME NEW v \in VirtualService, NEW d \in DestinationRule
    PROVE  /\ WithBaseline(v).role = "initializing"
           /\ WithBaseline(v).init = (v.init \/ v.role = "absent")
           /\ WithBaseline(v).weight = AllTo(Baseline)
           /\ WithInitializing(d).role = "initializing"
           /\ WithInitializing(d).init = (d.init \/ d.role = "absent")
           /\ WithProgressing(v).role = "progressing"
           /\ WithProgressing(v).init = v.init /\ WithProgressing(v).weight = v.weight
           /\ WithProgressing(d).role = "progressing" /\ WithProgressing(d).init = d.init
           /\ WithStable(d).role = "stable" /\ WithStable(d).init = FALSE
           /\ AbsentVS.role = "absent" /\ AbsentVS.init = FALSE
           /\ AbsentDR.role = "absent" /\ AbsentDR.init = FALSE
  <1>1. /\ WithInitializing(v) \in VirtualService
        /\ WithInitializing(v).role = "initializing"
        /\ WithInitializing(v).init = (v.init \/ v.role = "absent")
    BY DEF WithInitializing, VirtualService, Roles
  <1>3. /\ WithBaseline(v).role = "initializing"
        /\ WithBaseline(v).init = (v.init \/ v.role = "absent")
        /\ WithBaseline(v).weight = AllTo(Baseline)
    BY <1>1 DEF WithBaseline, VirtualService
  <1>4. /\ WithInitializing(d).role = "initializing"
        /\ WithInitializing(d).init = (d.init \/ d.role = "absent")
    BY DEF WithInitializing, DestinationRule
  <1>5. /\ WithProgressing(v).role = "progressing"
        /\ WithProgressing(v).init = v.init /\ WithProgressing(v).weight = v.weight
        /\ WithProgressing(d).role = "progressing" /\ WithProgressing(d).init = d.init
    BY DEF WithProgressing, VirtualService, DestinationRule
  <1>6. WithStable(d).role = "stable" /\ WithStable(d).init = FALSE
    BY DEF WithStable, DestinationRule
  <1>7. /\ AbsentVS.role = "absent" /\ AbsentVS.init = FALSE
        /\ AbsentDR.role = "absent" /\ AbsentDR.init = FALSE
    BY DEF AbsentVS, AbsentDR
  <1> QED
    BY <1>3, <1>4, <1>5, <1>6, <1>7

LEMMA StableRoute ==
    ASSUME NEW v \in VirtualService, NEW d, NEW w
    PROVE  /\ WithStable(FinalTraffic(v, d, w)).role = "stable"
           /\ WithStable(FinalTraffic(v, d, w)).init = FALSE
  <1>1. CASE FinalTraffic(v, d, w) = v
    BY <1>1 DEF WithStable, VirtualService
  <1>2. CASE FinalTraffic(v, d, w) = [v EXCEPT !.weight = w]
    BY <1>2 DEF WithStable, VirtualService
  <1> QED
    BY <1>1, <1>2 DEF FinalTraffic

LEMMA LabelledStep == TypeOK /\ Labelled /\ [Next]_vars => Labelled'
  <1> SUFFICES ASSUME TypeOK, Labelled, [Next]_vars
               PROVE  Labelled'
    OBVIOUS
  <1>0. vs \in VirtualService /\ dr \in DestinationRule
    BY Parts DEF RulesOK
  <1>a. /\ Owned(WithBaseline(vs)) /\ Owned(WithProgressing(vs))
         /\ Owned(WithInitializing(dr)) /\ Owned(WithProgressing(dr))
         /\ ~AbsentVS.init /\ ~AbsentDR.init /\ ~WithStable(dr).init
         /\ ~WithStable(FinalTraffic(vs, dr, inst.status.weight)).init
    BY <1>0, RuleChanges, StableRoute DEF Owned
  <1>1. ASSUME UNCHANGED rules
        PROVE  Labelled'
    BY <1>1 DEF rules, Labelled, Owned
  <1>2. CASE UpdateBaselineVS \/ UpdateBaselineDR \/ UpdateCandidatesVS \/ UpdateCandidatesDR
    <2>1. vs' \in {vs, WithBaseline(vs), WithProgressing(vs)}
      BY <1>2 DEF UpdateBaselineVS, UpdateBaselineDR, UpdateCandidatesVS, UpdateCandidatesDR
    <2>2. dr' \in {dr, WithInitializing(dr), WithProgressing(dr)}
      BY <1>2 DEF UpdateBaselineVS, UpdateBaselineDR, UpdateCandidatesVS, UpdateCandidatesDR
    <2> QED
      BY <1>a, <2>1, <2>2 DEF Labelled, Owned
  <1>3. CASE UpdateTrafficVS
    <2>1. vs' = vs \/ vs' = [vs EXCEPT !.weight = inst.status.weight]
      BY <1>3 DEF UpdateTrafficVS
    <2>2. vs'.role = vs.role /\ vs'.init = vs.init /\ dr' = dr
      BY <1>0, <1>3, <2>1 DEF UpdateTrafficVS, VirtualService
    <2> QED
      BY <2>2 DEF Labelled, Owned
  <1>4. CASE StableVS
    <2>1. vs' \in {vs, AbsentVS, WithStable(FinalTraffic(vs, dr, inst.status.weight))} /\ dr' = dr
      BY <1>4 DEF StableVS
    <2> QED
      BY <1>a, <2>1 DEF Labelled, Owned
  <1>5. CASE StableDR
    <2>1. dr' \in {dr, AbsentDR, WithStable(dr)} /\ vs' = vs
      BY <1>5 DEF StableDR
    <2> QED
      BY <1>a, <2>1 DEF Labelled, Owned
  <1>6. CASE \/ Get \/ WriteInitStatus \/ addFinalizerIfAbsent \/ Finalize \/ NotToProceed
             \/ Proceed \/ Pause \/ Resume \/ ReadMetrics \/ WriteMetricsError \/ WriteMetrics
             \/ Fetch \/ DetectBaseline \/ DetectCandidates \/ ShiftTraffic \/ Iterate
             \/ Finish \/ Complete \/ EndRequest \/ RemoveFinalizer
    BY <1>1, <1>6
       DEF Get, WriteInitStatus, addFinalizerIfAbsent, Finalize, NotToProceed, Proceed,
           Pause, Resume, ReadMetrics, WriteMetricsError, WriteMetrics, Fetch,
           DetectBaseline, DetectCandidates, ShiftTraffic, Iterate, Finish, Complete,
           EndRequest, RemoveFinalizer
  <1>7. CASE Sync \/ IntervalElapses \/ TimerFires \/ User \/ Crash \/ UNCHANGED vars
    BY <1>1, <1>7
       DEF Sync, IntervalElapses, TimerFires, User, Override, Delete, UserChange,
           TargetEvent, Crash, vars
  <1> QED
    BY <1>2, <1>3, <1>4, <1>5, <1>6, <1>7 DEF Next, Worker

LEMMA PairStep == TypeOK /\ Labelled /\ PairInv /\ [Next]_vars => PairInv'
  <1> SUFFICES ASSUME TypeOK, Labelled, PairInv, [Next]_vars
               PROVE  PairInv'
    OBVIOUS
  <1>0. vs \in VirtualService /\ dr \in DestinationRule
    BY Parts DEF RulesOK
  <1>1. ASSUME UNCHANGED rules,
               \/ pc' = pc
               \/ pc \notin HalfWritten /\ pc' \notin HalfWritten /\ pc' # "baselineVS"
        PROVE  PairInv'
    <2>1. vs' = vs /\ dr' = dr
      BY <1>1 DEF rules
    <2>2. faults' = 0 /\ crashes' = 0 => faults = 0 /\ crashes = 0
      BY Counters
    <2>3. CASE pc' = pc
      BY <2>1, <2>2, <2>3 DEF PairInv, PairedRules, RolesAlike, Owned
    <2>4. CASE pc \notin HalfWritten /\ pc' \notin HalfWritten /\ pc' # "baselineVS"
      BY <2>1, <2>2, <2>4 DEF PairInv, PairedRules, RolesAlike, HalfWritten
    <2> QED
      BY <1>1, <2>3, <2>4
  <1>2. CASE \/ Sync \/ IntervalElapses \/ TimerFires \/ User \/ UNCHANGED vars
    BY <1>1, <1>2 DEF Sync, IntervalElapses, TimerFires, User, Override, Delete, UserChange,
                      TargetEvent, vars, worker
  \* The actions before the detection of targets, and those at the end.
  <1>3. CASE \/ Get \/ WriteInitStatus \/ addFinalizerIfAbsent \/ Finalize \/ NotToProceed
             \/ Proceed \/ Pause \/ Resume \/ ReadMetrics \/ WriteMetricsError \/ WriteMetrics
             \/ Fetch \/ DetectBaseline \/ DetectCandidates \/ ShiftTraffic \/ Iterate
             \/ Finish \/ Complete \/ EndRequest \/ RemoveFinalizer
    <2>1. UNCHANGED rules /\ pc \notin HalfWritten
      BY <1>3
         DEF Get, WriteInitStatus, addFinalizerIfAbsent, Finalize, NotToProceed, Proceed,
             Pause, Resume, ReadMetrics, WriteMetricsError, WriteMetrics, Fetch,
             DetectBaseline, DetectCandidates, ShiftTraffic, Iterate, Finish, Complete,
             EndRequest, RemoveFinalizer, HalfWritten
    <2>2. CASE \/ Get \/ WriteInitStatus \/ addFinalizerIfAbsent \/ Finalize \/ NotToProceed
               \/ Proceed \/ Pause \/ Resume
      <3>1. pc' \notin HalfWritten /\ pc' # "baselineVS"
        BY <2>2 DEF Get, WriteInitStatus, addFinalizerIfAbsent, Finalize, NotToProceed, Proceed,
                    Pause, Resume, toSyncMetrics, Return, Continue, Fail, Goto, HalfWritten
      <3> QED
        BY <1>1, <2>1, <3>1
    <2>3. CASE \/ ReadMetrics \/ WriteMetricsError \/ WriteMetrics \/ Fetch
               \/ DetectCandidates \/ ShiftTraffic
      <3>1. pc' \notin HalfWritten /\ pc' # "baselineVS"
        BY <2>3 DEF ReadMetrics, WriteMetricsError, WriteMetrics, Fetch,
                    DetectCandidates, ShiftTraffic, AfterDetection, TargetsError, Detected,
                    IterationDone, Continue, Fail, Goto, HalfWritten
      <3> QED
        BY <1>1, <2>1, <3>1
    <2>4. CASE Iterate \/ Finish \/ Complete \/ EndRequest \/ RemoveFinalizer
      <3>1. pc' \notin HalfWritten /\ pc' # "baselineVS"
        BY <2>4 DEF Iterate, Analyze, AnalyticsError, IterationDone, Finish, Complete, Completed,
                    EndRequest, Ended, RemoveFinalizer, Return, Continue, Fail, Goto, HalfWritten
      <3> QED
        BY <1>1, <2>1, <3>1
    <2>5. CASE DetectBaseline
      <3>1. vs' = vs /\ dr' = dr /\ faults' = faults /\ crashes' = crashes
        BY <2>5 DEF DetectBaseline, rules
      <3>2. pc' \in {"endRequest", "candidates", "baselineVS"}
        BY <2>5 DEF DetectBaseline, TargetsError, Continue, Fail, Goto
      <3>3. CASE pc' # "baselineVS"
        BY <1>1, <2>1, <3>2, <3>3 DEF HalfWritten
      <3>4. CASE pc' = "baselineVS"
        <4>1. ~isProgressing(vs, dr) /\ ~isInitializing(vs, dr)
          BY <2>5, <3>4 DEF DetectBaseline, TargetsError, Continue, Fail, Goto
        <4>2. SUFFICES ASSUME RequireDR, faults = 0, crashes = 0
                       PROVE  PairedRules'
          BY <2>1, <3>1, <3>4 DEF PairInv, HalfWritten
        <4>3. RolesAlike
          BY <2>1, <4>2 DEF PairInv, PairedRules
        <4>4. ~Owned(vs)
          BY <4>1, <4>2, <4>3 DEF RolesAlike, Owned, isProgressing, isInitializing, HaveRole
        <4> QED
          BY <3>1, <3>4, <4>3, <4>4 DEF PairedRules, RolesAlike, Owned, HalfWritten
      <3> QED
        BY <3>3, <3>4
    <2> QED
      BY <1>3, <2>2, <2>3, <2>4, <2>5
  <1>4. CASE Crash
    <2>1. crashes' # 0 /\ pc' = "idle" /\ dr' = dr
      BY <1>4, Counters DEF Crash, Return, rules
    <2> QED
      BY <2>1 DEF PairInv, HalfWritten
  \* The actions that write a rule, when they fail and when they succeed.
  <1>5. CASE UpdateBaselineVS
    <2>1. dr' = dr /\ pc = "baselineVS"
      BY <1>5 DEF UpdateBaselineVS
    <2>2. CASE vs' = vs /\ pc' = "endRequest"
      BY <1>1, <2>1, <2>2 DEF rules, HalfWritten
    <2>3. CASE /\ vs' = WithBaseline(vs)
               /\ pc' = IF RequireDR THEN "baselineDR" ELSE "candidates"
      <3>1. vs'.role = "initializing"
        BY <1>0, <2>3, RuleChanges
      <3>2. CASE ~RequireDR
        BY <2>1, <2>3, <3>2 DEF PairInv, HalfWritten
      <3>3. CASE RequireDR
        <4>1. SUFFICES ASSUME faults' = 0, crashes' = 0
                       PROVE  PairedRules'
          BY <3>3 DEF PairInv
        <4>2. RolesAlike /\ ~Owned(vs)
          BY <2>1, <3>3, <4>1, Counters DEF PairInv, PairedRules, HalfWritten
        <4>3. ~Owned(dr)
          BY <4>2 DEF RolesAlike, Owned
        <4> QED
          BY <2>1, <2>3, <3>1, <3>3, <4>3 DEF PairedRules, HalfWritten, Owned
      <3> QED
        BY <3>2, <3>3
    <2> QED
      BY <1>5, <2>2, <2>3 DEF UpdateBaselineVS, RulesError, Fail, Continue, Goto
  <1>6. CASE UpdateBaselineDR
    <2>1. vs' = vs /\ pc = "baselineDR" /\ RequireDR
      BY <1>6 DEF UpdateBaselineDR, PairInv, HalfWritten
    <2>2. CASE dr' = WithInitializing(dr) /\ pc' = "candidates"
      <3>1. dr'.role = "initializing"
        BY <1>0, <2>2, RuleChanges
      <3>2. RequireDR /\ faults' = 0 /\ crashes' = 0 => vs.role = "initializing"
        BY <2>1, Counters DEF PairInv, PairedRules
      <3> QED
        BY <2>1, <2>2, <3>1, <3>2 DEF PairInv, PairedRules, RolesAlike, HalfWritten
    <2>3. CASE faults' # 0 \/ crashes' # 0
      BY <2>1, <2>3 DEF PairInv
    <2>4. faults' = 0 /\ crashes' = 0 => ~(ToCreate(dr) /\ dr.role # "absent")
      BY <2>1, Counters DEF PairInv, PairedRules, Labelled, ToCreate
    <2> QED
      BY <1>6, <2>2, <2>3, <2>4, Counters DEF UpdateBaselineDR, Continue, Goto
  <1>7. CASE UpdateCandidatesVS
    <2>1. dr' = dr /\ pc = "candidatesVS"
      BY <1>7 DEF UpdateCandidatesVS
    <2>2. CASE vs' = vs /\ pc' = "endRequest"
      BY <1>1, <2>1, <2>2 DEF rules, HalfWritten
    <2>3. CASE vs' = WithProgressing(vs) /\ RequireDR /\ pc' = "candidatesDR"
      BY <1>0, <2>1, <2>3, RuleChanges, Counters DEF PairInv, PairedRules, HalfWritten
    <2>4. CASE ~RequireDR /\ pc' \in {"iterate", "finish"}
      BY <2>1, <2>4 DEF PairInv, HalfWritten
    <2> QED
      BY <1>7, <2>2, <2>3, <2>4
         DEF UpdateCandidatesVS, Detected, AfterDetection, RulesError, Fail, Continue, Goto
  <1>8. CASE UpdateCandidatesDR
    <2>1. vs' = vs /\ pc = "candidatesDR" /\ RequireDR
      BY <1>8 DEF UpdateCandidatesDR, PairInv, HalfWritten
    <2>2. CASE dr' = WithProgressing(dr) /\ pc' \in {"iterate", "finish"}
      BY <1>0, <2>1, <2>2, RuleChanges, Counters DEF PairInv, PairedRules, RolesAlike, HalfWritten
    <2>3. CASE faults' # 0
      BY <2>1, <2>3 DEF PairInv
    <2> QED
      BY <1>8, <2>2, <2>3, Counters DEF UpdateCandidatesDR, Detected, AfterDetection, Goto
  <1>9. CASE UpdateTrafficVS
    <2>1. dr' = dr /\ pc = "trafficVS" /\ pc' \in {"finish", "endRequest"}
      BY <1>9 DEF UpdateTrafficVS, IterationDone, RulesError, Fail, Goto
    <2>2. vs'.role = vs.role
      BY <1>0, <1>9 DEF UpdateTrafficVS, VirtualService
    <2> QED
      BY <2>1, <2>2, Counters DEF PairInv, PairedRules, RolesAlike, HalfWritten
  <1>10. CASE StableVS
    <2>1. dr' = dr /\ pc \in {"stableVS", "deleteVS"}
      BY <1>10 DEF StableVS
    <2>2. CASE vs' = vs /\ pc' \in {"removeFinalizer", "idle"}
      BY <1>1, <2>1, <2>2 DEF rules, HalfWritten
    <2>3. CASE ~RequireDR /\ pc' = "endRequest"
      BY <2>1, <2>3 DEF PairInv, HalfWritten
    <2>4. CASE /\ RequireDR
               /\ vs' = IF pc = "deleteVS" THEN AbsentVS
                        ELSE WithStable(FinalTraffic(vs, dr, inst.status.weight))
               /\ pc' = IF pc = "deleteVS" THEN "deleteDR" ELSE "stableDR"
      <3>1. CASE pc = "deleteVS"
        BY <1>0, <2>4, <3>1, RuleChanges DEF PairInv, PairedRules, HalfWritten
      <3>2. CASE pc # "deleteVS"
        <4>1. vs'.role = "stable"
          BY <1>0, <2>4, <3>2, StableRoute
        <4> QED
          BY <2>4, <3>2, <4>1 DEF PairInv, PairedRules, HalfWritten
      <3> QED
        BY <3>1, <3>2
    <2> QED
      BY <1>10, <2>2, <2>3, <2>4
         DEF StableVS, CompletionFails, Completed, Return, Fail, Continue, Goto
  <1>11. CASE StableDR
    <2>1. vs' = vs /\ pc \in {"stableDR", "deleteDR"} /\ RequireDR
      BY <1>11 DEF StableDR, PairInv, HalfWritten
    <2>2. CASE /\ dr' = IF pc = "deleteDR" THEN AbsentDR ELSE WithStable(dr)
               /\ pc' = "endRequest"
      BY <1>0, <2>1, <2>2, RuleChanges, Counters DEF PairInv, PairedRules, RolesAlike, HalfWritten
    <2>3. CASE faults' # 0
      BY <2>1, <2>3 DEF PairInv
    <2> QED
      BY <1>11, <2>2, <2>3, Counters DEF StableDR, Completed, Fail, Goto
  <1> QED
    BY <1>2, <1>3, <1>4, <1>5, <1>6, <1>7, <1>8, <1>9, <1>10, <1>11 DEF Next, Worker

LEMMA PairInit == Init => Labelled /\ PairInv
  <1> SUFFICES ASSUME Init
               PROVE  Labelled /\ PairInv
    OBVIOUS
  <1>1. pc = "idle"
    BY DEF Init
  <1>2. /\ RolesAlike /\ ~vs.init /\ ~dr.init
        /\ ~RequireDR => dr.role = "absent"
    <2>1. CASE vs = AbsentVS /\ dr = AbsentDR
      BY <2>1 DEF AbsentVS, AbsentDR, RolesAlike
    <2>2. CASE /\ vs = [role |-> "stable", init |-> FALSE, weight |-> AllTo(Baseline)]
               /\ dr = AbsentDR \/ (RequireDR /\ dr = [role |-> "stable", init |-> FALSE])
      BY <2>2 DEF AbsentDR, RolesAlike
    <2> QED
      BY <2>1, <2>2 DEF Init
  <1> QED
    BY <1>1, <1>2 DEF PairInv, PairedRules, Labelled, HalfWritten

LEMMA PairInvariant == Spec => [](LoopInv /\ PairInv)
  <1>1. LoopInv /\ Labelled /\ PairInv /\ [Next]_vars => Labelled' /\ PairInv'
    BY LabelledStep, PairStep DEF LoopInv
  <1> QED
    BY <1>1, PairInit, LoopInvariant, PTL DEF Spec

\* Until a call fails or the controller crashes between the writes of the two
\* rules, both have the same role after every reconcile, whatever commands and
\* targets do (UpdateRouteWithBaseline, UpdateRouteWithCandidates and
\* UpdateRouteToStable in router.go).
THEOREM RulesStayPaired == Spec => [](faults = 0 /\ crashes = 0 => RulesPaired)
  <1>1. PairInv => (faults = 0 /\ crashes = 0 => RulesPaired)
    BY DEF PairInv, PairedRules, RolesAlike, RulesPaired, Idle, HalfWritten
  <1> QED
    BY <1>1, PairInvariant, PTL

-----------------------------------------------------------------------------
\* The calls that lead up to the work on an active experiment.
Started == {"idle", "initStatus", "finalizer", "endRequest"}

\* The calls of a reconcile that found the experiment deleted.
Ending == {"initStatus", "finalizer", "decide", "fetch", "finish", "complete", "stableVS",
           "stableDR", "deleteVS", "deleteDR", "endRequest", "removeFinalizer"}

\* A deletion, and a completion, is known to the later copies for good ...
DeletionKnown ==
    /\ cache.deleting => obj.deleting
    /\ ~obj.exists => obj.deleting
    /\ obj.deleting => edits > 0
    /\ cache.status.completed => obj.status.completed

\* ... and a reconcile that knows of a deletion does nothing but end the experiment.
DeletionWork ==
    /\ pc # "idle" =>
           /\ inst.exists /\ (pc \notin Started => inst.finalizer)
           /\ current => inst.deleting = obj.deleting /\ inst.finalizer = obj.finalizer
           /\ inst.deleting =>
                  /\ cache.deleting /\ pc \in Ending
                  /\ pc \in {"fetch", "finish"} => inst.override = "terminate"
    /\ finalizing \/ pc = "removeFinalizer" => inst.deleting /\ inst.finalizer
    /\ pc = "finalizer" => ~inst.finalizer
    /\ pc \in {"finalizer", "decide"} /\ inst.status.completed => cache.status.completed

DeletingInv == DeletionKnown /\ DeletionWork

\* What is kept of an object by everything that changes its status only.
Lifetime(x) == <<x.exists, x.finalizer, x.deleting>>

LEMMA MarksKeepLifetime ==
    ASSUME NEW x \in Object
    PROVE  /\ Lifetime(InitStatus(x)) = Lifetime(x)
           /\ \A reason : Lifetime(MarkTargetsError(x, reason)) = Lifetime(x)
           /\ Lifetime(MarkRoutingRulesError(x)) = Lifetime(x)
           /\ Lifetime(MarkAnalyticsServiceError(x)) = Lifetime(x)
           /\ Lifetime(MarkMetricsSyncedError(x)) = Lifetime(x)
           /\ Lifetime(MarkTargetsAndRulesReady(x)) = Lifetime(x)
           /\ Lifetime(MarkExperimentPause(x)) = Lifetime(x)
           /\ Lifetime(MarkExperimentResume(x)) = Lifetime(x)
           /\ Lifetime(MarkIterationUpdate(x)) = Lifetime(x)
           /\ Lifetime(MarkExperimentCompleted(x)) = Lifetime(x)
           /\ Lifetime(TerminateExperiment(x)) = Lifetime(x)
           /\ Lifetime(overrideAssessment(x)) = Lifetime(x)
           /\ \A status : Lifetime([x EXCEPT !.status = status]) = Lifetime(x)
  BY DEF Lifetime, Object, InitStatus, MarkTargetsError, MarkRoutingRulesError,
         MarkAnalyticsServiceError, MarkMetricsSyncedError, MarkTargetsAndRulesReady,
         MarkExperimentPause, MarkExperimentResume, MarkIterationUpdate,
         MarkExperimentCompleted, TerminateExperiment, overrideAssessment

\* What a write of the worker does to the lifetime of the object: that it adds or
\* removes the finalizer, and nothing while it is not up to date.
LEMMA LifetimeWritten ==
    ASSUME LoopInv, DeletingInv, Worker
    PROVE  /\ cache' = cache
           /\ obj'.deleting = obj.deleting
           /\ \/ Lifetime(obj') = Lifetime(obj)
              \/ addFinalizerIfAbsent /\ obj'.exists /\ obj.exists /\ obj'.finalizer
              \/ RemoveFinalizer /\ current /\ obj.exists /\ ~obj'.exists
  <1>0. obj \in Object /\ cache \in Object /\ inst \in Object
    BY Copies
  <1>1. CASE addFinalizerIfAbsent
    <2> DEFINE x == [inst EXCEPT !.finalizer = TRUE]
    <2>1. x \in Object /\ x.exists = inst.exists /\ x.deleting = inst.deleting /\ x.finalizer
      BY <1>0 DEF Object
    <2>2. PICK a \in {"ok", "conflict", "error"} : Answer(a) /\ UpdateObject(a, x)
      BY <1>1 DEF addFinalizerIfAbsent
    <2> HIDE DEF x
    <2>3. CASE a = "ok"
      <3>1. obj' = [x EXCEPT !.status = obj.status] /\ cache' = cache /\ obj.exists /\ current
        BY <2>2, <2>3 DEF UpdateObject, Store, Answer
      <3>2. inst.exists /\ inst.deleting = obj.deleting
        BY <1>1, <3>1 DEF DeletingInv, DeletionWork, addFinalizerIfAbsent
      <3>3. obj'.exists = x.exists /\ obj'.deleting = x.deleting /\ obj'.finalizer = x.finalizer
        BY <2>1, <3>1 DEF Object
      <3> QED
        BY <1>1, <2>1, <3>1, <3>2, <3>3
    <2>4. CASE a # "ok"
      BY <2>2, <2>4 DEF UpdateObject, store
    <2> QED
      BY <2>3, <2>4
  <1>2. CASE Pause \/ Resume \/ WriteMetrics
    <2>1. PICK a \in {"ok", "conflict", "error"} : Answer(a) /\ UpdateObject(a, inst)
      BY <1>2 DEF Pause, Resume, WriteMetrics
    <2>2. CASE a = "ok"
      <3>1. obj' = [inst EXCEPT !.status = obj.status] /\ cache' = cache /\ obj.exists /\ current
        BY <2>1, <2>2 DEF UpdateObject, Store, Answer
      <3>2. Lifetime(inst) = Lifetime(obj)
        <4>1. inst.exists = TRUE /\ obj.exists = TRUE
              /\ inst.deleting = obj.deleting /\ inst.finalizer = obj.finalizer
          BY <1>0, <1>2, <3>1 DEF DeletingInv, DeletionWork, Pause, Resume, WriteMetrics, Object
        <4> QED
          BY <4>1 DEF Lifetime
      <3>3. Lifetime(obj') = Lifetime(obj)
        BY <1>0, <3>1, <3>2, MarksKeepLifetime
      <3> QED
        BY <3>1, <3>3 DEF Lifetime
    <2>3. CASE a # "ok"
      BY <2>1, <2>3 DEF UpdateObject, store
    <2> QED
      BY <2>2, <2>3
  <1>3. CASE RemoveFinalizer
    <2> DEFINE x == [inst EXCEPT !.finalizer = FALSE, !.exists = FALSE]
    <2>1. x \in Object /\ x.exists = FALSE /\ x.deleting = inst.deleting
      BY <1>0 DEF Object
    <2>2. PICK a \in {"ok", "conflict", "error"} : Answer(a) /\ UpdateObject(a, x)
      BY <1>3 DEF RemoveFinalizer
    <2> HIDE DEF x
    <2>3. CASE a = "ok"
      <3>1. obj' = [x EXCEPT !.status = obj.status] /\ cache' = cache /\ obj.exists /\ current
        BY <2>2, <2>3 DEF UpdateObject, Store, Answer
      <3>2. inst.deleting = obj.deleting
        BY <1>3, <3>1 DEF DeletingInv, DeletionWork, RemoveFinalizer
      <3>3. obj'.exists = x.exists /\ obj'.deleting = x.deleting
        BY <2>1, <3>1 DEF Object
      <3> QED
        BY <1>3, <2>1, <3>1, <3>2, <3>3
    <2>4. CASE a # "ok"
      BY <2>2, <2>4 DEF UpdateObject, store
    <2> QED
      BY <2>3, <2>4
  <1>4. CASE StatusWriter
    <2>1. (obj' = obj \/ obj' = [obj EXCEPT !.status = inst.status]) /\ cache' = cache
      BY <1>4 DEF StatusWriter, WriteInitStatus, WriteMetricsError, EndRequest, UpdateStatus,
                  Store, store
    <2>2. Lifetime(obj') = Lifetime(obj)
      BY <1>0, <2>1, MarksKeepLifetime
    <2> QED
      BY <2>1, <2>2 DEF Lifetime
  <1>5. CASE \/ Get \/ Finalize \/ NotToProceed \/ Proceed \/ ReadMetrics \/ Fetch
             \/ DetectBaseline \/ UpdateBaselineVS \/ UpdateBaselineDR \/ DetectCandidates
             \/ UpdateCandidatesVS \/ UpdateCandidatesDR \/ ShiftTraffic \/ Iterate
             \/ UpdateTrafficVS \/ Finish \/ Complete \/ StableVS \/ StableDR
    <2>1. UNCHANGED store
      BY <1>5
         DEF Get, Finalize, NotToProceed, Proceed, ReadMetrics, Fetch, DetectBaseline,
             UpdateBaselineVS, UpdateBaselineDR, DetectCandidates, UpdateCandidatesVS,
             UpdateCandidatesDR, ShiftTraffic, Iterate, UpdateTrafficVS, Finish, Complete,
             StableVS, StableDR
    <2> QED
      BY <2>1 DEF store
  <1> QED
    BY <1>1, <1>2, <1>3, <1>4, <1>5 DEF Worker, StatusWriter


\* A step of the worker keeps what is known.
LEMMA KnownByWorker == LoopInv /\ DeletingInv /\ Worker => DeletionKnown'
  <1> SUFFICES ASSUME LoopInv, DeletingInv, Worker
               PROVE  DeletionKnown'
    OBVIOUS
  <1>1. [Next]_vars /\ TypeOK
    BY DEF Next, LoopInv
  <1>2. cache' = cache /\ obj'.deleting = obj.deleting
    BY LifetimeWritten
  <1>3. obj.status.completed => obj'.status.completed
    BY <1>1, OutcomeStep
  <1>4. edits > 0 => edits' > 0
    BY <1>1, Counters
  <1>5. ~obj'.exists => obj.deleting
    <2>1. CASE Lifetime(obj') = Lifetime(obj)
      BY <2>1 DEF Lifetime, DeletingInv, DeletionKnown
    <2>2. CASE RemoveFinalizer /\ current
      BY <2>2 DEF RemoveFinalizer, DeletingInv, DeletionKnown, DeletionWork
    <2> QED
      BY <2>1, <2>2, LifetimeWritten
  <1> QED
    BY <1>2, <1>3, <1>4, <1>5 DEF DeletingInv, DeletionKnown

\* ... and goes on with a copy that tells the same of a deletion.
DeletionWorked ==
    DeletionWork' /\ (pc = "idle" \/ pc' = "idle" \/ inst'.deleting = inst.deleting)

\* The worker goes on with a copy of the same lifetime.
LEMMA DeletionGo ==
    ASSUME DeletionWork, pc # "idle", cache' = cache, obj'.deleting = obj.deleting,
           NEW next, NEW x, Goto(next, x), x.exists, x.deleting = inst.deleting,
           next \notin Started => x.finalizer,
           current' => current /\ x.finalizer = obj'.finalizer,
           inst.deleting => /\ next \in Ending
                            /\ next \in {"fetch", "finish"} => x.override = "terminate",
           finalizing' \/ next = "removeFinalizer" => inst.deleting /\ x.finalizer,
           next = "finalizer" => ~x.finalizer,
           next \in {"finalizer", "decide"} /\ x.status.completed => cache.status.completed
    PROVE  DeletionWorked
  BY DEF DeletionWork, DeletionWorked, Goto

LEMMA DeletionReturn == Return => DeletionWorked
  BY DEF Return, DeletionWork, DeletionWorked

\* What a write of the worker's copy answers with has the copy's lifetime.
LEMMA AnsweredLifetime ==
    ASSUME obj \in Object, inst \in Object, DeletionWork, pc # "idle", NEW a, Answer(a),
           UpdateStatus(a, inst) \/ UpdateObject(a, inst)
    PROVE  /\ Lifetime(Decoded(a, inst)) = Lifetime(inst) /\ Decoded(a, inst) \in Object
           /\ current => Decoded(a, inst).finalizer = obj'.finalizer
           /\ UpdateStatus(a, inst) => Decoded(a, inst).status = inst.status
           /\ Decoded(a, inst).status \in {obj.status, inst.status}
  <1>1. CASE a = "ok"
    <2>1. obj.exists = TRUE /\ current
      BY <1>1 DEF Answer, Object
    <2>2. inst.exists = TRUE /\ inst.deleting = obj.deleting /\ inst.finalizer = obj.finalizer
      BY <2>1 DEF DeletionWork, Object
    <2>3. \/ UpdateStatus(a, inst) /\ obj' = [obj EXCEPT !.status = inst.status]
          \/ ~UpdateStatus(a, inst) /\ obj' = [inst EXCEPT !.status = obj.status]
          \/ inst.status = obj.status /\ obj' = [inst EXCEPT !.status = obj.status]
      BY <1>1 DEF UpdateStatus, UpdateObject, Store
    <2> QED
      BY <1>1, <2>1, <2>2, <2>3 DEF Decoded, Lifetime, Object
  <1>2. CASE a # "ok"
    <2>1. Decoded(a, inst) = inst /\ obj' = obj
      BY <1>2 DEF Decoded, UpdateStatus, UpdateObject, store
    <2>2. current => inst.finalizer = obj.finalizer
      BY DEF DeletionWork
    <2> QED
      BY <2>1, <2>2
  <1> QED
    BY <1>1, <1>2

\* An action that leaves the object alone goes on with a copy of which it changed
\* the status, if it works on an active experiment or ends one.
LEMMA DeletionKept ==
    ASSUME DeletionWork, pc \notin Started, UNCHANGED store, current' = current,
           finalizing' = finalizing,
           NEW x, Lifetime(x) = Lifetime(inst), NEW next, Goto(next, x),
           next \notin {"finalizer", "decide"},
           pc \in Ending =>
               ~inst.deleting \/ (next \in Ending \ {"fetch"} /\ next # "finish")
               \/ (pc = "fetch" /\ next = "finish" /\ x = inst),
           next = "removeFinalizer" => inst.deleting
    PROVE  DeletionWorked
  <1>1. pc # "idle"
    BY DEF Started
  <1>2. x.exists = inst.exists /\ x.finalizer = inst.finalizer /\ x.deleting = inst.deleting
    BY DEF Lifetime
  <1>3. inst.exists /\ inst.finalizer
    BY <1>1 DEF DeletionWork
  <1>4. inst.deleting => pc \in Ending /\ (pc = "fetch" => inst.override = "terminate")
    BY <1>1 DEF DeletionWork
  <1>5. obj' = obj /\ cache' = cache
    BY DEF store
  <1>6. current => inst.finalizer = obj.finalizer
    BY <1>1 DEF DeletionWork
  <1>7. finalizing => inst.deleting
    BY DEF DeletionWork
  <1>8. obj'.deleting = obj.deleting /\ (current => x.finalizer = obj'.finalizer)
    BY <1>2, <1>5, <1>6
  <1>9. inst.deleting => /\ next \in Ending
                         /\ next \in {"fetch", "finish"} => x.override = "terminate"
    <2>1. CASE inst.deleting /\ next \in Ending \ {"fetch"} /\ next # "finish"
      BY <2>1
    <2>2. CASE inst.deleting /\ pc = "fetch" /\ next = "finish" /\ x = inst
      BY <1>4, <2>2 DEF Ending
    <2>3. CASE ~inst.deleting
      BY <2>3
    <2> QED
      BY <1>4, <2>1, <2>2, <2>3
  <1>10. x.exists /\ x.finalizer /\ x.deleting = inst.deleting
    BY <1>2, <1>3
  <1>11. finalizing' \/ next = "removeFinalizer" => inst.deleting /\ x.finalizer
    BY <1>7, <1>10
  <1>12. current' => current /\ x.finalizer = obj'.finalizer
    BY <1>8
  <1> QED
    BY <1>1, <1>5, <1>8, <1>9, <1>10, <1>11, <1>12, DeletionGo

LEMMA DeletionByWorker == LoopInv /\ DeletingInv /\ Worker => DeletionWorked
  <1> SUFFICES ASSUME LoopInv, DeletingInv, Worker
               PROVE  DeletionWorked
    OBVIOUS
  <1>0. /\ obj \in Object /\ cache \in Object /\ inst \in Object
        /\ DeletionWork /\ DeletionKnown
    BY Copies DEF DeletingInv
  <1>a. cache' = cache /\ obj'.deleting = obj.deleting
    BY LifetimeWritten
  <1>1. CASE Get
    <2>0. pc = "idle" /\ ~finalizing /\ UNCHANGED store /\ obj' = obj /\ (synced => cache = obj)
      BY <1>1 DEF Get, LoopInv, CopyRelated, Related, IdleInv, StoreInv, store
    <2>1. CASE ~cache.exists
      BY <1>1, <2>1, DeletionReturn DEF Get
    <2>2. CASE cache.exists
      <3> DEFINE x == IF cache.status.inited THEN cache ELSE InitStatus(cache)
      <3>1. Lifetime(x) = Lifetime(cache)
        BY <1>0, MarksKeepLifetime
      <3>2. x.status.completed = cache.status.completed
        BY <1>0 DEF InitStatus, Object, Status
      <3>3. x \in Object
        BY <1>0, InitStatusType
      <3>4. Lifetime(MarkTargetsError(x, "Invalid")) = Lifetime(x)
        BY <3>3, MarksKeepLifetime
      <3>5. /\ current' = synced /\ finalizing' = FALSE
            /\ \/ Goto(IF x.finalizer THEN "decide" ELSE "finalizer", x)
               \/ Goto("initStatus", x)
               \/ Goto("endRequest", MarkTargetsError(x, "Invalid"))
        BY <1>1, <2>0, <2>2 DEF Get
      <3>6. /\ x.exists /\ x.deleting = cache.deleting /\ x.finalizer = cache.finalizer
            /\ MarkTargetsError(x, "Invalid").exists
            /\ MarkTargetsError(x, "Invalid").deleting = cache.deleting
            /\ MarkTargetsError(x, "Invalid").finalizer = cache.finalizer
        BY <2>2, <3>1, <3>4 DEF Lifetime
      <3>7. PICK y : /\ y.exists /\ y.deleting = cache.deleting
                     /\ y.finalizer = cache.finalizer
                     /\ \/ /\ y.status.completed = cache.status.completed
                           /\ Goto(IF y.finalizer THEN "decide" ELSE "finalizer", y)
                        \/ Goto("initStatus", y)
                        \/ Goto("endRequest", y)
        BY <3>2, <3>5, <3>6
      <3> HIDE DEF x
      <3> QED
        BY <1>a, <2>0, <3>5, <3>7 DEF Goto, DeletionWork, DeletionWorked, Started, Ending
    <2> QED
      BY <2>1, <2>2
  <1>2. CASE WriteInitStatus
    <2>1. PICK a \in {"ok", "conflict", "error"} :
             /\ Answer(a) /\ UpdateStatus(a, inst)
             /\ IF Benign(a)
                  THEN Continue(IF inst.finalizer THEN "decide" ELSE "finalizer",
                                Decoded(a, inst))
                  ELSE Return
      BY <1>2 DEF WriteInitStatus
    <2>2. CASE a = "error"
      BY <2>1, <2>2, DeletionReturn DEF Benign
    <2>3. CASE a # "error"
      <3> DEFINE x == Decoded(a, inst)
      <3>1. pc = "initStatus" /\ ~inst.status.completed /\ inst.exists
        BY <1>0, <1>2
           DEF WriteInitStatus, LoopInv, CopyRelated, Related, CopyInv, Early, DeletionWork
      <3>2. Lifetime(x) = Lifetime(inst) /\ x.status = inst.status
            /\ (current => x.finalizer = obj'.finalizer)
        BY <1>0, <2>1, <3>1, AnsweredLifetime
      <3>3. /\ Goto(IF inst.finalizer THEN "decide" ELSE "finalizer", x)
            /\ current' = current /\ finalizing' = finalizing
        BY <2>1, <2>3 DEF Benign, Continue
      <3> HIDE DEF x
      <3>4. x.exists = inst.exists /\ x.deleting = inst.deleting /\ x.finalizer = inst.finalizer
        BY <3>2 DEF Lifetime
      <3>5. finalizing => inst.deleting /\ inst.finalizer
        BY <1>0 DEF DeletionWork
      <3> QED
        BY <1>0, <1>a, <3>1, <3>2, <3>3, <3>4, <3>5, DeletionGo DEF Started, Ending
    <2> QED
      BY <2>2, <2>3
  <1>3. CASE addFinalizerIfAbsent
    <2> DEFINE y == [inst EXCEPT !.finalizer = TRUE]
    <2>1. PICK a \in {"ok", "conflict", "error"} :
             /\ Answer(a) /\ UpdateObject(a, y)
             /\ IF Benign(a) THEN Continue("decide", Decoded(a, y)) ELSE Return
      BY <1>3 DEF addFinalizerIfAbsent
    <2>2. /\ y \in Object /\ y.exists = inst.exists /\ y.deleting = inst.deleting /\ y.finalizer
          /\ y.status = inst.status
      BY <1>0 DEF Object
    <2>3. CASE a = "error"
      BY <2>1, <2>3, DeletionReturn DEF Benign
    <2> HIDE DEF y
    <2>4. CASE a # "error"
      <3> DEFINE x == Decoded(a, y)
      <3>1. pc = "finalizer" /\ inst.exists /\ (finalizing => inst.deleting)
            /\ (current => inst.status = obj.status)
        BY <1>0, <1>3
           DEF addFinalizerIfAbsent, DeletionWork, LoopInv, CopyRelated, Related, CurrentInv
      <3>2. /\ x.exists = inst.exists /\ x.deleting = inst.deleting /\ x.finalizer
            /\ x.status = inst.status /\ (current => x.finalizer = obj'.finalizer)
        <4>1. CASE a = "ok"
          <5>1. x = [y EXCEPT !.status = obj.status] /\ obj' = x /\ current
            BY <2>1, <4>1 DEF Decoded, UpdateObject, Store, Answer
          <5> QED
            BY <2>2, <3>1, <5>1 DEF Object
        <4>2. CASE a # "ok"
          BY <2>1, <2>2, <2>4, <4>2 DEF Decoded, Answer
        <4> QED
          BY <4>1, <4>2
      <3>3. Goto("decide", x) /\ current' = current /\ finalizing' = finalizing
        BY <2>1, <2>4 DEF Benign, Continue
      <3>4. inst.status.completed => cache.status.completed
        BY <1>0, <3>1 DEF DeletionWork
      <3> HIDE DEF x
      <3> QED
        BY <1>0, <1>a, <3>1, <3>2, <3>3, <3>4, DeletionGo DEF Ending
    <2> QED
      BY <2>3, <2>4
  <1>4. CASE Finalize
    <2>1. pc = "decide" /\ inst.deleting /\ obj' = obj /\ current' = current
      BY <1>4 DEF Finalize, Continue, store
    <2>2. inst.exists /\ inst.finalizer /\ (current => inst.finalizer = obj.finalizer)
      BY <1>0, <2>1 DEF DeletionWork, Started
    <2>3. \/ Goto("removeFinalizer", inst)
          \/ Goto("fetch", TerminateExperiment(inst))
      BY <1>4 DEF Finalize, Continue
    <2>4. Lifetime(TerminateExperiment(inst)) = Lifetime(inst)
          /\ TerminateExperiment(inst).override = "terminate"
      BY <1>0, MarksKeepLifetime DEF TerminateExperiment, Object
    <2>5. TerminateExperiment(inst).exists /\ TerminateExperiment(inst).finalizer
          /\ TerminateExperiment(inst).deleting = inst.deleting
          /\ TerminateExperiment(inst).finalizer = inst.finalizer
      BY <2>2, <2>4 DEF Lifetime
    <2>6. CASE Goto("removeFinalizer", inst)
      BY <1>0, <1>a, <2>1, <2>2, <2>6, DeletionGo DEF Ending
    <2>7. CASE Goto("fetch", TerminateExperiment(inst))
      BY <1>0, <1>a, <2>1, <2>2, <2>4, <2>5, <2>7, DeletionGo DEF Ending
    <2> QED
      BY <2>3, <2>6, <2>7
  <1>5. CASE NotToProceed \/ RemoveFinalizer
    BY <1>5, DeletionReturn DEF NotToProceed, RemoveFinalizer
  <1>6. CASE Proceed
    <2> DEFINE cleared == [inst EXCEPT !.override = "none", !.split = NoSplit]
    <2>1. /\ pc = "decide" /\ ~inst.deleting /\ UNCHANGED store
          /\ current' = current /\ finalizing' = finalizing
      BY <1>6 DEF Proceed
    <2>2. Lifetime(cleared) = Lifetime(inst)
      BY <1>0 DEF Lifetime, Object
    <2>3. \E next, x : /\ x \in {inst, cleared} /\ Goto(next, x)
                       /\ next \in {"metrics", "fetch", "pause", "resume", "endRequest"}
      BY <1>6 DEF Proceed, toSyncMetrics
    <2> HIDE DEF cleared
    <2> QED
      BY <1>0, <2>1, <2>2, <2>3, DeletionKept DEF Started
  <1>7. CASE Pause \/ Resume \/ WriteMetrics \/ WriteMetricsError
    <2>1. /\ pc \in {"pause", "resume", "metricsUpdate", "metricsError"}
          /\ current' = current /\ finalizing' = finalizing
      BY <1>7 DEF Pause, Resume, WriteMetrics, WriteMetricsError, Fail
    <2>2. inst.exists /\ inst.finalizer /\ ~inst.deleting /\ ~finalizing
      BY <1>0, <2>1 DEF DeletionWork, Started, Ending
    <2>3. PICK a \in {"ok", "conflict", "error"} :
             /\ Answer(a)
             /\ UpdateStatus(a, inst) \/ UpdateObject(a, inst)
             /\ LET x == Decoded(a, inst)
                IN  \/ Fail(inst, FALSE)
                    \/ Fail(x, FALSE)
                    \/ Fail(MarkExperimentPause(x), TRUE)
                    \/ Goto(toSyncMetrics(MarkExperimentResume(x)), MarkExperimentResume(x))
                    \/ Goto("fetch", [x EXCEPT !.status.metricsSynced = "True"])
      BY <1>7 DEF Pause, Resume, WriteMetrics, WriteMetricsError
    <2> DEFINE x == Decoded(a, inst)
    <2>4. x \in Object /\ Lifetime(x) = Lifetime(inst) /\ (current => x.finalizer = obj'.finalizer)
      BY <1>0, <2>1, <2>3, AnsweredLifetime
    <2>5. /\ Lifetime(MarkExperimentPause(x)) = Lifetime(x)
          /\ Lifetime(MarkExperimentResume(x)) = Lifetime(x)
          /\ Lifetime([x EXCEPT !.status.metricsSynced = "True"]) = Lifetime(x)
      <3>1. Lifetime([x EXCEPT !.status.metricsSynced = "True"]) = Lifetime(x)
        BY <2>4 DEF Lifetime, Object
      <3> QED
        BY <2>4, <3>1, MarksKeepLifetime
    <2>6. \E next, y : /\ Goto(next, y) /\ next \in {"endRequest", "metrics", "fetch"}
                       /\ Lifetime(y) = Lifetime(inst)
      BY <2>3, <2>4, <2>5 DEF Fail, toSyncMetrics
    <2>7. PICK next, y : /\ Goto(next, y) /\ next \in {"endRequest", "metrics", "fetch"}
                         /\ Lifetime(y) = Lifetime(inst)
      BY <2>6
    <2>8. y.exists = inst.exists /\ y.finalizer = x.finalizer /\ y.deleting = inst.deleting
      BY <2>4, <2>7 DEF Lifetime
    <2> HIDE DEF x
    <2>9. y.finalizer
      BY <2>2, <2>7 DEF Lifetime
    <2> QED
      BY <1>0, <1>a, <2>1, <2>2, <2>4, <2>7, <2>8, <2>9, DeletionGo
  <1>8. CASE ReadMetrics
    <2>1. /\ pc = "metrics" /\ UNCHANGED store
          /\ current' = current /\ finalizing' = finalizing
      BY <1>8 DEF ReadMetrics, Continue
    <2>2. Lifetime([inst EXCEPT !.metrics = TRUE]) = Lifetime(inst)
          /\ Lifetime(MarkMetricsSyncedError(inst)) = Lifetime(inst)
      <3>1. Lifetime([inst EXCEPT !.metrics = TRUE]) = Lifetime(inst)
        BY <1>0 DEF Lifetime, Object
      <3> QED
        BY <1>0, <3>1, MarksKeepLifetime
    <2>3. \E next, x : /\ Lifetime(x) = Lifetime(inst) /\ Goto(next, x)
                       /\ next \in {"metricsUpdate", "metricsError"}
      BY <1>8, <2>2 DEF ReadMetrics, Continue
    <2> QED
      BY <1>0, <2>1, <2>3, DeletionKept DEF Started, Ending
  <1>9. CASE Fetch \/ Finish \/ Complete
    <2>1. /\ pc \in {"fetch", "finish", "complete"} /\ UNCHANGED store
          /\ current' = current /\ finalizing' = finalizing
      BY <1>9 DEF Fetch, Finish, Complete, Completed, Continue, Fail
    <2>2. ASSUME NEW x \in Object
          PROVE  Lifetime(overrideAssessment(x)) = Lifetime(x) /\ overrideAssessment(x) \in Object
      BY MarksKeepLifetime, OverrideType
    <2>3. /\ Lifetime(MarkRoutingRulesError(inst)) = Lifetime(inst)
          /\ Lifetime([inst EXCEPT !.status.iteration = @ + 1]) = Lifetime(inst)
          /\ Lifetime(overrideAssessment(inst)) = Lifetime(inst)
          /\ Lifetime(MarkExperimentCompleted(overrideAssessment(inst))) = Lifetime(inst)
      <3>1. Lifetime([inst EXCEPT !.status.iteration = @ + 1]) = Lifetime(inst)
        BY <1>0 DEF Lifetime, Object
      <3> QED
        BY <1>0, <2>2, <3>1, MarksKeepLifetime
    <2>4. CASE pc = "fetch"
      <3>1. inst.deleting => inst.override = "terminate"
        BY <1>0, <2>4 DEF DeletionWork
      <3>2. \/ Goto("complete", MarkRoutingRulesError(inst))
            \/ Goto("finish", inst)
            \/ ~inst.deleting /\ Goto("detect", inst)
            \/ ~inst.deleting /\ Goto("iterate", inst)
        BY <1>9, <2>4, <3>1
           DEF Fetch, Finish, Complete, Continue, AfterDetection, toDetectTargets,
               toProcessIteration
      <3> QED
        BY <1>0, <2>1, <2>3, <2>4, <3>2, DeletionKept DEF Started, Ending
    <2>5. CASE pc # "fetch"
      <3>1. \E next, x : /\ Lifetime(x) = Lifetime(inst) /\ Goto(next, x)
                         /\ next \in {"complete", "endRequest", "deleteVS", "stableVS"}
        BY <1>9, <2>3, <2>5 DEF Fetch, Finish, Complete, Completed, Continue, Fail
      <3> QED
        BY <1>0, <2>1, <3>1, DeletionKept DEF Started, Ending
    <2> QED
      BY <2>4, <2>5
  <1>10. CASE \/ DetectBaseline \/ UpdateBaselineVS \/ UpdateBaselineDR \/ DetectCandidates
              \/ UpdateCandidatesVS \/ UpdateCandidatesDR \/ UpdateTrafficVS
    <2>1. /\ pc \in {"detect", "baselineVS", "baselineDR", "candidates", "candidatesVS",
                     "candidatesDR", "trafficVS"}
          /\ UNCHANGED store
      BY <1>10
         DEF DetectBaseline, UpdateBaselineVS, UpdateBaselineDR, DetectCandidates,
             UpdateCandidatesVS, UpdateCandidatesDR, UpdateTrafficVS
    <2>2. current' = current /\ finalizing' = finalizing
      BY <1>10
         DEF DetectBaseline, UpdateBaselineVS, UpdateBaselineDR, DetectCandidates,
             UpdateCandidatesVS, UpdateCandidatesDR, UpdateTrafficVS, TargetsError, RulesError,
             Detected, IterationDone, Continue, Fail
    <2> DEFINE marked == {inst, [inst EXCEPT !.status.weight[Baseline] = 100],
                          MarkRoutingRulesError(inst), MarkTargetsAndRulesReady(inst),
                          MarkIterationUpdate(inst)}
                         \cup {MarkTargetsError(inst, TargetsErrorReason(inst, role)) :
                                 role \in {"service", "baseline", "candidate"}}
    <2>3. \A x \in marked : Lifetime(x) = Lifetime(inst)
      <3>1. Lifetime([inst EXCEPT !.status.weight[Baseline] = 100]) = Lifetime(inst)
        BY <1>0 DEF Lifetime, Object
      <3> QED
        BY <1>0, <3>1, MarksKeepLifetime
    <2>4. CASE DetectBaseline \/ UpdateBaselineVS \/ UpdateBaselineDR
      <3>1. \E x \in marked :
              \E next \in {"baselineVS", "baselineDR", "candidates", "endRequest"} : Goto(next, x)
        BY <2>4
           DEF DetectBaseline, UpdateBaselineVS, UpdateBaselineDR, TargetsError, RulesError,
               Continue, Fail
      <3> HIDE DEF marked
      <3> QED
        BY <1>0, <2>1, <2>2, <2>3, <3>1, DeletionKept DEF Started, Ending
    <2>5. CASE DetectCandidates \/ UpdateCandidatesVS \/ UpdateCandidatesDR \/ UpdateTrafficVS
      <3>1. \E x \in marked :
              \E next \in {"candidatesVS", "candidatesDR", "iterate", "finish", "endRequest"} :
                Goto(next, x)
        BY <2>5
           DEF DetectCandidates, UpdateCandidatesVS, UpdateCandidatesDR, UpdateTrafficVS,
               TargetsError, RulesError, Detected, AfterDetection, IterationDone, Continue, Fail
      <3> HIDE DEF marked
      <3> QED
        BY <1>0, <2>1, <2>2, <2>3, <3>1, DeletionKept DEF Started, Ending
    <2> QED
      BY <1>10, <2>4, <2>5
  <1>11. CASE ShiftTraffic \/ Iterate
    <2>1. /\ pc = "iterate" /\ UNCHANGED store
          /\ current' = current /\ finalizing' = finalizing
      BY <1>11 DEF ShiftTraffic, Iterate, Analyze, AnalyticsError, IterationDone, Continue, Fail
    <2> DEFINE kept == {x \in Object : Lifetime(x) = Lifetime(inst)}
    <2>2. \A x \in kept : /\ MarkIterationUpdate(x) \in kept
                          /\ MarkAnalyticsServiceError(x) \in kept
                          /\ TerminateExperiment(x) \in kept
      BY MarksKeepLifetime, MarkTypes
    <2>3. CASE ShiftTraffic
      <3>1. Lifetime([inst EXCEPT !.status.weight = Shifted(inst.status.weight)]) = Lifetime(inst)
        BY <1>0 DEF Lifetime, Object
      <3>2. \/ Goto("trafficVS", [inst EXCEPT !.status.weight = Shifted(inst.status.weight)])
            \/ Goto("finish", MarkIterationUpdate(inst))
        BY <2>3 DEF ShiftTraffic, IterationDone, Continue
      <3>3. Lifetime(MarkIterationUpdate(inst)) = Lifetime(inst)
        BY <1>0, MarksKeepLifetime
      <3> QED
        BY <1>0, <2>1, <3>1, <3>2, <3>3, DeletionKept DEF Started, Ending
    <2>4. CASE Iterate
      <3>1. ASSUME NEW r \in Responses, Analyze(r)
            PROVE  \E x \in kept :
                      \E next \in {"trafficVS", "finish", "endRequest"} : Goto(next, x)
        <4> DEFINE assessed == [inst EXCEPT !.status.winner = r.winner,
                                            !.status.phase = "Progressing",
                                            !.status.completed = FALSE]
                   weight == [v \in Versions |->
                                IF v \notin r.covered THEN inst.status.weight[v]
                                ELSE IF v \in r.rollback THEN 0 ELSE r.split[v]]
                   x == [assessed EXCEPT !.status.weight = weight]
                   running == [x EXCEPT !.status.analytics = "True"]
        <4>1. \/ Continue("finish", TerminateExperiment(inst))
              \/ AnalyticsError(x, TRUE)
              \/ Continue("trafficVS", running)
              \/ IterationDone(running)
          BY <3>1 DEF Analyze, assessed, weight
        <4>2. r \in Response
          BY EnvironmentAssumption
        <4>3. assessed \in Object /\ Lifetime(assessed) = Lifetime(inst)
          BY <1>0, <4>2 DEF Response, Object, Status, Phases, Lifetime
        <4>4. weight \in Traffic
          BY <1>0, <4>2 DEF Response, Traffic, Object, Status
        <4> HIDE DEF weight, assessed
        <4>5. x \in Object /\ Lifetime(x) = Lifetime(assessed)
          BY <4>3, <4>4, WeightType DEF Lifetime, Object
        <4>6. running \in Object /\ Lifetime(running) = Lifetime(x)
          BY <4>5, AnalyticsType DEF Lifetime, Object
        <4> HIDE DEF x, running
        <4>7. inst \in kept /\ x \in kept /\ running \in kept
          BY <1>0, <4>3, <4>5, <4>6
        <4> HIDE DEF kept
        <4> QED
          BY <2>2, <4>1, <4>7 DEF AnalyticsError, IterationDone, Continue, Fail
      <3>2. \E x \in kept : \E next \in {"trafficVS", "finish", "endRequest"} : Goto(next, x)
        <4>1. inst \in kept
          BY <1>0
        <4> HIDE DEF kept
        <4> QED
          BY <2>2, <2>4, <3>1, <4>1 DEF Iterate, AnalyticsError, Fail
      <3> QED
        BY <1>0, <2>1, <3>2, DeletionKept DEF Started, Ending
    <2> QED
      BY <1>11, <2>3, <2>4
  <1>12. CASE StableVS \/ StableDR
    <2>1. pc \in {"stableVS", "deleteVS", "stableDR", "deleteDR"} /\ UNCHANGED store
      BY <1>12 DEF StableVS, StableDR
    <2>2. CASE Return
      BY <2>2, DeletionReturn
    <2>3. CASE /\ current' = current /\ finalizing' = finalizing
               /\ \/ Goto("endRequest", MarkExperimentCompleted(inst))
                  \/ \E next \in {"deleteDR", "stableDR"} : Goto(next, inst)
                  \/ finalizing /\ Goto("removeFinalizer", inst)
      <3>1. finalizing => inst.deleting
        BY <1>0 DEF DeletionWork
      <3>2. Lifetime(MarkExperimentCompleted(inst)) = Lifetime(inst)
        BY <1>0, MarksKeepLifetime
      <3> QED
        BY <1>0, <2>1, <2>3, <3>1, <3>2, DeletionKept DEF Started, Ending
    <2> QED
      BY <1>12, <2>2, <2>3 DEF StableVS, StableDR, CompletionFails, Completed, Continue, Fail
  <1>13. CASE EndRequest
    <2>1. pc = "endRequest"
      BY <1>13 DEF EndRequest
    <2>2. CASE Return
      BY <2>2, DeletionReturn
    <2>3. ASSUME finalizing, current' = current, finalizing' = finalizing, NEW x,
                 Goto("removeFinalizer", x), Lifetime(x) = Lifetime(inst),
                 current => x.finalizer = obj'.finalizer
          PROVE  DeletionWorked
      <3>1. inst.deleting /\ inst.exists /\ inst.finalizer
        BY <1>0, <2>1, <2>3 DEF DeletionWork
      <3>2. x.exists = inst.exists /\ x.finalizer = inst.finalizer /\ x.deleting = inst.deleting
        BY <2>3 DEF Lifetime
      <3> QED
        BY <1>0, <1>a, <2>1, <2>3, <3>1, <3>2, DeletionGo DEF Ending
    <2>4. CASE UNCHANGED store /\ Ended(inst)
      <3>1. current => inst.finalizer = obj'.finalizer
        BY <1>0, <2>1, <2>4 DEF DeletionWork, store
      <3> QED
        BY <2>2, <2>3, <2>4, <3>1 DEF Ended, Continue
    <2>5. ASSUME NEW a, Answer(a), UpdateStatus(a, inst), Ended(Decoded(a, inst))
          PROVE  DeletionWorked
      BY <1>0, <2>1, <2>2, <2>3, <2>5, AnsweredLifetime DEF Ended, Continue
    <2> QED
      BY <1>13, <2>4, <2>5 DEF EndRequest
  <1> QED
    BY <1>1, <1>2, <1>3, <1>4, <1>5, <1>6, <1>7, <1>8, <1>9, <1>10, <1>11, <1>12, <1>13
       DEF Worker

\* What a step of a user does to the object is an override or a deletion.
LEMMA UserWrites ==
    ASSUME TypeOK, NEW new, UserChange(new), User
    PROVE  /\ new.status = obj.status /\ obj' = new /\ new \in Object
           /\ \/ new.exists = obj.exists /\ new.deleting = obj.deleting
                 /\ new.finalizer = obj.finalizer
              \/ /\ obj.exists /\ ~obj.deleting /\ new.deleting /\ new.exists = obj.finalizer
                 /\ new.finalizer = obj.finalizer
                 /\ new = [obj EXCEPT !.deleting = TRUE, !.exists = obj.finalizer]
  <1>0. obj \in Object
    BY DEF TypeOK
  <1>1. obj' = new
    BY DEF UserChange, Store
  <1>2. edits' = edits + 1 /\ edits \in Nat
    <2>1. edits \in 0..MaxEdits
      BY Parts DEF RestOK
    <2> QED
      BY <2>1, Bounds DEF UserChange
  <1>3. ASSUME NEW t, TargetEvent(t)
        PROVE  FALSE
    BY <1>2, <1>3 DEF TargetEvent
  <1>4. ASSUME NEW action \in Overrides, NEW split \in Splits \cup {NoSplit},
               Override(action, split)
        PROVE  new = [obj EXCEPT !.override = action, !.split = split]
    BY <1>1, <1>4 DEF Override, UserChange, Store
  <1>5. CASE Delete
    <2>1. obj.exists /\ ~obj.deleting
          /\ new = [obj EXCEPT !.deleting = TRUE, !.exists = obj.finalizer]
      BY <1>1, <1>5 DEF Delete, UserChange, Store
    <2> QED
      BY <1>0, <1>1, <2>1 DEF Object
  <1>6. CASE \E action \in Overrides, split \in Splits \cup {NoSplit} :
                 new = [obj EXCEPT !.override = action, !.split = split]
    BY <1>0, <1>1, <1>6 DEF Object
  <1>7. \/ Delete
        \/ \E action \in Overrides, split \in Splits \cup {NoSplit} : Override(action, split)
        \/ \E t : TargetEvent(t)
    BY DEF User, Overrides
  <1> QED
    BY <1>3, <1>4, <1>5, <1>6, <1>7

LEMMA DeletingStep == LoopInv /\ DeletingInv /\ [Next]_vars => DeletingInv'
  <1> SUFFICES ASSUME LoopInv, DeletingInv, [Next]_vars
               PROVE  DeletingInv'
    OBVIOUS
  <1>0. /\ obj \in Object /\ cache \in Object /\ inst \in Object /\ TypeOK
        /\ DeletionWork /\ DeletionKnown
    BY Copies DEF DeletingInv, LoopInv
  <1>a. edits > 0 => edits' > 0
    BY <1>0, Counters
  <1>1. CASE Worker
    BY <1>1, KnownByWorker, DeletionByWorker DEF DeletingInv, DeletionWorked
  <1>2. CASE Sync
    BY <1>0, <1>2 DEF Sync, DeletingInv, DeletionKnown, DeletionWork, worker, users
  <1>3. CASE IntervalElapses
    <2> DEFINE elapsed(x) == [x EXCEPT !.status.last = IF @ = "recent" THEN "elapsed" ELSE @]
    <2>1. ASSUME NEW x \in Object
          PROVE  /\ Lifetime(elapsed(x)) = Lifetime(x)
                 /\ elapsed(x).status.completed = x.status.completed
      BY DEF Object, Status, Lifetime
    <2>2. /\ pc = "idle" /\ obj' = elapsed(obj) /\ cache' = elapsed(cache)
          /\ UNCHANGED <<worker, edits>>
      BY <1>3 DEF IntervalElapses, users
    <2> HIDE DEF elapsed
    <2>3. /\ Lifetime(obj') = Lifetime(obj) /\ Lifetime(cache') = Lifetime(cache)
          /\ obj'.status.completed = obj.status.completed
          /\ cache'.status.completed = cache.status.completed
      BY <1>0, <2>1, <2>2
    <2> QED
      BY <1>0, <2>2, <2>3 DEF DeletingInv, DeletionKnown, DeletionWork, Lifetime, worker
  <1>4. ASSUME NEW new, UserChange(new), User
        PROVE  DeletingInv'
    <2>1. /\ edits' = edits + 1 /\ cache' = cache /\ ~current' /\ edits \in Nat
          /\ UNCHANGED <<pc, inst, finalizing>>
      BY <1>0, <1>4, Counters DEF UserChange, Store
    <2>2. /\ obj'.status = obj.status /\ (obj.deleting => obj'.deleting)
          /\ (~obj'.exists => obj'.deleting)
      BY <1>0, <1>4, UserWrites DEF DeletionKnown
    <2> QED
      BY <1>0, <2>1, <2>2 DEF DeletingInv, DeletionKnown, DeletionWork
  <1>5. CASE Crash
    <2>1. cache' = obj /\ obj' = obj /\ edits' = edits /\ Return
      BY <1>5 DEF Crash, users
    <2> QED
      BY <1>0, <2>1, DeletionReturn DEF DeletingInv, DeletionKnown, DeletionWorked
  <1>6. CASE TimerFires \/ (\E t : TargetEvent(t)) \/ UNCHANGED vars
    <2>1. UNCHANGED <<store, worker, edits>>
      BY <1>6 DEF TimerFires, TargetEvent, vars, users
    <2> QED
      BY <1>0, <2>1 DEF DeletingInv, DeletionKnown, DeletionWork, store, worker
  <1>7. User => (\E new : UserChange(new)) \/ (\E t : TargetEvent(t))
    BY DEF User, Override, Delete
  <1> QED
    BY <1>1, <1>2, <1>3, <1>4, <1>5, <1>6, <1>7 DEF Next

LEMMA DeletingInit == Init => DeletingInv
  <1> SUFFICES ASSUME Init
               PROVE  DeletingInv
    OBVIOUS
  <1>1. obj.exists /\ ~obj.deleting /\ cache = obj /\ ~obj.status.completed
    <2>1. PICK valid \in Validity : obj = [NewObject EXCEPT !.valid = valid]
      BY DEF Init
    <2>2. obj.exists = NewObject.exists /\ obj.deleting = NewObject.deleting
          /\ obj.status = NewObject.status /\ cache = obj
      BY <2>1, NewType DEF Init, Object
    <2>3. NewObject.exists /\ ~NewObject.deleting /\ NewObject.status = EmptyStatus
      BY DEF NewObject
    <2>4. EmptyStatus.completed = FALSE
      BY DEF EmptyStatus
    <2> QED
      BY <2>2, <2>3, <2>4
  <1>2. pc = "idle" /\ ~finalizing
    BY DEF Init
  <1> QED
    BY <1>1, <1>2 DEF DeletingInv, DeletionKnown, DeletionWork

-----------------------------------------------------------------------------
\* No command but one that deletes the experiment was given.
Uncommanded == edits = 0 \/ (edits = 1 /\ obj.deleting)

Plain(x) == x.exists => x.override = "none" /\ x.split = NoSplit

\* The calls made on the copy as it was read.
Reading == {"initStatus", "finalizer", "decide", "metrics", "metricsUpdate"}

\* Until a command is given no copy that was read has one, and the pass that
\* follows up on a command is not entered.
NoCommand ==
    /\ Plain(obj) /\ Plain(cache)
    /\ pc \in Reading => Plain(inst)
    /\ pc \notin {"pause", "resume"}
    /\ pc = "metricsUpdate" => inst.metrics

PlainInv == Uncommanded => NoCommand

\* The only edit is the deletion.
LEMMA UncommandedStep ==
    ASSUME LoopInv, DeletingInv, [Next]_vars, Uncommanded'
    PROVE  /\ Uncommanded
           /\ \A new : UserChange(new) =>
                  /\ new = [obj EXCEPT !.deleting = TRUE, !.exists = obj.finalizer]
                  /\ obj.exists /\ ~obj.deleting
  <1>0. TypeOK /\ obj \in Object /\ edits \in Nat /\ (obj.deleting => edits > 0)
    BY Counters DEF LoopInv, TypeOK, DeletingInv, DeletionKnown
  <1>1. ASSUME NEW new, UserChange(new)
        PROVE  /\ edits = 0 /\ obj.exists /\ ~obj.deleting
               /\ new = [obj EXCEPT !.deleting = TRUE, !.exists = obj.finalizer]
    <2>1. edits' = edits + 1 /\ obj' = new
      BY <1>1 DEF UserChange, Store
    <2>2. edits = 0 /\ new.deleting
      BY <1>0, <2>1 DEF Uncommanded
    <2>3. ~obj.deleting
      BY <1>0, <2>2
    <2>4. User
      BY <1>0, <2>1, Counters
    <2> QED
      BY <1>0, <1>1, <2>1, <2>2, <2>3, <2>4, UserWrites
  <1>2. CASE edits' = edits
    <2>1. obj'.deleting = obj.deleting
      <3>1. CASE Worker
        BY <3>1, LifetimeWritten
      <3>2. CASE IntervalElapses
        BY <1>0, <3>2 DEF IntervalElapses, Object
      <3>3. CASE Sync \/ TimerFires \/ Crash \/ (\E t : TargetEvent(t)) \/ UNCHANGED vars
        BY <3>3 DEF Sync, TimerFires, Crash, TargetEvent, store, vars
      <3>4. ~(\E new : UserChange(new))
        BY <1>0, <1>2 DEF UserChange
      <3>5. User => (\E new : UserChange(new)) \/ (\E t : TargetEvent(t))
        BY DEF User, Override, Delete
      <3> QED
        BY <3>1, <3>2, <3>3, <3>4, <3>5 DEF Next
    <2> QED
      BY <1>1, <1>2, <2>1 DEF Uncommanded
  <1>3. CASE edits' # edits
    <2>1. PICK new : UserChange(new)
      BY <1>0, <1>3, Counters
    <2> QED
      BY <1>1, <2>1 DEF Uncommanded
  <1> QED
    BY <1>1, <1>2, <1>3

LEMMA PlainCopies ==
    ASSUME NEW x \in Object, Plain(x)
    PROVE  /\ Plain(InitStatus(x))
           /\ Plain([x EXCEPT !.finalizer = TRUE])
           /\ x.exists => Plain([x EXCEPT !.deleting = TRUE, !.exists = x.finalizer])
           /\ Plain([x EXCEPT !.metrics = TRUE]) /\ [x EXCEPT !.metrics = TRUE].metrics
           /\ \A status : Plain([x EXCEPT !.status = status])
  BY DEF Plain, InitStatus, Object

\* What the worker writes before a command is given has none.
LEMMA PlainWrites ==
    ASSUME LoopInv, DeletingInv, NoCommand, Worker
    PROVE  Plain(obj') /\ cache' = cache
  <1>0. obj \in Object /\ cache \in Object /\ inst \in Object /\ Plain(obj)
    BY Copies DEF NoCommand
  <1>1. CASE addFinalizerIfAbsent
    <2> DEFINE y == [inst EXCEPT !.finalizer = TRUE]
    <2>1. y \in Object /\ Plain(y)
      BY <1>0, <1>1, PlainCopies DEF Object, addFinalizerIfAbsent, NoCommand, Reading
    <2>2. PICK a \in {"ok", "conflict", "error"} : UpdateObject(a, y)
      BY <1>1 DEF addFinalizerIfAbsent
    <2> HIDE DEF y
    <2>3. obj' = [y EXCEPT !.status = obj.status] \/ obj' = obj
      BY <2>2 DEF UpdateObject, Store, store
    <2> QED
      BY <1>0, <1>1, <2>1, <2>3, PlainCopies, LifetimeWritten
  <1>2. CASE WriteMetrics
    <2>1. Plain(inst)
      BY <1>2 DEF WriteMetrics, NoCommand, Reading
    <2>2. obj' = [inst EXCEPT !.status = obj.status] \/ obj' = obj
      BY <1>2 DEF WriteMetrics, UpdateObject, Store, store
    <2> QED
      BY <1>0, <1>2, <2>1, <2>2, PlainCopies, LifetimeWritten
  <1>3. CASE Pause \/ Resume
    BY <1>3 DEF Pause, Resume, NoCommand
  <1>4. CASE RemoveFinalizer
    <2>1. PICK a \in {"ok", "conflict", "error"} :
             UpdateObject(a, [inst EXCEPT !.finalizer = FALSE, !.exists = FALSE])
      BY <1>4 DEF RemoveFinalizer
    <2>2. \/ obj' = [[inst EXCEPT !.finalizer = FALSE, !.exists = FALSE]
                        EXCEPT !.status = obj.status]
          \/ obj' = obj
      BY <2>1 DEF UpdateObject, Store, store
    <2>3. obj' = obj \/ ~obj'.exists
      BY <1>0, <2>2 DEF Object
    <2> QED
      BY <1>0, <1>4, <2>3, LifetimeWritten DEF Plain
  <1>5. CASE StatusWriter
    <2>1. obj' = obj \/ obj' = [obj EXCEPT !.status = inst.status]
      BY <1>5 DEF StatusWriter, WriteInitStatus, WriteMetricsError, EndRequest, UpdateStatus,
                  Store, store
    <2> QED
      BY <1>0, <1>5, <2>1, PlainCopies, LifetimeWritten
  <1>6. CASE \/ Get \/ Finalize \/ NotToProceed \/ Proceed \/ ReadMetrics \/ Fetch
             \/ DetectBaseline \/ UpdateBaselineVS \/ UpdateBaselineDR \/ DetectCandidates
             \/ UpdateCandidatesVS \/ UpdateCandidatesDR \/ ShiftTraffic \/ Iterate
             \/ UpdateTrafficVS \/ Finish \/ Complete \/ StableVS \/ StableDR
    <2>1. UNCHANGED store
      BY <1>6
         DEF Get, Finalize, NotToProceed, Proceed, ReadMetrics, Fetch, DetectBaseline,
             UpdateBaselineVS, UpdateBaselineDR, DetectCandidates, UpdateCandidatesVS,
             UpdateCandidatesDR, ShiftTraffic, Iterate, UpdateTrafficVS, Finish, Complete,
             StableVS, StableDR
    <2> QED
      BY <1>0, <2>1 DEF store
  <1> QED
    BY <1>1, <1>2, <1>3, <1>4, <1>5, <1>6 DEF Worker, StatusWriter

\* The part of NoCommand on the worker.
PlainWork ==
    /\ pc \in Reading => Plain(inst)
    /\ pc \notin {"pause", "resume"}
    /\ pc = "metricsUpdate" => inst.metrics

LEMMA PlainGo ==
    ASSUME NEW next, NEW x, Goto(next, x), next \in Reading => Plain(x),
           next \notin {"pause", "resume"}, next = "metricsUpdate" => x.metrics
    PROVE  PlainWork'
  BY DEF Goto, PlainWork, Plain

LEMMA PlainByWorker ==
    ASSUME LoopInv, DeletingInv, NoCommand, Worker
    PROVE  PlainWork'
  <1>0. /\ obj \in Object /\ cache \in Object /\ inst \in Object
        /\ Plain(obj) /\ Plain(cache) /\ Plain(obj')
    BY Copies, PlainWrites DEF NoCommand
  <1>r. Return => PlainWork'
    BY DEF Return, PlainWork, Reading
  <1>1. CASE Get
    <2>1. CASE ~cache.exists
      BY <1>1, <1>r, <2>1 DEF Get
    <2>2. CASE cache.exists
      <3> DEFINE x == IF cache.status.inited THEN cache ELSE InitStatus(cache)
      <3>1. Plain(x)
        BY <1>0, PlainCopies
      <3>2. \/ \E next \in {"decide", "finalizer", "initStatus"} : Goto(next, x)
            \/ Goto("endRequest", MarkTargetsError(x, "Invalid"))
        BY <1>1, <2>2 DEF Get
      <3> HIDE DEF x
      <3> QED
        BY <3>1, <3>2, PlainGo DEF Reading
    <2> QED
      BY <2>1, <2>2
  <1>2. CASE WriteInitStatus
    <2>1. PICK a \in {"ok", "conflict", "error"} :
             \/ Return
             \/ \E next \in {"decide", "finalizer"} : Goto(next, Decoded(a, inst))
      BY <1>2 DEF WriteInitStatus, Continue
    <2>2. Plain(inst)
      BY <1>2 DEF WriteInitStatus, NoCommand, Reading
    <2>3. Plain(Decoded(a, inst))
      BY <1>0, <2>2 DEF Decoded
    <2> QED
      BY <1>r, <2>1, <2>3, PlainGo
  <1>3. CASE addFinalizerIfAbsent
    <2> DEFINE y == [inst EXCEPT !.finalizer = TRUE]
    <2>1. PICK a \in {"ok", "conflict", "error"} : Return \/ Goto("decide", Decoded(a, y))
      BY <1>3 DEF addFinalizerIfAbsent, Continue
    <2>2. Plain(y)
      BY <1>0, <1>3, PlainCopies DEF addFinalizerIfAbsent, NoCommand, Reading
    <2>3. Plain(Decoded(a, y))
      BY <1>0, <2>2 DEF Decoded
    <2> HIDE DEF y
    <2> QED
      BY <1>r, <2>1, <2>3, PlainGo
  <1>4. CASE Proceed
    <2>1. Plain(inst) /\ inst.exists
      BY <1>4 DEF Proceed, NoCommand, Reading, DeletingInv, DeletionWork
    <2>2. \E next \in {"metrics", "fetch", "endRequest"} : Goto(next, inst)
      BY <1>4, <2>1 DEF Proceed, Plain, toSyncMetrics
    <2> QED
      BY <2>1, <2>2, PlainGo
  <1>5. CASE ReadMetrics
    <2> DEFINE y == [inst EXCEPT !.metrics = TRUE]
    <2>1. Plain(y) /\ y.metrics
      BY <1>0, <1>5, PlainCopies DEF ReadMetrics, NoCommand, Reading
    <2>2. Goto("metricsUpdate", y) \/ Goto("metricsError", MarkMetricsSyncedError(inst))
      BY <1>5 DEF ReadMetrics, Continue
    <2> HIDE DEF y
    <2>3. CASE Goto("metricsUpdate", y)
      BY <2>1, <2>3, PlainGo
    <2>4. CASE Goto("metricsError", MarkMetricsSyncedError(inst))
      BY <2>4, PlainGo DEF Reading
    <2> QED
      BY <2>2, <2>3, <2>4
  <1>6. CASE Pause \/ Resume
    BY <1>6 DEF Pause, Resume, NoCommand
  <1>7. ASSUME Return \/ pc' \notin Reading \cup {"pause", "resume"}
        PROVE  PlainWork'
    BY <1>7, <1>r DEF PlainWork, Reading
  <1>8. CASE \/ NotToProceed \/ Finalize \/ WriteMetricsError \/ WriteMetrics \/ Fetch
             \/ DetectBaseline \/ UpdateBaselineVS \/ UpdateBaselineDR
    <2>1. Return \/ pc' \notin Reading \cup {"pause", "resume"}
      BY <1>8
         DEF NotToProceed, Finalize, WriteMetricsError, WriteMetrics, Fetch, DetectBaseline,
             UpdateBaselineVS, UpdateBaselineDR, TargetsError, RulesError, Continue, Fail, Goto,
             AfterDetection, Reading
    <2> QED
      BY <1>7, <2>1
  <1>9. CASE \/ DetectCandidates \/ UpdateCandidatesVS \/ UpdateCandidatesDR
             \/ ShiftTraffic \/ Iterate \/ UpdateTrafficVS
    <2>1. CASE DetectCandidates \/ UpdateCandidatesVS \/ UpdateCandidatesDR
      <3>1. pc' \notin Reading \cup {"pause", "resume"}
        BY <2>1
           DEF DetectCandidates, UpdateCandidatesVS, UpdateCandidatesDR, TargetsError,
               RulesError, Detected, Continue, Fail, Goto, AfterDetection, Reading
      <3> QED
        BY <1>7, <3>1
    <2>2. CASE ShiftTraffic \/ UpdateTrafficVS
      <3>1. pc' \notin Reading \cup {"pause", "resume"}
        BY <2>2
           DEF ShiftTraffic, UpdateTrafficVS, RulesError, IterationDone, Continue, Fail, Goto,
               Reading
      <3> QED
        BY <1>7, <3>1
    <2>3. CASE Iterate
      <3>1. ASSUME NEW r, Analyze(r)
            PROVE  pc' \in {"finish", "trafficVS", "endRequest"}
        BY <3>1 DEF Analyze, AnalyticsError, IterationDone, Continue, Fail, Goto
      <3>2. pc' \in {"finish", "trafficVS", "endRequest"}
        BY <2>3, <3>1 DEF Iterate, AnalyticsError, Fail, Goto
      <3> QED
        BY <1>7, <3>2 DEF Reading
    <2> QED
      BY <1>9, <2>1, <2>2, <2>3
  <1>10. CASE \/ Finish \/ Complete \/ StableVS \/ StableDR \/ EndRequest \/ RemoveFinalizer
    <2>1. Return \/ pc' \notin Reading \cup {"pause", "resume"}
      BY <1>10
         DEF Finish, Complete, StableVS, StableDR, EndRequest, RemoveFinalizer,
             CompletionFails, Completed, Ended, Continue, Fail, Goto, Reading
    <2> QED
      BY <1>7, <2>1
  <1> QED
    BY <1>1, <1>2, <1>3, <1>4, <1>5, <1>6, <1>8, <1>9, <1>10 DEF Worker

LEMMA PlainStep == LoopInv /\ DeletingInv /\ PlainInv /\ [Next]_vars => PlainInv'
  <1> SUFFICES ASSUME LoopInv, DeletingInv, PlainInv, [Next]_vars, Uncommanded'
               PROVE  NoCommand'
    BY DEF PlainInv
  <1>0. /\ obj \in Object /\ cache \in Object
        /\ NoCommand /\ Plain(obj) /\ Plain(cache) /\ PlainWork
        /\ NoCommand' = (Plain(obj') /\ Plain(cache') /\ PlainWork')
    BY Copies, UncommandedStep DEF PlainInv, NoCommand, PlainWork
  <1>1. CASE Worker
    BY <1>0, <1>1, PlainWrites, PlainByWorker
  <1>2. ASSUME NEW new, UserChange(new)
        PROVE  NoCommand'
    <2>1. new = [obj EXCEPT !.deleting = TRUE, !.exists = obj.finalizer] /\ obj.exists
      BY <1>2, UncommandedStep
    <2>2. Plain(new)
      BY <1>0, <2>1, PlainCopies
    <2>3. obj' = new /\ cache' = cache /\ UNCHANGED <<pc, inst>>
      BY <1>2 DEF UserChange, Store
    <2> QED
      BY <1>0, <2>2, <2>3 DEF PlainWork
  <1>3. CASE IntervalElapses
    <2> DEFINE elapsed(x) == [x EXCEPT !.status.last = IF @ = "recent" THEN "elapsed" ELSE @]
    <2>1. ASSUME NEW x \in Object, Plain(x)
          PROVE  Plain(elapsed(x))
      BY <2>1 DEF Object, Plain
    <2>2. /\ obj' = elapsed(obj) /\ cache' = elapsed(cache) /\ UNCHANGED <<pc, inst>>
      BY <1>3 DEF IntervalElapses, worker
    <2> HIDE DEF elapsed
    <2> QED
      BY <1>0, <2>1, <2>2 DEF PlainWork
  <1>4. CASE Crash
    <2>1. Return /\ obj' = obj /\ cache' = obj
      BY <1>4 DEF Crash
    <2> QED
      BY <1>0, <2>1 DEF Return, PlainWork, Reading
  <1>5. CASE Sync \/ TimerFires \/ (\E t : TargetEvent(t)) \/ UNCHANGED vars
    <2>1. obj' = obj /\ cache' \in {obj, cache} /\ UNCHANGED <<pc, inst>>
      BY <1>5 DEF Sync, TimerFires, TargetEvent, vars, store, worker
    <2> QED
      BY <1>0, <2>1 DEF PlainWork
  <1>6. User => (\E new : UserChange(new)) \/ (\E t : TargetEvent(t))
    BY DEF User, Override, Delete
  <1> QED
    BY <1>1, <1>2, <1>3, <1>4, <1>5, <1>6 DEF Next

LEMMA PlainInit == Init => PlainInv
  <1> SUFFICES ASSUME Init
               PROVE  NoCommand
    BY DEF PlainInv
  <1>1. PICK valid \in Validity : obj = [NewObject EXCEPT !.valid = valid]
    BY DEF Init
  <1>2. obj.override = NewObject.override /\ obj.split = NewObject.split
    BY <1>1, NewType DEF Object
  <1>3. NewObject.override = "none" /\ NewObject.split = NoSplit
    BY DEF NewObject
  <1>4. pc = "idle" /\ cache = obj
    BY DEF Init
  <1> QED
    BY <1>2, <1>3, <1>4 DEF NoCommand, Plain, Reading

LEMMA PlainInvariant == Spec => [](LoopInv /\ PairInv /\ DeletingInv /\ PlainInv)
  <1>1. LoopInv /\ DeletingInv /\ PlainInv /\ [Next]_vars => DeletingInv' /\ PlainInv'
    BY DeletingStep, PlainStep
  <1> QED
    BY <1>1, DeletingInit, PlainInit, PairInvariant, PTL DEF Spec

-----------------------------------------------------------------------------
\* Nothing but the deletion of the experiment disturbed the controller.  When both
\* rules are written it was not restarted between the two writes, either.
Calm == Uncommanded /\ targetEvents = 0 /\ faults = 0 /\ (RequireDR => crashes = 0)

Released == ~Owned(vs) /\ ~Owned(dr)

\* The calls after the routing rules were fetched.
Routing == {"detect", "baselineVS", "baselineDR", "candidates", "candidatesVS",
            "candidatesDR", "iterate", "trafficVS", "finish", "complete", "stableVS",
            "stableDR", "deleteVS", "deleteDR"}

\* An experiment without the finalizer was not routed yet, and it is worked on from
\* its latest version.
Unfinalized ==
    obj.exists /\ ~obj.finalizer =>
        /\ Released /\ ~obj.deleting /\ ~cache.finalizer /\ ~obj.status.completed
        /\ pc \in Started
        /\ pc \in {"initStatus", "finalizer"} => current
        /\ pc = "endRequest" => ~inst.status.completed
        /\ queued => synced
        /\ timer = "none" /\ ~progress

\* An experiment that is gone will not be routed again.
Gone ==
    ~obj.exists => /\ Released /\ (cache.deleting \/ ~cache.finalizer)
                   /\ inst.deleting \/ pc \in Started

\* Nor will one that is completed.
Done ==
    obj.status.completed =>
        /\ Released
        /\ queued \/ timer # "none" => cache.deleting \/ cache.status.completed
        /\ \/ pc = "idle" \/ inst.deleting
           \/ inst.status.completed /\ pc \in {"finalizer", "decide"}

\* A reconcile is all that goes on until the experiment is deleted.
Alone ==
    obj.exists /\ ~obj.deleting =>
        /\ ~event
        /\ queued => pc = "idle" /\ timer = "none"
        /\ timer # "none" => pc = "idle"

\* The calls that end the reconcile of an experiment that ends.
Ends == pc = "removeFinalizer" \/ (pc = "endRequest" /\ (finalizing \/ inst.status.completed))

\* The rules were fetched before they are used, and released at the end.
Routed == (pc \in Routing => fetched) /\ (Ends => Released)

ReleaseInv == Calm => Unfinalized /\ Gone /\ Done /\ Alone /\ Routed

\* Until it is disturbed no call of the controller fails.
LEMMA CalmStep ==
    ASSUME LoopInv, DeletingInv, [Next]_vars, Calm'
    PROVE  /\ Calm /\ faults' = 0 /\ ~CallFails /\ (RequireDR => ~Crash)
           /\ ~(\E t : TargetEvent(t))
           /\ \A new : UserChange(new) =>
                  /\ new = [obj EXCEPT !.deleting = TRUE, !.exists = obj.finalizer]
                  /\ obj.exists /\ ~obj.deleting
  BY Counters, UncommandedStep DEF Calm, LoopInv

\* Then the rules have the same role, but between two writes, and they are released
\* when they are neither initializing nor progressing.
LEMMA CalmRules ==
    ASSUME LoopInv, PairInv, Calm
    PROVE  /\ pc \notin HalfWritten => FetchAccepts(vs, dr)
           /\ pc \notin HalfWritten /\ ~(isProgressing(vs, dr) \/ isInitializing(vs, dr))
                  => Released
           /\ pc \in {"stableDR", "deleteDR"} => ~Owned(vs)
           /\ ~RequireDR => ~Owned(dr) /\ pc \notin HalfWritten
  <1>1. vs.role \in Roles /\ dr.role \in Roles
    BY DEF LoopInv, TypeOK, VirtualService, DestinationRule
  <1>2. ~RequireDR => dr.role = "absent" /\ pc \notin HalfWritten
    BY DEF PairInv
  <1>3. RequireDR /\ pc \notin HalfWritten => RolesAlike
    BY DEF PairInv, PairedRules, Calm
  <1>4. pc \in {"stableDR", "deleteDR"} => vs.role \in {"stable", "absent"}
    BY <1>2 DEF PairInv, PairedRules, Calm, HalfWritten
  <1> QED
    BY <1>1, <1>2, <1>3, <1>4
       DEF RolesAlike, FetchAccepts, isProgressing, isInitializing, HaveRole, Released, Owned, Roles

\* A reconcile that does not route the experiment takes no rule for it.
LEMMA ReleasedKept ==
    ASSUME LoopInv, Worker, Released, pc \in Ending \cup Started
    PROVE  Released'
  <1>0. vs \in VirtualService /\ dr \in DestinationRule
    BY DEF LoopInv, TypeOK
  <1>1. CASE StableVS
    <2>1. CASE vs' = AbsentVS
      BY <1>1, <2>1, RuleChanges DEF StableVS, Released, Owned, AbsentVS
    <2>2. CASE vs' = WithStable(FinalTraffic(vs, dr, inst.status.weight))
      <3>1. vs'.role = "stable"
        BY <1>0, <2>2, StableRoute
      <3> QED
        BY <1>1, <3>1 DEF StableVS, Released, Owned
    <2>3. vs' \in {vs, AbsentVS, WithStable(FinalTraffic(vs, dr, inst.status.weight))}
      BY <1>1 DEF StableVS
    <2> QED
      BY <1>1, <2>1, <2>2, <2>3 DEF StableVS, Released
  <1>2. CASE StableDR
    <2>1. AbsentDR.role = "absent" /\ WithStable(dr).role = "stable"
      BY <1>0, RuleChanges
    <2>2. vs' = vs /\ dr' \in {dr, AbsentDR, WithStable(dr)}
      BY <1>2 DEF StableDR
    <2> QED
      BY <2>1, <2>2 DEF Released, Owned
  <1>3. CASE \/ Get \/ WriteInitStatus \/ addFinalizerIfAbsent \/ Finalize \/ NotToProceed
             \/ Proceed \/ Pause \/ Resume \/ ReadMetrics \/ WriteMetricsError \/ WriteMetrics
             \/ Fetch \/ DetectBaseline \/ DetectCandidates \/ ShiftTraffic \/ Iterate
             \/ Finish \/ Complete \/ EndRequest \/ RemoveFinalizer
    <2>1. UNCHANGED rules
      BY <1>3
         DEF Get, WriteInitStatus, addFinalizerIfAbsent, Finalize, NotToProceed, Proceed,
             Pause, Resume, ReadMetrics, WriteMetricsError, WriteMetrics, Fetch,
             DetectBaseline, DetectCandidates, ShiftTraffic, Iterate, Finish, Complete,
             EndRequest, RemoveFinalizer
    <2> QED
      BY <2>1 DEF rules, Released
  <1>4. CASE \/ UpdateBaselineVS \/ UpdateBaselineDR \/ UpdateCandidatesVS
             \/ UpdateCandidatesDR \/ UpdateTrafficVS
    BY <1>4 DEF UpdateBaselineVS, UpdateBaselineDR, UpdateCandidatesVS, UpdateCandidatesDR,
                UpdateTrafficVS, Ending, Started
  <1> QED
    BY <1>1, <1>2, <1>3, <1>4 DEF Worker

\* Without failing calls only a write to an object that is gone is retried, or one
\* of a reconcile that ends the experiment; and only an iteration leaves a timer.
LEMMA QueueKept ==
    ASSUME LoopInv, DeletingInv, Worker, faults' = 0, pc # "idle"
    PROVE  /\ queued' => queued \/ ~obj.exists \/ inst.deleting
           /\ timer' # "none" =>
                  timer # "none" \/ (pc = "endRequest" /\ progress /\ ~inst.status.completed)
  <1>0. [Next]_vars /\ TypeOK /\ ~CallFails
    BY Counters DEF Next, LoopInv
  <1>1. CASE EndRequest
    BY <1>1 DEF EndRequest, Requeue, ExperimentCompleted
  <1>2. CASE addFinalizerIfAbsent
    <2>1. PICK a \in {"ok", "conflict", "error"} :
             Answer(a) /\ (Benign(a) => UNCHANGED queued) /\ UNCHANGED timer
      BY <1>2 DEF addFinalizerIfAbsent
    <2>2. a = "error" => ~obj.exists
      BY <1>0, <2>1, Answers
    <2> QED
      BY <2>1, <2>2 DEF Benign
  <1>3. CASE RemoveFinalizer
    BY <1>3 DEF RemoveFinalizer, DeletingInv, DeletionWork
  <1>4. CASE StableVS \/ StableDR
    BY <1>0, <1>4 DEF StableVS, StableDR
  <1>5. CASE \/ WriteInitStatus \/ Finalize \/ NotToProceed \/ Proceed \/ Pause \/ Resume
             \/ ReadMetrics \/ WriteMetricsError \/ WriteMetrics \/ Fetch \/ DetectBaseline
             \/ UpdateBaselineVS \/ UpdateBaselineDR \/ DetectCandidates
             \/ UpdateCandidatesVS \/ UpdateCandidatesDR \/ ShiftTraffic \/ Iterate
             \/ UpdateTrafficVS \/ Finish \/ Complete
    <2>1. UNCHANGED workqueue
      BY <1>5
         DEF WriteInitStatus, Finalize, NotToProceed, Proceed, Pause, Resume, ReadMetrics,
             WriteMetricsError, WriteMetrics, Fetch, DetectBaseline, UpdateBaselineVS,
             UpdateBaselineDR, DetectCandidates, UpdateCandidatesVS, UpdateCandidatesDR,
             ShiftTraffic, Iterate, UpdateTrafficVS, Finish, Complete
    <2> QED
      BY <2>1 DEF workqueue
  <1>6. ~Get
    BY DEF Get
  <1> QED
    BY <1>1, <1>2, <1>3, <1>4, <1>5, <1>6 DEF Worker

\* The controller's own writes do not pass the predicate of its watch.
LEMMA EventKept ==
    ASSUME LoopInv, DeletingInv, NoCommand, Worker, obj'.exists
    PROVE  obj.exists /\ (event' => event)
  <1>0. obj \in Object /\ inst \in Object /\ event \in BOOLEAN
    BY Copies DEF LoopInv, TypeOK
  <1>e. obj.exists
    BY LifetimeWritten DEF Lifetime
  <1> SUFFICES event' => event
    BY <1>e
  <1>1. ASSUME UNCHANGED store
        PROVE  event' => event
    BY <1>1 DEF store
  <1>2. ASSUME NEW new, Store(new), new.exists = obj.exists, ~AcceptsUpdate(obj, new)
        PROVE  event' => event
    BY <1>2 DEF Store
  <1>3. CASE addFinalizerIfAbsent
    <2> DEFINE y == [inst EXCEPT !.finalizer = TRUE]
    <2>1. PICK a \in {"ok", "conflict", "error"} : Answer(a) /\ UpdateObject(a, y)
      BY <1>3 DEF addFinalizerIfAbsent
    <2>2. CASE a = "ok"
      <3>1. y \in Object /\ y.finalizer /\ y.exists = inst.exists
        BY <1>0 DEF Object
      <3>2. inst.exists = TRUE /\ obj.exists = TRUE /\ ~obj.finalizer
        BY <1>0, <1>3, <1>e, <2>1, <2>2
           DEF Answer, addFinalizerIfAbsent, DeletingInv, DeletionWork, Object
      <3> HIDE DEF y
      <3>3. [y EXCEPT !.status = obj.status].finalizer
            /\ [y EXCEPT !.status = obj.status].exists = y.exists
        BY <3>1 DEF Object
      <3>4. ~AcceptsUpdate(obj, [y EXCEPT !.status = obj.status])
        BY <3>2, <3>3 DEF AcceptsUpdate
      <3>5. Store([y EXCEPT !.status = obj.status])
        BY <2>1, <2>2 DEF UpdateObject
      <3> QED
        BY <1>2, <3>1, <3>2, <3>3, <3>4, <3>5
    <2> QED
      BY <1>1, <2>1, <2>2 DEF UpdateObject
  <1>4. CASE WriteMetrics
    <2>1. PICK a \in {"ok", "conflict", "error"} : Answer(a) /\ UpdateObject(a, inst)
      BY <1>4 DEF WriteMetrics
    <2>2. CASE a = "ok"
      <3>1. /\ inst.exists = TRUE /\ obj.exists = TRUE /\ inst.deleting = obj.deleting
            /\ inst.metrics = TRUE /\ Plain(inst) /\ Plain(obj)
        BY <1>0, <1>4, <1>e, <2>1, <2>2
           DEF Answer, WriteMetrics, DeletingInv, DeletionWork, Object, NoCommand, Reading
      <3> DEFINE new == [inst EXCEPT !.status = obj.status]
      <3>2. /\ new.exists = obj.exists /\ new.deleting = obj.deleting /\ new.metrics = TRUE
            /\ new.override = obj.override /\ new.split = obj.split
        BY <1>0, <3>1 DEF Object, Plain
      <3>3. Store(new)
        BY <2>1, <2>2 DEF UpdateObject
      <3> HIDE DEF new
      <3>4. obj.metrics \in BOOLEAN
        BY <1>0 DEF Object
      <3>5. ~AcceptsUpdate(obj, new)
        BY <3>2, <3>4 DEF AcceptsUpdate
      <3> QED
        BY <1>2, <3>2, <3>3, <3>5
    <2> QED
      BY <1>1, <2>1, <2>2 DEF UpdateObject
  <1>5. CASE Pause \/ Resume
    BY <1>5 DEF Pause, Resume, NoCommand
  <1>6. CASE RemoveFinalizer
    <2>1. PICK a \in {"ok", "conflict", "error"} :
             UpdateObject(a, [inst EXCEPT !.finalizer = FALSE, !.exists = FALSE])
      BY <1>6 DEF RemoveFinalizer
    <2>2. CASE a = "ok"
      <3>1. obj' = [[inst EXCEPT !.finalizer = FALSE, !.exists = FALSE]
                       EXCEPT !.status = obj.status]
        BY <2>1, <2>2 DEF UpdateObject, Store
      <3> QED
        BY <1>0, <3>1 DEF Object
    <2> QED
      BY <1>1, <2>1, <2>2 DEF UpdateObject
  <1>7. CASE StatusWriter
    <2> DEFINE new == [obj EXCEPT !.status = inst.status]
    <2>1. /\ new.exists = obj.exists /\ new.deleting = obj.deleting /\ new.metrics = obj.metrics
          /\ new.override = obj.override /\ new.split = obj.split
      BY <1>0 DEF Object
    <2>2. UNCHANGED store \/ Store(new)
      BY <1>7 DEF StatusWriter, WriteInitStatus, WriteMetricsError, EndRequest, UpdateStatus
    <2> HIDE DEF new
    <2>3. ~AcceptsUpdate(obj, new)
      BY <2>1 DEF AcceptsUpdate
    <2> QED
      BY <1>1, <1>2, <2>1, <2>2, <2>3
  <1>8. CASE \/ Get \/ Finalize \/ NotToProceed \/ Proceed \/ ReadMetrics \/ Fetch
             \/ DetectBaseline \/ UpdateBaselineVS \/ UpdateBaselineDR \/ DetectCandidates
             \/ UpdateCandidatesVS \/ UpdateCandidatesDR \/ ShiftTraffic \/ Iterate
             \/ UpdateTrafficVS \/ Finish \/ Complete \/ StableVS \/ StableDR
    <2>1. UNCHANGED store
      BY <1>8
         DEF Get, Finalize, NotToProceed, Proceed, ReadMetrics, Fetch, DetectBaseline,
             UpdateBaselineVS, UpdateBaselineDR, DetectCandidates, UpdateCandidatesVS,
             UpdateCandidatesDR, ShiftTraffic, Iterate, UpdateTrafficVS, Finish, Complete,
             StableVS, StableDR
    <2> QED
      BY <1>1, <2>1
  <1> QED
    BY <1>e, <1>3, <1>4, <1>5, <1>6, <1>7, <1>8 DEF Worker, StatusWriter

\* What each part of ReleaseInv is proved from.
Facts ==
    /\ LoopInv /\ PairInv /\ DeletingInv /\ NoCommand /\ Calm
    /\ Unfinalized /\ Gone /\ Done /\ Alone /\ Routed

\* Which action it is, by the call to come.
LEMMA ActionAt ==
    Worker => /\ pc = "idle" => Get
              /\ pc = "initStatus" => WriteInitStatus
              /\ pc = "finalizer" => addFinalizerIfAbsent
              /\ pc = "decide" => Finalize \/ NotToProceed \/ Proceed
              /\ pc = "endRequest" => EndRequest
              /\ pc = "removeFinalizer" => RemoveFinalizer
  BY DEF Worker, Get, WriteInitStatus, addFinalizerIfAbsent, Finalize, NotToProceed, Proceed,
         Pause, Resume, ReadMetrics, WriteMetricsError, WriteMetrics, Fetch, DetectBaseline,
         UpdateBaselineVS, UpdateBaselineDR, DetectCandidates, UpdateCandidatesVS,
         UpdateCandidatesDR, ShiftTraffic, Iterate, UpdateTrafficVS, Finish, Complete,
         StableVS, StableDR, EndRequest, RemoveFinalizer

LEMMA WorkerAlone == ASSUME Facts, Worker, faults' = 0 PROVE Alone'
  <1> SUFFICES ASSUME obj'.exists, ~obj'.deleting
               PROVE  /\ ~event'
                      /\ queued' => pc' = "idle" /\ timer' = "none"
                      /\ timer' # "none" => pc' = "idle"
    BY DEF Alone
  <1>0. LoopInv /\ DeletingInv /\ NoCommand /\ Alone
    BY DEF Facts
  <1>1. obj.exists /\ ~obj.deleting /\ (event' => event)
    BY <1>0, EventKept, LifetimeWritten
  <1>2. ~event /\ (queued => pc = "idle" /\ timer = "none") /\ (timer # "none" => pc = "idle")
    BY <1>0, <1>1 DEF Alone
  <1>3. CASE Get
    BY <1>1, <1>2, <1>3 DEF Get
  <1>4. CASE pc # "idle"
    <2>1. ~inst.deleting
      BY <1>0, <1>1, <1>4 DEF DeletingInv, DeletionKnown, DeletionWork
    <2>2. ~queued'
      BY <1>0, <1>1, <1>2, <1>4, <2>1, QueueKept
    <2>3. CASE EndRequest
      <3>1. pc' = "idle"
        BY <1>0, <2>1, <2>3 DEF EndRequest, Ended, Return, DeletingInv, DeletionWork
      <3> QED
        BY <1>1, <1>2, <2>2, <3>1
    <2>4. CASE ~EndRequest
      <3>1. pc # "endRequest" \/ timer' = timer
        BY <2>4, <1>4 DEF Worker, Get, WriteInitStatus, addFinalizerIfAbsent, Finalize,
             NotToProceed, Proceed, Pause, Resume, ReadMetrics, WriteMetricsError, WriteMetrics,
             Fetch, DetectBaseline, UpdateBaselineVS, UpdateBaselineDR, DetectCandidates,
             UpdateCandidatesVS, UpdateCandidatesDR, ShiftTraffic, Iterate, UpdateTrafficVS,
             Finish, Complete, StableVS, StableDR, RemoveFinalizer
      <3> QED
        BY <1>0, <1>1, <1>2, <1>4, <2>2, <3>1, QueueKept
    <2> QED
      BY <2>3, <2>4
  <1> QED
    BY <1>3, <1>4, ActionAt DEF Started

LEMMA WorkerUnfinalized == ASSUME Facts, Worker, faults' = 0 PROVE Unfinalized'
  <1> SUFFICES ASSUME obj'.exists, ~obj'.finalizer
               PROVE  Unfinalized'
    BY DEF Unfinalized
  <1>0. /\ LoopInv /\ DeletingInv /\ Unfinalized /\ Alone /\ DeletionWork
        /\ obj \in Object /\ cache \in Object /\ inst \in Object /\ [Next]_vars
    BY Copies DEF Facts, DeletingInv, Next
  <1>1. obj.exists /\ ~obj.finalizer /\ cache' = cache /\ Lifetime(obj') = Lifetime(obj)
    <2>1. Lifetime(obj') = Lifetime(obj) /\ cache' = cache
      BY <1>0, LifetimeWritten
    <2> QED
      BY <2>1 DEF Lifetime
  <1>2. /\ Released /\ ~obj.deleting /\ ~cache.finalizer /\ ~obj.status.completed
        /\ pc \in Started
        /\ pc \in {"initStatus", "finalizer"} => current
        /\ pc = "endRequest" => ~inst.status.completed
        /\ queued => synced /\ pc = "idle"
        /\ timer = "none" /\ ~progress
    BY <1>0, <1>1 DEF Unfinalized, Alone
  <1>3. Released' /\ ~obj'.deleting /\ ~cache'.finalizer
    BY <1>0, <1>1, <1>2, ReleasedKept DEF Lifetime
  <1>4. CASE Get
    <2>1. ~queued' /\ timer' = timer /\ obj' = obj /\ cache = obj
      BY <1>0, <1>2, <1>4 DEF Get, store, LoopInv, CopyRelated, Related, StoreInv
    <2>2. cache.exists /\ ~cache.finalizer
      BY <1>1, <1>2, <2>1
    <2> DEFINE x == IF cache.status.inited THEN cache ELSE InitStatus(cache)
    <2>3. x \in Object /\ Lifetime(x) = Lifetime(cache)
      BY <1>0, InitStatusType, MarksKeepLifetime
    <2>4. ~x.status.completed
      BY <1>0, <1>2, <2>1 DEF InitStatus, Object, Status
    <2>5. ~x.finalizer /\ ~MarkTargetsError(x, "Invalid").status.completed
      BY <2>2, <2>3, <2>4 DEF Lifetime, MarkTargetsError, Object, Status
    <2>6. /\ current' = TRUE /\ progress' = progress
          /\ \/ Goto("finalizer", x)
             \/ Goto("initStatus", x)
             \/ Goto("endRequest", MarkTargetsError(x, "Invalid"))
      BY <1>2, <1>4, <2>2, <2>5 DEF Get
    <2> HIDE DEF x
    <2> QED
      BY <1>2, <1>3, <2>1, <2>5, <2>6 DEF Unfinalized, Started, Goto
  <1>5. CASE WriteInitStatus
    <2>1. current /\ pc = "initStatus" /\ ~queued /\ inst.exists /\ ~inst.finalizer
      BY <1>0, <1>1, <1>2, <1>5 DEF WriteInitStatus, DeletionWork
    <2>2. ~inst.status.completed
      BY <1>0, <2>1 DEF LoopInv, CopyRelated, Related, CopyInv, Early
    <2>3. PICK a \in {"ok", "conflict", "error"} :
             /\ Answer(a) /\ UpdateStatus(a, inst)
             /\ IF Benign(a) THEN Continue("finalizer", Decoded(a, inst)) ELSE Return
      BY <1>5, <2>1 DEF WriteInitStatus
    <2>4. a = "ok"
      BY <1>0, <1>1, <2>1, <2>3, Answers DEF LoopInv
    <2>5. obj'.status = inst.status
      BY <1>0, <2>3, <2>4 DEF UpdateStatus, Store, Object
    <2>6. pc' = "finalizer" /\ UNCHANGED <<current, progress>>
      BY <2>3, <2>4 DEF Benign, Continue, Goto, interState
    <2>7. UNCHANGED <<queued, timer>>
      BY <1>5 DEF WriteInitStatus, workqueue
    <2> QED
      BY <1>2, <1>3, <2>1, <2>2, <2>5, <2>6, <2>7 DEF Unfinalized, Started
  <1>6. CASE addFinalizerIfAbsent
    <2> DEFINE y == [inst EXCEPT !.finalizer = TRUE]
    <2>1. PICK a \in {"ok", "conflict", "error"} : Answer(a) /\ UpdateObject(a, y)
      BY <1>6 DEF addFinalizerIfAbsent
    <2>2. current
      BY <1>2, <1>6 DEF addFinalizerIfAbsent
    <2>3. a = "ok"
      BY <1>0, <1>1, <2>1, <2>2, Answers DEF LoopInv
    <2>4. y \in Object /\ y.finalizer
      BY <1>0 DEF Object
    <2> HIDE DEF y
    <2>5. obj'.finalizer
      BY <2>1, <2>3, <2>4 DEF UpdateObject, Store, Object
    <2> QED
      BY <2>5
  <1>7. CASE EndRequest
    <2>2. ~inst.deleting
      BY <1>0, <1>2, <1>7 DEF EndRequest, DeletingInv, DeletionWork, DeletionKnown
    <2>3. pc' = "idle" /\ ~progress' /\ timer' = timer /\ queued' = queued
      BY <1>0, <1>2, <1>7, <2>2 DEF EndRequest, Ended, Return, Requeue, DeletionWork
    <2>4. ~queued /\ ~inst.status.completed
      BY <1>2, <1>7 DEF EndRequest
    <2>5. ~obj'.status.completed
      <3>1. UNCHANGED store \/ \E a : UpdateStatus(a, inst)
        BY <1>7 DEF EndRequest
      <3>2. obj' = obj \/ obj' = [obj EXCEPT !.status = inst.status]
        BY <3>1 DEF UpdateStatus, Store, store
      <3> QED
        BY <1>0, <1>2, <2>4, <3>2 DEF Object
    <2> QED
      BY <1>2, <1>3, <2>3, <2>4, <2>5 DEF Unfinalized, Started
  <1> QED
    BY <1>2, <1>4, <1>5, <1>6, <1>7, ActionAt DEF Started

LEMMA WorkerGone == ASSUME Facts, Worker, faults' = 0 PROVE Gone'
  <1> SUFFICES ASSUME ~obj'.exists
               PROVE  Gone'
    BY DEF Gone
  <1>0. /\ LoopInv /\ DeletingInv /\ Gone /\ Routed /\ DeletionWork
        /\ obj \in Object /\ cache \in Object /\ inst \in Object
        /\ [Next]_vars /\ TypeOK
    BY Copies DEF Facts, DeletingInv, Next, LoopInv
  <1>1. cache' = cache
    BY <1>0, LifetimeWritten
  <1>2. CASE RemoveFinalizer
    <2>1. pc = "removeFinalizer" /\ pc' = "idle" /\ UNCHANGED rules
      BY <1>2 DEF RemoveFinalizer, Return
    <2>2. Released /\ cache.deleting
      BY <1>0, <2>1 DEF Routed, Ends, DeletionWork
    <2> QED
      BY <1>1, <2>1, <2>2 DEF Gone, Started, Released, rules
  <1>3. CASE ~RemoveFinalizer
    <2>1. ~obj.exists
      BY <1>0, <1>3, LifetimeWritten DEF Lifetime
    <2>2. Released /\ (cache.deleting \/ ~cache.finalizer) /\ (inst.deleting \/ pc \in Started)
      BY <1>0, <2>1 DEF Gone
    <2>3. pc \in Ending \cup Started
      BY <1>0, <2>2 DEF DeletionWork, Started
    <2>4. Released'
      BY <1>0, <2>2, <2>3, ReleasedKept
    <2>5. inst'.deleting \/ pc' \in Started
      <3>1. CASE pc # "idle" /\ inst.deleting
        BY <1>0, <3>1, DeletionByWorker DEF DeletionWorked, Started
      <3>2. CASE Get
        <4>1. CASE ~cache.exists
          BY <3>2, <4>1 DEF Get, Return, Started
        <4>2. CASE cache.exists
          <5> DEFINE x == IF cache.status.inited THEN cache ELSE InitStatus(cache)
          <5>1. Lifetime(x) = Lifetime(cache)
            BY <1>0, MarksKeepLifetime
          <5>2. \/ x.finalizer /\ Goto("decide", x)
                \/ pc' \in {"finalizer", "initStatus", "endRequest"}
            BY <3>2, <4>2 DEF Get, Goto
          <5> HIDE DEF x
          <5> QED
            BY <2>2, <5>1, <5>2 DEF Lifetime, Goto, Started
        <4> QED
          BY <4>1, <4>2
      <3>3. CASE WriteInitStatus \/ addFinalizerIfAbsent
        <4>1. PICK a \in {"ok", "conflict", "error"} : Answer(a) /\ (~Benign(a) => Return)
          BY <3>3 DEF WriteInitStatus, addFinalizerIfAbsent
        <4>2. a = "error"
          BY <1>0, <2>1, <4>1, Answers
        <4> QED
          BY <4>1, <4>2 DEF Benign, Return, Started
      <3>4. CASE EndRequest /\ ~inst.deleting
        <4>1. ~finalizing
          BY <1>0, <3>4 DEF DeletionWork
        <4> QED
          BY <3>4, <4>1 DEF EndRequest, Ended, Return, Started
      <3> QED
        BY <2>2, <3>1, <3>2, <3>3, <3>4, ActionAt DEF Started
    <2> QED
      BY <1>1, <2>2, <2>4, <2>5 DEF Gone
  <1> QED
    BY <1>2, <1>3

\* A step that completes the experiment is endRequest's write of a current copy.
LEMMA Completing ==
    ASSUME LoopInv, [Next]_vars, obj'.status.completed, ~obj.status.completed
    PROVE  current /\ obj.exists /\ pc = "endRequest" /\ inst.status.completed
  <1>1. CASE obj'.status = [obj.status EXCEPT !.last = "elapsed"]
    BY <1>1, Copies DEF Object, Status
  <1>2. CASE /\ current /\ obj.exists /\ pc \in {"initStatus", "metricsError", "endRequest"}
             /\ obj'.status = inst.status
    BY <1>2 DEF LoopInv, CopyRelated, Related, CopyInv, Early
  <1> QED
    BY <1>1, <1>2, StatusChanges

LEMMA WorkerDone == ASSUME Facts, Worker, faults' = 0 PROVE Done'
  <1> SUFFICES ASSUME obj'.status.completed
               PROVE  Done'
    BY DEF Done
  <1>0. /\ LoopInv /\ DeletingInv /\ Done /\ Alone /\ Routed /\ DeletionWork /\ DeletionKnown
        /\ obj \in Object /\ cache \in Object /\ inst \in Object
        /\ [Next]_vars /\ TypeOK
    BY Copies DEF Facts, DeletingInv, Next, LoopInv
  <1>1. cache' = cache
    BY <1>0, LifetimeWritten
  <1>2. CASE ~obj.status.completed
    <2>1. current /\ obj.exists /\ pc = "endRequest" /\ inst.status.completed
      BY <1>0, <1>2, Completing
    <2>2. EndRequest /\ Released
      BY <1>0, <2>1, ActionAt DEF Routed, Ends
    <2>3. UNCHANGED <<rules, queued>> /\ timer' = timer
      BY <2>1, <2>2 DEF EndRequest, Requeue, ExperimentCompleted
    <2>4. inst.deleting = obj.deleting /\ (inst.deleting => cache.deleting)
      BY <1>0, <2>1 DEF DeletionWork
    <2>5. ~obj.deleting => ~queued /\ timer = "none"
      BY <1>0, <2>1 DEF Alone
    <2>6. pc' = "idle" \/ inst'.deleting
      <3>1. CASE finalizing
        BY <1>0, <2>1, <3>1, DeletionByWorker DEF DeletionWorked, DeletionWork
      <3>2. CASE ~finalizing
        BY <2>2, <3>2 DEF EndRequest, Ended, Return
      <3> QED
        BY <3>1, <3>2
    <2> QED
      BY <1>1, <2>2, <2>3, <2>4, <2>5, <2>6 DEF Done, Released, rules
  <1>3. CASE obj.status.completed
    <2>1. /\ Released
          /\ queued \/ timer # "none" => cache.deleting \/ cache.status.completed
          /\ \/ pc = "idle" \/ inst.deleting
             \/ inst.status.completed /\ pc \in {"finalizer", "decide"}
      BY <1>0, <1>3 DEF Done
    <2>2. Released'
      BY <1>0, <2>1, ReleasedKept DEF DeletionWork, Ending, Started
    <2>3. CASE Get
      <3>1. pc = "idle" /\ queued /\ ~queued' /\ timer' = timer
        BY <2>3 DEF Get
      <3>2. cache.deleting \/ cache.status.completed
        BY <2>1, <3>1
      <3>3. CASE ~cache.exists
        BY <1>1, <2>1, <2>2, <2>3, <3>1, <3>3 DEF Get, Return, Done
      <3>4. CASE cache.exists /\ cache.status.inited
        <4>1. Goto("decide", cache) \/ Goto("finalizer", cache)
          BY <2>3, <3>4 DEF Get
        <4> QED
          BY <1>1, <2>1, <2>2, <3>1, <3>2, <4>1 DEF Done, Goto
      <3>5. CASE cache.exists /\ ~cache.status.inited
        <4>1. ~cache.status.completed
          BY <1>0, <3>5 DEF LoopInv, CopyRelated, Related, StoreInv, StatusOK
        <4> DEFINE x == InitStatus(cache)
        <4>2. x \in Object /\ Lifetime(x) = Lifetime(cache)
          BY <1>0, InitStatusType, MarksKeepLifetime
        <4>3. Lifetime(MarkTargetsError(x, "Invalid")) = Lifetime(cache)
          BY <4>2, MarksKeepLifetime
        <4>4. inst' \in {x, MarkTargetsError(x, "Invalid")}
          BY <2>3, <3>5 DEF Get, Goto
        <4> HIDE DEF x
        <4>5. inst'.deleting
          BY <3>2, <4>1, <4>2, <4>3, <4>4 DEF Lifetime
        <4> QED
          BY <1>1, <2>1, <2>2, <3>1, <4>5 DEF Done
      <3> QED
        BY <3>3, <3>4, <3>5
    <2>4. CASE pc # "idle" /\ inst.deleting
      <3>1. cache.deleting
        BY <1>0, <2>4 DEF DeletionWork
      <3>2. pc' = "idle" \/ inst'.deleting
        BY <1>0, <2>4, DeletionByWorker DEF DeletionWorked
      <3> QED
        BY <1>1, <2>2, <3>1, <3>2 DEF Done
    <2>5. CASE pc # "idle" /\ ~inst.deleting
      <3>1. inst.status.completed /\ pc \in {"finalizer", "decide"}
        BY <2>1, <2>5
      <3>2. cache.status.completed
        BY <1>0, <3>1 DEF DeletionWork
      <3>3. CASE pc = "finalizer"
        <4>1. addFinalizerIfAbsent
          BY <3>3, ActionAt
        <4> DEFINE y == [inst EXCEPT !.finalizer = TRUE]
        <4>2. PICK a \in {"ok", "conflict", "error"} :
                 UpdateObject(a, y) /\ (Return \/ Goto("decide", Decoded(a, y)))
          BY <4>1 DEF addFinalizerIfAbsent, Continue
        <4>3. y.status.completed
          BY <1>0, <3>1 DEF Object
        <4> HIDE DEF y
        <4>4. Decoded(a, y).status.completed
          BY <4>3 DEF Decoded
        <4> QED
          BY <1>1, <2>2, <3>2, <4>2, <4>4 DEF Done, Return, Goto
      <3>4. CASE pc = "decide"
        <4>1. NotToProceed
          BY <2>5, <3>1, <3>4, ActionAt DEF Finalize, Proceed, ExperimentCompleted
        <4> QED
          BY <1>1, <2>2, <3>2, <4>1 DEF NotToProceed, Return, Done
      <3> QED
        BY <3>1, <3>3, <3>4
    <2> QED
      BY <2>3, <2>4, <2>5, ActionAt
  <1> QED
    BY <1>2, <1>3

LEMMA EndsNot ==
    ASSUME NEW x, ~x.status.completed, Goto("endRequest", x), ~finalizing'
    PROVE  ~Ends'
  BY DEF Goto, Ends

LEMMA ActiveFail ==
    ASSUME LoopInv, DeletingInv, pc \notin Started, pc # "decide", pc # "removeFinalizer"
    PROVE  /\ Derived(inst) /\ ~inst.status.completed /\ inst \in Object
           /\ inst.deleting \/ ~finalizing
           /\ pc \notin Ending => ~finalizing
           /\ pc = "finish" /\ ~toComplete(inst) => ~finalizing
  BY WorkingCopy, Copies DEF Working, Early, Started, Derived, DeletingInv, DeletionWork, toComplete

LEMMA WorkerRouted ==
    ASSUME Facts, Worker, faults' = 0
    PROVE  Routed'
  <1>0. /\ LoopInv /\ PairInv /\ DeletingInv /\ NoCommand /\ Calm /\ Done /\ Routed
        /\ DeletionWork /\ DeletionKnown
        /\ obj \in Object /\ cache \in Object /\ inst \in Object
        /\ ~CallFails
    BY Copies, Counters DEF Facts, DeletingInv, Next, LoopInv
  <1>1. ASSUME pc' \notin Routing \cup {"endRequest", "removeFinalizer"}
        PROVE  Routed'
    BY <1>1 DEF Routed, Ends
  <1>2. ASSUME NEW x, ~x.status.completed, Goto("endRequest", x), finalizing' = finalizing,
               ~finalizing
        PROVE  Routed'
    BY <1>2, EndsNot DEF Goto, Routed, Routing
  <1>3. ASSUME pc \in Routing, fetched' = fetched, pc' \in Routing
        PROVE  Routed'
    BY <1>0, <1>3 DEF Routed, Ends, Routing
  <1>r. Return => Routed'
    BY DEF Return, Routed, Ends, Routing
  <1>4. CASE Get
    <2>1. ~finalizing
      BY <1>0, <1>4 DEF Get, LoopInv, CopyRelated, Related, IdleInv
    <2>2. CASE ~cache.exists
      BY <1>4, <1>r, <2>2 DEF Get
    <2>3. CASE cache.exists /\ pc' \in {"decide", "finalizer", "initStatus"}
      BY <1>1, <2>3 DEF Routing
    <2>4. CASE cache.exists /\ ~cache.status.inited
               /\ Goto("endRequest", MarkTargetsError(InitStatus(cache), "Invalid"))
      <3>1. ~cache.status.completed
        BY <1>0, <2>4 DEF LoopInv, CopyRelated, Related, StoreInv, StatusOK
      <3>2. ~MarkTargetsError(InitStatus(cache), "Invalid").status.completed
        BY <1>0, <3>1, InitStatusType DEF MarkTargetsError, InitStatus, Object, Status
      <3>3. finalizing' = finalizing
        BY <1>4, <2>4 DEF Get
      <3> QED
        BY <1>2, <2>1, <2>4, <3>2, <3>3
    <2> QED
      BY <1>4, <2>2, <2>3, <2>4 DEF Get, Goto
  <1>5. CASE \/ WriteInitStatus \/ addFinalizerIfAbsent \/ NotToProceed \/ RemoveFinalizer
             \/ ReadMetrics
    <2>1. Return \/ pc' \notin Routing \cup {"endRequest", "removeFinalizer"}
      BY <1>5
         DEF WriteInitStatus, addFinalizerIfAbsent, NotToProceed, RemoveFinalizer, ReadMetrics,
             Continue, Goto, Routing
    <2> QED
      BY <1>1, <1>r, <2>1
  <1>6. CASE Finalize
    <2>1. CASE inst.status.completed
      <3>1. UNCHANGED rules /\ pc' = "removeFinalizer"
        BY <1>6, <2>1 DEF Finalize, ExperimentCompleted, Continue, Goto
      <3>2. Released
        BY <1>0, <1>6, <2>1 DEF Finalize, DeletionWork, DeletionKnown, Done
      <3> QED
        BY <3>1, <3>2 DEF Routed, Routing, Released, rules
    <2>2. CASE ~inst.status.completed
      <3>1. pc' = "fetch"
        BY <1>6, <2>2 DEF Finalize, ExperimentCompleted, Goto
      <3> QED
        BY <1>1, <3>1 DEF Routing
    <2> QED
      BY <2>1, <2>2
  <1>7. CASE Proceed
    <2>1. ~finalizing /\ finalizing' = finalizing /\ ~inst.status.completed
      BY <1>0, <1>7 DEF Proceed, ExperimentCompleted, DeletionWork
    <2>2. \/ Goto("endRequest", inst)
          \/ pc' \in {"metrics", "fetch", "pause", "resume"}
      BY <1>7 DEF Proceed, toSyncMetrics, Goto
    <2> QED
      BY <1>1, <1>2, <2>1, <2>2 DEF Routing
  <1>8. CASE Pause \/ Resume
    BY <1>0, <1>8 DEF Pause, Resume, NoCommand
  <1>9. CASE WriteMetricsError \/ WriteMetrics
    <2>1. pc \in {"metricsError", "metricsUpdate"} /\ finalizing' = finalizing
      BY <1>9 DEF WriteMetricsError, WriteMetrics, Fail
    <2>2. ~finalizing /\ ~inst.status.completed
      BY <1>0, <2>1, ActiveFail DEF Started, Ending
    <2>3. CASE pc' = "fetch"
      BY <1>1, <2>3 DEF Routing
    <2>4. CASE Goto("endRequest", inst)
      BY <1>2, <2>1, <2>2, <2>4
    <2>5. ASSUME NEW a, Answer(a), UpdateStatus(a, inst), Goto("endRequest", Decoded(a, inst))
          PROVE  Routed'
      <3>1. Decoded(a, inst).status = inst.status
        BY <1>0, <2>1, <2>5, AnsweredLifetime
      <3> QED
        BY <1>2, <2>1, <2>2, <2>5, <3>1
    <2> QED
      BY <1>9, <2>3, <2>4, <2>5 DEF WriteMetricsError, WriteMetrics, Fail, Goto
  <1>10. CASE Fetch
    <2>1. FetchAccepts(vs, dr)
      BY <1>0, <1>10, CalmRules DEF Fetch, HalfWritten
    <2>2. fetched' /\ pc' \in {"detect", "iterate", "finish"}
      BY <1>0, <1>10, <2>1 DEF Fetch, AfterDetection, Goto
    <2> QED
      BY <2>2 DEF Routed, Ends, Routing
  <1>11. CASE \/ DetectBaseline \/ UpdateBaselineVS \/ UpdateBaselineDR \/ DetectCandidates
              \/ UpdateCandidatesVS \/ UpdateCandidatesDR \/ UpdateTrafficVS
    <2>1. pc \in Routing \ Ending /\ pc \notin Started \cup {"decide", "removeFinalizer"}
      BY <1>11
         DEF DetectBaseline, UpdateBaselineVS, UpdateBaselineDR, DetectCandidates,
             UpdateCandidatesVS, UpdateCandidatesDR, UpdateTrafficVS, Routing, Ending, Started
    <2>2. ~finalizing /\ Derived(inst)
      BY <1>0, <2>1, ActiveFail
    <2>3. finalizing' = finalizing /\ fetched' = fetched
      BY <1>11
         DEF DetectBaseline, UpdateBaselineVS, UpdateBaselineDR, DetectCandidates,
             UpdateCandidatesVS, UpdateCandidatesDR, UpdateTrafficVS, TargetsError, RulesError,
             Detected, IterationDone, Continue, Fail
    <2>4. \/ pc' \in Routing
          \/ Goto("endRequest", MarkRoutingRulesError(inst))
          \/ \E reason : Goto("endRequest", MarkTargetsError(inst, reason))
      <3>1. CASE DetectBaseline \/ UpdateBaselineVS \/ UpdateBaselineDR
        BY <3>1 DEF DetectBaseline, UpdateBaselineVS, UpdateBaselineDR, TargetsError,
                    RulesError, Continue, Fail, Goto, Routing
      <3>2. CASE DetectCandidates \/ UpdateCandidatesVS \/ UpdateCandidatesDR
        BY <3>2 DEF DetectCandidates, UpdateCandidatesVS, UpdateCandidatesDR, TargetsError,
                    RulesError, Detected, AfterDetection, Continue, Fail, Goto, Routing
      <3>3. CASE UpdateTrafficVS
        BY <3>3 DEF UpdateTrafficVS, RulesError, IterationDone, Fail, Goto, Routing
      <3> QED
        BY <1>11, <3>1, <3>2, <3>3
    <2>5. ~MarkRoutingRulesError(inst).status.completed
          /\ \A reason : ~MarkTargetsError(inst, reason).status.completed
      BY <1>0, <2>2, MarksDerived DEF Derived
    <2> QED
      BY <1>2, <1>3, <2>1, <2>2, <2>3, <2>4, <2>5
  <1>12. CASE ShiftTraffic
    <2>1. pc \in Routing /\ fetched' = fetched /\ pc' \in Routing
      BY <1>12 DEF ShiftTraffic, IterationDone, Continue, Goto, Routing
    <2> QED
      BY <1>3, <2>1
  <1>13. CASE Iterate
    <2>1. pc = "iterate" /\ ~finalizing /\ Derived(inst)
      BY <1>0, <1>13, ActiveFail DEF Iterate, Ending, Started
    <2>2. ASSUME NEW r \in Responses, Analyze(r)
          PROVE  Routed'
      <3>1. /\ finalizing' = finalizing /\ fetched' = fetched
            /\ pc' \in {"finish", "trafficVS", "endRequest"}
        BY <2>2 DEF Analyze, AnalyticsError, IterationDone, Continue, Fail, Goto
      <3>2. CASE pc' \in {"finish", "trafficVS"}
        BY <1>3, <2>1, <3>1, <3>2 DEF Routing
      <3>3. CASE pc' = "endRequest"
        <4> DEFINE assessed == [inst EXCEPT !.status.winner = r.winner,
                                            !.status.phase = "Progressing",
                                            !.status.completed = FALSE]
                   weight == [v \in Versions |->
                                IF v \notin r.covered THEN inst.status.weight[v]
                                ELSE IF v \in r.rollback THEN 0 ELSE r.split[v]]
                   x == [assessed EXCEPT !.status.weight = weight]
        <4>1. AnalyticsError(x, TRUE)
          BY <2>2, <3>3 DEF Analyze, IterationDone, Continue, Goto, assessed, weight
        <4>2. r \in Response
          BY EnvironmentAssumption
        <4>3. assessed \in Object /\ ~assessed.status.completed
          BY <1>0, <4>2 DEF Response, Object, Status, Phases
        <4>4. weight \in Traffic
          BY <1>0, <4>2 DEF Response, Traffic, Object, Status
        <4> HIDE DEF weight, assessed
        <4>5. x \in Object /\ ~x.status.completed
          BY <4>3, <4>4, WeightType DEF Object, Status
        <4> HIDE DEF x
        <4>6. ~MarkAnalyticsServiceError(x).status.completed
          BY <4>5 DEF MarkAnalyticsServiceError, Object, Status
        <4> QED
          BY <1>2, <2>1, <3>1, <4>1, <4>6 DEF AnalyticsError, Fail
      <3> QED
        BY <3>1, <3>2, <3>3
    <2> QED
      BY <1>0, <1>13, <2>2 DEF Iterate
  <1>14. CASE Finish
    <2>1. pc = "finish" /\ ~inst.status.completed /\ (~toComplete(inst) => ~finalizing)
      BY <1>0, <1>14, ActiveFail DEF Finish, Started
    <2>2. finalizing' = finalizing /\ fetched' = fetched
      BY <1>14 DEF Finish, Continue, Fail
    <2>3. CASE toComplete(inst)
      <3>1. pc' = "complete"
        BY <1>14, <2>3 DEF Finish, Continue, Goto
      <3> QED
        BY <1>3, <2>1, <2>2, <3>1 DEF Routing
    <2>4. CASE ~toComplete(inst)
      <3>1. \/ Goto("endRequest", inst)
            \/ Goto("endRequest", [inst EXCEPT !.status.iteration = @ + 1])
        BY <1>14, <2>4 DEF Finish, Continue, Fail
      <3>2. ~[inst EXCEPT !.status.iteration = @ + 1].status.completed
        BY <1>0, <2>1 DEF Object, Status
      <3> QED
        BY <1>2, <2>1, <2>2, <2>4, <3>1, <3>2
    <2> QED
      BY <2>3, <2>4
  <1>15. CASE Complete
    <2>1. pc = "complete" /\ fetched /\ UNCHANGED rules
      BY <1>0, <1>15 DEF Complete, Routed, Routing
    <2>2. CASE NoOpInUpdateRouteToStable
      <3>1. Released
        BY <1>0, <2>1, <2>2, CalmRules DEF NoOpInUpdateRouteToStable, HalfWritten
      <3>2. pc' = "endRequest"
        BY <1>15, <2>2 DEF Complete, Completed, Fail, Goto
      <3> QED
        BY <2>1, <3>1, <3>2 DEF Routed, Routing, Released, rules
    <2>3. CASE ~NoOpInUpdateRouteToStable
      <3>1. pc' \in {"deleteVS", "stableVS"} /\ fetched' = fetched
        BY <1>15, <2>3 DEF Complete, Continue, Goto
      <3> QED
        BY <1>3, <2>1, <3>1 DEF Routing
    <2> QED
      BY <2>2, <2>3
  <1>16. CASE StableVS
    <2>1. /\ pc \in {"stableVS", "deleteVS"} /\ dr' = dr
          /\ vs' = IF pc = "deleteVS" THEN AbsentVS
                   ELSE WithStable(FinalTraffic(vs, dr, inst.status.weight))
      BY <1>0, <1>16 DEF StableVS
    <2>2. CASE RequireDR
      <3>1. pc' \in {"stableDR", "deleteDR"} /\ fetched' = fetched
        BY <1>0, <1>16, <2>2 DEF StableVS, Continue, Goto
      <3> QED
        BY <1>3, <2>1, <3>1 DEF Routing
    <2>3. CASE ~RequireDR
      <3>1. pc' = "endRequest"
        BY <1>0, <1>16, <2>3 DEF StableVS, Completed, Fail, Goto
      <3>2. ~Owned(dr)
        BY <1>0, <2>3, CalmRules
      <3>3. vs'.role \in {"absent", "stable"}
        <4>1. vs \in VirtualService
          BY <1>0 DEF LoopInv, TypeOK
        <4>2. /\ WithStable(FinalTraffic(vs, dr, inst.status.weight)).role = "stable"
              /\ AbsentVS.role = "absent"
          BY <4>1, StableRoute DEF AbsentVS
        <4> QED
          BY <2>1, <4>2
      <3> QED
        BY <2>1, <3>1, <3>2, <3>3 DEF Routed, Routing, Released, Owned
    <2> QED
      BY <2>2, <2>3
  <1>17. CASE StableDR
    <2>1. /\ pc \in {"stableDR", "deleteDR"} /\ vs' = vs /\ pc' = "endRequest"
          /\ dr' = IF pc = "deleteDR" THEN AbsentDR ELSE WithStable(dr)
      BY <1>0, <1>17 DEF StableDR, Completed, Fail, Goto
    <2>2. ~Owned(vs)
      BY <1>0, <2>1, CalmRules
    <2>3. AbsentDR.role = "absent" /\ WithStable(dr).role = "stable"
      BY <1>0 DEF LoopInv, TypeOK, AbsentDR, WithStable, DestinationRule
    <2> QED
      BY <2>1, <2>2, <2>3 DEF Routed, Routing, Released, Owned
  <1>18. CASE EndRequest
    <2>1. pc = "endRequest" /\ UNCHANGED rules
      BY <1>18 DEF EndRequest
    <2>2. CASE finalizing
      <3>1. pc' = "removeFinalizer"
        BY <1>18, <2>2 DEF EndRequest, Ended, Continue, Goto
      <3>2. Released
        BY <1>0, <2>1, <2>2 DEF Routed, Ends
      <3> QED
        BY <2>1, <3>1, <3>2 DEF Routed, Routing, Released, rules
    <2>3. CASE ~finalizing
      BY <1>18, <1>r, <2>3 DEF EndRequest, Ended
    <2> QED
      BY <2>2, <2>3
  <1> QED
    BY <1>4, <1>5, <1>6, <1>7, <1>8, <1>9, <1>10, <1>11, <1>12, <1>13, <1>14, <1>15, <1>16,
       <1>17, <1>18 DEF Worker

\* The environment's steps.
LEMMA ReleaseByEnvironment ==
    ASSUME Facts, [Next]_vars, ~Worker, Calm'
    PROVE  Unfinalized' /\ Gone' /\ Done' /\ Alone' /\ Routed'
  <1>0. /\ LoopInv /\ PairInv /\ DeletingInv /\ NoCommand /\ Calm
        /\ Unfinalized /\ Gone /\ Done /\ Alone /\ Routed
        /\ DeletionWork /\ DeletionKnown
        /\ obj \in Object /\ cache \in Object /\ inst \in Object
        /\ (RequireDR => ~Crash) /\ ~(\E t : TargetEvent(t))
    BY Copies, CalmStep DEF Facts, DeletingInv
  <1>1. CASE Sync
    <2>1. /\ cache' = obj /\ obj' = obj /\ synced' /\ ~event' /\ (queued' => queued \/ event)
          /\ UNCHANGED <<rules, timer, worker>>
      BY <1>1 DEF Sync
    <2>2. UNCHANGED <<vs, dr, timer, pc, inst, current, finalizing, fetched, progress>>
      BY <2>1 DEF rules, worker, interState
    <2>3. Unfinalized'
      BY <1>0, <2>1, <2>2 DEF Unfinalized, Released
    <2>4. Gone'
      BY <1>0, <2>1, <2>2 DEF Gone, Released, DeletionKnown
    <2>5. Done'
      BY <1>0, <2>1, <2>2 DEF Done, Released
    <2>6. Alone'
      BY <1>0, <2>1, <2>2 DEF Alone
    <2>7. Routed'
      BY <1>0, <2>1, <2>2 DEF Routed, Ends, Released
    <2> QED
      BY <2>3, <2>4, <2>5, <2>6, <2>7
  <1>2. CASE IntervalElapses
    <2> DEFINE elapsed(x) == [x EXCEPT !.status.last = IF @ = "recent" THEN "elapsed" ELSE @]
    <2>1. ASSUME NEW x \in Object
          PROVE  /\ Lifetime(elapsed(x)) = Lifetime(x)
                 /\ elapsed(x).status.completed = x.status.completed
      BY DEF Object, Status, Lifetime
    <2>2. /\ pc = "idle" /\ obj' = elapsed(obj) /\ cache' = elapsed(cache)
          /\ timer' = IF timer = "waiting" THEN "ready" ELSE timer
          /\ UNCHANGED <<synced, event, rules, queued, worker>>
      BY <1>2 DEF IntervalElapses
    <2> HIDE DEF elapsed
    <2>3. /\ Lifetime(obj') = Lifetime(obj) /\ Lifetime(cache') = Lifetime(cache)
          /\ obj'.status.completed = obj.status.completed
          /\ cache'.status.completed = cache.status.completed
      BY <1>0, <2>1, <2>2
    <2>4. /\ obj'.exists = obj.exists /\ obj'.finalizer = obj.finalizer
          /\ obj'.deleting = obj.deleting /\ cache'.finalizer = cache.finalizer
          /\ cache'.deleting = cache.deleting
      BY <2>3 DEF Lifetime
    <2>5. timer' # "none" <=> timer # "none"
      BY <2>2
    <2>6. UNCHANGED <<synced, event, queued, vs, dr, pc, inst, current, finalizing, fetched,
                      progress>>
      BY <2>2 DEF rules, worker, interState
    <2>7. Unfinalized'
      BY <1>0, <2>3, <2>4, <2>5, <2>6 DEF Unfinalized, Released
    <2>8. Gone'
      BY <1>0, <2>4, <2>6 DEF Gone, Released
    <2>9. Done'
      BY <1>0, <2>3, <2>4, <2>5, <2>6 DEF Done, Released
    <2>10. Alone'
      BY <1>0, <2>4, <2>5, <2>6 DEF Alone
    <2>11. Routed'
      BY <1>0, <2>6 DEF Routed, Ends, Released
    <2> QED
      BY <2>7, <2>8, <2>9, <2>10, <2>11
  <1>3. CASE TimerFires
    <2>1. /\ timer = "ready" /\ timer' = "none"
          /\ UNCHANGED <<store, rules, worker>>
      BY <1>3 DEF TimerFires
    <2>2. UNCHANGED <<obj, cache, synced, event, vs, dr, pc, inst, current, finalizing, fetched,
                      progress>>
      BY <2>1 DEF store, rules, worker, interState
    <2>3. Unfinalized'
      BY <1>0, <2>1, <2>2 DEF Unfinalized, Released
    <2>4. Gone'
      BY <1>0, <2>2 DEF Gone, Released
    <2>5. Done'
      BY <1>0, <2>1, <2>2 DEF Done, Released
    <2>6. Alone'
      BY <1>0, <2>1, <2>2 DEF Alone
    <2>7. Routed'
      BY <1>0, <2>2 DEF Routed, Ends, Released
    <2> QED
      BY <2>3, <2>4, <2>5, <2>6, <2>7
  <1>4. ASSUME NEW new, UserChange(new)
        PROVE  Unfinalized' /\ Gone' /\ Done' /\ Alone' /\ Routed'
    <2>1. new = [obj EXCEPT !.deleting = TRUE, !.exists = obj.finalizer]
          /\ obj.exists /\ ~obj.deleting
      BY <1>4, CalmStep, <1>0
    <2>2. /\ obj' = new /\ cache' = cache
          /\ UNCHANGED <<vs, dr, queued, timer, pc, inst, finalizing, fetched, progress>>
      BY <1>4 DEF UserChange, Store, rules, workqueue, interState
    <2>3. /\ obj'.deleting /\ obj'.exists = obj.finalizer /\ obj'.finalizer = obj.finalizer
          /\ obj'.status = obj.status
      BY <1>0, <2>1, <2>2 DEF Object
    <2>4. ~obj.finalizer => Released /\ ~cache.finalizer /\ pc \in Started
      BY <1>0, <2>1 DEF Unfinalized
    <2>5. Unfinalized'
      BY <2>3 DEF Unfinalized
    <2>6. Gone'
      BY <2>2, <2>3, <2>4 DEF Gone, Released
    <2>7. Done'
      BY <1>0, <2>2, <2>3 DEF Done, Released
    <2>8. Alone'
      BY <2>3 DEF Alone
    <2>9. Routed'
      BY <1>0, <2>2 DEF Routed, Ends, Released
    <2> QED
      BY <2>5, <2>6, <2>7, <2>8, <2>9
  <1>5. CASE Crash
    <2>1. /\ obj' = obj /\ cache' = obj /\ synced' /\ ~event' /\ queued' = obj.exists
          /\ timer' = "none" /\ UNCHANGED <<vs, dr>>
          /\ pc' = "idle" /\ ~progress'
      BY <1>5 DEF Crash, Return, rules
    <2>2. Unfinalized'
      BY <1>0, <2>1 DEF Unfinalized, Released, Started
    <2>3. Gone'
      BY <1>0, <2>1 DEF Gone, Released, DeletionKnown, Started
    <2>4. Done'
      BY <1>0, <2>1 DEF Done, Released
    <2>5. Alone'
      BY <2>1 DEF Alone
    <2>6. Routed'
      BY <2>1 DEF Routed, Ends, Routing
    <2> QED
      BY <2>2, <2>3, <2>4, <2>5, <2>6
  <1>6. CASE UNCHANGED vars
    <2>1. UNCHANGED <<obj, cache, synced, event, vs, dr, queued, timer, pc, inst, current,
                      finalizing, fetched, progress>>
      BY <1>6 DEF vars, store, rules, workqueue, worker, interState
    <2> QED
      BY <1>0, <2>1 DEF Unfinalized, Gone, Done, Alone, Routed, Ends, Released
  <1>7. User => (\E new : UserChange(new)) \/ (\E t : TargetEvent(t))
    BY DEF User, Override, Delete
  <1> QED
    BY <1>0, <1>1, <1>2, <1>3, <1>4, <1>5, <1>6, <1>7 DEF Next

LEMMA ReleaseStep ==
    LoopInv /\ PairInv /\ DeletingInv /\ PlainInv /\ ReleaseInv /\ [Next]_vars => ReleaseInv'
  <1> SUFFICES ASSUME LoopInv, PairInv, DeletingInv, PlainInv, ReleaseInv, [Next]_vars, Calm'
               PROVE  Unfinalized' /\ Gone' /\ Done' /\ Alone' /\ Routed'
    BY DEF ReleaseInv
  <1>1. Facts /\ faults' = 0
    BY CalmStep DEF Facts, PlainInv, ReleaseInv, Calm
  <1>2. CASE Worker
    BY <1>1, <1>2, WorkerUnfinalized, WorkerGone, WorkerDone, WorkerAlone, WorkerRouted
  <1> QED
    BY <1>1, <1>2, ReleaseByEnvironment

\* The rules that are there at first are a user's.
LEMMA ReleasedInit == Init => Released
  <1>1. AbsentVS.role = "absent" /\ AbsentDR.role = "absent"
    BY DEF AbsentVS, AbsentDR
  <1>2. ASSUME NEW w
        PROVE  /\ [role |-> "stable", init |-> FALSE, weight |-> w].role = "stable"
               /\ [role |-> "stable", init |-> FALSE].role = "stable"
    OBVIOUS
  <1> QED
    BY <1>1, <1>2 DEF Init, Released, Owned

LEMMA ReleaseInit == Init => ReleaseInv
  <1> SUFFICES ASSUME Init
               PROVE  Unfinalized /\ Gone /\ Done /\ Alone /\ Routed
    BY DEF ReleaseInv
  <1>1. PICK valid \in Validity : obj = [NewObject EXCEPT !.valid = valid]
    BY DEF Init
  <1>2. /\ obj.exists = NewObject.exists /\ obj.deleting = NewObject.deleting
        /\ obj.finalizer = NewObject.finalizer /\ obj.status = NewObject.status
    BY <1>1, NewType DEF Object
  <1>3. /\ NewObject.exists /\ ~NewObject.deleting /\ ~NewObject.finalizer
        /\ NewObject.status = EmptyStatus
    BY DEF NewObject
  <1>4. EmptyStatus.completed = FALSE
    BY DEF EmptyStatus
  <1>5. /\ pc = "idle" /\ cache = obj /\ synced /\ ~event /\ timer = "none" /\ ~progress
    BY DEF Init
  <1>6. Released
    BY ReleasedInit
  <1> QED
    BY <1>2, <1>3, <1>4, <1>5, <1>6
       DEF Unfinalized, Gone, Done, Alone, Routed, Ends, Routing, Started

LEMMA ReleaseInvariant == Spec => [](LoopInv /\ DeletingInv /\ ReleaseInv)
  <1>1. /\ LoopInv /\ PairInv /\ DeletingInv /\ PlainInv /\ ReleaseInv /\ [Next]_vars
               => ReleaseInv'
    BY ReleaseStep
  <1> QED
    BY <1>1, ReleaseInit, PlainInvariant, PTL DEF Spec

\* A rule does not outlive the experiment it is labelled with, if the deletion is
\* the only command, targets stay as they are and no call fails: finalize returns
\* the rules before removeFinalizer lets the object go, even if the deletion comes
\* at any call of a reconcile, and, while there is one rule only, even if the
\* controller restarts at any call.
THEOREM DeletionReleases ==
    Spec => [](edits <= 1 /\ targetEvents = 0 /\ faults = 0 /\ (RequireDR => crashes = 0)
                   => DeletedReleasesRules)
  <1>1. LoopInv /\ DeletingInv /\ ReleaseInv =>
            (edits <= 1 /\ targetEvents = 0 /\ faults = 0 /\ (RequireDR => crashes = 0)
                 => DeletedReleasesRules)
    <2> SUFFICES ASSUME LoopInv, DeletingInv, ReleaseInv, edits <= 1, targetEvents = 0,
                        faults = 0, RequireDR => crashes = 0, ~obj.exists
                 PROVE  Released
      BY DEF DeletedReleasesRules, Released
    <2>1. obj.deleting /\ edits > 0
      BY DEF DeletingInv, DeletionKnown
    <2>2. edits = 1
      <3>1. edits \in 0..MaxEdits
        BY Parts DEF LoopInv, RestOK
      <3> QED
        BY <2>1, <3>1, Bounds
    <2> QED
      BY <2>1, <2>2 DEF ReleaseInv, Calm, Uncommanded, Gone
  <1> QED
    BY <1>1, ReleaseInvariant, PTL

\* Nor has a completed experiment a rule, as long as no call failed, no target event
\* and no command but a deletion came and, where there are two rules, the controller
\* was not restarted: completion changes the rules before endRequest records it, and
\* no later reconcile works on a copy from before, however far the cache lags.  With a
\* failed call it is false (run leftrules).
THEOREM CompletionReleases ==
    Spec => []((edits = 0 \/ (edits = 1 /\ obj.deleting)) /\ targetEvents = 0 /\ faults = 0
               /\ (RequireDR => crashes = 0) => CompletedReleasesRules)
  <1>1. ReleaseInv =>
            ((edits = 0 \/ (edits = 1 /\ obj.deleting)) /\ targetEvents = 0 /\ faults = 0
             /\ (RequireDR => crashes = 0) => CompletedReleasesRules)
    BY DEF ReleaseInv, Calm, Uncommanded, Done, Released, CompletedReleasesRules
  <1> QED
    BY <1>1, ReleaseInvariant, PTL

-----------------------------------------------------------------------------
\* Without criteria the weights of the candidates only grow.
Below(w1, w2, n) == \A v \in Candidates : w1[v] <= w2[v] + n

\* Here the copy may be an increment ahead of the status.
Shifting == {"trafficVS", "finish", "endRequest"}

\* Here it is behind it or the same, but for the copy that is being completed.
Ramping == PCs \ {"idle", "complete", "stableVS", "stableDR", "deleteVS", "deleteDR",
                  "removeFinalizer"}

Ahead(next) == IF next \in Shifting THEN MaxIncrement ELSE 0

RampCopy ==
    ~inst.status.completed /\ pc \in Ramping =>
        /\ Below(inst.status.weight, obj.status.weight, Ahead(pc))
        /\ current => Below(obj.status.weight, inst.status.weight, 0)

RampStore ==
    /\ Below(cache.status.weight, obj.status.weight, 0)
    /\ ~obj.status.inited => obj.status.weight = NoTraffic

RampRoute == Owned(vs) => Below(vs.weight, obj.status.weight, MaxIncrement)

\* The route is the experiment's once it was written, and metrics are not read.
RampPath ==
    /\ pc \notin {"metrics", "metricsError", "metricsUpdate"}
    /\ pc \in {"baselineDR", "candidates", "candidatesVS", "candidatesDR"} => Owned(vs)

Ramp == RampPath /\ (~obj.status.completed => RampStore /\ RampCopy /\ RampRoute)

RampInv == ~Criteria /\ Calm => Ramp

LEMMA BelowFacts ==
    ASSUME NEW w1 \in Traffic, NEW w2 \in Traffic, NEW w3 \in Traffic, NEW n \in Nat
    PROVE  /\ Below(w1, w1, n) /\ Below(NoTraffic, w1, n)
           /\ Below(w1, w2, n) /\ Below(w2, w3, 0) => Below(w1, w3, n)
           /\ Below(w1, w2, 0) /\ Below(w2, w3, n) => Below(w1, w3, n)
           /\ Below(w1, w2, 0) => Below(w1, w2, n)
  <1>1. \A v \in Candidates : w1[v] \in Nat /\ w2[v] \in Nat /\ w3[v] \in Nat /\ v \in Versions
    BY DEF Traffic, Versions
  <1> QED
    BY <1>1 DEF Below, NoTraffic

LEMMA Increments == MaxIncrement \in Nat /\ \A next : Ahead(next) \in Nat
  BY ParametersAssumption DEF Ahead

LEMMA Weights ==
    ASSUME NEW x \in Object
    PROVE  x.status.weight \in Traffic /\ x.status.completed \in BOOLEAN
  BY DEF Object, Status

\* The worker goes on with a copy ...
LEMMA RampGo ==
    ASSUME NEW next, NEW x, Goto(next, x),
           ~x.status.completed /\ next \in Ramping =>
               /\ Below(x.status.weight, obj'.status.weight, Ahead(next))
               /\ current' => Below(obj'.status.weight, x.status.weight, 0)
    PROVE  RampCopy'
  BY DEF Goto, RampCopy

\* ... that has the weights of the candidates that the last one had, ...
LEMMA RampSame ==
    ASSUME obj \in Object, inst \in Object, RampCopy, pc \in Ramping, ~inst.status.completed,
           obj'.status = obj.status, current' => current,
           NEW next, NEW x \in Object, Goto(next, x),
           \A v \in Candidates : x.status.weight[v] = inst.status.weight[v],
           pc \in Shifting => next \in Shifting \/ next \notin Ramping
    PROVE  RampCopy'
  <1>1. /\ Below(inst.status.weight, obj.status.weight, Ahead(pc))
        /\ current => Below(obj.status.weight, inst.status.weight, 0)
    BY DEF RampCopy
  <1>2. CASE next \in Ramping
    <2>1. Ahead(pc) = Ahead(next) \/ Ahead(pc) = 0
      BY <1>2 DEF Ahead
    <2>2. Below(inst.status.weight, obj.status.weight, Ahead(next))
      BY <1>1, <2>1, BelowFacts, Increments, Weights
    <2>3. /\ Below(x.status.weight, obj.status.weight, Ahead(next))
          /\ current => Below(obj.status.weight, x.status.weight, 0)
      BY <1>1, <2>2 DEF Below
    <2> QED
      BY <2>3, RampGo
  <1>3. CASE next \notin Ramping
    BY <1>3, RampGo
  <1> QED
    BY <1>2, <1>3

\* ... or of the server's status.
LEMMA RampCurrent ==
    ASSUME obj' \in Object, NEW next, NEW x, Goto(next, x),
           x.status.weight = obj'.status.weight
    PROVE  RampCopy'
  BY RampGo, BelowFacts, Increments, Weights

\* No status method but InitStatus changes the weight of a candidate.
LEMMA MarksKeepWeights ==
    ASSUME NEW x \in Object
    PROVE  /\ \A reason : MarkTargetsError(x, reason).status.weight = x.status.weight
           /\ MarkIterationUpdate(x).status.weight = x.status.weight
           /\ TerminateExperiment(x).status.weight = x.status.weight
           /\ \A v \in Candidates :
                  [x EXCEPT !.status.weight[Baseline] = 100].status.weight[v] = x.status.weight[v]
  <1>1. \A v \in Candidates : v \in Versions /\ v # Baseline
    BY VersionsAssumption DEF Versions
  <1> QED
    BY <1>1 DEF MarkTargetsError, MarkIterationUpdate, TerminateExperiment, Object, Status, Traffic

\* The status of an experiment that is not completed grows.
LEMMA StatusGrows ==
    ASSUME LoopInv, [Next]_vars, RampCopy, RampPath, ~obj.status.completed, ~obj'.status.completed
    PROVE  /\ Below(obj.status.weight, obj'.status.weight, 0)
           /\ \/ obj'.status.inited
              \/ /\ obj'.status.inited = obj.status.inited
                 /\ obj'.status.weight = obj.status.weight
  <1>0. obj \in Object /\ inst \in Object
    BY Copies
  <1>1. CASE obj'.status = obj.status
    BY <1>0, <1>1, BelowFacts, Weights
  <1>2. CASE obj'.status = [obj.status EXCEPT !.last = "elapsed"]
    <2>1. obj'.status.weight = obj.status.weight /\ obj'.status.inited = obj.status.inited
      BY <1>0, <1>2 DEF Object, Status
    <2> QED
      BY <1>0, <2>1, BelowFacts, Weights
  <1>3. CASE /\ current /\ pc \in {"initStatus", "metricsError", "endRequest"}
             /\ obj'.status = inst.status
    <2>1. pc \in Ramping
      BY <1>3 DEF Ramping, PCs
    <2>2. inst.status.inited
      BY <1>3 DEF LoopInv, CopyRelated, Related, CopyInv
    <2> QED
      BY <1>3, <2>1, <2>2 DEF RampCopy
  <1> QED
    BY <1>1, <1>2, <1>3, StatusChanges

\* A step of the worker leaves the cache behind the status ...
LEMMA RampStoreByWorker ==
    ASSUME Facts, Worker, Ramp, ~obj.status.completed, ~obj'.status.completed
    PROVE  RampStore' /\ Below(obj.status.weight, obj'.status.weight, 0)
  <1>0. /\ LoopInv /\ DeletingInv /\ [Next]_vars
        /\ obj \in Object /\ cache \in Object /\ obj' \in Object
    <2>1. LoopInv /\ DeletingInv /\ [Next]_vars
      BY DEF Facts, Next
    <2> QED
      BY <2>1, Copies, StoreStep DEF LoopInv, StoreOK
  <1>1. cache' = cache
    BY <1>0, LifetimeWritten
  <1>2. /\ Below(obj.status.weight, obj'.status.weight, 0)
        /\ \/ obj'.status.inited
           \/ /\ obj'.status.inited = obj.status.inited
              /\ obj'.status.weight = obj.status.weight
    BY <1>0, StatusGrows DEF Ramp
  <1>3. Below(cache.status.weight, obj'.status.weight, 0)
    BY <1>0, <1>2, BelowFacts, Weights DEF Ramp, RampStore
  <1> QED
    BY <1>1, <1>2, <1>3 DEF Ramp, RampStore

\* ... and the route at most an increment ahead.
LEMMA RampRouteByWorker ==
    ASSUME Facts, Worker, Ramp, faults' = 0, ~obj.status.completed, ~obj'.status.completed
    PROVE  RampRoute'
  <1>0. /\ LoopInv /\ PairInv /\ Calm /\ RampPath /\ RampCopy /\ RampRoute
        /\ obj \in Object /\ inst \in Object /\ obj' \in Object
        /\ vs \in VirtualService /\ dr \in DestinationRule
        /\ vs.weight \in Traffic /\ vs'.weight \in Traffic
    <2>1. LoopInv /\ PairInv /\ Calm
      BY DEF Facts
    <2>2. obj' \in Object /\ vs' \in VirtualService
      BY <2>1, StoreStep, RulesStep DEF LoopInv, StoreOK, RulesOK, Next
    <2>3. vs \in VirtualService /\ dr \in DestinationRule
      BY <2>1 DEF LoopInv, TypeOK
    <2> QED
      BY <2>1, <2>2, <2>3, Copies DEF Ramp, VirtualService
  <1>1. Below(obj.status.weight, obj'.status.weight, 0) /\ MaxIncrement \in Nat
    BY RampStoreByWorker, Increments
  <1>2. ASSUME Below(vs'.weight, obj.status.weight, MaxIncrement) \/ ~Owned(vs')
        PROVE  RampRoute'
    BY <1>0, <1>1, <1>2, BelowFacts, Weights DEF RampRoute
  <1>3. vs' = vs => RampRoute'
    BY <1>0, <1>2 DEF RampRoute
  <1>4. CASE UpdateBaselineVS
    <2>1. vs' = vs \/ vs' = WithBaseline(vs)
      BY <1>4 DEF UpdateBaselineVS
    <2>2. CASE vs' = WithBaseline(vs)
      <3>1. vs'.weight = AllTo(Baseline)
        BY <1>0, <2>2, RuleChanges
      <3>2. \A v \in Candidates : AllTo(Baseline)[v] = 0 /\ obj.status.weight[v] \in Nat
        BY <1>0, VersionsAssumption DEF AllTo, Versions, Object, Status, Traffic
      <3>3. Below(AllTo(Baseline), obj.status.weight, MaxIncrement)
        BY <1>1, <3>2 DEF Below
      <3> QED
        BY <1>2, <3>1, <3>3
    <2> QED
      BY <1>3, <2>1, <2>2
  <1>5. CASE UpdateCandidatesVS
    <2>1. pc = "candidatesVS" /\ (vs' = vs \/ vs' = WithProgressing(vs))
      BY <1>5 DEF UpdateCandidatesVS
    <2>2. Below(vs.weight, obj.status.weight, MaxIncrement)
      BY <1>0, <2>1 DEF RampPath, RampRoute
    <2>3. WithProgressing(vs).weight = vs.weight
      BY <1>0, RuleChanges
    <2> QED
      BY <1>2, <1>3, <2>1, <2>2, <2>3
  <1>6. CASE UpdateTrafficVS
    <2>1. pc = "trafficVS" /\ (vs' = vs \/ vs' = [vs EXCEPT !.weight = inst.status.weight])
      BY <1>6 DEF UpdateTrafficVS
    <2>2. ~inst.status.completed
      BY <1>0, <2>1 DEF LoopInv, CopyRelated, Related, CopyInv, Early
    <2>3. Below(inst.status.weight, obj.status.weight, MaxIncrement)
      BY <1>0, <2>1, <2>2 DEF RampCopy, Ramping, PCs, Ahead, Shifting
    <2>4. [vs EXCEPT !.weight = inst.status.weight].weight = inst.status.weight
      BY <1>0 DEF VirtualService
    <2> QED
      BY <1>2, <1>3, <2>1, <2>3, <2>4
  <1>7. CASE StableVS
    <2>1. \/ vs' = vs \/ vs' = AbsentVS
          \/ vs' = WithStable(FinalTraffic(vs, dr, inst.status.weight))
      BY <1>7 DEF StableVS
    <2>2. /\ WithStable(FinalTraffic(vs, dr, inst.status.weight)).role = "stable"
          /\ AbsentVS.role = "absent"
      BY <1>0, StableRoute DEF AbsentVS
    <2>3. vs' = vs \/ vs'.role \in {"stable", "absent"}
      BY <2>1, <2>2
    <2> QED
      BY <1>2, <1>3, <2>3 DEF Owned
  <1>8. CASE \/ Get \/ WriteInitStatus \/ addFinalizerIfAbsent \/ Finalize \/ NotToProceed
             \/ Proceed \/ Pause \/ Resume \/ ReadMetrics \/ WriteMetricsError \/ WriteMetrics
             \/ Fetch \/ DetectBaseline \/ UpdateBaselineDR \/ DetectCandidates
             \/ UpdateCandidatesDR \/ ShiftTraffic \/ Iterate \/ Finish \/ Complete
             \/ StableDR \/ EndRequest \/ RemoveFinalizer
    <2>1. vs' = vs
      BY <1>8
         DEF Get, WriteInitStatus, addFinalizerIfAbsent, Finalize, NotToProceed, Proceed,
             Pause, Resume, ReadMetrics, WriteMetricsError, WriteMetrics, Fetch,
             DetectBaseline, UpdateBaselineDR, DetectCandidates, UpdateCandidatesDR,
             ShiftTraffic, Iterate, Finish, Complete, StableDR, EndRequest, RemoveFinalizer,
             rules
    <2> QED
      BY <1>3, <2>1
  <1> QED
    BY <1>4, <1>5, <1>6, <1>7, <1>8 DEF Worker

\* The set-up of the rules writes the VirtualService first.
LEMMA RampPathByWorker == ASSUME Facts, Worker, RampPath, ~Criteria PROVE RampPath'
  <1>0. LoopInv /\ NoCommand /\ vs \in VirtualService
    BY DEF Facts, LoopInv, TypeOK
  <1> DEFINE Set == {"baselineDR", "candidates", "candidatesVS", "candidatesDR"}
             Metrics == {"metrics", "metricsError", "metricsUpdate"}
  <1>1. ASSUME pc' \notin Set \cup Metrics PROVE RampPath'
    BY <1>1 DEF RampPath
  <1>2. ASSUME pc' \notin Metrics, Owned(vs') PROVE RampPath'
    BY <1>2 DEF RampPath
  <1>3. CASE DetectBaseline
    <2>1. \/ pc' \in {"endRequest", "baselineVS"}
          \/ pc' = "candidates" /\ (isProgressing(vs, dr) \/ isInitializing(vs, dr))
      BY <1>3 DEF DetectBaseline, TargetsError, Fail, Continue, Goto
    <2>2. vs' = vs
      BY <1>3 DEF DetectBaseline, rules
    <2> QED
      BY <1>1, <1>2, <2>1, <2>2 DEF isProgressing, isInitializing, HaveRole, Owned
  <1>4. CASE UpdateBaselineVS
    <2>1. \/ pc' = "endRequest"
          \/ vs' = WithBaseline(vs) /\ pc' \in {"baselineDR", "candidates"}
      BY <1>4 DEF UpdateBaselineVS, RulesError, Fail, Continue, Goto
    <2>2. WithBaseline(vs).role = "initializing"
      BY <1>0, RuleChanges DEF LoopInv, TypeOK
    <2> QED
      BY <1>1, <1>2, <2>1, <2>2 DEF Owned
  <1>5. CASE UpdateBaselineDR \/ DetectCandidates \/ UpdateCandidatesDR
    <2>1. vs' = vs /\ Owned(vs)
      BY <1>5 DEF UpdateBaselineDR, DetectCandidates, UpdateCandidatesDR, rules, RampPath
    <2>2. pc' \notin Metrics
      BY <1>5 DEF UpdateBaselineDR, DetectCandidates, UpdateCandidatesDR, RulesError,
                  TargetsError, Detected, AfterDetection, Fail, Continue, Goto
    <2> QED
      BY <1>2, <2>1, <2>2
  <1>6. CASE UpdateCandidatesVS
    <2>1. pc' = "endRequest" \/ (vs' = WithProgressing(vs) /\ pc' \notin Metrics)
      BY <1>6 DEF UpdateCandidatesVS, RulesError, Detected, AfterDetection, Fail, Continue, Goto
    <2>2. WithProgressing(vs).role = "progressing"
      BY <1>0, RuleChanges DEF LoopInv, TypeOK
    <2> QED
      BY <1>1, <1>2, <2>1, <2>2 DEF Owned
  <1>7. CASE Get \/ WriteInitStatus \/ addFinalizerIfAbsent \/ Finalize
    <2>1. pc' \notin Set \cup Metrics
      BY <1>7 DEF Get, Return, WriteInitStatus, addFinalizerIfAbsent, Finalize, Continue, Goto
    <2> QED
      BY <1>1, <2>1
  <1>8. CASE \/ NotToProceed \/ Proceed \/ Fetch \/ ShiftTraffic \/ UpdateTrafficVS \/ Finish
             \/ Complete \/ StableVS \/ StableDR \/ EndRequest \/ RemoveFinalizer
    <2>1. CASE Proceed
      <3>1. pc' \in {"fetch", "endRequest", "pause", "resume"}
        BY <2>1 DEF Proceed, toSyncMetrics, Goto
      <3> QED
        BY <1>1, <3>1
    <2>2. CASE Fetch \/ ShiftTraffic \/ UpdateTrafficVS \/ Finish
      <3>1. pc' \in {"detect", "iterate", "trafficVS", "finish", "complete", "endRequest"}
        BY <2>2 DEF Fetch, ShiftTraffic, UpdateTrafficVS, Finish, AfterDetection,
                    IterationDone, RulesError, Fail, Continue, Goto
      <3> QED
        BY <1>1, <3>1
    <2>3. CASE NotToProceed \/ Complete \/ StableVS \/ StableDR \/ EndRequest \/ RemoveFinalizer
      <3>1. pc' \notin Set \cup Metrics
        BY <2>3 DEF NotToProceed, Complete, StableVS, StableDR, EndRequest, RemoveFinalizer,
                    Completed, CompletionFails, Ended, Fail, Continue, Goto, Return
      <3> QED
        BY <1>1, <3>1
    <2> QED
      BY <1>8, <2>1, <2>2, <2>3
  <1>9. ~ReadMetrics /\ ~WriteMetricsError /\ ~WriteMetrics /\ ~Iterate
    BY DEF ReadMetrics, WriteMetricsError, WriteMetrics, Iterate, RampPath
  <1>10. ~Pause /\ ~Resume
    BY <1>0 DEF Pause, Resume, NoCommand
  <1> QED
    BY <1>3, <1>4, <1>5, <1>6, <1>7, <1>8, <1>9, <1>10 DEF Worker

\* The copy that a step of the worker goes on with.
LEMMA RampCopyByWorker ==
    ASSUME Facts, Worker, Ramp, ~Criteria, ~obj.status.completed
    PROVE  RampCopy'
  <1>0. /\ LoopInv /\ NoCommand /\ StoreInv /\ CopyInv
        /\ obj \in Object /\ cache \in Object /\ inst \in Object
        /\ obj' \in Object /\ inst' \in Object
        /\ RampPath /\ RampStore /\ RampCopy
    <2>1. LoopInv /\ NoCommand /\ TypeOK /\ [Next]_vars
      BY DEF Facts, LoopInv, Next
    <2>2. obj' \in Object /\ inst' \in Object
      BY <2>1, StoreStep, WorkerStep DEF StoreOK, WorkerOK
    <2> QED
      BY <2>1, <2>2, Copies DEF Ramp, LoopInv, CopyRelated, Related
  <1>1. pc' \notin Ramping => RampCopy'
    BY DEF RampCopy
  <1>2. inst'.status.completed => RampCopy'
    BY DEF RampCopy
  <1>r. Return => RampCopy'
    BY <1>1 DEF Return, Ramping
  <1>3. ASSUME pc \in Ramping, ~inst.status.completed, obj'.status = obj.status,
               current' = current,
               \A v \in Candidates : inst'.status.weight[v] = inst.status.weight[v],
               pc \in Shifting => pc' \in Shifting \/ pc' \notin Ramping
        PROVE  RampCopy'
    BY <1>0, <1>3, RampSame DEF Goto
  <1>4. ASSUME pc \notin Early, UNCHANGED store
        PROVE  ~inst.status.completed /\ obj'.status = obj.status
    BY <1>0, <1>4 DEF CopyInv, Early, store
  <1>5. CASE Get
    <2>1. UNCHANGED store
      BY <1>5 DEF Get
    <2> DEFINE x == InitStatus(cache)
    <2>2. \/ Return
          \/ /\ cache.status.inited /\ inst' = cache /\ current' = synced
             /\ pc' \in {"decide", "finalizer"}
          \/ /\ ~cache.status.inited /\ current' = synced /\ pc' \in {"initStatus", "endRequest"}
             /\ inst' = x \/ inst' = MarkTargetsError(x, "Invalid")
      BY <1>5 DEF Get, Goto
    <2>3. CASE inst' = cache /\ current' = synced
      <3>1. synced => cache = obj
        BY <1>0 DEF StoreInv
      <3>2. Below(cache.status.weight, obj.status.weight, Ahead(pc'))
        BY <1>0, BelowFacts, Increments, Weights DEF RampStore
      <3> QED
        BY <1>0, <2>1, <2>3, <3>1, <3>2, BelowFacts, Weights DEF RampCopy, store
    <2>4. CASE /\ ~cache.status.inited /\ current' = synced
               /\ inst' = x \/ inst' = MarkTargetsError(x, "Invalid")
      <3>1. x \in Object /\ x.status.weight = NoTraffic
        <4>1. x \in Object
          BY <1>0, InitStatusType
        <4>2. x.status.weight = NoTraffic
          BY <1>0 DEF InitStatus, Object, Status
        <4> QED
          BY <4>1, <4>2
      <3> HIDE DEF x
      <3>2. inst'.status.weight = NoTraffic
        <4>1. MarkTargetsError(x, "Invalid").status.weight = x.status.weight
          BY <3>1, MarksKeepWeights
        <4> QED
          BY <2>4, <3>1, <4>1
      <3>3. synced => obj.status.weight = NoTraffic
        BY <1>0, <2>4 DEF StoreInv, RampStore
      <3>4. Below(NoTraffic, obj.status.weight, Ahead(pc'))
        BY <1>0, BelowFacts, Increments, Weights
      <3> QED
        BY <1>0, <2>1, <2>4, <3>2, <3>3, <3>4, BelowFacts, Weights DEF RampCopy, store
    <2> QED
      BY <1>r, <2>2, <2>3, <2>4
  <1>6. CASE WriteInitStatus
    <2>1. PICK a \in {"ok", "conflict", "error"} :
             /\ Answer(a) /\ UpdateStatus(a, inst)
             /\ \/ Return
                \/ /\ Benign(a) /\ pc' \in {"decide", "finalizer"} /\ current' = current
                   /\ inst' = Decoded(a, inst)
      BY <1>6 DEF WriteInitStatus, Continue, Goto
    <2>2. CASE inst' = obj'
      BY <1>0, <2>2, RampCurrent DEF Goto
    <2>3. CASE a # "ok" /\ inst' = inst /\ current' = current /\ pc' \in {"decide", "finalizer"}
      <3>1. obj'.status = obj.status
        BY <2>1, <2>3 DEF UpdateStatus, store
      <3>2. pc \in Ramping \ Shifting /\ ~inst.status.completed
        BY <1>0, <1>6 DEF WriteInitStatus, Ramping, PCs, Shifting, CopyInv, Early
      <3> QED
        BY <1>3, <2>3, <3>1, <3>2
    <2> QED
      BY <1>r, <2>1, <2>2, <2>3 DEF Decoded
  <1>7. CASE addFinalizerIfAbsent
    <2> DEFINE x == [inst EXCEPT !.finalizer = TRUE]
    <2>0. x \in Object /\ x.status = inst.status
      BY <1>0 DEF Object
    <2>1. PICK a \in {"ok", "conflict", "error"} :
             /\ Answer(a) /\ UpdateObject(a, x)
             /\ Return \/ (pc' = "decide" /\ current' = current /\ inst' = Decoded(a, x))
      BY <1>7 DEF addFinalizerIfAbsent, Continue, Goto
    <2> HIDE DEF x
    <2>2. CASE inst' = obj'
      BY <1>0, <2>2, RampCurrent DEF Goto
    <2>3. CASE inst' = x /\ current' = current /\ pc' = "decide"
      <3>1. obj'.status = obj.status
        BY <1>0, <2>0, <2>1, ObjectWritten
      <3>2. pc \in Ramping \ Shifting
        BY <1>7 DEF addFinalizerIfAbsent, Ramping, PCs, Shifting
      <3> QED
        BY <1>2, <1>3, <2>0, <2>3, <3>1, <3>2
    <2> QED
      BY <1>r, <2>1, <2>2, <2>3 DEF Decoded
  <1>8. CASE Finalize
    <2>1. pc = "decide" /\ UNCHANGED store /\ current' = current
      BY <1>8 DEF Finalize, Continue
    <2>2. \/ pc' = "removeFinalizer"
          \/ ~inst.status.completed /\ inst' = TerminateExperiment(inst)
      BY <1>8 DEF Finalize, ExperimentCompleted, Continue, Goto
    <2>3. pc \in Ramping \ Shifting
      BY <2>1 DEF Ramping, PCs, Shifting
    <2> QED
      BY <1>0, <1>1, <1>3, <2>1, <2>2, <2>3, MarksKeepWeights DEF Ramping, store
  <1>9. CASE Proceed
    <2>1. pc = "decide" /\ UNCHANGED store /\ current' = current /\ ~inst.status.completed
      BY <1>9 DEF Proceed, ExperimentCompleted
    <2>2. inst' = inst \/ inst' = [inst EXCEPT !.override = "none", !.split = NoSplit]
      BY <1>9 DEF Proceed, Goto
    <2>3. inst'.status = inst.status
      BY <1>0, <2>2 DEF Object
    <2>4. pc \in Ramping \ Shifting
      BY <2>1 DEF Ramping, PCs, Shifting
    <2> QED
      BY <1>3, <2>1, <2>3, <2>4 DEF store
  <1>10. CASE \/ Fetch \/ DetectBaseline \/ UpdateBaselineVS \/ UpdateBaselineDR \/ DetectCandidates
              \/ UpdateCandidatesVS \/ UpdateCandidatesDR \/ UpdateTrafficVS \/ Finish
    <2>1. /\ pc \notin Early /\ pc \in Ramping
          /\ pc \in Shifting => pc \in {"trafficVS", "finish"}
          /\ UNCHANGED store /\ current' = current
      BY <1>10
         DEF Fetch, DetectBaseline, UpdateBaselineVS, UpdateBaselineDR, DetectCandidates,
             UpdateCandidatesVS, UpdateCandidatesDR, UpdateTrafficVS, Finish, Early, Ramping,
             PCs, Shifting, RulesError, TargetsError, Detected, IterationDone, Fail, Continue
    <2>2. pc \in {"trafficVS", "finish"} => pc' \in {"finish", "endRequest", "complete"}
      BY <1>10
         DEF Fetch, DetectBaseline, UpdateBaselineVS, UpdateBaselineDR, DetectCandidates,
             UpdateCandidatesVS, UpdateCandidatesDR, UpdateTrafficVS, Finish, RulesError,
             IterationDone, Fail, Continue, Goto
    <2>3. \/ inst' \in {inst, MarkRoutingRulesError(inst), MarkTargetsAndRulesReady(inst),
                        MarkIterationUpdate(inst), [inst EXCEPT !.status.iteration = @ + 1],
                        [inst EXCEPT !.status.weight[Baseline] = 100]}
          \/ \E reason : inst' = MarkTargetsError(inst, reason)
      BY <1>10
         DEF Fetch, DetectBaseline, UpdateBaselineVS, UpdateBaselineDR, DetectCandidates,
             UpdateCandidatesVS, UpdateCandidatesDR, UpdateTrafficVS, Finish, RulesError,
             TargetsError, Detected, IterationDone, Fail, Continue, Goto
    <2>4. \A v \in Candidates : inst'.status.weight[v] = inst.status.weight[v]
      <3>1. CASE inst' = [inst EXCEPT !.status.weight[Baseline] = 100]
        BY <1>0, <3>1, MarksKeepWeights
      <3>2. CASE inst' \in {inst, MarkRoutingRulesError(inst), MarkTargetsAndRulesReady(inst),
                            MarkIterationUpdate(inst), [inst EXCEPT !.status.iteration = @ + 1]}
        <4>1. /\ MarkRoutingRulesError(inst).status.weight = inst.status.weight
              /\ MarkTargetsAndRulesReady(inst).status.weight = inst.status.weight
              /\ MarkIterationUpdate(inst).status.weight = inst.status.weight
              /\ [inst EXCEPT !.status.iteration = @ + 1].status.weight = inst.status.weight
          BY <1>0 DEF MarkRoutingRulesError, MarkTargetsAndRulesReady, MarkIterationUpdate,
                      Object, Status
        <4> QED
          BY <3>2, <4>1
      <3>3. CASE \E reason : inst' = MarkTargetsError(inst, reason)
        <4>1. inst'.status.weight = inst.status.weight
          BY <1>0, <3>3, MarksKeepWeights
        <4> QED
          BY <4>1
      <3> QED
        BY <2>3, <3>1, <3>2, <3>3
    <2> QED
      BY <1>3, <1>4, <2>1, <2>2, <2>4 DEF Shifting, Ramping
  <1>11. CASE ShiftTraffic
    <2>1. pc = "iterate" /\ UNCHANGED store /\ current' = current
      BY <1>11 DEF ShiftTraffic, Continue, IterationDone
    <2>2. pc \in Ramping \ Shifting /\ ~inst.status.completed /\ obj' = obj
      BY <1>4, <2>1 DEF Ramping, PCs, Shifting, Early, store
    <2>3. CASE inst' = MarkIterationUpdate(inst)
      BY <1>0, <1>3, <2>1, <2>2, <2>3, MarksKeepWeights
    <2>4. CASE /\ pc' = "trafficVS"
               /\ inst' = [inst EXCEPT !.status.weight = Shifted(inst.status.weight)]
      <3>1. inst'.status.weight = Shifted(inst.status.weight)
        BY <1>0, <2>4 DEF Object, Status
      <3>2. \A v \in Candidates : /\ inst'.status.weight[v] = inst.status.weight[v] + MaxIncrement
                                  /\ inst.status.weight[v] \in Nat /\ obj.status.weight[v] \in Nat
        BY <1>0, <3>1, VersionsAssumption DEF Shifted, Versions, Object, Status, Traffic
      <3>3. /\ Below(inst.status.weight, obj.status.weight, 0)
            /\ current => Below(obj.status.weight, inst.status.weight, 0)
        BY <1>0, <2>2 DEF RampCopy, Ahead
      <3>4. /\ Below(inst'.status.weight, obj.status.weight, MaxIncrement)
            /\ current => Below(obj.status.weight, inst'.status.weight, 0)
        BY <3>2, <3>3, Increments DEF Below
      <3> QED
        BY <2>1, <2>2, <2>4, <3>4 DEF RampCopy, Ahead, Shifting
    <2> QED
      BY <1>11, <2>3, <2>4 DEF ShiftTraffic, Continue, IterationDone, Goto
  <1>12. CASE Complete \/ StableVS \/ StableDR
    <2>1. \/ pc' \in {"idle", "stableVS", "stableDR", "deleteVS", "deleteDR", "removeFinalizer"}
          \/ \E x \in {inst, overrideAssessment(inst)} : inst' = MarkExperimentCompleted(x)
      BY <1>12 DEF Complete, StableVS, StableDR, Completed, CompletionFails, Return, Fail,
                   Continue, Goto
    <2>2. \A x \in Object : MarkExperimentCompleted(x).status.completed
      BY DEF MarkExperimentCompleted, Object, Status
    <2>3. overrideAssessment(inst) \in Object
      BY <1>0, OverrideType
    <2> QED
      BY <1>0, <1>1, <1>2, <2>1, <2>2, <2>3 DEF Ramping
  <1>13. CASE NotToProceed \/ EndRequest \/ RemoveFinalizer
    <2>1. Return \/ pc' = "removeFinalizer"
      BY <1>13 DEF NotToProceed, EndRequest, RemoveFinalizer, Ended, Continue, Goto
    <2> QED
      BY <1>1, <1>r, <2>1 DEF Ramping
  <1>14. ~ReadMetrics /\ ~WriteMetricsError /\ ~WriteMetrics /\ ~Iterate /\ ~Pause /\ ~Resume
    BY <1>0 DEF ReadMetrics, WriteMetricsError, WriteMetrics, Iterate, RampPath, Pause, Resume,
                NoCommand
  <1> QED
    BY <1>5, <1>6, <1>7, <1>8, <1>9, <1>10, <1>11, <1>12, <1>13, <1>14 DEF Worker

\* A step that changes neither the route nor the weights in the status keeps the
\* ramp, if the worker goes on with its copy or starts anew.
LEMMA RampKept ==
    ASSUME LoopInv, Ramp, obj' \in Object, vs' = vs,
           obj'.status.weight = obj.status.weight,
           obj'.status.inited = obj.status.inited,
           obj'.status.completed = obj.status.completed,
           cache'.status.weight \in {cache.status.weight, obj.status.weight},
           pc' = "idle" \/ (pc' = pc /\ inst' = inst /\ (current' => current))
    PROVE  Ramp'
  <1>1. RampPath'
    BY DEF Ramp, RampPath
  <1>2. ASSUME ~obj.status.completed
        PROVE  RampStore' /\ RampCopy' /\ RampRoute'
    <2>1. RampStore'
      BY <1>2, Copies, BelowFacts, Weights DEF Ramp, RampStore
    <2>2. RampCopy'
      BY <1>2 DEF Ramp, RampCopy, Ramping
    <2>3. RampRoute'
      BY <1>2 DEF Ramp, RampRoute
    <2> QED
      BY <2>1, <2>2, <2>3
  <1> QED
    BY <1>1, <1>2 DEF Ramp

LEMMA RampByEnvironment ==
    ASSUME Facts, [Next]_vars, ~Worker, Calm', Ramp
    PROVE  Ramp'
  <1>0. /\ LoopInv /\ DeletingInv
        /\ obj \in Object /\ cache \in Object /\ obj' \in Object
        /\ ~(\E t : TargetEvent(t))
    <2>1. LoopInv /\ DeletingInv
      BY DEF Facts
    <2>2. obj' \in Object
      BY <2>1, StoreStep DEF LoopInv, StoreOK
    <2> QED
      BY <2>1, <2>2, Copies, CalmStep
  <1>1. CASE Sync \/ TimerFires \/ UNCHANGED vars
    <2>1. /\ obj' = obj /\ cache' \in {cache, obj} /\ vs' = vs
          /\ pc' = pc /\ inst' = inst /\ current' = current
      BY <1>1 DEF Sync, TimerFires, vars, store, rules, worker
    <2> QED
      BY <1>0, <2>1, RampKept
  <1>2. CASE IntervalElapses
    <2> DEFINE elapsed(x) == [x EXCEPT !.status.last = IF @ = "recent" THEN "elapsed" ELSE @]
    <2>1. ASSUME NEW x \in Object
          PROVE  /\ elapsed(x).status.weight = x.status.weight
                 /\ elapsed(x).status.inited = x.status.inited
                 /\ elapsed(x).status.completed = x.status.completed
      BY DEF Object, Status
    <2>2. /\ pc = "idle" /\ obj' = elapsed(obj) /\ cache' = elapsed(cache)
          /\ vs' = vs /\ pc' = pc
      BY <1>2 DEF IntervalElapses, rules, worker
    <2> HIDE DEF elapsed
    <2> QED
      BY <1>0, <2>1, <2>2, RampKept
  <1>3. ASSUME NEW new, UserChange(new), User
        PROVE  Ramp'
    <2>1. obj'.status = obj.status
      BY <1>0, <1>3, UserWrites DEF LoopInv
    <2>2. cache' = cache /\ vs' = vs /\ pc' = pc /\ inst' = inst /\ ~current'
      BY <1>3 DEF UserChange, Store, rules
    <2> QED
      BY <1>0, <2>1, <2>2, RampKept
  <1>4. CASE Crash
    <2>1. obj' = obj /\ cache' = obj /\ vs' = vs /\ pc' = "idle"
      BY <1>4 DEF Crash, Return, rules
    <2> QED
      BY <1>0, <2>1, RampKept
  <1>5. User => (\E new : UserChange(new)) \/ (\E t : TargetEvent(t))
    BY DEF User, Override, Delete
  <1> QED
    BY <1>0, <1>1, <1>2, <1>3, <1>4, <1>5 DEF Next

LEMMA RampStep ==
    /\ LoopInv /\ PairInv /\ DeletingInv /\ PlainInv /\ ReleaseInv /\ RampInv /\ [Next]_vars
    => RampInv'
  <1> SUFFICES ASSUME LoopInv, PairInv, DeletingInv, PlainInv, ReleaseInv, RampInv, [Next]_vars,
                      ~Criteria, Calm'
               PROVE  Ramp'
    BY DEF RampInv
  <1>1. Facts /\ faults' = 0 /\ Ramp
    BY CalmStep DEF Facts, PlainInv, ReleaseInv, Calm, RampInv
  <1>2. CASE Worker
    <2>1. RampPath'
      BY <1>1, <1>2, RampPathByWorker DEF Ramp
    <2>2. ASSUME ~obj'.status.completed
          PROVE  RampStore' /\ RampCopy' /\ RampRoute'
      <3>1. ~obj.status.completed
        BY <2>2, OutcomeStep
      <3> QED
        BY <1>1, <1>2, <2>2, <3>1, RampStoreByWorker, RampRouteByWorker, RampCopyByWorker
    <2> QED
      BY <2>1, <2>2 DEF Ramp
  <1> QED
    BY <1>1, <1>2, RampByEnvironment

LEMMA RampInit == Init => RampInv
  <1> SUFFICES ASSUME Init
               PROVE  Ramp
    BY DEF RampInv
  <1>1. PICK valid \in Validity : obj = [NewObject EXCEPT !.valid = valid]
    BY DEF Init
  <1>2. obj \in Object /\ obj.status = EmptyStatus /\ cache = obj /\ pc = "idle"
    <2>1. obj.status = NewObject.status
      BY <1>1, NewType DEF Object
    <2>2. NewObject.status = EmptyStatus
      BY DEF NewObject
    <2>3. obj \in Object
      BY InitType DEF TypeOK
    <2>4. cache = obj /\ pc = "idle"
      BY DEF Init
    <2> QED
      BY <2>1, <2>2, <2>3, <2>4
  <1>3. EmptyStatus.weight = NoTraffic
    BY DEF EmptyStatus
  <1>4. ~Owned(vs)
    BY ReleasedInit DEF Released
  <1> QED
    BY <1>2, <1>3, <1>4, BelowFacts, Weights
       DEF Ramp, RampPath, RampStore, RampCopy, RampRoute, Ramping

LEMMA RampInvariant == Spec => [](ReleaseInv /\ RampInv)
  <1>1. LoopInv /\ PairInv /\ DeletingInv /\ PlainInv /\ ReleaseInv /\ RampInv /\ [Next]_vars
            => RampInv'
    BY RampStep
  <1> QED
    BY <1>1, RampInit, PlainInvariant, ReleaseInvariant, PTL DEF Spec

\* Without criteria the route never runs ahead of the recorded status by more than
\* one increment, if nothing but a deletion disturbs the experiment.  A conflict or a
\* restart loses the status of an iteration that the route shows already, and a
\* reconcile may start from a status that lags: each shifts the weights of its copy,
\* which are never ahead of the recorded ones when it starts (processIteration).
THEOREM RampStaysBounded ==
    Spec => [](/\ ~Criteria /\ (edits = 0 \/ (edits = 1 /\ obj.deleting))
               /\ targetEvents = 0 /\ faults = 0 /\ (RequireDR => crashes = 0)
               => RampBounded)
  <1>1. ReleaseInv /\ RampInv =>
            (/\ ~Criteria /\ (edits = 0 \/ (edits = 1 /\ obj.deleting))
             /\ targetEvents = 0 /\ faults = 0 /\ (RequireDR => crashes = 0)
             => RampBounded)
    BY DEF ReleaseInv, RampInv, Calm, Uncommanded, Done, Released, Ramp, RampRoute, Owned,
           Below, RampBounded
  <1> QED
    BY <1>1, RampInvariant, PTL
=================================================================================
