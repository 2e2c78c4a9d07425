------------------------------ MODULE IstioRules ------------------------------
(***************************************************************************)
(* The routing rules of one router: a VirtualService and, when versions    *)
(* are Deployments, a DestinationRule                                      *)
(* (pkg/controller/experiment/routing/router/istio).  The experiment label *)
(* is on a rule exactly while its role is initializing or progressing.     *)
(***************************************************************************)
EXTENDS ExperimentAPI

CONSTANT RequireDR  \* requireDestinationRule: kind Deployment, not Service

ASSUME RequireDRAssumption == RequireDR \in BOOLEAN

Roles == {"absent", "stable", "initializing", "progressing"}
VirtualService == [role : Roles, init : BOOLEAN, weight : Traffic]
DestinationRule == [role : Roles, init : BOOLEAN]

AbsentVS == [role |-> "absent", init |-> FALSE, weight |-> NoTraffic]
AbsentDR == [role |-> "absent", init |-> FALSE]

\* haveLabels: both rules carry the role, when both are used.
HaveRole(vs, dr, role) == vs.role = role /\ (RequireDR => dr.role = role)
isProgressing(vs, dr) == HaveRole(vs, dr, "progressing")
isInitializing(vs, dr) == HaveRole(vs, dr, "initializing")
isInit(vs, dr) == vs.init /\ (RequireDR => dr.init)

Owned(rule) == rule.role \in {"initializing", "progressing"}

\* validateAndInit: the pairs of rules Fetch accepts.  A missing rule will be
\* created by UpdateRouteWithBaseline.
FetchAccepts(vs, dr) ==
    RequireDR =>
        \/ vs.role = "absent" /\ dr.role = "absent"
        \/ vs.role = "stable" /\ dr.role \in {"stable", "absent"}
        \/ Owned(vs) /\ Owned(dr)

\* UpdateRouteWithBaseline creates a rule that Fetch made up with the init
\* label; it takes any rule with that label for one to create.
ToCreate(rule) == rule.role = "absent" \/ rule.init

WithInitializing(rule) ==
    [rule EXCEPT !.role = "initializing", !.init = rule.init \/ rule.role = "absent"]

WithProgressing(rule) == [rule EXCEPT !.role = "progressing"]

\* WithStableLabel and RemoveExperimentLabel, which removes the init label too.
WithStable(rule) == [rule EXCEPT !.role = "stable", !.init = FALSE]

\* The route sends all traffic to baseline; candidates are added with weight 0.
WithBaseline(vs) == [WithInitializing(vs) EXCEPT !.weight = AllTo(Baseline)]

\* UpdateRouteToStable sends the final traffic only from progressing rules.
FinalTraffic(vs, dr, weight) ==
    IF isProgressing(vs, dr) THEN [vs EXCEPT !.weight = weight] ELSE vs
==============================================================================
