------------------------------ MODULE MCAdapter ------------------------------
(* Two experiments over three target keys, with service sections of both     *)
(* kinds that overlap in every role.                                         *)
EXTENDS Adapter, TLC

CONSTANTS t1, t2, t3, e1, e2

MCSpecs ==
    {[kind |-> "Service",    name |-> t1,  baseline |-> t2, candidates |-> {t3}],
     [kind |-> "Service",    name |-> Nil, baseline |-> t3, candidates |-> {}],
     [kind |-> "Deployment", name |-> t1,  baseline |-> t1, candidates |-> {t3}]}

\* Two experiments on Deployments with one candidate in common.
MCDeployments ==
    {[kind |-> "Deployment", name |-> t1,  baseline |-> t1, candidates |-> {t3}],
     [kind |-> "Deployment", name |-> Nil, baseline |-> t2, candidates |-> {t3}]}

ExperimentSymmetry == Permutations(Experiments)
==============================================================================
