-------------------------- MODULE ExperimentLifecycle --------------------------
(***************************************************************************)
(* An experiment as its user sees it in the status: it starts once, counts *)
(* its iterations one by one while it progresses, may be paused and go on, *)
(* ends once with an outcome that stays, and may be deleted at any time.   *)
(***************************************************************************)
EXTENDS Integers

CONSTANTS
    Limit,     \* the iterations of the experiment
    Outcomes,  \* the final distributions of the traffic
    Undecided  \* no outcome yet

VARIABLES
    stage,      \* new, progressing, paused, completed, gone
    iteration,  \* the iterations recorded
    outcome     \* where the traffic goes in the end

vars == <<stage, iteration, outcome>>

Active == {"progressing", "paused"}

Init == stage = "new" /\ iteration = 0 /\ outcome = Undecided

\* A new experiment starts, or is refused.
Start ==
    /\ stage = "new" /\ stage' \in Active
    /\ UNCHANGED <<iteration, outcome>>

\* One more iteration.  A paused experiment that is resumed may be seen only
\* after the iteration that follows.
Iterate ==
    /\ stage \in Active /\ iteration < Limit
    /\ stage' = "progressing" /\ iteration' = iteration + 1
    /\ UNCHANGED outcome

Pause ==
    /\ stage = "progressing" /\ stage' = "paused"
    /\ UNCHANGED <<iteration, outcome>>

Resume ==
    /\ stage = "paused" /\ stage' = "progressing"
    /\ UNCHANGED <<iteration, outcome>>

Complete ==
    /\ stage \in Active /\ stage' = "completed"
    /\ outcome' \in Outcomes
    /\ UNCHANGED iteration

Delete ==
    /\ stage # "gone" /\ stage' = "gone"
    /\ UNCHANGED <<iteration, outcome>>

Next == Start \/ Iterate \/ Pause \/ Resume \/ Complete \/ Delete

Spec == Init /\ [][Next]_vars
================================================================================
