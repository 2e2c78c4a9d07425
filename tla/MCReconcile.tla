----------------------------- MODULE MCReconcile -----------------------------
(* Small instances of the reconcile loop: a baseline b, candidates among c   *)
(* and d.                                                                    *)
EXTENDS Reconcile

CONSTANTS b, c, d

Half == [v \in Versions |-> IF v \in {b, c} THEN 50 ELSE 0]
MCSplits == {Half}

\* The analytics service moves half of the traffic to c, or all of it; forgets
\* what it recommends for the candidates; rolls c back.
MCResponses ==
    {[rollback |-> {}, winner |-> NoWinner, covered |-> Versions, split |-> Half],
     [rollback |-> {}, winner |-> c, covered |-> Versions, split |-> AllTo(c)],
     [rollback |-> {}, winner |-> b, covered |-> {b}, split |-> AllTo(b)],
     [rollback |-> {c}, winner |-> b, covered |-> Versions, split |-> AllTo(b)]}

\* Answers that recommend a weight for every version.
UsableResponses == {r \in MCResponses : r.covered = Versions}

\* Answers that end the experiment in its first iteration.
RollbackResponses == {r \in MCResponses : r.rollback # {}}
==============================================================================
