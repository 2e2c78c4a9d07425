SPECIFICATION Spec
CONSTANTS
    t1 = t1
    t2 = t2
    t3 = t3
    e1 = e1
    e2 = e2
    Nil = Nil
    Targets = {t1, t2, t3}
    Experiments = {e1, e2}
    Specs <- MCSpecs
    Events = {"detected"}
SYMMETRY ExperimentSymmetry
INVARIANTS
    TypeOK
    NoDanglingEntry
    ServiceKeysRouted
    MarkReachesQueue
