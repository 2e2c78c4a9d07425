SPECIFICATION FairSpec
CONSTANTS
    b = b
    c = c
    d = d
    Baseline = b
    Candidates = {c}
    Service = service
    NoWinner = NoWinner
    NoSplit = NoSplit
    Splits <- MCSplits
    Responses <- MCResponses
    Validity = {TRUE, FALSE}
    RequireDR = TRUE
    Criteria = TRUE
    Cleanup = TRUE
    OnTermination = "keep_last"
    MaxIterations = 1
    MaxIncrement = 50
    MaxEdits = 1
    MaxTargetEvents = 0
    MaxFaults = 1
    MaxCrashes = 1
CHECK_DEADLOCK FALSE
INVARIANTS
    CopyRelated
    RefusedOwnsNothing
    TrafficConserved
PROPERTIES
    CompletionFinal
    IterationsCounted
    ImplementsLifecycle
    EndsWithReason
    DeletionEnds
    TerminationEnds
    AbortTakesEffect
