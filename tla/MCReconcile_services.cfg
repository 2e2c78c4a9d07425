SPECIFICATION FairSpec
CONSTANTS
    b = b
    c = c
    d = d
    Baseline = b
    Candidates = {c, d}
    Service = service
    NoWinner = NoWinner
    NoSplit = NoSplit
    Splits <- MCSplits
    Responses <- UsableResponses
    Validity = {TRUE}
    RequireDR = FALSE
    Criteria = TRUE
    Cleanup = FALSE
    OnTermination = "to_winner"
    MaxIterations = 3
    MaxIncrement = 50
    MaxEdits = 1
    MaxTargetEvents = 0
    MaxFaults = 0
    MaxCrashes = 0
CHECK_DEADLOCK FALSE
INVARIANTS
    CompletedReleasesRules
PROPERTIES
    PauseTakesEffect
    ExperimentEnds
