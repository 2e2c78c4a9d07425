SPECIFICATION FairSpec
CONSTANTS
    b = b
    c = c
    d = d
    Baseline = b
    Candidates = {c}
    Service = service
    NoWinner = NoWinner
    NoSplit = NoSplit
    Splits <- MCSplits
    Responses <- MCResponses
    Validity = {TRUE}
    RequireDR = FALSE
    Criteria = FALSE
    Cleanup = FALSE
    OnTermination = "to_winner"
    MaxIterations = 2
    MaxIncrement = 50
    MaxEdits = 0
    MaxTargetEvents = 0
    MaxFaults = 0
    MaxCrashes = 1
CHECK_DEADLOCK FALSE
PROPERTIES
    ExperimentEnds
