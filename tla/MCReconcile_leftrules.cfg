SPECIFICATION Spec
CONSTANTS
    b = b
    c = c
    d = d
    Baseline = b
    Candidates = {c}
    Service = service
    NoWinner = NoWinner
    NoSplit = NoSplit
    Splits <- MCSplits
    Responses <- RollbackResponses
    Validity = {TRUE}
    RequireDR = TRUE
    Criteria = TRUE
    Cleanup = FALSE
    OnTermination = "to_winner"
    MaxIterations = 1
    MaxIncrement = 50
    MaxEdits = 0
    MaxTargetEvents = 0
    MaxFaults = 1
    MaxCrashes = 0
CHECK_DEADLOCK FALSE
INVARIANTS
    CompletedReleasesRules
