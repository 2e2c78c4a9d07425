SPECIFICATION Spec
CONSTANTS
    b = b
    c = c
    d = d
    Baseline = b
    Candidates = {c}
    Service = service
    NoWinner = NoWinner
    NoSplit = NoSplit
    Splits <- MCSplits
    Responses <- MCResponses
    Validity = {TRUE}
    RequireDR = TRUE
    Criteria = TRUE
    Cleanup = FALSE
    OnTermination = "to_winner"
    MaxIterations = 1
    MaxIncrement = 50
    MaxEdits = 0
    MaxTargetEvents = 1
    MaxFaults = 0
    MaxCrashes = 0
CHECK_DEADLOCK FALSE
INVARIANTS
    EntryOfActive
