SPECIFICATION Spec
CONSTANTS
    b = b
    c = c
    d = d
    Baseline = b
    Candidates = {c}
    Service = service
    NoWinner = NoWinner
    NoSplit = NoSplit
    Splits <- MCSplits
    Responses <- MCResponses
    Validity = {TRUE}
    RequireDR = TRUE
    Criteria = TRUE
    Cleanup = TRUE
    OnTermination = "to_winner"
    MaxIterations = 1
    MaxIncrement = 50
    MaxEdits = 0
    MaxTargetEvents = 0
    MaxFaults = 0
    MaxCrashes = 0
CHECK_DEADLOCK FALSE
PROPERTIES
    CleanupSparesTraffic
