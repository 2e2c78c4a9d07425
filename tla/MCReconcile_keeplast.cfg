SPECIFICATION Spec
CONSTANTS
    b = b
    c = c
    d = d
    Baseline = b
    Candidates = {c}
    Service = service
    NoWinner = NoWinner
    NoSplit = NoSplit
    Splits <- MCSplits
    Responses <- MCResponses
    Validity = {TRUE}
    RequireDR = TRUE
    Criteria = FALSE
    Cleanup = FALSE
    OnTermination = "keep_last"
    MaxIterations = 1
    MaxIncrement = 25
    MaxEdits = 0
    MaxTargetEvents = 0
    MaxFaults = 0
    MaxCrashes = 1
CHECK_DEADLOCK FALSE
PROPERTIES
    KeepsLastTraffic
