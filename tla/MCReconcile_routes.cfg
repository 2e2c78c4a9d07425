SPECIFICATION Spec
CONSTANTS
    b = b
    c = c
    d = d
    Baseline = b
    Candidates = {c, d}
    Service = service
    NoWinner = NoWinner
    NoSplit = NoSplit
    Splits <- MCSplits
    Responses <- MCResponses
    Validity = {TRUE}
    RequireDR = TRUE
    Criteria = FALSE
    Cleanup = FALSE
    OnTermination = "keep_last"
    MaxIterations = 2
    MaxIncrement = 25
    MaxEdits = 1
    MaxTargetEvents = 1
    MaxFaults = 0
    MaxCrashes = 0
CHECK_DEADLOCK FALSE
INVARIANTS
    TypeOK
    RulesPaired
    DeletedReleasesRules
    RampBounded
    TrafficConserved
