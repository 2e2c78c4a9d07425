SPECIFICATION Spec
CONSTANTS
    Channels = {ch1, ch2}
    RawConfigs <- MCRawConfigs
    Malformed = Malformed
    Refused = Refused
    Nil = Nil
    Namespace = "ns"
    Labels = {"app"}
    Marks <- MCMarks
    MaxChanges = 2
    MaxMarks = 1
    MaxCrashes = 1
CHECK_DEADLOCK FALSE
INVARIANTS
    ErrorsOnlyLogged
