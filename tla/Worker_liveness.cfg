SPECIFICATION FairSpec
CONSTANTS
    Workers = {w1}
    Steps = {s1, s2}
    NoStep = NoStep
    Verdicts = {"allowed", "blocked"}
    Phases = {"diagnostic"}
    MaxAttempts = 2
    MaxEvents = 3
    MaxCrashes = 0
    MaxErrors = 0
PROPERTIES
    EveryRowIsHandled
    ApprovedCommandEnds
CHECK_DEADLOCK FALSE
