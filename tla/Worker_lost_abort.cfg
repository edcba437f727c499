SPECIFICATION Spec
CONSTANTS
    Workers = {w1}
    Steps = {s1, s2}
    NoStep = NoStep
    Verdicts = {"allowed"}
    Phases = {"diagnostic", "validation"}
    MaxAttempts = 2
    MaxEvents = 4
    MaxCrashes = 0
    MaxErrors = 0
PROPERTY
    AbortedIsFinal
CHECK_DEADLOCK FALSE
