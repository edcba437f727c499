SPECIFICATION Spec
CONSTANTS
    Workers = {w1, w2}
    Steps = {s1, s2}
    NoStep = NoStep
    Verdicts = {"allowed", "blocked"}
    Phases = {"diagnostic", "fix"}
    MaxAttempts = 2
    MaxEvents = 3
    MaxCrashes = 0
    MaxErrors = 0
SYMMETRY Symmetry
VIEW LiveState
INVARIANTS
    
    CommandRunsAtMostOnce
    ApprovedCommandKeepsItsRow
    BusyRunHasApprovedStep
    OneRunnerPerCommand
    DoneCommandIsSettled
CHECK_DEADLOCK FALSE
