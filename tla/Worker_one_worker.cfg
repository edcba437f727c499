SPECIFICATION Spec
CONSTANTS
    Workers = {w1}
    Steps = {s1, s2}
    NoStep = NoStep
    Verdicts = {"allowed", "blocked"}
    Phases = {"diagnostic", "validation"}
    MaxAttempts = 1
    MaxEvents = 4
    MaxCrashes = 1
    MaxErrors = 1
SYMMETRY StepSymmetry
VIEW LiveState
INVARIANTS
    TypeOK
    PendingStepIsProposed
PROPERTIES
    OutboxSpec
    OnlyPendingStepIsDecided
    AbandonedCommandNeverStarts
CHECK_DEADLOCK FALSE
