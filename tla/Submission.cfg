SPECIFICATION Spec
CONSTANTS
    Workers = {w1}
    Steps = {r1, r2}
    NoStep = NoStep
    MaxAttempts = 2
    MaxEvents = 3
    MaxCrashes = 1
    MaxFaults = 2
SYMMETRY Symmetry
INVARIANTS
    SubmittedIsReal
    ExtraActivitiesAreExplained
    AtMostOneOpenRequest
    RequestFollowsRow
CHECK_DEADLOCK FALSE
