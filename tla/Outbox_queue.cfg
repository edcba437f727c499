SPECIFICATION FairOutboxSpec
CONSTANTS
    Workers = {w1}
    Steps = {}
    NoStep = NoStep
    MaxAttempts = 2
    MaxEvents = 3
    MaxCrashes = 1
INVARIANTS
    AttemptsBoundedByCrashes
PROPERTIES
    
    EveryEventSettles
CHECK_DEADLOCK FALSE
