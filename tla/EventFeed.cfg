SPECIFICATION Spec
CONSTANTS
    Lockers = {"technician", "planner"}
    Others = {"chunks"}
    MaxEvents = 3
    MaxDisturbances = 2
INVARIANTS
    LockedEventsAreStreamed
PROPERTY ScreenShowsTheLog
CHECK_DEADLOCK FALSE
