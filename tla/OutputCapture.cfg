SPECIFICATION FairSpec
CONSTANTS
    SliceBytes = 2
    Limit = 5
    WindowBytes = 3
INVARIANTS
    RowIsAccountable
    CompletedIsWhole
PROPERTY QuietCommandEnds
CHECK_DEADLOCK FALSE
