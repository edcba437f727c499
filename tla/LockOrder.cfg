SPECIFICATION Spec
CONSTANT Clients = {c1, c2, c3}
SYMMETRY ClientSymmetry
INVARIANTS
    CirclesStoreResults
    OverwritesAreKnown
CHECK_DEADLOCK FALSE
