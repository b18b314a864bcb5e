SPECIFICATION FairSpec
CONSTANTS
    None = None
    Locals = {l1}
    Remotes = {p1, p2}
    Saved = {p1}
    Names = {n1, n2}
    Tracks = {a, b}
    Calls = {x}
    Kinds <- ApartKinds
    Faults = {"down"}
    MaxEdits = 2
    MaxFaults = 0
    MaxLen = 3
INVARIANTS
    AppliedOnce
    CacheAheadByQueue
PROPERTIES
    Drained
    EventuallyConsistent
CHECK_DEADLOCK FALSE
