SPECIFICATION Spec
CONSTANTS
    None = None
    Locals = {l1}
    Remotes = {p1, p2}
    Saved = {p1}
    Names = {n1}
    Tracks = {a}
    Calls = {x}
    Kinds <- FaultKinds
    Faults <- AllFaults
    MaxEdits = 2
    MaxFaults = 2
    MaxLen = 1
INVARIANTS
    EditsAccountedFor
    AppliedInOrder
CHECK_DEADLOCK FALSE
