SPECIFICATION Spec
CONSTANTS
    Uploads = {u1}
    Users = {alice}
    alice = alice
    Owner <- MCOwner
    Tasks = {t1, t2}
    Files = {f1}
    Chunks = {c1, c2}
    Ops <- OverlapOps
SYMMETRY TaskSymmetry
INVARIANTS
    SingleFinalizer
    StagedUntilPurged
    ReportReceived
CHECK_DEADLOCK FALSE
