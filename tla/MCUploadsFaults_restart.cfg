SPECIFICATION FairSpec
CONSTANTS
    Uploads = {u1}
    Users = {alice}
    alice = alice
    Owner <- MCOwner
    Tasks = {t1}
    Files = {f1, f2}
    Chunks = {c1}
    Ops <- RestartOps
INVARIANTS
    ReportComplete
PROPERTIES
    
    AllLandedReported
CHECK_DEADLOCK FALSE
