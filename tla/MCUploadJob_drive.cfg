SPECIFICATION FairSpec
CONSTANTS
    Chunks = {1, 2}
    MaxPermits = 2
    Default = 2
    Uploads = {u1}
    None = None
    Nobody = Nobody
    PollEvery = 1
    Faults = {"down", "lost", "crash", "change"}
    MaxFaults = 1
    MaxCommands = 2
INVARIANTS
    Conserved
    CompletedHasAll
    SourceKept
PROPERTIES
    UploadEnds
CHECK_DEADLOCK FALSE
