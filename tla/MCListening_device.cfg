\* Two tracks heard in three listens, and a cache for one of them.
CONSTANTS
  Tracks = {t1, t2}
  NoTrack = NoTrack
  Chunks = 1
  MaxEntries = 1
  MaxAttempts = 2
  Tasks <- Listens
  Plays <- Listens
  Flushes = {f1, f2}
  FlushBatch = 2
  Devices <- Apart
  MaxBroken = 2
  MaxFaults = 3
SPECIFICATION Spec
INVARIANTS CompleteIsWhole ClaimsTended PlaysAccountedFor CountedOnce
PROPERTIES Drained
CHECK_DEADLOCK FALSE
