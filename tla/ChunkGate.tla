----------------------------- MODULE ChunkGate -----------------------------
(***************************************************************************)
(* How many chunks of an upload are in flight: the semaphore of            *)
(* commands/upload_commands.rs that a change of the Networking setting     *)
(* resizes while it is in use.  tokio's semaphore serves its waiters in    *)
(* order, and one that wants many permits collects them as they come: here *)
(* it stands in line once for each of them.                                *)
(***************************************************************************)
EXTENDS Naturals, Sequences, FiniteSets

CONSTANTS
    Chunks,
    MaxPermits,  \* MAX_CHUNK_CONCURRENCY
    Default,     \* CHUNK_CONCURRENCY
    Nobody       \* who waits for a permit a shrink takes back

ASSUME PermitsAssumption == MaxPermits \in Nat \ {0} /\ Default \in 1..MaxPermits /\ Nobody \notin Chunks

VARIABLES
    target,   \* UploadConcurrency.target
    settings, \* values set_target has stored and not yet applied
    applied,  \* LiveConcurrency.applied, 0 while no upload is registered
    free,     \* permits nobody holds
    queue,    \* who waits for a permit: a chunk, or Nobody for a shrink
    held      \* chunks with a permit

gateVars == <<target, settings, applied, free, queue, held>>

Permits == 1..MaxPermits
Shrink(n) == [i \in 1..n |-> Nobody]
Surplus == Cardinality({i \in DOMAIN queue : queue[i] = Nobody})

GateInit ==
    /\ target = Default /\ settings = {}
    /\ applied = 0 /\ free = 0 /\ queue = <<>> /\ held = {}

\* set_target, up to the lock on `live'.
SetTarget(n) ==
    /\ n \in Permits
    /\ target' = n /\ settings' = settings \cup {n}
    /\ UNCHANGED <<applied, free, queue, held>>

\* Mutant: permits are taken back from those that are free, now or never.
ResizeNow(n) ==
    /\ n \in settings
    /\ settings' = settings \ {n}
    /\ applied' = IF applied = 0 THEN 0 ELSE n
    /\ free' = IF applied = 0 THEN free
               ELSE IF n >= applied THEN free + (n - applied)
               ELSE IF free > applied - n THEN free - (applied - n) ELSE 0
    /\ UNCHANGED <<target, queue, held>>

\* resize_semaphore: growing adds permits, shrinking waits in line for the surplus.
Resize(n) ==
    /\ n \in settings
    /\ settings' = settings \ {n}
    /\ applied' = IF applied = 0 THEN 0 ELSE n
    /\ free' = IF applied # 0 /\ n > applied THEN free + (n - applied) ELSE free
    /\ queue' = IF n < applied THEN queue \o Shrink(applied - n) ELSE queue
    /\ UNCHANGED <<target, held>>

\* Semaphore::new and register
OpenGate(n) ==
    /\ applied' = n /\ free' = n /\ queue' = <<>> /\ held' = {}
    /\ UNCHANGED <<target, settings>>

\* The job is over: its futures are dropped, and the registration with them.
CloseGate ==
    /\ applied' = 0 /\ free' = 0 /\ queue' = <<>> /\ held' = {}
    /\ UNCHANGED <<target, settings>>

Ask(c) ==
    /\ queue' = Append(queue, c)
    /\ UNCHANGED <<target, settings, applied, free, held>>

\* A permit for the first in line; a shrink forgets what it is given.
Grant ==
    /\ queue # <<>> /\ free > 0
    /\ free' = free - 1 /\ queue' = Tail(queue)
    /\ held' = held \cup ({Head(queue)} \ {Nobody})
    /\ UNCHANGED <<target, settings, applied>>

Release(c) ==
    /\ held' = held \ {c} /\ free' = free + 1
    /\ UNCHANGED <<target, settings, applied, queue>>

\* The futures that remain are dropped, with their permits and their places in line.
DropAll ==
    /\ held' = {} /\ free' = free + Cardinality(held)
    /\ queue' = Shrink(Surplus)
    /\ UNCHANGED <<target, settings, applied>>

-----------------------------------------------------------------------------

\* `applied' is the truth about the permits, however resizes and chunks overlap: what is
\* free or held is what was applied, and the surplus that shrinks are still waiting for.
Conserved == applied # 0 => free + Cardinality(held) = applied + Surplus
=============================================================================
