------------------------------ MODULE Prefetch ------------------------------
(***************************************************************************)
(* The app's look-ahead cache: a task downloads the next track into a file *)
(* named after it, and the loopback server answers from that file once the *)
(* task has marked it complete.  The table of entries is behind a mutex,   *)
(* the tasks and the files are not: an entry that is evicted takes its     *)
(* file's name away under a task that still writes to it.                  *)
(*                                                                         *)
(* A file is an inode with the set of chunks it holds; every copy of a     *)
(* track has the same chunks.  Files are those of a system where unlinking *)
(* an open file succeeds.                                                  *)
(***************************************************************************)
EXTENDS Integers, FiniteSets, Sequences, SequencesExt

CONSTANTS
    Tracks,
    Chunks,      \* a track is the chunks 1..Chunks
    MaxEntries,
    MaxAttempts,
    Tasks,       \* ids of the tasks of a behaviour, 1..n
    NoTrack

ASSUME PrefetchAssumption ==
    /\ NoTrack \notin Tracks
    /\ Chunks \in Nat \ {0} /\ MaxEntries \in Nat \ {0} /\ MaxAttempts \in Nat \ {0}
    /\ Tasks = 1..Cardinality(Tasks)

VARIABLES
    entries, \* per track: "none", "claimed" or "complete"
    order,   \* the tracks of the entries, oldest claim first
    path,    \* per track: the inode its path names, or NoInode
    data,    \* per inode: the chunks in it
    task,    \* the prefetch tasks
    doubled, \* tracks claimed while an earlier task was still at work on them
    broken   \* bound: downloads that broke off so far

cacheVars == <<entries, order, path, data, task, doubled, broken>>

NoInode == 0
Inodes == 1..(Cardinality(Tasks) + Cardinality(Tracks))
Whole == 1..Chunks
Asleep == [track |-> NoTrack, pc |-> "new", inode |-> NoInode, at |-> 0, tries |-> 0]
AtWork(t) == {k \in Tasks : task[k].track = t /\ task[k].pc \in {"claimed", "writing"}}
FreeInodes == Inodes \ ({path[t] : t \in Tracks} \cup {task[k].inode : k \in Tasks})

CacheTypeOK ==
    /\ entries \in [Tracks -> {"none", "claimed", "complete"}]
    /\ order \in Seq(Tracks)
    /\ path \in [Tracks -> Inodes \cup {NoInode}]
    /\ data \in [Inodes -> SUBSET Whole]
    /\ task \in [Tasks -> [track : Tracks \cup {NoTrack},
                           pc : {"new", "asked", "claimed", "writing", "over"},
                           inode : Inodes \cup {NoInode}, at : 0..Chunks, tries : Nat]]
    /\ doubled \subseteq Tracks

CacheInit ==
    /\ entries = [t \in Tracks |-> "none"] /\ order = <<>>
    /\ path = [t \in Tracks |-> NoInode]
    /\ data = [i \in Inodes |-> {}]
    /\ task = [k \in Tasks |-> Asleep]
    /\ doubled = {} /\ broken = 0

Ends(k) == task' = [task EXCEPT ![k] = [Asleep EXCEPT !.pc = "over"]]

\* player_prefetch spawns the task: run, up to the claim.  A track that is
\* downloaded needs none.
Spawn(k, t, here) ==
    /\ task[k].pc = "new"
    /\ task' = [task EXCEPT ![k] = IF here THEN [Asleep EXCEPT !.pc = "over"]
                                    ELSE [Asleep EXCEPT !.track = t, !.pc = "asked"]]
    /\ UNCHANGED <<entries, order, path, data, doubled, broken>>

\* claim: the oldest entries past the cap go, and so do their files.
Claim(k) ==
    LET t == task[k].track
        line == Append(order, t)
        out == IF Len(line) > MaxEntries THEN ToSet(SubSeq(line, 1, Len(line) - MaxEntries)) ELSE {}
    IN /\ task[k].pc = "asked" /\ entries[t] = "none"
       /\ order' = SubSeq(line, 1 + Cardinality(out), Len(line))
       /\ entries' = [u \in Tracks |-> IF u = t THEN "claimed" ELSE IF u \in out THEN "none" ELSE entries[u]]
       /\ path' = [u \in Tracks |-> IF u \in out THEN NoInode ELSE path[u]]
       /\ task' = [task EXCEPT ![k].pc = "claimed"]
       /\ doubled' = IF AtWork(t) = {} THEN doubled ELSE doubled \cup {t}
       /\ UNCHANGED <<data, broken>>

\* The track is in the cache or on its way.
Known(k) ==
    /\ task[k].pc = "asked" /\ entries[task[k].track] # "none"
    /\ Ends(k)
    /\ UNCHANGED <<entries, order, path, data, doubled, broken>>

\* The answer has come; File::create makes the file, or empties the one there.
Create(k) ==
    /\ task[k].pc = "claimed"
    /\ LET t == task[k].track IN
       \E i \in IF path[t] = NoInode THEN {j \in FreeInodes : \A l \in FreeInodes : j <= l} ELSE {path[t]} :
          /\ path' = [path EXCEPT ![t] = i]
          /\ data' = [data EXCEPT ![i] = {}]
          /\ task' = [task EXCEPT ![k].pc = "writing", ![k].inode = i, ![k].at = 0]
    /\ UNCHANGED <<entries, order, doubled, broken>>

\* A chunk of the body is written where this task's handle stands.
Write(k) ==
    /\ task[k].pc = "writing" /\ task[k].at < Chunks
    /\ data' = [data EXCEPT ![task[k].inode] = @ \cup {task[k].at + 1}]
    /\ task' = [task EXCEPT ![k].at = @ + 1]
    /\ UNCHANGED <<entries, order, path, doubled, broken>>

\* Mutant: the entry is complete when the answer's headers are there.
MarkEarly(k) ==
    LET t == task[k].track IN
    /\ task[k].pc = "writing"
    /\ entries' = [entries EXCEPT ![t] = IF @ = "none" THEN @ ELSE "complete"]
    /\ IF task[k].at = Chunks
       THEN Ends(k) /\ UNCHANGED data
       ELSE /\ data' = [data EXCEPT ![task[k].inode] = @ \cup {task[k].at + 1}]
            /\ task' = [task EXCEPT ![k].at = @ + 1]
    /\ UNCHANGED <<order, path, doubled, broken>>

\* mark_complete, by the name of the track: whoever claimed the entry.
MarkComplete(k) ==
    LET t == task[k].track IN
    /\ task[k].pc = "writing" /\ task[k].at = Chunks
    /\ entries' = [entries EXCEPT ![t] = IF @ = "none" THEN @ ELSE "complete"]
    /\ Ends(k)
    /\ UNCHANGED <<order, path, data, doubled, broken>>

\* The request or its body fails, and there is another attempt.
Retry(k) ==
    /\ task[k].pc \in {"claimed", "writing"} /\ task[k].tries + 1 < MaxAttempts
    /\ broken' = broken + 1
    /\ task' = [task EXCEPT ![k].pc = "claimed", ![k].inode = NoInode, ![k].at = 0, ![k].tries = @ + 1]
    /\ UNCHANGED <<entries, order, path, data, doubled>>

\* Mutant: a task that gives up leaves its entry.
GiveUpSilently(k) ==
    /\ task[k].pc \in {"claimed", "writing"} /\ task[k].tries + 1 = MaxAttempts
    /\ broken' = broken + 1
    /\ Ends(k)
    /\ UNCHANGED <<entries, order, path, data, doubled>>

\* A line from which a track has gone, wherever it stood.
Without(line, t) ==
    LET upto[n \in 0..Len(line)] ==
          IF n = 0 THEN <<>>
          ELSE IF line[n] # t THEN Append(upto[n - 1], line[n]) ELSE upto[n - 1]
    IN  upto[Len(line)]

\* discard, after the last attempt or without a credential, by the name of the
\* track again.
Discard(k) ==
    LET t == task[k].track IN
    /\ \/ task[k].pc \in {"claimed", "writing"} /\ task[k].tries + 1 = MaxAttempts
       \/ task[k].pc = "claimed" /\ task[k].tries = 0
    /\ broken' = broken + 1
    /\ entries' = [entries EXCEPT ![t] = "none"]
    /\ order' = Without(order, t)
    /\ path' = IF entries[t] = "none" THEN path ELSE [path EXCEPT ![t] = NoInode]
    /\ Ends(k)
    /\ UNCHANGED <<data, doubled>>

Work(k) == Claim(k) \/ Known(k) \/ Create(k) \/ Write(k) \/ MarkComplete(k)
Breaks(k) == Retry(k) \/ Discard(k)

\* PrefetchCache::new, at the next launch: the directory is emptied.
Relaunch ==
    /\ entries' = [t \in Tracks |-> "none"] /\ order' = <<>>
    /\ path' = [t \in Tracks |-> NoInode]
    /\ data' = [i \in Inodes |-> {}]
    /\ task' = [k \in Tasks |-> IF task[k].pc = "new" THEN task[k] ELSE [Asleep EXCEPT !.pc = "over"]]
    /\ doubled' = {}
    /\ UNCHANGED broken

\* ready
Ready(t) == entries[t] = "complete"

-----------------------------------------------------------------------------
(* Properties.                                                             *)

\* What the cache calls complete is on disk to the last chunk, through
\* evictions, retries and tasks that give up (prefetch.rs:80), unless a track
\* was claimed again while its first task was at work.
CompleteIsWhole ==
    \A t \in Tracks : Ready(t) /\ t \notin doubled => path[t] # NoInode /\ data[path[t]] = Whole

\* A claim that is not complete has a task at work on it, even when two tasks
\* share it: otherwise the track could not be prefetched again before the next
\* launch (prefetch.rs, claim and discard).
Tended == \A t \in Tracks : entries[t] = "claimed" => AtWork(t) # {}

\* And the entries are the tracks in line for eviction, each once, and never
\* more than the cap.
ClaimsTended ==
    /\ Tended
    /\ ToSet(order) = {t \in Tracks : entries[t] # "none"}
    /\ IsInjective(order) /\ Len(order) <= MaxEntries

=============================================================================
