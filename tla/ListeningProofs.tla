--------------------------- MODULE ListeningProofs ---------------------------
(***************************************************************************)
(* Theorems about listening: the plays, for any number of plays, flushes   *)
(* and devices and any size of a batch, and the look-ahead cache, for any  *)
(* tracks, tasks, chunks and any cap.                                      *)
(***************************************************************************)
EXTENDS Listening, SequenceTheorems, FiniteSetTheorems, TLAPS

-----------------------------------------------------------------------------
(* The outbox of plays                                                     *)

Batches == UNION {flush[f].batch : f \in Flushes}

FlushType == [pc : Pushing \cup {"idle", "delete"}, batch : SUBSET Plays,
              as : {"user", "key", "revoked", "none"}]

HistoryTyped ==
    /\ flush \in [Flushes -> FlushType]
    /\ recorded \in [Plays -> Nat] /\ session \in {"user", "key", "none"}
    /\ outbox \subseteq Plays /\ heard \subseteq Plays

\* Only what was heard is queued, pushed or counted.
OnlyHeard ==
    /\ outbox \subseteq heard /\ Batches \subseteq heard
    /\ \A p \in Plays : recorded[p] > 0 => p \in heard

\* An idle flush has no plays, and one about to delete its plays has an answer
\* for each of them.
Answered ==
    \A f \in Flushes :
        /\ flush[f].pc = "idle" => flush[f].batch = {}
        /\ flush[f].pc = "delete" =>
             \A p \in flush[f].batch : p \in refused \cup vanished \/ recorded[p] > 0

\* What two flushes have is doubtful.
Shared ==
    \A f, g \in Flushes : f # g => flush[f].batch \cap flush[g].batch \subseteq doubtful

\* A play that the server has, and about which there is no doubt, it has once;
\* nobody pushes it again, and it leaves the outbox with the flush that pushed it.
Once ==
    \A p \in Plays \ doubtful : recorded[p] > 0 =>
        /\ recorded[p] = 1
        /\ \A f \in Flushes : flush[f].pc \in Pushing => p \notin flush[f].batch
        /\ p \in outbox => \E g \in Flushes : flush[g].pc = "delete" /\ p \in flush[g].batch

HistoryInv ==
    HistoryTyped /\ OnlyHeard /\ Answered /\ Shared /\ Once /\ PlaysAccountedFor

LEMMA HistoryInitInv == Init => HistoryInv
<1> SUFFICES ASSUME Init PROVE HistoryInv
  OBVIOUS
<1>1. /\ outbox = {} /\ heard = {} /\ flush = [f \in Flushes |-> Still]
      /\ recorded = [p \in Plays |-> 0] /\ session \in {"user", "key"}
  BY ListeningAssumption DEF Init, HistoryInit
<1>2. Batches = {}
  BY <1>1 DEF Batches, Still
<1>3. HistoryTyped
  BY <1>1 DEF HistoryTyped, FlushType, Still, Pushing
<1>4. OnlyHeard
  BY <1>1, <1>2 DEF OnlyHeard
<1>5. Answered /\ Shared
  BY <1>1 DEF Answered, Shared, Still
<1>6. Once /\ PlaysAccountedFor
  BY <1>1 DEF Once, PlaysAccountedFor
<1> QED BY <1>3, <1>4, <1>5, <1>6 DEF HistoryInv

\* The plays are not touched by what the cache and the player do.
LEMMA HistoryQuiet == HistoryInv /\ UNCHANGED <<historyVars, heard>> => HistoryInv'
  BY DEF HistoryInv, HistoryTyped, OnlyHeard, Answered, Shared, Once, PlaysAccountedFor,
         Batches, historyVars

LEMMA CountKeeps == HistoryInv /\ Count => HistoryInv'
<1> SUFFICES ASSUME HistoryInv, Count PROVE HistoryInv'
  OBVIOUS
<1> USE DEF HistoryInv, HistoryTyped
<1>1. /\ listen \in Plays \ heard /\ heard' = heard \cup {listen} /\ outbox' = outbox \cup {listen}
      /\ UNCHANGED <<flush, session, recorded, vanished, refused, doubtful>>
  BY DEF Count, Record
<1>2. recorded[listen] = 0
  BY <1>1 DEF OnlyHeard
<1>3. Batches' = Batches
  BY <1>1 DEF Batches
<1>4. OnlyHeard'
  BY <1>1, <1>3 DEF OnlyHeard
<1>5. Answered' /\ Shared'
  BY <1>1 DEF Answered, Shared
<1>6. Once'
  BY <1>1, <1>2 DEF Once
<1>7. PlaysAccountedFor'
  BY <1>1 DEF PlaysAccountedFor
<1> QED BY <1>1, <1>4, <1>5, <1>6, <1>7

LEMMA FlushStartKeeps ==
    ASSUME HistoryInv, NEW f \in Flushes, FlushStart(f), heard' = heard
    PROVE  HistoryInv'
<1> USE DEF HistoryInv, HistoryTyped
<1> DEFINE batch == Oldest
<1>1. batch \subseteq outbox
  BY DEF Oldest
<1>2. /\ flush' = [flush EXCEPT ![f] = [pc |-> "grpc", batch |-> batch, as |-> session]]
      /\ doubtful' = doubtful \cup (batch \cap Batches)
      /\ flush[f].pc = "idle"
      /\ UNCHANGED <<outbox, session, recorded, vanished, refused>>
  BY DEF FlushStart, Batches
<1> HIDE DEF batch
<1>3. \A g \in Flushes : g # f => flush'[g] = flush[g]
  BY <1>2
<1>4. flush'[f] = [pc |-> "grpc", batch |-> batch, as |-> session]
  BY <1>2
<1>5. HistoryTyped'
  BY <1>1, <1>2 DEF FlushType, Pushing
<1>6. OnlyHeard'
  <2>1. Batches' \subseteq Batches \cup batch
    BY <1>3, <1>4 DEF Batches
  <2> QED BY <1>1, <1>2, <2>1 DEF OnlyHeard
<1>7. Answered'
  BY <1>2, <1>3, <1>4 DEF Answered
<1>8. Shared'
  <2>1. \A g \in Flushes : flush[g].batch \subseteq Batches
    BY DEF Batches
  <2> QED BY <1>2, <1>3, <1>4, <2>1 DEF Shared
<1>9. Once'
  <2> SUFFICES ASSUME NEW p \in Plays \ doubtful', recorded[p] > 0
               PROVE  /\ recorded[p] = 1
                      /\ \A g \in Flushes : flush'[g].pc \in Pushing => p \notin flush'[g].batch
                      /\ p \in outbox => \E g \in Flushes : flush'[g].pc = "delete" /\ p \in flush'[g].batch
    BY <1>2 DEF Once
  <2>1. p \in Plays \ doubtful
    BY <1>2
  <2>2. p \notin batch
    <3>1. ASSUME p \in batch PROVE p \in Batches
      BY <1>1, <2>1, <3>1 DEF Once, Batches
    <3> QED BY <1>2, <3>1
  <2> QED BY <1>2, <1>3, <1>4, <2>1, <2>2 DEF Once
<1>10. PlaysAccountedFor'
  BY <1>2 DEF PlaysAccountedFor
<1> QED BY <1>5, <1>6, <1>7, <1>8, <1>9, <1>10

\* A flush that leaves its plays, or ends.
LEMMA FlushGoesOn ==
    ASSUME HistoryTyped, NEW f \in Flushes, NEW r \in FlushType,
           flush' = [flush EXCEPT ![f] = r], r.batch \subseteq flush[f].batch
    PROVE  /\ \A g \in Flushes : g # f => flush'[g] = flush[g]
           /\ flush'[f] = r
           /\ flush' \in [Flushes -> FlushType]
           /\ Batches' \subseteq Batches
  BY DEF HistoryTyped, Batches

LEMMA AcceptedKeeps ==
    ASSUME HistoryInv, NEW f \in Flushes, Accepted(f), heard' = heard
    PROVE  HistoryInv'
<1> USE DEF HistoryInv, HistoryTyped
<1> DEFINE r == [flush[f] EXCEPT !.pc = "delete"]
<1>1. /\ flush[f].pc \in Pushing /\ flush' = [flush EXCEPT ![f] = r]
      /\ recorded' = [p \in Plays |-> IF p \in flush[f].batch \ vanished THEN recorded[p] + 1 ELSE recorded[p]]
      /\ UNCHANGED <<outbox, session, vanished, refused, doubtful>>
  BY DEF Accepted, Inserts
<1>2. r \in FlushType /\ r.batch = flush[f].batch /\ r.pc = "delete"
  BY DEF FlushType
<1> HIDE DEF r
<1>3. /\ \A g \in Flushes : g # f => flush'[g] = flush[g]
      /\ flush'[f] = r
      /\ flush' \in [Flushes -> FlushType]
      /\ Batches' \subseteq Batches
  BY <1>1, <1>2, FlushGoesOn
<1>4. HistoryTyped'
  BY <1>1, <1>3
<1>5. \A p \in Plays : recorded'[p] >= recorded[p]
  BY <1>1
<1>6. OnlyHeard'
  <2>1. flush[f].batch \subseteq Batches
    BY DEF Batches
  <2> QED BY <1>1, <1>3, <2>1 DEF OnlyHeard
<1>7. Answered'
  <2>1. \A p \in flush[f].batch : p \in Plays /\ (p \in vanished \/ recorded'[p] > 0)
    BY <1>1 DEF FlushType
  <2>2. ASSUME NEW g \in Flushes
        PROVE  /\ flush'[g].pc = "idle" => flush'[g].batch = {}
               /\ flush'[g].pc = "delete" =>
                    \A p \in flush'[g].batch : p \in refused \cup vanished \/ recorded'[p] > 0
    <3>1. CASE g = f
      BY <1>2, <1>3, <2>1, <3>1
    <3>2. CASE g # f
      <4>1. flush'[g] = flush[g] /\ flush[g].batch \subseteq Plays
        BY <1>3, <3>2 DEF FlushType
      <4> QED BY <1>4, <1>5, <4>1 DEF Answered
    <3> QED BY <3>1, <3>2
  <2> QED BY <1>1, <2>2 DEF Answered
<1>8. Shared'
  BY <1>1, <1>2, <1>3 DEF Shared
<1>9. Once'
  <2> SUFFICES ASSUME NEW p \in Plays \ doubtful, recorded'[p] > 0
               PROVE  /\ recorded'[p] = 1
                      /\ \A g \in Flushes : flush'[g].pc \in Pushing => p \notin flush'[g].batch
                      /\ p \in outbox => \E g \in Flushes : flush'[g].pc = "delete" /\ p \in flush'[g].batch
    BY <1>1 DEF Once
  <2>1. CASE p \in flush[f].batch
    <3>1. recorded[p] = 0
      BY <1>1, <2>1 DEF Once
    <3>2. recorded'[p] = 1
      BY <1>1, <2>1, <3>1
    <3>3. \A g \in Flushes : g # f => p \notin flush[g].batch
      BY <2>1 DEF Shared
    <3> QED BY <1>2, <1>3, <2>1, <3>2, <3>3 DEF Pushing
  <2>2. CASE p \notin flush[f].batch
    BY <1>1, <1>2, <1>3, <2>2 DEF Once
  <2> QED BY <2>1, <2>2
<1>10. PlaysAccountedFor'
  BY <1>1, <1>5 DEF PlaysAccountedFor
<1> QED BY <1>4, <1>6, <1>7, <1>8, <1>9, <1>10

LEMMA RefusedKeeps ==
    ASSUME HistoryInv, NEW f \in Flushes, Refused(f), heard' = heard
    PROVE  HistoryInv'
<1> USE DEF HistoryInv, HistoryTyped
<1>1. PICK r \in {Still, [flush[f] EXCEPT !.pc = "delete"]} :
        /\ flush[f].pc \in Pushing /\ flush' = [flush EXCEPT ![f] = r]
        /\ refused \subseteq refused'
        /\ r # Still => flush[f].batch \subseteq refused'
        /\ UNCHANGED <<outbox, session, recorded, vanished, doubtful>>
  BY DEF Refused
<1>2. /\ r \in FlushType /\ r.batch \subseteq flush[f].batch
      /\ \/ r.pc = "idle" /\ r.batch = {}
         \/ r.pc = "delete" /\ r.batch \subseteq refused'
  <2>1. CASE r = Still
    BY <2>1 DEF Still, FlushType
  <2>2. CASE r # Still
    BY <1>1, <2>2 DEF FlushType
  <2> QED BY <2>1, <2>2
<1>3. /\ \A g \in Flushes : g # f => flush'[g] = flush[g]
      /\ flush'[f] = r
      /\ flush' \in [Flushes -> FlushType]
      /\ Batches' \subseteq Batches
  BY <1>1, <1>2, FlushGoesOn
<1>4. HistoryTyped' /\ OnlyHeard'
  BY <1>1, <1>3 DEF OnlyHeard
<1>5. Answered'
  BY <1>1, <1>2, <1>3 DEF Answered
<1>6. Shared'
  BY <1>1, <1>2, <1>3 DEF Shared
<1>7. Once'
  BY <1>1, <1>2, <1>3 DEF Once, Pushing
<1>8. PlaysAccountedFor'
  BY <1>1 DEF PlaysAccountedFor
<1> QED BY <1>4, <1>5, <1>6, <1>7, <1>8

LEMMA FailsKeeps ==
    ASSUME HistoryInv, NEW f \in Flushes, Fails(f), heard' = heard
    PROVE  HistoryInv'
<1> USE DEF HistoryInv, HistoryTyped
<1>1. PICK r \in {Still, [flush[f] EXCEPT !.pc = "rest"]} :
        /\ flush[f].pc \in Pushing /\ flush' = [flush EXCEPT ![f] = r]
        /\ UNCHANGED <<outbox, session, vanished, refused>>
  BY DEF Fails
<1>2. /\ r \in FlushType /\ r.batch \subseteq flush[f].batch
      /\ (r.pc = "idle" /\ r.batch = {}) \/ (r.pc = "rest" /\ r.batch = flush[f].batch)
  <2>1. CASE r = Still
    BY <2>1 DEF Still, FlushType
  <2>2. CASE r # Still
    BY <1>1, <2>2 DEF FlushType, Pushing
  <2> QED BY <2>1, <2>2
<1>3. /\ \A g \in Flushes : g # f => flush'[g] = flush[g]
      /\ flush'[f] = r
      /\ flush' \in [Flushes -> FlushType]
      /\ Batches' \subseteq Batches
  BY <1>1, <1>2, FlushGoesOn
<1>4. /\ doubtful \subseteq doubtful'
      /\ recorded' \in [Plays -> Nat]
      /\ \A p \in Plays : /\ recorded'[p] >= recorded[p]
                          /\ recorded'[p] # recorded[p] => p \in flush[f].batch /\ p \in doubtful'
  <2>1. CASE UNCHANGED <<recorded, doubtful>>
    BY <2>1
  <2>2. CASE Inserts(flush[f].batch) /\ doubtful' = doubtful \cup flush[f].batch
    BY <2>2 DEF Inserts
  <2> QED BY <2>1, <2>2 DEF Fails, Unheard
<1>5. HistoryTyped'
  BY <1>1, <1>3, <1>4
<1>6. OnlyHeard'
  <2>1. flush[f].batch \subseteq Batches
    BY DEF Batches
  <2> QED BY <1>1, <1>3, <1>4, <2>1 DEF OnlyHeard
<1>7. Answered'
  <2>1. \A g \in Flushes : flush[g].batch \subseteq Plays
    BY DEF FlushType
  <2> QED BY <1>1, <1>2, <1>3, <1>4, <2>1 DEF Answered
<1>8. Shared'
  BY <1>2, <1>3, <1>4 DEF Shared
<1>9. Once'
  BY <1>1, <1>2, <1>3, <1>4 DEF Once, Pushing
<1>10. PlaysAccountedFor'
  BY <1>1, <1>4 DEF PlaysAccountedFor
<1> QED BY <1>5, <1>6, <1>7, <1>8, <1>9, <1>10

LEMMA DeleteKeeps ==
    ASSUME HistoryInv, NEW f \in Flushes, Delete(f), heard' = heard
    PROVE  HistoryInv'
<1> USE DEF HistoryInv, HistoryTyped
<1>1. /\ flush[f].pc = "delete" /\ flush' = [flush EXCEPT ![f] = Still]
      /\ outbox' = outbox \ flush[f].batch
      /\ UNCHANGED <<session, recorded, vanished, refused, doubtful>>
  BY DEF Delete
<1>2. Still \in FlushType /\ Still.batch = {} /\ Still.pc = "idle"
  BY DEF Still, FlushType
<1>3. /\ \A g \in Flushes : g # f => flush'[g] = flush[g]
      /\ flush'[f] = Still
      /\ flush' \in [Flushes -> FlushType]
      /\ Batches' \subseteq Batches
  BY <1>1, <1>2, FlushGoesOn
<1>4. HistoryTyped' /\ OnlyHeard'
  BY <1>1, <1>3 DEF OnlyHeard
<1>5. Answered' /\ Shared'
  BY <1>1, <1>2, <1>3 DEF Answered, Shared
<1>6. Once'
  BY <1>1, <1>2, <1>3 DEF Once, Pushing
<1>7. PlaysAccountedFor'
  BY <1>1 DEF PlaysAccountedFor, Answered
<1> QED BY <1>4, <1>5, <1>6, <1>7

LEMMA SignOutKeeps == HistoryInv /\ SignOut /\ heard' = heard => HistoryInv'
<1> SUFFICES ASSUME HistoryInv, SignOut, heard' = heard PROVE HistoryInv'
  OBVIOUS
<1> USE DEF HistoryInv, HistoryTyped
<1>1. PICK token \in {"user", "revoked"} :
        flush' = [f \in Flushes |-> IF flush[f].as = "user" THEN [flush[f] EXCEPT !.as = token] ELSE flush[f]]
  BY DEF SignOut
<1>2. session' = "none" /\ UNCHANGED <<outbox, recorded, vanished, refused, doubtful>>
  BY DEF SignOut
<1>3. \A f \in Flushes : /\ flush'[f] \in FlushType
                         /\ flush'[f].pc = flush[f].pc /\ flush'[f].batch = flush[f].batch
  BY <1>1 DEF FlushType
<1>4. HistoryTyped'
  BY <1>1, <1>2, <1>3
<1>5. Batches' = Batches
  BY <1>3 DEF Batches
<1>6. OnlyHeard' /\ PlaysAccountedFor'
  BY <1>2, <1>5 DEF OnlyHeard, PlaysAccountedFor
<1>7. Answered' /\ Shared' /\ Once'
  BY <1>2, <1>3 DEF Answered, Shared, Once
<1> QED BY <1>4, <1>6, <1>7

LEMMA FlushesStopKeeps == HistoryInv /\ FlushesStop /\ heard' = heard => HistoryInv'
<1> SUFFICES ASSUME HistoryInv, FlushesStop, heard' = heard PROVE HistoryInv'
  OBVIOUS
<1> USE DEF HistoryInv, HistoryTyped
<1>1. /\ flush' = [f \in Flushes |-> Still] /\ doubtful' = doubtful \cup Batches
      /\ UNCHANGED <<outbox, session, recorded, vanished, refused>>
  BY DEF FlushesStop, Batches
<1>2. Batches' = {} /\ HistoryTyped'
  BY <1>1 DEF Batches, Still, FlushType
<1>3. OnlyHeard' /\ PlaysAccountedFor' /\ Answered' /\ Shared'
  BY <1>1, <1>2 DEF OnlyHeard, PlaysAccountedFor, Answered, Shared, Still
<1>4. Once'
  <2>1. \A p \in Plays \ doubtful' : p \notin Batches /\ p \notin doubtful
    BY <1>1
  <2>2. \A p \in Plays \ doubtful', f \in Flushes : p \notin flush[f].batch
    BY <2>1 DEF Batches
  <2> QED BY <1>1, <2>1, <2>2 DEF Once, Still
<1> QED BY <1>2, <1>3, <1>4

LEMMA HistoryStep == HistoryInv /\ [Next]_vars => HistoryInv'
<1> SUFFICES ASSUME HistoryInv, [Next]_vars PROVE HistoryInv'
  OBVIOUS
<1>1. ASSUME NEW t \in Tracks, NEW next \in Tracks, Start(t, next) PROVE HistoryInv'
  BY <1>1, HistoryQuiet DEF Start
<1>2. CASE Serve \/ Open
  BY <1>2, HistoryQuiet DEF Serve, Open
<1>3. CASE Count
  BY <1>3, CountKeeps
<1>4. ASSUME NEW k \in Tasks, CacheStep(k) PROVE HistoryInv'
  BY <1>4, HistoryQuiet DEF CacheStep, playerVars
<1>5. ASSUME NEW f \in Flushes, PushStep(f) PROVE HistoryInv'
  <2>1. heard' = heard
    BY <1>5 DEF PushStep, playerVars
  <2> QED BY <1>5, <2>1, FlushStartKeeps, AcceptedKeeps, RefusedKeeps, DeleteKeeps DEF PushStep, Push
<1>6. CASE HistoryFault
  <2>1. heard' = heard
    BY <1>6 DEF HistoryFault, playerVars
  <2>2. ASSUME NEW f \in Flushes, Fails(f) PROVE HistoryInv'
    BY <2>1, <2>2, FailsKeeps
  <2>3. CASE SignOut
    BY <2>1, <2>3, SignOutKeeps
  <2>4. ASSUME NEW kind \in {"user", "key"}, SignIn(kind) PROVE HistoryInv'
    BY <2>1, <2>4 DEF SignIn, HistoryInv, HistoryTyped, OnlyHeard, Answered, Shared, Once,
                      PlaysAccountedFor, Batches
  <2>5. ASSUME NEW p \in Plays, LoseTrack(p) PROVE HistoryInv'
    BY <2>1, <2>5 DEF LoseTrack, HistoryInv, HistoryTyped, OnlyHeard, Answered, Shared, Once,
                      PlaysAccountedFor, Batches
  <2> QED BY <1>6, <2>2, <2>3, <2>4, <2>5 DEF HistoryFault
<1>7. CASE Stop
  BY <1>7, FlushesStopKeeps DEF Stop
<1>8. CASE UNCHANGED vars
  BY <1>8, HistoryQuiet DEF vars, playerVars
<1> QED BY <1>1, <1>2, <1>3, <1>4, <1>5, <1>6, <1>7, <1>8 DEF Next

\* No play gets lost, whatever flushes overlap, fail or are cut off: it is in the
\* outbox until the server has counted or refused it or lost its track.
THEOREM NoPlayLost == Spec => []PlaysAccountedFor
<1>1. HistoryInv => PlaysAccountedFor
  BY DEF HistoryInv
<1> QED BY <1>1, HistoryInitInv, HistoryStep, PTL DEF Spec

\* A play counts once unless an answer was lost, the app stopped during a push
\* or two flushes had it, for any number of flushes and any size of a batch.
THEOREM PlaysCountedOnce == Spec => []CountedOnce
<1>1. HistoryInv => CountedOnce
  BY DEF HistoryInv, HistoryTyped, Once, CountedOnce
<1> QED BY <1>1, HistoryInitInv, HistoryStep, PTL DEF Spec

-----------------------------------------------------------------------------
(* The look-ahead cache                                                    *)

TaskType == [track : Tracks \cup {NoTrack}, pc : {"new", "asked", "claimed", "writing", "over"},
             inode : Inodes \cup {NoInode}, at : 0..Chunks, tries : Nat]

CacheTyped ==
    /\ entries \in [Tracks -> {"none", "claimed", "complete"}]
    /\ path \in [Tracks -> Inodes \cup {NoInode}]
    /\ data \in [Inodes -> SUBSET Whole]
    /\ task \in [Tasks -> TaskType]

\* A task past its start has a track, and a file while it writes, and only then.
Shape ==
    \A k \in Tasks :
        /\ task[k].pc \in {"asked", "claimed", "writing"} => task[k].track \in Tracks
        /\ task[k].pc = "writing" => task[k].inode \in Inodes
        /\ task[k].pc # "writing" => task[k].inode = NoInode

\* No file belongs to two tracks.
Owned ==
    /\ \A t, u \in Tracks : path[t] = path[u] /\ path[t] # NoInode => t = u
    /\ \A k \in Tasks, u \in Tracks :
         task[k].pc = "writing" /\ path[u] = task[k].inode => u = task[k].track
    /\ \A k, l \in Tasks :
         task[k].pc = "writing" /\ task[l].pc = "writing" /\ task[k].inode = task[l].inode
             => task[k].track = task[l].track

Working(k) == task[k].pc \in {"claimed", "writing"}

\* A track that is not doubled has one task at work, whose file is what the entry
\* names and holds what the task has written, or none once its entry is complete.
Single ==
    \A t \in Tracks \ doubled :
        /\ \A k, l \in Tasks :
             Working(k) /\ Working(l) /\ task[k].track = t /\ task[l].track = t => k = l
        /\ \A k \in Tasks : task[k].pc = "writing" /\ task[k].track = t =>
             /\ 1..task[k].at \subseteq data[task[k].inode]
             /\ entries[t] = "claimed" => path[t] = task[k].inode
        /\ entries[t] = "complete" =>
             /\ \A k \in Tasks : Working(k) => task[k].track # t
             /\ path[t] # NoInode /\ data[path[t]] = Whole

HasTask ==
    \A t \in Tracks : entries[t] = "claimed" => \E k \in Tasks : Working(k) /\ task[k].track = t

CacheInv == CacheTyped /\ Shape /\ Owned /\ Single /\ HasTask

\* What every step of one task shares.
LEMMA TaskTyped ==
    ASSUME CacheTyped, NEW k \in Tasks
    PROVE  /\ task[k] \in TaskType
           /\ task[k].track \in Tracks \cup {NoTrack} /\ task[k].at \in 0..Chunks
           /\ task[k].inode \in Inodes \cup {NoInode} /\ task[k].tries \in Nat
  BY DEF CacheTyped, TaskType

LEMMA InodeFacts == NoInode \notin Inodes
  BY DEF NoInode, Inodes

LEMMA AsleepTyped ==
    /\ Asleep \in TaskType /\ Asleep.inode = NoInode /\ Asleep.pc = "new"
    /\ [Asleep EXCEPT !.pc = "over"] \in TaskType
    /\ [Asleep EXCEPT !.pc = "over"].pc = "over"
    /\ [Asleep EXCEPT !.pc = "over"].inode = NoInode
  BY PrefetchAssumption DEF Asleep, TaskType

LEMMA AskedTask ==
    ASSUME NEW t \in Tracks
    PROVE  LET r == [Asleep EXCEPT !.track = t, !.pc = "asked"]
           IN  r \in TaskType /\ r.inode = NoInode /\ r.pc = "asked" /\ r.track = t
<1> DEFINE a == [Asleep EXCEPT !.track = t]
           r == [a EXCEPT !.pc = "asked"]
<1>1. a = [track |-> t, pc |-> "new", inode |-> NoInode, at |-> 0, tries |-> 0]
  BY DEF Asleep
<1>2. r = [track |-> t, pc |-> "asked", inode |-> NoInode, at |-> 0, tries |-> 0]
  <2> HIDE DEF a
  <2> QED BY <1>1
<1>3. 0 \in 0..Chunks /\ 0 \in Nat
  BY PrefetchAssumption
<1>4. r \in TaskType /\ r.inode = NoInode /\ r.pc = "asked" /\ r.track = t
  <2> HIDE DEF r
  <2> QED BY <1>2, <1>3 DEF TaskType
<1> QED BY <1>4

LEMMA WritingTask ==
    ASSUME NEW x \in TaskType, NEW i \in Inodes
    PROVE  LET r == [x EXCEPT !.pc = "writing", !.inode = i, !.at = 0]
           IN  /\ r \in TaskType /\ r.pc = "writing" /\ r.inode = i /\ r.at = 0
               /\ r.track = x.track
<1> DEFINE a == [x EXCEPT !.pc = "writing"]
           b == [a EXCEPT !.inode = i]
           r == [b EXCEPT !.at = 0]
<1>1. a = [track |-> x.track, pc |-> "writing", inode |-> x.inode, at |-> x.at, tries |-> x.tries]
  BY DEF TaskType
<1>2. b = [track |-> x.track, pc |-> "writing", inode |-> i, at |-> x.at, tries |-> x.tries]
  <2> HIDE DEF a
  <2> QED BY <1>1
<1>3. r = [track |-> x.track, pc |-> "writing", inode |-> i, at |-> 0, tries |-> x.tries]
  <2> HIDE DEF b
  <2> QED BY <1>2
<1>4. 0 \in 0..Chunks
  BY PrefetchAssumption
<1>5. r \in TaskType /\ r.pc = "writing" /\ r.inode = i /\ r.at = 0 /\ r.track = x.track
  <2> HIDE DEF r
  <2> QED BY <1>3, <1>4 DEF TaskType
<1> QED BY <1>5

LEMMA CacheInitInv == Init => CacheInv
<1> SUFFICES ASSUME Init PROVE CacheInv
  OBVIOUS
<1>1. /\ entries = [t \in Tracks |-> "none"] /\ path = [t \in Tracks |-> NoInode]
      /\ data = [i \in Inodes |-> {}] /\ task = [k \in Tasks |-> Asleep] /\ doubled = {}
  BY DEF Init, CacheInit
<1>2. CacheTyped
  BY <1>1, AsleepTyped DEF CacheTyped
<1>3. Shape
  BY <1>1, AsleepTyped DEF Shape
<1>4. Owned
  BY <1>1, AsleepTyped DEF Owned
<1>5. Single
  BY <1>1, AsleepTyped DEF Single, Working
<1>6. HasTask
  BY <1>1 DEF HasTask
<1> QED BY <1>2, <1>3, <1>4, <1>5, <1>6 DEF CacheInv

\* The cache is not touched by what the player and the plays do.
LEMMA CacheQuiet == CacheInv /\ UNCHANGED cacheVars => CacheInv'
  BY DEF CacheInv, CacheTyped, Shape, Owned, Single, HasTask, Working, cacheVars

\* A task that starts or ends without having been at work.
LEMMA SpawnKeeps ==
    ASSUME CacheInv, NEW k \in Tasks, NEW t \in Tracks, NEW here \in BOOLEAN, Spawn(k, t, here)
    PROVE  CacheInv'
<1> USE DEF CacheInv
<1>1. PICK r \in TaskType :
        /\ task' = [task EXCEPT ![k] = r] /\ r.inode = NoInode
        /\ r.pc = "over" \/ (r.pc = "asked" /\ r.track = t)
  <2> DEFINE a == [Asleep EXCEPT !.track = t, !.pc = "asked"]
  <2>1. a \in TaskType /\ a.inode = NoInode /\ a.pc = "asked" /\ a.track = t
    BY AskedTask
  <2>2. task' = [task EXCEPT ![k] = IF here THEN [Asleep EXCEPT !.pc = "over"] ELSE a]
    BY DEF Spawn
  <2> HIDE DEF a
  <2> QED BY <2>1, <2>2, AsleepTyped
<1>2. UNCHANGED <<entries, path, data, doubled>> /\ task[k].pc = "new"
  BY DEF Spawn
<1>3. /\ \A l \in Tasks : l # k => task'[l] = task[l]
      /\ task'[k] = r
      /\ task' \in [Tasks -> TaskType]
  BY <1>1 DEF CacheTyped
<1>4. CacheTyped'
  BY <1>2, <1>3 DEF CacheTyped
<1>5. Shape'
  BY <1>1, <1>3 DEF Shape
<1>6. Owned'
  BY <1>1, <1>2, <1>3 DEF Owned
<1>7. Single'
  BY <1>1, <1>2, <1>3 DEF Single, Working
<1>8. HasTask'
  BY <1>1, <1>2, <1>3 DEF HasTask, Working
<1> QED BY <1>4, <1>5, <1>6, <1>7, <1>8

LEMMA ClaimKeeps ==
    ASSUME CacheInv, NEW k \in Tasks, Claim(k)
    PROVE  CacheInv'
<1> USE DEF CacheInv
<1> DEFINE t == task[k].track
           r == [task[k] EXCEPT !.pc = "claimed"]
<1>1. PICK out :
        /\ entries' = [u \in Tracks |-> IF u = t THEN "claimed" ELSE IF u \in out THEN "none" ELSE entries[u]]
        /\ path' = [u \in Tracks |-> IF u \in out THEN NoInode ELSE path[u]]
  BY DEF Claim
<1>2. /\ task[k].pc = "asked" /\ entries[t] = "none" /\ task' = [task EXCEPT ![k] = r]
      /\ doubled' = IF AtWork(t) = {} THEN doubled ELSE doubled \cup {t}
      /\ UNCHANGED data
  BY DEF Claim
<1>3. t \in Tracks /\ task[k].inode = NoInode
  BY <1>2 DEF Shape
<1>4. r \in TaskType /\ r.pc = "claimed" /\ r.track = t /\ r.inode = NoInode
  BY <1>3, TaskTyped DEF TaskType
<1> HIDE DEF r
<1>5. /\ \A l \in Tasks : l # k => task'[l] = task[l]
      /\ task'[k] = r
      /\ task' \in [Tasks -> TaskType]
  BY <1>2, <1>4 DEF CacheTyped
<1>6. CacheTyped'
  BY <1>1, <1>2, <1>5 DEF CacheTyped
<1>7. Shape'
  BY <1>3, <1>4, <1>5 DEF Shape
<1>8. Owned'
  BY <1>1, <1>4, <1>5, InodeFacts DEF Owned, Shape
<1>9. Single'
  <2> SUFFICES ASSUME NEW u \in Tracks \ doubled'
               PROVE  /\ \A l, m \in Tasks :
                           Working(l)' /\ Working(m)' /\ task'[l].track = u /\ task'[m].track = u => l = m
                      /\ \A l \in Tasks : task'[l].pc = "writing" /\ task'[l].track = u =>
                           /\ 1..task'[l].at \subseteq data'[task'[l].inode]
                           /\ entries'[u] = "claimed" => path'[u] = task'[l].inode
                      /\ entries'[u] = "complete" =>
                           /\ \A l \in Tasks : Working(l)' => task'[l].track # u
                           /\ path'[u] # NoInode /\ data'[path'[u]] = Whole
    BY DEF Single
  <2>1. u \in Tracks \ doubled
    BY <1>2
  <2>2. CASE u = t
    <3>1. \A l \in Tasks : Working(l) => task[l].track # t
      BY <1>2, <2>2 DEF AtWork, Working
    <3> QED BY <1>1, <1>4, <1>5, <2>2, <3>1 DEF Working
  <2>3. CASE u # t
    <3>1. \A l \in Tasks : task'[l].track = u => l # k /\ task'[l] = task[l]
      BY <1>4, <1>5, <2>3
    <3>2. CASE u \in out
      BY <1>1, <1>2, <2>1, <2>3, <3>1, <3>2 DEF Single, Working
    <3>3. CASE u \notin out
      BY <1>1, <1>2, <1>4, <1>5, <2>1, <2>3, <3>1, <3>3 DEF Single, Working
    <3> QED BY <3>2, <3>3
  <2> QED BY <2>2, <2>3
<1>10. HasTask'
  BY <1>1, <1>2, <1>4, <1>5 DEF HasTask, Working
<1> QED BY <1>6, <1>7, <1>8, <1>9, <1>10

\* A task that is over.
LEMMA EndsTask ==
    ASSUME CacheTyped, NEW k \in Tasks, Ends(k)
    PROVE  /\ \A l \in Tasks : l # k => task'[l] = task[l]
           /\ task'[k].pc = "over" /\ task'[k].inode = NoInode
           /\ task' \in [Tasks -> TaskType]
  BY AsleepTyped DEF CacheTyped, Ends

LEMMA KnownKeeps ==
    ASSUME CacheInv, NEW k \in Tasks, Known(k)
    PROVE  CacheInv'
<1> USE DEF CacheInv
<1>1. /\ \A l \in Tasks : l # k => task'[l] = task[l]
      /\ task'[k].pc = "over" /\ task'[k].inode = NoInode
      /\ task' \in [Tasks -> TaskType]
  BY EndsTask DEF Known
<1>2. task[k].pc = "asked" /\ UNCHANGED <<entries, path, data, doubled>>
  BY DEF Known
<1>3. CacheTyped' /\ Shape'
  BY <1>1, <1>2 DEF CacheTyped, Shape
<1>4. Owned'
  BY <1>1, <1>2 DEF Owned
<1>5. Single'
  BY <1>1, <1>2 DEF Single, Working
<1>6. HasTask'
  BY <1>1, <1>2 DEF HasTask, Working
<1> QED BY <1>3, <1>4, <1>5, <1>6

LEMMA CreateKeeps ==
    ASSUME CacheInv, NEW k \in Tasks, Create(k)
    PROVE  CacheInv'
<1> USE DEF CacheInv
<1> DEFINE t == task[k].track
<1>1. PICK i \in IF path[t] = NoInode THEN {j \in FreeInodes : \A l \in FreeInodes : j <= l} ELSE {path[t]} :
        /\ path' = [path EXCEPT ![t] = i]
        /\ data' = [data EXCEPT ![i] = {}]
        /\ task' = [task EXCEPT ![k].pc = "writing", ![k].inode = i, ![k].at = 0]
  BY DEF Create
<1>2. task[k].pc = "claimed" /\ UNCHANGED <<entries, doubled>>
  BY DEF Create
<1>3. t \in Tracks
  BY <1>2 DEF Shape
<1>4. /\ i \in Inodes
      /\ \A u \in Tracks : path[u] = i => u = t
      /\ \A l \in Tasks : task[l].pc = "writing" /\ task[l].inode = i => task[l].track = t
  <2>1. CASE path[t] = NoInode
    BY <1>1, <2>1 DEF FreeInodes
  <2>2. CASE path[t] # NoInode
    <3>1. i = path[t]
      BY <1>1, <2>2
    <3> QED BY <1>3, <2>2, <3>1 DEF Owned, CacheTyped
  <2> QED BY <2>1, <2>2
<1> DEFINE r == [task[k] EXCEPT !.pc = "writing", !.inode = i, !.at = 0]
<1>5. r \in TaskType /\ r.pc = "writing" /\ r.inode = i /\ r.at = 0 /\ r.track = t
  BY <1>4, TaskTyped, WritingTask
<1>6. task' = [task EXCEPT ![k] = r]
  BY <1>1
<1> HIDE DEF r
<1>7. /\ \A l \in Tasks : l # k => task'[l] = task[l]
      /\ task'[k] = r
      /\ task' \in [Tasks -> TaskType]
  BY <1>5, <1>6 DEF CacheTyped
<1>8. /\ path' \in [Tracks -> Inodes \cup {NoInode}]
      /\ path'[t] = i /\ \A u \in Tracks : u # t => path'[u] = path[u]
      /\ data' \in [Inodes -> SUBSET Whole]
      /\ \A j \in Inodes : j # i => data'[j] = data[j]
  BY <1>1, <1>3, <1>4 DEF CacheTyped
<1>9. CacheTyped'
  BY <1>2, <1>7, <1>8 DEF CacheTyped
<1>10. Shape'
  BY <1>3, <1>4, <1>5, <1>7 DEF Shape
<1>11. Owned'
  <2>1. \A u, v \in Tracks : path'[u] = path'[v] /\ path'[u] # NoInode => u = v
    BY <1>4, <1>8 DEF Owned
  <2>2. \A l \in Tasks, u \in Tracks :
          task'[l].pc = "writing" /\ path'[u] = task'[l].inode => u = task'[l].track
    BY <1>4, <1>5, <1>7, <1>8 DEF Owned
  <2>3. \A l, m \in Tasks :
          task'[l].pc = "writing" /\ task'[m].pc = "writing" /\ task'[l].inode = task'[m].inode
             => task'[l].track = task'[m].track
    BY <1>4, <1>5, <1>7 DEF Owned
  <2> QED BY <2>1, <2>2, <2>3 DEF Owned
<1>12. Single'
  <2> SUFFICES ASSUME NEW u \in Tracks \ doubled
               PROVE  /\ \A l, m \in Tasks :
                           Working(l)' /\ Working(m)' /\ task'[l].track = u /\ task'[m].track = u => l = m
                      /\ \A l \in Tasks : task'[l].pc = "writing" /\ task'[l].track = u =>
                           /\ 1..task'[l].at \subseteq data'[task'[l].inode]
                           /\ entries'[u] = "claimed" => path'[u] = task'[l].inode
                      /\ entries'[u] = "complete" =>
                           /\ \A l \in Tasks : Working(l)' => task'[l].track # u
                           /\ path'[u] # NoInode /\ data'[path'[u]] = Whole
    BY <1>2 DEF Single
  <2>1. \A l, m \in Tasks :
          Working(l)' /\ Working(m)' /\ task'[l].track = u /\ task'[m].track = u => l = m
    BY <1>2, <1>5, <1>7 DEF Single, Working
  <2>2. CASE u = t
    <3>1. Working(k) /\ \A l \in Tasks : Working(l) /\ task[l].track = u => l = k
      BY <1>2, <2>2 DEF Single, Working
    <3>2. \A l \in Tasks : task'[l].pc = "writing" /\ task'[l].track = u => l = k
      BY <1>7, <3>1 DEF Working
    <3>3. entries[u] # "complete"
      BY <1>2, <2>2, <3>1 DEF Single
    <3>4. 1..task'[k].at = {}
      BY <1>5, <1>7
    <3> QED BY <1>2, <1>5, <1>7, <1>8, <2>1, <2>2, <3>2, <3>3, <3>4
  <2>3. CASE u # t
    <3>1. \A l \in Tasks : task'[l].track = u => task'[l] = task[l] /\ l # k
      BY <1>5, <1>7, <2>3
    <3>2. path'[u] = path[u] /\ path[u] # i
      BY <1>4, <1>8, <2>3
    <3>3. ASSUME NEW l \in Tasks, task'[l].pc = "writing", task'[l].track = u
          PROVE  /\ 1..task'[l].at \subseteq data'[task'[l].inode]
                 /\ entries'[u] = "claimed" => path'[u] = task'[l].inode
      <4>1. task'[l] = task[l] /\ task[l].inode # i /\ task[l].inode \in Inodes
        BY <1>4, <2>3, <3>1, <3>3 DEF Shape
      <4>2. data'[task[l].inode] = data[task[l].inode]
        BY <1>8, <4>1
      <4> QED BY <1>2, <3>2, <3>3, <4>1, <4>2 DEF Single
    <3>4. ASSUME entries'[u] = "complete"
          PROVE  /\ \A l \in Tasks : Working(l)' => task'[l].track # u
                 /\ path'[u] # NoInode /\ data'[path'[u]] = Whole
      <4>1. path[u] # NoInode /\ data[path[u]] = Whole /\ \A l \in Tasks : Working(l) => task[l].track # u
        BY <1>2, <3>4 DEF Single
      <4>2. path[u] \in Inodes
        BY <4>1 DEF CacheTyped
      <4> QED BY <1>8, <3>1, <3>2, <4>1, <4>2 DEF Working
    <3> QED BY <2>1, <3>3, <3>4
  <2> QED BY <2>2, <2>3
<1>13. HasTask'
  BY <1>2, <1>5, <1>7 DEF HasTask, Working
<1> QED BY <1>9, <1>10, <1>11, <1>12, <1>13

\* A chunk written goes into the file of this task's track and no other.
LEMMA WriteKeeps ==
    ASSUME CacheInv, NEW k \in Tasks, Write(k)
    PROVE  CacheInv'
<1> USE DEF CacheInv
<1> DEFINE t == task[k].track
           i == task[k].inode
           n == task[k].at + 1
           r == [task[k] EXCEPT !.at = task[k].at + 1]
<1>1. /\ task[k].pc = "writing" /\ task[k].at < Chunks
      /\ data' = [data EXCEPT ![i] = @ \cup {n}]
      /\ task' = [task EXCEPT ![k] = r]
      /\ UNCHANGED <<entries, path, doubled>>
  BY DEF Write
<1>2. t \in Tracks /\ i \in Inodes /\ n \in Whole /\ task[k].at \in Nat
  BY <1>1, TaskTyped, PrefetchAssumption DEF Shape, Whole
<1>3. r \in TaskType /\ r.pc = "writing" /\ r.track = t /\ r.inode = i /\ r.at = n
  BY <1>1, <1>2, TaskTyped, PrefetchAssumption DEF TaskType, Whole
<1>4. /\ \A l \in Tasks : l # k => task'[l] = task[l]
      /\ task'[k] = r
      /\ task' \in [Tasks -> TaskType]
  <2> HIDE DEF r
  <2> QED BY <1>1, <1>3 DEF CacheTyped
<1> HIDE DEF r, n
<1>5. /\ data' \in [Inodes -> SUBSET Whole]
      /\ data'[i] = data[i] \cup {n}
      /\ \A j \in Inodes : j # i => data'[j] = data[j]
  BY <1>1, <1>2 DEF CacheTyped
<1>6. CacheTyped'
  BY <1>1, <1>4, <1>5 DEF CacheTyped
<1>7. Shape'
  BY <1>2, <1>3, <1>4 DEF Shape
<1>8. Owned'
  BY <1>1, <1>3, <1>4 DEF Owned
<1>9. Working(k)
  BY <1>1 DEF Working
<1>10. \A l \in Tasks : /\ Working(l)' <=> Working(l)
                        /\ task'[l].track = task[l].track
                        /\ task'[l].pc = task[l].pc /\ task'[l].inode = task[l].inode
  BY <1>1, <1>3, <1>4 DEF Working
<1>11. Single'
  <2> SUFFICES ASSUME NEW u \in Tracks \ doubled
               PROVE  /\ \A l, m \in Tasks :
                           Working(l)' /\ Working(m)' /\ task'[l].track = u /\ task'[m].track = u => l = m
                      /\ \A l \in Tasks : task'[l].pc = "writing" /\ task'[l].track = u =>
                           /\ 1..task'[l].at \subseteq data'[task'[l].inode]
                           /\ entries'[u] = "claimed" => path'[u] = task'[l].inode
                      /\ entries'[u] = "complete" =>
                           /\ \A l \in Tasks : Working(l)' => task'[l].track # u
                           /\ path'[u] # NoInode /\ data'[path'[u]] = Whole
    BY <1>1 DEF Single
  <2>1. \A l, m \in Tasks :
          Working(l)' /\ Working(m)' /\ task'[l].track = u /\ task'[m].track = u => l = m
    BY <1>10 DEF Single
  <2>2. ASSUME NEW l \in Tasks, task'[l].pc = "writing", task'[l].track = u
        PROVE  /\ 1..task'[l].at \subseteq data'[task'[l].inode]
               /\ entries'[u] = "claimed" => path'[u] = task'[l].inode
    <3>1. task[l].pc = "writing" /\ task[l].track = u /\ task[l].inode \in Inodes
      BY <1>10, <2>2 DEF Shape
    <3>2. 1..task[l].at \subseteq data[task[l].inode] /\ (entries[u] = "claimed" => path[u] = task[l].inode)
      BY <3>1 DEF Single
    <3>3. CASE l = k
      <4>1. 1..r.at = (1..task[k].at) \cup {n}
        BY <1>2, <1>3 DEF n
      <4> QED BY <1>1, <1>3, <1>4, <1>5, <3>2, <3>3, <4>1
    <3>4. CASE l # k
      <4>1. task[l].inode # i
        <5>1. task[l].inode = i => task[k].track = u
          BY <1>1, <3>1 DEF Owned
        <5> QED BY <1>9, <3>1, <3>4, <5>1 DEF Single, Working
      <4> QED BY <1>1, <1>4, <1>5, <3>1, <3>2, <3>4, <4>1
    <3> QED BY <3>3, <3>4
  <2>3. ASSUME entries'[u] = "complete"
        PROVE  /\ \A l \in Tasks : Working(l)' => task'[l].track # u
               /\ path'[u] # NoInode /\ data'[path'[u]] = Whole
    <3>1. path[u] # NoInode /\ data[path[u]] = Whole /\ \A l \in Tasks : Working(l) => task[l].track # u
      BY <1>1, <2>3 DEF Single
    <3>2. path[u] \in Inodes /\ path[u] # i
      BY <1>1, <1>9, <3>1 DEF Owned, CacheTyped
    <3> QED BY <1>1, <1>5, <1>10, <3>1, <3>2
  <2> QED BY <2>1, <2>2, <2>3
<1>12. HasTask'
  BY <1>1, <1>10 DEF HasTask
<1> QED BY <1>6, <1>7, <1>8, <1>11, <1>12

\* The one task of a track that is not doubled has written the file its entry names.
LEMMA MarkCompleteKeeps ==
    ASSUME CacheInv, NEW k \in Tasks, MarkComplete(k)
    PROVE  CacheInv'
<1> USE DEF CacheInv
<1> DEFINE t == task[k].track
<1>1. /\ task[k].pc = "writing" /\ task[k].at = Chunks
      /\ entries' = [entries EXCEPT ![t] = IF @ = "none" THEN @ ELSE "complete"]
      /\ UNCHANGED <<path, data, doubled>>
  BY DEF MarkComplete
<1>2. /\ \A l \in Tasks : l # k => task'[l] = task[l]
      /\ task'[k].pc = "over" /\ task'[k].inode = NoInode
      /\ task' \in [Tasks -> TaskType]
  BY EndsTask DEF MarkComplete
<1>3. t \in Tracks /\ task[k].inode \in Inodes /\ Working(k)
  BY <1>1 DEF Shape, Working
<1>4. /\ entries' \in [Tracks -> {"none", "claimed", "complete"}]
      /\ entries'[t] # "claimed" /\ (entries[t] = "none" => entries'[t] = "none")
      /\ \A u \in Tracks : u # t => entries'[u] = entries[u]
  BY <1>1, <1>3 DEF CacheTyped
<1>5. CacheTyped'
  BY <1>1, <1>2, <1>4 DEF CacheTyped
<1>6. Shape'
  BY <1>2 DEF Shape
<1>7. Owned'
  BY <1>1, <1>2 DEF Owned
<1>8. Single'
  <2> SUFFICES ASSUME NEW u \in Tracks \ doubled
               PROVE  /\ \A l, m \in Tasks :
                           Working(l)' /\ Working(m)' /\ task'[l].track = u /\ task'[m].track = u => l = m
                      /\ \A l \in Tasks : task'[l].pc = "writing" /\ task'[l].track = u =>
                           /\ 1..task'[l].at \subseteq data'[task'[l].inode]
                           /\ entries'[u] = "claimed" => path'[u] = task'[l].inode
                      /\ entries'[u] = "complete" =>
                           /\ \A l \in Tasks : Working(l)' => task'[l].track # u
                           /\ path'[u] # NoInode /\ data'[path'[u]] = Whole
    BY <1>1 DEF Single
  <2>1. \A l \in Tasks : Working(l)' => l # k /\ task'[l] = task[l] /\ Working(l)
    BY <1>2 DEF Working
  <2>2. CASE u = t
    <3>1. \A l \in Tasks : Working(l)' => task'[l].track # u
      BY <1>3, <2>1, <2>2 DEF Single
    <3>2. ASSUME entries'[u] = "complete" PROVE path[u] # NoInode /\ data[path[u]] = Whole
      <4>1. entries[t] = "claimed"
        BY <1>3, <1>4, <2>2, <3>2 DEF Single, CacheTyped
      <4>2. path[t] = task[k].inode /\ 1..Chunks \subseteq data[task[k].inode]
        BY <1>1, <2>2, <4>1 DEF Single
      <4> QED BY <1>3, <2>2, <4>2, InodeFacts DEF CacheTyped, Whole
    <3> QED BY <1>1, <3>1, <3>2 DEF Working
  <2>3. CASE u # t
    BY <1>1, <1>4, <2>1, <2>3 DEF Single, Working
  <2> QED BY <2>2, <2>3
<1>9. HasTask'
  BY <1>2, <1>4 DEF HasTask, Working
<1> QED BY <1>5, <1>6, <1>7, <1>8, <1>9

LEMMA RetryTask ==
    ASSUME NEW x \in TaskType
    PROVE  LET r == [x EXCEPT !.pc = "claimed", !.inode = NoInode, !.at = 0, !.tries = x.tries + 1]
           IN  /\ r \in TaskType /\ r.pc = "claimed" /\ r.inode = NoInode /\ r.track = x.track
<1> DEFINE a == [x EXCEPT !.pc = "claimed"]
           b == [a EXCEPT !.inode = NoInode]
           c == [b EXCEPT !.at = 0]
           r == [c EXCEPT !.tries = x.tries + 1]
<1>1. a = [track |-> x.track, pc |-> "claimed", inode |-> x.inode, at |-> x.at, tries |-> x.tries]
  BY DEF TaskType
<1>2. b = [track |-> x.track, pc |-> "claimed", inode |-> NoInode, at |-> x.at, tries |-> x.tries]
  <2> HIDE DEF a
  <2> QED BY <1>1
<1>3. c = [track |-> x.track, pc |-> "claimed", inode |-> NoInode, at |-> 0, tries |-> x.tries]
  <2> HIDE DEF b
  <2> QED BY <1>2
<1>4. r = [track |-> x.track, pc |-> "claimed", inode |-> NoInode, at |-> 0, tries |-> x.tries + 1]
  <2> HIDE DEF c
  <2> QED BY <1>3
<1>5. 0 \in 0..Chunks /\ x.tries + 1 \in Nat
  BY PrefetchAssumption DEF TaskType
<1>6. r \in TaskType /\ r.pc = "claimed" /\ r.inode = NoInode /\ r.track = x.track
  <2> HIDE DEF r
  <2> QED BY <1>4, <1>5 DEF TaskType
<1> QED BY <1>6

LEMMA RetryKeeps ==
    ASSUME CacheInv, NEW k \in Tasks, Retry(k)
    PROVE  CacheInv'
<1> USE DEF CacheInv
<1> DEFINE t == task[k].track
           r == [task[k] EXCEPT !.pc = "claimed", !.inode = NoInode, !.at = 0, !.tries = task[k].tries + 1]
<1>1. r \in TaskType /\ r.pc = "claimed" /\ r.inode = NoInode /\ r.track = t
  BY TaskTyped, RetryTask
<1>2. task' = [task EXCEPT ![k] = r]
  BY DEF Retry
<1>3. Working(k) /\ t \in Tracks /\ UNCHANGED <<entries, path, data, doubled>>
  BY DEF Retry, Working, Shape
<1> HIDE DEF r
<1>4. /\ \A l \in Tasks : l # k => task'[l] = task[l]
      /\ task'[k] = r
      /\ task' \in [Tasks -> TaskType]
  BY <1>1, <1>2 DEF CacheTyped
<1>5. \A l \in Tasks : (Working(l)' <=> Working(l)) /\ task'[l].track = task[l].track
  BY <1>1, <1>3, <1>4 DEF Working
<1>6. CacheTyped'
  BY <1>3, <1>4 DEF CacheTyped
<1>7. Shape'
  BY <1>1, <1>3, <1>4 DEF Shape
<1>8. Owned'
  BY <1>1, <1>3, <1>4 DEF Owned
<1>9. Single'
  <2>1. \A l \in Tasks : task'[l].pc = "writing" => task'[l] = task[l]
    BY <1>1, <1>4
  <2> QED BY <1>3, <1>5, <2>1 DEF Single
<1>10. HasTask'
  BY <1>3, <1>5 DEF HasTask
<1> QED BY <1>6, <1>7, <1>8, <1>9, <1>10

LEMMA DiscardKeeps ==
    ASSUME CacheInv, NEW k \in Tasks, Discard(k)
    PROVE  CacheInv'
<1> USE DEF CacheInv
<1> DEFINE t == task[k].track
<1>1. /\ entries' = [entries EXCEPT ![t] = "none"]
      /\ path' = IF entries[t] = "none" THEN path ELSE [path EXCEPT ![t] = NoInode]
      /\ UNCHANGED <<data, doubled>>
      /\ Working(k)
  BY DEF Discard, Working
<1>2. /\ \A l \in Tasks : l # k => task'[l] = task[l]
      /\ task'[k].pc = "over" /\ task'[k].inode = NoInode
      /\ task' \in [Tasks -> TaskType]
  BY EndsTask DEF Discard
<1>3. t \in Tracks
  BY <1>1 DEF Shape, Working
<1>4. /\ entries' \in [Tracks -> {"none", "claimed", "complete"}]
      /\ path' \in [Tracks -> Inodes \cup {NoInode}]
      /\ entries'[t] = "none" /\ (path'[t] = NoInode \/ path'[t] = path[t])
      /\ \A u \in Tracks : u # t => entries'[u] = entries[u] /\ path'[u] = path[u]
  BY <1>1, <1>3 DEF CacheTyped
<1>5. CacheTyped'
  BY <1>1, <1>2, <1>4 DEF CacheTyped
<1>6. Shape'
  BY <1>2 DEF Shape
<1>7. Owned'
  <2>1. \A u \in Tracks : path'[u] = NoInode \/ path'[u] = path[u]
    BY <1>4
  <2>2. \A l \in Tasks : task'[l].pc = "writing" => task'[l] = task[l] /\ task[l].inode # NoInode
    BY <1>2, InodeFacts DEF Shape
  <2> QED BY <2>1, <2>2 DEF Owned
<1>8. Single'
  <2>1. \A l \in Tasks : Working(l)' => task'[l] = task[l] /\ Working(l)
    BY <1>2 DEF Working
  <2> QED BY <1>1, <1>4, <2>1 DEF Single, Working
<1>9. HasTask'
  BY <1>2, <1>4 DEF HasTask, Working
<1> QED BY <1>5, <1>6, <1>7, <1>8, <1>9

LEMMA RelaunchKeeps ==
    ASSUME CacheInv, Relaunch
    PROVE  CacheInv'
<1> USE DEF CacheInv
<1>1. /\ entries' = [t \in Tracks |-> "none"] /\ path' = [t \in Tracks |-> NoInode]
      /\ data' = [i \in Inodes |-> {}] /\ doubled' = {}
  BY DEF Relaunch
<1>2. /\ task' \in [Tasks -> TaskType]
      /\ \A k \in Tasks : task'[k].pc \in {"new", "over"} /\ task'[k].inode = NoInode
  BY AsleepTyped DEF Relaunch, CacheTyped, Shape
<1>3. CacheTyped'
  BY <1>1, <1>2 DEF CacheTyped
<1>4. Shape' /\ Owned'
  BY <1>1, <1>2 DEF Shape, Owned
<1>5. Single' /\ HasTask'
  BY <1>1, <1>2 DEF Single, HasTask, Working
<1> QED BY <1>3, <1>4, <1>5

LEMMA CacheNext == CacheInv /\ [Next]_vars => CacheInv'
<1> SUFFICES ASSUME CacheInv, [Next]_vars PROVE CacheInv'
  OBVIOUS
<1>1. ASSUME NEW t \in Tracks, NEW next \in Tracks, Start(t, next) PROVE CacheInv'
  <2>1. listen + 1 \in Tasks /\ (next \in downloaded) \in BOOLEAN /\ Spawn(listen + 1, next, next \in downloaded)
    BY <1>1 DEF Start
  <2> QED BY <2>1, SpawnKeeps
<1>2. CASE Serve \/ Open \/ Count
  BY <1>2, CacheQuiet DEF Serve, Open, Count
<1>3. ASSUME NEW k \in Tasks, CacheStep(k) PROVE CacheInv'
  BY <1>3, ClaimKeeps, KnownKeeps, CreateKeeps, WriteKeeps, MarkCompleteKeeps, RetryKeeps, DiscardKeeps
     DEF CacheStep, Work, Breaks
<1>4. ASSUME NEW f \in Flushes, PushStep(f) PROVE CacheInv'
  BY <1>4, CacheQuiet DEF PushStep
<1>5. CASE HistoryFault
  BY <1>5, CacheQuiet DEF HistoryFault
<1>6. CASE Stop
  BY <1>6, RelaunchKeeps DEF Stop
<1>7. CASE UNCHANGED vars
  BY <1>7, CacheQuiet DEF vars
<1> QED BY <1>1, <1>2, <1>3, <1>4, <1>5, <1>6, <1>7 DEF Next

\* What the cache calls complete is whole, for any number of tracks, chunks, tasks
\* and attempts and any cap (prefetch.rs, mark_complete).
THEOREM CacheServesWhole == Spec => []CompleteIsWhole
<1>1. CacheInv => CompleteIsWhole
  BY DEF CacheInv, Single, CompleteIsWhole, Ready
<1> QED BY <1>1, CacheInitInv, CacheNext, PTL DEF Spec

-----------------------------------------------------------------------------
(* The line for eviction                                                   *)

\* The entries are the tracks in line, each once, and never more than the cap.
Line ==
    /\ order \in Seq(Tracks)
    /\ ToSet(order) = {t \in Tracks : entries[t] # "none"}
    /\ IsInjective(order) /\ Len(order) <= MaxEntries

LEMMA LeastNat ==
    ASSUME NEW T, T \subseteq Nat, T # {}
    PROVE  \E x \in T : \A y \in T : x <= y
<1> DEFINE R == OpToRel(<, Nat)
<1>1. IsWellFoundedOn(R, Nat)
  BY NatLessThanWellFounded
<1>2. PICK x \in T : \A y \in T : ~(<<y, x>> \in R)
  <2> HIDE DEF R
  <2> QED BY <1>1, WFMin
<1>3. \A y \in T : <<y, x>> \in R <=> y < x
  BY DEF OpToRel
<1> HIDE DEF R
<1>4. \A y \in T : ~(y < x)
  BY <1>2, <1>3
<1>5. x \in Nat /\ \A y \in T : y \in Nat
  OBVIOUS
<1> QED BY <1>4, <1>5

\* What is left of a line without t, up to its place k.
Passed(line, t, n, g) == IF line[n] # t THEN Append(g, line[n]) ELSE g
Kept(f, line, t, k) ==
    f = [n \in 0..k |-> IF n = 0 THEN <<>>
                        ELSE IF line[n] # t THEN Append(f[n - 1], line[n]) ELSE f[n - 1]]

LEMMA KeptExists ==
    ASSUME NEW line, NEW t, NEW k \in Nat
    PROVE  \E f : Kept(f, line, t, k)
<1> DEFINE T == {n \in Nat : ~\E f : Kept(f, line, t, n)}
<1> SUFFICES T = {}
  OBVIOUS
<1> SUFFICES ASSUME T # {} PROVE FALSE
  OBVIOUS
<1>1. PICK m \in T : \A n \in T : m <= n
  BY LeastNat
<1>2. Kept([n \in 0..0 |-> <<>>], line, t, 0)
  BY DEF Kept
<1>3. m # 0 /\ m - 1 \in Nat /\ m \in Nat
  BY <1>1, <1>2
<1>4. PICK f : Kept(f, line, t, m - 1)
  <2>1. m - 1 \notin T
    BY <1>1, <1>3
  <2> QED BY <1>3, <2>1
<1> DEFINE g == [n \in 0..m |-> IF n = m THEN Passed(line, t, m, f[m - 1]) ELSE f[n]]
<1>5. \A n \in 0..m - 1 : f[n] = IF n = 0 THEN <<>> ELSE Passed(line, t, n, f[n - 1])
  BY <1>4 DEF Kept, Passed
<1>6. g = [n \in 0..m |-> IF n = 0 THEN <<>> ELSE Passed(line, t, n, g[n - 1])]
  BY <1>3, <1>5
<1>7. Kept(g, line, t, m)
  <2> HIDE DEF g
  <2> QED BY <1>6 DEF Kept, Passed
<1> QED BY <1>1, <1>7

LEMMA WithoutKept ==
    ASSUME NEW line \in Seq(Tracks), NEW t
    PROVE  \E f : Kept(f, line, t, Len(line)) /\ Without(line, t) = f[Len(line)]
<1> DEFINE f == CHOOSE f : Kept(f, line, t, Len(line))
<1>1. Len(line) \in Nat
  BY LenProperties
<1>2. Kept(f, line, t, Len(line))
  BY <1>1, KeptExists
<1>3. Without(line, t) = f[Len(line)]
  BY DEF Without, Kept
<1> QED BY <1>2, <1>3

\* What leaves a line leaves it once and for all, and the others stay in it once.
LEMMA WithoutFacts ==
    ASSUME NEW line \in Seq(Tracks), IsInjective(line), NEW t
    PROVE  /\ Without(line, t) \in Seq(Tracks)
           /\ ToSet(Without(line, t)) = ToSet(line) \ {t}
           /\ IsInjective(Without(line, t)) /\ Len(Without(line, t)) <= Len(line)
<1> DEFINE N == Len(line)
           Good(s, n) == /\ s \in Seq(Tracks) /\ Len(s) <= n /\ IsInjective(s)
                         /\ ToSet(s) = {line[i] : i \in 1..n} \ {t}
<1>1. N \in Nat /\ line \in [1..N -> Tracks]
  BY LenProperties
<1>2. PICK f : Kept(f, line, t, N) /\ Without(line, t) = f[N]
  BY WithoutKept
<1>3. \A n \in 0..N : f[n] = IF n = 0 THEN <<>> ELSE Passed(line, t, n, f[n - 1])
  BY <1>2 DEF Kept, Passed
<1>4. Good(f[0], 0)
  <2>1. f[0] = <<>>
    BY <1>1, <1>3
  <2>2. <<>> \in Seq(Tracks) /\ Len(<<>>) = 0 /\ DOMAIN <<>> = {}
    BY EmptySeq
  <2>3. ToSet(<<>>) = {} /\ {line[i] : i \in 1..0} = {} /\ IsInjective(<<>>)
    BY <2>2 DEF ToSet, IsInjective
  <2> QED BY <2>1, <2>2, <2>3
<1>5. ASSUME NEW n \in 1..N, NEW s, Good(s, n - 1)
      PROVE  Good(Passed(line, t, n, s), n)
  <2>1. CASE line[n] = t
    BY <1>1, <1>5, <2>1 DEF Passed
  <2>2. CASE line[n] # t
    <3>1. line[n] \in Tracks /\ line[n] \notin ToSet(s)
      BY <1>1, <1>5 DEF IsInjective
    <3>2. /\ Append(s, line[n]) \in Seq(Tracks) /\ Len(Append(s, line[n])) = Len(s) + 1
          /\ DOMAIN Append(s, line[n]) = 1..Len(s) + 1
          /\ \A i \in 1..Len(s) : Append(s, line[n])[i] = s[i]
          /\ Append(s, line[n])[Len(s) + 1] = line[n]
          /\ DOMAIN s = 1..Len(s) /\ Len(s) \in Nat
      BY <1>5, <3>1, AppendProperties, LenProperties
    <3>3. IsInjective(Append(s, line[n]))
      BY <1>5, <3>1, <3>2 DEF IsInjective, ToSet
    <3>4. ToSet(Append(s, line[n])) = ToSet(s) \cup {line[n]}
      BY <3>2 DEF ToSet
    <3>5. {line[i] : i \in 1..n} = {line[i] : i \in 1..n - 1} \cup {line[n]}
      OBVIOUS
    <3> QED BY <1>5, <2>2, <3>2, <3>3, <3>4, <3>5 DEF Passed
  <2> QED BY <2>1, <2>2
<1>6. \A n \in 0..N : Good(f[n], n)
  <2> DEFINE B == {n \in 0..N : ~Good(f[n], n)}
  <2> SUFFICES ASSUME B # {} PROVE FALSE
    OBVIOUS
  <2> HIDE DEF Good
  <2>0. B \subseteq Nat
    BY <1>1
  <2>1. PICK m \in B : \A n \in B : m <= n
    <3> HIDE DEF B
    <3> QED BY <2>0, LeastNat
  <2>2. m \in 1..N /\ m - 1 \in 0..N /\ m - 1 \notin B
    BY <1>1, <1>4, <2>1
  <2> QED BY <1>3, <1>5, <2>1, <2>2
<1>7. ToSet(line) = {line[i] : i \in 1..N}
  BY <1>1 DEF ToSet
<1>8. Good(Without(line, t), N)
  <2> HIDE DEF Good
  <2> QED BY <1>1, <1>2, <1>6
<1> QED BY <1>7, <1>8

LEMMA LineInit == Init => Line
<1> SUFFICES ASSUME Init PROVE Line
  OBVIOUS
<1>1. order = <<>> /\ entries = [t \in Tracks |-> "none"]
  BY DEF Init, CacheInit
<1>2. <<>> \in Seq(Tracks) /\ Len(<<>>) = 0 /\ DOMAIN <<>> = {}
  BY EmptySeq
<1>3. ToSet(<<>>) = {} /\ IsInjective(<<>>)
  BY <1>2 DEF ToSet, IsInjective
<1> QED BY <1>1, <1>2, <1>3, PrefetchAssumption DEF Line

LEMMA LineQuiet ==
    ASSUME Line, order' = order,
           \A t \in Tracks : entries'[t] # "none" <=> entries[t] # "none"
    PROVE  Line'
  BY DEF Line

\* The track goes to the end of the line, and the head of a full one goes.
LEMMA ClaimLine ==
    ASSUME CacheInv, Line, NEW k \in Tasks, Claim(k)
    PROVE  Line'
<1> DEFINE t == task[k].track
           line == Append(order, t)
           out == IF Len(line) > MaxEntries THEN ToSet(SubSeq(line, 1, Len(line) - MaxEntries)) ELSE {}
<1>1. /\ task[k].pc = "asked" /\ entries[t] = "none"
      /\ order' = SubSeq(line, 1 + Cardinality(out), Len(line))
      /\ entries' = [u \in Tracks |-> IF u = t THEN "claimed" ELSE IF u \in out THEN "none" ELSE entries[u]]
  BY DEF Claim
<1>2. t \in Tracks /\ t \notin ToSet(order)
  BY <1>1 DEF Line, CacheInv, Shape
<1>3. Len(order) \in Nat /\ DOMAIN order = 1..Len(order) /\ Len(order) <= MaxEntries /\ MaxEntries \in Nat \ {0}
  BY LenProperties, PrefetchAssumption DEF Line
<1>4. /\ line \in Seq(Tracks) /\ Len(line) = Len(order) + 1 /\ DOMAIN line = 1..Len(order) + 1
      /\ \A i \in 1..Len(order) : line[i] = order[i]
      /\ line[Len(order) + 1] = t
  BY <1>2, <1>3, AppendProperties, LenProperties DEF Line
<1> HIDE DEF line
<1>5. IsInjective(line)
  BY <1>2, <1>3, <1>4 DEF Line, IsInjective, ToSet
<1>6. ToSet(line) = ToSet(order) \cup {t}
  BY <1>3, <1>4 DEF ToSet
<1>7. CASE Len(order) < MaxEntries
  <2>1. out = {}
    BY <1>3, <1>4, <1>7
  <2>2. Cardinality({}) = 0
    BY FS_EmptySet
  <2> HIDE DEF out
  <2>3. order' = SubSeq(line, 1, Len(line))
    BY <1>1, <2>1, <2>2
  <2>4. order' = line
    BY <1>4, <2>3
  <2>5. ToSet(order') = {u \in Tracks : entries'[u] # "none"}
    BY <1>1, <1>2, <1>6, <2>1, <2>4 DEF Line
  <2>6. Len(order') <= MaxEntries
    BY <1>3, <1>4, <1>7, <2>4
  <2> QED BY <1>4, <1>5, <2>4, <2>5, <2>6 DEF Line
<1>8. CASE Len(order) = MaxEntries
  <2>1. /\ SubSeq(line, 1, 1) \in Seq(Tracks) /\ Len(SubSeq(line, 1, 1)) = 1
        /\ SubSeq(line, 1, 1)[1] = line[1]
    BY <1>3, <1>4
  <2>2. ToSet(SubSeq(line, 1, 1)) = {line[1]}
    BY <2>1 DEF ToSet
  <2>3. out = {line[1]}
    BY <1>3, <1>4, <1>8, <2>2
  <2>4. Cardinality(out) = 1
    BY <2>3, FS_Singleton
  <2> HIDE DEF out
  <2>5. order' = SubSeq(line, 2, Len(line))
    BY <1>1, <2>4
  <2>6. /\ order' \in Seq(Tracks) /\ Len(order') = Len(order)
        /\ DOMAIN order' = 1..Len(order)
        /\ \A i \in 1..Len(order) : order'[i] = line[i + 1]
    BY <1>3, <1>4, <2>5
  <2>7. IsInjective(order')
    BY <1>3, <1>4, <1>5, <2>6 DEF IsInjective
  <2>8. ToSet(order') = ToSet(line) \ {line[1]}
    <3>1. \A i \in 2..Len(order) + 1 : i - 1 \in 1..Len(order) /\ order'[i - 1] = line[i] /\ line[i] # line[1]
      BY <1>3, <1>4, <1>5, <2>6 DEF IsInjective
    <3>2. ToSet(order') \subseteq ToSet(line) \ {line[1]}
      <4>1. \A i \in 1..Len(order) : i + 1 \in 2..Len(order) + 1 /\ i + 1 \in DOMAIN line
        BY <1>3, <1>4
      <4> QED BY <2>6, <3>1, <4>1 DEF ToSet
    <3>3. ToSet(line) \ {line[1]} \subseteq ToSet(order')
      <4>1. \A i \in DOMAIN line : i = 1 \/ i \in 2..Len(order) + 1
        BY <1>3, <1>4
      <4> QED BY <2>6, <3>1, <4>1 DEF ToSet
    <3> QED BY <3>2, <3>3
  <2>9. line[1] # t
    BY <1>3, <1>4, <1>5, <1>8 DEF IsInjective
  <2>10. ToSet(order') = {u \in Tracks : entries'[u] # "none"}
    BY <1>1, <1>2, <1>6, <2>3, <2>8, <2>9 DEF Line
  <2> QED BY <1>3, <1>8, <2>6, <2>7, <2>10 DEF Line
<1>9. Len(order) < MaxEntries \/ Len(order) = MaxEntries
  <2>1. \A a, b \in Nat : a <= b => a < b \/ a = b
    OBVIOUS
  <2>2. Len(order) \in Nat /\ MaxEntries \in Nat /\ Len(order) <= MaxEntries
    BY <1>3
  <2> QED BY <2>1, <2>2
<1> QED BY <1>7, <1>8, <1>9

\* The track leaves the line and the table together.
LEMMA DiscardLine ==
    ASSUME CacheInv, Line, NEW k \in Tasks, Discard(k)
    PROVE  Line'
<1> DEFINE t == task[k].track
<1>1. order' = Without(order, t) /\ entries' = [entries EXCEPT ![t] = "none"]
  BY DEF Discard
<1>2. /\ order' \in Seq(Tracks) /\ ToSet(order') = ToSet(order) \ {t}
      /\ IsInjective(order') /\ Len(order') <= Len(order)
  BY <1>1, WithoutFacts DEF Line
<1>3. ToSet(order') = {u \in Tracks : entries'[u] # "none"}
  BY <1>1, <1>2 DEF Line, CacheInv, CacheTyped
<1>4. Len(order') <= MaxEntries
  BY <1>2, LenProperties, PrefetchAssumption DEF Line
<1> QED BY <1>2, <1>3, <1>4 DEF Line

LEMMA RelaunchLine ==
    ASSUME Relaunch
    PROVE  Line'
<1>1. order' = <<>> /\ entries' = [t \in Tracks |-> "none"]
  BY DEF Relaunch
<1>2. <<>> \in Seq(Tracks) /\ Len(<<>>) = 0 /\ DOMAIN <<>> = {}
  BY EmptySeq
<1>3. ToSet(<<>>) = {} /\ IsInjective(<<>>)
  BY <1>2 DEF ToSet, IsInjective
<1> QED BY <1>1, <1>2, <1>3, PrefetchAssumption DEF Line

LEMMA LineNext == CacheInv /\ Line /\ [Next]_vars => Line'
<1> SUFFICES ASSUME CacheInv, Line, [Next]_vars PROVE Line'
  OBVIOUS
<1>1. ASSUME NEW t \in Tracks, NEW next \in Tracks, Start(t, next) PROVE Line'
  BY <1>1, LineQuiet DEF Start, Spawn
<1>2. CASE Serve \/ Open \/ Count
  BY <1>2, LineQuiet DEF Serve, Open, Count, cacheVars
<1>3. ASSUME NEW k \in Tasks, CacheStep(k) PROVE Line'
  <2>1. CASE MarkComplete(k)
    <3>1. order' = order /\ task[k].pc = "writing"
          /\ entries' = [entries EXCEPT ![task[k].track] = IF @ = "none" THEN @ ELSE "complete"]
      BY <2>1 DEF MarkComplete
    <3> QED BY <3>1, LineQuiet DEF CacheInv, CacheTyped
  <2>2. CASE Known(k) \/ Create(k) \/ Write(k) \/ Retry(k)
    BY <2>2, LineQuiet DEF Known, Create, Write, Retry
  <2> QED BY <1>3, <2>1, <2>2, ClaimLine, DiscardLine DEF CacheStep, Work, Breaks
<1>4. ASSUME NEW f \in Flushes, PushStep(f) PROVE Line'
  BY <1>4, LineQuiet DEF PushStep, cacheVars
<1>5. CASE HistoryFault
  BY <1>5, LineQuiet DEF HistoryFault, cacheVars
<1>6. CASE Stop
  BY <1>6, RelaunchLine DEF Stop
<1>7. CASE UNCHANGED vars
  BY <1>7, LineQuiet DEF vars, cacheVars
<1> QED BY <1>1, <1>2, <1>3, <1>4, <1>5, <1>6, <1>7 DEF Next

\* A claim always has a task at work on it, and the tracks in line for eviction are
\* the entries, each once, never more than the cap, for any cap and any number of
\* tasks (prefetch.rs, claim and discard).
THEOREM ClaimsHaveTasks == Spec => []ClaimsTended
<1>1. CacheInv /\ Line => ClaimsTended
  BY DEF CacheInv, HasTask, Working, ClaimsTended, Tended, AtWork, Line
<1> QED BY <1>1, CacheInitInv, CacheNext, LineInit, LineNext, PTL DEF Spec

=============================================================================
