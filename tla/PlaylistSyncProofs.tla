------------------------- MODULE PlaylistSyncProofs -------------------------
(***************************************************************************)
(* Theorems about PlaylistSync: the replay of the outbox is first in,      *)
(* first out, and no edit leaves the outbox without a cause, whatever is   *)
(* enqueued, discarded and rewritten beside the replay and however often   *)
(* it is interrupted; when no answer is lost, no edit is executed twice;   *)
(* and the cache of the app is ahead of the server by the outbox.          *)
(***************************************************************************)
EXTENDS PlaylistSync, SequenceTheorems, NaturalsInduction, WellFoundedInduction, TLAPS

\* The shapes the argument rests on.  What the rows hold does not matter to it.
SyncFields == {"pc", "todo", "row", "made", "remap", "pull", "id", "view"}

Shaped ==
    /\ next \in Nat
    /\ DOMAIN outbox = Rows
    /\ DOMAIN sync = SyncFields /\ sync = [f \in SyncFields |-> sync[f]]
    /\ DOMAIN sync.todo = Rows
    /\ applied \in [Rows -> Nat]

\* Ids are issued in order: whatever is queued, listed or executed has one.
Issued ==
    \A r \in Rows : outbox[r] # None \/ sync.todo[r] # None \/ applied[r] > 0 => r < next

\* A row that is queued and not in the snapshot is younger than every row of it.
Younger ==
    \A q \in Rows : outbox[q] # None /\ sync.todo[q] = None =>
        \A r \in Rows : sync.todo[r] # None => r < q

OrderInv == Shaped /\ Issued /\ Younger /\ AppliedInOrder

\* No row is queued that was not, and the snapshot and what was executed stay.
Shrinks ==
    /\ UNCHANGED <<next, applied>>
    /\ DOMAIN outbox' = Rows
    /\ \A r \in Rows : outbox'[r] # None => outbox[r] # None

KeepsSync ==
    /\ DOMAIN sync' = SyncFields /\ sync' = [f \in SyncFields |-> sync'[f]]
    /\ sync'.todo = sync.todo

Rests ==
    /\ DOMAIN sync' = SyncFields /\ sync' = [f \in SyncFields |-> sync'[f]]
    /\ sync'.todo = Empty

LEMMA RowsNat == Rows \subseteq Nat
  BY BoundsAssumption DEF Rows

LEMMA EmptyRows == DOMAIN Empty = Rows /\ \A r \in Rows : Empty[r] = None
  BY DEF Empty

LEMMA ShrinkKeeps ==
    ASSUME OrderInv, Shrinks, KeepsSync \/ Rests
    PROVE  OrderInv'
<1>1. Shaped'
  BY EmptyRows DEF OrderInv, Shaped, Shrinks, KeepsSync, Rests
<1>2. \A r \in Rows : sync'.todo[r] # None => sync'.todo = sync.todo
  BY EmptyRows DEF KeepsSync, Rests
<1>3. Issued'
  BY <1>2 DEF OrderInv, Issued, Shrinks
<1>4. Younger'
  BY <1>2 DEF OrderInv, Younger, Shrinks
<1>5. AppliedInOrder'
  BY DEF OrderInv, AppliedInOrder, Shrinks
<1> QED BY <1>1, <1>3, <1>4, <1>5 DEF OrderInv

\* Steps of the engine between two changes of its snapshot.
LEMMA FieldsKept ==
    ASSUME Shaped, NEW a, NEW b, NEW c, NEW d, NEW e
    PROVE  /\ sync' = [sync EXCEPT !.pc = a] => KeepsSync
           /\ sync' = [sync EXCEPT !.pc = a, !.remap = b] => KeepsSync
           /\ sync' = [sync EXCEPT !.remap = b] => KeepsSync
           /\ sync' = [sync EXCEPT !.pc = a, !.row = c] => KeepsSync
           /\ sync' = [sync EXCEPT !.pc = a, !.row = c, !.made = d] => KeepsSync
           /\ sync' = [sync EXCEPT !.pc = a, !.pull = b] => KeepsSync
           /\ sync' = [sync EXCEPT !.pull = b] => KeepsSync
           /\ sync' = [sync EXCEPT !.pc = a, !.id = c, !.pull = b] => KeepsSync
           /\ sync' = [sync EXCEPT !.pc = a, !.id = c, !.view = e, !.pull = b] => KeepsSync
           /\ sync' = [sync EXCEPT !.pc = a, !.id = c, !.view = e] => KeepsSync
           /\ sync' = [sync EXCEPT !.pc = a, !.id = c] => KeepsSync
  BY DEF Shaped, KeepsSync, SyncFields

LEMMA IdleRests == (EndSync => Rests) /\ \A p : sync' = [IdleSync EXCEPT !.pc = p] => Rests
  BY DEF EndSync, IdleSync, Rests, SyncFields

LEMMA OrderInit == Init => OrderInv
<1> SUFFICES ASSUME Init PROVE OrderInv
  OBVIOUS
<1>1. next = 1 /\ outbox = Empty /\ sync = IdleSync /\ applied = [r \in Rows |-> 0]
  BY DEF Init
<1>2. Shaped
  BY <1>1, EmptyRows DEF Shaped, IdleSync, SyncFields
<1>3. \A r \in Rows : outbox[r] = None /\ sync.todo[r] = None /\ applied[r] = 0
  BY <1>1, EmptyRows DEF IdleSync
<1> QED BY <1>2, <1>3 DEF OrderInv, Issued, Younger, AppliedInOrder

\* The calls of the user: they enqueue at the end, and discard.
LEMMA CallsKeep ==
    ASSUME OrderInv, NEW c \in Calls, StartCall(c) \/ CallStep(c)
    PROVE  OrderInv'
<1>1. CASE EditEnqueue(c)
  <2>1. /\ outbox' = [outbox EXCEPT ![next] = call[c].op] /\ next' = next + 1
        /\ UNCHANGED <<sync, applied>>
    BY <1>1 DEF EditEnqueue, histVars
  <2>2. Shaped /\ Issued /\ Younger /\ AppliedInOrder
    BY DEF OrderInv
  <2>3. \A r \in Rows : r # next => outbox'[r] = outbox[r]
    BY <2>1, <2>2 DEF Shaped
  <2>4. Shaped'
    BY <2>1, <2>2 DEF Shaped
  <2>5. Issued'
    BY <2>1, <2>2, <2>3, RowsNat DEF Issued, Shaped
  <2>6. Younger'
    BY <2>1, <2>2, <2>3, RowsNat DEF Younger, Issued, Shaped
  <2>7. AppliedInOrder'
    <3> SUFFICES ASSUME NEW r \in Rows, NEW q \in Rows, applied[r] > 0, q < r
                 PROVE  outbox'[q] = None
      BY <2>1 DEF AppliedInOrder
    <3>1. outbox[q] = None /\ r < next
      BY <2>2 DEF AppliedInOrder, Issued
    <3> QED BY <2>2, <2>3, <3>1, RowsNat DEF Shaped
  <2> QED BY <2>4, <2>5, <2>6, <2>7 DEF OrderInv
<1>2. CASE ~EditEnqueue(c)
  <2>1. UNCHANGED sync /\ UNCHANGED <<next, applied>>
    BY <1>2 DEF StartCall, CallStep, EditLocal, EditOnline, Open, ListMine, EditRead, EditWrite,
               DiscardList, DiscardOp, MirrorRow, MirrorTracks, ListMirror, queueVars, histVars
  <2>2. outbox' = outbox \/ \E r : outbox' = [outbox EXCEPT ![r] = None]
    BY <1>2 DEF StartCall, CallStep, EditLocal, EditOnline, Open, ListMine, EditRead, EditWrite,
               DiscardList, DiscardOp, MirrorRow, MirrorTracks, ListMirror, queueVars, histVars
  <2>3. Shrinks
    BY <2>1, <2>2 DEF Shrinks, OrderInv, Shaped
  <2>4. KeepsSync
    BY <2>1 DEF KeepsSync, OrderInv, Shaped
  <2> QED BY <2>3, <2>4, ShrinkKeeps
<1> QED BY <1>1, <1>2

\* The snapshot is the outbox, so no queued row is missing from it.
LEMMA SyncStartKeeps ==
    ASSUME OrderInv, SyncStart
    PROVE  OrderInv'
<1>1. /\ sync' = [IdleSync EXCEPT !.pc = "push", !.todo = outbox]
      /\ UNCHANGED <<outbox, next, applied>>
  BY DEF SyncStart, queueVars, histVars
<1>2. /\ DOMAIN sync' = SyncFields /\ sync' = [f \in SyncFields |-> sync'[f]]
      /\ sync'.todo = outbox
  BY <1>1 DEF IdleSync, SyncFields
<1> QED BY <1>1, <1>2 DEF OrderInv, Shaped, Issued, Younger, AppliedInOrder

\* The row that goes leaves the outbox and the snapshot together.
LEMMA PushDeleteKeeps ==
    ASSUME OrderInv, PushDelete
    PROVE  OrderInv'
<1>1. /\ outbox' = [outbox EXCEPT ![sync.row] = None]
      /\ sync' = [sync EXCEPT !.pc = "push", !.todo[sync.row] = None, !.row = 0, !.made = None]
      /\ UNCHANGED <<next, applied>>
  BY DEF PushDelete, histVars
<1>2. /\ DOMAIN sync' = SyncFields /\ sync' = [f \in SyncFields |-> sync'[f]]
      /\ sync'.todo = [sync.todo EXCEPT ![sync.row] = None]
  BY <1>1 DEF OrderInv, Shaped, SyncFields
<1>3. Shaped'
  BY <1>1, <1>2 DEF OrderInv, Shaped
<1>4. \A r \in Rows : IF r = sync.row THEN outbox'[r] = None /\ sync'.todo[r] = None
                      ELSE outbox'[r] = outbox[r] /\ sync'.todo[r] = sync.todo[r]
  BY <1>1, <1>2 DEF OrderInv, Shaped
<1>5. Issued'
  BY <1>1, <1>4 DEF OrderInv, Issued
<1>6. Younger'
  BY <1>4 DEF OrderInv, Younger
<1>7. AppliedInOrder'
  BY <1>1, <1>4 DEF OrderInv, AppliedInOrder
<1> QED BY <1>3, <1>5, <1>6, <1>7 DEF OrderInv

\* Whatever the server answers: the op is the oldest of the snapshot, and what is
\* queued beside the snapshot is younger.
LEMMA PushCallKeeps ==
    ASSUME OrderInv, NEW r, NEW id, NEW o, PushCall(r, id, o)
    PROVE  OrderInv'
<1>1. /\ UNCHANGED <<outbox, next>>
      /\ sync' = [sync EXCEPT !.pc = AfterCall(sync.todo[r], o), !.row = r, !.made = id]
      /\ applied' = [applied EXCEPT ![r] = Least(2, @ + Times(o))]
      /\ First(r)
  BY DEF PushCall, queueVars
<1>2. Shaped /\ Issued /\ Younger /\ AppliedInOrder
  BY DEF OrderInv
<1>3. r \in Rows /\ sync.todo[r] # None /\ \A q \in Rows : sync.todo[q] # None => r <= q
  BY <1>1 DEF First, Queued
<1>4. KeepsSync
  BY <1>1, <1>2, FieldsKept
<1>5. Times(o) \in Nat
  BY DEF Times
<1>6. applied' \in [Rows -> Nat] /\ \A q \in Rows : q # r => applied'[q] = applied[q]
  BY <1>1, <1>2, <1>3, <1>5 DEF Shaped, Least
<1>7. Shaped'
  BY <1>1, <1>2, <1>4, <1>6 DEF Shaped, KeepsSync
<1>8. Issued'
  BY <1>1, <1>2, <1>3, <1>4, <1>6 DEF Issued, KeepsSync
<1>9. Younger'
  BY <1>1, <1>2, <1>4 DEF Younger, KeepsSync
<1>10. AppliedInOrder'
  <2> SUFFICES ASSUME NEW p \in Rows, NEW q \in Rows, applied'[p] > 0, q < p
               PROVE  outbox[q] = None
    BY <1>1 DEF AppliedInOrder
  <2>1. CASE p # r
    BY <1>2, <1>6, <2>1 DEF AppliedInOrder
  <2>2. CASE p = r
    <3>1. sync.todo[q] = None
      BY <1>3, <2>2, RowsNat
    <3>2. ~(r < q)
      BY <1>3, <2>2, RowsNat
    <3> QED BY <1>2, <1>3, <3>1, <3>2 DEF Younger
  <2> QED BY <2>1, <2>2
<1> QED BY <1>7, <1>8, <1>9, <1>10 DEF OrderInv

\* The rest of the engine: rows are rewritten one by one, but none comes back.
LEMMA SyncKeeps ==
    ASSUME OrderInv, SyncStep
    PROVE  OrderInv'
<1>1. CASE SyncStart
  BY <1>1, SyncStartKeeps
<1>2. CASE PushDelete
  BY <1>2, PushDeleteKeeps
<1>3. CASE RemapOp
  <2>1. Shrinks
    BY <1>3 DEF RemapOp, Shrinks, OrderInv, Shaped, histVars
  <2>2. KeepsSync
    BY <1>3, FieldsKept DEF RemapOp, OrderInv
  <2> QED BY <2>1, <2>2, ShrinkKeeps
<1>4. CASE RemapList \/ RemapCache \/ PushEnd \/ PullList \/ PullRow \/ PullTracks \/ PullStamp
             \/ PullForget \/ PullEnd \/ \E r \in Rows : PushUnresolved(r)
  <2>1. Shrinks
    BY <1>4 DEF RemapList, RemapCache, PushEnd, PullList, PullRow, PullTracks, PullStamp,
                PullForget, PullEnd, PushUnresolved, Shrinks, OrderInv, Shaped, queueVars, histVars
  <2>2. KeepsSync \/ Rests
    <3>1. CASE PushEnd \/ PullEnd
      BY <3>1, IdleRests DEF PushEnd, PullEnd
    <3>2. CASE RemapCache \/ PullTracks
      BY <3>2, FieldsKept, IdleRests DEF RemapCache, PullTracks, OrderInv
    <3>3. CASE RemapList \/ PullList
      <4>1. \E p, b : \/ sync' = [sync EXCEPT !.pc = p, !.remap = b]
                      \/ sync' = [sync EXCEPT !.pc = p, !.pull = b]
        BY <3>3 DEF RemapList, PullList
      <4> QED BY <4>1, FieldsKept DEF OrderInv
    <3>5. CASE PullRow
      BY <3>5, FieldsKept DEF PullRow, OrderInv
    <3>6. CASE PullStamp
      <4>1. sync' = [sync EXCEPT !.pc = "pull", !.id = None, !.view = None]
        BY <3>6 DEF PullStamp
      <4> QED BY <4>1, FieldsKept DEF OrderInv
    <3>7. CASE PullForget
      <4>1. sync' = [sync EXCEPT !.pc = "pull", !.id = None]
        BY <3>7 DEF PullForget
      <4> QED BY <4>1, FieldsKept DEF OrderInv
    <3>4. ASSUME NEW r \in Rows, PushUnresolved(r) PROVE KeepsSync
      BY <3>4, FieldsKept DEF PushUnresolved, OrderInv
    <3> QED BY <1>4, <3>1, <3>2, <3>3, <3>4, <3>5, <3>6, <3>7
  <2> QED BY <2>1, <2>2, ShrinkKeeps
<1> QED BY <1>1, <1>2, <1>3, <1>4 DEF SyncStep

LEMMA OrderStep == OrderInv /\ [Next]_vars => OrderInv'
<1> SUFFICES ASSUME OrderInv, [Next]_vars PROVE OrderInv'
  OBVIOUS
<1>1. ASSUME NEW c \in Calls, StartCall(c) \/ CallStep(c) PROVE OrderInv'
  BY <1>1, CallsKeep
<1>2. CASE SyncStep
  BY <1>2, SyncKeeps
<1>3. ASSUME NEW r \in Queued(sync.todo), NEW o \in Outcomes, Push(r, o) PROVE OrderInv'
  BY <1>3, PushCallKeeps DEF Push
<1>4. ASSUME NEW id \in Remotes, PullGet(id) PROVE OrderInv'
  <2>1. Shrinks
    BY <1>4 DEF PullGet, Shrinks, OrderInv, Shaped, queueVars, histVars
  <2>2. KeepsSync
    BY <1>4, FieldsKept DEF PullGet, OrderInv
  <2> QED BY <2>1, <2>2, ShrinkKeeps
<1>5. ASSUME NEW id \in Remotes, Foreign(id) PROVE OrderInv'
  <2>1. Shrinks /\ KeepsSync
    BY <1>5 DEF Foreign, Shrinks, KeepsSync, OrderInv, Shaped, queueVars, histVars
  <2> QED BY <2>1, ShrinkKeeps
<1>6. CASE PullFails \/ Crash
  <2>1. Shrinks /\ Rests
    BY <1>6, IdleRests DEF PullFails, Crash, Shrinks, OrderInv, Shaped, queueVars, histVars
  <2> QED BY <2>1, ShrinkKeeps
<1>7. CASE UNCHANGED vars
  <2>1. Shrinks /\ KeepsSync
    BY <1>7 DEF vars, Shrinks, KeepsSync, OrderInv, Shaped, queueVars, histVars
  <2> QED BY <2>1, ShrinkKeeps
<1> QED BY <1>1, <1>2, <1>3, <1>4, <1>5, <1>6, <1>7 DEF Next

\* The outbox is replayed in order: once the server has executed an op no older
\* one is queued, for any number of edits, calls, faults and syncs (push_outbox).
THEOREM FirstInFirstOut == Spec => []AppliedInOrder
<1>1. OrderInv => AppliedInOrder
  BY DEF OrderInv
<1> QED BY <1>1, OrderInit, OrderStep, PTL DEF Spec

-----------------------------------------------------------------------------
(* Nothing disappears from the outbox                                      *)

CallFields == {"pc", "op", "queue", "rows", "view", "todo"}

\* What the helpers on sequences return.
LEMMA SubSeqTyped ==
    ASSUME NEW s \in Seq(Tracks), NEW m \in Nat \ {0}, NEW n \in Int, n <= Len(s)
    PROVE  SubSeq(s, m, n) \in Seq(Tracks)
<1>1. CASE m <= n
  BY <1>1, SubSeqProperties
<1>2. CASE n < m
  <2>1. SubSeq(s, m, n) = <<>>
    BY <1>2, SubSeqEmpty
  <2> QED BY <2>1
<1> QED BY <1>1, <1>2

LEMMA InsertTyped ==
    ASSUME NEW s \in Seq(Tracks), NEW i \in 1..(Len(s) + 1), NEW t \in Tracks
    PROVE  InsertAt(s, i, t) \in Seq(Tracks)
<1>1. SubSeq(s, 1, i - 1) \in Seq(Tracks) /\ SubSeq(s, i, Len(s)) \in Seq(Tracks)
  BY SubSeqTyped
<1>2. <<t>> \in Seq(Tracks)
  OBVIOUS
<1> QED BY <1>1, <1>2, ConcatProperties DEF InsertAt

LEMMA RemoveTyped ==
    ASSUME NEW s \in Seq(Tracks), NEW i \in 1..Len(s)
    PROVE  RemoveAt(s, i) \in Seq(Tracks) /\ Len(RemoveAt(s, i)) = Len(s) - 1
<1> DEFINE a == SubSeq(s, 1, i - 1)
           b == SubSeq(s, i + 1, Len(s))
<1>1. a \in Seq(Tracks) /\ b \in Seq(Tracks)
  BY SubSeqTyped
<1>2. Len(a) = i - 1 /\ Len(b) = Len(s) - i
  BY SubSeqProperties, SubSeqEmpty
<1> HIDE DEF a, b
<1>3. a \o b \in Seq(Tracks)
  BY <1>1, ConcatProperties
<1>4. Len(a \o b) = Len(a) + Len(b)
  BY <1>1, ConcatProperties
<1> DEFINE n == Len(a \o b)
<1>5. n = i - 1 + (Len(s) - i)
  BY <1>2, <1>4
<1> HIDE DEF n
<1>6. n = Len(s) - 1
  BY <1>5
<1> QED BY <1>3, <1>6 DEF RemoveAt, a, b, n

LEMMA ServerEditTyped ==
    ASSUME NEW op \in Ops, NEW p \in Playlists \cup {None}, NEW rest \in BOOLEAN, Accepts(op, p, rest)
    PROVE  ServerEdit(op, p) \in Playlists \cup {None}
<1>1. CASE op.kind = "create"
  BY <1>1 DEF ServerEdit, Ops, Playlists
<1>2. CASE op.kind = "delete"
  BY <1>2 DEF ServerEdit
<1>3. CASE op.kind \in {"rename", "add", "remove", "reorder"}
  <2>1. p \in Playlists /\ p.tracks \in Seq(Tracks) /\ p.name \in Names
    BY <1>3 DEF Accepts, Playlists
  <2>2. \A s \in Seq(Tracks) : [p EXCEPT !.tracks = s] \in Playlists
    BY <2>1 DEF Playlists
  <2>3. CASE op.kind = "rename"
    BY <2>1, <2>3 DEF ServerEdit, Ops, Playlists
  <2>4. CASE op.kind = "add"
    <3>1. op.track \in Tracks /\ op.at \in Nat
      BY <2>4 DEF Ops
    <3>2. Inserted(p.tracks, op.track, op.at) \in Seq(Tracks)
      BY <2>1, <3>1, InsertTyped DEF Inserted, Least
    <3> QED BY <2>2, <2>4, <3>2 DEF ServerEdit
  <2>5. CASE op.kind = "remove"
    <3>1. op.at \in Nat \ {0}
      BY <2>5 DEF Ops
    <3>2. Removed(p.tracks, op.at) \in Seq(Tracks)
      BY <2>1, <3>1, RemoveTyped DEF Removed
    <3> QED BY <2>2, <2>5, <3>2 DEF ServerEdit
  <2>6. CASE op.kind = "reorder"
    <3>1. op.from \in 1..Len(p.tracks) /\ op.to \in Nat \ {0}
      BY <1>3, <2>1, <2>6 DEF Ops, Accepts
    <3>2. Moved(p.tracks, op.from, op.to) \in Seq(Tracks)
      <4> DEFINE s == p.tracks
                 r == RemoveAt(s, op.from)
      <4>1. r \in Seq(Tracks) /\ Len(r) = Len(s) - 1 /\ s[op.from] \in Tracks
        <5> DEFINE i == op.from
        <5>1. s \in Seq(Tracks) /\ i \in 1..Len(s)
          BY <2>1, <3>1
        <5> HIDE DEF s, i
        <5>2. RemoveAt(s, i) \in Seq(Tracks) /\ Len(RemoveAt(s, i)) = Len(s) - 1 /\ s[i] \in Tracks
          BY <5>1, RemoveTyped
        <5> QED BY <5>2 DEF s, i
      <4>2. Least(op.to, Len(s)) \in 1..(Len(r) + 1)
        BY <2>1, <3>1, <4>1 DEF Least
      <4> HIDE DEF r
      <4>3. InsertAt(r, Least(op.to, Len(s)), s[op.from]) \in Seq(Tracks)
        BY <4>1, <4>2, InsertTyped
      <4> QED BY <4>3 DEF Moved, r
    <3> QED BY <2>2, <2>6, <3>2 DEF ServerEdit
  <2> QED BY <1>3, <2>3, <2>4, <2>5, <2>6
<1> QED BY <1>1, <1>2, <1>3 DEF Ops

LEMMA OptimisticTyped ==
    ASSUME NEW op \in Ops, op.kind \in TrackKinds, NEW s \in Seq(Tracks), Writes(op, s)
    PROVE  OptimisticEdit(op, s) \in Seq(Tracks)
<1>1. CASE op.kind = "add"
  <2>1. op.track \in Tracks /\ op.at \in Nat
    BY <1>1 DEF Ops
  <2>2. Append(s, op.track) \in Seq(Tracks)
    BY <2>1
  <2> QED BY <1>1, <2>1, <2>2, InsertTyped DEF OptimisticEdit
<1>2. CASE op.kind = "remove"
  BY <1>2, RemoveTyped DEF OptimisticEdit
<1>3. CASE op.kind = "reorder"
  <2> DEFINE f == Least(op.from, Len(s))
             g == Least(op.to, Len(s))
             r == RemoveAt(s, f)
  <2>1. op.from \in Nat \ {0} /\ op.to \in Nat \ {0}
    BY <1>3 DEF Ops
  <2>2. f # g
    BY <1>3 DEF Writes
  <2>3. f \in 1..Len(s) /\ g \in 1..Len(s)
    BY <2>1, <2>2 DEF Least
  <2> HIDE DEF f, g
  <2>4. r \in Seq(Tracks) /\ Len(r) = Len(s) - 1 /\ s[f] \in Tracks
    BY <2>3, RemoveTyped
  <2> HIDE DEF r
  <2>5. InsertAt(r, g, s[f]) \in Seq(Tracks)
    BY <2>3, <2>4, InsertTyped
  <2> QED BY <1>3, <2>5 DEF OptimisticEdit, OptimisticReorder, f, g, r
<1> QED BY <1>1, <1>2, <1>3 DEF TrackKinds

\* What a call of the user holds: an edit until it is enqueued or discarded, the
\* tracks it read, what it mirrors.
CallOK(r) ==
    /\ DOMAIN r = CallFields /\ r = [f \in CallFields |-> r[f]]
    /\ r.pc \in {"read", "write", "enqueue", "discard"} => r.op \in Ops
    /\ r.pc = "write" /\ r.op.kind \in TrackKinds => r.rows \in Seq(Tracks)
    /\ r.pc \in {"mirrorRow", "mirrorTracks"} => r.view \in Playlists /\ r.todo \subseteq Remotes
    /\ r.pc = "listed" => /\ r.view \in [Remotes -> Playlists \cup {None}]
                          /\ r.todo \subseteq {id \in Remotes : r.view[id] # None}

CallsTyped ==
    /\ DOMAIN call = Calls /\ call = [c \in Calls |-> call[c]]
    /\ \A c \in Calls : CallOK(call[c])

RowsTyped ==
    /\ srv \in [Remotes -> Playlists \cup {None}]
    /\ cache \in [Ids -> Playlists \cup {None}]
    /\ outbox \in [Rows -> Ops \cup {None}]
    /\ next \in Nat
    /\ DOMAIN fate = Rows /\ fate = [r \in Rows |-> fate[r]]

RemapPcs == {"remapList", "remap", "remapCache"}

\* What the engine holds: its snapshot, the create it remaps, the playlist it pulls.
SyncTyped ==
    /\ DOMAIN sync = SyncFields /\ sync = [f \in SyncFields |-> sync[f]]
    /\ sync.todo \in [Rows -> Ops \cup {None}]
    /\ sync.pc \in RemapPcs => sync.made \in Remotes /\ sync.todo[sync.row] \in Ops
    /\ sync.pc \in {"row", "tracks"} => sync.view \in Playlists /\ sync.id \in Remotes

\* A row the engine is about to delete has met its fate.
Answered ==
    sync.pc \in RemapPcs \cup {"delete"} => sync.row \in Rows /\ fate[sync.row] # {}

LossInv == RowsTyped /\ CallsTyped /\ SyncTyped /\ Answered /\ EditsAccountedFor

\* An edit keeps its type and kind when its playlist gets another id.
LEMMA RenamedTyped ==
    ASSUME NEW op \in Ops, NEW id \in Ids
    PROVE  [op EXCEPT !.id = id] \in Ops /\ [op EXCEPT !.id = id].kind = op.kind
  BY DEF Ops

LEMMA OpFacts ==
    ASSUME NEW op \in Ops
    PROVE  op # None /\ op.id \in Ids
  BY NoneAssumption DEF Ops

LEMMA EditsTyped ==
    ASSUME RowsTyped
    PROVE  Edits \subseteq Ops
<1>1. Shown \subseteq Ids
  BY DEF Shown, Ids
<1>2. \A id \in Shown : DOMAIN ShownTracks(id) \subseteq Nat \ {0}
  <2> TAKE id \in Shown
  <2>1. ShownTracks(id) \in Seq(Tracks)
    BY <1>1 DEF ShownTracks, RowsTyped, Playlists
  <2> QED BY <2>1
<1> SUFFICES ASSUME NEW op \in Edits PROVE op \in Ops
  OBVIOUS
<1>3. CASE op \in [kind : {"create"}, id : {l \in Locals : locals[l] = "fresh"}, name : Names]
  BY <1>3 DEF Ops, Ids
<1>4. CASE op \in [kind : {"rename"}, id : Shown, name : Names] \cup [kind : {"delete"}, id : Shown]
  BY <1>1, <1>4 DEF Ops
<1>5. CASE \E id \in Shown : op \in [kind : {"add"}, id : {id}, track : Tracks, at : {0, 1}]
  BY <1>1, <1>5 DEF Ops
<1>6. CASE \E id \in Shown : op \in [kind : {"remove"}, id : {id}, at : DOMAIN ShownTracks(id)]
  BY <1>1, <1>2, <1>6 DEF Ops
<1>7. CASE \E id \in Shown : op \in [kind : {"reorder"}, id : {id}, from : DOMAIN ShownTracks(id),
                                    to : DOMAIN ShownTracks(id)]
  BY <1>1, <1>2, <1>7 DEF Ops
<1>8. /\ op \in Additions => op \in Ops
      /\ op \in Rearrangements => op \in Ops
  BY <1>5, <1>6, <1>7 DEF Additions, Rearrangements
<1> QED BY <1>3, <1>4, <1>8 DEF Edits

\* The server's rows, whatever comes of a call.
LEMMA ServerTyped ==
    ASSUME srv \in [Remotes -> Playlists \cup {None}], NEW op \in Ops, NEW id \in Remotes,
           id \in Targets(op), NEW o, CallServer(op, id, o)
    PROVE  srv' \in [Remotes -> Playlists \cup {None}]
<1>1. CASE UNCHANGED serverVars
  BY <1>1 DEF serverVars
<1>2. CASE Accepts(op, srv[id], RestOnly) /\ Execute(op, id)
  <2>1. ServerEdit(op, srv[id]) \in Playlists \cup {None}
    <3>1. RestOnly \in BOOLEAN
      BY DEF RestOnly
    <3> QED BY <1>2, <3>1, ServerEditTyped
  <2> QED BY <1>2, <2>1 DEF Execute
<1>3. ASSUME NEW first \in Targets(op), NEW accepted \in BOOLEAN, ExecuteAgain(op, first, id, accepted)
      PROVE  srv' \in [Remotes -> Playlists \cup {None}]
  <2> DEFINE once == [srv EXCEPT ![first] = ServerEdit(op, srv[first])]
  <2>1. first \in Remotes
    BY DEF Targets
  <2>2. ServerEdit(op, srv[first]) \in Playlists \cup {None}
    BY <1>3, <2>1, ServerEditTyped DEF ExecuteAgain
  <2>3. once \in [Remotes -> Playlists \cup {None}]
    BY <2>1, <2>2
  <2>4. /\ accepted = Accepts(op, once[id], TRUE)
        /\ srv' = IF accepted THEN [once EXCEPT ![id] = ServerEdit(op, once[id])] ELSE once
    BY <1>3 DEF ExecuteAgain
  <2> HIDE DEF once
  <2>5. accepted => ServerEdit(op, once[id]) \in Playlists \cup {None}
    BY <2>3, <2>4, ServerEditTyped
  <2> QED BY <2>3, <2>4, <2>5
<1> QED BY <1>1, <1>2, <1>3 DEF CallServer

LEMMA UpsertTyped ==
    ASSUME cache \in [Ids -> Playlists \cup {None}], NEW id \in Ids, NEW n \in Names
    PROVE  Upserted(id, n) \in [Ids -> Playlists \cup {None}]
<1>1. [name |-> n, tracks |-> <<>>] \in Playlists
  BY DEF Playlists
<1>2. \A p \in Playlists : [p EXCEPT !.name = n] \in Playlists
  BY DEF Playlists
<1> QED BY <1>1, <1>2 DEF Upserted

LEMMA ReplaceTyped ==
    ASSUME cache \in [Ids -> Playlists \cup {None}], NEW id \in Ids, NEW s \in Seq(Tracks)
    PROVE  Replaced(id, s) \in [Ids -> Playlists \cup {None}]
<1>1. \A p \in Playlists : [p EXCEPT !.tracks = s] \in Playlists
  BY DEF Playlists
<1> QED BY <1>1 DEF Replaced

\* One call goes on, the others do not.
LEMMA CallSet ==
    ASSUME CallsTyped, NEW c \in Calls, NEW r, CallOK(r), call' = [call EXCEPT ![c] = r]
    PROVE  CallsTyped'
<1>1. DOMAIN call' = Calls /\ call' = [d \in Calls |-> call'[d]]
  BY DEF CallsTyped
<1>2. \A d \in Calls : call'[d] = IF d = c THEN r ELSE call[d]
  BY DEF CallsTyped
<1>3. \A d \in Calls : CallOK(call'[d])
  BY <1>2 DEF CallsTyped
<1>4. \A d \in Calls : CallOK(call'[d]) <=> CallOK(call[d])'
  BY DEF CallOK
<1> QED BY <1>1, <1>3, <1>4 DEF CallsTyped

LEMMA IdleOK == CallOK(IdleCall)
  BY DEF CallOK, IdleCall, CallFields

LEMMA EndCallTyped ==
    ASSUME CallsTyped, NEW c \in Calls, EndCall(c)
    PROVE  CallsTyped'
  BY CallSet, IdleOK DEF EndCall

\* A step that leaves the outbox alone.
LEMMA QuietKeeps ==
    ASSUME LossInv, UNCHANGED <<outbox, next, fate>>,
           srv' \in [Remotes -> Playlists \cup {None}], cache' \in [Ids -> Playlists \cup {None}],
           CallsTyped', SyncTyped', Answered'
    PROVE  LossInv'
  BY DEF LossInv, RowsTyped, EditsAccountedFor

\* A call that leaves the engine alone, and the outbox.
LEMMA CallQuiet ==
    ASSUME LossInv, UNCHANGED <<outbox, next, fate, sync>>,
           srv' \in [Remotes -> Playlists \cup {None}], cache' \in [Ids -> Playlists \cup {None}],
           CallsTyped'
    PROVE  LossInv'
<1>1. SyncTyped' /\ Answered'
  BY DEF LossInv, SyncTyped, Answered
<1> QED BY <1>1, QuietKeeps

LEMMA EditLocalKeeps ==
    ASSUME LossInv, NEW c \in Calls, NEW op \in Edits, EditLocal(c, op)
    PROVE  LossInv'
<1> DEFINE r == [call[c] EXCEPT !.pc = AfterStart(op), !.op = op, !.queue = TRUE]
<1>1. /\ call' = [call EXCEPT ![c] = r]
      /\ UNCHANGED <<srv, cache, outbox, next, fate, sync>>
  BY DEF EditLocal, serverVars, queueVars, histVars
<1>2. op \in Ops /\ CallOK(call[c])
  BY EditsTyped DEF LossInv, CallsTyped
<1>3. CallOK(r)
  BY <1>2 DEF CallOK, CallFields, AfterStart
<1> HIDE DEF r
<1>4. CallsTyped'
  BY <1>1, <1>3, CallSet DEF LossInv
<1> QED BY <1>1, <1>4, CallQuiet DEF LossInv, RowsTyped

LEMMA EditOnlineKeeps ==
    ASSUME LossInv, NEW c \in Calls, NEW op \in Edits, NEW id \in Targets(op), NEW o \in Outcomes,
           EditOnline(c, op, id, o)
    PROVE  LossInv'
<1>1. op \in Ops /\ CallOK(call[c])
  BY EditsTyped DEF LossInv, CallsTyped
<1>2. id \in Remotes /\ id \in Ids
  BY DEF EditOnline, Targets, Ids
<1>3. srv' \in [Remotes -> Playlists \cup {None}]
  BY <1>1, <1>2, ServerTyped DEF EditOnline, LossInv, RowsTyped
<1>4. UNCHANGED <<cache, outbox, next, fate, sync>>
  BY DEF EditOnline, queueVars, histVars
<1>5. CallsTyped'
  <2> DEFINE p == [op EXCEPT !.id = id]
             r == [call[c] EXCEPT !.pc = AfterStart(op), !.op = p]
             q == [call[c] EXCEPT !.pc = AfterStart(op), !.op = op, !.queue = TRUE]
  <2>1. p \in Ops /\ p.kind = op.kind
    BY <1>1, <1>2, RenamedTyped
  <2> HIDE DEF p
  <2>2. CallOK(r)
    BY <1>1, <2>1 DEF CallOK, CallFields, AfterStart
  <2>3. CallOK(q)
    BY <1>1 DEF CallOK, CallFields, AfterStart
  <2>4. call' = [call EXCEPT ![c] = r] \/ call' = [call EXCEPT ![c] = q] \/ UNCHANGED call
    BY DEF EditOnline, p
  <2> HIDE DEF r, q
  <2>5. UNCHANGED call => CallsTyped'
    BY DEF LossInv, CallsTyped, CallOK
  <2> QED BY <2>2, <2>3, <2>4, <2>5, CallSet DEF LossInv
<1> QED BY <1>3, <1>4, <1>5, CallQuiet DEF LossInv, RowsTyped

LEMMA EditReadKeeps ==
    ASSUME LossInv, NEW c \in Calls, EditRead(c)
    PROVE  LossInv'
<1> DEFINE s == ShownTracks(call[c].op.id)
           r == [call[c] EXCEPT !.pc = "write", !.rows = s]
<1>1. /\ call' = [call EXCEPT ![c] = r] /\ call[c].pc = "read"
      /\ UNCHANGED <<srv, cache, outbox, next, fate, sync>>
  BY DEF EditRead, serverVars, cacheVars, queueVars, histVars
<1>2. CallOK(call[c]) /\ call[c].op \in Ops
  BY <1>1 DEF LossInv, CallsTyped, CallOK
<1>3. s \in Seq(Tracks)
  BY <1>2, OpFacts DEF ShownTracks, LossInv, RowsTyped, Playlists
<1> HIDE DEF s
<1>4. CallOK(r)
  BY <1>2, <1>3 DEF CallOK, CallFields
<1> HIDE DEF r
<1>5. CallsTyped'
  BY <1>1, <1>4, CallSet DEF LossInv
<1> QED BY <1>1, <1>5, CallQuiet DEF LossInv, RowsTyped

LEMMA EditWriteKeeps ==
    ASSUME LossInv, NEW c \in Calls, EditWrite(c)
    PROVE  LossInv'
<1> DEFINE op == call[c].op
           l == AfterWrite(call[c])
           r == [call[c] EXCEPT !.pc = l, !.rows = <<>>]
<1>1. call[c].pc = "write" /\ UNCHANGED <<srv, outbox, next, fate, sync>>
  BY DEF EditWrite, serverVars, queueVars, histVars
<1>2. CallOK(call[c]) /\ op \in Ops /\ op.id \in Ids
  BY <1>1, OpFacts DEF LossInv, CallsTyped, CallOK
<1>3. Proceed(c, l) \/ EndCall(c)
  BY DEF EditWrite
<1>4. CallOK(r)
  BY <1>2 DEF CallOK, CallFields, AfterWrite
<1>5. Proceed(c, l) => call' = [call EXCEPT ![c] = IF l = "idle" THEN IdleCall ELSE r]
  BY DEF Proceed
<1>6. CallsTyped'
  <2> HIDE DEF l, r
  <2> QED BY <1>3, <1>4, <1>5, CallSet, IdleOK, EndCallTyped DEF LossInv
<1>7. cache' \in [Ids -> Playlists \cup {None}]
  <2>1. cache \in [Ids -> Playlists \cup {None}]
    BY DEF LossInv, RowsTyped
  <2>2. CASE op.kind \in {"create", "rename"} /\ cache' = Upserted(op.id, op.name)
    <3>1. op.name \in Names
      BY <1>2, <2>2 DEF Ops
    <3> QED BY <1>2, <2>1, <2>2, <3>1, UpsertTyped
  <2>3. CASE cache' = [cache EXCEPT ![op.id] = None]
    BY <2>1, <2>3
  <2>4. CASE UNCHANGED cache
    BY <2>1, <2>4
  <2>5. CASE /\ op.kind \in TrackKinds /\ Writes(op, call[c].rows)
             /\ cache' = Replaced(op.id, OptimisticEdit(op, call[c].rows))
    <3>1. call[c].rows \in Seq(Tracks)
      BY <1>1, <1>2, <2>5 DEF CallOK
    <3>2. OptimisticEdit(op, call[c].rows) \in Seq(Tracks)
      BY <1>2, <2>5, <3>1, OptimisticTyped
    <3> QED BY <1>2, <2>1, <2>5, <3>2, ReplaceTyped
  <2> QED BY <2>2, <2>3, <2>4, <2>5 DEF EditWrite
<1> QED BY <1>1, <1>6, <1>7, CallQuiet DEF LossInv, RowsTyped

\* The row that is enqueued is not empty, and has the id that was next.
LEMMA EditEnqueueKeeps ==
    ASSUME LossInv, NEW c \in Calls, EditEnqueue(c)
    PROVE  LossInv'
<1>1. /\ call[c].pc = "enqueue" /\ EndCall(c)
      /\ outbox' = [outbox EXCEPT ![next] = call[c].op] /\ next' = next + 1
      /\ UNCHANGED <<srv, cache, fate, sync>>
  BY DEF EditEnqueue, serverVars, cacheVars, histVars
<1>2. call[c].op \in Ops /\ call[c].op # None
  BY <1>1, OpFacts DEF LossInv, CallsTyped, CallOK
<1>3. RowsTyped'
  <2>1. outbox' \in [Rows -> Ops \cup {None}]
    BY <1>1, <1>2 DEF LossInv, RowsTyped
  <2>2. next' \in Nat
    BY <1>1 DEF LossInv, RowsTyped
  <2> QED BY <1>1, <2>1, <2>2 DEF LossInv, RowsTyped
<1>4. CallsTyped'
  BY <1>1, EndCallTyped DEF LossInv
<1>5. SyncTyped' /\ Answered'
  BY <1>1 DEF LossInv, SyncTyped, Answered
<1>6. EditsAccountedFor'
  <2> SUFFICES ASSUME NEW r \in Rows, r < next', outbox'[r] = None PROVE fate'[r] # {}
    BY DEF EditsAccountedFor
  <2>1. r \in Nat /\ next \in Nat
    BY BoundsAssumption DEF Rows, LossInv, RowsTyped
  <2>2. r # next
    BY <1>1, <1>2 DEF LossInv, RowsTyped
  <2>3. r < next /\ outbox[r] = None
    BY <1>1, <2>1, <2>2 DEF LossInv, RowsTyped
  <2> QED BY <1>1, <2>3 DEF LossInv, EditsAccountedFor
<1> QED BY <1>3, <1>4, <1>5, <1>6 DEF LossInv

\* A row that is discarded with its placeholder has met its fate in the same step.
LEMMA DiscardKeeps ==
    ASSUME LossInv, NEW c \in Calls, DiscardList(c) \/ DiscardOp(c)
    PROVE  LossInv'
<1>0. CallOK(call[c])
  BY DEF LossInv, CallsTyped
<1>1. CASE DiscardList(c)
  <2> DEFINE id == call[c].op.id
             todo == {r \in Rows : outbox[r] # None /\ References(outbox[r], id)}
             r == [call[c] EXCEPT !.pc = "discarding", !.todo = todo]
  <2>1. /\ call' = [call EXCEPT ![c] = r]
        /\ UNCHANGED <<srv, cache, outbox, next, fate, sync>>
    BY <1>1 DEF DiscardList, serverVars, cacheVars, queueVars, histVars
  <2> HIDE DEF todo
  <2>2. CallOK(r)
    BY <1>0 DEF CallOK, CallFields
  <2> HIDE DEF r
  <2>3. CallsTyped'
    BY <2>1, <2>2, CallSet DEF LossInv
  <2> QED BY <2>1, <2>3, CallQuiet DEF LossInv, RowsTyped
<1>2. CASE DiscardOp(c) /\ EndCall(c) /\ UNCHANGED <<outbox, fate>>
  <2>1. UNCHANGED <<srv, cache, next, sync>>
    BY <1>2 DEF DiscardOp, serverVars, cacheVars
  <2> QED BY <1>2, <2>1, EndCallTyped, CallQuiet DEF LossInv, RowsTyped
<1>3. ASSUME NEW q \in call[c].todo, DiscardOp(c),
             outbox' = [outbox EXCEPT ![q] = None],
             fate' = [fate EXCEPT ![q] = @ \cup {"discarded"}],
             call' = [call EXCEPT ![c].todo = @ \ {q}]
      PROVE  LossInv'
  <2> DEFINE todo == call[c].todo \ {q}
             r == [call[c] EXCEPT !.todo = todo]
  <2>1. UNCHANGED <<srv, cache, next, sync>> /\ call[c].pc = "discarding"
    BY <1>3 DEF DiscardOp, serverVars, cacheVars
  <2>2. call' = [call EXCEPT ![c] = r]
    BY <1>3
  <2> HIDE DEF todo
  <2>3. CallOK(r)
    BY <1>0, <2>1 DEF CallOK, CallFields
  <2> HIDE DEF r
  <2>4. CallsTyped'
    BY <2>2, <2>3, CallSet DEF LossInv
  <2>5. RowsTyped'
    BY <1>3, <2>1 DEF LossInv, RowsTyped
  <2>6. \A p \in Rows : (fate[p] # {} => fate'[p] # {}) /\ (p = q => fate'[p] # {})
    BY <1>3 DEF LossInv, RowsTyped
  <2>7. SyncTyped' /\ Answered'
    BY <2>1, <2>6 DEF LossInv, SyncTyped, Answered
  <2>8. EditsAccountedFor'
    <3>1. \A p \in Rows : p # q => outbox'[p] = outbox[p]
      BY <1>3 DEF LossInv, RowsTyped
    <3> QED BY <2>1, <2>6, <3>1 DEF LossInv, EditsAccountedFor
  <2> QED BY <2>4, <2>5, <2>7, <2>8 DEF LossInv
<1> QED BY <1>1, <1>2, <1>3 DEF DiscardOp

\* What a call mirrors of the server's playlists.
LEMMA MirrorKeeps ==
    ASSUME LossInv, NEW c \in Calls,
           \/ \E id \in Remotes : Open(c, id)
           \/ MirrorRow(c) \/ MirrorTracks(c) \/ ListMine(c) \/ ListMirror(c)
    PROVE  LossInv'
<1>0. /\ CallOK(call[c])
      /\ srv \in [Remotes -> Playlists \cup {None}] /\ cache \in [Ids -> Playlists \cup {None}]
  BY DEF LossInv, CallsTyped, RowsTyped
<1>1. UNCHANGED <<srv, outbox, next, fate, sync>>
  BY DEF Open, MirrorRow, MirrorTracks, ListMine, ListMirror, serverVars, queueVars, histVars
<1>2. ASSUME NEW id \in Remotes, Open(c, id) PROVE LossInv'
  <2> DEFINE p == srv[id]
             r == [call[c] EXCEPT !.pc = "mirrorRow", !.todo = {id}, !.view = p]
  <2>1. call' = [call EXCEPT ![c] = r] /\ UNCHANGED cache /\ p \in Playlists
    BY <1>0, <1>2 DEF Open, cacheVars
  <2> HIDE DEF p
  <2>2. CallOK(r)
    BY <1>0, <2>1 DEF CallOK, CallFields
  <2> HIDE DEF r
  <2>3. CallsTyped'
    BY <2>1, <2>2, CallSet DEF LossInv
  <2> QED BY <1>0, <1>1, <2>1, <2>3, CallQuiet
<1>3. CASE MirrorRow(c)
  <2> DEFINE r == [call[c] EXCEPT !.pc = "mirrorTracks"]
  <2>1. call' = [call EXCEPT ![c] = r] /\ call[c].pc = "mirrorRow"
    BY <1>3 DEF MirrorRow
  <2>2. call[c].view \in Playlists /\ call[c].todo \subseteq Remotes
    BY <1>0, <2>1 DEF CallOK
  <2>3. PICK id \in call[c].todo : cache' = Upserted(id, call[c].view.name)
    BY <1>3 DEF MirrorRow
  <2>4. id \in Ids /\ call[c].view.name \in Names
    BY <2>2 DEF Ids, Playlists
  <2>5. cache' \in [Ids -> Playlists \cup {None}]
    BY <1>0, <2>3, <2>4, UpsertTyped
  <2>6. CallOK(r)
    BY <1>0, <2>2 DEF CallOK, CallFields
  <2> HIDE DEF r
  <2>7. CallsTyped'
    BY <2>1, <2>6, CallSet DEF LossInv
  <2> QED BY <1>0, <1>1, <2>5, <2>7, CallQuiet
<1>4. CASE MirrorTracks(c)
  <2>1. call[c].pc = "mirrorTracks" /\ EndCall(c)
    BY <1>4 DEF MirrorTracks
  <2>2. call[c].view.tracks \in Seq(Tracks) /\ call[c].todo \subseteq Ids
    BY <1>0, <2>1 DEF CallOK, Playlists, Ids
  <2>3. cache' \in [Ids -> Playlists \cup {None}]
    BY <1>0, <1>4, <2>2, ReplaceTyped DEF MirrorTracks
  <2> QED BY <1>0, <1>1, <2>1, <2>3, EndCallTyped, CallQuiet DEF LossInv
<1>5. CASE ListMine(c)
  <2> DEFINE todo == {id \in Remotes : srv[id] # None}
             r == [call[c] EXCEPT !.pc = "listed", !.view = srv, !.todo = todo]
  <2>1. call' = [call EXCEPT ![c] = r] /\ UNCHANGED cache
    BY <1>5 DEF ListMine, cacheVars
  <2>2. /\ r.pc = "listed" /\ r.view = srv /\ r.todo = todo
        /\ DOMAIN r = CallFields /\ r = [f \in CallFields |-> r[f]]
    BY <1>0 DEF CallOK, CallFields
  <2> HIDE DEF r
  <2>3. CallOK(r)
    BY <1>0, <2>2 DEF CallOK
  <2>4. CallsTyped'
    BY <2>1, <2>3, CallSet DEF LossInv
  <2> QED BY <1>0, <1>1, <2>1, <2>4, CallQuiet
<1>6. CASE ListMirror(c) /\ EndCall(c) /\ UNCHANGED cache
  BY <1>0, <1>1, <1>6, EndCallTyped, CallQuiet DEF LossInv
<1>7. ASSUME NEW id \in call[c].todo, call[c].pc = "listed",
             cache' = Upserted(id, call[c].view[id].name),
             call' = [call EXCEPT ![c].todo = @ \ {id}]
      PROVE  LossInv'
  <2> DEFINE todo == call[c].todo \ {id}
             r == [call[c] EXCEPT !.todo = todo]
  <2>1. call' = [call EXCEPT ![c] = r]
    BY <1>7
  <2>2. id \in Ids /\ call[c].view[id].name \in Names
    BY <1>0, <1>7 DEF CallOK, Ids, Playlists
  <2>3. cache' \in [Ids -> Playlists \cup {None}]
    BY <1>0, <1>7, <2>2, UpsertTyped
  <2>4. todo \subseteq call[c].todo
    OBVIOUS
  <2> HIDE DEF todo
  <2>5. CallOK(r)
    BY <1>0, <1>7, <2>4 DEF CallOK, CallFields
  <2> HIDE DEF r
  <2>6. CallsTyped'
    BY <2>1, <2>5, CallSet DEF LossInv
  <2> QED BY <1>0, <1>1, <2>3, <2>6, CallQuiet
<1> QED BY <1>2, <1>3, <1>4, <1>5, <1>6, <1>7 DEF ListMirror

LEMMA CallLossKeeps ==
    ASSUME LossInv, NEW c \in Calls, StartCall(c) \/ CallStep(c)
    PROVE  LossInv'
  BY EditLocalKeeps, EditOnlineKeeps, EditReadKeeps, EditWriteKeeps, EditEnqueueKeeps, DiscardKeeps,
     MirrorKeeps DEF StartCall, CallStep

\* A step of the engine that leaves the outbox alone.
LEMMA EngineQuiet ==
    ASSUME LossInv, UNCHANGED <<srv, outbox, next, fate, call>>,
           cache' \in [Ids -> Playlists \cup {None}], SyncTyped', Answered'
    PROVE  LossInv'
<1>1. CallsTyped'
  BY DEF LossInv, CallsTyped, CallOK
<1> QED BY <1>1, QuietKeeps DEF LossInv, RowsTyped

\* The engine rests, or goes on to pull.
LEMMA RestTyped ==
    ASSUME LossInv, EndSync \/ \E p \in {"list"} : sync' = [IdleSync EXCEPT !.pc = p]
    PROVE  SyncTyped' /\ Answered'
<1>1. Empty \in [Rows -> Ops \cup {None}]
  BY DEF Empty
<1>2. /\ DOMAIN sync' = SyncFields /\ sync' = [f \in SyncFields |-> sync'[f]]
      /\ sync'.todo = Empty /\ sync'.pc \in {"idle", "list"}
  BY DEF EndSync, IdleSync, SyncFields
<1> QED BY <1>1, <1>2 DEF SyncTyped, Answered, RemapPcs

\* The row of the next op, and the server it is sent to.
LEMMA FirstTyped ==
    ASSUME LossInv, NEW r, First(r)
    PROVE  r \in Rows /\ sync.todo[r] \in Ops
  BY DEF First, Queued, LossInv, SyncTyped

LEMMA PushCallLoss ==
    ASSUME LossInv, NEW r, NEW o \in Outcomes, NEW id \in Targets(sync.todo[r]), PushCall(r, id, o)
    PROVE  LossInv'
<1> DEFINE op == sync.todo[r]
           why == CASE Answer(o) = "ok" -> {"answered"}
                    [] Answer(o) = "refused" -> {"refused"}
                    [] OTHER -> {}
<1>1. /\ UNCHANGED <<cache, outbox, next, call>>
      /\ First(r) /\ ~Unresolved(op) /\ CallServer(op, id, o)
      /\ sync' = [sync EXCEPT !.pc = AfterCall(op, o), !.row = r, !.made = id]
      /\ fate' = [fate EXCEPT ![r] = @ \cup why]
  BY DEF PushCall, cacheVars, queueVars
<1>2. r \in Rows /\ op \in Ops
  BY <1>1, FirstTyped
<1>3. id \in Remotes
  BY <1>1, <1>2, OpFacts DEF Targets, Unresolved, Ids
<1>4. srv' \in [Remotes -> Playlists \cup {None}]
  BY <1>1, <1>2, <1>3, ServerTyped DEF LossInv, RowsTyped
<1>5. CallsTyped'
  BY <1>1 DEF LossInv, CallsTyped, CallOK
<1>6. DOMAIN fate' = Rows /\ fate' = [q \in Rows |-> fate'[q]]
  BY <1>1, <1>2 DEF LossInv, RowsTyped
<1>7. fate'[r] = fate[r] \cup why /\ \A q \in Rows : q # r => fate'[q] = fate[q]
  BY <1>1, <1>2 DEF LossInv, RowsTyped
<1>8. AfterCall(op, o) \in RemapPcs \cup {"delete"} => why # {}
  BY DEF AfterCall, RemapPcs
<1>9. SyncTyped'
  <2>1. /\ DOMAIN sync' = SyncFields /\ sync' = [f \in SyncFields |-> sync'[f]]
        /\ sync'.todo = sync.todo /\ sync'.row = r /\ sync'.made = id
        /\ sync'.pc = AfterCall(op, o)
    BY <1>1 DEF LossInv, SyncTyped, SyncFields
  <2>2. AfterCall(op, o) \notin {"row", "tracks"}
    BY DEF AfterCall
  <2> QED BY <1>2, <1>3, <2>1, <2>2 DEF LossInv, SyncTyped
<1>10. Answered'
  <2>1. sync'.row = r /\ sync'.pc = AfterCall(op, o)
    BY <1>1 DEF LossInv, SyncTyped, SyncFields
  <2> HIDE DEF why
  <2> QED BY <1>2, <1>7, <1>8, <2>1 DEF Answered
<1>11. EditsAccountedFor'
  <2> HIDE DEF why
  <2> QED BY <1>1, <1>7 DEF LossInv, EditsAccountedFor
<1>12. RowsTyped'
  BY <1>1, <1>4, <1>6 DEF LossInv, RowsTyped
<1> QED BY <1>5, <1>9, <1>10, <1>11, <1>12 DEF LossInv

LEMMA PushUnresolvedLoss ==
    ASSUME LossInv, NEW r, PushUnresolved(r)
    PROVE  LossInv'
<1>1. /\ UNCHANGED <<srv, cache, outbox, next, call>> /\ First(r)
      /\ sync' = [sync EXCEPT !.pc = "delete", !.row = r]
      /\ fate' = [fate EXCEPT ![r] = @ \cup {"unresolved"}]
  BY DEF PushUnresolved, serverVars, cacheVars, queueVars
<1>2. r \in Rows
  BY <1>1, FirstTyped
<1>3. CallsTyped'
  BY <1>1 DEF LossInv, CallsTyped, CallOK
<1>4. RowsTyped'
  BY <1>1, <1>2 DEF LossInv, RowsTyped
<1>5. fate'[r] # {} /\ \A q \in Rows : q # r => fate'[q] = fate[q]
  BY <1>1, <1>2 DEF LossInv, RowsTyped
<1>6. /\ DOMAIN sync' = SyncFields /\ sync' = [f \in SyncFields |-> sync'[f]]
      /\ sync'.todo = sync.todo /\ sync'.row = r /\ sync'.pc = "delete"
  BY <1>1 DEF LossInv, SyncTyped, SyncFields
<1>7. SyncTyped' /\ Answered'
  BY <1>2, <1>5, <1>6 DEF LossInv, SyncTyped, Answered, RemapPcs
<1>8. EditsAccountedFor'
  BY <1>1, <1>5 DEF LossInv, EditsAccountedFor
<1> QED BY <1>3, <1>4, <1>7, <1>8 DEF LossInv

\* Rewriting the ops that name a placeholder leaves them ops.
LEMMA RemapLoss ==
    ASSUME LossInv, RemapList \/ RemapOp \/ RemapCache
    PROVE  LossInv'
<1>0. /\ sync.pc \in RemapPcs /\ sync.row \in Rows /\ fate[sync.row] # {}
      /\ sync.made \in Remotes /\ sync.todo[sync.row] \in Ops
  BY DEF RemapList, RemapOp, RemapCache, RemapPcs, LossInv, SyncTyped, Answered
<1>1. cache \in [Ids -> Playlists \cup {None}]
  BY DEF LossInv, RowsTyped
<1>2. ASSUME /\ DOMAIN sync' = SyncFields /\ sync' = [f \in SyncFields |-> sync'[f]]
             /\ sync'.todo = sync.todo /\ sync'.row = sync.row /\ sync'.made = sync.made
             /\ sync'.pc \in RemapPcs \cup {"delete"},
             UNCHANGED fate
      PROVE  SyncTyped' /\ Answered'
  BY <1>0, <1>2 DEF SyncTyped, Answered, LossInv, RemapPcs
<1>3. CASE RemapList
  <2> DEFINE todo == {r \in Queued(outbox) : References(outbox[r], OldId)}
  <2>1. /\ sync' = [sync EXCEPT !.pc = "remap", !.remap = todo]
        /\ UNCHANGED <<srv, cache, outbox, next, fate, call>>
    BY <1>3 DEF RemapList, serverVars, cacheVars, queueVars, histVars
  <2> HIDE DEF todo
  <2>2. SyncTyped' /\ Answered'
    BY <1>2, <2>1 DEF LossInv, SyncTyped, SyncFields, RemapPcs
  <2> QED BY <1>1, <2>1, <2>2, EngineQuiet
<1>4. CASE RemapOp
  <2>1. UNCHANGED <<srv, cache, next, fate, call>>
    BY <1>4 DEF RemapOp, serverVars, cacheVars, histVars
  <2>2. SyncTyped' /\ Answered'
    <3>1. \/ sync' = [sync EXCEPT !.pc = "remapCache"]
          \/ \E t : sync' = [sync EXCEPT !.remap = t]
      BY <1>4 DEF RemapOp
    <3> QED BY <1>0, <1>2, <2>1, <3>1 DEF LossInv, SyncTyped, SyncFields, RemapPcs
  <2>3. /\ outbox' \in [Rows -> Ops \cup {None}]
        /\ \A r \in Rows : outbox'[r] = None => outbox[r] = None
    <3>1. CASE UNCHANGED outbox
      BY <3>1 DEF LossInv, RowsTyped
    <3>2. ASSUME NEW r \in sync.remap,
                 outbox' = [outbox EXCEPT ![r] = IF @ = None THEN None ELSE [@ EXCEPT !.id = sync.made]]
          PROVE  /\ outbox' \in [Rows -> Ops \cup {None}]
                 /\ \A q \in Rows : outbox'[q] = None => outbox[q] = None
      <4>1. \A op \in Ops : [op EXCEPT !.id = sync.made] \in Ops
        BY <1>0, RenamedTyped DEF Ids
      <4> DEFINE n == IF outbox[r] = None THEN None ELSE [outbox[r] EXCEPT !.id = sync.made]
      <4>2. outbox' = [outbox EXCEPT ![r] = n]
        BY <3>2
      <4>3. r \in Rows => n \in Ops \cup {None} /\ (n = None => outbox[r] = None)
        BY <4>1, OpFacts DEF LossInv, RowsTyped
      <4> HIDE DEF n
      <4> QED BY <4>2, <4>3 DEF LossInv, RowsTyped
    <3> QED BY <1>4, <3>1, <3>2 DEF RemapOp
  <2>4. CallsTyped'
    BY <2>1 DEF LossInv, CallsTyped, CallOK
  <2>5. RowsTyped' /\ EditsAccountedFor'
    BY <2>1, <2>3 DEF LossInv, RowsTyped, EditsAccountedFor
  <2> QED BY <2>2, <2>4, <2>5 DEF LossInv
<1>5. CASE RemapCache
  <2>1. UNCHANGED <<srv, outbox, next, fate, call>>
    BY <1>5 DEF RemapCache, serverVars, queueVars, histVars
  <2>2. SyncTyped' /\ Answered'
    <3>1. EndSync \/ sync' = [sync EXCEPT !.pc = "delete"]
      BY <1>5 DEF RemapCache
    <3>2. CASE sync' = [sync EXCEPT !.pc = "delete"]
      BY <1>2, <2>1, <3>2 DEF LossInv, SyncTyped, SyncFields
    <3> QED BY <3>1, <3>2, RestTyped
  <2>3. cache' \in [Ids -> Playlists \cup {None}]
    <3>1. OldId \in Ids /\ sync.made \in Ids
      BY <1>0, OpFacts DEF OldId, Ids
    <3> QED BY <1>1, <1>5, <3>1 DEF RemapCache
  <2> QED BY <2>1, <2>2, <2>3, EngineQuiet
<1> QED BY <1>3, <1>4, <1>5

\* The row that goes has met its fate.
LEMMA PushDeleteLoss ==
    ASSUME LossInv, PushDelete
    PROVE  LossInv'
<1>1. /\ outbox' = [outbox EXCEPT ![sync.row] = None] /\ sync.pc = "delete"
      /\ sync' = [sync EXCEPT !.pc = "push", !.todo[sync.row] = None, !.row = 0, !.made = None]
      /\ UNCHANGED <<srv, cache, next, fate, call>>
  BY DEF PushDelete, serverVars, cacheVars, histVars
<1>2. sync.row \in Rows /\ fate[sync.row] # {}
  BY <1>1 DEF LossInv, Answered
<1>3. /\ DOMAIN sync' = SyncFields /\ sync' = [f \in SyncFields |-> sync'[f]]
      /\ sync'.todo = [sync.todo EXCEPT ![sync.row] = None] /\ sync'.pc = "push"
  BY <1>1 DEF LossInv, SyncTyped, SyncFields
<1>4. SyncTyped' /\ Answered'
  BY <1>3 DEF LossInv, SyncTyped, Answered, RemapPcs
<1>5. RowsTyped'
  BY <1>1 DEF LossInv, RowsTyped
<1>6. CallsTyped'
  BY <1>1 DEF LossInv, CallsTyped, CallOK
<1>7. EditsAccountedFor'
  BY <1>1, <1>2 DEF LossInv, RowsTyped, EditsAccountedFor
<1> QED BY <1>4, <1>5, <1>6, <1>7 DEF LossInv

LEMMA SyncStartLoss ==
    ASSUME LossInv, SyncStart
    PROVE  LossInv'
<1>1. /\ sync' = [IdleSync EXCEPT !.pc = "push", !.todo = outbox]
      /\ UNCHANGED <<srv, cache, outbox, next, fate, call>>
  BY DEF SyncStart, serverVars, cacheVars, queueVars, histVars
<1>2. /\ DOMAIN sync' = SyncFields /\ sync' = [f \in SyncFields |-> sync'[f]]
      /\ sync'.todo = outbox /\ sync'.pc = "push"
  BY <1>1 DEF IdleSync, SyncFields
<1>3. SyncTyped' /\ Answered'
  BY <1>1, <1>2 DEF LossInv, RowsTyped, SyncTyped, Answered, RemapPcs
<1> QED BY <1>1, <1>3, EngineQuiet DEF LossInv, RowsTyped

\* The pull writes playlists the server had, and forgets.
LEMMA PullLoss ==
    ASSUME LossInv,
           PushEnd \/ PullList \/ PullRow \/ PullTracks \/ PullStamp \/ PullForget \/ PullEnd \/ PullFails
             \/ \E id \in Remotes : PullGet(id)
    PROVE  LossInv'
<1>0. /\ srv \in [Remotes -> Playlists \cup {None}] /\ cache \in [Ids -> Playlists \cup {None}]
      /\ DOMAIN sync = SyncFields /\ sync = [f \in SyncFields |-> sync[f]]
      /\ sync.todo \in [Rows -> Ops \cup {None}]
  BY DEF LossInv, RowsTyped, SyncTyped
<1>1. UNCHANGED <<srv, outbox, next, fate, call>>
  BY DEF PushEnd, PullList, PullRow, PullTracks, PullStamp, PullForget, PullEnd, PullFails, PullGet,
         serverVars, queueVars, histVars
<1>2. ASSUME DOMAIN sync' = SyncFields, sync' = [f \in SyncFields |-> sync'[f]],
             sync'.todo = sync.todo, sync'.pc \in {"pull", "forget", "stamp", "row", "tracks"},
             sync'.pc \in {"row", "tracks"} => sync'.view \in Playlists /\ sync'.id \in Remotes
      PROVE  SyncTyped' /\ Answered'
  BY <1>0, <1>2 DEF SyncTyped, Answered, RemapPcs
<1>3. CASE PushEnd \/ PullEnd \/ PullFails
  <2>1. UNCHANGED cache
    BY <1>3 DEF PushEnd, PullEnd, PullFails, cacheVars
  <2>2. EndSync \/ sync' = [IdleSync EXCEPT !.pc = "list"]
    BY <1>3 DEF PushEnd, PullEnd, PullFails
  <2>3. SyncTyped' /\ Answered'
    BY <2>2, RestTyped
  <2> QED BY <1>0, <1>1, <2>1, <2>3, EngineQuiet
<1>4. CASE PullList
  <2>1. PICK s : sync' = [sync EXCEPT !.pc = "pull", !.pull = s]
    BY <1>4 DEF PullList
  <2>2. SyncTyped' /\ Answered'
    BY <1>0, <1>2, <2>1 DEF SyncFields
  <2> QED BY <1>0, <1>1, <1>4, <2>2, EngineQuiet DEF PullList, cacheVars
<1>5. ASSUME NEW id \in Remotes, PullGet(id) PROVE LossInv'
  <2> DEFINE p == srv[id]
             s == sync.pull \ {id}
  <2>1. /\ \/ p # None /\ sync' = [sync EXCEPT !.pc = "row", !.id = id, !.view = p, !.pull = s]
           \/ sync' = [sync EXCEPT !.pc = "forget", !.id = id, !.pull = s]
           \/ sync.pc = "pull" /\ sync' = [sync EXCEPT !.pull = s]
        /\ UNCHANGED cache
    BY <1>5 DEF PullGet, cacheVars
  <2>2. p # None => p \in Playlists
    BY <1>0, <1>5
  <2> HIDE DEF p, s
  <2>3. SyncTyped' /\ Answered'
    BY <1>0, <1>2, <1>5, <2>1, <2>2 DEF SyncFields
  <2> QED BY <1>0, <1>1, <2>1, <2>3, EngineQuiet
<1>6. CASE PullRow \/ PullTracks
  <2>1. sync.view \in Playlists /\ sync.id \in Remotes /\ sync.id \in Ids
    BY <1>6 DEF PullRow, PullTracks, LossInv, SyncTyped, Ids
  <2>2. sync.view.name \in Names /\ sync.view.tracks \in Seq(Tracks)
    BY <2>1 DEF Playlists
  <2>3. cache' \in [Ids -> Playlists \cup {None}]
    BY <1>0, <1>6, <2>1, <2>2, UpsertTyped, ReplaceTyped DEF PullRow, PullTracks
  <2>4. EndSync \/ \E p \in {"tracks", "stamp"} : sync' = [sync EXCEPT !.pc = p]
    BY <1>6 DEF PullRow, PullTracks
  <2>5. SyncTyped' /\ Answered'
    <3>1. CASE EndSync
      BY <3>1, RestTyped
    <3>2. ASSUME NEW p \in {"tracks", "stamp"}, sync' = [sync EXCEPT !.pc = p]
          PROVE  SyncTyped' /\ Answered'
      BY <1>0, <1>2, <2>1, <3>2 DEF SyncFields
    <3> QED BY <2>4, <3>1, <3>2
  <2> QED BY <1>1, <2>3, <2>5, EngineQuiet
<1>7. CASE PullStamp
  <2>1. sync' = [sync EXCEPT !.pc = "pull", !.id = None, !.view = None] /\ UNCHANGED cache
    BY <1>7 DEF PullStamp, cacheVars
  <2>2. SyncTyped' /\ Answered'
    BY <1>0, <1>2, <2>1 DEF SyncFields
  <2> QED BY <1>0, <1>1, <2>1, <2>2, EngineQuiet
<1>8. CASE PullForget
  <2>1. sync' = [sync EXCEPT !.pc = "pull", !.id = None] /\ cache' = [cache EXCEPT ![sync.id] = None]
    BY <1>8 DEF PullForget
  <2>2. SyncTyped' /\ Answered'
    BY <1>0, <1>2, <2>1 DEF SyncFields
  <2>3. cache' \in [Ids -> Playlists \cup {None}]
    BY <1>0, <2>1
  <2> QED BY <1>1, <2>2, <2>3, EngineQuiet
<1> QED BY <1>3, <1>4, <1>5, <1>6, <1>7, <1>8

\* A crash ends the calls and the sync; another device edits a row the server has.
LEMMA EnvironmentLoss ==
    ASSUME LossInv, Crash \/ \E id \in Remotes : Foreign(id)
    PROVE  LossInv'
<1>0. /\ srv \in [Remotes -> Playlists \cup {None}] /\ cache \in [Ids -> Playlists \cup {None}]
  BY DEF LossInv, RowsTyped
<1>1. CASE Crash
  <2>1. UNCHANGED <<srv, cache, outbox, next, fate>> /\ EndSync /\ call' = [c \in Calls |-> IdleCall]
    BY <1>1 DEF Crash, cacheVars, queueVars, histVars
  <2>2. SyncTyped' /\ Answered'
    BY <2>1, RestTyped
  <2>3. \A c \in Calls : CallOK(call'[c])
    BY <2>1, IdleOK
  <2>4. CallsTyped'
    BY <2>1, <2>3 DEF CallsTyped, CallOK
  <2> QED BY <1>0, <2>1, <2>2, <2>4, QuietKeeps
<1>2. ASSUME NEW id \in Remotes, Foreign(id) PROVE LossInv'
  <2>1. PICK op \in [kind : {"rename"}, id : {id}, name : Names] \cup [kind : {"delete"}, id : {id}]
                      \cup [kind : {"remove"}, id : {id}, at : {1}] :
          srv' = [srv EXCEPT ![id] = ServerEdit(op, @)]
    BY <1>2 DEF Foreign
  <2>2. op \in Ops
    BY <2>1 DEF Ops, Ids
  <2>3. Accepts(op, srv[id], FALSE)
    BY <1>2, <2>1 DEF Foreign, Accepts
  <2>4. ServerEdit(op, srv[id]) \in Playlists \cup {None}
    BY <1>0, <2>2, <2>3, ServerEditTyped
  <2>5. srv' \in [Remotes -> Playlists \cup {None}]
    BY <1>0, <2>1, <2>4
  <2>6. UNCHANGED <<cache, outbox, next, fate, sync, call>>
    BY <1>2 DEF Foreign, cacheVars, queueVars, histVars
  <2>7. CallsTyped'
    BY <2>6 DEF LossInv, CallsTyped, CallOK
  <2> QED BY <1>0, <2>5, <2>6, <2>7, CallQuiet
<1> QED BY <1>1, <1>2

LEMMA LossInit == Init => LossInv
<1> SUFFICES ASSUME Init PROVE LossInv
  OBVIOUS
<1>1. /\ outbox = Empty /\ next = 1 /\ sync = IdleSync /\ call = [c \in Calls |-> IdleCall]
      /\ fate = [r \in Rows |-> {}] /\ cache = [id \in Ids |-> IF id \in Saved THEN srv[id] ELSE None]
  BY DEF Init
<1>2. srv \in [Remotes -> Playlists \cup {None}]
  <2>1. BoundedSeq(Tracks, MaxLen) \subseteq Seq(Tracks)
    <3> SUFFICES ASSUME NEW s \in BoundedSeq(Tracks, MaxLen) PROVE s \in Seq(Tracks)
      OBVIOUS
    <3>1. PICK m \in 0..MaxLen : s \in [1..m -> Tracks]
      BY DEF BoundedSeq, SeqOf
    <3> QED BY <3>1, BoundsAssumption
  <2>2. [name : Names, tracks : BoundedSeq(Tracks, MaxLen)] \subseteq Playlists
    BY <2>1 DEF Playlists
  <2> QED BY <2>2 DEF Init
<1>3. RowsTyped
  BY <1>1, <1>2, IdsAssumption DEF RowsTyped, Empty, Ids
<1>4. CallsTyped
  BY <1>1, IdleOK DEF CallsTyped
<1>5. SyncTyped /\ Answered
  BY <1>1 DEF SyncTyped, Answered, IdleSync, SyncFields, RemapPcs, Empty
<1>6. EditsAccountedFor
  BY <1>1, BoundsAssumption DEF EditsAccountedFor, Rows
<1> QED BY <1>3, <1>4, <1>5, <1>6 DEF LossInv

LEMMA LossStep == LossInv /\ [Next]_vars => LossInv'
<1> SUFFICES ASSUME LossInv, [Next]_vars PROVE LossInv'
  OBVIOUS
<1>1. ASSUME NEW c \in Calls, StartCall(c) \/ CallStep(c) PROVE LossInv'
  BY <1>1, CallLossKeeps
<1>2. CASE SyncStep
  BY <1>2, SyncStartLoss, PushDeleteLoss, PushUnresolvedLoss, RemapLoss, PullLoss DEF SyncStep
<1>3. ASSUME NEW r \in Queued(sync.todo), NEW o \in Outcomes, Push(r, o) PROVE LossInv'
  BY <1>3, PushCallLoss DEF Push
<1>4. ASSUME NEW id \in Remotes, PullGet(id) \/ Foreign(id) PROVE LossInv'
  BY <1>4, PullLoss, EnvironmentLoss
<1>5. CASE PullFails \/ Crash
  BY <1>5, PullLoss, EnvironmentLoss
<1>6. CASE UNCHANGED vars
  <2>1. UNCHANGED <<srv, cache, outbox, next, fate, sync, call>>
    BY <1>6 DEF vars, serverVars, cacheVars, queueVars, histVars
  <2>2. CallsTyped'
    BY <2>1 DEF LossInv, CallsTyped, CallOK
  <2> QED BY <2>1, <2>2, CallQuiet DEF LossInv, RowsTyped
<1> QED BY <1>1, <1>2, <1>3, <1>4, <1>5, <1>6 DEF Next

\* A queued edit leaves the outbox only with its fate: executed, refused, found
\* unresolved or discarded, whatever crashes and faults interrupt the push.
THEOREM NothingDisappears == Spec => []EditsAccountedFor
<1>1. LossInv => EditsAccountedFor
  BY DEF LossInv
<1> QED BY <1>1, LossInit, LossStep, PTL DEF Spec

-----------------------------------------------------------------------------
(* No op is executed twice                                                 *)

\* No answer is lost, no call repeated, and nothing is killed between a call and
\* the statement that deletes its row.
NothingLost == Faults \cap {"lost", "again", "crash"} = {}

\* Nobody mirrors a playlist the engine has just created before it remaps its id.
NoMirror == Kinds \cap {"open", "list"} = {}

Deleting == sync.pc \in RemapPcs \cup {"delete"}

\* An op the server has executed is the one whose row the engine is about to
\* delete, or is gone from the outbox and from the snapshot.
Replayed ==
    \A r \in Rows : applied[r] # 0 =>
        /\ applied[r] = 1
        /\ outbox[r] # None \/ sync.todo[r] # None => Deleting /\ sync.row = r

CallPcs == {"idle", "read", "write", "enqueue", "discard", "discarding"}
Editing(c) == call[c].pc \in {"read", "write"}

\* An id the server issues is new to the device, and nobody but the engine learns
\* it before the cache has been remapped to it: that transaction cannot fail.
Fresh ==
    /\ \A id \in Remotes : cache[id] # None => id \in born
    /\ \A c \in Calls : /\ call[c].pc \in CallPcs
                        /\ Editing(c) => call[c].op.id \in Locals \cup born
    /\ sync.pull \subseteq born
    /\ sync.pc \in {"row", "tracks"} => sync.id \in born
    /\ sync.pc \in RemapPcs =>
         /\ sync.made \in born /\ cache[sync.made] = None
         /\ \A c \in Calls : Editing(c) => call[c].op.id # sync.made

OnceInv == Replayed /\ Fresh

LEMMA OnceInit == Init => OnceInv
<1> SUFFICES ASSUME Init PROVE OnceInv
  OBVIOUS
<1>1. /\ \A r \in Rows : applied[r] = 0
      /\ sync = IdleSync /\ born = Saved /\ call = [c \in Calls |-> IdleCall]
      /\ cache = [id \in Ids |-> IF id \in Saved THEN srv[id] ELSE None]
  BY DEF Init
<1>2. Fresh
  BY <1>1 DEF Fresh, IdleSync, IdleCall, CallPcs, Editing, RemapPcs, Ids
<1> QED BY <1>1, <1>2 DEF OnceInv, Replayed

\* A call of the user that goes on.
LEMMA FreshCall ==
    ASSUME Fresh, NEW c \in Calls, UNCHANGED sync, born \subseteq born',
           \A id \in Remotes : cache'[id] # None =>
              cache[id] # None \/ (id \in born' /\ (sync.pc \in RemapPcs => id # sync.made)),
           \A d \in Calls : d # c => call'[d] = call[d],
           call'[c].pc \in CallPcs,
           call'[c].pc \in {"read", "write"} =>
              /\ call'[c].op.id \in Locals \cup born'
              /\ sync.pc \in RemapPcs => call'[c].op.id # sync.made,
           sync.pc \in RemapPcs => sync.made \in Remotes
    PROVE  Fresh'
<1>1. \A id \in Remotes : cache'[id] # None => id \in born'
  BY DEF Fresh
<1>2. \A d \in Calls : /\ call'[d].pc \in CallPcs
                       /\ call'[d].pc \in {"read", "write"} => call'[d].op.id \in Locals \cup born'
  BY DEF Fresh, Editing
<1>3. sync.pull \subseteq born' /\ (sync.pc \in {"row", "tracks"} => sync.id \in born')
  BY DEF Fresh
<1>4. sync.pc \in RemapPcs =>
         /\ sync.made \in born' /\ cache'[sync.made] = None
         /\ \A d \in Calls : call'[d].pc \in {"read", "write"} => call'[d].op.id # sync.made
  BY DEF Fresh, Editing
<1> QED BY <1>1, <1>2, <1>3, <1>4 DEF Fresh, Editing

LEMMA EditOnlineFresh ==
    ASSUME LossInv, Fresh, NothingLost, NEW c \in Calls, NEW op \in Edits, NEW id \in Targets(op),
           NEW o \in Outcomes, EditOnline(c, op, id, o)
    PROVE  Fresh'
<1>1. op \in Ops /\ op.id \in Ids /\ CallOK(call[c])
  BY EditsTyped, OpFacts DEF LossInv, CallsTyped
<1>2. id \in Remotes
  BY DEF EditOnline, Targets
<1>3. UNCHANGED <<cache, sync>>
  BY DEF EditOnline
<1>4. o \in {"ok", "refused", "unreached"}
  BY DEF EditOnline, CallServer, Outcomes, NothingLost, Fault
<1>5. born \subseteq born' /\ (o = "ok" => id \in born')
  BY <1>4 DEF EditOnline, CallServer, Execute, serverVars
<1>6. op.kind # "create" => op.id \in born /\ (sync.pc \in RemapPcs => op.id # sync.made)
  <2> SUFFICES ASSUME op.kind # "create"
               PROVE  op.id \in born /\ (sync.pc \in RemapPcs => op.id # sync.made)
    OBVIOUS
  <2>1. op.id \in Remotes /\ op.id \in Shown
    BY DEF EditOnline, Edits, Additions, Rearrangements
  <2>2. cache[op.id] # None
    BY <2>1, IdsAssumption DEF Shown
  <2> QED BY <2>1, <2>2 DEF Fresh
<1>7. op.kind = "create" => op.id \in Locals
  BY DEF Edits, Additions, Rearrangements
<1>8. sync.pc \in RemapPcs => sync.made \in Remotes /\ sync.made \in born
  BY DEF Fresh, LossInv, SyncTyped
<1>9. CASE o = "ok"
  <2>1. /\ op.kind = "create" => id \notin born
        /\ op.kind # "create" => id = op.id
    BY DEF Targets
  <2> DEFINE p == [op EXCEPT !.id = id]
  <2>2. p.id = id
    BY <1>1 DEF Ops
  <2> HIDE DEF p
  <2>3. call' = [call EXCEPT ![c].pc = AfterStart(op), ![c].op = p]
    BY <1>9 DEF EditOnline, Answer, p
  <2>4. /\ call'[c].pc \in {"read", "write"} /\ call'[c].op = p
        /\ \A d \in Calls : d # c => call'[d] = call[d]
    BY <1>1, <2>3 DEF LossInv, CallsTyped, CallOK, CallFields, AfterStart
  <2> QED BY <1>3, <1>5, <1>6, <1>8, <1>9, <2>1, <2>2, <2>4, FreshCall DEF CallPcs
<1>10. CASE o # "ok"
  <2>1. UNCHANGED call \/ call' = [call EXCEPT ![c].pc = AfterStart(op), ![c].op = op, ![c].queue = TRUE]
    BY <1>4, <1>10 DEF EditOnline, Answer, Refused
  <2>2. CASE UNCHANGED call
    BY <1>3, <1>5, <1>8, <2>2, FreshCall DEF Fresh, Editing
  <2>3. CASE call' = [call EXCEPT ![c].pc = AfterStart(op), ![c].op = op, ![c].queue = TRUE]
    <3>1. /\ call'[c].pc \in {"read", "write"} /\ call'[c].op = op
          /\ \A d \in Calls : d # c => call'[d] = call[d]
      BY <1>1, <2>3 DEF LossInv, CallsTyped, CallOK, CallFields, AfterStart
    <3> QED BY <1>3, <1>5, <1>6, <1>7, <1>8, <3>1, IdsAssumption, FreshCall DEF CallPcs
  <2> QED BY <2>1, <2>2, <2>3
<1> QED BY <1>9, <1>10

\* The calls of the user leave the engine alone, and enqueue an op of their own.
LEMMA OnceCalls ==
    ASSUME OrderInv, LossInv, OnceInv, NothingLost, NoMirror,
           NEW c \in Calls, StartCall(c) \/ CallStep(c)
    PROVE  OnceInv'
<1> USE DEF OnceInv
<1>1. Fresh'
  <2>a. sync.pc \in RemapPcs => sync.made \in Remotes /\ sync.made \in born
    BY DEF Fresh, LossInv, SyncTyped
  <2>b. CallOK(call[c]) /\ call[c].pc \in CallPcs /\ DOMAIN call = Calls
    BY DEF LossInv, CallsTyped, Fresh
  <2>c. /\ Editing(c) => call[c].op.id \in Locals \cup born
        /\ sync.pc \in RemapPcs /\ Editing(c) => call[c].op.id # sync.made
    BY DEF Fresh
  <2>1. ASSUME NEW op \in Edits, EditLocal(c, op) PROVE Fresh'
    <3>1. /\ op.id \in Locals /\ UNCHANGED <<sync, cache, born>>
          /\ call' = [call EXCEPT ![c].pc = AfterStart(op), ![c].op = op, ![c].queue = TRUE]
      BY <2>1 DEF EditLocal, serverVars
    <3>2. /\ call'[c].pc \in {"read", "write"} /\ call'[c].op = op
          /\ \A d \in Calls : d # c => call'[d] = call[d]
      BY <2>b, <3>1 DEF CallOK, CallFields, AfterStart
    <3> QED BY <2>a, <3>1, <3>2, IdsAssumption, FreshCall DEF CallPcs
  <2>2. ASSUME NEW op \in Edits, NEW id \in Targets(op), NEW o \in Outcomes, EditOnline(c, op, id, o)
        PROVE  Fresh'
    BY <2>2, EditOnlineFresh
  <2>3. CASE EditRead(c)
    <3>1. /\ UNCHANGED <<sync, cache, born>> /\ call[c].pc = "read"
          /\ call' = [call EXCEPT ![c].pc = "write", ![c].rows = ShownTracks(call[c].op.id)]
      BY <2>3 DEF EditRead, serverVars, cacheVars
    <3>2. /\ call'[c].pc = "write" /\ call'[c].op = call[c].op
          /\ \A d \in Calls : d # c => call'[d] = call[d]
      BY <2>b, <3>1 DEF CallOK, CallFields
    <3> QED BY <2>a, <2>c, <3>1, <3>2, FreshCall DEF CallPcs, Editing
  <2>4. CASE EditWrite(c)
    <3>1. /\ UNCHANGED <<sync, born>> /\ call[c].pc = "write"
          /\ Proceed(c, AfterWrite(call[c])) \/ EndCall(c)
      BY <2>4 DEF EditWrite, serverVars
    <3>2. /\ call'[c].pc \in {"idle", "enqueue", "discard"}
          /\ \A d \in Calls : d # c => call'[d] = call[d]
      <4> DEFINE l == AfterWrite(call[c])
                 q == [call[c] EXCEPT !.pc = l, !.rows = <<>>]
      <4>1. l \in {"idle", "enqueue", "discard"}
        BY DEF AfterWrite
      <4>2. q.pc = l
        BY <2>b DEF CallOK, CallFields
      <4>3. call' = [call EXCEPT ![c] = IF l = "idle" THEN IdleCall ELSE q] \/ call' = [call EXCEPT ![c] = IdleCall]
        BY <3>1 DEF Proceed, EndCall
      <4> HIDE DEF l, q
      <4>4. IdleCall.pc = "idle"
        BY DEF IdleCall
      <4> QED BY <2>b, <4>1, <4>2, <4>3, <4>4
    <3>3. call[c].op.id \in Ids
      BY <2>b, <3>1, OpFacts DEF CallOK
    <3>4. \A id \in Remotes : cache'[id] # None => cache[id] # None \/ id = call[c].op.id
      <4>1. \A id \in Ids : id # call[c].op.id => cache'[id] = cache[id]
        BY <2>4, <3>3 DEF EditWrite, Upserted, Replaced, LossInv, RowsTyped
      <4> QED BY <4>1 DEF Ids
    <3>5. \A id \in Remotes : cache'[id] # None =>
            cache[id] # None \/ (id \in born' /\ (sync.pc \in RemapPcs => id # sync.made))
      BY <2>c, <3>1, <3>4, IdsAssumption DEF Editing
    <3> QED BY <2>a, <3>1, <3>2, <3>5, FreshCall DEF CallPcs
  <2>5. CASE EditEnqueue(c) \/ DiscardList(c) \/ DiscardOp(c)
    <3>1. UNCHANGED <<sync, cache, born>>
      BY <2>5 DEF EditEnqueue, DiscardList, DiscardOp, serverVars, cacheVars
    <3>2. \/ call' = [call EXCEPT ![c] = IdleCall]
          \/ \E t : call' = [call EXCEPT ![c].pc = "discarding", ![c].todo = t]
          \/ call[c].pc = "discarding" /\ \E t : call' = [call EXCEPT ![c].todo = t]
      BY <2>5 DEF EditEnqueue, DiscardList, DiscardOp, EndCall
    <3>3. /\ call'[c].pc \in {"idle", "discarding"}
          /\ \A d \in Calls : d # c => call'[d] = call[d]
      BY <2>b, <3>2 DEF IdleCall, CallOK, CallFields
    <3> QED BY <2>a, <3>1, <3>3, FreshCall DEF CallPcs
  <2>6. ~MirrorRow(c) /\ ~MirrorTracks(c) /\ ~ListMirror(c) /\ ~ListMine(c) /\ \A id \in Remotes : ~Open(c, id)
    BY <2>b DEF MirrorRow, MirrorTracks, ListMirror, ListMine, Open, CallPcs, NoMirror
  <2> QED BY <2>1, <2>2, <2>3, <2>4, <2>5, <2>6 DEF StartCall, CallStep
<1>2. Replayed'
  <2>1. UNCHANGED sync /\ UNCHANGED applied
    BY DEF StartCall, CallStep, EditLocal, EditOnline, Open, ListMine, EditRead, EditWrite, EditEnqueue,
           DiscardList, DiscardOp, MirrorRow, MirrorTracks, ListMirror, histVars
  <2>2. CASE EditEnqueue(c)
    <3>1. outbox' = [outbox EXCEPT ![next] = call[c].op]
      BY <2>2 DEF EditEnqueue
    <3>2. \A r \in Rows : r # next => outbox'[r] = outbox[r]
      BY <3>1 DEF OrderInv, Shaped
    <3>3. \A r \in Rows : applied[r] # 0 => r # next
      BY RowsNat DEF OrderInv, Shaped, Issued
    <3> QED BY <2>1, <3>2, <3>3 DEF Replayed, Deleting
  <2>3. CASE ~EditEnqueue(c)
    <3>1. outbox' = outbox \/ \E r : outbox' = [outbox EXCEPT ![r] = None]
      BY <2>3 DEF StartCall, CallStep, EditLocal, EditOnline, Open, ListMine, EditRead, EditWrite,
                 DiscardList, DiscardOp, MirrorRow, MirrorTracks, ListMirror, queueVars, histVars
    <3>2. \A r \in Rows : outbox'[r] # None => outbox[r] # None
      BY <3>1 DEF OrderInv, Shaped
    <3> QED BY <2>1, <3>2 DEF Replayed, Deleting
  <2> QED BY <2>2, <2>3
<1> QED BY <1>1, <1>2

\* A step of the engine that executes nothing.
LEMMA ReplayedQuiet ==
    ASSUME Replayed, UNCHANGED applied,
           \A r \in Rows : outbox'[r] # None \/ sync'.todo[r] # None
                              => outbox[r] # None \/ sync.todo[r] # None,
           Deleting => Deleting' /\ sync'.row = sync.row
    PROVE  Replayed'
  BY DEF Replayed, Deleting

LEMMA FreshEngine ==
    ASSUME Fresh, UNCHANGED call, born \subseteq born',
           \A id \in Remotes : cache'[id] # None => id \in born',
           sync'.pull \subseteq born',
           sync'.pc \in {"row", "tracks"} => sync'.id \in born',
           sync'.pc \in RemapPcs =>
              /\ sync'.made \in born' /\ cache'[sync'.made] = None
              /\ \A c \in Calls : Editing(c) => call[c].op.id # sync'.made
    PROVE  Fresh'
  BY DEF Fresh, Editing

\* The oldest op of the snapshot has not been executed; if it is now, it goes next.
LEMMA OncePush ==
    ASSUME LossInv, OrderInv, OnceInv, NothingLost,
           NEW r, NEW o \in Outcomes, NEW id \in Targets(sync.todo[r]), PushCall(r, id, o)
    PROVE  OnceInv'
<1> USE DEF OnceInv
<1> DEFINE op == sync.todo[r]
           a == applied[r]
           n == Least(2, a + Times(o))
<1>1. /\ UNCHANGED <<cache, outbox, call>> /\ sync.pc = "push"
      /\ First(r) /\ ~Unresolved(op) /\ CallServer(op, id, o)
      /\ sync' = [sync EXCEPT !.pc = AfterCall(op, o), !.row = r, !.made = id]
      /\ applied' = [applied EXCEPT ![r] = n]
  BY DEF PushCall, cacheVars, queueVars
<1>2. r \in Rows /\ op \in Ops /\ op # None /\ op.id \in Ids
  BY <1>1, FirstTyped, OpFacts
<1>3. id \in Remotes
  BY <1>1, <1>2 DEF Targets, Unresolved, Ids
<1>4. o \in {"ok", "refused", "unreached"}
  BY <1>1 DEF CallServer, Outcomes, NothingLost, Fault
<1>5. born \subseteq born' /\ (o = "ok" => id \in born')
  BY <1>1, <1>4 DEF CallServer, Execute, serverVars
<1>6. a = 0 /\ \A q \in Rows : applied[q] # 0 => applied[q] = 1 /\ outbox[q] = None /\ sync.todo[q] = None
  BY <1>1, <1>2 DEF Replayed, Deleting, RemapPcs
<1>7. n = (IF o = "ok" THEN 1 ELSE 0)
  BY <1>4, <1>6 DEF Times, Least
<1> HIDE DEF n
<1>8. /\ sync'.todo = sync.todo /\ sync'.row = r /\ sync'.made = id
      /\ sync'.pc = AfterCall(op, o) /\ sync'.pull = sync.pull
  BY <1>1 DEF LossInv, SyncTyped, SyncFields
<1>9. /\ o = "ok" => sync'.pc = (IF op.kind = "create" THEN "remapList" ELSE "delete")
      /\ o # "ok" => sync'.pc \in {"delete", "failed"}
  BY <1>4, <1>8 DEF AfterCall, Answer, Refused
<1>10. Replayed'
  <2>1. \A q \in Rows : applied'[q] = IF q = r THEN n ELSE applied[q]
    BY <1>1, <1>2 DEF OrderInv, Shaped
  <2> QED BY <1>1, <1>6, <1>7, <1>8, <1>9, <2>1 DEF Replayed, Deleting, RemapPcs
<1>11. Fresh'
  <2>1. sync'.pc \in RemapPcs => o = "ok" /\ op.kind = "create"
    BY <1>9 DEF RemapPcs
  <2>2. op.kind = "create" => id \notin born
    BY DEF Targets
  <2>3. sync'.pc \in RemapPcs =>
          /\ sync'.made \in born' /\ cache[id] = None
          /\ \A c \in Calls : Editing(c) => call[c].op.id # id
    BY <1>3, <1>5, <1>8, <2>1, <2>2, IdsAssumption DEF Fresh
  <2>4. sync'.pc \notin {"row", "tracks"}
    BY <1>9
  <2>5. \A d \in Remotes : cache'[d] # None => d \in born'
    BY <1>1, <1>5 DEF Fresh
  <2>6. sync'.pull \subseteq born'
    BY <1>5, <1>8 DEF Fresh
  <2> QED BY <1>1, <1>5, <1>8, <2>3, <2>4, <2>5, <2>6, FreshEngine
<1> QED BY <1>10, <1>11

\* The create that is remapped goes on to the statement that deletes its row.
LEMMA OnceRemap ==
    ASSUME LossInv, OnceInv, RemapList \/ RemapOp \/ RemapCache
    PROVE  OnceInv'
<1> USE DEF OnceInv
<1>1. /\ sync.pc \in RemapPcs /\ Deleting /\ UNCHANGED <<applied, born, call>>
      /\ sync.made \in born /\ cache[sync.made] = None /\ sync.made \in Remotes
      /\ OldId \in Ids
  <2>1. sync.pc \in RemapPcs
    BY DEF RemapList, RemapOp, RemapCache, RemapPcs
  <2>2. UNCHANGED <<applied, born, call>>
    BY DEF RemapList, RemapOp, RemapCache, serverVars, histVars
  <2> QED BY <2>1, <2>2, OpFacts DEF Fresh, Deleting, LossInv, SyncTyped, OldId
<1>2. /\ sync'.pc \in RemapPcs \cup {"delete"} /\ sync'.row = sync.row /\ sync'.todo = sync.todo
      /\ sync'.made = sync.made /\ sync'.pull = sync.pull
      /\ RemapCache => sync'.pc = "delete"
  <2>1. \/ ~RemapCache /\ \E p \in {"remap", "remapCache"} : \E t : sync' = [sync EXCEPT !.pc = p, !.remap = t]
        \/ ~RemapCache /\ \E t : sync' = [sync EXCEPT !.remap = t]
        \/ ~RemapCache /\ sync' = [sync EXCEPT !.pc = "remapCache"]
        \/ sync' = [sync EXCEPT !.pc = "delete"]
    BY <1>1 DEF RemapList, RemapOp, RemapCache, EndSync
  <2> QED BY <1>1, <2>1 DEF LossInv, SyncTyped, SyncFields, RemapPcs
<1>3. /\ \A r \in Rows : outbox'[r] # None => outbox[r] # None
      /\ \A id \in Remotes : cache'[id] # None => id \in born
      /\ ~RemapCache => UNCHANGED cache
  <2>1. CASE RemapCache
    <3>1. UNCHANGED outbox
      BY <2>1 DEF RemapCache, queueVars
    <3>2. \A id \in Remotes : cache'[id] # None => cache[id] # None \/ id = sync.made
      BY <1>1, <2>1 DEF RemapCache, LossInv, RowsTyped, Ids
    <3> QED BY <1>1, <2>1, <3>1, <3>2 DEF Fresh
  <2>2. CASE ~RemapCache
    <3>1. UNCHANGED cache
      BY <2>2 DEF RemapList, RemapOp, cacheVars
    <3>2. outbox' = outbox \/ \E r : \E op : outbox' = [outbox EXCEPT ![r] = op] /\ (op # None => outbox[r] # None)
      BY <2>2 DEF RemapList, RemapOp, queueVars
    <3> QED BY <2>2, <3>1, <3>2 DEF Fresh, LossInv, RowsTyped
  <2> QED BY <2>1, <2>2
<1>4. Replayed'
  BY <1>1, <1>2, <1>3, ReplayedQuiet DEF Deleting
<1>5. Fresh'
  <2>1. sync'.pc \in RemapPcs =>
          /\ sync'.made \in born' /\ cache'[sync'.made] = None
          /\ \A c \in Calls : Editing(c) => call[c].op.id # sync'.made
    BY <1>1, <1>2, <1>3 DEF Fresh, RemapPcs
  <2>2. sync'.pc \notin {"row", "tracks"} /\ sync'.pull \subseteq born'
    BY <1>1, <1>2 DEF Fresh, RemapPcs
  <2> QED BY <1>1, <1>3, <2>1, <2>2, FreshEngine
<1> QED BY <1>4, <1>5

\* The row that goes takes its op with it.
LEMMA OnceDelete ==
    ASSUME LossInv, OnceInv, PushDelete
    PROVE  OnceInv'
<1> USE DEF OnceInv
<1>1. /\ outbox' = [outbox EXCEPT ![sync.row] = None] /\ sync.pc = "delete"
      /\ sync' = [sync EXCEPT !.pc = "push", !.todo[sync.row] = None, !.row = 0, !.made = None]
      /\ UNCHANGED <<born, cache, applied, call>>
  BY DEF PushDelete, serverVars, cacheVars, histVars
<1>2. /\ sync'.todo = [sync.todo EXCEPT ![sync.row] = None] /\ sync'.pc = "push"
      /\ sync'.pull = sync.pull
  BY <1>1 DEF LossInv, SyncTyped, SyncFields
<1>3. \A r \in Rows : IF r = sync.row THEN outbox'[r] = None /\ sync'.todo[r] = None
                      ELSE outbox'[r] = outbox[r] /\ sync'.todo[r] = sync.todo[r]
  BY <1>1, <1>2 DEF LossInv, RowsTyped, SyncTyped
<1>4. Replayed'
  BY <1>1, <1>3 DEF Replayed
<1>5. Fresh'
  BY <1>1, <1>2, FreshEngine DEF Fresh, RemapPcs
<1> QED BY <1>4, <1>5

\* The other steps of the engine, none of which touches an op that was executed.
LEMMA OncePull ==
    ASSUME LossInv, OnceInv,
           \/ SyncStart \/ PushEnd \/ PullList \/ PullRow \/ PullTracks \/ PullStamp \/ PullForget \/ PullEnd
           \/ PullFails
           \/ \E r \in Rows : PushUnresolved(r)
           \/ \E id \in Remotes : PullGet(id)
    PROVE  OnceInv'
<1> USE DEF OnceInv
<1>1. ~Deleting /\ UNCHANGED <<applied, born, call, outbox>>
  BY DEF SyncStart, PushEnd, PullList, PullRow, PullTracks, PullStamp, PullForget, PullEnd, PullFails,
         PushUnresolved, PullGet, Deleting, RemapPcs, serverVars, queueVars, histVars
<1>2. /\ \A r \in Rows : sync'.todo[r] # None => outbox[r] # None \/ sync.todo[r] # None
      /\ sync'.pc \notin RemapPcs /\ sync'.pull \subseteq born
      /\ sync'.pc \in {"row", "tracks"} => sync'.id \in born
  <2> USE DEF RemapPcs, LossInv, SyncTyped, SyncFields
  <2>1. CASE SyncStart
    BY <2>1 DEF SyncStart, IdleSync
  <2>2. CASE PushEnd \/ PullEnd \/ PullFails
    BY <2>2, EmptyRows DEF PushEnd, PullEnd, PullFails, EndSync, IdleSync
  <2>3. CASE PullList
    BY <2>3 DEF PullList, Fresh
  <2>4. CASE PullRow
    BY <2>4 DEF PullRow, Fresh
  <2>5. CASE PullTracks
    BY <2>5, EmptyRows DEF PullTracks, EndSync, IdleSync, Fresh
  <2>6. CASE PullStamp
    BY <2>6 DEF PullStamp, Fresh
  <2>7. CASE PullForget
    BY <2>7 DEF PullForget, Fresh
  <2>8. ASSUME NEW r \in Rows, PushUnresolved(r)
        PROVE  /\ \A q \in Rows : sync'.todo[q] # None => outbox[q] # None \/ sync.todo[q] # None
               /\ sync'.pc \notin RemapPcs /\ sync'.pull \subseteq born
               /\ sync'.pc \in {"row", "tracks"} => sync'.id \in born
    BY <2>8 DEF PushUnresolved, Fresh
  <2>9. ASSUME NEW id \in Remotes, PullGet(id)
        PROVE  /\ \A q \in Rows : sync'.todo[q] # None => outbox[q] # None \/ sync.todo[q] # None
               /\ sync'.pc \notin RemapPcs /\ sync'.pull \subseteq born
               /\ sync'.pc \in {"row", "tracks"} => sync'.id \in born
    BY <2>9 DEF PullGet, Fresh
  <2> QED BY <2>1, <2>2, <2>3, <2>4, <2>5, <2>6, <2>7, <2>8, <2>9
<1>3. \A id \in Remotes : cache'[id] # None => id \in born
  <2>1. CASE PullRow
    <3>1. sync.id \in born /\ sync.id \in Ids /\ cache' = Upserted(sync.id, sync.view.name)
      BY <2>1 DEF PullRow, Fresh, LossInv, SyncTyped, Ids
    <3> QED BY <3>1 DEF Upserted, Fresh, LossInv, RowsTyped, Ids
  <2>2. CASE PullTracks
    <3>1. sync.id \in born /\ sync.id \in Ids /\ (cache' = Replaced(sync.id, sync.view.tracks) \/ UNCHANGED cache)
      BY <2>2 DEF PullTracks, Fresh, LossInv, SyncTyped, Ids
    <3> QED BY <3>1 DEF Replaced, Fresh, LossInv, RowsTyped, Ids
  <2>3. CASE PullForget
    <3>1. cache' = [cache EXCEPT ![sync.id] = None]
      BY <2>3 DEF PullForget
    <3> QED BY <3>1 DEF Fresh, LossInv, RowsTyped, Ids
  <2>4. CASE ~PullRow /\ ~PullTracks /\ ~PullForget
    <3>1. UNCHANGED cache
      BY <2>4 DEF SyncStart, PushEnd, PullList, PullStamp, PullEnd, PullFails, PushUnresolved, PullGet, cacheVars
    <3> QED BY <3>1 DEF Fresh
  <2> QED BY <2>1, <2>2, <2>3, <2>4
<1>4. Replayed'
  BY <1>1, <1>2, ReplayedQuiet
<1>5. Fresh'
  BY <1>1, <1>2, <1>3, FreshEngine
<1> QED BY <1>4, <1>5

LEMMA OnceStep ==
    ASSUME NothingLost, NoMirror, OrderInv, LossInv, OnceInv, [Next]_vars
    PROVE  OnceInv'
<1>1. ASSUME NEW c \in Calls, StartCall(c) \/ CallStep(c) PROVE OnceInv'
  BY <1>1, OnceCalls
<1>2. CASE SyncStep
  BY <1>2, OnceRemap, OnceDelete, OncePull DEF SyncStep
<1>3. ASSUME NEW r \in Queued(sync.todo), NEW o \in Outcomes, Push(r, o) PROVE OnceInv'
  BY <1>3, OncePush DEF Push
<1>4. ASSUME NEW id \in Remotes, PullGet(id) PROVE OnceInv'
  BY <1>4, OncePull
<1>5. CASE (\E id \in Remotes : Foreign(id)) \/ UNCHANGED vars
  <2>1. UNCHANGED <<born, cache, outbox, sync, call, applied>>
    BY <1>5 DEF Foreign, vars, serverVars, cacheVars, queueVars, histVars
  <2> QED BY <2>1 DEF OnceInv, Replayed, Deleting, Fresh, Editing
<1>6. CASE PullFails
  BY <1>6, OncePull
<1>7. ~Crash
  BY DEF Crash, Fault, NothingLost
<1> QED BY <1>1, <1>2, <1>3, <1>4, <1>5, <1>6, <1>7 DEF Next

\* When no answer is lost and nothing is killed, every op is executed once at most,
\* for any number of edits, calls and syncs that overlap, with a connection that
\* comes and goes, other devices, and over REST alone: what the engine does between
\* the call and the delete of its row cannot fail (push_outbox, remap_local_id).
THEOREM ExecutedOnce ==
    ASSUME NothingLost, NoMirror
    PROVE  Spec => []AppliedOnce
<1>1. OnceInv => AppliedOnce
  BY DEF OnceInv, Replayed, AppliedOnce
<1>2. OrderInv /\ LossInv /\ OnceInv /\ [Next]_vars => OnceInv'
  BY OnceStep
<1> QED BY <1>1, <1>2, OnceInit, OrderInit, OrderStep, LossInit, LossStep, PTL DEF Spec

-----------------------------------------------------------------------------
(* The cache of the app is ahead of the server by the outbox.              *)

\* One call at a time, apart from the syncs, and offline; nobody else edits.
OneCall == \A c, d \in Calls : c = d
SyncsApart == Kinds \cap {"online", "overlap", "open", "list"} = {}
OnlyDown == Faults \subseteq {"down", "rest"}

\* A row that counts: one whose op the server has yet to answer.
Waiting(r) == IF Deleting /\ r = sync.row THEN None ELSE outbox[r]
Concerns(r, id) == Waiting(r) # None /\ Waiting(r).id = id

\* f is the replay of the rows that count on what the server has, and the server
\* accepts every one of them.
Runs(f, id) ==
    /\ f[0] = srv[id]
    /\ \A r \in Rows :
          /\ f[r] = Edited(Waiting(r), id, f[r - 1])
          /\ Concerns(r, id) => Accepts(Waiting(r), f[r - 1], RestOnly)

\* The cache shows p, or p with the edit that is about to be enqueued.
Shows(p, id) ==
    \/ /\ cache[id] = p
       /\ \A c \in Calls : call[c].pc = "enqueue" => call[c].op.id # id
    \/ \E c \in Calls :
       /\ call[c].pc = "enqueue" /\ call[c].op.id = id
       /\ Accepts(call[c].op, p, RestOnly) /\ cache[id] = ServerEdit(call[c].op, p)

Ahead == \A id \in Saved : \E f : Runs(f, id) /\ Shows(f[MaxEdits], id)

\* An edit whose positions are within the playlist, as the user interface offers it.
Fits(op, p) ==
    /\ p # None
    /\ op.kind = "remove" => op.at <= Len(p.tracks)
    /\ op.kind = "reorder" => op.from <= Len(p.tracks) /\ op.to <= Len(p.tracks)

\* What a call knows from its start until its edit is enqueued or discarded.
CallHeld(r) ==
    /\ r.pc \in CallPcs
    /\ r.pc \in {"read", "write"} => r.queue
    /\ r.pc \in {"read", "write", "enqueue"} =>
          next <= edits /\ (r.op.kind = "create" => r.op.id \notin Saved)
    /\ r.pc \in {"read", "write"} /\ r.op.id \in Saved => Fits(r.op, cache[r.op.id])
    /\ r.pc = "write" /\ r.op.id \in Saved /\ r.op.kind \in TrackKinds =>
          r.rows = cache[r.op.id].tracks
    /\ r.pc = "discard" => r.op.id \in Locals
    /\ r.pc = "discarding" => \A q \in r.todo : outbox[q] # None => outbox[q].id \notin Saved

Held == \A c \in Calls : CallHeld(call[c])

Turns == sync.pc # "idle" => \A c \in Calls : call[c].pc = "idle"
Numbered == edits \in 0..MaxEdits /\ next \in 1..(edits + 1)

\* Creates are of playlists that are not saved, and the snapshot has what the
\* outbox has of a saved playlist.
Listed ==
    /\ Saved \subseteq born
    /\ \A r \in Rows :
          /\ outbox[r] # None /\ outbox[r].kind = "create" => outbox[r].id \notin Saved
          /\ sync.todo[r] # None /\ sync.todo[r].kind = "create" => sync.todo[r].id \notin Saved
    /\ sync.pc \in RemapPcs => sync.made \notin Saved /\ sync.todo[sync.row].kind = "create"
    /\ sync.pc = "remap" =>
          \A r \in sync.remap : r \in Rows /\ (outbox[r] # None => outbox[r].id \notin Saved)
    /\ sync.pc = "push" \/ Deleting =>
          \A r \in Rows :
              /\ outbox[r] = None <=> sync.todo[r] = None
              /\ outbox[r] # None /\ (outbox[r].id \in Saved \/ sync.todo[r].id \in Saved) =>
                    outbox[r] = sync.todo[r]

PullPcs == {"list", "pull", "row", "tracks", "stamp", "forget"}

\* The pull finds an empty outbox, and the cache as the server has it.
Pulled ==
    /\ sync.pc \in PullPcs => \A r \in Rows : outbox[r] = None
    /\ sync.pc \in {"row", "tracks"} /\ sync.id \in Saved => sync.view = srv[sync.id]
    /\ sync.pc = "forget" /\ sync.id \in Saved => srv[sync.id] = None

AheadInv == Ahead /\ Held /\ Turns /\ Numbered /\ Listed /\ Pulled

\* A function that does not change along some rows is the same at both ends.
LEMMA LeastNatural ==
    ASSUME NEW T, T \subseteq Nat, T # {}
    PROVE  \E x \in T : \A y \in T : x <= y
<1> DEFINE R == OpToRel(<, Nat)
<1>1. IsWellFoundedOn(R, Nat)
  BY NatLessThanWellFounded
<1>2. PICK x \in T : \A y \in T : ~(<<y, x>> \in R)
  <2> HIDE DEF R
  <2> QED BY <1>1, WFMin
<1>3. \A y \in T : <<y, x>> \in R <=> y < x
  BY DEF OpToRel
<1> HIDE DEF R
<1>4. \A y \in T : ~(y < x)
  BY <1>2, <1>3
<1>5. x \in Nat /\ \A y \in T : y \in Nat
  OBVIOUS
<1> QED BY <1>4, <1>5

LEMMA Constant ==
    ASSUME NEW f, NEW a \in Nat, NEW b \in Nat, a <= b, \A n \in (a + 1)..b : f[n] = f[n - 1]
    PROVE  f[b] = f[a]
<1> DEFINE T == {n \in Nat : a <= n /\ n <= b /\ f[n] # f[a]}
<1> SUFFICES ASSUME T # {} PROVE FALSE
  OBVIOUS
<1>1. PICK m \in T : \A n \in T : m <= n
  BY LeastNatural
<1>2. m # a /\ m \in Nat /\ a <= m /\ m <= b /\ f[m] # f[a]
  BY <1>1
<1>3. m \in (a + 1)..b /\ m - 1 \in Nat /\ m - 1 < m
  BY <1>2
<1>4. m - 1 \notin T
  BY <1>1, <1>3
<1>5. f[m - 1] = f[a]
  BY <1>2, <1>3, <1>4
<1> QED BY <1>2, <1>3, <1>5

LEMMA RunsKept ==
    ASSUME NEW id, NEW f, Runs(f, id), srv'[id] = srv[id],
           \A r \in Rows : Concerns(r, id) \/ Concerns(r, id)' => Waiting(r)' = Waiting(r)
    PROVE  Runs(f, id)'
<1>1. \A r \in Rows : Edited(Waiting(r)', id, f[r - 1]) = Edited(Waiting(r), id, f[r - 1])
  BY DEF Edited, Concerns
<1>2. \A r \in Rows : Concerns(r, id)' => Concerns(r, id) /\ Waiting(r)' = Waiting(r)
  BY DEF Concerns
<1> HIDE DEF Concerns
<1> QED BY <1>1, <1>2 DEF Runs, RestOnly, Edited

-----------------------------------------------------------------------------
(* The edits of the cache and of the server agree                          *)

\* An entry that is taken out and put back is where it was.
LEMMA PutBack ==
    ASSUME NEW s \in Seq(Tracks), NEW i \in 1..Len(s)
    PROVE  InsertAt(RemoveAt(s, i), i, s[i]) = s
<1> DEFINE n == Len(s)
           a == SubSeq(s, 1, i - 1)
           b == SubSeq(s, i + 1, n)
<1>0. n \in Nat /\ i \in Nat /\ 1 <= i /\ i <= n
  BY LenProperties
<1>1. a \in Seq(Tracks) /\ b \in Seq(Tracks)
  BY SubSeqTyped
<1>2. Len(a) = i - 1 /\ Len(b) = n - i
  BY SubSeqProperties, SubSeqEmpty
<1>3. a \o <<s[i]>> = SubSeq(s, 1, i)
  BY <1>0, SubSeqRecursiveSecond
<1>4. SubSeq(s, 1, i) \o b = s
  <2>1. SubSeq(s, 1, i) \o SubSeq(s, i + 1, n) = SubSeq(s, 1, n)
    BY <1>0, ConcatAdjacentSubSeq
  <2>2. SubSeq(s, 1, n) = s
    BY SubSeqFull
  <2> QED BY <2>1, <2>2
<1> HIDE DEF a, b, n
<1>5. Len(a \o b) = n - 1
  <2>1. Len(a \o b) = Len(a) + Len(b)
    BY <1>1, ConcatProperties
  <2> QED BY <1>0, <1>2, <2>1
<1>6. SubSeq(a \o b, 1, i - 1) = a
  <2>1. CASE i = 1
    <3>1. SubSeq(a \o b, 1, i - 1) = <<>>
      BY <2>1, SubSeqEmpty
    <3>2. a = <<>>
      BY <1>1, <1>2, <2>1, EmptySeq
    <3> QED BY <3>1, <3>2
  <2>2. CASE i > 1
    <3>1. SubSeq(a \o b, 1, i - 1) = SubSeq(a, 1, i - 1)
      BY <1>0, <1>1, <1>2, <2>2, SubSeqOfConcat1
    <3>2. SubSeq(a, 1, Len(a)) = a
      BY <1>1, SubSeqFull
    <3> QED BY <1>2, <3>1, <3>2
  <2> QED BY <1>0, <2>1, <2>2
<1>7. SubSeq(a \o b, i, Len(a \o b)) = b
  <2>1. CASE i = n
    <3>1. SubSeq(a \o b, i, Len(a \o b)) = <<>>
      BY <1>0, <1>5, <2>1, SubSeqEmpty
    <3>2. b = <<>>
      BY <1>0, <1>1, <1>2, <2>1, EmptySeq
    <3> QED BY <3>1, <3>2
  <2>2. CASE i < n
    <3>1. SubSeq(a \o b, i, n - 1) = SubSeq(b, i - Len(a), n - 1 - Len(a))
      BY <1>0, <1>1, <1>2, <2>2, SubSeqOfConcat2
    <3>2. i - Len(a) = 1 /\ n - 1 - Len(a) = Len(b)
      BY <1>0, <1>2
    <3>3. SubSeq(b, 1, Len(b)) = b
      BY <1>1, SubSeqFull
    <3> QED BY <1>5, <3>1, <3>2, <3>3
  <2> QED BY <1>0, <2>1, <2>2
<1>8. RemoveAt(s, i) = a \o b
  BY DEF RemoveAt, a, b, n
<1> QED BY <1>3, <1>4, <1>6, <1>7, <1>8 DEF InsertAt

\* What is inserted behind the last entry is appended.
LEMMA InsertLast ==
    ASSUME NEW s \in Seq(Tracks), NEW t \in Tracks
    PROVE  InsertAt(s, Len(s) + 1, t) = Append(s, t)
<1>1. Len(s) \in Nat
  BY LenProperties
<1>2. SubSeq(s, 1, Len(s)) = s /\ SubSeq(s, Len(s) + 1, Len(s)) = <<>>
  BY <1>1, SubSeqFull, SubSeqEmpty
<1>3. s \o <<t>> = Append(s, t) /\ Append(s, t) \in Seq(Tracks)
  BY AppendIsConcat, AppendProperties
<1>4. Append(s, t) \o <<>> = Append(s, t)
  BY <1>3, ConcatEmptySeq
<1>5. (Len(s) + 1) - 1 = Len(s)
  BY <1>1
<1> QED BY <1>2, <1>3, <1>4, <1>5 DEF InsertAt

\* The optimistic edit of the cache is the edit the server makes.
LEMMA EditsAgree ==
    ASSUME NEW op \in Ops, op.kind \in TrackKinds, NEW p \in Playlists, Fits(op, p)
    PROVE  ServerEdit(op, p) = IF Writes(op, p.tracks) THEN [p EXCEPT !.tracks = OptimisticEdit(op, p.tracks)]
                               ELSE p
<1> DEFINE s == p.tracks
<1>0. s \in Seq(Tracks) /\ Len(s) \in Nat /\ p = [p EXCEPT !.tracks = s]
  BY LenProperties DEF Playlists
<1>1. CASE op.kind = "add"
  <2>1. op.track \in Tracks /\ op.at \in Nat
    BY <1>1 DEF Ops
  <2>2. Inserted(s, op.track, op.at) = OptimisticEdit(op, s)
    <3>1. CASE op.at = 0 \/ op.at > Len(s)
      <4>1. (IF op.at = 0 THEN Len(s) + 1 ELSE Least(op.at, Len(s) + 1)) = Len(s) + 1
        BY <1>0, <2>1, <3>1 DEF Least
      <4> QED BY <1>0, <1>1, <2>1, <3>1, <4>1, InsertLast DEF Inserted, OptimisticEdit
    <3>2. CASE ~(op.at = 0 \/ op.at > Len(s))
      <4>1. (IF op.at = 0 THEN Len(s) + 1 ELSE Least(op.at, Len(s) + 1)) = op.at
        BY <1>0, <2>1, <3>2 DEF Least
      <4> QED BY <1>1, <3>2, <4>1 DEF Inserted, OptimisticEdit
    <3> QED BY <3>1, <3>2
  <2>3. Writes(op, s)
    BY <1>1 DEF Writes
  <2> QED BY <1>1, <2>2, <2>3 DEF ServerEdit
<1>2. CASE op.kind = "remove"
  <2>1. op.at \in Nat \ {0} /\ op.at <= Len(s)
    BY <1>2 DEF Ops, Fits
  <2>2. Removed(s, op.at) = OptimisticEdit(op, s)
    BY <1>0, <1>2, <2>1 DEF Removed, OptimisticEdit
  <2>3. Writes(op, s)
    BY <1>2 DEF Writes
  <2> QED BY <1>2, <2>2, <2>3 DEF ServerEdit
<1>3. CASE op.kind = "reorder"
  <2>1. op.from \in 1..Len(s) /\ op.to \in 1..Len(s)
    BY <1>0, <1>3 DEF Ops, Fits
  <2>2. Least(op.from, Len(s)) = op.from /\ Least(op.to, Len(s)) = op.to
    BY <1>0, <2>1 DEF Least
  <2>3. ServerEdit(op, p) = [p EXCEPT !.tracks = Moved(s, op.from, op.to)]
    BY <1>3 DEF ServerEdit
  <2>4. CASE op.from # op.to
    <3>1. Writes(op, s) /\ Moved(s, op.from, op.to) = OptimisticEdit(op, s)
      BY <1>3, <2>2, <2>4 DEF Writes, Moved, OptimisticEdit, OptimisticReorder
    <3> QED BY <2>3, <3>1
  <2>5. CASE op.from = op.to
    <3>1. ~Writes(op, s)
      BY <1>3, <2>2, <2>5 DEF Writes
    <3> DEFINE i == op.from
    <3>2. i \in 1..Len(s) /\ Moved(s, op.from, op.to) = InsertAt(RemoveAt(s, i), i, s[i])
      BY <2>1, <2>2, <2>5 DEF Moved
    <3> HIDE DEF i, s
    <3>3. InsertAt(RemoveAt(s, i), i, s[i]) = s
      BY <1>0, <3>2, PutBack
    <3> QED BY <1>0, <2>3, <3>1, <3>2, <3>3 DEF s
  <2> QED BY <2>4, <2>5
<1> QED BY <1>1, <1>2, <1>3 DEF TrackKinds

\* What the user interface offers is what the server accepts.
LEMMA FitsAccepted ==
    ASSUME NEW op \in Ops, NEW p \in Playlists, Fits(op, p), NEW rest \in BOOLEAN
    PROVE  Accepts(op, p, rest)
  BY NoneAssumption DEF Fits, Accepts

-----------------------------------------------------------------------------
(* Calls                                                                   *)

\* A call that leaves the outbox and the engine alone.
LEMMA CallKeepsAhead ==
    ASSUME OneCall, AheadInv, NEW c \in Calls, sync.pc = "idle",
           UNCHANGED <<sync, outbox, srv, born>>, Numbered', CallHeld(call[c])', Ahead'
    PROVE  AheadInv'
<1>1. Held'
  BY DEF Held, OneCall
<1>2. Turns'
  BY DEF Turns
<1>3. Listed'
  BY DEF AheadInv, Listed, Deleting
<1>4. Pulled'
  BY DEF AheadInv, Pulled
<1> QED BY <1>1, <1>2, <1>3, <1>4 DEF AheadInv

LEMMA CallShows ==
    ASSUME OneCall, AheadInv, NEW c \in Calls, UNCHANGED <<sync, outbox, srv>>,
           \A id \in Saved : cache'[id] = cache[id],
           call[c].pc # "enqueue", call'[c].pc = "enqueue" => call'[c].op.id \notin Saved
    PROVE  Ahead'
<1> SUFFICES ASSUME NEW id \in Saved PROVE (\E f : Runs(f, id) /\ Shows(f[MaxEdits], id))'
  BY DEF Ahead
<1>1. PICK f : Runs(f, id) /\ Shows(f[MaxEdits], id)
  BY DEF AheadInv, Ahead
<1>2. Runs(f, id)'
  BY <1>1, RunsKept DEF Waiting, Deleting
<1>3. cache[id] = f[MaxEdits]
  BY <1>1 DEF Shows, OneCall
<1>4. Shows(f[MaxEdits], id)'
  BY <1>3 DEF Shows, OneCall
<1> QED BY <1>2, <1>4

\* What the interface offers of a saved playlist fits what the cache shows.
LEMMA EditsFit ==
    ASSUME LossInv, NEW op \in Edits
    PROVE  /\ op.kind = "create" => op.id \notin Saved
           /\ op.id \in Saved => Fits(op, cache[op.id])
<1>1. CASE op.kind = "create"
  <2>1. op.id \in Locals
    BY <1>1 DEF Edits, Additions, Rearrangements
  <2> QED BY <2>1, IdsAssumption
<1>2. CASE op.kind # "create"
  <2> SUFFICES ASSUME op.id \in Saved PROVE Fits(op, cache[op.id])
    BY <1>2
  <2>1. op.id \in Shown
    BY <1>2 DEF Edits, Additions, Rearrangements
  <2>2. cache[op.id] # None /\ ShownTracks(op.id) = cache[op.id].tracks /\ cache[op.id] \in Playlists
    BY <2>1, IdsAssumption DEF Shown, ShownTracks, LossInv, RowsTyped
  <2>3. DOMAIN cache[op.id].tracks = 1..Len(cache[op.id].tracks)
    BY <2>2, LenProperties DEF Playlists
  <2>4. CASE op.kind = "remove"
    <3>1. op.at \in DOMAIN ShownTracks(op.id)
      BY <2>4 DEF Edits, Additions, Rearrangements
    <3> QED BY <2>2, <2>3, <2>4, <3>1 DEF Fits
  <2>5. CASE op.kind = "reorder"
    <3>1. op.from \in DOMAIN ShownTracks(op.id) /\ op.to \in DOMAIN ShownTracks(op.id)
      BY <2>5 DEF Edits, Additions, Rearrangements
    <3> QED BY <2>2, <2>3, <2>5, <3>1 DEF Fits
  <2> QED BY <2>2, <2>4, <2>5 DEF Fits
<1> QED BY <1>1, <1>2

\* An edit starts without a word of the server, and the call will enqueue it.
LEMMA StartAhead ==
    ASSUME OneCall, SyncsApart, LossInv, AheadInv, NEW c \in Calls, StartCall(c)
    PROVE  AheadInv'
<1>1. PICK op \in Edits : \/ EditLocal(c, op)
                          \/ \E id \in Targets(op), o \in Outcomes : EditOnline(c, op, id, o)
  BY DEF StartCall, Open, ListMine, SyncsApart
<1>2. StartEdit(c) /\ UNCHANGED <<sync, outbox, next, cache>>
  BY <1>1 DEF EditLocal, EditOnline, queueVars
<1>3. /\ UNCHANGED <<srv, born>>
      /\ call' = [call EXCEPT ![c].pc = AfterStart(op), ![c].op = op, ![c].queue = TRUE]
  <2>1. CASE EditLocal(c, op)
    BY <2>1 DEF EditLocal, serverVars
  <2>2. ASSUME NEW id \in Targets(op), NEW o \in Outcomes, EditOnline(c, op, id, o)
        PROVE  /\ UNCHANGED <<srv, born>>
               /\ call' = [call EXCEPT ![c].pc = AfterStart(op), ![c].op = op, ![c].queue = TRUE]
    <3>1. o = "unreached"
      BY <2>2 DEF EditOnline, SyncsApart
    <3>2. Answer(o) = "transport"
      BY <3>1 DEF Answer
    <3>3. UNCHANGED <<srv, born>>
      BY <2>2, <3>1 DEF EditOnline, CallServer, serverVars
    <3> QED BY <2>2, <3>2, <3>3 DEF EditOnline
  <2> QED BY <1>1, <2>1, <2>2
<1>4. sync.pc = "idle" /\ call[c].pc = "idle" /\ edits < MaxEdits /\ edits' = edits + 1
  BY <1>2 DEF StartEdit, SyncsApart
<1>5. Numbered' /\ next' <= edits'
  BY <1>2, <1>4, BoundsAssumption DEF AheadInv, Numbered, LossInv, RowsTyped
<1>6. call'[c].pc \in {"read", "write"} /\ call'[c].op = op /\ call'[c].queue
      /\ (call'[c].pc = "write" => op.kind \notin TrackKinds)
  BY <1>3 DEF LossInv, CallsTyped, CallOK, CallFields, AfterStart
<1>7. CallHeld(call[c])'
  BY <1>2, <1>5, <1>6, EditsFit DEF CallHeld, CallPcs, Fits
<1>8. Ahead'
  BY <1>2, <1>3, <1>4, <1>6, CallShows
<1> QED BY <1>2, <1>3, <1>4, <1>5, <1>7, <1>8, CallKeepsAhead

LEMMA ReadAhead ==
    ASSUME OneCall, LossInv, AheadInv, NEW c \in Calls, EditRead(c)
    PROVE  AheadInv'
<1> DEFINE s == ShownTracks(call[c].op.id)
<1>1. /\ call[c].pc = "read" /\ call' = [call EXCEPT ![c].pc = "write", ![c].rows = s]
      /\ UNCHANGED <<srv, born, sync, outbox, next, cache, edits>>
  BY DEF EditRead, serverVars, cacheVars, queueVars
<1>2. sync.pc = "idle"
  BY <1>1 DEF AheadInv, Turns
<1>3. Numbered'
  BY <1>1 DEF AheadInv, Numbered
<1>4. call[c].op.id \in Saved /\ Fits(call[c].op, cache[call[c].op.id]) =>
        s = cache[call[c].op.id].tracks
  BY DEF ShownTracks, Fits
<1> HIDE DEF s
<1>5. /\ call'[c].pc = "write" /\ call'[c].rows = s
      /\ call'[c].op = call[c].op /\ call'[c].queue = call[c].queue
  BY <1>1 DEF LossInv, CallsTyped, CallOK, CallFields
<1>6. CallHeld(call[c])
  BY DEF AheadInv, Held
<1>7. CallHeld(call[c])'
  BY <1>1, <1>4, <1>5, <1>6 DEF CallHeld, CallPcs, Fits
<1>8. Ahead'
  BY <1>1, <1>5, CallShows
<1> QED BY <1>1, <1>2, <1>3, <1>7, <1>8, CallKeepsAhead

\* The write of a saved playlist, and what the call does next.
LEMMA WriteSaved ==
    ASSUME LossInv, AheadInv, NEW c \in Calls, EditWrite(c), call[c].op.id \in Saved
    PROVE  LET op == call[c].op  p == cache[op.id] IN
           /\ Accepts(op, p, RestOnly)
           /\ cache' = [cache EXCEPT ![op.id] = ServerEdit(op, p)]
           /\ call' = [call EXCEPT ![c] = [@ EXCEPT !.pc = "enqueue", !.rows = <<>>]]
<1> DEFINE op == call[c].op
           p == cache[op.id]
           s == p.tracks
<1>1. call[c].pc = "write"
  BY DEF EditWrite
<1>2. op \in Ops /\ op.id \in Ids /\ op.id \notin Locals
  BY <1>1, OpFacts, IdsAssumption DEF LossInv, CallsTyped, CallOK
<1>3. /\ call[c].queue /\ op.kind # "create" /\ Fits(op, p)
      /\ op.kind \in TrackKinds => call[c].rows = s
  BY <1>1 DEF AheadInv, Held, CallHeld
<1>4. cache \in [Ids -> Playlists \cup {None}] /\ p \in Playlists /\ p # None
  BY <1>2, <1>3 DEF LossInv, RowsTyped, Fits
<1>5. Accepts(op, p, RestOnly)
  <2>1. RestOnly \in BOOLEAN
    BY DEF RestOnly
  <2> QED BY <1>2, <1>3, <1>4, <2>1, FitsAccepted
<1>6. AfterWrite(call[c]) = "enqueue"
  BY <1>2, <1>3 DEF AfterWrite
<1>7. Proceed(c, AfterWrite(call[c])) => call' = [call EXCEPT ![c] = [@ EXCEPT !.pc = "enqueue", !.rows = <<>>]]
  BY <1>6 DEF Proceed
<1>8. CASE op.kind = "rename"
  <2>1. ServerEdit(op, p) = [p EXCEPT !.name = op.name]
    BY <1>8 DEF ServerEdit
  <2>2. cache' = Upserted(op.id, op.name) /\ Proceed(c, AfterWrite(call[c]))
    BY <1>8 DEF EditWrite, TrackKinds
  <2>3. cache' = [cache EXCEPT ![op.id] = [p EXCEPT !.name = op.name]]
    BY <1>4, <2>2 DEF Upserted
  <2> QED BY <1>5, <1>7, <2>1, <2>2, <2>3
<1>9. CASE op.kind = "delete"
  <2>1. ServerEdit(op, p) = None
    BY <1>9 DEF ServerEdit
  <2>2. cache' = [cache EXCEPT ![op.id] = None] /\ Proceed(c, AfterWrite(call[c]))
    BY <1>9 DEF EditWrite, TrackKinds
  <2> QED BY <1>5, <1>7, <2>1, <2>2
<1>10. CASE op.kind \in TrackKinds
  <2>1. call[c].rows = s
    BY <1>3, <1>10
  <2>2. ServerEdit(op, p) = IF Writes(op, s) THEN [p EXCEPT !.tracks = OptimisticEdit(op, s)] ELSE p
    BY <1>2, <1>3, <1>4, <1>10, EditsAgree
  <2>3. CASE ~Writes(op, s)
    <3>1. cache' = cache /\ Proceed(c, AfterWrite(call[c]))
      BY <1>10, <2>1, <2>3 DEF EditWrite, TrackKinds
    <3>2. cache = [cache EXCEPT ![op.id] = p]
      BY <1>4
    <3> QED BY <1>5, <1>7, <2>2, <2>3, <3>1, <3>2
  <2>4. CASE Writes(op, s)
    <3>1. CanReplace(op.id, OptimisticEdit(op, s))
      BY <1>4 DEF CanReplace
    <3>2. cache' = Replaced(op.id, OptimisticEdit(op, s)) /\ Proceed(c, AfterWrite(call[c]))
      BY <1>10, <2>1, <2>4, <3>1 DEF EditWrite, TrackKinds
    <3>3. cache' = [cache EXCEPT ![op.id] = [p EXCEPT !.tracks = OptimisticEdit(op, s)]]
      BY <1>4, <3>2 DEF Replaced
    <3> QED BY <1>5, <1>7, <2>2, <2>4, <3>2, <3>3
  <2> QED BY <2>3, <2>4
<1> QED BY <1>2, <1>3, <1>8, <1>9, <1>10 DEF Ops, TrackKinds

LEMMA WriteAhead ==
    ASSUME OneCall, LossInv, AheadInv, NEW c \in Calls, EditWrite(c)
    PROVE  AheadInv'
<1> DEFINE op == call[c].op
<1>1. call[c].pc = "write" /\ UNCHANGED <<srv, born, sync, outbox, next, edits>>
  BY DEF EditWrite, serverVars, queueVars
<1>2. sync.pc = "idle" /\ Numbered'
  BY <1>1 DEF AheadInv, Turns, Numbered
<1>3. /\ CallHeld(call[c]) /\ CallOK(call[c]) /\ DOMAIN call = Calls
      /\ op \in Ops /\ cache \in [Ids -> Playlists \cup {None}]
  BY <1>1 DEF AheadInv, Held, LossInv, CallsTyped, CallOK, RowsTyped
<1>4. CASE op.id \in Saved
  <2> DEFINE p == cache[op.id]
  <2>1. /\ Accepts(op, p, RestOnly) /\ cache' = [cache EXCEPT ![op.id] = ServerEdit(op, p)]
        /\ call' = [call EXCEPT ![c] = [@ EXCEPT !.pc = "enqueue", !.rows = <<>>]]
    BY <1>4, WriteSaved
  <2>2. call'[c].pc = "enqueue" /\ call'[c].op = op
    BY <1>3, <2>1 DEF CallOK, CallFields
  <2>3. CallHeld(call[c])'
    BY <1>1, <1>3, <2>2 DEF CallHeld, CallPcs
  <2>4. Ahead'
    <3> SUFFICES ASSUME NEW id \in Saved PROVE (\E f : Runs(f, id) /\ Shows(f[MaxEdits], id))'
      BY DEF Ahead
    <3>1. PICK f : Runs(f, id) /\ Shows(f[MaxEdits], id)
      BY DEF AheadInv, Ahead
    <3>2. Runs(f, id)'
      BY <1>1, <3>1, RunsKept DEF Waiting, Deleting
    <3>3. cache[id] = f[MaxEdits]
      BY <1>1, <3>1 DEF Shows, OneCall
    <3>4. cache'[op.id] = ServerEdit(op, p) /\ (id # op.id => cache'[id] = cache[id])
      BY <1>3, <1>4, <2>1, IdsAssumption DEF Ids
    <3>5. Shows(f[MaxEdits], id)'
      BY <2>1, <2>2, <3>3, <3>4 DEF Shows, OneCall
    <3> QED BY <3>2, <3>5
  <2> QED BY <1>1, <1>2, <2>3, <2>4, CallKeepsAhead
<1>5. CASE op.id \notin Saved
  <2> DEFINE l == AfterWrite(call[c])
             q == [call[c] EXCEPT !.pc = l, !.rows = <<>>]
  <2>1. \A id \in Saved : cache'[id] = cache[id]
    <3>1. \E x : cache' = [cache EXCEPT ![op.id] = x]
      <4>1. \/ UNCHANGED cache \/ cache' = Upserted(op.id, op.name) \/ cache' = [cache EXCEPT ![op.id] = None]
            \/ cache' = Replaced(op.id, OptimisticEdit(op, call[c].rows))
        BY DEF EditWrite
      <4>2. op.id \in Ids /\ cache = [cache EXCEPT ![op.id] = cache[op.id]]
        BY <1>3, OpFacts
      <4> QED BY <4>1, <4>2 DEF Upserted, Replaced
    <3> QED BY <1>3, <1>5, <3>1
  <2>2. Proceed(c, l) \/ EndCall(c)
    BY DEF EditWrite
  <2>3. l \in {"idle", "enqueue", "discard"} /\ (l = "discard" => op.id \in Locals)
    BY DEF AfterWrite
  <2>4. q.pc = l /\ q.op = op
    BY <1>3 DEF CallOK, CallFields
  <2>5. call'[c] = IdleCall \/ call'[c] = q
    BY <1>3, <2>2 DEF Proceed, EndCall
  <2> HIDE DEF l, q
  <2>6. /\ call'[c].pc \in {"idle", "enqueue", "discard"}
        /\ call'[c].pc # "idle" => call'[c].op = op
        /\ call'[c].pc = "discard" => op.id \in Locals
    BY <2>3, <2>4, <2>5 DEF IdleCall
  <2>7. CallHeld(call[c])'
    BY <1>1, <1>3, <2>6 DEF CallHeld, CallPcs
  <2>8. Ahead'
    BY <1>1, <1>5, <2>1, <2>6, CallShows
  <2> QED BY <1>1, <1>2, <2>7, <2>8, CallKeepsAhead
<1> QED BY <1>4, <1>5

\* The op that is enqueued is the last to be replayed.
LEMMA EnqueueAhead ==
    ASSUME OneCall, LossInv, OrderInv, AheadInv, NEW c \in Calls, EditEnqueue(c)
    PROVE  AheadInv'
<1> DEFINE op == call[c].op
<1>1. /\ call[c].pc = "enqueue" /\ call' = [call EXCEPT ![c] = IdleCall]
      /\ outbox' = [outbox EXCEPT ![next] = op] /\ next' = next + 1
      /\ UNCHANGED <<srv, born, cache, sync, edits>>
  BY DEF EditEnqueue, EndCall, serverVars, cacheVars
<1>2. sync.pc = "idle" /\ ~Deleting
  BY <1>1 DEF AheadInv, Turns, Deleting, RemapPcs
<1>3. /\ CallHeld(call[c]) /\ DOMAIN call = Calls /\ op \in Ops /\ op # None
      /\ outbox \in [Rows -> Ops \cup {None}] /\ next \in Nat
  BY <1>1, OpFacts DEF AheadInv, Held, LossInv, CallsTyped, CallOK, RowsTyped
<1>4. next <= edits /\ edits \in 0..MaxEdits /\ (op.kind = "create" => op.id \notin Saved)
  BY <1>1, <1>3 DEF CallHeld, AheadInv, Numbered
<1>5. \A r \in Rows : r >= next => outbox[r] = None
  <2>1. \A r \in Rows : outbox[r] # None => r < next
    BY DEF OrderInv, Issued
  <2> QED BY <1>3, <2>1, RowsNat
<1>6. \A r \in Rows : outbox'[r] = IF r = next THEN op ELSE outbox[r]
  BY <1>1, <1>3
<1>7. Held'
  BY <1>1, <1>3 DEF Held, CallHeld, IdleCall, CallPcs, OneCall
<1>8. Turns' /\ Numbered'
  BY <1>1, <1>2, <1>3, <1>4 DEF Turns, Numbered
<1>9. Listed'
  BY <1>1, <1>2, <1>4, <1>6 DEF AheadInv, Listed, Deleting, RemapPcs
<1>10. Pulled'
  BY <1>1, <1>2 DEF Pulled, PullPcs
<1>11. Ahead'
  <2> SUFFICES ASSUME NEW id \in Saved PROVE (\E f : Runs(f, id) /\ Shows(f[MaxEdits], id))'
    BY DEF Ahead
  <2>1. PICK f : Runs(f, id) /\ Shows(f[MaxEdits], id)
    BY DEF AheadInv, Ahead
  <2> DEFINE M == MaxEdits
             p == f[next - 1]
  <2>0. PICK g : g = [n \in 0..M |-> IF n < next THEN f[n] ELSE cache[id]]
    OBVIOUS
  <2>2. M \in Nat /\ next \in Nat /\ 1 <= next /\ next <= M /\ Rows = 1..M
    BY <1>3, <1>4, BoundsAssumption DEF AheadInv, Numbered, Rows
  <2>3. \A r \in Rows : Waiting(r) = outbox[r] /\ Waiting(r)' = outbox'[r]
    BY <1>1, <1>2 DEF Waiting, Deleting
  <2>4. f[M] = p
    <3>1. \A n \in (next - 1 + 1)..M : f[n] = f[n - 1]
      <4> SUFFICES ASSUME NEW n \in next..M PROVE f[n] = f[n - 1]
        BY <2>2
      <4>1. n \in Rows /\ Waiting(n) = None
        BY <1>5, <2>2, <2>3
      <4> QED BY <2>1, <4>1 DEF Runs, Edited
    <3> HIDE DEF M
    <3>2. next - 1 \in Nat /\ next - 1 <= M
      BY <2>2
    <3> QED BY <2>2, <3>1, <3>2, Constant
  <2>5. /\ op.id = id => Accepts(op, p, RestOnly) /\ cache[id] = ServerEdit(op, p)
        /\ op.id # id => cache[id] = p
    BY <1>1, <2>1, <2>4 DEF Shows, OneCall
  <2>6. /\ g[0] = f[0] /\ g[M] = cache[id]
        /\ \A n \in Rows : /\ n < next => g[n] = f[n] /\ g[n - 1] = f[n - 1]
                           /\ n = next => g[n] = cache[id] /\ g[n - 1] = p
                           /\ n > next => g[n] = cache[id] /\ g[n - 1] = cache[id]
    BY <2>0, <2>2
  <2> HIDE DEF p, M
  <2>7. ASSUME NEW n \in Rows
        PROVE  /\ g[n] = Edited(outbox'[n], id, g[n - 1])
               /\ outbox'[n] # None /\ outbox'[n].id = id => Accepts(outbox'[n], g[n - 1], RestOnly)
    <3>1. CASE n < next
      <4>1. outbox'[n] = outbox[n]
        BY <1>6, <2>2, <3>1
      <4>2. /\ f[n] = Edited(outbox[n], id, f[n - 1])
            /\ outbox[n] # None /\ outbox[n].id = id => Accepts(outbox[n], f[n - 1], RestOnly)
        BY <2>1, <2>3 DEF Runs, Concerns
      <4> QED BY <2>6, <3>1, <4>1, <4>2
    <3>2. CASE n = next
      BY <1>3, <1>6, <2>5, <2>6, <3>2 DEF Edited
    <3>3. CASE n > next
      <4>1. outbox'[n] = None
        BY <1>5, <1>6, <2>2, <3>3
      <4> QED BY <2>6, <3>3, <4>1 DEF Edited
    <3> QED BY <2>2, <3>1, <3>2, <3>3
  <2>8. Runs(g, id)'
    <3>1. g[0] = srv'[id]
      BY <1>1, <2>1, <2>6 DEF Runs
    <3> QED BY <2>3, <2>7, <3>1 DEF Runs, Concerns, Edited, RestOnly
  <2>9. Shows(g[MaxEdits], id)'
    BY <1>1, <1>3, <2>6 DEF Shows, IdleCall, OneCall, M
  <2> QED BY <2>8, <2>9
<1> QED BY <1>7, <1>8, <1>9, <1>10, <1>11 DEF AheadInv

LEMMA DiscardAhead ==
    ASSUME OneCall, LossInv, AheadInv, NEW c \in Calls, DiscardList(c) \/ DiscardOp(c)
    PROVE  AheadInv'
<1>1. /\ UNCHANGED <<srv, born, cache, sync, edits, next>>
      /\ call[c].pc \in {"discard", "discarding"}
  BY DEF DiscardList, DiscardOp, serverVars, cacheVars, queueVars
<1>2. sync.pc = "idle" /\ ~Deleting /\ Numbered'
  BY <1>1 DEF AheadInv, Turns, Deleting, RemapPcs, Numbered
<1>3. CallHeld(call[c]) /\ CallOK(call[c]) /\ DOMAIN call = Calls /\ outbox \in [Rows -> Ops \cup {None}]
  BY DEF AheadInv, Held, LossInv, CallsTyped, RowsTyped
<1> DEFINE Goes ==
             /\ call'[c].pc \in {"discarding", "idle"}
             /\ call'[c].pc = "discarding" =>
                   \A q \in call'[c].todo : outbox'[q] # None => outbox'[q].id \notin Saved
             /\ \A r \in Rows : \/ outbox'[r] = outbox[r]
                                \/ outbox'[r] = None /\ (outbox[r] # None => outbox[r].id \notin Saved)
<1>4. ASSUME DiscardList(c) PROVE Goes
  <2> DEFINE t == {r \in Rows : outbox[r] # None /\ References(outbox[r], call[c].op.id)}
  <2>1. /\ call' = [call EXCEPT ![c].pc = "discarding", ![c].todo = t] /\ outbox' = outbox
        /\ call[c].op.id \in Locals
    BY <1>3, <1>4 DEF DiscardList, CallHeld, queueVars
  <2>2. \A q \in t : outbox[q].id \notin Saved
    BY <2>1, IdsAssumption DEF References
  <2> HIDE DEF t
  <2>3. call'[c].pc = "discarding" /\ call'[c].todo = t
    BY <1>3, <2>1 DEF CallOK, CallFields
  <2> QED BY <2>1, <2>2, <2>3
<1>5. ASSUME DiscardOp(c) PROVE Goes
  <2>1. call[c].pc = "discarding" /\ \A q \in call[c].todo : outbox[q] # None => outbox[q].id \notin Saved
    BY <1>3, <1>5 DEF DiscardOp, CallHeld
  <2>2. ASSUME call' = [call EXCEPT ![c] = IdleCall], outbox' = outbox PROVE Goes
    BY <1>3, <2>2 DEF IdleCall
  <2>3. ASSUME NEW r \in call[c].todo, outbox' = [outbox EXCEPT ![r] = None],
               call' = [call EXCEPT ![c].todo = @ \ {r}]
        PROVE  Goes
    <3> DEFINE t == call[c].todo \ {r}
    <3>1. call' = [call EXCEPT ![c].todo = t]
      BY <2>3
    <3> HIDE DEF t
    <3>2. call'[c].pc = "discarding" /\ call'[c].todo = t
      BY <1>3, <2>1, <3>1 DEF CallOK, CallFields
    <3>3. \A q : q # r => outbox'[q] = outbox[q]
      BY <2>3
    <3>4. r \in Rows => outbox'[r] = None
      BY <1>3, <2>3
    <3> QED BY <1>3, <2>1, <2>3, <3>2, <3>3, <3>4 DEF t
  <2> QED BY <1>5, <2>2, <2>3 DEF DiscardOp, EndCall
<1>6. Goes
  BY <1>4, <1>5
<1>7. Held'
  BY <1>6 DEF Held, CallHeld, CallPcs, OneCall
<1>8. Turns' /\ Pulled'
  BY <1>1, <1>2 DEF Turns, Pulled, PullPcs
<1>9. Listed'
  BY <1>1, <1>2, <1>6 DEF AheadInv, Listed, Deleting, RemapPcs
<1>10. Ahead'
  <2> SUFFICES ASSUME NEW id \in Saved PROVE (\E f : Runs(f, id) /\ Shows(f[MaxEdits], id))'
    BY DEF Ahead
  <2>1. PICK f : Runs(f, id) /\ Shows(f[MaxEdits], id)
    BY DEF AheadInv, Ahead
  <2>2. \A r \in Rows : Concerns(r, id) \/ Concerns(r, id)' => Waiting(r)' = Waiting(r)
    BY <1>1, <1>2, <1>6 DEF Concerns, Waiting, Deleting
  <2>3. Runs(f, id)'
    BY <1>1, <2>1, <2>2, RunsKept
  <2>4. Shows(f[MaxEdits], id)'
    BY <1>1, <1>6, <2>1 DEF Shows, OneCall
  <2> QED BY <2>3, <2>4
<1> QED BY <1>2, <1>7, <1>8, <1>9, <1>10 DEF AheadInv

LEMMA CallsAhead ==
    ASSUME OneCall, SyncsApart, LossInv, OrderInv, AheadInv,
           NEW c \in Calls, StartCall(c) \/ CallStep(c)
    PROVE  AheadInv'
<1>1. call[c].pc \in CallPcs
  BY DEF AheadInv, Held, CallHeld
<1>2. ~(MirrorRow(c) \/ MirrorTracks(c) \/ ListMirror(c))
  BY <1>1 DEF MirrorRow, MirrorTracks, ListMirror, CallPcs
<1> QED BY <1>2, StartAhead, ReadAhead, WriteAhead, EnqueueAhead, DiscardAhead DEF CallStep

-----------------------------------------------------------------------------
(* The engine                                                              *)

CallsIdle == \A c \in Calls : call[c].pc = "idle"

LEMMA EngineTurn == AheadInv /\ sync.pc # "idle" => CallsIdle
  BY DEF AheadInv, Turns, CallsIdle

LEMMA EngineKeepsCalls ==
    ASSUME AheadInv, CallsIdle, UNCHANGED <<call, next, edits>>
    PROVE  Held' /\ Turns' /\ Numbered'
  BY DEF AheadInv, Held, Turns, Numbered, CallHeld, CallPcs, CallsIdle

LEMMA IdleShows ==
    ASSUME CallsIdle, UNCHANGED call, NEW id, NEW p
    PROVE  (Shows(p, id) <=> cache[id] = p) /\ (Shows(p, id)' <=> cache'[id] = p)
  BY DEF CallsIdle, Shows

\* A step of the engine that changes nothing of the saved playlists.
LEMMA EngineShows ==
    ASSUME AheadInv, CallsIdle, UNCHANGED call,
           \A id \in Saved : srv'[id] = srv[id] /\ cache'[id] = cache[id],
           \A id \in Saved, r \in Rows :
              Concerns(r, id) \/ Concerns(r, id)' => Waiting(r)' = Waiting(r)
    PROVE  Ahead'
<1> SUFFICES ASSUME NEW id \in Saved PROVE (\E f : Runs(f, id) /\ Shows(f[MaxEdits], id))'
  BY DEF Ahead
<1>1. PICK f : Runs(f, id) /\ Shows(f[MaxEdits], id)
  BY DEF AheadInv, Ahead
<1>2. Runs(f, id)'
  BY <1>1, RunsKept
<1>3. Shows(f[MaxEdits], id)'
  BY <1>1, IdleShows
<1> QED BY <1>2, <1>3

LEMMA StartSyncAhead ==
    ASSUME SyncsApart, LossInv, AheadInv, SyncStart
    PROVE  AheadInv'
<1>1. /\ sync.pc = "idle" /\ sync' = [IdleSync EXCEPT !.pc = "push", !.todo = outbox]
      /\ UNCHANGED <<srv, born, cache, outbox, next, call, edits>> /\ CallsIdle
  BY DEF SyncStart, SyncsApart, CallsIdle, serverVars, cacheVars, queueVars
<1>2. sync'.pc = "push" /\ sync'.todo = outbox
  BY <1>1 DEF IdleSync
<1>3. Held' /\ Turns' /\ Numbered'
  BY <1>1, EngineKeepsCalls
<1>4. Ahead'
  BY <1>1, <1>2, EngineShows DEF Waiting, Deleting, RemapPcs
<1>5. Listed'
  BY <1>1, <1>2 DEF AheadInv, Listed, RemapPcs
<1>6. Pulled'
  BY <1>2 DEF Pulled, PullPcs
<1> QED BY <1>3, <1>4, <1>5, <1>6 DEF AheadInv

\* The oldest row of the snapshot is the oldest of the outbox: the replay of a
\* saved playlist begins with it, and the server accepts it.
LEMMA FirstConcerns ==
    ASSUME LossInv, AheadInv, sync.pc = "push", NEW r, First(r), NEW id \in Saved, NEW f, Runs(f, id)
    PROVE  /\ \A n \in 0..(r - 1) : f[n] = srv[id]
           /\ sync.todo[r].id = id => /\ outbox[r] = sync.todo[r] /\ sync.todo[r].kind # "create"
                                      /\ Accepts(sync.todo[r], srv[id], RestOnly)
                                      /\ f[r] = ServerEdit(sync.todo[r], srv[id])
<1>1. r \in Rows /\ sync.todo[r] # None /\ \A q \in Rows : q < r => sync.todo[q] = None
  <2>1. r \in Rows /\ sync.todo[r] # None /\ \A q \in Rows : sync.todo[q] # None => r <= q
    BY DEF First, Queued
  <2> QED BY <2>1, RowsNat
<1>2. ~Deleting /\ \A q \in Rows : Waiting(q) = outbox[q]
  BY DEF Deleting, RemapPcs, Waiting
<1>3. r \in Nat /\ 1 <= r /\ r <= MaxEdits /\ Rows = 1..MaxEdits /\ MaxEdits \in Nat
  BY <1>1, BoundsAssumption DEF Rows
<1>4. \A q \in 1..(r - 1) : f[q] = f[q - 1]
  <2> SUFFICES ASSUME NEW q \in 1..(r - 1) PROVE f[q] = f[q - 1]
    OBVIOUS
  <2>1. q \in Rows /\ q < r
    BY <1>3
  <2>2. outbox[q] = None
    BY <1>1, <2>1 DEF AheadInv, Listed
  <2> QED BY <1>2, <2>1, <2>2 DEF Runs, Edited
<1>5. \A n \in 0..(r - 1) : f[n] = srv[id]
  <2> SUFFICES ASSUME NEW n \in 0..(r - 1) PROVE f[n] = f[0]
    BY DEF Runs
  <2>1. n \in Nat /\ 0 \in Nat /\ 0 <= n /\ \A q \in (0 + 1)..n : f[q] = f[q - 1]
    BY <1>3, <1>4
  <2> QED BY <2>1, Constant
<1>6. f[r - 1] = srv[id]
  BY <1>3, <1>5
<1>7. ASSUME sync.todo[r].id = id
      PROVE  /\ outbox[r] = sync.todo[r] /\ sync.todo[r].kind # "create"
             /\ Accepts(sync.todo[r], srv[id], RestOnly)
             /\ f[r] = ServerEdit(sync.todo[r], srv[id])
  <2>1. outbox[r] = sync.todo[r] /\ sync.todo[r].kind # "create"
    BY <1>1, <1>7 DEF AheadInv, Listed
  <2>2. /\ f[r] = Edited(outbox[r], id, f[r - 1])
        /\ Accepts(outbox[r], f[r - 1], RestOnly)
    BY <1>1, <1>2, <1>7, <2>1 DEF Runs, Concerns
  <2> QED BY <1>1, <1>6, <1>7, <2>1, <2>2 DEF Edited
<1> QED BY <1>5, <1>7

\* An op the server executes moves from the outbox to what the server has.
LEMMA PushShows ==
    ASSUME LossInv, AheadInv, CallsIdle, UNCHANGED <<call, cache, outbox>>, sync.pc = "push",
           NEW r, First(r), NEW id \in Saved, sync.todo[r].id = id,
           srv'[id] = ServerEdit(sync.todo[r], srv[id]),
           Deleting', sync'.row = r
    PROVE  (\E f : Runs(f, id) /\ Shows(f[MaxEdits], id))'
<1> DEFINE M == MaxEdits
<1>1. PICK f : Runs(f, id) /\ Shows(f[M], id)
  BY DEF AheadInv, Ahead
<1>2. f[r] = srv'[id]
  BY <1>1, FirstConcerns
<1>3. PICK g : g = [n \in 0..M |-> IF n < r THEN srv'[id] ELSE f[n]]
  OBVIOUS
<1>4. r \in Nat /\ 1 <= r /\ r <= M /\ Rows = 1..M /\ M \in Nat /\ r \in Rows
  BY BoundsAssumption DEF First, Queued, Rows
<1>5. \A n \in Rows : Waiting(n)' = (IF n = r THEN None ELSE outbox[n]) /\ Waiting(n) = outbox[n]
  BY DEF Waiting, Deleting, RemapPcs
<1>6. /\ g[0] = srv'[id] /\ g[M] = f[M]
      /\ \A n \in Rows : /\ n < r => g[n] = srv'[id] /\ g[n - 1] = srv'[id]
                         /\ n = r => g[n] = f[r] /\ g[n - 1] = srv'[id]
                         /\ n > r => g[n] = f[n] /\ g[n - 1] = f[n - 1]
  BY <1>3, <1>4
<1> HIDE DEF M
<1>7. ASSUME NEW n \in Rows
      PROVE  /\ g[n] = Edited(Waiting(n)', id, g[n - 1])
             /\ Waiting(n)' # None /\ Waiting(n)'.id = id => Accepts(Waiting(n)', g[n - 1], RestOnly)
  <2>1. CASE n < r
    <3>1. sync.todo[n] = None
      BY <1>4, <2>1 DEF First, Queued
    <3>2. outbox[n] = None
      BY <3>1 DEF AheadInv, Listed
    <3> QED BY <1>4, <1>5, <1>6, <2>1, <3>2 DEF Edited
  <2>2. CASE n = r
    BY <1>2, <1>5, <1>6, <2>2 DEF Edited
  <2>3. CASE n > r
    <3>1. /\ f[n] = Edited(outbox[n], id, f[n - 1])
          /\ outbox[n] # None /\ outbox[n].id = id => Accepts(outbox[n], f[n - 1], RestOnly)
      BY <1>1, <1>5 DEF Runs, Concerns
    <3> QED BY <1>4, <1>5, <1>6, <2>3, <3>1
  <2> QED BY <1>4, <2>1, <2>2, <2>3
<1>8. Runs(g, id)'
  BY <1>6, <1>7 DEF Runs, Concerns, Edited, RestOnly
<1>9. Shows(g[MaxEdits], id)'
  BY <1>1, <1>6, IdleShows DEF M
<1> QED BY <1>8, <1>9

LEMMA PushAhead ==
    ASSUME OnlyDown, LossInv, AheadInv, NEW r, NEW o \in Outcomes, NEW t \in Targets(sync.todo[r]),
           PushCall(r, t, o)
    PROVE  AheadInv'
<1> DEFINE op == sync.todo[r]
<1>1. /\ UNCHANGED <<cache, outbox, next, call, edits>> /\ sync.pc = "push"
      /\ First(r) /\ ~Unresolved(op) /\ CallServer(op, t, o)
      /\ sync' = [sync EXCEPT !.pc = AfterCall(op, o), !.row = r, !.made = t]
  BY DEF PushCall, cacheVars, queueVars
<1>2. r \in Rows /\ op \in Ops /\ op # None /\ op.id \in Ids
  BY <1>1, FirstTyped, OpFacts
<1>3. CallsIdle
  BY <1>1, EngineTurn
<1>4. t \in Remotes /\ (IF op.kind = "create" THEN t \notin Saved ELSE t = op.id)
  BY <1>1, <1>2 DEF Targets, Unresolved, Ids, AheadInv, Listed
<1>5. \/ o = "ok" /\ srv' = [srv EXCEPT ![t] = ServerEdit(op, @)] /\ born' = born \cup {t}
      \/ o = "refused" /\ UNCHANGED <<srv, born>> /\ ~Accepts(op, srv[t], RestOnly)
      \/ o = "unreached" /\ UNCHANGED <<srv, born>>
  BY <1>1 DEF CallServer, Execute, serverVars, Outcomes, OnlyDown, Fault
<1>6. /\ sync'.todo = sync.todo /\ sync'.row = r /\ sync'.made = t /\ sync'.pc = AfterCall(op, o)
  BY <1>1 DEF LossInv, SyncTyped, SyncFields
<1>7. /\ o = "ok" => sync'.pc = (IF op.kind = "create" THEN "remapList" ELSE "delete")
      /\ o = "refused" => sync'.pc \in {"delete", "failed"}
      /\ o = "unreached" => sync'.pc = "failed"
  BY <1>6 DEF AfterCall, Answer, Refused
<1>8. Held' /\ Turns' /\ Numbered'
  BY <1>1, <1>3, EngineKeepsCalls
<1>9. Pulled'
  BY <1>5, <1>7 DEF Pulled, PullPcs
<1>10. Listed'
  BY <1>1, <1>2, <1>4, <1>5, <1>6, <1>7 DEF AheadInv, Listed, RemapPcs
<1>11. Ahead'
  <2>1. \A id \in Saved : outbox[r] # None /\ outbox[r].id = id => op.id = id
    BY <1>1, <1>2 DEF AheadInv, Listed
  <2>2. \A n \in Rows : Waiting(n) = outbox[n] /\ Waiting(n)' = (IF Deleting' /\ n = r THEN None ELSE outbox[n])
    BY <1>1, <1>6 DEF Waiting, Deleting, RemapPcs
  <2>3. CASE o = "ok" /\ op.kind # "create" /\ op.id \in Saved
    <3> SUFFICES ASSUME NEW id \in Saved PROVE (\E f : Runs(f, id) /\ Shows(f[MaxEdits], id))'
      BY DEF Ahead
    <3>1. Deleting'
      BY <1>7, <2>3 DEF Deleting
    <3>2. CASE id = op.id
      <4>1. srv'[id] = ServerEdit(op, srv[id])
        BY <1>4, <1>5, <2>3, <3>2 DEF LossInv, RowsTyped
      <4> QED BY <1>1, <1>3, <1>6, <3>1, <3>2, <4>1, PushShows
    <3>3. CASE id # op.id
      <4>1. PICK f : Runs(f, id) /\ Shows(f[MaxEdits], id)
        BY DEF AheadInv, Ahead
      <4>2. srv'[id] = srv[id]
        BY <1>4, <1>5, <2>3, <3>3, IdsAssumption DEF LossInv, RowsTyped
      <4>3. \A n \in Rows : Concerns(n, id) \/ Concerns(n, id)' => Waiting(n)' = Waiting(n)
        BY <2>1, <2>2, <3>3 DEF Concerns
      <4>4. Runs(f, id)'
        BY <4>1, <4>2, <4>3, RunsKept
      <4>5. Shows(f[MaxEdits], id)'
        BY <1>1, <1>3, <4>1, IdleShows
      <4> QED BY <4>4, <4>5
    <3> QED BY <3>2, <3>3
  <2>4. CASE ~(o = "ok" /\ op.kind # "create" /\ op.id \in Saved)
    <3>1. \A id \in Saved : srv'[id] = srv[id]
      BY <1>4, <1>5, <2>4, IdsAssumption DEF LossInv, RowsTyped
    <3>2. Deleting' => op.id \notin Saved
      <4> SUFFICES ASSUME Deleting', op.id \in Saved PROVE FALSE
        OBVIOUS
      <4>1. op.kind # "create"
        BY <1>1, <1>2 DEF AheadInv, Listed
      <4>2. o = "refused"
        BY <1>5, <1>7, <2>4, <4>1 DEF Deleting, RemapPcs
      <4>3. Accepts(op, srv[op.id], RestOnly)
        <5>1. PICK f : Runs(f, op.id)
          BY DEF AheadInv, Ahead
        <5> QED BY <1>1, <5>1, FirstConcerns
      <4> QED BY <1>4, <1>5, <4>1, <4>2, <4>3
    <3>3. \A id \in Saved, n \in Rows : Concerns(n, id) \/ Concerns(n, id)' => Waiting(n)' = Waiting(n)
      BY <2>1, <2>2, <3>2 DEF Concerns
    <3> QED BY <1>1, <1>3, <3>1, <3>3, EngineShows
  <2> QED BY <2>3, <2>4
<1> QED BY <1>8, <1>9, <1>10, <1>11 DEF AheadInv

\* An op that names a placeholder is of no saved playlist.
LEMMA UnresolvedAhead ==
    ASSUME LossInv, AheadInv, NEW r, PushUnresolved(r)
    PROVE  AheadInv'
<1>1. /\ UNCHANGED <<srv, born, cache, outbox, next, call, edits>> /\ sync.pc = "push" /\ First(r)
      /\ sync' = [sync EXCEPT !.pc = "delete", !.row = r] /\ sync.todo[r].id \in Locals
  BY DEF PushUnresolved, Unresolved, serverVars, cacheVars, queueVars
<1>2. CallsIdle
  BY <1>1, EngineTurn
<1>3. r \in Rows /\ sync.todo[r].id \notin Saved /\ sync.todo[r] # None
  BY <1>1, FirstTyped, OpFacts, IdsAssumption
<1>4. sync'.pc = "delete" /\ sync'.row = r /\ sync'.todo = sync.todo
  BY <1>1 DEF LossInv, SyncTyped, SyncFields
<1>5. Held' /\ Turns' /\ Numbered'
  BY <1>1, <1>2, EngineKeepsCalls
<1>6. Listed'
  BY <1>1, <1>4 DEF AheadInv, Listed, RemapPcs
<1>7. Pulled'
  BY <1>4 DEF Pulled, PullPcs
<1>8. Ahead'
  <2>1. outbox[r] # None => outbox[r].id \notin Saved
    BY <1>1, <1>3 DEF AheadInv, Listed
  <2>2. \A n \in Rows : Waiting(n) = outbox[n] /\ Waiting(n)' = IF n = r THEN None ELSE outbox[n]
    BY <1>1, <1>4 DEF Waiting, Deleting, RemapPcs
  <2>3. \A id \in Saved, n \in Rows : Concerns(n, id) \/ Concerns(n, id)' => Waiting(n)' = Waiting(n)
    BY <2>1, <2>2 DEF Concerns
  <2> QED BY <1>1, <1>2, <2>3, EngineShows
<1> QED BY <1>5, <1>6, <1>7, <1>8 DEF AheadInv

\* The create that is remapped is of no saved playlist, and is none afterwards.
LEMMA RemapAhead ==
    ASSUME LossInv, AheadInv, RemapList \/ RemapOp \/ RemapCache
    PROVE  AheadInv'
<1>1. /\ sync.pc \in RemapPcs /\ Deleting /\ UNCHANGED <<srv, born, next, call, edits>>
      /\ sync.pc # "idle"
  BY DEF RemapList, RemapOp, RemapCache, RemapPcs, Deleting, serverVars, queueVars
<1>2. CallsIdle
  BY <1>1, EngineTurn
<1>3. /\ sync.made \in Remotes /\ sync.made \notin Saved /\ sync.row \in Rows
      /\ OldId \in Ids /\ OldId \notin Saved
  <2>1. sync.made \in Remotes /\ sync.row \in Rows /\ sync.todo[sync.row] \in Ops
    BY <1>1 DEF LossInv, SyncTyped, Answered
  <2> QED BY <1>1, <2>1, OpFacts DEF AheadInv, Listed, OldId
<1>4. Held' /\ Turns' /\ Numbered'
  BY <1>1, <1>2, EngineKeepsCalls
<1>5. outbox[sync.row] # None => outbox[sync.row].id \notin Saved
  <2>1. sync.todo[sync.row].id \notin Saved
    BY <1>3 DEF OldId
  <2> QED BY <1>1, <1>3, <2>1 DEF AheadInv, Listed
<1>6. \A id \in Saved : cache'[id] = cache[id]
  <2>1. CASE UNCHANGED cache
    BY <2>1
  <2>2. CASE cache' = [cache EXCEPT ![sync.made] = cache[OldId], ![OldId] = None]
    BY <1>3, <2>2, IdsAssumption DEF LossInv, RowsTyped, Ids
  <2> QED BY <2>1, <2>2 DEF RemapList, RemapOp, RemapCache, cacheVars
<1> DEFINE Rewritten(r) ==
             /\ outbox[r] # None /\ outbox[r].id \notin Saved
             /\ outbox'[r] # None /\ outbox'[r].id \notin Saved /\ outbox'[r].kind = outbox[r].kind
<1>7. \A r \in Rows : outbox'[r] = outbox[r] \/ Rewritten(r)
  <2>1. ASSUME NEW q \in sync.remap, sync.pc = "remap",
               outbox' = [outbox EXCEPT ![q] = IF @ = None THEN None ELSE [@ EXCEPT !.id = sync.made]]
        PROVE  \A r \in Rows : outbox'[r] = outbox[r] \/ Rewritten(r)
    <3> DEFINE op == outbox[q]
               n == [op EXCEPT !.id = sync.made]
    <3>1. q \in Rows /\ (op # None => op \in Ops /\ op.id \notin Saved)
      BY <2>1 DEF AheadInv, Listed, LossInv, RowsTyped
    <3>2. op # None => n \in Ops /\ n # None /\ n.kind = op.kind /\ n.id = sync.made
      BY <1>3, <3>1, RenamedTyped, OpFacts DEF Ids, Ops
    <3>3. outbox' = [outbox EXCEPT ![q] = IF op = None THEN None ELSE n]
      BY <2>1
    <3> HIDE DEF n
    <3>4. \A r \in Rows : outbox'[r] = IF r # q THEN outbox[r] ELSE IF op = None THEN None ELSE n
      BY <3>3 DEF LossInv, RowsTyped
    <3> QED BY <1>3, <3>1, <3>2, <3>4
  <2>2. CASE UNCHANGED outbox
    BY <2>2
  <2> QED BY <2>1, <2>2 DEF RemapList, RemapOp, RemapCache, queueVars
<1>8. \/ /\ sync'.pc \in RemapPcs \cup {"delete"}
         /\ sync'.row = sync.row /\ sync'.todo = sync.todo /\ sync'.made = sync.made
         /\ sync'.pc = "remap" => \A r \in sync'.remap : r \in Rows /\ (outbox[r] # None => outbox[r].id \notin Saved)
      \/ sync'.pc = "idle" /\ sync'.todo = Empty /\ UNCHANGED outbox
  <2>1. CASE RemapList
    <3> DEFINE t == {r \in Queued(outbox) : References(outbox[r], OldId)}
    <3>1. sync' = [sync EXCEPT !.pc = "remap", !.remap = t]
      BY <2>1 DEF RemapList
    <3>2. \A r \in t : r \in Rows /\ outbox[r].id \notin Saved
      BY <1>3 DEF Queued, References
    <3> HIDE DEF t
    <3> QED BY <3>1, <3>2 DEF LossInv, SyncTyped, SyncFields, RemapPcs
  <2>2. CASE RemapOp
    <3>1. \/ sync' = [sync EXCEPT !.pc = "remapCache"]
          \/ \E r : sync.pc = "remap" /\ sync' = [sync EXCEPT !.remap = @ \ {r}]
      BY <2>2 DEF RemapOp
    <3>2. CASE sync' = [sync EXCEPT !.pc = "remapCache"]
      BY <3>2 DEF LossInv, SyncTyped, SyncFields, RemapPcs
    <3>3. ASSUME NEW r, sync.pc = "remap", sync' = [sync EXCEPT !.remap = @ \ {r}]
          PROVE  /\ sync'.pc = "remap" /\ sync'.row = sync.row /\ sync'.todo = sync.todo
                 /\ sync'.made = sync.made /\ sync'.remap = sync.remap \ {r}
      <4> DEFINE t == sync.remap \ {r}
      <4>1. sync' = [sync EXCEPT !.remap = t]
        BY <3>3
      <4> HIDE DEF t
      <4>2. sync'.remap = t
        BY <4>1 DEF LossInv, SyncTyped, SyncFields
      <4> QED BY <3>3, <4>1, <4>2 DEF LossInv, SyncTyped, SyncFields, t
    <3> QED BY <3>1, <3>2, <3>3 DEF AheadInv, Listed, RemapPcs
  <2>3. CASE RemapCache
    BY <2>3 DEF RemapCache, EndSync, IdleSync, LossInv, SyncTyped, SyncFields, queueVars
  <2> QED BY <2>1, <2>2, <2>3
<1>9. Pulled'
  BY <1>8 DEF Pulled, PullPcs, RemapPcs
<1>10. Listed'
  <2>1. CASE sync'.pc = "idle" /\ sync'.todo = Empty /\ UNCHANGED outbox
    BY <1>1, <2>1, EmptyRows DEF AheadInv, Listed, Deleting, RemapPcs
  <2>2. CASE /\ sync'.pc \in RemapPcs \cup {"delete"}
             /\ sync'.row = sync.row /\ sync'.todo = sync.todo /\ sync'.made = sync.made
             /\ sync'.pc = "remap" => \A r \in sync'.remap : r \in Rows /\ (outbox[r] # None => outbox[r].id \notin Saved)
    <3>1. sync'.pc = "remap" => \A r \in sync'.remap : r \in Rows /\ (outbox'[r] # None => outbox'[r].id \notin Saved)
      BY <1>7, <2>2
    <3>2. \A r \in Rows : outbox'[r] # None /\ outbox'[r].kind = "create" => outbox'[r].id \notin Saved
      BY <1>7 DEF AheadInv, Listed
    <3>3. \A r \in Rows :
             /\ outbox'[r] = None <=> sync'.todo[r] = None
             /\ outbox'[r] # None /\ (outbox'[r].id \in Saved \/ sync'.todo[r].id \in Saved) =>
                   outbox'[r] = sync'.todo[r]
      BY <1>1, <1>7, <2>2 DEF AheadInv, Listed
    <3>4. /\ Saved \subseteq born' /\ sync'.made \notin Saved
          /\ sync'.todo[sync'.row].kind = "create"
          /\ \A r \in Rows : sync'.todo[r] # None /\ sync'.todo[r].kind = "create" =>
                                 sync'.todo[r].id \notin Saved
      BY <1>1, <2>2 DEF AheadInv, Listed
    <3> HIDE DEF Rewritten
    <3> QED BY <3>1, <3>2, <3>3, <3>4 DEF Listed
  <2> QED BY <1>8, <2>1, <2>2
<1>11. Ahead'
  <2>1. \A id \in Saved, n \in Rows : Concerns(n, id) \/ Concerns(n, id)' => Waiting(n)' = Waiting(n)
    <3>1. \A n \in Rows : Waiting(n) = IF n = sync.row THEN None ELSE outbox[n]
      BY <1>1 DEF Waiting
    <3>2. \A n \in Rows : Waiting(n)' = (IF sync'.pc # "idle" /\ n = sync.row THEN None ELSE outbox'[n])
      BY <1>8 DEF Waiting, Deleting, RemapPcs
    <3> QED BY <1>5, <1>7, <1>8, <3>1, <3>2 DEF Concerns
  <2> QED BY <1>1, <1>2, <1>6, <2>1, EngineShows
<1> QED BY <1>4, <1>9, <1>10, <1>11 DEF AheadInv

LEMMA DeleteAhead ==
    ASSUME LossInv, AheadInv, PushDelete
    PROVE  AheadInv'
<1>1. /\ UNCHANGED <<srv, born, cache, next, call, edits>> /\ sync.pc = "delete" /\ Deleting
      /\ outbox' = [outbox EXCEPT ![sync.row] = None]
      /\ sync' = [sync EXCEPT !.pc = "push", !.todo[sync.row] = None, !.row = 0, !.made = None]
  BY DEF PushDelete, Deleting, serverVars, cacheVars
<1>2. CallsIdle
  BY <1>1, EngineTurn
<1>3. sync'.pc = "push" /\ sync'.todo = [sync.todo EXCEPT ![sync.row] = None]
  BY <1>1 DEF LossInv, SyncTyped, SyncFields
<1>4. \A r \in Rows : /\ outbox'[r] = IF r = sync.row THEN None ELSE outbox[r]
                     /\ sync'.todo[r] = IF r = sync.row THEN None ELSE sync.todo[r]
  BY <1>1, <1>3 DEF LossInv, RowsTyped, SyncTyped
<1>5. Held' /\ Turns' /\ Numbered'
  BY <1>1, <1>2, EngineKeepsCalls
<1>6. Listed'
  BY <1>1, <1>3, <1>4 DEF AheadInv, Listed, RemapPcs
<1>7. Pulled'
  BY <1>3 DEF Pulled, PullPcs
<1>8. Ahead'
  <2>1. \A n \in Rows : Waiting(n)' = Waiting(n)
    BY <1>1, <1>3, <1>4 DEF Waiting, Deleting, RemapPcs
  <2> QED BY <1>1, <1>2, <2>1, EngineShows
<1> QED BY <1>5, <1>6, <1>7, <1>8 DEF AheadInv

\* The pull begins when nothing is queued, and then changes no saved playlist.
LEMMA PullLevel ==
    ASSUME LossInv, AheadInv, sync.pc \in PullPcs, NEW id \in Saved
    PROVE  cache[id] = srv[id]
<1>1. PICK f : Runs(f, id) /\ Shows(f[MaxEdits], id)
  BY DEF AheadInv, Ahead
<1>2. CallsIdle /\ ~Deleting
  BY EngineTurn DEF PullPcs, Deleting, RemapPcs
<1>3. f[MaxEdits] = f[0]
  <2>1. \A n \in (0 + 1)..MaxEdits : f[n] = f[n - 1]
    <3> SUFFICES ASSUME NEW n \in Rows PROVE f[n] = f[n - 1]
      BY DEF Rows
    <3>1. Waiting(n) = None
      BY <1>2 DEF AheadInv, Pulled, Waiting
    <3> QED BY <1>1, <3>1 DEF Runs, Edited
  <2> QED BY <2>1, BoundsAssumption, Constant
<1> QED BY <1>1, <1>2, <1>3 DEF Runs, Shows, CallsIdle

LEMMA PullKeepsAhead ==
    ASSUME AheadInv, sync.pc \in PullPcs \cup {"push", "failed"},
           UNCHANGED <<srv, born, outbox, next, call, edits>>,
           sync'.pc \in PullPcs \cup {"idle"}, sync'.todo = sync.todo \/ sync'.todo = Empty,
           \A id \in Saved : cache'[id] = cache[id], Pulled'
    PROVE  AheadInv'
<1>1. CallsIdle /\ ~Deleting /\ ~Deleting' /\ sync'.pc # "push"
  BY EngineTurn DEF PullPcs, Deleting, RemapPcs
<1>2. Held' /\ Turns' /\ Numbered'
  BY <1>1, EngineKeepsCalls
<1>3. Listed'
  <2>1. \A r \in Rows : sync'.todo[r] # None => sync'.todo[r] = sync.todo[r]
    BY EmptyRows
  <2>2. sync'.pc \notin RemapPcs /\ sync'.pc # "remap"
    BY <1>1 DEF Deleting, RemapPcs
  <2> QED BY <1>1, <2>1, <2>2 DEF AheadInv, Listed
<1>4. Ahead'
  <2>1. \A n \in Rows : Waiting(n)' = Waiting(n)
    BY <1>1 DEF Waiting
  <2> QED BY <1>1, <2>1, EngineShows
<1> QED BY <1>2, <1>3, <1>4 DEF AheadInv

LEMMA PullAhead ==
    ASSUME SyncsApart, LossInv, AheadInv,
           PushEnd \/ PullList \/ PullRow \/ PullTracks \/ PullStamp \/ PullForget \/ PullEnd \/ PullFails
             \/ \E id \in Remotes : PullGet(id)
    PROVE  AheadInv'
<1>1. /\ UNCHANGED <<srv, born, outbox, next, call, edits>>
      /\ sync.pc \in PullPcs \cup {"push", "failed"}
  BY DEF PushEnd, PullList, PullRow, PullTracks, PullStamp, PullForget, PullEnd, PullFails, PullGet,
         PullPcs, serverVars, queueVars
<1>2. /\ DOMAIN sync = SyncFields /\ sync = [f \in SyncFields |-> sync[f]]
      /\ srv \in [Remotes -> Playlists \cup {None}] /\ cache \in [Ids -> Playlists \cup {None}]
  BY DEF LossInv, SyncTyped, RowsTyped
<1>3. sync.pc \in PullPcs => \A r \in Rows : outbox[r] = None
  BY DEF AheadInv, Pulled
<1>4. CASE PushEnd \/ PullEnd \/ PullFails
  <2>1. EndSync \/ (PushEnd /\ sync' = [IdleSync EXCEPT !.pc = "list"])
    BY <1>4 DEF PushEnd, PullEnd, PullFails
  <2>2. sync'.pc \in {"idle", "list"} /\ sync'.todo = Empty /\ (sync'.pc = "list" => PushEnd)
    BY <2>1 DEF EndSync, IdleSync
  <2>3. PushEnd => \A r \in Rows : outbox[r] = None
    BY DEF PushEnd, SyncsApart, Queued, AheadInv, Listed
  <2>4. Pulled'
    BY <1>1, <2>2, <2>3 DEF Pulled, PullPcs
  <2>5. UNCHANGED cache
    BY <1>4 DEF PushEnd, PullEnd, PullFails, cacheVars
  <2> QED BY <1>1, <2>2, <2>4, <2>5, PullKeepsAhead DEF PullPcs
<1>5. CASE PullList
  <2>1. /\ sync.pc = "list" /\ UNCHANGED cache
        /\ \E s : sync' = [sync EXCEPT !.pc = "pull", !.pull = s]
    BY <1>5 DEF PullList, cacheVars
  <2>2. sync'.pc = "pull" /\ sync'.todo = sync.todo
    BY <1>2, <2>1 DEF SyncFields
  <2>3. Pulled'
    BY <1>1, <1>3, <2>1, <2>2 DEF Pulled, PullPcs
  <2> QED BY <1>1, <2>1, <2>2, <2>3, PullKeepsAhead DEF PullPcs
<1>6. ASSUME NEW id \in Remotes, PullGet(id) PROVE AheadInv'
  <2> DEFINE p == srv[id]
             s == sync.pull \ {id}
  <2>1. /\ sync.pc = "pull" /\ UNCHANGED cache
        /\ \/ p # None /\ sync' = [sync EXCEPT !.pc = "row", !.id = id, !.view = p, !.pull = s]
           \/ p = None /\ sync' = [sync EXCEPT !.pc = "forget", !.id = id, !.pull = s]
           \/ sync' = [sync EXCEPT !.pull = s]
    BY <1>6 DEF PullGet, cacheVars
  <2> HIDE DEF p, s
  <2>2. /\ sync'.todo = sync.todo
        /\ \/ sync'.pc = "row" /\ sync'.id = id /\ sync'.view = p
           \/ sync'.pc = "forget" /\ sync'.id = id /\ p = None
           \/ sync'.pc = "pull"
    BY <1>2, <2>1 DEF SyncFields
  <2>3. Pulled'
    BY <1>1, <1>3, <2>1, <2>2 DEF Pulled, PullPcs, p
  <2> QED BY <1>1, <2>1, <2>2, <2>3, PullKeepsAhead DEF PullPcs
<1>7. CASE PullRow \/ PullTracks
  <2>1. sync.view \in Playlists /\ sync.id \in Remotes /\ sync.pc \in {"row", "tracks"}
    BY <1>7 DEF PullRow, PullTracks, LossInv, SyncTyped
  <2>2. \A id \in Saved : cache'[id] = cache[id]
    <3>1. \A id \in Saved : id # sync.id => cache'[id] = cache[id]
      BY <1>2, <1>7, IdsAssumption DEF PullRow, PullTracks, Upserted, Replaced, Ids
    <3>2. ASSUME sync.id \in Saved PROVE cache'[sync.id] = cache[sync.id]
      <4> DEFINE p == cache[sync.id]
      <4>1. p = sync.view /\ p \in Playlists /\ p # None /\ sync.id \in Ids
        BY <2>1, <3>2, PullLevel, NoneAssumption DEF AheadInv, Pulled, PullPcs, Ids
      <4>2. p = [p EXCEPT !.name = sync.view.name] /\ p = [p EXCEPT !.tracks = sync.view.tracks]
        BY <4>1 DEF Playlists
      <4> QED BY <1>2, <1>7, <4>1, <4>2 DEF PullRow, PullTracks, Upserted, Replaced
    <3> QED BY <3>1, <3>2
  <2>3. EndSync \/ \E q \in {"tracks", "stamp"} : sync' = [sync EXCEPT !.pc = q]
    BY <1>7 DEF PullRow, PullTracks
  <2>4. \/ sync'.pc = "idle" /\ sync'.todo = Empty
        \/ /\ sync'.pc \in {"tracks", "stamp"} /\ sync'.todo = sync.todo
           /\ sync'.id = sync.id /\ sync'.view = sync.view
    BY <1>2, <2>3 DEF EndSync, IdleSync, SyncFields
  <2>5. Pulled'
    BY <1>1, <1>3, <2>1, <2>4 DEF AheadInv, Pulled, PullPcs
  <2> QED BY <1>1, <2>2, <2>4, <2>5, PullKeepsAhead DEF PullPcs
<1>8. CASE PullStamp \/ PullForget
  <2>1. /\ sync.pc \in {"stamp", "forget"}
        /\ \/ sync' = [sync EXCEPT !.pc = "pull", !.id = None, !.view = None]
           \/ sync' = [sync EXCEPT !.pc = "pull", !.id = None]
    BY <1>8 DEF PullStamp, PullForget
  <2>2. sync'.pc = "pull" /\ sync'.todo = sync.todo
    BY <1>2, <2>1 DEF SyncFields
  <2>3. \A id \in Saved : cache'[id] = cache[id]
    <3>1. CASE PullStamp
      BY <3>1 DEF PullStamp, cacheVars
    <3>2. CASE PullForget
      <4>1. sync.pc = "forget" /\ cache' = [cache EXCEPT ![sync.id] = None]
        BY <3>2 DEF PullForget
      <4>2. sync.id \in Saved => cache[sync.id] = None
        BY <4>1, PullLevel DEF AheadInv, Pulled, PullPcs
      <4> QED BY <1>2, <4>1, <4>2, IdsAssumption DEF Ids
    <3> QED BY <1>8, <3>1, <3>2
  <2>4. Pulled'
    BY <1>1, <1>3, <2>1, <2>2 DEF Pulled, PullPcs
  <2> QED BY <1>1, <2>2, <2>3, <2>4, PullKeepsAhead DEF PullPcs
<1> QED BY <1>4, <1>5, <1>6, <1>7, <1>8

-----------------------------------------------------------------------------
(* The theorem                                                             *)

LEMMA AheadInit == Init => AheadInv
<1> SUFFICES ASSUME Init PROVE AheadInv
  OBVIOUS
<1>1. /\ \A r \in Rows : outbox[r] = None /\ sync.todo[r] = None
      /\ sync.pc = "idle" /\ ~Deleting
  BY EmptyRows DEF Init, IdleSync, Deleting, RemapPcs
<1>2. \A c \in Calls : call[c].pc = "idle"
  BY DEF Init, IdleCall
<1>3. Ahead
  <2> SUFFICES ASSUME NEW id \in Saved PROVE \E f : Runs(f, id) /\ Shows(f[MaxEdits], id)
    BY DEF Ahead
  <2>1. cache[id] = srv[id]
    BY IdsAssumption DEF Init, Ids
  <2>2. PICK f : f = [n \in 0..MaxEdits |-> srv[id]]
    OBVIOUS
  <2>3. \A n \in 0..MaxEdits : f[n] = srv[id]
    BY <2>2
  <2>4. /\ 0 \in 0..MaxEdits /\ MaxEdits \in 0..MaxEdits
        /\ \A r \in Rows : r \in 0..MaxEdits /\ r - 1 \in 0..MaxEdits
    BY BoundsAssumption DEF Rows
  <2>5. \A r \in Rows : Waiting(r) = None
    BY <1>1 DEF Waiting
  <2>6. Runs(f, id)
    BY <2>3, <2>4, <2>5 DEF Runs, Edited, Concerns
  <2>7. Shows(f[MaxEdits], id)
    BY <1>2, <2>1, <2>3, <2>4 DEF Shows
  <2> QED BY <2>6, <2>7
<1>4. Held /\ Turns
  BY <1>1, <1>2 DEF Held, CallHeld, CallPcs, Turns
<1>5. Numbered
  BY BoundsAssumption DEF Numbered, Init
<1>6. Listed /\ Pulled
  BY <1>1 DEF Listed, Pulled, PullPcs, RemapPcs, Init
<1> QED BY <1>3, <1>4, <1>5, <1>6 DEF AheadInv

LEMMA AheadStep ==
    ASSUME OneCall, SyncsApart, OnlyDown, OrderInv, LossInv, AheadInv, [Next]_vars
    PROVE  AheadInv'
<1>1. ASSUME NEW c \in Calls, StartCall(c) \/ CallStep(c)
      PROVE  AheadInv'
  BY <1>1, CallsAhead
<1>2. CASE SyncStep
  BY <1>2, StartSyncAhead, RemapAhead, DeleteAhead, UnresolvedAhead, PullAhead DEF SyncStep
<1>3. ASSUME NEW r \in Queued(sync.todo), NEW o \in Outcomes, Push(r, o)
      PROVE  AheadInv'
  BY <1>3, PushAhead DEF Push
<1>4. ASSUME NEW id \in Remotes, PullGet(id)
      PROVE  AheadInv'
  BY <1>4, PullAhead
<1>5. CASE PullFails
  BY <1>5, PullAhead
<1>6. ~Crash /\ \A id \in Remotes : ~Foreign(id)
  BY DEF OnlyDown, Crash, Foreign, Fault
<1>7. CASE UNCHANGED vars
  <2>1. /\ UNCHANGED <<srv, born, cache, outbox, sync, call, next, edits>>
    BY <1>7 DEF vars, serverVars, cacheVars, queueVars, histVars
  <2>2. \A id \in Saved : Ahead => \A f : Runs(f, id)' = Runs(f, id) /\ Shows(f[MaxEdits], id)' = Shows(f[MaxEdits], id)
    BY <2>1 DEF Runs, Shows, Concerns, Waiting, Deleting, RestOnly, Edited
  <2>3. Ahead'
    BY <2>2 DEF AheadInv, Ahead
  <2>4. Held' /\ Turns' /\ Numbered' /\ Listed' /\ Pulled'
    BY <2>1 DEF AheadInv, Held, CallHeld, Turns, Numbered, Listed, Deleting, Pulled
  <2> QED BY <2>3, <2>4 DEF AheadInv
<1> QED BY <1>1, <1>2, <1>3, <1>4, <1>5, <1>6, <1>7 DEF Next

\* The replay of the definition is the function of the invariant.
LEMMA ReplayOf ==
    ASSUME NEW f, NEW id, f[0] = srv[id], \A r \in Rows : f[r] = Edited(outbox[r], id, f[r - 1])
    PROVE  Replay(id) = f[MaxEdits]
<1> DEFINE Def(g) == g = [r \in 0..MaxEdits |-> IF r = 0 THEN srv[id] ELSE Edited(outbox[r], id, g[r - 1])]
<1>1. PICK h : h = [n \in 0..MaxEdits |-> f[n]]
  OBVIOUS
<1>2. /\ 0 \in 0..MaxEdits /\ MaxEdits \in 0..MaxEdits
      /\ \A r \in 0..MaxEdits : r # 0 => r \in Rows /\ r - 1 \in 0..MaxEdits
  BY BoundsAssumption DEF Rows
<1>3. \A r \in 0..MaxEdits : h[r] = IF r = 0 THEN srv[id] ELSE Edited(outbox[r], id, h[r - 1])
  <2>1. \A r \in 0..MaxEdits : h[r] = f[r]
    BY <1>1
  <2> QED BY <1>2, <2>1
<1>4. Def(h)
  BY <1>1, <1>3
<1> DEFINE upto == CHOOSE g : Def(g)
<1> HIDE DEF Def
<1>5. Def(upto)
  BY <1>4
<1> HIDE DEF upto
<1>6. \A r \in 0..MaxEdits : upto[r] = IF r = 0 THEN srv[id] ELSE Edited(outbox[r], id, upto[r - 1])
  BY <1>5 DEF Def
<1> DEFINE T == {n \in 0..MaxEdits : upto[n] # f[n]}
<1> HIDE DEF T
<1>7. ASSUME T # {} PROVE FALSE
  <2> T \subseteq Nat
    BY BoundsAssumption DEF T
  <2>1. PICK m \in T : \A n \in T : m <= n
    BY <1>7, LeastNatural
  <2>2. m \in 0..MaxEdits /\ upto[m] # f[m]
    BY <2>1 DEF T
  <2>3. m # 0
    BY <2>2, <1>6
  <2>4. m \in Rows /\ m - 1 \in 0..MaxEdits /\ m - 1 < m
    BY <2>2, <2>3, <1>2
  <2>5. upto[m - 1] = f[m - 1]
    BY <2>1, <2>2, <2>4 DEF T
  <2> QED BY <1>6, <2>2, <2>3, <2>4, <2>5
<1>8. upto[MaxEdits] = f[MaxEdits]
  BY <1>2, <1>7 DEF T
<1> QED BY <1>8 DEF Replay, upto, Def

\* With one call at a time, apart from the syncs, and nobody else who edits, what
\* the cache shows for a saved playlist is what the server has, changed by the
\* queued edits in their order, for any number of edits of any playlists, with a
\* connection that comes and goes: the optimistic edits and the server's agree
\* (optimistic_add, _remove, _reorder, push_outbox, pull_playlists).
THEOREM CacheIsAhead ==
    ASSUME OneCall, SyncsApart, OnlyDown
    PROVE  Spec => []CacheAheadByQueue
<1>1. AheadInv => CacheAheadByQueue
  <2> SUFFICES ASSUME AheadInv, \A c \in Calls : call[c].pc = "idle", sync.pc \in {"idle", "push"},
                      NEW id \in Saved
               PROVE  cache[id] = Replay(id)
    BY DEF CacheAheadByQueue
  <2>1. PICK f : Runs(f, id) /\ Shows(f[MaxEdits], id)
    BY DEF AheadInv, Ahead
  <2>2. cache[id] = f[MaxEdits]
    BY <2>1 DEF Shows
  <2>3. \A r \in Rows : Waiting(r) = outbox[r]
    BY DEF Waiting, Deleting, RemapPcs
  <2> QED BY <2>1, <2>2, <2>3, ReplayOf DEF Runs
<1>2. OrderInv /\ LossInv /\ AheadInv /\ [Next]_vars => AheadInv'
  BY AheadStep
<1> QED BY <1>1, <1>2, AheadInit, OrderInit, OrderStep, LossInit, LossStep, PTL DEF Spec

=============================================================================
