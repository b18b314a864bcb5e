---------------------------- MODULE PlaylistSync ----------------------------
(***************************************************************************)
(* Playlists of the app across a connection that comes and goes: the edits *)
(* of playlists/service.rs (tried online, else applied to the SQLite cache *)
(* and queued in the outbox) and the sync engine of sync/engine.rs, which  *)
(* replays the outbox and then pulls the server's playlists into the cache.*)
(*                                                                         *)
(* One sync runs at a time (useSync.ts); any number of calls of the user   *)
(* interface run beside it.  A step is the code between two await points   *)
(* that touches shared state: one SQLite statement or transaction, or one  *)
(* server call.  A playlist's content hash is taken to be its content.     *)
(***************************************************************************)
EXTENDS SequencesExt

CONSTANTS
    Locals,     \* placeholder ids minted offline
    Remotes,    \* server-issued ids, never reused
    Saved,      \* the playlists the server has, and the cache mirrors, initially
    Names, Tracks,
    None,       \* no row
    Calls,      \* user-interface calls that may be in flight together
    Kinds,      \* what happens in this instance: kinds of edits, "open" and "list";
                \* "online": edits are made with a connection, too; "overlap": calls
                \* and syncs overlap, and the connection comes back during a sync
    Faults,     \* what goes wrong in this instance
    MaxEdits,   \* bound: edits the user makes
    MaxFaults,  \* bound: lost answers, repeated calls, crashes, foreign edits
    MaxLen      \* bound: tracks in a playlist the user adds to

ASSUME IdsAssumption == Saved \subseteq Remotes /\ Locals \cap Remotes = {}
ASSUME BoundsAssumption == MaxEdits \in Nat /\ MaxFaults \in Nat /\ MaxLen \in Nat

VARIABLES
    srv,        \* the server's playlists
    born,       \* server ids issued so far
    cache,      \* playlists and playlist_tracks of the cache
    stamp,      \* sync_state.server_etag, the content last pulled
    outbox,     \* pending_ops: the op of a row, by its autoincrement id
    next,       \* the next autoincrement id
    locals,     \* placeholder ids: not minted, shown to the user, deleted
    sync,       \* the run of the sync engine
    call,       \* the user-interface calls
    edits,      \* how many edits the user has made
    faults,     \* how many bounded faults have happened
    applied,    \* history: how often the server executed the op of a row for a replay
    fate        \* history: why the op of a row may be gone

serverVars == <<srv, born, faults>>
cacheVars == <<cache, locals>>
queueVars == <<outbox, next>>
histVars == <<applied, fate>>
vars == <<serverVars, cacheVars, stamp, queueVars, sync, call, edits, histVars>>

Ids == Locals \cup Remotes
Rows == 1..MaxEdits
Playlists == [name : Names, tracks : Seq(Tracks)]
Fates == {"answered", "refused", "unresolved", "discarded"}

-----------------------------------------------------------------------------
(* Edits (PendingOpKind), and what the server and the cache make of them.  *)

TrackKinds == {"add", "remove", "reorder"}

Ops ==
    [kind : {"create", "rename"}, id : Ids, name : Names]
        \cup [kind : {"delete"}, id : Ids]
        \cup [kind : {"add"}, id : Ids, track : Tracks, at : Nat]
        \cup [kind : {"remove"}, id : Ids, at : Nat \ {0}]
        \cup [kind : {"reorder"}, id : Ids, from : Nat \ {0}, to : Nat \ {0}]

ASSUME NoneAssumption == None \notin Ops /\ None \notin Playlists

Least(a, b) == IF a <= b THEN a ELSE b

\* The server clamps a position into the list.
Inserted(s, t, at) == InsertAt(s, IF at = 0 THEN Len(s) + 1 ELSE Least(at, Len(s) + 1), t)
Removed(s, at) == IF at <= Len(s) THEN RemoveAt(s, at) ELSE s
Moved(s, from, to) == InsertAt(RemoveAt(s, from), Least(to, Len(s)), s[from])

ServerEdit(op, p) ==
    CASE op.kind = "create"  -> [name |-> op.name, tracks |-> <<>>]
      [] op.kind = "rename"  -> [p EXCEPT !.name = op.name]
      [] op.kind = "delete"  -> None
      [] op.kind = "add"     -> [p EXCEPT !.tracks = Inserted(@, op.track, op.at)]
      [] op.kind = "remove"  -> [p EXCEPT !.tracks = Removed(@, op.at)]
      [] op.kind = "reorder" -> [p EXCEPT !.tracks = Moved(@, op.from, op.to)]

\* Mutant: the slot is taken before the entry is removed, so moving down is one short.
OptimisticReorderShort(s, from, to) ==
    LET f == Least(from, Len(s))  t == Least(to, Len(s)) IN
    InsertAt(RemoveAt(s, f), IF f < t THEN t - 1 ELSE t, s[f])

\* optimistic_reorder clamps both positions where the server refuses, and
\* writes nothing when they agree.
OptimisticReorder(s, from, to) ==
    LET f == Least(from, Len(s)) IN InsertAt(RemoveAt(s, f), Least(to, Len(s)), s[f])

Writes(op, s) == op.kind = "reorder" => Least(op.from, Len(s)) # Least(op.to, Len(s))

\* optimistic_add, optimistic_remove, optimistic_reorder on the rows read.
OptimisticEdit(op, s) ==
    CASE op.kind = "add"     -> IF op.at = 0 \/ op.at > Len(s) THEN Append(s, op.track)
                                ELSE InsertAt(s, op.at, op.track)
      [] op.kind = "remove"  -> IF op.at \in 1..Len(s) THEN RemoveAt(s, op.at) ELSE s
      [] op.kind = "reorder" -> OptimisticReorder(s, op.from, op.to)

References(op, id) == op.id = id

-----------------------------------------------------------------------------
(* One call of ServerClient: gRPC first, REST when gRPC fails in transport.*)
(* Over gRPC alone and over REST alone the same refusal differs: REST      *)
(* reports 400 and 404 as a transport error, and answers 404 where gRPC    *)
(* answers that nothing was deleted.                                       *)

Outcomes == {"ok", "refused", "unreached", "lost", "twice", "twiceRefused"}

RestOnly == "rest" \in Faults

Refused == IF RestOnly THEN "transport" ELSE "refused"

\* The answer the caller sees, and how often the server executed the call.
Answer(o) ==
    CASE o \in {"ok", "twice"} -> "ok"
      [] o = "refused" -> Refused
      [] OTHER -> "transport"

Times(o) ==
    CASE o \in {"ok", "lost"} -> 1
      [] o = "twice" -> 2
      [] o = "twiceRefused" -> 1
      [] OTHER -> 0

\* What the service accepts, p being the row before the call.
Accepts(op, p, rest) ==
    CASE op.kind = "create"  -> TRUE
      [] op.kind = "delete"  -> rest => p # None
      [] op.kind = "remove"  -> p # None /\ (rest => op.at <= Len(p.tracks))
      [] op.kind = "reorder" -> p # None /\ op.from <= Len(p.tracks)
      [] OTHER -> p # None

\* A create is executed on a fresh id, everything else on the op's id.
Targets(op) == IF op.kind = "create" THEN Remotes \ born ELSE {op.id}

Execute(op, id) ==
    /\ srv' = [srv EXCEPT ![id] = ServerEdit(op, @)]
    /\ born' = born \cup {id}

\* gRPC executed the call on row `first` and its answer was lost; REST, tried
\* next, executes it again on row id, or refuses.
ExecuteAgain(op, first, id, accepted) ==
    LET once == [srv EXCEPT ![first] = ServerEdit(op, @)] IN
    /\ Accepts(op, srv[first], FALSE)
    /\ accepted = Accepts(op, once[id], TRUE)
    /\ srv' = IF accepted THEN [once EXCEPT ![id] = ServerEdit(op, @)] ELSE once
    /\ born' = born \cup {first, id}

Fault(f) == f \in Faults /\ faults < MaxFaults /\ faults' = faults + 1

CallServer(op, id, o) ==
    \/ /\ o = "ok"
       /\ Accepts(op, srv[id], RestOnly)
       /\ Execute(op, id)
       /\ UNCHANGED faults
    \/ /\ o = "refused"
       /\ ~Accepts(op, srv[id], RestOnly)
       /\ UNCHANGED serverVars
    \/ /\ o = "unreached"
       /\ "down" \in Faults
       /\ UNCHANGED serverVars
    \/ /\ o = "lost"
       /\ Fault("lost")
       /\ Accepts(op, srv[id], RestOnly)
       /\ Execute(op, id)
    \/ \E first \in Targets(op) :
       /\ o \in {"twice", "twiceRefused"}
       /\ op.kind = "create" => first # id
       /\ Fault("again")
       /\ ExecuteAgain(op, first, id, o = "twice")

-----------------------------------------------------------------------------
(* The cache                                                               *)

Upserted(id, name) ==
    [cache EXCEPT ![id] = IF @ = None THEN [name |-> name, tracks |-> <<>>]
                          ELSE [@ EXCEPT !.name = name]]

\* The foreign key refuses entries of a playlist that has no row.
CanReplace(id, tracks) == cache[id] # None \/ tracks = <<>>
Replaced(id, tracks) ==
    [cache EXCEPT ![id] = IF @ = None THEN None ELSE [@ EXCEPT !.tracks = tracks]]

-----------------------------------------------------------------------------
(* The user's calls.  `queue` says that the call took the offline path.    *)

IdleCall == [pc |-> "idle", op |-> None, queue |-> FALSE, rows |-> <<>>,
             view |-> None, todo |-> {}]

EndCall(c) == call' = [call EXCEPT ![c] = IdleCall]

\* What the user can reach: a playlist with a row, or a placeholder the
\* interface still shows although a sync has resolved it.
Shown == {id \in Ids : cache[id] # None} \cup {l \in Locals : locals[l] = "shown"}

ShownTracks(id) == IF cache[id] = None THEN <<>> ELSE cache[id].tracks

Additions ==
    UNION {[kind : {"add"}, id : {id}, track : Tracks, at : {0, 1}] :
               id \in {i \in Shown : Len(ShownTracks(i)) < MaxLen}}

Rearrangements ==
    UNION {[kind : {"remove"}, id : {id}, at : DOMAIN ShownTracks(id)]
               \cup [kind : {"reorder"}, id : {id}, from : DOMAIN ShownTracks(id),
                     to : DOMAIN ShownTracks(id)] : id \in Shown}

Edits ==
    {op \in
        [kind : {"create"}, id : {l \in Locals : locals[l] = "fresh"}, name : Names]
        \cup [kind : {"rename"}, id : Shown, name : Names]
        \cup [kind : {"delete"}, id : Shown]
        \cup Additions \cup Rearrangements
     : op.kind \in Kinds}

AfterStart(op) == IF op.kind \in TrackKinds THEN "read" ELSE "write"

StartEdit(c) ==
    /\ call[c].pc = "idle"
    /\ "overlap" \in Kinds \/ sync.pc = "idle"
    /\ edits < MaxEdits
    /\ edits' = edits + 1

Hide(op) == IF op.kind = "delete" /\ op.id \in Locals
            THEN [locals EXCEPT ![op.id] = "gone"] ELSE locals

\* An edit of a placeholder goes offline at once.
EditLocal(c, op) ==
    /\ StartEdit(c)
    /\ op.kind # "create" /\ op.id \in Locals
    /\ locals' = Hide(op)
    /\ call' = [call EXCEPT ![c].pc = AfterStart(op), ![c].op = op, ![c].queue = TRUE]
    /\ UNCHANGED <<serverVars, cache, stamp, queueVars, sync, histVars>>

\* Every other edit is tried on the server first; a refusal is the user's.
EditOnline(c, op, id, o) ==
    /\ StartEdit(c)
    /\ op.kind = "create" \/ op.id \in Remotes
    /\ "online" \in Kinds \/ o = "unreached"
    /\ CallServer(op, id, o)
    /\ \/ /\ Answer(o) = "ok"
          /\ call' = [call EXCEPT ![c].pc = AfterStart(op), ![c].op = [op EXCEPT !.id = id]]
          /\ UNCHANGED locals
       \/ /\ Answer(o) = "transport"
          /\ call' = [call EXCEPT ![c].pc = AfterStart(op), ![c].op = op, ![c].queue = TRUE]
          /\ locals' = IF op.kind = "create" THEN [locals EXCEPT ![op.id] = "shown"] ELSE locals
       \/ /\ Answer(o) = "refused"
          /\ UNCHANGED <<call, locals>>
    /\ UNCHANGED <<cache, stamp, queueVars, sync, histVars>>

EditRead(c) ==
    /\ call[c].pc = "read"
    /\ call' = [call EXCEPT ![c].pc = "write", ![c].rows = ShownTracks(call[c].op.id)]
    /\ UNCHANGED <<serverVars, cacheVars, stamp, queueVars, sync, edits, histVars>>

\* After its change of the cache a queued edit enqueues its op, but deleting a
\* placeholder deletes the ops that name it instead.
AfterWrite(r) ==
    IF ~r.queue THEN "idle"
    ELSE IF r.op.kind = "delete" /\ r.op.id \in Locals THEN "discard"
    ELSE "enqueue"

Proceed(c, l) ==
    call' = [call EXCEPT ![c] = IF l = "idle" THEN IdleCall
                                ELSE [@ EXCEPT !.pc = l, !.rows = <<>>]]

EditWrite(c) ==
    LET r == call[c]  op == call[c].op IN
    /\ r.pc = "write"
    /\ \/ /\ op.kind \in {"create", "rename"}
          /\ cache' = Upserted(op.id, op.name)
          /\ Proceed(c, AfterWrite(r))
       \/ /\ op.kind = "delete"
          /\ cache' = [cache EXCEPT ![op.id] = None]
          /\ Proceed(c, AfterWrite(r))
       \/ /\ op.kind \in TrackKinds /\ ~Writes(op, r.rows)
          /\ Proceed(c, AfterWrite(r))
          /\ UNCHANGED cache
       \/ LET rows == OptimisticEdit(op, r.rows) IN
          /\ op.kind \in TrackKinds /\ Writes(op, r.rows)
          /\ IF CanReplace(op.id, rows)
             THEN /\ cache' = Replaced(op.id, rows)
                  /\ Proceed(c, AfterWrite(r))
             ELSE /\ EndCall(c)
                  /\ UNCHANGED cache
    /\ UNCHANGED <<serverVars, locals, stamp, queueVars, sync, edits, histVars>>

EditEnqueue(c) ==
    /\ call[c].pc = "enqueue"
    /\ outbox' = [outbox EXCEPT ![next] = call[c].op]
    /\ next' = next + 1
    /\ EndCall(c)
    /\ UNCHANGED <<serverVars, cacheVars, stamp, sync, edits, histVars>>

\* delete_offline_local: list the outbox, then delete row by row.
DiscardList(c) ==
    LET id == call[c].op.id IN
    /\ call[c].pc = "discard"
    /\ call' = [call EXCEPT ![c].pc = "discarding",
                  ![c].todo = {r \in Rows : outbox[r] # None /\ References(outbox[r], id)}]
    /\ UNCHANGED <<serverVars, cacheVars, stamp, queueVars, sync, edits, histVars>>

DiscardOp(c) ==
    /\ call[c].pc = "discarding"
    /\ \/ /\ call[c].todo = {}
          /\ EndCall(c)
          /\ UNCHANGED <<outbox, fate>>
       \/ \E r \in call[c].todo :
          /\ \A q \in call[c].todo : r <= q
          /\ outbox' = [outbox EXCEPT ![r] = None]
          /\ fate' = [fate EXCEPT ![r] = @ \cup {"discarded"}]
          /\ call' = [call EXCEPT ![c].todo = @ \ {r}]
    /\ UNCHANGED <<serverVars, cacheVars, stamp, next, sync, edits, applied>>

\* get_playlist mirrors the server's view: the row, then its entries.
Open(c, id) ==
    /\ "open" \in Kinds
    /\ call[c].pc = "idle"
    /\ srv[id] # None
    /\ call' = [call EXCEPT ![c].pc = "mirrorRow", ![c].todo = {id}, ![c].view = srv[id]]
    /\ UNCHANGED <<serverVars, cacheVars, stamp, queueVars, sync, edits, histVars>>

MirrorRow(c) ==
    /\ call[c].pc = "mirrorRow"
    /\ \E id \in call[c].todo : cache' = Upserted(id, call[c].view.name)
    /\ call' = [call EXCEPT ![c].pc = "mirrorTracks"]
    /\ UNCHANGED <<serverVars, locals, stamp, queueVars, sync, edits, histVars>>

MirrorTracks(c) ==
    /\ call[c].pc = "mirrorTracks"
    /\ \E id \in call[c].todo :
          IF CanReplace(id, call[c].view.tracks)
          THEN cache' = Replaced(id, call[c].view.tracks)
          ELSE UNCHANGED cache
    /\ EndCall(c)
    /\ UNCHANGED <<serverVars, locals, stamp, queueVars, sync, edits, histVars>>

\* list_my_playlists mirrors the rows of the server's list one by one.
ListMine(c) ==
    /\ "list" \in Kinds
    /\ call[c].pc = "idle"
    /\ call' = [call EXCEPT ![c].pc = "listed", ![c].view = srv,
                            ![c].todo = {id \in Remotes : srv[id] # None}]
    /\ UNCHANGED <<serverVars, cacheVars, stamp, queueVars, sync, edits, histVars>>

ListMirror(c) ==
    /\ call[c].pc = "listed"
    /\ \/ /\ call[c].todo = {}
          /\ EndCall(c)
          /\ UNCHANGED cache
       \/ \E id \in call[c].todo :
          /\ cache' = Upserted(id, call[c].view[id].name)
          /\ call' = [call EXCEPT ![c].todo = @ \ {id}]
    /\ UNCHANGED <<serverVars, locals, stamp, queueVars, sync, edits, histVars>>

-----------------------------------------------------------------------------
(* The sync engine, push: replay a snapshot of the outbox in order.        *)

Empty == [r \in Rows |-> None]
Queued(table) == {r \in Rows : table[r] # None}

IdleSync == [pc |-> "idle", todo |-> Empty, row |-> 0, made |-> None,
             remap |-> {}, pull |-> {}, id |-> None, view |-> None]

EndSync == sync' = IdleSync

SyncStart ==
    /\ sync.pc = "idle"
    /\ "overlap" \in Kinds \/ \A c \in Calls : call[c].pc = "idle"
    /\ sync' = [IdleSync EXCEPT !.pc = "push", !.todo = outbox]
    /\ UNCHANGED <<serverVars, cacheVars, stamp, queueVars, call, edits, histVars>>

\* Mutant: the outbox is listed without ORDER BY id.
FirstAny(r) == r \in Queued(sync.todo)

\* The next op of the snapshot, and whether it names a placeholder nobody has
\* resolved in it (guard_resolved).
First(r) == r \in Queued(sync.todo) /\ \A q \in Queued(sync.todo) : r <= q
Unresolved(op) == op.kind # "create" /\ op.id \in Locals

\* Mutant: a transport error drops the op as a refusal does.
AfterCallDropped(op, o) ==
    IF Answer(o) = "ok" /\ op.kind = "create" THEN "remapList" ELSE "delete"

AfterCall(op, o) ==
    CASE Answer(o) = "ok" -> IF op.kind = "create" THEN "remapList" ELSE "delete"
      [] Answer(o) = "refused" -> "delete"
      [] OTHER -> "failed"

PushCall(r, id, o) ==
    LET op == sync.todo[r] IN
    /\ sync.pc = "push" /\ First(r)
    /\ ~Unresolved(op)
    /\ CallServer(op, id, o)
    /\ sync' = [sync EXCEPT !.pc = AfterCall(op, o), !.row = r, !.made = id]
    /\ applied' = [applied EXCEPT ![r] = Least(2, @ + Times(o))]
    /\ fate' = [fate EXCEPT ![r] = @ \cup (CASE Answer(o) = "ok" -> {"answered"}
                                            [] Answer(o) = "refused" -> {"refused"}
                                            [] OTHER -> {})]
    /\ UNCHANGED <<cacheVars, stamp, queueVars, call, edits>>

\* Mutant: an op that names an unresolved placeholder waits for its create.
PushUnresolvedWaits(r) ==
    /\ sync.pc = "push" /\ First(r)
    /\ Unresolved(sync.todo[r])
    /\ sync' = [sync EXCEPT !.pc = "failed"]
    /\ UNCHANGED <<serverVars, cacheVars, stamp, queueVars, call, edits, histVars>>

PushUnresolved(r) ==
    /\ sync.pc = "push" /\ First(r)
    /\ Unresolved(sync.todo[r])
    /\ sync' = [sync EXCEPT !.pc = "delete", !.row = r]
    /\ fate' = [fate EXCEPT ![r] = @ \cup {"unresolved"}]
    /\ UNCHANGED <<serverVars, cacheVars, stamp, queueVars, call, edits, applied>>

\* remap_local_id: list the queued ops, rewrite those that name the old id one
\* by one, then move the cache rows in one transaction.
OldId == sync.todo[sync.row].id

RemapList ==
    /\ sync.pc = "remapList"
    /\ sync' = [sync EXCEPT !.pc = "remap",
                  !.remap = {r \in Queued(outbox) : References(outbox[r], OldId)}]
    /\ UNCHANGED <<serverVars, cacheVars, stamp, queueVars, call, edits, histVars>>

RemapOp ==
    /\ sync.pc = "remap"
    /\ \/ /\ sync.remap = {}
          /\ sync' = [sync EXCEPT !.pc = "remapCache"]
          /\ UNCHANGED outbox
       \/ \E r \in sync.remap :
          /\ \A q \in sync.remap : r <= q
          /\ outbox' = [outbox EXCEPT ![r] = IF @ = None THEN None
                                             ELSE [@ EXCEPT !.id = sync.made]]
          /\ sync' = [sync EXCEPT !.remap = @ \ {r}]
    /\ UNCHANGED <<serverVars, cacheVars, stamp, next, call, edits, histVars>>

\* The insert of the new row fails when a list has mirrored it already.
RemapCache ==
    /\ sync.pc = "remapCache"
    /\ \/ /\ cache[OldId] = None
          /\ sync' = [sync EXCEPT !.pc = "delete"]
          /\ UNCHANGED cache
       \/ /\ cache[OldId] # None /\ cache[sync.made] = None
          /\ cache' = [cache EXCEPT ![sync.made] = cache[OldId], ![OldId] = None]
          /\ sync' = [sync EXCEPT !.pc = "delete"]
       \/ /\ cache[OldId] # None /\ cache[sync.made] # None
          /\ EndSync
          /\ UNCHANGED cache
    /\ UNCHANGED <<serverVars, locals, stamp, queueVars, call, edits, histVars>>

\* Mutant: an op that went through stays in the outbox.
PushDeleteKept ==
    /\ sync.pc = "delete"
    /\ sync' = [sync EXCEPT !.pc = "push", !.todo[sync.row] = None, !.row = 0, !.made = None]
    /\ UNCHANGED <<serverVars, cacheVars, stamp, queueVars, call, edits, histVars>>

\* The op was executed, refused or unresolved: its row goes.
PushDelete ==
    /\ sync.pc = "delete"
    /\ outbox' = [outbox EXCEPT ![sync.row] = None]
    /\ sync' = [sync EXCEPT !.pc = "push", !.todo[sync.row] = None, !.row = 0, !.made = None]
    /\ UNCHANGED <<serverVars, cacheVars, stamp, next, call, edits, histVars>>

\* A transport error, or the end of the snapshot, ends the push; the pull is
\* tried in both cases, and fails if there is still no connection.
PushEnd ==
    /\ \/ sync.pc = "push" /\ Queued(sync.todo) = {}
       \/ sync.pc = "failed" /\ "overlap" \in Kinds
    /\ sync' = [IdleSync EXCEPT !.pc = "list"]
    /\ UNCHANGED <<serverVars, cacheVars, stamp, queueVars, call, edits, histVars>>

-----------------------------------------------------------------------------
(* The sync engine, pull: reconcile every cached playlist the server knows.*)

PullList ==
    /\ sync.pc = "list"
    /\ sync' = [sync EXCEPT !.pc = "pull", !.pull = {id \in Remotes : cache[id] # None}]
    /\ UNCHANGED <<serverVars, cacheVars, stamp, queueVars, call, edits, histVars>>

\* Mutant: a playlist that was never stamped counts as unchanged.
ChangedStamped(id, view) == stamp[id] # None /\ stamp[id] # view

Changed(id, view) == stamp[id] # view

PullGet(id) ==
    /\ sync.pc = "pull" /\ id \in sync.pull
    /\ sync' = IF srv[id] = None
               THEN [sync EXCEPT !.pc = "forget", !.id = id, !.pull = @ \ {id}]
               ELSE IF Changed(id, srv[id])
               THEN [sync EXCEPT !.pc = "row", !.id = id, !.view = srv[id], !.pull = @ \ {id}]
               ELSE [sync EXCEPT !.pull = @ \ {id}]
    /\ UNCHANGED <<serverVars, cacheVars, stamp, queueVars, call, edits, histVars>>

PullRow ==
    /\ sync.pc = "row"
    /\ cache' = Upserted(sync.id, sync.view.name)
    /\ sync' = [sync EXCEPT !.pc = "tracks"]
    /\ UNCHANGED <<serverVars, locals, stamp, queueVars, call, edits, histVars>>

\* The row may have been deleted since; then the sync fails.
PullTracks ==
    /\ sync.pc = "tracks"
    /\ IF CanReplace(sync.id, sync.view.tracks)
       THEN /\ cache' = Replaced(sync.id, sync.view.tracks)
            /\ sync' = [sync EXCEPT !.pc = "stamp"]
       ELSE /\ EndSync
            /\ UNCHANGED cache
    /\ UNCHANGED <<serverVars, locals, stamp, queueVars, call, edits, histVars>>

PullStamp ==
    /\ sync.pc = "stamp"
    /\ stamp' = [stamp EXCEPT ![sync.id] = sync.view]
    /\ sync' = [sync EXCEPT !.pc = "pull", !.id = None, !.view = None]
    /\ UNCHANGED <<serverVars, cacheVars, queueVars, call, edits, histVars>>

\* The server no longer has it: prune the row, then its stamp, which nothing
\* else reads, as ids are never reused.
PullForget ==
    /\ sync.pc = "forget"
    /\ cache' = [cache EXCEPT ![sync.id] = None]
    /\ stamp' = [stamp EXCEPT ![sync.id] = None]
    /\ sync' = [sync EXCEPT !.pc = "pull", !.id = None]
    /\ UNCHANGED <<serverVars, locals, queueVars, call, edits, histVars>>

PullEnd ==
    /\ sync.pc = "pull" /\ sync.pull = {}
    /\ EndSync
    /\ UNCHANGED <<serverVars, cacheVars, stamp, queueVars, call, edits, histVars>>

\* A read of the pull does not reach the server: the sync ends with an error.
\* Artists, albums and tracks are pulled before the playlists.
PullFails ==
    /\ "down" \in Faults
    /\ sync.pc \in {"list", "pull"} \/ (sync.pc = "failed" /\ "overlap" \notin Kinds)
    /\ EndSync
    /\ UNCHANGED <<serverVars, cacheVars, stamp, queueVars, call, edits, histVars>>

-----------------------------------------------------------------------------
(* The environment                                                         *)

\* The app is killed: what is not in SQLite is gone.
Crash ==
    /\ Fault("crash")
    /\ EndSync
    /\ call' = [c \in Calls |-> IdleCall]
    /\ UNCHANGED <<srv, born, cacheVars, stamp, queueVars, edits, histVars>>

\* Another device of the account edits a playlist.
Foreign(id) ==
    /\ Fault("foreign")
    /\ srv[id] # None
    /\ \E op \in [kind : {"rename"}, id : {id}, name : Names] \cup [kind : {"delete"}, id : {id}]
                   \cup [kind : {"remove"}, id : {id}, at : {1}] :
          srv' = [srv EXCEPT ![id] = ServerEdit(op, @)]
    /\ UNCHANGED <<born, cacheVars, stamp, queueVars, sync, call, edits, histVars>>

-----------------------------------------------------------------------------
Init ==
    /\ srv \in {s \in [Remotes -> [name : Names, tracks : BoundedSeq(Tracks, MaxLen)] \cup {None}] :
                 \A id \in Remotes : s[id] # None <=> id \in Saved}
    /\ born = Saved
    /\ cache = [id \in Ids |-> IF id \in Saved THEN srv[id] ELSE None]
    /\ stamp = [id \in Remotes |-> srv[id]]
    /\ outbox = Empty
    /\ next = 1
    /\ locals = [l \in Locals |-> "fresh"]
    /\ sync = IdleSync
    /\ call = [c \in Calls |-> IdleCall]
    /\ edits = 0
    /\ faults = 0
    /\ applied = [r \in Rows |-> 0]
    /\ fate = [r \in Rows |-> {}]

StartCall(c) ==
    \/ \E op \in Edits :
        \/ EditLocal(c, op)
        \/ \E id \in Targets(op), o \in Outcomes : EditOnline(c, op, id, o)
    \/ \E id \in Remotes : Open(c, id)
    \/ ListMine(c)

CallStep(c) ==
    \/ EditRead(c) \/ EditWrite(c) \/ EditEnqueue(c) \/ DiscardList(c) \/ DiscardOp(c)
    \/ MirrorRow(c) \/ MirrorTracks(c) \/ ListMirror(c)

Push(r, o) == \E id \in Targets(sync.todo[r]) : PushCall(r, id, o)

\* Steps of the engine that need no answer of the server.
SyncStep ==
    \/ SyncStart \/ RemapList \/ RemapOp \/ RemapCache \/ PushDelete \/ PushEnd
    \/ \E r \in Rows : PushUnresolved(r)
    \/ PullList \/ PullRow \/ PullTracks \/ PullStamp \/ PullForget \/ PullEnd

Next ==
    \/ \E c \in Calls : StartCall(c) \/ CallStep(c)
    \/ SyncStep
    \/ \E r \in Queued(sync.todo), o \in Outcomes : Push(r, o)
    \/ \E id \in Remotes : PullGet(id) \/ Foreign(id)
    \/ PullFails
    \/ Crash

Spec == Init /\ [][Next]_vars

\* The scheduler starts a sync every 30 s and each one runs on; a call of the
\* user runs on.  Of the network it is assumed that a request which is tried
\* again and again gets an answer at some time.
PushAnswered == \E r \in Queued(sync.todo), o \in {"ok", "refused"} : Push(r, o)
Fairness ==
    /\ WF_vars(SyncStep)
    /\ \A c \in Calls : WF_vars(CallStep(c))
    /\ SF_vars(PushAnswered)
    /\ SF_vars(PullList)
    /\ WF_vars(PullFails /\ sync.pc = "failed")
    /\ \A id \in Remotes : SF_vars(PullGet(id))

FairSpec == Spec /\ Fairness

-----------------------------------------------------------------------------
(* Properties                                                              *)

TypeOK ==
    /\ srv \in [Remotes -> Playlists \cup {None}]
    /\ born \subseteq Remotes
    /\ cache \in [Ids -> Playlists \cup {None}]
    /\ stamp \in [Remotes -> Playlists \cup {None}]
    /\ outbox \in [Rows -> Ops \cup {None}]
    /\ next \in 1..(MaxEdits + 1)
    /\ locals \in [Locals -> {"fresh", "shown", "gone"}]
    /\ edits \in 0..MaxEdits
    /\ faults \in 0..MaxFaults
    /\ applied \in [Rows -> 0..2]
    /\ fate \in [Rows -> SUBSET Fates]

\* No queued edit disappears on its own: a row that has left the outbox was
\* executed, refused, found unresolved, or deleted with its placeholder,
\* whatever crashes and transport errors interrupt the push (push_outbox).
EditsAccountedFor ==
    \A r \in Rows : r < next /\ outbox[r] = None => fate[r] # {}

\* The replay is first in, first out: when the server has executed an op, no
\* older one is queued any more (push_outbox).
AppliedInOrder ==
    \A r, q \in Rows : applied[r] > 0 /\ q < r => outbox[q] = None

\* When no answer is lost, no op is executed twice however often the push is
\* interrupted and started again.
AppliedOnce == \A r \in Rows : applied[r] <= 1

\* "Rewrites any later queued ops" (sync/ops.rs): no edit of the user is dropped
\* unless the server refused it or the user deleted the playlist.
NoEditLost ==
    \A r \in Rows : r < next /\ outbox[r] = None => fate[r] # {"unresolved"}

\* Every queued edit leaves the outbox (sync_now).
Drained == \A r \in Rows : outbox[r] # None ~> outbox[r] = None

\* What the cache shows for a saved playlist is what the server has, changed by
\* the queued edits in their order: the optimistic edits of the cache and the
\* edits of the server agree (optimistic_add, _remove, _reorder).
Edited(op, id, p) == IF op # None /\ op.id = id THEN ServerEdit(op, p) ELSE p

Replay(id) ==
    LET upto[r \in 0..MaxEdits] ==
            IF r = 0 THEN srv[id] ELSE Edited(outbox[r], id, upto[r - 1])
    IN  upto[MaxEdits]

CacheAheadByQueue ==
    (\A c \in Calls : call[c].pc = "idle") /\ sync.pc \in {"idle", "push"} =>
        \A id \in Saved : cache[id] = Replay(id)

\* When the user stops editing, the cached playlists come to be the server's
\* and stay so (pull_playlists).
EventuallyConsistent ==
    <>[](\A id \in Remotes : cache[id] # None => cache[id] = srv[id])

=============================================================================
