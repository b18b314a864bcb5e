----------------------------- MODULE Downloads ------------------------------
(***************************************************************************)
(* Downloads for offline use: downloads/manager.rs, which streams a file   *)
(* into `<final>.part`, renames it and writes the cache rows that make it  *)
(* playable; its deletes; and the part of sync/engine.rs that reconciles   *)
(* those rows with the server and prunes what has gone.                    *)
(*                                                                         *)
(* A step is one file-system call, one SQLite statement or one answer of   *)
(* the server.  Every command builds its own DownloadManager, so nothing   *)
(* but the disk and the rows is shared between commands.                   *)
(*                                                                         *)
(* Tracks and episodes take the same path to disk.  Their rows hang under  *)
(* an album or a show, a `parent' here.  Artists, covers and lyrics are    *)
(* left out: an artist is an album of albums, the others are best effort.  *)
(***************************************************************************)
EXTENDS Naturals, Sequences, SequencesExt

CONSTANTS
    Order,       \* the tracks and episodes, as lists name them
    Episodes,    \* which of them are episodes
    Parents, ParentOf,
    Subscribed,  \* the shows the user is subscribed to
    Paths,
    PathOf,      \* final path, made of artist, album and file name
    Jobs,        \* download and delete commands that may run together
    Nothing,     \* no such file
    Size,        \* pieces a file arrives in
    MaxVersion,  \* bound: contents of one item the server ever has
    Commands,    \* commands given in this instance: "one", "all", "delete", "sync"
    Faults,      \* what goes wrong in this instance
    MaxFaults    \* bound: crashes, vanished files and changes on the server

Items == ToSet(Order)

ASSUME SizeAssumption == Size \in Nat \ {0} /\ MaxVersion \in Nat \ {0} /\ MaxFaults \in Nat
ASSUME ShelfAssumption ==
    /\ Order \in Seq(Items) /\ Episodes \subseteq Items /\ Subscribed \subseteq Parents
    /\ ParentOf \in [Items -> Parents] /\ PathOf \in [Items -> Paths]

VARIABLES
    srv,      \* the server's version of an item, 0 when it has none
    srvParents,
    final,    \* content of the final path
    part,     \* content of its .part
    row,      \* tracks, podcast_episodes: the version whose metadata the row has, 0 for no row
    parents,  \* albums, podcasts
    stamp,    \* sync_state.server_etag: the version last pulled, 0 for none
    job, sync,
    wanted,   \* history: items asked for, and not deleted since
    faults

srvVars == <<srv, srvParents>>
diskVars == <<final, part>>
cacheVars == <<row, parents, stamp>>
vars == <<srvVars, diskVars, cacheVars, job, sync, wanted, faults>>

Versions == 0..MaxVersion
Piece == Items \X (1..MaxVersion) \X (1..Size)
Hole == <<>>
Contents == {Nothing} \cup Seq(Piece \cup {Hole})

ASSUME NothingAssumption == Nothing \notin Seq(Piece \cup {Hole})

JobPCs == {"idle", "check", "fetch", "probe", "request", "open", "stream", "rename",
           "shelve", "insert", "restamp", "find", "unlink", "unrow", "unstamp", "count", "clear"}
SyncPCs == {"idle", "album", "sweep", "clear", "item", "merge", "mark", "unlink", "unrow",
            "unstamp", "stat", "prune", "unmark"}

\* `at' is the file an open handle refers to: the inode under .part, under the final
\* path, or under no name; `pos' is the next piece of the body, `append' the mode.
JobStates == [pc : JobPCs, todo : Seq(Items), version : Versions, from : 0..(2 * Size),
              body : Versions, append : BOOLEAN, pos : 0..(2 * Size), at : {"closed", "part", "final", "gone"}]
SyncStates == [pc : SyncPCs, todo : Seq(Items \cup Parents), version : Versions, victims : Seq(Items)]

IdleJob == [pc |-> "idle", todo |-> <<>>, version |-> 0, from |-> 0, body |-> 0,
            append |-> FALSE, pos |-> 0, at |-> "closed"]
IdleSync == [pc |-> "idle", todo |-> <<>>, version |-> 0, victims |-> <<>>]

At(j, l) == job[j].pc = l
Goto(j, l) == job' = [job EXCEPT ![j].pc = l]
Item(j) == Head(job[j].todo)
Path(j) == PathOf[Item(j)]

\* run_batch: whether the item went well or not, on with the next one.
Following(r) == IF Len(r.todo) <= 1 THEN IdleJob ELSE [IdleJob EXCEPT !.pc = "check", !.todo = Tail(r.todo)]
Leave(j) == job' = [job EXCEPT ![j] = Following(@)]

Init ==
    /\ srv = [i \in Items |-> 1] /\ srvParents = Parents
    /\ final = [p \in Paths |-> Nothing] /\ part = [p \in Paths |-> Nothing]
    /\ row = [i \in Items |-> 0] /\ stamp = [i \in Items |-> 0] /\ parents = {}
    /\ job = [j \in Jobs |-> IdleJob] /\ sync = IdleSync
    /\ wanted = {} /\ faults = 0

-----------------------------------------------------------------------------
(* The file system: handles follow their inode when a name is moved or     *)
(* taken away.                                                             *)

Rehandle(p, f) ==
    [j \in Jobs |-> IF job[j].todo # <<>> /\ Path(j) = p THEN [job[j] EXCEPT !.at = f[@]] ELSE job[j]]

Stay == [h \in {"closed", "part", "final", "gone"} |-> h]
AfterRename == [Stay EXCEPT !["part"] = "final", !["final"] = "gone"]

\* A write of one piece: behind the end in append mode, else at the handle's offset.
Written(content, append, pos, piece) ==
    IF append THEN Append(content, piece)
    ELSE [k \in 1..(IF pos > Len(content) THEN pos ELSE Len(content)) |->
            IF k = pos THEN piece ELSE IF k <= Len(content) THEN content[k] ELSE Hole]

Present(i) == final[PathOf[i]] # Nothing

-----------------------------------------------------------------------------
(* Downloading one item, and the batches that do so one after the other.   *)

\* Another command is at work on one of the paths of `todo'.
Overlaps(j, todo) ==
    \E k \in Jobs \ {j} : \E i \in ToSet(job[k].todo), e \in ToSet(todo) : PathOf[i] = PathOf[e]

\* The items of S, as lists name them.
InOrder(S) ==
    LET upto[n \in 0..Len(Order)] ==
          IF n = 0 THEN <<>>
          ELSE IF Order[n] \in S THEN Append(upto[n - 1], Order[n]) ELSE upto[n - 1]
    IN  upto[Len(Order)]

Batch(p) == InOrder({i \in Items : ParentOf[i] = p /\ srv[i] # 0})

Start(j, todo) ==
    /\ At(j, "idle") /\ todo # <<>>
    /\ "twice" \in Faults \/ ~Overlaps(j, todo)
    /\ job' = [job EXCEPT ![j] = [IdleJob EXCEPT !.pc = "check", !.todo = todo]]
    /\ wanted' = wanted \cup ToSet(todo)
    /\ UNCHANGED <<srvVars, diskVars, cacheVars, sync, faults>>

StartOne(j, i) == "one" \in Commands /\ Start(j, <<i>>)
StartAll(j) == "all" \in Commands /\ \E p \in srvParents : Start(j, Batch(p))

\* A row whose file is there makes the download a no-op.
Check(j) ==
    /\ At(j, "check")
    /\ IF row[Item(j)] # 0 /\ Present(Item(j)) THEN Leave(j) ELSE Goto(j, "fetch")
    /\ UNCHANGED <<srvVars, diskVars, cacheVars, sync, wanted, faults>>

Fetch(j) ==
    /\ At(j, "fetch")
    /\ IF srv[Item(j)] = 0 THEN Leave(j)
       ELSE job' = [job EXCEPT ![j].version = srv[Item(j)], ![j].pc = "probe"]
    /\ UNCHANGED <<srvVars, diskVars, cacheVars, sync, wanted, faults>>

Probe(j) ==
    /\ At(j, "probe")
    /\ LET p == part[Path(j)] IN
       job' = [job EXCEPT ![j].from = IF p = Nothing THEN 0 ELSE Len(p), ![j].pc = "request"]
    /\ UNCHANGED <<srvVars, diskVars, cacheVars, sync, wanted, faults>>

\* `bytes=N-` of parse_range: unsatisfiable from the file's end on.
Satisfiable(n) == n < Size

Occurs(f) == f \in Faults /\ faults < MaxFaults /\ faults' = faults + 1

\* Mutant: the file is opened as the request was made, not as it was answered.
AcceptAsAsked(j, append) ==
    job' = [job EXCEPT ![j].pc = "open", ![j].append = job[j].from > 0, ![j].body = srv[Item(j)],
                       ![j].pos = IF append THEN job[j].from + 1 ELSE 1]


Accept(j, append) ==
    job' = [job EXCEPT ![j].pc = "open", ![j].append = append, ![j].body = srv[Item(j)],
                       ![j].pos = IF append THEN job[j].from + 1 ELSE 1]

\* The answer to the request: 404 or 416; 206 from where the partial file ends; or 200 with
\* the whole file, also when an intermediary ignores the range.
Request(j) ==
    LET from == job[j].from
        served == srv[Item(j)] # 0 /\ (from = 0 \/ Satisfiable(from)) IN
    /\ At(j, "request")
    /\ \/ ~served /\ Leave(j) /\ UNCHANGED faults
       \/ served /\ Accept(j, from > 0) /\ UNCHANGED faults
       \/ served /\ from > 0 /\ Occurs("norange") /\ Accept(j, FALSE)
    /\ UNCHANGED <<srvVars, diskVars, cacheVars, sync, wanted>>

\* A stale partial file is removed before the fresh one is created.
Opened(j) ==
    LET p == Path(j)
        unnamed == IF ~job[j].append /\ job[j].from > 0
                   THEN Rehandle(p, [Stay EXCEPT !["part"] = "gone"]) ELSE job IN
    [unnamed EXCEPT ![j].at = "part", ![j].pc = "stream"]

Open(j) ==
    /\ At(j, "open")
    /\ part' = [part EXCEPT ![Path(j)] = IF job[j].append /\ @ # Nothing THEN @ ELSE <<>>]
    /\ job' = Opened(j)
    /\ UNCHANGED <<srvVars, final, cacheVars, sync, wanted, faults>>

Stream(j) ==
    LET r == job[j]
        piece == <<Item(j), r.body, r.pos>>
        put(content) == Written(content, r.append, r.pos, piece) IN
    /\ At(j, "stream") /\ r.pos <= Size
    /\ part' = IF r.at = "part" THEN [part EXCEPT ![Path(j)] = put(@)] ELSE part
    /\ final' = IF r.at = "final" THEN [final EXCEPT ![Path(j)] = put(@)] ELSE final
    /\ job' = [job EXCEPT ![j].pos = @ + 1]
    /\ UNCHANGED <<srvVars, cacheVars, sync, wanted, faults>>

\* Mutant: the file is not renamed when it is complete.
FinishUnrenamed(j) ==
    /\ At(j, "stream") /\ job[j].pos > Size
    /\ job' = [job EXCEPT ![j].pc = "shelve", ![j].at = "closed"]
    /\ UNCHANGED <<srvVars, diskVars, cacheVars, sync, wanted, faults>>


Finish(j) ==
    /\ At(j, "stream") /\ job[j].pos > Size
    /\ job' = [job EXCEPT ![j].pc = "rename", ![j].at = "closed"]
    /\ UNCHANGED <<srvVars, diskVars, cacheVars, sync, wanted, faults>>

Rename(j) ==
    LET p == Path(j) IN
    /\ At(j, "rename")
    /\ IF part[p] = Nothing THEN Leave(j) /\ UNCHANGED diskVars
       ELSE /\ final' = [final EXCEPT ![p] = part[p]]
            /\ part' = [part EXCEPT ![p] = Nothing]
            /\ job' = [Rehandle(p, AfterRename) EXCEPT ![j].pc = "shelve"]
    /\ UNCHANGED <<srvVars, cacheVars, sync, wanted, faults>>

\* Mutant: the album's row is not written before its track's.
ShelveNothing(j) ==
    /\ At(j, "shelve")
    /\ Goto(j, "insert")
    /\ UNCHANGED <<srvVars, diskVars, cacheVars, sync, wanted, faults>>

\* upsert_album, upsert_podcast
Shelve(j) ==
    /\ At(j, "shelve")
    /\ parents' = parents \cup {ParentOf[Item(j)]}
    /\ Goto(j, "insert")
    /\ UNCHANGED <<srvVars, diskVars, row, stamp, sync, wanted, faults>>

\* The constraints of the row's table: its parent is there, its path is nobody else's.
Insertable(i) ==
    /\ ParentOf[i] \in parents
    /\ \A e \in Items \ {i} : row[e] # 0 => PathOf[e] # PathOf[i]

\* upsert_track, upsert_episode
Insert(j) ==
    /\ At(j, "insert")
    /\ IF Insertable(Item(j))
       THEN row' = [row EXCEPT ![Item(j)] = job[j].version] /\ Goto(j, "restamp")
       ELSE Leave(j) /\ UNCHANGED row
    /\ UNCHANGED <<srvVars, diskVars, parents, stamp, sync, wanted, faults>>

\* stamp: an empty hash, for the next sync to replace.
Restamp(j) ==
    /\ At(j, "restamp")
    /\ stamp' = [stamp EXCEPT ![Item(j)] = 0]
    /\ Leave(j)
    /\ UNCHANGED <<srvVars, diskVars, row, parents, sync, wanted, faults>>

\* No connection, or it breaks: the item fails and its partial file stays.
Abort(j) ==
    /\ "down" \in Faults
    /\ job[j].pc \in {"fetch", "request"} \/ (At(j, "stream") /\ job[j].pos <= Size)
    /\ Leave(j)
    /\ UNCHANGED <<srvVars, diskVars, cacheVars, sync, wanted, faults>>

-----------------------------------------------------------------------------
(* delete_track, delete_episode                                            *)

StartDelete(j, i) ==
    /\ At(j, "idle") /\ "delete" \in Commands /\ row[i] # 0
    /\ job' = [job EXCEPT ![j] = [IdleJob EXCEPT !.pc = "unlink", !.todo = <<i>>]]
    /\ wanted' = wanted \ {i}
    /\ UNCHANGED <<srvVars, diskVars, cacheVars, sync, faults>>

Unlinked(p) == final' = [final EXCEPT ![p] = Nothing]

Unlink(j) ==
    /\ At(j, "unlink")
    /\ Unlinked(Path(j))
    /\ job' = [Rehandle(Path(j), [Stay EXCEPT !["final"] = "gone"]) EXCEPT ![j].pc = "unrow"]
    /\ UNCHANGED <<srvVars, part, cacheVars, sync, wanted, faults>>

Unrow(j) ==
    /\ At(j, "unrow")
    /\ row' = [row EXCEPT ![Item(j)] = 0]
    /\ Goto(j, "unstamp")
    /\ UNCHANGED <<srvVars, diskVars, parents, stamp, sync, wanted, faults>>

Unstamp(j) ==
    /\ At(j, "unstamp")
    /\ stamp' = [stamp EXCEPT ![Item(j)] = 0]
    /\ Goto(j, "count")
    /\ UNCHANGED <<srvVars, diskVars, row, parents, sync, wanted, faults>>

Emptied(p) == \A i \in Items : ParentOf[i] = p => row[i] = 0

\* Nothing of the parent is downloaded any more; a subscribed show stays.
Count(j) ==
    LET p == ParentOf[Item(j)] IN
    /\ At(j, "count")
    /\ IF Emptied(p) /\ ~(Item(j) \in Episodes /\ p \in Subscribed)
       THEN Goto(j, "clear") ELSE Leave(j)
    /\ UNCHANGED <<srvVars, diskVars, cacheVars, sync, wanted, faults>>

\* delete_album, delete_podcast: the parent's row, and every row under it.
Cleared(p) ==
    /\ parents' = parents \ {p}
    /\ row' = [i \in Items |-> IF ParentOf[i] = p THEN 0 ELSE row[i]]

Clear(j) ==
    /\ At(j, "clear")
    /\ Cleared(ParentOf[Item(j)])
    /\ Leave(j)
    /\ UNCHANGED <<srvVars, diskVars, stamp, sync, wanted, faults>>

-----------------------------------------------------------------------------
(* The sync's reconciliation: albums, then tracks and episodes, then files.*)

Now(l, todo) == [IdleSync EXCEPT !.pc = l, !.todo = todo]
Downloaded == InOrder({i \in Items : row[i] # 0})
Shows == {ParentOf[e] : e \in Episodes}

\* The list of the next phase is read when the last one has been worked off.
Proceed ==
    LET rest == Tail(sync.todo) IN
    IF sync.pc \in {"album", "clear"}
    THEN Now(IF rest = <<>> THEN "item" ELSE "album", IF rest = <<>> THEN Downloaded ELSE rest)
    ELSE IF sync.pc \in {"stat", "unmark"} THEN (IF rest = <<>> THEN IdleSync ELSE Now("stat", rest))
    ELSE Now(IF rest = <<>> THEN "stat" ELSE "item", IF rest = <<>> THEN Downloaded ELSE rest)

SyncAt(l) == sync.pc = l /\ sync.todo # <<>>
This == Head(sync.todo)

SyncStart ==
    LET albums == SetToSeq(parents \ Shows) IN
    /\ sync.pc = "idle" /\ "sync" \in Commands
    /\ Downloaded # <<>>
    /\ sync' = IF albums = <<>> THEN Now("item", Downloaded) ELSE Now("album", albums)
    /\ UNCHANGED <<srvVars, diskVars, cacheVars, job, wanted, faults>>

\* A list may be empty by the time it is read.
SyncEmpty ==
    /\ sync.pc \in {"item", "stat"} /\ sync.todo = <<>>
    /\ sync' = IF sync.pc = "item" THEN Now("stat", Downloaded) ELSE IdleSync
    /\ UNCHANGED <<srvVars, diskVars, cacheVars, job, wanted, faults>>

\* pull_albums: an album the server lost goes with its files and rows.
PullAlbum ==
    /\ SyncAt("album")
    /\ sync' = IF This \in srvParents THEN Proceed
               ELSE [sync EXCEPT !.pc = "sweep",
                                 !.victims = InOrder({i \in Items : row[i] # 0 /\ ParentOf[i] = This})]
    /\ UNCHANGED <<srvVars, diskVars, cacheVars, job, wanted, faults>>

Sweep ==
    /\ SyncAt("sweep")
    /\ IF sync.victims = <<>> THEN sync' = [sync EXCEPT !.pc = "clear"] /\ UNCHANGED <<final, job, stamp>>
       ELSE LET i == Head(sync.victims) IN
            /\ Unlinked(PathOf[i])
            /\ stamp' = [stamp EXCEPT ![i] = 0]
            /\ job' = Rehandle(PathOf[i], [Stay EXCEPT !["final"] = "gone"])
            /\ sync' = [sync EXCEPT !.victims = Tail(@)]
    /\ UNCHANGED <<srvVars, part, row, parents, wanted, faults>>

ClearAlbum ==
    /\ SyncAt("clear")
    /\ Cleared(This)
    /\ sync' = Proceed
    /\ UNCHANGED <<srvVars, diskVars, stamp, job, wanted, faults>>

Changed(i) == stamp[i] # srv[i]

\* pull_tracks, pull_podcast_episodes: an episode that cannot be fetched is left alone.
PullItem ==
    /\ SyncAt("item")
    /\ sync' = IF srv[This] = 0
               THEN (IF This \in Episodes THEN Proceed ELSE [sync EXCEPT !.pc = "unlink"])
               ELSE IF Changed(This) THEN [sync EXCEPT !.pc = "merge", !.version = srv[This]] ELSE Proceed
    /\ UNCHANGED <<srvVars, diskVars, cacheVars, job, wanted, faults>>

\* An upsert, so a row deleted since the list was read comes back.  A refused one
\* ends the sync.
Merge ==
    /\ SyncAt("merge")
    /\ IF Insertable(This)
       THEN row' = [row EXCEPT ![This] = sync.version] /\ sync' = [sync EXCEPT !.pc = "mark"]
       ELSE sync' = IdleSync /\ UNCHANGED row
    /\ UNCHANGED <<srvVars, diskVars, parents, stamp, job, wanted, faults>>

Mark ==
    /\ SyncAt("mark")
    /\ stamp' = [stamp EXCEPT ![This] = sync.version]
    /\ sync' = Proceed
    /\ UNCHANGED <<srvVars, diskVars, row, parents, job, wanted, faults>>

PullUnlink ==
    /\ SyncAt("unlink")
    /\ Unlinked(PathOf[This])
    /\ job' = Rehandle(PathOf[This], [Stay EXCEPT !["final"] = "gone"])
    /\ sync' = [sync EXCEPT !.pc = "unrow"]
    /\ UNCHANGED <<srvVars, part, cacheVars, wanted, faults>>

\* The row of an item the server lost, or whose file was found missing.
PullUnrow ==
    /\ SyncAt("unrow") \/ SyncAt("prune")
    /\ row' = [row EXCEPT ![This] = 0]
    /\ sync' = [sync EXCEPT !.pc = IF sync.pc = "unrow" THEN "unstamp" ELSE "unmark"]
    /\ UNCHANGED <<srvVars, diskVars, parents, stamp, job, wanted, faults>>

PullUnstamp ==
    /\ SyncAt("unstamp") \/ SyncAt("unmark")
    /\ stamp' = [stamp EXCEPT ![This] = 0]
    /\ sync' = Proceed
    /\ UNCHANGED <<srvVars, diskVars, row, parents, job, wanted, faults>>

\* Mutant: missing files are not pruned.
StatIgnored ==
    /\ SyncAt("stat")
    /\ sync' = Proceed
    /\ UNCHANGED <<srvVars, diskVars, cacheVars, job, wanted, faults>>

\* prune_missing_files, prune_missing_episode_files
Stat ==
    /\ SyncAt("stat")
    /\ sync' = IF Present(This) THEN Proceed ELSE [sync EXCEPT !.pc = "prune"]
    /\ UNCHANGED <<srvVars, diskVars, cacheVars, job, wanted, faults>>

\* No answer: a track or an album ends the sync, an episode is passed over.
PullFails ==
    /\ "down" \in Faults
    /\ SyncAt("album") \/ SyncAt("item")
    /\ sync' = IF This \in Episodes THEN Proceed ELSE IdleSync
    /\ UNCHANGED <<srvVars, diskVars, cacheVars, job, wanted, faults>>

-----------------------------------------------------------------------------
(* What happens around the app.                                            *)

\* The app is killed: partial files and rows stay as they are.
Crash ==
    /\ Occurs("crash")
    /\ job' = [j \in Jobs |-> IdleJob] /\ sync' = IdleSync
    /\ UNCHANGED <<srvVars, diskVars, cacheVars, wanted>>

\* The user, or the system, removes a downloaded file behind the app's back.
Vanish(p) ==
    /\ Occurs("vanish") /\ final[p] # Nothing
    /\ Unlinked(p)
    /\ job' = Rehandle(p, [Stay EXCEPT !["final"] = "gone"])
    /\ UNCHANGED <<srvVars, part, cacheVars, sync, wanted>>

\* The server's file of an item is replaced, or its tags rewritten.
Replace(i) ==
    /\ Occurs("replace") /\ srv[i] \in 1..(MaxVersion - 1)
    /\ srv' = [srv EXCEPT ![i] = @ + 1]
    /\ UNCHANGED <<srvParents, diskVars, cacheVars, job, sync, wanted>>

RemoveItem(i) ==
    /\ Occurs("remove") /\ srv[i] # 0
    /\ srv' = [srv EXCEPT ![i] = 0]
    /\ UNCHANGED <<srvParents, diskVars, cacheVars, job, sync, wanted>>

RemoveParent(p) ==
    /\ Occurs("remove") /\ p \in srvParents
    /\ srvParents' = srvParents \ {p}
    /\ srv' = [i \in Items |-> IF ParentOf[i] = p THEN 0 ELSE srv[i]]
    /\ UNCHANGED <<diskVars, cacheVars, job, sync, wanted>>

-----------------------------------------------------------------------------

Answered(j) == Fetch(j) \/ Request(j) \/ Stream(j)
Local(j) ==
    \/ Check(j) \/ Probe(j) \/ Open(j) \/ Finish(j) \/ Rename(j)
    \/ Shelve(j) \/ Insert(j) \/ Restamp(j)
    \/ Unlink(j) \/ Unrow(j) \/ Unstamp(j) \/ Count(j) \/ Clear(j)
SyncAnswered == PullAlbum \/ PullItem
SyncLocal ==
    \/ SyncEmpty \/ Sweep \/ ClearAlbum \/ Merge \/ Mark
    \/ PullUnlink \/ PullUnrow \/ PullUnstamp \/ Stat

For(j, i) == job[j].todo # <<>> /\ Item(j) = i
SyncFor(x) == sync.todo # <<>> /\ This = x

Next ==
    \/ \E j \in Jobs : Answered(j) \/ Local(j) \/ Abort(j) \/ StartAll(j)
    \/ \E j \in Jobs, i \in Items : StartOne(j, i) \/ StartDelete(j, i)
    \/ SyncStart \/ SyncAnswered \/ SyncLocal \/ PullFails
    \/ Crash
    \/ \E p \in Paths : Vanish(p)
    \/ \E i \in Items : Replace(i) \/ RemoveItem(i)
    \/ \E p \in Parents : RemoveParent(p)

Spec == Init /\ [][Next]_vars

\* The runtime polls every command, the scheduler syncs again and again, and the network
\* answers sooner or later; what the user asked for is asked for until it is there.
Fairness ==
    /\ \A j \in Jobs : WF_vars(Local(j))
    /\ \A i \in Items :
          /\ SF_vars(\E j \in Jobs : For(j, i) /\ Fetch(j))
          /\ SF_vars(\E j \in Jobs : For(j, i) /\ Request(j))
          /\ SF_vars(\E j \in Jobs : For(j, i) /\ Stream(j))
    /\ WF_vars(SyncLocal) /\ WF_vars(SyncStart)
    /\ \A x \in Items \cup Parents : SF_vars(SyncFor(x) /\ SyncAnswered)
    /\ \A i \in Items : SF_vars(\E j \in Jobs : i \in wanted /\ row[i] = 0 /\ StartOne(j, i))

FairSpec == Spec /\ Fairness

-----------------------------------------------------------------------------
(* Properties.                                                             *)

\* The shape of the disk, the rows and the running commands.
TypeOK ==
    /\ srv \in [Items -> Versions] /\ srvParents \subseteq Parents
    /\ \A p \in Paths : \A c \in {final[p], part[p]} :
          c = Nothing \/ (Len(c) <= 2 * Size /\ \A k \in 1..Len(c) : c[k] \in Piece \cup {Hole})
    /\ row \in [Items -> Versions] /\ stamp \in [Items -> Versions] /\ parents \subseteq Parents
    /\ \A j \in Jobs : job[j] \in JobStates
    /\ sync \in SyncStates /\ wanted \subseteq Items /\ faults \in 0..MaxFaults

\* "a half file never looks like a finished download" (paths.rs): what stands under a final
\* path is every piece of one item that belongs there, once and in its place, however
\* often its download was broken off, resumed, or the app killed.
WholeFiles ==
    \A p \in Paths : final[p] # Nothing =>
        /\ Len(final[p]) = Size
        /\ \E i \in Items : PathOf[i] = p /\ \A k \in 1..Size : \E v \in Versions : final[p][k] = <<i, v, k>>

\* A row says its file can be played: while nothing has crashed, a row without its file is
\* one that a delete is between unlinking and removing, whatever downloads beside it.  (A
\* second delete may find the row of the first and unlink what a download has put there.)
RowsHaveFiles ==
    \A i \in Items : faults = 0 /\ row[i] # 0 /\ ~Present(i) => \E j \in Jobs : At(j, "unrow") /\ Item(j) = i

\* A row under which nothing can be played does not stay: its file arrives, or the prune of
\* a sync takes the row away, also when a sync brought a deleted row back.
GhostsGo == \A i \in Items : (row[i] # 0 /\ ~Present(i)) ~> (row[i] = 0 \/ Present(i))

\* A partial file as long as the whole one that nobody is about to rename: every
\* attempt asks for the range behind its end, and is refused.
Overlong(i) ==
    /\ part[PathOf[i]] # Nothing /\ ~Satisfiable(Len(part[PathOf[i]]))
    /\ \A j \in Jobs : job[j].pc \in {"stream", "rename"} => Item(j) # i

\* What the user asks for until it is there comes to be playable offline, unless it is
\* deleted, lost by the server, or its partial file has become overlong.
Completes ==
    \A i \in Items : (i \in wanted) ~> (i \notin wanted \/ srv[i] = 0 \/ (row[i] # 0 /\ Present(i)) \/ Overlong(i))
=============================================================================
