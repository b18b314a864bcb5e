---------------------------- MODULE IngestProofs ----------------------------
(***************************************************************************)
(* Two theorems about Ingest, and so about Library beside it: no song is   *)
(* lost unless it is deleted or replaced or a delete meets it at the path  *)
(* of another, and the catalogue and the disk agree as long as nothing     *)
(* overlaps.                                                               *)
(***************************************************************************)
EXTENDS Ingest, TLAPS

\* What an album's id is when there is none left; no theorem needs to know.
NoId == First({})
Ids == Albums \cup {None, NoId}
Track == [path : Paths, album : Ids]
Pairs == Tracks \X Paths

\* A worker makes files into rows.
Filing == {"album", "create", "place", "find", "album again", "create again", "insert"}
Pcs == Filing \cup {"idle", "settle", "walk", "check", "prune", "remove", "row", "tracks",
                    "reassign", "set", "empty", "list", "move", "repath"}

Job == [pc : Pcs, dirs : SUBSET (Dirs \cup Titles), files : SUBSET (Songs \cup Paths),
        list : SUBSET Pairs, title : Titles \cup {None}, album : Ids, target : Ids,
        path : Paths \cup {NoPath}, row : Tracks \cup {None}]

\* What a worker holds is what its next step takes it for.
Fine(w, j) ==
    /\ j.pc \in Filing \cup {"move", "repath"} => j.title \in Titles
    /\ j.pc \in {"album", "create", "place"} => w # Refresher /\ j.files # {}
    /\ j.pc \in {"find", "album again", "create again", "insert", "repath", "remove"}
         => j.path \in Paths
    /\ j.pc \in {"settle", "find"} => w # Refresher
    /\ j.pc \in Filing \cup {"settle"} /\ w # Refresher
         => j.files \subseteq Songs /\ \A d \in j.dirs : d \in {DirOf[s] : s \in drops}
    /\ j.pc = "settle" => j.dirs # {}
    /\ w = Refresher => j.files \subseteq Paths

ShelfTyped ==
    /\ disk \in [Paths -> Songs \cup {None}]
    /\ rows \in [Tracks -> Track \cup {None}]
    /\ albums \in [Albums -> Titles \cup {None}]
DropsTyped == drops \subseteq Songs /\ queue \in Seq(drops)
JobsTyped == jobs \in [Workers -> Job] /\ \A w \in Workers : Fine(w, jobs[w])
Typed == ShelfTyped /\ DropsTyped /\ JobsTyped

-----------------------------------------------------------------------------
(* Helpers.                                                                *)

LEMMA FirstIn == ASSUME NEW S, S # {} PROVE First(S) \in S
  BY DEF First

LEMMA OneJob ==
  ASSUME JobsTyped, NEW w \in Workers
  PROVE  jobs[w] \in Job /\ Fine(w, jobs[w])
  BY DEF JobsTyped

LEMMA JobChanged ==
  ASSUME JobsTyped, drops \subseteq drops',
         NEW w \in Workers, NEW j \in Job, Fine(w, j), Becomes(w, j)
  PROVE  JobsTyped'
<1>1. jobs' \in [Workers -> Job]
  BY DEF JobsTyped, Becomes
<1>2. ASSUME NEW v \in Workers PROVE Fine(v, jobs[v])'
  <2>1. CASE v = w
    <3>1. jobs'[v] = j
      BY <2>1 DEF JobsTyped, Becomes
    <3> QED
      BY <3>1, <2>1 DEF Fine
  <2>2. CASE v # w
    <3>1. jobs'[v] = jobs[v] /\ Fine(v, jobs[v])
      BY <2>2 DEF JobsTyped, Becomes
    <3> QED
      BY <3>1 DEF Fine
  <2> QED
    BY <2>1, <2>2
<1> QED
  BY <1>1, <1>2 DEF JobsTyped

LEMMA JobsKept ==
  ASSUME JobsTyped, drops \subseteq drops', jobs' = jobs
  PROVE  JobsTyped'
  BY DEF JobsTyped, Fine

\* Every worker is somebody in particular.
LEMMA Roles ==
  /\ Boot \in Workers /\ Uploader \in Workers /\ Refresher \in Workers
  /\ Dirs \subseteq Workers /\ Managers \subseteq Workers
  /\ Refresher \notin Dirs \cup Managers /\ Uploader \notin Dirs \cup Managers
  /\ Boot # Refresher /\ Uploader # Refresher
  BY IngestAssumption

LEMMA IdleJob ==
  ASSUME NEW w
  PROVE  Idle \in Job /\ Fine(w, Idle)
<1>1. Idle \in Job
  BY DEF Idle, Job, Pcs, Ids
<1>2. Fine(w, Idle)
  BY DEF Idle, Fine, Filing
<1> QED
  BY <1>1, <1>2

\* The id of a new album is an id, or the one there is when none is left.
LEMMA FreshAlbumId == FreshAlbum \in Ids
<1>1. CASE NewAlbums = {}
  BY <1>1 DEF FreshAlbum, Ids, NoId
<1>2. CASE NewAlbums # {}
  <2>1. First(NewAlbums) \in NewAlbums
    BY <1>2, FirstIn
  <2> QED
    BY <2>1 DEF FreshAlbum, NewAlbums, Ids
<1> QED
  BY <1>1, <1>2

LEMMA ListedRows ==
  ASSUME ShelfTyped, NEW S, S \subseteq Rows
  PROVE  Listed(S) \subseteq Pairs
  BY DEF Pairs, Listed, Rows, ShelfTyped, Track

-----------------------------------------------------------------------------
(* What every step leaves typed: a worker turns to a job that is fine.     *)

Changes == \E w \in Workers, j \in Job : Fine(w, j) /\ Becomes(w, j)

LEMMA DeleteTrackTyped ==
  ASSUME Typed, NEW m \in Managers, NEW r \in Tracks, DeleteTrack(m, r)
  PROVE  ShelfTyped' /\ Changes
<1> DEFINE j == [Idle EXCEPT !.pc = "remove", !.row = r, !.path = rows[r].path]
<1>1. m \in Workers /\ m # Refresher /\ Idle \in Job
  BY Roles, IdleJob
<1>0. rows[r].path \in Paths
  BY DEF DeleteTrack, Typed, ShelfTyped, Track
<1>2. j \in Job
  BY <1>1, <1>0 DEF Idle, Job, Pcs, Ids
<1>3. Fine(m, j)
  BY <1>1, <1>0 DEF Idle, Fine, Filing
<1>4. Becomes(m, j) /\ UNCHANGED <<disk, rows, albums>>
  BY DEF DeleteTrack, Request
<1> HIDE DEF j
<1>5. Changes
  BY <1>1, <1>2, <1>3, <1>4 DEF Changes
<1> QED
  BY <1>4, <1>5 DEF Typed, ShelfTyped

LEMMA DeleteAlbumTyped ==
  ASSUME Typed, NEW m \in Managers, NEW a \in Albums, DeleteAlbum(m, a)
  PROVE  ShelfTyped' /\ Changes
<1> DEFINE j == [Idle EXCEPT !.pc = "tracks", !.album = a, !.list = Listed(RowsOf(a))]
<1>1. m \in Workers /\ m # Refresher /\ Idle \in Job
  BY Roles, IdleJob
<1>0. Listed(RowsOf(a)) \subseteq Pairs
  BY ListedRows DEF RowsOf, Typed
<1>2. j \in Job
  BY <1>1, <1>0 DEF Idle, Job, Pcs, Ids
<1>3. Fine(m, j)
  BY <1>1, <1>0 DEF Idle, Fine, Filing
<1>4. Becomes(m, j) /\ UNCHANGED <<disk, rows, albums>>
  BY DEF DeleteAlbum, Request
<1> HIDE DEF j
<1>5. Changes
  BY <1>1, <1>2, <1>3, <1>4 DEF Changes
<1> QED
  BY <1>4, <1>5 DEF Typed, ShelfTyped

LEMMA MergeAlbumsTyped ==
  ASSUME Typed, NEW m \in Managers, NEW a \in Albums, NEW b \in Albums, MergeAlbums(m, a, b)
  PROVE  ShelfTyped' /\ Changes
<1> DEFINE j == [Idle EXCEPT !.pc = "reassign", !.album = b, !.target = a]
<1>1. m \in Workers /\ m # Refresher /\ Idle \in Job
  BY Roles, IdleJob
<1>2. j \in Job
  BY <1>1 DEF Idle, Job, Pcs, Ids
<1>3. Fine(m, j)
  BY <1>1 DEF Idle, Fine, Filing
<1>4. Becomes(m, j) /\ UNCHANGED <<disk, rows, albums>>
  BY DEF MergeAlbums, Request
<1> HIDE DEF j
<1>5. Changes
  BY <1>1, <1>2, <1>3, <1>4 DEF Changes
<1> QED
  BY <1>4, <1>5 DEF Typed, ShelfTyped

LEMMA MoveTrackTyped ==
  ASSUME Typed, NEW m \in Managers, NEW r \in Tracks, NEW a \in Albums, MoveTrack(m, r, a)
  PROVE  ShelfTyped' /\ Changes
<1> DEFINE j == [Idle EXCEPT !.pc = "set", !.row = r, !.album = rows[r].album, !.target = a]
<1>1. m \in Workers /\ m # Refresher /\ Idle \in Job
  BY Roles, IdleJob
<1>0. rows[r].album \in Ids
  BY DEF MoveTrack, Typed, ShelfTyped, Track
<1>2. j \in Job
  BY <1>1, <1>0 DEF Idle, Job, Pcs, Ids
<1>3. Fine(m, j)
  BY <1>1, <1>0 DEF Idle, Fine, Filing
<1>4. Becomes(m, j) /\ UNCHANGED <<disk, rows, albums>>
  BY DEF MoveTrack, Request
<1> HIDE DEF j
<1>5. Changes
  BY <1>1, <1>2, <1>3, <1>4 DEF Changes
<1> QED
  BY <1>4, <1>5 DEF Typed, ShelfTyped

LEMMA RenameAlbumFolderTyped ==
  ASSUME Typed, NEW m \in Managers, NEW a \in Albums, NEW f \in Titles, RenameAlbumFolder(m, a, f)
  PROVE  ShelfTyped' /\ Changes
<1> DEFINE j == [Idle EXCEPT !.pc = "move", !.album = a, !.title = f,
                       !.list = Listed(RowsOf(a))]
<1>1. m \in Workers /\ m # Refresher /\ Idle \in Job
  BY Roles, IdleJob
<1>0. Listed(RowsOf(a)) \subseteq Pairs
  BY ListedRows DEF RowsOf, Typed
<1>2. j \in Job
  BY <1>1, <1>0 DEF Idle, Job, Pcs, Ids
<1>3. Fine(m, j)
  BY <1>1, <1>0 DEF Idle, Fine, Filing
<1>4. Becomes(m, j) /\ UNCHANGED <<disk, rows, albums>>
  BY DEF RenameAlbumFolder, Request
<1> HIDE DEF j
<1>5. Changes
  BY <1>1, <1>2, <1>3, <1>4 DEF Changes
<1> QED
  BY <1>4, <1>5 DEF Typed, ShelfTyped

LEMMA NextTrackTyped ==
  ASSUME Typed, NEW m \in Managers, NextTrack(m)
  PROVE  ShelfTyped' /\ Changes
<1>1. PICK j : j = jobs[m]
  OBVIOUS
<1>2. m \in Workers /\ j \in Job /\ Fine(m, j)
  BY <1>1, OneJob, Roles DEF Typed
<1>0. Idle \in Job /\ Fine(m, Idle)
  BY IdleJob
<1>x. PICK x : x = First(j.list)
  OBVIOUS
<1>3. j.pc = "tracks" /\ j.list # {}
  BY <1>1, <1>2, <1>x DEF NextTrack
<1>4. x \in j.list
  BY <1>1, <1>2, <1>x, <1>3, FirstIn
<1>5. x[1] \in Tracks /\ x[2] \in Paths
  BY <1>1, <1>2, <1>x, <1>3, <1>4 DEF Job, Pairs
<1>6. j.list \ {x} \in SUBSET Pairs
  BY <1>1, <1>2, <1>x, <1>3, <1>4, <1>5 DEF Job
<1>7. rows[x[1]] # None => rows[x[1]].path \in Paths
  BY <1>1, <1>2, <1>x, <1>3, <1>4, <1>5, <1>6 DEF Typed, ShelfTyped, Track
<1>8. ASSUME rows[x[1]] = None PROVE Changes
  <2>1. [j EXCEPT !.list = @ \ {x}] \in Job
    BY <1>2, <1>3, <1>4, <1>5, <1>6, <1>7 DEF Job, Pcs, Filing, Ids, Idle
  <2>2. Fine(m, [j EXCEPT !.list = @ \ {x}])
    BY <1>2, <1>3, <1>4, <1>5, <1>6, <1>7 DEF Job, Fine, Filing, Idle
  <2>3. Becomes(m, [j EXCEPT !.list = @ \ {x}])
    BY <1>1, <1>2, <1>x, <1>3, <1>4, <1>5, <1>6, <1>7, <1>8 DEF NextTrack, Goes
  <2> QED
    BY <1>2, <2>1, <2>2, <2>3 DEF Changes
<1>9. ASSUME rows[x[1]] # None PROVE Changes
  <2>1. [j EXCEPT !.list = @ \ {x}, !.pc = "remove", !.row = x[1], !.path = rows[x[1]].path] \in Job
    BY <1>2, <1>3, <1>4, <1>5, <1>6, <1>7, <1>9 DEF Job, Pcs, Filing, Ids, Idle
  <2>2. Fine(m, [j EXCEPT !.list = @ \ {x}, !.pc = "remove", !.row = x[1], !.path = rows[x[1]].path])
    BY <1>2, <1>3, <1>4, <1>5, <1>6, <1>7, <1>9 DEF Job, Fine, Filing, Idle
  <2>3. Becomes(m, [j EXCEPT !.list = @ \ {x}, !.pc = "remove", !.row = x[1], !.path = rows[x[1]].path])
    BY <1>1, <1>2, <1>x, <1>3, <1>4, <1>5, <1>6, <1>7, <1>9 DEF NextTrack, Goes
  <2> QED
    BY <1>2, <2>1, <2>2, <2>3 DEF Changes
<1>10. ShelfTyped'
  BY DEF NextTrack, Typed, ShelfTyped
<1> QED
  BY <1>8, <1>9, <1>10

LEMMA RemoveFileTyped ==
  ASSUME Typed, NEW m \in Managers, RemoveFile(m)
  PROVE  ShelfTyped' /\ Changes
<1>1. PICK j : j = jobs[m]
  OBVIOUS
<1>2. m \in Workers /\ j \in Job /\ Fine(m, j)
  BY <1>1, OneJob, Roles DEF Typed
<1>0. Idle \in Job /\ Fine(m, Idle)
  BY IdleJob
<1>3. j.pc = "remove"
  BY <1>1, <1>2 DEF RemoveFile
<1>4. Changes
  <2>1. [j EXCEPT !.pc = "row"] \in Job
    BY <1>2, <1>3 DEF Job, Pcs, Filing, Ids, Idle
  <2>2. Fine(m, [j EXCEPT !.pc = "row"])
    BY <1>2, <1>3 DEF Job, Fine, Filing, Idle
  <2>3. Becomes(m, [j EXCEPT !.pc = "row"])
    BY <1>1, <1>2, <1>3 DEF RemoveFile, Goes
  <2> QED
    BY <1>2, <2>1, <2>2, <2>3 DEF Changes
<1>5. ShelfTyped'
  BY DEF RemoveFile, Typed, ShelfTyped
<1> QED
  BY <1>4, <1>5

LEMMA DeleteRowTyped ==
  ASSUME Typed, NEW m \in Managers, DeleteRow(m)
  PROVE  ShelfTyped' /\ Changes
<1>1. PICK j : j = jobs[m]
  OBVIOUS
<1>2. m \in Workers /\ j \in Job /\ Fine(m, j)
  BY <1>1, OneJob, Roles DEF Typed
<1>0. Idle \in Job /\ Fine(m, Idle)
  BY IdleJob
<1>3. j.pc = "row"
  BY <1>1, <1>2 DEF DeleteRow
<1>4. ASSUME j.album = None PROVE Changes
  BY <1>0, <1>1, <1>2, <1>3, <1>4 DEF DeleteRow, Changes, Goes
<1>5. ASSUME j.album # None PROVE Changes
  <2>1. [j EXCEPT !.pc = "tracks", !.row = None, !.path = NoPath] \in Job
    BY <1>2, <1>3 DEF Job, Pcs, Filing, Ids, Idle
  <2>2. Fine(m, [j EXCEPT !.pc = "tracks", !.row = None, !.path = NoPath])
    BY <1>2, <1>3 DEF Job, Fine, Filing, Idle
  <2>3. Becomes(m, [j EXCEPT !.pc = "tracks", !.row = None, !.path = NoPath])
    BY <1>1, <1>2, <1>3, <1>5 DEF DeleteRow, Goes
  <2> QED
    BY <1>2, <2>1, <2>2, <2>3 DEF Changes
<1>6. ShelfTyped'
  BY DEF DeleteRow, Typed, ShelfTyped
<1> QED
  BY <1>4, <1>5, <1>6

LEMMA DeleteAlbumRowTyped ==
  ASSUME Typed, NEW m \in Managers, DeleteAlbumRow(m)
  PROVE  ShelfTyped' /\ Changes
<1>1. PICK j : j = jobs[m]
  OBVIOUS
<1>2. m \in Workers /\ j \in Job /\ Fine(m, j)
  BY <1>1, OneJob, Roles DEF Typed
<1>0. Idle \in Job /\ Fine(m, Idle)
  BY IdleJob
<1>3. Changes
  BY <1>0, <1>1, <1>2 DEF DeleteAlbumRow, Changes, Goes
<1>4. ShelfTyped'
  BY DEF DeleteAlbumRow, Typed, ShelfTyped
<1> QED
  BY <1>3, <1>4

LEMMA ReassignTyped ==
  ASSUME Typed, NEW m \in Managers, Reassign(m)
  PROVE  ShelfTyped' /\ Changes
<1>1. PICK j : j = jobs[m]
  OBVIOUS
<1>2. m \in Workers /\ j \in Job /\ Fine(m, j)
  BY <1>1, OneJob, Roles DEF Typed
<1>0. Idle \in Job /\ Fine(m, Idle)
  BY IdleJob
<1>3. ASSUME albums[j.target] = None /\ RowsOf(j.album) # {} PROVE Changes
  BY <1>0, <1>1, <1>2, <1>3 DEF Reassign, Changes, Goes
<1>4. ASSUME ~(albums[j.target] = None /\ RowsOf(j.album) # {}) PROVE Changes
  <2>1. [Idle EXCEPT !.pc = "tracks", !.album = j.album] \in Job
    BY <1>2 DEF Job, Pcs, Filing, Ids, Idle
  <2>2. Fine(m, [Idle EXCEPT !.pc = "tracks", !.album = j.album])
    BY <1>2 DEF Job, Fine, Filing, Idle
  <2>3. Becomes(m, [Idle EXCEPT !.pc = "tracks", !.album = j.album])
    BY <1>1, <1>2, <1>4 DEF Reassign, Goes
  <2> QED
    BY <1>2, <2>1, <2>2, <2>3 DEF Changes
<1>5. ShelfTyped'
  <2>1. j.target \in Ids
    BY <1>2 DEF Job
  <2>2. ASSUME NEW r \in RowsOf(j.album) PROVE [rows[r] EXCEPT !.album = j.target] \in Track
    BY <2>1 DEF Typed, ShelfTyped, Track, RowsOf, Rows
  <2>3. rows' = [r \in Tracks |-> IF r \in RowsOf(j.album) THEN [rows[r] EXCEPT !.album = j.target]
                                  ELSE rows[r]] \/ UNCHANGED rows
    BY <1>1 DEF Reassign
  <2>4. rows' \in [Tracks -> Track \cup {None}]
    BY <2>2, <2>3 DEF Typed, ShelfTyped
  <2> QED
    BY <2>4 DEF Reassign, Typed, ShelfTyped
<1> QED
  BY <1>3, <1>4, <1>5

LEMMA SetAlbumTyped ==
  ASSUME Typed, NEW m \in Managers, SetAlbum(m)
  PROVE  ShelfTyped' /\ Changes
<1>1. PICK j : j = jobs[m]
  OBVIOUS
<1>2. m \in Workers /\ j \in Job /\ Fine(m, j)
  BY <1>1, OneJob, Roles DEF Typed
<1>0. Idle \in Job /\ Fine(m, Idle)
  BY IdleJob
<1>3. ASSUME rows[j.row] = None \/ albums[j.target] = None PROVE Changes
  BY <1>0, <1>1, <1>2, <1>3 DEF SetAlbum, Changes, Goes
<1>4. ASSUME ~(rows[j.row] = None \/ albums[j.target] = None) PROVE Changes
  <2>1. [Idle EXCEPT !.pc = "empty", !.album = j.album] \in Job
    BY <1>2 DEF Job, Pcs, Filing, Ids, Idle
  <2>2. Fine(m, [Idle EXCEPT !.pc = "empty", !.album = j.album])
    BY <1>2 DEF Job, Fine, Filing, Idle
  <2>3. Becomes(m, [Idle EXCEPT !.pc = "empty", !.album = j.album])
    BY <1>1, <1>2, <1>4 DEF SetAlbum, Goes
  <2> QED
    BY <1>2, <2>1, <2>2, <2>3 DEF Changes
<1>5. ShelfTyped'
  <2>1. j.target \in Ids
    BY <1>2 DEF Job
  <2>2. ASSUME rows[j.row] # None, j.row \in Tracks
        PROVE  [rows EXCEPT ![j.row].album = j.target] \in [Tracks -> Track \cup {None}]
    BY <2>1, <2>2 DEF Typed, ShelfTyped, Track
  <2>3. ASSUME j.row \notin Tracks
        PROVE  [rows EXCEPT ![j.row].album = j.target] = rows
    BY <2>3 DEF Typed, ShelfTyped
  <2>4. rows' \in [Tracks -> Track \cup {None}]
    <3>1. UNCHANGED rows \/ (rows[j.row] # None /\ rows' = [rows EXCEPT ![j.row].album = j.target])
      BY <1>1 DEF SetAlbum
    <3> QED
      BY <3>1, <2>2, <2>3 DEF Typed, ShelfTyped
  <2> QED
    BY <2>4 DEF SetAlbum, Typed, ShelfTyped
<1> QED
  BY <1>3, <1>4, <1>5

LEMMA IsEmptyTyped ==
  ASSUME Typed, NEW m \in Managers, IsEmpty(m)
  PROVE  ShelfTyped' /\ Changes
<1>1. PICK j : j = jobs[m]
  OBVIOUS
<1>2. m \in Workers /\ j \in Job /\ Fine(m, j)
  BY <1>1, OneJob, Roles DEF Typed
<1>0. Idle \in Job /\ Fine(m, Idle)
  BY IdleJob
<1>3. j.pc = "empty"
  BY <1>1, <1>2 DEF IsEmpty
<1>4. ASSUME ~(RowsOf(j.album) = {} /\ albums[j.album] # None) PROVE Changes
  BY <1>0, <1>1, <1>2, <1>3, <1>4 DEF IsEmpty, Changes, Goes
<1>5. ASSUME RowsOf(j.album) = {} /\ albums[j.album] # None PROVE Changes
  <2>1. [j EXCEPT !.pc = "list"] \in Job
    BY <1>2, <1>3 DEF Job, Pcs, Filing, Ids, Idle
  <2>2. Fine(m, [j EXCEPT !.pc = "list"])
    BY <1>2, <1>3 DEF Job, Fine, Filing, Idle
  <2>3. Becomes(m, [j EXCEPT !.pc = "list"])
    BY <1>1, <1>2, <1>3, <1>5 DEF IsEmpty, Goes
  <2> QED
    BY <1>2, <2>1, <2>2, <2>3 DEF Changes
<1>6. ShelfTyped'
  BY DEF IsEmpty, Typed, ShelfTyped
<1> QED
  BY <1>4, <1>5, <1>6

LEMMA ListEmptyTyped ==
  ASSUME Typed, NEW m \in Managers, ListEmpty(m)
  PROVE  ShelfTyped' /\ Changes
<1>1. PICK j : j = jobs[m]
  OBVIOUS
<1>2. m \in Workers /\ j \in Job /\ Fine(m, j)
  BY <1>1, OneJob, Roles DEF Typed
<1>0. Idle \in Job /\ Fine(m, Idle)
  BY IdleJob
<1>3. j.pc = "list"
  BY <1>1, <1>2 DEF ListEmpty
<1>4. Listed(RowsOf(j.album)) \subseteq Pairs
  BY <1>1, <1>2, <1>3, ListedRows DEF RowsOf, Typed
<1>5. ASSUME albums[j.album] = None PROVE Changes
  BY <1>0, <1>1, <1>2, <1>3, <1>4, <1>5 DEF ListEmpty, Changes, Goes
<1>6. ASSUME albums[j.album] # None PROVE Changes
  <2>1. [j EXCEPT !.pc = "tracks", !.list = Listed(RowsOf(j.album))] \in Job
    BY <1>2, <1>3, <1>4 DEF Job, Pcs, Filing, Ids, Idle
  <2>2. Fine(m, [j EXCEPT !.pc = "tracks", !.list = Listed(RowsOf(j.album))])
    BY <1>2, <1>3, <1>4 DEF Job, Fine, Filing, Idle
  <2>3. Becomes(m, [j EXCEPT !.pc = "tracks", !.list = Listed(RowsOf(j.album))])
    BY <1>1, <1>2, <1>3, <1>4, <1>6 DEF ListEmpty, Goes
  <2> QED
    BY <1>2, <2>1, <2>2, <2>3 DEF Changes
<1>7. ShelfTyped'
  BY DEF ListEmpty, Typed, ShelfTyped
<1> QED
  BY <1>5, <1>6, <1>7

LEMMA RenamedTyped ==
  ASSUME Typed, NEW m \in Managers, Renamed(m)
  PROVE  ShelfTyped' /\ Changes
<1>1. PICK j : j = jobs[m]
  OBVIOUS
<1>2. m \in Workers /\ j \in Job /\ Fine(m, j)
  BY <1>1, OneJob, Roles DEF Typed
<1>0. Idle \in Job /\ Fine(m, Idle)
  BY IdleJob
<1>3. Changes
  BY <1>0, <1>1, <1>2 DEF Renamed, Changes, Goes
<1>4. ShelfTyped'
  BY DEF Renamed, Typed, ShelfTyped
<1> QED
  BY <1>3, <1>4

LEMMA MoveFileTyped ==
  ASSUME Typed, NEW m \in Managers, MoveFile(m)
  PROVE  ShelfTyped' /\ Changes
<1>1. PICK j : j = jobs[m]
  OBVIOUS
<1>2. m \in Workers /\ j \in Job /\ Fine(m, j)
  BY <1>1, OneJob, Roles DEF Typed
<1>0. Idle \in Job /\ Fine(m, Idle)
  BY IdleJob
<1>x. PICK x : x = First(j.list)
  OBVIOUS
<1>p. PICK p : p = x[2]
  OBVIOUS
<1>q. PICK q : q = <<j.title, p[2]>>
  OBVIOUS
<1>3. j.pc = "move" /\ j.list # {}
  BY <1>1, <1>2, <1>x, <1>p, <1>q DEF MoveFile
<1>4. j.title \in Titles
  BY <1>1, <1>2, <1>x, <1>p, <1>q, <1>3 DEF Fine
<1>5. x \in j.list
  BY <1>1, <1>2, <1>x, <1>p, <1>q, <1>3, <1>4, FirstIn
<1>6. x[1] \in Tracks /\ x[2] \in Paths
  BY <1>1, <1>2, <1>x, <1>p, <1>q, <1>3, <1>4, <1>5 DEF Job, Pairs
<1>7. j.list \ {x} \in SUBSET Pairs
  BY <1>1, <1>2, <1>x, <1>p, <1>q, <1>3, <1>4, <1>5, <1>6 DEF Job
<1>8. p[1] \in Titles /\ p \in Paths /\ q \in Paths
  BY <1>1, <1>2, <1>x, <1>p, <1>q, <1>3, <1>4, <1>5, <1>6, <1>7 DEF Paths
<1>9. j.dirs \cup {p[1]} \in SUBSET (Dirs \cup Titles)
  BY <1>1, <1>2, <1>x, <1>p, <1>q, <1>3, <1>4, <1>5, <1>6, <1>7, <1>8 DEF Job
<1>10. ASSUME Stays(p, q) PROVE Changes
  <2>1. [j EXCEPT !.list = @ \ {x}] \in Job
    BY <1>2, <1>3, <1>4, <1>5, <1>6, <1>7, <1>8, <1>9 DEF Job, Pcs, Filing, Ids, Idle
  <2>2. Fine(m, [j EXCEPT !.list = @ \ {x}])
    BY <1>2, <1>3, <1>4, <1>5, <1>6, <1>7, <1>8, <1>9 DEF Job, Fine, Filing, Idle
  <2>3. Becomes(m, [j EXCEPT !.list = @ \ {x}])
    BY <1>1, <1>2, <1>x, <1>p, <1>q, <1>3, <1>4, <1>5, <1>6, <1>7, <1>8, <1>9, <1>10 DEF MoveFile, Goes
  <2> QED
    BY <1>2, <2>1, <2>2, <2>3 DEF Changes
<1>11. ASSUME ~Stays(p, q) PROVE Changes
  <2>1. [j EXCEPT !.list = @ \ {x}, !.pc = "repath", !.row = x[1], !.path = q, !.dirs = @ \cup {p[1]}] \in Job
    BY <1>2, <1>3, <1>4, <1>5, <1>6, <1>7, <1>8, <1>9 DEF Job, Pcs, Filing, Ids, Idle
  <2>2. Fine(m, [j EXCEPT !.list = @ \ {x}, !.pc = "repath", !.row = x[1], !.path = q, !.dirs = @ \cup {p[1]}])
    BY <1>2, <1>3, <1>4, <1>5, <1>6, <1>7, <1>8, <1>9 DEF Job, Fine, Filing, Idle
  <2>3. Becomes(m, [j EXCEPT !.list = @ \ {x}, !.pc = "repath", !.row = x[1], !.path = q, !.dirs = @ \cup {p[1]}])
    BY <1>1, <1>2, <1>x, <1>p, <1>q, <1>3, <1>4, <1>5, <1>6, <1>7, <1>8, <1>9, <1>11 DEF MoveFile, Goes
  <2> QED
    BY <1>2, <2>1, <2>2, <2>3 DEF Changes
<1>12. ShelfTyped'
  <2>1. Moved(p, q) \in [Paths -> Songs \cup {None}]
    BY <1>8 DEF Moved, Typed, ShelfTyped
  <2>2. UNCHANGED disk \/ disk' = Moved(p, q)
    BY <1>1, <1>x, <1>p, <1>q DEF MoveFile
  <2> QED
    BY <2>1, <2>2 DEF MoveFile, Typed, ShelfTyped
<1> QED
  BY <1>10, <1>11, <1>12

LEMMA RepathTyped ==
  ASSUME Typed, NEW m \in Managers, Repath(m)
  PROVE  ShelfTyped' /\ Changes
<1>1. PICK j : j = jobs[m]
  OBVIOUS
<1>2. m \in Workers /\ j \in Job /\ Fine(m, j)
  BY <1>1, OneJob, Roles DEF Typed
<1>0. Idle \in Job /\ Fine(m, Idle)
  BY IdleJob
<1>3. j.pc = "repath" /\ j.path \in Paths
  BY <1>1, <1>2 DEF Repath, Fine
<1>4. ASSUME rows[j.row] # None /\ RowsAt(j.path) \ {j.row} # {} PROVE Changes
  BY <1>0, <1>1, <1>2, <1>3, <1>4 DEF Repath, Changes, Goes
<1>5. ASSUME ~(rows[j.row] # None /\ RowsAt(j.path) \ {j.row} # {}) PROVE Changes
  <2>1. [j EXCEPT !.pc = "move", !.row = None, !.path = NoPath] \in Job
    BY <1>2, <1>3 DEF Job, Pcs, Filing, Ids, Idle
  <2>2. Fine(m, [j EXCEPT !.pc = "move", !.row = None, !.path = NoPath])
    BY <1>2, <1>3 DEF Job, Fine, Filing, Idle
  <2>3. Becomes(m, [j EXCEPT !.pc = "move", !.row = None, !.path = NoPath])
    BY <1>1, <1>2, <1>3, <1>5 DEF Repath, Goes
  <2> QED
    BY <1>2, <2>1, <2>2, <2>3 DEF Changes
<1>6. ShelfTyped'
  <2>1. ASSUME rows[j.row] # None, j.row \in Tracks
        PROVE  [rows EXCEPT ![j.row].path = j.path] \in [Tracks -> Track \cup {None}]
    BY <1>3, <2>1 DEF Typed, ShelfTyped, Track
  <2>2. ASSUME j.row \notin Tracks
        PROVE  [rows EXCEPT ![j.row].path = j.path] = rows
    BY <2>2 DEF Typed, ShelfTyped
  <2>3. UNCHANGED rows \/ (rows[j.row] # None /\ rows' = [rows EXCEPT ![j.row].path = j.path])
    BY <1>1 DEF Repath
  <2>4. rows' \in [Tracks -> Track \cup {None}]
    BY <2>1, <2>2, <2>3 DEF Typed, ShelfTyped
  <2> QED
    BY <2>4 DEF Repath, Typed, ShelfTyped
<1> QED
  BY <1>4, <1>5, <1>6

LEMMA SweepTyped ==
  ASSUME Typed, NEW m \in Managers, Sweep(m)
  PROVE  ShelfTyped' /\ Changes
<1>1. PICK j : j = jobs[m]
  OBVIOUS
<1>2. m \in Workers /\ j \in Job /\ Fine(m, j)
  BY <1>1, OneJob, Roles DEF Typed
<1>3. PICK d \in j.dirs : Becomes(m, [j EXCEPT !.dirs = @ \ {d}]) /\ disk' = Swept(d, j.title)
  BY <1>1 DEF Sweep
<1>4. j.pc = "move"
  BY <1>1 DEF Sweep
<1>5. [j EXCEPT !.dirs = @ \ {d}] \in Job
  BY <1>2 DEF Job
<1>6. Fine(m, [j EXCEPT !.dirs = @ \ {d}])
  BY <1>2, <1>4 DEF Job, Fine, Filing
<1>7. Changes
  BY <1>2, <1>3, <1>5, <1>6 DEF Changes
<1>8. ASSUME NEW p \in Paths, p[2] \in NamesIn(Leftover(d, j.title)) PROVE <<d, p[2]>> \in Paths
  <2>1. PICK f \in Leftover(d, j.title) : p[2] = f[2]
    BY <1>8 DEF NamesIn
  <2>2. f \in Paths /\ f[1] = d
    BY DEF FilesOf, Leftover
  <2> QED
    BY <2>1, <2>2 DEF Paths
<1>10. ASSUME NEW p \in Paths PROVE disk'[p] \in Songs \cup {None}
  BY <1>3, <1>8 DEF Swept, Typed, ShelfTyped
<1>11. disk' \in [Paths -> Songs \cup {None}]
  BY <1>3, <1>10 DEF Swept
<1> QED
  BY <1>7, <1>11 DEF Sweep, Typed, ShelfTyped

-----------------------------------------------------------------------------
(* The same for the steps of the tasks.                                    *)

LEMMA SourceIs ==
  ASSUME NEW d
  PROVE  /\ Source(d) \subseteq drops
         /\ d \in {DirOf[s] : s \in drops} => Source(d) # {}
  BY DEF Source

LEMMA ListFolderTyped ==
  ASSUME Typed, NEW w \in Workers, ListFolder(w)
  PROVE  ShelfTyped' /\ Changes
<1>1. PICK j : j = jobs[w]
  OBVIOUS
<1>2. w \in Workers /\ j \in Job /\ Fine(w, j)
  BY <1>1, OneJob DEF Typed
<1>3. PICK d : d = First(j.dirs)
  OBVIOUS
<1>4. PICK t \in CommonTitles(Source(d)) :
        Becomes(w, [j EXCEPT !.dirs = @ \ {d}, !.files = Source(d), !.title = t, !.pc = "album"])
  BY <1>1, <1>3 DEF ListFolder
<1>5. t \in Titles
  BY DEF CommonTitles
<1>6. j.pc = "settle" /\ j.dirs # {}
  BY <1>1, <1>2 DEF ListFolder, Fine
<1>7. d \in j.dirs
  BY <1>3, <1>6, FirstIn
<1>8. /\ w # Refresher /\ Source(d) # {} /\ Source(d) \subseteq Songs
      /\ \A e \in j.dirs : e \in {DirOf[s] : s \in drops}
  BY <1>2, <1>6, <1>7, SourceIs DEF Fine, Filing, Typed, DropsTyped
<1>9. PICK k : k = [j EXCEPT !.dirs = @ \ {d}, !.files = Source(d), !.title = t, !.pc = "album"]
  OBVIOUS
<1>10. k \in Job
  BY <1>2, <1>5, <1>8, <1>9 DEF Job, Pcs, Filing
<1>11. k.pc = "album" /\ k.title = t /\ k.files = Source(d) /\ k.dirs = j.dirs \ {d}
  BY <1>2, <1>9 DEF Job
<1>12. Fine(w, k)
  BY <1>5, <1>8, <1>11 DEF Fine, Filing
<1>13. Changes
  BY <1>4, <1>9, <1>10, <1>12 DEF Changes
<1> QED
  BY <1>13 DEF ListFolder, Typed, ShelfTyped

LEMMA FindAlbumTyped ==
  ASSUME Typed, NEW w \in Workers, FindAlbum(w)
  PROVE  ShelfTyped' /\ Changes
<1>1. PICK j : j = jobs[w]
  OBVIOUS
<1>2. w \in Workers /\ j \in Job /\ Fine(w, j)
  BY <1>1, OneJob, Roles DEF Typed
<1>0. Idle \in Job /\ Fine(w, Idle)
  BY IdleJob
<1>3. j.pc \in {"album", "album again"}
  BY <1>1, <1>2 DEF FindAlbum
<1>4. \A a \in Titled(j.title) : a \in Ids
  BY <1>1, <1>2, <1>3 DEF Titled, Ids
<1>5. ASSUME Titled(j.title) = {}, j.pc = "album" PROVE Changes
  <2>1. [j EXCEPT !.pc = "create"] \in Job
    BY <1>2, <1>3, <1>4, <1>5 DEF Job, Pcs, Filing, Ids, Idle
  <2>2. Fine(w, [j EXCEPT !.pc = "create"])
    BY <1>2, <1>3, <1>4, <1>5 DEF Job, Fine, Filing, Idle
  <2>3. Becomes(w, [j EXCEPT !.pc = "create"])
    BY <1>1, <1>2, <1>3, <1>4, <1>5 DEF FindAlbum, Goes
  <2> QED
    BY <1>2, <2>1, <2>2, <2>3 DEF Changes
<1>6. ASSUME Titled(j.title) = {}, j.pc = "album again" PROVE Changes
  <2>1. [j EXCEPT !.pc = "create again"] \in Job
    BY <1>2, <1>3, <1>4, <1>6 DEF Job, Pcs, Filing, Ids, Idle
  <2>2. Fine(w, [j EXCEPT !.pc = "create again"])
    BY <1>2, <1>3, <1>4, <1>6 DEF Job, Fine, Filing, Idle
  <2>3. Becomes(w, [j EXCEPT !.pc = "create again"])
    BY <1>1, <1>2, <1>3, <1>4, <1>6 DEF FindAlbum, Goes
  <2> QED
    BY <1>2, <2>1, <2>2, <2>3 DEF Changes
<1>7. ASSUME Titled(j.title) # {}, j.pc = "album", NEW a \in Titled(j.title), Becomes(w, [j EXCEPT !.album = a, !.pc = "place"]) PROVE Changes
  <2>1. [j EXCEPT !.album = a, !.pc = "place"] \in Job
    BY <1>2, <1>3, <1>4, <1>7 DEF Job, Pcs, Filing, Ids, Idle
  <2>2. Fine(w, [j EXCEPT !.album = a, !.pc = "place"])
    BY <1>2, <1>3, <1>4, <1>7 DEF Job, Fine, Filing, Idle
  <2>3. Becomes(w, [j EXCEPT !.album = a, !.pc = "place"])
    BY <1>1, <1>2, <1>3, <1>4, <1>7 DEF FindAlbum, Goes
  <2> QED
    BY <1>2, <2>1, <2>2, <2>3 DEF Changes
<1>8. ASSUME Titled(j.title) # {}, j.pc = "album again", NEW a \in Titled(j.title), Becomes(w, [j EXCEPT !.album = a, !.pc = "insert"]) PROVE Changes
  <2>1. [j EXCEPT !.album = a, !.pc = "insert"] \in Job
    BY <1>2, <1>3, <1>4, <1>8 DEF Job, Pcs, Filing, Ids, Idle
  <2>2. Fine(w, [j EXCEPT !.album = a, !.pc = "insert"])
    BY <1>2, <1>3, <1>4, <1>8 DEF Job, Fine, Filing, Idle
  <2>3. Becomes(w, [j EXCEPT !.album = a, !.pc = "insert"])
    BY <1>1, <1>2, <1>3, <1>4, <1>8 DEF FindAlbum, Goes
  <2> QED
    BY <1>2, <2>1, <2>2, <2>3 DEF Changes
<1>9. ShelfTyped'
  BY DEF FindAlbum, Typed, ShelfTyped
<1> QED
  BY <1>5, <1>6, <1>7, <1>8, <1>9, <1>1, <1>3 DEF FindAlbum

LEMMA CreateAlbumTyped ==
  ASSUME Typed, NEW w \in Workers, CreateAlbum(w)
  PROVE  ShelfTyped' /\ Changes
<1>1. PICK j : j = jobs[w]
  OBVIOUS
<1>2. w \in Workers /\ j \in Job /\ Fine(w, j)
  BY <1>1, OneJob, Roles DEF Typed
<1>0. Idle \in Job /\ Fine(w, Idle)
  BY IdleJob
<1>3. j.pc \in {"create", "create again"}
  BY <1>1, <1>2 DEF CreateAlbum
<1>4. FreshAlbum \in Ids
  BY <1>1, <1>2, <1>3, FreshAlbumId
<1>5. j.title \in Titles
  BY <1>1, <1>2, <1>3, <1>4 DEF Fine, Filing
<1>6. ASSUME j.pc = "create" PROVE Changes
  <2>1. [j EXCEPT !.album = FreshAlbum, !.pc = "place"] \in Job
    BY <1>2, <1>3, <1>4, <1>5, <1>6 DEF Job, Pcs, Filing, Ids, Idle
  <2>2. Fine(w, [j EXCEPT !.album = FreshAlbum, !.pc = "place"])
    BY <1>2, <1>3, <1>4, <1>5, <1>6 DEF Job, Fine, Filing, Idle
  <2>3. Becomes(w, [j EXCEPT !.album = FreshAlbum, !.pc = "place"])
    BY <1>1, <1>2, <1>3, <1>4, <1>5, <1>6 DEF CreateAlbum, Goes
  <2> QED
    BY <1>2, <2>1, <2>2, <2>3 DEF Changes
<1>7. ASSUME j.pc = "create again" PROVE Changes
  <2>1. [j EXCEPT !.album = FreshAlbum, !.pc = "insert"] \in Job
    BY <1>2, <1>3, <1>4, <1>5, <1>7 DEF Job, Pcs, Filing, Ids, Idle
  <2>2. Fine(w, [j EXCEPT !.album = FreshAlbum, !.pc = "insert"])
    BY <1>2, <1>3, <1>4, <1>5, <1>7 DEF Job, Fine, Filing, Idle
  <2>3. Becomes(w, [j EXCEPT !.album = FreshAlbum, !.pc = "insert"])
    BY <1>1, <1>2, <1>3, <1>4, <1>5, <1>7 DEF CreateAlbum, Goes
  <2> QED
    BY <1>2, <2>1, <2>2, <2>3 DEF Changes
<1>8. ShelfTyped'
  BY <1>1, <1>5 DEF CreateAlbum, Typed, ShelfTyped
<1> QED
  BY <1>6, <1>7, <1>8, <1>3

LEMMA PlaceTyped ==
  ASSUME Typed, NEW w \in Workers, Place(w)
  PROVE  ShelfTyped' /\ Changes
<1>1. PICK j : j = jobs[w]
  OBVIOUS
<1>2. w \in Workers /\ j \in Job /\ Fine(w, j)
  BY <1>1, OneJob, Roles DEF Typed
<1>0. Idle \in Job /\ Fine(w, Idle)
  BY IdleJob
<1>s. PICK s : s = First(j.files)
  OBVIOUS
<1>p. PICK p : p = <<j.title, NameOf[s]>>
  OBVIOUS
<1>3. j.pc = "place"
  BY <1>1, <1>2, <1>s, <1>p DEF Place
<1>4. j.files # {} /\ j.files \subseteq Songs /\ j.title \in Titles /\ w # Refresher
  BY <1>1, <1>2, <1>s, <1>p, <1>3 DEF Fine, Filing
<1>5. s \in Songs
  BY <1>1, <1>2, <1>s, <1>p, <1>3, <1>4, FirstIn
<1>6. p \in Paths
  BY <1>1, <1>2, <1>s, <1>p, <1>3, <1>4, <1>5, IngestAssumption DEF Paths
<1>7. Changes
  <2>1. [j EXCEPT !.files = @ \ {s}, !.path = p, !.pc = "find"] \in Job
    BY <1>2, <1>3, <1>4, <1>5, <1>6 DEF Job, Pcs, Filing, Ids, Idle
  <2>2. Fine(w, [j EXCEPT !.files = @ \ {s}, !.path = p, !.pc = "find"])
    BY <1>2, <1>3, <1>4, <1>5, <1>6 DEF Job, Fine, Filing, Idle
  <2>3. Becomes(w, [j EXCEPT !.files = @ \ {s}, !.path = p, !.pc = "find"])
    BY <1>1, <1>2, <1>s, <1>p, <1>3, <1>4, <1>5, <1>6 DEF Place, Goes
  <2> QED
    BY <1>2, <2>1, <2>2, <2>3 DEF Changes
<1>8. ShelfTyped'
  <2>1. UNCHANGED disk \/ disk' = [disk EXCEPT ![p] = s]
    BY <1>1, <1>s, <1>p DEF Place
  <2> QED
    BY <2>1, <1>5 DEF Place, Typed, ShelfTyped
<1> QED
  BY <1>7, <1>8

LEMMA AfterFine ==
  ASSUME Typed, NEW w \in Workers, jobs[w].pc \in {"find", "insert"}
  PROVE  After(w) \in Job /\ Fine(w, After(w))
<1>1. PICK j : j = jobs[w]
  OBVIOUS
<1>2. j \in Job /\ Fine(w, j)
  BY <1>1, OneJob DEF Typed
<1>3. j.pc \in {"find", "insert"} /\ j.title \in Titles
  BY <1>1, <1>2 DEF Fine, Filing
<1>4. CASE w = Refresher
  <2>1. PICK k : k = [j EXCEPT !.path = NoPath, !.title = None, !.album = None, !.pc = "walk"]
    OBVIOUS
  <2>2. After(w) = k
    BY <1>1, <1>4, <2>1 DEF After
  <2>3. k \in Job
    BY <1>2, <2>1 DEF Job, Pcs, Ids
  <2>4. k.pc = "walk" /\ k.files = j.files
    BY <1>2, <2>1 DEF Job
  <2>5. Fine(w, k)
    BY <2>4, <1>2, <1>4 DEF Fine, Filing
  <2> QED
    BY <2>2, <2>3, <2>5
<1>5. CASE w # Refresher /\ j.files # {}
  <2>1. PICK k : k = [j EXCEPT !.path = NoPath, !.pc = "place"]
    OBVIOUS
  <2>2. After(w) = k
    BY <1>1, <1>5, <2>1 DEF After
  <2>3. k \in Job
    BY <1>2, <2>1 DEF Job, Pcs, Filing
  <2>4. k.pc = "place" /\ k.files = j.files /\ k.title = j.title /\ k.dirs = j.dirs
    BY <1>2, <2>1 DEF Job
  <2>5. Fine(w, k)
    BY <2>4, <1>2, <1>3, <1>5 DEF Fine, Filing
  <2> QED
    BY <2>2, <2>3, <2>5
<1>6. CASE w # Refresher /\ j.files = {} /\ j.dirs = {}
  <2>1. After(w) = Idle
    BY <1>1, <1>2, <1>6 DEF After, Job
  <2> QED
    BY <2>1, IdleJob
<1>7. CASE w # Refresher /\ j.files = {} /\ j.dirs # {}
  <2>1. PICK k : k = [j EXCEPT !.path = NoPath, !.title = None, !.album = None, !.pc = "settle"]
    OBVIOUS
  <2>2. After(w) = k
    BY <1>1, <1>2, <1>7, <2>1 DEF After, Job
  <2>3. k \in Job
    BY <1>2, <2>1 DEF Job, Pcs, Ids
  <2>4. k.pc = "settle" /\ k.files = j.files /\ k.dirs = j.dirs
    BY <1>2, <2>1 DEF Job
  <2>5. Fine(w, k)
    BY <2>4, <1>2, <1>3, <1>7 DEF Fine, Filing
  <2> QED
    BY <2>2, <2>3, <2>5
<1> QED
  BY <1>4, <1>5, <1>6, <1>7

LEMMA FindRowTyped ==
  ASSUME Typed, NEW w \in Workers, FindRow(w)
  PROVE  ShelfTyped' /\ Changes
<1>1. PICK j : j = jobs[w]
  OBVIOUS
<1>2. j \in Job /\ Fine(w, j)
  BY <1>1, OneJob DEF Typed
<1>3. j.pc = "find"
  BY <1>1 DEF FindRow
<1>4. w # Refresher /\ j.path \in Paths /\ j.title \in Titles
  BY <1>2, <1>3 DEF Fine, Filing
<1>5. CASE RowsAt(j.path) # {} \/ disk[j.path] = None
  <2>1. After(w) \in Job /\ Fine(w, After(w))
    BY <1>1, <1>3, AfterFine
  <2>2. Becomes(w, After(w))
    BY <1>1, <1>5 DEF FindRow
  <2> QED
    BY <2>1, <2>2 DEF Changes, FindRow, Typed, ShelfTyped
<1>6. CASE ~(RowsAt(j.path) # {} \/ disk[j.path] = None) /\ w = Uploader
  <2>1. PICK k : k = [j EXCEPT !.title = TagOf[disk[j.path]], !.pc = "album again"]
    OBVIOUS
  <2>2. Becomes(w, k)
    BY <1>1, <1>6, <2>1 DEF FindRow
  <2>3. TagOf[disk[j.path]] \in Titles
    BY <1>4, <1>6, LibraryAssumption DEF Typed, ShelfTyped
  <2>4. k \in Job
    BY <1>2, <2>1, <2>3 DEF Job, Pcs, Filing
  <2>5. /\ k.pc = "album again" /\ k.files = j.files /\ k.dirs = j.dirs /\ k.path = j.path
        /\ k.title = TagOf[disk[j.path]]
    BY <1>2, <2>1 DEF Job
  <2>6. Fine(w, k)
    BY <1>2, <1>3, <1>4, <2>3, <2>5 DEF Fine, Filing
  <2> QED
    BY <2>2, <2>4, <2>6 DEF Changes, FindRow, Typed, ShelfTyped
<1>7. CASE ~(RowsAt(j.path) # {} \/ disk[j.path] = None) /\ w # Uploader
  <2>1. PICK k : k = [j EXCEPT !.pc = "insert"]
    OBVIOUS
  <2>2. Becomes(w, k)
    BY <1>1, <1>7, <2>1 DEF FindRow
  <2>4. k \in Job
    BY <1>2, <2>1 DEF Job, Pcs, Filing
  <2>5. /\ k.pc = "insert" /\ k.files = j.files /\ k.dirs = j.dirs /\ k.path = j.path
        /\ k.title = j.title
    BY <1>2, <2>1 DEF Job
  <2>6. Fine(w, k)
    BY <1>2, <1>3, <1>4, <2>5 DEF Fine, Filing
  <2> QED
    BY <2>2, <2>4, <2>6 DEF Changes, FindRow, Typed, ShelfTyped
<1> QED
  BY <1>5, <1>6, <1>7

LEMMA InsertTyped ==
  ASSUME Typed, NEW w \in Workers, Insert(w)
  PROVE  ShelfTyped' /\ Changes
<1>1. PICK j : j = jobs[w]
  OBVIOUS
<1>2. j \in Job /\ Fine(w, j) /\ j.pc = "insert"
  BY <1>1, OneJob DEF Typed, Insert
<1>3. j.path \in Paths /\ j.album \in Ids
  BY <1>2 DEF Fine, Job
<1>4. After(w) \in Job /\ Fine(w, After(w))
  BY <1>1, <1>2, AfterFine
<1>5. Changes
  BY <1>4 DEF Changes, Insert
<1>6. [path |-> j.path, album |-> j.album] \in Track
  BY <1>3 DEF Track
<1>7. UNCHANGED rows \/ rows' = [rows EXCEPT ![FreshTrack] = [path |-> j.path, album |-> j.album]]
  BY <1>1 DEF Insert
<1> QED
  BY <1>5, <1>6, <1>7 DEF Insert, Typed, ShelfTyped

LEMMA UploadTyped ==
  ASSUME Typed, NEW s \in Songs, Upload(s)
  PROVE  ShelfTyped' /\ Changes
<1> DEFINE j == [Idle EXCEPT !.pc = "album", !.files = {s}, !.title = TagOf[s]]
<1>1. Uploader \in Workers /\ Uploader # Refresher /\ Idle \in Job /\ TagOf[s] \in Titles
  BY Roles, IdleJob, LibraryAssumption
<1>2. j \in Job
  BY <1>1 DEF Idle, Job, Pcs, Filing, Ids
<1>3. Fine(Uploader, j)
  BY <1>1 DEF Idle, Fine, Filing
<1>4. Becomes(Uploader, j)
  BY DEF Upload
<1> HIDE DEF j
<1> QED
  BY <1>1, <1>2, <1>3, <1>4 DEF Changes, Upload, Request, Typed, ShelfTyped

LEMMA StartRefreshTyped ==
  ASSUME Typed, StartRefresh
  PROVE  ShelfTyped' /\ Changes
<1> DEFINE j == [Idle EXCEPT !.pc = "walk", !.dirs = Titles]
<1>1. Refresher \in Workers /\ Idle \in Job
  BY Roles, IdleJob
<1>2. j \in Job
  BY <1>1 DEF Idle, Job, Pcs, Ids
<1>3. Fine(Refresher, j)
  BY <1>1 DEF Idle, Fine, Filing
<1>4. Becomes(Refresher, j)
  BY DEF StartRefresh
<1> HIDE DEF j
<1> QED
  BY <1>1, <1>2, <1>3, <1>4 DEF Changes, StartRefresh, Typed, ShelfTyped

LEMMA WalkTyped ==
  ASSUME Typed, Walk
  PROVE  ShelfTyped' /\ Changes
<1>1. PICK j : j = jobs[Refresher]
  OBVIOUS
<1>2. Refresher \in Workers /\ j \in Job /\ Fine(Refresher, j)
  BY <1>1, OneJob, Roles DEF Typed
<1>0. Idle \in Job /\ Fine(Refresher, Idle)
  BY IdleJob
<1>p. PICK p : p = First(j.files)
  OBVIOUS
<1>d. PICK d : d = First(j.dirs)
  OBVIOUS
<1>3. j.pc = "walk"
  BY <1>1, <1>2, <1>p, <1>d DEF Walk
<1>4. j.files \subseteq Paths
  BY <1>1, <1>2, <1>p, <1>d, <1>3 DEF Fine
<1>5. j.files # {} => p \in Paths
  BY <1>1, <1>2, <1>p, <1>d, <1>3, <1>4, FirstIn
<1>6. j.files # {} /\ disk[p] # None => TagOf[disk[p]] \in Titles
  BY <1>1, <1>2, <1>p, <1>d, <1>3, <1>4, <1>5, LibraryAssumption DEF Typed, ShelfTyped
<1>7. FilesOf(d) \subseteq Paths
  BY <1>1, <1>2, <1>p, <1>d, <1>3, <1>4, <1>5, <1>6 DEF FilesOf
<1>8. Listed(Rows) \subseteq Pairs
  BY <1>1, <1>2, <1>p, <1>d, <1>3, <1>4, <1>5, <1>6, <1>7, ListedRows DEF Typed
<1>9. ASSUME j.files # {}, ~(~(RowsAt(p) # {} \/ disk[p] = None)) PROVE Changes
  <2>1. [j EXCEPT !.files = @ \ {p}] \in Job
    BY <1>2, <1>3, <1>4, <1>5, <1>6, <1>7, <1>8 DEF Job, Pcs, Filing, Ids, Idle
  <2>2. Fine(Refresher, [j EXCEPT !.files = @ \ {p}])
    BY <1>2, <1>3, <1>4, <1>5, <1>6, <1>7, <1>8 DEF Job, Fine, Filing, Idle
  <2>3. Becomes(Refresher, [j EXCEPT !.files = @ \ {p}])
    BY <1>1, <1>2, <1>p, <1>d, <1>3, <1>4, <1>5, <1>6, <1>7, <1>8, <1>9 DEF Walk, Goes
  <2> QED
    BY <1>2, <2>1, <2>2, <2>3 DEF Changes
<1>10. ASSUME j.files # {}, ~(RowsAt(p) # {} \/ disk[p] = None), TagOf[disk[p]] \in Titles, p \in Paths PROVE Changes
  <2>1. [j EXCEPT !.files = @ \ {p}, !.path = p, !.title = TagOf[disk[p]], !.pc = "album again"] \in Job
    BY <1>2, <1>3, <1>4, <1>5, <1>6, <1>7, <1>8, <1>10 DEF Job, Pcs, Filing, Ids, Idle
  <2>2. Fine(Refresher, [j EXCEPT !.files = @ \ {p}, !.path = p, !.title = TagOf[disk[p]], !.pc = "album again"])
    BY <1>2, <1>3, <1>4, <1>5, <1>6, <1>7, <1>8, <1>10 DEF Job, Fine, Filing, Idle
  <2>3. Becomes(Refresher, [j EXCEPT !.files = @ \ {p}, !.path = p, !.title = TagOf[disk[p]], !.pc = "album again"])
    BY <1>1, <1>2, <1>p, <1>d, <1>3, <1>4, <1>5, <1>6, <1>7, <1>8, <1>10 DEF Walk, Goes
  <2> QED
    BY <1>2, <2>1, <2>2, <2>3 DEF Changes
<1>11. ASSUME j.files = {}, j.dirs # {} PROVE Changes
  <2>1. [j EXCEPT !.dirs = @ \ {d}, !.files = FilesOf(d)] \in Job
    BY <1>2, <1>3, <1>4, <1>5, <1>6, <1>7, <1>8 DEF Job, Pcs, Filing, Ids, Idle
  <2>2. Fine(Refresher, [j EXCEPT !.dirs = @ \ {d}, !.files = FilesOf(d)])
    BY <1>2, <1>3, <1>4, <1>5, <1>6, <1>7, <1>8 DEF Job, Fine, Filing, Idle
  <2>3. Becomes(Refresher, [j EXCEPT !.dirs = @ \ {d}, !.files = FilesOf(d)])
    BY <1>1, <1>2, <1>p, <1>d, <1>3, <1>4, <1>5, <1>6, <1>7, <1>8, <1>11 DEF Walk, Goes
  <2> QED
    BY <1>2, <2>1, <2>2, <2>3 DEF Changes
<1>12. ASSUME j.files = {}, j.dirs = {} PROVE Changes
  <2>1. [j EXCEPT !.pc = "check", !.list = Listed(Rows)] \in Job
    BY <1>2, <1>3, <1>4, <1>5, <1>6, <1>7, <1>8 DEF Job, Pcs, Filing, Ids, Idle
  <2>2. Fine(Refresher, [j EXCEPT !.pc = "check", !.list = Listed(Rows)])
    BY <1>2, <1>3, <1>4, <1>5, <1>6, <1>7, <1>8 DEF Job, Fine, Filing, Idle
  <2>3. Becomes(Refresher, [j EXCEPT !.pc = "check", !.list = Listed(Rows)])
    BY <1>1, <1>2, <1>p, <1>d, <1>3, <1>4, <1>5, <1>6, <1>7, <1>8, <1>12 DEF Walk, Goes
  <2> QED
    BY <1>2, <2>1, <2>2, <2>3 DEF Changes
<1>13. ShelfTyped'
  BY DEF Walk, Typed, ShelfTyped
<1> QED
  BY <1>9, <1>10, <1>11, <1>12, <1>13, <1>6, <1>5

LEMMA CheckFileTyped ==
  ASSUME Typed, CheckFile
  PROVE  ShelfTyped' /\ Changes
<1>1. PICK j : j = jobs[Refresher]
  OBVIOUS
<1>2. Refresher \in Workers /\ j \in Job /\ Fine(Refresher, j)
  BY <1>1, OneJob, Roles DEF Typed
<1>0. Idle \in Job /\ Fine(Refresher, Idle)
  BY IdleJob
<1>x. PICK x : x = First(j.list)
  OBVIOUS
<1>3. j.pc = "check"
  BY <1>1, <1>2, <1>x DEF CheckFile
<1>4. j.list # {} => x \in j.list
  BY <1>1, <1>2, <1>x, <1>3, FirstIn
<1>5. j.list # {} => x[1] \in Tracks
  BY <1>1, <1>2, <1>x, <1>3, <1>4 DEF Job, Pairs
<1>6. j.list \ {x} \in SUBSET Pairs
  BY <1>1, <1>2, <1>x, <1>3, <1>4, <1>5 DEF Job
<1>7. ASSUME j.list = {} PROVE Changes
  BY <1>0, <1>1, <1>2, <1>x, <1>3, <1>4, <1>5, <1>6, <1>7 DEF CheckFile, Changes, Goes
<1>8. ASSUME j.list # {}, disk[x[2]] # None PROVE Changes
  <2>1. [j EXCEPT !.list = @ \ {x}] \in Job
    BY <1>2, <1>3, <1>4, <1>5, <1>6 DEF Job, Pcs, Filing, Ids, Idle
  <2>2. Fine(Refresher, [j EXCEPT !.list = @ \ {x}])
    BY <1>2, <1>3, <1>4, <1>5, <1>6 DEF Job, Fine, Filing, Idle
  <2>3. Becomes(Refresher, [j EXCEPT !.list = @ \ {x}])
    BY <1>1, <1>2, <1>x, <1>3, <1>4, <1>5, <1>6, <1>8 DEF CheckFile, Goes
  <2> QED
    BY <1>2, <2>1, <2>2, <2>3 DEF Changes
<1>9. ASSUME j.list # {}, disk[x[2]] = None, x[1] \in Tracks PROVE Changes
  <2>1. [j EXCEPT !.list = @ \ {x}, !.row = x[1], !.pc = "prune"] \in Job
    BY <1>2, <1>3, <1>4, <1>5, <1>6, <1>9 DEF Job, Pcs, Filing, Ids, Idle
  <2>2. Fine(Refresher, [j EXCEPT !.list = @ \ {x}, !.row = x[1], !.pc = "prune"])
    BY <1>2, <1>3, <1>4, <1>5, <1>6, <1>9 DEF Job, Fine, Filing, Idle
  <2>3. Becomes(Refresher, [j EXCEPT !.list = @ \ {x}, !.row = x[1], !.pc = "prune"])
    BY <1>1, <1>2, <1>x, <1>3, <1>4, <1>5, <1>6, <1>9 DEF CheckFile, Goes
  <2> QED
    BY <1>2, <2>1, <2>2, <2>3 DEF Changes
<1>10. ShelfTyped'
  BY DEF CheckFile, Typed, ShelfTyped
<1> QED
  BY <1>7, <1>8, <1>9, <1>10, <1>5

LEMMA PruneTyped ==
  ASSUME Typed, Prune
  PROVE  ShelfTyped' /\ Changes
<1>1. PICK j : j = jobs[Refresher]
  OBVIOUS
<1>2. Refresher \in Workers /\ j \in Job /\ Fine(Refresher, j)
  BY <1>1, OneJob, Roles DEF Typed
<1>0. Idle \in Job /\ Fine(Refresher, Idle)
  BY IdleJob
<1>3. j.pc = "prune"
  BY <1>1, <1>2 DEF Prune
<1>4. Changes
  <2>1. [j EXCEPT !.row = None, !.pc = "check"] \in Job
    BY <1>2, <1>3 DEF Job, Pcs, Filing, Ids, Idle
  <2>2. Fine(Refresher, [j EXCEPT !.row = None, !.pc = "check"])
    BY <1>2, <1>3 DEF Job, Fine, Filing, Idle
  <2>3. Becomes(Refresher, [j EXCEPT !.row = None, !.pc = "check"])
    BY <1>1, <1>2, <1>3 DEF Prune, Goes
  <2> QED
    BY <1>2, <2>1, <2>2, <2>3 DEF Changes
<1>5. ShelfTyped'
  BY DEF Prune, Typed, ShelfTyped
<1> QED
  BY <1>4, <1>5

LEMMA DropTyped ==
  ASSUME Typed, NEW s \in Songs, Drop(s)
  PROVE  Typed'
<1>1. drops \subseteq drops' /\ drops' \subseteq Songs /\ s \in drops' /\ jobs' = jobs
  BY DEF Drop, Typed, DropsTyped
<1>2. queue \in Seq(drops')
  <2>1. Seq(drops) \subseteq Seq(drops')
    BY <1>1
  <2> QED
    BY <2>1 DEF Typed, DropsTyped
<1>3. queue' \in Seq(drops')
  BY <1>1, <1>2 DEF Drop
<1>4. JobsTyped'
  BY <1>1, JobsKept DEF Typed
<1> QED
  BY <1>1, <1>3, <1>4 DEF Drop, Typed, DropsTyped, ShelfTyped

LEMMA DispatchTyped ==
  ASSUME Typed, Dispatch
  PROVE  Typed'
<1>1. PICK s : s = Head(queue)
  OBVIOUS
<1>2. PICK d : d = DirOf[s]
  OBVIOUS
<1>3. s \in drops /\ s \in Songs /\ queue' \in Seq(drops)
  BY <1>1 DEF Dispatch, Typed, DropsTyped
<1>4. d \in Dirs /\ d \in Workers /\ d # Refresher /\ d \in {DirOf[x] : x \in drops}
  BY <1>2, <1>3, Roles, IngestAssumption
<1>5. JobsTyped'
  <2>1. CASE jobs[d].pc = "idle"
    <3>1. PICK k : k = [Idle EXCEPT !.pc = "settle", !.dirs = {d}]
      OBVIOUS
    <3>2. k \in Job
      BY <1>4, <3>1, IdleJob DEF Job, Pcs
    <3>3. k.pc = "settle" /\ k.dirs = {d} /\ k.files = {}
      BY <3>1 DEF Idle
    <3>4. Fine(d, k)
      BY <1>4, <3>3 DEF Fine, Filing
    <3>5. Becomes(d, k) /\ drops' = drops
      BY <1>1, <1>2, <2>1, <3>1 DEF Dispatch
    <3> QED
      BY <1>4, <3>2, <3>4, <3>5, JobChanged DEF Typed
  <2>2. CASE jobs[d].pc # "idle"
    <3>1. jobs' = jobs /\ drops' = drops
      BY <1>1, <1>2, <2>2 DEF Dispatch
    <3> QED
      BY <3>1, JobsKept DEF Typed
  <2> QED
    BY <2>1, <2>2
<1> QED
  BY <1>3, <1>5 DEF Dispatch, Typed, DropsTyped, ShelfTyped

LEMMA CrashTyped ==
  ASSUME Typed, Crash
  PROVE  Typed'
<1>1. PICK dirs : dirs = {DirOf[s] : s \in drops}
  OBVIOUS
<1>2. dirs \subseteq Dirs
  BY <1>1, IngestAssumption DEF Typed, DropsTyped
<1>3. PICK k : k = [Idle EXCEPT !.pc = "settle", !.dirs = dirs]
  OBVIOUS
<1>4. k \in Job
  BY <1>2, <1>3, IdleJob DEF Job, Pcs
<1>5. k.pc = "settle" /\ k.dirs = dirs /\ k.files = {}
  BY <1>3 DEF Idle
<1>6. dirs # {} => Fine(Boot, k)
  BY <1>1, <1>5, Roles DEF Fine, Filing
<1>7. jobs' = [w \in Workers |-> IF w = Boot /\ dirs # {} THEN k ELSE Idle] /\ drops' = drops
  BY <1>1, <1>3 DEF Crash
<1>8. jobs' \in [Workers -> Job]
  BY <1>4, <1>7, IdleJob
<1>9. ASSUME NEW w \in Workers PROVE Fine(w, jobs'[w])
  BY <1>6, <1>7, IdleJob
<1>10. \A w \in Workers : Fine(w, jobs[w])'
  BY <1>7, <1>9 DEF Fine
<1>11. JobsTyped'
  BY <1>8, <1>10 DEF JobsTyped
<1>12. queue' = <<>>
  BY DEF Crash
<1>13. queue' \in Seq(drops')
  <2>1. <<>> \in Seq(drops')
    OBVIOUS
  <2> QED
    BY <2>1, <1>12
<1> QED
  BY <1>7, <1>11, <1>13 DEF Crash, Typed, DropsTyped, ShelfTyped

LEMMA ChangeTyped ==
  ASSUME Typed, ShelfTyped', Changes, UNCHANGED <<drops, queue>>
  PROVE  Typed'
<1>1. PICK w \in Workers, j \in Job : Fine(w, j) /\ Becomes(w, j)
  BY DEF Changes
<1>2. JobsTyped'
  BY <1>1, JobChanged DEF Typed
<1> QED
  BY <1>2 DEF Typed, DropsTyped

LEMMA TypedStep ==
  ASSUME Typed, [Next]_vars
  PROVE  Typed'
<1>1. CASE UNCHANGED vars
  BY <1>1, JobsKept DEF vars, libraryVars, ingestVars, Typed, ShelfTyped, DropsTyped
<1>2. ASSUME NEW s \in Songs, Drop(s) \/ Upload(s) PROVE Typed'
  BY <1>2, DropTyped, UploadTyped, ChangeTyped DEF Upload, ingestVars
<1>3. CASE Dispatch
  BY <1>3, DispatchTyped
<1>4. ASSUME NEW w \in Workers, IngestStep(w) PROVE Typed'
  <2>1. UNCHANGED <<drops, queue>>
    BY <1>4 DEF IngestStep, ListFolder, FindAlbum, CreateAlbum, Place, FindRow, Insert, ingestVars
  <2>2. ShelfTyped' /\ Changes
    BY <1>4, ListFolderTyped, FindAlbumTyped, CreateAlbumTyped, PlaceTyped, FindRowTyped, InsertTyped
       DEF IngestStep
  <2> QED
    BY <2>1, <2>2, ChangeTyped
<1>5. CASE RefreshStep
  <2>1. UNCHANGED <<drops, queue>>
    BY <1>5 DEF RefreshStep, StartRefresh, Walk, CheckFile, Prune, ingestVars
  <2>2. ShelfTyped' /\ Changes
    BY <1>5, StartRefreshTyped, WalkTyped, CheckFileTyped, PruneTyped DEF RefreshStep
  <2> QED
    BY <2>1, <2>2, ChangeTyped
<1>6. ASSUME NEW m \in Managers, Ask(m) PROVE Typed'
  <2>1. ShelfTyped' /\ Changes
    BY <1>6, DeleteTrackTyped, DeleteAlbumTyped, MergeAlbumsTyped, MoveTrackTyped,
       RenameAlbumFolderTyped DEF Ask, Asks
  <2> QED
    BY <1>6, <2>1, ChangeTyped DEF Ask, ingestVars
<1>7. ASSUME NEW m \in Managers, Serve(m) PROVE Typed'
  <2>1. ShelfTyped' /\ Changes
    BY <1>7, NextTrackTyped, RemoveFileTyped, DeleteRowTyped, DeleteAlbumRowTyped, ReassignTyped,
       SetAlbumTyped, IsEmptyTyped, ListEmptyTyped, MoveFileTyped, RepathTyped, SweepTyped,
       RenamedTyped DEF Serve, Serves
  <2> QED
    BY <1>7, <2>1, ChangeTyped DEF Serve, ingestVars
<1>8. CASE Crash
  BY <1>8, CrashTyped
<1> QED
  BY <1>1, <1>2, <1>3, <1>4, <1>5, <1>6, <1>7, <1>8 DEF Next

-----------------------------------------------------------------------------
(* The library at the start.                                               *)

LEMMA InitShelf ==
  ASSUME Init
  PROVE  /\ ShelfTyped
         /\ \A r, t \in Rows : rows[r].path = rows[t].path => r = t
         /\ \A p \in Paths : disk[p] # None <=> RowsAt(p) # {}
         /\ \A r \in Rows : rows[r].album \in Albums
<1>1. PICK S, at : /\ S \subseteq Songs /\ Holding(S, at)
                   /\ at = [s \in Songs |-> <<TagOf[s], NameOf[s]>>] /\ IsInjective(Restrict(at, S))
  BY DEF Init, LibraryInit
<1>2. ASSUME NEW s \in S PROVE at[s] \in Paths /\ at[s][1] \in Titles
  BY <1>1, LibraryAssumption, IngestAssumption DEF Paths
<1>3. \A s, t \in S : at[s] = at[t] => s = t
  <2>1. Restrict(at, S) = [s \in S |-> at[s]]
    BY DEF Restrict
  <2>2. \A s, t \in DOMAIN [x \in S |-> at[x]] : [x \in S |-> at[x]][s] = [x \in S |-> at[x]][t] => s = t
    BY <1>1, <2>1, Zenon DEF IsInjective
  <2> QED
    BY <2>2
<1>4. PICK ids : ids = CHOOSE f \in [S -> Tracks] : IsInjective(f)
  OBVIOUS
<1>5. ids \in [S -> Tracks] /\ IsInjective(ids)
  <2>1. PICK f \in [Songs -> Tracks] : IsInjective(f)
    BY LibraryAssumption
  <2>2. PICK g : g = [s \in S |-> f[s]]
    OBVIOUS
  <2>3. g \in [S -> Tracks]
    BY <1>1, <2>2
  <2>4. IsInjective(g)
    BY <1>1, <2>1, <2>2 DEF IsInjective
  <2> QED
    BY <1>4, <2>3, <2>4
<1>6. \A s, t \in S : ids[s] = ids[t] => s = t
  BY <1>5 DEF IsInjective
<1>7. PICK titles : titles = {at[s][1] : s \in S}
  OBVIOUS
<1>8. PICK of : of = CHOOSE f \in [titles -> Albums] : IsInjective(f)
  OBVIOUS
<1>9. of \in [titles -> Albums]
  <2>1. PICK f \in [Titles -> Albums] : IsInjective(f)
    BY LibraryAssumption
  <2>2. PICK g : g = [t \in titles |-> f[t]]
    OBVIOUS
  <2>3. titles \subseteq Titles
    BY <1>2, <1>7
  <2>4. g \in [titles -> Albums]
    BY <2>2, <2>3
  <2>5. IsInjective(g)
    BY <2>1, <2>2, <2>3 DEF IsInjective
  <2> QED
    BY <1>8, <2>4, <2>5
<1>10. /\ disk = [p \in Paths |-> IF \E s \in S : at[s] = p THEN CHOOSE s \in S : at[s] = p ELSE None]
       /\ rows = [r \in Tracks |-> IF \E s \in S : ids[s] = r
                                   THEN [path |-> at[CHOOSE s \in S : ids[s] = r],
                                         album |-> of[at[CHOOSE s \in S : ids[s] = r][1]]]
                                   ELSE None]
       /\ albums = [a \in Albums |-> IF \E t \in titles : of[t] = a
                                      THEN CHOOSE t \in titles : of[t] = a ELSE None]
  BY <1>1, <1>4, <1>7, <1>8, Zenon DEF Holding
<1>11. ASSUME NEW p \in Paths
       PROVE  /\ disk[p] \in Songs \cup {None}
              /\ disk[p] # None <=> \E s \in S : at[s] = p
  <2>1. CASE \E s \in S : at[s] = p
    <3>1. (CHOOSE s \in S : at[s] = p) \in S
      BY <2>1
    <3>2. disk[p] = CHOOSE s \in S : at[s] = p
      BY <1>10, <2>1
    <3> QED
      BY <3>1, <3>2, <2>1, <1>1, LibraryAssumption
  <2>2. CASE ~\E s \in S : at[s] = p
    BY <1>10, <2>2
  <2> QED
    BY <2>1, <2>2
<1>12. ASSUME NEW s \in S
       PROVE  rows[ids[s]] = [path |-> at[s], album |-> of[at[s][1]]]
  <2>1. (CHOOSE t \in S : ids[t] = ids[s]) = s
    BY <1>6
  <2>2. ids[s] \in Tracks
    BY <1>5
  <2> QED
    BY <1>10, <2>1, <2>2
<1>13. ASSUME NEW s \in S
       PROVE  [path |-> at[s], album |-> of[at[s][1]]] \in [path : Paths, album : Albums]
  <2>1. of[at[s][1]] \in Albums
    BY <1>7, <1>9
  <2> QED
    BY <2>1, <1>2
<1>14. ASSUME NEW r \in Tracks
       PROVE  /\ rows[r] \in Track \cup {None}
              /\ rows[r] # None => \E s \in S : ids[s] = r
  <2>1. CASE \E s \in S : ids[s] = r
    <3>1. PICK s \in S : ids[s] = r
      BY <2>1
    <3>2. rows[r] \in [path : Paths, album : Albums]
      BY <3>1, <1>12, <1>13
    <3>3. [path : Paths, album : Albums] \subseteq Track
      BY DEF Track, Ids
    <3> QED
      BY <2>1, <3>2, <3>3
  <2>2. CASE ~\E s \in S : ids[s] = r
    BY <1>10, <2>2
  <2> QED
    BY <2>1, <2>2
<1>15. ASSUME NEW a \in Albums PROVE albums[a] \in Titles \cup {None}
  <2>1. CASE \E t \in titles : of[t] = a
    <3>1. (CHOOSE t \in titles : of[t] = a) \in titles
      BY <2>1
    <3>2. albums[a] = CHOOSE t \in titles : of[t] = a
      BY <1>10, <2>1
    <3> QED
      BY <3>1, <3>2, <1>2, <1>7
  <2>2. CASE ~\E t \in titles : of[t] = a
    BY <1>10, <2>2
  <2> QED
    BY <2>1, <2>2
<1>16. ShelfTyped
  BY <1>10, <1>11, <1>14, <1>15 DEF ShelfTyped
<1>17. ASSUME NEW s \in S PROVE ids[s] \in Rows /\ rows[ids[s]].path = at[s]
  <2>1. PICK k : k = [path |-> at[s], album |-> of[at[s][1]]]
    OBVIOUS
  <2>2. k \in [path : Paths, album : Albums] /\ rows[ids[s]] = k
    BY <2>1, <1>12, <1>13
  <2>3. k # None
    BY <2>2, LibraryAssumption
  <2>4. k.path = at[s]
    BY <2>1
  <2>5. ids[s] \in Tracks
    BY <1>5
  <2> QED
    BY <2>2, <2>3, <2>4, <2>5 DEF Rows
<1>18. ASSUME NEW r \in Rows PROVE \E s \in S : ids[s] = r /\ rows[r].path = at[s]
  <2>1. PICK s \in S : ids[s] = r
    BY <1>14 DEF Rows
  <2> QED
    BY <2>1, <1>17
<1>19. \A r, t \in Rows : rows[r].path = rows[t].path => r = t
  BY <1>18, <1>3
<1>20. \A p \in Paths : disk[p] # None <=> RowsAt(p) # {}
  BY <1>11, <1>17, <1>18 DEF RowsAt
<1>21. ASSUME NEW r \in Rows PROVE rows[r].album \in Albums
  <2>1. PICK s \in S : ids[s] = r
    BY <1>14 DEF Rows
  <2>2. rows[r] \in [path : Paths, album : Albums]
    BY <2>1, <1>12, <1>13
  <2> QED
    BY <2>2
<1> QED
  BY <1>16, <1>19, <1>20, <1>21

LEMMA TypedInit ==
  ASSUME Init
  PROVE  Typed
<1>1. ShelfTyped
  BY InitShelf
<1>2. drops = {} /\ queue = <<>> /\ jobs = [w \in Workers |-> Idle]
  BY DEF Init, LibraryInit
<1>3. JobsTyped
  BY <1>2, IdleJob DEF JobsTyped
<1> QED
  BY <1>1, <1>2, <1>3 DEF Typed, DropsTyped

-----------------------------------------------------------------------------
(* No song is lost.                                                        *)

SongKept(s) == OnDisk(s) /\ ~OnDisk(s)' => s \in gone' \/ DeletesAnothers

LEMMA Overwritten ==
  ASSUME ShelfTyped, NEW p, NEW v, disk' = [disk EXCEPT ![p] = v],
         NEW s \in Songs, OnDisk(s), ~OnDisk(s)'
  PROVE  p \in Paths /\ disk[p] = s /\ v # s
<1>1. PICK q \in Paths : disk[q] = s
  BY DEF OnDisk
<1>2. disk'[q] # s
  BY <1>1 DEF OnDisk
<1> QED
  BY <1>1, <1>2 DEF ShelfTyped

LEMMA PlaceKeeps ==
  ASSUME Typed, NEW w \in Workers, Place(w), NEW s \in Songs, OnDisk(s), ~OnDisk(s)'
  PROVE  s \in gone'
<1>1. PICK p, x : /\ UNCHANGED disk \/ disk' = [disk EXCEPT ![p] = x]
                  /\ gone' = gone \cup (({disk[p], x} \ {disk'[p]}) \ {None})
  BY DEF Place
<1>2. disk' # disk
  BY DEF OnDisk
<1>3. p \in Paths /\ disk[p] = s /\ x # s
  BY <1>1, <1>2, Overwritten DEF Typed
<1>4. disk'[p] = x /\ s # None
  BY <1>1, <1>2, <1>3, LibraryAssumption DEF Typed, ShelfTyped
<1> QED
  BY <1>1, <1>3, <1>4

LEMMA RemoveFileKeeps ==
  ASSUME Typed, NEW m \in Managers, RemoveFile(m), NEW s \in Songs, OnDisk(s), ~OnDisk(s)'
  PROVE  s \in gone' \/ DeletesAnothers
<1>1. PICK j : j = jobs[m]
  OBVIOUS
<1>2. disk' = [disk EXCEPT ![j.path] = None]
  BY <1>1 DEF RemoveFile
<1>3. disk[j.path] = s
  BY <1>2, Overwritten DEF Typed
<1>4. CASE j.row \in RowsAt(j.path)
  <2>1. gone' = gone \cup ({s} \ {None})
    BY <1>1, <1>3, <1>4 DEF RemoveFile, Asked
  <2> QED
    BY <2>1, LibraryAssumption
<1>5. CASE j.row \notin RowsAt(j.path)
  <2>1. m \in Workers /\ j \in Job
    BY <1>1, OneJob, Roles DEF Typed
  <2>2. jobs' = [jobs EXCEPT ![m] = [j EXCEPT !.pc = "row"]]
    BY <1>1 DEF RemoveFile, Goes, Becomes
  <2>3. jobs'[m] = [j EXCEPT !.pc = "row"]
    BY <2>1, <2>2 DEF Typed, JobsTyped
  <2>4. jobs'[m].pc = "row"
    BY <2>1, <2>3 DEF Job
  <2>5. j.pc = "remove"
    BY <1>1 DEF RemoveFile
  <2> QED
    BY <1>1, <1>5, <2>4, <2>5 DEF DeletesAnothers
<1> QED
  BY <1>4, <1>5

LEMMA MoveFileKeeps ==
  ASSUME Typed, NEW m \in Managers, MoveFile(m), NEW s \in Songs, OnDisk(s), ~OnDisk(s)'
  PROVE  s \in gone'
<1>1. PICK j : j = jobs[m]
  OBVIOUS
<1>2. j \in Job /\ Fine(m, j) /\ j.pc = "move" /\ j.list # {}
  BY <1>1, OneJob, Roles DEF Typed, MoveFile
<1>3. PICK x : x = First(j.list)
  OBVIOUS
<1>4. x \in j.list /\ j.title \in Titles
  BY <1>2, <1>3, FirstIn DEF Fine
<1>5. PICK p, q : p = x[2] /\ q = <<j.title, p[2]>>
  OBVIOUS
<1>6. p \in Paths /\ q \in Paths
  BY <1>2, <1>4, <1>5 DEF Job, Pairs, Paths
<1>7. /\ ~Stays(p, q) /\ disk' = Moved(p, q)
      /\ gone' = gone \cup (IF Dropped(p, q) THEN {disk[p]} \ {disk[q]} ELSE {})
  <2>1. disk' # disk
    BY DEF OnDisk
  <2> QED
    BY <1>1, <1>3, <1>5, <2>1 DEF MoveFile
<1>8. PICK f \in Paths : disk[f] = s /\ disk'[f] # s /\ s # None
  BY LibraryAssumption DEF OnDisk
<1>9. p # q /\ disk[p] # None
  BY <1>7, <1>8 DEF Stays, Moved
<1>10. CASE Dropped(p, q)
  <2>1. disk' = [disk EXCEPT ![p] = None, ![q] = disk[q]]
    BY <1>7, <1>9, <1>10 DEF Stays, Moved, Dropped
  <2>2. f = p /\ disk'[q] = disk[q]
    BY <1>5, <1>6, <1>8, <1>9, <2>1 DEF Typed, ShelfTyped
  <2>3. disk[q] # s
    BY <1>6, <2>2 DEF OnDisk
  <2> QED
    BY <1>7, <1>8, <1>10, <2>2, <2>3
<1>11. CASE ~Dropped(p, q)
  <2>1. disk' = [disk EXCEPT ![p] = None, ![q] = disk[p]] /\ disk[q] = None
    BY <1>7, <1>9, <1>11 DEF Stays, Moved, Dropped, Collides
  <2>2. f = p /\ disk'[q] = disk[p]
    BY <1>6, <1>8, <1>9, <2>1 DEF Typed, ShelfTyped
  <2> QED
    BY <1>6, <1>8, <2>2 DEF OnDisk
<1> QED
  BY <1>10, <1>11

LEMMA SweepKeeps ==
  ASSUME Typed, NEW m \in Managers, Sweep(m), NEW s \in Songs, OnDisk(s), ~OnDisk(s)'
  PROVE  s \in gone'
<1>1. PICK j : j = jobs[m]
  OBVIOUS
<1>2. j \in Job /\ Fine(m, j) /\ j.pc = "move"
  BY <1>1, OneJob, Roles DEF Typed, Sweep
<1>3. j.title \in Titles
  BY <1>2 DEF Fine
<1>4. PICK d \in j.dirs :
        /\ disk' = Swept(d, j.title)
        /\ gone' = gone \cup ({disk[p] : p \in Leftover(d, j.title)}
                               \ {disk'[<<j.title, n>>] : n \in NamesIn(Leftover(d, j.title))})
  BY <1>1 DEF Sweep
<1>5. PICK f \in Paths : disk[f] = s /\ disk'[f] # s /\ s # None
  BY LibraryAssumption DEF OnDisk
<1>6. f \in Leftover(d, j.title)
  BY <1>4, <1>5 DEF Swept
<1>7. ASSUME NEW n \in NamesIn(Leftover(d, j.title)) PROVE disk'[<<j.title, n>>] # s
  <2>1. <<j.title, n>> \in Paths
    BY <1>3, <1>7 DEF NamesIn, Leftover, FilesOf, Paths
  <2> QED
    BY <2>1 DEF OnDisk
<1> QED
  BY <1>4, <1>5, <1>6, <1>7

LEMMA SongsStay ==
  ASSUME Typed, [Next]_vars, NEW s \in Songs
  PROVE  SongKept(s)
<1> SUFFICES ASSUME OnDisk(s), ~OnDisk(s)' PROVE s \in gone' \/ DeletesAnothers
  BY DEF SongKept
<1>0. disk' # disk
  BY DEF OnDisk
<1>1. CASE UNCHANGED vars
  BY <1>0, <1>1 DEF vars, libraryVars
<1>2. ASSUME NEW x \in Songs, Drop(x) \/ Upload(x) PROVE FALSE
  BY <1>0, <1>2 DEF Drop, Upload, Request
<1>3. ~Dispatch /\ ~RefreshStep /\ ~Crash
  BY <1>0 DEF Dispatch, RefreshStep, StartRefresh, Walk, CheckFile, Prune, Crash
<1>4. ASSUME NEW w \in Workers, IngestStep(w) PROVE s \in gone'
  <2>1. Place(w)
    BY <1>0, <1>4 DEF IngestStep, ListFolder, FindAlbum, CreateAlbum, FindRow, Insert
  <2> QED
    BY <2>1, PlaceKeeps
<1>5. ASSUME NEW m \in Managers, Ask(m) PROVE FALSE
  BY <1>0, <1>5 DEF Ask, Asks, DeleteTrack, DeleteAlbum, MergeAlbums, MoveTrack, RenameAlbumFolder, Request
<1>6. ASSUME NEW m \in Managers, Serve(m) PROVE s \in gone' \/ DeletesAnothers
  <2>1. RemoveFile(m) \/ MoveFile(m) \/ Sweep(m)
    BY <1>0, <1>6 DEF Serve, Serves, NextTrack, DeleteRow, DeleteAlbumRow, Reassign, SetAlbum,
       IsEmpty, ListEmpty, Repath, Renamed
  <2> QED
    BY <2>1, RemoveFileKeeps, MoveFileKeeps, SweepKeeps
<1> QED
  BY <1>1, <1>2, <1>3, <1>4, <1>5, <1>6 DEF Next

\* A song's last file leaves the disk only when a request was to delete it, when
\* another song took its place, or when a delete removes what has come to the
\* path it read; any number of requests, tasks and restarts beside one another.
THEOREM NoSongLost == Spec => SongsKept
<1>1. Init => Typed
  BY TypedInit
<1>2. Typed /\ [Next]_vars => Typed'
  BY TypedStep
<1>3. Typed /\ [Next]_vars => \A s \in Songs : SongKept(s)
  BY SongsStay
<1>4. (\A s \in Songs : SongKept(s))
        => [\A s \in Songs : OnDisk(s) /\ ~OnDisk(s)' => s \in gone' \/ DeletesAnothers]_vars
  BY DEF SongKept
<1> QED
  BY <1>1, <1>2, <1>3, <1>4, PTL DEF Spec, SongsKept

-----------------------------------------------------------------------------
(* The catalogue and the disk agree while nothing overlaps.                *)

\* There is an id for another track and one for another album.
IdsLeft == NewTracks # {} /\ NewAlbums # {}

\* No two rows name one path.
Unique == \A r, t \in Rows : rows[r].path = rows[t].path => r = t

Agree(p) == disk[p] # None <=> RowsAt(p) # {}
AgreeBut(S) == \A p \in Paths \ S : Agree(p)
Kept(a) == a \in Albums /\ albums[a] # None
RowsFiled == \A r \in Rows : rows[r].album \in Albums
IdsOf(list) == {x[1] : x \in list}

\* Where the disk and the rows stand when j is the only job at work.
Doing(j) ==
    /\ j.pc \in {"album", "create", "place", "walk", "check", "remove", "tracks", "reassign",
                 "set", "empty", "list", "move"} => AgreeBut({})
    /\ j.pc \in {"find", "album again", "create again", "insert"}
         => AgreeBut({j.path}) /\ disk[j.path] # None
    /\ j.pc \in {"place", "find", "insert"} => Kept(j.album)
    /\ j.pc \in {"check", "move"} => j.list \subseteq Listed(Rows)
    /\ j.pc # "prune"
    /\ j.pc \in {"remove", "row"}
         => /\ j.row \in RowsAt(j.path)
            /\ j.album # None => RowsOf(j.album) \subseteq IdsOf(j.list) \cup {j.row}
    /\ j.pc = "row" => AgreeBut({j.path}) /\ disk[j.path] = None
    /\ j.pc = "tracks" => RowsOf(j.album) \subseteq IdsOf(j.list)
    /\ j.pc = "reassign" => j.album # j.target
    /\ j.pc \in {"reassign", "set"} => j.target \in Albums
    /\ j.pc = "repath"
         => /\ j.row \in Rows /\ j.list \subseteq Listed(Rows \ {j.row})
            /\ disk[j.path] # None /\ disk[rows[j.row].path] = None /\ RowsAt(j.path) = {}
            /\ AgreeBut({j.path, rows[j.row].path})

Calm == ~overlapped /\ ~mishap
Alone ==
    Calm => /\ \A w, v \in Workers : AtWork(w) /\ AtWork(v) => w = v
            /\ (\A w \in Workers : ~AtWork(w)) => AgreeBut({})
            /\ \A w \in Workers : AtWork(w) => Doing(jobs[w])
            /\ RowsFiled

CalmInv == Typed /\ Unique /\ Alone

\* What the step of a worker that is alone has to bring about.
Leaves(w) ==
    /\ RowsFiled'
    /\ AtWork(w)' => Doing(jobs[w])'
    /\ ~AtWork(w)' => AgreeBut({})'

LEMMA Same ==
  ASSUME UNCHANGED <<disk, rows, albums>>, RowsFiled, NEW w \in Workers, NEW k, jobs'[w] = k,
         k.pc \notin {"idle", "settle"} => Doing(k),
         k.pc \in {"idle", "settle"} => AgreeBut({})
  PROVE  Leaves(w)
<1>1. /\ Rows' = Rows /\ \A p : RowsAt(p)' = RowsAt(p) /\ \A a : RowsOf(a)' = RowsOf(a)
  BY DEF Rows, RowsAt, RowsOf
<1>2. RowsFiled' /\ \A S : AgreeBut(S)' <=> AgreeBut(S)
  BY <1>1 DEF RowsFiled, AgreeBut, Agree
<1>3. \A S : Listed(S)' = Listed(S)
  BY DEF Listed
<1>4. \A a : Kept(a)' <=> Kept(a)
  BY DEF Kept
<1>5. Doing(k) => Doing(k)'
  BY <1>1, <1>2, <1>3, <1>4 DEF Doing
<1>6. AtWork(w)' <=> k.pc \notin {"idle", "settle"}
  BY DEF AtWork
<1> QED
  BY <1>2, <1>5, <1>6 DEF Leaves

LEMMA ListedIds ==
  ASSUME NEW S
  PROVE  IdsOf(Listed(S)) = S /\ \A T \in SUBSET S : Listed(T) \subseteq Listed(S)
<1>1. \A r \in S : <<r, rows[r].path>> \in Listed(S)
  BY DEF Listed
<1>2. \A r \in S : <<r, rows[r].path>>[1] = r
  OBVIOUS
<1>3. S \subseteq IdsOf(Listed(S))
  BY <1>1, <1>2 DEF IdsOf
<1>4. \A x \in Listed(S) : x[1] \in S
  BY DEF Listed
<1>5. IdsOf(Listed(S)) \subseteq S
  BY <1>4 DEF IdsOf
<1>6. ASSUME NEW T \in SUBSET S PROVE Listed(T) \subseteq Listed(S)
  BY DEF Listed
<1> QED
  BY <1>3, <1>5, <1>6


LEMMA DeleteTrackAlone ==
  ASSUME Typed, Unique, RowsFiled, IdsLeft, NEW m \in Managers, NEW r \in Tracks, DeleteTrack(m, r), AgreeBut({})
  PROVE  Leaves(m)
<1>1. PICK j : j = jobs[m]
  OBVIOUS
<1>2. m \in Workers /\ j \in Job /\ Fine(m, j) /\ jobs \in [Workers -> Job]
  BY <1>1, OneJob, Roles DEF Typed, JobsTyped
<1>3. r \in RowsAt(rows[r].path)
  BY <1>1, <1>2 DEF DeleteTrack, RowsAt, Rows
<1>4. Leaves(m)
  <2>1. PICK k : k = [Idle EXCEPT !.pc = "remove", !.row = r, !.path = rows[r].path]
    OBVIOUS
  <2>2. jobs'[m] = k
    BY <1>1, <1>2, <2>1 DEF DeleteTrack, Becomes, Goes
  <2>3. k.pc = "remove" /\ k.row = r /\ k.path = rows[r].path /\ k.album = None
    BY <1>2, <2>1 DEF Idle
  <2>4. Doing(k)
    BY <1>3, <2>3 DEF Doing
  <2> QED
    BY <1>2, <2>2, <2>3, <2>4, Same DEF DeleteTrack, Request
<1> QED
  BY <1>4

LEMMA DeleteAlbumAlone ==
  ASSUME Typed, Unique, RowsFiled, IdsLeft, NEW m \in Managers, NEW a \in Albums, DeleteAlbum(m, a), AgreeBut({})
  PROVE  Leaves(m)
<1>1. PICK j : j = jobs[m]
  OBVIOUS
<1>2. m \in Workers /\ j \in Job /\ Fine(m, j) /\ jobs \in [Workers -> Job]
  BY <1>1, OneJob, Roles DEF Typed, JobsTyped
<1>3. RowsOf(a) \subseteq IdsOf(Listed(RowsOf(a)))
  BY <1>1, <1>2, ListedIds
<1>4. Leaves(m)
  <2>1. PICK k : k = [Idle EXCEPT !.pc = "tracks", !.album = a, !.list = Listed(RowsOf(a))]
    OBVIOUS
  <2>2. jobs'[m] = k
    BY <1>1, <1>2, <2>1 DEF DeleteAlbum, Becomes, Goes
  <2>3. k.pc = "tracks" /\ k.album = a /\ k.list = Listed(RowsOf(a))
    BY <1>2, <2>1 DEF Idle
  <2>4. Doing(k)
    BY <1>3, <2>3 DEF Doing
  <2> QED
    BY <1>2, <2>2, <2>3, <2>4, Same DEF DeleteAlbum, Request
<1> QED
  BY <1>4

LEMMA MergeAlbumsAlone ==
  ASSUME Typed, Unique, RowsFiled, IdsLeft, NEW m \in Managers, NEW a \in Albums, NEW b \in Albums, MergeAlbums(m, a, b), AgreeBut({})
  PROVE  Leaves(m)
<1>1. PICK j : j = jobs[m]
  OBVIOUS
<1>2. m \in Workers /\ j \in Job /\ Fine(m, j) /\ jobs \in [Workers -> Job]
  BY <1>1, OneJob, Roles DEF Typed, JobsTyped
<1>3. a # b
  BY <1>1, <1>2 DEF MergeAlbums
<1>4. Leaves(m)
  <2>1. PICK k : k = [Idle EXCEPT !.pc = "reassign", !.album = b, !.target = a]
    OBVIOUS
  <2>2. jobs'[m] = k
    BY <1>1, <1>2, <2>1 DEF MergeAlbums, Becomes, Goes
  <2>3. k.pc = "reassign" /\ k.album = b /\ k.target = a
    BY <1>2, <2>1 DEF Idle
  <2>4. Doing(k)
    BY <1>3, <2>3 DEF Doing
  <2> QED
    BY <1>2, <2>2, <2>3, <2>4, Same DEF MergeAlbums, Request
<1> QED
  BY <1>4

LEMMA MoveTrackAlone ==
  ASSUME Typed, Unique, RowsFiled, IdsLeft, NEW m \in Managers, NEW r \in Tracks, NEW a \in Albums, MoveTrack(m, r, a), AgreeBut({})
  PROVE  Leaves(m)
<1>1. PICK j : j = jobs[m]
  OBVIOUS
<1>2. m \in Workers /\ j \in Job /\ Fine(m, j) /\ jobs \in [Workers -> Job]
  BY <1>1, OneJob, Roles DEF Typed, JobsTyped
<1>3. Leaves(m)
  <2>1. PICK k : k = [Idle EXCEPT !.pc = "set", !.row = r, !.album = rows[r].album, !.target = a]
    OBVIOUS
  <2>2. jobs'[m] = k
    BY <1>1, <1>2, <2>1 DEF MoveTrack, Becomes, Goes
  <2>3. k.pc = "set" /\ k.target = a
    BY <1>2, <2>1 DEF Idle
  <2>4. Doing(k)
    BY <2>3 DEF Doing
  <2> QED
    BY <1>2, <2>2, <2>3, <2>4, Same DEF MoveTrack, Request
<1> QED
  BY <1>3

LEMMA RenameAlbumFolderAlone ==
  ASSUME Typed, Unique, RowsFiled, IdsLeft, NEW m \in Managers, NEW a \in Albums, NEW f \in Titles, RenameAlbumFolder(m, a, f), AgreeBut({})
  PROVE  Leaves(m)
<1>1. PICK j : j = jobs[m]
  OBVIOUS
<1>2. m \in Workers /\ j \in Job /\ Fine(m, j) /\ jobs \in [Workers -> Job]
  BY <1>1, OneJob, Roles DEF Typed, JobsTyped
<1>3. Listed(RowsOf(a)) \subseteq Listed(Rows)
  BY <1>1, <1>2, ListedIds DEF RowsOf
<1>4. Leaves(m)
  <2>1. PICK k : k = [Idle EXCEPT !.pc = "move", !.album = a, !.title = f, !.list = Listed(RowsOf(a))]
    OBVIOUS
  <2>2. jobs'[m] = k
    BY <1>1, <1>2, <2>1 DEF RenameAlbumFolder, Becomes, Goes
  <2>3. k.pc = "move" /\ k.list = Listed(RowsOf(a))
    BY <1>2, <2>1 DEF Idle
  <2>4. Doing(k)
    BY <1>3, <2>3 DEF Doing
  <2> QED
    BY <1>2, <2>2, <2>3, <2>4, Same DEF RenameAlbumFolder, Request
<1> QED
  BY <1>4

LEMMA UploadAlone ==
  ASSUME Typed, Unique, RowsFiled, IdsLeft, NEW s \in Songs, Upload(s), AgreeBut({})
  PROVE  Leaves(Uploader)
<1>1. PICK j : j = jobs[Uploader]
  OBVIOUS
<1>2. Uploader \in Workers /\ j \in Job /\ Fine(Uploader, j) /\ jobs \in [Workers -> Job]
  BY <1>1, OneJob, Roles DEF Typed, JobsTyped
<1>3. Leaves(Uploader)
  <2>1. PICK k : k = [Idle EXCEPT !.pc = "album", !.files = {s}, !.title = TagOf[s]]
    OBVIOUS
  <2>2. jobs'[Uploader] = k
    BY <1>1, <1>2, <2>1 DEF Upload, Becomes, Goes
  <2>3. k.pc = "album"
    BY <1>2, <2>1 DEF Idle
  <2>4. Doing(k)
    BY <2>3 DEF Doing
  <2> QED
    BY <1>2, <2>2, <2>3, <2>4, Same DEF Upload, Request
<1> QED
  BY <1>3

LEMMA StartRefreshAlone ==
  ASSUME Typed, Unique, RowsFiled, IdsLeft, StartRefresh, AgreeBut({})
  PROVE  Leaves(Refresher)
<1>1. PICK j : j = jobs[Refresher]
  OBVIOUS
<1>2. Refresher \in Workers /\ j \in Job /\ Fine(Refresher, j) /\ jobs \in [Workers -> Job]
  BY <1>1, OneJob, Roles DEF Typed, JobsTyped
<1>3. Leaves(Refresher)
  <2>1. PICK k : k = [Idle EXCEPT !.pc = "walk", !.dirs = Titles]
    OBVIOUS
  <2>2. jobs'[Refresher] = k
    BY <1>1, <1>2, <2>1 DEF StartRefresh, Becomes, Goes
  <2>3. k.pc = "walk"
    BY <1>2, <2>1 DEF Idle
  <2>4. Doing(k)
    BY <2>3 DEF Doing
  <2> QED
    BY <1>2, <2>2, <2>3, <2>4, Same DEF StartRefresh, Request
<1> QED
  BY <1>3

LEMMA ListFolderAlone ==
  ASSUME Typed, Unique, RowsFiled, IdsLeft, NEW w \in Workers, ListFolder(w), AgreeBut({})
  PROVE  Leaves(w)
<1>1. PICK j : j = jobs[w]
  OBVIOUS
<1>2. j \in Job /\ jobs \in [Workers -> Job]
  BY <1>1, OneJob DEF Typed, JobsTyped
<1>3. PICK d, t : Becomes(w, [j EXCEPT !.dirs = @ \ {d}, !.files = Source(d), !.title = t, !.pc = "album"])
  BY <1>1 DEF ListFolder
<1>4. PICK k : k = [j EXCEPT !.dirs = @ \ {d}, !.files = Source(d), !.title = t, !.pc = "album"]
  OBVIOUS
<1>5. jobs'[w] = k
  BY <1>2, <1>3, <1>4 DEF Becomes
<1>6. k.pc = "album"
  BY <1>2, <1>4 DEF Job
<1>7. Doing(k)
  BY <1>6 DEF Doing
<1> QED
  BY <1>5, <1>6, <1>7, Same DEF ListFolder

LEMMA NextTrackAlone ==
  ASSUME Typed, Unique, RowsFiled, IdsLeft, NEW m \in Managers, NextTrack(m), Doing(jobs[m])
  PROVE  Leaves(m)
<1>1. PICK j : j = jobs[m]
  OBVIOUS
<1>2. m \in Workers /\ j \in Job /\ Fine(m, j) /\ jobs \in [Workers -> Job]
  BY <1>1, OneJob, Roles DEF Typed, JobsTyped
<1>x. PICK x : x = First(j.list)
  OBVIOUS
<1>0. Doing(j)
  BY <1>1
<1>3. j.pc = "tracks" /\ j.list # {}
  BY <1>1, <1>2, <1>x, <1>0 DEF NextTrack
<1>4. x \in j.list
  BY <1>1, <1>2, <1>x, <1>0, <1>3, FirstIn
<1>5. x[1] \in Tracks
  BY <1>1, <1>2, <1>x, <1>0, <1>3, <1>4 DEF Job, Pairs
<1>6. IdsOf(j.list) \subseteq IdsOf(j.list \ {x}) \cup {x[1]}
  BY <1>1, <1>2, <1>x, <1>0, <1>3, <1>4, <1>5 DEF IdsOf
<1>7. rows[x[1]] # None => x[1] \in RowsAt(rows[x[1]].path)
  BY <1>1, <1>2, <1>x, <1>0, <1>3, <1>4, <1>5, <1>6 DEF RowsAt, Rows
<1>8. rows[x[1]] = None => x[1] \notin RowsOf(j.album)
  BY <1>1, <1>2, <1>x, <1>0, <1>3, <1>4, <1>5, <1>6, <1>7 DEF RowsOf, Rows
<1>9. ASSUME rows[x[1]] = None PROVE Leaves(m)
  <2>1. PICK k : k = [j EXCEPT !.list = @ \ {x}]
    OBVIOUS
  <2>2. jobs'[m] = k
    BY <1>1, <1>2, <1>x, <2>1, <1>9 DEF NextTrack, Becomes, Goes
  <2>3. k.pc = "tracks" /\ k.album = j.album /\ k.list = j.list \ {x}
    BY <1>2, <2>1, <1>3 DEF Job
  <2>4. Doing(k)
    BY <1>0, <1>3, <1>4, <1>5, <1>6, <1>7, <1>8, <2>3, <1>9 DEF Doing
  <2> QED
    BY <1>2, <2>2, <2>3, <2>4, Same DEF NextTrack, Request
<1>10. ASSUME rows[x[1]] # None PROVE Leaves(m)
  <2>1. PICK k : k = [j EXCEPT !.list = @ \ {x}, !.pc = "remove", !.row = x[1], !.path = rows[x[1]].path]
    OBVIOUS
  <2>2. jobs'[m] = k
    BY <1>1, <1>2, <1>x, <2>1, <1>10 DEF NextTrack, Becomes, Goes
  <2>3. k.pc = "remove" /\ k.album = j.album /\ k.list = j.list \ {x} /\ k.row = x[1] /\ k.path = rows[x[1]].path
    BY <1>2, <2>1, <1>3 DEF Job
  <2>4. Doing(k)
    BY <1>0, <1>3, <1>4, <1>5, <1>6, <1>7, <1>8, <2>3, <1>10 DEF Doing
  <2> QED
    BY <1>2, <2>2, <2>3, <2>4, Same DEF NextTrack, Request
<1> QED
  BY <1>9, <1>10

LEMMA IsEmptyAlone ==
  ASSUME Typed, Unique, RowsFiled, IdsLeft, NEW m \in Managers, IsEmpty(m), Doing(jobs[m])
  PROVE  Leaves(m)
<1>1. PICK j : j = jobs[m]
  OBVIOUS
<1>2. m \in Workers /\ j \in Job /\ Fine(m, j) /\ jobs \in [Workers -> Job]
  BY <1>1, OneJob, Roles DEF Typed, JobsTyped
<1>0. Doing(j)
  BY <1>1
<1>3. j.pc = "empty"
  BY <1>1, <1>2, <1>0 DEF IsEmpty
<1>4. ASSUME ~(RowsOf(j.album) = {} /\ albums[j.album] # None) PROVE Leaves(m)
  <2>1. PICK k : k = Idle
    OBVIOUS
  <2>2. jobs'[m] = k
    BY <1>1, <1>2, <2>1, <1>4 DEF IsEmpty, Becomes, Goes
  <2>3. k.pc = "idle"
    BY <1>2, <2>1, <1>3 DEF Idle
  <2>4. AgreeBut({})
    BY <1>0, <1>3, <2>3 DEF Doing
  <2> QED
    BY <1>2, <2>2, <2>3, <2>4, Same DEF IsEmpty, Request
<1>5. ASSUME RowsOf(j.album) = {} /\ albums[j.album] # None PROVE Leaves(m)
  <2>1. PICK k : k = [j EXCEPT !.pc = "list"]
    OBVIOUS
  <2>2. jobs'[m] = k
    BY <1>1, <1>2, <2>1, <1>5 DEF IsEmpty, Becomes, Goes
  <2>3. k.pc = "list"
    BY <1>2, <2>1, <1>3 DEF Job
  <2>4. Doing(k)
    BY <1>0, <1>3, <2>3, <1>5 DEF Doing
  <2> QED
    BY <1>2, <2>2, <2>3, <2>4, Same DEF IsEmpty, Request
<1> QED
  BY <1>4, <1>5

LEMMA ListEmptyAlone ==
  ASSUME Typed, Unique, RowsFiled, IdsLeft, NEW m \in Managers, ListEmpty(m), Doing(jobs[m])
  PROVE  Leaves(m)
<1>1. PICK j : j = jobs[m]
  OBVIOUS
<1>2. m \in Workers /\ j \in Job /\ Fine(m, j) /\ jobs \in [Workers -> Job]
  BY <1>1, OneJob, Roles DEF Typed, JobsTyped
<1>0. Doing(j)
  BY <1>1
<1>3. j.pc = "list"
  BY <1>1, <1>2, <1>0 DEF ListEmpty
<1>4. RowsOf(j.album) \subseteq IdsOf(Listed(RowsOf(j.album)))
  BY <1>1, <1>2, <1>0, <1>3, ListedIds
<1>5. ASSUME albums[j.album] = None PROVE Leaves(m)
  <2>1. PICK k : k = Idle
    OBVIOUS
  <2>2. jobs'[m] = k
    BY <1>1, <1>2, <2>1, <1>5 DEF ListEmpty, Becomes, Goes
  <2>3. k.pc = "idle"
    BY <1>2, <2>1, <1>3 DEF Idle
  <2>4. AgreeBut({})
    BY <1>0, <1>3, <1>4, <2>3 DEF Doing
  <2> QED
    BY <1>2, <2>2, <2>3, <2>4, Same DEF ListEmpty, Request
<1>6. ASSUME albums[j.album] # None PROVE Leaves(m)
  <2>1. PICK k : k = [j EXCEPT !.pc = "tracks", !.list = Listed(RowsOf(j.album))]
    OBVIOUS
  <2>2. jobs'[m] = k
    BY <1>1, <1>2, <2>1, <1>6 DEF ListEmpty, Becomes, Goes
  <2>3. k.pc = "tracks" /\ k.album = j.album /\ k.list = Listed(RowsOf(j.album))
    BY <1>2, <2>1, <1>3 DEF Job
  <2>4. Doing(k)
    BY <1>0, <1>3, <1>4, <2>3, <1>6 DEF Doing
  <2> QED
    BY <1>2, <2>2, <2>3, <2>4, Same DEF ListEmpty, Request
<1> QED
  BY <1>5, <1>6

LEMMA RenamedAlone ==
  ASSUME Typed, Unique, RowsFiled, IdsLeft, NEW m \in Managers, Renamed(m), Doing(jobs[m])
  PROVE  Leaves(m)
<1>1. PICK j : j = jobs[m]
  OBVIOUS
<1>2. m \in Workers /\ j \in Job /\ Fine(m, j) /\ jobs \in [Workers -> Job]
  BY <1>1, OneJob, Roles DEF Typed, JobsTyped
<1>0. Doing(j)
  BY <1>1
<1>3. j.pc = "move"
  BY <1>1, <1>2, <1>0 DEF Renamed
<1>4. Leaves(m)
  <2>1. PICK k : k = Idle
    OBVIOUS
  <2>2. jobs'[m] = k
    BY <1>1, <1>2, <2>1 DEF Renamed, Becomes, Goes
  <2>3. k.pc = "idle"
    BY <1>2, <2>1, <1>3 DEF Idle
  <2>4. AgreeBut({})
    BY <1>0, <1>3, <2>3 DEF Doing
  <2> QED
    BY <1>2, <2>2, <2>3, <2>4, Same DEF Renamed, Request
<1> QED
  BY <1>4

LEMMA SamePaths ==
  ASSUME UNCHANGED disk, Rows' = Rows, \A r \in Rows : rows'[r].path = rows[r].path
  PROVE  /\ \A p : RowsAt(p)' = RowsAt(p)
         /\ \A S : AgreeBut(S)' <=> AgreeBut(S)
<1>1. \A p : RowsAt(p)' = RowsAt(p)
  BY DEF RowsAt
<1> QED
  BY <1>1 DEF AgreeBut, Agree

LEMMA FindAlbumAlone ==
  ASSUME Typed, Unique, RowsFiled, IdsLeft, NEW w \in Workers, FindAlbum(w), Doing(jobs[w])
  PROVE  Leaves(w)
<1>1. PICK j : j = jobs[w]
  OBVIOUS
<1>2. w \in Workers /\ j \in Job /\ Fine(w, j) /\ jobs \in [Workers -> Job]
  BY <1>1, OneJob, Roles DEF Typed, JobsTyped
<1>0. Doing(j)
  BY <1>1
<1>3. j.pc \in {"album", "album again"}
  BY <1>1, <1>2, <1>0 DEF FindAlbum
<1>4. j.title \in Titles
  BY <1>1, <1>2, <1>0, <1>3 DEF Fine, Filing
<1>5. \A a \in Titled(j.title) : Kept(a)
  BY <1>1, <1>2, <1>0, <1>3, <1>4, LibraryAssumption DEF Titled, Kept
<1>6. ASSUME Titled(j.title) = {}, j.pc = "album" PROVE Leaves(w)
  <2>1. PICK k : k = [j EXCEPT !.pc = "create"]
    OBVIOUS
  <2>2. jobs'[w] = k
    BY <1>1, <1>2, <2>1, <1>6 DEF FindAlbum, Becomes, Goes
  <2>3. k.pc = "create"
    BY <1>2, <2>1, <1>3 DEF Job
  <2>4. Doing(k)
    BY <1>0, <1>3, <1>4, <1>5, <2>3, <1>6 DEF Doing
  <2> QED
    BY <1>2, <2>2, <2>3, <2>4, Same DEF FindAlbum, Request
<1>7. ASSUME Titled(j.title) = {}, j.pc = "album again" PROVE Leaves(w)
  <2>1. PICK k : k = [j EXCEPT !.pc = "create again"]
    OBVIOUS
  <2>2. jobs'[w] = k
    BY <1>1, <1>2, <2>1, <1>7 DEF FindAlbum, Becomes, Goes
  <2>3. k.pc = "create again" /\ k.path = j.path
    BY <1>2, <2>1, <1>3 DEF Job
  <2>4. Doing(k)
    BY <1>0, <1>3, <1>4, <1>5, <2>3, <1>7 DEF Doing
  <2> QED
    BY <1>2, <2>2, <2>3, <2>4, Same DEF FindAlbum, Request
<1>8. ASSUME Titled(j.title) # {}, j.pc = "album", NEW a \in Titled(j.title), Becomes(w, [j EXCEPT !.album = a, !.pc = "place"]) PROVE Leaves(w)
  <2>1. PICK k : k = [j EXCEPT !.album = a, !.pc = "place"]
    OBVIOUS
  <2>2. jobs'[w] = k
    BY <1>1, <1>2, <2>1, <1>8 DEF FindAlbum, Becomes, Goes
  <2>3. k.pc = "place" /\ k.album = a
    BY <1>2, <2>1, <1>3 DEF Job
  <2>4. Doing(k)
    BY <1>0, <1>3, <1>4, <1>5, <2>3, <1>8 DEF Doing
  <2> QED
    BY <1>2, <2>2, <2>3, <2>4, Same DEF FindAlbum, Request
<1>9. ASSUME Titled(j.title) # {}, j.pc = "album again", NEW a \in Titled(j.title), Becomes(w, [j EXCEPT !.album = a, !.pc = "insert"]) PROVE Leaves(w)
  <2>1. PICK k : k = [j EXCEPT !.album = a, !.pc = "insert"]
    OBVIOUS
  <2>2. jobs'[w] = k
    BY <1>1, <1>2, <2>1, <1>9 DEF FindAlbum, Becomes, Goes
  <2>3. k.pc = "insert" /\ k.album = a /\ k.path = j.path
    BY <1>2, <2>1, <1>3 DEF Job
  <2>4. Doing(k)
    BY <1>0, <1>3, <1>4, <1>5, <2>3, <1>9 DEF Doing
  <2> QED
    BY <1>2, <2>2, <2>3, <2>4, Same DEF FindAlbum, Request
<1> QED
  BY <1>6, <1>7, <1>8, <1>9, <1>1, <1>3 DEF FindAlbum

LEMMA CreateAlbumAlone ==
  ASSUME Typed, Unique, RowsFiled, IdsLeft, NEW w \in Workers, CreateAlbum(w), Doing(jobs[w])
  PROVE  Leaves(w)
<1>1. PICK j : j = jobs[w]
  OBVIOUS
<1>2. j \in Job /\ Fine(w, j) /\ jobs \in [Workers -> Job] /\ Doing(j)
  BY <1>1, OneJob DEF Typed, JobsTyped
<1>3. j.pc \in {"create", "create again"}
  BY <1>1 DEF CreateAlbum
<1>4. j.title \in Titles /\ j.title # None
  BY <1>2, <1>3, LibraryAssumption DEF Fine, Filing
<1>5. FreshAlbum \in Albums
  BY FirstIn DEF FreshAlbum, IdsLeft, NewAlbums
<1>6. UNCHANGED <<disk, rows>>
  BY DEF CreateAlbum
<1>7. PICK a : a = FreshAlbum
  OBVIOUS
<1>8. a \in Albums /\ albums'[a] # None
  BY <1>4, <1>5, <1>7, <1>1 DEF CreateAlbum, Typed, ShelfTyped
<1>9. Rows' = Rows
  BY <1>6 DEF Rows
<1>10. \A S : AgreeBut(S)' <=> AgreeBut(S)
  BY <1>6, <1>9, SamePaths
<1>11. RowsFiled'
  BY <1>6, <1>9 DEF RowsFiled
<1>12. CASE j.pc = "create"
  <2>1. PICK k : k = [j EXCEPT !.album = a, !.pc = "place"]
    OBVIOUS
  <2>2. jobs'[w] = k
    BY <1>1, <1>2, <1>7, <1>12, <2>1 DEF CreateAlbum, Becomes
  <2>3. k.pc = "place" /\ k.album = a
    BY <1>2, <2>1 DEF Job
  <2>4. AgreeBut({})'
    BY <1>2, <1>10, <1>12 DEF Doing
  <2>5. Kept(a)'
    BY <1>8 DEF Kept
  <2>6. Doing(k)'
    BY <2>3, <2>4, <2>5 DEF Doing
  <2> QED
    BY <1>11, <2>2, <2>3, <2>6 DEF Leaves, AtWork
<1>13. CASE j.pc = "create again"
  <2>1. PICK k : k = [j EXCEPT !.album = a, !.pc = "insert"]
    OBVIOUS
  <2>2. jobs'[w] = k
    BY <1>1, <1>2, <1>7, <1>13, <2>1 DEF CreateAlbum, Becomes
  <2>3. k.pc = "insert" /\ k.album = a /\ k.path = j.path
    BY <1>2, <2>1 DEF Job
  <2>4. AgreeBut({j.path})' /\ disk'[j.path] # None
    BY <1>2, <1>6, <1>10, <1>13 DEF Doing
  <2>5. Kept(a)'
    BY <1>8 DEF Kept
  <2>6. Doing(k)'
    BY <2>3, <2>4, <2>5 DEF Doing
  <2> QED
    BY <1>11, <2>2, <2>3, <2>6 DEF Leaves, AtWork
<1> QED
  BY <1>3, <1>12, <1>13

LEMMA PlaceAlone ==
  ASSUME Typed, Unique, RowsFiled, IdsLeft, NEW w \in Workers, Place(w), Doing(jobs[w])
  PROVE  Leaves(w)
<1>1. PICK j : j = jobs[w]
  OBVIOUS
<1>2. j \in Job /\ Fine(w, j) /\ jobs \in [Workers -> Job] /\ Doing(j)
  BY <1>1, OneJob DEF Typed, JobsTyped
<1>3. j.pc = "place"
  BY <1>1 DEF Place
<1>4. PICK s : s = First(j.files)
  OBVIOUS
<1>5. s \in Songs /\ s # None /\ j.title \in Titles
  BY <1>2, <1>3, <1>4, FirstIn, LibraryAssumption DEF Fine, Filing
<1>6. PICK p : p = <<j.title, NameOf[s]>>
  OBVIOUS
<1>7. p \in Paths
  BY <1>5, <1>6, IngestAssumption DEF Paths
<1>8. \/ UNCHANGED disk /\ disk[p] # None
      \/ disk' = [disk EXCEPT ![p] = s]
  BY <1>1, <1>4, <1>6 DEF Place
<1>9. disk'[p] # None /\ \A q \in Paths \ {p} : disk'[q] = disk[q]
  BY <1>5, <1>7, <1>8 DEF Typed, ShelfTyped
<1>10. UNCHANGED <<rows, albums>>
  BY DEF Place
<1>11. Rows' = Rows /\ \A q : RowsAt(q)' = RowsAt(q)
  BY <1>10 DEF Rows, RowsAt
<1>12. RowsFiled'
  BY <1>10, <1>11 DEF RowsFiled
<1>13. AgreeBut({p})'
  BY <1>2, <1>3, <1>9, <1>11 DEF Doing, AgreeBut, Agree
<1>14. Kept(j.album)'
  BY <1>2, <1>3, <1>10 DEF Doing, Kept
<1>15. PICK k : k = [j EXCEPT !.files = @ \ {s}, !.path = p, !.pc = "find"]
  OBVIOUS
<1>16. jobs'[w] = k
  BY <1>1, <1>2, <1>4, <1>6, <1>15 DEF Place, Becomes
<1>17. k.pc = "find" /\ k.path = p /\ k.album = j.album
  BY <1>2, <1>15 DEF Job
<1>18. Doing(k)'
  BY <1>9, <1>13, <1>14, <1>17 DEF Doing
<1> QED
  BY <1>12, <1>16, <1>17, <1>18 DEF Leaves, AtWork

LEMMA AfterIs ==
  ASSUME NEW w \in Workers, jobs[w] \in Job
  PROVE  /\ After(w).pc \in {"walk", "place", "settle", "idle"}
         /\ After(w).pc = "place" => After(w).album = jobs[w].album
<1>1. PICK j : j = jobs[w]
  OBVIOUS
<1>2. j \in Job
  BY <1>1
<1>3. \/ After(w) = [j EXCEPT !.path = NoPath, !.title = None, !.album = None, !.pc = "walk"]
      \/ After(w) = [j EXCEPT !.path = NoPath, !.pc = "place"]
      \/ After(w) = Idle
      \/ After(w) = [j EXCEPT !.path = NoPath, !.title = None, !.album = None, !.pc = "settle"]
  <2>1. CASE w = Refresher
    BY <1>1, <1>2, <2>1 DEF After, Job
  <2>2. CASE w # Refresher /\ j.files # {}
    BY <1>1, <1>2, <2>2 DEF After, Job
  <2>3. CASE w # Refresher /\ j.files = {} /\ j.dirs = {}
    BY <1>1, <1>2, <2>3 DEF After, Job
  <2>4. CASE w # Refresher /\ j.files = {} /\ j.dirs # {}
    BY <1>1, <1>2, <2>4 DEF After, Job
  <2> QED
    BY <2>1, <2>2, <2>3, <2>4
<1>4. PICK k : k = After(w)
  OBVIOUS
<1>5. k.pc \in {"walk", "place", "settle", "idle"} /\ (k.pc = "place" => k.album = j.album)
  <2>1. CASE k = [j EXCEPT !.path = NoPath, !.title = None, !.album = None, !.pc = "walk"]
    BY <1>2, <2>1 DEF Job
  <2>2. CASE k = [j EXCEPT !.path = NoPath, !.pc = "place"]
    BY <1>2, <2>2 DEF Job
  <2>3. CASE k = Idle
    BY <2>3 DEF Idle
  <2>4. CASE k = [j EXCEPT !.path = NoPath, !.title = None, !.album = None, !.pc = "settle"]
    BY <1>2, <2>4 DEF Job
  <2> QED
    BY <1>3, <1>4, <2>1, <2>2, <2>3, <2>4
<1> QED
  BY <1>1, <1>4, <1>5

LEMMA FindRowAlone ==
  ASSUME Typed, Unique, RowsFiled, IdsLeft, NEW w \in Workers, FindRow(w), Doing(jobs[w])
  PROVE  Leaves(w)
<1>1. PICK j : j = jobs[w]
  OBVIOUS
<1>2. j \in Job /\ Fine(w, j) /\ jobs \in [Workers -> Job] /\ Doing(j)
  BY <1>1, OneJob DEF Typed, JobsTyped
<1>3. j.pc = "find"
  BY <1>1 DEF FindRow
<1>4. AgreeBut({j.path}) /\ disk[j.path] # None /\ Kept(j.album)
  BY <1>2, <1>3 DEF Doing
<1>5. CASE RowsAt(j.path) # {} \/ disk[j.path] = None
  <2>1. AgreeBut({})
    BY <1>4, <1>5 DEF AgreeBut, Agree
  <2>2. PICK k : k = After(w)
    OBVIOUS
  <2>3. jobs'[w] = k
    BY <1>1, <1>2, <1>5, <2>2 DEF FindRow, Becomes
  <2>4. k.pc \in {"walk", "place", "settle", "idle"} /\ (k.pc = "place" => k.album = j.album)
    BY <1>1, <1>2, <2>2, AfterIs
  <2>5. k.pc \notin {"idle", "settle"} => Doing(k)
    BY <1>4, <2>1, <2>4 DEF Doing
  <2> QED
    BY <2>1, <2>3, <2>5, Same DEF FindRow
<1>6. CASE ~(RowsAt(j.path) # {} \/ disk[j.path] = None)
  <2>1. PICK k : k = IF w = Uploader THEN [j EXCEPT !.title = TagOf[disk[j.path]], !.pc = "album again"]
                     ELSE [j EXCEPT !.pc = "insert"]
    OBVIOUS
  <2>2. jobs'[w] = k
    BY <1>1, <1>2, <1>6, <2>1 DEF FindRow, Becomes
  <2>3. k.pc \in {"album again", "insert"} /\ k.path = j.path /\ k.album = j.album
    BY <1>2, <2>1 DEF Job
  <2>4. Doing(k)
    BY <1>4, <2>3 DEF Doing
  <2> QED
    BY <2>2, <2>3, <2>4, Same DEF FindRow
<1> QED
  BY <1>5, <1>6

LEMMA InsertAlone ==
  ASSUME Typed, Unique, RowsFiled, IdsLeft, NEW w \in Workers, Insert(w), Doing(jobs[w])
  PROVE  Leaves(w)
<1>1. PICK j : j = jobs[w]
  OBVIOUS
<1>2. j \in Job /\ Fine(w, j) /\ jobs \in [Workers -> Job] /\ Doing(j)
  BY <1>1, OneJob DEF Typed, JobsTyped
<1>3. j.pc = "insert"
  BY <1>1 DEF Insert
<1>4. AgreeBut({j.path}) /\ disk[j.path] # None /\ Kept(j.album) /\ j.path \in Paths
  BY <1>2, <1>3 DEF Doing, Fine
<1>5. UNCHANGED <<disk, albums>>
  BY DEF Insert
<1>6. PICK k : k = After(w)
  OBVIOUS
<1>7. jobs'[w] = k
  BY <1>1, <1>2, <1>6 DEF Insert, Becomes
<1>8. k.pc \in {"walk", "place", "settle", "idle"} /\ (k.pc = "place" => k.album = j.album)
  BY <1>1, <1>2, <1>6, AfterIs
<1>9. CASE RowsAt(j.path) # {}
  <2>1. AgreeBut({})
    BY <1>4, <1>9 DEF AgreeBut, Agree
  <2>2. k.pc \notin {"idle", "settle"} => Doing(k)
    BY <1>4, <1>8, <2>1 DEF Doing
  <2>3. UNCHANGED rows
    BY <1>1, <1>9 DEF Insert
  <2> QED
    BY <1>5, <1>7, <2>1, <2>2, <2>3, Same
<1>10. CASE RowsAt(j.path) = {}
  <2>1. PICK t : t = FreshTrack
    OBVIOUS
  <2>2. t \in Tracks /\ rows[t] = None
    BY <2>1, FirstIn DEF FreshTrack, IdsLeft, NewTracks
  <2>3. PICK row : row = [path |-> j.path, album |-> j.album]
    OBVIOUS
  <2>4. row \in [path : Paths, album : Albums]
    BY <1>4, <2>3 DEF Kept
  <2>5. row # None
    BY <2>4, LibraryAssumption
  <2>6. row.path = j.path /\ row.album = j.album
    BY <2>3
  <2>7. rows' = [rows EXCEPT ![t] = row]
    BY <1>1, <1>4, <1>10, <2>1, <2>3 DEF Insert, Kept
  <2>8. Rows' = Rows \cup {t} /\ t \notin Rows /\ rows'[t] = row /\ \A r \in Rows : rows'[r] = rows[r]
    BY <2>2, <2>5, <2>7 DEF Rows, Typed, ShelfTyped
  <2>9. \A q \in Paths : RowsAt(q)' # {} <=> (q = j.path \/ RowsAt(q) # {})
    BY <2>6, <2>8 DEF RowsAt
  <2>10. AgreeBut({})'
    BY <1>4, <1>5, <2>9 DEF AgreeBut, Agree
  <2>11. RowsFiled'
    BY <1>4, <2>6, <2>8 DEF RowsFiled, Kept
  <2>12. Kept(j.album)'
    BY <1>4, <1>5 DEF Kept
  <2>13. k.pc \notin {"idle", "settle"} => Doing(k)'
    BY <1>8, <2>10, <2>12 DEF Doing
  <2> QED
    BY <1>7, <2>10, <2>11, <2>13 DEF Leaves, AtWork
<1> QED
  BY <1>9, <1>10

LEMMA WalkAlone ==
  ASSUME Typed, Unique, RowsFiled, IdsLeft, Walk, Doing(jobs[Refresher])
  PROVE  Leaves(Refresher)
<1>1. PICK j : j = jobs[Refresher]
  OBVIOUS
<1>2. Refresher \in Workers /\ j \in Job /\ Fine(Refresher, j) /\ jobs \in [Workers -> Job]
  BY <1>1, OneJob, Roles DEF Typed, JobsTyped
<1>p. PICK p : p = First(j.files)
  OBVIOUS
<1>d. PICK d : d = First(j.dirs)
  OBVIOUS
<1>0. Doing(j)
  BY <1>1
<1>3. j.pc = "walk"
  BY <1>1, <1>2, <1>p, <1>d, <1>0 DEF Walk
<1>4. AgreeBut({})
  BY <1>1, <1>2, <1>p, <1>d, <1>0, <1>3 DEF Doing
<1>5. ASSUME j.files # {}, ~(~(RowsAt(p) # {} \/ disk[p] = None)) PROVE Leaves(Refresher)
  <2>1. PICK k : k = [j EXCEPT !.files = @ \ {p}]
    OBVIOUS
  <2>2. jobs'[Refresher] = k
    BY <1>1, <1>2, <1>p, <1>d, <2>1, <1>5 DEF Walk, Becomes, Goes
  <2>3. k.pc = "walk"
    BY <1>2, <2>1, <1>3 DEF Job
  <2>4. Doing(k)
    BY <1>0, <1>3, <1>4, <2>3, <1>5 DEF Doing
  <2> QED
    BY <1>2, <2>2, <2>3, <2>4, Same DEF Walk, Request
<1>6. ASSUME j.files # {}, ~(RowsAt(p) # {} \/ disk[p] = None) PROVE Leaves(Refresher)
  <2>1. PICK k : k = [j EXCEPT !.files = @ \ {p}, !.path = p, !.title = TagOf[disk[p]], !.pc = "album again"]
    OBVIOUS
  <2>2. jobs'[Refresher] = k
    BY <1>1, <1>2, <1>p, <1>d, <2>1, <1>6 DEF Walk, Becomes, Goes
  <2>3. k.pc = "album again" /\ k.path = p
    BY <1>2, <2>1, <1>3 DEF Job
  <2>4. Doing(k)
    BY <1>0, <1>3, <1>4, <2>3, <1>6 DEF Doing, AgreeBut
  <2> QED
    BY <1>2, <2>2, <2>3, <2>4, Same DEF Walk, Request
<1>7. ASSUME j.files = {}, j.dirs # {} PROVE Leaves(Refresher)
  <2>1. PICK k : k = [j EXCEPT !.dirs = @ \ {d}, !.files = FilesOf(d)]
    OBVIOUS
  <2>2. jobs'[Refresher] = k
    BY <1>1, <1>2, <1>p, <1>d, <2>1, <1>7 DEF Walk, Becomes, Goes
  <2>3. k.pc = "walk"
    BY <1>2, <2>1, <1>3 DEF Job
  <2>4. Doing(k)
    BY <1>0, <1>3, <1>4, <2>3, <1>7 DEF Doing
  <2> QED
    BY <1>2, <2>2, <2>3, <2>4, Same DEF Walk, Request
<1>8. ASSUME j.files = {}, j.dirs = {} PROVE Leaves(Refresher)
  <2>1. PICK k : k = [j EXCEPT !.pc = "check", !.list = Listed(Rows)]
    OBVIOUS
  <2>2. jobs'[Refresher] = k
    BY <1>1, <1>2, <1>p, <1>d, <2>1, <1>8 DEF Walk, Becomes, Goes
  <2>3. k.pc = "check" /\ k.list = Listed(Rows)
    BY <1>2, <2>1, <1>3 DEF Job
  <2>4. Doing(k)
    BY <1>0, <1>3, <1>4, <2>3, <1>8 DEF Doing
  <2> QED
    BY <1>2, <2>2, <2>3, <2>4, Same DEF Walk, Request
<1> QED
  BY <1>5, <1>6, <1>7, <1>8

LEMMA CheckFileAlone ==
  ASSUME Typed, Unique, RowsFiled, IdsLeft, CheckFile, Doing(jobs[Refresher])
  PROVE  Leaves(Refresher)
<1>1. PICK j : j = jobs[Refresher]
  OBVIOUS
<1>2. Refresher \in Workers /\ j \in Job /\ Fine(Refresher, j) /\ jobs \in [Workers -> Job]
  BY <1>1, OneJob, Roles DEF Typed, JobsTyped
<1>x. PICK x : x = First(j.list)
  OBVIOUS
<1>0. Doing(j)
  BY <1>1
<1>3. j.pc = "check"
  BY <1>1, <1>2, <1>x, <1>0 DEF CheckFile
<1>4. AgreeBut({}) /\ j.list \subseteq Listed(Rows)
  BY <1>1, <1>2, <1>x, <1>0, <1>3 DEF Doing
<1>5. j.list # {} => x \in j.list
  BY <1>1, <1>2, <1>x, <1>0, <1>3, <1>4, FirstIn
<1>6. j.list # {} => x[1] \in RowsAt(x[2]) /\ x[2] \in Paths
  BY <1>1, <1>2, <1>x, <1>0, <1>3, <1>4, <1>5 DEF Listed, RowsAt, Job, Pairs
<1>7. j.list # {} => disk[x[2]] # None
  BY <1>1, <1>2, <1>x, <1>0, <1>3, <1>4, <1>5, <1>6 DEF AgreeBut, Agree
<1>8. ASSUME j.list = {} PROVE Leaves(Refresher)
  <2>1. PICK k : k = Idle
    OBVIOUS
  <2>2. jobs'[Refresher] = k
    BY <1>1, <1>2, <1>x, <2>1, <1>8 DEF CheckFile, Becomes, Goes
  <2>3. k.pc = "idle"
    BY <1>2, <2>1, <1>3 DEF Idle
  <2>4. AgreeBut({})
    BY <1>0, <1>3, <1>4, <1>5, <1>6, <1>7, <2>3 DEF Doing
  <2> QED
    BY <1>2, <2>2, <2>3, <2>4, Same DEF CheckFile, Request
<1>9. ASSUME j.list # {}, disk[x[2]] # None PROVE Leaves(Refresher)
  <2>1. PICK k : k = [j EXCEPT !.list = @ \ {x}]
    OBVIOUS
  <2>2. jobs'[Refresher] = k
    BY <1>1, <1>2, <1>x, <2>1, <1>9 DEF CheckFile, Becomes, Goes
  <2>3. k.pc = "check" /\ k.list = j.list \ {x}
    BY <1>2, <2>1, <1>3 DEF Job
  <2>4. Doing(k)
    BY <1>0, <1>3, <1>4, <1>5, <1>6, <1>7, <2>3, <1>9 DEF Doing
  <2> QED
    BY <1>2, <2>2, <2>3, <2>4, Same DEF CheckFile, Request
<1> QED
  BY <1>8, <1>9, <1>7

LEMMA RemoveFileAlone ==
  ASSUME Typed, Unique, RowsFiled, IdsLeft, NEW m \in Managers, RemoveFile(m), Doing(jobs[m])
  PROVE  Leaves(m)
<1>1. PICK j : j = jobs[m]
  OBVIOUS
<1>2. m \in Workers /\ j \in Job /\ Fine(m, j) /\ jobs \in [Workers -> Job] /\ Doing(j)
  BY <1>1, OneJob, Roles DEF Typed, JobsTyped
<1>3. j.pc = "remove"
  BY <1>1 DEF RemoveFile
<1>4. /\ AgreeBut({}) /\ j.row \in RowsAt(j.path) /\ j.path \in Paths
      /\ j.album # None => RowsOf(j.album) \subseteq IdsOf(j.list) \cup {j.row}
  BY <1>2, <1>3 DEF Doing, Fine
<1>5. UNCHANGED <<rows, albums>> /\ disk' = [disk EXCEPT ![j.path] = None]
  BY <1>1 DEF RemoveFile
<1>6. disk'[j.path] = None /\ \A q \in Paths \ {j.path} : disk'[q] = disk[q]
  BY <1>4, <1>5 DEF Typed, ShelfTyped
<1>7. Rows' = Rows /\ (\A q : RowsAt(q)' = RowsAt(q)) /\ \A a : RowsOf(a)' = RowsOf(a)
  BY <1>5 DEF Rows, RowsAt, RowsOf
<1>8. RowsFiled'
  BY <1>5, <1>7 DEF RowsFiled
<1>9. AgreeBut({j.path})'
  BY <1>4, <1>6, <1>7 DEF AgreeBut, Agree
<1>10. PICK k : k = [j EXCEPT !.pc = "row"]
  OBVIOUS
<1>11. jobs'[m] = k
  BY <1>1, <1>2, <1>10 DEF RemoveFile, Goes, Becomes
<1>12. k.pc = "row" /\ k.path = j.path /\ k.row = j.row /\ k.album = j.album /\ k.list = j.list
  BY <1>2, <1>10 DEF Job
<1>13. j.row \in RowsAt(j.path)' /\ (j.album # None => RowsOf(j.album)' \subseteq IdsOf(j.list) \cup {j.row})
  BY <1>4, <1>7
<1>14. Doing(k)'
  BY <1>6, <1>9, <1>12, <1>13 DEF Doing
<1> QED
  BY <1>8, <1>11, <1>12, <1>14 DEF Leaves, AtWork

LEMMA DeleteRowAlone ==
  ASSUME Typed, Unique, RowsFiled, IdsLeft, NEW m \in Managers, DeleteRow(m), Doing(jobs[m])
  PROVE  Leaves(m)
<1>1. PICK j : j = jobs[m]
  OBVIOUS
<1>2. m \in Workers /\ j \in Job /\ Fine(m, j) /\ jobs \in [Workers -> Job] /\ Doing(j)
  BY <1>1, OneJob, Roles DEF Typed, JobsTyped
<1>3. j.pc = "row"
  BY <1>1 DEF DeleteRow
<1>4. /\ AgreeBut({j.path}) /\ j.row \in RowsAt(j.path) /\ disk[j.path] = None
      /\ j.album # None => RowsOf(j.album) \subseteq IdsOf(j.list) \cup {j.row}
  BY <1>2, <1>3 DEF Doing
<1>5. UNCHANGED <<disk, albums>> /\ rows' = [rows EXCEPT ![j.row] = None]
  BY <1>1 DEF DeleteRow
<1>6. j.row \in Rows /\ rows[j.row].path = j.path
  BY <1>4 DEF RowsAt
<1>7. Rows' = Rows \ {j.row} /\ \A r \in Rows' : rows'[r] = rows[r]
  BY <1>5, <1>6 DEF Rows, Typed, ShelfTyped
<1>8. RowsFiled'
  BY <1>7 DEF RowsFiled
<1>9. \A q : RowsAt(q)' # {} <=> (q # j.path /\ RowsAt(q) # {})
  BY <1>6, <1>7 DEF RowsAt, Unique
<1>10. AgreeBut({})'
  BY <1>4, <1>5, <1>9 DEF AgreeBut, Agree
<1>11. CASE j.album = None
  <2>1. PICK k : k = Idle
    OBVIOUS
  <2>2. jobs'[m] = k
    BY <1>1, <1>2, <1>11, <2>1 DEF DeleteRow, Becomes
  <2>3. k.pc = "idle"
    BY <2>1 DEF Idle
  <2> QED
    BY <1>8, <1>10, <2>2, <2>3 DEF Leaves, AtWork
<1>12. CASE j.album # None
  <2>1. PICK k : k = [j EXCEPT !.pc = "tracks", !.row = None, !.path = NoPath]
    OBVIOUS
  <2>2. jobs'[m] = k
    BY <1>1, <1>2, <1>12, <2>1 DEF DeleteRow, Becomes
  <2>3. k.pc = "tracks" /\ k.album = j.album /\ k.list = j.list
    BY <1>2, <2>1 DEF Job
  <2>4. RowsOf(j.album)' \subseteq IdsOf(j.list)
    BY <1>4, <1>7, <1>12 DEF RowsOf
  <2>5. Doing(k)'
    BY <1>10, <2>3, <2>4 DEF Doing
  <2> QED
    BY <1>8, <2>2, <2>3, <2>5 DEF Leaves, AtWork
<1> QED
  BY <1>11, <1>12

LEMMA DeleteAlbumRowAlone ==
  ASSUME Typed, Unique, RowsFiled, IdsLeft, NEW m \in Managers, DeleteAlbumRow(m), Doing(jobs[m])
  PROVE  Leaves(m)
<1>1. PICK j : j = jobs[m]
  OBVIOUS
<1>2. m \in Workers /\ j \in Job /\ Fine(m, j) /\ jobs \in [Workers -> Job] /\ Doing(j)
  BY <1>1, OneJob, Roles DEF Typed, JobsTyped
<1>3. j.pc = "tracks" /\ j.list = {}
  BY <1>1 DEF DeleteAlbumRow
<1>4. AgreeBut({}) /\ RowsOf(j.album) = {}
  BY <1>2, <1>3 DEF Doing, IdsOf
<1>5. rows' = [r \in Tracks |-> IF r \in RowsOf(j.album) THEN None ELSE rows[r]] /\ UNCHANGED disk
  BY <1>1 DEF DeleteAlbumRow
<1>6. rows' = rows
  BY <1>4, <1>5 DEF Typed, ShelfTyped
<1>7. Rows' = Rows
  BY <1>6 DEF Rows
<1>8. AgreeBut({})'
  BY <1>4, <1>5, <1>6, <1>7, SamePaths
<1>9. RowsFiled'
  BY <1>6, <1>7 DEF RowsFiled
<1>10. jobs'[m] = Idle
  BY <1>1, <1>2 DEF DeleteAlbumRow, Becomes
<1>11. ~AtWork(m)'
  BY <1>10 DEF AtWork, Idle
<1> QED
  BY <1>8, <1>9, <1>11 DEF Leaves

\* A row that changes its album is a row still.
LEMMA Regrouped ==
  ASSUME Typed, NEW r \in Rows, NEW a \in Albums, NEW row, row = [rows[r] EXCEPT !.album = a]
  PROVE  row # None /\ row.path = rows[r].path /\ row.album = a
<1>1. PICK x : x = rows[r]
  OBVIOUS
<1>2. x \in Track
  BY <1>1 DEF Rows, Typed, ShelfTyped
<1>3. row = [x EXCEPT !.album = a]
  BY <1>1
<1>4. row \in [path : Paths, album : Albums] /\ row.path = x.path /\ row.album = a
  BY <1>2, <1>3 DEF Track
<1> QED
  BY <1>1, <1>4, LibraryAssumption

LEMMA ReassignAlone ==
  ASSUME Typed, Unique, RowsFiled, IdsLeft, NEW m \in Managers, Reassign(m), Doing(jobs[m])
  PROVE  Leaves(m)
<1>1. PICK j : j = jobs[m]
  OBVIOUS
<1>2. m \in Workers /\ j \in Job /\ Fine(m, j) /\ jobs \in [Workers -> Job] /\ Doing(j)
  BY <1>1, OneJob, Roles DEF Typed, JobsTyped
<1>3. j.pc = "reassign"
  BY <1>1 DEF Reassign
<1>4. AgreeBut({}) /\ j.album # j.target /\ j.target \in Albums
  BY <1>2, <1>3 DEF Doing
<1>5. UNCHANGED <<disk, albums>>
  BY DEF Reassign
<1>6. CASE albums[j.target] = None /\ RowsOf(j.album) # {}
  <2>1. PICK k : k = Idle
    OBVIOUS
  <2>2. jobs'[m] = k /\ UNCHANGED rows
    BY <1>1, <1>2, <1>6, <2>1 DEF Reassign, Becomes
  <2>3. k.pc = "idle"
    BY <2>1 DEF Idle
  <2> QED
    BY <1>2, <1>4, <1>5, <2>2, <2>3, Same
<1>7. CASE ~(albums[j.target] = None /\ RowsOf(j.album) # {})
  <2>1. PICK k : k = [Idle EXCEPT !.pc = "tracks", !.album = j.album]
    OBVIOUS
  <2>2. jobs'[m] = k
    BY <1>1, <1>2, <1>7, <2>1 DEF Reassign, Becomes
  <2>3. rows' = [r \in Tracks |-> IF r \in RowsOf(j.album)
                                  THEN [rows[r] EXCEPT !.album = j.target] ELSE rows[r]]
    BY <1>1, <1>7 DEF Reassign
  <2>4. k.pc = "tracks" /\ k.album = j.album /\ k.list = {}
    BY <2>1 DEF Idle
  <2>5. ASSUME NEW r \in Rows
        PROVE  /\ rows'[r] # None /\ rows'[r].path = rows[r].path
               /\ rows'[r].album = IF r \in RowsOf(j.album) THEN j.target ELSE rows[r].album
    <3>1. CASE r \in RowsOf(j.album)
      <4>1. rows'[r] = [rows[r] EXCEPT !.album = j.target]
        BY <2>3, <3>1 DEF Rows
      <4> QED
        BY <1>4, <3>1, <4>1, Regrouped
    <3>2. CASE r \notin RowsOf(j.album)
      <4>1. rows'[r] = rows[r]
        BY <2>3, <3>2 DEF Rows
      <4> QED
        BY <3>2, <4>1 DEF Rows
    <3> QED
      BY <3>1, <3>2
  <2>6. Rows' = Rows
    <3>1. \A r \in Tracks \ Rows : rows'[r] = rows[r]
      BY <2>3 DEF RowsOf
    <3> QED
      BY <2>5, <3>1 DEF Rows
  <2>7. AgreeBut({})'
    BY <1>4, <1>5, <2>5, <2>6, SamePaths
  <2>8. RowsFiled'
    BY <1>4, <2>5, <2>6 DEF RowsFiled
  <2>9. RowsOf(j.album)' = {}
    BY <1>4, <2>5, <2>6 DEF RowsOf
  <2>10. Doing(k)'
    BY <2>4, <2>7, <2>9 DEF Doing
  <2> QED
    BY <2>2, <2>4, <2>8, <2>10 DEF Leaves, AtWork
<1> QED
  BY <1>6, <1>7

LEMMA SetAlbumAlone ==
  ASSUME Typed, Unique, RowsFiled, IdsLeft, NEW m \in Managers, SetAlbum(m), Doing(jobs[m])
  PROVE  Leaves(m)
<1>1. PICK j : j = jobs[m]
  OBVIOUS
<1>2. m \in Workers /\ j \in Job /\ Fine(m, j) /\ jobs \in [Workers -> Job] /\ Doing(j)
  BY <1>1, OneJob, Roles DEF Typed, JobsTyped
<1>3. j.pc = "set"
  BY <1>1 DEF SetAlbum
<1>4. AgreeBut({}) /\ j.target \in Albums
  BY <1>2, <1>3 DEF Doing
<1>5. UNCHANGED <<disk, albums>>
  BY DEF SetAlbum
<1>6. CASE rows[j.row] = None \/ albums[j.target] = None
  <2>1. PICK k : k = Idle
    OBVIOUS
  <2>2. jobs'[m] = k /\ UNCHANGED rows
    BY <1>1, <1>2, <1>6, <2>1 DEF SetAlbum, Becomes
  <2>3. k.pc = "idle"
    BY <2>1 DEF Idle
  <2> QED
    BY <1>2, <1>4, <1>5, <2>2, <2>3, Same
<1>7. CASE ~(rows[j.row] = None \/ albums[j.target] = None)
  <2>1. PICK k : k = [Idle EXCEPT !.pc = "empty", !.album = j.album]
    OBVIOUS
  <2>2. jobs'[m] = k /\ rows' = [rows EXCEPT ![j.row].album = j.target]
    BY <1>1, <1>2, <1>7, <2>1 DEF SetAlbum, Becomes
  <2>3. k.pc = "empty"
    BY <2>1 DEF Idle
  <2>4. ASSUME NEW r \in Tracks, r # j.row PROVE rows'[r] = rows[r]
    BY <2>2, <2>4 DEF Typed, ShelfTyped
  <2>5. ASSUME j.row \in Tracks
        PROVE  /\ j.row \in Rows /\ rows'[j.row] # None
               /\ rows'[j.row].path = rows[j.row].path /\ rows'[j.row].album = j.target
    <3>1. rows'[j.row] = [rows[j.row] EXCEPT !.album = j.target]
      BY <2>2, <2>5 DEF Typed, ShelfTyped
    <3>2. j.row \in Rows
      BY <1>7, <2>5 DEF Rows
    <3> QED
      BY <1>4, <3>1, <3>2, Regrouped
  <2>6. Rows' = Rows /\ \A r \in Rows : rows'[r].path = rows[r].path
    BY <2>4, <2>5 DEF Rows
  <2>7. AgreeBut({})'
    BY <1>4, <1>5, <2>6, SamePaths
  <2>8. RowsFiled'
    BY <1>4, <2>4, <2>5, <2>6 DEF RowsFiled, Rows
  <2>9. Doing(k)'
    BY <2>3, <2>7 DEF Doing
  <2> QED
    BY <2>2, <2>3, <2>8, <2>9 DEF Leaves, AtWork
<1> QED
  BY <1>6, <1>7

LEMMA MoveFileAlone ==
  ASSUME Typed, Unique, RowsFiled, IdsLeft, NEW m \in Managers, MoveFile(m), Doing(jobs[m]), ~mishap'
  PROVE  Leaves(m)
<1>1. PICK j : j = jobs[m]
  OBVIOUS
<1>2. m \in Workers /\ j \in Job /\ Fine(m, j) /\ jobs \in [Workers -> Job] /\ Doing(j)
  BY <1>1, OneJob, Roles DEF Typed, JobsTyped
<1>3. j.pc = "move" /\ j.list # {}
  BY <1>1 DEF MoveFile
<1>4. AgreeBut({}) /\ j.list \subseteq Listed(Rows) /\ j.title \in Titles
  BY <1>2, <1>3 DEF Doing, Fine
<1>5. PICK x : x = First(j.list)
  OBVIOUS
<1>6. PICK p, q : p = x[2] /\ q = <<j.title, p[2]>>
  OBVIOUS
<1>7. x \in j.list
  BY <1>3, <1>5, FirstIn
<1>8. x[1] \in Rows /\ rows[x[1]].path = p /\ x = <<x[1], p>>
  BY <1>4, <1>6, <1>7 DEF Listed
<1>9. p \in Paths /\ q \in Paths
  BY <1>2, <1>4, <1>6, <1>7 DEF Job, Pairs, Paths
<1>10. disk[p] # None
  BY <1>4, <1>8, <1>9 DEF AgreeBut, Agree, RowsAt
<1>11. UNCHANGED <<rows, albums>>
  BY DEF MoveFile
<1>12. CASE Stays(p, q)
  <2>1. PICK k : k = [j EXCEPT !.list = @ \ {x}]
    OBVIOUS
  <2>2. jobs'[m] = k /\ UNCHANGED disk
    BY <1>1, <1>2, <1>5, <1>6, <1>12, <2>1 DEF MoveFile, Becomes
  <2>3. k.pc = "move" /\ k.list = j.list \ {x}
    BY <1>2, <1>3, <2>1 DEF Job
  <2>4. Doing(k)
    BY <1>4, <2>3 DEF Doing
  <2> QED
    BY <1>2, <1>11, <2>2, <2>3, <2>4, Same
<1>13. CASE ~Stays(p, q)
  <2>1. disk' = Moved(p, q) /\ ~Dropped(p, q)
    BY <1>1, <1>5, <1>6, <1>13 DEF MoveFile
  <2>2. p # q /\ disk[q] = None /\ disk' = [disk EXCEPT ![p] = None, ![q] = disk[p]]
    BY <1>10, <1>13, <2>1 DEF Stays, Moved, Dropped, Collides
  <2>3. disk'[p] = None /\ disk'[q] # None /\ \A f \in Paths \ {p, q} : disk'[f] = disk[f]
    BY <1>9, <1>10, <2>2 DEF Typed, ShelfTyped
  <2>4. RowsAt(q) = {}
    BY <1>4, <1>9, <2>2 DEF AgreeBut, Agree
  <2>5. Rows' = Rows /\ (\A f : RowsAt(f)' = RowsAt(f)) /\ \A S : Listed(S)' = Listed(S)
    BY <1>11 DEF Rows, RowsAt, Listed
  <2>6. RowsFiled'
    BY <1>11, <2>5 DEF RowsFiled
  <2>7. PICK k : k = [j EXCEPT !.list = @ \ {x}, !.pc = "repath", !.row = x[1], !.path = q,
                               !.dirs = @ \cup {p[1]}]
    OBVIOUS
  <2>8. jobs'[m] = k
    BY <1>1, <1>2, <1>5, <1>6, <1>13, <2>7 DEF MoveFile, Becomes
  <2>9. k.pc = "repath" /\ k.list = j.list \ {x} /\ k.row = x[1] /\ k.path = q
    BY <1>2, <2>7 DEF Job
  <2>10. j.list \ {x} \subseteq Listed(Rows \ {x[1]})
    <3>1. ASSUME NEW y \in j.list, y # x PROVE y \in Listed(Rows \ {x[1]})
      <4>1. PICK r \in Rows : y = <<r, rows[r].path>>
        BY <1>4, <3>1 DEF Listed
      <4>2. r # x[1]
        BY <1>8, <3>1, <4>1
      <4> QED
        BY <4>1, <4>2 DEF Listed
    <3> QED
      BY <3>1
  <2>11. AgreeBut({q, p})'
    BY <1>4, <2>3, <2>5 DEF AgreeBut, Agree
  <2>12. rows'[x[1]].path = p
    BY <1>8, <1>11
  <2>13. Doing(k)'
    BY <1>8, <2>3, <2>4, <2>5, <2>9, <2>10, <2>11, <2>12 DEF Doing
  <2> QED
    BY <2>6, <2>8, <2>9, <2>13 DEF Leaves, AtWork
<1> QED
  BY <1>12, <1>13

LEMMA RepathAlone ==
  ASSUME Typed, Unique, RowsFiled, IdsLeft, NEW m \in Managers, Repath(m), Doing(jobs[m])
  PROVE  Leaves(m)
<1>1. PICK j : j = jobs[m]
  OBVIOUS
<1>2. m \in Workers /\ j \in Job /\ Fine(m, j) /\ jobs \in [Workers -> Job] /\ Doing(j)
  BY <1>1, OneJob, Roles DEF Typed, JobsTyped
<1>3. j.pc = "repath"
  BY <1>1 DEF Repath
<1>4. PICK r, p, q : r = j.row /\ p = rows[r].path /\ q = j.path
  OBVIOUS
<1>5. /\ r \in Rows /\ j.list \subseteq Listed(Rows \ {r}) /\ q \in Paths
      /\ disk[q] # None /\ disk[p] = None /\ RowsAt(q) = {} /\ AgreeBut({q, p})
  BY <1>2, <1>3, <1>4 DEF Doing, Fine
<1>6. UNCHANGED <<disk, albums>>
  BY DEF Repath
<1>7. rows' = [rows EXCEPT ![r].path = q]
  BY <1>1, <1>4, <1>5 DEF Repath, Rows
<1>8. rows'[r] # None /\ rows'[r].path = q /\ rows'[r].album = rows[r].album
  <2>1. PICK x : x = rows[r]
    OBVIOUS
  <2>2. x \in Track /\ x.album \in Albums
    BY <1>5, <2>1 DEF Rows, Typed, ShelfTyped, RowsFiled
  <2>3. rows'[r] = [x EXCEPT !.path = q]
    BY <1>5, <1>7, <2>1 DEF Rows, Typed, ShelfTyped
  <2>4. /\ [x EXCEPT !.path = q] \in [path : Paths, album : Albums]
        /\ [x EXCEPT !.path = q].path = q /\ [x EXCEPT !.path = q].album = x.album
    BY <1>5, <2>2 DEF Track
  <2> QED
    BY <2>1, <2>3, <2>4, LibraryAssumption
<1>9. \A t \in Tracks \ {r} : rows'[t] = rows[t]
  BY <1>7 DEF Typed, ShelfTyped
<1>10. Rows' = Rows
  BY <1>5, <1>8, <1>9 DEF Rows
<1>11. RowsFiled'
  BY <1>8, <1>9, <1>10 DEF RowsFiled, Rows
<1>12. r \in RowsAt(q)'
  BY <1>5, <1>8, <1>10 DEF RowsAt
<1>13. p # q
  BY <1>5
<1>14. RowsAt(p)' = {}
  BY <1>4, <1>5, <1>8, <1>9, <1>10, <1>13 DEF RowsAt, Unique, Rows
<1>15. ASSUME NEW f \in Paths, f # p, f # q PROVE RowsAt(f)' = RowsAt(f)
  BY <1>4, <1>5, <1>8, <1>9, <1>10, <1>15 DEF RowsAt, Rows
<1>16. AgreeBut({})'
  BY <1>5, <1>6, <1>12, <1>14, <1>15 DEF AgreeBut, Agree
<1>17. j.list \subseteq Listed(Rows)'
  <2>1. ASSUME NEW y \in j.list PROVE y \in Listed(Rows)'
    <3>1. PICK t \in Rows \ {r} : y = <<t, rows[t].path>>
      BY <1>5, <2>1 DEF Listed
    <3>2. rows'[t] = rows[t] /\ t \in Rows'
      BY <1>9, <1>10 DEF Rows
    <3> QED
      BY <3>1, <3>2 DEF Listed
  <2> QED
    BY <2>1
<1>18. PICK k : k = [j EXCEPT !.pc = "move", !.row = None, !.path = NoPath]
  OBVIOUS
<1>19. jobs'[m] = k
  BY <1>1, <1>2, <1>4, <1>5, <1>18 DEF Repath, Becomes, Rows
<1>20. k.pc = "move" /\ k.list = j.list
  BY <1>2, <1>18 DEF Job
<1>21. Doing(k)'
  BY <1>16, <1>17, <1>20 DEF Doing
<1> QED
  BY <1>11, <1>19, <1>20, <1>21 DEF Leaves, AtWork

LEMMA SweepAlone ==
  ASSUME Typed, Unique, RowsFiled, IdsLeft, NEW m \in Managers, Sweep(m), Doing(jobs[m]), ~mishap'
  PROVE  Leaves(m)
<1>1. PICK j : j = jobs[m]
  OBVIOUS
<1>2. m \in Workers /\ j \in Job /\ Fine(m, j) /\ jobs \in [Workers -> Job] /\ Doing(j)
  BY <1>1, OneJob, Roles DEF Typed, JobsTyped
<1>3. j.pc = "move" /\ j.list = {}
  BY <1>1 DEF Sweep
<1>4. AgreeBut({})
  BY <1>2, <1>3 DEF Doing
<1>5. PICK d \in j.dirs :
        /\ disk' = Swept(d, j.title) /\ Becomes(m, [j EXCEPT !.dirs = @ \ {d}])
        /\ \A p \in Leftover(d, j.title) : RowsAt(p) = {}
  BY <1>1 DEF Sweep
<1>6. Leftover(d, j.title) = {}
  BY <1>4, <1>5 DEF Leftover, FilesOf, AgreeBut, Agree
<1>7. NamesIn(Leftover(d, j.title)) = {}
  BY <1>6 DEF NamesIn
<1>8. disk' = disk
  BY <1>5, <1>6, <1>7 DEF Swept, Typed, ShelfTyped
<1>9. UNCHANGED <<rows, albums>>
  BY DEF Sweep
<1>10. PICK k : k = [j EXCEPT !.dirs = @ \ {d}]
  OBVIOUS
<1>11. jobs'[m] = k
  BY <1>2, <1>5, <1>10 DEF Becomes
<1>12. k.pc = "move" /\ k.list = {}
  BY <1>2, <1>3, <1>10 DEF Job
<1>13. Doing(k)
  BY <1>4, <1>12 DEF Doing
<1> QED
  BY <1>2, <1>8, <1>9, <1>11, <1>12, <1>13, Same

-----------------------------------------------------------------------------
(* No two rows name one path, whatever runs at once.                       *)

LEMMA UniqueKept ==
  ASSUME Unique, \A r \in Rows' : r \in Rows /\ rows'[r].path = rows[r].path
  PROVE  Unique'
  BY DEF Unique

LEMMA InsertUnique ==
  ASSUME Typed, Unique, NEW w \in Workers, Insert(w)
  PROVE  Unique'
<1>1. PICK j : j = jobs[w]
  OBVIOUS
<1>2. PICK t, row : t = FreshTrack /\ row = [path |-> j.path, album |-> j.album]
  OBVIOUS
<1>3. UNCHANGED rows \/ (RowsAt(j.path) = {} /\ rows' = [rows EXCEPT ![t] = row])
  BY <1>1, <1>2 DEF Insert
<1>4. CASE UNCHANGED rows
  BY <1>4, UniqueKept DEF Rows
<1>5. CASE RowsAt(j.path) = {} /\ rows' = [rows EXCEPT ![t] = row]
  <2>1. ASSUME NEW r \in Rows', r # t PROVE r \in Rows /\ rows'[r] = rows[r]
    BY <1>5, <2>1 DEF Rows, Typed, ShelfTyped
  <2>2. ASSUME t \in Rows' PROVE rows'[t].path = j.path
    <3>1. rows'[t] = row
      BY <1>5, <2>2 DEF Rows, Typed, ShelfTyped
    <3>2. row.path = j.path
      BY <1>2
    <3> QED
      BY <3>1, <3>2
  <2>3. \A r \in Rows : rows[r].path # j.path
    BY <1>5 DEF RowsAt
  <2> QED
    BY <2>1, <2>2, <2>3 DEF Unique
<1> QED
  BY <1>3, <1>4, <1>5

LEMMA RepathUnique ==
  ASSUME Typed, Unique, NEW m \in Managers, Repath(m)
  PROVE  Unique'
<1>1. PICK j : j = jobs[m]
  OBVIOUS
<1>2. \/ UNCHANGED rows
      \/ /\ rows[j.row] # None /\ RowsAt(j.path) \ {j.row} = {}
         /\ rows' = [rows EXCEPT ![j.row].path = j.path]
  BY <1>1 DEF Repath
<1>3. CASE UNCHANGED rows
  BY <1>3, UniqueKept DEF Rows
<1>4. CASE /\ rows[j.row] # None /\ RowsAt(j.path) \ {j.row} = {}
           /\ rows' = [rows EXCEPT ![j.row].path = j.path]
  <2>1. ASSUME NEW r \in Rows', r # j.row PROVE r \in Rows /\ rows'[r] = rows[r]
    BY <1>4, <2>1 DEF Rows, Typed, ShelfTyped
  <2>2. ASSUME j.row \in Rows' PROVE rows'[j.row].path = j.path
    <3>1. PICK x : x = rows[j.row]
      OBVIOUS
    <3>2. j.row \in Tracks /\ x \in Track
      BY <1>4, <2>2, <3>1 DEF Rows, Typed, ShelfTyped
    <3>3. rows'[j.row] = [x EXCEPT !.path = j.path]
      BY <1>4, <3>1, <3>2 DEF Typed, ShelfTyped
    <3>4. [x EXCEPT !.path = j.path].path = j.path
      BY <3>2 DEF Track
    <3> QED
      BY <3>3, <3>4
  <2>3. \A r \in Rows : r # j.row => rows[r].path # j.path
    BY <1>4 DEF RowsAt
  <2> QED
    BY <2>1, <2>2, <2>3 DEF Unique
<1> QED
  BY <1>2, <1>3, <1>4

\* A step that removes rows, or changes their albums, makes no second row.
LEMMA RowsOnlyChange ==
  ASSUME Typed, Unique, NEW m \in Managers,
         DeleteRow(m) \/ DeleteAlbumRow(m) \/ Reassign(m) \/ SetAlbum(m)
  PROVE  Unique'
<1>1. PICK j : j = jobs[m]
  OBVIOUS
<1>2. CASE DeleteRow(m)
  <2>1. rows' = [rows EXCEPT ![j.row] = None]
    BY <1>1, <1>2 DEF DeleteRow
  <2>2. ASSUME NEW r \in Rows' PROVE r \in Rows /\ rows'[r].path = rows[r].path
    BY <2>1 DEF Rows, Typed, ShelfTyped
  <2> QED
    BY <2>2, UniqueKept
<1>3. CASE DeleteAlbumRow(m)
  <2>1. rows' = [r \in Tracks |-> IF r \in RowsOf(j.album) THEN None ELSE rows[r]]
    BY <1>1, <1>3 DEF DeleteAlbumRow
  <2>2. ASSUME NEW r \in Rows' PROVE r \in Rows /\ rows'[r].path = rows[r].path
    BY <2>1 DEF Rows
  <2> QED
    BY <2>2, UniqueKept
<1>4. CASE Reassign(m)
  <2>1. CASE UNCHANGED rows
    BY <2>1, UniqueKept DEF Rows
  <2>2. CASE rows' = [r \in Tracks |-> IF r \in RowsOf(j.album)
                                       THEN [rows[r] EXCEPT !.album = j.target] ELSE rows[r]]
    <3>1. ASSUME NEW r \in Rows' PROVE r \in Rows /\ rows'[r].path = rows[r].path
      <4>1. r \in Tracks
        BY DEF Rows
      <4>2. CASE r \in RowsOf(j.album)
        <5>1. PICK x : x = rows[r]
          OBVIOUS
        <5>2. r \in Rows /\ x \in Track
          BY <4>2, <5>1 DEF RowsOf, Rows, Typed, ShelfTyped
        <5>3. rows'[r] = [x EXCEPT !.album = j.target]
          BY <2>2, <4>1, <4>2, <5>1
        <5>4. [x EXCEPT !.album = j.target].path = x.path
          BY <5>2 DEF Track
        <5> QED
          BY <5>1, <5>2, <5>3, <5>4
      <4>3. CASE r \notin RowsOf(j.album)
        BY <2>2, <4>1, <4>3 DEF Rows
      <4> QED
        BY <4>2, <4>3
    <3> QED
      BY <3>1, UniqueKept
  <2> QED
    BY <1>1, <1>4, <2>1, <2>2 DEF Reassign
<1>5. CASE SetAlbum(m)
  <2>1. CASE UNCHANGED rows
    BY <2>1, UniqueKept DEF Rows
  <2>2. CASE rows[j.row] # None /\ rows' = [rows EXCEPT ![j.row].album = j.target]
    <3>1. ASSUME NEW r \in Rows' PROVE r \in Rows /\ rows'[r].path = rows[r].path
      <4>1. CASE r # j.row
        BY <2>2, <4>1 DEF Rows, Typed, ShelfTyped
      <4>2. CASE r = j.row
        <5>1. PICK x : x = rows[r]
          OBVIOUS
        <5>2. r \in Rows /\ x \in Track
          BY <2>2, <4>2, <5>1 DEF Rows, Typed, ShelfTyped
        <5>3. rows'[r] = [x EXCEPT !.album = j.target]
          BY <2>2, <4>2, <5>1, <5>2 DEF Rows, Typed, ShelfTyped
        <5>4. [x EXCEPT !.album = j.target].path = x.path
          BY <5>2 DEF Track
        <5> QED
          BY <5>1, <5>2, <5>3, <5>4
      <4> QED
        BY <4>1, <4>2
    <3> QED
      BY <3>1, UniqueKept
  <2> QED
    BY <1>1, <1>5, <2>1, <2>2 DEF SetAlbum
<1> QED
  BY <1>2, <1>3, <1>4, <1>5

LEMMA UniqueStep ==
  ASSUME Typed, Unique, [Next]_vars
  PROVE  Unique'
<1>0. UNCHANGED rows => Unique'
  BY UniqueKept DEF Rows
<1>1. CASE UNCHANGED vars
  BY <1>0, <1>1 DEF vars, libraryVars
<1>2. ASSUME NEW s \in Songs, Drop(s) \/ Upload(s) PROVE Unique'
  BY <1>0, <1>2 DEF Drop, Upload, Request
<1>3. CASE Dispatch \/ Crash
  BY <1>0, <1>3 DEF Dispatch, Crash
<1>4. ASSUME NEW w \in Workers, IngestStep(w) PROVE Unique'
  <2>1. UNCHANGED rows \/ Insert(w)
    BY <1>4 DEF IngestStep, ListFolder, FindAlbum, CreateAlbum, Place, FindRow
  <2> QED
    BY <1>0, <2>1, InsertUnique
<1>5. CASE RefreshStep
  <2>1. CASE Prune
    <3>1. PICK r : r = jobs[Refresher].row
      OBVIOUS
    <3>2. rows' = [rows EXCEPT ![r] = None]
      BY <2>1, <3>1 DEF Prune
    <3>3. ASSUME NEW t \in Rows' PROVE t \in Rows /\ rows'[t].path = rows[t].path
      BY <3>2 DEF Rows, Typed, ShelfTyped
    <3> QED
      BY <3>3, UniqueKept
  <2>2. CASE ~Prune
    BY <1>0, <1>5, <2>2 DEF RefreshStep, StartRefresh, Walk, CheckFile
  <2> QED
    BY <2>1, <2>2
<1>6. ASSUME NEW m \in Managers, Ask(m) PROVE Unique'
  BY <1>0, <1>6 DEF Ask, Asks, DeleteTrack, DeleteAlbum, MergeAlbums, MoveTrack, RenameAlbumFolder, Request
<1>7. ASSUME NEW m \in Managers, Serve(m) PROVE Unique'
  <2>1. \/ UNCHANGED rows \/ Repath(m)
        \/ DeleteRow(m) \/ DeleteAlbumRow(m) \/ Reassign(m) \/ SetAlbum(m)
    BY <1>7 DEF Serve, Serves, NextTrack, RemoveFile, IsEmpty, ListEmpty, MoveFile, Sweep, Renamed
  <2> QED
    BY <1>0, <2>1, RepathUnique, RowsOnlyChange
<1> QED
  BY <1>1, <1>2, <1>3, <1>4, <1>5, <1>6, <1>7 DEF Next

-----------------------------------------------------------------------------
(* One worker at a time.                                                   *)

Turns(w) == \E k : Becomes(w, k)

LEMMA Others ==
  ASSUME Typed, NEW w \in Workers, Turns(w), NEW v \in Workers, v # w
  PROVE  jobs'[v] = jobs[v] /\ (AtWork(v)' <=> AtWork(v))
<1>1. jobs'[v] = jobs[v]
  BY DEF Turns, Becomes, Typed, JobsTyped
<1> QED
  BY <1>1 DEF AtWork

\* After a step of w nobody else is at work.
LEMMA AloneAfter ==
  ASSUME Typed, NEW w \in Workers, Turns(w), Leaves(w),
         \A v \in Workers \ {w} : ~AtWork(v)
  PROVE  Alone'
<1>1. ASSUME NEW v \in Workers, v # w PROVE ~AtWork(v)'
  BY <1>1, Others
<1>2. \A v \in Workers : AtWork(v)' => v = w
  BY <1>1
<1>3. CASE AtWork(w)'
  BY <1>2, <1>3 DEF Alone, Leaves
<1>4. CASE ~AtWork(w)'
  BY <1>2, <1>4 DEF Alone, Leaves
<1> QED
  BY <1>3, <1>4

LEMMA WorkStep ==
  ASSUME CalmInv, NEW w \in Workers, AtWork(w), Turns(w), Noted, mishap => mishap',
         RowsFiled /\ Doing(jobs[w]) /\ ~mishap' => Leaves(w)
  PROVE  Alone'
<1> SUFFICES ASSUME Calm' PROVE Alone'
  BY DEF Alone
<1>1. Calm
  BY DEF Calm, Noted
<1>2. RowsFiled /\ Doing(jobs[w]) /\ \A v \in Workers \ {w} : ~AtWork(v)
  BY <1>1 DEF CalmInv, Alone
<1>3. Leaves(w)
  BY <1>2 DEF Calm
<1> QED
  BY <1>2, <1>3, AloneAfter DEF CalmInv

LEMMA StartStep ==
  ASSUME CalmInv, NEW w \in Workers, ~AtWork(w), AtWork(w)', Turns(w), Noted, mishap => mishap',
         RowsFiled /\ AgreeBut({}) => Leaves(w)
  PROVE  Alone'
<1> SUFFICES ASSUME Calm' PROVE Alone'
  BY DEF Alone
<1>1. Calm
  BY DEF Calm, Noted
<1>2. ASSUME NEW v \in Workers, v # w PROVE ~AtWork(v)
  <2>1. ~AtWork(v)'
    BY <1>2 DEF Calm, Noted
  <2> QED
    BY <2>1, <1>2, Others DEF CalmInv
<1>3. \A v \in Workers : ~AtWork(v)
  BY <1>2
<1>4. Leaves(w)
  BY <1>1, <1>3 DEF CalmInv, Alone
<1> QED
  BY <1>2, <1>4, AloneAfter DEF CalmInv

\* A step at which nobody takes up or goes on with anything.
LEMMA RestStep ==
  ASSUME CalmInv, UNCHANGED <<disk, rows, albums>>, Calm' => Calm,
         \A w \in Workers : (AtWork(w)' <=> AtWork(w)) /\ (AtWork(w) => jobs'[w] = jobs[w])
  PROVE  Alone'
<1> SUFFICES ASSUME Calm' PROVE Alone'
  BY DEF Alone
<1>1. /\ \A w, v \in Workers : AtWork(w) /\ AtWork(v) => w = v
      /\ (\A w \in Workers : ~AtWork(w)) => AgreeBut({})
      /\ \A w \in Workers : AtWork(w) => Doing(jobs[w])
      /\ RowsFiled
  BY DEF CalmInv, Alone
<1>2. /\ Rows' = Rows /\ \A p : RowsAt(p)' = RowsAt(p)
  BY DEF Rows, RowsAt
<1>3. RowsFiled' /\ (AgreeBut({})' <=> AgreeBut({}))
  BY <1>1, <1>2 DEF RowsFiled, AgreeBut, Agree
<1>4. ASSUME NEW w \in Workers, AtWork(w) PROVE Doing(jobs[w])'
  <2>1. PICK k : k = jobs'[w]
    OBVIOUS
  <2>2. Doing(k) /\ k.pc \notin {"idle", "settle"}
    BY <1>1, <1>4, <2>1 DEF AtWork
  <2>3. Leaves(w)
    BY <1>1, <2>1, <2>2, Same
  <2> QED
    BY <1>4, <2>3 DEF Leaves
<1>5. \A w \in Workers : AtWork(w)' <=> AtWork(w)
  OBVIOUS
<1> QED
  BY <1>1, <1>3, <1>4, <1>5 DEF Alone

MishapStays == mishap => mishap'

LEMMA MishapsStay == ASSUME Next PROVE MishapStays
<1>1. ASSUME NEW s \in Songs, Drop(s) \/ Upload(s) PROVE MishapStays
  BY <1>1 DEF Drop, Upload, Request, MishapStays
<1>2. ASSUME NEW w \in Workers, IngestStep(w) PROVE MishapStays
  BY <1>2 DEF IngestStep, ListFolder, FindAlbum, CreateAlbum, Place, FindRow, Insert, MishapStays
<1>3. ASSUME NEW m \in Managers, Ask(m) PROVE MishapStays
  BY <1>3 DEF Ask, Asks, DeleteTrack, DeleteAlbum, MergeAlbums, MoveTrack, RenameAlbumFolder, Request,
     MishapStays
<1>4. ASSUME NEW m \in Managers, Serve(m) PROVE MishapStays
  BY <1>4 DEF Serve, Serves, NextTrack, RemoveFile, DeleteRow, DeleteAlbumRow, Reassign, SetAlbum,
     IsEmpty, ListEmpty, MoveFile, Repath, Sweep, Renamed, MishapStays
<1>5. CASE RefreshStep \/ Dispatch \/ Crash
  BY <1>5 DEF RefreshStep, StartRefresh, Walk, CheckFile, Prune, Dispatch, Crash, MishapStays
<1> QED
  BY <1>1, <1>2, <1>3, <1>4, <1>5 DEF Next

Starts(m) == \E k : Becomes(m, k) /\ k.pc \in {"remove", "tracks", "reassign", "set", "move"}

\* A worker that asks was idle, and one that serves or files was at work.
LEMMA AskTurns ==
  ASSUME Typed, NEW m \in Managers, Ask(m)
  PROVE  Turns(m) /\ ~AtWork(m) /\ AtWork(m)'
<1>1. m \in Workers /\ jobs \in [Workers -> Job] /\ jobs[m].pc = "idle"
  BY Roles DEF Ask, Asks, DeleteTrack, DeleteAlbum, MergeAlbums, MoveTrack, RenameAlbumFolder,
     Request, Typed, JobsTyped
<1>2. PICK k : /\ Becomes(m, k)
               /\ k.pc \in {"remove", "tracks", "reassign", "set", "move"}
  <2>1. ASSUME NEW r \in Tracks, DeleteTrack(m, r) PROVE Starts(m)
    <3>1. PICK k : k = [Idle EXCEPT !.pc = "remove", !.row = r, !.path = rows[r].path]
      OBVIOUS
    <3>2. k.pc = "remove"
      BY <3>1 DEF Idle
    <3>3. Becomes(m, k)
      BY <2>1, <3>1 DEF DeleteTrack
    <3> QED
      BY <3>2, <3>3 DEF Starts
  <2>2. ASSUME NEW a \in Albums, DeleteAlbum(m, a) PROVE Starts(m)
    <3>1. PICK k : k = [Idle EXCEPT !.pc = "tracks", !.album = a, !.list = Listed(RowsOf(a))]
      OBVIOUS
    <3>2. k.pc = "tracks"
      BY <3>1 DEF Idle
    <3>3. Becomes(m, k)
      BY <2>2, <3>1 DEF DeleteAlbum
    <3> QED
      BY <3>2, <3>3 DEF Starts
  <2>3. ASSUME NEW a \in Albums, NEW b \in Albums, MergeAlbums(m, a, b) PROVE Starts(m)
    <3>1. PICK k : k = [Idle EXCEPT !.pc = "reassign", !.album = b, !.target = a]
      OBVIOUS
    <3>2. k.pc = "reassign"
      BY <3>1 DEF Idle
    <3>3. Becomes(m, k)
      BY <2>3, <3>1 DEF MergeAlbums
    <3> QED
      BY <3>2, <3>3 DEF Starts
  <2>4. ASSUME NEW r \in Tracks, NEW a \in Albums, MoveTrack(m, r, a) PROVE Starts(m)
    <3>1. PICK k : k = [Idle EXCEPT !.pc = "set", !.row = r, !.album = rows[r].album, !.target = a]
      OBVIOUS
    <3>2. k.pc = "set"
      BY <3>1 DEF Idle
    <3>3. Becomes(m, k)
      BY <2>4, <3>1 DEF MoveTrack
    <3> QED
      BY <3>2, <3>3 DEF Starts
  <2>5. ASSUME NEW a \in Albums, NEW f \in Titles, RenameAlbumFolder(m, a, f) PROVE Starts(m)
    <3>1. PICK k : k = [Idle EXCEPT !.pc = "move", !.album = a, !.title = f,
                               !.list = Listed(RowsOf(a))]
      OBVIOUS
    <3>2. k.pc = "move"
      BY <3>1 DEF Idle
    <3>3. Becomes(m, k)
      BY <2>5, <3>1 DEF RenameAlbumFolder
    <3> QED
      BY <3>2, <3>3 DEF Starts
  <2> QED
    BY <2>1, <2>2, <2>3, <2>4, <2>5 DEF Ask, Asks, Starts
<1>3. jobs'[m] = k
  BY <1>1, <1>2 DEF Becomes
<1> QED
  BY <1>1, <1>2, <1>3 DEF Turns, AtWork

LEMMA ServeTurns ==
  ASSUME NEW m \in Managers, Serve(m)
  PROVE  Turns(m) /\ AtWork(m)
<1>1. Turns(m)
  BY DEF Serve, Serves, NextTrack, RemoveFile, DeleteRow, DeleteAlbumRow, Reassign, SetAlbum,
     IsEmpty, ListEmpty, MoveFile, Repath, Sweep, Renamed, Goes, Turns
<1>2. jobs[m].pc \in {"tracks", "remove", "row", "reassign", "set", "empty", "list", "move", "repath"}
  BY DEF Serve, Serves, NextTrack, RemoveFile, DeleteRow, DeleteAlbumRow, Reassign, SetAlbum,
     IsEmpty, ListEmpty, MoveFile, Repath, Sweep, Renamed
<1> QED
  BY <1>1, <1>2 DEF AtWork

LEMMA FileTurns ==
  ASSUME NEW w \in Workers,
         FindAlbum(w) \/ CreateAlbum(w) \/ Place(w) \/ FindRow(w) \/ Insert(w)
  PROVE  Turns(w) /\ AtWork(w)
<1>1. Turns(w)
  BY DEF FindAlbum, CreateAlbum, Place, FindRow, Insert, Goes, Turns
<1>2. jobs[w].pc \in Filing
  BY DEF FindAlbum, CreateAlbum, Place, FindRow, Insert, Filing
<1> QED
  BY <1>1, <1>2 DEF AtWork, Filing

LEMMA AloneStep ==
  ASSUME CalmInv, IdsLeft, [Next]_vars
  PROVE  Alone'
<1>0. Typed /\ Unique
  BY DEF CalmInv
<1>1. CASE UNCHANGED vars
  <2>1. UNCHANGED <<disk, rows, albums>> /\ (Calm' => Calm) /\ jobs' = jobs
    BY <1>1 DEF vars, libraryVars, Calm
  <2> QED
    BY <2>1, RestStep DEF AtWork
<1> SUFFICES ASSUME Next PROVE Alone'
  BY <1>1
<1>2. MishapStays
  BY MishapsStay
<1>3. ASSUME NEW s \in Songs, Drop(s), Noted PROVE Alone'
  <2>1. UNCHANGED <<disk, rows, albums, mishap>> /\ (Calm' => Calm) /\ jobs' = jobs
    BY <1>3 DEF Drop, Noted, Calm
  <2> QED
    BY <2>1, RestStep DEF AtWork
<1>4. CASE Dispatch /\ Noted
  <2>1. UNCHANGED <<disk, rows, albums, mishap>> /\ (Calm' => Calm)
    BY <1>4 DEF Dispatch, Noted, Calm
  <2>2. PICK d : d = DirOf[Head(queue)]
    OBVIOUS
  <2>3. PICK k : k = [Idle EXCEPT !.pc = "settle", !.dirs = {d}]
    OBVIOUS
  <2>4. k.pc = "settle"
    BY <2>3 DEF Idle
  <2>5. jobs' = jobs \/ (jobs[d].pc = "idle" /\ jobs' = [jobs EXCEPT ![d] = k])
    BY <1>4, <2>2, <2>3 DEF Dispatch, Becomes
  <2>6. jobs \in [Workers -> Job]
    BY <1>0 DEF Typed, JobsTyped
  <2>7. ASSUME NEW w \in Workers
        PROVE  (AtWork(w)' <=> AtWork(w)) /\ (AtWork(w) => jobs'[w] = jobs[w])
    <3>1. CASE jobs'[w] = jobs[w]
      BY <3>1 DEF AtWork
    <3>2. CASE jobs'[w] # jobs[w]
      BY <2>4, <2>5, <2>6, <3>2 DEF AtWork
    <3> QED
      BY <3>1, <3>2
  <2> QED
    BY <2>1, <2>7, RestStep
<1>5. ASSUME NEW s \in Songs, Upload(s), Noted PROVE Alone'
  <2>1. PICK k : k = [Idle EXCEPT !.pc = "album", !.files = {s}, !.title = TagOf[s]]
    OBVIOUS
  <2>2. k.pc = "album" /\ jobs' = [jobs EXCEPT ![Uploader] = k] /\ jobs[Uploader].pc = "idle"
    BY <1>5, <2>1 DEF Upload, Becomes, Idle, Request
  <2>3. Uploader \in Workers /\ jobs \in [Workers -> Job]
    BY <1>0, Roles DEF Typed, JobsTyped
  <2>4. ~AtWork(Uploader) /\ AtWork(Uploader)' /\ Turns(Uploader)
    BY <2>2, <2>3 DEF AtWork, Turns, Becomes
  <2>5. RowsFiled /\ AgreeBut({}) => Leaves(Uploader)
    BY <1>0, <1>5, UploadAlone
  <2> QED
    BY <1>2, <1>5, <2>3, <2>4, <2>5, StartStep DEF MishapStays
<1>6. CASE StartRefresh /\ Noted
  <2>1. PICK k : k = [Idle EXCEPT !.pc = "walk", !.dirs = Titles]
    OBVIOUS
  <2>2. k.pc = "walk" /\ jobs' = [jobs EXCEPT ![Refresher] = k] /\ jobs[Refresher].pc = "idle"
    BY <1>6, <2>1 DEF StartRefresh, Becomes, Idle
  <2>3. Refresher \in Workers /\ jobs \in [Workers -> Job]
    BY <1>0, Roles DEF Typed, JobsTyped
  <2>4. ~AtWork(Refresher) /\ AtWork(Refresher)' /\ Turns(Refresher)
    BY <2>2, <2>3 DEF AtWork, Turns, Becomes
  <2>5. RowsFiled /\ AgreeBut({}) => Leaves(Refresher)
    BY <1>0, <1>6, StartRefreshAlone
  <2> QED
    BY <1>2, <1>6, <2>3, <2>4, <2>5, StartStep DEF MishapStays
<1>7. CASE (Walk \/ CheckFile \/ Prune) /\ Noted
  <2>1. Refresher \in Workers
    BY Roles
  <2>2. AtWork(Refresher) /\ Turns(Refresher)
    BY <1>7 DEF Walk, CheckFile, Prune, AtWork, Turns
  <2>3. RowsFiled /\ Doing(jobs[Refresher]) /\ ~mishap' => Leaves(Refresher)
    <3>1. CASE Prune
      BY <3>1 DEF Prune, Doing
    <3> QED
      BY <1>0, <1>7, <3>1, WalkAlone, CheckFileAlone
  <2> QED
    BY <1>2, <1>7, <2>1, <2>2, <2>3, WorkStep DEF MishapStays
<1>8. ASSUME NEW w \in Workers, IngestStep(w), Noted PROVE Alone'
  <2>1. CASE ListFolder(w)
    <3>1. PICK d : d = First(jobs[w].dirs)
      OBVIOUS
    <3>2. PICK t : Becomes(w, [jobs[w] EXCEPT !.dirs = @ \ {d}, !.files = Source(d), !.title = t,
                                              !.pc = "album"])
      BY <2>1, <3>1 DEF ListFolder
    <3>3. jobs[w] \in Job /\ jobs \in [Workers -> Job] /\ jobs[w].pc = "settle"
      BY <1>0, <2>1, OneJob DEF Typed, JobsTyped, ListFolder
    <3>4. PICK k : k = [jobs[w] EXCEPT !.dirs = @ \ {d}, !.files = Source(d), !.title = t,
                                       !.pc = "album"]
      OBVIOUS
    <3>5. k.pc = "album"
      BY <3>3, <3>4 DEF Job
    <3>6. jobs'[w] = k
      BY <3>2, <3>3, <3>4 DEF Becomes
    <3>7. ~AtWork(w) /\ AtWork(w)' /\ Turns(w)
      BY <3>2, <3>3, <3>5, <3>6 DEF AtWork, Turns
    <3>8. RowsFiled /\ AgreeBut({}) => Leaves(w)
      BY <1>0, <2>1, ListFolderAlone
    <3> QED
      BY <1>2, <1>8, <3>7, <3>8, StartStep DEF MishapStays
  <2>2. CASE ~ListFolder(w)
    <3>1. FindAlbum(w) \/ CreateAlbum(w) \/ Place(w) \/ FindRow(w) \/ Insert(w)
      BY <1>8, <2>2 DEF IngestStep
    <3>2. AtWork(w) /\ Turns(w)
      BY <3>1, FileTurns
    <3>3. RowsFiled /\ Doing(jobs[w]) /\ ~mishap' => Leaves(w)
      BY <1>0, <3>1, FindAlbumAlone, CreateAlbumAlone, PlaceAlone, FindRowAlone, InsertAlone
    <3> QED
      BY <1>2, <1>8, <3>2, <3>3, WorkStep DEF MishapStays
  <2> QED
    BY <2>1, <2>2
<1>9. ASSUME NEW m \in Managers, Ask(m), Noted PROVE Alone'
  <2>1. m \in Workers
    BY Roles
  <2>2. RowsFiled /\ AgreeBut({}) => Leaves(m)
    BY <1>0, <1>9, DeleteTrackAlone, DeleteAlbumAlone, MergeAlbumsAlone, MoveTrackAlone,
       RenameAlbumFolderAlone DEF Ask, Asks
  <2> QED
    BY <1>0, <1>2, <1>9, <2>1, <2>2, AskTurns, StartStep DEF MishapStays
<1>10. ASSUME NEW m \in Managers, Serve(m), Noted PROVE Alone'
  <2>1. m \in Workers
    BY Roles
  <2>2. RowsFiled /\ Doing(jobs[m]) /\ ~mishap' => Leaves(m)
    BY <1>0, <1>10, NextTrackAlone, RemoveFileAlone, DeleteRowAlone, DeleteAlbumRowAlone, ReassignAlone,
       SetAlbumAlone, IsEmptyAlone, ListEmptyAlone, MoveFileAlone, RepathAlone, SweepAlone,
       RenamedAlone DEF Serve, Serves
  <2> QED
    BY <1>2, <1>10, <2>1, <2>2, ServeTurns, WorkStep DEF MishapStays
<1>11. CASE Crash
  BY <1>11 DEF Crash, Alone, Calm
<1> QED
  BY <1>3, <1>4, <1>5, <1>6, <1>7, <1>8, <1>9, <1>10, <1>11 DEF Next, RefreshStep

LEMMA CalmInit ==
  ASSUME Init
  PROVE  CalmInv
<1>1. Typed
  BY TypedInit
<1>2. Unique /\ RowsFiled /\ AgreeBut({})
  BY InitShelf DEF Unique, RowsFiled, AgreeBut, Agree
<1>3. \A w \in Workers : ~AtWork(w)
  BY DEF Init, LibraryInit, Idle, AtWork
<1> QED
  BY <1>1, <1>2, <1>3 DEF CalmInv, Alone

LEMMA AloneAgree ==
  ASSUME CalmInv
  PROVE  ApartOnlyByMishap
<1> SUFFICES ASSUME \A w \in Workers : ~AtWork(w), ~overlapped, ~mishap PROVE InStep
  BY DEF ApartOnlyByMishap
<1>1. \A p \in Paths : disk[p] # None <=> RowsAt(p) # {}
  BY DEF CalmInv, Alone, Calm, AgreeBut, Agree
<1>2. ASSUME NEW r \in Rows PROVE rows[r].path \in Paths
  <2>1. rows[r] \in Track
    BY DEF Rows, CalmInv, Typed, ShelfTyped
  <2> QED
    BY <2>1 DEF Track
<1> QED
  BY <1>1, <1>2 DEF InStep, RowsAt

\* As long as there are ids, the catalogue and the disk agree whenever nothing
\* runs, however many requests, uploads, folders and refreshes came before,
\* unless two of them overlapped, the server died, two files of one length met
\* or a rename swept along a file that has a row.
THEOREM AgreeUnlessMishap == Spec /\ []IdsLeft => []ApartOnlyByMishap
<1>1. Init => CalmInv
  BY CalmInit
<1>2. CalmInv /\ IdsLeft /\ [Next]_vars => CalmInv'
  BY TypedStep, UniqueStep, AloneStep DEF CalmInv
<1>3. CalmInv => ApartOnlyByMishap
  BY AloneAgree
<1> QED
  BY <1>1, <1>2, <1>3, PTL DEF Spec

=============================================================================
