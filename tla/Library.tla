------------------------------ MODULE Library ------------------------------
(***************************************************************************)
(* The server's catalogue beside the music on its disk: rows of tracks and *)
(* albums in PostgreSQL, files in album folders, and a manager's requests  *)
(* on them (LibraryService).  A request is a loop of single statements and *)
(* single file operations; nothing locks the catalogue or the folder while *)
(* it runs, so whatever it listed may be stale at its next step.           *)
(*                                                                         *)
(* One artist stands for all: the folder <language>/<artist>/<album> is    *)
(* named by its last component.  A song stands for the bytes of a file and *)
(* the tags in them.                                                       *)
(***************************************************************************)
EXTENDS Integers, FiniteSets, Functions

CONSTANTS
    Songs,       \* what a file can hold
    Titles,      \* album titles, which are also the names of folders
    Names,       \* names of files in a folder
    TagOf,       \* per song: the album title in its tags
    SizeOf,      \* per song: the length of its file
    Tracks,      \* ids of track rows
    Albums,      \* ids of album rows
    Workers,     \* the tasks and acts that may run side by side
    Managers,    \* those of them that serve a manager's requests
    MaxActs,     \* bound: drops, requests, refreshes and crashes in a behaviour
    None         \* no song, no row, no album

Paths == Titles \X Names

ASSUME LibraryAssumption ==
    /\ Managers \subseteq Workers
    /\ TagOf \in [Songs -> Titles] /\ SizeOf \in [Songs -> Nat]
    /\ MaxActs \in Nat
    /\ None \notin Songs /\ None \notin Titles /\ None \notin Tracks /\ None \notin Albums
    /\ None \notin [path : Paths, album : Albums]
    /\ \E f \in [Songs -> Tracks] : IsInjective(f)
    /\ \E f \in [Titles -> Albums] : IsInjective(f)

VARIABLES
    disk,     \* per path: the song in the file there, or None
    rows,     \* per track id: its path and album, or None
    albums,   \* per album id: its title, or None
    jobs,     \* per worker: where it is, and what it holds of what it read
    gone,     \* songs somebody asked to delete, or another file replaced
    mishap,   \* a file was moved or dropped under a row, or the server died
    acts      \* bound: drops, requests, refreshes and crashes so far

libraryVars == <<disk, rows, albums, jobs, gone, mishap, acts>>

NoPath == <<None, None>>
Idle == [pc |-> "idle", dirs |-> {}, files |-> {}, list |-> {}, title |-> None,
         album |-> None, target |-> None, path |-> NoPath, row |-> None]

Rows == {r \in Tracks : rows[r] # None}
RowsAt(p) == {r \in Rows : rows[r].path = p}
RowsOf(a) == {r \in Rows : rows[r].album = a}
Listed(rs) == {<<r, rows[r].path>> : r \in rs}
Titled(t) == {a \in Albums : albums[a] = t}
FilesOf(d) == {p \in Paths : p[1] = d /\ disk[p] # None}
\* The loops go through what they listed in some fixed order.
First(S) == CHOOSE x \in S : TRUE
SameSize(p, q) == SizeOf[disk[p]] = SizeOf[disk[q]]

\* An id is new when no row has it and no worker remembers it.
NewTracks == {r \in Tracks : /\ rows[r] = None
                             /\ \A w \in Workers : /\ jobs[w].row # r
                                                   /\ r \notin {x[1] : x \in jobs[w].list}}
NewAlbums == {a \in Albums : /\ albums[a] = None
                             /\ \A w \in Workers : a \notin {jobs[w].album, jobs[w].target}}
FreshTrack == First(NewTracks)
FreshAlbum == First(NewAlbums)

LibraryTypeOK ==
    /\ disk \in [Paths -> Songs \cup {None}]
    /\ rows \in [Tracks -> [path : Paths, album : Albums] \cup {None}]
    /\ albums \in [Albums -> Titles \cup {None}]
    /\ gone \subseteq Songs
    /\ mishap \in BOOLEAN /\ acts \in 0..MaxActs
    /\ \A w \in Workers :
         /\ DOMAIN jobs[w] = DOMAIN Idle
         /\ jobs[w].path \in Paths \cup {NoPath}
         /\ jobs[w].list \subseteq Tracks \X Paths
         /\ jobs[w].row \in Tracks \cup {None}
         /\ {jobs[w].album, jobs[w].target} \subseteq Albums \cup {None}
         /\ jobs[w].title \in Titles \cup {None}

\* The songs S at their paths, each with its row, an album per title.
Holding(S, at) ==
    LET ids == CHOOSE f \in [S -> Tracks] : IsInjective(f)
        titles == {at[s][1] : s \in S}
        of == CHOOSE f \in [titles -> Albums] : IsInjective(f)
    IN /\ disk = [p \in Paths |-> IF \E s \in S : at[s] = p THEN CHOOSE s \in S : at[s] = p ELSE None]
       /\ rows = [r \in Tracks |-> IF \E s \in S : ids[s] = r
                                   THEN LET s == CHOOSE s \in S : ids[s] = r
                                        IN [path |-> at[s], album |-> of[at[s][1]]]
                                   ELSE None]
       /\ albums = [a \in Albums |-> IF \E t \in titles : of[t] = a
                                      THEN CHOOSE t \in titles : of[t] = a ELSE None]

LibraryInit(S, at) ==
    /\ Holding(S, at)
    /\ jobs = [w \in Workers |-> Idle]
    /\ gone = {} /\ mishap = FALSE /\ acts = 0

Becomes(w, j) == jobs' = [jobs EXCEPT ![w] = j]
Goes(w, pc) == Becomes(w, [jobs[w] EXCEPT !.pc = pc])

------------------------------------------------------------------------------
(* Deleting a track or an album: the row is read, its file removed, then   *)
(* the row.  An album goes track by track, then by its own row, which      *)
(* takes along the rows that joined it meanwhile.                          *)

Request(m) ==
    /\ jobs[m].pc = "idle" /\ acts < MaxActs
    /\ acts' = acts + 1
    /\ UNCHANGED <<disk, rows, albums, mishap>>

\* The file at p is to go, on somebody's request.
Asked(p) == gone \cup ({disk[p]} \ {None})

\* delete_track
DeleteTrack(m, r) ==
    /\ Request(m) /\ rows[r] # None
    /\ gone' = Asked(rows[r].path)
    /\ Becomes(m, [Idle EXCEPT !.pc = "remove", !.row = r, !.path = rows[r].path])

\* Mutant: the album's row is deleted at once, its tracks go by the cascade.
DeleteAlbumByCascade(m, a) ==
    /\ Request(m) /\ UNCHANGED gone /\ albums[a] # None
    /\ Becomes(m, [Idle EXCEPT !.pc = "tracks", !.album = a])

\* delete_album
DeleteAlbum(m, a) ==
    /\ Request(m) /\ UNCHANGED gone /\ albums[a] # None
    /\ Becomes(m, [Idle EXCEPT !.pc = "tracks", !.album = a, !.list = Listed(RowsOf(a))])

\* The loop of delete_album, up to the read of delete_track.
NextTrack(m) ==
    LET j == jobs[m]
        x == First(j.list)
    IN /\ j.pc = "tracks" /\ j.list # {}
       /\ IF rows[x[1]] = None
            THEN Becomes(m, [j EXCEPT !.list = @ \ {x}]) /\ UNCHANGED gone
            ELSE /\ Becomes(m, [j EXCEPT !.list = @ \ {x}, !.pc = "remove",
                                         !.row = x[1], !.path = rows[x[1]].path])
                 /\ gone' = Asked(rows[x[1]].path)
       /\ UNCHANGED <<disk, rows, albums, mishap, acts>>

\* std::fs::remove_file, which may find nothing.
RemoveFile(m) ==
    LET p == jobs[m].path
    IN /\ jobs[m].pc = "remove"
       /\ disk' = [disk EXCEPT ![p] = None]
       /\ gone' = IF jobs[m].row \in RowsAt(p) THEN Asked(p) ELSE gone
       /\ Goes(m, "row")
       /\ UNCHANGED <<rows, albums, mishap, acts>>

DeleteRow(m) ==
    LET j == jobs[m]
    IN /\ j.pc = "row"
       /\ rows' = [rows EXCEPT ![j.row] = None]
       /\ Becomes(m, IF j.album = None THEN Idle
                     ELSE [j EXCEPT !.pc = "tracks", !.row = None, !.path = NoPath])
       /\ UNCHANGED <<disk, albums, gone, mishap, acts>>

\* AlbumRepo::delete: tracks.album_id is ON DELETE CASCADE.
DeleteAlbumRow(m) ==
    LET j == jobs[m]
    IN /\ j.pc = "tracks" /\ j.list = {}
       /\ albums' = [albums EXCEPT ![j.album] = None]
       /\ rows' = [r \in Tracks |-> IF r \in RowsOf(j.album) THEN None ELSE rows[r]]
       /\ Becomes(m, Idle)
       /\ UNCHANGED <<disk, gone, mishap, acts>>

------------------------------------------------------------------------------
(* Regrouping: rows change albums, files stay where they are.              *)

\* merge_albums, up to the reads.
MergeAlbums(m, survivor, duplicate) ==
    /\ Request(m) /\ UNCHANGED gone /\ survivor # duplicate
    /\ albums[survivor] # None /\ albums[duplicate] # None
    /\ Becomes(m, [Idle EXCEPT !.pc = "reassign", !.album = duplicate, !.target = survivor])

\* reassign_album: an error when the survivor is gone.  Then the duplicate
\* goes like any album.
Reassign(m) ==
    LET j == jobs[m]
    IN /\ j.pc = "reassign"
       /\ IF albums[j.target] = None /\ RowsOf(j.album) # {}
            THEN Becomes(m, Idle) /\ UNCHANGED rows
            ELSE /\ rows' = [r \in Tracks |-> IF r \in RowsOf(j.album)
                                              THEN [rows[r] EXCEPT !.album = j.target] ELSE rows[r]]
                 /\ Becomes(m, [Idle EXCEPT !.pc = "tracks", !.album = j.album])
       /\ UNCHANGED <<disk, albums, gone, mishap, acts>>

\* move_track, up to the reads.
MoveTrack(m, r, a) ==
    /\ Request(m) /\ UNCHANGED gone /\ rows[r] # None /\ albums[a] # None /\ a # rows[r].album
    /\ Becomes(m, [Idle EXCEPT !.pc = "set", !.row = r, !.album = rows[r].album, !.target = a])

SetAlbum(m) ==
    LET j == jobs[m]
    IN /\ j.pc = "set"
       /\ IF rows[j.row] = None \/ albums[j.target] = None
            THEN Becomes(m, Idle) /\ UNCHANGED rows
            ELSE /\ rows' = [rows EXCEPT ![j.row].album = j.target]
                 /\ Becomes(m, [Idle EXCEPT !.pc = "empty", !.album = j.album])
       /\ UNCHANGED <<disk, albums, gone, mishap, acts>>

\* The album it left is deleted when no track is in it.
IsEmpty(m) ==
    LET j == jobs[m]
    IN /\ j.pc = "empty"
       /\ Becomes(m, IF RowsOf(j.album) = {} /\ albums[j.album] # None
                       THEN [j EXCEPT !.pc = "list"] ELSE Idle)
       /\ UNCHANGED <<disk, rows, albums, gone, mishap, acts>>

\* delete_album lists it again.
ListEmpty(m) ==
    LET j == jobs[m]
    IN /\ j.pc = "list"
       /\ Becomes(m, IF albums[j.album] = None THEN Idle
                     ELSE [j EXCEPT !.pc = "tracks", !.list = Listed(RowsOf(j.album))])
       /\ UNCHANGED <<disk, rows, albums, gone, mishap, acts>>

------------------------------------------------------------------------------
(* Renaming an album's folder: file by file, each move followed by the     *)
(* update of its row, then whatever is left in the folders moved from.     *)

RenameAlbumFolder(m, a, folder) ==
    /\ Request(m) /\ UNCHANGED gone /\ albums[a] # None /\ RowsOf(a) # {}
    /\ Becomes(m, [Idle EXCEPT !.pc = "move", !.album = a, !.title = folder,
                               !.list = Listed(RowsOf(a))])

\* Mutant: only a file of the same length is in the way.
CollidesSameSize(p, q) == disk[p] # None /\ disk[q] # None /\ SameSize(p, q)

\* What moving p to q does to the disk (move_file): nothing is overwritten,
\* and of two files of one length the moved one is dropped.
Collides(p, q) == disk[p] # None /\ disk[q] # None
Dropped(p, q) == Collides(p, q) /\ SameSize(p, q)
Stays(p, q) ==
    p = q \/ (disk[p] = None /\ disk[q] = None) \/ (Collides(p, q) /\ ~SameSize(p, q))
Moved(p, q) ==
    IF disk[p] = None \/ (Collides(p, q) /\ ~SameSize(p, q)) THEN disk
    ELSE [disk EXCEPT ![p] = None, ![q] = IF Dropped(p, q) THEN @ ELSE disk[p]]

\* One turn of the loop over the tracks listed.
MoveFile(m) ==
    LET j == jobs[m]
        x == First(j.list)
        p == x[2]
        q == <<j.title, p[2]>>
        rest == [j EXCEPT !.list = @ \ {x}]
    IN /\ j.pc = "move" /\ j.list # {}
       /\ IF Stays(p, q) THEN Becomes(m, rest) /\ UNCHANGED <<disk, gone, mishap>>
          ELSE /\ disk' = Moved(p, q)
               /\ gone' = gone \cup (IF Dropped(p, q) THEN {disk[p]} \ {disk[q]} ELSE {})
               /\ mishap' = (mishap \/ Dropped(p, q))
               /\ Becomes(m, [rest EXCEPT !.pc = "repath", !.row = x[1], !.path = q,
                                          !.dirs = @ \cup {p[1]}])
       /\ UNCHANGED <<rows, albums, acts>>

\* update_file_path: file_path is UNIQUE, and an error ends the request.
Repath(m) ==
    LET j == jobs[m]
    IN /\ j.pc = "repath"
       /\ IF rows[j.row] # None /\ RowsAt(j.path) \ {j.row} # {}
            THEN Becomes(m, Idle) /\ UNCHANGED rows
            ELSE /\ rows' = IF rows[j.row] = None THEN rows ELSE [rows EXCEPT ![j.row].path = j.path]
                 /\ Becomes(m, [j EXCEPT !.pc = "move", !.row = None, !.path = NoPath])
       /\ UNCHANGED <<disk, albums, gone, mishap, acts>>

\* The files of folder d that folder t has room for, and the disk when they
\* have gone there.
Leftover(d, t) == {p \in FilesOf(d) : ~Collides(p, <<t, p[2]>>) \/ SameSize(p, <<t, p[2]>>)}
NamesIn(S) == {p[2] : p \in S}
Swept(d, t) ==
    [p \in Paths |->
       IF p \in Leftover(d, t) THEN None
       ELSE IF p[1] = t /\ p[2] \in NamesIn(Leftover(d, t)) /\ disk[p] = None
       THEN disk[<<d, p[2]>>] ELSE disk[p]]

\* move_leftover_files: every file left in a folder a track was moved from,
\* whatever it is.
Sweep(m) ==
    LET j == jobs[m]
    IN /\ j.pc = "move" /\ j.list = {} /\ j.dirs # {}
       /\ \E d \in j.dirs :
            LET left == Leftover(d, j.title)
            IN /\ disk' = Swept(d, j.title)
               /\ gone' = gone \cup ({disk[p] : p \in left}
                                      \ {disk'[<<j.title, n>>] : n \in NamesIn(left)})
               /\ mishap' = (mishap \/ \E p \in left : RowsAt(p) # {} \/ Dropped(p, <<j.title, p[2]>>))
               /\ Becomes(m, [j EXCEPT !.dirs = @ \ {d}])
       /\ UNCHANGED <<rows, albums, acts>>

Renamed(m) ==
    /\ jobs[m].pc = "move" /\ jobs[m].list = {} /\ jobs[m].dirs = {}
    /\ Becomes(m, Idle)
    /\ UNCHANGED <<disk, rows, albums, gone, mishap, acts>>

------------------------------------------------------------------------------
Asks(m) ==
    \/ \E r \in Tracks : DeleteTrack(m, r)
    \/ \E a \in Albums : DeleteAlbum(m, a)
    \/ \E a, b \in Albums : MergeAlbums(m, a, b)
    \/ \E r \in Tracks, a \in Albums : MoveTrack(m, r, a)
    \/ \E a \in Albums, f \in Titles : RenameAlbumFolder(m, a, f)

Serves(m) ==
    \/ NextTrack(m) \/ RemoveFile(m) \/ DeleteRow(m) \/ DeleteAlbumRow(m)
    \/ Reassign(m) \/ SetAlbum(m) \/ IsEmpty(m) \/ ListEmpty(m)
    \/ MoveFile(m) \/ Repath(m) \/ Sweep(m) \/ Renamed(m)
==============================================================================
