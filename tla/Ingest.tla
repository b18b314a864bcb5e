------------------------------- MODULE Ingest -------------------------------
(***************************************************************************)
(* How music gets into the catalogue: the watcher of the ingest folder and *)
(* the scan of that folder at each start, an upload, and the daily refresh *)
(* that scans the library and prunes the rows whose file is gone.  They    *)
(* run beside each other and beside the requests of Library.               *)
(*                                                                         *)
(* Sources are copied, never moved: what was dropped into the ingest       *)
(* folder stays there.                                                     *)
(***************************************************************************)
EXTENDS Library, Sequences, SequencesExt

CONSTANTS
    Dirs,       \* folders under INGEST_PATH
    DirOf,      \* per song: the folder it is dropped in
    NameOf,     \* per song: the name the organizer gives its file
    Boot,       \* the worker of the scan at the start
    Uploader,   \* the worker of an upload
    Refresher   \* the worker of the daily refresh

\* The watcher's task for a folder is named after the folder.
ASSUME IngestAssumption ==
    /\ Workers = Dirs \cup Managers \cup {Boot, Uploader, Refresher}
    /\ Boot # Uploader /\ Boot # Refresher /\ Uploader # Refresher
    /\ Dirs \cap Managers = {}
    /\ {Boot, Uploader, Refresher} \cap (Dirs \cup Managers) = {}
    /\ DirOf \in [Songs -> Dirs] /\ NameOf \in [Songs -> Names]

VARIABLES
    drops,      \* the songs dropped so far
    queue,      \* the watcher's channel: the songs whose event is in it
    missed,     \* dropped songs whose event was skipped
    placed,     \* songs that got into the library
    overlapped  \* two workers were at work at once

ingestVars == <<drops, queue, missed, placed>>
vars == <<libraryVars, ingestVars, overlapped>>

IngestTypeOK ==
    /\ LibraryTypeOK
    /\ drops \subseteq Songs /\ missed \subseteq drops /\ placed \subseteq Songs
    /\ queue \in Seq(drops)
    /\ overlapped \in BOOLEAN

\* An empty library, or one that a scan has filled, each file at a path of its own.
Init ==
    LET at == [s \in Songs |-> <<TagOf[s], NameOf[s]>>]
    IN /\ placed \in {S \in {{}, Songs} : IsInjective(Restrict(at, S))}
       /\ LibraryInit(placed, at)
    /\ drops = {} /\ queue = <<>> /\ missed = {}
    /\ overlapped = FALSE

Source(d) == {s \in drops : DirOf[s] = d}
\* choose_album_title: the most common title among the tags.
CommonTitles(ss) == {t \in Titles : \A u \in Titles :
                   Cardinality({s \in ss : TagOf[s] = u}) <= Cardinality({s \in ss : TagOf[s] = t})}

------------------------------------------------------------------------------
(* The watcher.                                                            *)

\* A user copies a song into the ingest folder, and the system reports it.
Drop(s) ==
    /\ s \notin drops /\ acts < MaxActs /\ acts' = acts + 1
    /\ drops' = drops \cup {s} /\ queue' = Append(queue, s)
    /\ UNCHANGED <<disk, rows, albums, jobs, gone, mishap, missed, placed>>

\* The receiver: an event is skipped when its folder is in flight.
Dispatch ==
    LET s == Head(queue)
        d == DirOf[s]
        idle == jobs[d].pc = "idle"
        seen == jobs[d].pc = "settle" \/ s \in jobs[d].files
    IN /\ queue # <<>> /\ queue' = Tail(queue)
       /\ IF idle THEN Becomes(d, [Idle EXCEPT !.pc = "settle", !.dirs = {d}]) ELSE UNCHANGED jobs
       /\ missed' = IF idle \/ seen \/ s \in placed THEN missed ELSE missed \cup {s}
       /\ UNCHANGED <<disk, rows, albums, gone, mishap, acts, drops, placed>>

------------------------------------------------------------------------------
(* One folder becomes one album: organize_dir.                             *)

\* A folder is listed and its tags are read.  Nothing leaves the ingest folder.
ListFolder(w) ==
    LET j == jobs[w]
        d == First(j.dirs)
    IN /\ j.pc = "settle"
       /\ \E t \in CommonTitles(Source(d)) :
            Becomes(w, [j EXCEPT !.dirs = @ \ {d}, !.files = Source(d), !.title = t, !.pc = "album"])
       /\ missed' = missed \ Source(d)
       /\ UNCHANGED <<disk, rows, albums, gone, mishap, acts, drops, queue, placed>>

\* find_by_artist_and_title: any of them, when there are several.
FindAlbum(w) ==
    LET j == jobs[w]
    IN /\ j.pc \in {"album", "album again"}
       /\ IF Titled(j.title) = {}
            THEN Goes(w, IF j.pc = "album" THEN "create" ELSE "create again")
            ELSE \E a \in Titled(j.title) :
                   Becomes(w, [j EXCEPT !.album = a, !.pc = IF @ = "album" THEN "place" ELSE "insert"])
       /\ UNCHANGED <<disk, rows, albums, gone, mishap, acts, ingestVars>>

\* create_album: titles are not unique.
CreateAlbum(w) ==
    LET j == jobs[w]
    IN /\ j.pc \in {"create", "create again"}
       /\ albums' = [albums EXCEPT ![FreshAlbum] = j.title]
       /\ Becomes(w, [j EXCEPT !.album = FreshAlbum, !.pc = IF @ = "create" THEN "place" ELSE "insert"])
       /\ UNCHANGED <<disk, rows, gone, mishap, acts, ingestVars>>

\* Organizer::organize: a file of the same length at the destination is
\* taken for the same file; any other is overwritten.
Place(w) ==
    LET j == jobs[w]
        s == First(j.files)
        p == <<j.title, NameOf[s]>>
        same == disk[p] # None /\ SizeOf[disk[p]] = SizeOf[s]
    IN /\ j.pc = "place"
       /\ disk' = IF same THEN disk ELSE [disk EXCEPT ![p] = s]
       /\ gone' = gone \cup (({disk[p], s} \ {disk'[p]}) \ {None})
       /\ placed' = placed \cup {s}
       /\ Becomes(w, [j EXCEPT !.files = @ \ {s}, !.path = p, !.pc = "find"])
       /\ UNCHANGED <<rows, albums, mishap, acts, drops, queue, missed>>

\* What a worker turns to after a file: the next file, the next folder.
After(w) ==
    LET j == [jobs[w] EXCEPT !.path = NoPath]
        again == [j EXCEPT !.title = None, !.album = None]
    IN CASE w = Refresher                     -> [again EXCEPT !.pc = "walk"]
         [] w # Refresher /\ j.files # {}     -> [j EXCEPT !.pc = "place"]
         [] w # Refresher /\ j.files = {}     -> IF j.dirs = {} THEN Idle ELSE [again EXCEPT !.pc = "settle"]

\* The head of index_file_into and index_file: a file that is
\* indexed is skipped, one that cannot be read is an error.  Only the folder's
\* task knows the album already; an upload takes it from the tags again.
FindRow(w) ==
    LET j == jobs[w]
    IN /\ j.pc = "find"
       /\ Becomes(w, IF RowsAt(j.path) # {} \/ disk[j.path] = None THEN After(w)
                     ELSE IF w = Uploader
                     THEN [j EXCEPT !.title = TagOf[disk[j.path]], !.pc = "album again"]
                     ELSE [j EXCEPT !.pc = "insert"])
       /\ UNCHANGED <<disk, rows, albums, gone, mishap, acts, ingestVars>>

\* create_track: an album deleted or a path indexed meanwhile is an error.
Insert(w) ==
    LET j == jobs[w]
    IN /\ j.pc = "insert"
       /\ rows' = IF albums[j.album] = None \/ RowsAt(j.path) # {} THEN rows
                  ELSE [rows EXCEPT ![FreshTrack] = [path |-> j.path, album |-> j.album]]
       /\ Becomes(w, After(w))
       /\ UNCHANGED <<disk, albums, gone, mishap, acts, ingestVars>>

\* organize_and_index, on a file staged by the upload endpoint.
Upload(s) ==
    /\ Request(Uploader) /\ UNCHANGED gone
    /\ Becomes(Uploader, [Idle EXCEPT !.pc = "album", !.files = {s}, !.title = TagOf[s]])
    /\ UNCHANGED ingestVars

------------------------------------------------------------------------------
(* The daily refresh: the library is scanned, then pruned.                 *)

\* The timer goes on for ever: past the bound it ticks when nothing else is up.
StartRefresh ==
    /\ jobs[Refresher].pc = "idle"
    /\ \/ acts < MaxActs /\ acts' = acts + 1
       \/ acts = MaxActs /\ queue = <<>> /\ (\A w \in Workers : jobs[w].pc = "idle") /\ UNCHANGED acts
    /\ Becomes(Refresher, [Idle EXCEPT !.pc = "walk", !.dirs = Titles])
    /\ UNCHANGED <<disk, rows, albums, gone, mishap, ingestVars>>

\* The walk lists a folder when it comes to it; ingest_one begins as above.
Walk ==
    LET j == jobs[Refresher]
        p == First(j.files)
        d == First(j.dirs)
    IN /\ j.pc = "walk"
       /\ Becomes(Refresher,
            IF j.files # {}
              THEN IF RowsAt(p) # {} \/ disk[p] = None THEN [j EXCEPT !.files = @ \ {p}]
                   ELSE [j EXCEPT !.files = @ \ {p}, !.path = p, !.title = TagOf[disk[p]], !.pc = "album again"]
            ELSE IF j.dirs # {} THEN [j EXCEPT !.dirs = @ \ {d}, !.files = FilesOf(d)]
            ELSE [j EXCEPT !.pc = "check", !.list = Listed(Rows)])
       /\ UNCHANGED <<disk, rows, albums, gone, mishap, acts, ingestVars>>

\* Mutant: prune_missing ends at the first row whose file is there.
CheckFileEnds ==
    LET j == jobs[Refresher]
        x == First(j.list)
    IN /\ j.pc = "check"
       /\ Becomes(Refresher,
            IF j.list = {} \/ disk[x[2]] # None THEN Idle
            ELSE [j EXCEPT !.list = @ \ {x}, !.row = x[1], !.pc = "prune"])
       /\ UNCHANGED <<disk, rows, albums, gone, mishap, acts, ingestVars>>

\* prune_missing, on the rows and paths it listed.
CheckFile ==
    LET j == jobs[Refresher]
        x == First(j.list)
    IN /\ j.pc = "check"
       /\ Becomes(Refresher,
            IF j.list = {} THEN Idle
            ELSE IF disk[x[2]] # None THEN [j EXCEPT !.list = @ \ {x}]
            ELSE [j EXCEPT !.list = @ \ {x}, !.row = x[1], !.pc = "prune"])
       /\ UNCHANGED <<disk, rows, albums, gone, mishap, acts, ingestVars>>

Prune ==
    LET j == jobs[Refresher]
    IN /\ j.pc = "prune"
       /\ rows' = [rows EXCEPT ![j.row] = None]
       /\ Becomes(Refresher, [j EXCEPT !.row = None, !.pc = "check"])
       /\ UNCHANGED <<disk, albums, gone, mishap, acts, ingestVars>>

------------------------------------------------------------------------------
\* Mutant: a start does not scan the ingest folder.
CrashUnscanned ==
    /\ acts < MaxActs /\ acts' = acts + 1
    /\ jobs' = [w \in Workers |-> Idle]
    /\ queue' = <<>> /\ missed' = {}
    /\ mishap' = TRUE
    /\ UNCHANGED <<disk, rows, albums, gone, drops, placed>>

\* The server dies with everything at work and comes back; the start scans
\* the ingest folder.
Crash ==
    LET dirs == {DirOf[s] : s \in drops}
    IN /\ acts < MaxActs /\ acts' = acts + 1
       /\ jobs' = [w \in Workers |-> IF w = Boot /\ dirs # {}
                                      THEN [Idle EXCEPT !.pc = "settle", !.dirs = dirs] ELSE Idle]
       /\ queue' = <<>> /\ missed' = {}
       /\ mishap' = TRUE
       /\ UNCHANGED <<disk, rows, albums, gone, drops, placed>>

IngestStep(w) ==
    \/ ListFolder(w) \/ FindAlbum(w) \/ CreateAlbum(w) \/ Place(w) \/ FindRow(w) \/ Insert(w)
RefreshStep == StartRefresh \/ Walk \/ CheckFile \/ Prune
Serve(m) == Serves(m) /\ UNCHANGED ingestVars
Ask(m) == Asks(m) /\ UNCHANGED ingestVars

AtWork(w) == jobs[w].pc \notin {"idle", "settle"}
Noted == overlapped' = (overlapped \/ \E w, v \in Workers : w # v /\ AtWork(w)' /\ AtWork(v)')

Next ==
    \/ \E s \in Songs : (Drop(s) \/ Upload(s)) /\ Noted
    \/ Dispatch /\ Noted
    \/ \E w \in Workers : IngestStep(w) /\ Noted
    \/ RefreshStep /\ Noted
    \/ \E m \in Managers : (Ask(m) \/ Serve(m)) /\ Noted
    \/ Crash /\ Noted

\* A task, a request that was accepted, the channel's receiver and the timer
\* of the refresh go on.
Fairness ==
    /\ WF_vars(Dispatch /\ Noted)
    /\ WF_vars(RefreshStep /\ Noted)
    /\ \A w \in Workers : WF_vars(IngestStep(w) /\ Noted)
    /\ \A m \in Managers : WF_vars(Serve(m) /\ Noted)

Spec == Init /\ [][Next]_vars /\ Fairness

------------------------------------------------------------------------------
\* The rows name exactly the files there are.
InStep == {rows[r].path : r \in Rows} = {p \in Paths : disk[p] # None}

\* The catalogue and the disk part only where requests and tasks overlap,
\* where the server dies, where two files of one length meet, and where a
\* rename sweeps along another album's files: whatever else ran, one after
\* the other, they agree when nothing runs.
ApartOnlyByMishap == (\A w \in Workers : ~AtWork(w)) => InStep \/ overlapped \/ mishap

OnDisk(s) == \E p \in Paths : disk[p] = s

\* A request to delete a track removes the file at the path it read, which is
\* no longer its row's: the row was pruned, deleted or renamed since.
DeletesAnothers ==
    \E m \in Managers : LET j == jobs[m]
                       IN j.pc = "remove" /\ jobs'[m].pc = "row" /\ j.row \notin RowsAt(j.path)

\* No step takes the last file of a song off the disk, unless the row of such a
\* file was to be deleted, another song took its place, or a delete removes what
\* is now at the path it read: neither a rename with a stale list nor its sweep,
\* an ingest, the refresh or a crash loses a file.
SongsKept ==
    [][\A s \in Songs : OnDisk(s) /\ ~OnDisk(s)' => s \in gone' \/ DeletesAnothers]_vars

\* A song dropped into the ingest folder gets into the library, whatever runs
\* beside it and wherever the server dies, unless the watcher skips its event.
DropsLand == \A s \in Songs : s \in drops ~> (s \in placed \cup missed)

\* Whatever overlapping requests, tasks and crashes did to the rows, the daily
\* refresh brings them back to what is on the disk.
Settles == <>[]InStep
==============================================================================
