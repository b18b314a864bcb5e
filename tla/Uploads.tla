------------------------------ MODULE Uploads ------------------------------
(***************************************************************************)
(* The chunked upload sessions of the server: services/uploads.rs over the *)
(* upload tables of db/pg.rs and the staging directory.                    *)
(*                                                                         *)
(* Every request runs as a future of its own, called a task here.  A step  *)
(* of a task is the code between two await points that touches shared      *)
(* state: a database statement, a file-system call or a use of the         *)
(* `finalizing` mutex.  What a task read before an await lives in its      *)
(* record and may be stale when it is used.  The process may crash (every  *)
(* task and the mutex are lost, the database and the directory survive),   *)
(* and a single future may be dropped by its transport: the clients give   *)
(* up after their request timeout, and a last chunk is answered only after *)
(* the whole session is ingested.                                          *)
(***************************************************************************)
EXTENDS FiniteSets, Naturals

CONSTANTS
    Uploads,    \* session ids (uuids, so never reused)
    Users,      \* the accounts that own sessions
    Owner,      \* Owner[u]: the account whose `init` creates session u
    Tasks,      \* request futures that may be in flight together
    Files,      \* the files every session declares
    Chunks,     \* the chunk indices every file declares
    Ops         \* the operations the environment issues in this instance

ASSUME OwnerAssumption == Owner \in [Uploads -> Users]
ASSUME ShapeAssumption == Files # {} /\ Chunks # {} /\ Uploads # {}

VARIABLES
    state,      \* uploads.state, "absent" before the row exists
    report,     \* whether a report is stored, and the files it lists as ok
    rows,       \* upload_files rows inserted so far
    received,   \* upload_chunks rows with received = TRUE
    counted,    \* received_chunks of a file, as the set of rows it counted
    fileState,  \* upload_files.state
    part,       \* content of <file>/<chunk>.part on disk
    tmp,        \* content of <file>/<chunk>.part.tmp on disk
    finalizing, \* the in-process mutex set electing one finalizer
    task,       \* the request futures
    acked,      \* history: chunks some put_chunk answered Ok for
    ingested,   \* history: files handed to the library
    purged      \* history: sessions whose directory was removed

dbVars == <<state, report, rows, received, counted, fileState>>
diskVars == <<part, tmp>>
histVars == <<acked, ingested, purged>>
vars == <<dbVars, diskVars, histVars, finalizing, task>>

-----------------------------------------------------------------------------
Active == {"initialized", "uploading", "paused"}
Terminal == {"completed", "cancelled"}
States == Active \cup Terminal
FileStates == {"pending", "uploading", "complete", "failed"}
Bytes == {"good", "bad"}
Contents == {"none", "partial"} \cup Bytes
NoReport == [written |-> FALSE, ok |-> {}]
Pieces == Files \X Chunks

PutPCs == {"put", "writing", "written", "renamed", "marked", "counting",
           "counted", "filed", "flipped", "electing"}
FinPCs == {"finLoad", "finList", "finFiles", "finReport", "finPurge", "finRelease"}
CtlPCs == {"cancel", "cancelPurge", "pause", "resume"}
PCs == {"idle", "orphan", "create", "declare"} \cup PutPCs \cup FinPCs \cup CtlPCs

Requests == [pc : PCs, upload : Uploads, file : Files, chunk : Chunks,
             data : Bytes, first : BOOLEAN, tally : SUBSET Chunks,
             todo : SUBSET Files, ok : SUBSET Files, inode : {"tmp", "part", "gone"}]

Idle == [pc |-> "idle", upload |-> CHOOSE u \in Uploads : TRUE,
         file |-> CHOOSE f \in Files : TRUE, chunk |-> CHOOSE c \in Chunks : TRUE,
         data |-> "good", first |-> FALSE, tally |-> {}, todo |-> {},
         ok |-> {}, inode |-> "tmp"]

At(t, l) == task[t].pc = l
Goto(t, l) == task' = [task EXCEPT ![t].pc = l]
Return(t) == task' = [task EXCEPT ![t] = Idle]
Piece(t) == <<task[t].file, task[t].chunk>>

Writers(u, p) ==
    {t \in Tasks : task[t].pc \in {"writing", "orphan"} /\ task[t].upload = u /\ Piece(t) = p}

Init ==
    /\ state = [u \in Uploads |-> "absent"]
    /\ report = [u \in Uploads |-> NoReport]
    /\ rows = [u \in Uploads |-> {}]
    /\ received = [u \in Uploads |-> {}]
    /\ counted = [u \in Uploads |-> [f \in Files |-> {}]]
    /\ fileState = [u \in Uploads |-> [f \in Files |-> "pending"]]
    /\ part = [u \in Uploads |-> [p \in Pieces |-> "none"]]
    /\ tmp = [u \in Uploads |-> [p \in Pieces |-> "none"]]
    /\ finalizing = {}
    /\ task = [t \in Tasks |-> Idle]
    /\ acked = [u \in Uploads |-> {}]
    /\ ingested = [u \in Uploads |-> {}]
    /\ purged = {}

-----------------------------------------------------------------------------
(* init: a count of the owner's active sessions, then one insert per row.  *)

ActiveOf(user) == {u \in Uploads : Owner[u] = user /\ state[u] \in Active}

\* Only a fresh id is created, and by one task.
Fresh(u) == state[u] = "absent" /\ \A t \in Tasks : At(t, "create") => task[t].upload # u

InitCheck(t, u) ==
    /\ "init" \in Ops
    /\ At(t, "idle") /\ Fresh(u)
    /\ ActiveOf(Owner[u]) = {}
    /\ task' = [task EXCEPT ![t].pc = "create", ![t].upload = u]
    /\ UNCHANGED <<dbVars, diskVars, histVars, finalizing>>

InitCreate(t) ==
    /\ At(t, "create")
    /\ state' = [state EXCEPT ![task[t].upload] = "initialized"]
    /\ Goto(t, "declare")
    /\ UNCHANGED <<report, rows, received, counted, fileState, diskVars, histVars, finalizing>>

InitFile(t, f) ==
    LET u == task[t].upload IN
    /\ At(t, "declare") /\ f \notin rows[u]
    /\ rows' = [rows EXCEPT ![u] = @ \cup {f}]
    /\ IF rows'[u] = Files THEN Return(t) ELSE UNCHANGED task
    /\ UNCHANGED <<state, report, received, counted, fileState, diskVars, histVars, finalizing>>

-----------------------------------------------------------------------------
(* put_chunk                                                               *)

\* A client has a session's id from the answer of its init, or, if that was
\* lost, from a list of the sessions left behind.
Known(u) == \A t \in Tasks : At(t, "declare") => task[t].upload # u

\* Mutant: the hash of the bytes is not checked.
PutStartUnverified(t, u, f, c, b) ==
    /\ "put" \in Ops
    /\ At(t, "idle") /\ Known(u) /\ state[u] \in Active /\ f \in rows[u]
    /\ task' = [task EXCEPT ![t].pc = "put", ![t].upload = u, ![t].file = f,
                            ![t].chunk = c, ![t].data = b,
                            ![t].first = (state[u] = "initialized")]
    /\ UNCHANGED <<dbVars, diskVars, histVars, finalizing>>

\* Load the session and the rows, refuse a session that is not active and
\* bytes whose hash is not the declared one.
PutStart(t, u, f, c, b) ==
    /\ "put" \in Ops
    /\ At(t, "idle") /\ Known(u)
    /\ state[u] \in Active
    /\ f \in rows[u]
    /\ b = "good"
    /\ task' = [task EXCEPT ![t].pc = "put", ![t].upload = u, ![t].file = f,
                            ![t].chunk = c, ![t].data = b,
                            ![t].first = (state[u] = "initialized")]
    /\ UNCHANGED <<dbVars, diskVars, histVars, finalizing>>

\* create_dir_all, then the open of tokio::fs::write, which truncates.  The
\* temporary name is the chunk's: two sends of one chunk share the file.
PutOpen(t) ==
    /\ At(t, "put")
    /\ tmp' = [tmp EXCEPT ![task[t].upload][Piece(t)] = "partial"]
    /\ task' = [task EXCEPT ![t].pc = "writing", ![t].inode = "tmp"]
    /\ UNCHANGED <<dbVars, part, histVars, finalizing>>

\* The write reaches the file the task opened, wherever a rename moved it.
FinishWrite(t) ==
    LET u == task[t].upload IN
    /\ tmp' = IF task[t].inode = "tmp"
              THEN [tmp EXCEPT ![u][Piece(t)] = task[t].data] ELSE tmp
    /\ part' = IF task[t].inode = "part"
               THEN [part EXCEPT ![u][Piece(t)] = task[t].data] ELSE part

\* Mutant: the temporary file is never renamed.
PutWriteUnrenamed(t) ==
    /\ At(t, "writing")
    /\ FinishWrite(t)
    /\ task' = [task EXCEPT ![t].pc = "renamed", ![t].inode = "tmp"]
    /\ UNCHANGED <<dbVars, histVars, finalizing>>

PutWrite(t) ==
    /\ At(t, "writing")
    /\ FinishWrite(t)
    /\ task' = [task EXCEPT ![t].pc = "written", ![t].inode = "tmp"]
    /\ UNCHANGED <<dbVars, histVars, finalizing>>

\* Files still open follow the rename; the one that was replaced is unlinked.
MovedInode(w) == IF task[w].inode = "tmp" THEN "part" ELSE "gone"

PutRename(t) ==
    LET u == task[t].upload  p == Piece(t) IN
    /\ At(t, "written")
    /\ tmp[u][p] # "none"
    /\ part' = [part EXCEPT ![u][p] = tmp[u][p]]
    /\ tmp' = [tmp EXCEPT ![u][p] = "none"]
    /\ task' = [w \in Tasks |->
                  IF w = t THEN [task[t] EXCEPT !.pc = "renamed"]
                  ELSE IF w \in Writers(u, p) THEN [task[w] EXCEPT !.inode = MovedInode(w)]
                  ELSE task[w]]
    /\ UNCHANGED <<dbVars, histVars, finalizing>>

\* The rename fails: another send of the chunk took the temporary file, or
\* a cancel removed the directory.
PutRenameFails(t) ==
    /\ At(t, "written")
    /\ tmp[task[t].upload][Piece(t)] = "none"
    /\ Return(t)
    /\ UNCHANGED <<dbVars, diskVars, histVars, finalizing>>

\* First statement of mark_chunk_received.
PutMark(t) ==
    /\ At(t, "renamed")
    /\ received' = [received EXCEPT ![task[t].upload] = @ \cup {Piece(t)}]
    /\ Goto(t, "marked")
    /\ UNCHANGED <<state, report, rows, counted, fileState, diskVars, histVars, finalizing>>

\* Second statement: the sub-select counts in the snapshot the statement
\* started with, and under READ COMMITTED keeps that snapshot when it has to
\* wait for the file row's lock.
PutCount(t) ==
    LET r == task[t] IN
    /\ At(t, "marked")
    /\ task' = [task EXCEPT ![t].pc = "counting",
                            ![t].tally = {c \in Chunks : <<r.file, c>> \in received[r.upload]}]
    /\ UNCHANGED <<dbVars, diskVars, histVars, finalizing>>

\* What is left of a call whose file is not complete, and of one that did not
\* load the session as initialized.
AfterFileState(r) == IF r.first THEN "filed" ELSE "flipped"
AfterStore(r) == IF r.tally = Chunks THEN "counted" ELSE AfterFileState(r)

PutStore(t) ==
    LET r == task[t] IN
    /\ At(t, "counting")
    /\ counted' = [counted EXCEPT ![r.upload][r.file] = r.tally]
    /\ fileState' = [fileState EXCEPT ![r.upload][r.file] =
                        IF @ = "pending" THEN "uploading" ELSE @]
    /\ task' = [task EXCEPT ![t].pc = AfterStore(r), ![t].tally = {}]
    /\ UNCHANGED <<state, report, rows, received, diskVars, histVars, finalizing>>

PutFileState(t) ==
    LET r == task[t] IN
    /\ At(t, "counted")
    /\ fileState' = [fileState EXCEPT ![r.upload][r.file] = "complete"]
    /\ Goto(t, AfterFileState(r))
    /\ UNCHANGED <<state, report, rows, received, counted, diskVars, histVars, finalizing>>

\* initialized -> uploading, decided on the state loaded when the call began.
PutFlip(t) ==
    /\ At(t, "filed")
    /\ state' = [state EXCEPT ![task[t].upload] = "uploading"]
    /\ task' = [task EXCEPT ![t].pc = "flipped", ![t].first = FALSE]
    /\ UNCHANGED <<report, rows, received, counted, fileState, diskVars, histVars, finalizing>>

Acknowledge(t) == acked' = [acked EXCEPT ![task[t].upload] = @ \cup {Piece(t)}]

\* Mutant: one chunk of a file is enough.
AllCountedSome(u) == \A f \in rows[u] : counted[u][f] # {}

AllCounted(u) == \A f \in rows[u] : counted[u][f] = Chunks

\* list_files: an incomplete session is acknowledged, a complete one finalized.
PutProgress(t) ==
    /\ At(t, "flipped")
    /\ \/ /\ AllCounted(task[t].upload)
          /\ Goto(t, "electing")
          /\ UNCHANGED acked
       \/ /\ ~AllCounted(task[t].upload)
          /\ Acknowledge(t)
          /\ Return(t)
    /\ UNCHANGED <<dbVars, diskVars, ingested, purged, finalizing>>

-----------------------------------------------------------------------------
(* maybe_finalize, finalize                                                *)

\* Mutant: the mutex set is not consulted.
ElectAlways(t) ==
    /\ At(t, "electing")
    /\ finalizing' = finalizing \cup {task[t].upload}
    /\ Goto(t, "finLoad")
    /\ UNCHANGED <<dbVars, diskVars, histVars>>

Elect(t) ==
    LET u == task[t].upload IN
    /\ At(t, "electing")
    /\ \/ /\ u \in finalizing
          /\ Acknowledge(t)
          /\ Return(t)
          /\ UNCHANGED finalizing
       \/ /\ u \notin finalizing
          /\ finalizing' = finalizing \cup {u}
          /\ Goto(t, "finLoad")
          /\ UNCHANGED acked
    /\ UNCHANGED <<dbVars, diskVars, ingested, purged>>

\* Mutant: a paused session is not finalized.
FinLoadUnpaused(t) ==
    /\ At(t, "finLoad")
    /\ Goto(t, IF state[task[t].upload] \in {"initialized", "uploading"}
               THEN "finList" ELSE "finRelease")
    /\ UNCHANGED <<dbVars, diskVars, histVars, finalizing>>

FinLoad(t) ==
    /\ At(t, "finLoad")
    /\ Goto(t, IF state[task[t].upload] \in Active THEN "finList" ELSE "finRelease")
    /\ UNCHANGED <<dbVars, diskVars, histVars, finalizing>>

FinList(t) ==
    /\ At(t, "finList")
    /\ task' = [task EXCEPT ![t].pc = "finFiles", ![t].todo = rows[task[t].upload],
                            ![t].ok = {}]
    /\ UNCHANGED <<dbVars, diskVars, histVars, finalizing>>

\* The whole-file hash is right exactly when every part holds its bytes.
Reassembles(u, f) == \A c \in Chunks : part[u][<<f, c>>] = "good"

\* After the last file the loop ends.
FilesDone(t, f) == IF task[t].todo = {f} THEN "finReport" ELSE "finFiles"

FinFileOk(t, f) ==
    LET u == task[t].upload IN
    /\ At(t, "finFiles") /\ f \in task[t].todo
    /\ Reassembles(u, f)
    /\ ingested' = [ingested EXCEPT ![u] = @ \cup {f}]
    /\ fileState' = [fileState EXCEPT ![u][f] = "complete"]
    /\ task' = [task EXCEPT ![t].todo = @ \ {f}, ![t].ok = @ \cup {f},
                            ![t].pc = FilesDone(t, f)]
    /\ UNCHANGED <<state, report, rows, received, counted, diskVars, acked, purged, finalizing>>

\* A part is missing or wrong, or the ingest itself refuses the file.
FinFileFails(t, f) ==
    LET u == task[t].upload IN
    /\ At(t, "finFiles") /\ f \in task[t].todo
    /\ ~Reassembles(u, f) \/ "refuse" \in Ops
    /\ fileState' = [fileState EXCEPT ![u][f] = "failed"]
    /\ task' = [task EXCEPT ![t].todo = @ \ {f}, ![t].pc = FilesDone(t, f)]
    /\ UNCHANGED <<state, report, rows, received, counted, diskVars, histVars, finalizing>>

FinReport(t) ==
    LET u == task[t].upload IN
    /\ At(t, "finReport")
    /\ state' = [state EXCEPT ![u] = "completed"]
    /\ report' = [report EXCEPT ![u] = [written |-> TRUE, ok |-> task[t].ok]]
    /\ Goto(t, "finPurge")
    /\ UNCHANGED <<rows, received, counted, fileState, diskVars, histVars, finalizing>>

\* remove_dir_all of the session: open files are unlinked under their writers.
Purge(u) ==
    /\ part' = [part EXCEPT ![u] = [p \in Pieces |-> "none"]]
    /\ tmp' = [tmp EXCEPT ![u] = [p \in Pieces |-> "none"]]
    /\ purged' = purged \cup {u}

Unlinked(w, u) ==
    IF task[w].pc \in {"writing", "orphan"} /\ task[w].upload = u
    THEN [task[w] EXCEPT !.inode = "gone"] ELSE task[w]

FinPurge(t) ==
    LET u == task[t].upload IN
    /\ At(t, "finPurge")
    /\ Purge(u)
    /\ task' = [w \in Tasks |-> IF w = t THEN [task[t] EXCEPT !.pc = "finRelease"]
                                ELSE Unlinked(w, u)]
    /\ UNCHANGED <<dbVars, acked, ingested, finalizing>>

FinRelease(t) ==
    /\ At(t, "finRelease")
    /\ finalizing' = finalizing \ {task[t].upload}
    /\ Acknowledge(t)
    /\ Return(t)
    /\ UNCHANGED <<dbVars, diskVars, ingested, purged>>

-----------------------------------------------------------------------------
(* cancel, pause, resume: a read, a check, then an unconditional update.   *)
(* Pausing a paused session only reads.                                    *)

Control(t, u, op, allowed) ==
    /\ op \in Ops
    /\ At(t, "idle")
    /\ state[u] \in allowed
    /\ task' = [task EXCEPT ![t].pc = op, ![t].upload = u]
    /\ UNCHANGED <<dbVars, diskVars, histVars, finalizing>>

\* Mutant: the state is not checked.
CancelLoadAny(t, u) == Control(t, u, "cancel", States)

CancelLoad(t, u) == Control(t, u, "cancel", Active)
PauseLoad(t, u) == Control(t, u, "pause", Active \ {"paused"})
ResumeLoad(t, u) == Control(t, u, "resume", {"paused"})

SetUploadState(u, s) ==
    /\ state' = [state EXCEPT ![u] = s]
    /\ UNCHANGED <<report, rows, received, counted, fileState>>

CancelWrite(t) ==
    /\ At(t, "cancel")
    /\ SetUploadState(task[t].upload, "cancelled")
    /\ Goto(t, "cancelPurge")
    /\ UNCHANGED <<diskVars, histVars, finalizing>>

CancelPurge(t) ==
    LET u == task[t].upload IN
    /\ At(t, "cancelPurge")
    /\ Purge(u)
    /\ task' = [w \in Tasks |-> IF w = t THEN Idle ELSE Unlinked(w, u)]
    /\ UNCHANGED <<dbVars, acked, ingested, finalizing>>

PauseWrite(t) ==
    /\ At(t, "pause")
    /\ SetUploadState(task[t].upload, "paused")
    /\ Return(t)
    /\ UNCHANGED <<diskVars, histVars, finalizing>>

ResumeWrite(t) ==
    /\ At(t, "resume")
    /\ SetUploadState(task[t].upload, "uploading")
    /\ Return(t)
    /\ UNCHANGED <<diskVars, histVars, finalizing>>

\* The stall sweeper's single conditional update.  A minute without a chunk
\* may pass between any two steps, so its time condition is not a guard here.
Sweep(u) ==
    /\ "sweep" \in Ops
    /\ state[u] \in {"initialized", "uploading"}
    /\ SetUploadState(u, "paused")
    /\ UNCHANGED <<diskVars, histVars, finalizing, task>>

-----------------------------------------------------------------------------
(* Failures                                                                *)

\* The process dies: futures and mutex are gone, a file being written stays
\* as far as it got.
Crash ==
    /\ "crash" \in Ops
    /\ task' = [t \in Tasks |-> Idle]
    /\ finalizing' = {}
    /\ UNCHANGED <<dbVars, diskVars, histVars>>

\* A transport drops one future at an await.  A write already handed to the
\* blocking pool still completes.
Drop(t) ==
    /\ "drop" \in Ops
    /\ task[t].pc \notin {"idle", "orphan"}
    /\ IF At(t, "writing") THEN Goto(t, "orphan") ELSE Return(t)
    /\ UNCHANGED <<dbVars, diskVars, histVars, finalizing>>

OrphanWrite(t) ==
    /\ At(t, "orphan")
    /\ FinishWrite(t)
    /\ Return(t)
    /\ UNCHANGED <<dbVars, histVars, finalizing>>

\* A statement fails: the request answers an error where it stands, and a
\* finalizer leaves the mutex set on its way out.
DbPCs == {"create", "declare", "put", "renamed", "marked", "counting", "counted",
          "filed", "flipped", "finLoad", "finList", "finReport", "cancel", "pause", "resume"}

Fail(t) ==
    /\ "fail" \in Ops
    /\ task[t].pc \in DbPCs
    /\ finalizing' = IF task[t].pc \in FinPCs
                     THEN finalizing \ {task[t].upload} ELSE finalizing
    /\ Return(t)
    /\ UNCHANGED <<dbVars, diskVars, histVars>>

-----------------------------------------------------------------------------
InitStep(t) == InitCreate(t) \/ \E f \in Files : InitFile(t, f)

PutStep(t) ==
    \/ PutOpen(t) \/ PutWrite(t) \/ PutRename(t) \/ PutRenameFails(t)
    \/ PutMark(t) \/ PutCount(t) \/ PutStore(t) \/ PutFileState(t)
    \/ PutFlip(t) \/ PutProgress(t) \/ Elect(t)

FinStep(t) ==
    \/ FinLoad(t) \/ FinList(t)
    \/ \E f \in Files : FinFileOk(t, f) \/ FinFileFails(t, f)
    \/ FinReport(t) \/ FinPurge(t) \/ FinRelease(t)

ControlStep(t) == CancelWrite(t) \/ CancelPurge(t) \/ PauseWrite(t) \/ ResumeWrite(t)

\* A step of a request already accepted.
Continue(t) == InitStep(t) \/ PutStep(t) \/ FinStep(t) \/ ControlStep(t) \/ OrphanWrite(t)

\* A new request.
Request(t) ==
    \E u \in Uploads :
        \/ InitCheck(t, u)
        \/ \E f \in Files, c \in Chunks, b \in Bytes : PutStart(t, u, f, c, b)
        \/ CancelLoad(t, u) \/ PauseLoad(t, u) \/ ResumeLoad(t, u)

Next ==
    \/ \E t \in Tasks : Continue(t) \/ Request(t) \/ Drop(t) \/ Fail(t)
    \/ \E u \in Uploads : Sweep(u)
    \/ Crash

Spec == Init /\ [][Next]_vars

\* The client sends a chunk again until a send of it is answered Ok
\* (send_chunk_resilient), and never afterwards.
Resend(u, f, c) ==
    \E t \in Tasks : <<f, c>> \notin acked[u] /\ PutStart(t, u, f, c, "good")

-----------------------------------------------------------------------------
(* Properties                                                              *)

TypeOK ==
    /\ state \in [Uploads -> States \cup {"absent"}]
    /\ report \in [Uploads -> [written : BOOLEAN, ok : SUBSET Files]]
    /\ rows \in [Uploads -> SUBSET Files]
    /\ received \in [Uploads -> SUBSET Pieces]
    /\ counted \in [Uploads -> [Files -> SUBSET Chunks]]
    /\ fileState \in [Uploads -> [Files -> FileStates]]
    /\ part \in [Uploads -> [Pieces -> Contents]]
    /\ tmp \in [Uploads -> [Pieces -> Contents]]
    /\ finalizing \in SUBSET Uploads
    /\ task \in [Tasks -> Requests]
    /\ acked \in [Uploads -> SUBSET Pieces]
    /\ ingested \in [Uploads -> SUBSET Files]
    /\ purged \in SUBSET Uploads

\* At most one request finalizes a session at any time, whatever crashes,
\* drops and failed statements do to the mutex set (maybe_finalize).
SingleFinalizer ==
    \A t1, t2 \in Tasks :
        /\ task[t1].pc \in FinPCs /\ task[t2].pc \in FinPCs
        /\ task[t1].upload = task[t2].upload
        => t1 = t2

\* A file's stored count never includes a chunk row that is not marked, even
\* when counts taken in old snapshots are written late (mark_chunk_received).
CountedReceived ==
    \A u \in Uploads, f \in Files : {f} \X counted[u][f] \subseteq received[u]

\* A chunk the client was told has landed is marked in the database for good:
\* what a resuming client skips was really acknowledged or really stored.
AckedReceived == \A u \in Uploads : acked[u] \subseteq received[u]

\* A marked chunk is on disk until the session's directory is removed, so a
\* crash never leaves a row that promises bytes nobody has (rename, then mark).
StagedUntilPurged ==
    \A u \in Uploads \ purged : \A p \in received[u] : part[u][p] # "none"

\* When requests are served one at a time the report lists every declared file
\* as ingested, unless the ingest itself refuses one: what crashes, drops and
\* retries leave in the staging directory always reassembles, and is never
\* removed early (put_chunk, finalize).
ReportComplete == \A u \in Uploads : report[u].written => report[u].ok = rows[u]

\* Nothing is ingested, and no report is stored, while a chunk of a declared
\* file has not been marked.
ReportReceived ==
    \A u \in Uploads :
        report[u].written \/ ingested[u] # {} => rows[u] \X Chunks \subseteq received[u]

\* The session's promise.
Session == INSTANCE UploadSession
             WITH status <- state, declared <- rows, landed <- received

\* Served one request at a time, every step of the handlers is a step the
\* documented lifecycle allows, whatever crashes, drops, failed statements and
\* sweeps come between the statements of a handler (UploadState).
KeepsLifecycle == Session!Spec

=============================================================================
