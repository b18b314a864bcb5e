--------------------------- MODULE UploadsProofs ---------------------------
(***************************************************************************)
(* Theorems about the upload sessions, for any sets of sessions, accounts, *)
(* requests, files and chunks and whatever the environment issues.         *)
(***************************************************************************)
EXTENDS Uploads, TLAPS

-----------------------------------------------------------------------------
(* Typing                                                                  *)

LEMMA PcType ==
    {"idle", "orphan", "create", "declare", "put", "writing", "written", "renamed",
     "marked", "counting", "counted", "filed", "flipped", "electing", "finLoad",
     "finList", "finFiles", "finReport", "finPurge", "finRelease", "cancel",
     "cancelPurge", "pause", "resume"} \subseteq PCs
  BY DEF PCs, PutPCs, FinPCs, CtlPCs

LEMMA RequestType ==
    ASSUME TypeOK, NEW t \in Tasks
    PROVE  /\ task[t] \in Requests
           /\ task[t].upload \in Uploads /\ task[t].file \in Files
           /\ task[t].chunk \in Chunks /\ task[t].data \in Bytes
           /\ task[t].tally \in SUBSET Chunks
           /\ task[t].ok \in SUBSET Files /\ task[t].todo \in SUBSET Files
           /\ Piece(t) \in Pieces
  BY DEF TypeOK, Requests, Piece, Pieces

\* The record updates the actions make stay within Requests.
LEMMA RequestUpdate ==
    ASSUME NEW r \in Requests, NEW l \in PCs
    PROVE  /\ [r EXCEPT !.pc = l] \in Requests
           /\ \A u \in Uploads : [r EXCEPT !.pc = l, !.upload = u] \in Requests
           /\ \A i \in {"tmp", "part", "gone"} :
                 /\ [r EXCEPT !.inode = i] \in Requests
                 /\ [r EXCEPT !.pc = l, !.inode = i] \in Requests
           /\ \A n \in SUBSET Chunks : [r EXCEPT !.pc = l, !.tally = n] \in Requests
           /\ \A b \in BOOLEAN : [r EXCEPT !.pc = l, !.first = b] \in Requests
  BY DEF Requests

LEMMA FilesUpdate ==
    ASSUME NEW r \in Requests, NEW l \in PCs, NEW x \in SUBSET Files, NEW y \in SUBSET Files
    PROVE  /\ [r EXCEPT !.pc = l, !.todo = x, !.ok = y] \in Requests
           /\ [r EXCEPT !.todo = x, !.ok = y, !.pc = l] \in Requests
           /\ [r EXCEPT !.todo = x, !.pc = l] \in Requests
  BY DEF Requests

LEMMA PutUpdate ==
    ASSUME NEW r \in Requests, NEW u \in Uploads, NEW f \in Files, NEW c \in Chunks,
           NEW b \in Bytes, NEW n \in BOOLEAN, NEW l \in PCs
    PROVE  [r EXCEPT !.pc = l, !.upload = u, !.file = f, !.chunk = c, !.data = b,
                     !.first = n] \in Requests
  BY DEF Requests

LEMMA AckType ==
    ASSUME TypeOK, NEW t \in Tasks, Acknowledge(t)
    PROVE  acked' \in [Uploads -> SUBSET Pieces]
<1>1. acked \in [Uploads -> SUBSET Pieces]
  BY DEF TypeOK
<1> HIDE DEF TypeOK
<1> QED BY <1>1, RequestType DEF Acknowledge

LEMMA IdleType == Idle \in Requests
  BY ShapeAssumption DEF Idle, Requests, PCs, Bytes

\* Every action keeps every variable in its type.
LEMMA TypeStep == TypeOK /\ [Next]_vars => TypeOK'
<1> SUFFICES ASSUME TypeOK, [Next]_vars PROVE TypeOK'
  OBVIOUS
<1> USE DEF TypeOK, At, Goto, Return, Piece, States, Active, Terminal, Contents, Bytes, FileStates
<1>a. Idle \in Requests
  BY IdleType
<1>b. task \in [Tasks -> Requests] /\ \A t \in Tasks : task[t] \in Requests
  OBVIOUS
<1>c. ASSUME NEW t \in Tasks, NEW r \in Requests, task' = [task EXCEPT ![t] = r]
      PROVE  task' \in [Tasks -> Requests]
  BY <1>c
<1>d. ASSUME NEW t \in Tasks, NEW l \in PCs, Goto(t, l)
      PROVE  task' \in [Tasks -> Requests]
  <2>1. [task[t] EXCEPT !.pc = l] \in Requests
    BY <1>b, RequestUpdate
  <2> QED BY <1>d, <1>b, <2>1
<1>e. ASSUME NEW t \in Tasks, Return(t) PROVE task' \in [Tasks -> Requests]
  BY <1>e, <1>a
<1>1. ASSUME NEW t \in Tasks, NEW u \in Uploads, InitCheck(t, u) PROVE TypeOK'
  <2>1. [task[t] EXCEPT !.pc = "create", !.upload = u] \in Requests
    BY <1>b, PcType, RequestUpdate
  <2>2. task' \in [Tasks -> Requests]
    BY <1>1, <1>b, <2>1 DEF InitCheck
  <2> QED BY <1>1, <2>2 DEF InitCheck, dbVars, diskVars, histVars
<1>2. ASSUME NEW t \in Tasks, InitStep(t) PROVE TypeOK'
  <2>1. CASE InitCreate(t)
    <3>1. task' \in [Tasks -> Requests]
      BY <2>1, <1>d, PcType DEF InitCreate
    <3>2. state' \in [Uploads -> States \cup {"absent"}]
      BY <2>1, RequestType DEF InitCreate
    <3> QED BY <2>1, <3>1, <3>2 DEF InitCreate, diskVars, histVars
  <2>2. ASSUME NEW f \in Files, InitFile(t, f) PROVE TypeOK'
    BY <2>2, RequestType, <1>e DEF InitFile, diskVars, histVars
  <2> QED BY <1>2, <2>1, <2>2 DEF InitStep
<1>3. ASSUME NEW t \in Tasks, PutStep(t) PROVE TypeOK'
  <2>1. CASE PutOpen(t)
    <3>1. [task[t] EXCEPT !.pc = "writing", !.inode = "tmp"] \in Requests
      BY <1>b, PcType, RequestUpdate
    <3>2. task' \in [Tasks -> Requests]
      BY <2>1, <1>b, <3>1 DEF PutOpen
    <3>3. tmp' \in [Uploads -> [Pieces -> Contents]]
      BY <2>1, RequestType DEF PutOpen
    <3> QED BY <2>1, <3>2, <3>3 DEF PutOpen, dbVars, histVars
  <2>2. CASE PutWrite(t)
    <3>1. [task[t] EXCEPT !.pc = "written", !.inode = "tmp"] \in Requests
      BY <1>b, PcType, RequestUpdate
    <3>2. task' \in [Tasks -> Requests]
      BY <2>2, <1>b, <3>1 DEF PutWrite
    <3>3. part' \in [Uploads -> [Pieces -> Contents]] /\ tmp' \in [Uploads -> [Pieces -> Contents]]
      BY <2>2, RequestType DEF PutWrite, FinishWrite
    <3> QED BY <2>2, <3>2, <3>3 DEF PutWrite, dbVars, histVars
  <2>3. CASE PutRename(t)
    <3>1. \A w \in Tasks : MovedInode(w) \in {"tmp", "part", "gone"}
      BY DEF MovedInode
    <3>4. [task[t] EXCEPT !.pc = "renamed"] \in Requests
      BY <1>b, PcType, RequestUpdate
    <3>5. \A w \in Tasks : [task[w] EXCEPT !.inode = MovedInode(w)] \in Requests
      BY <1>b, <3>1, PcType, RequestUpdate
    <3>2. task' \in [Tasks -> Requests]
      BY <2>3, <3>4, <3>5, <1>b DEF PutRename
    <3>3. part' \in [Uploads -> [Pieces -> Contents]] /\ tmp' \in [Uploads -> [Pieces -> Contents]]
      BY <2>3, RequestType DEF PutRename
    <3> QED BY <2>3, <3>2, <3>3 DEF PutRename, dbVars, histVars
  <2>4. CASE PutRenameFails(t)
    BY <2>4, <1>e DEF PutRenameFails, dbVars, diskVars, histVars
  <2>5. CASE PutMark(t)
    <3>1. Goto(t, "marked") /\ "marked" \in PCs
      BY <2>5 DEF PutMark, PCs, PutPCs
    <3>2. task' \in [Tasks -> Requests]
      BY <3>1, <1>d
    <3>3. received' \in [Uploads -> SUBSET Pieces]
      BY <2>5, RequestType, ZenonT(40) DEF PutMark
    <3> QED BY <2>5, <3>2, <3>3 DEF PutMark, diskVars, histVars
  <2>6. CASE PutCount(t)
    <3> DEFINE n == {c \in Chunks : <<task[t].file, c>> \in received[task[t].upload]}
    <3>1. [task[t] EXCEPT !.pc = "counting", !.tally = n] \in Requests
      <4> HIDE DEF n
      <4>1. n \in SUBSET Chunks
        BY DEF n
      <4> QED BY <1>b, PcType, <4>1, RequestUpdate
    <3>2. task' \in [Tasks -> Requests]
      BY <2>6, <1>b, <3>1 DEF PutCount
    <3> QED BY <2>6, <3>2 DEF PutCount, dbVars, diskVars, histVars
  <2>7. CASE PutStore(t)
    <3>1. AfterStore(task[t]) \in PCs
      BY DEF AfterStore, AfterFileState, PCs, PutPCs
    <3>5. [task[t] EXCEPT !.pc = AfterStore(task[t]), !.tally = {}] \in Requests
      BY <1>b, <3>1, RequestUpdate
    <3>2. task' \in [Tasks -> Requests]
      BY <2>7, <3>5, <1>b DEF PutStore
    <3>3. counted' \in [Uploads -> [Files -> SUBSET Chunks]]
      BY <2>7, RequestType DEF PutStore
    <3>4. fileState' \in [Uploads -> [Files -> FileStates]]
      BY <2>7, RequestType, ZenonT(40) DEF PutStore
    <3> QED BY <2>7, <3>2, <3>3, <3>4 DEF PutStore, diskVars, histVars
  <2>8. CASE PutFileState(t)
    <3>1. AfterFileState(task[t]) \in PCs
      BY DEF AfterFileState, PCs, PutPCs
    <3>2. task' \in [Tasks -> Requests]
      BY <2>8, <3>1, <1>d DEF PutFileState
    <3>3. fileState' \in [Uploads -> [Files -> FileStates]]
      BY <2>8, RequestType DEF PutFileState
    <3> QED BY <2>8, <3>2, <3>3 DEF PutFileState, diskVars, histVars
  <2>9. CASE PutFlip(t)
    <3>1. [task[t] EXCEPT !.pc = "flipped", !.first = FALSE] \in Requests
      BY <1>b, PcType, RequestUpdate
    <3>2. task' \in [Tasks -> Requests]
      BY <2>9, <1>b, <3>1 DEF PutFlip
    <3>3. state' \in [Uploads -> States \cup {"absent"}]
      BY <2>9, RequestType DEF PutFlip
    <3> QED BY <2>9, <3>2, <3>3 DEF PutFlip, diskVars, histVars
  <2>10. CASE PutProgress(t)
    <3>1. task' \in [Tasks -> Requests]
      BY <2>10, <1>d, <1>e DEF PutProgress, PCs, PutPCs
    <3>0. Acknowledge(t) => acked' \in [Uploads -> SUBSET Pieces]
      BY AckType
    <3>2. acked' \in [Uploads -> SUBSET Pieces]
      BY <2>10, RequestType, <3>0 DEF PutProgress
    <3> QED BY <2>10, <3>1, <3>2 DEF PutProgress, dbVars, diskVars
  <2>11. CASE Elect(t)
    <3>1. task' \in [Tasks -> Requests]
      BY <2>11, <1>d, <1>e DEF Elect, PCs, FinPCs
    <3>0. Acknowledge(t) => acked' \in [Uploads -> SUBSET Pieces]
      BY AckType
    <3>2. acked' \in [Uploads -> SUBSET Pieces] /\ finalizing' \in SUBSET Uploads
      BY <2>11, RequestType, <3>0 DEF Elect
    <3> QED BY <2>11, <3>1, <3>2 DEF Elect, dbVars, diskVars
  <2> QED BY <1>3, <2>1, <2>2, <2>3, <2>4, <2>5, <2>6, <2>7, <2>8, <2>9, <2>10, <2>11
          DEF PutStep
<1>4. ASSUME NEW t \in Tasks, FinStep(t) PROVE TypeOK'
  <2>1. CASE FinLoad(t)
    <3>1. task' \in [Tasks -> Requests]
      BY <2>1, <1>d DEF FinLoad, PCs, FinPCs
    <3> QED BY <2>1, <3>1 DEF FinLoad, dbVars, diskVars, histVars
  <2>2. CASE FinList(t)
    <3>1. rows[task[t].upload] \in SUBSET Files
      BY RequestType
    <3>2. [task[t] EXCEPT !.pc = "finFiles", !.todo = rows[task[t].upload], !.ok = {}] \in Requests
      BY <1>b, PcType, <3>1, FilesUpdate
    <3>3. task' \in [Tasks -> Requests]
      BY <2>2, <1>b, <3>2 DEF FinList
    <3> QED BY <2>2, <3>3 DEF FinList, dbVars, diskVars, histVars
  <2>3. ASSUME NEW f \in Files, FinFileOk(t, f) PROVE TypeOK'
    <3>1. FilesDone(t, f) \in PCs
      BY DEF FilesDone, PCs, FinPCs
    <3>5. [task[t] EXCEPT !.todo = @ \ {f}, !.ok = @ \cup {f}, !.pc = FilesDone(t, f)]
              \in Requests
      <4>1. task[t].todo \ {f} \in SUBSET Files /\ task[t].ok \cup {f} \in SUBSET Files
        BY RequestType
      <4> QED BY <1>b, <3>1, <4>1, FilesUpdate
    <3>2. task' \in [Tasks -> Requests]
      BY <2>3, <3>5, <1>b DEF FinFileOk
    <3>3. ingested' \in [Uploads -> SUBSET Files]
      BY <2>3, RequestType DEF FinFileOk
    <3>4. fileState' \in [Uploads -> [Files -> FileStates]]
      BY <2>3, RequestType DEF FinFileOk
    <3> QED BY <2>3, <3>2, <3>3, <3>4 DEF FinFileOk, diskVars
  <2>4. ASSUME NEW f \in Files, FinFileFails(t, f) PROVE TypeOK'
    <3>1. FilesDone(t, f) \in PCs
      BY DEF FilesDone, PCs, FinPCs
    <3>4. [task[t] EXCEPT !.todo = @ \ {f}, !.pc = FilesDone(t, f)] \in Requests
      <4>1. task[t].todo \ {f} \in SUBSET Files
        BY RequestType
      <4> QED BY <1>b, <3>1, <4>1, FilesUpdate
    <3>2. task' \in [Tasks -> Requests]
      BY <2>4, <3>4, <1>b DEF FinFileFails
    <3>3. fileState' \in [Uploads -> [Files -> FileStates]]
      BY <2>4, RequestType DEF FinFileFails
    <3> QED BY <2>4, <3>2, <3>3 DEF FinFileFails, diskVars, histVars
  <2>5. CASE FinReport(t)
    <3>1. task' \in [Tasks -> Requests]
      BY <2>5, <1>d DEF FinReport, PCs, FinPCs
    <3>2. report' \in [Uploads -> [written : BOOLEAN, ok : SUBSET Files]]
      BY <2>5, RequestType DEF FinReport
    <3>3. state' \in [Uploads -> States \cup {"absent"}]
      BY <2>5, RequestType DEF FinReport
    <3> QED BY <2>5, <3>1, <3>2, <3>3 DEF FinReport, diskVars, histVars
  <2>6. CASE FinPurge(t)
    <3>1. task' \in [Tasks -> Requests]
      <4>1. \A w \in Tasks : Unlinked(w, task[t].upload) \in Requests
        BY <1>b, RequestUpdate, PcType DEF Unlinked
      <4>2. [task[t] EXCEPT !.pc = "finRelease"] \in Requests
        BY <1>b, PcType, RequestUpdate
      <4> QED BY <2>6, <4>1, <4>2 DEF FinPurge
    <3>2. /\ part' \in [Uploads -> [Pieces -> Contents]]
          /\ tmp' \in [Uploads -> [Pieces -> Contents]]
          /\ purged' \in SUBSET Uploads
      BY <2>6, RequestType DEF FinPurge, Purge
    <3> QED BY <2>6, <3>1, <3>2 DEF FinPurge, dbVars
  <2>7. CASE FinRelease(t)
    <3>0. Acknowledge(t) => acked' \in [Uploads -> SUBSET Pieces]
      BY AckType
    <3>1. acked' \in [Uploads -> SUBSET Pieces] /\ finalizing' \in SUBSET Uploads
      BY <2>7, RequestType, <3>0 DEF FinRelease
    <3> QED BY <2>7, <3>1, <1>e DEF FinRelease, dbVars, diskVars
  <2> QED BY <1>4, <2>1, <2>2, <2>3, <2>4, <2>5, <2>6, <2>7 DEF FinStep
<1>5. ASSUME NEW t \in Tasks, ControlStep(t) PROVE TypeOK'
  <2>1. CASE CancelWrite(t)
    <3>1. task' \in [Tasks -> Requests]
      BY <2>1, <1>d DEF CancelWrite, PCs, CtlPCs
    <3>2. state' \in [Uploads -> States \cup {"absent"}]
      BY <2>1, RequestType DEF CancelWrite, SetUploadState
    <3> QED BY <2>1, <3>1, <3>2 DEF CancelWrite, SetUploadState, diskVars, histVars
  <2>2. CASE CancelPurge(t)
    <3>1. task' \in [Tasks -> Requests]
      <4>1. \A w \in Tasks : Unlinked(w, task[t].upload) \in Requests
        BY <1>b, RequestUpdate, PcType DEF Unlinked
      <4> QED BY <2>2, <1>a, <4>1 DEF CancelPurge
    <3>2. /\ part' \in [Uploads -> [Pieces -> Contents]]
          /\ tmp' \in [Uploads -> [Pieces -> Contents]]
          /\ purged' \in SUBSET Uploads
      BY <2>2, RequestType DEF CancelPurge, Purge
    <3> QED BY <2>2, <3>1, <3>2 DEF CancelPurge, dbVars
  <2>3. CASE PauseWrite(t)
    BY <2>3, RequestType, <1>e DEF PauseWrite, SetUploadState, diskVars, histVars
  <2>4. CASE ResumeWrite(t)
    BY <2>4, RequestType, <1>e DEF ResumeWrite, SetUploadState, diskVars, histVars
  <2> QED BY <1>5, <2>1, <2>2, <2>3, <2>4 DEF ControlStep
<1>6. ASSUME NEW t \in Tasks, OrphanWrite(t) PROVE TypeOK'
  BY <1>6, RequestType, <1>e DEF OrphanWrite, FinishWrite, dbVars, histVars
<1>7. ASSUME NEW t \in Tasks, NEW u \in Uploads, NEW f \in Files, NEW c \in Chunks,
             NEW b \in Bytes, PutStart(t, u, f, c, b) PROVE TypeOK'
  <2>1. task' \in [Tasks -> Requests]
    <3>1. [task[t] EXCEPT !.pc = "put", !.upload = u, !.file = f, !.chunk = c, !.data = b,
                          !.first = (state[u] = "initialized")] \in Requests
      BY <1>b, <1>7, PcType, PutUpdate
    <3> QED BY <1>7, <1>b, <3>1 DEF PutStart
  <2> QED BY <1>7, <2>1 DEF PutStart, dbVars, diskVars, histVars
<1>8. ASSUME NEW t \in Tasks, NEW u \in Uploads,
             CancelLoad(t, u) \/ PauseLoad(t, u) \/ ResumeLoad(t, u) PROVE TypeOK'
  <2>1. task' \in [Tasks -> Requests]
    <3>1. \A l \in PCs : [task[t] EXCEPT !.pc = l, !.upload = u] \in Requests
      BY <1>b, RequestUpdate
    <3>2. ASSUME NEW l \in {"cancel", "pause", "resume"}, NEW a, Control(t, u, l, a)
          PROVE  task' \in [Tasks -> Requests]
      <4>1. [task[t] EXCEPT !.pc = l, !.upload = u] \in Requests
        BY <3>1, PcType
      <4> QED BY <3>2, <4>1, <1>b DEF Control
    <3> QED BY <1>8, <3>2 DEF CancelLoad, PauseLoad, ResumeLoad
  <2> QED BY <1>8, <2>1 DEF CancelLoad, PauseLoad, ResumeLoad, Control, dbVars, diskVars, histVars
<1>9. ASSUME NEW t \in Tasks, Drop(t) PROVE TypeOK'
  <2>1. task' \in [Tasks -> Requests]
    BY <1>9, <1>d, <1>e DEF Drop, PCs
  <2> QED BY <1>9, <2>1 DEF Drop, dbVars, diskVars, histVars
<1>10. ASSUME NEW t \in Tasks, Fail(t) PROVE TypeOK'
  BY <1>10, <1>e DEF Fail, dbVars, diskVars, histVars
<1>11. ASSUME NEW u \in Uploads, Sweep(u) PROVE TypeOK'
  BY <1>11 DEF Sweep, SetUploadState, diskVars, histVars
<1>12. CASE Crash
  BY <1>12, <1>a DEF Crash, dbVars, diskVars, histVars
<1>13. CASE UNCHANGED vars
  BY <1>13 DEF vars, dbVars, diskVars, histVars
<1> QED BY <1>1, <1>2, <1>3, <1>4, <1>5, <1>6, <1>7, <1>8, <1>9, <1>10, <1>11, <1>12, <1>13, SMTT(30)
        DEF Next, Continue, Request

\* The variables keep their types in every behaviour (uploads.rs, db/pg.rs).
THEOREM Typing == Spec => []TypeOK
<1>1. Init => TypeOK
  BY IdleType DEF Init, TypeOK, NoReport, Contents, FileStates
<1> QED BY <1>1, TypeStep, PTL DEF Spec
-----------------------------------------------------------------------------
(* One finalizer                                                           *)

\* Every finalizer is in the mutex set.  With it SingleFinalizer is inductive:
\* a task is elected only for a session that is not in the set.
Elected ==
    \A t \in Tasks : task[t].pc \in FinPCs => task[t].upload \in finalizing

ElectInv == Elected /\ SingleFinalizer

LEMMA ElectStep == TypeOK /\ ElectInv /\ [Next]_vars => ElectInv'
<1> SUFFICES ASSUME TypeOK, ElectInv, [Next]_vars PROVE ElectInv'
  OBVIOUS
<1> USE DEF ElectInv, Elected, SingleFinalizer, At, Goto, Return, Idle, FinPCs
<1>a. task \in [Tasks -> Requests]
  BY DEF TypeOK
<1>b. \A w \in Tasks : task[w] \in [pc : PCs, upload : Uploads, file : Files, chunk : Chunks,
             data : Bytes, first : BOOLEAN, tally : SUBSET Chunks,
             todo : SUBSET Files, ok : SUBSET Files, inode : {"tmp", "part", "gone"}]
  BY <1>a DEF Requests
<1>1. ASSUME NEW t \in Tasks, InitStep(t) PROVE ElectInv'
  <2>1. CASE InitCreate(t)
    BY <2>1, <1>a, <1>b DEF InitCreate
  <2>2. ASSUME NEW f \in Files, InitFile(t, f) PROVE ElectInv'
    BY <2>2, <1>a, <1>b DEF InitFile
  <2> QED BY <1>1, <2>1, <2>2 DEF InitStep
<1>2. ASSUME NEW t \in Tasks, PutStep(t) PROVE ElectInv'
  <2>1. CASE PutOpen(t)
    BY <2>1, <1>a, <1>b DEF PutOpen
  <2>2. CASE PutWrite(t)
    BY <2>2, <1>a, <1>b DEF PutWrite
  <2>3. CASE PutRename(t)
    BY <2>3, <1>a, <1>b DEF PutRename, MovedInode, Writers
  <2>4. CASE PutRenameFails(t)
    BY <2>4, <1>a, <1>b DEF PutRenameFails
  <2>5. CASE PutMark(t)
    BY <2>5, <1>a, <1>b DEF PutMark
  <2>6. CASE PutCount(t)
    BY <2>6, <1>a, <1>b DEF PutCount
  <2>7. CASE PutStore(t)
    BY <2>7, <1>a, <1>b DEF PutStore, AfterStore, AfterFileState
  <2>8. CASE PutFileState(t)
    BY <2>8, <1>a, <1>b DEF PutFileState, AfterFileState
  <2>9. CASE PutFlip(t)
    BY <2>9, <1>a, <1>b DEF PutFlip
  <2>10. CASE PutProgress(t)
    BY <2>10, <1>a, <1>b DEF PutProgress
  <2>11. CASE Elect(t)
    BY <2>11, <1>a, <1>b DEF Elect
  <2> QED BY <1>2, <2>1, <2>2, <2>3, <2>4, <2>5, <2>6, <2>7, <2>8, <2>9, <2>10, <2>11 DEF PutStep
<1>3. ASSUME NEW t \in Tasks, FinStep(t) PROVE ElectInv'
  <2>1. CASE FinLoad(t)
    BY <2>1, <1>a, <1>b DEF FinLoad
  <2>2. CASE FinList(t)
    BY <2>2, <1>a, <1>b DEF FinList
  <2>3. ASSUME NEW f \in Files, FinFileOk(t, f) PROVE ElectInv'
    BY <2>3, <1>a, <1>b DEF FinFileOk, FilesDone
  <2>4. ASSUME NEW f \in Files, FinFileFails(t, f) PROVE ElectInv'
    BY <2>4, <1>a, <1>b DEF FinFileFails, FilesDone
  <2>5. CASE FinReport(t)
    BY <2>5, <1>a, <1>b DEF FinReport
  <2>6. CASE FinPurge(t)
    BY <2>6, <1>a, <1>b DEF FinPurge, Unlinked
  <2>7. CASE FinRelease(t)
    BY <2>7, <1>a, <1>b DEF FinRelease
  <2> QED BY <1>3, <2>1, <2>2, <2>3, <2>4, <2>5, <2>6, <2>7 DEF FinStep
<1>4. ASSUME NEW t \in Tasks, ControlStep(t) PROVE ElectInv'
  <2>1. CASE CancelWrite(t)
    BY <2>1, <1>a, <1>b DEF CancelWrite
  <2>2. CASE CancelPurge(t)
    BY <2>2, <1>a, <1>b DEF CancelPurge, Unlinked
  <2>3. CASE PauseWrite(t)
    BY <2>3, <1>a, <1>b DEF PauseWrite
  <2>4. CASE ResumeWrite(t)
    BY <2>4, <1>a, <1>b DEF ResumeWrite
  <2> QED BY <1>4, <2>1, <2>2, <2>3, <2>4 DEF ControlStep
<1>5. ASSUME NEW t \in Tasks, OrphanWrite(t) \/ Drop(t) \/ Fail(t) PROVE ElectInv'
  <2>1. CASE OrphanWrite(t)
    BY <2>1, <1>a, <1>b DEF OrphanWrite
  <2>2. CASE Drop(t)
    BY <2>2, <1>a, <1>b DEF Drop
  <2>3. CASE Fail(t)
    BY <2>3, <1>a, <1>b DEF Fail
  <2> QED BY <1>5, <2>1, <2>2, <2>3
<1>6. ASSUME NEW t \in Tasks, Request(t) PROVE ElectInv'
  <2>1. ASSUME NEW u \in Uploads, InitCheck(t, u) PROVE ElectInv'
    BY <2>1, <1>a, <1>b DEF InitCheck
  <2>2. ASSUME NEW u \in Uploads, NEW f \in Files, NEW c \in Chunks, NEW b \in Bytes,
               PutStart(t, u, f, c, b) PROVE ElectInv'
    BY <2>2, <1>a, <1>b DEF PutStart
  <2>3. ASSUME NEW u \in Uploads, CancelLoad(t, u) PROVE ElectInv'
    BY <2>3, <1>a, <1>b DEF CancelLoad, Control
  <2>4. ASSUME NEW u \in Uploads, PauseLoad(t, u) PROVE ElectInv'
    BY <2>4, <1>a, <1>b DEF PauseLoad, Control
  <2>5. ASSUME NEW u \in Uploads, ResumeLoad(t, u) PROVE ElectInv'
    BY <2>5, <1>a, <1>b DEF ResumeLoad, Control
  <2> QED BY <1>6, <2>1, <2>2, <2>3, <2>4, <2>5 DEF Request
<1>7. ASSUME NEW u \in Uploads, Sweep(u) PROVE ElectInv'
  BY <1>7 DEF Sweep
<1>8. CASE Crash
  BY <1>8 DEF Crash
<1>9. CASE UNCHANGED vars
  BY <1>9 DEF vars, dbVars, histVars
<1> QED BY <1>1, <1>2, <1>3, <1>4, <1>5, <1>6, <1>7, <1>8, <1>9
        DEF Next, Continue

\* Two requests never finalize one session together, for any number of
\* requests and sessions, with crashes, dropped futures and failed statements
\* (maybe_finalize).
THEOREM OneFinalizer == Spec => []SingleFinalizer
<1>1. Init => TypeOK
  BY IdleType DEF Init, TypeOK, NoReport, Contents, FileStates
<1>2. Init => ElectInv
  BY DEF Init, ElectInv, Elected, SingleFinalizer, Idle, FinPCs
<1>3. ElectInv => SingleFinalizer
  BY DEF ElectInv
<1> QED BY <1>1, <1>2, <1>3, TypeStep, ElectStep, PTL DEF Spec

-----------------------------------------------------------------------------
(* Counts and acknowledgements                                             *)

\* The points of put_chunk after its chunk row is marked.
PastMark == {"marked", "counting", "counted", "filed", "flipped", "electing"} \cup FinPCs

\* A call past its mark finds its row marked, and a count it holds is of marked
\* rows; rows are never unmarked.
Marked ==
    \A t \in Tasks :
        /\ task[t].pc \in PastMark => Piece(t) \in received[task[t].upload]
        /\ task[t].pc = "counting" =>
              {task[t].file} \X task[t].tally \subseteq received[task[t].upload]

CountInv == Marked /\ AckedReceived /\ CountedReceived

LEMMA AckMarked ==
    ASSUME TypeOK, AckedReceived, NEW t \in Tasks, Piece(t) \in received[task[t].upload],
           Acknowledge(t) \/ UNCHANGED acked, UNCHANGED received
    PROVE  AckedReceived'
<1>1. acked \in [Uploads -> SUBSET Pieces]
  BY DEF TypeOK
<1>2. CASE Acknowledge(t)
  BY <1>1, <1>2 DEF Acknowledge, AckedReceived
<1>3. CASE UNCHANGED acked
  BY <1>3 DEF AckedReceived
<1> QED BY <1>2, <1>3

LEMMA CountStep == TypeOK /\ CountInv /\ [Next]_vars => CountInv'
<1> SUFFICES ASSUME TypeOK, CountInv, [Next]_vars PROVE CountInv'
  OBVIOUS
<1> USE DEF CountInv, Marked, AckedReceived, CountedReceived, PastMark, At, Goto, Return,
            Idle, FinPCs, Piece
<1>a. /\ task \in [Tasks -> Requests]
      /\ received \in [Uploads -> SUBSET Pieces]
      /\ acked \in [Uploads -> SUBSET Pieces]
      /\ counted \in [Uploads -> [Files -> SUBSET Chunks]]
  BY DEF TypeOK
<1>b. \A w \in Tasks : task[w] \in [pc : PCs, upload : Uploads, file : Files, chunk : Chunks,
             data : Bytes, first : BOOLEAN, tally : SUBSET Chunks,
             todo : SUBSET Files, ok : SUBSET Files, inode : {"tmp", "part", "gone"}]
  BY <1>a DEF Requests
<1>1. ASSUME NEW t \in Tasks, InitStep(t) PROVE CountInv'
  <2>1. CASE InitCreate(t)
    <3>1. Marked'
      BY <2>1, <1>a, <1>b DEF InitCreate, dbVars, histVars
    <3>2. AckedReceived'
      BY <2>1, <1>a, <1>b DEF InitCreate, dbVars, histVars
    <3>3. CountedReceived'
      BY <2>1, <1>a, <1>b DEF InitCreate, dbVars, histVars
    <3> QED BY <3>1, <3>2, <3>3
  <2>2. ASSUME NEW f \in Files, InitFile(t, f) PROVE CountInv'
    <3>1. Marked'
      BY <2>2, <1>a, <1>b DEF InitFile, dbVars, histVars
    <3>2. AckedReceived'
      BY <2>2, <1>a, <1>b DEF InitFile, dbVars, histVars
    <3>3. CountedReceived'
      BY <2>2, <1>a, <1>b DEF InitFile, dbVars, histVars
    <3> QED BY <3>1, <3>2, <3>3
  <2> QED BY <1>1, <2>1, <2>2 DEF InitStep
<1>2. ASSUME NEW t \in Tasks, PutStep(t) PROVE CountInv'
  <2>1. CASE PutOpen(t)
    BY <2>1, <1>a, <1>b DEF PutOpen, dbVars, histVars
  <2>2. CASE PutWrite(t)
    <3>1. Marked'
      BY <2>2, <1>a, <1>b DEF PutWrite, dbVars, histVars
    <3>2. AckedReceived'
      BY <2>2, <1>a, <1>b DEF PutWrite, dbVars, histVars
    <3>3. CountedReceived'
      BY <2>2, <1>a, <1>b DEF PutWrite, dbVars, histVars
    <3> QED BY <3>1, <3>2, <3>3
  <2>3. CASE PutRename(t)
    BY <2>3, <1>a, <1>b, SMTT(30) DEF PutRename, MovedInode, Writers, dbVars, histVars
  <2>4. CASE PutRenameFails(t)
    BY <2>4, <1>a, <1>b, ZenonT(40) DEF PutRenameFails, dbVars, histVars
  <2>5. CASE PutMark(t)
    BY <2>5, <1>a, <1>b DEF PutMark, dbVars, histVars
  <2>6. CASE PutCount(t)
    BY <2>6, <1>a, <1>b DEF PutCount, dbVars, histVars
  <2>7. CASE PutStore(t)
    <3>1. Marked'
      BY <2>7, <1>a, <1>b DEF PutStore, AfterStore, AfterFileState, dbVars, histVars
    <3>2. AckedReceived'
      BY <2>7, <1>a, <1>b DEF PutStore, AfterStore, AfterFileState, dbVars, histVars
    <3>3. CountedReceived'
      BY <2>7, <1>a, <1>b DEF PutStore, AfterStore, AfterFileState, dbVars, histVars
    <3> QED BY <3>1, <3>2, <3>3
  <2>8. CASE PutFileState(t)
    BY <2>8, <1>a, <1>b DEF PutFileState, AfterFileState, dbVars, histVars
  <2>9. CASE PutFlip(t)
    BY <2>9, <1>a, <1>b DEF PutFlip, dbVars, histVars
  <2>10. CASE PutProgress(t)
    <3>1. Marked'
      BY <2>10, <1>a, <1>b DEF PutProgress, Acknowledge, dbVars, histVars
    <3>2. AckedReceived'
      <4>1. Acknowledge(t) \/ UNCHANGED acked
        BY <2>10 DEF PutProgress
      <4>2. UNCHANGED received
        BY <2>10 DEF PutProgress, dbVars
      <4>3. Piece(t) \in received[task[t].upload]
        BY <2>10, <1>b DEF PutProgress
      <4> QED BY <4>1, <4>2, <4>3, AckMarked
    <3>3. CountedReceived'
      BY <2>10, <1>a, <1>b DEF PutProgress, Acknowledge, dbVars, histVars
    <3> QED BY <3>1, <3>2, <3>3
  <2>11. CASE Elect(t)
    <3>1. Marked'
      BY <2>11, <1>a, <1>b DEF Elect, Acknowledge, dbVars, histVars
    <3>2. AckedReceived'
      <4>1. Acknowledge(t) \/ UNCHANGED acked
        BY <2>11 DEF Elect
      <4>2. UNCHANGED received
        BY <2>11 DEF Elect, dbVars
      <4>3. Piece(t) \in received[task[t].upload]
        BY <2>11, <1>b DEF Elect
      <4> QED BY <4>1, <4>2, <4>3, AckMarked
    <3>3. CountedReceived'
      BY <2>11, <1>a, <1>b DEF Elect, Acknowledge, dbVars, histVars
    <3> QED BY <3>1, <3>2, <3>3
  <2> QED BY <1>2, <2>1, <2>2, <2>3, <2>4, <2>5, <2>6, <2>7, <2>8, <2>9, <2>10, <2>11 DEF PutStep
<1>3. ASSUME NEW t \in Tasks, FinStep(t) PROVE CountInv'
  <2>1. CASE FinLoad(t)
    BY <2>1, <1>a, <1>b DEF FinLoad, dbVars, histVars
  <2>2. CASE FinList(t)
    BY <2>2, <1>a, <1>b DEF FinList, dbVars, histVars
  <2>3. ASSUME NEW f \in Files, FinFileOk(t, f) PROVE CountInv'
    BY <2>3, <1>a, <1>b DEF FinFileOk, FilesDone, dbVars, histVars
  <2>4. ASSUME NEW f \in Files, FinFileFails(t, f) PROVE CountInv'
    BY <2>4, <1>a, <1>b DEF FinFileFails, FilesDone, dbVars, histVars
  <2>5. CASE FinReport(t)
    BY <2>5, <1>a, <1>b DEF FinReport, dbVars, histVars
  <2>6. CASE FinPurge(t)
    BY <2>6, <1>a, <1>b DEF FinPurge, Unlinked, dbVars, histVars
  <2>7. CASE FinRelease(t)
    <3>1. Marked'
      BY <2>7, <1>a, <1>b DEF FinRelease, Acknowledge, dbVars, histVars
    <3>2. AckedReceived'
      BY <2>7, <1>a, <1>b DEF FinRelease, Acknowledge, dbVars, histVars
    <3>3. CountedReceived'
      BY <2>7, <1>a, <1>b DEF FinRelease, Acknowledge, dbVars, histVars
    <3> QED BY <3>1, <3>2, <3>3
  <2> QED BY <1>3, <2>1, <2>2, <2>3, <2>4, <2>5, <2>6, <2>7 DEF FinStep
<1>4. ASSUME NEW t \in Tasks, ControlStep(t) PROVE CountInv'
  <2>1. CASE CancelWrite(t)
    <3>1. Marked'
      BY <2>1, <1>a, <1>b DEF CancelWrite, SetUploadState, dbVars, histVars
    <3>2. AckedReceived'
      BY <2>1, <1>a, <1>b DEF CancelWrite, SetUploadState, dbVars, histVars
    <3>3. CountedReceived'
      BY <2>1, <1>a, <1>b DEF CancelWrite, SetUploadState, dbVars, histVars
    <3> QED BY <3>1, <3>2, <3>3
  <2>2. CASE CancelPurge(t)
    <3>1. Marked'
      BY <2>2, <1>a, <1>b DEF CancelPurge, Unlinked, dbVars, histVars
    <3>2. AckedReceived'
      BY <2>2, <1>a, <1>b DEF CancelPurge, Unlinked, dbVars, histVars
    <3>3. CountedReceived'
      BY <2>2, <1>a, <1>b DEF CancelPurge, Unlinked, dbVars, histVars
    <3> QED BY <3>1, <3>2, <3>3
  <2>3. CASE PauseWrite(t)
    BY <2>3, <1>a, <1>b, ZenonT(40) DEF PauseWrite, SetUploadState, dbVars, histVars
  <2>4. CASE ResumeWrite(t)
    BY <2>4, <1>a, <1>b, ZenonT(40) DEF ResumeWrite, SetUploadState, dbVars, histVars
  <2> QED BY <1>4, <2>1, <2>2, <2>3, <2>4 DEF ControlStep
<1>5. ASSUME NEW t \in Tasks, OrphanWrite(t) \/ Drop(t) \/ Fail(t) PROVE CountInv'
  <2>1. CASE OrphanWrite(t)
    BY <2>1, <1>a, <1>b, ZenonT(40) DEF OrphanWrite, dbVars, histVars
  <2>2. CASE Drop(t)
    BY <2>2, <1>a, <1>b DEF Drop, dbVars, histVars
  <2>3. CASE Fail(t)
    BY <2>3, <1>a, <1>b, ZenonT(40) DEF Fail, dbVars, histVars
  <2> QED BY <1>5, <2>1, <2>2, <2>3
<1>6. ASSUME NEW t \in Tasks, Request(t) PROVE CountInv'
  <2>1. ASSUME NEW u \in Uploads, InitCheck(t, u) PROVE CountInv'
    BY <2>1, <1>a, <1>b DEF InitCheck, dbVars, histVars
  <2>2. ASSUME NEW u \in Uploads, NEW f \in Files, NEW c \in Chunks, NEW b \in Bytes,
               PutStart(t, u, f, c, b) PROVE CountInv'
    BY <2>2, <1>a, <1>b DEF PutStart, dbVars, histVars
  <2>3. ASSUME NEW u \in Uploads, CancelLoad(t, u) PROVE CountInv'
    BY <2>3, <1>a, <1>b DEF CancelLoad, Control, dbVars, histVars
  <2>4. ASSUME NEW u \in Uploads, PauseLoad(t, u) PROVE CountInv'
    BY <2>4, <1>a, <1>b DEF PauseLoad, Control, dbVars, histVars
  <2>5. ASSUME NEW u \in Uploads, ResumeLoad(t, u) PROVE CountInv'
    BY <2>5, <1>a, <1>b DEF ResumeLoad, Control, dbVars, histVars
  <2> QED BY <1>6, <2>1, <2>2, <2>3, <2>4, <2>5 DEF Request
<1>7. ASSUME NEW u \in Uploads, Sweep(u) PROVE CountInv'
  BY <1>7 DEF Sweep, SetUploadState, dbVars, histVars
<1>8. CASE Crash
  BY <1>8 DEF Crash, dbVars, histVars
<1>9. CASE UNCHANGED vars
  BY <1>9 DEF vars, dbVars, histVars
<1> QED BY <1>1, <1>2, <1>3, <1>4, <1>5, <1>6, <1>7, <1>8, <1>9
        DEF Next, Continue

\* A stored count covers only marked rows, however late a count taken in an old
\* snapshot is written (mark_chunk_received).
THEOREM CountsBehind == Spec => []CountedReceived
<1>1. Init => TypeOK
  BY IdleType DEF Init, TypeOK, NoReport, Contents, FileStates
<1>2. Init => CountInv
  BY DEF Init, CountInv, Marked, AckedReceived, CountedReceived, Idle, FinPCs, PastMark
<1>3. CountInv => CountedReceived
  BY DEF CountInv
<1> QED BY <1>1, <1>2, <1>3, TypeStep, CountStep, PTL DEF Spec

\* A chunk that was acknowledged stays marked in the database through every
\* crash, drop and failure (put_chunk).
THEOREM AcksDurable == Spec => []AckedReceived
<1>1. Init => TypeOK
  BY IdleType DEF Init, TypeOK, NoReport, Contents, FileStates
<1>2. Init => CountInv
  BY DEF Init, CountInv, Marked, AckedReceived, CountedReceived, Idle, FinPCs, PastMark
<1>3. CountInv => AckedReceived
  BY DEF CountInv
<1> QED BY <1>1, <1>2, <1>3, TypeStep, CountStep, PTL DEF Spec

LEMMA InitTyped == Init => TypeOK
  BY IdleType DEF Init, TypeOK, NoReport, Contents, FileStates

-----------------------------------------------------------------------------
(* Staging                                                                 *)

\* A renamed part is there until the directory goes, also before its row is
\* marked; with it StagedUntilPurged is inductive.
Staged ==
    \A t \in Tasks :
        At(t, "renamed") /\ task[t].upload \notin purged
            => part[task[t].upload][Piece(t)] # "none"

StageInv == Staged /\ StagedUntilPurged

\* A step that touches neither disk nor chunk rows, and brings nobody to the
\* point after the rename.
LEMMA StageQuiet ==
    ASSUME StageInv, UNCHANGED <<part, received, purged>>,
           \A w \in Tasks : task[w]'.pc = "renamed" => task[w]' = task[w]
    PROVE  StageInv'
<1>1. Staged'
  BY DEF StageInv, Staged, At, Piece
<1>2. StagedUntilPurged'
  BY DEF StageInv, StagedUntilPurged
<1> QED BY <1>1, <1>2 DEF StageInv

LEMMA StageStep == TypeOK /\ StageInv /\ [Next]_vars => StageInv'
<1> SUFFICES ASSUME TypeOK, StageInv, [Next]_vars PROVE StageInv'
  OBVIOUS
<1> USE DEF StageInv, Staged, StagedUntilPurged, At, Goto, Return, Idle, Piece
<1>a. /\ task \in [Tasks -> Requests]
      /\ received \in [Uploads -> SUBSET Pieces]
      /\ part \in [Uploads -> [Pieces -> Contents]]
      /\ tmp \in [Uploads -> [Pieces -> Contents]]
      /\ purged \in SUBSET Uploads
  BY DEF TypeOK
<1>b. \A w \in Tasks : task[w] \in [pc : PCs, upload : Uploads, file : Files, chunk : Chunks,
             data : Bytes, first : BOOLEAN, tally : SUBSET Chunks,
             todo : SUBSET Files, ok : SUBSET Files, inode : {"tmp", "part", "gone"}]
  BY <1>a DEF Requests
<1>1. ASSUME NEW t \in Tasks, InitStep(t) PROVE StageInv'
  <2>1. CASE InitCreate(t)
    BY <2>1, <1>a, <1>b DEF InitCreate, dbVars, diskVars, histVars
  <2>2. ASSUME NEW f \in Files, InitFile(t, f) PROVE StageInv'
    <3>1. \A w \in Tasks : task[w]'.pc = "renamed" => task[w]' = task[w]
      BY <2>2, <1>a, <1>b DEF InitFile
    <3>2. UNCHANGED <<part, received, purged>>
      BY <2>2 DEF InitFile, dbVars, diskVars, histVars
    <3> QED BY <3>1, <3>2, StageQuiet
  <2> QED BY <1>1, <2>1, <2>2 DEF InitStep
<1>2. ASSUME NEW t \in Tasks, PutStep(t) PROVE StageInv'
  <2>1. CASE PutOpen(t)
    BY <2>1, <1>a, <1>b DEF PutOpen, dbVars, diskVars, histVars
  <2>2. CASE PutWrite(t)
    BY <2>2, <1>a, <1>b DEF PutWrite, FinishWrite, dbVars, diskVars, histVars
  <2>3. CASE PutRename(t)
    <3>1. Piece(t) \in Pieces
      BY RequestType
    <3>2. \A v \in Uploads, q \in Pieces : part[v][q] # "none" => part'[v][q] # "none"
      BY <2>3, <1>a DEF PutRename
    <3>3. part'[task[t].upload][Piece(t)] # "none"
      BY <2>3, <1>a, <1>b, <3>1 DEF PutRename
    <3>4. \A w \in Tasks : /\ task[w]'.upload = task[w].upload
                           /\ task[w]'.file = task[w].file /\ task[w]'.chunk = task[w].chunk
                           /\ task[w]'.pc = "renamed" => w = t \/ task[w].pc = "renamed"
      BY <2>3, <1>a, <1>b DEF PutRename
    <3>5. purged' = purged
      BY <2>3 DEF PutRename, histVars
    <3>6. \A w \in Tasks : Piece(w) \in Pieces /\ task[w].upload \in Uploads
      BY RequestType
    <3>7. Staged'
      BY <3>2, <3>3, <3>4, <3>5, <3>6
    <3>8. StagedUntilPurged'
      BY <2>3, <1>a, <1>b DEF PutRename, MovedInode, Writers, dbVars, diskVars, histVars
    <3> QED BY <3>7, <3>8
  <2>4. CASE PutRenameFails(t)
    BY <2>4, <1>a, <1>b DEF PutRenameFails, dbVars, diskVars, histVars
  <2>5. CASE PutMark(t)
    BY <2>5, <1>a, <1>b DEF PutMark, dbVars, diskVars, histVars
  <2>6. CASE PutCount(t)
    BY <2>6, <1>a, <1>b DEF PutCount, dbVars, diskVars, histVars
  <2>7. CASE PutStore(t)
    BY <2>7, <1>a, <1>b DEF PutStore, AfterStore, AfterFileState, dbVars, diskVars, histVars
  <2>8. CASE PutFileState(t)
    BY <2>8, <1>a, <1>b DEF PutFileState, AfterFileState, dbVars, diskVars, histVars
  <2>9. CASE PutFlip(t)
    BY <2>9, <1>a, <1>b DEF PutFlip, dbVars, diskVars, histVars
  <2>10. CASE PutProgress(t)
    <3>1. \A w \in Tasks : task[w]'.pc = "renamed" => task[w]' = task[w]
      BY <2>10, <1>a, <1>b DEF PutProgress
    <3>2. UNCHANGED <<part, received, purged>>
      BY <2>10 DEF PutProgress, dbVars, diskVars, histVars
    <3> QED BY <3>1, <3>2, StageQuiet
  <2>11. CASE Elect(t)
    <3>1. \A w \in Tasks : task[w]'.pc = "renamed" => task[w]' = task[w]
      BY <2>11, <1>a, <1>b DEF Elect
    <3>2. UNCHANGED <<part, received, purged>>
      BY <2>11 DEF Elect, dbVars, diskVars, histVars
    <3> QED BY <3>1, <3>2, StageQuiet
  <2> QED BY <1>2, <2>1, <2>2, <2>3, <2>4, <2>5, <2>6, <2>7, <2>8, <2>9, <2>10, <2>11 DEF PutStep
<1>3. ASSUME NEW t \in Tasks, FinStep(t) PROVE StageInv'
  <2>1. CASE FinLoad(t)
    BY <2>1, <1>a, <1>b DEF FinLoad, dbVars, diskVars, histVars
  <2>2. CASE FinList(t)
    BY <2>2, <1>a, <1>b, ZenonT(40) DEF FinList, dbVars, diskVars, histVars
  <2>3. ASSUME NEW f \in Files, FinFileOk(t, f) PROVE StageInv'
    BY <2>3, <1>a, <1>b, ZenonT(40) DEF FinFileOk, FilesDone, dbVars, diskVars, histVars
  <2>4. ASSUME NEW f \in Files, FinFileFails(t, f) PROVE StageInv'
    BY <2>4, <1>a, <1>b DEF FinFileFails, FilesDone, dbVars, diskVars, histVars
  <2>5. CASE FinReport(t)
    BY <2>5, <1>a, <1>b DEF FinReport, dbVars, diskVars, histVars
  <2>6. CASE FinPurge(t)
    BY <2>6, <1>a, <1>b DEF FinPurge, Unlinked, Purge, dbVars, diskVars, histVars
  <2>7. CASE FinRelease(t)
    BY <2>7, <1>a, <1>b DEF FinRelease, Acknowledge, dbVars, diskVars, histVars
  <2> QED BY <1>3, <2>1, <2>2, <2>3, <2>4, <2>5, <2>6, <2>7 DEF FinStep
<1>4. ASSUME NEW t \in Tasks, ControlStep(t) PROVE StageInv'
  <2>1. CASE CancelWrite(t)
    BY <2>1, <1>a, <1>b DEF CancelWrite, SetUploadState, dbVars, diskVars, histVars
  <2>2. CASE CancelPurge(t)
    BY <2>2, <1>a, <1>b DEF CancelPurge, Unlinked, Purge, dbVars, diskVars, histVars
  <2>3. CASE PauseWrite(t)
    BY <2>3, <1>a, <1>b DEF PauseWrite, SetUploadState, dbVars, diskVars, histVars
  <2>4. CASE ResumeWrite(t)
    BY <2>4, <1>a, <1>b DEF ResumeWrite, SetUploadState, dbVars, diskVars, histVars
  <2> QED BY <1>4, <2>1, <2>2, <2>3, <2>4 DEF ControlStep
<1>5. ASSUME NEW t \in Tasks, OrphanWrite(t) \/ Drop(t) \/ Fail(t) PROVE StageInv'
  <2>1. CASE OrphanWrite(t)
    <3>1. Piece(t) \in Pieces /\ task[t].data # "none"
      BY RequestType DEF Bytes
    <3>2. \A v \in Uploads, q \in Pieces : part[v][q] # "none" => part'[v][q] # "none"
      BY <2>1, <1>a, <1>b, <3>1 DEF OrphanWrite, FinishWrite
    <3>3. \A w \in Tasks : task[w]'.pc = "renamed" => task[w]' = task[w]
      BY <2>1, <1>a, <1>b DEF OrphanWrite
    <3>4. purged' = purged /\ received' = received
      BY <2>1 DEF OrphanWrite, histVars, dbVars
    <3>5. \A w \in Tasks : Piece(w) \in Pieces /\ task[w].upload \in Uploads
      BY RequestType
    <3>6. Staged'
      BY <3>2, <3>3, <3>4, <3>5
    <3>7. StagedUntilPurged'
      BY <3>2, <3>4, <1>a
    <3> QED BY <3>6, <3>7
  <2>2. CASE Drop(t)
    <3>1. \A w \in Tasks : task[w]'.pc = "renamed" => task[w]' = task[w]
      BY <2>2, <1>a, <1>b DEF Drop
    <3>2. UNCHANGED <<part, received, purged>>
      BY <2>2 DEF Drop, dbVars, diskVars, histVars
    <3> QED BY <3>1, <3>2, StageQuiet
  <2>3. CASE Fail(t)
    BY <2>3, <1>a, <1>b DEF Fail, dbVars, diskVars, histVars
  <2> QED BY <1>5, <2>1, <2>2, <2>3
<1>6. ASSUME NEW t \in Tasks, Request(t) PROVE StageInv'
  <2>1. ASSUME NEW u \in Uploads, InitCheck(t, u) PROVE StageInv'
    BY <2>1, <1>a, <1>b DEF InitCheck, dbVars, diskVars, histVars
  <2>2. ASSUME NEW u \in Uploads, NEW f \in Files, NEW c \in Chunks, NEW b \in Bytes,
               PutStart(t, u, f, c, b) PROVE StageInv'
    BY <2>2, <1>a, <1>b, ZenonT(40) DEF PutStart, dbVars, diskVars, histVars
  <2>3. ASSUME NEW u \in Uploads, CancelLoad(t, u) PROVE StageInv'
    BY <2>3, <1>a, <1>b DEF CancelLoad, Control, dbVars, diskVars, histVars
  <2>4. ASSUME NEW u \in Uploads, PauseLoad(t, u) PROVE StageInv'
    BY <2>4, <1>a, <1>b DEF PauseLoad, Control, dbVars, diskVars, histVars
  <2>5. ASSUME NEW u \in Uploads, ResumeLoad(t, u) PROVE StageInv'
    BY <2>5, <1>a, <1>b DEF ResumeLoad, Control, dbVars, diskVars, histVars
  <2> QED BY <1>6, <2>1, <2>2, <2>3, <2>4, <2>5 DEF Request
<1>7. ASSUME NEW u \in Uploads, Sweep(u) PROVE StageInv'
  BY <1>7, <1>a, <1>b DEF Sweep, SetUploadState, dbVars, diskVars, histVars
<1>8. CASE Crash
  BY <1>8 DEF Crash, dbVars, diskVars, histVars
<1>9. CASE UNCHANGED vars
  BY <1>9 DEF vars, dbVars, diskVars, histVars
<1> QED BY <1>1, <1>2, <1>3, <1>4, <1>5, <1>6, <1>7, <1>8, <1>9
        DEF Next, Continue

\* The bytes of a marked chunk are on disk until the session's directory is
\* removed, whatever crashes, drops and repeated sends do (put_chunk).
THEOREM MarkedStaged == Spec => []StagedUntilPurged
<1>1. Init => StageInv
  BY DEF Init, StageInv, Staged, StagedUntilPurged, At, Idle
<1>2. StageInv => StagedUntilPurged
  BY DEF StageInv
<1> QED BY <1>1, <1>2, InitTyped, TypeStep, StageStep, PTL DEF Spec

-----------------------------------------------------------------------------
(* Completeness of what is ingested and reported                           *)

Whole(u) == rows[u] \X Chunks \subseteq received[u]
Reported(u) == report[u].written \/ ingested[u] # {}
UsePCs == PutPCs \cup FinPCs

\* One task creates a session, before anything else is known of it.
Creating ==
    \A t, w \in Tasks :
        At(t, "create") =>
            /\ state[task[t].upload] = "absent"
            /\ At(w, "create") /\ task[w].upload = task[t].upload => t = w

\* While its files are still being declared nobody sends chunks of a session.
Declaring ==
    \A t, w \in Tasks :
        At(t, "declare") =>
            /\ ~Reported(task[t].upload)
            /\ task[w].pc \in UsePCs => task[w].upload # task[t].upload

\* Nothing runs on a session that has no row.
Begun ==
    \A u \in Uploads :
        state[u] = "absent" =>
            /\ ~Reported(u)
            /\ \A t \in Tasks :
                  task[t].pc \in UsePCs \cup CtlPCs \cup {"declare"} => task[t].upload # u

\* Who finalizes, or is about to, found every declared chunk.
Finalizing ==
    \A t \in Tasks : task[t].pc \in FinPCs \cup {"electing"} => Whole(task[t].upload)

ReportInv == Creating /\ Declaring /\ Begun /\ Finalizing /\ ReportReceived

\* A step that changes no row and no history, and only ends tasks or moves them
\* on within a chunk's handling.
LEMMA ReportQuiet ==
    ASSUME ReportInv, UNCHANGED <<state, report, rows, received, ingested>>,
           \A w \in Tasks :
              \/ task[w]' = task[w]
              \/ task[w]'.pc \in {"idle", "orphan"}
              \/ /\ task[w].pc \in UsePCs /\ task[w]'.pc \in UsePCs
                 /\ task[w]'.upload = task[w].upload
                 /\ task[w]'.pc \in FinPCs \cup {"electing"} => Whole(task[w].upload)
    PROVE  ReportInv'
<1> USE DEF ReportInv, UsePCs, PutPCs, FinPCs, CtlPCs, At, Reported, Whole
<1>1. Creating'
  BY DEF Creating
<1>2. Declaring'
  BY DEF Declaring
<1>3. Begun'
  BY DEF Begun
<1>4. Finalizing'
  BY DEF Finalizing
<1>5. ReportReceived'
  BY DEF ReportReceived
<1> QED BY <1>1, <1>2, <1>3, <1>4, <1>5

\* A finalizing task that reports or ingests files of its own session.
LEMMA ReportOwn ==
    ASSUME ReportInv, NEW t \in Tasks, \A w \in Tasks : task[w].upload \in Uploads,
           task[t].pc \in FinPCs, task'[t].pc \in FinPCs,
           task'[t].upload = task[t].upload,
           \A w \in Tasks : w # t => task'[w] = task[w],
           UNCHANGED <<state, rows, received>>,
           \A u \in Uploads :
              u # task[t].upload => report'[u] = report[u] /\ ingested'[u] = ingested[u]
    PROVE  ReportInv'
<1> USE DEF ReportInv, At, Reported, Whole
<1>1. Creating'
  BY DEF Creating, FinPCs
<1>2. Declaring'
  <2>1. \A w \in Tasks : task'[w].pc = "declare" => task'[w] = task[w] /\ w # t
    BY DEF FinPCs
  <2>2. \A w \in Tasks : task[w].pc = "declare" => task[w].upload # task[t].upload
    BY DEF Declaring, UsePCs
  <2>3. \A w \in Tasks : /\ task'[w].upload = task[w].upload
                          /\ task'[w].pc \in UsePCs => task[w].pc \in UsePCs
    BY DEF UsePCs
  <2>4. SUFFICES ASSUME NEW v \in Tasks, NEW w \in Tasks, task'[v].pc = "declare"
                 PROVE  /\ (~Reported(task[v].upload))'
                        /\ task'[w].pc \in UsePCs => task'[w].upload # task'[v].upload
    BY DEF Declaring
  <2>5. task'[w].pc \in UsePCs => task'[w].upload # task'[v].upload
    BY <2>1, <2>3, <2>4 DEF Declaring
  <2>6. (~Reported(task[v].upload))'
    BY <2>1, <2>2, <2>4 DEF Declaring
  <2> QED BY <2>5, <2>6
<1>3. Begun'
  BY DEF Begun, UsePCs, FinPCs, CtlPCs
<1>4. Finalizing'
  BY DEF Finalizing
<1>5. ReportReceived'
  BY DEF ReportReceived, Finalizing
<1> QED BY <1>1, <1>2, <1>3, <1>4, <1>5

LEMMA ReportStep == TypeOK /\ CountedReceived /\ ReportInv /\ [Next]_vars => ReportInv'
<1> SUFFICES ASSUME TypeOK, CountedReceived, ReportInv, [Next]_vars PROVE ReportInv'
  OBVIOUS
<1> USE DEF ReportInv, Creating, Declaring, Begun, Finalizing, ReportReceived, Whole, Reported,
            UsePCs, PutPCs, FinPCs, CtlPCs, At, Goto, Return, Idle
<1>a. /\ task \in [Tasks -> Requests]
      /\ state \in [Uploads -> States \cup {"absent"}]
      /\ report \in [Uploads -> [written : BOOLEAN, ok : SUBSET Files]]
      /\ rows \in [Uploads -> SUBSET Files]
      /\ received \in [Uploads -> SUBSET Pieces]
      /\ ingested \in [Uploads -> SUBSET Files]
  BY DEF TypeOK
<1>b. \A w \in Tasks : task[w] \in [pc : PCs, upload : Uploads, file : Files, chunk : Chunks,
             data : Bytes, first : BOOLEAN, tally : SUBSET Chunks,
             todo : SUBSET Files, ok : SUBSET Files, inode : {"tmp", "part", "gone"}]
  BY <1>a DEF Requests
<1>1. ASSUME NEW t \in Tasks, InitStep(t) PROVE ReportInv'
  <2>1. CASE InitCreate(t)
    BY <2>1, <1>a, <1>b DEF InitCreate, dbVars, histVars
  <2>2. ASSUME NEW f \in Files, InitFile(t, f) PROVE ReportInv'
    <3>1. Creating'
      BY <2>2, <1>a, <1>b DEF InitFile, dbVars, histVars
    <3>2. \A w \in Tasks : task[w]' = task[w] \/ task[w]'.pc = "idle"
      BY <2>2, <1>a DEF InitFile
    <3>3. UNCHANGED <<report, ingested>>
      BY <2>2 DEF InitFile, histVars
    <3>4. Declaring'
      BY <3>2, <3>3
    <3>5. Begun'
      BY <2>2, <1>a, <1>b DEF InitFile, dbVars, histVars
    <3>6. Finalizing'
      BY <2>2, <1>a, <1>b, SMTT(30) DEF InitFile, dbVars, histVars
    <3>7. ReportReceived'
      BY <2>2, <1>a, <1>b DEF InitFile, dbVars, histVars
    <3> QED BY <3>1, <3>4, <3>5, <3>6, <3>7
  <2> QED BY <1>1, <2>1, <2>2 DEF InitStep
<1>2. ASSUME NEW t \in Tasks, PutStep(t) PROVE ReportInv'
  <2>1. CASE PutOpen(t)
    BY <2>1, <1>a, <1>b DEF PutOpen, dbVars, histVars
  <2>2. CASE PutWrite(t)
    <3>1. Creating'
      BY <2>2, <1>a, <1>b DEF PutWrite, dbVars, histVars
    <3>2. Declaring'
      BY <2>2, <1>a, <1>b DEF PutWrite, dbVars, histVars
    <3>3. Begun'
      BY <2>2, <1>a, <1>b DEF PutWrite, dbVars, histVars
    <3>4. Finalizing'
      BY <2>2, <1>a, <1>b DEF PutWrite, dbVars, histVars
    <3>5. ReportReceived'
      BY <2>2, <1>a, <1>b DEF PutWrite, dbVars, histVars
    <3> QED BY <3>1, <3>2, <3>3, <3>4, <3>5
  <2>3. CASE PutRename(t)
    BY <2>3, <1>a, <1>b DEF PutRename, MovedInode, Writers, dbVars, histVars
  <2>4. CASE PutRenameFails(t)
    BY <2>4, <1>a, <1>b DEF PutRenameFails, dbVars, histVars
  <2>5. CASE PutMark(t)
    BY <2>5, <1>a, <1>b DEF PutMark, dbVars, histVars
  <2>6. CASE PutCount(t)
    BY <2>6, <1>a, <1>b DEF PutCount, dbVars, histVars
  <2>7. CASE PutStore(t)
    <3>1. \A w \in Tasks : w # t => task[w]' = task[w]
      BY <2>7, <1>a DEF PutStore
    <3>2. /\ task[t].pc \in UsePCs /\ task[t]'.pc \in UsePCs
          /\ task[t]'.upload = task[t].upload
          /\ task[t]'.pc \in FinPCs \cup {"electing"} => Whole(task[t].upload)
      BY <2>7, <1>a, <1>b DEF PutStore, AfterStore, AfterFileState
    <3>3. UNCHANGED <<state, report, rows, received, ingested>>
      BY <2>7 DEF PutStore, dbVars, histVars
    <3> QED BY <3>1, <3>2, <3>3, ReportQuiet
  <2>8. CASE PutFileState(t)
    BY <2>8, <1>a, <1>b DEF PutFileState, AfterFileState, dbVars, histVars
  <2>9. CASE PutFlip(t)
    BY <2>9, <1>a, <1>b DEF PutFlip, dbVars, histVars
  <2>10. CASE PutProgress(t)
    <3>1. AllCounted(task[t].upload) => Whole(task[t].upload)
      BY <1>a, <1>b DEF AllCounted, CountedReceived
    <3>2. \A w \in Tasks : w # t => task[w]' = task[w]
      BY <2>10, <1>a DEF PutProgress
    <3>3. \/ task[t]'.pc \in {"idle", "orphan"}
          \/ /\ task[t].pc \in UsePCs /\ task[t]'.pc \in UsePCs
             /\ task[t]'.upload = task[t].upload
             /\ task[t]'.pc \in FinPCs \cup {"electing"} => Whole(task[t].upload)
      BY <2>10, <1>a, <1>b, <3>1 DEF PutProgress
    <3>4. UNCHANGED <<state, report, rows, received, ingested>>
      BY <2>10 DEF PutProgress, dbVars, histVars
    <3> QED BY <3>2, <3>3, <3>4, ReportQuiet
  <2>11. CASE Elect(t)
    <3>1. \A w \in Tasks : w # t => task[w]' = task[w]
      BY <2>11, <1>a DEF Elect
    <3>2. \/ task[t]'.pc \in {"idle", "orphan"}
          \/ /\ task[t].pc \in UsePCs /\ task[t]'.pc \in UsePCs
             /\ task[t]'.upload = task[t].upload
             /\ task[t]'.pc \in FinPCs \cup {"electing"} => Whole(task[t].upload)
      BY <2>11, <1>a, <1>b DEF Elect
    <3>3. UNCHANGED <<state, report, rows, received, ingested>>
      BY <2>11 DEF Elect, dbVars, histVars
    <3> QED BY <3>1, <3>2, <3>3, ReportQuiet
  <2> QED BY <1>2, <2>1, <2>2, <2>3, <2>4, <2>5, <2>6, <2>7, <2>8, <2>9, <2>10, <2>11 DEF PutStep
<1>3. ASSUME NEW t \in Tasks, FinStep(t) PROVE ReportInv'
  <2>1. CASE FinLoad(t)
    <3>1. Creating'
      BY <2>1, <1>a, <1>b DEF FinLoad, dbVars, histVars
    <3>2. Declaring'
      BY <2>1, <1>a, <1>b DEF FinLoad, dbVars, histVars
    <3>3. Begun'
      BY <2>1, <1>a, <1>b DEF FinLoad, dbVars, histVars
    <3>4. Finalizing'
      BY <2>1, <1>a, <1>b DEF FinLoad, dbVars, histVars
    <3>5. ReportReceived'
      BY <2>1, <1>a, <1>b DEF FinLoad, dbVars, histVars
    <3> QED BY <3>1, <3>2, <3>3, <3>4, <3>5
  <2>2. CASE FinList(t)
    <3>1. \A w \in Tasks : w # t => task[w]' = task[w]
      BY <2>2, <1>a DEF FinList
    <3>2. /\ task[t].pc \in UsePCs /\ task[t]'.pc \in UsePCs
          /\ task[t]'.upload = task[t].upload
          /\ task[t]'.pc \in FinPCs \cup {"electing"} => Whole(task[t].upload)
      BY <2>2, <1>a, <1>b DEF FinList
    <3>3. UNCHANGED <<state, report, rows, received, ingested>>
      BY <2>2 DEF FinList, dbVars, histVars
    <3> QED BY <3>1, <3>2, <3>3, ReportQuiet
  <2>3. ASSUME NEW f \in Files, FinFileOk(t, f) PROVE ReportInv'
    <3>1. /\ task[t].pc \in FinPCs /\ task'[t].pc \in FinPCs
          /\ task'[t].upload = task[t].upload
          /\ \A w \in Tasks : w # t => task'[w] = task[w]
      BY <2>3, <1>a, <1>b DEF FinFileOk, FilesDone
    <3>2. /\ UNCHANGED <<state, rows, received>>
          /\ \A u \in Uploads :
                u # task[t].upload => report'[u] = report[u] /\ ingested'[u] = ingested[u]
      BY <2>3, <1>a DEF FinFileOk
    <3> QED BY <3>1, <3>2, <1>b, ReportOwn
  <2>4. ASSUME NEW f \in Files, FinFileFails(t, f) PROVE ReportInv'
    BY <2>4, <1>a, <1>b DEF FinFileFails, FilesDone, dbVars, histVars
  <2>5. CASE FinReport(t)
    BY <2>5, <1>a, <1>b DEF FinReport, dbVars, histVars
  <2>6. CASE FinPurge(t)
    BY <2>6, <1>a, <1>b DEF FinPurge, Unlinked, dbVars, histVars
  <2>7. CASE FinRelease(t)
    BY <2>7, <1>a, <1>b DEF FinRelease, Acknowledge, dbVars, histVars
  <2> QED BY <1>3, <2>1, <2>2, <2>3, <2>4, <2>5, <2>6, <2>7 DEF FinStep
<1>4. ASSUME NEW t \in Tasks, ControlStep(t) PROVE ReportInv'
  <2>1. CASE CancelWrite(t)
    BY <2>1, <1>a, <1>b DEF CancelWrite, SetUploadState, dbVars, histVars
  <2>2. CASE CancelPurge(t)
    BY <2>2, <1>a, <1>b DEF CancelPurge, Unlinked, dbVars, histVars
  <2>3. CASE PauseWrite(t)
    BY <2>3, <1>a, <1>b DEF PauseWrite, SetUploadState, dbVars, histVars
  <2>4. CASE ResumeWrite(t)
    BY <2>4, <1>a, <1>b DEF ResumeWrite, SetUploadState, dbVars, histVars
  <2> QED BY <1>4, <2>1, <2>2, <2>3, <2>4 DEF ControlStep
<1>5. ASSUME NEW t \in Tasks, OrphanWrite(t) \/ Drop(t) \/ Fail(t) PROVE ReportInv'
  <2>1. CASE OrphanWrite(t)
    BY <2>1, <1>a, <1>b DEF OrphanWrite, dbVars, histVars
  <2>2. CASE Drop(t)
    <3>1. \A w \in Tasks : w # t => task[w]' = task[w]
      BY <2>2, <1>a DEF Drop
    <3>2. \/ task[t]'.pc \in {"idle", "orphan"}
          \/ /\ task[t].pc \in UsePCs /\ task[t]'.pc \in UsePCs
             /\ task[t]'.upload = task[t].upload
             /\ task[t]'.pc \in FinPCs \cup {"electing"} => Whole(task[t].upload)
      BY <2>2, <1>a, <1>b DEF Drop
    <3>3. UNCHANGED <<state, report, rows, received, ingested>>
      BY <2>2 DEF Drop, dbVars, histVars
    <3> QED BY <3>1, <3>2, <3>3, ReportQuiet
  <2>3. CASE Fail(t)
    BY <2>3, <1>a, <1>b DEF Fail, dbVars, histVars
  <2> QED BY <1>5, <2>1, <2>2, <2>3
<1>6. ASSUME NEW t \in Tasks, Request(t) PROVE ReportInv'
  <2>1. ASSUME NEW u \in Uploads, InitCheck(t, u) PROVE ReportInv'
    BY <2>1, <1>a, <1>b DEF InitCheck, Fresh, dbVars, histVars
  <2>2. ASSUME NEW u \in Uploads, NEW f \in Files, NEW c \in Chunks, NEW b \in Bytes,
               PutStart(t, u, f, c, b) PROVE ReportInv'
    <3>1. Creating'
      BY <2>2, <1>a, <1>b DEF PutStart, Known, dbVars, histVars
    <3>2. Declaring'
      BY <2>2, <1>a, <1>b DEF PutStart, Known, dbVars, histVars
    <3>3. state[u] # "absent" /\ UNCHANGED <<state, report, ingested>>
      BY <2>2 DEF PutStart, Known, Active, dbVars, histVars
    <3>4. \A w \in Tasks : task[w]' = task[w] \/ task[w]'.upload = u
      BY <2>2, <1>a, <1>b DEF PutStart, Known
    <3>5. Begun'
      BY <3>3, <3>4
    <3>6. Finalizing'
      BY <2>2, <1>a, <1>b DEF PutStart, Known, dbVars, histVars
    <3>7. ReportReceived'
      BY <2>2, <1>a, <1>b DEF PutStart, Known, dbVars, histVars
    <3> QED BY <3>1, <3>2, <3>5, <3>6, <3>7
  <2>3. ASSUME NEW u \in Uploads, CancelLoad(t, u) PROVE ReportInv'
    <3>1. Creating'
      BY <2>3, <1>a, <1>b DEF CancelLoad, Control, dbVars, histVars
    <3>2. Declaring'
      BY <2>3, <1>a, <1>b DEF CancelLoad, Control, dbVars, histVars
    <3>3. state[u] # "absent" /\ UNCHANGED <<state, report, ingested>>
      BY <2>3 DEF CancelLoad, Control, Active, dbVars, histVars
    <3>4. \A w \in Tasks : task[w]' = task[w] \/ task[w]'.upload = u
      BY <2>3, <1>a, <1>b DEF CancelLoad, Control
    <3>5. Begun'
      BY <3>3, <3>4
    <3>6. Finalizing'
      BY <2>3, <1>a, <1>b DEF CancelLoad, Control, dbVars, histVars
    <3>7. ReportReceived'
      BY <2>3, <1>a, <1>b DEF CancelLoad, Control, dbVars, histVars
    <3> QED BY <3>1, <3>2, <3>5, <3>6, <3>7
  <2>4. ASSUME NEW u \in Uploads, PauseLoad(t, u) PROVE ReportInv'
    <3>1. Creating'
      BY <2>4, <1>a, <1>b DEF PauseLoad, Control, dbVars, histVars
    <3>2. Declaring'
      BY <2>4, <1>a, <1>b DEF PauseLoad, Control, dbVars, histVars
    <3>3. state[u] # "absent" /\ UNCHANGED <<state, report, ingested>>
      BY <2>4 DEF PauseLoad, Control, Active, dbVars, histVars
    <3>4. \A w \in Tasks : task[w]' = task[w] \/ task[w]'.upload = u
      BY <2>4, <1>a, <1>b DEF PauseLoad, Control
    <3>5. Begun'
      BY <3>3, <3>4
    <3>6. Finalizing'
      BY <2>4, <1>a, <1>b DEF PauseLoad, Control, dbVars, histVars
    <3>7. ReportReceived'
      BY <2>4, <1>a, <1>b DEF PauseLoad, Control, dbVars, histVars
    <3> QED BY <3>1, <3>2, <3>5, <3>6, <3>7
  <2>5. ASSUME NEW u \in Uploads, ResumeLoad(t, u) PROVE ReportInv'
    BY <2>5, <1>a, <1>b DEF ResumeLoad, Control, dbVars, histVars
  <2> QED BY <1>6, <2>1, <2>2, <2>3, <2>4, <2>5 DEF Request
<1>7. ASSUME NEW u \in Uploads, Sweep(u) PROVE ReportInv'
  BY <1>7, <1>a, <1>b DEF Sweep, SetUploadState, dbVars, histVars
<1>8. CASE Crash
  BY <1>8 DEF Crash, dbVars, histVars
<1>9. CASE UNCHANGED vars
  BY <1>9 DEF vars, dbVars, histVars
<1> QED BY <1>1, <1>2, <1>3, <1>4, <1>5, <1>6, <1>7, <1>8, <1>9
        DEF Next, Continue

LEMMA ReportInvariant == Spec => []ReportInv
<1>1. Init => ReportInv
  BY DEF Init, ReportInv, Creating, Declaring, Begun, Finalizing, ReportReceived, Reported,
         NoReport, UsePCs, PutPCs, FinPCs, CtlPCs, At, Idle
<1> QED BY <1>1, InitTyped, TypeStep, CountsBehind, ReportStep, PTL DEF Spec

\* Nothing is ingested, and no report is written, while a chunk of a declared
\* file is missing, however many requests overlap and whatever fails (finalize).
THEOREM ReportsWhole == Spec => []ReportReceived
<1>1. ReportInv => ReportReceived
  BY DEF ReportInv
<1> QED BY <1>1, ReportInvariant, PTL

-----------------------------------------------------------------------------
(* Requests one at a time: the lifecycle, and a report of every file.      *)

Alone == \A s, t \in Tasks : s = t

\* Steps that answer for a session that is active.
Running ==
    {"declare", "finLoad", "finList", "finFiles", "finReport", "cancel", "pause", "resume"} \cup PutPCs

\* What a request found when it loaded the session still holds when it writes.
Current ==
    \A t \in Tasks :
        /\ At(t, "create") => state[task[t].upload] = "absent" /\ ActiveOf(Owner[task[t].upload]) = {}
        /\ task[t].pc \in Running => state[task[t].upload] \in Active
        /\ task[t].pc \in PutPCs => task[t].file \in rows[task[t].upload]

\* What a request leaves on disk is good or nothing, and stays for as long as the
\* session is active.
Kept ==
    /\ \A u \in Uploads : u \in purged => state[u] \in Terminal
    /\ \A u \in Uploads, p \in Pieces : part[u][p] \in {"none", "good"}
    /\ \A t \in Tasks :
        /\ task[t].pc \in {"put", "writing", "written", "orphan"} => task[t].data = "good"
        /\ At(t, "writing") => task[t].inode = "tmp"
        /\ At(t, "written") => tmp[task[t].upload][Piece(t)] = "good"
        /\ task[t].pc \in {"finPurge", "cancelPurge"} => state[task[t].upload] \in Terminal

\* And the files done and to be done are those declared.
Listed ==
    \A t \in Tasks :
        /\ task[t].pc \in {"finFiles", "finReport"} => task[t].ok \cup task[t].todo = rows[task[t].upload]
        /\ At(t, "finReport") => task[t].todo = {}


LEMMA CurrentStep ==
    ASSUME TypeOK, Alone, Current, [Next]_vars
    PROVE  Current'
<1> USE DEF Current, Running, PutPCs, Active, At, Goto, Return, Idle
<1>a. /\ task \in [Tasks -> Requests]
      /\ state \in [Uploads -> States \cup {"absent"}]
      /\ rows \in [Uploads -> SUBSET Files]
  BY DEF TypeOK
<1>b. \A w \in Tasks : task[w] \in [pc : PCs, upload : Uploads, file : Files, chunk : Chunks,
             data : Bytes, first : BOOLEAN, tally : SUBSET Chunks,
             todo : SUBSET Files, ok : SUBSET Files, inode : {"tmp", "part", "gone"}]
  BY <1>a DEF Requests
<1>c. \A w, t \in Tasks : w = t
  BY DEF Alone
<1>1. ASSUME NEW t \in Tasks, InitStep(t) PROVE Current'
  <2>1. CASE InitCreate(t)
    BY <2>1, <1>a, <1>b, <1>c DEF InitCreate, dbVars, diskVars, histVars
  <2>2. ASSUME NEW f \in Files, InitFile(t, f) PROVE Current'
    BY <2>2, <1>a, <1>b, <1>c DEF InitFile, dbVars, diskVars, histVars
  <2> QED BY <1>1, <2>1, <2>2 DEF InitStep
<1>2. ASSUME NEW t \in Tasks, PutStep(t) PROVE Current'
  <2>1. CASE PutOpen(t)
    BY <2>1, <1>a, <1>b, <1>c DEF PutOpen, dbVars, diskVars, histVars
  <2>2. CASE PutWrite(t)
    BY <2>2, <1>a, <1>b, <1>c DEF PutWrite, FinishWrite, dbVars, diskVars, histVars
  <2>3. CASE PutRename(t)
    BY <2>3, <1>a, <1>b, <1>c DEF PutRename, MovedInode, Writers, dbVars, diskVars, histVars
  <2>4. CASE PutRenameFails(t)
    BY <2>4, <1>a, <1>b, <1>c DEF PutRenameFails, dbVars, diskVars, histVars
  <2>5. CASE PutMark(t)
    BY <2>5, <1>a, <1>b, <1>c DEF PutMark, dbVars, diskVars, histVars
  <2>6. CASE PutCount(t)
    BY <2>6, <1>a, <1>b, <1>c DEF PutCount, dbVars, diskVars, histVars
  <2>7. CASE PutStore(t)
    BY <2>7, <1>a, <1>b, <1>c DEF PutStore, AfterStore, AfterFileState, dbVars, diskVars, histVars
  <2>8. CASE PutFileState(t)
    BY <2>8, <1>a, <1>b, <1>c DEF PutFileState, AfterFileState, dbVars, diskVars, histVars
  <2>9. CASE PutFlip(t)
    BY <2>9, <1>a, <1>b, <1>c DEF PutFlip, dbVars, diskVars, histVars
  <2>10. CASE PutProgress(t)
    BY <2>10, <1>a, <1>b, <1>c DEF PutProgress, Acknowledge, dbVars, diskVars, histVars
  <2>11. CASE Elect(t)
    BY <2>11, <1>a, <1>b, <1>c DEF Elect, Acknowledge, dbVars, diskVars, histVars
  <2> QED BY <1>2, <2>1, <2>2, <2>3, <2>4, <2>5, <2>6, <2>7, <2>8, <2>9, <2>10, <2>11 DEF PutStep
<1>3. ASSUME NEW t \in Tasks, FinStep(t) PROVE Current'
  <2>1. CASE FinLoad(t)
    BY <2>1, <1>a, <1>b, <1>c DEF FinLoad, dbVars, diskVars, histVars
  <2>2. CASE FinList(t)
    BY <2>2, <1>a, <1>b, <1>c DEF FinList, dbVars, diskVars, histVars
  <2>3. ASSUME NEW f \in Files, FinFileOk(t, f) PROVE Current'
    BY <2>3, <1>a, <1>b, <1>c DEF FinFileOk, FilesDone, dbVars, diskVars, histVars
  <2>4. ASSUME NEW f \in Files, FinFileFails(t, f) PROVE Current'
    BY <2>4, <1>a, <1>b, <1>c DEF FinFileFails, FilesDone, dbVars, diskVars, histVars
  <2>5. CASE FinReport(t)
    BY <2>5, <1>a, <1>b, <1>c DEF FinReport, dbVars, diskVars, histVars
  <2>6. CASE FinPurge(t)
    BY <2>6, <1>a, <1>b, <1>c DEF FinPurge, Purge, Unlinked, dbVars, diskVars, histVars
  <2>7. CASE FinRelease(t)
    BY <2>7, <1>a, <1>b, <1>c DEF FinRelease, Acknowledge, dbVars, diskVars, histVars
  <2> QED BY <1>3, <2>1, <2>2, <2>3, <2>4, <2>5, <2>6, <2>7 DEF FinStep
<1>4. ASSUME NEW t \in Tasks, ControlStep(t) PROVE Current'
  <2>1. CASE CancelWrite(t)
    BY <2>1, <1>a, <1>b, <1>c DEF CancelWrite, SetUploadState, dbVars, diskVars, histVars
  <2>2. CASE CancelPurge(t)
    BY <2>2, <1>a, <1>b, <1>c DEF CancelPurge, Purge, Unlinked, dbVars, diskVars, histVars
  <2>3. CASE PauseWrite(t)
    BY <2>3, <1>a, <1>b, <1>c DEF PauseWrite, SetUploadState, dbVars, diskVars, histVars
  <2>4. CASE ResumeWrite(t)
    BY <2>4, <1>a, <1>b, <1>c DEF ResumeWrite, SetUploadState, dbVars, diskVars, histVars
  <2> QED BY <1>4, <2>1, <2>2, <2>3, <2>4 DEF ControlStep
<1>5. ASSUME NEW t \in Tasks, OrphanWrite(t) \/ Drop(t) \/ Fail(t) PROVE Current'
  <2>1. CASE OrphanWrite(t)
    BY <2>1, <1>a, <1>b, <1>c DEF OrphanWrite, FinishWrite, dbVars, diskVars, histVars
  <2>2. CASE Drop(t)
    BY <2>2, <1>a, <1>b, <1>c DEF Drop, dbVars, diskVars, histVars
  <2>3. CASE Fail(t)
    BY <2>3, <1>a, <1>b, <1>c DEF Fail, dbVars, diskVars, histVars
  <2> QED BY <1>5, <2>1, <2>2, <2>3
<1>6. ASSUME NEW t \in Tasks, Request(t) PROVE Current'
  <2>1. ASSUME NEW u \in Uploads, InitCheck(t, u) PROVE Current'
    BY <2>1, <1>a, <1>b, <1>c DEF InitCheck, Fresh, ActiveOf, dbVars, diskVars, histVars
  <2>2. ASSUME NEW u \in Uploads, NEW f \in Files, NEW c \in Chunks, NEW b \in Bytes,
               PutStart(t, u, f, c, b) PROVE Current'
    BY <2>2, <1>a, <1>b, <1>c DEF PutStart, Known, dbVars, diskVars, histVars
  <2>3. ASSUME NEW u \in Uploads, CancelLoad(t, u) PROVE Current'
    BY <2>3, <1>a, <1>b, <1>c DEF CancelLoad, Control, dbVars, diskVars, histVars
  <2>4. ASSUME NEW u \in Uploads, PauseLoad(t, u) PROVE Current'
    BY <2>4, <1>a, <1>b, <1>c DEF PauseLoad, Control, dbVars, diskVars, histVars
  <2>5. ASSUME NEW u \in Uploads, ResumeLoad(t, u) PROVE Current'
    BY <2>5, <1>a, <1>b, <1>c DEF ResumeLoad, Control, dbVars, diskVars, histVars
  <2> QED BY <1>6, <2>1, <2>2, <2>3, <2>4, <2>5 DEF Request
<1>7. ASSUME NEW u \in Uploads, Sweep(u) PROVE Current'
  BY <1>7, <1>a, <1>b, <1>c DEF Sweep, SetUploadState, ActiveOf, dbVars, diskVars, histVars
<1>8. CASE Crash
  BY <1>8, <1>a, <1>b, <1>c DEF Crash, dbVars, diskVars, histVars
<1>9. CASE UNCHANGED vars
  BY <1>9 DEF vars, dbVars, diskVars, histVars, ActiveOf
<1> QED BY <1>1, <1>2, <1>3, <1>4, <1>5, <1>6, <1>7, <1>8, <1>9
        DEF Next, Continue

\* A step that removes nothing, and does not write to a file.
LEMMA QuietKept ==
    ASSUME Alone, Kept, NEW t \in Tasks, UNCHANGED <<part, purged>>,
           \A u \in Uploads : state[u] \in Terminal => state'[u] \in Terminal,
           \/ task'[t].pc \notin {"put", "writing", "written", "orphan", "finPurge", "cancelPurge"}
           \/ task'[t].pc = "put" /\ task'[t].data = "good"
    PROVE  Kept'
<1>1. \A w \in Tasks : w = t
  BY DEF Alone
<1> QED BY <1>1 DEF Kept, At

LEMMA PurgedKept ==
    ASSUME TypeOK, Alone, Kept, NEW t \in Tasks, task[t].pc \in {"finPurge", "cancelPurge"},
           task'[t].pc \in {"finRelease", "idle"}, Purge(task[t].upload), state' = state
    PROVE  Kept'
<1>1. \A u \in Uploads : u \in purged' => state'[u] \in Terminal
  BY DEF Purge, Kept
<1>2. \A u \in Uploads, p \in Pieces : part'[u][p] \in {"none", "good"}
  BY DEF Purge, Kept, TypeOK
<1>3. \A w \in Tasks : w = t
  BY DEF Alone
<1> QED BY <1>1, <1>2, <1>3 DEF Kept, At

LEMMA KeptStep ==
    ASSUME TypeOK, Alone, Current, Kept, [Next]_vars
    PROVE  Kept'
<1> USE DEF Current, Kept, Running, PutPCs, Active, Terminal, At, Goto, Return, Idle, Piece
<1>a. /\ task \in [Tasks -> Requests]
      /\ state \in [Uploads -> States \cup {"absent"}]
      /\ part \in [Uploads -> [Pieces -> Contents]]
      /\ tmp \in [Uploads -> [Pieces -> Contents]]
  BY DEF TypeOK
<1>b. /\ \A w \in Tasks : task[w] \in [pc : PCs, upload : Uploads, file : Files, chunk : Chunks,
             data : Bytes, first : BOOLEAN, tally : SUBSET Chunks,
             todo : SUBSET Files, ok : SUBSET Files, inode : {"tmp", "part", "gone"}]
      /\ \A w \in Tasks : Piece(w) \in Pieces /\ task[w].upload \in Uploads
  BY <1>a, RequestType DEF Requests
<1>c. \A w, t \in Tasks : w = t
  BY DEF Alone
<1>1. ASSUME NEW t \in Tasks, InitStep(t) PROVE Kept'
  <2>1. CASE InitCreate(t)
    BY <2>1, <1>a, <1>b, <1>c DEF InitCreate, dbVars, diskVars, histVars
  <2>2. ASSUME NEW f \in Files, InitFile(t, f) PROVE Kept'
    BY <2>2, <1>a, <1>b, <1>c DEF InitFile, dbVars, diskVars, histVars
  <2> QED BY <1>1, <2>1, <2>2 DEF InitStep
<1>2. ASSUME NEW t \in Tasks, PutStep(t) PROVE Kept'
  <2>1. CASE PutOpen(t)
    BY <2>1, <1>a, <1>b, <1>c DEF PutOpen, dbVars, diskVars, histVars
  <2>2. CASE PutWrite(t)
    BY <2>2, <1>a, <1>b, <1>c DEF PutWrite, FinishWrite, dbVars, diskVars, histVars
  <2>3. CASE PutRename(t)
    BY <2>3, <1>a, <1>b, <1>c DEF PutRename, MovedInode, Writers, dbVars, diskVars, histVars
  <2>4. CASE PutRenameFails(t)
    BY <2>4, <1>a, <1>b, <1>c DEF PutRenameFails, dbVars, diskVars, histVars
  <2>5. CASE PutMark(t)
    BY <2>5, <1>a, <1>b, <1>c DEF PutMark, dbVars, diskVars, histVars
  <2>6. CASE PutCount(t)
    BY <2>6, <1>a, <1>b, <1>c DEF PutCount, dbVars, diskVars, histVars
  <2>7. CASE PutStore(t)
    <3>1. task'[t].pc \in {"counted", "filed", "flipped"} /\ UNCHANGED <<state, part, purged>>
      BY <2>7, <1>a, <1>b DEF PutStore, AfterStore, AfterFileState, dbVars, diskVars, histVars
    <3> QED BY <3>1, QuietKept
  <2>8. CASE PutFileState(t)
    <3>1. task'[t].pc \in {"filed", "flipped"} /\ UNCHANGED <<state, part, purged>>
      BY <2>8, <1>a, <1>b DEF PutFileState, AfterFileState, dbVars, diskVars, histVars
    <3> QED BY <3>1, QuietKept
  <2>9. CASE PutFlip(t)
    <3>1. /\ UNCHANGED <<part, tmp, purged>> /\ task'[t].pc = "flipped"
          /\ state' = [state EXCEPT ![task[t].upload] = "uploading"]
          /\ state[task[t].upload] \in Active
      BY <2>9, <1>a DEF PutFlip, diskVars, histVars
    <3>2. \A u \in Uploads : u \in purged' => state'[u] \in Terminal
      BY <3>1, <1>a
    <3> QED BY <3>1, <3>2, <1>c
  <2>10. CASE PutProgress(t)
    BY <2>10, <1>a, <1>b, <1>c DEF PutProgress, Acknowledge, dbVars, diskVars, histVars
  <2>11. CASE Elect(t)
    BY <2>11, <1>a, <1>b, <1>c DEF Elect, Acknowledge, dbVars, diskVars, histVars
  <2> QED BY <1>2, <2>1, <2>2, <2>3, <2>4, <2>5, <2>6, <2>7, <2>8, <2>9, <2>10, <2>11 DEF PutStep
<1>3. ASSUME NEW t \in Tasks, FinStep(t) PROVE Kept'
  <2>1. CASE FinLoad(t)
    BY <2>1, <1>a, <1>b, <1>c DEF FinLoad, dbVars, diskVars, histVars
  <2>2. CASE FinList(t)
    <3>1. task'[t].pc = "finFiles" /\ UNCHANGED <<state, part, purged>>
      BY <2>2, <1>a, <1>b DEF FinList, dbVars, diskVars, histVars
    <3> QED BY <3>1, QuietKept
  <2>3. ASSUME NEW f \in Files, FinFileOk(t, f) PROVE Kept'
    <3>1. task'[t].pc \in {"finReport", "finFiles"} /\ UNCHANGED <<state, part, purged>>
      BY <2>3, <1>a, <1>b DEF FinFileOk, FilesDone, diskVars, histVars
    <3> QED BY <3>1, QuietKept
  <2>4. ASSUME NEW f \in Files, FinFileFails(t, f) PROVE Kept'
    <3>1. task'[t].pc \in {"finReport", "finFiles"} /\ UNCHANGED <<state, part, purged>>
      BY <2>4, <1>a, <1>b DEF FinFileFails, FilesDone, diskVars, histVars
    <3> QED BY <3>1, QuietKept
  <2>5. CASE FinReport(t)
    BY <2>5, <1>a, <1>b, <1>c DEF FinReport, dbVars, diskVars, histVars
  <2>6. CASE FinPurge(t)
    <3>1. task[t].pc = "finPurge" /\ task'[t].pc = "finRelease" /\ Purge(task[t].upload) /\ state' = state
      BY <2>6, <1>a, <1>b DEF FinPurge, dbVars
    <3> QED BY <3>1, PurgedKept
  <2>7. CASE FinRelease(t)
    BY <2>7, <1>a, <1>b, <1>c DEF FinRelease, Acknowledge, dbVars, diskVars, histVars
  <2> QED BY <1>3, <2>1, <2>2, <2>3, <2>4, <2>5, <2>6, <2>7 DEF FinStep
<1>4. ASSUME NEW t \in Tasks, ControlStep(t) PROVE Kept'
  <2>1. CASE CancelWrite(t)
    BY <2>1, <1>a, <1>b, <1>c DEF CancelWrite, SetUploadState, dbVars, diskVars, histVars
  <2>2. CASE CancelPurge(t)
    <3>1. task[t].pc = "cancelPurge" /\ task'[t].pc = "idle" /\ Purge(task[t].upload) /\ state' = state
      BY <2>2, <1>a, <1>b DEF CancelPurge, dbVars
    <3> QED BY <3>1, PurgedKept
  <2>3. CASE PauseWrite(t)
    <3>1. task[t].pc = "pause" /\ task'[t].pc = "idle" /\ UNCHANGED <<part, purged>>
          /\ \E s : state' = [state EXCEPT ![task[t].upload] = s]
      BY <2>3, <1>a, <1>b DEF PauseWrite, SetUploadState, diskVars, histVars
    <3>2. state[task[t].upload] \in Active
      BY <3>1
    <3>3. \A u \in Uploads : state[u] \in Terminal => state'[u] \in Terminal
      BY <3>1, <3>2, <1>a
    <3> QED BY <3>1, <3>3, QuietKept
  <2>4. CASE ResumeWrite(t)
    <3>1. task[t].pc = "resume" /\ task'[t].pc = "idle" /\ UNCHANGED <<part, purged>>
          /\ \E s : state' = [state EXCEPT ![task[t].upload] = s]
      BY <2>4, <1>a, <1>b DEF ResumeWrite, SetUploadState, diskVars, histVars
    <3>2. state[task[t].upload] \in Active
      BY <3>1
    <3>3. \A u \in Uploads : state[u] \in Terminal => state'[u] \in Terminal
      BY <3>1, <3>2, <1>a
    <3> QED BY <3>1, <3>3, QuietKept
  <2> QED BY <1>4, <2>1, <2>2, <2>3, <2>4 DEF ControlStep
<1>5. ASSUME NEW t \in Tasks, OrphanWrite(t) \/ Drop(t) \/ Fail(t) PROVE Kept'
  <2>1. CASE OrphanWrite(t)
    BY <2>1, <1>a, <1>b, <1>c DEF OrphanWrite, FinishWrite, dbVars, diskVars, histVars
  <2>2. CASE Drop(t)
    BY <2>2, <1>a, <1>b, <1>c DEF Drop, dbVars, diskVars, histVars
  <2>3. CASE Fail(t)
    BY <2>3, <1>a, <1>b, <1>c DEF Fail, dbVars, diskVars, histVars
  <2> QED BY <1>5, <2>1, <2>2, <2>3
<1>6. ASSUME NEW t \in Tasks, Request(t) PROVE Kept'
  <2>1. ASSUME NEW u \in Uploads, InitCheck(t, u) PROVE Kept'
    BY <2>1, <1>a, <1>b, <1>c DEF InitCheck, Fresh, ActiveOf, dbVars, diskVars, histVars
  <2>2. ASSUME NEW u \in Uploads, NEW f \in Files, NEW c \in Chunks, NEW b \in Bytes,
               PutStart(t, u, f, c, b) PROVE Kept'
    <3>1. task'[t].pc = "put" /\ task'[t].data = "good" /\ UNCHANGED <<state, part, purged>>
      BY <2>2, <1>a, <1>b DEF PutStart, dbVars, diskVars, histVars
    <3> QED BY <3>1, QuietKept
  <2>3. ASSUME NEW u \in Uploads, CancelLoad(t, u) PROVE Kept'
    BY <2>3, <1>a, <1>b, <1>c DEF CancelLoad, Control, dbVars, diskVars, histVars
  <2>4. ASSUME NEW u \in Uploads, PauseLoad(t, u) PROVE Kept'
    BY <2>4, <1>a, <1>b, <1>c DEF PauseLoad, Control, dbVars, diskVars, histVars
  <2>5. ASSUME NEW u \in Uploads, ResumeLoad(t, u) PROVE Kept'
    BY <2>5, <1>a, <1>b, <1>c DEF ResumeLoad, Control, dbVars, diskVars, histVars
  <2> QED BY <1>6, <2>1, <2>2, <2>3, <2>4, <2>5 DEF Request
<1>7. ASSUME NEW u \in Uploads, Sweep(u) PROVE Kept'
  BY <1>7, <1>a, <1>b, <1>c DEF Sweep, SetUploadState, ActiveOf, dbVars, diskVars, histVars
<1>8. CASE Crash
  BY <1>8, <1>a, <1>b, <1>c DEF Crash, dbVars, diskVars, histVars
<1>9. CASE UNCHANGED vars
  BY <1>9 DEF vars, dbVars, diskVars, histVars, ActiveOf
<1> QED BY <1>1, <1>2, <1>3, <1>4, <1>5, <1>6, <1>7, <1>8, <1>9
        DEF Next, Continue

\* The parts of a session that is being finalized are all there, and good.
LEMMA FilesReassemble ==
    ASSUME TypeOK, Current, Kept, Listed, StagedUntilPurged, ReportInv, "refuse" \notin Ops,
           NEW t \in Tasks, NEW f \in Files
    PROVE  ~FinFileFails(t, f)
<1> DEFINE u == task[t].upload
<1> SUFFICES ASSUME FinFileFails(t, f) PROVE FALSE
  OBVIOUS
<1>1. At(t, "finFiles") /\ f \in task[t].todo /\ ~Reassembles(u, f) /\ u \in Uploads
  BY RequestType DEF FinFileFails
<1>2. f \in rows[u] /\ u \notin purged
  BY <1>1 DEF Listed, Current, Kept, Running, Terminal, Active, At
<1>3. Whole(u)
  BY <1>1 DEF ReportInv, Finalizing, FinPCs, At
<1>4. \A c \in Chunks : <<f, c>> \in received[u] /\ <<f, c>> \in Pieces
  BY <1>2, <1>3 DEF Whole, Pieces
<1>5. \A c \in Chunks : part[u][<<f, c>>] = "good"
  BY <1>1, <1>2, <1>4 DEF StagedUntilPurged, Kept
<1> QED BY <1>1, <1>5 DEF Reassembles

LEMMA ListedStep ==
    ASSUME TypeOK, Alone, Current, Kept, Listed, StagedUntilPurged, ReportInv, "refuse" \notin Ops, [Next]_vars
    PROVE  Listed'
<1> USE DEF Current, Listed, Running, PutPCs, Active, At, Goto, Return, Idle
<1>a. /\ task \in [Tasks -> Requests]
      /\ rows \in [Uploads -> SUBSET Files]
  BY DEF TypeOK
<1>b. \A w \in Tasks : task[w] \in [pc : PCs, upload : Uploads, file : Files, chunk : Chunks,
             data : Bytes, first : BOOLEAN, tally : SUBSET Chunks,
             todo : SUBSET Files, ok : SUBSET Files, inode : {"tmp", "part", "gone"}]
  BY <1>a DEF Requests
<1>c. \A w, t \in Tasks : w = t
  BY DEF Alone
<1>d. \A t \in Tasks, f \in Files : ~FinFileFails(t, f)
  BY FilesReassemble
<1>1. ASSUME NEW t \in Tasks, InitStep(t) PROVE Listed'
  <2>1. CASE InitCreate(t)
    BY <2>1, <1>a, <1>b, <1>c, <1>d DEF InitCreate, dbVars, diskVars, histVars
  <2>2. ASSUME NEW f \in Files, InitFile(t, f) PROVE Listed'
    BY <2>2, <1>a, <1>b, <1>c, <1>d DEF InitFile, dbVars, diskVars, histVars
  <2> QED BY <1>1, <2>1, <2>2 DEF InitStep
<1>2. ASSUME NEW t \in Tasks, PutStep(t) PROVE Listed'
  <2>1. CASE PutOpen(t)
    BY <2>1, <1>a, <1>b, <1>c, <1>d DEF PutOpen, dbVars, diskVars, histVars
  <2>2. CASE PutWrite(t)
    BY <2>2, <1>a, <1>b, <1>c, <1>d DEF PutWrite, FinishWrite, dbVars, diskVars, histVars
  <2>3. CASE PutRename(t)
    BY <2>3, <1>a, <1>b, <1>c, <1>d DEF PutRename, MovedInode, Writers, dbVars, diskVars, histVars
  <2>4. CASE PutRenameFails(t)
    BY <2>4, <1>a, <1>b, <1>c, <1>d DEF PutRenameFails, dbVars, diskVars, histVars
  <2>5. CASE PutMark(t)
    BY <2>5, <1>a, <1>b, <1>c, <1>d DEF PutMark, dbVars, diskVars, histVars
  <2>6. CASE PutCount(t)
    BY <2>6, <1>a, <1>b, <1>c, <1>d DEF PutCount, dbVars, diskVars, histVars
  <2>7. CASE PutStore(t)
    BY <2>7, <1>a, <1>b, <1>c, <1>d DEF PutStore, AfterStore, AfterFileState, dbVars, diskVars, histVars
  <2>8. CASE PutFileState(t)
    BY <2>8, <1>a, <1>b, <1>c, <1>d DEF PutFileState, AfterFileState, dbVars, diskVars, histVars
  <2>9. CASE PutFlip(t)
    BY <2>9, <1>a, <1>b, <1>c, <1>d DEF PutFlip, dbVars, diskVars, histVars
  <2>10. CASE PutProgress(t)
    BY <2>10, <1>a, <1>b, <1>c, <1>d DEF PutProgress, Acknowledge, dbVars, diskVars, histVars
  <2>11. CASE Elect(t)
    BY <2>11, <1>a, <1>b, <1>c, <1>d DEF Elect, Acknowledge, dbVars, diskVars, histVars
  <2> QED BY <1>2, <2>1, <2>2, <2>3, <2>4, <2>5, <2>6, <2>7, <2>8, <2>9, <2>10, <2>11 DEF PutStep
<1>3. ASSUME NEW t \in Tasks, FinStep(t) PROVE Listed'
  <2>1. CASE FinLoad(t)
    BY <2>1, <1>a, <1>b, <1>c, <1>d DEF FinLoad, dbVars, diskVars, histVars
  <2>2. CASE FinList(t)
    BY <2>2, <1>a, <1>b, <1>c, <1>d DEF FinList, dbVars, diskVars, histVars
  <2>3. ASSUME NEW f \in Files, FinFileOk(t, f) PROVE Listed'
    BY <2>3, <1>a, <1>b, <1>c, <1>d DEF FinFileOk, FilesDone, dbVars, diskVars, histVars
  <2>4. ASSUME NEW f \in Files, FinFileFails(t, f) PROVE Listed'
    BY <2>4, <1>a, <1>b, <1>c, <1>d DEF FinFileFails, FilesDone, dbVars, diskVars, histVars
  <2>5. CASE FinReport(t)
    BY <2>5, <1>a, <1>b, <1>c, <1>d DEF FinReport, dbVars, diskVars, histVars
  <2>6. CASE FinPurge(t)
    BY <2>6, <1>a, <1>b, <1>c, <1>d DEF FinPurge, Purge, Unlinked, dbVars, diskVars, histVars
  <2>7. CASE FinRelease(t)
    BY <2>7, <1>a, <1>b, <1>c, <1>d DEF FinRelease, Acknowledge, dbVars, diskVars, histVars
  <2> QED BY <1>3, <2>1, <2>2, <2>3, <2>4, <2>5, <2>6, <2>7 DEF FinStep
<1>4. ASSUME NEW t \in Tasks, ControlStep(t) PROVE Listed'
  <2>1. CASE CancelWrite(t)
    BY <2>1, <1>a, <1>b, <1>c, <1>d DEF CancelWrite, SetUploadState, dbVars, diskVars, histVars
  <2>2. CASE CancelPurge(t)
    BY <2>2, <1>a, <1>b, <1>c, <1>d DEF CancelPurge, Purge, Unlinked, dbVars, diskVars, histVars
  <2>3. CASE PauseWrite(t)
    BY <2>3, <1>a, <1>b, <1>c, <1>d DEF PauseWrite, SetUploadState, dbVars, diskVars, histVars
  <2>4. CASE ResumeWrite(t)
    BY <2>4, <1>a, <1>b, <1>c, <1>d DEF ResumeWrite, SetUploadState, dbVars, diskVars, histVars
  <2> QED BY <1>4, <2>1, <2>2, <2>3, <2>4 DEF ControlStep
<1>5. ASSUME NEW t \in Tasks, OrphanWrite(t) \/ Drop(t) \/ Fail(t) PROVE Listed'
  <2>1. CASE OrphanWrite(t)
    BY <2>1, <1>a, <1>b, <1>c, <1>d DEF OrphanWrite, FinishWrite, dbVars, diskVars, histVars
  <2>2. CASE Drop(t)
    BY <2>2, <1>a, <1>b, <1>c, <1>d DEF Drop, dbVars, diskVars, histVars
  <2>3. CASE Fail(t)
    BY <2>3, <1>a, <1>b, <1>c, <1>d DEF Fail, dbVars, diskVars, histVars
  <2> QED BY <1>5, <2>1, <2>2, <2>3
<1>6. ASSUME NEW t \in Tasks, Request(t) PROVE Listed'
  <2>1. ASSUME NEW u \in Uploads, InitCheck(t, u) PROVE Listed'
    BY <2>1, <1>a, <1>b, <1>c, <1>d DEF InitCheck, Fresh, ActiveOf, dbVars, diskVars, histVars
  <2>2. ASSUME NEW u \in Uploads, NEW f \in Files, NEW c \in Chunks, NEW b \in Bytes,
               PutStart(t, u, f, c, b) PROVE Listed'
    BY <2>2, <1>a, <1>b, <1>c, <1>d DEF PutStart, Known, dbVars, diskVars, histVars
  <2>3. ASSUME NEW u \in Uploads, CancelLoad(t, u) PROVE Listed'
    BY <2>3, <1>a, <1>b, <1>c, <1>d DEF CancelLoad, Control, dbVars, diskVars, histVars
  <2>4. ASSUME NEW u \in Uploads, PauseLoad(t, u) PROVE Listed'
    BY <2>4, <1>a, <1>b, <1>c, <1>d DEF PauseLoad, Control, dbVars, diskVars, histVars
  <2>5. ASSUME NEW u \in Uploads, ResumeLoad(t, u) PROVE Listed'
    BY <2>5, <1>a, <1>b, <1>c, <1>d DEF ResumeLoad, Control, dbVars, diskVars, histVars
  <2> QED BY <1>6, <2>1, <2>2, <2>3, <2>4, <2>5 DEF Request
<1>7. ASSUME NEW u \in Uploads, Sweep(u) PROVE Listed'
  BY <1>7, <1>a, <1>b, <1>c, <1>d DEF Sweep, SetUploadState, ActiveOf, dbVars, diskVars, histVars
<1>8. CASE Crash
  BY <1>8, <1>a, <1>b, <1>c, <1>d DEF Crash, dbVars, diskVars, histVars
<1>9. CASE UNCHANGED vars
  BY <1>9 DEF vars, dbVars, diskVars, histVars, ActiveOf
<1> QED BY <1>1, <1>2, <1>3, <1>4, <1>5, <1>6, <1>7, <1>8, <1>9
        DEF Next, Continue

\* The steps that write a session's state, its files or its chunks.
LEMMA WritesOnly ==
    ASSUME [Next]_vars
    PROVE  \/ UNCHANGED <<state, rows, received, report>>
           \/ \E u \in Uploads : Sweep(u)
           \/ \E t \in Tasks :
                \/ InitCreate(t) \/ \E f \in Files : InitFile(t, f)
                \/ PutMark(t) \/ PutFlip(t) \/ FinReport(t)
                \/ CancelWrite(t) \/ PauseWrite(t) \/ ResumeWrite(t)
<1>1. ASSUME NEW t \in Tasks, InitStep(t) PROVE InitCreate(t) \/ \E f \in Files : InitFile(t, f)
  BY <1>1 DEF InitStep
<1>2. ASSUME NEW t \in Tasks, PutStep(t)
      PROVE  PutMark(t) \/ PutFlip(t) \/ UNCHANGED <<state, rows, received, report>>
  BY <1>2 DEF PutStep, PutOpen, PutWrite, PutRename, PutRenameFails, PutCount, PutStore, PutFileState, PutProgress,
     Elect, dbVars
<1>3. ASSUME NEW t \in Tasks, FinStep(t)
      PROVE  FinReport(t) \/ UNCHANGED <<state, rows, received, report>>
  BY <1>3 DEF FinStep, FinLoad, FinList, FinFileOk, FinFileFails, FinPurge, FinRelease, dbVars
<1>4. ASSUME NEW t \in Tasks, ControlStep(t)
      PROVE  CancelWrite(t) \/ PauseWrite(t) \/ ResumeWrite(t) \/ UNCHANGED <<state, rows, received, report>>
  BY <1>4 DEF ControlStep, CancelPurge, dbVars
<1>5. ASSUME NEW t \in Tasks, OrphanWrite(t) \/ Drop(t) \/ Fail(t) \/ Request(t)
      PROVE  UNCHANGED <<state, rows, received, report>>
  <2>1. UNCHANGED dbVars
    <3>1. CASE OrphanWrite(t) \/ Drop(t) \/ Fail(t)
      BY <3>1 DEF OrphanWrite, Drop, Fail
    <3>2. ASSUME NEW u \in Uploads, NEW f, NEW c, NEW b, InitCheck(t, u) \/ PutStart(t, u, f, c, b)
          PROVE  UNCHANGED dbVars
      BY <3>2 DEF InitCheck, PutStart
    <3>3. ASSUME NEW u \in Uploads, CancelLoad(t, u) \/ PauseLoad(t, u) \/ ResumeLoad(t, u)
          PROVE  UNCHANGED dbVars
      BY <3>3 DEF CancelLoad, PauseLoad, ResumeLoad, Control
    <3> QED BY <1>5, <3>1, <3>2, <3>3 DEF Request
  <2> QED BY <2>1 DEF dbVars
<1>6. CASE Crash \/ UNCHANGED vars
  BY <1>6 DEF Crash, vars, dbVars
<1> QED BY <1>1, <1>2, <1>3, <1>4, <1>5, <1>6 DEF Next, Continue

LEMMA CompleteStep ==
    ASSUME TypeOK, ReportInv, Listed, ReportComplete, [Next]_vars
    PROVE  ReportComplete'
<1> USE DEF ReportComplete, TypeOK
<1>1. CASE UNCHANGED <<rows, report>>
  BY <1>1
<1>2. ASSUME NEW t \in Tasks, NEW f \in Files, InitFile(t, f) PROVE ReportComplete'
  <2>1. ~report[task[t].upload].written /\ report' = report
        /\ \A u \in Uploads : u # task[t].upload => rows'[u] = rows[u]
    BY <1>2, RequestType DEF InitFile, ReportInv, Declaring, Reported, At
  <2> QED BY <2>1
<1>3. ASSUME NEW t \in Tasks, FinReport(t) PROVE ReportComplete'
  <2>1. task[t].ok = rows[task[t].upload]
    BY <1>3 DEF FinReport, Listed, At
  <2> QED BY <1>3, <2>1 DEF FinReport
<1>4. ASSUME NEW t \in Tasks,
             InitCreate(t) \/ PutMark(t) \/ PutFlip(t) \/ CancelWrite(t) \/ PauseWrite(t) \/ ResumeWrite(t)
      PROVE  ReportComplete'
  BY <1>1, <1>4 DEF InitCreate, PutMark, PutFlip, CancelWrite, PauseWrite, ResumeWrite, SetUploadState
<1>5. ASSUME NEW u \in Uploads, Sweep(u) PROVE ReportComplete'
  BY <1>1, <1>5 DEF Sweep, SetUploadState
<1> QED BY <1>1, <1>2, <1>3, <1>4, <1>5, WritesOnly

\* Every step is a step of the lifecycle, or none.
LEMMA StepsAllowed ==
    ASSUME TypeOK, Current, ReportInv, [Next]_vars
    PROVE  [Session!Next]_<<state, rows, received>>
<1>a. \A t \in Tasks : task[t].upload \in Uploads /\ task[t].file \in Files /\ task[t].chunk \in Chunks
  BY RequestType
<1>b. state \in [Uploads -> States \cup {"absent"}] /\ rows \in [Uploads -> SUBSET Files]
  BY DEF TypeOK
<1>1. ASSUME NEW t \in Tasks, InitCreate(t) PROVE Session!Begin(task[t].upload)
  <2>1. state[task[t].upload] = "absent" /\ ActiveOf(Owner[task[t].upload]) = {}
    BY <1>1 DEF InitCreate, Current, At
  <2>2. \A v \in Uploads : Owner[v] = Owner[task[t].upload] => state[v] \notin Active
    BY <2>1 DEF ActiveOf
  <2> QED BY <1>1, <2>1, <2>2 DEF InitCreate, Active, Session!Begin, Session!Move, Session!Active
<1>2. ASSUME NEW t \in Tasks, NEW f \in Files, InitFile(t, f) PROVE Session!Declare(task[t].upload, f)
  <2>1. state[task[t].upload] \in Active
    BY <1>2 DEF InitFile, Current, At, Running
  <2> QED BY <1>2, <2>1 DEF InitFile, Active, Session!Declare, Session!Active
<1>3. ASSUME NEW t \in Tasks, PutMark(t) PROVE Session!Land(task[t].upload, task[t].file, task[t].chunk)
  <2>1. state[task[t].upload] \in Active /\ task[t].file \in rows[task[t].upload]
    BY <1>3 DEF PutMark, Current, At, Running, PutPCs
  <2> QED BY <1>3, <2>1 DEF PutMark, Piece, Active, Session!Land, Session!Active
<1>4. ASSUME NEW u \in Uploads, NEW s \in Active, state[u] \in Active, state' = [state EXCEPT ![u] = s],
             s # "initialized", UNCHANGED <<rows, received>>
      PROVE  state' = state \/ Session!Start(u) \/ Session!Pause(u) \/ Session!Resume(u)
  BY <1>b, <1>4 DEF Active, Session!Start, Session!Pause, Session!Resume, Session!Move
<1>5. ASSUME NEW t \in Tasks, PutFlip(t) \/ PauseWrite(t) \/ ResumeWrite(t)
      PROVE  [Session!Next]_<<state, rows, received>>
  <2>1. state[task[t].upload] \in Active
    BY <1>5 DEF PutFlip, PauseWrite, ResumeWrite, Current, At, Running, PutPCs
  <2>2. UNCHANGED <<rows, received>> /\ \E s \in {"uploading", "paused"} : state' = [state EXCEPT ![task[t].upload] = s]
    BY <1>5 DEF PutFlip, PauseWrite, ResumeWrite, SetUploadState
  <2> QED BY <1>a, <1>4, <2>1, <2>2 DEF Session!Next, Active
<1>6. ASSUME NEW u \in Uploads, Sweep(u) PROVE Session!Pause(u)
  BY <1>6 DEF Sweep, SetUploadState, Session!Pause, Session!Move
<1>7. ASSUME NEW t \in Tasks, FinReport(t) PROVE Session!Complete(task[t].upload)
  <2>1. state[task[t].upload] \in Active /\ rows[task[t].upload] \X Chunks \subseteq received[task[t].upload]
    BY <1>7 DEF FinReport, Current, At, Running, ReportInv, Finalizing, Whole, FinPCs
  <2> QED BY <1>7, <2>1 DEF FinReport, Active, Session!Complete, Session!Move, Session!Active
<1>8. ASSUME NEW t \in Tasks, CancelWrite(t) PROVE Session!Cancel(task[t].upload)
  <2>1. state[task[t].upload] \in Active
    BY <1>8 DEF CancelWrite, Current, At, Running
  <2> QED BY <1>8, <2>1 DEF CancelWrite, SetUploadState, Active, Session!Cancel, Session!Move, Session!Active
<1>9. CASE UNCHANGED <<state, rows, received, report>>
  BY <1>9
<1> QED BY <1>a, <1>1, <1>2, <1>3, <1>5, <1>6, <1>7, <1>8, <1>9, WritesOnly DEF Session!Next

LEMMA InitAlone == Init => Current /\ Kept /\ Listed /\ ReportComplete
  BY DEF Init, Current, Kept, Listed, ReportComplete, Idle, At, Running, PutPCs, NoReport

\* With requests one at a time the handlers implement the documented lifecycle: whatever
\* crashes, drops, failed statements and sweeps come between the statements of a handler,
\* what it found when it loaded the session still holds when it writes (UploadState).
THEOREM LifecycleKept ==
    ASSUME Alone
    PROVE  Spec => KeepsLifecycle
<1>1. Init => Session!Init
  BY DEF Init, Session!Init
<1>2. TypeOK /\ Current /\ [Next]_vars => Current'
  BY CurrentStep
<1>3. TypeOK /\ Current /\ ReportInv /\ [Next]_vars => [Session!Next]_<<state, rows, received>>
  BY StepsAllowed
<1>4. Init => Current
  BY InitAlone
<1> QED BY <1>1, <1>2, <1>3, <1>4, InitTyped, TypeStep, ReportInvariant, PTL DEF Spec, KeepsLifecycle, Session!Spec

\* With requests one at a time, and an ingest that refuses nothing by itself, the report
\* lists every declared file: what is on disk then always reassembles (finalize).
THEOREM ReportsAll ==
    ASSUME Alone, "refuse" \notin Ops
    PROVE  Spec => []ReportComplete
<1>1. TypeOK /\ Current /\ [Next]_vars => Current'
  BY CurrentStep
<1>2. TypeOK /\ Current /\ Kept /\ [Next]_vars => Kept'
  BY KeptStep
<1>3. TypeOK /\ Current /\ Kept /\ Listed /\ StagedUntilPurged /\ ReportInv /\ [Next]_vars => Listed'
  BY ListedStep
<1>4. TypeOK /\ ReportInv /\ Listed /\ ReportComplete /\ [Next]_vars => ReportComplete'
  BY CompleteStep
<1> QED BY <1>1, <1>2, <1>3, <1>4, InitAlone, InitTyped, TypeStep, ReportInvariant, MarkedStaged, PTL DEF Spec
=============================================================================
