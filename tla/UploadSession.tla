--------------------------- MODULE UploadSession ---------------------------
(***************************************************************************)
(* What an upload session promises, as UploadState documents it            *)
(* (db/models.rs): one active session per account, initialized ->          *)
(* uploading -> completed, uploading <-> paused, cancelled from any active *)
(* state, and nothing after completed or cancelled.  Chunks land while the *)
(* session is active, and completion needs every one of them.              *)
(***************************************************************************)
EXTENDS FiniteSets

CONSTANTS Uploads, Users, Owner, Files, Chunks

VARIABLES
    status,    \* the session's state
    declared,  \* the files declared so far
    landed     \* the chunks the session has

Active == {"initialized", "uploading", "paused"}

Init ==
    /\ status = [u \in Uploads |-> "absent"]
    /\ declared = [u \in Uploads |-> {}]
    /\ landed = [u \in Uploads |-> {}]

Move(u, from, to) ==
    /\ status[u] \in from
    /\ status' = [status EXCEPT ![u] = to]
    /\ UNCHANGED <<declared, landed>>

Begin(u) ==
    /\ \A v \in Uploads : Owner[v] = Owner[u] => status[v] \notin Active
    /\ Move(u, {"absent"}, "initialized")

Declare(u, f) ==
    /\ status[u] \in Active /\ f \notin declared[u]
    /\ declared' = [declared EXCEPT ![u] = @ \cup {f}]
    /\ UNCHANGED <<status, landed>>

Land(u, f, c) ==
    /\ status[u] \in Active /\ f \in declared[u]
    /\ landed' = [landed EXCEPT ![u] = @ \cup {<<f, c>>}]
    /\ UNCHANGED <<status, declared>>

Start(u) == Move(u, {"initialized"}, "uploading")
Pause(u) == Move(u, {"initialized", "uploading"}, "paused")
Resume(u) == Move(u, {"paused"}, "uploading")
Cancel(u) == Move(u, Active, "cancelled")

Complete(u) ==
    /\ declared[u] \X Chunks \subseteq landed[u]
    /\ Move(u, Active, "completed")

Next ==
    \E u \in Uploads :
        \/ Begin(u) \/ Start(u) \/ Pause(u) \/ Resume(u) \/ Cancel(u) \/ Complete(u)
        \/ \E f \in Files : Declare(u, f) \/ \E c \in Chunks : Land(u, f, c)

Spec == Init /\ [][Next]_<<status, declared, landed>>
=============================================================================
