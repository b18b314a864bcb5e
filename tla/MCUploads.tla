----------------------------- MODULE MCUploads -----------------------------
(* Instances of Uploads for TLC: every session belongs to one account.     *)
EXTENDS Uploads, TLC

CONSTANTS alice

MCOwner == [u \in Uploads |-> alice]

\* The tasks are interchangeable.
TaskSymmetry == Permutations(Tasks)

\* What clients and the runtime do in the different runs.
OverlapOps == {"init", "put", "refuse", "cancel", "crash", "drop", "fail"}
RestartOps == {"init", "put", "cancel", "pause", "resume", "sweep", "crash", "drop", "fail"}

-----------------------------------------------------------------------------
(* What the documentation of the code says and overlapping requests break. *)
(* Each is refuted by a run of its own.                                    *)

ChunkOps == {"init", "put"}
DropOps == {"init", "put", "drop"}

\* The guard "prevents a double ingest if two last chunks race" (finalizing):
\* no file of a session that has its report is taken up again.
IngestedOnce ==
    [][\A u \in Uploads, t \in Tasks :
          report[u].written /\ task[t].upload = u =>
              \A f \in Files : ~FinFileOk(t, f) /\ ~FinFileFails(t, f)]_vars

\* "The server accepts concurrent chunks safely (per-chunk verify, atomic
\* received-count, ...)": with no send in flight the count is the marked rows.
CountExact ==
    (\A t \in Tasks : At(t, "idle")) =>
        \A u \in Uploads, f \in Files :
            counted[u][f] = {c \in Chunks : <<f, c>> \in received[u]}

=============================================================================
