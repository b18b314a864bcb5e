-------------------------- MODULE MCUploadsFaults --------------------------
(* What must happen in the end, when requests come one at a time and       *)
(* crashes, dropped futures and failed statements come for a while.        *)
EXTENDS MCUploads

Fault == Crash \/ \E t \in Tasks : Drop(t) \/ Fail(t)

\* The runtime goes on with every request, the client sends a chunk again
\* until a send of it is answered Ok, and the faults end at some time.
FairSpec ==
    /\ Spec
    /\ \A t \in Tasks : WF_vars(Continue(t))
    /\ \A u \in Uploads, f \in Files, c \in Chunks : SF_vars(Resend(u, f, c))
    /\ <>[][~Fault]_vars

\* Every chunk of every declared file is marked, and the client has not yet
\* been told of one of them: the send of the last one, or a repeated one.
JustLanded(u) == rows[u] = Files /\ received[u] = Pieces /\ acked[u] # Pieces

\* The session is in the mutex set although nobody finalizes it.
Orphaned(u) ==
    u \in finalizing /\ \A t \in Tasks : task[t].upload = u => task[t].pc \notin FinPCs

\* When the last chunk has landed, the session gets its report unless it is
\* cancelled, without the client doing more than repeating sends that were not
\* answered and whatever crashed or failed before or after; only a request
\* dropped while it finalizes may prevent it.
AllLandedReported ==
    \A u \in Uploads :
        JustLanded(u) ~> report[u].written \/ state[u] = "cancelled" \/ Orphaned(u)

\* "When every chunk has landed the session is reassembled" (uploads.rs): the
\* same without the exception.  Refuted: a request dropped while it finalizes
\* leaves the session in the mutex set until the server restarts.
AlwaysReported ==
    \A u \in Uploads : JustLanded(u) ~> report[u].written \/ state[u] = "cancelled"
=============================================================================
