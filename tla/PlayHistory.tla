----------------------------- MODULE PlayHistory -----------------------------
(***************************************************************************)
(* The plays a device records, its outbox of plays and the flushes that    *)
(* push them to the server: over gRPC, over REST if that fails, and out of *)
(* the outbox once the server has answered.  Nothing keeps flushes apart:  *)
(* one runs after every play and one with every sync.  Events carry no id, *)
(* so the server cannot tell a batch it has seen.                          *)
(***************************************************************************)
EXTENDS Integers, FiniteSets

CONSTANTS
    Plays,      \* ids of plays, 1..n in the order they are recorded
    Flushes,    \* flushes that can be under way at once
    FlushBatch  \* FLUSH_BATCH

ASSUME HistoryAssumption == FlushBatch \in Nat \ {0} /\ Plays \subseteq Nat

VARIABLES
    outbox,    \* pending_plays; the lowest id is the oldest
    flush,     \* the flushes under way
    session,   \* the credential the app holds: "user", "key" (the SECRET_KEY) or "none"
    recorded,  \* how many play_events the server has of each play
    vanished,  \* plays whose track the library has lost
    refused,   \* plays dropped because the server refused their batch
    doubtful   \* plays posted without an answer, or by two flushes

historyVars == <<outbox, flush, session, recorded, vanished, refused, doubtful>>

Still == [pc |-> "idle", batch |-> {}, as |-> "none"]
Pushing == {"grpc", "rest"}

HistoryTypeOK ==
    /\ outbox \subseteq Plays
    /\ flush \in [Flushes -> [pc : Pushing \cup {"idle", "delete"}, batch : SUBSET Plays,
                              as : {"user", "key", "revoked", "none"}]]
    /\ session \in {"user", "key", "none"}
    /\ recorded \in [Plays -> Nat]
    /\ vanished \subseteq Plays /\ refused \subseteq Plays /\ doubtful \subseteq Plays

HistoryInit ==
    /\ outbox = {} /\ flush = [f \in Flushes |-> Still]
    /\ recorded = [p \in Plays |-> 0]
    /\ vanished = {} /\ refused = {} /\ doubtful = {}

\* play_history_record
Record(p) ==
    /\ outbox' = outbox \cup {p}
    /\ UNCHANGED <<flush, session, recorded, vanished, refused, doubtful>>

\* list_pending_plays: the oldest rows, up to the limit of a batch.
Oldest == {p \in outbox : Cardinality({q \in outbox : q < p}) < FlushBatch}

\* play_history_flush, up to the push: without a credential nothing is sent.
FlushStart(f) ==
    /\ flush[f].pc = "idle" /\ outbox # {} /\ session # "none"
    /\ flush' = [flush EXCEPT ![f] = [pc |-> "grpc", batch |-> Oldest, as |-> session]]
    /\ doubtful' = doubtful \cup (Oldest \cap UNION {flush[g].batch : g \in Flushes})
    /\ UNCHANGED <<outbox, session, recorded, vanished, refused>>

\* PlayHistoryService::record: one INSERT of the plays whose track is there.
Inserts(b) == recorded' = [p \in Plays |-> IF p \in b \ vanished THEN recorded[p] + 1 ELSE recorded[p]]

\* The server takes the batch and its answer arrives.
Accepted(f) ==
    /\ flush[f].pc \in Pushing /\ flush[f].as = "user"
    /\ Inserts(flush[f].batch)
    /\ flush' = [flush EXCEPT ![f].pc = "delete"]
    /\ UNCHANGED <<outbox, session, vanished, refused, doubtful>>

\* The server refuses the batch: it is signed with a token that was given back,
\* or with the SECRET_KEY, which no user owns.  The batch is dropped then, but the
\* second refusal is an HTTP 400 over REST, taken for a transport error.
Refused(f) ==
    /\ flush[f].pc \in Pushing /\ flush[f].as \in {"revoked", "key"}
    /\ IF flush[f].pc = "rest" /\ flush[f].as = "key"
       THEN flush' = [flush EXCEPT ![f] = Still] /\ UNCHANGED refused
       ELSE /\ flush' = [flush EXCEPT ![f].pc = "delete"]
            /\ refused' = refused \cup flush[f].batch
    /\ UNCHANGED <<outbox, session, recorded, vanished, doubtful>>

\* What the server does with a request whose answer is lost, if it gets it at all.
Unheard(f) ==
    \/ /\ flush[f].as = "user" /\ Inserts(flush[f].batch)
       /\ doubtful' = doubtful \cup flush[f].batch
    \/ UNCHANGED <<recorded, doubtful>>

\* Mutant: a push that fails on the way is taken for a refusal.
FailsForGood(f) ==
    /\ flush[f].pc \in Pushing /\ Unheard(f)
    /\ flush' = [flush EXCEPT ![f].pc = IF @ = "grpc" THEN "rest" ELSE "delete"]
    /\ UNCHANGED <<outbox, session, vanished, refused>>

\* The push fails on the way, or its answer does: REST is next, and then the
\* batch stays in the outbox.
Fails(f) ==
    /\ flush[f].pc \in Pushing /\ Unheard(f)
    /\ flush' = [flush EXCEPT ![f] = IF @.pc = "grpc" THEN [@ EXCEPT !.pc = "rest"] ELSE Still]
    /\ UNCHANGED <<outbox, session, vanished, refused>>

\* Mutant: only the plays the server has counted leave the outbox.
DeleteCounted(f) ==
    /\ flush[f].pc = "delete"
    /\ outbox' = outbox \ (flush[f].batch \ vanished)
    /\ flush' = [flush EXCEPT ![f] = Still]
    /\ UNCHANGED <<session, recorded, vanished, refused, doubtful>>

\* Mutant: one row is deleted and the rest left for the next flush.
DeleteFirst(f) ==
    /\ flush[f].pc = "delete"
    /\ outbox' = {p \in outbox : \E q \in outbox : q < p}
    /\ flush' = [flush EXCEPT ![f] = Still]
    /\ UNCHANGED <<session, recorded, vanished, refused, doubtful>>

\* delete_pending_plays
Delete(f) ==
    /\ flush[f].pc = "delete"
    /\ outbox' = outbox \ flush[f].batch
    /\ flush' = [flush EXCEPT ![f] = Still]
    /\ UNCHANGED <<session, recorded, vanished, refused, doubtful>>

\* The flushes of an app that stops are over; what they posted may have arrived.
FlushesStop ==
    /\ flush' = [f \in Flushes |-> Still]
    /\ doubtful' = doubtful \cup UNION {flush[f].batch : f \in Flushes}
    /\ UNCHANGED <<outbox, session, recorded, vanished, refused>>

\* logout gives the user's token back, if the server can be reached; pushes under
\* way still carry it.
SignOut ==
    /\ session # "none" /\ session' = "none"
    /\ \E token \in {"user", "revoked"} :
         flush' = [f \in Flushes |-> IF flush[f].as = "user" THEN [flush[f] EXCEPT !.as = token] ELSE flush[f]]
    /\ UNCHANGED <<outbox, recorded, vanished, refused, doubtful>>

SignIn(kind) ==
    /\ session = "none" /\ session' = kind
    /\ UNCHANGED <<outbox, flush, recorded, vanished, refused, doubtful>>

\* The track of a play is deleted from the library.
LoseTrack(p) ==
    /\ p \in outbox \ vanished /\ vanished' = vanished \cup {p}
    /\ UNCHANGED <<outbox, flush, session, recorded, refused, doubtful>>

Push(f) == Accepted(f) \/ Refused(f) \/ Delete(f)

=============================================================================
