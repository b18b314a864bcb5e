----------------------------- MODULE Listening -----------------------------
(***************************************************************************)
(* A listener on one device: every track that is started has the next one  *)
(* prefetched and is answered from the look-ahead cache or from the        *)
(* server; once it has been heard long enough the play is recorded and     *)
(* flushed.  The cache forgets everything when the app stops, the outbox   *)
(* of plays nothing.                                                       *)
(*                                                                         *)
(* Downloaded tracks need no prefetching; their files are those of         *)
(* Downloads.  Episodes are left out: they are neither prefetched nor      *)
(* counted.                                                                *)
(***************************************************************************)
EXTENDS Prefetch, PlayHistory

CONSTANTS Devices,   \* how a device may be: its session, the tracks it has
                      \* downloaded, and how many faults it is spared
          MaxBroken, \* bound on the downloads that break off
          MaxFaults  \* bound on pushes that fail, app stops, sign-ins and deleted tracks

ASSUME ListeningAssumption ==
    /\ Devices \subseteq [session : {"user", "key"}, downloaded : SUBSET Tracks, spared : Nat]
    /\ MaxBroken \in Nat /\ MaxFaults \in Nat /\ Plays \subseteq Tasks

VARIABLES
    downloaded, \* tracks with a permanent file
    listen, \* listens started so far; a listen is the play it may be counted as
    deck,   \* what the loopback does for the current listen
    heard,  \* listens recorded as plays, _playRecordedId for the current one
    faults

playerVars == <<downloaded, listen, deck, heard>>
vars == <<cacheVars, historyVars, playerVars, faults>>

Silent == [track |-> NoTrack, pc |-> "silent"]

TypeOK ==
    /\ CacheTypeOK /\ HistoryTypeOK
    /\ downloaded \subseteq Tracks
    /\ listen \in Nat
    /\ deck.pc \in {"silent", "asked", "opening", "playing", "missing"}
    /\ heard \subseteq Plays

Init ==
    /\ \E d \in Devices : session = d.session /\ downloaded = d.downloaded /\ faults = d.spared
    /\ CacheInit /\ HistoryInit
    /\ listen = 0 /\ deck = Silent /\ heard = {}

\* loadAndPlay: the deck asks for the track, and what comes next is prefetched.
Start(t, next) ==
    /\ listen + 1 \in Tasks
    /\ listen' = listen + 1
    /\ deck' = [Silent EXCEPT !.track = t, !.pc = "asked"]
    /\ Spawn(listen + 1, next, next \in downloaded)
    /\ UNCHANGED <<historyVars, downloaded, heard, faults>>

\* serve: the downloaded file, the cache if it has the whole track, or the server's
\* stream.
Serve ==
    /\ deck.pc = "asked"
    /\ deck' = IF deck.track \notin downloaded /\ Ready(deck.track)
               THEN [deck EXCEPT !.pc = "opening"] ELSE [Silent EXCEPT !.pc = "playing"]
    /\ UNCHANGED <<cacheVars, historyVars, downloaded, listen, heard, faults>>

\* serve_local_typed opens the path `ready' gave it, after the lock is gone.
Open ==
    /\ deck.pc = "opening"
    /\ deck' = [Silent EXCEPT !.pc = IF path[deck.track] = NoInode THEN "missing" ELSE "playing"]
    /\ UNCHANGED <<cacheVars, historyVars, downloaded, listen, heard, faults>>

\* maybeRecordPlay: once per listen, and only for a signed-in user.
Count ==
    /\ deck.pc = "playing" /\ listen \in Plays \ heard /\ session = "user"
    /\ heard' = heard \cup {listen}
    /\ Record(listen)
    /\ UNCHANGED <<cacheVars, downloaded, listen, deck, faults>>

\* The app is closed or killed, and started again.
Stop ==
    /\ faults < MaxFaults /\ faults' = faults + 1
    /\ Relaunch /\ FlushesStop
    /\ deck' = Silent /\ UNCHANGED <<downloaded, listen, heard>>

Faulty == faults < MaxFaults /\ faults' = faults + 1

CacheStep(k) ==
    /\ Work(k) \/ (broken < MaxBroken /\ Breaks(k))
    /\ UNCHANGED <<historyVars, playerVars, faults>>

PushStep(f) == (FlushStart(f) \/ Push(f)) /\ UNCHANGED <<cacheVars, playerVars, faults>>

HistoryFault ==
    /\ Faulty
    /\ \/ \E f \in Flushes : Fails(f)
       \/ SignOut
       \/ \E kind \in {"user", "key"} : SignIn(kind)
       \/ \E p \in Plays : LoseTrack(p)
    /\ UNCHANGED <<cacheVars, playerVars>>

Next ==
    \/ \E t, next \in Tracks : Start(t, next)
    \/ Serve \/ Open \/ Count
    \/ \E k \in Tasks : CacheStep(k)
    \/ \E f \in Flushes : PushStep(f)
    \/ HistoryFault
    \/ Stop

\* useSync flushes every thirty seconds and with every sync; a push ends, with an
\* answer or without.
Spec == Init /\ [][Next]_vars /\ \A f \in Flushes : WF_vars(PushStep(f))

-----------------------------------------------------------------------------
(* Properties.                                                             *)

\* No play gets lost: once recorded it is in the outbox until the server has
\* counted it, has refused its batch, or no longer knows its track.  A flush
\* deletes what it pushed and nothing that was recorded meanwhile.
PlaysAccountedFor ==
    \A p \in heard : p \in outbox \cup refused \cup vanished \/ recorded[p] > 0

\* A play counts once, unless an answer was lost, the app stopped during a push
\* or two flushes pushed it at the same time.
CountedOnce == \A p \in Plays : recorded[p] > 1 => p \in doubtful

\* While a user stays signed in, every play leaves the outbox.
Drained == \A p \in Plays : p \in outbox ~> p \notin outbox \/ session # "user"
=============================================================================
