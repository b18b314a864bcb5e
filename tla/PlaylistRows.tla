---------------------------- MODULE PlaylistRows ----------------------------
(***************************************************************************)
(* The rows of one playlist on the server, edited by requests that run at  *)
(* the same time.  A request first reads on its own (the next position,    *)
(* the row it is about), then runs a transaction of several UPDATEs that   *)
(* parks rows at negative positions and brings them back, so that the      *)
(* primary key (playlist_id, position) holds after every row.              *)
(*                                                                         *)
(* PostgreSQL runs the transactions at READ COMMITTED: a statement fixes   *)
(* the rows it will visit when it starts, waits for a row another          *)
(* transaction holds and looks at it again when that one ends; an index    *)
(* entry waits for a transaction that made or removed an equal one, and    *)
(* fails if such a row is there.  In which order a statement visits its    *)
(* rows is the planner's choice.                                           *)
(*                                                                         *)
(* A row stands for its track.  Permissions, names and the audit log are   *)
(* left out.                                                               *)
(***************************************************************************)
EXTENDS Integers, FiniteSets, Sequences, SequencesExt

CONSTANTS
    Callers,     \* requests that can be under way at once
    Rows,        \* ids of rows, 1..n
    Listed,      \* the playlist starts with the rows 1..Listed
    Places,      \* positions the callers ask for
    MaxRequests, \* bound on the requests of a behaviour
    MaxFaults    \* bound on lost connections and on deletions of tracks

ASSUME RowsAssumption ==
    /\ IsFiniteSet(Rows) /\ Rows = 1..Cardinality(Rows) /\ Listed \in 0..Cardinality(Rows)
    /\ Places \subseteq Int
    /\ MaxRequests \in Nat /\ MaxFaults \in Nat

VARIABLES
    alive,    \* the playlist's own row is there
    pos,      \* the committed position of every row, Gone if there is none
    pc,       \* what each request does next
    req,      \* its request
    seen,     \* the row its own read found at the position
    mine,     \* the rows its transaction has written, with their positions
    made,     \* the index entries its transaction has made
    todo,     \* rows its statement has still to visit
    stuck,    \* the row it has updated but not yet indexed, or NoRow
    result,   \* how its last request ended
    asked, faults,
    raced,    \* somebody else's change was committed while it was under way
    clean,    \* every change so far was committed by a request that was not raced
    want      \* while clean: the playlist the requests asked for

locals == <<req, seen, mine, made, todo, stuck>>
history == <<raced, clean, want>>
vars == <<alive, pos, pc, req, seen, mine, made, todo, stuck, result, asked, faults, raced, clean, want>>

Gone == 0
NoRow == 0
Far == 1000000
Ops == {"insert", "remove", "move"}
Script ==
    [insert |-> <<"shift", "put", "flip">>,
     remove |-> <<"take", "close", "flip">>,
     move   |-> <<"park", "slide", "unslide", "place">>]
Statements == {"shift", "put", "flip", "take", "close", "park", "slide", "unslide", "place"}
Idle == [op |-> "insert", row |-> NoRow, at |-> 0, to |-> 0]

Live == {r \in Rows : pos[r] # Gone}
Holds(c, r) == r \in DOMAIN mine[c]
Holders(c, r) == {d \in Callers \ {c} : Holds(d, r)}
\* The position a statement of c's transaction finds in r.
Sees(c, r) == IF Holds(c, r) THEN mine[c][r] ELSE pos[r]
At(p) == {r \in Live : pos[r] = p}
Busy == {c \in Callers : pc[c] # "idle"}

\* next_position, from the committed rows.
NextPosition == IF Live = {} THEN 1 ELSE 1 + CHOOSE p \in {pos[r] : r \in Live} : \A r \in Live : pos[r] <= p

Fresh == {r \in Rows : /\ pos[r] = Gone
                       /\ \A c \in Callers : r # req[c].row /\ r \notin todo[c] \cup DOMAIN mine[c] /\ r # seen[c]}

TypeOK ==
    /\ alive \in BOOLEAN /\ clean \in BOOLEAN
    /\ pos \in [Rows -> Nat]
    /\ pc \in [Callers -> {"idle", "look", "begin"} \cup Statements]
    /\ \A c \in Callers :
         /\ req[c].op \in Ops /\ req[c].row \in Rows \cup {NoRow}
         /\ seen[c] \in Rows \cup {NoRow}
         /\ DOMAIN mine[c] \subseteq Rows /\ todo[c] \subseteq Rows
         /\ stuck[c] \in Rows \cup {NoRow}
    /\ result \in [Callers -> {"none", "ok", "absent", "duplicate", "deadlock", "gone", "lost"}]
    /\ raced \in [Callers -> BOOLEAN]
    /\ want \in Seq(Rows)

Init ==
    /\ alive = TRUE
    /\ pos = [r \in Rows |-> IF r <= Listed THEN r ELSE Gone]
    /\ pc = [c \in Callers |-> "idle"] /\ req = [c \in Callers |-> Idle]
    /\ seen = [c \in Callers |-> NoRow]
    /\ mine = [c \in Callers |-> <<>>] /\ made = [c \in Callers |-> {}]
    /\ todo = [c \in Callers |-> {}] /\ stuck = [c \in Callers |-> NoRow]
    /\ result = [c \in Callers |-> "none"]
    /\ asked = 0 /\ faults = 0
    /\ raced = [c \in Callers |-> FALSE] /\ clean = TRUE
    /\ want = [i \in 1..Listed |-> i]

-----------------------------------------------------------------------------
(* The statements: which rows they visit and where they put them.          *)

Between(x, from, to) == IF from < to THEN from < x /\ x <= to ELSE to <= x /\ x < from

Where(s, q, x) ==
    CASE s = "shift"            -> x >= q.at
      [] s = "put"              -> TRUE
      [] s = "flip"             -> x < 0
      [] s \in {"take", "park"} -> x = q.at
      [] s = "close"            -> x > q.at
      [] s = "slide"            -> Between(x, q.at, q.to)
      [] s = "unslide"          -> x < -1
      [] s = "place"            -> x = -1

Parked(s, q, x) ==
    CASE s = "shift" -> -(x + 1)
      [] s = "close" -> -(x - 1)
      [] s = "park"  -> -1
      [] s = "slide" -> IF q.at < q.to THEN -(x - 1 + Far) ELSE -(x + 1 + Far)

\* Mutant: rows are shifted straight to their new positions.
Straight(s, q, x) ==
    CASE s = "shift"   -> x + 1
      [] s = "close"   -> x - 1
      [] s = "put"     -> q.at
      [] s = "flip"    -> -x
      [] s = "take"    -> Gone
      [] s \in {"park", "slide"} -> Parked(s, q, x)
      [] s = "unslide" -> -x - Far
      [] s = "place"   -> q.to

SetTo(s, q, x) ==
    CASE s \in {"shift", "close", "park", "slide"} -> Parked(s, q, x)
      [] s = "put"     -> q.at
      [] s = "flip"    -> -x
      [] s = "take"    -> Gone
      [] s = "unslide" -> -x - Far
      [] s = "place"   -> q.to

\* The rows a statement that starts now will visit.
Snapshot(c, s) ==
    IF s = "put" THEN {req[c].row}
    ELSE {r \in Rows : Sees(c, r) # Gone /\ Where(s, req[c], Sees(c, r))}

\* Other transactions that made an entry for p, or hold the row that has one.
Rivals(c, p) ==
    {d \in Callers \ {c} : p # Gone /\ (p \in made[d] \/ \E r \in DOMAIN mine[d] : pos[r] = p)}

\* Mutant: the key on the positions does not exist.
NoKey(c, r, p) == FALSE

\* A row other than r is known to be at p.
Taken(c, r, p) ==
    \E o \in Rows \ {r} : p # Gone /\ Holders(c, o) = {} /\ Sees(c, o) = p

-----------------------------------------------------------------------------
(* Requests: what they read before their transaction begins.               *)

Asks(c, q, row, at) ==
    /\ pc[c] = "idle" /\ alive /\ asked < MaxRequests
    /\ asked' = asked + 1
    /\ req' = [req EXCEPT ![c] = q]
    /\ seen' = [seen EXCEPT ![c] = row]
    /\ pc' = [pc EXCEPT ![c] = at]
    /\ result' = [result EXCEPT ![c] = "none"]
    /\ raced' = [raced EXCEPT ![c] = FALSE]
    /\ UNCHANGED <<alive, pos, mine, made, todo, stuck, faults, clean, want>>

\* Mutant: a position behind the end is taken as it is.
Unclamped(p) == IF p <= 0 THEN NextPosition ELSE p

\* No position, or one behind the end: the next one.
Clamp(p) == IF p <= 0 \/ p > NextPosition THEN NextPosition ELSE p

\* add_track and insert_track.
AddTrack(c) ==
    \E p \in Places : \E r \in Fresh :
        /\ \A o \in Fresh : r <= o
        /\ Asks(c, [op |-> "insert", row |-> r, at |-> Clamp(p), to |-> 0], NoRow, "begin")

\* remove_track_at reads the row first; at an empty position there is nothing to do.
RemoveTrack(c) ==
    \E p \in Places : \E r \in At(p) :
        Asks(c, [op |-> "remove", row |-> NoRow, at |-> p, to |-> 0], r, "begin")

\* reorder: the destination is brought inside the list.
Reorder(c) ==
    \E p, t \in Places :
        LET last == IF NextPosition > 2 THEN NextPosition - 1 ELSE 1
        IN /\ p >= 1 /\ t >= 1
           /\ Asks(c, [op |-> "move", row |-> NoRow, at |-> p, to |-> IF t < last THEN t ELSE last], NoRow, "look")

Ends(c, how) ==
    /\ pc' = [pc EXCEPT ![c] = "idle"]
    /\ result' = [result EXCEPT ![c] = how]
    /\ req' = [req EXCEPT ![c] = Idle]
    /\ seen' = [seen EXCEPT ![c] = NoRow]
    /\ mine' = [mine EXCEPT ![c] = <<>>] /\ made' = [made EXCEPT ![c] = {}]
    /\ todo' = [todo EXCEPT ![c] = {}] /\ stuck' = [stuck EXCEPT ![c] = NoRow]
    /\ UNCHANGED <<alive, asked>>

\* reorder reads the row after it has read the end of the list.
Look(c) ==
    /\ pc[c] = "look"
    /\ \/ \E r \in At(req[c].at) :
            /\ seen' = [seen EXCEPT ![c] = r]
            /\ pc' = [pc EXCEPT ![c] = "begin"]
            /\ UNCHANGED <<alive, pos, req, mine, made, todo, stuck, result, asked, faults, history>>
       \/ At(req[c].at) = {} /\ Ends(c, "absent") /\ UNCHANGED <<pos, faults, history>>

\* move_track to the row's own position only looks whether there is a row.
Stay(c) ==
    /\ pc[c] = "begin" /\ req[c].op = "move" /\ req[c].at = req[c].to
    /\ Ends(c, IF At(req[c].at) = {} THEN "absent" ELSE "ok")
    /\ UNCHANGED <<pos, faults, history>>

-----------------------------------------------------------------------------
(* Transactions.                                                           *)

Starts(c, s) ==
    /\ pc' = [pc EXCEPT ![c] = s]
    /\ todo' = [todo EXCEPT ![c] = Snapshot(c, s)]
    /\ UNCHANGED <<alive, pos, req, seen, mine, made, stuck, result, asked, faults, history>>

Begin(c) ==
    /\ pc[c] = "begin"
    /\ ~(req[c].op = "move" /\ req[c].at = req[c].to)
    /\ Starts(c, Script[req[c].op][1])

\* Mutant: a transaction that fails is left open, with its locks.
LeaveOpen(c, how) ==
    /\ pc' = [pc EXCEPT ![c] = "idle"]
    /\ result' = [result EXCEPT ![c] = how]
    /\ todo' = [todo EXCEPT ![c] = {}] /\ stuck' = [stuck EXCEPT ![c] = NoRow]
    /\ UNCHANGED <<alive, pos, req, seen, mine, made, asked, history>>

\* The transaction is rolled back: nothing it wrote is left.
Rollback(c, how) == Ends(c, how) /\ UNCHANGED <<pos, history>>

InStatement(c) == pc[c] \in Statements
Done(c) == InStatement(c) /\ todo[c] = {} /\ stuck[c] = NoRow
InLast(c) == pc[c] = Script[req[c].op][Len(Script[req[c].op])]

\* The statement that looks the row up found none.
Missed(c) ==
    /\ Done(c) /\ pc[c] \in {"take", "park"} /\ mine[c] = <<>>
    /\ Rollback(c, "absent") /\ UNCHANGED faults

Advance(c) ==
    /\ Done(c) /\ ~InLast(c)
    /\ ~(pc[c] \in {"take", "park"} /\ mine[c] = <<>>)
    /\ LET script == Script[req[c].op]
           i == CHOOSE j \in DOMAIN script : script[j] = pc[c]
       IN Starts(c, script[i + 1])

\* The row is updated, and indexed unless another transaction has to end first.
Update(c, r) ==
    LET p == SetTo(pc[c], req[c], Sees(c, r)) IN
    /\ ~Taken(c, r, p)
    /\ todo' = [todo EXCEPT ![c] = @ \ {r}]
    /\ mine' = [mine EXCEPT ![c] = [o \in DOMAIN @ \cup {r} |-> IF o = r THEN p ELSE @[o]]]
    /\ IF Rivals(c, p) = {}
       THEN made' = [made EXCEPT ![c] = @ \cup ({p} \ {Gone})] /\ UNCHANGED stuck
       ELSE stuck' = [stuck EXCEPT ![c] = r] /\ UNCHANGED made
    /\ UNCHANGED <<alive, pos, pc, req, seen, result, asked, faults, history>>

\* The statement reaches a row nobody else holds, and looks at it again.  The order
\* matters for rows it does not hold yet; those it holds are taken by their ids.
Visit(c) ==
    \E r \in todo[c] :
        LET x == Sees(c, r) IN
        /\ stuck[c] = NoRow /\ Holders(c, r) = {}
        /\ \A o \in todo[c] : Holds(c, o) => r <= o
        /\ \/ /\ pc[c] = "put" \/ (x # Gone /\ Where(pc[c], req[c], x))
              /\ alive \/ pc[c] # "put"
              /\ \/ Update(c, r)
                 \/ /\ Taken(c, r, SetTo(pc[c], req[c], x))
                    /\ Rollback(c, "duplicate") /\ UNCHANGED faults
           \/ /\ pc[c] # "put" /\ (x = Gone \/ ~Where(pc[c], req[c], x))
              /\ todo' = [todo EXCEPT ![c] = @ \ {r}]
              /\ UNCHANGED <<alive, pos, pc, req, seen, mine, made, stuck, result, asked, faults, history>>
           \/ pc[c] = "put" /\ ~alive /\ Rollback(c, "gone") /\ UNCHANGED faults

\* The transaction it waited for has ended.
Index(c) ==
    /\ stuck[c] # NoRow
    /\ LET p == mine[c][stuck[c]] IN
       /\ Rivals(c, p) = {}
       /\ \/ /\ ~Taken(c, stuck[c], p)
             /\ made' = [made EXCEPT ![c] = @ \cup {p}]
             /\ stuck' = [stuck EXCEPT ![c] = NoRow]
             /\ UNCHANGED <<alive, pos, pc, req, seen, mine, todo, result, asked, faults, history>>
          \/ Taken(c, stuck[c], p) /\ Rollback(c, "duplicate") /\ UNCHANGED faults

Others(c) == {d \in Callers \ {c} : pc[d] # "idle"}
Race(S) == raced' = [d \in Callers |-> raced[d] \/ d \in S]

Without(s, r) == RemoveAt(s, CHOOSE i \in DOMAIN s : s[i] = r)

\* What a request asks of the playlist, as a sequence.
Asked(c, s) ==
    LET q == req[c]
        end == Len(s) + 1
    IN CASE q.op = "insert" -> InsertAt(s, IF q.at < end THEN q.at ELSE end, q.row)
         [] q.op = "remove" -> Without(s, seen[c])
         [] q.op = "move"   -> InsertAt(Without(s, seen[c]), IF q.to < end THEN q.to ELSE end, seen[c])

Commit(c) ==
    /\ Done(c) /\ InLast(c)
    /\ pos' = [r \in Rows |-> Sees(c, r)]
    /\ clean' = (clean /\ ~raced[c])
    /\ want' = IF clean' THEN Asked(c, want) ELSE <<>>
    /\ Race(Others(c))
    /\ Ends(c, "ok") /\ UNCHANGED faults

\* Whom c waits for, or may be waiting for in some order of its visits.
WaitsFor(c) ==
    UNION {Holders(c, r) : r \in todo[c]}
    \cup (IF stuck[c] = NoRow THEN {} ELSE Rivals(c, mine[c][stuck[c]]))

Deadlocked(c) == \E S \in SUBSET Callers : c \in S /\ \A d \in S : WaitsFor(d) \cap S # {}

\* PostgreSQL gives up one of the transactions that wait for each other.
Detect(c) == Deadlocked(c) /\ Rollback(c, "deadlock") /\ UNCHANGED faults

\* The connection is lost before the commit.
Lose(c) ==
    /\ faults < MaxFaults /\ InStatement(c)
    /\ faults' = faults + 1
    /\ Rollback(c, "lost")

-----------------------------------------------------------------------------
(* Changes that are one statement.                                         *)

Unheld == \A c \in Callers : mine[c] = <<>>

\* The playlist is deleted, and its rows with it.
Delete ==
    /\ alive /\ asked < MaxRequests /\ Unheld
    /\ asked' = asked + 1
    /\ alive' = FALSE
    /\ pos' = [r \in Rows |-> Gone]
    /\ want' = <<>>
    /\ Race(Busy)
    /\ UNCHANGED <<pc, locals, result, faults, clean>>

\* A track is deleted from the library, and its row with it.
DropTrack(r) ==
    /\ faults < MaxFaults /\ r \in Live /\ \A c \in Callers : ~Holds(c, r)
    /\ faults' = faults + 1
    /\ pos' = [pos EXCEPT ![r] = Gone]
    /\ clean' = FALSE /\ want' = <<>>
    /\ Race(Busy)
    /\ UNCHANGED <<alive, pc, locals, result, asked>>

Step(c) == \/ Look(c) \/ Stay(c) \/ Begin(c) \/ Missed(c) \/ Advance(c)
           \/ Visit(c) \/ Index(c) \/ Commit(c) \/ Detect(c)

Next ==
    \/ \E c \in Callers : AddTrack(c) \/ RemoveTrack(c) \/ Reorder(c) \/ Step(c) \/ Lose(c)
    \/ Delete
    \/ \E r \in Rows : DropTrack(r)

Spec == Init /\ [][Next]_vars /\ \A c \in Callers : WF_vars(Step(c))

-----------------------------------------------------------------------------
(* Properties.                                                             *)

\* While no change was committed during another request, the rows are exactly
\* what the requests asked for, at 1, 2, 3 and so on: parking and bringing back,
\* the clamps and the order of the visits do not show (services/playlist.rs:14),
\* and a lost connection, a deadlock or a refused request leaves no trace.
AsAsked ==
    clean => /\ Cardinality(Live) = Len(want)
             /\ \A i \in DOMAIN want : pos[want[i]] = i

\* A request is refused for the key of another row only if somebody else's
\* change was committed while it was under way, holes in the list or not: the
\* detour over negative positions makes that so (pg.rs:1056).
FailsOnlyWhenRaced ==
    \A c \in Callers : result[c] = "duplicate" => raced[c]

\* The row that a request moves, when it is about to commit.
MovedBy(c) == {r \in DOMAIN mine[c] : req[c].op = "move" /\ mine[c][r] = req[c].to}

\* Whatever runs at the same time, no commit changes the order of two rows of
\* the playlist unless it moves one of them: stale snapshots lead to a hole or a
\* refusal, never to a shuffled list.
OrderKept ==
    [][\A a, b \in Rows :
         /\ pos[a] # Gone /\ pos'[a] # Gone /\ pos[b] # Gone /\ pos'[b] # Gone
         /\ \A c \in Callers : pc'[c] = "idle" => {a, b} \cap MovedBy(c) = {}
         => (pos[a] < pos[b] <=> pos'[a] < pos'[b])]_vars

\* Every request ends, although transactions wait for each other's rows and
\* entries in both directions.
Answered == \A c \in Callers : pc[c] # "idle" ~> pc[c] = "idle"
=============================================================================
