------------------------- MODULE PlaylistRowsProofs -------------------------
(***************************************************************************)
(* Theorems about PlaylistRows: however the transactions of the requests   *)
(* run into each other, the list is never shuffled; a request that was not *)
(* raced is never refused for the key of another row; and as long as every *)
(* change was committed by such a request, the rows are the playlist that  *)
(* the requests asked for.                                                 *)
(***************************************************************************)
EXTENDS PlaylistRows, FiniteSetTheorems, SequenceTheorems, NaturalsInduction, WellFoundedInduction, TLAPS

Requests == [op : Ops, row : Rows \cup {NoRow}, at : Int, to : Int]
Written == UNION {[S -> Int] : S \in SUBSET Rows}

Typed ==
    /\ alive \in BOOLEAN /\ clean \in BOOLEAN
    /\ pos \in [Rows -> Nat]
    /\ pc \in [Callers -> {"idle", "look", "begin"} \cup Statements]
    /\ req \in [Callers -> Requests]
    /\ seen \in [Callers -> Rows \cup {NoRow}]
    /\ mine \in [Callers -> Written]
    /\ made \in [Callers -> SUBSET Int]
    /\ todo \in [Callers -> SUBSET Rows]
    /\ stuck \in [Callers -> Rows \cup {NoRow}]
    /\ result \in [Callers -> {"none", "ok", "absent", "duplicate", "deadlock", "gone", "lost"}]
    /\ raced \in [Callers -> BOOLEAN]

-----------------------------------------------------------------------------
(* Where a transaction has put a row that was committed at x.              *)

\* A statement belongs to the request, whose positions are in range.
Fits(s, q) ==
    /\ \/ q.op = "insert" /\ s \in {"shift", "put", "flip"}
       \/ q.op = "remove" /\ s \in {"take", "close", "flip"}
       \/ q.op = "move" /\ s \in {"park", "slide", "unslide", "place"} /\ q.to >= 1 /\ q.at # q.to
    /\ q.at >= 1

\* When the statement s begins.
Enter(s, q, x) ==
    IF s \in {"shift", "take", "park"} THEN x
    ELSE IF s = "close" THEN IF x = q.at THEN Gone ELSE x
    ELSE IF s \in {"put", "flip"}
         THEN IF q.op = "insert" THEN IF x >= q.at THEN -(x + 1) ELSE x
              ELSE IF x = q.at THEN Gone ELSE IF x > q.at THEN -(x - 1) ELSE x
    ELSE IF x = q.at THEN -1
    ELSE IF s = "slide" \/ ~Between(x, q.at, q.to) THEN x
    ELSE IF s = "unslide" THEN IF q.at < q.to THEN -(x - 1 + Far) ELSE -(x + 1 + Far)
    ELSE IF q.at < q.to THEN x - 1 ELSE x + 1

\* Whether s is about the row.
Visits(s, q, x) == s # "put" /\ Where(s, q, Enter(s, q, x))

\* When s has been through.
Leave(s, q, x) == IF Visits(s, q, x) THEN SetTo(s, q, Enter(s, q, x)) ELSE Enter(s, q, x)

\* Whether any statement of the request is about the row.
Covers(q, x) ==
    \/ q.op \in {"insert", "remove"} /\ x >= q.at
    \/ q.op = "move" /\ (x = q.at \/ Between(x, q.at, q.to))

\* The position after the commit.
Final(q, x) ==
    IF q.op = "insert" THEN IF x >= q.at THEN x + 1 ELSE x
    ELSE IF q.op = "remove" THEN IF x = q.at THEN Gone ELSE IF x > q.at THEN x - 1 ELSE x
    ELSE IF x = q.at THEN q.to
    ELSE IF ~Between(x, q.at, q.to) THEN x
    ELSE IF q.at < q.to THEN x - 1 ELSE x + 1

Firsts == {"shift", "take", "park"}
Lasts == {"flip", "place"}
Follows(s, q, t) ==
    \/ q.op = "insert" /\ <<s, t>> \in {<<"shift", "put">>, <<"put", "flip">>}
    \/ q.op = "remove" /\ <<s, t>> \in {<<"take", "close">>, <<"close", "flip">>}
    \/ q.op = "move" /\ <<s, t>> \in {<<"park", "slide">>, <<"slide", "unslide">>, <<"unslide", "place">>}

LEMMA Slid ==
    ASSUME NEW q, NEW x
    PROVE  SetTo("slide", q, x) = IF q.at < q.to THEN -(x - 1 + Far) ELSE -(x + 1 + Far)
  BY DEF SetTo, Parked

LEMMA SetOf ==
    ASSUME NEW q, NEW x
    PROVE  /\ SetTo("shift", q, x) = -(x + 1)
           /\ SetTo("close", q, x) = -(x - 1)
           /\ SetTo("park", q, x) = -1
           /\ SetTo("put", q, x) = q.at
           /\ SetTo("flip", q, x) = -x
           /\ SetTo("take", q, x) = Gone
           /\ SetTo("unslide", q, x) = -x - Far
           /\ SetTo("place", q, x) = q.to
  BY DEF SetTo, Parked

LEMMA WhereOf ==
    ASSUME NEW q, NEW x
    PROVE  /\ Where("shift", q, x) <=> x >= q.at
           /\ Where("flip", q, x) <=> x < 0
           /\ Where("take", q, x) <=> x = q.at
           /\ Where("park", q, x) <=> x = q.at
           /\ Where("close", q, x) <=> x > q.at
           /\ Where("slide", q, x) <=> Between(x, q.at, q.to)
           /\ Where("unslide", q, x) <=> x < -1
           /\ Where("place", q, x) <=> x = -1
  BY DEF Where

LEMMA FitsCases ==
    ASSUME NEW q \in Requests, NEW s, Fits(s, q)
    PROVE  /\ q.at \in Int /\ q.to \in Int /\ q.at >= 1
           /\ \/ s = "shift" /\ q.op = "insert"
              \/ s = "put" /\ q.op = "insert"
              \/ s = "flip" /\ q.op = "insert"
              \/ s = "take" /\ q.op = "remove"
              \/ s = "close" /\ q.op = "remove"
              \/ s = "flip" /\ q.op = "remove"
              \/ s \in {"park", "slide", "unslide", "place"} /\ q.op = "move" /\ q.to >= 1 /\ q.at # q.to
  BY DEF Fits, Requests

\* Which committed positions a statement is about.
Reach(s, q, x) ==
    \/ s = "shift" /\ x >= q.at
    \/ s \in {"take", "park", "place"} /\ x = q.at
    \/ s = "close" /\ x > q.at
    \/ s = "flip" /\ q.op = "insert" /\ x >= q.at
    \/ s = "flip" /\ q.op # "insert" /\ x > q.at
    \/ s \in {"slide", "unslide"} /\ Between(x, q.at, q.to)

LEMMA Reaches ==
    ASSUME NEW q \in Requests, NEW s, Fits(s, q), NEW x \in Nat, x >= 1
    PROVE  Visits(s, q, x) <=> Reach(s, q, x)
<1>0. q.at \in Int /\ q.to \in Int /\ q.at >= 1
  BY FitsCases
<1>1. CASE s = "shift"
  BY <1>0, <1>1, WhereOf DEF Enter, Visits, Reach
<1>2. CASE s = "put"
  BY <1>0, <1>2 DEF Visits, Reach
<1>3. CASE s = "flip"
  BY <1>0, <1>3, WhereOf DEF Enter, Visits, Reach, Gone
<1>4. CASE s = "take"
  BY <1>0, <1>4, WhereOf DEF Enter, Visits, Reach
<1>5. CASE s = "close"
  BY <1>0, <1>5, WhereOf DEF Enter, Visits, Reach, Gone
<1>6. CASE s = "park"
  BY <1>0, <1>6, WhereOf DEF Enter, Visits, Reach
<1>7. CASE s = "slide"
  <2>1. q.to >= 1 /\ q.at # q.to
    BY <1>7 DEF Fits
  <2> QED BY <2>1, <1>0, <1>7, WhereOf DEF Enter, Visits, Reach, Between
<1>8. CASE s = "unslide"
  <2>1. q.to >= 1 /\ q.at # q.to
    BY <1>8 DEF Fits
  <2> QED BY <2>1, <1>0, <1>8, WhereOf DEF Enter, Visits, Reach, Between, Far
<1>9. CASE s = "place"
  <2>1. q.to >= 1 /\ q.at # q.to
    BY <1>9 DEF Fits
  <2> QED BY <2>1, <1>0, <1>9, WhereOf DEF Enter, Visits, Reach, Between
<1> QED BY <1>1, <1>2, <1>3, <1>4, <1>5, <1>6, <1>7, <1>8, <1>9, FitsCases

\* Where it leaves them.
Put(s, q, x) ==
    IF s = "shift" THEN -(x + 1)
    ELSE IF s = "take" THEN Gone
    ELSE IF s = "close" THEN -(x - 1)
    ELSE IF s = "flip" THEN IF q.op = "insert" THEN x + 1 ELSE x - 1
    ELSE IF s = "park" THEN -1
    ELSE IF s = "slide" THEN IF q.at < q.to THEN -(x - 1 + Far) ELSE -(x + 1 + Far)
    ELSE IF s = "unslide" THEN IF q.at < q.to THEN x - 1 ELSE x + 1
    ELSE q.to

LEMMA Leaves ==
    ASSUME NEW q \in Requests, NEW s, Fits(s, q), NEW x \in Nat, x >= 1
    PROVE  Leave(s, q, x) = IF Reach(s, q, x) THEN Put(s, q, x) ELSE Enter(s, q, x)
<1>0. q.at \in Int /\ q.to \in Int /\ q.at >= 1
  BY FitsCases
<1> SUFFICES ASSUME Reach(s, q, x) PROVE SetTo(s, q, Enter(s, q, x)) = Put(s, q, x)
  BY Reaches DEF Leave
<1>1. CASE s \in {"shift", "take", "close"}
  BY <1>0, <1>1, SetOf DEF Enter, Put, Reach
<1>2. CASE s = "flip"
  BY <1>0, <1>2, SetOf DEF Enter, Put, Reach
<1>3. CASE s = "park"
  BY <1>0, <1>3, SetOf DEF Enter, Put, Reach
<1>4. CASE s = "slide"
  BY <1>0, <1>4, Slid DEF Enter, Put, Reach, Between
<1>5. CASE s = "unslide"
  BY <1>0, <1>5, SetOf DEF Enter, Put, Reach, Between, Far
<1>6. CASE s = "place"
  BY <1>0, <1>6, SetOf DEF Enter, Put, Reach
<1> QED BY <1>1, <1>2, <1>3, <1>4, <1>5, <1>6, FitsCases DEF Reach

LEMMA EnterInt ==
    ASSUME NEW q \in Requests, NEW s, Fits(s, q), NEW x \in Nat, x >= 1
    PROVE  /\ Enter(s, q, x) \in Int
           /\ Leave(s, q, x) \in Int
           /\ Visits(s, q, x) \in BOOLEAN
<1>0. q.at \in Int /\ q.to \in Int /\ Far \in Int /\ Gone \in Int
  BY FitsCases DEF Far, Gone
<1>1. Enter(s, q, x) \in Int
  BY <1>0 DEF Enter
<1>2. Put(s, q, x) \in Int
  BY <1>0 DEF Put
<1>3. Reach(s, q, x) \in BOOLEAN
  BY DEF Reach
<1> QED BY <1>1, <1>2, <1>3, Leaves, Reaches DEF Visits

\* A statement finds the rows where the one before left them.
LEMMA Continues ==
    ASSUME NEW q \in Requests, NEW s, NEW t, Fits(s, q), Follows(s, q, t), NEW x \in Nat, x >= 1
    PROVE  Fits(t, q) /\ Enter(t, q, x) = Leave(s, q, x)
<1>0. q.at \in Int /\ q.to \in Int /\ q.at >= 1
  BY FitsCases
<1>1. Fits(t, q)
  BY DEF Fits, Follows
<1>2. Enter(t, q, x) = IF Reach(s, q, x) THEN Put(s, q, x) ELSE Enter(s, q, x)
  BY <1>0 DEF Fits, Follows, Enter, Put, Reach, Between
<1> QED BY <1>1, <1>2, Leaves

LEMMA StartsAt ==
    ASSUME NEW q \in Requests, NEW s \in Firsts, NEW x
    PROVE  Enter(s, q, x) = x
  BY DEF Firsts, Enter

LEMMA EndsAt ==
    ASSUME NEW q \in Requests, NEW s \in Lasts, Fits(s, q), NEW x \in Nat, x >= 1
    PROVE  Leave(s, q, x) = Final(q, x) /\ Final(q, x) \in Nat
<1>0. q.at \in Int /\ q.to \in Int /\ q.at >= 1
  BY FitsCases
<1>1. Final(q, x) = IF Reach(s, q, x) THEN Put(s, q, x) ELSE Enter(s, q, x)
  BY <1>0 DEF Fits, Lasts, Final, Enter, Put, Reach, Between
<1>2. Final(q, x) \in Nat
  BY <1>0 DEF Fits, Lasts, Final, Between, Gone
<1> QED BY <1>1, <1>2, Leaves

\* Nobody visits what is gone, and only the later statements visit what is parked.
LEMMA GoneStays ==
    ASSUME NEW q \in Requests, NEW s, Fits(s, q), s # "put"
    PROVE  ~Where(s, q, Gone)
<1>0. q.at \in Int /\ q.to \in Int /\ q.at >= 1
  BY FitsCases
<1> QED BY <1>0, WhereOf DEF Fits, Between, Gone

LEMMA VisitsCovered ==
    ASSUME NEW q \in Requests, NEW s, Fits(s, q), NEW x \in Nat, x >= 1, Visits(s, q, x)
    PROVE  Covers(q, x)
<1>0. q.at \in Int /\ q.to \in Int /\ q.at >= 1
  BY FitsCases
<1>1. Reach(s, q, x)
  BY Reaches
<1> QED BY <1>0, <1>1 DEF Fits, Covers, Reach

\* What a statement finds at a positive position is where it was committed, and
\* the statements that bring rows back find nothing there.
LEMMA Unparked ==
    ASSUME NEW q \in Requests, NEW s, Fits(s, q), s # "put", NEW x \in Nat, Where(s, q, x)
    PROVE  s \in {"shift", "take", "close", "park", "slide"} /\ Enter(s, q, x) = x
<1>0. q.at \in Int /\ q.to \in Int /\ q.at >= 1
  BY FitsCases
<1> QED BY <1>0, WhereOf DEF Fits, Enter, Between

\* What the first statement parked or took, the second one does not visit.
LEMMA FirstOnly ==
    ASSUME NEW q \in Requests, NEW s \in Firsts, NEW t, Fits(s, q), Follows(s, q, t), t # "put",
           NEW x \in Nat, x >= 1, Visits(s, q, x)
    PROVE  ~Visits(t, q, x)
<1>0. q.at \in Int /\ q.to \in Int /\ q.at >= 1
  BY FitsCases
<1>1. Reach(s, q, x)
  BY Reaches
<1>2. ~Reach(t, q, x)
  BY <1>0, <1>1 DEF Firsts, Fits, Follows, Reach, Between
<1>3. Fits(t, q)
  BY Continues
<1> QED BY <1>2, <1>3, Reaches

\* No row is put where another one is.
LEMMA Apart ==
    ASSUME NEW q \in Requests, NEW s, Fits(s, q), NEW x \in Nat, x >= 1, NEW y \in Nat, y >= 1, x # y,
           Visits(s, q, x), Leave(s, q, x) # Gone
    PROVE  Leave(s, q, x) # Enter(s, q, y) /\ Leave(s, q, x) # Leave(s, q, y)
<1>0. q.at \in Int /\ q.to \in Int /\ q.at >= 1
  BY FitsCases
<1>1. Reach(s, q, x) /\ Leave(s, q, x) = Put(s, q, x)
  BY Reaches, Leaves
<1>2. Put(s, q, x) # Enter(s, q, y)
  BY <1>0, <1>1 DEF Fits, Reach, Put, Enter, Between, Gone, Far
<1>3. Reach(s, q, y) => Put(s, q, x) # Put(s, q, y)
  BY <1>0, <1>1 DEF Fits, Reach, Put, Between, Gone, Far
<1> QED BY <1>1, <1>2, <1>3, Leaves

\* Nor where the inserted row is.
LEMMA Beside ==
    ASSUME NEW q \in Requests, NEW s \in {"put", "flip"}, Fits(s, q), q.op = "insert", NEW y \in Nat, y >= 1
    PROVE  q.at # Enter(s, q, y) /\ q.at # Leave(s, q, y)
<1>0. q.at \in Int /\ q.to \in Int /\ q.at >= 1
  BY FitsCases
<1>1. q.at # Enter(s, q, y)
  BY <1>0 DEF Fits, Enter
<1>2. Reach(s, q, y) => q.at # Put(s, q, y)
  BY <1>0 DEF Fits, Reach, Put
<1> QED BY <1>1, <1>2, Leaves

\* Rows that are not moved keep their order.
LEMMA FinalKeeps ==
    ASSUME NEW q \in Requests, NEW s \in Lasts, Fits(s, q), NEW x \in Nat, NEW y \in Nat, x >= 1, y >= 1, x # y,
           Covers(q, x), Final(q, x) # Gone, q.op = "move" => Final(q, x) # q.to
    PROVE  /\ Final(q, x) # y => (x < y <=> Final(q, x) < y) /\ (y < x <=> y < Final(q, x))
           /\ Covers(q, y) /\ Final(q, y) # Gone /\ (q.op = "move" => Final(q, y) # q.to)
              => (x < y <=> Final(q, x) < Final(q, y))
<1>0. q.at \in Int /\ q.to \in Int /\ q.at >= 1
  BY FitsCases
<1> QED BY <1>0 DEF Fits, Lasts, Final, Covers, Between, Gone

-----------------------------------------------------------------------------
(* The invariant.                                                          *)

\* The requests under way are well formed.  A statement that parks visits rows that
\* were not written yet, one that brings back visits rows that were; the row a
\* request inserts is not in the list before the commit.
Formed(c) ==
    /\ pc[c] \notin Statements => mine[c] = <<>> /\ made[c] = {} /\ todo[c] = {} /\ stuck[c] = NoRow
    /\ pc[c] # "idle" => /\ req[c].at >= 1
                         /\ req[c].op = "move" => req[c].to >= 1
                         /\ req[c].op = "insert" <=> req[c].row # NoRow
    /\ pc[c] = "look" => req[c].op = "move"
    /\ pc[c] = "idle" => req[c].row = NoRow
    /\ pc[c] \in Statements => Fits(pc[c], req[c])
    /\ pc[c] \notin {"idle", "look"} /\ req[c].op # "insert" => seen[c] \in Rows
    /\ stuck[c] # NoRow => stuck[c] \in DOMAIN mine[c] \ todo[c] /\ mine[c][stuck[c]] # Gone
    /\ pc[c] \in {"flip", "unslide", "place"} => todo[c] \subseteq DOMAIN mine[c]
    /\ pc[c] \in {"shift", "take", "close", "park", "slide"} => todo[c] \cap DOMAIN mine[c] = {}
    /\ pc[c] = "put" => todo[c] \subseteq {req[c].row} /\ (req[c].row \in DOMAIN mine[c] <=> req[c].row \notin todo[c])
    /\ pc[c] = "flip" /\ req[c].op = "insert" => req[c].row \in DOMAIN mine[c]
    /\ req[c].row # NoRow => pos[req[c].row] = Gone

\* A row that c has written is where the statements so far leave it.
HeldRow(c, r) ==
    IF r = req[c].row
    THEN pc[c] \in {"put", "flip"} /\ mine[c][r] = req[c].at /\ r \notin todo[c]
    ELSE /\ pos[r] # Gone /\ Covers(req[c], pos[r])
         /\ mine[c][r] = IF r \in todo[c] THEN Enter(pc[c], req[c], pos[r]) ELSE Leave(pc[c], req[c], pos[r])
         /\ r \in todo[c] \/ r = stuck[c] \/ pc[c] \in Firsts => Visits(pc[c], req[c], pos[r])

Held(c) == \A r \in DOMAIN mine[c] : HeldRow(c, r)

\* No row is written by two transactions, and nobody knows the row another one inserts.
Exclusive == \A c, d \in Callers : c # d => DOMAIN mine[c] \cap DOMAIN mine[d] = {}

OwnRow ==
    \A c, d \in Callers : c # d /\ req[c].row # NoRow =>
        req[c].row # req[d].row /\ req[c].row \notin todo[d] \cup DOMAIN mine[d]

\* The primary key (playlist_id, position), for the committed rows.
KeyHolds == \A r, t \in Rows : pos[r] # Gone /\ pos[r] = pos[t] => r = t

\* The entries a transaction has made are its own, and for every committed row that is
\* at one of them it has written that row.
EntriesOf(c) ==
    /\ \A r \in DOMAIN mine[c] : mine[c][r] # Gone =>
         /\ r # stuck[c] => mine[c][r] \in made[c]
         /\ \A t \in DOMAIN mine[c] : mine[c][r] = mine[c][t] => r = t
    /\ \A r \in Rows : pos[r] # Gone /\ pos[r] \in made[c] => r \in DOMAIN mine[c]
    /\ Gone \notin made[c]

Apiece == \A c, d \in Callers : c # d => made[c] \cap made[d] = {}

RowsInv ==
    /\ Typed
    /\ \A c \in Callers : Formed(c)
    /\ \A c \in Callers : Held(c)
    /\ \A c \in Callers : EntriesOf(c)
    /\ Exclusive /\ OwnRow /\ KeyHolds /\ Apiece

-----------------------------------------------------------------------------
(* Shapes.                                                                 *)

LEMMA EmptyMine == <<>> \in Written /\ DOMAIN <<>> = {}
<1>1. DOMAIN <<>> = {} /\ <<>> = [r \in {} |-> 0]
  OBVIOUS
<1>2. {} \in SUBSET Rows /\ <<>> \in [{} -> Int]
  BY <1>1
<1> QED BY <1>1, <1>2 DEF Written

LEMMA MineTyped ==
    ASSUME NEW m \in Written
    PROVE  /\ DOMAIN m \subseteq Rows /\ m \in [DOMAIN m -> Int]
           /\ m = [r \in DOMAIN m |-> m[r]]
           /\ \A r \in DOMAIN m : m[r] \in Int
  BY DEF Written

Wrote(m, r, p) == [o \in DOMAIN m \cup {r} |-> IF o = r THEN p ELSE m[o]]

LEMMA WriteOne ==
    ASSUME NEW m \in Written, NEW r \in Rows, NEW p \in Int
    PROVE  /\ Wrote(m, r, p) \in Written
           /\ DOMAIN Wrote(m, r, p) = DOMAIN m \cup {r}
           /\ Wrote(m, r, p)[r] = p
           /\ \A t \in DOMAIN m : t # r => Wrote(m, r, p)[t] = m[t]
<1>1. DOMAIN m \cup {r} \in SUBSET Rows
  BY MineTyped
<1>2. Wrote(m, r, p) \in [DOMAIN m \cup {r} -> Int]
  BY MineTyped DEF Wrote
<1> QED BY <1>1, <1>2 DEF Written, Wrote

LEMMA RowsNat ==
    /\ Rows \subseteq Nat \ {0} /\ NoRow \notin Rows
    /\ Cardinality(Rows) \in Nat
<1>1. Cardinality(Rows) \in Nat
  BY RowsAssumption, FS_CardinalityType
<1> QED BY <1>1, RowsAssumption DEF NoRow

LEMMA SetInt ==
    ASSUME NEW q \in Requests, NEW s \in Statements, NEW x \in Int
    PROVE  SetTo(s, q, x) \in Int
<1>1. q.at \in Int /\ q.to \in Int /\ Far \in Int /\ Gone \in Int
  BY DEF Requests, Far, Gone
<1>2. CASE s = "slide"
  BY <1>1, <1>2, Slid
<1>3. CASE s # "slide"
  BY <1>1, <1>3, SetOf DEF Statements
<1> QED BY <1>2, <1>3

LEMMA SeesInt ==
    ASSUME Typed, NEW c \in Callers, NEW r \in Rows
    PROVE  Sees(c, r) \in Int /\ pos[r] \in Nat /\ req[c] \in Requests /\ mine[c] \in Written
  BY MineTyped DEF Typed, Sees, Holds

Results == {"none", "ok", "absent", "duplicate", "deadlock", "gone", "lost"}

\* What a request has of its own is as it was.
Same(d) ==
    /\ pc'[d] = pc[d] /\ req'[d] = req[d] /\ seen'[d] = seen[d] /\ mine'[d] = mine[d]
    /\ made'[d] = made[d] /\ todo'[d] = todo[d] /\ stuck'[d] = stuck[d]

\* The committed rows that concern it are where they were.
Spared(d) ==
    /\ \A r \in DOMAIN mine[d] : pos'[r] = pos[r]
    /\ req[d].row # NoRow => pos'[req[d].row] = Gone
    /\ \A r \in Rows : pos'[r] # Gone /\ pos'[r] \in made[d] => r \in DOMAIN mine[d]

LEMMA SameKeeps ==
    ASSUME NEW d \in Callers, Same(d), Spared(d), Formed(d), Held(d), EntriesOf(d)
    PROVE  Formed(d)' /\ Held(d)' /\ EntriesOf(d)'
<1>1. Formed(d)'
  BY DEF Formed, Same, Spared
<1>2. Held(d)'
  BY DEF Held, HeldRow, Same, Spared
<1>3. EntriesOf(d)'
  BY DEF EntriesOf, Same, Spared
<1> QED BY <1>1, <1>2, <1>3

LEMMA SparedStill ==
    ASSUME RowsInv, NEW d \in Callers, pos' = pos
    PROVE  Spared(d)
  BY DEF RowsInv, Formed, EntriesOf, Spared

\* The invariant holds again if it does for the one whose turn it is.
LEMMA TurnKeeps ==
    ASSUME RowsInv, NEW c \in Callers, Typed',
           \A d \in Callers \ {c} : Same(d) /\ Spared(d),
           Formed(c)', Held(c)', EntriesOf(c)', KeyHolds',
           \A d \in Callers \ {c} :
             /\ DOMAIN mine'[c] \cap DOMAIN mine[d] = {}
             /\ made'[c] \cap made[d] = {}
             /\ req'[c].row # NoRow => req'[c].row # req[d].row /\ req'[c].row \notin todo[d] \cup DOMAIN mine[d]
             /\ req[d].row # NoRow => req'[c].row # req[d].row /\ req[d].row \notin todo'[c] \cup DOMAIN mine'[c]
    PROVE  RowsInv'
<1>1. \A d \in Callers : Formed(d)' /\ Held(d)' /\ EntriesOf(d)'
  BY SameKeeps DEF RowsInv
<1>2. Exclusive'
  BY DEF RowsInv, Exclusive, Same
<1>3. Apiece'
  BY DEF RowsInv, Apiece, Same
<1>4. OwnRow'
  BY DEF RowsInv, OwnRow, Same
<1> QED BY <1>1, <1>2, <1>3, <1>4 DEF RowsInv

LEMMA EndsKeeps ==
    ASSUME RowsInv, NEW c \in Callers, NEW how \in Results, Ends(c, how),
           pos' \in [Rows -> Nat], clean' \in BOOLEAN, raced' \in [Callers -> BOOLEAN],
           KeyHolds', \A d \in Callers \ {c} : Spared(d)
    PROVE  RowsInv'
<1>0. Typed
  BY DEF RowsInv
<1>1. /\ pc'[c] = "idle" /\ req'[c] = Idle /\ seen'[c] = NoRow /\ mine'[c] = <<>> /\ made'[c] = {}
      /\ todo'[c] = {} /\ stuck'[c] = NoRow
  BY <1>0 DEF Typed, Ends
<1>2. \A d \in Callers \ {c} : Same(d)
  BY <1>0 DEF Typed, Ends, Same
<1>3. Typed'
  <2>1. Idle \in Requests
    BY DEF Idle, Requests, Ops
  <2> QED BY <1>0, <2>1, EmptyMine DEF Typed, Ends, Results
<1>4. Formed(c)'
  BY <1>1 DEF Formed, Idle, Statements
<1>5. Held(c)' /\ EntriesOf(c)'
  BY <1>1, EmptyMine DEF Held, EntriesOf
<1>6. \A d \in Callers \ {c} :
        /\ DOMAIN mine'[c] \cap DOMAIN mine[d] = {}
        /\ made'[c] \cap made[d] = {}
        /\ req'[c].row # NoRow => req'[c].row # req[d].row /\ req'[c].row \notin todo[d] \cup DOMAIN mine[d]
        /\ req[d].row # NoRow => req'[c].row # req[d].row /\ req[d].row \notin todo'[c] \cup DOMAIN mine'[c]
  BY <1>1, EmptyMine DEF Idle
<1> QED BY <1>2, <1>3, <1>4, <1>5, <1>6, TurnKeeps

LEMMA AbortKeeps ==
    ASSUME RowsInv, NEW c \in Callers, NEW how \in Results, Ends(c, how), UNCHANGED <<pos, history>>
    PROVE  RowsInv'
<1>1. /\ pos' \in [Rows -> Nat] /\ clean' \in BOOLEAN /\ raced' \in [Callers -> BOOLEAN]
      /\ KeyHolds'
  BY DEF RowsInv, Typed, history, KeyHolds
<1>2. pos' = pos
  OBVIOUS
<1> QED BY <1>1, <1>2, SparedStill, EndsKeeps

-----------------------------------------------------------------------------
(* The next position.                                                      *)

LEMMA LeastNatural ==
    ASSUME NEW T, T \subseteq Nat, T # {}
    PROVE  \E x \in T : \A y \in T : x <= y
<1> DEFINE R == OpToRel(<, Nat)
<1>1. IsWellFoundedOn(R, Nat)
  BY NatLessThanWellFounded
<1>2. PICK x \in T : \A y \in T : ~(<<y, x>> \in R)
  <2> HIDE DEF R
  <2> QED BY <1>1, WFMin
<1>3. \A y \in T : <<y, x>> \in R <=> y < x
  BY DEF OpToRel
<1> HIDE DEF R
<1>4. \A y \in T : ~(y < x)
  BY <1>2, <1>3
<1>5. x \in Nat /\ \A y \in T : y \in Nat
  OBVIOUS
<1> QED BY <1>4, <1>5

\* Positions are bounded: the smallest bound of the positions of the live rows is taken.
LEMMA Highest ==
    ASSUME Typed, Live # {}
    PROVE  \E p \in {pos[r] : r \in Live} : \A r \in Live : pos[r] <= p
<1> DEFINE n == Cardinality(Rows)
           Dominated(k) == {r \in Live : r <= k}
           T == {k \in 0..n : \E t \in Live : \A r \in Live : r <= n - k => pos[r] <= pos[t]}
<1>0. n \in Nat /\ Rows = 1..n /\ Live \subseteq Rows /\ pos \in [Rows -> Nat]
  BY RowsNat, RowsAssumption DEF Live, Typed
<1>1. n \in T
  BY <1>0
<1>2. PICK k \in T : \A j \in T : k <= j
  <2>1. T \subseteq Nat /\ T # {}
    BY <1>1, <1>0
  <2> HIDE DEF T
  <2> QED BY <2>1, LeastNatural
<1>3. k \in 0..n
  OBVIOUS
<1>4. PICK t \in Live : \A r \in Live : r <= n - k => pos[r] <= pos[t]
  OBVIOUS
<1>5. k = 0
  <2> SUFFICES ASSUME k # 0 PROVE FALSE
    OBVIOUS
  <2>1. k - 1 \in 0..n /\ k - 1 < k /\ n - (k - 1) = n - k + 1
    BY <1>0, <1>3
  <2>2. k - 1 \notin T
    BY <1>0, <1>2, <1>3, <2>1
  <2>3. \A u \in Live : \E r \in Live : r <= n - (k - 1) /\ ~(pos[r] <= pos[u])
    BY <2>1, <2>2
  <2>4. PICK u \in Live : u <= n - (k - 1) /\ ~(pos[u] <= pos[t])
    BY <2>3
  <2>5. PICK v \in Live : v <= n - (k - 1) /\ ~(pos[v] <= pos[u])
    BY <2>3
  <2>6. u = n - k + 1 /\ v = n - k + 1
    <3>1. pos[t] \in Nat /\ pos[u] \in Nat /\ pos[v] \in Nat /\ u \in Nat /\ v \in Nat
      BY <1>0
    <3>2. ~(pos[v] <= pos[t])
      BY <2>4, <2>5, <3>1
    <3>3. ~(u <= n - k) /\ ~(v <= n - k)
      BY <1>4, <2>4, <3>2
    <3> QED BY <1>0, <1>3, <2>1, <2>4, <2>5, <3>1, <3>3
  <2> QED BY <1>0, <2>5, <2>6
<1>6. \A r \in Live : pos[r] <= pos[t]
  BY <1>0, <1>4, <1>5
<1> QED BY <1>6

LEMMA NextFree ==
    ASSUME Typed
    PROVE  NextPosition \in Nat /\ NextPosition >= 1 /\ \A r \in Live : pos[r] < NextPosition
<1>1. CASE Live = {}
  BY <1>1 DEF NextPosition
<1>2. CASE Live # {}
  <2> DEFINE m == CHOOSE p \in {pos[r] : r \in Live} : \A r \in Live : pos[r] <= p
  <2>1. m \in {pos[r] : r \in Live} /\ \A r \in Live : pos[r] <= m
    BY <1>2, Highest
  <2>2. NextPosition = 1 + m
    BY <1>2 DEF NextPosition
  <2>3. \A r \in Live : pos[r] \in Nat
    BY DEF Live, Typed
  <2> HIDE DEF m
  <2> QED BY <2>1, <2>2, <2>3
<1> QED BY <1>1, <1>2

-----------------------------------------------------------------------------
(* Requests and the beginning of statements.                               *)

LEMMA AsksKeeps ==
    ASSUME RowsInv, NEW c \in Callers, NEW q \in Requests, NEW row \in Rows \cup {NoRow},
           NEW at \in {"look", "begin"}, Asks(c, q, row, at),
           q.at >= 1, q.op = "move" => q.to >= 1, q.op = "insert" <=> q.row # NoRow,
           at = "look" <=> q.op = "move", q.op = "remove" => row # NoRow,
           q.row # NoRow => q.row \in Fresh
    PROVE  RowsInv'
<1>0. Typed /\ Formed(c)
  BY DEF RowsInv
<1>1. /\ pc[c] = "idle" /\ mine[c] = <<>> /\ made[c] = {} /\ todo[c] = {} /\ stuck[c] = NoRow
      /\ pc'[c] = at /\ req'[c] = q /\ seen'[c] = row /\ mine'[c] = <<>> /\ made'[c] = {}
      /\ todo'[c] = {} /\ stuck'[c] = NoRow /\ pos' = pos
  BY <1>0 DEF Typed, Asks, Formed, Statements
<1>2. \A d \in Callers \ {c} : Same(d) /\ Spared(d)
  <2>1. \A d \in Callers \ {c} : Same(d)
    BY <1>0 DEF Typed, Asks, Same
  <2> QED BY <1>1, <2>1, SparedStill
<1>3. Typed'
  BY <1>0 DEF Typed, Asks
<1>4. Formed(c)'
  <2>1. q.op \in Ops
    BY DEF Requests
  <2>2. q.row # NoRow => pos[q.row] = Gone
    BY DEF Fresh
  <2> QED BY <1>1, <2>1, <2>2 DEF Formed, Statements, Ops
<1>5. Held(c)' /\ EntriesOf(c)' /\ KeyHolds'
  <2>1. KeyHolds'
    BY <1>1 DEF RowsInv, KeyHolds
  <2> QED BY <1>1, <2>1, EmptyMine DEF Held, EntriesOf
<1>6. \A d \in Callers \ {c} :
        /\ DOMAIN mine'[c] \cap DOMAIN mine[d] = {}
        /\ made'[c] \cap made[d] = {}
        /\ req'[c].row # NoRow => req'[c].row # req[d].row /\ req'[c].row \notin todo[d] \cup DOMAIN mine[d]
        /\ req[d].row # NoRow => req'[c].row # req[d].row /\ req[d].row \notin todo'[c] \cup DOMAIN mine'[c]
  BY <1>1, EmptyMine DEF Fresh
<1> QED BY <1>2, <1>3, <1>4, <1>5, <1>6, TurnKeeps

LEMMA AddTrackKeeps ==
    ASSUME RowsInv, NEW c \in Callers, AddTrack(c)
    PROVE  RowsInv'
<1>1. PICK p \in Places, r \in Fresh :
         Asks(c, [op |-> "insert", row |-> r, at |-> Clamp(p), to |-> 0], NoRow, "begin")
  BY DEF AddTrack
<1>2. Typed
  BY DEF RowsInv
<1>3. Clamp(p) \in Int /\ Clamp(p) >= 1
  BY <1>2, NextFree, RowsAssumption DEF Clamp
<1>4. PICK q : q = [op |-> "insert", row |-> r, at |-> Clamp(p), to |-> 0]
  OBVIOUS
<1>5. r \in Rows /\ r # NoRow
  BY RowsNat DEF Fresh
<1>6. q \in Requests /\ q.op = "insert" /\ q.row = r /\ q.at = Clamp(p)
  BY <1>3, <1>4, <1>5 DEF Requests, Ops
<1>7. Asks(c, q, NoRow, "begin")
  BY <1>1, <1>4
<1> QED BY <1>3, <1>5, <1>6, <1>7, AsksKeeps

LEMMA RemoveTrackKeeps ==
    ASSUME RowsInv, NEW c \in Callers, RemoveTrack(c)
    PROVE  RowsInv'
<1>a. PICK p \in Places : \E r \in At(p) :
         Asks(c, [op |-> "remove", row |-> NoRow, at |-> p, to |-> 0], r, "begin")
  BY DEF RemoveTrack
<1>1. PICK r \in At(p) : Asks(c, [op |-> "remove", row |-> NoRow, at |-> p, to |-> 0], r, "begin")
  BY <1>a
<1>2. PICK q : q = [op |-> "remove", row |-> NoRow, at |-> p, to |-> 0]
  OBVIOUS
<1>3. r \in Rows /\ p \in Int /\ p >= 1 /\ r # NoRow
  BY RowsAssumption, RowsNat DEF At, Live, RowsInv, Typed, Gone
<1>4. q \in Requests /\ q.op = "remove" /\ q.row = NoRow /\ q.at = p
  BY <1>2, <1>3 DEF Requests, Ops
<1>5. Asks(c, q, r, "begin")
  BY <1>1, <1>2
<1> QED BY <1>3, <1>4, <1>5, AsksKeeps

LEMMA ReorderKeeps ==
    ASSUME RowsInv, NEW c \in Callers, Reorder(c)
    PROVE  RowsInv'
<1> DEFINE last == IF NextPosition > 2 THEN NextPosition - 1 ELSE 1
<1>1. PICK p \in Places, t \in Places :
         /\ p >= 1 /\ t >= 1
         /\ Asks(c, [op |-> "move", row |-> NoRow, at |-> p, to |-> IF t < last THEN t ELSE last], NoRow, "look")
  BY DEF Reorder
<1>2. Typed
  BY DEF RowsInv
<1>3. last \in Int /\ last >= 1
  BY <1>2, NextFree
<1> HIDE DEF last
<1>4. PICK q : q = [op |-> "move", row |-> NoRow, at |-> p, to |-> IF t < last THEN t ELSE last]
  OBVIOUS
<1>5. q \in Requests /\ q.op = "move" /\ q.row = NoRow /\ q.at = p /\ q.to \in Int /\ q.to >= 1
  BY <1>1, <1>3, <1>4, RowsAssumption DEF Requests, Ops
<1>6. Asks(c, q, NoRow, "look")
  BY <1>1, <1>4
<1> QED BY <1>1, <1>5, <1>6, AsksKeeps

LEMMA LookKeeps ==
    ASSUME RowsInv, NEW c \in Callers, Look(c)
    PROVE  RowsInv'
<1>0. Typed /\ Formed(c) /\ Held(c) /\ EntriesOf(c) /\ pc[c] = "look"
  BY DEF RowsInv, Look
<1>1. CASE At(req[c].at) = {} /\ Ends(c, "absent") /\ UNCHANGED <<pos, faults, history>>
  <2>1. UNCHANGED <<pos, history>> /\ "absent" \in Results
    BY <1>1 DEF Results
  <2> QED BY <1>1, <2>1, AbortKeeps
<1>2. CASE \E r \in At(req[c].at) :
             /\ seen' = [seen EXCEPT ![c] = r]
             /\ pc' = [pc EXCEPT ![c] = "begin"]
             /\ UNCHANGED <<alive, pos, req, mine, made, todo, stuck, result, asked, faults, history>>
  <2>1. PICK r \in Rows :
             /\ seen' = [seen EXCEPT ![c] = r]
             /\ pc' = [pc EXCEPT ![c] = "begin"]
             /\ UNCHANGED <<alive, pos, req, mine, made, todo, stuck, result, asked, faults, history>>
    BY <1>2 DEF At, Live
  <2>2. Typed'
    BY <1>0, <2>1 DEF Typed, history
  <2>3. \A d \in Callers \ {c} : Same(d) /\ Spared(d)
    <3>1. \A d \in Callers \ {c} : Same(d)
      BY <1>0, <2>1 DEF Typed, Same
    <3> QED BY <2>1, <3>1, SparedStill
  <2>4. pc'[c] = "begin" /\ seen'[c] = r /\ pos' = pos
    BY <1>0, <2>1 DEF Typed
  <2>5. Formed(c)'
    BY <1>0, <2>1, <2>4 DEF Formed, Statements
  <2>6. mine[c] = <<>>
    BY <1>0 DEF Formed, Statements
  <2>7. Held(c)' /\ EntriesOf(c)' /\ KeyHolds'
    <3>1. EntriesOf(c)'
      BY <1>0, <2>1, <2>4 DEF EntriesOf
    <3>2. KeyHolds'
      BY <2>1 DEF RowsInv, KeyHolds
    <3> QED BY <2>1, <2>6, <3>1, <3>2, EmptyMine DEF Held
  <2>8. \A d \in Callers \ {c} :
          /\ DOMAIN mine'[c] \cap DOMAIN mine[d] = {}
          /\ made'[c] \cap made[d] = {}
          /\ req'[c].row # NoRow => req'[c].row # req[d].row /\ req'[c].row \notin todo[d] \cup DOMAIN mine[d]
          /\ req[d].row # NoRow => req'[c].row # req[d].row /\ req[d].row \notin todo'[c] \cup DOMAIN mine'[c]
    BY <2>1 DEF RowsInv, Exclusive, Apiece, OwnRow
  <2> QED BY <2>2, <2>3, <2>5, <2>7, <2>8, TurnKeeps
<1> QED BY <1>1, <1>2 DEF Look

\* A statement visits a row that it finds where the ones before it leave it, if it is about it.
LEMMA SnapshotVisits ==
    ASSUME Typed, NEW c \in Callers, NEW s, Fits(s, req[c]), s # "put", NEW r \in Rows,
           Sees(c, r) = Enter(s, req[c], pos[r])
    PROVE  r \in Snapshot(c, s) <=> Visits(s, req[c], pos[r])
<1>1. r \in Snapshot(c, s) <=> Sees(c, r) # Gone /\ Where(s, req[c], Sees(c, r))
  BY DEF Snapshot
<1>2. ~Where(s, req[c], Gone)
  BY GoneStays DEF Typed
<1> QED BY <1>1, <1>2 DEF Visits

LEMMA SnapshotOf ==
    ASSUME Typed, NEW c \in Callers, NEW s, Fits(s, req[c]), s # "put", NEW r \in Snapshot(c, s)
    PROVE  r \in Rows /\ Sees(c, r) # Gone /\ Where(s, req[c], Sees(c, r))
  BY DEF Snapshot

LEMMA StartsKeeps ==
    ASSUME RowsInv, NEW c \in Callers, NEW s \in Statements, Starts(c, s), Fits(s, req[c]),
           todo[c] = {}, stuck[c] = NoRow,
           \/ pc[c] = "begin" /\ s \in Firsts
           \/ pc[c] \in Statements /\ Follows(pc[c], req[c], s)
    PROVE  RowsInv'
<1> DEFINE q == req[c]
<1>0. /\ Typed /\ Formed(c) /\ Held(c) /\ EntriesOf(c) /\ q \in Requests
      /\ pos \in [Rows -> Nat] /\ mine[c] \in Written /\ NoRow \notin Rows
  BY RowsNat DEF RowsInv, Typed
<1>1. /\ pc'[c] = s /\ req'[c] = q /\ seen'[c] = seen[c] /\ mine'[c] = mine[c] /\ made'[c] = made[c]
      /\ todo'[c] = Snapshot(c, s) /\ stuck'[c] = NoRow /\ pos' = pos
  BY <1>0 DEF Typed, Starts
<1>2. Snapshot(c, s) \subseteq Rows
  <2>1. s = "put" => req[c].row \in Rows
    BY <1>0 DEF Formed, Fits, Requests, Statements
  <2> QED BY <2>1 DEF Snapshot
<1>3. Typed'
  <2>1. todo' \in [Callers -> SUBSET Rows]
    BY <1>0, <1>2 DEF Typed, Starts
  <2>2. pc' \in [Callers -> {"idle", "look", "begin"} \cup Statements]
    BY <1>0 DEF Typed, Starts
  <2> QED BY <1>0, <2>1, <2>2 DEF Typed, Starts, history
<1>4. \A d \in Callers \ {c} : Same(d) /\ Spared(d)
  <2>1. \A d \in Callers \ {c} : Same(d)
    BY <1>0 DEF Typed, Starts, Same
  <2> QED BY <1>1, <2>1, SparedStill
<1>5. ASSUME NEW r \in DOMAIN mine[c], r # q.row
      PROVE  /\ r \in Rows /\ pos[r] \in Nat /\ pos[r] >= 1 /\ pos[r] # Gone /\ Covers(q, pos[r])
             /\ pc[c] \in Statements /\ Fits(pc[c], q) /\ Follows(pc[c], q, s)
             /\ mine[c][r] = Enter(s, q, pos[r]) /\ Sees(c, r) = Enter(s, q, pos[r])
             /\ pc[c] \in Firsts => Visits(pc[c], q, pos[r])
  <2>1. pc[c] \in Statements
    BY <1>0, EmptyMine DEF Formed
  <2>2. Fits(pc[c], q) /\ Follows(pc[c], q, s)
    BY <1>0, <2>1 DEF Formed, Statements
  <2>3. HeldRow(c, r)
    BY <1>0 DEF Held
  <2>4. r \in Rows /\ pos[r] \in Nat
    BY <1>0, MineTyped
  <2>5. pos[r] # Gone /\ pos[r] >= 1 /\ Covers(q, pos[r])
    BY <1>5, <2>3, <2>4 DEF HeldRow, Gone
  <2>6. mine[c][r] = Enter(s, q, pos[r])
    BY <1>0, <1>5, <2>2, <2>3, <2>4, <2>5, Continues DEF HeldRow
  <2> QED BY <1>5, <2>1, <2>2, <2>3, <2>4, <2>5, <2>6 DEF Sees, Holds, HeldRow
<1>6. Held(c)'
  <2> SUFFICES ASSUME NEW r \in DOMAIN mine[c] PROVE HeldRow(c, r)'
    BY <1>1 DEF Held
  <2>1. CASE r = q.row
    <3>1. HeldRow(c, r) /\ pc[c] \in {"put", "flip"} /\ mine[c][r] = q.at
      BY <1>0, <2>1 DEF Held, HeldRow
    <3>2. s = "flip" /\ pc[c] = "put"
      BY <3>1 DEF Follows
    <3>3. Sees(c, r) = q.at
      BY <3>1 DEF Sees, Holds
    <3>4. r \notin Snapshot(c, s)
      BY <1>0, <3>2, <3>3, SnapshotOf, WhereOf, FitsCases
    <3> QED BY <1>1, <2>1, <3>1, <3>2, <3>4 DEF HeldRow
  <2>2. CASE r # q.row
    <3>1. r \in Snapshot(c, s) => Visits(s, q, pos[r])
      BY <1>0, <1>5, <2>2, SnapshotVisits DEF Snapshot
    <3>2. r \notin Snapshot(c, s) => ~Visits(s, q, pos[r])
      BY <1>0, <1>5, <2>2, SnapshotVisits DEF Visits
    <3>3. s \notin Firsts
      BY <1>5, <2>2 DEF Firsts, Follows
    <3>4. r # NoRow
      BY <1>0, <1>5, <2>2
    <3> QED BY <1>1, <1>5, <2>2, <3>1, <3>2, <3>3, <3>4 DEF HeldRow, Leave
  <2> QED BY <2>1, <2>2
<1>7. Formed(c)'
  <2>1. s \in {"flip", "unslide", "place"} => Snapshot(c, s) \subseteq DOMAIN mine[c]
    <3> SUFFICES ASSUME s \in {"flip", "unslide", "place"}, NEW r \in Snapshot(c, s), r \notin DOMAIN mine[c]
                 PROVE  FALSE
      OBVIOUS
    <3>1. r \in Rows /\ Where(s, q, Sees(c, r)) /\ Sees(c, r) = pos[r]
      BY <1>0, SnapshotOf DEF Sees, Holds
    <3> QED BY <1>0, <3>1, Unparked
  <2>2. s \in {"shift", "take", "close", "park", "slide"} => Snapshot(c, s) \cap DOMAIN mine[c] = {}
    <3> SUFFICES ASSUME s \in {"shift", "take", "close", "park", "slide"}, NEW r \in Snapshot(c, s), r \in DOMAIN mine[c]
                 PROVE  FALSE
      OBVIOUS
    <3>1. q.row = NoRow \/ pc[c] = "shift" \/ pc[c] = "begin"
      BY <1>0 DEF Formed, Follows, Fits, Statements
    <3>2. r # q.row
      BY <1>0, <1>2, <3>1, EmptyMine DEF Held, HeldRow, Formed, Statements
    <3>3. pc[c] \in Firsts
      BY <1>5, <3>2 DEF Firsts, Follows
    <3> QED BY <1>0, <1>5, <3>2, <3>3, FirstOnly, SnapshotVisits
  <2>3. s = "put" => /\ Snapshot(c, s) = {q.row} /\ q.row \notin DOMAIN mine[c]
    <3> SUFFICES ASSUME s = "put" PROVE q.row \notin DOMAIN mine[c]
      BY DEF Snapshot
    <3>1. pc[c] = "shift"
      BY DEF Follows, Firsts
    <3> QED BY <1>0, <3>1 DEF Held, HeldRow
  <2>4. s = "flip" /\ q.op = "insert" => q.row \in DOMAIN mine[c]
    <3> SUFFICES ASSUME s = "flip", q.op = "insert" PROVE q.row \in DOMAIN mine[c]
      OBVIOUS
    <3>1. pc[c] = "put"
      BY DEF Follows, Firsts
    <3> QED BY <1>0, <3>1 DEF Formed
  <2>5. pc[c] # "idle" /\ pc[c] # "look" /\ s # "idle" /\ s # "look"
    BY DEF Statements, Firsts
  <2> QED BY <1>0, <1>1, <2>1, <2>2, <2>3, <2>4, <2>5 DEF Formed
<1>8. EntriesOf(c)' /\ KeyHolds'
  <2>1. EntriesOf(c)'
    BY <1>0, <1>1 DEF EntriesOf
  <2> QED BY <1>1, <2>1 DEF RowsInv, KeyHolds
<1>9. \A d \in Callers \ {c} :
        /\ DOMAIN mine'[c] \cap DOMAIN mine[d] = {}
        /\ made'[c] \cap made[d] = {}
        /\ req'[c].row # NoRow => req'[c].row # req[d].row /\ req'[c].row \notin todo[d] \cup DOMAIN mine[d]
        /\ req[d].row # NoRow => req'[c].row # req[d].row /\ req[d].row \notin todo'[c] \cup DOMAIN mine'[c]
  <2> SUFFICES ASSUME NEW d \in Callers \ {c}, req[d].row # NoRow PROVE req[d].row \notin Snapshot(c, s)
    BY <1>1 DEF RowsInv, Exclusive, Apiece, OwnRow
  <2>1. req[d].row # q.row /\ req[d].row \notin DOMAIN mine[c]
    BY DEF RowsInv, OwnRow
  <2>2. pos[req[d].row] = Gone
    BY DEF RowsInv, Formed
  <2> QED BY <2>1, <2>2 DEF Snapshot, Sees, Holds
<1> QED BY <1>3, <1>4, <1>6, <1>7, <1>8, <1>9, TurnKeeps

LEMMA ScriptFirst ==
    ASSUME NEW op \in Ops
    PROVE  Script[op][1] = IF op = "insert" THEN "shift" ELSE IF op = "remove" THEN "take" ELSE "park"
  BY DEF Ops, Script

LEMMA ScriptLast ==
    ASSUME NEW op \in Ops
    PROVE  Script[op][Len(Script[op])] = IF op = "move" THEN "place" ELSE "flip"
<1>1. Len(<<"shift", "put", "flip">>) = 3 /\ Len(<<"take", "close", "flip">>) = 3
      /\ Len(<<"park", "slide", "unslide", "place">>) = 4
  OBVIOUS
<1> QED BY <1>1 DEF Ops, Script

\* The statement after pc.
LEMMA ScriptNext ==
    ASSUME NEW q \in Requests, NEW s, Fits(s, q), s # Script[q.op][Len(Script[q.op])]
    PROVE  LET script == Script[q.op]
               i == CHOOSE j \in DOMAIN script : script[j] = s
           IN  Follows(s, q, script[i + 1]) /\ script[i + 1] \in Statements
<1> DEFINE script == Script[q.op]
           i == CHOOSE j \in DOMAIN script : script[j] = s
<1>0. q.op \in Ops /\ s # IF q.op = "move" THEN "place" ELSE "flip"
  BY ScriptLast DEF Requests
<1>1. CASE q.op = "insert"
  <2>1. script = <<"shift", "put", "flip">> /\ DOMAIN script = 1..3
    BY <1>1 DEF Script
  <2>2. (s = "shift" /\ i = 1) \/ (s = "put" /\ i = 2)
    BY <1>0, <1>1, <2>1 DEF Fits
  <2> QED BY <1>1, <2>1, <2>2 DEF Follows, Statements
<1>2. CASE q.op = "remove"
  <2>1. script = <<"take", "close", "flip">> /\ DOMAIN script = 1..3
    BY <1>2 DEF Script
  <2>2. (s = "take" /\ i = 1) \/ (s = "close" /\ i = 2)
    BY <1>0, <1>2, <2>1 DEF Fits
  <2> QED BY <1>2, <2>1, <2>2 DEF Follows, Statements
<1>3. CASE q.op = "move"
  <2>1. script = <<"park", "slide", "unslide", "place">> /\ DOMAIN script = 1..4
    BY <1>3 DEF Script
  <2>2. (s = "park" /\ i = 1) \/ (s = "slide" /\ i = 2) \/ (s = "unslide" /\ i = 3)
    BY <1>0, <1>3, <2>1 DEF Fits
  <2> QED BY <1>3, <2>1, <2>2 DEF Follows, Statements
<1> QED BY <1>0, <1>1, <1>2, <1>3 DEF Ops

\* Begin and Advance start a statement as StartsKeeps and StartsCalm suppose.
Turns(c, s) ==
    /\ s \in Statements /\ Starts(c, s) /\ Fits(s, req[c]) /\ todo[c] = {} /\ stuck[c] = NoRow
    /\ \/ pc[c] = "begin" /\ s \in Firsts
       \/ pc[c] \in Statements /\ Follows(pc[c], req[c], s)

LEMMA BeginTurns ==
    ASSUME RowsInv, NEW c \in Callers, Begin(c)
    PROVE  \E s : Turns(c, s)
<1> DEFINE s == Script[req[c].op][1]
<1>0. Typed /\ Formed(c) /\ pc[c] = "begin" /\ req[c] \in Requests /\ req[c].op \in Ops
  BY DEF RowsInv, Typed, Begin, Requests
<1>1. Starts(c, s) /\ ~(req[c].op = "move" /\ req[c].at = req[c].to)
  BY DEF Begin
<1>2. s = IF req[c].op = "insert" THEN "shift" ELSE IF req[c].op = "remove" THEN "take" ELSE "park"
  BY <1>0, ScriptFirst
<1> HIDE DEF s
<1>3. s \in Statements /\ s \in Firsts /\ Fits(s, req[c])
  BY <1>0, <1>1, <1>2 DEF Statements, Firsts, Fits, Formed, Ops
<1>4. todo[c] = {} /\ stuck[c] = NoRow
  BY <1>0 DEF Formed, Statements
<1> QED BY <1>0, <1>1, <1>3, <1>4 DEF Turns

LEMMA AdvanceTurns ==
    ASSUME RowsInv, NEW c \in Callers, Advance(c)
    PROVE  \E s : Turns(c, s)
<1> DEFINE script == Script[req[c].op]
           i == CHOOSE j \in DOMAIN script : script[j] = pc[c]
           s == script[i + 1]
<1>0. Typed /\ Formed(c) /\ req[c] \in Requests
  BY DEF RowsInv, Typed
<1>1. /\ Starts(c, s) /\ pc[c] \in Statements /\ todo[c] = {} /\ stuck[c] = NoRow
      /\ pc[c] # script[Len(script)]
  BY DEF Advance, Done, InStatement, InLast
<1>2. Fits(pc[c], req[c])
  BY <1>0, <1>1 DEF Formed
<1>3. Follows(pc[c], req[c], s) /\ s \in Statements
  <2>1. pc[c] # Script[req[c].op][Len(Script[req[c].op])]
    BY <1>1
  <2> QED BY <1>0, <1>2, <2>1, ScriptNext
<1> HIDE DEF s
<1>4. Fits(s, req[c])
  BY <1>0, <1>2, <1>3 DEF Follows, Fits
<1> QED BY <1>1, <1>3, <1>4 DEF Turns

LEMMA TurnsKeep ==
    ASSUME RowsInv, NEW c \in Callers, NEW s, Turns(c, s)
    PROVE  RowsInv'
  BY StartsKeeps DEF Turns

-----------------------------------------------------------------------------
(* Visits.                                                                 *)

\* What c visits: the row it inserts, or a committed row that was written by none or by c.
VisitsRow(c, r) ==
    /\ r \in todo[c] /\ stuck[c] = NoRow /\ Holders(c, r) = {} /\ pc[c] \in Statements
    /\ pc[c] = "put" \/ (Sees(c, r) # Gone /\ Where(pc[c], req[c], Sees(c, r)))

LEMMA VisitedRow ==
    ASSUME RowsInv, NEW c \in Callers, NEW r, VisitsRow(c, r)
    PROVE  /\ r \in Rows /\ Fits(pc[c], req[c]) /\ req[c] \in Requests
           /\ SetTo(pc[c], req[c], Sees(c, r)) \in Int
           /\ r = req[c].row => pc[c] = "put" /\ req[c].op = "insert" /\ SetTo(pc[c], req[c], Sees(c, r)) = req[c].at
           /\ pc[c] = "put" => r = req[c].row
           /\ r # req[c].row => /\ pos[r] \in Nat /\ pos[r] >= 1 /\ pos[r] # Gone
                                /\ Visits(pc[c], req[c], pos[r]) /\ Covers(req[c], pos[r])
                                /\ Sees(c, r) = Enter(pc[c], req[c], pos[r])
                                /\ SetTo(pc[c], req[c], Sees(c, r)) = Leave(pc[c], req[c], pos[r])
<1> DEFINE s == pc[c]
           q == req[c]
<1>0. /\ Typed /\ Formed(c) /\ Held(c) /\ q \in Requests /\ r \in Rows
      /\ pos \in [Rows -> Nat] /\ mine[c] \in Written /\ NoRow \notin Rows
      /\ s \in Statements /\ stuck[c] = NoRow /\ r \in todo[c]
  BY RowsNat DEF RowsInv, Typed, VisitsRow
<1>1. Fits(s, q)
  BY <1>0 DEF Formed
<1>2. SetTo(s, q, Sees(c, r)) \in Int
  BY <1>0, SeesInt, SetInt
<1>3. s = "put" => r = q.row /\ q.op = "insert" /\ SetTo(s, q, Sees(c, r)) = q.at
  BY <1>0, <1>1, SetOf DEF Formed, Fits
<1>4. ASSUME s # "put" PROVE Sees(c, r) # Gone /\ Where(s, q, Sees(c, r))
  BY <1>4 DEF VisitsRow
<1>5. r = q.row => s = "put"
  <2> SUFFICES ASSUME r = q.row, s # "put" PROVE FALSE
    OBVIOUS
  <2>1. r \notin DOMAIN mine[c]
    BY <1>0 DEF Held, HeldRow
  <2>2. Sees(c, r) = Gone
    BY <1>0, <2>1 DEF Sees, Holds, Formed
  <2> QED BY <1>4, <2>2
<1>6. ASSUME r # q.row
      PROVE  /\ pos[r] \in Nat /\ pos[r] >= 1 /\ pos[r] # Gone /\ Visits(s, q, pos[r])
             /\ Sees(c, r) = Enter(s, q, pos[r])
  <2>1. s # "put" /\ pos[r] \in Nat
    BY <1>0, <1>3, <1>6
  <2>2. CASE r \in DOMAIN mine[c]
    <3>1. HeldRow(c, r)
      BY <1>0, <2>2 DEF Held
    <3>2. pos[r] # Gone /\ mine[c][r] = Enter(s, q, pos[r]) /\ Visits(s, q, pos[r])
      BY <1>0, <1>6, <3>1 DEF HeldRow
    <3> QED BY <2>1, <2>2, <3>2 DEF Sees, Holds, Gone
  <2>3. CASE r \notin DOMAIN mine[c]
    <3>1. Sees(c, r) = pos[r]
      BY <2>3 DEF Sees, Holds
    <3>2. pos[r] # Gone /\ Where(s, q, pos[r])
      BY <1>4, <2>1, <3>1
    <3>3. Enter(s, q, pos[r]) = pos[r]
      BY <1>0, <1>1, <2>1, <3>2, Unparked
    <3> QED BY <2>1, <3>1, <3>2, <3>3 DEF Gone, Visits
  <2> QED BY <2>2, <2>3
<1>7. r # q.row => Covers(q, pos[r]) /\ SetTo(s, q, Sees(c, r)) = Leave(s, q, pos[r])
  BY <1>0, <1>1, <1>6, VisitsCovered DEF Leave
<1> QED BY <1>0, <1>1, <1>2, <1>3, <1>5, <1>6, <1>7

\* A row the transaction holds is held by no other, and what is not known to be taken is
\* not at p.
LEMMA NotTaken ==
    ASSUME RowsInv, NEW c \in Callers, NEW r \in Rows, NEW p, p # Gone, ~Taken(c, r, p)
    PROVE  /\ \A t \in DOMAIN mine[c] : t # r => mine[c][t] # p
           /\ Rivals(c, p) = {} => \A t \in Rows : t # r /\ pos[t] = p => t \in DOMAIN mine[c]
           /\ Rivals(c, p) = {} => \A d \in Callers \ {c} : p \notin made[d]
<1>1. \A t \in Rows : t # r /\ Holders(c, t) = {} => Sees(c, t) # p
  BY DEF Taken
<1>2. DOMAIN mine[c] \subseteq Rows
  BY MineTyped DEF RowsInv, Typed
<1>3. ASSUME NEW t \in DOMAIN mine[c], t # r PROVE mine[c][t] # p
  <2>1. Holders(c, t) = {}
    BY <1>3 DEF RowsInv, Exclusive, Holders, Holds
  <2> QED BY <1>1, <1>2, <1>3, <2>1 DEF Sees, Holds
<1>4. ASSUME Rivals(c, p) = {}, NEW t \in Rows, t # r, pos[t] = p, t \notin DOMAIN mine[c] PROVE FALSE
  <2>1. Holders(c, t) = {}
    BY <1>4 DEF Rivals, Holders, Holds
  <2> QED BY <1>1, <1>4, <2>1 DEF Sees, Holds
<1>5. Rivals(c, p) = {} => \A d \in Callers \ {c} : p \notin made[d]
  BY DEF Rivals
<1> QED BY <1>3, <1>4, <1>5

LEMMA UpdateKeeps ==
    ASSUME RowsInv, NEW c \in Callers, NEW r, VisitsRow(c, r), Update(c, r)
    PROVE  RowsInv'
<1> DEFINE s == pc[c]
           q == req[c]
           p == SetTo(s, q, Sees(c, r))
           m == Wrote(mine[c], r, p)
<1>0. /\ Typed /\ Formed(c) /\ Held(c) /\ EntriesOf(c) /\ q \in Requests /\ r \in Rows
      /\ mine[c] \in Written /\ NoRow \notin Rows /\ s \in Statements /\ r \in todo[c] /\ p \in Int
      /\ stuck[c] = NoRow
  BY RowsNat, VisitedRow DEF RowsInv, Typed, VisitsRow
<1>1. /\ pc'[c] = s /\ req'[c] = q /\ seen'[c] = seen[c] /\ mine'[c] = m
      /\ todo'[c] = todo[c] \ {r} /\ pos' = pos /\ ~Taken(c, r, p)
  BY <1>0 DEF Typed, Update, Wrote
<1>2. \/ Rivals(c, p) = {} /\ made'[c] = made[c] \cup ({p} \ {Gone}) /\ stuck'[c] = NoRow
      \/ Rivals(c, p) # {} /\ made'[c] = made[c] /\ stuck'[c] = r /\ p # Gone
  <2>1. Rivals(c, p) # {} => p # Gone
    BY DEF Rivals
  <2> QED BY <1>0, <2>1 DEF Typed, Update
<1>3. /\ m \in Written /\ DOMAIN m = DOMAIN mine[c] \cup {r} /\ m[r] = p
      /\ \A t \in DOMAIN mine[c] : t # r => m[t] = mine[c][t]
  BY <1>0, WriteOne
<1> DEFINE new == made'[c]
<1>4. new \in SUBSET Int
  BY <1>0, <1>2 DEF Typed
<1> HIDE DEF m, p
<1>5. Typed'
  <2>1. mine' = [mine EXCEPT ![c] = m]
    BY DEF Update, Wrote, m, p
  <2>2. made' \in [Callers -> SUBSET Int]
    <3>1. made' = [made EXCEPT ![c] = made[c] \cup ({p} \ {Gone})] \/ made' = made
      BY DEF Update, p
    <3>2. made[c] \cup ({p} \ {Gone}) \in SUBSET Int
      BY <1>0 DEF Typed
    <3> QED BY <1>0, <3>1, <3>2 DEF Typed
  <2>3. stuck' \in [Callers -> Rows \cup {NoRow}]
    BY <1>0 DEF Typed, Update
  <2>4. todo' \in [Callers -> SUBSET Rows]
    BY <1>0 DEF Typed, Update
  <2>5. UNCHANGED <<alive, pos, pc, req, seen, result, raced, clean>>
    BY DEF Update, history
  <2>6. mine' \in [Callers -> Written]
    BY <1>0, <1>3, <2>1 DEF Typed
  <2> QED BY <1>0, <2>2, <2>3, <2>4, <2>5, <2>6 DEF Typed
<1>6. \A d \in Callers \ {c} : Same(d) /\ Spared(d)
  <2>1. \A d \in Callers \ {c} : Same(d)
    BY <1>0 DEF Typed, Update, Same
  <2> QED BY <1>1, <2>1, SparedStill
<1>7. Held(c)'
  <2> SUFFICES ASSUME NEW t \in DOMAIN m PROVE HeldRow(c, t)'
    BY <1>1 DEF Held
  <2>1. CASE t = r
    <3>1. CASE r = q.row
      BY <1>1, <1>3, <2>1, <3>1, VisitedRow DEF HeldRow, p
    <3>2. CASE r # q.row
      BY <1>1, <1>3, <2>1, <3>2, VisitedRow DEF HeldRow, p
    <3> QED BY <3>1, <3>2
  <2>2. CASE t # r
    <3>1. t \in DOMAIN mine[c] /\ m[t] = mine[c][t] /\ HeldRow(c, t)
      BY <1>0, <1>3, <2>2 DEF Held
    <3>2. t \in Rows
      BY <1>0, <3>1, MineTyped
    <3> QED BY <1>0, <1>1, <1>2, <2>2, <3>1, <3>2 DEF HeldRow
  <2> QED BY <2>1, <2>2
<1>8. Formed(c)'
  <2>1. s = "put" => r = q.row
    BY VisitedRow
  <2> QED BY <1>0, <1>1, <1>2, <1>3, <2>1 DEF Formed
<1>9. p # Gone => /\ \A t \in DOMAIN mine[c] : t # r => mine[c][t] # p
                  /\ Rivals(c, p) = {} => \A t \in Rows : t # r /\ pos[t] = p => t \in DOMAIN mine[c]
                  /\ Rivals(c, p) = {} => \A d \in Callers \ {c} : p \notin made[d]
  BY <1>0, <1>1, NotTaken
<1>10. EntriesOf(c)' /\ KeyHolds'
  <2>1. \A t \in DOMAIN m : m[t] # Gone => (t # stuck'[c] => m[t] \in new)
    <3>1. DOMAIN mine[c] \subseteq Rows
      BY <1>0, MineTyped
    <3> QED BY <1>0, <1>2, <1>3, <3>1 DEF EntriesOf
  <2>2. \A t, u \in DOMAIN m : m[t] # Gone /\ m[t] = m[u] => t = u
    BY <1>0, <1>3, <1>9 DEF EntriesOf
  <2>3. \A t \in Rows : pos[t] # Gone /\ pos[t] \in new => t \in DOMAIN m
    BY <1>0, <1>2, <1>3, <1>9 DEF EntriesOf
  <2>4. Gone \notin new
    BY <1>0, <1>2 DEF EntriesOf
  <2>5. EntriesOf(c)'
    BY <1>1, <2>1, <2>2, <2>3, <2>4 DEF EntriesOf
  <2> QED BY <1>1, <2>5 DEF RowsInv, KeyHolds
<1>11. \A d \in Callers \ {c} :
        /\ DOMAIN mine'[c] \cap DOMAIN mine[d] = {}
        /\ made'[c] \cap made[d] = {}
        /\ req'[c].row # NoRow => req'[c].row # req[d].row /\ req'[c].row \notin todo[d] \cup DOMAIN mine[d]
        /\ req[d].row # NoRow => req'[c].row # req[d].row /\ req[d].row \notin todo'[c] \cup DOMAIN mine'[c]
  <2> TAKE d \in Callers \ {c}
  <2>1. r \notin DOMAIN mine[d]
    BY DEF VisitsRow, Holders, Holds
  <2>2. DOMAIN m \cap DOMAIN mine[d] = {}
    BY <1>3, <2>1 DEF RowsInv, Exclusive
  <2>3. new \cap made[d] = {}
    BY <1>2, <1>9 DEF RowsInv, Apiece
  <2>4. req[d].row # NoRow => req[d].row # r
    BY <1>0 DEF RowsInv, OwnRow
  <2> QED BY <1>1, <1>3, <2>2, <2>3, <2>4 DEF RowsInv, OwnRow
<1> QED BY <1>5, <1>6, <1>7, <1>8, <1>10, <1>11, TurnKeeps

\* Only a row that changed since the statement began is passed over.
Skips(c, r) ==
    /\ r \in todo[c] /\ stuck[c] = NoRow /\ Holders(c, r) = {} /\ pc[c] \in Statements
    /\ pc[c] # "put" /\ (Sees(c, r) = Gone \/ ~Where(pc[c], req[c], Sees(c, r)))
    /\ todo' = [todo EXCEPT ![c] = @ \ {r}]
    /\ UNCHANGED <<alive, pos, pc, req, seen, mine, made, stuck, result, asked, faults, history>>

LEMMA SkippedRow ==
    ASSUME RowsInv, NEW c \in Callers, NEW r, Skips(c, r)
    PROVE  r \in Rows /\ r \notin DOMAIN mine[c]
<1>0. /\ Typed /\ Formed(c) /\ Held(c) /\ req[c] \in Requests /\ r \in Rows /\ Fits(pc[c], req[c]) /\ pc[c] # "put"
      /\ r \in todo[c]
  BY DEF RowsInv, Typed, Skips, Formed
<1> SUFFICES ASSUME r \in DOMAIN mine[c] PROVE FALSE
  BY <1>0
<1>1. HeldRow(c, r) /\ Sees(c, r) = mine[c][r]
  BY <1>0 DEF Held, Sees, Holds
<1>2. Sees(c, r) = Enter(pc[c], req[c], pos[r]) /\ Visits(pc[c], req[c], pos[r])
  BY <1>0, <1>1 DEF HeldRow
<1>3. Where(pc[c], req[c], Sees(c, r))
  BY <1>2 DEF Visits
<1>4. Sees(c, r) # Gone
  BY <1>0, <1>3, GoneStays
<1> QED BY <1>0, <1>3, <1>4 DEF Skips

LEMMA SkipKeeps ==
    ASSUME RowsInv, NEW c \in Callers, NEW r, Skips(c, r)
    PROVE  RowsInv'
<1>0. Typed /\ Formed(c) /\ Held(c) /\ EntriesOf(c) /\ r \in Rows /\ r \notin DOMAIN mine[c] /\ pc[c] # "put"
  BY SkippedRow DEF RowsInv, Skips
<1>1. /\ pc'[c] = pc[c] /\ req'[c] = req[c] /\ seen'[c] = seen[c] /\ mine'[c] = mine[c] /\ made'[c] = made[c]
      /\ todo'[c] = todo[c] \ {r} /\ stuck'[c] = stuck[c] /\ pos' = pos
  BY <1>0 DEF Typed, Skips
<1>2. Typed'
  <2>1. todo' \in [Callers -> SUBSET Rows]
    BY <1>0 DEF Typed, Skips
  <2> QED BY <1>0, <2>1 DEF Typed, Skips, history
<1>3. \A d \in Callers \ {c} : Same(d) /\ Spared(d)
  <2>1. \A d \in Callers \ {c} : Same(d)
    BY <1>0 DEF Typed, Skips, Same
  <2> QED BY <1>1, <2>1, SparedStill
<1>4. Held(c)'
  <2> SUFFICES ASSUME NEW t \in DOMAIN mine[c] PROVE HeldRow(c, t)'
    BY <1>1 DEF Held
  <2>1. HeldRow(c, t) /\ t # r
    BY <1>0 DEF Held
  <2> QED BY <1>1, <2>1 DEF HeldRow
<1>5. Formed(c)'
  <2>1. stuck[c] = NoRow
    BY DEF Skips
  <2> QED BY <1>0, <1>1, <2>1 DEF Formed
<1>6. EntriesOf(c)' /\ KeyHolds'
  <2>1. EntriesOf(c)'
    BY <1>0, <1>1 DEF EntriesOf
  <2> QED BY <1>1, <2>1 DEF RowsInv, KeyHolds
<1>7. \A d \in Callers \ {c} :
        /\ DOMAIN mine'[c] \cap DOMAIN mine[d] = {}
        /\ made'[c] \cap made[d] = {}
        /\ req'[c].row # NoRow => req'[c].row # req[d].row /\ req'[c].row \notin todo[d] \cup DOMAIN mine[d]
        /\ req[d].row # NoRow => req'[c].row # req[d].row /\ req[d].row \notin todo'[c] \cup DOMAIN mine'[c]
  BY <1>1 DEF RowsInv, Exclusive, Apiece, OwnRow
<1> QED BY <1>2, <1>3, <1>4, <1>5, <1>6, <1>7, TurnKeeps

-----------------------------------------------------------------------------
(* Index entries and commits.                                              *)

\* The entry is made after the wait.
Indexes(c) ==
    /\ stuck[c] # NoRow /\ Rivals(c, mine[c][stuck[c]]) = {} /\ ~Taken(c, stuck[c], mine[c][stuck[c]])
    /\ made' = [made EXCEPT ![c] = @ \cup {mine[c][stuck[c]]}]
    /\ stuck' = [stuck EXCEPT ![c] = NoRow]
    /\ UNCHANGED <<alive, pos, pc, req, seen, mine, todo, result, asked, faults, history>>

LEMMA IndexKeeps ==
    ASSUME RowsInv, NEW c \in Callers, Indexes(c)
    PROVE  RowsInv'
<1> DEFINE r == stuck[c]
           p == mine[c][r]
           new == made[c] \cup {p}
<1>0. /\ Typed /\ Formed(c) /\ Held(c) /\ EntriesOf(c) /\ r \in DOMAIN mine[c] /\ r \in Rows /\ p # Gone
      /\ p \in Int /\ NoRow \notin Rows
  <2>1. Typed /\ Formed(c) /\ Held(c) /\ EntriesOf(c)
    BY DEF RowsInv
  <2>2. r \in DOMAIN mine[c] /\ p # Gone
    BY <2>1 DEF Formed, Indexes
  <2> QED BY <2>1, <2>2, MineTyped, RowsNat DEF Typed
<1>1. /\ pc'[c] = pc[c] /\ req'[c] = req[c] /\ seen'[c] = seen[c] /\ mine'[c] = mine[c] /\ made'[c] = new
      /\ todo'[c] = todo[c] /\ stuck'[c] = NoRow /\ pos' = pos
  BY <1>0 DEF Typed, Indexes
<1>2. Typed'
  <2>1. made' \in [Callers -> SUBSET Int] /\ stuck' \in [Callers -> Rows \cup {NoRow}]
    BY <1>0 DEF Typed, Indexes
  <2> QED BY <1>0, <2>1 DEF Typed, Indexes, history
<1>3. \A d \in Callers \ {c} : Same(d) /\ Spared(d)
  <2>1. \A d \in Callers \ {c} : Same(d)
    BY <1>0 DEF Typed, Indexes, Same
  <2> QED BY <1>1, <2>1, SparedStill
<1>4. Held(c)'
  <2> SUFFICES ASSUME NEW t \in DOMAIN mine[c] PROVE HeldRow(c, t)'
    BY <1>1 DEF Held
  <2>1. HeldRow(c, t) /\ t # NoRow
    BY <1>0, MineTyped DEF Held, Typed
  <2> QED BY <1>1, <2>1 DEF HeldRow
<1>5. Formed(c)'
  <2>1. pc[c] \in Statements
    BY DEF Indexes, RowsInv, Formed
  <2> QED BY <1>0, <1>1, <2>1 DEF Formed
<1>6. /\ \A t \in Rows : t # r /\ pos[t] = p => t \in DOMAIN mine[c]
      /\ \A d \in Callers \ {c} : p \notin made[d]
  BY <1>0, NotTaken DEF Indexes
<1>7. EntriesOf(c)' /\ KeyHolds'
  <2>1. EntriesOf(c)'
    BY <1>0, <1>1, <1>6 DEF EntriesOf
  <2> QED BY <1>1, <2>1 DEF RowsInv, KeyHolds
<1>8. \A d \in Callers \ {c} :
        /\ DOMAIN mine'[c] \cap DOMAIN mine[d] = {}
        /\ made'[c] \cap made[d] = {}
        /\ req'[c].row # NoRow => req'[c].row # req[d].row /\ req'[c].row \notin todo[d] \cup DOMAIN mine[d]
        /\ req[d].row # NoRow => req'[c].row # req[d].row /\ req[d].row \notin todo'[c] \cup DOMAIN mine'[c]
  BY <1>1, <1>6 DEF RowsInv, Exclusive, Apiece, OwnRow
<1> QED BY <1>2, <1>3, <1>4, <1>5, <1>7, <1>8, TurnKeeps

\* Where a commit puts the rows.
LEMMA CommitRows ==
    ASSUME RowsInv, NEW c \in Callers, Commit(c)
    PROVE  /\ Ends(c, "ok") /\ pos' \in [Rows -> Nat] /\ raced' \in [Callers -> BOOLEAN] /\ clean' \in BOOLEAN
           /\ pc[c] \in Lasts /\ Fits(pc[c], req[c]) /\ req[c] \in Requests
           /\ todo[c] = {} /\ stuck[c] = NoRow /\ DOMAIN mine[c] \subseteq Rows
           /\ \A r \in Rows \ DOMAIN mine[c] : pos'[r] = pos[r]
           /\ \A r \in DOMAIN mine[c] :
                /\ pos'[r] = mine[c][r]
                /\ pos'[r] # Gone => pos'[r] \in made[c]
                /\ r = req[c].row => req[c].op = "insert" /\ pos'[r] = req[c].at
                /\ r # req[c].row => /\ pos[r] \in Nat /\ pos[r] >= 1 /\ Covers(req[c], pos[r])
                                     /\ pos'[r] = Final(req[c], pos[r])
<1> DEFINE q == req[c]
           s == pc[c]
<1>0. /\ Typed /\ Formed(c) /\ Held(c) /\ EntriesOf(c) /\ q \in Requests /\ mine[c] \in Written /\ NoRow \notin Rows
      /\ pos \in [Rows -> Nat]
  BY RowsNat DEF RowsInv, Typed
<1>1. /\ s \in Statements /\ todo[c] = {} /\ stuck[c] = NoRow /\ Ends(c, "ok")
      /\ s = Script[q.op][Len(Script[q.op])] /\ pos' = [r \in Rows |-> Sees(c, r)]
      /\ clean' = (clean /\ ~raced[c]) /\ Race(Others(c))
  BY DEF Commit, Done, InStatement, InLast
<1>2. Fits(s, q)
  BY <1>0, <1>1 DEF Formed
<1>3. s \in Lasts
  <2>1. q.op \in Ops
    BY <1>0 DEF Requests
  <2> QED BY <1>1, <2>1, ScriptLast DEF Lasts
<1>4. DOMAIN mine[c] \subseteq Rows
  BY <1>0, MineTyped
<1>5. \A r \in Rows \ DOMAIN mine[c] : pos'[r] = pos[r]
  BY <1>1 DEF Sees, Holds
<1>6. ASSUME NEW r \in DOMAIN mine[c]
      PROVE  /\ pos'[r] = mine[c][r] /\ pos'[r] \in Nat
             /\ pos'[r] # Gone => pos'[r] \in made[c]
             /\ r = q.row => q.op = "insert" /\ pos'[r] = q.at
             /\ r # q.row => /\ pos[r] \in Nat /\ pos[r] >= 1 /\ Covers(q, pos[r])
                             /\ pos'[r] = Final(q, pos[r])
  <2>1. pos'[r] = mine[c][r] /\ r \in Rows /\ HeldRow(c, r)
    BY <1>0, <1>1, <1>4 DEF Sees, Holds, Held
  <2>2. pos'[r] # Gone => pos'[r] \in made[c]
    BY <1>0, <1>1, <2>1 DEF EntriesOf
  <2>3. CASE r = q.row
    <3>1. mine[c][r] = q.at /\ q.at \in Int /\ q.at >= 1
      BY <1>0, <1>2, <2>1, <2>3, FitsCases DEF HeldRow
    <3>2. q.op = "insert"
      BY <1>0, <1>1, <2>1, <2>3 DEF Formed, Statements
    <3> QED BY <2>1, <2>2, <2>3, <3>1, <3>2
  <2>4. CASE r # q.row
    <3>1. pos[r] # Gone /\ Covers(q, pos[r]) /\ mine[c][r] = Leave(s, q, pos[r])
      BY <1>1, <2>1, <2>4 DEF HeldRow
    <3>2. pos[r] \in Nat /\ pos[r] >= 1
      BY <1>0, <2>1, <3>1 DEF Gone
    <3> QED BY <1>0, <1>2, <1>3, <2>1, <2>2, <2>4, <3>1, <3>2, EndsAt
  <2> QED BY <2>3, <2>4
<1>7. pos' \in [Rows -> Nat]
  <2>1. \A r \in Rows : Sees(c, r) \in Nat
    BY <1>0, <1>1, <1>6 DEF Sees, Holds
  <2> QED BY <1>1, <2>1
<1>8. raced' \in [Callers -> BOOLEAN] /\ clean' \in BOOLEAN
  BY <1>0, <1>1 DEF Race, Typed
<1> QED BY <1>0, <1>1, <1>2, <1>3, <1>4, <1>5, <1>6, <1>7, <1>8

LEMMA CommitKeys ==
    ASSUME RowsInv, NEW c \in Callers, Commit(c)
    PROVE  KeyHolds' /\ \A d \in Callers \ {c} : Spared(d)
<1>0. Typed /\ Formed(c) /\ EntriesOf(c) /\ KeyHolds /\ DOMAIN mine[c] \subseteq Rows
  BY MineTyped DEF RowsInv, Typed
<1>1. \A r \in Rows \ DOMAIN mine[c] : pos'[r] = pos[r]
  BY CommitRows
<1>2. \A r \in DOMAIN mine[c] : pos'[r] = mine[c][r] /\ (pos'[r] # Gone => pos'[r] \in made[c])
  BY CommitRows
<1>3. KeyHolds'
  <2> SUFFICES ASSUME NEW r \in Rows, NEW t \in Rows, pos'[r] # Gone, pos'[r] = pos'[t] PROVE r = t
    BY DEF KeyHolds
  <2>1. CASE r \in DOMAIN mine[c] /\ t \in DOMAIN mine[c]
    BY <1>0, <1>2, <2>1 DEF EntriesOf
  <2>2. CASE r \in DOMAIN mine[c] /\ t \notin DOMAIN mine[c]
    BY <1>0, <1>1, <1>2, <2>2 DEF EntriesOf
  <2>3. CASE r \notin DOMAIN mine[c] /\ t \in DOMAIN mine[c]
    BY <1>0, <1>1, <1>2, <2>3 DEF EntriesOf
  <2>4. CASE r \notin DOMAIN mine[c] /\ t \notin DOMAIN mine[c]
    BY <1>0, <1>1, <2>4 DEF KeyHolds
  <2> QED BY <2>1, <2>2, <2>3, <2>4
<1>4. ASSUME NEW d \in Callers \ {c} PROVE Spared(d)
  <2>0. /\ DOMAIN mine[d] \cap DOMAIN mine[c] = {} /\ made[d] \cap made[c] = {} /\ DOMAIN mine[d] \subseteq Rows
        /\ req[d].row # NoRow => req[d].row \notin DOMAIN mine[c] /\ req[d].row \in Rows /\ pos[req[d].row] = Gone
        /\ EntriesOf(d)
    <3>1. mine[d] \in Written /\ req[d] \in Requests /\ Formed(d)
      BY DEF RowsInv, Typed
    <3>2. req[d].row # NoRow => req[d].row \in Rows /\ pos[req[d].row] = Gone
      BY <3>1 DEF Requests, Formed
    <3> QED BY <3>1, <3>2, MineTyped DEF RowsInv, Exclusive, Apiece, OwnRow
  <2>1. \A r \in DOMAIN mine[d] : pos'[r] = pos[r]
    BY <1>1, <2>0
  <2>2. req[d].row # NoRow => pos'[req[d].row] = Gone
    BY <1>1, <2>0
  <2>3. \A r \in Rows : pos'[r] # Gone /\ pos'[r] \in made[d] => r \in DOMAIN mine[d]
    BY <1>1, <1>2, <2>0 DEF EntriesOf
  <2> QED BY <2>1, <2>2, <2>3 DEF Spared
<1> QED BY <1>3, <1>4

LEMMA CommitKeeps ==
    ASSUME RowsInv, NEW c \in Callers, Commit(c)
    PROVE  RowsInv'
<1>1. "ok" \in Results
  BY DEF Results
<1>2. Ends(c, "ok") /\ pos' \in [Rows -> Nat] /\ raced' \in [Callers -> BOOLEAN] /\ clean' \in BOOLEAN
  BY CommitRows
<1> QED BY <1>1, <1>2, CommitKeys, EndsKeeps

-----------------------------------------------------------------------------
(* Deletions.                                                              *)

\* Rows that nobody has written leave the list.
LEMMA GoneKeeps ==
    ASSUME RowsInv, NEW T, \A c \in Callers : T \cap DOMAIN mine[c] = {},
           pos' = [r \in Rows |-> IF r \in T THEN Gone ELSE pos[r]],
           raced' \in [Callers -> BOOLEAN], clean' \in BOOLEAN, alive' \in BOOLEAN,
           UNCHANGED <<pc, locals, result>>
    PROVE  RowsInv'
<1>0. Typed
  BY DEF RowsInv
<1>1. \A d \in Callers : Same(d)
  BY DEF Same, locals
<1>2. ASSUME NEW d \in Callers PROVE Spared(d)
  <2>1. DOMAIN mine[d] \subseteq Rows /\ Formed(d) /\ EntriesOf(d) /\ req[d] \in Requests
    BY MineTyped DEF RowsInv, Typed
  <2>2. req[d].row \in Rows \cup {NoRow}
    BY <2>1 DEF Requests
  <2> QED BY <2>1, <2>2 DEF Spared, Formed, EntriesOf
<1>3. \A d \in Callers : Formed(d)' /\ Held(d)' /\ EntriesOf(d)'
  BY <1>1, <1>2, SameKeeps DEF RowsInv
<1>4. Typed'
  <2>1. pos' \in [Rows -> Nat]
    BY <1>0 DEF Typed, Gone
  <2> QED BY <1>0, <2>1 DEF Typed, locals
<1>5. KeyHolds'
  BY DEF RowsInv, KeyHolds
<1>6. Exclusive' /\ OwnRow' /\ Apiece'
  BY DEF RowsInv, Exclusive, OwnRow, Apiece, locals
<1> QED BY <1>3, <1>4, <1>5, <1>6 DEF RowsInv

LEMMA DeleteKeeps ==
    ASSUME RowsInv, Delete
    PROVE  RowsInv'
<1>0. Typed
  BY DEF RowsInv
<1>1. \A c \in Callers : Rows \cap DOMAIN mine[c] = {}
  BY EmptyMine DEF Delete, Unheld
<1>2. pos' = [r \in Rows |-> IF r \in Rows THEN Gone ELSE pos[r]]
  BY DEF Delete
<1>3. raced' \in [Callers -> BOOLEAN] /\ clean' \in BOOLEAN /\ alive' \in BOOLEAN /\ UNCHANGED <<pc, locals, result>>
  BY <1>0 DEF Typed, Delete, Race
<1> QED BY <1>1, <1>2, <1>3, GoneKeeps

LEMMA DropTrackKeeps ==
    ASSUME RowsInv, NEW r \in Rows, DropTrack(r)
    PROVE  RowsInv'
<1>0. Typed
  BY DEF RowsInv
<1>1. \A c \in Callers : {r} \cap DOMAIN mine[c] = {}
  BY DEF DropTrack, Holds
<1>2. pos' = [o \in Rows |-> IF o \in {r} THEN Gone ELSE pos[o]]
  BY <1>0 DEF DropTrack, Typed
<1>3. raced' \in [Callers -> BOOLEAN] /\ clean' \in BOOLEAN /\ alive' \in BOOLEAN /\ UNCHANGED <<pc, locals, result>>
  BY <1>0 DEF Typed, DropTrack, Race
<1> QED BY <1>1, <1>2, <1>3, GoneKeeps

-----------------------------------------------------------------------------
(* Every step.                                                             *)

\* A request ends without a trace.
Aborts(c, how) == how \in Results /\ Ends(c, how) /\ UNCHANGED <<pos, history>>

\* A key is refused.
Refused(c) == \/ \E r : VisitsRow(c, r) /\ Taken(c, r, SetTo(pc[c], req[c], Sees(c, r)))
              \/ stuck[c] # NoRow /\ Taken(c, stuck[c], mine[c][stuck[c]])

LEMMA VisitCases ==
    ASSUME RowsInv, NEW c \in Callers, Visit(c)
    PROVE  \/ \E r : VisitsRow(c, r) /\ Update(c, r)
           \/ \E r : Skips(c, r)
           \/ Refused(c) /\ Aborts(c, "duplicate")
           \/ Aborts(c, "gone")
<1>1. PICK r \in todo[c] :
        /\ stuck[c] = NoRow /\ Holders(c, r) = {}
        /\ \/ /\ pc[c] = "put" \/ (Sees(c, r) # Gone /\ Where(pc[c], req[c], Sees(c, r)))
              /\ \/ Update(c, r)
                 \/ Taken(c, r, SetTo(pc[c], req[c], Sees(c, r))) /\ Rollback(c, "duplicate")
           \/ /\ pc[c] # "put" /\ (Sees(c, r) = Gone \/ ~Where(pc[c], req[c], Sees(c, r)))
              /\ todo' = [todo EXCEPT ![c] = @ \ {r}]
              /\ UNCHANGED <<alive, pos, pc, req, seen, mine, made, stuck, result, asked, faults, history>>
           \/ Rollback(c, "gone")
  BY DEF Visit
<1>2. pc[c] \in Statements
  BY DEF RowsInv, Formed
<1>3. \A how : Rollback(c, how) /\ how \in Results => Aborts(c, how)
  BY DEF Rollback, Aborts
<1>4. "duplicate" \in Results /\ "gone" \in Results
  BY DEF Results
<1> QED BY <1>1, <1>2, <1>3, <1>4 DEF VisitsRow, Skips, Refused

LEMMA IndexCases ==
    ASSUME NEW c \in Callers, Index(c)
    PROVE  Indexes(c) \/ (Refused(c) /\ Aborts(c, "duplicate"))
  BY DEF Index, Indexes, Refused, Aborts, Rollback, Results

LEMMA StepCases ==
    ASSUME RowsInv, NEW c \in Callers, Step(c) \/ Lose(c)
    PROVE  \/ Look(c)
           \/ \E s : Turns(c, s)
           \/ \E r : VisitsRow(c, r) /\ Update(c, r)
           \/ \E r : Skips(c, r)
           \/ Indexes(c)
           \/ Commit(c)
           \/ Refused(c) /\ Aborts(c, "duplicate")
           \/ \E how \in {"ok", "absent", "deadlock", "gone", "lost"} : Aborts(c, how)
<1>1. Stay(c) => \E how \in {"ok", "absent"} : Aborts(c, how)
  BY DEF Stay, Aborts, Results
<1>2. Missed(c) => Aborts(c, "absent")
  BY DEF Missed, Rollback, Aborts, Results
<1>3. Detect(c) => Aborts(c, "deadlock")
  BY DEF Detect, Rollback, Aborts, Results
<1>4. Lose(c) => Aborts(c, "lost")
  BY DEF Lose, Rollback, Aborts, Results
<1> HIDE DEF Results
<1> QED BY <1>1, <1>2, <1>3, <1>4, VisitCases, IndexCases, BeginTurns, AdvanceTurns DEF Step

LEMMA AbortsKeeps ==
    ASSUME RowsInv, NEW c \in Callers, NEW how, Aborts(c, how)
    PROVE  RowsInv'
  BY AbortKeeps DEF Aborts

LEMMA CallerKeeps ==
    ASSUME RowsInv, NEW c \in Callers, AddTrack(c) \/ RemoveTrack(c) \/ Reorder(c) \/ Step(c) \/ Lose(c)
    PROVE  RowsInv'
<1>1. CASE AddTrack(c) \/ RemoveTrack(c) \/ Reorder(c)
  BY <1>1, AddTrackKeeps, RemoveTrackKeeps, ReorderKeeps
<1>2. CASE Step(c) \/ Lose(c)
  BY <1>2, StepCases, LookKeeps, TurnsKeep, UpdateKeeps, SkipKeeps, IndexKeeps, CommitKeeps, AbortsKeeps
<1> QED BY <1>1, <1>2

LEMMA InitRows == Init => RowsInv
<1> SUFFICES ASSUME Init PROVE RowsInv
  OBVIOUS
<1>0. Rows = 1..Cardinality(Rows) /\ Cardinality(Rows) \in Nat /\ Listed \in Nat /\ NoRow \notin Rows
  BY RowsAssumption, RowsNat
<1>1. Typed
  <2>1. Idle \in Requests
    BY DEF Idle, Requests, Ops
  <2>2. pos \in [Rows -> Nat]
    BY <1>0 DEF Init, Gone
  <2> QED BY <2>1, <2>2, EmptyMine DEF Init, Typed
<1>2. \A c \in Callers : Formed(c) /\ Held(c) /\ EntriesOf(c)
  BY EmptyMine DEF Init, Formed, Held, EntriesOf, Idle, Statements
<1>3. KeyHolds
  BY DEF Init, KeyHolds
<1>4. Exclusive /\ OwnRow /\ Apiece
  BY EmptyMine DEF Init, Exclusive, OwnRow, Apiece, Idle
<1> QED BY <1>1, <1>2, <1>3, <1>4 DEF RowsInv

LEMMA RowsStep == RowsInv /\ [Next]_vars => RowsInv'
<1> SUFFICES ASSUME RowsInv, [Next]_vars PROVE RowsInv'
  OBVIOUS
<1>1. CASE \E c \in Callers : AddTrack(c) \/ RemoveTrack(c) \/ Reorder(c) \/ Step(c) \/ Lose(c)
  BY <1>1, CallerKeeps
<1>2. CASE Delete
  BY <1>2, DeleteKeeps
<1>3. CASE \E r \in Rows : DropTrack(r)
  BY <1>3, DropTrackKeeps
<1>4. CASE UNCHANGED vars
  <2>1. \A d \in Callers : Same(d) /\ Spared(d)
    <3>1. pos' = pos /\ \A d \in Callers : Same(d)
      BY <1>4 DEF vars, Same
    <3> QED BY <3>1, SparedStill
  <2>2. \A d \in Callers : Formed(d)' /\ Held(d)' /\ EntriesOf(d)'
    BY <2>1, SameKeeps DEF RowsInv
  <2>3. Typed' /\ Exclusive' /\ OwnRow' /\ KeyHolds' /\ Apiece'
    BY <1>4 DEF RowsInv, vars, Typed, Exclusive, OwnRow, KeyHolds, Apiece
  <2> QED BY <2>2, <2>3 DEF RowsInv
<1> QED BY <1>1, <1>2, <1>3, <1>4 DEF Next

-----------------------------------------------------------------------------
(* The order of the rows.                                                  *)

\* Only a commit gives a row another position.
LEMMA OnlyCommits ==
    ASSUME RowsInv, [Next]_vars
    PROVE  (\E c \in Callers : Commit(c)) \/ \A r \in Rows : pos'[r] = pos[r] \/ pos'[r] = Gone
<1>1. ASSUME NEW c \in Callers, AddTrack(c) \/ RemoveTrack(c) \/ Reorder(c) PROVE pos' = pos
  BY <1>1 DEF AddTrack, RemoveTrack, Reorder, Asks
<1>2. ASSUME NEW c \in Callers, Step(c) \/ Lose(c) PROVE Commit(c) \/ pos' = pos
  <2>1. Look(c) => pos' = pos
    BY DEF Look
  <2>2. \A s : Turns(c, s) => pos' = pos
    BY DEF Turns, Starts
  <2>3. \A r : Update(c, r) => pos' = pos
    BY DEF Update
  <2>4. \A r : Skips(c, r) => pos' = pos
    BY DEF Skips
  <2>5. Indexes(c) => pos' = pos
    BY DEF Indexes
  <2>6. \A how : Aborts(c, how) => pos' = pos
    BY DEF Aborts
  <2> QED BY <1>2, <2>1, <2>2, <2>3, <2>4, <2>5, <2>6, StepCases
<1>3. Delete => \A r \in Rows : pos'[r] = Gone
  BY DEF Delete
<1>4. ASSUME NEW t \in Rows, DropTrack(t) PROVE \A r \in Rows : pos'[r] = pos[r] \/ pos'[r] = Gone
  BY <1>4 DEF DropTrack, RowsInv, Typed
<1>5. UNCHANGED vars => pos' = pos
  BY DEF vars
<1> QED BY <1>1, <1>2, <1>3, <1>4, <1>5 DEF Next

LEMMA CommitOrder ==
    ASSUME RowsInv, NEW c \in Callers, Commit(c), NEW a \in Rows, NEW b \in Rows,
           pos[a] # Gone, pos'[a] # Gone, pos[b] # Gone, pos'[b] # Gone,
           {a, b} \cap MovedBy(c) = {}
    PROVE  pos[a] < pos[b] <=> pos'[a] < pos'[b]
<1> DEFINE q == req[c]
<1>0. /\ q \in Requests /\ pc[c] \in Lasts /\ Fits(pc[c], q) /\ Formed(c)
      /\ pos[a] \in Nat /\ pos[b] \in Nat /\ pos[a] >= 1 /\ pos[b] >= 1
  <2>1. pos \in [Rows -> Nat] /\ Formed(c)
    BY DEF RowsInv, Typed
  <2> QED BY <2>1, CommitRows DEF Gone
<1>1. \A r \in {a, b} \ DOMAIN mine[c] : pos'[r] = pos[r]
  BY CommitRows
<1>2. ASSUME NEW r \in {a, b} \cap DOMAIN mine[c]
      PROVE  /\ pos'[r] = Final(q, pos[r]) /\ Covers(q, pos[r])
             /\ q.op = "move" => Final(q, pos[r]) # q.to
  <2>1. r # q.row
    BY <1>0, RowsNat DEF Formed
  <2>2. pos'[r] = mine[c][r] /\ pos'[r] = Final(q, pos[r]) /\ Covers(q, pos[r])
    BY <2>1, CommitRows
  <2>3. r \notin MovedBy(c)
    OBVIOUS
  <2> QED BY <2>2, <2>3 DEF MovedBy
<1>3. a # b => pos[a] # pos[b] /\ pos'[a] # pos'[b]
  BY CommitKeys DEF RowsInv, KeyHolds
<1> SUFFICES ASSUME a # b PROVE pos[a] < pos[b] <=> pos'[a] < pos'[b]
  <2>1. a = b => ~(pos[a] < pos[b]) /\ ~(pos'[a] < pos'[b])
    <3>1. pos'[a] \in Nat
      BY CommitRows
    <3> QED BY <1>0, <3>1
  <2> QED BY <2>1
<1> DEFINE x == pos[a]
           y == pos[b]
<1>4. x \in Nat /\ y \in Nat /\ x >= 1 /\ y >= 1 /\ x # y
  BY <1>0, <1>3
<1>5. CASE a \in DOMAIN mine[c] /\ b \in DOMAIN mine[c]
  <2>1. pos'[a] = Final(q, x) /\ pos'[b] = Final(q, y)
    BY <1>2, <1>5
  <2>2. /\ Covers(q, x) /\ Final(q, x) # Gone /\ (q.op = "move" => Final(q, x) # q.to)
        /\ Covers(q, y) /\ Final(q, y) # Gone /\ (q.op = "move" => Final(q, y) # q.to)
    BY <1>2, <1>5
  <2> HIDE DEF x, y
  <2>3. x < y <=> Final(q, x) < Final(q, y)
    BY <1>0, <1>4, <2>2, FinalKeeps
  <2> QED BY <2>1, <2>3 DEF x, y
<1>6. CASE a \in DOMAIN mine[c] /\ b \notin DOMAIN mine[c]
  <2>1. pos'[a] = Final(q, x) /\ pos'[b] = y
    BY <1>1, <1>2, <1>6
  <2>2. /\ Covers(q, x) /\ Final(q, x) # Gone /\ (q.op = "move" => Final(q, x) # q.to)
        /\ Final(q, x) # y
    BY <1>2, <1>3, <1>6, <2>1
  <2> HIDE DEF x, y
  <2>3. x < y <=> Final(q, x) < y
    BY <1>0, <1>4, <2>2, FinalKeeps
  <2> QED BY <2>1, <2>3 DEF x, y
<1>7. CASE a \notin DOMAIN mine[c] /\ b \in DOMAIN mine[c]
  <2>1. pos'[a] = x /\ pos'[b] = Final(q, y)
    BY <1>1, <1>2, <1>7
  <2>2. /\ Covers(q, y) /\ Final(q, y) # Gone /\ (q.op = "move" => Final(q, y) # q.to)
        /\ Final(q, y) # x
    BY <1>2, <1>3, <1>7, <2>1
  <2> HIDE DEF x, y
  <2>3. x < y <=> x < Final(q, y)
    BY <1>0, <1>4, <2>2, FinalKeeps
  <2> QED BY <2>1, <2>3 DEF x, y
<1>8. CASE a \notin DOMAIN mine[c] /\ b \notin DOMAIN mine[c]
  BY <1>1, <1>8
<1> QED BY <1>5, <1>6, <1>7, <1>8

\* Whatever runs at the same time, no commit changes the order of two rows of the list
\* unless it moves one of them (move_track, insert_track, remove_track_at, pg.rs).
THEOREM OrderStays == Spec => OrderKept
<1> DEFINE Ordered ==
      \A a, b \in Rows :
         /\ pos[a] # Gone /\ pos'[a] # Gone /\ pos[b] # Gone /\ pos'[b] # Gone
         /\ \A c \in Callers : pc'[c] = "idle" => {a, b} \cap MovedBy(c) = {}
         => (pos[a] < pos[b] <=> pos'[a] < pos'[b])
<1>1. RowsInv /\ [Next]_vars => Ordered
  <2> SUFFICES ASSUME RowsInv, [Next]_vars, NEW a \in Rows, NEW b \in Rows,
                      pos[a] # Gone, pos'[a] # Gone, pos[b] # Gone, pos'[b] # Gone,
                      \A c \in Callers : pc'[c] = "idle" => {a, b} \cap MovedBy(c) = {}
               PROVE  pos[a] < pos[b] <=> pos'[a] < pos'[b]
    OBVIOUS
  <2>1. CASE \A r \in Rows : pos'[r] = pos[r] \/ pos'[r] = Gone
    BY <2>1
  <2>2. ASSUME NEW c \in Callers, Commit(c) PROVE pos[a] < pos[b] <=> pos'[a] < pos'[b]
    <3>1. pc'[c] = "idle"
      BY <2>2 DEF Commit, Ends, RowsInv, Typed
    <3> QED BY <2>2, <3>1, CommitOrder
  <2> QED BY <2>1, <2>2, OnlyCommits
<1>2. Ordered => [Ordered]_vars
  OBVIOUS
<1> QED BY <1>1, InitRows, RowsStep, PTL DEF Spec, OrderKept

-----------------------------------------------------------------------------
(* Requests that were not raced.                                           *)

\* The committed rows are still those that the statements so far went by: each is where
\* they left it, and what is still to be visited is there and as it was seen.
CalmRows(c) ==
    /\ pc[c] # "put" => todo[c] \subseteq Live
    /\ \A r \in Live :
         /\ Sees(c, r) = IF r \in todo[c] THEN Enter(pc[c], req[c], pos[r]) ELSE Leave(pc[c], req[c], pos[r])
         /\ r \in todo[c] => Visits(pc[c], req[c], pos[r])

\* So are those that the request itself was made by.
CalmRequest(c) ==
    /\ req[c].op = "insert" => req[c].at <= NextPosition
    /\ req[c].op = "remove" => pos[seen[c]] = req[c].at
    /\ req[c].op = "move" => /\ pc[c] # "look" => pos[seen[c]] = req[c].at
                             /\ req[c].to = 1 \/ req[c].to < NextPosition

Calm(c) ==
    pc[c] # "idle" /\ ~raced[c] => CalmRequest(c) /\ (pc[c] \in Statements => CalmRows(c))

CalmInv == RowsInv /\ (\A c \in Callers : Calm(c)) /\ FailsOnlyWhenRaced

LEMMA NextKept == pos' = pos => NextPosition' = NextPosition
  BY DEF NextPosition, Live

LEMMA SameCalm ==
    ASSUME NEW d \in Callers, Same(d), raced'[d] = raced[d], pos' = pos, Calm(d)
    PROVE  Calm(d)'
<1>1. NextPosition' = NextPosition
  BY NextKept
<1>2. CalmRequest(d) => CalmRequest(d)'
  BY <1>1 DEF CalmRequest, Same
<1>3. pc[d] \in Statements /\ CalmRows(d) => CalmRows(d)'
  BY DEF CalmRows, Same, Sees, Holds, Live
<1> QED BY <1>2, <1>3 DEF Calm, Same

\* c's turn, which commits nothing and refuses it no key.
LEMMA CalmTurn ==
    ASSUME CalmInv, NEW c \in Callers, pos' = pos, \A d \in Callers \ {c} : Same(d) /\ raced'[d] = raced[d],
           Calm(c)', \A d \in Callers \ {c} : result'[d] = result[d],
           result'[c] = "duplicate" => raced'[c]
    PROVE  (\A d \in Callers : Calm(d)') /\ FailsOnlyWhenRaced'
<1>1. \A d \in Callers : Calm(d)'
  BY SameCalm DEF CalmInv
<1>2. FailsOnlyWhenRaced'
  BY DEF CalmInv, FailsOnlyWhenRaced
<1> QED BY <1>1, <1>2

LEMMA AsksCalm ==
    ASSUME CalmInv, NEW c \in Callers, NEW q \in Requests, NEW row \in Rows \cup {NoRow},
           NEW at \in {"look", "begin"}, Asks(c, q, row, at),
           q.op = "insert" => q.at <= NextPosition,
           q.op = "remove" => pos[row] = q.at,
           q.op = "move" => at = "look" /\ (q.to = 1 \/ q.to < NextPosition)
    PROVE  (\A d \in Callers : Calm(d)') /\ FailsOnlyWhenRaced'
<1>0. Typed
  BY DEF CalmInv, RowsInv
<1>1. pos' = pos /\ pc'[c] = at /\ req'[c] = q /\ seen'[c] = row /\ result'[c] = "none"
  BY <1>0 DEF Asks, Typed
<1>2. \A d \in Callers \ {c} : Same(d) /\ raced'[d] = raced[d] /\ result'[d] = result[d]
  BY <1>0 DEF Asks, Typed, Same
<1>3. Calm(c)'
  <2>1. CalmRequest(c)'
    BY <1>1, NextKept DEF CalmRequest
  <2> QED BY <1>1, <2>1 DEF Calm, Statements
<1> QED BY <1>1, <1>2, <1>3, CalmTurn

LEMMA RequestsCalm ==
    ASSUME CalmInv, NEW c \in Callers, AddTrack(c) \/ RemoveTrack(c) \/ Reorder(c)
    PROVE  (\A d \in Callers : Calm(d)') /\ FailsOnlyWhenRaced'
<1>0. Typed /\ NextPosition \in Nat /\ NextPosition >= 1
  BY NextFree DEF CalmInv, RowsInv
<1>1. CASE AddTrack(c)
  <2>1. PICK p \in Places, r \in Fresh :
           Asks(c, [op |-> "insert", row |-> r, at |-> Clamp(p), to |-> 0], NoRow, "begin")
    BY <1>1 DEF AddTrack
  <2>2. PICK q : q = [op |-> "insert", row |-> r, at |-> Clamp(p), to |-> 0]
    OBVIOUS
  <2>3. Clamp(p) \in Int /\ Clamp(p) <= NextPosition
    BY <1>0, RowsAssumption DEF Clamp
  <2>4. q \in Requests /\ q.op = "insert" /\ q.at = Clamp(p)
    BY <2>2, <2>3 DEF Requests, Ops, Fresh
  <2>5. Asks(c, q, NoRow, "begin")
    BY <2>1, <2>2
  <2> QED BY <2>3, <2>4, <2>5, AsksCalm
<1>2. CASE RemoveTrack(c)
  <2>a. PICK p \in Places : \E r \in At(p) :
           Asks(c, [op |-> "remove", row |-> NoRow, at |-> p, to |-> 0], r, "begin")
    BY <1>2 DEF RemoveTrack
  <2>1. PICK r \in At(p) : Asks(c, [op |-> "remove", row |-> NoRow, at |-> p, to |-> 0], r, "begin")
    BY <2>a
  <2>2. PICK q : q = [op |-> "remove", row |-> NoRow, at |-> p, to |-> 0]
    OBVIOUS
  <2>3. r \in Rows /\ pos[r] = p /\ p \in Int
    BY RowsAssumption DEF At, Live
  <2>4. q \in Requests /\ q.op = "remove" /\ q.at = p
    BY <2>2, <2>3 DEF Requests, Ops
  <2>5. Asks(c, q, r, "begin")
    BY <2>1, <2>2
  <2> QED BY <2>3, <2>4, <2>5, AsksCalm
<1>3. CASE Reorder(c)
  <2> DEFINE last == IF NextPosition > 2 THEN NextPosition - 1 ELSE 1
  <2>1. PICK p \in Places, t \in Places :
           /\ p >= 1 /\ t >= 1
           /\ Asks(c, [op |-> "move", row |-> NoRow, at |-> p, to |-> IF t < last THEN t ELSE last], NoRow, "look")
    BY <1>3 DEF Reorder
  <2>2. last \in Int /\ last >= 1 /\ (last = 1 \/ last < NextPosition)
    BY <1>0
  <2> HIDE DEF last
  <2>3. PICK q : q = [op |-> "move", row |-> NoRow, at |-> p, to |-> IF t < last THEN t ELSE last]
    OBVIOUS
  <2>4. t \in Int /\ p \in Int
    BY RowsAssumption
  <2>5. q \in Requests /\ q.op = "move" /\ q.to = IF t < last THEN t ELSE last
    BY <2>2, <2>3, <2>4 DEF Requests, Ops
  <2>6. q.to = 1 \/ q.to < NextPosition
    BY <1>0, <2>1, <2>2, <2>4, <2>5
  <2>7. Asks(c, q, NoRow, "look")
    BY <2>1, <2>3
  <2> QED BY <2>5, <2>6, <2>7, AsksCalm
<1> QED BY <1>1, <1>2, <1>3

\* While nothing was committed in between, a statement finds every row where the one
\* before it left it.
LEMMA TurnsCalm ==
    ASSUME CalmInv, NEW c \in Callers, NEW s, Turns(c, s)
    PROVE  (\A d \in Callers : Calm(d)') /\ FailsOnlyWhenRaced'
<1> DEFINE q == req[c]
<1>0. /\ RowsInv /\ Typed /\ Formed(c) /\ q \in Requests /\ pos \in [Rows -> Nat] /\ Fits(s, q)
      /\ Starts(c, s) /\ s \in Statements
  BY DEF CalmInv, RowsInv, Typed, Turns
<1>1. /\ pos' = pos /\ pc'[c] = s /\ req'[c] = q /\ seen'[c] = seen[c] /\ mine'[c] = mine[c]
      /\ todo'[c] = Snapshot(c, s) /\ result' = result /\ raced' = raced
  BY <1>0 DEF Typed, Starts, history
<1>2. \A d \in Callers \ {c} : Same(d) /\ raced'[d] = raced[d]
  BY <1>0, <1>1 DEF Typed, Starts, Same
<1>3. Calm(c)'
  <2> SUFFICES ASSUME ~raced[c] PROVE CalmRequest(c)' /\ CalmRows(c)'
    BY <1>1 DEF Calm
  <2>1. CalmRequest(c)
    <3>1. pc[c] # "idle"
      BY DEF Turns, Statements
    <3> QED BY <3>1 DEF CalmInv, Calm
  <2>2. CalmRequest(c)'
    <3>1. pc[c] # "look"
      BY DEF Turns, Statements
    <3>2. NextPosition' = NextPosition
      BY <1>1, NextKept
    <3> QED BY <1>1, <2>1, <3>1, <3>2 DEF CalmRequest
  <2>3. ASSUME NEW r \in Live
        PROVE  r \in Rows /\ pos[r] \in Nat /\ pos[r] >= 1 /\ Sees(c, r) = Enter(s, q, pos[r])
    <3>1. r \in Rows /\ pos[r] \in Nat /\ pos[r] >= 1 /\ pos[r] # Gone
      BY <1>0 DEF Live, Gone
    <3>2. CASE pc[c] = "begin" /\ s \in Firsts
      <4>1. mine[c] = <<>>
        BY <1>0, <3>2 DEF Formed, Statements
      <4>2. Sees(c, r) = pos[r]
        BY <4>1, EmptyMine DEF Sees, Holds
      <4> QED BY <1>0, <3>1, <3>2, <4>2, StartsAt
    <3>3. CASE pc[c] \in Statements /\ Follows(pc[c], q, s)
      <4>1. Fits(pc[c], q) /\ CalmRows(c) /\ todo[c] = {}
        BY <1>0, <3>3 DEF Formed, CalmInv, Calm, Turns, Statements
      <4>2. Sees(c, r) = Leave(pc[c], q, pos[r])
        BY <4>1 DEF CalmRows
      <4> QED BY <1>0, <3>1, <3>3, <4>1, <4>2, Continues
    <3> QED BY <3>1, <3>2, <3>3 DEF Turns
  <2>4. s # "put" => Snapshot(c, s) \subseteq Live
    <3> SUFFICES ASSUME s # "put", NEW r \in Snapshot(c, s) PROVE pos[r] # Gone /\ r \in Rows
      BY DEF Live
    <3>1. r \in Rows /\ Sees(c, r) # Gone /\ Where(s, q, Sees(c, r))
      BY <1>0, SnapshotOf
    <3>2. CASE r \notin DOMAIN mine[c]
      BY <3>1, <3>2 DEF Sees, Holds
    <3>3. CASE r \in DOMAIN mine[c] /\ r # q.row
      BY <1>0, <3>1, <3>3 DEF RowsInv, Held, HeldRow
    <3>4. CASE r \in DOMAIN mine[c] /\ r = q.row
      <4>1. HeldRow(c, r)
        BY <1>0, <3>4 DEF RowsInv, Held
      <4>2. pc[c] \in {"put", "flip"} /\ mine[c][r] = q.at
        BY <3>4, <4>1 DEF HeldRow
      <4>3. s = "flip"
        BY <4>2 DEF Turns, Follows
      <4>4. Sees(c, r) = q.at
        BY <3>4, <4>2 DEF Sees, Holds
      <4> QED BY <1>0, <3>1, <4>3, <4>4, WhereOf, FitsCases
    <3> QED BY <3>2, <3>3, <3>4
  <2>5. ASSUME NEW r \in Live
        PROVE  /\ Sees(c, r) = IF r \in Snapshot(c, s) THEN Enter(s, q, pos[r]) ELSE Leave(s, q, pos[r])
               /\ r \in Snapshot(c, s) => Visits(s, q, pos[r])
    <3>1. CASE s = "put"
      <4>1. r # q.row
        <5>1. pos[r] # Gone
          BY DEF Live
        <5>2. q.row # NoRow
          BY <1>0, <3>1 DEF Formed, Fits, Turns, Statements
        <5> QED BY <1>0, <5>1, <5>2 DEF Formed
      <4>2. r \notin Snapshot(c, s)
        BY <3>1, <4>1 DEF Snapshot
      <4> QED BY <2>3, <3>1, <4>2 DEF Leave, Visits
    <3>2. CASE s # "put"
      <4>1. r \in Snapshot(c, s) <=> Visits(s, q, pos[r])
        BY <1>0, <2>3, <3>2, SnapshotVisits
      <4> QED BY <2>3, <4>1 DEF Leave
    <3> QED BY <3>1, <3>2
  <2>6. CalmRows(c)'
    BY <1>1, <2>4, <2>5 DEF CalmRows, Sees, Holds, Live
  <2> QED BY <2>2, <2>6
<1> QED BY <1>1, <1>2, <1>3, CalmTurn DEF CalmInv, FailsOnlyWhenRaced

LEMMA LookCalm ==
    ASSUME CalmInv, NEW c \in Callers, Look(c), ~(\E how : Aborts(c, how) /\ how # "duplicate")
    PROVE  (\A d \in Callers : Calm(d)') /\ FailsOnlyWhenRaced'
<1>0. Typed /\ pc[c] = "look" /\ req[c].op = "move"
  BY DEF CalmInv, RowsInv, Formed, Look
<1>1. At(req[c].at) = {} /\ Ends(c, "absent") /\ UNCHANGED <<pos, faults, history>> => Aborts(c, "absent")
  BY DEF Aborts, Results
<1>2. PICK r \in At(req[c].at) :
        /\ seen' = [seen EXCEPT ![c] = r]
        /\ pc' = [pc EXCEPT ![c] = "begin"]
        /\ UNCHANGED <<alive, pos, req, mine, made, todo, stuck, result, asked, faults, history>>
  BY <1>1 DEF Look
<1>3. \A d \in Callers \ {c} : Same(d) /\ raced'[d] = raced[d]
  BY <1>0, <1>2 DEF Typed, Same, history
<1>4. Calm(c)'
  <2>1. pc'[c] = "begin" /\ seen'[c] = r /\ pos[r] = req[c].at /\ pos' = pos /\ req' = req /\ raced' = raced
    BY <1>0, <1>2 DEF Typed, At, history
  <2>2. NextPosition' = NextPosition
    BY <2>1, NextKept
  <2>3. ~raced[c] => req[c].to = 1 \/ req[c].to < NextPosition
    BY <1>0 DEF CalmInv, Calm, CalmRequest
  <2> QED BY <1>0, <2>1, <2>2, <2>3 DEF Calm, CalmRequest, Statements
<1> QED BY <1>2, <1>3, <1>4, CalmTurn DEF CalmInv, FailsOnlyWhenRaced, history

LEMMA UpdateCalm ==
    ASSUME CalmInv, NEW c \in Callers, NEW r, VisitsRow(c, r), Update(c, r)
    PROVE  (\A d \in Callers : Calm(d)') /\ FailsOnlyWhenRaced'
<1> DEFINE s == pc[c]
           q == req[c]
           p == SetTo(s, q, Sees(c, r))
           m == Wrote(mine[c], r, p)
<1>0. /\ RowsInv /\ Typed /\ r \in Rows /\ p \in Int /\ s \in Statements /\ mine[c] \in Written
  BY VisitedRow DEF CalmInv, RowsInv, Typed, VisitsRow
<1>1. /\ pc'[c] = s /\ req'[c] = q /\ seen'[c] = seen[c] /\ mine'[c] = m
      /\ todo'[c] = todo[c] \ {r} /\ pos' = pos /\ result' = result /\ raced' = raced
  BY <1>0 DEF Typed, Update, Wrote, history
<1>2. /\ DOMAIN m = DOMAIN mine[c] \cup {r} /\ m[r] = p
      /\ \A t \in DOMAIN mine[c] : t # r => m[t] = mine[c][t]
  BY <1>0, WriteOne
<1>3. \A d \in Callers \ {c} : Same(d) /\ raced'[d] = raced[d]
  <2>1. \A d \in Callers \ {c} : Same(d)
    BY <1>0 DEF Typed, Update, Same
  <2> QED BY <1>1, <2>1
<1>4. r \in Live => p = Leave(s, q, pos[r])
  <2>1. r \in Live => r # q.row
    <3>1. r \in Live => pos[r] # Gone
      BY DEF Live
    <3>2. r # NoRow /\ Formed(c)
      BY <1>0, RowsNat DEF RowsInv
    <3> QED BY <3>1, <3>2 DEF Formed
  <2> QED BY <1>0, <2>1, VisitedRow
<1>5. Calm(c)'
  <2> SUFFICES ASSUME ~raced[c] PROVE CalmRequest(c)' /\ CalmRows(c)'
    BY <1>1 DEF Calm
  <2>1. CalmRequest(c) /\ CalmRows(c)
    <3>1. s # "idle"
      BY <1>0 DEF Statements
    <3> QED BY <1>0, <3>1 DEF CalmInv, Calm
  <2>2. CalmRequest(c)'
    <3>1. NextPosition' = NextPosition
      BY <1>1, NextKept
    <3> QED BY <1>1, <2>1, <3>1 DEF CalmRequest
  <2> HIDE DEF m, p
  <2>3. ASSUME NEW t \in Live
        PROVE  /\ (IF t \in DOMAIN m THEN m[t] ELSE pos[t]) =
                     IF t \in todo[c] \ {r} THEN Enter(s, q, pos[t]) ELSE Leave(s, q, pos[t])
               /\ t \in todo[c] \ {r} => Visits(s, q, pos[t])
    <3>1. CASE t = r
      BY <1>2, <1>4, <3>1
    <3>2. CASE t # r
      <4>1. (IF t \in DOMAIN m THEN m[t] ELSE pos[t]) = Sees(c, t)
        BY <1>2, <3>2 DEF Sees, Holds
      <4> QED BY <2>1, <3>2, <4>1 DEF CalmRows
    <3> QED BY <3>1, <3>2
  <2>4. CalmRows(c)'
    <3>1. s # "put" => todo[c] \ {r} \subseteq Live
      BY <2>1 DEF CalmRows
    <3> QED BY <1>1, <2>3, <3>1 DEF CalmRows, Sees, Holds, Live
  <2> QED BY <2>2, <2>4
<1> QED BY <1>1, <1>3, <1>5, CalmTurn DEF CalmInv, FailsOnlyWhenRaced

\* A row is passed over only if somebody else's change was committed.
LEMMA SkipCalm ==
    ASSUME CalmInv, NEW c \in Callers, NEW r, Skips(c, r)
    PROVE  (\A d \in Callers : Calm(d)') /\ FailsOnlyWhenRaced'
<1>0. /\ RowsInv /\ Typed /\ Formed(c) /\ req[c] \in Requests
  BY DEF CalmInv, RowsInv, Typed
<1>1. /\ pc'[c] = pc[c] /\ pos' = pos /\ result' = result /\ raced' = raced
  BY DEF Skips, history
<1>2. \A d \in Callers \ {c} : Same(d) /\ raced'[d] = raced[d]
  <2>1. \A d \in Callers \ {c} : Same(d)
    BY <1>0 DEF Typed, Skips, Same
  <2> QED BY <1>1, <2>1
<1>3. raced[c]
  <2> SUFFICES ASSUME ~raced[c] PROVE FALSE
    BY <1>0 DEF Typed
  <2>0. pc[c] \in Statements /\ pc[c] # "put" /\ pc[c] # "idle" /\ r \in todo[c] /\ Fits(pc[c], req[c])
    BY <1>0 DEF Skips, Formed, Statements
  <2>1. CalmRows(c)
    BY <2>0 DEF CalmInv, Calm
  <2>2. r \in Live /\ Sees(c, r) = Enter(pc[c], req[c], pos[r]) /\ Visits(pc[c], req[c], pos[r])
    BY <2>0, <2>1 DEF CalmRows
  <2>3. Where(pc[c], req[c], Sees(c, r))
    BY <2>2 DEF Visits
  <2>4. Sees(c, r) # Gone
    BY <1>0, <2>0, <2>3, GoneStays
  <2> QED BY <2>3, <2>4 DEF Skips
<1>4. Calm(c)'
  BY <1>1, <1>3 DEF Calm
<1> QED BY <1>1, <1>2, <1>4, CalmTurn DEF CalmInv, FailsOnlyWhenRaced

LEMMA IndexCalm ==
    ASSUME CalmInv, NEW c \in Callers, Indexes(c)
    PROVE  (\A d \in Callers : Calm(d)') /\ FailsOnlyWhenRaced'
<1>0. Typed
  BY DEF CalmInv, RowsInv
<1>1. UNCHANGED <<pos, pc, req, seen, mine, todo, result, raced>>
  BY DEF Indexes, history
<1>2. \A d \in Callers \ {c} : Same(d) /\ raced'[d] = raced[d]
  <2>1. \A d \in Callers \ {c} : Same(d)
    BY <1>0 DEF Typed, Indexes, Same
  <2> QED BY <1>1, <2>1
<1>3. Calm(c)'
  <2>1. NextPosition' = NextPosition
    BY <1>1, NextKept
  <2>2. CalmRequest(c) => CalmRequest(c)'
    BY <1>1, <2>1 DEF CalmRequest
  <2>3. CalmRows(c) => CalmRows(c)'
    BY <1>1 DEF CalmRows, Sees, Holds, Live
  <2> QED BY <1>1, <2>2, <2>3 DEF CalmInv, Calm
<1> QED BY <1>1, <1>2, <1>3, CalmTurn DEF CalmInv, FailsOnlyWhenRaced

\* A statement that finds every row where it should be puts none where another one is.
LEMMA VisitFree ==
    ASSUME CalmInv, NEW c \in Callers, ~raced[c], NEW r, NEW p,
           pc[c] \in Statements, r \in Rows,
           \/ r = req[c].row /\ p = req[c].at /\ pc[c] \in {"put", "flip"}
           \/ /\ r # req[c].row /\ pos[r] # Gone /\ Visits(pc[c], req[c], pos[r])
              /\ p = Leave(pc[c], req[c], pos[r])
    PROVE  ~Taken(c, r, p)
<1> DEFINE s == pc[c]
           q == req[c]
<1>0. /\ RowsInv /\ Typed /\ Formed(c) /\ Held(c) /\ KeyHolds /\ q \in Requests /\ pos \in [Rows -> Nat]
      /\ Fits(s, q) /\ NoRow \notin Rows
  BY RowsNat DEF CalmInv, RowsInv, Typed, Formed
<1>1. CalmRows(c)
  <2>1. s # "idle"
    BY DEF Statements
  <2> QED BY <2>1 DEF CalmInv, Calm
<1> SUFFICES ASSUME NEW o \in Rows \ {r}, p # Gone, Sees(c, o) = p PROVE FALSE
  BY DEF Taken
<1>2. CASE pos[o] = Gone
  <2>1. o \in DOMAIN mine[c] /\ mine[c][o] = p
    BY <1>2 DEF Sees, Holds
  <2>2. HeldRow(c, o)
    BY <1>0, <2>1 DEF Held
  <2>3. o = q.row /\ s \in {"put", "flip"} /\ p = q.at
    BY <1>2, <2>1, <2>2 DEF HeldRow
  <2>4. q.op = "insert" /\ r # q.row
    BY <1>0, <2>3 DEF Formed, Statements
  <2>5. pos[r] \in Nat /\ pos[r] >= 1 /\ p = Leave(s, q, pos[r])
    BY <1>0, <2>4 DEF Gone
  <2> QED BY <1>0, <2>3, <2>4, <2>5, Beside
<1>3. CASE pos[o] # Gone
  <2>1. o \in Live /\ pos[o] \in Nat /\ pos[o] >= 1
    BY <1>0, <1>3 DEF Live, Gone
  <2>2. p = Enter(s, q, pos[o]) \/ p = Leave(s, q, pos[o])
    BY <1>1, <2>1 DEF CalmRows
  <2>3. CASE r = q.row
    <3>1. q.op = "insert" /\ s \in {"put", "flip"} /\ p = q.at
      BY <1>0, <2>3 DEF Formed, Statements
    <3> QED BY <1>0, <2>1, <2>2, <3>1, Beside
  <2>4. CASE r # q.row
    <3>1. pos[r] \in Nat /\ pos[r] >= 1 /\ Visits(s, q, pos[r]) /\ p = Leave(s, q, pos[r]) /\ pos[r] # pos[o]
      BY <1>0, <2>4 DEF Gone, KeyHolds
    <3> QED BY <1>0, <2>1, <2>2, <3>1, Apart
  <2> QED BY <2>3, <2>4
<1> QED BY <1>2, <1>3

LEMMA RefusedRaced ==
    ASSUME CalmInv, NEW c \in Callers, Refused(c)
    PROVE  raced[c]
<1>0. RowsInv /\ Typed /\ Formed(c) /\ Held(c)
  BY DEF CalmInv, RowsInv
<1> SUFFICES ASSUME ~raced[c] PROVE FALSE
  BY <1>0 DEF Typed
<1>1. ASSUME NEW r, VisitsRow(c, r), Taken(c, r, SetTo(pc[c], req[c], Sees(c, r))) PROVE FALSE
  <2>1. pc[c] \in Statements
    BY <1>1 DEF VisitsRow
  <2>2. r = req[c].row => pc[c] = "put" /\ SetTo(pc[c], req[c], Sees(c, r)) = req[c].at
    BY <1>0, <1>1, VisitedRow
  <2>3. r # req[c].row => /\ pos[r] # Gone /\ Visits(pc[c], req[c], pos[r])
                          /\ SetTo(pc[c], req[c], Sees(c, r)) = Leave(pc[c], req[c], pos[r])
    BY <1>0, <1>1, VisitedRow
  <2>4. r \in Rows
    BY <1>0, <1>1, VisitedRow
  <2> QED BY <1>1, <2>1, <2>2, <2>3, <2>4, VisitFree
<1>2. ASSUME stuck[c] # NoRow, Taken(c, stuck[c], mine[c][stuck[c]]) PROVE FALSE
  <2>1. stuck[c] \in DOMAIN mine[c] /\ stuck[c] \notin todo[c] /\ HeldRow(c, stuck[c]) /\ pc[c] \in Statements
    BY <1>0, <1>2 DEF Formed, Held
  <2>2. stuck[c] \in Rows
    BY <1>0, <1>2 DEF Typed
  <2> QED BY <1>2, <2>1, <2>2, VisitFree DEF HeldRow
<1> QED BY <1>1, <1>2 DEF Refused

LEMMA AbortsCalm ==
    ASSUME CalmInv, NEW c \in Callers, NEW how, Aborts(c, how), how = "duplicate" => raced[c]
    PROVE  (\A d \in Callers : Calm(d)') /\ FailsOnlyWhenRaced'
<1>0. Typed
  BY DEF CalmInv, RowsInv
<1>1. pc'[c] = "idle" /\ result'[c] = how /\ pos' = pos /\ raced' = raced
  BY <1>0 DEF Aborts, Ends, Typed, history
<1>2. \A d \in Callers \ {c} : Same(d) /\ raced'[d] = raced[d] /\ result'[d] = result[d]
  BY <1>0, <1>1 DEF Aborts, Ends, Typed, Same
<1>3. Calm(c)'
  BY <1>1 DEF Calm
<1> QED BY <1>1, <1>2, <1>3, CalmTurn

\* A change that is committed races everybody who is under way.
LEMMA CommittedCalm ==
    ASSUME CalmInv, NEW S, Race(S), \A d \in Callers : pc'[d] # "idle" => d \in S,
           \A d \in Callers : result'[d] = "duplicate" => result[d] = "duplicate"
    PROVE  (\A d \in Callers : Calm(d)') /\ FailsOnlyWhenRaced'
<1>1. \A d \in Callers : raced'[d] = (raced[d] \/ d \in S)
  BY DEF Race
<1> QED BY <1>1 DEF Calm, CalmInv, FailsOnlyWhenRaced

LEMMA CalmStep == CalmInv /\ [Next]_vars => CalmInv'
<1> SUFFICES ASSUME CalmInv, [Next]_vars PROVE (\A d \in Callers : Calm(d)') /\ FailsOnlyWhenRaced'
  BY RowsStep DEF CalmInv
<1>0. RowsInv /\ Typed
  BY DEF CalmInv, RowsInv
<1>1. ASSUME NEW c \in Callers, AddTrack(c) \/ RemoveTrack(c) \/ Reorder(c)
      PROVE  (\A d \in Callers : Calm(d)') /\ FailsOnlyWhenRaced'
  BY <1>1, RequestsCalm
<1>2. ASSUME NEW c \in Callers, Commit(c)
      PROVE  (\A d \in Callers : Calm(d)') /\ FailsOnlyWhenRaced'
  <2>1. Race(Others(c)) /\ pc' = [pc EXCEPT ![c] = "idle"] /\ result' = [result EXCEPT ![c] = "ok"]
    BY <1>2 DEF Commit, Ends
  <2>2. \A d \in Callers : pc'[d] # "idle" => d \in Others(c)
    BY <1>0, <2>1 DEF Others, Typed
  <2>3. \A d \in Callers : result'[d] = "duplicate" => result[d] = "duplicate"
    BY <1>0, <2>1 DEF Typed
  <2> QED BY <2>1, <2>2, <2>3, CommittedCalm
<1>3. ASSUME NEW c \in Callers, Step(c) \/ Lose(c), ~Commit(c)
      PROVE  (\A d \in Callers : Calm(d)') /\ FailsOnlyWhenRaced'
  <2>1. CASE Refused(c) /\ Aborts(c, "duplicate")
    BY <2>1, RefusedRaced, AbortsCalm
  <2>2. CASE \E how : Aborts(c, how) /\ how # "duplicate"
    BY <2>2, AbortsCalm
  <2> QED BY <1>0, <1>3, <2>1, <2>2, StepCases, LookCalm, TurnsCalm, UpdateCalm, SkipCalm, IndexCalm
<1>4. CASE Delete
  <2>1. Race(Busy) /\ UNCHANGED <<pc, result>>
    BY <1>4 DEF Delete
  <2>2. \A d \in Callers : pc'[d] # "idle" => d \in Busy
    BY <2>1 DEF Busy
  <2> QED BY <2>1, <2>2, CommittedCalm
<1>5. ASSUME NEW r \in Rows, DropTrack(r)
      PROVE  (\A d \in Callers : Calm(d)') /\ FailsOnlyWhenRaced'
  <2>1. Race(Busy) /\ UNCHANGED <<pc, result>>
    BY <1>5 DEF DropTrack
  <2>2. \A d \in Callers : pc'[d] # "idle" => d \in Busy
    BY <2>1 DEF Busy
  <2> QED BY <2>1, <2>2, CommittedCalm
<1>6. CASE UNCHANGED vars
  <2>1. \A d \in Callers : Same(d) /\ raced'[d] = raced[d] /\ result'[d] = result[d]
    BY <1>6 DEF vars, Same
  <2>2. pos' = pos
    BY <1>6 DEF vars
  <2> QED BY <2>1, <2>2, SameCalm DEF CalmInv, FailsOnlyWhenRaced
<1> QED BY <1>1, <1>2, <1>3, <1>4, <1>5, <1>6 DEF Next

LEMMA InitCalm == Init => CalmInv
  BY InitRows DEF Init, CalmInv, Calm, FailsOnlyWhenRaced

\* A request is refused for the key of another row only if somebody else's change was
\* committed while it was under way, whatever holes the list has (pg.rs, the detour
\* over negative positions).
THEOREM RefusedOnlyWhenRaced == Spec => []FailsOnlyWhenRaced
<1>1. CalmInv => FailsOnlyWhenRaced
  BY DEF CalmInv
<1> QED BY <1>1, InitCalm, CalmStep, PTL DEF Spec

-----------------------------------------------------------------------------
(* The playlist the requests asked for.                                    *)

LEMMA Piece ==
    ASSUME NEW s \in Seq(Rows), NEW m \in Nat \ {0}, NEW n \in Int, n <= Len(s), m <= n + 1
    PROVE  /\ SubSeq(s, m, n) \in Seq(Rows)
           /\ Len(SubSeq(s, m, n)) = n - m + 1
           /\ \A i \in 1..(n - m + 1) : SubSeq(s, m, n)[i] = s[m + i - 1]
<1>1. \A i \in m..n : s[i] \in Rows
  BY LenProperties
<1>2. SubSeq(s, m, n) \in Seq(Rows) /\ Len(SubSeq(s, m, n)) = (IF m <= n THEN n - m + 1 ELSE 0)
      /\ \A i \in 1..(n - m + 1) : SubSeq(s, m, n)[i] = s[m + i - 1]
  BY <1>1, SubSeqProperties
<1> QED BY <1>2

\* What the helpers on sequences return.
LEMMA Removed ==
    ASSUME NEW s \in Seq(Rows), NEW i \in 1..Len(s)
    PROVE  /\ RemoveAt(s, i) \in Seq(Rows) /\ Len(RemoveAt(s, i)) = Len(s) - 1
           /\ \A k \in 1..(Len(s) - 1) : RemoveAt(s, i)[k] = IF k < i THEN s[k] ELSE s[k + 1]
<1> DEFINE n == Len(s)
           a == SubSeq(s, 1, i - 1)
           b == SubSeq(s, i + 1, n)
<1>0. n \in Nat /\ i \in Nat /\ 1 <= i /\ i <= n
  BY LenProperties
<1>1. /\ a \in Seq(Rows) /\ Len(a) = i - 1
      /\ \A k \in 1..(i - 1) : a[k] = s[k]
  <2>1. /\ a \in Seq(Rows) /\ Len(a) = (i - 1) - 1 + 1
        /\ \A k \in 1..((i - 1) - 1 + 1) : a[k] = s[1 + k - 1]
    BY <1>0, Piece
  <2>2. (i - 1) - 1 + 1 = i - 1 /\ \A k \in 1..(i - 1) : 1 + k - 1 = k
    BY <1>0
  <2> HIDE DEF a
  <2> QED BY <2>1, <2>2
<1>2. /\ b \in Seq(Rows) /\ Len(b) = n - i
      /\ \A k \in 1..(n - i) : b[k] = s[i + k]
  <2>1. /\ b \in Seq(Rows) /\ Len(b) = n - (i + 1) + 1
        /\ \A k \in 1..(n - (i + 1) + 1) : b[k] = s[(i + 1) + k - 1]
    BY <1>0, Piece
  <2>2. n - (i + 1) + 1 = n - i /\ \A k \in 1..(n - i) : (i + 1) + k - 1 = i + k
    BY <1>0
  <2> HIDE DEF b
  <2> QED BY <2>1, <2>2
<1> HIDE DEF a, b
<1>3. /\ a \o b \in Seq(Rows) /\ Len(a \o b) = Len(a) + Len(b)
      /\ \A k \in 1..(Len(a) + Len(b)) : (a \o b)[k] = IF k <= Len(a) THEN a[k] ELSE b[k - Len(a)]
  BY <1>1, <1>2, ConcatProperties
<1>4. Len(a) + Len(b) = n - 1
  BY <1>0, <1>1, <1>2
<1>5. ASSUME NEW k \in 1..(n - 1) PROVE (a \o b)[k] = IF k < i THEN s[k] ELSE s[k + 1]
  <2>1. (a \o b)[k] = IF k <= i - 1 THEN a[k] ELSE b[k - (i - 1)]
    BY <1>1, <1>3, <1>4
  <2>2. CASE k < i
    <3>1. k \in 1..(i - 1) /\ k <= i - 1
      BY <1>0, <2>2
    <3> QED BY <1>1, <2>1, <2>2, <3>1
  <2>3. CASE ~(k < i)
    <3>1. k - (i - 1) \in 1..(n - i) /\ ~(k <= i - 1) /\ i + (k - (i - 1)) = k + 1
      BY <1>0, <2>3
    <3> QED BY <1>2, <2>1, <2>3, <3>1
  <2> QED BY <2>2, <2>3
<1>6. RemoveAt(s, i) = a \o b
  BY DEF RemoveAt, a, b
<1> HIDE DEF n
<1>7. a \o b \in Seq(Rows) /\ Len(a \o b) = n - 1
  BY <1>3, <1>4
<1> QED BY <1>5, <1>6, <1>7 DEF n

LEMMA Inserted ==
    ASSUME NEW s \in Seq(Rows), NEW i \in 1..(Len(s) + 1), NEW e \in Rows
    PROVE  /\ InsertAt(s, i, e) \in Seq(Rows) /\ Len(InsertAt(s, i, e)) = Len(s) + 1
           /\ \A k \in 1..(Len(s) + 1) :
                InsertAt(s, i, e)[k] = IF k < i THEN s[k] ELSE IF k = i THEN e ELSE s[k - 1]
<1> DEFINE n == Len(s)
           a == SubSeq(s, 1, i - 1)
           b == SubSeq(s, i, n)
           f == a \o <<e>>
<1>0. n \in Nat /\ i \in Nat /\ 1 <= i /\ i <= n + 1
  BY LenProperties
<1>1. /\ a \in Seq(Rows) /\ Len(a) = i - 1
      /\ \A k \in 1..(i - 1) : a[k] = s[k]
  <2>1. /\ a \in Seq(Rows) /\ Len(a) = (i - 1) - 1 + 1
        /\ \A k \in 1..((i - 1) - 1 + 1) : a[k] = s[1 + k - 1]
    BY <1>0, Piece
  <2>2. (i - 1) - 1 + 1 = i - 1 /\ \A k \in 1..(i - 1) : 1 + k - 1 = k
    BY <1>0
  <2> HIDE DEF a
  <2> QED BY <2>1, <2>2
<1>2. /\ b \in Seq(Rows) /\ Len(b) = n - i + 1
      /\ \A k \in 1..(n - i + 1) : b[k] = s[i + k - 1]
  BY <1>0, Piece
<1>3. <<e>> \in Seq(Rows) /\ Len(<<e>>) = 1 /\ <<e>>[1] = e
  OBVIOUS
<1> HIDE DEF a, b
<1>4. /\ f \in Seq(Rows) /\ Len(f) = i
      /\ \A k \in 1..i : f[k] = IF k < i THEN s[k] ELSE e
  <2>1. /\ f \in Seq(Rows) /\ Len(f) = Len(a) + Len(<<e>>)
        /\ \A k \in 1..(Len(a) + Len(<<e>>)) : f[k] = IF k <= Len(a) THEN a[k] ELSE <<e>>[k - Len(a)]
    BY <1>1, <1>3, ConcatProperties
  <2>2. Len(a) + Len(<<e>>) = i
    BY <1>0, <1>1, <1>3
  <2>3. ASSUME NEW k \in 1..i PROVE f[k] = IF k < i THEN s[k] ELSE e
    <3>1. f[k] = IF k <= i - 1 THEN a[k] ELSE <<e>>[k - (i - 1)]
      BY <1>1, <2>1, <2>2
    <3>2. CASE k < i
      <4>1. k \in 1..(i - 1) /\ k <= i - 1
        BY <1>0, <3>2
      <4> QED BY <1>1, <3>1, <3>2, <4>1
    <3>3. CASE ~(k < i)
      <4>1. k - (i - 1) = 1 /\ ~(k <= i - 1)
        BY <1>0, <3>3
      <4> QED BY <1>3, <3>1, <3>3, <4>1
    <3> QED BY <3>2, <3>3
  <2> HIDE DEF f
  <2> QED BY <2>1, <2>2, <2>3
<1> HIDE DEF f
<1>5. /\ f \o b \in Seq(Rows) /\ Len(f \o b) = Len(f) + Len(b)
      /\ \A k \in 1..(Len(f) + Len(b)) : (f \o b)[k] = IF k <= Len(f) THEN f[k] ELSE b[k - Len(f)]
  BY <1>2, <1>4, ConcatProperties
<1>6. Len(f) + Len(b) = n + 1
  BY <1>0, <1>2, <1>4
<1>7. ASSUME NEW k \in 1..(n + 1)
      PROVE  (f \o b)[k] = IF k < i THEN s[k] ELSE IF k = i THEN e ELSE s[k - 1]
  <2>1. (f \o b)[k] = IF k <= i THEN f[k] ELSE b[k - i]
    BY <1>4, <1>5, <1>6
  <2>2. CASE k <= i
    <3>1. k \in 1..i
      BY <1>0, <2>2
    <3> QED BY <1>0, <1>4, <2>1, <2>2, <3>1
  <2>3. CASE ~(k <= i)
    <3>1. k - i \in 1..(n - i + 1) /\ i + (k - i) - 1 = k - 1 /\ ~(k < i) /\ k # i
      BY <1>0, <2>3
    <3> QED BY <1>2, <2>1, <2>3, <3>1
  <2> QED BY <2>2, <2>3
<1>8. InsertAt(s, i, e) = f \o b
  BY DEF InsertAt, f, a, b
<1> HIDE DEF n
<1>9. f \o b \in Seq(Rows) /\ Len(f \o b) = n + 1
  BY <1>5, <1>6
<1> QED BY <1>7, <1>8, <1>9 DEF n

\* The committed rows are s.
Lists(s) ==
    /\ s \in Seq(Rows)
    /\ \A k \in 1..Len(s) : pos[s[k]] = k
    /\ \A r \in Rows : pos[r] # Gone => pos[r] \in 1..Len(s) /\ s[pos[r]] = r

Clean == want \in Seq(Rows) /\ (clean => Lists(want))
ListInv == CalmInv /\ Clean

LEMMA ListNext ==
    ASSUME RowsInv, NEW s, Lists(s)
    PROVE  NextPosition = Len(s) + 1
<1>0. Typed /\ pos \in [Rows -> Nat] /\ Len(s) \in Nat /\ \A k \in 1..Len(s) : s[k] \in Rows
  BY LenProperties DEF RowsInv, Typed, Lists
<1>1. CASE Len(s) = 0
  <2>1. Live = {}
    BY <1>0, <1>1 DEF Lists, Live
  <2> QED BY <1>1, <2>1 DEF NextPosition
<1>2. CASE Len(s) # 0
  <2>1. s[Len(s)] \in Rows /\ pos[s[Len(s)]] = Len(s)
    BY <1>0, <1>2 DEF Lists
  <2>2. s[Len(s)] \in Live
    BY <1>2, <2>1 DEF Live, Gone
  <2> DEFINE m == CHOOSE p \in {pos[r] : r \in Live} : \A r \in Live : pos[r] <= p
  <2>3. m \in {pos[r] : r \in Live} /\ \A r \in Live : pos[r] <= m
    BY <1>0, <2>2, Highest
  <2>4. NextPosition = 1 + m
    BY <2>2 DEF NextPosition
  <2> HIDE DEF m
  <2>5. m \in 1..Len(s) /\ Len(s) <= m
    BY <1>0, <2>1, <2>2, <2>3 DEF Lists, Live
  <2> QED BY <1>0, <2>4, <2>5
<1> QED BY <1>1, <1>2

\* A commit that was not raced moves every row as its request says.
LEMMA CommitCalm ==
    ASSUME CalmInv, NEW c \in Callers, Commit(c), ~raced[c]
    PROVE  /\ CalmRequest(c) /\ pc[c] # "look"
           /\ \A r \in Rows : pos[r] # Gone => pos'[r] = Final(req[c], pos[r])
           /\ \A r \in Rows : pos[r] = Gone => pos'[r] = IF r = req[c].row THEN req[c].at ELSE Gone
<1> DEFINE q == req[c]
<1>0. /\ RowsInv /\ Formed(c) /\ Held(c) /\ pos \in [Rows -> Nat] /\ NoRow \notin Rows /\ q \in Requests
      /\ pc[c] \in Lasts /\ Fits(pc[c], q) /\ todo[c] = {} /\ pc[c] \in Statements
  BY CommitRows, RowsNat DEF CalmInv, RowsInv, Typed, Commit, Done, InStatement
<1>1. pos' = [r \in Rows |-> Sees(c, r)]
  BY DEF Commit
<1>2. CalmRequest(c) /\ CalmRows(c) /\ pc[c] # "look"
  BY <1>0 DEF CalmInv, Calm, Statements
<1>3. ASSUME NEW r \in Rows, pos[r] # Gone PROVE pos'[r] = Final(q, pos[r])
  <2>1. r \in Live /\ pos[r] \in Nat /\ pos[r] >= 1
    BY <1>0, <1>3 DEF Live, Gone
  <2>2. Sees(c, r) = Leave(pc[c], q, pos[r])
    BY <1>0, <1>2, <2>1 DEF CalmRows
  <2> QED BY <1>0, <1>1, <2>1, <2>2, EndsAt
<1>4. ASSUME NEW r \in Rows, pos[r] = Gone PROVE pos'[r] = IF r = q.row THEN q.at ELSE Gone
  <2>1. CASE r = q.row
    <3>1. q.op = "insert" /\ pc[c] = "flip"
      BY <1>0, <2>1 DEF Formed, Lasts, Fits, Statements
    <3>2. r \in DOMAIN mine[c]
      BY <1>0, <2>1, <3>1 DEF Formed
    <3>3. mine[c][r] = q.at
      BY <1>0, <2>1, <3>2 DEF Held, HeldRow
    <3> QED BY <1>1, <2>1, <3>2, <3>3 DEF Sees, Holds
  <2>2. CASE r # q.row
    <3>1. r \notin DOMAIN mine[c]
      BY <1>0, <1>4, <2>2 DEF Held, HeldRow
    <3> QED BY <1>1, <1>4, <2>2, <3>1 DEF Sees, Holds
  <2> QED BY <2>1, <2>2
<1> QED BY <1>2, <1>3, <1>4

\* What Lists asks of t after the step.
LEMMA ListsNext ==
    ASSUME NEW t \in Seq(Rows), \A k \in 1..Len(t) : pos'[t[k]] = k,
           \A r \in Rows : pos'[r] # Gone => pos'[r] \in 1..Len(t) /\ t[pos'[r]] = r
    PROVE  Lists(t)'
  BY DEF Lists

LEMMA InsertLists ==
    ASSUME RowsInv, NEW s, Lists(s), NEW at \in Int, 1 <= at, at <= Len(s) + 1,
           NEW e \in Rows, pos[e] = Gone,
           \A r \in Rows : pos[r] # Gone => pos'[r] = IF pos[r] >= at THEN pos[r] + 1 ELSE pos[r],
           \A r \in Rows : pos[r] = Gone => pos'[r] = IF r = e THEN at ELSE Gone
    PROVE  Lists(InsertAt(s, at, e))'
<1> DEFINE n == Len(s)
           t == InsertAt(s, at, e)
<1>0. s \in Seq(Rows) /\ n \in Nat /\ \A k \in 1..n : s[k] \in Rows
  BY LenProperties DEF Lists
<1>1. /\ t \in Seq(Rows) /\ Len(t) = n + 1
      /\ \A k \in 1..(n + 1) : t[k] = IF k < at THEN s[k] ELSE IF k = at THEN e ELSE s[k - 1]
  <2>1. at \in 1..(Len(s) + 1)
    BY <1>0
  <2> QED BY <1>0, <2>1, Inserted
<1>2. \A k \in 1..n : pos[s[k]] = k /\ pos[s[k]] # Gone
  BY <1>0 DEF Lists, Gone
<1>3. \A r \in Rows : pos[r] # Gone => pos[r] \in 1..n /\ s[pos[r]] = r
  BY DEF Lists
<1> SUFFICES ASSUME TRUE PROVE Lists(t)'
  OBVIOUS
<1> HIDE DEF t, n
<1>4. ASSUME NEW k \in 1..(n + 1) PROVE pos'[t[k]] = k
  <2>1. CASE k < at
    <3>1. k \in 1..n /\ t[k] = s[k]
      BY <1>0, <1>1, <2>1 DEF n
    <3> QED BY <1>0, <1>2, <2>1, <3>1
  <2>2. CASE k = at
    BY <1>1, <2>2
  <2>3. CASE k > at
    <3>1. k - 1 \in 1..n /\ t[k] = s[k - 1] /\ k - 1 >= at
      BY <1>0, <1>1, <2>3
    <3> QED BY <1>0, <1>2, <3>1
  <2> QED BY <1>0, <2>1, <2>2, <2>3
<1>5. ASSUME NEW r \in Rows, pos'[r] # Gone PROVE pos'[r] \in 1..(n + 1) /\ t[pos'[r]] = r
  <2>1. CASE pos[r] = Gone
    <3>1. r = e /\ pos'[r] = at
      BY <1>5, <2>1
    <3> QED BY <1>0, <1>1, <3>1 DEF n
  <2>2. CASE pos[r] # Gone /\ pos[r] >= at
    <3>1. pos'[r] = pos[r] + 1 /\ pos[r] \in 1..n /\ s[pos[r]] = r
      BY <1>3, <2>2
    <3> QED BY <1>0, <1>1, <2>2, <3>1
  <2>3. CASE pos[r] # Gone /\ ~(pos[r] >= at)
    <3>1. pos'[r] = pos[r] /\ pos[r] \in 1..n /\ s[pos[r]] = r
      BY <1>3, <2>3
    <3> QED BY <1>0, <1>1, <2>3, <3>1
  <2> QED BY <2>1, <2>2, <2>3
<1> QED BY <1>1, <1>4, <1>5, ListsNext

\* Taking a listed row out of the list takes its position out.
LEMMA WithoutAt ==
    ASSUME NEW s, Lists(s), NEW e \in Rows, pos[e] # Gone
    PROVE  Without(s, e) = RemoveAt(s, pos[e]) /\ pos[e] \in 1..Len(s) /\ s[pos[e]] = e
<1>1. DOMAIN s = 1..Len(s) /\ pos[e] \in 1..Len(s) /\ s[pos[e]] = e
  BY LenProperties DEF Lists
<1>2. \A i \in DOMAIN s : s[i] = e => i = pos[e]
  BY <1>1 DEF Lists
<1>3. (CHOOSE i \in DOMAIN s : s[i] = e) = pos[e]
  BY <1>1, <1>2
<1> QED BY <1>1, <1>3 DEF Without

LEMMA RemoveLists ==
    ASSUME RowsInv, NEW s, Lists(s), NEW e \in Rows, pos[e] # Gone,
           \A r \in Rows : pos[r] # Gone =>
             pos'[r] = IF pos[r] = pos[e] THEN Gone ELSE IF pos[r] > pos[e] THEN pos[r] - 1 ELSE pos[r],
           \A r \in Rows : pos[r] = Gone => pos'[r] = Gone
    PROVE  \A t : t = Without(s, e) => Lists(t)'
<1> SUFFICES ASSUME NEW t, t = Without(s, e) PROVE Lists(t)'
  OBVIOUS
<1> DEFINE n == Len(s)
<1>a. PICK at : at = pos[e]
  OBVIOUS
<1>0. s \in Seq(Rows) /\ n \in Nat /\ (\A k \in 1..n : s[k] \in Rows) /\ at \in 1..n /\ t = RemoveAt(s, at)
  BY <1>a, LenProperties, WithoutAt DEF Lists
<1>1. /\ t \in Seq(Rows) /\ Len(t) = n - 1
      /\ \A k \in 1..(n - 1) : t[k] = IF k < at THEN s[k] ELSE s[k + 1]
  BY <1>0, Removed
<1>2. \A k \in 1..n : pos[s[k]] = k /\ pos[s[k]] # Gone
  BY <1>0 DEF Lists, Gone
<1>3. \A r \in Rows : pos[r] # Gone => pos[r] \in 1..n /\ s[pos[r]] = r
  BY DEF Lists
<1> HIDE DEF n
<1>4. ASSUME NEW k \in 1..(n - 1) PROVE pos'[t[k]] = k
  <2>1. CASE k < at
    <3>1. k \in 1..n /\ t[k] = s[k]
      BY <1>0, <1>1, <2>1
    <3> QED BY <1>0, <1>2, <1>a, <2>1, <3>1
  <2>2. CASE ~(k < at)
    <3>1. k + 1 \in 1..n /\ t[k] = s[k + 1] /\ k + 1 > at
      BY <1>0, <1>1, <2>2
    <3> QED BY <1>0, <1>2, <1>a, <3>1
  <2> QED BY <2>1, <2>2
<1>5. ASSUME NEW r \in Rows, pos'[r] # Gone PROVE pos'[r] \in 1..(n - 1) /\ t[pos'[r]] = r
  <2>1. pos[r] # Gone /\ pos[r] # at /\ pos[r] \in 1..n /\ s[pos[r]] = r
    BY <1>3, <1>5, <1>a
  <2>2. CASE pos[r] > at
    <3>1. pos'[r] = pos[r] - 1
      BY <1>a, <2>1, <2>2
    <3> QED BY <1>0, <1>1, <2>1, <2>2, <3>1
  <2>3. CASE ~(pos[r] > at)
    <3>1. pos'[r] = pos[r]
      BY <1>a, <2>1, <2>3
    <3> QED BY <1>0, <1>1, <2>1, <2>3, <3>1
  <2> QED BY <2>2, <2>3
<1> QED BY <1>1, <1>4, <1>5, ListsNext

LEMMA MoveLists ==
    ASSUME RowsInv, NEW s, Lists(s), NEW e \in Rows, pos[e] # Gone,
           NEW q \in Requests, q.op = "move", q.at = pos[e], q.to \in 1..Len(s), q.at # q.to,
           \A r \in Rows : pos[r] # Gone => pos'[r] = Final(q, pos[r]),
           \A r \in Rows : pos[r] = Gone => pos'[r] = Gone
    PROVE  \A t : t = InsertAt(Without(s, e), q.to, e) => Lists(t)'
<1> SUFFICES ASSUME NEW t, t = InsertAt(Without(s, e), q.to, e) PROVE Lists(t)'
  OBVIOUS
<1> DEFINE n == Len(s)
           at == q.at
           to == q.to
           u == RemoveAt(s, at)
<1>0. /\ s \in Seq(Rows) /\ n \in Nat /\ (\A k \in 1..n : s[k] \in Rows) /\ at \in 1..n /\ s[at] = e
      /\ t = InsertAt(u, to, e) /\ to \in 1..n
  BY LenProperties, WithoutAt DEF Lists
<1>1. /\ u \in Seq(Rows) /\ Len(u) = n - 1
      /\ \A k \in 1..(n - 1) : u[k] = IF k < at THEN s[k] ELSE s[k + 1]
  BY <1>0, Removed
<1> HIDE DEF u
<1>2. /\ t \in Seq(Rows) /\ Len(t) = n
      /\ \A k \in 1..n : t[k] = IF k < to THEN u[k] ELSE IF k = to THEN e ELSE u[k - 1]
  <2>1. n - 1 + 1 = n
    BY <1>0
  <2>2. to \in 1..(Len(u) + 1) /\ Len(u) + 1 = n
    BY <1>0, <1>1, <2>1
  <2> HIDE DEF n, to
  <2>3. /\ InsertAt(u, to, e) \in Seq(Rows) /\ Len(InsertAt(u, to, e)) = Len(u) + 1
        /\ \A k \in 1..(Len(u) + 1) :
             InsertAt(u, to, e)[k] = IF k < to THEN u[k] ELSE IF k = to THEN e ELSE u[k - 1]
    BY <1>1, <2>2, Inserted
  <2> QED BY <1>0, <2>2, <2>3
<1>3. \A k \in 1..n : pos[s[k]] = k /\ pos[s[k]] # Gone
  BY <1>0 DEF Lists, Gone
<1>4. \A r \in Rows : pos[r] # Gone => pos[r] \in 1..n /\ s[pos[r]] = r
  BY DEF Lists
<1>5. \A k \in 1..n : pos'[s[k]] = Final(q, k)
  BY <1>0, <1>3
<1> HIDE DEF n
\* The row that comes to k.
<1>6. ASSUME NEW k \in 1..n
      PROVE  \E x \in 1..n : t[k] = s[x] /\ Final(q, x) = k
  <2>1. CASE k = to
    BY <1>0, <1>2, <2>1 DEF Final
  <2>2. CASE k < to /\ k < at
    <3>1. k \in 1..(n - 1) /\ t[k] = s[k]
      BY <1>0, <1>1, <1>2, <2>2
    <3> QED BY <1>0, <2>2, <3>1 DEF Final, Between
  <2>3. CASE k < to /\ ~(k < at)
    <3>1. k \in 1..(n - 1) /\ k + 1 \in 1..n /\ t[k] = s[k + 1]
      BY <1>0, <1>1, <1>2, <2>3
    <3>2. Final(q, k + 1) = k
      BY <1>0, <2>3 DEF Final, Between
    <3> QED BY <3>1, <3>2
  <2>4. CASE k > to /\ k - 1 < at
    <3>1. k - 1 \in 1..(n - 1) /\ k - 1 \in 1..n /\ t[k] = s[k - 1]
      BY <1>0, <1>1, <1>2, <2>4
    <3>2. Final(q, k - 1) = k
      BY <1>0, <2>4 DEF Final, Between
    <3> QED BY <3>1, <3>2
  <2>5. CASE k > to /\ ~(k - 1 < at)
    <3>1. k - 1 \in 1..(n - 1) /\ t[k] = s[k]
      BY <1>0, <1>1, <1>2, <2>5
    <3> QED BY <1>0, <2>5, <3>1 DEF Final, Between
  <2> QED BY <1>0, <2>1, <2>2, <2>3, <2>4, <2>5
<1>7. \A k \in 1..n : pos'[t[k]] = k
  BY <1>5, <1>6
\* Two rows do not come to the same position.
<1>8. ASSUME NEW r \in Rows, pos'[r] # Gone PROVE pos'[r] \in 1..n /\ t[pos'[r]] = r
  <2>1. pos[r] # Gone /\ pos[r] \in 1..n /\ s[pos[r]] = r /\ pos'[r] = Final(q, pos[r])
    BY <1>4, <1>8
  <2> DEFINE y == pos[r]
             k == Final(q, y)
  <2>2. k \in 1..n
    BY <1>0, <2>1 DEF Final, Between
  <2>3. PICK x \in 1..n : t[k] = s[x] /\ Final(q, x) = k
    BY <1>6, <2>2
  <2>4. y \in 1..n
    BY <2>1
  <2> HIDE DEF y
  <2>5. x = y
    BY <1>0, <2>3, <2>4 DEF Final, Between
  <2> QED BY <2>1, <2>2, <2>3, <2>5 DEF y
<1> QED BY <1>2, <1>7, <1>8, ListsNext

LEMMA CommitLists ==
    ASSUME ListInv, NEW c \in Callers, Commit(c), clean'
    PROVE  Lists(want)'
<1> DEFINE q == req[c]
<1>a. PICK s : s = want
  OBVIOUS
<1>b. PICK t : t = Asked(c, want)
  OBVIOUS
<1>0. /\ CalmInv /\ RowsInv /\ Typed /\ Formed(c) /\ ~raced[c] /\ clean /\ Lists(s) /\ want' = t
      /\ s \in Seq(Rows) /\ Len(s) \in Nat
  <2>1. CalmInv /\ RowsInv /\ Typed /\ Formed(c)
    BY DEF ListInv, CalmInv, RowsInv
  <2>2. clean /\ ~raced[c] /\ want' = t
    BY <1>b DEF Commit
  <2>3. Lists(s)
    BY <1>a, <2>2 DEF ListInv, Clean
  <2> QED BY <2>1, <2>2, <2>3, LenProperties DEF Lists
<1>1. /\ CalmRequest(c) /\ pc[c] # "look"
      /\ \A r \in Rows : pos[r] # Gone => pos'[r] = Final(q, pos[r])
      /\ \A r \in Rows : pos[r] = Gone => pos'[r] = IF r = q.row THEN q.at ELSE Gone
  BY <1>0, CommitCalm
<1>2. q \in Requests /\ Fits(pc[c], q) /\ pos \in [Rows -> Nat] /\ pc[c] \in Statements
  BY <1>0, CommitRows DEF Typed, Commit, Done, InStatement
<1>3. NextPosition = Len(s) + 1
  BY <1>0, ListNext
<1>4. q.at \in Int /\ q.at >= 1 /\ q.to \in Int
  BY <1>2, FitsCases
<1>5. q.op \in {"remove", "move"} =>
        /\ q.row \notin Rows /\ seen[c] \in Rows /\ pos[seen[c]] = q.at /\ pos[seen[c]] # Gone
        /\ q.at \in 1..Len(s)
  <2> SUFFICES ASSUME q.op \in {"remove", "move"}
               PROVE  /\ q.row \notin Rows /\ seen[c] \in Rows /\ pos[seen[c]] = q.at /\ pos[seen[c]] # Gone
                      /\ q.at \in 1..Len(s)
    OBVIOUS
  <2>1. q.row = NoRow /\ seen[c] \in Rows
    BY <1>0, <1>2 DEF Formed, Statements
  <2>2. pos[seen[c]] = q.at
    BY <1>1 DEF CalmRequest
  <2>3. pos[seen[c]] # Gone
    BY <1>4, <2>2 DEF Gone
  <2> QED BY <1>0, <2>1, <2>2, <2>3, RowsNat DEF Lists
<1>6. CASE q.op = "insert"
  <2>1. q.row \in Rows /\ pos[q.row] = Gone
    BY <1>0, <1>2, <1>6 DEF Formed, Requests, Statements
  <2>2. q.at <= Len(s) + 1
    BY <1>1, <1>3, <1>6 DEF CalmRequest
  <2>3. t = InsertAt(s, q.at, q.row)
    <3>1. Asked(c, s) = InsertAt(s, IF q.at < Len(s) + 1 THEN q.at ELSE Len(s) + 1, q.row)
      BY <1>6 DEF Asked
    <3>2. (IF q.at < Len(s) + 1 THEN q.at ELSE Len(s) + 1) = q.at
      BY <1>0, <1>4, <2>2
    <3> QED BY <1>a, <1>b, <3>1, <3>2
  <2>4. \A r \in Rows : pos[r] # Gone => pos'[r] = IF pos[r] >= q.at THEN pos[r] + 1 ELSE pos[r]
    BY <1>1, <1>6 DEF Final
  <2> DEFINE at == q.at
             e == q.row
  <2>5. PICK i, k : i = at /\ k = e
    OBVIOUS
  <2>6. Lists(InsertAt(s, i, k))'
    <3>1. /\ i \in Int /\ 1 <= i /\ i <= Len(s) + 1 /\ k \in Rows /\ pos[k] = Gone
          /\ \A r \in Rows : pos[r] # Gone => pos'[r] = IF pos[r] >= i THEN pos[r] + 1 ELSE pos[r]
          /\ \A r \in Rows : pos[r] = Gone => pos'[r] = IF r = k THEN i ELSE Gone
      BY <1>1, <1>4, <2>1, <2>2, <2>4, <2>5
    <3> QED BY <1>0, <3>1, InsertLists
  <2>7. InsertAt(s, i, k) = want'
    BY <1>0, <2>3, <2>5
  <2> QED BY <2>6, <2>7 DEF Lists
<1>7. CASE q.op = "remove"
  <2>1. t = Without(s, seen[c])
    BY <1>a, <1>b, <1>7 DEF Asked
  <2>2. PICK e : e = seen[c]
    OBVIOUS
  <2>3. /\ \A r \in Rows : pos[r] # Gone =>
             pos'[r] = IF pos[r] = pos[e] THEN Gone ELSE IF pos[r] > pos[e] THEN pos[r] - 1 ELSE pos[r]
        /\ \A r \in Rows : pos[r] = Gone => pos'[r] = Gone
    BY <1>1, <1>5, <1>7, <2>2 DEF Final
  <2>4. Lists(t)'
    BY <1>0, <1>5, <1>7, <2>1, <2>2, <2>3, RemoveLists
  <2> QED BY <1>0, <2>4 DEF Lists
<1>8. CASE q.op = "move"
  <2>1. q.to \in 1..Len(s) /\ q.at # q.to
    <3>1. q.to >= 1 /\ q.at # q.to
      BY <1>2, <1>8 DEF Fits
    <3>2. q.to = 1 \/ q.to < Len(s) + 1
      BY <1>1, <1>3, <1>8 DEF CalmRequest
    <3> QED BY <1>0, <1>4, <1>5, <1>8, <3>1, <3>2
  <2>2. t = InsertAt(Without(s, seen[c]), q.to, seen[c])
    <3>1. Asked(c, s) = InsertAt(Without(s, seen[c]), IF q.to < Len(s) + 1 THEN q.to ELSE Len(s) + 1, seen[c])
      BY <1>8 DEF Asked
    <3>2. (IF q.to < Len(s) + 1 THEN q.to ELSE Len(s) + 1) = q.to
      BY <1>0, <2>1
    <3> QED BY <1>a, <1>b, <3>1, <3>2
  <2>3. PICK e, p : e = seen[c] /\ p = req[c]
    OBVIOUS
  <2>4. \A r \in Rows : pos[r] = Gone => pos'[r] = Gone
    BY <1>1, <1>5, <1>8
  <2>5. /\ e \in Rows /\ pos[e] # Gone /\ p \in Requests /\ p.op = "move" /\ p.at = pos[e] /\ p.to \in 1..Len(s)
        /\ p.at # p.to /\ t = InsertAt(Without(s, e), p.to, e)
        /\ \A r \in Rows : pos[r] # Gone => pos'[r] = Final(p, pos[r])
    BY <1>1, <1>2, <1>5, <1>8, <2>1, <2>2, <2>3
  <2>6. Lists(t)'
    BY <1>0, <2>4, <2>5, MoveLists
  <2> QED BY <1>0, <2>6 DEF Lists
<1> QED BY <1>2, <1>6, <1>7, <1>8 DEF Requests, Ops

\* Everything but a commit and a deletion leaves the rows and the history alone.
LEMMA HistoryKept ==
    ASSUME RowsInv, NEW c \in Callers, AddTrack(c) \/ RemoveTrack(c) \/ Reorder(c) \/ Step(c) \/ Lose(c), ~Commit(c)
    PROVE  pos' = pos /\ clean' = clean /\ want' = want
<1>1. CASE AddTrack(c) \/ RemoveTrack(c) \/ Reorder(c)
  BY <1>1 DEF AddTrack, RemoveTrack, Reorder, Asks
<1>2. CASE Step(c) \/ Lose(c)
  <2>1. Look(c) => UNCHANGED <<pos, history>>
    BY DEF Look
  <2>2. \A s : Turns(c, s) => UNCHANGED <<pos, history>>
    BY DEF Turns, Starts
  <2>3. \A r : Update(c, r) => UNCHANGED <<pos, history>>
    BY DEF Update
  <2>4. \A r : Skips(c, r) => UNCHANGED <<pos, history>>
    BY DEF Skips
  <2>5. Indexes(c) => UNCHANGED <<pos, history>>
    BY DEF Indexes
  <2>6. \A how : Aborts(c, how) => UNCHANGED <<pos, history>>
    BY DEF Aborts
  <2>7. UNCHANGED <<pos, history>>
    BY <1>2, <2>1, <2>2, <2>3, <2>4, <2>5, <2>6, StepCases
  <2> QED BY <2>7 DEF history
<1> QED BY <1>1, <1>2

LEMMA ListStep == ListInv /\ [Next]_vars => ListInv'
<1> SUFFICES ASSUME ListInv, [Next]_vars PROVE Clean'
  BY CalmStep DEF ListInv
<1>0. CalmInv /\ RowsInv /\ Typed /\ want \in Seq(Rows)
  BY DEF ListInv, CalmInv, RowsInv, Clean
<1>1. ASSUME pos' = pos, clean' = clean, want' = want PROVE Clean'
  BY <1>1 DEF ListInv, Clean, Lists
<1>2. ASSUME NEW c \in Callers, Commit(c) PROVE Clean'
  <2>1. clean' => Lists(want)'
    BY <1>2, CommitLists
  <2>2. want' \in Seq(Rows)
    <3>1. CASE clean'
      BY <2>1, <3>1 DEF Lists
    <3>2. CASE ~clean'
      <4>1. want' = <<>>
        BY <1>2, <3>2 DEF Commit
      <4> QED BY <4>1
    <3> QED BY <3>1, <3>2
  <2> QED BY <2>1, <2>2 DEF Clean
<1>3. CASE Delete
  <2>1. want' = <<>> /\ \A r \in Rows : pos'[r] = Gone
    BY <1>3 DEF Delete
  <2>2. want' \in Seq(Rows) /\ Len(want') = 0
    BY <2>1
  <2> QED BY <2>1, <2>2 DEF Clean, Lists
<1>4. ASSUME NEW r \in Rows, DropTrack(r) PROVE Clean'
  <2>1. want' = <<>> /\ clean' = FALSE
    BY <1>4 DEF DropTrack
  <2> QED BY <2>1 DEF Clean
<1>5. UNCHANGED vars => Clean'
  BY <1>1 DEF vars
<1> QED BY <1>0, <1>1, <1>2, <1>3, <1>4, <1>5, HistoryKept DEF Next

LEMMA InitList == Init => ListInv
<1> SUFFICES ASSUME Init PROVE Clean
  BY InitCalm DEF ListInv
<1>0. Rows = 1..Cardinality(Rows) /\ Cardinality(Rows) \in Nat /\ Listed \in 0..Cardinality(Rows)
  BY RowsAssumption, RowsNat
<1>1. want = [i \in 1..Listed |-> i] /\ pos = [r \in Rows |-> IF r <= Listed THEN r ELSE Gone]
  BY DEF Init
<1>2. want \in Seq(Rows) /\ Len(want) = Listed
  BY <1>0, <1>1
<1> QED BY <1>0, <1>1, <1>2 DEF Clean, Lists, Gone

LEMMA ListsCounted ==
    ASSUME ListInv
    PROVE  AsAsked
<1> SUFFICES ASSUME clean PROVE Cardinality(Live) = Len(want) /\ \A i \in DOMAIN want : pos[want[i]] = i
  BY DEF AsAsked
<1>0. Lists(want) /\ want \in Seq(Rows) /\ Len(want) \in Nat /\ DOMAIN want = 1..Len(want)
      /\ want \in [1..Len(want) -> Rows]
  BY LenProperties DEF ListInv, Clean
<1>1. want \in Bijection(1..Len(want), Live)
  <2>1. \A i \in 1..Len(want) : want[i] \in Live
    BY <1>0 DEF Lists, Live, Gone
  <2>2. want \in [1..Len(want) -> Live]
    BY <1>0, <2>1
  <2>3. \A i, k \in 1..Len(want) : want[i] = want[k] => i = k
    BY <1>0 DEF Lists
  <2>4. \A r \in Live : \E i \in 1..Len(want) : want[i] = r
    BY <1>0 DEF Lists, Live
  <2>5. IsInjective(want) /\ want \in Injection(1..Len(want), Live)
    BY <1>0, <2>2, <2>3 DEF IsInjective, Injection
  <2>6. want \in Surjection(1..Len(want), Live)
    BY <2>2, <2>4 DEF Surjection
  <2> QED BY <2>5, <2>6 DEF Bijection
<1>2. Cardinality(Live) = Len(want)
  BY <1>0, <1>1, FS_CountingElements DEF ExistsBijection
<1> QED BY <1>0, <1>2 DEF Lists

\* While no change was committed during another request, the rows are exactly what the
\* requests asked for, at 1, 2, 3 and so on: nothing of the detour over negative
\* positions, of the clamps, of a lost connection or of a deadlock is left (pg.rs).
THEOREM ListAsAsked == Spec => []AsAsked
  BY InitList, ListStep, ListsCounted, PTL DEF Spec

\* Every variable keeps its type, with any number of requests and faults; what a
\* transaction writes stays among the rows of the playlist (pg.rs).
THEOREM RowsTyped == Spec => []TypeOK
<1>1. ListInv => TypeOK
  <2> SUFFICES ASSUME ListInv PROVE TypeOK
    OBVIOUS
  <2>1. Typed /\ want \in Seq(Rows)
    BY DEF ListInv, CalmInv, RowsInv, Clean
  <2>2. \A c \in Callers : DOMAIN mine[c] \subseteq Rows
    BY <2>1, MineTyped DEF Typed
  <2>3. \A c \in Callers : req[c].op \in Ops /\ req[c].row \in Rows \cup {NoRow}
    BY <2>1 DEF Typed, Requests
  <2> QED BY <2>1, <2>2, <2>3 DEF Typed, TypeOK
<1> QED BY <1>1, InitList, ListStep, PTL DEF Spec
=============================================================================
