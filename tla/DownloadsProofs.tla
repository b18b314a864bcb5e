--------------------------- MODULE DownloadsProofs ---------------------------
(***************************************************************************)
(* Theorems about Downloads' safety: what stands under a final path is     *)
(* whole, and a row has its file.                                          *)
(***************************************************************************)
EXTENDS Downloads, WellFoundedInduction, TLAPS

\* No two items share a path, and no item is downloaded by two commands at once.
OwnPaths == \A i, e \in Items : PathOf[i] = PathOf[e] => i = e
Once == "twice" \notin Faults

\* No more than two commands run together, and no sync beside them.
TwoJobs == \A j, k, l \in Jobs : j = k \/ k = l \/ j = l
NoSync == "sync" \notin Commands

\* Jobs that are downloading, and those of them that fetch the item at the head of their list.
Fetching == {"fetch", "probe", "request", "open", "stream", "rename", "shelve", "insert"}
Downloading == {"check", "restamp"} \cup Fetching
Deleting == {"unlink", "unrow", "unstamp", "count", "clear"}

Extent(c) == IF c = Nothing THEN 0 ELSE Len(c)

\* What a job knows of the partial file c of its item.
Fit(r, c) ==
    /\ r.at = IF r.pc = "stream" THEN "part" ELSE "closed"
    /\ r.pc = "idle" => r = IdleJob
    /\ r.pc # "idle" => r.todo # <<>> /\ r.pc \in Downloading \cup Deleting
    /\ r.pc \in Deleting => Len(r.todo) <= 1
    /\ r.pc = "request" => r.from = Extent(c)
    /\ r.pc = "open" =>
         /\ r.body \in 1..MaxVersion /\ r.from = Extent(c)
         /\ IF r.append THEN 0 < r.from /\ r.from < Size /\ r.pos = r.from + 1 ELSE r.pos = 1
    /\ r.pc = "stream" =>
         /\ r.body \in 1..MaxVersion /\ c # Nothing
         /\ r.pos = Len(c) + 1
    /\ r.pc = "rename" => c # Nothing /\ Len(c) = Size

\* The beginning of one item that belongs under p, piece by piece.
Begun(c, p) ==
    /\ Len(c) <= Size
    /\ \E i \in Items : PathOf[i] = p /\ \A k \in 1..Len(c) : \E v \in Versions : c[k] = <<i, v, k>>

Typed ==
    /\ srv \in [Items -> Versions]
    /\ final \in [Paths -> Contents] /\ part \in [Paths -> Contents]
    /\ job \in [Jobs -> JobStates]

\* No two downloads are at work on one path.
Apart ==
    \A j, k \in Jobs : j # k /\ job[j].pc \in Downloading /\ job[k].pc \in Downloading =>
      \A e \in ToSet(job[j].todo), f \in ToSet(job[k].todo) : PathOf[e] # PathOf[f]

Fits == \A j \in Jobs : Fit(job[j], part[Path(j)])

JobsInv == Typed /\ Apart /\ Fits

Beginnings == \A p \in Paths : part[p] # Nothing => Begun(part[p], p)

WholeInv == JobsInv /\ Beginnings /\ WholeFiles

\* While nothing is lost, a row has its file unless a delete is between the two ...
Filed ==
    \A i \in Items : row[i] # 0 /\ ~Present(i) => \E k \in Jobs : At(k, "unrow") /\ Item(k) = i

\* ... and what has been renamed and not entered yet is there: nobody is about to unlink
\* what is being fetched, since whoever deletes an item that waits to be downloaded found
\* a row, and a download that finds a row and no file has met the delete after its unlink.
Renamed == \A j \in Jobs : job[j].pc \in {"shelve", "insert"} => Present(Item(j))

Spared ==
    \A j, k \in Jobs : job[j].pc \in Fetching /\ At(k, "unlink") => Item(j) # Item(k)

Known ==
    \A j, k \in Jobs : job[j].pc \in Downloading /\ At(k, "unlink") /\ Item(k) \in ToSet(job[j].todo) =>
      row[Item(k)] # 0

Leaving ==
    \A j \in Jobs : job[j].pc \in Fetching /\ row[Item(j)] # 0 =>
      \E k \in Jobs : At(k, "unrow") /\ Item(k) = Item(j)

Orderly == Filed /\ Renamed /\ Spared /\ Known /\ Leaving

ShelfInv ==
    /\ WholeInv
    /\ faults \in Nat /\ row \in [Items -> Versions] /\ sync = IdleSync
    /\ faults = 0 => Orderly

-----------------------------------------------------------------------------
(* Lists of items. *)

\* The recursive function of InOrder.
UpTo(f, S, n) ==
    f = [m \in 0..n |-> IF m = 0 THEN <<>>
                        ELSE IF Order[m] \in S THEN Append(f[m - 1], Order[m]) ELSE f[m - 1]]

LEMMA LeastOf ==
    ASSUME NEW T, T \subseteq Nat, T # {}
    PROVE  \E x \in T : \A y \in T : x <= y
<1> DEFINE R == OpToRel(<, Nat)
<1>1. IsWellFoundedOn(R, Nat)
  BY NatLessThanWellFounded
<1>2. PICK x \in T : \A y \in T : ~(<<y, x>> \in R)
  <2> HIDE DEF R
  <2> QED BY <1>1, WFMin
<1>3. \A y \in T : <<y, x>> \in R <=> y < x
  BY DEF OpToRel
<1> HIDE DEF R
<1>4. \A y \in T : ~(y < x)
  BY <1>2, <1>3
<1>5. x \in Nat /\ \A y \in T : y \in Nat
  OBVIOUS
<1> QED BY <1>4, <1>5

LEMMA UpToExists ==
    ASSUME NEW S, NEW n \in Nat
    PROVE  \E f : UpTo(f, S, n)
<1> DEFINE T == {m \in Nat : ~\E f : UpTo(f, S, m)}
<1> SUFFICES ASSUME T # {} PROVE FALSE
  OBVIOUS
<1>1. PICK m \in T : \A l \in T : m <= l
  BY LeastOf
<1>2. UpTo([l \in 0..0 |-> <<>>], S, 0)
  BY DEF UpTo
<1>3. m # 0 /\ m - 1 \in Nat /\ m \in Nat
  BY <1>1, <1>2
<1>4. PICK f : UpTo(f, S, m - 1)
  <2>1. m - 1 \notin T
    BY <1>1, <1>3
  <2> QED BY <1>3, <2>1
<1> DEFINE step(l, g) == IF Order[l] \in S THEN Append(g, Order[l]) ELSE g
           f2 == [l \in 0..m |-> IF l = m THEN step(m, f[m - 1]) ELSE f[l]]
<1>5. \A l \in 0..(m - 1) : f[l] = IF l = 0 THEN <<>> ELSE step(l, f[l - 1])
  BY <1>4 DEF UpTo
<1>6. f2 = [l \in 0..m |-> IF l = 0 THEN <<>> ELSE step(l, f2[l - 1])]
  <2> HIDE DEF step
  <2> QED BY <1>3, <1>5
<1>7. UpTo(f2, S, m)
  <2> HIDE DEF f2
  <2> QED BY <1>6 DEF UpTo
<1> QED BY <1>1, <1>7

\* A list of items is one: every row a query returns is of its table.
LEMMA InOrderItems ==
    ASSUME NEW S PROVE InOrder(S) \in Seq(Items)
<1> DEFINE N == Len(Order)
<1>1. N \in Nat /\ \A l \in 1..N : Order[l] \in Items
  BY ShelfAssumption
<1>2. PICK f : f = (CHOOSE g : UpTo(g, S, N))
  OBVIOUS
<1>3. UpTo(f, S, N)
  BY <1>1, <1>2, UpToExists
<1>4. InOrder(S) = f[N]
  BY <1>2 DEF InOrder, UpTo
<1> DEFINE T == {l \in 0..N : f[l] \notin Seq(Items)}
<1>5. T = {}
  <2> SUFFICES ASSUME T # {} PROVE FALSE
    OBVIOUS
  <2>1. PICK m \in T : \A l \in T : m <= l
    <3>1. T \subseteq Nat
      BY <1>1
    <3> QED BY <3>1, LeastOf
  <2>2. f[m] = IF m = 0 THEN <<>>
               ELSE IF Order[m] \in S THEN Append(f[m - 1], Order[m]) ELSE f[m - 1]
    BY <1>1, <1>3, <2>1 DEF UpTo
  <2>3. m # 0 => f[m - 1] \in Seq(Items)
    BY <1>1, <2>1
  <2>4. f[m] \in Seq(Items)
    BY <1>1, <2>1, <2>2, <2>3
  <2> QED BY <2>1, <2>4
<1> QED BY <1>1, <1>4, <1>5

-----------------------------------------------------------------------------
(* What a step of one job leaves of the others. *)

LEMMA PathsOfItems ==
    \A i \in Items : PathOf[i] \in Paths
  BY ShelfAssumption

\* The head of a list that is not empty, and what following it leaves.
LEMMA Lists ==
    ASSUME NEW q \in Seq(Items), q # <<>>
    PROVE  /\ Head(q) \in Items /\ Head(q) \in ToSet(q)
           /\ Tail(q) \in Seq(Items) /\ ToSet(Tail(q)) \subseteq ToSet(q)
           /\ ToSet(q) \subseteq Items
           /\ Len(q) > 1 => Tail(q) # <<>>
<1>1. Len(q) \in Nat \ {0} /\ Head(q) = q[1] /\ 1 \in DOMAIN q /\ q[1] \in Items
  OBVIOUS
<1>2. Tail(q) \in Seq(Items) /\ Len(Tail(q)) = Len(q) - 1
      /\ \A k \in 1..(Len(q) - 1) : Tail(q)[k] = q[k + 1]
  BY <1>1
<1>3. /\ \A e : e \in ToSet(q) <=> \E k \in 1..Len(q) : e = q[k]
      /\ \A e : e \in ToSet(Tail(q)) <=> \E k \in 1..(Len(q) - 1) : e = Tail(q)[k]
  <2>1. DOMAIN q = 1..Len(q) /\ DOMAIN Tail(q) = 1..(Len(q) - 1)
    BY <1>1, <1>2
  <2> QED BY <2>1 DEF ToSet
<1>4. \A k \in 1..(Len(q) - 1) : k + 1 \in 1..Len(q)
  BY <1>1
<1>5. ToSet(Tail(q)) \subseteq ToSet(q)
  BY <1>2, <1>3, <1>4
<1>6. ToSet(q) \subseteq Items /\ Head(q) \in ToSet(q)
  BY <1>1, <1>3
<1>7. Len(q) > 1 => Tail(q) # <<>>
  <2>1. Len(q) > 1 => Len(Tail(q)) # 0
    BY <1>1, <1>2
  <2> QED BY <2>1
<1> QED BY <1>1, <1>2, <1>5, <1>6, <1>7

\* A job takes a step that fits what it finds, and the others see nothing of it.
LEMMA Moves ==
    ASSUME JobsInv, NEW j \in Jobs, NEW r \in JobStates,
           job' = [job EXCEPT ![j] = r],
           srv' \in [Items -> Versions],
           final' \in [Paths -> Contents], part' \in [Paths -> Contents],
           Fit(r, part'[PathOf[Head(r.todo)]]),
           r.pc \in Downloading => \A k \in Jobs \ {j} : job[k].pc \in Downloading =>
             \A e \in ToSet(r.todo), f \in ToSet(job[k].todo) : PathOf[e] # PathOf[f],
           \A k \in Jobs \ {j} : job[k].pc \in Downloading => part'[Path(k)] = part[Path(k)]
    PROVE  JobsInv'
<1>1. job'[j] = r /\ (\A k \in Jobs \ {j} : job'[k] = job[k]) /\ job' \in [Jobs -> JobStates]
  BY DEF JobsInv, Typed
<1>2. Typed'
  BY <1>1 DEF Typed
<1>3. Apart'
  BY <1>1 DEF JobsInv, Apart
<1>4. Fits'
  <2> SUFFICES ASSUME NEW k \in Jobs PROVE Fit(job'[k], part'[PathOf[Head(job'[k].todo)]])
    BY DEF Fits, Path, Item
  <2>1. CASE k = j
    BY <1>1, <2>1
  <2>2. CASE k # j /\ job[k].pc \in Downloading
    BY <1>1, <2>2 DEF JobsInv, Fits, Path, Item
  <2>3. CASE k # j /\ job[k].pc \notin Downloading
    BY <1>1, <2>3 DEF JobsInv, Fits, Fit, Downloading, Fetching
  <2> QED BY <2>1, <2>2, <2>3
<1> QED BY <1>2, <1>3, <1>4 DEF JobsInv

\* The same of a download or a deletion that goes on with its item, or leaves it.
LEMMA GoesOn ==
    ASSUME JobsInv, NEW j \in Jobs, NEW r \in JobStates, job[j].pc # "idle",
           job' = [job EXCEPT ![j] = r],
           r.todo = job[j].todo, Fit(r, part'[Path(j)]),
           r.pc \in Downloading => job[j].pc \in Downloading,
           srv' \in [Items -> Versions],
           final' \in [Paths -> Contents], part' \in [Paths -> Contents],
           job[j].pc \notin Downloading => part' = part,
           \A p \in Paths \ {Path(j)} : part'[p] = part[p]
    PROVE  JobsInv'
<1>1. job[j] \in JobStates /\ job[j].todo \in Seq(Items) /\ job[j].todo # <<>>
  BY DEF JobsInv, Typed, JobStates, Fits, Fit
<1>2. \A k \in Jobs \ {j} : job[k].pc \in Downloading => part'[Path(k)] = part[Path(k)]
  <2> SUFFICES ASSUME NEW k \in Jobs \ {j}, job[k].pc \in Downloading, job[j].pc \in Downloading
               PROVE part'[Path(k)] = part[Path(k)]
    OBVIOUS
  <2>1. job[k].todo \in Seq(Items) /\ job[k].todo # <<>>
    BY DEF JobsInv, Typed, JobStates, Fits, Fit, Downloading, Fetching
  <2>2. Item(k) \in Items /\ Item(k) \in ToSet(job[k].todo) /\ Item(j) \in ToSet(job[j].todo)
    BY <1>1, <2>1, Lists DEF Item
  <2>3. Path(k) \in Paths /\ Path(k) # Path(j)
    BY <2>2, PathsOfItems DEF JobsInv, Apart, Path
  <2> QED BY <2>3
<1>3. r.pc \in Downloading => \A k \in Jobs \ {j} : job[k].pc \in Downloading =>
        \A e \in ToSet(r.todo), f \in ToSet(job[k].todo) : PathOf[e] # PathOf[f]
  BY DEF JobsInv, Apart
<1>4. Fit(r, part'[PathOf[Head(r.todo)]])
  BY DEF Path, Item
<1> QED BY <1>2, <1>3, <1>4, Moves

LEMMA IdleTyped ==
    IdleJob \in JobStates
  BY SizeAssumption DEF IdleJob, JobStates, JobPCs, Versions

LEMMA Leaves ==
    ASSUME JobsInv, NEW j \in Jobs, job[j].pc # "idle", Leave(j),
           job[j].pc \in Downloading \/ Len(job[j].todo) <= 1,
           UNCHANGED <<final, part>>, srv' \in [Items -> Versions]
    PROVE  JobsInv'
<1> DEFINE r == Following(job[j])
<1>1. job[j] \in JobStates /\ job[j].todo \in Seq(Items) /\ job[j].todo # <<>>
  BY DEF JobsInv, Typed, JobStates, Fits, Fit
<1>2. IdleJob \in JobStates
  BY IdleTyped
<1>3. /\ r \in JobStates /\ ToSet(r.todo) \subseteq ToSet(job[j].todo)
      /\ Fit(r, part'[PathOf[Head(r.todo)]])
      /\ r.pc \in Downloading => job[j].pc \in Downloading
  <2>1. CASE Len(job[j].todo) <= 1
    BY <1>2, <2>1 DEF Following, Fit, IdleJob, ToSet, Downloading, Fetching, Deleting
  <2>2. CASE ~(Len(job[j].todo) <= 1)
    <3>1. Len(job[j].todo) > 1
      BY <1>1, <2>2
    <3>2. r = [IdleJob EXCEPT !.pc = "check", !.todo = Tail(job[j].todo)]
      BY <2>2 DEF Following
    <3>3. Tail(job[j].todo) \in Seq(Items) /\ Tail(job[j].todo) # <<>>
          /\ ToSet(Tail(job[j].todo)) \subseteq ToSet(job[j].todo)
      BY <1>1, <3>1, Lists
    <3>4. r \in JobStates
      BY <1>2, <3>2, <3>3 DEF JobStates, IdleJob, JobPCs
    <3> QED BY <2>2, <3>2, <3>3, <3>4 DEF Fit, IdleJob, Downloading, Fetching, Deleting
  <2> QED BY <2>1, <2>2
<1>4. job' = [job EXCEPT ![j] = r]
  BY DEF Leave
<1>5. \A k \in Jobs \ {j} : job[k].pc \in Downloading =>
        part'[Path(k)] = part[Path(k)]
  OBVIOUS
<1>6. r.pc \in Downloading => \A k \in Jobs \ {j} : job[k].pc \in Downloading =>
        \A e \in ToSet(r.todo), f \in ToSet(job[k].todo) : PathOf[e] # PathOf[f]
  BY <1>3 DEF JobsInv, Apart
<1> HIDE DEF r
<1> QED BY <1>3, <1>4, <1>5, <1>6, Moves DEF JobsInv, Typed

\* No handle but that of a download at its own path is open.
LEMMA Unhandled ==
    ASSUME JobsInv, NEW p, NEW f, f["closed"] = "closed",
           f["part"] = "part" \/ \A k \in Jobs : At(k, "stream") => Path(k) # p
    PROVE  Rehandle(p, f) = job
<1> SUFFICES ASSUME NEW k \in Jobs
             PROVE (IF job[k].todo # <<>> /\ Path(k) = p THEN [job[k] EXCEPT !.at = f[@]] ELSE job[k]) = job[k]
  BY DEF JobsInv, Typed, Rehandle
<1>1. job[k].at = IF job[k].pc = "stream" THEN "part" ELSE "closed"
  BY DEF JobsInv, Fits, Fit
<1>2. job[k].todo # <<>> /\ Path(k) = p => f[job[k].at] = job[k].at
  BY <1>1 DEF At
<1> QED BY <1>2 DEF JobsInv, Typed, JobStates

-----------------------------------------------------------------------------
(* WholeInv, action by action. *)

LEMMA DiskKept ==
    ASSUME WholeInv, JobsInv', part' = part,
           \A p \in Paths : final'[p] = final[p] \/ final'[p] = Nothing
    PROVE  WholeInv'
  BY DEF WholeInv, Beginnings, WholeFiles

\* The steps that change a label only.
Labels == {"fetch", "shelve", "insert", "restamp", "unrow", "unstamp", "count", "clear"}

LEMMA GotoStep ==
    ASSUME WholeInv, NEW j \in Jobs, NEW l \in Labels, Goto(j, l), job[j].pc \notin {"idle", "stream"},
           l \in Downloading <=> job[j].pc \in Downloading,
           UNCHANGED <<srv, part>>, final' \in [Paths -> Contents],
           \A p \in Paths : final'[p] = final[p] \/ final'[p] = Nothing
    PROVE  WholeInv'
<1> DEFINE r == [job[j] EXCEPT !.pc = l]
<1>1. job[j] \in JobStates /\ job \in [Jobs -> JobStates] /\ Fit(job[j], part[Path(j)])
  BY DEF WholeInv, JobsInv, Typed, Fits
<1>2. r \in JobStates /\ r.todo = job[j].todo /\ r.pc = l /\ r.at = job[j].at
  BY <1>1 DEF JobStates, JobPCs, Labels
<1>3. job' = [job EXCEPT ![j] = r]
  BY <1>1 DEF Goto
<1>4. Fit(r, part'[Path(j)])
  BY <1>1, <1>2 DEF Fit, Labels, Downloading, Fetching, Deleting
<1> HIDE DEF r
<1>5. JobsInv'
  BY <1>2, <1>3, <1>4, GoesOn DEF WholeInv, JobsInv, Typed
<1> QED BY <1>5, DiskKept

LEMMA LeaveStep ==
    ASSUME WholeInv, NEW j \in Jobs, job[j].pc # "idle", Leave(j),
           job[j].pc \in Downloading \/ Len(job[j].todo) <= 1,
           UNCHANGED <<srv, final, part>>
    PROVE  WholeInv'
<1>1. JobsInv'
  BY Leaves DEF WholeInv, JobsInv, Typed
<1> QED BY <1>1, DiskKept

LEMMA StartStep ==
    ASSUME WholeInv, Once, NEW j \in Jobs, NEW todo \in Seq(Items), Start(j, todo)
    PROVE  WholeInv'
<1> DEFINE r == [IdleJob EXCEPT !.pc = "check", !.todo = todo]
<1>1. r \in JobStates /\ r.pc = "check" /\ r.todo = todo /\ r.at = "closed"
  BY IdleTyped DEF IdleJob, JobStates, JobPCs
<1>2. job' = [job EXCEPT ![j] = r] /\ UNCHANGED <<srv, final, part>> /\ todo # <<>>
  BY DEF Start, srvVars, diskVars
<1>3. Fit(r, part'[PathOf[Head(r.todo)]])
  BY <1>1, <1>2 DEF Fit, Downloading, Deleting
<1>4. \A k \in Jobs \ {j} : \A e \in ToSet(todo), f \in ToSet(job[k].todo) : PathOf[e] # PathOf[f]
  BY DEF Start, Once, Overlaps
<1> HIDE DEF r
<1>5. JobsInv'
  BY <1>1, <1>2, <1>3, <1>4, Moves DEF WholeInv, JobsInv, Typed
<1> QED BY <1>2, <1>5, DiskKept

LEMMA CheckStep ==
    ASSUME WholeInv, NEW j \in Jobs, Check(j) PROVE WholeInv'
<1>1. job[j].pc = "check" /\ UNCHANGED <<srv, final, part>> /\ (Leave(j) \/ Goto(j, "fetch"))
  BY DEF Check, At, srvVars, diskVars
<1>2. CASE Leave(j)
  BY <1>1, <1>2, LeaveStep DEF Downloading
<1>3. CASE Goto(j, "fetch")
  BY <1>1, <1>3, GotoStep DEF Downloading, Fetching, Labels, WholeInv, JobsInv, Typed
<1> QED BY <1>1, <1>2, <1>3

LEMMA FetchStep ==
    ASSUME WholeInv, NEW j \in Jobs, Fetch(j) PROVE WholeInv'
<1>1. job[j].pc = "fetch" /\ UNCHANGED <<srv, final, part>>
  BY DEF Fetch, At, srvVars, diskVars
<1>2. CASE Leave(j)
  BY <1>1, <1>2, LeaveStep DEF Downloading, Fetching
<1>3. CASE ~Leave(j)
  <2> DEFINE r == [job[j] EXCEPT !.version = srv[Item(j)], !.pc = "probe"]
  <2>1. job[j] \in JobStates /\ job \in [Jobs -> JobStates] /\ Fit(job[j], part[Path(j)])
    BY DEF WholeInv, JobsInv, Typed, Fits
  <2>2. srv[Item(j)] \in Versions
    <3>1. job[j].todo \in Seq(Items) /\ job[j].todo # <<>>
      BY <1>1, <2>1 DEF JobStates, Fit
    <3> QED BY <3>1, Lists DEF WholeInv, JobsInv, Typed, Item
  <2>3. r \in JobStates /\ r.todo = job[j].todo /\ r.pc = "probe" /\ r.at = job[j].at
    BY <2>1, <2>2 DEF JobStates, JobPCs
  <2>4. job' = [job EXCEPT ![j] = r]
    BY <1>3, <2>1 DEF Fetch
  <2>5. Fit(r, part'[Path(j)])
    BY <1>1, <2>1, <2>3 DEF Fit, Downloading, Fetching, Deleting
  <2> HIDE DEF r
  <2>6. JobsInv'
    BY <1>1, <2>3, <2>4, <2>5, GoesOn DEF WholeInv, JobsInv, Typed, Downloading, Fetching
  <2> QED BY <1>1, <2>6, DiskKept
<1> QED BY <1>2, <1>3

\* What a partial file can be.
LEMMA PartAt ==
    ASSUME WholeInv, NEW j \in Jobs, job[j].pc # "idle"
    PROVE  /\ job[j] \in JobStates /\ job \in [Jobs -> JobStates] /\ Fit(job[j], part[Path(j)])
           /\ job[j].todo \in Seq(Items) /\ job[j].todo # <<>>
           /\ Item(j) \in Items /\ Path(j) \in Paths
           /\ part[Path(j)] # Nothing => /\ part[Path(j)] \in Seq(Piece \cup {Hole})
                                         /\ Begun(part[Path(j)], Path(j))
           /\ Extent(part[Path(j)]) \in 0..Size
<1>1. job[j] \in JobStates /\ job \in [Jobs -> JobStates] /\ Fit(job[j], part[Path(j)])
  BY DEF WholeInv, JobsInv, Typed, Fits
<1>2. job[j].todo \in Seq(Items) /\ job[j].todo # <<>>
  BY <1>1 DEF JobStates, Fit
<1>3. Item(j) \in Items /\ Path(j) \in Paths
  BY <1>2, Lists, PathsOfItems DEF Item, Path
<1>4. part[Path(j)] # Nothing => /\ part[Path(j)] \in Seq(Piece \cup {Hole})
                                 /\ Begun(part[Path(j)], Path(j))
  BY <1>3 DEF WholeInv, JobsInv, Typed, Beginnings, Contents
<1>5. Extent(part[Path(j)]) \in 0..Size
  <2>1. part[Path(j)] # Nothing => Len(part[Path(j)]) \in Nat /\ Len(part[Path(j)]) <= Size
    BY <1>4 DEF Begun
  <2> QED BY <2>1, SizeAssumption DEF Extent
<1> QED BY <1>1, <1>2, <1>3, <1>4, <1>5

\* Nobody else has an open handle at the path of a download.
LEMMA OwnHandle ==
    ASSUME WholeInv, NEW j \in Jobs, job[j].pc \in Downloading \ {"stream"},
           NEW f, f["closed"] = "closed"
    PROVE  Rehandle(Path(j), f) = job
<1>1. \A k \in Jobs : At(k, "stream") => Path(k) # Path(j)
  <2> SUFFICES ASSUME NEW k \in Jobs, At(k, "stream") PROVE Path(k) # Path(j)
    OBVIOUS
  <2>1. k # j /\ job[k].pc = "stream" /\ job[j].pc # "idle"
    BY DEF At, Downloading, Fetching
  <2>2. Item(k) \in ToSet(job[k].todo) /\ Item(j) \in ToSet(job[j].todo)
    BY <2>1, PartAt, Lists DEF Item
  <2> QED BY <2>1, <2>2 DEF WholeInv, JobsInv, Apart, Path, Downloading, Fetching
<1> QED BY <1>1, Unhandled DEF WholeInv

LEMMA ProbeStep ==
    ASSUME WholeInv, NEW j \in Jobs, Probe(j) PROVE WholeInv'
<1> DEFINE r == [job[j] EXCEPT !.from = Extent(part[Path(j)]), !.pc = "request"]
<1>1. job[j].pc = "probe" /\ UNCHANGED <<srv, final, part>>
  BY DEF Probe, At, srvVars, diskVars
<1>2. r \in JobStates /\ r.todo = job[j].todo /\ r.pc = "request" /\ r.at = job[j].at
      /\ r.from = Extent(part[Path(j)])
  <2>1. job[j] \in JobStates /\ Extent(part[Path(j)]) \in 0..Size
    BY <1>1, PartAt
  <2>2. Extent(part[Path(j)]) \in 0..(2 * Size)
    BY <2>1, SizeAssumption
  <2> QED BY <2>1, <2>2 DEF JobStates, JobPCs
<1>3. job' = [job EXCEPT ![j] = r]
  BY <1>1, PartAt DEF Probe, Extent
<1>4. Fit(r, part'[Path(j)])
  BY <1>1, <1>2, PartAt DEF Fit, Downloading, Fetching, Deleting
<1> HIDE DEF r
<1>5. JobsInv'
  BY <1>1, <1>2, <1>3, <1>4, GoesOn DEF WholeInv, JobsInv, Typed, Downloading, Fetching
<1> QED BY <1>1, <1>5, DiskKept

LEMMA RequestStep ==
    ASSUME WholeInv, NEW j \in Jobs, Request(j) PROVE WholeInv'
<1>1. job[j].pc = "request" /\ UNCHANGED <<srv, final, part>>
  BY DEF Request, At, srvVars, diskVars
<1>2. CASE Leave(j)
  BY <1>1, <1>2, LeaveStep DEF Downloading, Fetching
<1>3. ASSUME NEW append \in BOOLEAN, Accept(j, append), srv[Item(j)] # 0,
             append => job[j].from > 0 /\ Satisfiable(job[j].from)
      PROVE  WholeInv'
  <2> DEFINE n == IF append THEN job[j].from + 1 ELSE 1
             r == [job[j] EXCEPT !.pc = "open", !.append = append, !.body = srv[Item(j)], !.pos = n]
  <2>1. /\ job[j] \in JobStates /\ job \in [Jobs -> JobStates] /\ Fit(job[j], part[Path(j)])
        /\ Item(j) \in Items
        /\ Extent(part[Path(j)]) \in 0..Size
    BY <1>1, PartAt
  <2>2. srv[Item(j)] \in Versions /\ srv[Item(j)] \in 1..MaxVersion
    <3>1. srv[Item(j)] \in Versions
      BY <2>1 DEF WholeInv, JobsInv, Typed
    <3> QED BY <1>3, <3>1, SizeAssumption DEF Versions
  <2>3. job[j].from = Extent(part[Path(j)]) /\ job[j].from \in 0..Size
    BY <1>1, <2>1 DEF Fit
  <2>4. n \in 0..(2 * Size)
    BY <1>3, <2>3, SizeAssumption DEF Satisfiable
  <2>5. r \in JobStates /\ r.todo = job[j].todo /\ r.pc = "open" /\ r.at = job[j].at
        /\ r.from = job[j].from /\ r.append = append /\ r.body = srv[Item(j)] /\ r.pos = n
    <3> HIDE DEF n
    <3> QED BY <2>1, <2>2, <2>4 DEF JobStates, JobPCs
  <2>6. job' = [job EXCEPT ![j] = r]
    BY <1>3, <2>1 DEF Accept
  <2>7. job[j].at = "closed" /\ job[j].todo # <<>>
    BY <1>1, <2>1 DEF Fit
  <2> HIDE DEF r
  <2>8. Fit(r, part'[Path(j)])
    BY <1>1, <1>3, <2>2, <2>3, <2>5, <2>7 DEF Fit, Downloading, Fetching, Deleting, Satisfiable
  <2>9. JobsInv'
    BY <1>1, <2>5, <2>6, <2>8, GoesOn DEF WholeInv, JobsInv, Typed, Downloading, Fetching
  <2> QED BY <1>1, <2>9, DiskKept
<1>4. job[j].from \in Nat
  <2>1. job[j] \in JobStates
    BY <1>1, PartAt
  <2> QED BY <2>1, SizeAssumption DEF JobStates
<1>5. \/ Leave(j)
      \/ \E append \in BOOLEAN : Accept(j, append) /\ srv[Item(j)] # 0
                                 /\ (append => job[j].from > 0 /\ Satisfiable(job[j].from))
  <2>1. CASE Leave(j)
    BY <2>1
  <2>2. CASE /\ Accept(j, job[j].from > 0) /\ srv[Item(j)] # 0
             /\ job[j].from = 0 \/ Satisfiable(job[j].from)
    <3>1. CASE job[j].from > 0
      <4>1. (job[j].from > 0) = TRUE
        BY <3>1
      <4>2. Accept(j, TRUE)
        BY <2>2, <4>1, Zenon
      <4>3. Satisfiable(job[j].from)
        BY <1>4, <2>2, <3>1
      <4> QED BY <2>2, <3>1, <4>2, <4>3
    <3>2. CASE ~(job[j].from > 0)
      <4>1. (job[j].from > 0) = FALSE
        BY <3>2
      <4>2. Accept(j, FALSE)
        BY <2>2, <4>1, Zenon
      <4> QED BY <2>2, <4>2
    <3> QED BY <3>1, <3>2
  <2>3. CASE Accept(j, FALSE) /\ srv[Item(j)] # 0
    BY <2>3
  <2> QED BY <2>1, <2>2, <2>3 DEF Request
<1> QED BY <1>2, <1>3, <1>5

LEMMA OpenStep ==
    ASSUME WholeInv, NEW j \in Jobs, Open(j) PROVE WholeInv'
<1> DEFINE p == Path(j)
           r == [job[j] EXCEPT !.at = "part", !.pc = "stream"]
<1>1. job[j].pc = "open" /\ UNCHANGED <<srv, final>>
      /\ part' = [part EXCEPT ![p] = IF job[j].append /\ part[p] # Nothing THEN part[p] ELSE <<>>]
      /\ job' = Opened(j)
  BY DEF Open, At, srvVars
<1>2. /\ job[j] \in JobStates /\ job \in [Jobs -> JobStates] /\ Fit(job[j], part[p])
      /\ job[j].todo \in Seq(Items) /\ job[j].todo # <<>>
      /\ Item(j) \in Items /\ p \in Paths
  BY <1>1, PartAt
<1>3. /\ job[j].body \in 1..MaxVersion /\ job[j].from = Extent(part[p])
      /\ IF job[j].append THEN 0 < job[j].from /\ job[j].pos = job[j].from + 1 ELSE job[j].pos = 1
  BY <1>1, <1>2 DEF Fit
<1>5. Rehandle(p, [Stay EXCEPT !["part"] = "gone"]) = job
  <2>1. [Stay EXCEPT !["part"] = "gone"]["closed"] = "closed"
    BY DEF Stay
  <2> QED BY <1>1, <2>1, OwnHandle DEF Downloading, Fetching
<1>6. job' = [job EXCEPT ![j] = r]
  BY <1>1, <1>2, <1>5 DEF Opened
<1>7. r \in JobStates /\ r.todo = job[j].todo /\ r.pc = "stream" /\ r.at = "part"
      /\ r.body = job[j].body /\ r.pos = job[j].pos
  BY <1>2 DEF JobStates, JobPCs
<1>8. /\ part'[p] = IF job[j].append THEN part[p] ELSE <<>>
      /\ part'[p] # Nothing /\ part'[p] \in Contents
      /\ \A q \in Paths \ {p} : part'[q] = part[q]
  <2>1. part \in [Paths -> Contents] /\ <<>> \in Contents /\ <<>> # Nothing
    <3>1. <<>> \in Seq(Piece \cup {Hole})
      OBVIOUS
    <3> QED BY <3>1, NothingAssumption DEF WholeInv, JobsInv, Typed, Contents
  <2>2. job[j].append => part[p] # Nothing
    BY <1>3 DEF Extent
  <2>3. part'[p] = IF job[j].append THEN part[p] ELSE <<>>
    BY <1>1, <1>2, <2>1, <2>2
  <2> QED BY <1>1, <1>2, <2>1, <2>2, <2>3
<1>9. job[j].pos = Len(part'[p]) + 1
  BY <1>3, <1>8, NothingAssumption DEF Extent
<1>10. part' \in [Paths -> Contents]
  BY <1>1, <1>2, <1>8 DEF WholeInv, JobsInv, Typed
<1>11. Fit(r, part'[p])
  BY <1>2, <1>3, <1>7, <1>8, <1>9 DEF Fit, Downloading, Fetching, Deleting
<1> HIDE DEF r
<1>12. JobsInv'
  BY <1>1, <1>6, <1>7, <1>8, <1>10, <1>11, GoesOn DEF WholeInv, JobsInv, Typed, Downloading, Fetching
<1>13. Beginnings'
  <2> SUFFICES ASSUME NEW q \in Paths, part'[q] # Nothing PROVE Begun(part'[q], q)
    BY DEF Beginnings, Begun
  <2>1. CASE q # p \/ job[j].append
    BY <1>1, <1>8, <2>1 DEF WholeInv, Beginnings
  <2>2. CASE q = p /\ ~job[j].append
    BY <1>2, <1>8, <2>2, SizeAssumption DEF Begun, Path
  <2> QED BY <2>1, <2>2
<1> QED BY <1>1, <1>12, <1>13 DEF WholeInv, WholeFiles

\* A piece goes behind what is there, whatever the mode the file was opened in.
LEMMA WrittenBehind ==
    ASSUME NEW c \in Seq(Piece \cup {Hole}), NEW append \in BOOLEAN, NEW piece \in Piece,
           NEW n, n = Len(c) + 1
    PROVE  /\ Written(c, append, n, piece) \in Seq(Piece \cup {Hole})
           /\ Len(Written(c, append, n, piece)) = n
           /\ Written(c, append, n, piece)[n] = piece
           /\ \A k \in 1..(n - 1) : Written(c, append, n, piece)[k] = c[k]
<1>1. Len(c) \in Nat /\ n \in Nat /\ n > Len(c) /\ \A k \in 1..Len(c) : c[k] \in Piece \cup {Hole}
  OBVIOUS
<1>2. CASE append
  BY <1>1, <1>2 DEF Written
<1>3. CASE ~append
  <2> DEFINE w == [k \in 1..n |-> IF k = n THEN piece ELSE IF k <= Len(c) THEN c[k] ELSE Hole]
  <2>1. Written(c, append, n, piece) = w
    BY <1>1, <1>3 DEF Written
  <2>2. w \in [1..n -> Piece \cup {Hole}]
    BY <1>1
  <2>3. w \in Seq(Piece \cup {Hole}) /\ Len(w) = n
    BY <1>1, <2>2
  <2>4. w[n] = piece /\ \A k \in 1..(n - 1) : w[k] = c[k]
    BY <1>1
  <2> QED BY <2>1, <2>3, <2>4
<1> QED BY <1>2, <1>3

LEMMA StreamStep ==
    ASSUME WholeInv, OwnPaths, NEW j \in Jobs, Stream(j) PROVE WholeInv'
<1> DEFINE p == Path(j)
           c == part[p]
           piece == <<Item(j), job[j].body, job[j].pos>>
           r == [job[j] EXCEPT !.pos = @ + 1]
<1>1. job[j].pc = "stream" /\ job[j].pos <= Size /\ UNCHANGED srv
  BY DEF Stream, At, srvVars
<1>2. /\ job[j] \in JobStates /\ job \in [Jobs -> JobStates] /\ Fit(job[j], c)
      /\ job[j].todo # <<>> /\ Item(j) \in Items /\ p \in Paths
      /\ c # Nothing => c \in Seq(Piece \cup {Hole}) /\ Begun(c, p)
  BY <1>1, PartAt
<1>3. /\ job[j].at = "part" /\ job[j].body \in 1..MaxVersion /\ c # Nothing
      /\ job[j].pos = Len(c) + 1
      /\ c \in Seq(Piece \cup {Hole}) /\ Begun(c, p)
  BY <1>1, <1>2 DEF Fit
<1>4. /\ final' = final
      /\ part' = [part EXCEPT ![p] = Written(c, job[j].append, job[j].pos, piece)]
      /\ job' = [job EXCEPT ![j].pos = @ + 1]
  BY <1>3 DEF Stream
<1>5. job[j].pos \in 1..Size /\ piece \in Piece /\ job[j].append \in BOOLEAN
  <2>1. Len(c) \in Nat
    BY <1>3
  <2> QED BY <1>1, <1>2, <1>3, <2>1, SizeAssumption DEF Piece, JobStates
<1> DEFINE w == Written(c, job[j].append, job[j].pos, piece)
<1>6. /\ w \in Seq(Piece \cup {Hole}) /\ Len(w) = job[j].pos /\ w[job[j].pos] = piece
      /\ \A k \in 1..(job[j].pos - 1) : w[k] = c[k]
  <2> HIDE DEF piece, c
  <2> QED BY <1>3, <1>5, WrittenBehind
<1> HIDE DEF w
<1>7. /\ part'[p] = w /\ part' \in [Paths -> Contents] /\ w # Nothing
      /\ \A q \in Paths \ {p} : part'[q] = part[q]
  BY <1>2, <1>4, <1>6, NothingAssumption DEF WholeInv, JobsInv, Typed, Contents, w
<1>8. job[j].pos + 1 \in 0..(2 * Size)
  BY <1>5, SizeAssumption
<1>9. r \in JobStates /\ r.todo = job[j].todo /\ r.pc = "stream" /\ r.at = "part"
      /\ r.body = job[j].body /\ r.pos = job[j].pos + 1
  BY <1>1, <1>2, <1>3, <1>8 DEF JobStates
<1>10. job' = [job EXCEPT ![j] = r]
  BY <1>2, <1>4
<1> HIDE DEF r
<1>11. Fit(r, part'[p])
  BY <1>2, <1>3, <1>6, <1>7, <1>9 DEF Fit, Downloading, Fetching, Deleting
<1>12. JobsInv'
  BY <1>1, <1>4, <1>7, <1>9, <1>10, <1>11, GoesOn DEF WholeInv, JobsInv, Typed, Downloading, Fetching
<1>13. Begun(w, p)
  <2>1. PICK i \in Items : PathOf[i] = p /\ \A k \in 1..Len(c) : \E v \in Versions : c[k] = <<i, v, k>>
    BY <1>3 DEF Begun
  <2>2. i = Item(j)
    BY <1>2, <2>1 DEF OwnPaths, Path
  <2>3. job[j].body \in Versions
    BY <1>3, SizeAssumption DEF Versions
  <2>4. ASSUME NEW k \in 1..Len(w) PROVE \E v \in Versions : w[k] = <<i, v, k>>
    <3>1. CASE k = job[j].pos
      BY <1>6, <2>2, <2>3, <3>1
    <3>2. CASE k # job[j].pos
      <4>1. k \in 1..Len(c) /\ w[k] = c[k]
        BY <1>3, <1>5, <1>6, <3>2
      <4> QED BY <2>1, <4>1
    <3> QED BY <3>1, <3>2
  <2> QED BY <1>5, <1>6, <2>1, <2>4 DEF Begun
<1>14. Beginnings'
  <2> SUFFICES ASSUME NEW q \in Paths, part'[q] # Nothing PROVE Begun(part'[q], q)
    BY DEF Beginnings, Begun
  <2> QED BY <1>7, <1>13 DEF WholeInv, Beginnings
<1> QED BY <1>4, <1>12, <1>14 DEF WholeInv, WholeFiles

LEMMA FinishStep ==
    ASSUME WholeInv, NEW j \in Jobs, Finish(j) PROVE WholeInv'
<1> DEFINE r == [job[j] EXCEPT !.pc = "rename", !.at = "closed"]
<1>1. job[j].pc = "stream" /\ job[j].pos > Size /\ UNCHANGED <<srv, final, part>>
  BY DEF Finish, At, srvVars, diskVars
<1>2. /\ job[j] \in JobStates /\ job \in [Jobs -> JobStates] /\ Fit(job[j], part[Path(j)])
      /\ job[j].todo # <<>> /\ part[Path(j)] # Nothing => part[Path(j)] \in Seq(Piece \cup {Hole})
      /\ Extent(part[Path(j)]) \in 0..Size
  BY <1>1, PartAt
<1>3. part[Path(j)] # Nothing /\ Len(part[Path(j)]) = Size
  <2>1. part[Path(j)] # Nothing /\ job[j].pos = Len(part[Path(j)]) + 1
    BY <1>1, <1>2 DEF Fit
  <2>2. Len(part[Path(j)]) \in Nat /\ Len(part[Path(j)]) <= Size
    BY <1>2, <2>1 DEF Extent
  <2> QED BY <1>1, <2>1, <2>2, SizeAssumption
<1>4. r \in JobStates /\ r.todo = job[j].todo /\ r.pc = "rename" /\ r.at = "closed"
  BY <1>2 DEF JobStates, JobPCs
<1>5. job' = [job EXCEPT ![j] = r]
  BY <1>2 DEF Finish
<1> HIDE DEF r
<1>6. Fit(r, part'[Path(j)])
  BY <1>1, <1>2, <1>3, <1>4 DEF Fit, Downloading, Fetching, Deleting
<1>7. JobsInv'
  BY <1>1, <1>4, <1>5, <1>6, GoesOn DEF WholeInv, JobsInv, Typed, Downloading, Fetching
<1> QED BY <1>1, <1>7, DiskKept

\* A whole partial file takes the final path.
LEMMA RenameStep ==
    ASSUME WholeInv, NEW j \in Jobs, Rename(j) PROVE WholeInv'
<1> DEFINE p == Path(j)
           r == [job[j] EXCEPT !.pc = "shelve"]
<1>1. job[j].pc = "rename" /\ UNCHANGED srv
  BY DEF Rename, At, srvVars
<1>2. /\ job[j] \in JobStates /\ job \in [Jobs -> JobStates] /\ Fit(job[j], part[p])
      /\ job[j].todo # <<>> /\ job[j].todo \in Seq(Items) /\ p \in Paths
      /\ part[p] # Nothing => Begun(part[p], p)
  BY <1>1, PartAt
<1>3. part[p] # Nothing /\ Len(part[p]) = Size /\ Begun(part[p], p) /\ job[j].at = "closed"
  BY <1>1, <1>2 DEF Fit
<1>4. /\ final' = [final EXCEPT ![p] = part[p]] /\ part' = [part EXCEPT ![p] = Nothing]
      /\ job' = [Rehandle(p, AfterRename) EXCEPT ![j].pc = "shelve"]
  BY <1>3 DEF Rename
<1>6. Rehandle(p, AfterRename) = job
  <2>1. AfterRename["closed"] = "closed"
    BY DEF Stay, AfterRename
  <2> QED BY <1>1, <2>1, OwnHandle DEF Downloading, Fetching
<1>7. job' = [job EXCEPT ![j] = r]
  BY <1>2, <1>4, <1>6
<1>8. r \in JobStates /\ r.todo = job[j].todo /\ r.pc = "shelve" /\ r.at = "closed"
  BY <1>2, <1>3 DEF JobStates, JobPCs
<1> HIDE DEF r
<1>9. Fit(r, part'[p])
  BY <1>2, <1>8 DEF Fit, Downloading, Fetching, Deleting
<1>10. /\ final' \in [Paths -> Contents] /\ part' \in [Paths -> Contents]
       /\ final'[p] = part[p] /\ part'[p] = Nothing
       /\ \A q \in Paths \ {p} : final'[q] = final[q] /\ part'[q] = part[q]
  BY <1>2, <1>4 DEF WholeInv, JobsInv, Typed, Contents
<1>11. JobsInv'
  BY <1>1, <1>7, <1>8, <1>9, <1>10, GoesOn DEF WholeInv, JobsInv, Typed, Downloading, Fetching
<1>12. Beginnings'
  BY <1>10 DEF WholeInv, Beginnings
<1>13. WholeFiles'
  <2> SUFFICES ASSUME NEW q \in Paths, final'[q] # Nothing
               PROVE  /\ Len(final'[q]) = Size
                      /\ \E i \in Items : PathOf[i] = q /\ \A k \in 1..Size : \E v \in Versions : final'[q][k] = <<i, v, k>>
    BY DEF WholeFiles
  <2>1. CASE q = p
    BY <1>3, <1>10, <2>1 DEF Begun
  <2>2. CASE q # p
    BY <1>10, <2>2 DEF WholeInv, WholeFiles
  <2> QED BY <2>1, <2>2
<1> QED BY <1>11, <1>12, <1>13 DEF WholeInv

LEMMA EnterSteps ==
    ASSUME WholeInv, NEW j \in Jobs, Shelve(j) \/ Insert(j) \/ Restamp(j) \/ Abort(j) PROVE WholeInv'
<1>1. CASE Shelve(j)
  BY <1>1, GotoStep DEF Shelve, At, Labels, Downloading, Fetching, srvVars, diskVars, WholeInv, JobsInv, Typed
<1>2. CASE Insert(j)
  <2>1. job[j].pc = "insert" /\ UNCHANGED <<srv, final, part>> /\ (Leave(j) \/ Goto(j, "restamp"))
    BY <1>2 DEF Insert, At, srvVars, diskVars
  <2>2. CASE Leave(j)
    BY <2>1, <2>2, LeaveStep DEF Downloading, Fetching
  <2>3. CASE Goto(j, "restamp")
    BY <2>1, <2>3, GotoStep DEF Labels, Downloading, Fetching, WholeInv, JobsInv, Typed
  <2> QED BY <2>1, <2>2, <2>3
<1>3. CASE Restamp(j)
  BY <1>3, LeaveStep DEF Restamp, At, Downloading, srvVars, diskVars
<1>4. CASE Abort(j)
  <2>1. job[j].pc \in Fetching /\ Leave(j) /\ UNCHANGED <<srv, final, part>>
    BY <1>4 DEF Abort, At, Fetching, srvVars, diskVars
  <2> QED BY <2>1, LeaveStep DEF Downloading, Fetching
<1> QED BY <1>1, <1>2, <1>3, <1>4

(* A delete, the sync, and what happens around the app: a final path may lose its file. *)

\* No handle is at a final path when its name is taken away.
LEMMA UnlinkedNobody ==
    ASSUME WholeInv, NEW p
    PROVE  Rehandle(p, [Stay EXCEPT !["final"] = "gone"]) = job
<1>1. /\ [Stay EXCEPT !["final"] = "gone"]["closed"] = "closed"
      /\ [Stay EXCEPT !["final"] = "gone"]["part"] = "part"
  BY DEF Stay
<1> QED BY <1>1, Unhandled DEF WholeInv

LEMMA UnlinkedPaths ==
    ASSUME WholeInv, NEW p, Unlinked(p)
    PROVE  /\ final' \in [Paths -> Contents]
           /\ \A q \in Paths : final'[q] = final[q] \/ final'[q] = Nothing
           /\ p \in Paths => final'[p] = Nothing
           /\ \A q \in Paths \ {p} : final'[q] = final[q]
  BY DEF Unlinked, WholeInv, JobsInv, Typed, Contents

LEMMA JobsKept ==
    ASSUME WholeInv, UNCHANGED <<job, part>>, srv' \in [Items -> Versions], final' \in [Paths -> Contents],
           \A p \in Paths : final'[p] = final[p] \/ final'[p] = Nothing
    PROVE  WholeInv'
<1>1. JobsInv'
  BY DEF WholeInv, JobsInv, Typed, Apart, Fits, Path, Item
<1> QED BY <1>1, DiskKept

LEMMA DeleteSteps ==
    ASSUME WholeInv, NEW j \in Jobs,
           Unlink(j) \/ Unrow(j) \/ Unstamp(j) \/ Count(j) \/ Clear(j) \/ \E i \in Items : StartDelete(j, i)
    PROVE  WholeInv'
<1>1. CASE Unlink(j)
  <2>1. job[j].pc = "unlink" /\ UNCHANGED <<srv, part>> /\ Unlinked(Path(j))
        /\ job' = [Rehandle(Path(j), [Stay EXCEPT !["final"] = "gone"]) EXCEPT ![j].pc = "unrow"]
    BY <1>1 DEF Unlink, At, srvVars
  <2>2. Goto(j, "unrow")
    BY <2>1, UnlinkedNobody DEF Goto
  <2>3. "unrow" \in Labels /\ "unrow" \notin Downloading /\ job[j].pc \notin Downloading
    BY <2>1 DEF Labels, Downloading, Fetching
  <2> QED BY <2>1, <2>2, <2>3, UnlinkedPaths, GotoStep
<1>2. CASE Unrow(j)
  BY <1>2, GotoStep DEF Unrow, At, Labels, Downloading, Fetching, srvVars, diskVars, WholeInv, JobsInv, Typed
<1>3. CASE Unstamp(j)
  BY <1>3, GotoStep DEF Unstamp, At, Labels, Downloading, Fetching, srvVars, diskVars, WholeInv, JobsInv, Typed
<1>4. CASE Count(j)
  <2>1. job[j].pc = "count" /\ UNCHANGED <<srv, final, part>> /\ (Leave(j) \/ Goto(j, "clear"))
    BY <1>4 DEF Count, At, srvVars, diskVars
  <2>2. Len(job[j].todo) <= 1
    BY <2>1, PartAt DEF Fit, Deleting
  <2>3. CASE Leave(j)
    BY <2>1, <2>2, <2>3, LeaveStep
  <2>4. CASE Goto(j, "clear")
    BY <2>1, <2>4, GotoStep DEF Labels, Downloading, Fetching, WholeInv, JobsInv, Typed
  <2> QED BY <2>1, <2>3, <2>4
<1>5. CASE Clear(j)
  <2>1. job[j].pc = "clear" /\ UNCHANGED <<srv, final, part>> /\ Leave(j)
    BY <1>5 DEF Clear, At, srvVars, diskVars
  <2>2. Len(job[j].todo) <= 1
    BY <2>1, PartAt DEF Fit, Deleting
  <2> QED BY <2>1, <2>2, LeaveStep
<1>6. ASSUME NEW i \in Items, StartDelete(j, i) PROVE WholeInv'
  <2> DEFINE r == [IdleJob EXCEPT !.pc = "unlink", !.todo = <<i>>]
  <2>1. job' = [job EXCEPT ![j] = r] /\ UNCHANGED <<srv, final, part>>
    BY <1>6 DEF StartDelete, srvVars, diskVars
  <2>2. <<i>> \in Seq(Items) /\ <<i>> # <<>> /\ Len(<<i>>) <= 1
    OBVIOUS
  <2>3. r \in JobStates /\ r.pc = "unlink" /\ r.todo = <<i>> /\ r.at = "closed"
    BY <2>2, IdleTyped DEF IdleJob, JobStates, JobPCs
  <2> HIDE DEF r
  <2>4. Fit(r, part'[PathOf[Head(r.todo)]]) /\ r.pc \notin Downloading
    BY <2>2, <2>3 DEF Fit, Downloading, Fetching, Deleting
  <2>5. JobsInv'
    BY <2>1, <2>3, <2>4, Moves DEF WholeInv, JobsInv, Typed
  <2> QED BY <2>1, <2>5, DiskKept
<1> QED BY <1>1, <1>2, <1>3, <1>4, <1>5, <1>6

LEMMA SyncSteps ==
    ASSUME WholeInv, SyncStart \/ SyncAnswered \/ SyncLocal \/ PullFails PROVE WholeInv'
<1>1. ASSUME NEW p, Unlinked(p), UNCHANGED <<srv, part>>,
             job' = Rehandle(p, [Stay EXCEPT !["final"] = "gone"])
      PROVE  WholeInv'
  <2>1. job' = job
    BY <1>1, UnlinkedNobody
  <2> QED BY <1>1, <2>1, UnlinkedPaths, JobsKept DEF WholeInv, JobsInv, Typed
<1>2. CASE UNCHANGED <<srv, final, part, job>>
  BY <1>2, JobsKept DEF WholeInv, JobsInv, Typed
<1>3. CASE Sweep
  <2>1. CASE sync.victims = <<>>
    BY <1>2, <1>3, <2>1 DEF Sweep, srvVars
  <2>2. CASE sync.victims # <<>>
    BY <1>1, <1>3, <2>2 DEF Sweep, srvVars
  <2> QED BY <2>1, <2>2
<1>4. CASE PullUnlink
  BY <1>1, <1>4 DEF PullUnlink, srvVars
<1>5. CASE SyncStart \/ PullAlbum \/ PullItem \/ PullFails \/ SyncEmpty
  BY <1>2, <1>5 DEF SyncStart, PullAlbum, PullItem, PullFails, SyncEmpty, srvVars, diskVars
<1>6. CASE ClearAlbum \/ Merge \/ Mark \/ PullUnrow \/ PullUnstamp \/ Stat
  BY <1>2, <1>6 DEF ClearAlbum, Merge, Mark, PullUnrow, PullUnstamp, Stat, srvVars, diskVars
<1> QED BY <1>3, <1>4, <1>5, <1>6 DEF SyncAnswered, SyncLocal

LEMMA AroundSteps ==
    ASSUME WholeInv,
           \/ Crash \/ \E p \in Paths : Vanish(p)
           \/ \E i \in Items : Replace(i) \/ RemoveItem(i)
           \/ \E p \in Parents : RemoveParent(p)
    PROVE  WholeInv'
<1>1. CASE Crash
  <2>1. job' = [j \in Jobs |-> IdleJob] /\ UNCHANGED <<srv, final, part>>
    BY <1>1 DEF Crash, srvVars, diskVars
  <2>2. \A j \in Jobs : job'[j] = IdleJob
    BY <2>1
  <2>3. IdleJob.pc = "idle" /\ IdleJob.at = "closed" /\ \A c : Fit(IdleJob, c)
    BY DEF IdleJob, Fit, Deleting
  <2>4. Typed' /\ Apart' /\ Fits'
    BY <2>1, <2>2, <2>3, IdleTyped DEF WholeInv, JobsInv, Typed, Apart, Fits, Downloading, Fetching
  <2> QED BY <2>1, <2>4, DiskKept DEF JobsInv
<1>2. ASSUME NEW p \in Paths, Vanish(p) PROVE WholeInv'
  <2>1. Unlinked(p) /\ UNCHANGED <<srv, part>> /\ job' = Rehandle(p, [Stay EXCEPT !["final"] = "gone"])
    BY <1>2 DEF Vanish, srvVars
  <2>2. job' = job
    BY <2>1, UnlinkedNobody
  <2> QED BY <2>1, <2>2, UnlinkedPaths, JobsKept DEF WholeInv, JobsInv, Typed
<1>3. ASSUME NEW i \in Items, Replace(i) PROVE WholeInv'
  <2>1. srv' \in [Items -> Versions]
    BY <1>3, SizeAssumption DEF Replace, WholeInv, JobsInv, Typed, Versions
  <2> QED BY <1>3, <2>1, JobsKept DEF Replace, diskVars, WholeInv, JobsInv, Typed
<1>4. ASSUME NEW i \in Items, RemoveItem(i) PROVE WholeInv'
  <2>1. srv' \in [Items -> Versions]
    BY <1>4, SizeAssumption DEF RemoveItem, WholeInv, JobsInv, Typed, Versions
  <2> QED BY <1>4, <2>1, JobsKept DEF RemoveItem, diskVars, WholeInv, JobsInv, Typed
<1>5. ASSUME NEW p \in Parents, RemoveParent(p) PROVE WholeInv'
  <2>1. srv' \in [Items -> Versions]
    BY <1>5, SizeAssumption DEF RemoveParent, WholeInv, JobsInv, Typed, Versions
  <2> QED BY <1>5, <2>1, JobsKept DEF RemoveParent, diskVars, WholeInv, JobsInv, Typed
<1> QED BY <1>1, <1>2, <1>3, <1>4, <1>5

LEMMA InitWhole == Init => WholeInv
<1> SUFFICES ASSUME Init PROVE WholeInv
  OBVIOUS
<1>1. \A j \in Jobs : job[j] = IdleJob
  BY DEF Init
<1>2. IdleJob.pc = "idle" /\ IdleJob.at = "closed" /\ \A c : Fit(IdleJob, c)
  BY DEF IdleJob, Fit, Deleting
<1>3. Typed
  BY IdleTyped, SizeAssumption DEF Init, Typed, Versions, Contents
<1>4. Apart /\ Fits
  BY <1>1, <1>2 DEF Apart, Fits, Downloading, Fetching
<1>5. Beginnings /\ WholeFiles
  BY DEF Init, Beginnings, WholeFiles
<1> QED BY <1>3, <1>4, <1>5 DEF WholeInv, JobsInv

LEMMA NextWhole ==
    ASSUME WholeInv, OwnPaths, Once, [Next]_vars PROVE WholeInv'
<1>1. CASE UNCHANGED vars
  BY <1>1, JobsKept DEF vars, srvVars, diskVars, WholeInv, JobsInv, Typed
<1>2. ASSUME NEW j \in Jobs, Answered(j) \/ Local(j) \/ Abort(j) PROVE WholeInv'
  BY <1>2, CheckStep, FetchStep, ProbeStep, RequestStep, OpenStep, StreamStep, FinishStep, RenameStep,
     EnterSteps, DeleteSteps DEF Answered, Local
<1>3. ASSUME NEW j \in Jobs, StartAll(j) PROVE WholeInv'
  <2>1. \A p : Batch(p) \in Seq(Items)
    BY InOrderItems DEF Batch
  <2> QED BY <1>3, <2>1, StartStep DEF StartAll
<1>4. ASSUME NEW j \in Jobs, NEW i \in Items, StartOne(j, i) PROVE WholeInv'
  <2>1. <<i>> \in Seq(Items)
    OBVIOUS
  <2> QED BY <1>4, <2>1, StartStep DEF StartOne
<1>5. ASSUME NEW j \in Jobs, NEW i \in Items, StartDelete(j, i) PROVE WholeInv'
  BY <1>5, DeleteSteps
<1> QED BY <1>1, <1>2, <1>3, <1>4, <1>5, SyncSteps, AroundSteps DEF Next

\* What stands under a final path is one whole file: whatever commands run beside each
\* other, are broken off, resumed or killed, and whatever becomes of the server's files,
\* as long as no two commands download the same item at once.
THEOREM FilesWhole ==
    ASSUME OwnPaths, Once
    PROVE  Spec => []WholeFiles
<1>1. WholeInv /\ [Next]_vars => WholeInv'
  BY NextWhole
<1>2. WholeInv => WholeFiles
  BY DEF WholeInv
<1> QED BY InitWhole, <1>1, <1>2, PTL DEF Spec

-----------------------------------------------------------------------------
(* Rows and their files. *)

\* A job takes a step, and only its own record changes.
Step(j) == job' \in [Jobs -> JobStates] /\ \A k \in Jobs \ {j} : job'[k] = job[k]

\* A download goes on with its item, short of renaming it, or leaves it.
Onward(j) ==
    /\ Step(j)
    /\ ToSet(job'[j].todo) \subseteq ToSet(job[j].todo)
    /\ job'[j].pc \in {"idle"} \cup Downloading
    /\ job'[j].pc \in Fetching => job[j].pc \in Fetching /\ job'[j].todo = job[j].todo
    /\ job'[j].pc \in {"shelve", "insert"} => job[j].pc \in {"shelve", "insert"}

LEMMA OnwardKeeps ==
    ASSUME WholeInv, Orderly, NEW j \in Jobs, job[j].pc \in Downloading, Onward(j), UNCHANGED <<final, row>>
    PROVE  Orderly'
<1>1. /\ \A k \in Jobs : At(k, "unrow") => k # j /\ At(k, "unrow")' /\ Item(k)' = Item(k)
      /\ \A k \in Jobs : At(k, "unlink")' => k # j /\ At(k, "unlink") /\ Item(k)' = Item(k)
      /\ \A i : Present(i)' = Present(i)
  BY DEF Onward, Step, Downloading, Fetching, At, Item, Present
<1>2. \A k \in Jobs : job'[k].pc \in Fetching => job[k].pc \in Fetching /\ Item(k)' = Item(k)
  BY DEF Onward, Step, Item
<1>3. Filed'
  BY <1>1 DEF Orderly, Filed
<1>4. Renamed'
  BY <1>1, <1>2 DEF Orderly, Renamed, Onward, Step, Fetching
<1>5. Spared'
  BY <1>1, <1>2 DEF Orderly, Spared
<1>6. Known'
  BY <1>1 DEF Orderly, Known, Onward, Step
<1>7. Leaving'
  BY <1>1, <1>2 DEF Orderly, Leaving
<1> QED BY <1>3, <1>4, <1>5, <1>6, <1>7 DEF Orderly

LEMMA LeaveOnward ==
    ASSUME WholeInv, WholeInv', NEW j \in Jobs, job[j].pc \in Downloading, Leave(j)
    PROVE  Onward(j)
<1>1. job[j].todo \in Seq(Items) /\ job[j].todo # <<>> /\ job \in [Jobs -> JobStates]
  BY PartAt DEF Downloading, Fetching
<1>2. job'[j] = Following(job[j]) /\ Step(j)
  BY <1>1 DEF Leave, Step, WholeInv, JobsInv, Typed
<1>3. job'[j].pc \in {"idle", "check"} /\ ToSet(job'[j].todo) \subseteq ToSet(job[j].todo)
  <2>1. CASE Len(job[j].todo) <= 1
    BY <1>2, <2>1 DEF Following, IdleJob, ToSet
  <2>2. CASE ~(Len(job[j].todo) <= 1)
    BY <1>1, <1>2, <2>2, Lists DEF Following, IdleJob
  <2> QED BY <2>1, <2>2
<1> QED BY <1>2, <1>3 DEF Onward, Downloading, Fetching

LEMMA GotoOnward ==
    ASSUME WholeInv, WholeInv', NEW j \in Jobs, NEW l \in Labels, Goto(j, l),
           job[j].pc \in Fetching, l \in Fetching \cup {"restamp"},
           l \in {"shelve", "insert"} => job[j].pc \in {"shelve", "insert"}
    PROVE  Onward(j)
<1>1. job'[j].pc = l /\ job'[j].todo = job[j].todo /\ Step(j)
  BY DEF Goto, Step, WholeInv, JobsInv, Typed, JobStates
<1> QED BY <1>1 DEF Onward, Downloading, Fetching

\* Fetching, up to the rename.
LEMMA FetchOnward ==
    ASSUME WholeInv, WholeInv', NEW j \in Jobs,
           Fetch(j) \/ Probe(j) \/ Request(j) \/ Open(j) \/ Stream(j) \/ Finish(j) \/ Abort(j)
    PROVE  Onward(j) /\ job[j].pc \in Downloading /\ UNCHANGED <<final, row>>
<1>1. job \in [Jobs -> JobStates] /\ job' \in [Jobs -> JobStates]
  BY DEF WholeInv, JobsInv, Typed
<1>2. CASE Leave(j) /\ ~(Open(j) \/ Stream(j) \/ Finish(j))
  <2>1. job[j].pc \in Downloading /\ UNCHANGED <<final, row>>
    BY <1>2 DEF Fetch, Probe, Request, Abort, At, Downloading, Fetching, diskVars, cacheVars
  <2> QED BY <1>2, <2>1, LeaveOnward
<1>3. CASE Fetch(j) /\ ~Leave(j)
  <2>1. job[j].pc = "fetch" /\ job'[j].pc = "probe" /\ job'[j].todo = job[j].todo /\ Step(j)
        /\ UNCHANGED <<final, row>>
    BY <1>1, <1>3 DEF Fetch, At, Step, diskVars, cacheVars, JobStates
  <2> QED BY <2>1 DEF Onward, Downloading, Fetching
<1>4. CASE Probe(j)
  <2>1. job[j].pc = "probe" /\ job'[j].pc = "request" /\ job'[j].todo = job[j].todo /\ Step(j)
        /\ UNCHANGED <<final, row>>
    BY <1>1, <1>4 DEF Probe, At, Step, diskVars, cacheVars, JobStates
  <2> QED BY <2>1 DEF Onward, Downloading, Fetching
<1>5. CASE Request(j) /\ ~Leave(j)
  <2>1. job[j].pc = "request" /\ UNCHANGED <<final, row>> /\ \E append : Accept(j, append)
    BY <1>5 DEF Request, At, diskVars, cacheVars
  <2>2. job'[j].pc = "open" /\ job'[j].todo = job[j].todo /\ Step(j)
    BY <1>1, <2>1 DEF Accept, Step, JobStates
  <2> QED BY <2>1, <2>2 DEF Onward, Downloading, Fetching
<1>6. CASE Open(j)
  <2>1. job[j].pc = "open" /\ UNCHANGED <<final, row>> /\ job' = Opened(j)
    BY <1>6 DEF Open, At, cacheVars
  <2>2. Rehandle(Path(j), [Stay EXCEPT !["part"] = "gone"]) = job
    <3>1. [Stay EXCEPT !["part"] = "gone"]["closed"] = "closed"
      BY DEF Stay
    <3> QED BY <2>1, <3>1, OwnHandle DEF Downloading, Fetching
  <2>3. job' = [job EXCEPT ![j].at = "part", ![j].pc = "stream"]
    BY <2>1, <2>2 DEF Opened
  <2>4. job'[j].pc = "stream" /\ job'[j].todo = job[j].todo /\ Step(j)
    BY <1>1, <2>3 DEF Step, JobStates
  <2> QED BY <2>1, <2>4 DEF Onward, Downloading, Fetching
<1>7. CASE Stream(j)
  <2>1. job[j].pc = "stream" /\ row' = row /\ job' = [job EXCEPT ![j].pos = @ + 1]
    BY <1>7 DEF Stream, At, cacheVars
  <2>2. job[j].at = "part"
    BY <2>1, PartAt DEF Fit
  <2>3. final' = final
    BY <1>7, <2>2 DEF Stream
  <2>4. job'[j].pc = "stream" /\ job'[j].todo = job[j].todo /\ Step(j)
    BY <1>1, <2>1 DEF Step, JobStates
  <2> QED BY <2>1, <2>3, <2>4 DEF Onward, Downloading, Fetching
<1>8. CASE Finish(j)
  <2>1. job[j].pc = "stream" /\ job'[j].pc = "rename" /\ job'[j].todo = job[j].todo /\ Step(j)
        /\ UNCHANGED <<final, row>>
    BY <1>1, <1>8 DEF Finish, At, Step, diskVars, cacheVars, JobStates
  <2> QED BY <2>1 DEF Onward, Downloading, Fetching
<1>9. Abort(j) => Leave(j)
  BY DEF Abort
<1> QED BY <1>2, <1>3, <1>4, <1>5, <1>6, <1>7, <1>8, <1>9

\* A download that goes past its check has met no row, or the delete after its unlink.
LEMMA CheckOrderly ==
    ASSUME WholeInv, WholeInv', Orderly, TwoJobs, NEW j \in Jobs, Check(j)
    PROVE  Orderly'
<1> DEFINE i == Item(j)
<1>1. job[j].pc = "check" /\ UNCHANGED <<final, row>> /\ i \in Items /\ i \in ToSet(job[j].todo)
  <2>1. job[j].pc = "check"
    BY DEF Check, At
  <2> QED BY <2>1, PartAt, Lists DEF Check, diskVars, cacheVars, Item
<1>2. CASE Leave(j)
  BY <1>1, <1>2, LeaveOnward, OnwardKeeps DEF Downloading
<1>3. CASE ~Leave(j)
  <2>1. Goto(j, "fetch") /\ (row[i] # 0 => ~Present(i))
    BY <1>3 DEF Check
  <2>2. job'[j].pc = "fetch" /\ job'[j].todo = job[j].todo /\ Step(j)
    BY <2>1 DEF Goto, Step, WholeInv, JobsInv, Typed, JobStates
  <2>3. row[i] # 0 => \E k \in Jobs : At(k, "unrow") /\ Item(k) = i
    BY <1>1, <2>1 DEF Orderly, Filed
  <2>4. \A k \in Jobs : At(k, "unlink") => Item(k) # i
    BY <1>1, <2>3 DEF Orderly, Known, TwoJobs, At, Downloading
  <2>5. /\ \A k \in Jobs \ {j} : \A l : At(k, l)' = At(k, l)
        /\ \A k \in Jobs : Item(k)' = Item(k) /\ job'[k].todo = job[k].todo
        /\ \A e : Present(e)' = Present(e)
    BY <1>1, <2>2 DEF Step, At, Item, Present
  <2>6. \A k \in Jobs : /\ At(k, "unlink")' = At(k, "unlink")
                        /\ At(k, "unrow")' = At(k, "unrow")
                        /\ job'[k].pc \in {"shelve", "insert"} => job[k].pc \in {"shelve", "insert"}
                        /\ job'[k].pc \in Fetching => k = j \/ job[k].pc \in Fetching
                        /\ job'[k].pc \in Downloading => job[k].pc \in Downloading
    BY <1>1, <2>2 DEF Step, At, Fetching, Downloading
  <2>7. Filed' /\ Renamed'
    BY <1>1, <2>5, <2>6 DEF Orderly, Filed, Renamed
  <2>8. Spared'
    BY <2>4, <2>5, <2>6 DEF Orderly, Spared
  <2>9. Known'
    BY <1>1, <2>5, <2>6 DEF Orderly, Known
  <2>10. Leaving'
    BY <1>1, <2>3, <2>5, <2>6 DEF Orderly, Leaving
  <2> QED BY <2>7, <2>8, <2>9, <2>10 DEF Orderly
<1> QED BY <1>2, <1>3

\* Its file is there when it has been renamed.
LEMMA RenameOrderly ==
    ASSUME WholeInv, WholeInv', Orderly, OwnPaths, NEW j \in Jobs, Rename(j)
    PROVE  Orderly'
<1>1. job[j].pc = "rename" /\ row' = row
  BY DEF Rename, At, cacheVars
<1>2. part[Path(j)] # Nothing /\ Item(j) \in Items /\ Path(j) \in Paths
  BY <1>1, PartAt DEF Fit
<1>3. final' = [final EXCEPT ![Path(j)] = part[Path(j)]]
      /\ job' = [Rehandle(Path(j), AfterRename) EXCEPT ![j].pc = "shelve"]
  BY <1>2 DEF Rename
<1>4. job' = [job EXCEPT ![j].pc = "shelve"]
  <2>1. AfterRename["closed"] = "closed"
    BY DEF Stay, AfterRename
  <2> QED BY <1>1, <1>3, <2>1, OwnHandle DEF Downloading, Fetching
<1>5. job'[j].pc = "shelve" /\ job'[j].todo = job[j].todo /\ Step(j)
  BY <1>4 DEF Step, WholeInv, JobsInv, Typed, JobStates
<1>6. final' = [final EXCEPT ![Path(j)] = part[Path(j)]] /\ final \in [Paths -> Contents] /\ Item(j)' = Item(j)
  BY <1>3, <1>5 DEF Item, WholeInv, JobsInv, Typed
<1>7. Present(Item(j))' /\ \A i \in Items : Present(i) => Present(i)'
  <2>1. final'[Path(j)] # Nothing /\ \A p \in Paths : final[p] # Nothing => final'[p] # Nothing
    BY <1>2, <1>6
  <2> QED BY <1>6, <2>1, PathsOfItems DEF Present, Path
<1>8. \A k \in Jobs : /\ Item(k)' = Item(k) /\ job'[k].todo = job[k].todo
                      /\ At(k, "unlink")' = At(k, "unlink")
                      /\ At(k, "unrow")' = At(k, "unrow")
                      /\ job'[k].pc \in {"shelve", "insert"} => k = j \/ job[k].pc \in {"shelve", "insert"}
                      /\ job'[k].pc \in Fetching => job[k].pc \in Fetching
                      /\ job'[k].pc \in Downloading => job[k].pc \in Downloading
  BY <1>1, <1>5 DEF Step, At, Item, Fetching, Downloading
<1>9. Filed'
  BY <1>1, <1>7, <1>8 DEF Orderly, Filed
<1>10. Renamed'
  <2> SUFFICES ASSUME NEW k \in Jobs, job'[k].pc \in {"shelve", "insert"} PROVE Present(Item(k))'
    BY DEF Renamed
  <2>1. CASE k = j
    BY <1>7, <1>8, <2>1 DEF Present
  <2>2. CASE k # j
    <3>1. job[k].pc \in {"shelve", "insert"}
      BY <1>8, <2>2
    <3>2. Item(k) \in Items /\ Present(Item(k))
      BY <3>1, PartAt DEF Orderly, Renamed
    <3> QED BY <1>7, <1>8, <3>2 DEF Present
  <2> QED BY <2>1, <2>2
<1>11. Spared'
  BY <1>8 DEF Orderly, Spared
<1>12. Known'
  BY <1>1, <1>8 DEF Orderly, Known
<1>13. Leaving'
  BY <1>1, <1>8 DEF Orderly, Leaving
<1> QED BY <1>9, <1>10, <1>11, <1>12, <1>13 DEF Orderly

\* The rest of a download: its rows.
LEMMA EnterOrderly ==
    ASSUME WholeInv, WholeInv', Orderly, OwnPaths, NEW j \in Jobs,
           Shelve(j) \/ Insert(j) \/ Restamp(j)
    PROVE  Orderly'
<1>1. CASE Shelve(j)
  <2>1. job[j].pc = "shelve" /\ Goto(j, "insert") /\ UNCHANGED <<final, row>>
    BY <1>1 DEF Shelve, At, diskVars
  <2>2. Onward(j)
    BY <2>1, GotoOnward DEF Fetching, Labels
  <2> QED BY <2>1, <2>2, OnwardKeeps DEF Downloading, Fetching
<1>2. CASE Restamp(j)
  <2>1. job[j].pc = "restamp" /\ Leave(j) /\ UNCHANGED <<final, row>>
    BY <1>2 DEF Restamp, At, diskVars
  <2> QED BY <2>1, LeaveOnward, OnwardKeeps DEF Downloading
<1>3. CASE Insert(j) /\ ~Insertable(Item(j))
  <2>1. job[j].pc = "insert" /\ Leave(j) /\ UNCHANGED <<final, row>>
    BY <1>3 DEF Insert, At, diskVars
  <2> QED BY <2>1, LeaveOnward, OnwardKeeps DEF Downloading, Fetching
<1>4. CASE Insert(j) /\ Insertable(Item(j))
  <2>1. job[j].pc = "insert" /\ Goto(j, "restamp") /\ final' = final
        /\ row' = [row EXCEPT ![Item(j)] = job[j].version]
    BY <1>4 DEF Insert, At, diskVars
  <2>2. Item(j) \in ToSet(job[j].todo) /\ Present(Item(j))
    BY <2>1, PartAt, Lists DEF Item, Orderly, Renamed
  <2>3. job'[j].pc = "restamp" /\ job'[j].todo = job[j].todo /\ Step(j)
    BY <2>1 DEF Goto, Step, WholeInv, JobsInv, Typed, JobStates
  <2>4. /\ \A k \in Jobs : /\ Item(k)' = Item(k) /\ job'[k].todo = job[k].todo
                           /\ At(k, "unlink")' = At(k, "unlink")
                           /\ At(k, "unrow")' = At(k, "unrow")
                           /\ job'[k].pc \in Fetching => k # j /\ job[k].pc \in Fetching
                           /\ job'[k].pc \in Downloading => job[k].pc \in Downloading
        /\ \A k \in Jobs : job'[k].pc \in {"shelve", "insert"} => job[k].pc \in {"shelve", "insert"}
        /\ \A i : Present(i)' = Present(i)
    BY <2>1, <2>3 DEF Step, At, Item, Present, Fetching, Downloading
  <2>5. \A i : i # Item(j) => row'[i] = row[i]
    BY <2>1
  <2>6. Filed'
    BY <2>2, <2>4, <2>5 DEF Orderly, Filed
  <2>7. Renamed' /\ Spared'
    BY <2>4 DEF Orderly, Renamed, Spared
  <2>8. \A k \in Jobs : At(k, "unlink") => Item(k) # Item(j)
    BY <2>1 DEF Orderly, Spared, Fetching
  <2>9. Known'
    BY <2>4, <2>5, <2>8 DEF Orderly, Known
  <2>10. \A k \in Jobs \ {j} : job[k].pc \in Fetching => Item(k) # Item(j)
    <3> SUFFICES ASSUME NEW k \in Jobs \ {j}, job[k].pc \in Fetching PROVE Item(k) # Item(j)
      OBVIOUS
    <3>1. Item(k) \in ToSet(job[k].todo) /\ job[k].pc \in Downloading
      BY PartAt, Lists DEF Item, Fetching, Downloading
    <3> QED BY <2>1, <2>2, <3>1 DEF WholeInv, JobsInv, Apart, Downloading, Fetching
  <2>11. Leaving'
    BY <2>4, <2>5, <2>10 DEF Orderly, Leaving
  <2> QED BY <2>6, <2>7, <2>9, <2>11 DEF Orderly
<1> QED BY <1>1, <1>2, <1>3, <1>4

\* A command starts: whatever it will download is not being deleted.
LEMMA StartOrderly ==
    ASSUME WholeInv, WholeInv', Orderly, Once, NEW j \in Jobs, NEW todo \in Seq(Items), Start(j, todo)
    PROVE  Orderly'
<1>1. job[j].pc = "idle" /\ UNCHANGED <<final, row>> /\ ~Overlaps(j, todo)
  BY DEF Start, At, diskVars, cacheVars, Once
<1>2. job'[j].pc = "check" /\ job'[j].todo = todo /\ Step(j)
  BY DEF Start, Step, WholeInv, JobsInv, Typed, IdleJob
<1>3. /\ \A k \in Jobs \ {j} : /\ Item(k)' = Item(k) /\ job'[k].todo = job[k].todo
                               /\ job'[k].pc = job[k].pc
                               /\ \A l : At(k, l)' = At(k, l)
      /\ \A i : Present(i)' = Present(i)
      /\ job'[j].pc \notin Fetching
      /\ ~At(j, "unlink") /\ ~At(j, "unlink")' /\ ~At(j, "unrow")
  BY <1>1, <1>2 DEF Step, At, Item, Present, Fetching
<1>4. \A k \in Jobs \ {j} : At(k, "unlink") => Item(k) \notin ToSet(todo)
  <2> SUFFICES ASSUME NEW k \in Jobs \ {j}, At(k, "unlink"), Item(k) \in ToSet(todo) PROVE FALSE
    OBVIOUS
  <2>1. Item(k) \in ToSet(job[k].todo)
    BY PartAt, Lists DEF At, Item
  <2> QED BY <1>1, <2>1 DEF Overlaps
<1>5. Filed'
  BY <1>1, <1>3 DEF Orderly, Filed
<1>6. Renamed'
  <2>1. \A k \in Jobs : job'[k].pc \in {"shelve", "insert"} => k # j
    BY <1>2
  <2> QED BY <1>1, <1>3, <2>1 DEF Orderly, Renamed
<1>7. Spared'
  BY <1>1, <1>3 DEF Orderly, Spared
<1>8. Known'
  <2> SUFFICES ASSUME NEW k \in Jobs, NEW l \in Jobs, job'[k].pc \in Downloading, At(l, "unlink")',
                      Item(l)' \in ToSet(job'[k].todo)
               PROVE  row'[Item(l)'] # 0
    BY DEF Known
  <2>1. l # j /\ At(l, "unlink") /\ Item(l)' = Item(l)
    BY <1>3
  <2>2. CASE k = j
    BY <1>2, <1>4, <2>1, <2>2
  <2>3. CASE k # j
    BY <1>1, <1>3, <2>1, <2>3 DEF Orderly, Known
  <2> QED BY <2>2, <2>3
<1>9. Leaving'
  BY <1>1, <1>3 DEF Orderly, Leaving
<1> QED BY <1>5, <1>6, <1>7, <1>8, <1>9 DEF Orderly

LEMMA StartDeleteOrderly ==
    ASSUME WholeInv, WholeInv', Orderly, TwoJobs, NEW j \in Jobs, NEW i \in Items, StartDelete(j, i)
    PROVE  Orderly'
<1>1. job[j].pc = "idle" /\ UNCHANGED <<final, row>> /\ row[i] # 0
  BY DEF StartDelete, At, diskVars, cacheVars
<1>2. job'[j].pc = "unlink" /\ Item(j)' = i /\ Step(j)
  BY DEF StartDelete, Step, WholeInv, JobsInv, Typed, IdleJob, Item
<1>3. /\ \A k \in Jobs \ {j} : /\ Item(k)' = Item(k) /\ job'[k].todo = job[k].todo
                               /\ job'[k].pc = job[k].pc
                               /\ \A l : At(k, l)' = At(k, l)
      /\ \A e : Present(e)' = Present(e)
      /\ job'[j].pc \notin Downloading /\ job'[j].pc \notin Fetching
      /\ ~At(j, "unrow") /\ ~At(j, "unrow")'
  BY <1>1, <1>2 DEF Step, At, Item, Present, Fetching, Downloading
<1>4. \A k \in Jobs \ {j} : job[k].pc \in Fetching => Item(k) # i
  <2> SUFFICES ASSUME NEW k \in Jobs \ {j}, job[k].pc \in Fetching, Item(k) = i PROVE FALSE
    OBVIOUS
  <2>1. PICK l \in Jobs : At(l, "unrow")
    BY <1>1 DEF Orderly, Leaving
  <2>2. l # j /\ l # k
    BY <1>1, <2>1 DEF At, Fetching
  <2> QED BY <2>2 DEF TwoJobs
<1>5. Filed'
  BY <1>1, <1>3 DEF Orderly, Filed
<1>6. Renamed'
  <2>1. \A k \in Jobs : job'[k].pc \in {"shelve", "insert"} => k # j
    BY <1>2
  <2> QED BY <1>1, <1>3, <2>1 DEF Orderly, Renamed
<1>7. Spared'
  <2> SUFFICES ASSUME NEW k \in Jobs, NEW l \in Jobs, job'[k].pc \in Fetching, At(l, "unlink")'
               PROVE  Item(k)' # Item(l)'
    BY DEF Spared
  <2>1. k # j /\ Item(k)' = Item(k) /\ job[k].pc \in Fetching
    BY <1>3
  <2>2. CASE l = j
    BY <1>2, <1>4, <2>1, <2>2
  <2>3. CASE l # j
    BY <1>3, <2>1, <2>3 DEF Orderly, Spared
  <2> QED BY <2>2, <2>3
<1>8. Known'
  <2> SUFFICES ASSUME NEW k \in Jobs, NEW l \in Jobs, job'[k].pc \in Downloading, At(l, "unlink")',
                      Item(l)' \in ToSet(job'[k].todo)
               PROVE  row'[Item(l)'] # 0
    BY DEF Known
  <2>1. CASE l = j
    BY <1>1, <1>2, <2>1
  <2>2. CASE l # j
    BY <1>1, <1>3, <2>2 DEF Orderly, Known
  <2> QED BY <2>1, <2>2
<1>9. Leaving'
  BY <1>1, <1>3 DEF Orderly, Leaving
<1> QED BY <1>5, <1>6, <1>7, <1>8, <1>9 DEF Orderly

\* The file goes first, then its row.
LEMMA UnlinkOrderly ==
    ASSUME WholeInv, WholeInv', Orderly, OwnPaths, NEW j \in Jobs, Unlink(j)
    PROVE  Orderly'
<1>1. job[j].pc = "unlink" /\ row' = row /\ Unlinked(Path(j))
      /\ job' = [Rehandle(Path(j), [Stay EXCEPT !["final"] = "gone"]) EXCEPT ![j].pc = "unrow"]
  BY DEF Unlink, At, cacheVars
<1>2. Item(j) \in Items /\ Path(j) \in Paths
  BY <1>1, PartAt
<1>3. job'[j].pc = "unrow" /\ job'[j].todo = job[j].todo /\ Step(j)
  <2>1. job' = [job EXCEPT ![j].pc = "unrow"]
    BY <1>1, UnlinkedNobody
  <2> QED BY <2>1 DEF Step, WholeInv, JobsInv, Typed, JobStates
<1>4. \A k \in Jobs : /\ Item(k)' = Item(k) /\ job'[k].todo = job[k].todo
                      /\ At(k, "unlink")' => At(k, "unlink")
                      /\ At(k, "unrow") => At(k, "unrow")'
                      /\ job'[k].pc \in {"shelve", "insert"} => job[k].pc \in {"shelve", "insert"}
                      /\ job'[k].pc \in Fetching => job[k].pc \in Fetching
                      /\ job'[k].pc \in Downloading => job[k].pc \in Downloading
  BY <1>1, <1>3 DEF Step, At, Item, Fetching, Downloading
<1>5. \A i \in Items : i # Item(j) => Present(i)' = Present(i)
  BY <1>1, <1>2, UnlinkedPaths, PathsOfItems DEF Present, OwnPaths, Path
<1>6. Filed'
  <2> SUFFICES ASSUME NEW i \in Items, row[i] # 0, ~Present(i)'
               PROVE  \E k \in Jobs : At(k, "unrow")' /\ Item(k)' = i
    BY <1>1 DEF Filed
  <2>1. CASE i = Item(j)
    BY <1>3, <1>4, <2>1 DEF At
  <2>2. CASE i # Item(j)
    BY <1>4, <1>5, <2>2 DEF Orderly, Filed
  <2> QED BY <2>1, <2>2
<1>7. Renamed'
  <2> SUFFICES ASSUME NEW k \in Jobs, job'[k].pc \in {"shelve", "insert"} PROVE Present(Item(k))'
    BY DEF Renamed
  <2>1. Item(k) \in Items /\ Present(Item(k)) /\ Item(k)' = Item(k) /\ Item(k) # Item(j)
    BY <1>1, <1>4, PartAt DEF Orderly, Renamed, Spared, Fetching, At
  <2> QED BY <1>5, <2>1 DEF Present
<1>8. Spared'
  BY <1>4 DEF Orderly, Spared
<1>9. row' = row
  BY <1>1
<1>10. Known'
  BY <1>4, <1>9 DEF Orderly, Known
<1>11. Leaving'
  <2> SUFFICES ASSUME NEW k \in Jobs, job'[k].pc \in Fetching, row'[Item(k)'] # 0
               PROVE  \E l \in Jobs : At(l, "unrow")' /\ Item(l)' = Item(k)'
    BY DEF Leaving
  <2>1. PICK l \in Jobs : At(l, "unrow") /\ Item(l) = Item(k)
    BY <1>4, <1>9 DEF Orderly, Leaving
  <2> QED BY <1>4, <2>1
<1> QED BY <1>6, <1>7, <1>8, <1>10, <1>11 DEF Orderly

\* Rows are taken away, by the one delete there is beside a download.
LEMMA RowsGo ==
    ASSUME WholeInv, WholeInv', Orderly, TwoJobs, NEW j \in Jobs, Step(j), final' = final,
           job[j].pc \in Deleting \ {"unlink"},
           job'[j].pc \in {"idle", "unstamp", "count", "clear"},
           \A i \in Items : row'[i] = row[i] \/ row'[i] = 0,
           At(j, "unrow") => row'[Item(j)] = 0
    PROVE  Orderly'
<1>1. /\ \A k \in Jobs \ {j} : /\ Item(k)' = Item(k) /\ job'[k].todo = job[k].todo
                               /\ job'[k].pc = job[k].pc
                               /\ \A l : At(k, l)' = At(k, l)
      /\ \A e : Present(e)' = Present(e)
      /\ job'[j].pc \notin Downloading /\ job'[j].pc \notin Fetching
      /\ ~At(j, "unlink")'
  BY DEF Step, At, Item, Present, Fetching, Downloading
<1>2. Filed'
  BY <1>1 DEF Orderly, Filed
<1>3. Renamed'
  <2>1. \A k \in Jobs : job'[k].pc \in {"shelve", "insert"} => k # j
    OBVIOUS
  <2> QED BY <1>1, <2>1 DEF Orderly, Renamed
<1>4. \A k, l \in Jobs : ~(job'[k].pc \in Downloading /\ At(l, "unlink")')
  BY <1>1 DEF TwoJobs, At, Downloading, Fetching
<1>5. Spared' /\ Known'
  BY <1>4 DEF Spared, Known, Downloading
<1>6. Leaving'
  <2> SUFFICES ASSUME NEW k \in Jobs, job'[k].pc \in Fetching, row'[Item(k)'] # 0
               PROVE  \E l \in Jobs : At(l, "unrow")' /\ Item(l)' = Item(k)'
    BY DEF Leaving
  <2>1. k # j /\ Item(k)' = Item(k) /\ job[k].pc \in Fetching
    BY <1>1
  <2>2. Item(k) \in Items /\ row[Item(k)] # 0
    BY <2>1, PartAt DEF Fetching
  <2>3. PICK l \in Jobs : At(l, "unrow") /\ Item(l) = Item(k)
    BY <2>1, <2>2 DEF Orderly, Leaving
  <2>4. l # j
    BY <2>1, <2>3
  <2> QED BY <1>1, <2>1, <2>3, <2>4
<1> QED BY <1>2, <1>3, <1>5, <1>6 DEF Orderly

LEMMA DeleteOrderly ==
    ASSUME WholeInv, WholeInv', Orderly, TwoJobs, NEW j \in Jobs,
           row \in [Items -> Versions],
           Unrow(j) \/ Unstamp(j) \/ Count(j) \/ Clear(j)
    PROVE  Orderly'
<1>1. job[j].pc \in {"unrow", "unstamp", "count", "clear"} /\ final' = final
  BY DEF Unrow, Unstamp, Count, Clear, At, diskVars
<1>2. Following(job[j]) = IdleJob /\ job \in [Jobs -> JobStates] /\ Item(j) \in Items
  BY <1>1, PartAt DEF Fit, Deleting, Following
<1>3. Leave(j) => job'[j].pc = "idle" /\ Step(j)
  BY <1>2 DEF Leave, Step, IdleJob, WholeInv, JobsInv, Typed
<1>4. \A l : Goto(j, l) => job'[j].pc = l /\ Step(j)
  BY <1>2 DEF Goto, Step, JobStates, WholeInv, JobsInv, Typed
<1>5. Step(j) /\ job'[j].pc \in {"idle", "unstamp", "count", "clear"}
  BY <1>3, <1>4 DEF Unrow, Unstamp, Count, Clear
<1>6. (\A i \in Items : row'[i] = row[i] \/ row'[i] = 0) /\ (At(j, "unrow") => row'[Item(j)] = 0)
  <2>1. CASE Unrow(j)
    BY <1>2, <2>1 DEF Unrow
  <2>2. CASE Unstamp(j) \/ Count(j)
    BY <2>2 DEF Unstamp, Count, At, cacheVars
  <2>3. CASE Clear(j)
    BY <2>3 DEF Clear, Cleared, At
  <2> QED BY <2>1, <2>2, <2>3
<1> QED BY <1>1, <1>5, <1>6, RowsGo DEF Deleting

-----------------------------------------------------------------------------
(* ShelfInv. *)

LEMMA NoSyncSteps ==
    ASSUME ShelfInv, NoSync
    PROVE  ~(SyncStart \/ SyncAnswered \/ SyncLocal \/ PullFails)
<1>1. sync.pc = "idle"
  BY DEF ShelfInv, IdleSync
<1> QED BY <1>1 DEF NoSync, SyncStart, SyncAnswered, SyncLocal, PullFails, PullAlbum, PullItem, SyncEmpty, Sweep,
     ClearAlbum, Merge, Mark, PullUnlink, PullUnrow, PullUnstamp, Stat, SyncAt

\* Without the sync, a row is written with the version that was fetched, or taken away.
LEMMA RowsTyped ==
    ASSUME ShelfInv, NoSync, [Next]_vars
    PROVE  row' \in [Items -> Versions] /\ sync' = IdleSync
<1>1. CASE UNCHANGED vars
  BY <1>1 DEF vars, cacheVars, ShelfInv
<1>2. ASSUME NEW j \in Jobs, Answered(j) \/ Local(j) \/ Abort(j) PROVE row' \in [Items -> Versions] /\ sync' = IdleSync
  <2>1. sync' = sync
    BY <1>2 DEF Answered, Local, Abort, Fetch, Request, Stream, Check, Probe, Open, Finish, Rename, Shelve, Insert,
       Restamp, Unlink, Unrow, Unstamp, Count, Clear
  <2>2. CASE row' = row
    BY <2>1, <2>2 DEF ShelfInv
  <2>3. CASE Insert(j)
    BY <2>1, <2>3 DEF Insert, ShelfInv, WholeInv, JobsInv, Typed, JobStates
  <2>4. CASE Unrow(j)
    <3>1. 0 \in Versions /\ row' = [row EXCEPT ![Item(j)] = 0] /\ row \in [Items -> Versions]
      BY <2>4, SizeAssumption DEF Unrow, ShelfInv, Versions
    <3> QED BY <2>1, <3>1 DEF ShelfInv
  <2>5. CASE Clear(j)
    BY <2>1, <2>5, SizeAssumption DEF Clear, Cleared, ShelfInv, Versions
  <2>6. CASE ~(Insert(j) \/ Unrow(j) \/ Clear(j))
    <3>1. row' = row
      BY <1>2, <2>6 DEF Answered, Local, Abort, Fetch, Request, Stream, Check, Probe, Open, Finish, Rename, Shelve,
         Restamp, Unlink, Unstamp, Count, cacheVars
    <3> QED BY <2>2, <3>1
  <2> QED BY <2>3, <2>4, <2>5, <2>6
<1>3. CASE \E j \in Jobs : StartAll(j) \/ \E i \in Items : StartOne(j, i) \/ StartDelete(j, i)
  BY <1>3 DEF StartAll, StartOne, Start, StartDelete, cacheVars, ShelfInv
<1>4. ~(SyncStart \/ SyncAnswered \/ SyncLocal \/ PullFails)
  BY NoSyncSteps
<1>5. CASE \/ Crash \/ \E p \in Paths : Vanish(p)
           \/ \E i \in Items : Replace(i) \/ RemoveItem(i)
           \/ \E p \in Parents : RemoveParent(p)
  BY <1>5 DEF Crash, Vanish, Replace, RemoveItem, RemoveParent, cacheVars, ShelfInv
<1> QED BY <1>1, <1>2, <1>3, <1>4, <1>5 DEF Next

LEMMA NextShelf ==
    ASSUME ShelfInv, OwnPaths, Once, TwoJobs, NoSync, [Next]_vars PROVE ShelfInv'
<1>1. WholeInv /\ WholeInv'
  BY NextWhole DEF ShelfInv
<1>2. row' \in [Items -> Versions] /\ sync' = IdleSync
  BY RowsTyped
<1>3. faults' \in Nat /\ (faults' = 0 => faults = 0 /\ faults' = faults)
  <2>1. faults' = faults \/ faults' = faults + 1
    <3>1. ASSUME NEW j \in Jobs, Answered(j) \/ Local(j) \/ Abort(j) \/ StartAll(j)
                                \/ \E i \in Items : StartOne(j, i) \/ StartDelete(j, i)
          PROVE  faults' = faults \/ faults' = faults + 1
      BY <3>1 DEF Answered, Local, Abort, Fetch, Request, Occurs, Stream, Check, Probe, Open, Finish, Rename, Shelve,
         Insert, Restamp, Unlink, Unrow, Unstamp, Count, Clear, StartAll, StartOne, Start, StartDelete
    <3>2. CASE SyncStart \/ SyncAnswered \/ SyncLocal \/ PullFails
      BY <3>2 DEF SyncStart, SyncAnswered, SyncLocal, PullFails, PullAlbum, PullItem, SyncEmpty, Sweep,
         ClearAlbum, Merge, Mark, PullUnlink, PullUnrow, PullUnstamp, Stat
    <3>3. CASE \/ Crash \/ \E p \in Paths : Vanish(p)
               \/ \E i \in Items : Replace(i) \/ RemoveItem(i)
               \/ \E p \in Parents : RemoveParent(p)
      BY <3>3 DEF Crash, Vanish, Replace, RemoveItem, RemoveParent, Occurs
    <3> QED BY <3>1, <3>2, <3>3 DEF Next, vars
  <2> QED BY <2>1 DEF ShelfInv
<1>4. ASSUME faults' = 0 PROVE Orderly'
  <2>1. Orderly /\ faults' = faults /\ faults = 0
    BY <1>3, <1>4 DEF ShelfInv
  <2>2. CASE UNCHANGED vars
    BY <2>1, <2>2 DEF vars, diskVars, cacheVars, Orderly, Filed, Renamed, Spared, Known, Leaving, Present, At, Item
  <2>3. ASSUME NEW j \in Jobs, Answered(j) \/ Local(j) \/ Abort(j) PROVE Orderly'
    <3>1. CASE Answered(j) \/ Probe(j) \/ Open(j) \/ Finish(j) \/ Abort(j)
      <4>1. Onward(j) /\ job[j].pc \in Downloading /\ UNCHANGED <<final, row>>
        BY <1>1, <3>1, FetchOnward DEF Answered
      <4> QED BY <1>1, <2>1, <4>1, OnwardKeeps
    <3>2. CASE Check(j)
      BY <1>1, <2>1, <3>2, CheckOrderly
    <3>3. CASE Rename(j)
      <4>1. CASE part[Path(j)] = Nothing
        <5>1. job[j].pc = "rename" /\ part[Path(j)] = Nothing
          BY <3>3, <4>1 DEF Rename, At
        <5> QED BY <1>1, <5>1, PartAt DEF Fit
      <4>2. CASE part[Path(j)] # Nothing
        BY <1>1, <2>1, <3>3, <4>2, RenameOrderly
      <4> QED BY <4>1, <4>2
    <3>4. CASE Shelve(j) \/ Insert(j) \/ Restamp(j)
      BY <1>1, <2>1, <3>4, EnterOrderly
    <3>5. CASE Unlink(j)
      BY <1>1, <2>1, <3>5, UnlinkOrderly
    <3>6. CASE Unrow(j) \/ Unstamp(j) \/ Count(j) \/ Clear(j)
      BY <1>1, <2>1, <3>6, DeleteOrderly DEF ShelfInv
    <3> QED BY <2>3, <3>1, <3>2, <3>3, <3>4, <3>5, <3>6 DEF Local
  <2>4. ASSUME NEW j \in Jobs, StartAll(j) PROVE Orderly'
    <3>1. \A p : Batch(p) \in Seq(Items)
      BY InOrderItems DEF Batch
    <3> QED BY <1>1, <2>1, <2>4, <3>1, StartOrderly DEF StartAll
  <2>5. ASSUME NEW j \in Jobs, NEW i \in Items, StartOne(j, i) PROVE Orderly'
    <3>1. <<i>> \in Seq(Items)
      OBVIOUS
    <3> QED BY <1>1, <2>1, <2>5, <3>1, StartOrderly DEF StartOne
  <2>6. ASSUME NEW j \in Jobs, NEW i \in Items, StartDelete(j, i) PROVE Orderly'
    BY <1>1, <2>1, <2>6, StartDeleteOrderly
  <2>7. ~(SyncStart \/ SyncAnswered \/ SyncLocal \/ PullFails)
    BY NoSyncSteps
  <2>8. ~(\/ Crash \/ \E p \in Paths : Vanish(p)
          \/ \E i \in Items : Replace(i) \/ RemoveItem(i)
          \/ \E p \in Parents : RemoveParent(p))
    BY <1>4, <2>1 DEF Crash, Vanish, Replace, RemoveItem, RemoveParent, Occurs
  <2> QED BY <2>2, <2>3, <2>4, <2>5, <2>6, <2>7, <2>8 DEF Next
<1> QED BY <1>1, <1>2, <1>3, <1>4 DEF ShelfInv

LEMMA InitShelf == Init => ShelfInv
<1> SUFFICES ASSUME Init PROVE ShelfInv
  OBVIOUS
<1>1. WholeInv
  BY InitWhole
<1>2. (\A j \in Jobs : job[j].pc = "idle") /\ \A i \in Items : row[i] = 0
  BY DEF Init, IdleJob
<1>3. Orderly
  BY <1>2 DEF Orderly, Filed, Renamed, Spared, Known, Leaving, At, Fetching, Downloading
<1>4. row \in [Items -> Versions]
  BY SizeAssumption DEF Init, Versions
<1> QED BY <1>1, <1>3, <1>4 DEF ShelfInv, Init

\* A row says its file can be played.  While nothing has crashed and nobody has taken files
\* away, a row without its file is one whose delete is between unlinking and removing it,
\* whichever two commands run together, and for as long a list as they work off.
THEOREM RowsFiled ==
    ASSUME OwnPaths, Once, TwoJobs, NoSync
    PROVE  Spec => []RowsHaveFiles
<1>1. ShelfInv /\ [Next]_vars => ShelfInv'
  BY NextShelf
<1>2. ShelfInv => RowsHaveFiles
  BY DEF ShelfInv, Orderly, Filed, RowsHaveFiles
<1> QED BY InitShelf, <1>1, <1>2, PTL DEF Spec
=============================================================================
