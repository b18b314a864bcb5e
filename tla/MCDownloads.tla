---------------------------- MODULE MCDownloads -----------------------------
(* Instances of Downloads for TLC. *)
EXTENDS Downloads

CONSTANTS t1, t2, e1, album, show, p1, p2, p3

\* One track that everything happens to.
Alone == <<t1>>
AlonePath == t1 :> p1
AloneParent == t1 :> album

\* An album of two tracks, and an episode.
Shelf == <<t1, t2, e1>>
ShelfPaths == t1 :> p1 @@ t2 :> p2 @@ e1 :> p3
ShelfParents == t1 :> album @@ t2 :> album @@ e1 :> show
=============================================================================
