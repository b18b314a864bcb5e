--------------------------- MODULE MCPlaylistSync ---------------------------
(* Instances of PlaylistSync for TLC.                                      *)
EXTENDS PlaylistSync

SavedKinds == {"rename", "delete", "add", "remove", "reorder"}
ApartKinds == SavedKinds \cup {"create"}
FaultKinds == {"create", "delete", "add", "open", "list", "online", "overlap"}
MirrorKinds == {"add", "online", "overlap"}
AllFaults == {"down", "lost", "again", "crash", "foreign"}

=============================================================================
