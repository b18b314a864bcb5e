-------------------------- MODULE MCPlaylistRows --------------------------
(* An instance of PlaylistRows for TLC. *)
EXTENDS PlaylistRows

RowIds == 1..5
=============================================================================
