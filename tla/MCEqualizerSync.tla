--------------------------- MODULE MCEqualizerSync ---------------------------
(* Instances of EqualizerSync for TLC. *)
EXTENDS EqualizerSync

=============================================================================
