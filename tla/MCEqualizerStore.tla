-------------------------- MODULE MCEqualizerStore --------------------------
(* Instances of EqualizerStore for TLC. *)
EXTENDS EqualizerStore, TLC

Symmetry ==
  UNION {Permutations(s) : s \in {Profiles, Rules, Names, Editors}}
=============================================================================
