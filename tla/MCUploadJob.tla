---------------------------- MODULE MCUploadJob -----------------------------
(* Instances of UploadJob for TLC. *)
EXTENDS UploadJob
=============================================================================
