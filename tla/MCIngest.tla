------------------------------ MODULE MCIngest ------------------------------
(* Three songs in two albums and two folders: a rename of b to a meets one  *)
(* free name and one that another song of another length has.              *)
EXTENDS Ingest

MCDirOf == <<"in", "in", "more">>
MCTagOf == <<"a", "b", "b">>
MCNameOf == <<"x", "y", "x">>
MCSizeOf == <<1, 1, 2>>
==============================================================================
