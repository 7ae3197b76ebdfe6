------------------------------ MODULE MCWorkDirs ------------------------------
(***************************************************************************)
(* A small instance of WorkDirs for TLC.                                   *)
(***************************************************************************)
EXTENDS WorkDirs

MCEnds == {<<"succeeded", TRUE>>, <<"interrupted", FALSE>>}
=============================================================================
