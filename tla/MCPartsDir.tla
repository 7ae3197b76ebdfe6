------------------------------ MODULE MCPartsDir ------------------------------
(***************************************************************************)
(* A small instance of PartsDir for TLC: five frames in parts of two.      *)
(***************************************************************************)
EXTENDS PartsDir

(* probe may not know, may be right, and may be off, also by part of a     *)
(* part.                                                                   *)
MCCounts == {0, 3, 4, 5, 6, 7}
=============================================================================
