----------------------------- MODULE MCPatchEngine -----------------------------
(***************************************************************************)
(* A small instance of PatchEngine for TLC: boxes at the edge of a frame,  *)
(* on and off a multiple of 8, inside one another, and reaching over the   *)
(* end of the smaller frames.                                              *)
(***************************************************************************)
EXTENDS PatchEngine

MCBoxes == [x : {0, 8, 9, 13, 31, 50}, w : {1, 4, 6, 11, 20}]
=============================================================================
