----------------------------- MODULE MCStageInput -----------------------------
(***************************************************************************)
(* A small instance of StageInput for TLC: an object of three chunks, or   *)
(* of three blocks, and its successor of the same length.                  *)
(***************************************************************************)
EXTENDS StageInput

MCVersions == {1, 2}
MCSize == [v \in MCVersions |-> 3]
=============================================================================
