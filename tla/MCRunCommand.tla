----------------------------- MODULE MCRunCommand -----------------------------
(* RunCommand for TLC. *)
EXTENDS RunCommand, TLC

Symmetry == Permutations(Files)
=============================================================================
