----------------------------- MODULE MCJobServer -----------------------------
(***************************************************************************)
(* Small instances of JobServer for TLC.                                   *)
(***************************************************************************)
EXTENDS JobServer, TLC

(* Submissions are interchangeable, and so are job ids.  Used by the runs  *)
(* that check safety only.                                                 *)
Symmetry == Permutations(Jobs) \cup Permutations(Runs)
=============================================================================
