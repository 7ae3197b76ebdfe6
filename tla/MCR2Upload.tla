------------------------------ MODULE MCR2Upload ------------------------------
(***************************************************************************)
(* A small instance of R2Upload for TLC.  Part lengths: 2 is a full part.  *)
(***************************************************************************)
EXTENDS R2Upload, TLC

CONSTANTS small, odd, even

(* A file of one request, and two of two parts whose first parts are of    *)
(* one length and whose last parts are not.                                *)
MCSources == {small, odd, even}

MCPlan == [s \in MCSources |-> CASE s = small -> <<1>>
                                 [] s = odd   -> <<2, 1>>
                                 [] s = even  -> <<2, 2>>]

Symmetry == Permutations(Clients) \cup Permutations(Ids)
=============================================================================
