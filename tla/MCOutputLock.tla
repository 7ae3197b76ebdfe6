----------------------------- MODULE MCOutputLock -----------------------------
(***************************************************************************)
(* A small instance of OutputLock for TLC: as many files as there are      *)
(* processes that lock, and one process that does not.                     *)
(***************************************************************************)
EXTENDS OutputLock

CONSTANTS p1, p2, p3, p4

MCLocking == {p1, p2, p3}
MCProcs   == MCLocking \cup {p4}
=============================================================================
