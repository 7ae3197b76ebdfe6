---------------------------- MODULE MCVideoPipeline ----------------------------
(***************************************************************************)
(* A small instance of VideoPipeline for TLC.                              *)
(***************************************************************************)
EXTENDS VideoPipeline

MCTotals == {0, 4, 7}
MCCuts == {{}, {3}, {1, 4}}
=============================================================================
