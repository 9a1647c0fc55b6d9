---------------------------- MODULE MCStatistics ----------------------------
(***************************************************************************)
(* A small instance of Statistics.                                         *)
(***************************************************************************)
EXTENDS Statistics
=============================================================================
