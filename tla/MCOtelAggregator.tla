-------------------------- MODULE MCOtelAggregator --------------------------
(***************************************************************************)
(* A small instance of OtelAggregator: two workers, and two scrapes that   *)
(* may be open together.                                                   *)
(***************************************************************************)
EXTENDS OtelAggregator

CONSTANTS w1, w2
=============================================================================
