-------------------------- MODULE MCDestinationRuntime --------------------------
(***************************************************************************)
(* Small instances of DestinationRuntime for TLC.                          *)
(***************************************************************************)
EXTENDS DestinationProperties

CONSTANTS w1, w2, w3, d1, d2, d3
===============================================================================
