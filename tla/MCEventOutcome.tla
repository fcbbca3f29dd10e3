---------------------------- MODULE MCEventOutcome ----------------------------
(***************************************************************************)
(* Small instances of EventOutcome for TLC.                                *)
(***************************************************************************)
EXTENDS EventProperties

CONSTANTS r1, r2, d1, d2, d3
===============================================================================
