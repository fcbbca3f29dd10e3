------------------------------- MODULE MCSearch --------------------------------
(***************************************************************************)
(* Small instances of Search for TLC: pages of one entry, so that every    *)
(* listing takes several, and a resumption that reads as few.              *)
(***************************************************************************)
EXTENDS SearchProperties

MCFilters == {"ALL", "TERMINAL_FAILURE", "retry_scheduled"}
===============================================================================
