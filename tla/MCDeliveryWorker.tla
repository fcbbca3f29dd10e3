--------------------------- MODULE MCDeliveryWorker ---------------------------
(***************************************************************************)
(* Small instances of DeliveryWorker for TLC.  Workers and message slots   *)
(* are interchangeable wherever no liveness property is checked.           *)
(***************************************************************************)
EXTENDS DeliveryProperties, TLC

CONSTANTS w1, w2, m1, m2

InterchangeableIds == Permutations(Workers) \cup Permutations(Messages)
===============================================================================
