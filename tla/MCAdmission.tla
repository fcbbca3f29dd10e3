------------------------------ MODULE MCAdmission ------------------------------
(***************************************************************************)
(* Small instances of Admission for TLC: a secret that stays and one whose *)
(* grace ends at once, and a guard that outlives a timestamp.              *)
(***************************************************************************)
EXTENDS AdmissionProperties, TLC

MCGraceUntil == [s \in Secrets |-> IF s = "old" THEN 1 ELSE MaxTime + 1]
MCRequests ==
    {[key |-> "event", body |-> "a", by |-> "old"],
     [key |-> "event", body |-> "b", by |-> "new"],
     [key |-> "replay", body |-> "b", by |-> "operator"]}
MCSymmetry == Permutations(Calls)
===============================================================================
