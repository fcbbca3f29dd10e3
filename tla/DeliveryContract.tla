--------------------------- MODULE DeliveryContract ---------------------------
(***************************************************************************)
(* What the platform promises about one delivery, whoever processes it and *)
(* however often: attempts are numbered, run one at a time and are at most *)
(* MaxAttempts; each is concluded once; a conclusion may end the delivery, *)
(* and then nothing about it changes any more.  The partner may process a  *)
(* started attempt late, even after it has been given up as timed out.     *)
(***************************************************************************)
EXTENDS Naturals

CONSTANT MaxAttempts

VARIABLES
    outcome,    \* "open", or how the delivery ended
    used,       \* the number of attempts started
    calling,    \* whether the last of them is still to be concluded
    processed   \* the attempts the partner has processed

contract == <<outcome, used, calling, processed>>

Open ==
    /\ outcome = "open"
    /\ used = 0
    /\ calling = FALSE
    /\ processed = {}

Begin ==
    /\ outcome = "open"
    /\ ~calling
    /\ used < MaxAttempts
    /\ used' = used + 1
    /\ calling' = TRUE
    /\ UNCHANGED <<outcome, processed>>

Process(n) ==
    /\ n <= used
    /\ processed' = processed \cup {n}
    /\ UNCHANGED <<outcome, used, calling>>

(* Success only for what the partner has processed; giving up on retryable  *)
(* failures only when the attempts are used up, going on only before.       *)
Conclude ==
    /\ calling
    /\ calling' = FALSE
    /\ outcome' \in {"open", "succeeded", "failed_terminal", "dead_lettered"}
    /\ outcome' = "succeeded" => used \in processed
    /\ outcome' = "dead_lettered" => used = MaxAttempts
    /\ outcome' = "open" => used < MaxAttempts
    /\ UNCHANGED <<used, processed>>

Contract ==
    Open /\ [][Begin \/ Conclude \/ \E n \in 1..MaxAttempts : Process(n)]_contract
===============================================================================
