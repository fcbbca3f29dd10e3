---------------------------- MODULE CircuitContract ----------------------------
(***************************************************************************)
(* What a circuit breaker promises, whatever the workers that use it do at *)
(* the same time: its state follows the results it records one after the   *)
(* other, and a change of its state voids every permit given before it.    *)
(***************************************************************************)
EXTENDS Naturals

CONSTANTS Workers, Threshold

VARIABLES
    state, failures,
    elapsed,        \* the cooldown or the probe's lease is over
    permitted       \* the workers whose result may still be recorded

breaker == <<state, failures, elapsed, permitted>>

Closed == /\ state = "CLOSED" /\ failures = 0
          /\ elapsed = FALSE  /\ permitted = {}

Permit(w) ==
    /\ state = "CLOSED"
    /\ permitted' = permitted \cup {w}
    /\ UNCHANGED <<state, failures, elapsed>>

Probe(w) ==
    /\ state # "CLOSED"
    /\ elapsed
    /\ state' = "HALF_OPEN"
    /\ permitted' = {w}
    /\ elapsed' = FALSE
    /\ UNCHANGED failures

Elapse ==
    /\ state # "CLOSED"
    /\ elapsed' = TRUE
    /\ UNCHANGED <<state, failures, permitted>>

Withdraw(w) ==
    /\ permitted' = permitted \ {w}
    /\ UNCHANGED <<state, failures, elapsed>>

Success ==
    state' = "CLOSED" /\ failures' = 0 /\ elapsed' = FALSE

Failure ==
    /\ failures' = failures + 1
    /\ state' = IF state = "CLOSED" /\ failures' < Threshold THEN "CLOSED" ELSE "OPEN"
    /\ elapsed' = FALSE

Record(w) ==
    /\ w \in permitted
    /\ Success \/ Failure \/ UNCHANGED <<state, failures, elapsed>>
    /\ permitted' \subseteq permitted \ {w}
    /\ state' # state => permitted' = {}

Change ==
    \/ Elapse
    \/ \E w \in Workers : Permit(w) \/ Probe(w) \/ Withdraw(w) \/ Record(w)

Contract == Closed /\ [][Change]_breaker
===============================================================================
