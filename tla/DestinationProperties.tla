------------------------- MODULE DestinationProperties -------------------------
(***************************************************************************)
(* What must hold of DestinationRuntime.                                   *)
(***************************************************************************)
EXTENDS DestinationRuntime

(* Every variable has its type.                                             *)
TypeOK ==
    /\ circuit \in Circuit
    /\ passed \in BOOLEAN
    /\ bucket \in Bucket
    /\ time \in Nat
    /\ grants \in Seq(Nat)
    /\ stage \in [Deliveries -> Stage]
    /\ attempts \in [Deliveries -> Nat]
    /\ holder \in [Deliveries -> Workers \cup {NoWorker}]
    /\ pc \in [Workers -> Step]
    /\ job \in [Workers -> Deliveries \cup {NoDelivery}]
    /\ since \in [Workers -> Nat]
    /\ ripe \in [Workers -> Nat]
    /\ permit \in [Workers -> Circuit]
    /\ probe \in [Workers -> BOOLEAN]
    /\ level \in [Workers -> Bucket]
    /\ tries \in [Workers -> Nat]
    /\ answer \in [Workers -> Answers \cup {"none"}]
    /\ faults \in Nat

-------------------------------------------------------------------------------
(* The workers whose result the circuit would still record.                  *)
HoldsPermit(w) ==
    pc[w] \in {"rate", "grant", "call", "finalize"} /\ Current(w)

(* A permit is worth what the circuit is now: none while it is open, one     *)
(* probe's while it is half-open, however late the others come back.         *)
PermitsFollowCircuit ==
    \A w \in Workers : HoldsPermit(w) =>
        /\ circuit.state # "OPEN"
        /\ probe[w] = (circuit.state = "HALF_OPEN")
        /\ probe[w] => \A v \in Workers \ {w} : ~HoldsPermit(v)

(* In no stretch of time are more rate permits granted than the burst and    *)
(* the rate allow, although workers read the bucket concurrently and with    *)
(* clocks read at different moments: n + 1 permits take n increments of time *)
(* beyond the burst.                                                         *)
RateRespected ==
    \A i, j \in 1..Len(grants) : i <= j =>
        (j - i) * Interval + Requests * grants[i]
            <= Requests * grants[j] + Interval * (Burst - 1)

(* Workers implement the contract of a circuit breaker.                      *)
Abstract == INSTANCE CircuitContract WITH
    state     <- circuit.state,
    failures  <- circuit.failures,
    elapsed   <- passed,
    permitted <- {w \in Workers : HoldsPermit(w)}

ImplementsContract == Abstract!Contract

(* An open circuit does not keep deliveries for ever: with finitely many     *)
(* faults each of them is attempted until it ends, unless the rate limiter   *)
(* refuses it.                                                               *)
CircuitLetsGo ==
    <>(\A d \in Deliveries : stage[d] \in Ended \cup {"rate_limited"})

-------------------------------------------------------------------------------
(* A delivery to a destination that answers every request with success does  *)
(* not end dead-lettered.                                                    *)
HealthyDestinationSucceeds ==
    Answers = {"success"} => \A d \in Deliveries : stage[d] # "dead_lettered"
===============================================================================
