-------------------------- MODULE DeliveryProperties --------------------------
(***************************************************************************)
(* What must hold of DeliveryWorker.                                       *)
(***************************************************************************)
EXTENDS DeliveryWorker

(* Every variable has its type.                                             *)
TypeOK ==
    /\ delivery \in Delivery
    /\ attempts \in [Attempts -> Attempt]
    /\ leaseExpired \in BOOLEAN
    /\ leasedFrom \in Messages \cup {NoMessage}
    /\ due \in BOOLEAN
    /\ outbox \in Nat
    /\ sent \in Nat
    /\ status \in [Messages -> MessageStatus]
    /\ holder \in [Messages -> Workers \cup {NoWorker}]
    /\ receives \in [Messages -> Nat]
    /\ pc \in [Workers -> WorkerStep]
    /\ msg \in [Workers -> Messages \cup {NoMessage}]
    /\ seen \in [Workers -> Delivery]
    /\ verdict \in [Workers -> Verdict]
    /\ requests \in [Attempts -> Nat]
    /\ accepted \subseteq Attempts
    /\ faults \in Nat
    /\ deferrals \in Nat

-------------------------------------------------------------------------------
(* The attempt records agree with the delivery that counts them, whatever    *)
(* crashed, expired or was redelivered: numbers 1..attemptCount exist, never *)
(* more than the policy permits, and only the active one is still started.   *)
AttemptAccounting ==
    /\ delivery.attemptCount <= MaxAttempts
    /\ \A n \in Attempts :
          /\ attempts[n].outcome # "none" <=> n <= delivery.attemptCount
          /\ attempts[n].outcome = "started" <=>
                n = delivery.attemptCount /\ delivery.activeAttemptId # NoToken
    /\ delivery.activeAttemptId # NoToken =>
          /\ delivery.state = "in_progress"
          /\ attempts[delivery.attemptCount].id = delivery.activeAttemptId

(* A delivery's state is what its attempts say: succeeded exactly when one   *)
(* succeeded, and that one the partner really processed; dead-lettered only  *)
(* with every attempt used and failed; waiting only with one left.           *)
OutcomeMatchesAttempts ==
    LET succeededAttempts == {n \in Attempts : attempts[n].outcome = "succeeded"}
    IN  /\ (delivery.state = "succeeded") = (succeededAttempts # {})
        /\ succeededAttempts \subseteq accepted
        /\ delivery.state = "dead_lettered" => delivery.attemptCount = MaxAttempts
        /\ (delivery.state \notin TerminalState /\ delivery.activeAttemptId = NoToken)
              => delivery.attemptCount < MaxAttempts

(* However late or often workers run, an attempt reaches the partner at most *)
(* once, and only after its record was stored.                               *)
SendsOnce ==
    \A n \in Attempts :
        /\ requests[n] <= 1
        /\ requests[n] = 1 => attempts[n].outcome # "none"

(* Of the workers between lease and finalization, at most one can still      *)
(* change the delivery: the fence is version and token, not the clock.       *)
LeaseExclusive ==
    \A w, v \in Workers :
        (/\ {pc[w], pc[v]} \subseteq {"check", "defer", "start", "send", "finalize"}
         /\ OwnsLease(w)
         /\ OwnsLease(v)) => w = v

(* An unfinished delivery is not forgotten: an unpublished outbox record or  *)
(* a queue message (in the DLQ at worst) that no worker is about to delete   *)
(* will bring a worker back to it.                                           *)
WakeUp ==
    delivery.state \notin TerminalState =>
        \/ outbox > 0
        \/ \E m \in Messages :
              /\ status[m] # "none"
              /\ \A w \in Workers : ~(pc[w] = "ack" /\ holder[m] = w /\ msg[w] = m)

(* No step rewrites a concluded attempt, and none changes a delivery that    *)
(* has ended: a late finalization is blocked.                                *)
OutcomeFinal ==
    [][/\ delivery.state \in TerminalState => UNCHANGED delivery
       /\ \A n \in Attempts :
             attempts[n].outcome \in {"succeeded", "failed"} =>
                 attempts'[n] = attempts[n]]_vars

(* The worker implements the contract of one delivery.                       *)
Abstract == INSTANCE DeliveryContract WITH
    outcome   <- IF delivery.state \in TerminalState THEN delivery.state ELSE "open",
    used      <- delivery.attemptCount,
    calling   <- delivery.activeAttemptId # NoToken,
    processed <- accepted

ImplementsContract == Abstract!Contract

-------------------------------------------------------------------------------
(* Every delivery ends: with finitely many faults and refusals it reaches a  *)
(* terminal state, or a message of it waits in the DLQ for an operator.      *)
DeliveryEnds ==
    <>(\/ delivery.state \in TerminalState
       \/ \E m \in Messages : status[m] = "dead")

(* A delivery deferred by a check is attempted again or ends: it does not    *)
(* stay blocked once its reason to wait has passed.                          *)
DeferredResumes ==
    (delivery.blockedReason \in {"DESTINATION_DISABLED", "CIRCUIT_OPEN", "RATE_LIMITED"})
        ~> (delivery.blockedReason \notin
               {"DESTINATION_DISABLED", "CIRCUIT_OPEN", "RATE_LIMITED"})
===============================================================================
