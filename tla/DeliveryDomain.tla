---------------------------- MODULE DeliveryDomain ----------------------------
(***************************************************************************)
(* The pure rules of packages/domain: the states of a delivery execution,  *)
(* the transitions transitionDelivery permits, and the classification of   *)
(* a partner's answer that deliver() turns into the next state.            *)
(*                                                                         *)
(* Instants are not numbers here.  Whether a stored instant (a lease's     *)
(* expiry, nextEligibleAt) has passed is a fact about the environment and  *)
(* is kept by the modules that use these records.                          *)
(***************************************************************************)
EXTENDS Naturals

DeliveryState ==
    {"pending", "scheduled", "rate_limited", "in_progress", "retry_scheduled",
     "succeeded", "failed_terminal", "dead_lettered", "cancelled"}

TerminalState == {"succeeded", "failed_terminal", "dead_lettered", "cancelled"}

(* The failure categories the delivery protocol tells apart; the partner's  *)
(* and the transport's categories only differ in their classification.      *)
BlockedReason ==
    {"NONE", "DESTINATION_DISABLED", "CIRCUIT_OPEN", "RATE_LIMITED",
     "TIMEOUT", "RETRYABLE", "REJECTED"}

PermittedTransitions ==
    [ pending         |-> {"scheduled"},
      scheduled       |-> {"scheduled", "in_progress", "rate_limited"},
      rate_limited    |-> {"scheduled"},
      in_progress     |-> {"scheduled", "rate_limited", "succeeded",
                           "retry_scheduled", "failed_terminal", "dead_lettered"},
      retry_scheduled |-> {"scheduled", "in_progress"},
      succeeded       |-> {},
      failed_terminal |-> {},
      dead_lettered   |-> {},
      cancelled       |-> {} ]

(* A lease token, an attempt id or its absence.  The code draws both from    *)
(* a ULID generator; the version a lease is written under is as unique.      *)
NoToken == 0

Delivery ==
    [ state           : DeliveryState,
      version         : Nat,
      attemptCount    : Nat,
      leaseToken      : Nat,
      activeAttemptId : Nat,
      blockedReason   : BlockedReason ]

(* transitionDelivery throws INVALID_TRANSITION when this is false.          *)
MayTransition(d, to) == to \in PermittedTransitions[d.state]

(* Mutant: the version is not advanced.                                      *)
BugTransition(d, to, token, reason) ==
    [d EXCEPT !.state = to, !.leaseToken = token, !.blockedReason = reason]

(* What transitionDelivery returns: every lease field is cleared unless a    *)
(* new lease is passed, the blocked reason is replaced, activeAttemptId and  *)
(* attemptCount are carried over.                                            *)
Transition(d, to, token, reason) ==
    [d EXCEPT !.state = to,
              !.version = @ + 1,
              !.leaseToken = token,
              !.blockedReason = reason]

(* classifyDeliveryResult: what a response or a transport error amounts to.  *)
Answer == {"success", "retryable", "terminal"}

Retryable(answer) == answer = "retryable"

(* Mutant: one attempt too many.                                             *)
BugExhausted(d, answer, maxAttempts) ==
    Retryable(answer) /\ d.attemptCount > maxAttempts

(* A retryable failure of the last permitted attempt is not retried.         *)
Exhausted(d, answer, maxAttempts) ==
    Retryable(answer) /\ d.attemptCount >= maxAttempts

(* Mutant: every failure that is not retried is dead-lettered.               *)
BugStateAfter(d, answer, maxAttempts) ==
    IF answer = "success" THEN "succeeded"
    ELSE IF Retryable(answer) /\ ~Exhausted(d, answer, maxAttempts)
         THEN "retry_scheduled" ELSE "dead_lettered"

(* The state deliver() finalizes an attempt into.                            *)
StateAfter(d, answer, maxAttempts) ==
    CASE answer = "success"                    -> "succeeded"
      [] Exhausted(d, answer, maxAttempts)     -> "dead_lettered"
      [] Retryable(answer) /\ ~Exhausted(d, answer, maxAttempts)
                                               -> "retry_scheduled"
      [] answer = "terminal"                   -> "failed_terminal"

ReasonAfter(answer) ==
    CASE answer = "success"   -> "NONE"
      [] answer = "retryable" -> "RETRYABLE"
      [] answer = "terminal"  -> "REJECTED"
===============================================================================
