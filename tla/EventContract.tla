---------------------------- MODULE EventContract -----------------------------
(***************************************************************************)
(* What the platform promises about one event: its status is at every      *)
(* moment the one its deliveries amount to, each delivery is created once  *)
(* and ends once, however many routers and delivery workers update the     *)
(* event's record at the same time.                                        *)
(***************************************************************************)
CONSTANT Destinations

VARIABLES
    results,    \* destination -> what became of the event's delivery to it
    closed,     \* whether routing is complete
    status      \* the event's status

outcome == <<results, closed, status>>

In(states) == {d \in Destinations : results[d] \in states}

Status ==
    LET made == Destinations \ In({"absent"})
        succeeded == In({"succeeded"})
    IN  CASE made = {} /\ ~closed -> "accepted"
          [] made = {} /\ closed  -> "no_destinations"
          [] made # {} /\ (~closed \/ In({"scheduled"}) # {}) -> "processing"
          [] made # {} /\ closed /\ In({"scheduled"}) = {} ->
                IF succeeded = made THEN "succeeded"
                ELSE IF succeeded = {} THEN "failed" ELSE "partially_succeeded"

Accepted ==
    /\ results = [d \in Destinations |-> "absent"]
    /\ closed = FALSE
    /\ status = "accepted"

Become(d, states) ==
    \E s \in states : results' = [results EXCEPT ![d] = s]

Deliver(d) ==
    /\ results[d] = "absent"
    /\ Become(d, {"scheduled", "transformation_error"})
    /\ UNCHANGED closed

Settle(d) ==
    /\ results[d] = "scheduled"
    /\ Become(d, {"succeeded", "failed_terminal", "dead_lettered"})
    /\ UNCHANGED closed

Close ==
    /\ ~closed
    /\ closed' = TRUE
    /\ UNCHANGED results

Contract ==
    /\ Accepted
    /\ [][/\ Close \/ \E d \in Destinations : Deliver(d) \/ Settle(d)
          /\ status' = Status']_outcome
===============================================================================
