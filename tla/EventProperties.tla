--------------------------- MODULE EventProperties ----------------------------
(***************************************************************************)
(* What must hold of EventOutcome.                                         *)
(***************************************************************************)
EXTENDS EventOutcome

(* Every variable has its type.                                             *)
TypeOK ==
    /\ event \in Event
    /\ deliveries \in [Destinations -> DeliveryState]
    /\ index \subseteq EventStatus
    /\ subscribed \subseteq Destinations
    /\ enabled \subseteq Destinations
    /\ steady \subseteq Destinations
    /\ copies \in Nat
    /\ pc \in [Routers -> RouterStep]
    /\ todo \in [Routers -> SUBSET Destinations]
    /\ at \in [Routers -> Destinations \cup {NoDestination}]
    /\ state \in [Routers -> {"scheduled", "transformation_error"}]
    /\ tries \in [Routers -> Nat]
    /\ seen \in [Routers -> Event]
    /\ outdated \in [Destinations -> Event]
    /\ faults \in Nat
    /\ changes \in Nat

-------------------------------------------------------------------------------
Number(states) == Cardinality({d \in Destinations : deliveries[d] \in states})

(* The event's counters are the numbers of its deliveries by state, although *)
(* every router and every delivery worker adds to a record it has read       *)
(* earlier (createDelivery, finalizeAttempt).                                *)
CountersMatchDeliveries ==
    /\ event.total = Number(DeliveryState \ {"absent"})
    /\ event.terminal = Number(TerminalState)
    /\ event.successful = Number({"succeeded"})
    /\ event.failed = Number(FailedState)
    /\ event.deadLettered = Number({"dead_lettered"})

(* No destination is lost: once routing is complete, every destination that  *)
(* was subscribed and enabled all along has its delivery, whichever copy of  *)
(* the message completed the routing and wherever the others failed.         *)
RoutedCoversDestinations ==
    event.routed => \A d \in steady : deliveries[d] # "absent"

(* While the configuration is unchanged, a duplicated or repeated routing    *)
(* does not reopen an event that has its final status.                       *)
FinalStatusKept ==
    [][event.status \in FinalStatus /\ changes = 0
            => event'.status = event.status]_vars

(* Routers and delivery workers implement the contract of one event.         *)
Abstract == INSTANCE EventContract WITH
    results <- deliveries,
    closed  <- event.routed,
    status  <- event.status

ImplementsContract == Abstract!Contract

(* Every event gets its final status: with finitely many faults and changes, *)
(* routing completes and the status settles.                                 *)
EventSettles == <>[](event.status \in FinalStatus)

-------------------------------------------------------------------------------
(* A search by status (searchEvents) finds the event under its status.       *)
IndexFindsEvent == event.status \in index
===============================================================================
