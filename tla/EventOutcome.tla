----------------------------- MODULE EventOutcome -----------------------------
(***************************************************************************)
(* One accepted event: its routing into deliveries and the outcome that    *)
(* its record accumulates.                                                 *)
(*                                                                         *)
(* Routers are runs of RoutingService.route (packages/application), one    *)
(* for each copy of the ROUTE_EVENT message in flight.  Finalizers are the *)
(* delivery workers' finalizeAttempt (packages/persistence), at most one   *)
(* for each delivery: DeliveryWorker shows why.  All of them update the    *)
(* event's counters and status by optimistic concurrency: read the event,  *)
(* compute its successor, and commit it with the delivery in one           *)
(* transaction, on the condition that the event's version is still the one *)
(* read.  A stale read or a conflicting transaction shows as a commit that *)
(* fails although the version is current.                                  *)
(***************************************************************************)
EXTENDS Naturals, FiniteSets

CONSTANTS
    Routers,        \* concurrent runs of route()
    Destinations,   \* the destinations that subscriptions can name
    Broken,         \* those whose transformation fails on this event
    MaxTries,       \* tries of a router's commit before it throws (8)
    MaxFaults,      \* bound on crashes, store errors, duplicates, lost commits
    MaxChanges,     \* bound on changes to subscriptions and destinations
    NoDestination

ASSUME DestinationsAssumption ==
    /\ IsFiniteSet(Destinations)
    /\ Broken \subseteq Destinations
    /\ NoDestination \notin Destinations
ASSUME TriesAssumption == MaxTries \in Nat \ {0}
ASSUME BudgetAssumption == MaxFaults \in Nat /\ MaxChanges \in Nat

VARIABLES
    event,          \* the EVENT item: outcome counters, status, version
    deliveries,     \* destination -> the state of its ORIGINAL delivery
    index,          \* the STATUS# categories the event is listed under
    subscribed,     \* destinations with an enabled subscription
    enabled,        \* destinations enabled, with their partner
    steady,         \* those that were both from the start (history)
    copies,         \* ROUTE_EVENT messages not being processed
    pc, todo, at,   \* router -> step, destinations left, destination at hand
    state,          \* router -> the state it creates the delivery in
    tries,          \* router -> failed tries of the current commit
    seen,           \* router -> the event as last read
    outdated,       \* destination -> what its finalizer read of the event
    faults, changes

record == <<event, deliveries, index>>
config == <<subscribed, enabled, steady>>
router == <<pc, todo, at, state, tries, seen>>
budget == <<faults, changes>>
vars == <<record, config, copies, router, outdated, budget>>

-------------------------------------------------------------------------------
EventStatus ==
    {"accepted", "processing", "succeeded", "partially_succeeded", "failed",
     "no_destinations"}
FinalStatus == EventStatus \ {"accepted", "processing"}

(* transformation_error is the failed_terminal delivery of a router; every   *)
(* state before a terminal one counts as scheduled here.                     *)
FailedState == {"failed_terminal", "transformation_error"}
TerminalState == FailedState \cup {"succeeded", "dead_lettered"}
DeliveryState == TerminalState \cup {"absent", "scheduled"}

Event ==
    [ routed : BOOLEAN, total : Nat, terminal : Nat, successful : Nat,
      failed : Nat, deadLettered : Nat, status : EventStatus, version : Nat ]

RouterStep ==
    {"idle", "next", "lookup", "read", "create", "complete", "completeCommit"}

(* What accept() stores.                                                     *)
AcceptedEvent ==
    [ routed |-> FALSE, total |-> 0, terminal |-> 0, successful |-> 0,
      failed |-> 0, deadLettered |-> 0, status |-> "accepted", version |-> 1 ]
NoEvent == [AcceptedEvent EXCEPT !.version = 0]

Init ==
    /\ event = AcceptedEvent
    /\ deliveries = [d \in Destinations |-> "absent"]
    /\ index = {"accepted"}
    /\ subscribed \in SUBSET Destinations
    /\ enabled = Destinations
    /\ steady = subscribed
    /\ copies = 1
    /\ pc = [r \in Routers |-> "idle"]
    /\ todo = [r \in Routers |-> {}]
    /\ at = [r \in Routers |-> NoDestination]
    /\ state = [r \in Routers |-> "scheduled"]
    /\ tries = [r \in Routers |-> 0]
    /\ seen = [r \in Routers |-> NoEvent]
    /\ outdated = [d \in Destinations |-> NoEvent]
    /\ faults = 0
    /\ changes = 0

-------------------------------------------------------------------------------
(* The event's next record.                                                  *)

(* Mutant: the status of the deliveries so far, complete or not.             *)
BugDeriveEventStatus(e) ==
    IF e.total = 0 THEN IF e.routed THEN "no_destinations" ELSE "accepted"
    ELSE IF e.terminal < e.total THEN "processing"
    ELSE IF e.successful = e.total THEN "succeeded"
    ELSE IF e.successful > 0 THEN "partially_succeeded" ELSE "failed"

DeriveEventStatus(e) ==
    LET unsettled == ~e.routed \/ e.terminal < e.total
    IN  CASE ~e.routed /\ e.total = 0                 -> "accepted"
          [] unsettled /\ e.total > 0                 -> "processing"
          [] e.routed /\ e.total = 0                  -> "no_destinations"
          [] ~unsettled /\ e.total > 0 ->
                IF e.successful = e.total THEN "succeeded"
                ELSE IF e.successful > 0 THEN "partially_succeeded" ELSE "failed"

Stored(e) == [e EXCEPT !.status = DeriveEventStatus(e), !.version = @ + 1]

One(condition) == IF condition THEN 1 ELSE 0

(* Mutant: a delivery that dead-letters is not counted as terminal.          *)
BugSettled(e, s) ==
    [e EXCEPT !.terminal = @ + One(s \in TerminalState \ {"dead_lettered"}),
              !.successful = @ + One(s = "succeeded"),
              !.failed = @ + One(s \in FailedState),
              !.deadLettered = @ + One(s = "dead_lettered")]

(* A delivery that is in state s is counted under it.                        *)
Settled(e, s) ==
    [e EXCEPT !.terminal = @ + One(s \in TerminalState),
              !.successful = @ + One(s = "succeeded"),
              !.failed = @ + One(s \in FailedState),
              !.deadLettered = @ + One(s = "dead_lettered")]

WithDelivery(e, s) == Stored(Settled([e EXCEPT !.total = @ + 1], s))
WithOutcome(e, s) == Stored(Settled(e, s))

(* Mutant: the status is left as it was.                                     *)
BugWithRoutingComplete(e) == [e EXCEPT !.routed = TRUE, !.version = @ + 1]

WithRoutingComplete(e) == Stored([e EXCEPT !.routed = TRUE])

(* createDelivery and completeRouting move the event to its new status's     *)
(* category.  The one they take it from is that of the event they read.      *)
Move(e, next) ==
    index' = IF e.status = next.status THEN index
             ELSE (index \ {e.status}) \cup {next.status}

-------------------------------------------------------------------------------
Fault == faults < MaxFaults /\ faults' = faults + 1 /\ UNCHANGED changes

Goto(r, step) == pc' = [pc EXCEPT ![r] = step]

(* route() is over, and so is its message, or it comes back to the queue.    *)
End(r, returned) ==
    /\ Goto(r, "idle")
    /\ todo' = [todo EXCEPT ![r] = {}]
    /\ at' = [at EXCEPT ![r] = NoDestination]
    /\ state' = [state EXCEPT ![r] = "scheduled"]
    /\ tries' = [tries EXCEPT ![r] = 0]
    /\ seen' = [seen EXCEPT ![r] = NoEvent]
    /\ copies' = copies + returned

(* Mutant: the event is put without its version condition.                   *)
BugCurrent(e) == TRUE

(* The condition of every commit: the event is still at the version read.    *)
Current(e) == e.version = event.version

-------------------------------------------------------------------------------
(* route(), one action per awaited operation.                                *)

(* An event whose routing crashed or was duplicated is routed from the       *)
(* subscriptions as they are now.                                            *)
StartRouting(r) ==
    /\ pc[r] = "idle"
    /\ copies > 0
    /\ copies' = copies - 1
    /\ Goto(r, "next")
    /\ todo' = [todo EXCEPT ![r] = subscribed]
    /\ UNCHANGED <<record, config, at, state, tries, seen, outdated, budget>>

(* The next subscription.  A destination disabled by now is skipped; where   *)
(* the transformation throws, a failed delivery is created.                  *)
NextDestination(r) ==
    /\ pc[r] = "next"
    /\ \E d \in todo[r] :
          /\ todo' = [todo EXCEPT ![r] = @ \ {d}]
          /\ \/ d \notin enabled /\ UNCHANGED <<pc, at, state>>
             \/ /\ d \in enabled
                /\ Goto(r, "lookup")
                /\ at' = [at EXCEPT ![r] = d]
                /\ state' = [state EXCEPT ![r] =
                        IF d \in Broken THEN "transformation_error" ELSE "scheduled"]
    /\ UNCHANGED <<record, config, copies, tries, seen, outdated, budget>>

(* The delivery's id is a hash of event and destination: an existing one is  *)
(* this one.                                                                 *)
Lookup(r) ==
    /\ pc[r] = "lookup"
    /\ IF deliveries[at[r]] = "absent"
       THEN Goto(r, "read") /\ UNCHANGED tries
       ELSE Goto(r, "next") /\ tries' = [tries EXCEPT ![r] = 0]
    /\ UNCHANGED <<record, config, copies, todo, at, state, seen, outdated, budget>>

ReadEvent(r) ==
    /\ pc[r] = "read"
    /\ Goto(r, "create")
    /\ seen' = [seen EXCEPT ![r] = event]
    /\ UNCHANGED <<record, config, copies, todo, at, state, tries, outdated, budget>>

Creatable(r) == Current(seen[r]) /\ deliveries[at[r]] = "absent"

DeliveryCreated(r) ==
    LET next == WithDelivery(seen[r], state[r])
    IN  /\ event' = next
        /\ deliveries' = [deliveries EXCEPT ![at[r]] = state[r]]
        /\ Move(seen[r], next)

(* Mutant: the catch clause swallows its own errors.                         *)
BugThrown(r) ==
    /\ \/ /\ state[r] = "scheduled"
          /\ state' = [state EXCEPT ![r] = "transformation_error"]
          /\ Goto(r, "lookup")
       \/ state[r] = "transformation_error" /\ Goto(r, "next") /\ UNCHANGED state
    /\ tries' = [tries EXCEPT ![r] = 0]
    /\ UNCHANGED <<copies, todo, at, seen>>

(* What an error thrown out of createDelivery leads to: the catch clause     *)
(* creates a failed delivery instead, and an error out of that one ends      *)
(* route().                                                                  *)
Thrown(r) ==
    \/ /\ state[r] = "scheduled"
       /\ state' = [state EXCEPT ![r] = "transformation_error"]
       /\ tries' = [tries EXCEPT ![r] = 0]
       /\ Goto(r, "lookup")
       /\ UNCHANGED <<copies, todo, at, seen>>
    \/ state[r] = "transformation_error" /\ End(r, 1)

(* A commit that fails is tried again, MaxTries times in all.                *)
CreateDelivery(r) ==
    /\ pc[r] = "create"
    /\ \/ /\ Creatable(r)
          /\ DeliveryCreated(r)
          /\ Goto(r, "next")
          /\ tries' = [tries EXCEPT ![r] = 0]
          /\ UNCHANGED <<copies, todo, at, state, seen, budget>>
       \/ /\ \/ ~Creatable(r) /\ UNCHANGED budget
             \/ Creatable(r) /\ Fault
          /\ \/ /\ tries[r] + 1 < MaxTries
                /\ tries' = [tries EXCEPT ![r] = @ + 1]
                /\ Goto(r, "lookup")
                /\ UNCHANGED <<copies, todo, at, state, seen>>
             \/ tries[r] + 1 >= MaxTries /\ Thrown(r)
          /\ UNCHANGED record
    /\ UNCHANGED <<config, outdated>>

(* Any other error of the store: a read that fails, or a commit whose answer *)
(* is lost, before or after it took effect.                                  *)
StoreError(r) ==
    /\ pc[r] \in {"lookup", "read", "create"}
    /\ Fault
    /\ Thrown(r)
    /\ \/ UNCHANGED record
       \/ pc[r] = "create" /\ Creatable(r) /\ DeliveryCreated(r)
    /\ UNCHANGED <<config, outdated>>

CompleteRead(r) ==
    /\ \/ pc[r] = "next" /\ todo[r] = {}
       \/ pc[r] = "complete"
    /\ \/ event.routed /\ End(r, 0)
       \/ /\ ~event.routed
          /\ Goto(r, "completeCommit")
          /\ seen' = [seen EXCEPT ![r] = event]
          /\ UNCHANGED <<copies, todo, at, state, tries>>
    /\ UNCHANGED <<record, config, outdated, budget>>

CompleteRouting(r) ==
    /\ pc[r] = "completeCommit"
    /\ \/ /\ Current(seen[r])
          /\ event' = WithRoutingComplete(seen[r])
          /\ Move(seen[r], event')
          /\ End(r, 0)
          /\ UNCHANGED <<deliveries, budget>>
       \/ /\ \/ ~Current(seen[r]) /\ UNCHANGED budget
             \/ Current(seen[r]) /\ Fault
          /\ \/ /\ tries[r] + 1 < MaxTries
                /\ tries' = [tries EXCEPT ![r] = @ + 1]
                /\ Goto(r, "complete")
                /\ UNCHANGED <<copies, todo, at, state, seen>>
             \/ tries[r] + 1 >= MaxTries /\ End(r, 1)
          /\ UNCHANGED record
    /\ UNCHANGED <<config, outdated>>

(* The process dies, and the queue hands the message out again.              *)
RouterCrash(r) ==
    /\ pc[r] # "idle"
    /\ Fault
    /\ End(r, 1)
    /\ UNCHANGED <<record, config, outdated>>

(* The queue or the outbox publisher duplicates the message.                 *)
Duplicate ==
    /\ Fault
    /\ copies' = copies + 1
    /\ UNCHANGED <<record, config, router, outdated>>

-------------------------------------------------------------------------------
(* The control plane adds or disables a subscription, or disables or enables *)
(* a destination or its partner.                                             *)
Toggle(set, d) == IF d \in set THEN set \ {d} ELSE set \cup {d}

Reconfigure(d) ==
    /\ changes < MaxChanges
    /\ changes' = changes + 1
    /\ \/ subscribed' = Toggle(subscribed, d) /\ UNCHANGED enabled
       \/ enabled' = Toggle(enabled, d) /\ UNCHANGED subscribed
    /\ steady' = steady \cap subscribed' \cap enabled'
    /\ UNCHANGED <<record, copies, router, outdated, faults>>

-------------------------------------------------------------------------------
(* finalizeAttempt of a delivery's last attempt.                             *)

(* Mutant: an attempt may end its delivery in a state of no counter.         *)
BugEnding == {"succeeded", "failed_terminal", "dead_lettered", "cancelled"}

Ending == {"succeeded", "failed_terminal", "dead_lettered"}

FinalizeRead(d) ==
    /\ deliveries[d] = "scheduled"
    /\ outdated[d] = NoEvent
    /\ outdated' = [outdated EXCEPT ![d] = event]
    /\ UNCHANGED <<record, config, copies, router, budget>>

(* Unlike a router's commit, this one leaves the index as it is.             *)
Finalize(d) ==
    /\ outdated[d] # NoEvent
    /\ \/ /\ Current(outdated[d])
          /\ \E s \in Ending :
                /\ deliveries' = [deliveries EXCEPT ![d] = s]
                /\ event' = WithOutcome(outdated[d], s)
          /\ UNCHANGED <<index, budget>>
       \/ ~Current(outdated[d]) /\ UNCHANGED <<record, budget>>
       \/ Current(outdated[d]) /\ Fault /\ UNCHANGED record
    /\ outdated' = [outdated EXCEPT ![d] = NoEvent]
    /\ UNCHANGED <<config, copies, router>>

-------------------------------------------------------------------------------
Route(r) ==
    \/ StartRouting(r) \/ NextDestination(r)
    \/ Lookup(r) \/ ReadEvent(r) \/ CreateDelivery(r)
    \/ CompleteRead(r) \/ CompleteRouting(r)

Deliver(d) == FinalizeRead(d) \/ Finalize(d)

Next ==
    \/ \E r \in Routers : Route(r) \/ StoreError(r) \/ RouterCrash(r)
    \/ \E d \in Destinations : Deliver(d) \/ Reconfigure(d)
    \/ Duplicate

Spec == Init /\ [][Next]_vars

(* Routers and delivery workers poll their queues and go on with what they   *)
(* began; a delivery's attempts come to an end (DeliveryEnds).               *)
Fairness ==
    /\ \A r \in Routers : WF_vars(Route(r))
    /\ \A d \in Destinations : WF_vars(Deliver(d))

FairSpec == Spec /\ Fairness
===============================================================================
