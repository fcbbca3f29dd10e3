------------------------------ MODULE EventProofs ------------------------------
(***************************************************************************)
(* The safety of EventOutcome for any routers, destinations and bounds.    *)
(***************************************************************************)
EXTENDS EventProperties, FiniteSetTheorems, TLAPS

-------------------------------------------------------------------------------
(* The inductive invariant.                                                  *)

(* A copy of the event is of an older version, or equals the event.          *)
Fresh(e) == e.version <= event.version /\ (Current(e) => e = event)
CopiesInv ==
    /\ event.version >= 1
    /\ \A r \in Routers : Fresh(seen[r])
    /\ \A d \in Destinations :
        /\ Fresh(outdated[d])
        /\ outdated[d] # NoEvent => deliveries[d] = "scheduled"

Derived == event.status = DeriveEventStatus(event)

(* What a router still has to do covers what it has no delivery for.         *)
AtHand == {"lookup", "read", "create"}
Finished == {"complete", "completeCommit"}
Pending(r) ==
    todo[r] \cup (IF pc[r] \in AtHand THEN {at[r]} ELSE {})
RouterOK(r) ==
    /\ pc[r] \in AtHand => at[r] \in Destinations
    /\ pc[r] \in Finished => todo[r] = {}
    /\ pc[r] = "completeCommit" => ~seen[r].routed
    /\ pc[r] # "idle" =>
          \A d \in steady : deliveries[d] # "absent" \/ d \in Pending(r)
    /\ pc[r] # "idle" /\ changes = 0 => Pending(r) \subseteq steady
RouterInv == \A r \in Routers : RouterOK(r)

ConfigInv ==
    /\ steady \subseteq subscribed \cap enabled
    /\ changes = 0 => subscribed = steady

StoreInv == CountersMatchDeliveries /\ Derived /\ RoutedCoversDestinations
Inductive == TypeOK /\ CopiesInv /\ RouterInv /\ ConfigInv /\ StoreInv

-------------------------------------------------------------------------------
(* The event's record.                                                       *)

(* The fields of an event.                                                   *)
LEMMA EventFields ==
    ASSUME NEW e \in Event
    PROVE  /\ e.routed \in BOOLEAN /\ e.status \in EventStatus
           /\ e.total \in Nat /\ e.terminal \in Nat /\ e.successful \in Nat
           /\ e.failed \in Nat /\ e.deadLettered \in Nat /\ e.version \in Nat
    BY DEF Event

(* A status is derived for every event.                                      *)
LEMMA StatusType ==
    ASSUME NEW e \in Event
    PROVE  DeriveEventStatus(e) \in EventStatus
<1>1. e.routed \in BOOLEAN /\ e.total \in Nat /\ e.terminal \in Nat /\ e.successful \in Nat
    BY EventFields
<1> QED
    BY <1>1 DEF DeriveEventStatus, EventStatus

(* Storing an event derives its status and advances its version.             *)
LEMMA StoredFields ==
    ASSUME NEW e \in Event
    PROVE  /\ Stored(e) \in Event
           /\ Stored(e).version = e.version + 1
           /\ Stored(e).status = DeriveEventStatus(Stored(e))
           /\ Stored(e).routed = e.routed /\ Stored(e).total = e.total
           /\ Stored(e).terminal = e.terminal /\ Stored(e).successful = e.successful
           /\ Stored(e).failed = e.failed /\ Stored(e).deadLettered = e.deadLettered
<1> DEFINE s == DeriveEventStatus(e)
<1>1. s \in EventStatus
    BY StatusType
<1>2. Stored(e) = [e EXCEPT !.status = s, !.version = e.version + 1]
    BY DEF Stored
<1> HIDE DEF s
<1>5. e.version + 1 \in Nat /\ e \in Event
    BY EventFields
<1>6. [e EXCEPT !.status = s, !.version = e.version + 1] \in Event
    BY <1>1, <1>5 DEF Event
<1>3. /\ Stored(e) \in Event
      /\ Stored(e).version = e.version + 1
      /\ Stored(e).status = s
      /\ Stored(e).routed = e.routed /\ Stored(e).total = e.total
      /\ Stored(e).terminal = e.terminal /\ Stored(e).successful = e.successful
      /\ Stored(e).failed = e.failed /\ Stored(e).deadLettered = e.deadLettered
    BY <1>2, <1>5, <1>6 DEF Event
<1>4. DeriveEventStatus(Stored(e)) = s
    BY <1>3 DEF DeriveEventStatus, s
<1> QED
    BY <1>3, <1>4

(* Counting a delivery in a state adds to the state's counters.              *)
LEMMA SettledFields ==
    ASSUME NEW e \in Event, NEW s
    PROVE  /\ Settled(e, s) \in Event
           /\ Settled(e, s).version = e.version /\ Settled(e, s).routed = e.routed
           /\ Settled(e, s).total = e.total
           /\ Settled(e, s).terminal = e.terminal + One(s \in TerminalState)
           /\ Settled(e, s).successful = e.successful + One(s = "succeeded")
           /\ Settled(e, s).failed = e.failed + One(s \in FailedState)
           /\ Settled(e, s).deadLettered = e.deadLettered + One(s = "dead_lettered")
<1> DEFINE t == One(s \in TerminalState)
           u == One(s = "succeeded")
           f == One(s \in FailedState)
           l == One(s = "dead_lettered")
<1>1. t \in Nat /\ u \in Nat /\ f \in Nat /\ l \in Nat
    BY DEF One
<1>2. Settled(e, s) =
        [e EXCEPT !.terminal = e.terminal + t, !.successful = e.successful + u,
                  !.failed = e.failed + f, !.deadLettered = e.deadLettered + l]
    BY DEF Settled
<1> HIDE DEF t, u, f, l
<1> DEFINE a == e.terminal + t
           b == e.successful + u
           c == e.failed + f
           g == e.deadLettered + l
<1>4. a \in Nat /\ b \in Nat /\ c \in Nat /\ g \in Nat
    BY <1>1, EventFields
<1>5. Settled(e, s) =
        [e EXCEPT !.terminal = a, !.successful = b, !.failed = c, !.deadLettered = g]
    BY <1>2
<1> HIDE DEF a, b, c, g
<1>6. Settled(e, s) \in Event
    BY <1>4, <1>5 DEF Event
<1>3. /\ Settled(e, s) \in Event
      /\ Settled(e, s).version = e.version /\ Settled(e, s).routed = e.routed
      /\ Settled(e, s).total = e.total
      /\ Settled(e, s).terminal = a /\ Settled(e, s).successful = b
      /\ Settled(e, s).failed = c /\ Settled(e, s).deadLettered = g
    BY <1>5, <1>6 DEF Event
<1> QED
    BY <1>3 DEF t, u, f, l, a, b, c, g

-------------------------------------------------------------------------------
(* Counting deliveries.                                                      *)

(* A number of deliveries is a natural.                                      *)
LEMMA NumberType ==
    ASSUME NEW states
    PROVE  /\ IsFiniteSet({d \in Destinations : deliveries[d] \in states})
           /\ Number(states) \in Nat
<1> DEFINE S == {d \in Destinations : deliveries[d] \in states}
<1>1. IsFiniteSet(S)
    BY DestinationsAssumption, FS_Subset, S \in SUBSET Destinations
<1> QED
    BY <1>1, FS_CardinalityType DEF Number

(* A delivery that changes its state leaves one number for another.          *)
LEMMA NumberMoves ==
    ASSUME TypeOK, NEW d \in Destinations, NEW s,
           deliveries' = [deliveries EXCEPT ![d] = s], NEW states
    PROVE  Number(states)' =
             IF deliveries[d] \in states
             THEN IF s \in states THEN Number(states) ELSE Number(states) - 1
             ELSE IF s \in states THEN Number(states) + 1 ELSE Number(states)
<1> DEFINE S == {x \in Destinations : deliveries[x] \in states}
           T == {x \in Destinations : deliveries'[x] \in states}
<1>1. IsFiniteSet(S)
    BY NumberType
<1>2. deliveries'[d] = s /\ \A x \in Destinations \ {d} : deliveries'[x] = deliveries[x]
    BY DEF TypeOK
<1>3. T = IF s \in states THEN S \cup {d} ELSE S \ {d}
    BY <1>2
<1>4. d \in S <=> deliveries[d] \in states
    OBVIOUS
<1>5. Number(states) = Cardinality(S) /\ Number(states)' = Cardinality(T)
    BY DEF Number
<1> HIDE DEF S, T
<1>6. /\ Cardinality(S \cup {d}) = IF d \in S THEN Cardinality(S) ELSE Cardinality(S) + 1
      /\ Cardinality(S \ {d}) = IF d \in S THEN Cardinality(S) - 1 ELSE Cardinality(S)
    BY <1>1, FS_AddElement, FS_RemoveElement
<1> QED
    BY <1>3, <1>4, <1>5, <1>6

(* A delivery that was not counted is counted if its new state is.           *)
LEMMA NumberGrows ==
    ASSUME TypeOK, NEW d \in Destinations, NEW s,
           deliveries' = [deliveries EXCEPT ![d] = s], NEW states,
           deliveries[d] \notin states
    PROVE  Number(states)' = Number(states) + One(s \in states)
<1>1. Number(states)' = IF s \in states THEN Number(states) + 1 ELSE Number(states)
    BY NumberMoves
<1>2. Number(states) \in Nat
    BY NumberType
<1> QED
    BY <1>1, <1>2 DEF One

(* One that was counted and still is leaves the number as it is.             *)
LEMMA NumberStays ==
    ASSUME TypeOK, NEW d \in Destinations, NEW s,
           deliveries' = [deliveries EXCEPT ![d] = s], NEW states,
           deliveries[d] \in states, s \in states
    PROVE  Number(states)' = Number(states)
    BY NumberMoves

-------------------------------------------------------------------------------
(* What a step can do to the event and its deliveries.                       *)

Quiet == UNCHANGED <<event, deliveries>>
Created(d, s) ==
    /\ deliveries[d] = "absent"
    /\ s \in {"scheduled", "transformation_error"}
    /\ deliveries' = [deliveries EXCEPT ![d] = s]
    /\ event' = WithDelivery(event, s)
Ended(d, s) ==
    /\ deliveries[d] = "scheduled"
    /\ s \in Ending
    /\ deliveries' = [deliveries EXCEPT ![d] = s]
    /\ event' = WithOutcome(event, s)
Completed ==
    /\ ~event.routed
    /\ \A d \in steady : deliveries[d] # "absent"
    /\ event' = WithRoutingComplete(event)
    /\ UNCHANGED deliveries

(* The event that a created delivery leads to.                               *)
LEMMA WithDeliveryFields ==
    ASSUME NEW e \in Event, NEW s
    PROVE  /\ WithDelivery(e, s) \in Event
           /\ WithDelivery(e, s).version = e.version + 1
           /\ WithDelivery(e, s).status = DeriveEventStatus(WithDelivery(e, s))
           /\ WithDelivery(e, s).routed = e.routed
           /\ WithDelivery(e, s).total = e.total + 1
           /\ WithDelivery(e, s).terminal = e.terminal + One(s \in TerminalState)
           /\ WithDelivery(e, s).successful = e.successful + One(s = "succeeded")
           /\ WithDelivery(e, s).failed = e.failed + One(s \in FailedState)
           /\ WithDelivery(e, s).deadLettered = e.deadLettered + One(s = "dead_lettered")
<1> DEFINE n == e.total + 1
           f == [e EXCEPT !.total = n]
<1>1. n \in Nat
    BY EventFields
<1>2. WithDelivery(e, s) = Stored(Settled(f, s))
    BY DEF WithDelivery
<1> HIDE DEF n
<1>3. f \in Event
    BY <1>1 DEF Event
<1>4. /\ f.version = e.version /\ f.routed = e.routed /\ f.total = n
      /\ f.terminal = e.terminal /\ f.successful = e.successful
      /\ f.failed = e.failed /\ f.deadLettered = e.deadLettered
    BY <1>1 DEF Event
<1> HIDE DEF f
<1>5. Settled(f, s) \in Event
    BY <1>3, SettledFields
<1> QED
    BY <1>2, <1>3, <1>4, <1>5, SettledFields, StoredFields DEF n

(* The event that a delivery's end leads to.                                 *)
LEMMA WithOutcomeFields ==
    ASSUME NEW e \in Event, NEW s
    PROVE  /\ WithOutcome(e, s) \in Event
           /\ WithOutcome(e, s).version = e.version + 1
           /\ WithOutcome(e, s).status = DeriveEventStatus(WithOutcome(e, s))
           /\ WithOutcome(e, s).routed = e.routed
           /\ WithOutcome(e, s).total = e.total
           /\ WithOutcome(e, s).terminal = e.terminal + One(s \in TerminalState)
           /\ WithOutcome(e, s).successful = e.successful + One(s = "succeeded")
           /\ WithOutcome(e, s).failed = e.failed + One(s \in FailedState)
           /\ WithOutcome(e, s).deadLettered = e.deadLettered + One(s = "dead_lettered")
<1>1. Settled(e, s) \in Event
    BY SettledFields
<1> QED
    BY <1>1, SettledFields, StoredFields DEF WithOutcome

(* The event that completed routing leads to.                                *)
LEMMA WithRoutingCompleteFields ==
    ASSUME NEW e \in Event
    PROVE  /\ WithRoutingComplete(e) \in Event
           /\ WithRoutingComplete(e).version = e.version + 1
           /\ WithRoutingComplete(e).status = DeriveEventStatus(WithRoutingComplete(e))
           /\ WithRoutingComplete(e).routed = TRUE
           /\ WithRoutingComplete(e).total = e.total
           /\ WithRoutingComplete(e).terminal = e.terminal
           /\ WithRoutingComplete(e).successful = e.successful
           /\ WithRoutingComplete(e).failed = e.failed
           /\ WithRoutingComplete(e).deadLettered = e.deadLettered
<1> DEFINE f == [e EXCEPT !.routed = TRUE]
<1>1. f \in Event
    BY DEF Event
<1>2. /\ f.version = e.version /\ f.routed = TRUE /\ f.total = e.total
      /\ f.terminal = e.terminal /\ f.successful = e.successful
      /\ f.failed = e.failed /\ f.deadLettered = e.deadLettered
    BY DEF Event
<1>3. WithRoutingComplete(e) = Stored(f)
    BY DEF WithRoutingComplete
<1> HIDE DEF f
<1> QED
    BY <1>1, <1>2, <1>3, StoredFields

(* Creating a delivery keeps the counters, the status and the coverage.      *)
LEMMA CreatedKeepsStore ==
    ASSUME TypeOK, StoreInv, NEW d \in Destinations, NEW s, Created(d, s),
           steady' = steady
    PROVE  /\ StoreInv'
           /\ event' \in Event /\ event'.version = event.version + 1
           /\ event'.routed = event.routed
           /\ deliveries' \in [Destinations -> DeliveryState]
<1>1. event \in Event /\ event' = WithDelivery(event, s)
    BY DEF TypeOK, Created
<1>2. /\ event' \in Event
      /\ event'.version = event.version + 1
      /\ event'.status = DeriveEventStatus(event')
      /\ event'.routed = event.routed
      /\ event'.total = event.total + 1
      /\ event'.terminal = event.terminal + One(s \in TerminalState)
      /\ event'.successful = event.successful + One(s = "succeeded")
      /\ event'.failed = event.failed + One(s \in FailedState)
      /\ event'.deadLettered = event.deadLettered + One(s = "dead_lettered")
    BY <1>1, WithDeliveryFields
<1>3. deliveries[d] = "absent" /\ deliveries' = [deliveries EXCEPT ![d] = s]
    BY DEF Created
<1>4. s \in DeliveryState \ {"absent"} /\ s # "succeeded" /\ s # "dead_lettered"
      /\ (s \in TerminalState <=> s \in FailedState)
    BY DEF Created, DeliveryState, TerminalState, FailedState
<1>5. CountersMatchDeliveries'
    <2>1. /\ deliveries[d] \notin TerminalState /\ deliveries[d] \notin FailedState
          /\ deliveries[d] \notin {"succeeded"} /\ deliveries[d] \notin {"dead_lettered"}
        BY <1>3 DEF TerminalState, FailedState
    <2>2. event'.total = Number(DeliveryState \ {"absent"})'
        <3>1. Number(DeliveryState \ {"absent"})' = Number(DeliveryState \ {"absent"}) + 1
            BY <1>3, <1>4, NumberMoves
        <3> QED
            BY <1>2, <3>1 DEF StoreInv, CountersMatchDeliveries
    <2>3. event'.terminal = Number(TerminalState)'
        BY <1>2, <1>3, <2>1, NumberGrows DEF StoreInv, CountersMatchDeliveries
    <2>4. event'.successful = Number({"succeeded"})'
        <3>1. Number({"succeeded"})' = Number({"succeeded"}) + One(s \in {"succeeded"})
            BY <1>3, <2>1, NumberGrows
        <3> QED
            BY <1>2, <3>1 DEF StoreInv, CountersMatchDeliveries, One
    <2>5. event'.failed = Number(FailedState)'
        BY <1>2, <1>3, <2>1, NumberGrows DEF StoreInv, CountersMatchDeliveries
    <2>6. event'.deadLettered = Number({"dead_lettered"})'
        <3>1. Number({"dead_lettered"})' =
                Number({"dead_lettered"}) + One(s \in {"dead_lettered"})
            BY <1>3, <2>1, NumberGrows
        <3> QED
            BY <1>2, <3>1 DEF StoreInv, CountersMatchDeliveries, One
    <2> QED
        BY <2>2, <2>3, <2>4, <2>5, <2>6 DEF CountersMatchDeliveries
<1>6. RoutedCoversDestinations'
    BY <1>2, <1>3, <1>4 DEF StoreInv, RoutedCoversDestinations, TypeOK
<1>7. deliveries' \in [Destinations -> DeliveryState]
    BY <1>3, <1>4 DEF TypeOK
<1> QED
    BY <1>2, <1>5, <1>6, <1>7 DEF StoreInv, Derived

(* Ending a delivery keeps them too.                                         *)
LEMMA EndedKeepsStore ==
    ASSUME TypeOK, StoreInv, NEW d \in Destinations, NEW s, Ended(d, s),
           steady' = steady
    PROVE  /\ StoreInv'
           /\ event' \in Event /\ event'.version = event.version + 1
           /\ event'.routed = event.routed
           /\ deliveries' \in [Destinations -> DeliveryState]
<1>1. event \in Event /\ event' = WithOutcome(event, s)
    BY DEF TypeOK, Ended
<1>2. /\ event' \in Event
      /\ event'.version = event.version + 1
      /\ event'.status = DeriveEventStatus(event')
      /\ event'.routed = event.routed
      /\ event'.total = event.total
      /\ event'.terminal = event.terminal + One(s \in TerminalState)
      /\ event'.successful = event.successful + One(s = "succeeded")
      /\ event'.failed = event.failed + One(s \in FailedState)
      /\ event'.deadLettered = event.deadLettered + One(s = "dead_lettered")
    BY <1>1, WithOutcomeFields
<1>3. deliveries[d] = "scheduled" /\ deliveries' = [deliveries EXCEPT ![d] = s]
    BY DEF Ended
<1>4. s \in DeliveryState \ {"absent"} /\ s \in TerminalState
    BY DEF Ended, Ending, DeliveryState, TerminalState, FailedState
<1>5. "scheduled" \in DeliveryState \ {"absent"}
    BY DEF DeliveryState
<1>6. CountersMatchDeliveries'
    <2>1. /\ deliveries[d] \notin TerminalState /\ deliveries[d] \notin FailedState
          /\ deliveries[d] \notin {"succeeded"} /\ deliveries[d] \notin {"dead_lettered"}
        BY <1>3 DEF TerminalState, FailedState
    <2>2. event'.total = Number(DeliveryState \ {"absent"})'
        <3>1. deliveries[d] \in DeliveryState \ {"absent"}
            BY <1>3, <1>5
        <3>2. Number(DeliveryState \ {"absent"})' = Number(DeliveryState \ {"absent"})
            BY <1>3, <1>4, <3>1, NumberStays
        <3> QED
            BY <1>2, <3>2 DEF StoreInv, CountersMatchDeliveries
    <2>3. event'.terminal = Number(TerminalState)'
        BY <1>2, <1>3, <2>1, NumberGrows DEF StoreInv, CountersMatchDeliveries
    <2>4. event'.successful = Number({"succeeded"})'
        <3>1. Number({"succeeded"})' = Number({"succeeded"}) + One(s \in {"succeeded"})
            BY <1>3, <2>1, NumberGrows
        <3> QED
            BY <1>2, <3>1 DEF StoreInv, CountersMatchDeliveries, One
    <2>5. event'.failed = Number(FailedState)'
        BY <1>2, <1>3, <2>1, NumberGrows DEF StoreInv, CountersMatchDeliveries
    <2>6. event'.deadLettered = Number({"dead_lettered"})'
        <3>1. Number({"dead_lettered"})' =
                Number({"dead_lettered"}) + One(s \in {"dead_lettered"})
            BY <1>3, <2>1, NumberGrows
        <3> QED
            BY <1>2, <3>1 DEF StoreInv, CountersMatchDeliveries, One
    <2> QED
        BY <2>2, <2>3, <2>4, <2>5, <2>6 DEF CountersMatchDeliveries
<1>7. RoutedCoversDestinations'
    BY <1>2, <1>3, <1>4 DEF StoreInv, RoutedCoversDestinations, TypeOK
<1>8. deliveries' \in [Destinations -> DeliveryState]
    BY <1>3, <1>4 DEF TypeOK
<1> QED
    BY <1>2, <1>6, <1>7, <1>8 DEF StoreInv, Derived

(* So does completing the routing, when nothing steady is missing.           *)
LEMMA CompletedKeepsStore ==
    ASSUME TypeOK, StoreInv, Completed, steady' = steady
    PROVE  /\ StoreInv'
           /\ event' \in Event /\ event'.version = event.version + 1
           /\ event'.routed = TRUE
<1>1. /\ event' \in Event
      /\ event'.version = event.version + 1
      /\ event'.status = DeriveEventStatus(event')
      /\ event'.routed = TRUE
      /\ event'.total = event.total /\ event'.terminal = event.terminal
      /\ event'.successful = event.successful /\ event'.failed = event.failed
      /\ event'.deadLettered = event.deadLettered
    BY WithRoutingCompleteFields DEF TypeOK, Completed
<1>2. deliveries' = deliveries
    BY DEF Completed
<1>3. CountersMatchDeliveries'
    BY <1>1, <1>2 DEF StoreInv, CountersMatchDeliveries, Number
<1>4. RoutedCoversDestinations'
    BY <1>2 DEF RoutedCoversDestinations, Completed
<1> QED
    BY <1>1, <1>3, <1>4 DEF StoreInv, Derived

-------------------------------------------------------------------------------
(* What was read of the event.                                               *)

(* A write advances the version, so that every older copy stays outdated.    *)
LEMMA CopyKept ==
    ASSUME TypeOK, CopiesInv, NEW e \in Event, Fresh(e) \/ e = NoEvent \/ e = event,
           event' = event \/ event'.version = event.version + 1
    PROVE  e.version <= event'.version /\ (e.version = event'.version => e = event')
<1>1. event.version \in Nat /\ e.version \in Nat /\ event.version >= 1
    BY EventFields DEF TypeOK, CopiesInv
<1>2. NoEvent.version = 0
    BY DEF NoEvent, AcceptedEvent
<1> QED
    BY <1>1, <1>2 DEF Fresh, Current

(* A router that a step leaves alone.                                        *)
LEMMA RouterKept ==
    ASSUME RouterInv, NEW q \in Routers,
           pc'[q] = pc[q], todo'[q] = todo[q], at'[q] = at[q], seen'[q] = seen[q],
           steady' = steady, changes' = changes,
           \A d \in steady : deliveries[d] # "absent" => deliveries'[d] # "absent"
    PROVE  RouterOK(q)'
<1>1. RouterOK(q)
    BY DEF RouterInv
<1>2. Pending(q)' = Pending(q)
    BY DEF Pending
<1> QED
    BY <1>1, <1>2 DEF RouterOK

(* What a router's step leaves alone.                                        *)
RouterStepped(r) ==
    /\ UNCHANGED <<subscribed, enabled, steady, outdated, changes>>
    /\ \A q \in Routers \ {r} :
          pc'[q] = pc[q] /\ todo'[q] = todo[q] /\ at'[q] = at[q] /\ seen'[q] = seen[q]

(* A step of a router keeps the invariant if its own part of it holds after. *)
LEMMA RouterStepKeeps ==
    ASSUME Inductive, NEW r \in Routers, TypeOK', RouterStepped(r),
           Quiet \/ Completed \/ \E d \in Destinations : \E s : Created(d, s),
           seen'[r] = seen[r] \/ seen'[r] = event \/ seen'[r] = NoEvent,
           RouterOK(r)'
    PROVE  Inductive'
<1>1. /\ StoreInv'
      /\ event' = event \/ event'.version = event.version + 1
      /\ \A d \in Destinations : deliveries[d] # "absent" => deliveries'[d] = deliveries[d]
    <2>1. CASE Quiet
        <3>1. StoreInv'
            BY <2>1 DEF Inductive, StoreInv, Quiet, RouterStepped, CountersMatchDeliveries,
               Number, Derived, RoutedCoversDestinations
        <3> QED
            BY <2>1, <3>1 DEF Quiet
    <2>2. CASE Completed
        BY <2>2, CompletedKeepsStore DEF Inductive, RouterStepped, Completed
    <2>3. CASE \E d \in Destinations : \E s : Created(d, s)
        <3>1. PICK d \in Destinations : \E s : Created(d, s)
            BY <2>3
        <3>2. PICK s : Created(d, s)
            BY <3>1
        <3>3. StoreInv' /\ event'.version = event.version + 1
            BY <3>2, CreatedKeepsStore DEF Inductive, RouterStepped
        <3> QED
            BY <3>2, <3>3 DEF Created, Inductive, TypeOK
    <2> QED
        BY <2>1, <2>2, <2>3
<1>2. CopiesInv'
    <2>1. event'.version >= 1
        BY <1>1, EventFields DEF Inductive, CopiesInv, TypeOK
    <2>2. \A q \in Routers : Fresh(seen[q])'
        <3> SUFFICES ASSUME NEW q \in Routers
                     PROVE  Fresh(seen[q])'
            OBVIOUS
        <3>1. seen'[q] \in Event
            BY DEF TypeOK
        <3>2. Fresh(seen'[q]) \/ seen'[q] = NoEvent \/ seen'[q] = event
            BY DEF RouterStepped, Inductive, CopiesInv
        <3> QED
            BY <1>1, <3>1, <3>2, CopyKept DEF Inductive, Fresh, Current
    <2>3. \A d \in Destinations : Fresh(outdated[d])'
        BY <1>1, CopyKept DEF Inductive, CopiesInv, TypeOK, RouterStepped, Fresh, Current
    <2>4. \A d \in Destinations : outdated'[d] # NoEvent => deliveries'[d] = "scheduled"
        BY <1>1 DEF Inductive, CopiesInv, RouterStepped
    <2> QED
        BY <2>1, <2>2, <2>3, <2>4 DEF CopiesInv
<1>3. RouterInv'
    <2> SUFFICES ASSUME NEW q \in Routers, q # r
                 PROVE  RouterOK(q)'
        BY DEF RouterInv
    <2>1. steady \subseteq Destinations
        BY DEF Inductive, TypeOK
    <2> QED
        BY <1>1, <2>1, RouterKept DEF Inductive, RouterStepped
<1>4. ConfigInv'
    BY DEF Inductive, ConfigInv, RouterStepped
<1> QED
    BY <1>1, <1>2, <1>3, <1>4 DEF Inductive

-------------------------------------------------------------------------------
(* The steps of a router.                                                    *)

(* The types of the variables that a router's step may change.               *)
RouterTypes ==
    /\ copies \in Nat
    /\ pc \in [Routers -> RouterStep]
    /\ todo \in [Routers -> SUBSET Destinations]
    /\ at \in [Routers -> Destinations \cup {NoDestination}]
    /\ state \in [Routers -> {"scheduled", "transformation_error"}]
    /\ tries \in [Routers -> Nat]
    /\ seen \in [Routers -> Event]
RestTypes ==
    /\ index \subseteq EventStatus
    /\ faults \in Nat

(* What the step leaves alone keeps its type.                                *)
LEMMA TypesKept ==
    ASSUME TypeOK, NEW r \in Routers, RouterTypes', RestTypes', RouterStepped(r),
           event' \in Event, deliveries' \in [Destinations -> DeliveryState]
    PROVE  TypeOK'
    BY DEF TypeOK, RouterTypes, RestTypes, RouterStepped

(* The instance of an event that was never read is an event.                 *)
LEMMA NoEventType == NoEvent \in Event
    BY DEF NoEvent, AcceptedEvent, Event, EventStatus

(* A run of route() that is over has nothing left to do.                     *)
LEMMA EndStep ==
    ASSUME TypeOK, NEW r \in Routers, NEW n \in Nat, End(r, n)
    PROVE  RouterTypes' /\ RouterOK(r)' /\ seen'[r] = NoEvent
<1>1. RouterTypes'
    BY NoEventType DEF TypeOK, RouterTypes, End, Goto, RouterStep
<1>2. pc'[r] = "idle" /\ seen'[r] = NoEvent
    BY DEF TypeOK, End, Goto
<1> QED
    BY <1>1, <1>2 DEF RouterOK, AtHand, Finished

(* A run starts with every subscription to do.                               *)
LEMMA StartRoutingKeeps ==
    ASSUME Inductive, NEW r \in Routers, StartRouting(r)
    PROVE  Inductive'
<1> USE DEF Inductive
<1>1. Quiet /\ RouterStepped(r) /\ seen' = seen
    BY DEF StartRouting, Quiet, RouterStepped, record, config, budget, TypeOK, Goto
<1>2. RouterTypes' /\ RestTypes'
    BY DEF StartRouting, TypeOK, RouterTypes, RestTypes, Goto, RouterStep, record, budget
<1>3. TypeOK'
    BY <1>1, <1>2, TypesKept DEF Quiet, TypeOK
<1>4. pc'[r] = "next" /\ todo'[r] = subscribed
    BY DEF StartRouting, TypeOK, Goto
<1>5. RouterOK(r)'
    BY <1>1, <1>4 DEF RouterOK, AtHand, Finished, Pending, ConfigInv, RouterStepped
<1> QED
    BY <1>1, <1>3, <1>5, RouterStepKeeps

(* The destination taken is at hand, or was not steady.                      *)
LEMMA NextDestinationKeeps ==
    ASSUME Inductive, NEW r \in Routers, NextDestination(r)
    PROVE  Inductive'
<1> USE DEF Inductive
<1>1. Quiet /\ RouterStepped(r) /\ seen' = seen
    BY DEF NextDestination, Quiet, RouterStepped, record, config, budget, TypeOK, Goto
<1>2. PICK d \in todo[r] :
          /\ todo' = [todo EXCEPT ![r] = @ \ {d}]
          /\ \/ d \notin enabled /\ UNCHANGED <<pc, at, state>>
             \/ /\ d \in enabled
                /\ Goto(r, "lookup")
                /\ at' = [at EXCEPT ![r] = d]
                /\ state' = [state EXCEPT ![r] =
                        IF d \in Broken THEN "transformation_error" ELSE "scheduled"]
    BY DEF NextDestination
<1>3. d \in Destinations
    BY DEF TypeOK
<1>4. RouterTypes' /\ RestTypes'
    BY <1>2, <1>3
    DEF NextDestination, TypeOK, RouterTypes, RestTypes, Goto, RouterStep, record, budget
<1>5. TypeOK'
    BY <1>1, <1>4, TypesKept DEF Quiet, TypeOK
<1>6. RouterOK(r) /\ pc[r] = "next"
    BY DEF RouterInv, NextDestination
<1>7. todo'[r] = todo[r] \ {d}
    BY <1>2 DEF TypeOK
<1>8. RouterOK(r)'
    <2>1. CASE d \notin enabled /\ UNCHANGED <<pc, at, state>>
        <3>1. d \notin steady
            BY <2>1 DEF ConfigInv
        <3> QED
            BY <1>1, <1>6, <1>7, <2>1, <3>1
            DEF RouterOK, AtHand, Finished, Pending, Quiet, RouterStepped
    <2>2. CASE Goto(r, "lookup") /\ at' = [at EXCEPT ![r] = d]
        <3>1. pc'[r] = "lookup" /\ at'[r] = d
            BY <2>2 DEF Goto, TypeOK
        <3> QED
            BY <1>1, <1>3, <1>6, <1>7, <3>1
            DEF RouterOK, AtHand, Finished, Pending, Quiet, RouterStepped
    <2> QED
        BY <1>2, <2>1, <2>2
<1> QED
    BY <1>1, <1>5, <1>8, RouterStepKeeps

(* A delivery that exists is found.                                          *)
LEMMA LookupKeeps ==
    ASSUME Inductive, NEW r \in Routers, Lookup(r)
    PROVE  Inductive'
<1> USE DEF Inductive
<1>1. Quiet /\ RouterStepped(r) /\ seen' = seen /\ todo' = todo /\ at' = at
    BY DEF Lookup, Quiet, RouterStepped, record, config, budget, TypeOK, Goto
<1>2. RouterTypes' /\ RestTypes'
    BY DEF Lookup, TypeOK, RouterTypes, RestTypes, Goto, RouterStep, record, budget
<1>3. TypeOK'
    BY <1>1, <1>2, TypesKept DEF Quiet, TypeOK
<1>4. RouterOK(r) /\ pc[r] = "lookup"
    BY DEF RouterInv, Lookup
<1>5. IF deliveries[at[r]] = "absent" THEN pc'[r] = "read" ELSE pc'[r] = "next"
    BY DEF Lookup, Goto, TypeOK
<1>6. RouterOK(r)'
    BY <1>1, <1>4, <1>5 DEF RouterOK, AtHand, Finished, Pending, Quiet, RouterStepped
<1> QED
    BY <1>1, <1>3, <1>6, RouterStepKeeps

(* A router reads the event before it commits.                               *)
LEMMA ReadEventKeeps ==
    ASSUME Inductive, NEW r \in Routers, ReadEvent(r)
    PROVE  Inductive'
<1> USE DEF Inductive
<1>1. Quiet /\ RouterStepped(r) /\ todo' = todo /\ at' = at /\ seen'[r] = event
    BY DEF ReadEvent, Quiet, RouterStepped, record, config, budget, TypeOK, Goto
<1>2. RouterTypes' /\ RestTypes'
    BY DEF ReadEvent, TypeOK, RouterTypes, RestTypes, Goto, RouterStep, record, budget
<1>3. TypeOK'
    BY <1>1, <1>2, TypesKept DEF Quiet, TypeOK
<1>4. RouterOK(r) /\ pc[r] = "read" /\ pc'[r] = "create"
    BY DEF RouterInv, ReadEvent, Goto, TypeOK
<1>5. RouterOK(r)'
    BY <1>1, <1>4 DEF RouterOK, AtHand, Finished, Pending, Quiet, RouterStepped
<1> QED
    BY <1>1, <1>3, <1>5, RouterStepKeeps

(* The delivery that a commit creates is counted in the event as it is: a    *)
(* copy of the current version is the event.                                 *)
LEMMA CreatedStep ==
    ASSUME Inductive, NEW r \in Routers, pc[r] = "create", Creatable(r),
           DeliveryCreated(r)
    PROVE  /\ at[r] \in Destinations
           /\ Created(at[r], state[r])
           /\ event' \in Event
           /\ deliveries' \in [Destinations -> DeliveryState]
           /\ index' \subseteq EventStatus
           /\ \A d \in Destinations : deliveries[d] # "absent" => deliveries'[d] # "absent"
           /\ deliveries'[at[r]] # "absent"
<1> USE DEF Inductive
<1>1. at[r] \in Destinations /\ state[r] \in {"scheduled", "transformation_error"}
    BY DEF RouterInv, RouterOK, AtHand, TypeOK
<1>2. seen[r] = event /\ deliveries[at[r]] = "absent" /\ event \in Event
    BY DEF Creatable, CopiesInv, Fresh, TypeOK
<1>3. Created(at[r], state[r])
    BY <1>1, <1>2 DEF DeliveryCreated, Created
<1>4. event' \in Event
    BY <1>2, <1>3, WithDeliveryFields DEF Created
<1>5. deliveries' \in [Destinations -> DeliveryState]
    BY <1>1, <1>3 DEF Created, TypeOK, DeliveryState, TerminalState, FailedState
<1>6. index' \subseteq EventStatus
    <2>1. event'.status \in EventStatus
        BY <1>4, EventFields
    <2>2. Move(event, event')
        BY <1>2 DEF DeliveryCreated
    <2> QED
        BY <2>1, <2>2 DEF Move, TypeOK
<1> QED
    BY <1>1, <1>3, <1>4, <1>5, <1>6 DEF Created, TypeOK

(* An error thrown out of createDelivery.                                    *)
LEMMA ThrownStep ==
    ASSUME TypeOK, NEW r \in Routers, RouterOK(r), pc[r] \in AtHand, Thrown(r),
           steady' = steady, changes' = changes, steady \subseteq Destinations,
           \A d \in Destinations : deliveries[d] # "absent" => deliveries'[d] # "absent"
    PROVE  /\ RouterTypes'
           /\ RouterOK(r)'
           /\ seen'[r] = seen[r] \/ seen'[r] = NoEvent
           /\ \A q \in Routers \ {r} :
                pc'[q] = pc[q] /\ todo'[q] = todo[q] /\ at'[q] = at[q] /\ seen'[q] = seen[q]
<1>1. CASE End(r, 1)
    <2>1. \A q \in Routers \ {r} :
            pc'[q] = pc[q] /\ todo'[q] = todo[q] /\ at'[q] = at[q] /\ seen'[q] = seen[q]
        BY <1>1 DEF End, Goto, TypeOK
    <2> QED
        BY <1>1, <2>1, EndStep
<1>2. CASE /\ state' = [state EXCEPT ![r] = "transformation_error"]
           /\ tries' = [tries EXCEPT ![r] = 0]
           /\ Goto(r, "lookup")
           /\ UNCHANGED <<copies, todo, at, seen>>
    <2>1. RouterTypes'
        BY <1>2 DEF TypeOK, RouterTypes, Goto, RouterStep
    <2>2. pc'[r] = "lookup" /\ \A q \in Routers \ {r} : pc'[q] = pc[q]
        BY <1>2 DEF TypeOK, Goto
    <2>3. RouterOK(r)'
        BY <1>2, <2>2 DEF RouterOK, AtHand, Finished, Pending
    <2> QED
        BY <1>2, <2>1, <2>2, <2>3
<1> QED
    BY <1>1, <1>2 DEF Thrown

(* The commit of a delivery: it is created, tried again, or given up.        *)
LEMMA CreateDeliveryKeeps ==
    ASSUME Inductive, NEW r \in Routers, CreateDelivery(r)
    PROVE  Inductive'
<1> USE DEF Inductive
<1>1. /\ UNCHANGED <<subscribed, enabled, steady, outdated, changes>>
      /\ faults' \in Nat /\ pc[r] = "create" /\ RouterOK(r)
      /\ steady \subseteq Destinations
    BY DEF CreateDelivery, config, budget, Fault, TypeOK, RouterInv
<1>2. CASE /\ Creatable(r)
           /\ DeliveryCreated(r)
           /\ Goto(r, "next")
           /\ tries' = [tries EXCEPT ![r] = 0]
           /\ UNCHANGED <<copies, todo, at, state, seen, budget>>
    <2>1. /\ at[r] \in Destinations
          /\ Created(at[r], state[r])
          /\ event' \in Event /\ deliveries' \in [Destinations -> DeliveryState]
          /\ index' \subseteq EventStatus
          /\ \A d \in Destinations : deliveries[d] # "absent" => deliveries'[d] # "absent"
          /\ deliveries'[at[r]] # "absent"
        BY <1>1, <1>2, CreatedStep
    <2>2. RouterTypes'
        BY <1>2 DEF TypeOK, RouterTypes, Goto, RouterStep
    <2>3. RouterStepped(r) /\ pc'[r] = "next"
        BY <1>1, <1>2 DEF RouterStepped, Goto, TypeOK
    <2>4. TypeOK'
        BY <1>1, <2>1, <2>2, <2>3, TypesKept DEF RestTypes
    <2>5. RouterOK(r)'
        BY <1>1, <1>2, <2>1, <2>3 DEF RouterOK, AtHand, Finished, Pending
    <2> QED
        BY <1>2, <2>1, <2>3, <2>4, <2>5, RouterStepKeeps
<1>3. CASE /\ tries' = [tries EXCEPT ![r] = @ + 1]
           /\ Goto(r, "lookup")
           /\ UNCHANGED <<copies, todo, at, state, seen>>
           /\ UNCHANGED record
    <2>1. Quiet /\ index' = index
        BY <1>3 DEF Quiet, record
    <2>2. RouterTypes'
        BY <1>3 DEF TypeOK, RouterTypes, Goto, RouterStep
    <2>3. RouterStepped(r) /\ pc'[r] = "lookup"
        BY <1>1, <1>3 DEF RouterStepped, Goto, TypeOK
    <2>4. TypeOK'
        BY <1>1, <2>1, <2>2, <2>3, TypesKept DEF RestTypes, TypeOK, Quiet
    <2>5. RouterOK(r)'
        BY <1>1, <1>3, <2>1, <2>3 DEF RouterOK, AtHand, Finished, Pending, Quiet
    <2> QED
        BY <1>3, <2>1, <2>3, <2>4, <2>5, RouterStepKeeps
<1>4. CASE Thrown(r) /\ UNCHANGED record
    <2>1. Quiet /\ index' = index
        BY <1>4 DEF Quiet, record
    <2>2. /\ RouterTypes' /\ RouterOK(r)'
          /\ seen'[r] = seen[r] \/ seen'[r] = NoEvent
          /\ RouterStepped(r)
        BY <1>1, <1>4, <2>1, ThrownStep DEF Quiet, AtHand, RouterStepped
    <2>3. TypeOK'
        BY <1>1, <2>1, <2>2, TypesKept DEF RestTypes, TypeOK, Quiet
    <2> QED
        BY <2>1, <2>2, <2>3, RouterStepKeeps
<1> QED
    BY <1>2, <1>3, <1>4 DEF CreateDelivery

(* Any other error of the store, with or without the commit.                 *)
LEMMA StoreErrorKeeps ==
    ASSUME Inductive, NEW r \in Routers, StoreError(r)
    PROVE  Inductive'
<1> USE DEF Inductive
<1>1. /\ UNCHANGED <<subscribed, enabled, steady, outdated, changes>>
      /\ faults' \in Nat /\ pc[r] \in AtHand /\ RouterOK(r) /\ Thrown(r)
      /\ steady \subseteq Destinations
    BY DEF StoreError, config, Fault, TypeOK, RouterInv, AtHand
<1>2. /\ event' \in Event /\ deliveries' \in [Destinations -> DeliveryState]
      /\ index' \subseteq EventStatus
      /\ \A d \in Destinations : deliveries[d] # "absent" => deliveries'[d] # "absent"
      /\ Quiet \/ \E d \in Destinations : \E s : Created(d, s)
    <2>1. CASE UNCHANGED record
        BY <2>1 DEF record, Quiet, TypeOK
    <2>2. CASE pc[r] = "create" /\ Creatable(r) /\ DeliveryCreated(r)
        BY <2>2, CreatedStep
    <2> QED
        BY <2>1, <2>2 DEF StoreError
<1>3. /\ RouterTypes' /\ RouterOK(r)'
      /\ seen'[r] = seen[r] \/ seen'[r] = NoEvent
      /\ RouterStepped(r)
    BY <1>1, <1>2, ThrownStep DEF RouterStepped
<1>4. TypeOK'
    BY <1>1, <1>2, <1>3, TypesKept DEF RestTypes
<1> QED
    BY <1>2, <1>3, <1>4, RouterStepKeeps

(* The end of a run, without a write.                                        *)
LEMMA EndKeeps ==
    ASSUME Inductive, NEW r \in Routers, NEW n \in Nat, End(r, n),
           UNCHANGED <<event, deliveries, index, subscribed, enabled, steady,
                       outdated, changes>>,
           faults' \in Nat
    PROVE  Inductive'
<1> USE DEF Inductive
<1>1. RouterTypes' /\ RouterOK(r)' /\ seen'[r] = NoEvent
    BY EndStep
<1>2. RouterStepped(r) /\ Quiet
    BY DEF RouterStepped, Quiet, End, Goto, TypeOK
<1>3. TypeOK'
    BY <1>1, <1>2, TypesKept DEF RestTypes, TypeOK
<1> QED
    BY <1>1, <1>2, <1>3, RouterStepKeeps

(* Routing is to be completed: nothing is left to do.                        *)
LEMMA CompleteReadKeeps ==
    ASSUME Inductive, NEW r \in Routers, CompleteRead(r)
    PROVE  Inductive'
<1> USE DEF Inductive
<1>1. UNCHANGED <<event, deliveries, index, subscribed, enabled, steady, outdated,
                  changes, faults>>
    BY DEF CompleteRead, record, config, budget
<1>2. CASE End(r, 0)
    BY <1>1, <1>2, EndKeeps DEF TypeOK
<1>3. CASE /\ ~event.routed
           /\ Goto(r, "completeCommit")
           /\ seen' = [seen EXCEPT ![r] = event]
           /\ UNCHANGED <<copies, todo, at, state, tries>>
    <2>1. Quiet /\ RouterStepped(r)
        BY <1>1, <1>3 DEF Quiet, RouterStepped, Goto, TypeOK
    <2>2. RouterTypes'
        BY <1>3 DEF TypeOK, RouterTypes, Goto, RouterStep
    <2>3. TypeOK'
        BY <1>1, <2>1, <2>2, TypesKept DEF RestTypes, TypeOK
    <2>4. pc'[r] = "completeCommit" /\ seen'[r] = event
        BY <1>3 DEF Goto, TypeOK
    <2>5. RouterOK(r) /\ todo[r] = {} /\ pc[r] # "idle" /\ pc[r] \notin AtHand
        BY DEF RouterInv, RouterOK, CompleteRead, Finished, AtHand
    <2>6. RouterOK(r)'
        BY <1>1, <1>3, <2>4, <2>5 DEF RouterOK, AtHand, Finished, Pending
    <2> QED
        BY <2>1, <2>3, <2>4, <2>6, RouterStepKeeps
<1> QED
    BY <1>2, <1>3 DEF CompleteRead

(* A run that completes the routing has found or made every steady delivery. *)
LEMMA CompletedStep ==
    ASSUME Inductive, NEW r \in Routers, pc[r] = "completeCommit", Current(seen[r]),
           event' = WithRoutingComplete(seen[r]), Move(seen[r], event'),
           UNCHANGED deliveries
    PROVE  Completed /\ event' \in Event /\ index' \subseteq EventStatus
<1> USE DEF Inductive
<1>1. seen[r] = event /\ event \in Event
    BY DEF CopiesInv, Fresh, TypeOK
<1>2. RouterOK(r) /\ todo[r] = {}
    BY DEF RouterInv, RouterOK, Finished
<1>3. Completed
    BY <1>1, <1>2 DEF RouterOK, Pending, AtHand, Completed
<1>4. event' \in Event
    BY <1>1, WithRoutingCompleteFields
<1>5. event'.status \in EventStatus
    BY <1>4, EventFields
<1> QED
    BY <1>3, <1>4, <1>5 DEF Move, TypeOK

(* The commit that completes the routing, or its failure.                    *)
LEMMA CompleteRoutingKeeps ==
    ASSUME Inductive, NEW r \in Routers, CompleteRouting(r)
    PROVE  Inductive'
<1> USE DEF Inductive
<1>1. /\ UNCHANGED <<subscribed, enabled, steady, outdated, changes>>
      /\ faults' \in Nat /\ pc[r] = "completeCommit" /\ RouterOK(r)
    BY DEF CompleteRouting, config, budget, Fault, TypeOK, RouterInv
<1>2. CASE /\ Current(seen[r])
           /\ event' = WithRoutingComplete(seen[r])
           /\ Move(seen[r], event')
           /\ End(r, 0)
           /\ UNCHANGED <<deliveries, budget>>
    <2>1. Completed /\ event' \in Event /\ index' \subseteq EventStatus /\ deliveries' = deliveries
        BY <1>1, <1>2, CompletedStep
    <2>2. RouterTypes' /\ RouterOK(r)' /\ seen'[r] = NoEvent
        BY <1>2, EndStep
    <2>3. RouterStepped(r)
        BY <1>1, <1>2 DEF RouterStepped, End, Goto, TypeOK
    <2>4. TypeOK'
        BY <1>1, <2>1, <2>2, <2>3, TypesKept DEF RestTypes, TypeOK
    <2> QED
        BY <2>1, <2>2, <2>3, <2>4, RouterStepKeeps
<1>3. CASE /\ tries' = [tries EXCEPT ![r] = @ + 1]
           /\ Goto(r, "complete")
           /\ UNCHANGED <<copies, todo, at, state, seen>>
           /\ UNCHANGED record
    <2>1. Quiet /\ index' = index
        BY <1>3 DEF Quiet, record
    <2>2. RouterTypes'
        BY <1>3 DEF TypeOK, RouterTypes, Goto, RouterStep
    <2>3. RouterStepped(r) /\ pc'[r] = "complete"
        BY <1>1, <1>3 DEF RouterStepped, Goto, TypeOK
    <2>4. TypeOK'
        BY <1>1, <2>1, <2>2, <2>3, TypesKept DEF RestTypes, TypeOK, Quiet
    <2>5. RouterOK(r)'
        BY <1>1, <1>3, <2>1, <2>3 DEF RouterOK, AtHand, Finished, Pending, Quiet
    <2> QED
        BY <1>3, <2>1, <2>3, <2>4, <2>5, RouterStepKeeps
<1>4. CASE End(r, 1) /\ UNCHANGED record
    BY <1>1, <1>4, EndKeeps DEF record
<1> QED
    BY <1>2, <1>3, <1>4 DEF CompleteRouting

(* The process of a router dies.                                             *)
LEMMA RouterCrashKeeps ==
    ASSUME Inductive, NEW r \in Routers, RouterCrash(r)
    PROVE  Inductive'
<1>1. /\ UNCHANGED <<event, deliveries, index, subscribed, enabled, steady, outdated, changes>>
      /\ faults' \in Nat /\ End(r, 1)
    BY DEF RouterCrash, record, config, Fault, Inductive, TypeOK
<1> QED
    BY <1>1, EndKeeps

-------------------------------------------------------------------------------
(* The steps of the others.                                                  *)

(* A step that no part of the invariant is about, but for the types.         *)
LEMMA AsideKeeps ==
    ASSUME Inductive, TypeOK',
           UNCHANGED <<event, deliveries, subscribed, enabled, steady, pc, todo, at,
                       seen, outdated, changes>>
    PROVE  Inductive'
    BY DEF Inductive, CopiesInv, Fresh, Current, RouterInv, RouterOK, Pending, ConfigInv,
       StoreInv, CountersMatchDeliveries, Number, Derived, RoutedCoversDestinations

(* One more copy of the message.                                             *)
LEMMA DuplicateKeeps ==
    ASSUME Inductive, Duplicate
    PROVE  Inductive'
<1>1. UNCHANGED <<event, deliveries, subscribed, enabled, steady, pc, todo, at,
                  seen, outdated, changes>>
    BY DEF Duplicate, Fault, record, config, router
<1>2. TypeOK'
    BY DEF Inductive, TypeOK, Duplicate, Fault, record, config, router
<1> QED
    BY <1>1, <1>2, AsideKeeps

(* A changed destination is steady no longer, and nothing is claimed of it.  *)
LEMMA ReconfigureKeeps ==
    ASSUME Inductive, NEW d \in Destinations, Reconfigure(d)
    PROVE  Inductive'
<1> USE DEF Inductive
<1>1. /\ UNCHANGED <<event, deliveries, index, copies, pc, todo, at, state, tries, seen,
                     outdated, faults>>
      /\ steady' = steady \cap subscribed' \cap enabled'
      /\ changes' = changes + 1
      /\ \/ subscribed' = Toggle(subscribed, d) /\ enabled' = enabled
         \/ enabled' = Toggle(enabled, d) /\ subscribed' = subscribed
    BY DEF Reconfigure, record, router
<1>2. subscribed' \subseteq Destinations /\ enabled' \subseteq Destinations
    BY <1>1 DEF Toggle, TypeOK
<1>3. changes' \in Nat /\ changes' # 0
    BY <1>1 DEF TypeOK
<1>4. TypeOK'
    BY <1>1, <1>2, <1>3 DEF TypeOK
<1>5. CopiesInv'
    BY <1>1 DEF CopiesInv, Fresh, Current
<1>6. RouterInv'
    BY <1>1, <1>3 DEF RouterInv, RouterOK, Pending
<1>7. ConfigInv'
    BY <1>1, <1>3 DEF ConfigInv
<1>8. StoreInv'
    BY <1>1 DEF StoreInv, CountersMatchDeliveries, Number, Derived, RoutedCoversDestinations
<1> QED
    BY <1>4, <1>5, <1>6, <1>7, <1>8

(* A finalizer reads the event while its delivery is under way.              *)
LEMMA FinalizeReadKeeps ==
    ASSUME Inductive, NEW d \in Destinations, FinalizeRead(d)
    PROVE  Inductive'
<1> USE DEF Inductive
<1>1. /\ UNCHANGED <<event, deliveries, index, subscribed, enabled, steady, copies, pc, todo,
                     at, state, tries, seen, faults, changes>>
      /\ deliveries[d] = "scheduled"
      /\ outdated' = [outdated EXCEPT ![d] = event]
    BY DEF FinalizeRead, record, config, router, budget
<1>2. TypeOK'
    BY <1>1 DEF TypeOK
<1>3. CopiesInv'
    <2>1. event.version \in Nat
        BY EventFields DEF TypeOK
    <2> QED
        BY <1>1, <2>1 DEF CopiesInv, Fresh, Current, TypeOK
<1>4. RouterInv'
    BY <1>1 DEF RouterInv, RouterOK, Pending
<1>5. ConfigInv'
    BY <1>1 DEF ConfigInv
<1>6. StoreInv'
    BY <1>1 DEF StoreInv, CountersMatchDeliveries, Number, Derived, RoutedCoversDestinations
<1> QED
    BY <1>2, <1>3, <1>4, <1>5, <1>6

(* A finalizer whose copy is current ends its delivery, and counts it.       *)
LEMMA EndedStep ==
    ASSUME Inductive, NEW d \in Destinations, outdated[d] # NoEvent, Current(outdated[d]),
           NEW s \in Ending, deliveries' = [deliveries EXCEPT ![d] = s],
           event' = WithOutcome(outdated[d], s)
    PROVE  Ended(d, s)
<1>1. outdated[d] = event /\ deliveries[d] = "scheduled"
    BY DEF Inductive, CopiesInv, Fresh
<1> QED
    BY <1>1 DEF Ended

(* The commit of a finalizer, or its failure.                                *)
LEMMA FinalizeKeeps ==
    ASSUME Inductive, NEW d \in Destinations, Finalize(d)
    PROVE  Inductive'
<1> USE DEF Inductive
<1>1. /\ UNCHANGED <<index, subscribed, enabled, steady, copies, pc, todo, at, state, tries,
                     seen, changes>>
      /\ faults' \in Nat
      /\ outdated' = [outdated EXCEPT ![d] = NoEvent]
      /\ outdated[d] # NoEvent
    BY DEF Finalize, record, config, router, budget, Fault, TypeOK
<1>2. Quiet \/ \E s \in Ending : Ended(d, s)
    <2>1. CASE UNCHANGED record
        BY <2>1 DEF record, Quiet
    <2>2. CASE /\ Current(outdated[d])
               /\ \E s \in Ending : /\ deliveries' = [deliveries EXCEPT ![d] = s]
                                    /\ event' = WithOutcome(outdated[d], s)
        BY <1>1, <2>2, EndedStep
    <2> QED
        BY <2>1, <2>2 DEF Finalize
<1>3. /\ StoreInv'
      /\ event' \in Event /\ deliveries' \in [Destinations -> DeliveryState]
      /\ event' = event \/ event'.version = event.version + 1
      /\ \A x \in Destinations : deliveries[x] # "absent" => deliveries'[x] # "absent"
      /\ \A x \in Destinations \ {d} : deliveries'[x] = deliveries[x]
    <2>1. CASE Quiet
        <3>1. StoreInv'
            BY <1>1, <2>1 DEF StoreInv, Quiet, CountersMatchDeliveries, Number, Derived,
               RoutedCoversDestinations
        <3> QED
            BY <2>1, <3>1 DEF Quiet, TypeOK
    <2>2. ASSUME NEW s \in Ending, Ended(d, s)
          PROVE  /\ StoreInv'
                 /\ event' \in Event /\ deliveries' \in [Destinations -> DeliveryState]
                 /\ event'.version = event.version + 1
                 /\ \A x \in Destinations :
                        deliveries[x] # "absent" => deliveries'[x] # "absent"
                 /\ \A x \in Destinations \ {d} : deliveries'[x] = deliveries[x]
        <3>1. /\ StoreInv'
              /\ event' \in Event /\ deliveries' \in [Destinations -> DeliveryState]
              /\ event'.version = event.version + 1
            BY <1>1, <2>2, EndedKeepsStore
        <3>2. deliveries' = [deliveries EXCEPT ![d] = s] /\ s # "absent"
            BY <2>2 DEF Ended, Ending
        <3> QED
            BY <3>1, <3>2 DEF TypeOK
    <2> QED
        BY <1>2, <2>1, <2>2
<1>4. outdated'[d] = NoEvent /\ \A x \in Destinations \ {d} : outdated'[x] = outdated[x]
    BY <1>1 DEF TypeOK
<1>5. outdated' \in [Destinations -> Event]
    BY <1>1, NoEventType DEF TypeOK
<1>6. TypeOK'
    BY <1>1, <1>3, <1>5 DEF TypeOK
<1>7. CopiesInv'
    <2>1. event'.version >= 1
        BY <1>3, EventFields DEF CopiesInv, TypeOK
    <2>2. \A r \in Routers : Fresh(seen[r])'
        BY <1>1, <1>3, CopyKept DEF CopiesInv, TypeOK, Fresh, Current
    <2>3. \A x \in Destinations : Fresh(outdated[x])'
        <3> SUFFICES ASSUME NEW x \in Destinations
                     PROVE  Fresh(outdated[x])'
            OBVIOUS
        <3>1. outdated'[x] \in Event
            BY <1>5
        <3>2. Fresh(outdated'[x]) \/ outdated'[x] = NoEvent
            BY <1>4 DEF CopiesInv
        <3> QED
            BY <1>3, <3>1, <3>2, CopyKept DEF Fresh, Current
    <2>4. \A x \in Destinations : outdated'[x] # NoEvent => deliveries'[x] = "scheduled"
        BY <1>3, <1>4 DEF CopiesInv
    <2> QED
        BY <2>1, <2>2, <2>3, <2>4 DEF CopiesInv
<1>8. RouterInv'
    <2> SUFFICES ASSUME NEW r \in Routers
                 PROVE  RouterOK(r)'
        BY DEF RouterInv
    <2>1. steady \subseteq Destinations
        BY DEF TypeOK
    <2> QED
        BY <1>1, <1>3, <2>1, RouterKept
<1>9. ConfigInv'
    BY <1>1 DEF ConfigInv
<1> QED
    BY <1>3, <1>6, <1>7, <1>8, <1>9

-------------------------------------------------------------------------------
(* The invariant.                                                            *)

(* It holds at the beginning: no delivery, all counters zero.                *)
LEMMA InitInductive == Init => Inductive
<1> SUFFICES ASSUME Init
             PROVE  Inductive
    OBVIOUS
<1>1. AcceptedEvent \in Event
    BY DEF AcceptedEvent, Event, EventStatus
<1>2. TypeOK
    BY <1>1, NoEventType DEF Init, TypeOK, DeliveryState, EventStatus, RouterStep
<1>3. CopiesInv
    BY DEF Init, CopiesInv, Fresh, Current, NoEvent, AcceptedEvent
<1>4. RouterInv
    BY DEF Init, RouterInv, RouterOK, AtHand, Finished
<1>5. ConfigInv
    BY DEF Init, ConfigInv
<1>6. CountersMatchDeliveries
    <2>1. ASSUME NEW states, "absent" \notin states
          PROVE  Number(states) = 0
        <3>1. {d \in Destinations : deliveries[d] \in states} = {}
            BY <2>1 DEF Init
        <3> QED
            BY <3>1, FS_EmptySet DEF Number
    <2>2. /\ event.total = 0 /\ event.terminal = 0 /\ event.successful = 0
          /\ event.failed = 0 /\ event.deadLettered = 0
        BY DEF Init, AcceptedEvent
    <2>3. "absent" \notin TerminalState /\ "absent" \notin FailedState
        BY DEF TerminalState, FailedState
    <2>4. Number(DeliveryState \ {"absent"}) = 0 /\ Number({"succeeded"}) = 0
          /\ Number({"dead_lettered"}) = 0
        BY <2>1
    <2> QED
        BY <2>1, <2>2, <2>3, <2>4 DEF CountersMatchDeliveries
<1>7. Derived /\ RoutedCoversDestinations
    BY DEF Init, Derived, RoutedCoversDestinations, DeriveEventStatus, AcceptedEvent
<1> QED
    BY <1>2, <1>3, <1>4, <1>5, <1>6, <1>7 DEF Inductive, StoreInv

(* Every step keeps it.                                                      *)
LEMMA NextInductive == Inductive /\ [Next]_vars => Inductive'
<1> SUFFICES ASSUME Inductive, [Next]_vars
             PROVE  Inductive'
    OBVIOUS
<1>1. ASSUME NEW r \in Routers, Route(r) \/ StoreError(r) \/ RouterCrash(r)
      PROVE  Inductive'
    BY <1>1, StartRoutingKeeps, NextDestinationKeeps, LookupKeeps, ReadEventKeeps,
       CreateDeliveryKeeps, CompleteReadKeeps, CompleteRoutingKeeps, StoreErrorKeeps,
       RouterCrashKeeps DEF Route
<1>2. ASSUME NEW d \in Destinations, Deliver(d) \/ Reconfigure(d)
      PROVE  Inductive'
    BY <1>2, FinalizeReadKeeps, FinalizeKeeps, ReconfigureKeeps DEF Deliver
<1>3. CASE UNCHANGED vars
    <2>1. TypeOK'
        BY <1>3 DEF vars, record, config, router, budget, Inductive, TypeOK
    <2> QED
        BY <1>3, <2>1, AsideKeeps DEF vars, record, config, router, budget
<1> QED
    BY <1>1, <1>2, <1>3, DuplicateKeeps DEF Next

(* The invariant always holds.                                               *)
LEMMA AlwaysInductive == Spec => []Inductive
    BY InitInductive, NextInductive, PTL DEF Spec

(* Every reachable state is well typed.                                      *)
THEOREM TypeCorrect == Spec => []TypeOK
<1>1. Inductive => TypeOK
    BY DEF Inductive
<1> QED
    BY AlwaysInductive, <1>1, PTL

(* The five counters are the numbers of deliveries, for any number of        *)
(* routers and finalizers that add to what they read earlier.                *)
THEOREM CountersAlwaysMatch == Spec => []CountersMatchDeliveries
<1>1. Inductive => CountersMatchDeliveries
    BY DEF Inductive, StoreInv
<1> QED
    BY AlwaysInductive, <1>1, PTL

(* A routed event has a delivery for every destination that was subscribed   *)
(* and enabled all along, whichever copies of its message failed.            *)
THEOREM RoutedAlwaysCovers == Spec => []RoutedCoversDestinations
<1>1. Inductive => RoutedCoversDestinations
    BY DEF Inductive, StoreInv
<1> QED
    BY AlwaysInductive, <1>1, PTL

-------------------------------------------------------------------------------
(* Action properties.                                                        *)

(* Every step writes one delivery with its event, or completes the routing,  *)
(* or leaves both alone.                                                     *)
LEMMA StepShape ==
    ASSUME Inductive, [Next]_vars
    PROVE  \/ Quiet
           \/ Completed
           \/ \E r \in Routers :
                 /\ pc[r] = "create" /\ Creatable(r)
                 /\ at[r] \in Destinations
                 /\ Created(at[r], state[r])
           \/ \E d \in Destinations : \E s \in Ending : Ended(d, s)
<1>1. ASSUME NEW r \in Routers, CreateDelivery(r) \/ StoreError(r)
      PROVE  Quiet \/ (pc[r] = "create" /\ Creatable(r) /\ DeliveryCreated(r))
    BY <1>1 DEF CreateDelivery, StoreError, Quiet, record
<1>2. ASSUME NEW r \in Routers, CompleteRouting(r)
      PROVE  Quiet \/ Completed
    BY <1>2, CompletedStep DEF CompleteRouting, Quiet, record
<1>3. ASSUME NEW d \in Destinations, Finalize(d)
      PROVE  Quiet \/ \E s \in Ending : Ended(d, s)
    BY <1>3, EndedStep DEF Finalize, Quiet, record
<1>4. ASSUME NEW r \in Routers,
             \/ StartRouting(r) \/ NextDestination(r) \/ Lookup(r) \/ ReadEvent(r)
             \/ CompleteRead(r) \/ RouterCrash(r)
      PROVE  Quiet
    BY <1>4 DEF StartRouting, NextDestination, Lookup, ReadEvent, CompleteRead,
                RouterCrash, Quiet, record
<1>5. ASSUME NEW d \in Destinations, FinalizeRead(d) \/ Reconfigure(d)
      PROVE  Quiet
    BY <1>5 DEF FinalizeRead, Reconfigure, Quiet, record
<1>6. Duplicate \/ UNCHANGED vars => Quiet
    BY DEF Duplicate, Quiet, record, vars
<1> QED
    BY <1>1, <1>2, <1>3, <1>4, <1>5, <1>6, CreatedStep DEF Next, Route, Deliver

(* The deliveries that are made, and those of them that are at their end.    *)
In(states) == {d \in Destinations : deliveries[d] \in states}

(* The counters tell which of these sets are empty or equal.                 *)
LEMMA MadeAndEnded ==
    ASSUME Inductive
    PROVE  /\ event.total \in Nat /\ event.terminal \in Nat /\ event.successful \in Nat
           /\ event.terminal <= event.total
           /\ event.terminal < event.total <=> In({"scheduled"}) # {}
           /\ event.total = 0 <=> Destinations \ In({"absent"}) = {}
           /\ event.successful = 0 <=> In({"succeeded"}) = {}
           /\ event.successful = event.total
                <=> In({"succeeded"}) = Destinations \ In({"absent"})
<1> DEFINE made == In(DeliveryState \ {"absent"})
           ended == In(TerminalState)
           good == In({"succeeded"})
<1>1. \A d \in Destinations : deliveries[d] \in DeliveryState
    BY DEF Inductive, TypeOK
<1>2. made = Destinations \ In({"absent"})
    BY <1>1 DEF In
<1>3. ended \in SUBSET made /\ good \in SUBSET made
    BY DEF In, TerminalState, FailedState, DeliveryState
<1>4. ended = made <=> In({"scheduled"}) = {}
    BY <1>1 DEF In, TerminalState, FailedState, DeliveryState
<1>5. IsFiniteSet(made) /\ IsFiniteSet(good)
    BY NumberType DEF In
<1>6. /\ event.total = Cardinality(made) /\ event.terminal = Cardinality(ended)
      /\ event.successful = Cardinality(good)
    BY DEF Inductive, StoreInv, CountersMatchDeliveries, Number, In
<1>7. event.total \in Nat /\ event.terminal \in Nat /\ event.successful \in Nat
    BY EventFields DEF Inductive, TypeOK
<1> HIDE DEF made, ended, good
<1>8. /\ Cardinality(ended) <= Cardinality(made)
      /\ Cardinality(made) = Cardinality(ended) => made = ended
    BY <1>3, <1>5, FS_Subset
<1>9. Cardinality(made) = Cardinality(good) => made = good
    BY <1>3, <1>5, FS_Subset
<1>10. (Cardinality(made) = 0 <=> made = {}) /\ (Cardinality(good) = 0 <=> good = {})
    BY <1>5, FS_EmptySet
<1> QED
    BY <1>2, <1>4, <1>6, <1>7, <1>8, <1>9, <1>10 DEF good

(* While the configuration is unchanged, no step changes a final status.     *)
THEOREM FinalStatusAlwaysKept == Spec => FinalStatusKept
<1>1. Inductive /\ [Next]_vars =>
        [event.status \in FinalStatus /\ changes = 0 => event'.status = event.status]_vars
  <2> SUFFICES ASSUME Inductive, [Next]_vars, event.status \in FinalStatus, changes = 0
               PROVE  event'.status = event.status
      OBVIOUS
  <2>1. event.routed /\ In({"scheduled"}) = {}
      <3>1. /\ event.routed \in BOOLEAN /\ event.total \in Nat /\ event.terminal \in Nat
            /\ event.successful \in Nat /\ event.terminal <= event.total
            /\ event.terminal < event.total <=> In({"scheduled"}) # {}
          BY MadeAndEnded, EventFields DEF Inductive, TypeOK
      <3>2. DeriveEventStatus(event) \notin {"accepted", "processing"}
          BY DEF Inductive, StoreInv, Derived, FinalStatus
      <3> QED
          BY <3>1, <3>2 DEF DeriveEventStatus
  <2>2. \A d \in steady : deliveries[d] # "absent"
      BY <2>1 DEF Inductive, StoreInv, RoutedCoversDestinations
  <2>3. ASSUME NEW r \in Routers, pc[r] = "create", Creatable(r)
        PROVE  FALSE
      <3>1. at[r] \in steady
          BY <2>3 DEF Inductive, RouterInv, RouterOK, Pending, AtHand
      <3> QED
          BY <2>2, <2>3, <3>1 DEF Creatable
  <2>4. ~Completed
      BY <2>1 DEF Completed
  <2>5. \A d \in Destinations : \A s \in Ending : ~Ended(d, s)
      BY <2>1 DEF Ended, In
  <2> QED
      BY <2>3, <2>4, <2>5, StepShape DEF Quiet
<1> QED
    BY AlwaysInductive, <1>1, PTL DEF Spec, FinalStatusKept

StatusRight == event.status = Abstract!Status

(* The status is what the contract says of the deliveries.                   *)
LEMMA StatusMeans == Inductive => StatusRight
<1> SUFFICES ASSUME Inductive
             PROVE  StatusRight
    OBVIOUS
<1>1. /\ event.routed \in BOOLEAN /\ event.total \in Nat /\ event.terminal \in Nat
      /\ event.successful \in Nat /\ event.terminal <= event.total
      /\ event.terminal < event.total <=> In({"scheduled"}) # {}
      /\ event.total = 0 <=> Destinations \ In({"absent"}) = {}
      /\ event.successful = 0 <=> In({"succeeded"}) = {}
      /\ event.successful = event.total
                <=> In({"succeeded"}) = Destinations \ In({"absent"})
    BY MadeAndEnded, EventFields DEF Inductive, TypeOK
<1>2. /\ Abstract!In({"absent"}) = In({"absent"})
      /\ Abstract!In({"scheduled"}) = In({"scheduled"})
      /\ Abstract!In({"succeeded"}) = In({"succeeded"})
    BY DEF Abstract!In, In
<1>3. event.status = DeriveEventStatus(event)
    BY DEF Inductive, StoreInv, Derived
<1> QED
    BY <1>1, <1>2, <1>3 DEF DeriveEventStatus, Abstract!Status, StatusRight

(* Routers and delivery workers implement the contract of one event: each    *)
(* delivery is made once and ends once, and the status is theirs.            *)
THEOREM ContractImplemented == Spec => ImplementsContract
<1>1. Init => Abstract!Accepted
    BY DEF Init, Abstract!Accepted, AcceptedEvent
<1>2. Inductive /\ StatusRight' /\ [Next]_vars =>
        [/\ Abstract!Close \/ \E d \in Destinations : Abstract!Deliver(d) \/ Abstract!Settle(d)
         /\ (event.status)' = Abstract!Status']_Abstract!outcome
  <2> SUFFICES ASSUME Inductive, StatusRight', [Next]_vars, ~Quiet
               PROVE  /\ \/ Abstract!Close
                         \/ \E d \in Destinations : Abstract!Deliver(d) \/ Abstract!Settle(d)
                      /\ (event.status)' = Abstract!Status'
      BY DEF Quiet, Abstract!outcome
  <2>1. (event.status)' = Abstract!Status'
      BY DEF StatusRight
  <2>2. ASSUME Completed
        PROVE  Abstract!Close
      <3>1. event'.routed = TRUE
          BY <2>2, WithRoutingCompleteFields DEF Completed, Inductive, TypeOK
      <3> QED
          BY <2>2, <3>1 DEF Abstract!Close, Completed
  <2>3. ASSUME NEW d \in Destinations, NEW s, Created(d, s)
        PROVE  Abstract!Deliver(d)
      <3>1. event'.routed = event.routed
          BY <2>3, WithDeliveryFields DEF Created, Inductive, TypeOK
      <3> QED
          BY <2>3, <3>1 DEF Created, Abstract!Deliver, Abstract!Become
  <2>4. ASSUME NEW d \in Destinations, NEW s \in Ending, Ended(d, s)
        PROVE  Abstract!Settle(d)
      <3>1. event'.routed = event.routed
          BY <2>4, WithOutcomeFields DEF Ended, Inductive, TypeOK
      <3> QED
          BY <2>4, <3>1 DEF Ended, Ending, Abstract!Settle, Abstract!Become
  <2> QED
      BY <2>1, <2>2, <2>3, <2>4, StepShape
<1> QED
    BY AlwaysInductive, StatusMeans, <1>1, <1>2, PTL DEF Spec, ImplementsContract, Abstract!Contract
===============================================================================
