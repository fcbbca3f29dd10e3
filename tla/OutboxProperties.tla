--------------------------- MODULE OutboxProperties ---------------------------
(***************************************************************************)
(* What the outbox promises to the components that commit records.         *)
(***************************************************************************)
EXTENDS Outbox

(* The state is well formed.                                                 *)
TypeOK ==
    /\ local \in BOOLEAN
    /\ clock \in 0..MaxTime
    /\ createdAt \in [Records -> (0..MaxTime) \cup {Never}]
    /\ malformed \subseteq MaybeMalformed
    /\ unpublished \subseteq Records
    /\ work \in [Records -> {"none", "pending", "published"}]
    /\ queued \in [Records -> Nat]
    /\ early \subseteq Records
    /\ schedule \in [Deliveries -> Records \cup {NoRecord}]
    /\ step \in [Publishers -> Step]
    /\ shard \in [Publishers -> Shards]
    /\ page \in [Publishers -> SUBSET Records]
    /\ faults \in 0..MaxFaults

Queued(r) == queued[r] > 0
Scheduled(r) == schedule[Delivery[r]] = r

(* No record gets lost: at every moment it is still to be published, or is   *)
(* work or a schedule that will be, or its message was in the queue - after  *)
(* any crash between sending and marking, and with both publishers at it.    *)
NothingLost ==
    \A r \in Records :
        Committed(r) =>
            \/ r \in unpublished
            \/ work[r] = "pending"
            \/ Scheduled(r)
            \/ Queued(r)

(* A message never becomes visible before its delivery is due, although the  *)
(* queue counts whole seconds and delays only up to MaxDelay of them.        *)
NeverEarly == early = {}

(* Duplicates cost something: a record is sent more than once only because   *)
(* the other publisher had it on its page too, or because of a fault.        *)
DuplicatesBounded ==
    \A r \in Records : queued[r] <= Cardinality(Publishers) + faults

(* A record can stay behind for good only for one of two reasons: a page of  *)
(* records that cannot be published is ahead of it in its shard, or a page   *)
(* of scheduled work, published or not, is ahead of its own.                 *)
CrowdedOut(r) ==
    \/ Cardinality(Ahead(r) \cap malformed) >= Page
    \/ work[r] = "pending" /\ Cardinality(WorkAhead(r)) >= Page

(* Every other record gets into the queue, with the reconciler alone.        *)
QueuedUnlessCrowdedOut ==
    \A r \in Records :
        (Committed(r) /\ r \notin malformed) ~> (Queued(r) \/ CrowdedOut(r))
===============================================================================
