--------------------------- MODULE SearchProperties ---------------------------
(***************************************************************************)
(* What the readers of Search's index may rely on.                         *)
(***************************************************************************)
EXTENDS Search

Returned(d) == Cardinality({i \in DOMAIN listing.result : listing.result[i] = d})

(* Every variable keeps its type; an entry is about a delivery that exists   *)
(* and is not newer than it (the keys deliveryIndexItem builds).             *)
TypeOK ==
    /\ clock \in 0..MaxTime
    /\ \A d \in Deliveries : /\ delivery[d].state \in DeliveryState \cup {"absent"}
                             /\ delivery[d].at <= clock
                             /\ delivery[d].disabled => delivery[d].state = "scheduled"
    /\ \A e \in entries : /\ e.id \in Deliveries
                          /\ Exists(delivery[e.id])
                          /\ e.at <= delivery[e.id].at
    /\ listing.step \in {"idle", "query", "resolve", "next", "done", "refused"}
    /\ listing.page \subseteq [category : Filters, at : 0..MaxTime, id : Deliveries]
    /\ listing.found \subseteq Deliveries
    /\ resume.step \in {"idle", "read", "write", "done"}
    /\ resume.ids \subseteq Deliveries

(* A listing read to its end returns no delivery twice, and returns every    *)
(* delivery that matched throughout, whatever the others did meanwhile and   *)
(* however many stale entries its attempts left behind; only a delivery whose*)
(* attempt is under way may be missing, and one that changed while the pages *)
(* were read (searchDeliveries, and countDeliveriesByState for the latter).  *)
FoundExactlyOnce ==
    \A d \in Deliveries :
        /\ listing.client # "count" => Returned(d) <= 1
        /\ /\ listing.step = "done"
           /\ Matches(delivery[d], listing.filter)
           /\ ~delivery[d].sending
           /\ delivery[d].at >= listing.from
           /\ delivery[d].at < listing.since
           => Returned(d) >= 1

(* When a resumption has ended, a delivery that the disabled destination     *)
(* blocked before it began and that is blocked still was crowded out of its  *)
(* one page by older entries (resumeDestination).                            *)
ResumeReaches ==
    \A d \in Deliveries :
        /\ resume.step = "done"
        /\ delivery[d].disabled
        /\ delivery[d].at < resume.started
        => resume.older[d] >= ResumePage
===============================================================================
