-------------------------------- MODULE Search --------------------------------
(***************************************************************************)
(* The index of deliveries and those who read it: the operator's listings, *)
(* the count of deliveries in a state, and the resumption of a destination.*)
(*                                                                         *)
(* A delivery is listed under several categories, each time at the instant *)
(* of its last change.  A write that changes the delivery takes the entries*)
(* of the record it read away and puts those of the new record there; only *)
(* the start of an attempt changes the instant and leaves the entries.  A  *)
(* reader queries entries page by page and then reads the delivery of each,*)
(* while deliveries go on changing.                                        *)
(***************************************************************************)
EXTENDS DeliveryDomain, Sequences, FiniteSets, SequencesExt

CONSTANTS
    Deliveries,     \* deliveries of one destination and its partner
    Filters,        \* the categories that are searched
    Clients,        \* "script", which repeats its window with each page,
                    \* "console", which takes a new one, "count"
    Page,           \* entries in a page of a query
    ResumePage,     \* entries a resumption reads: 100
    CursorLife,     \* 15 minutes
    MaxTime         \* bound on the clock, and so on the changes of a delivery

ASSUME SearchAssumption ==
    /\ Deliveries \subseteq Nat
    /\ Clients \subseteq {"script", "console", "count"}
    /\ Filters \subseteq DeliveryState \cup {"ALL", "DESTINATION", "TERMINAL_FAILURE"}
    /\ Page \in Nat \ {0} /\ ResumePage \in Nat \ {0}
    /\ CursorLife \in Nat /\ MaxTime \in Nat

VARIABLES
    clock,
    delivery,   \* id -> the delivery's record
    entries,    \* the index: entries of category, instant and delivery
    listing,    \* a listing: what is asked, where it is, what it returned
    resume      \* a run of resumeDestination

vars == <<clock, delivery, entries, listing, resume>>

-------------------------------------------------------------------------------
Absent == [state |-> "absent", disabled |-> FALSE, sending |-> FALSE, at |-> 0]
NoEntry == [category |-> "none", at |-> 0, id |-> 0]
NoListing == [step |-> "idle", client |-> "script", filter |-> "ALL", from |-> 0,
              to |-> 0, since |-> 0, cursor |-> NoEntry, issued |-> 0,
              page |-> {}, found |-> {}, result |-> <<>>]
NoResume == [step |-> "idle", ids |-> {}, saw |-> Absent, id |-> 0, started |-> 0,
             older |-> [d \in Deliveries |-> 0]]

Init ==
    /\ clock = 0
    /\ delivery = [d \in Deliveries |-> Absent]
    /\ entries = {}
    /\ listing = NoListing
    /\ resume = NoResume

Tick ==
    /\ clock < MaxTime
    /\ clock' = clock + 1
    /\ UNCHANGED <<delivery, entries, listing, resume>>

-------------------------------------------------------------------------------
(* The index.                                                                *)

Exists(r) == r.state # "absent"
Failure == {"dead_lettered", "failed_terminal"}

(* The categories of a record that somebody searches.  DESTINATION stands    *)
(* for the category of the partner as well.                                  *)
Categories(r) ==
    (IF Exists(r) THEN {"ALL", r.state, "DESTINATION"} ELSE {})
        \cup (IF r.state \in Failure THEN {"TERMINAL_FAILURE"} ELSE {})
Searched == Filters \cup {"DESTINATION"}

(* Mutant: entries carry the instant the delivery is next due.               *)
BugEntriesOf(d, r) ==
    {[category |-> c, at |-> r.at + 1, id |-> d] : c \in Categories(r) \cap Searched}
EntriesOf(d, r) ==
    {[category |-> c, at |-> r.at, id |-> d] : c \in Categories(r) \cap Searched}

(* One transaction replaces the record that was read by its successor.  It   *)
(* names the two records' entries; an item named twice, when both are of one *)
(* instant, has the whole transaction refused.                               *)
Disjoint(d, old, new) == EntriesOf(d, old) \cap EntriesOf(d, new) = {}
Replace(d, old, new) ==
    /\ Disjoint(d, old, new)
    /\ delivery' = [delivery EXCEPT ![d] = new]
    /\ entries' = (entries \ EntriesOf(d, old)) \cup EntriesOf(d, new)

Now(state, disabled) ==
    [state |-> state, disabled |-> disabled, sending |-> FALSE, at |-> clock]

-------------------------------------------------------------------------------
(* The writers: the router or a replay, and the delivery worker with its     *)
(* recovery of expired leases.                                               *)

Create(d) ==
    /\ ~Exists(delivery[d])
    /\ \E s \in {"scheduled", "failed_terminal"} :
        Replace(d, delivery[d], Now(s, FALSE))
    /\ UNCHANGED <<clock, listing, resume>>

Lease(d) ==
    /\ delivery[d].state \in {"scheduled", "retry_scheduled"}
    /\ Replace(d, delivery[d], Now("in_progress", FALSE))
    /\ UNCHANGED <<clock, listing, resume>>

(* startAttempt writes the delivery, with a new instant, and its attempt.    *)
StartAttempt(d) ==
    /\ delivery[d].state = "in_progress"
    /\ ~delivery[d].sending
    /\ delivery' = [delivery EXCEPT ![d].sending = TRUE, ![d].at = clock]
    /\ UNCHANGED <<clock, entries, listing, resume>>

FinalizeAttempt(d) ==
    /\ delivery[d].sending
    /\ \E s \in {"succeeded", "retry_scheduled"} \cup Failure :
        Replace(d, delivery[d], Now(s, FALSE))
    /\ UNCHANGED <<clock, listing, resume>>

Defer(d) ==
    /\ delivery[d].state = "in_progress"
    /\ ~delivery[d].sending
    /\ \/ Replace(d, delivery[d], Now("rate_limited", FALSE))
       \/ \E disabled \in BOOLEAN : Replace(d, delivery[d], Now("scheduled", disabled))
    /\ UNCHANGED <<clock, listing, resume>>

-------------------------------------------------------------------------------
(* Listings.  There is one, or one resumption, which is to a listing but one *)
(* more writer.                                                              *)

(* Keys are ordered by instant, then by id; a search runs backwards.         *)
Older(e, f) == e.at < f.at \/ (e.at = f.at /\ e.id < f.id)
Ahead(e, f) == IF listing.client = "count" THEN Older(e, f) ELSE Older(f, e)
InRange(e) == /\ e.category = listing.filter
              /\ e.at \in listing.from..listing.to
              /\ listing.cursor = NoEntry \/ Ahead(listing.cursor, e)
First(set, limit) ==
    {e \in set : Cardinality({f \in set : Ahead(f, e)}) < limit}

Search ==
    /\ listing.step = "idle" /\ resume.step = "idle"
    /\ \E client \in Clients, filter \in Filters, from \in 0..clock :
        /\ client = "count" => filter \in DeliveryState /\ from = 0
        /\ listing' = [NoListing EXCEPT !.step = "query", !.client = client,
                           !.filter = filter, !.from = from, !.since = clock,
                           !.to = IF client = "count" THEN MaxTime ELSE clock]
    /\ UNCHANGED <<clock, delivery, entries, resume>>

(* The cursor names the last entry of a full page.                           *)
Query ==
    /\ listing.step = "query"
    /\ LET page == First({e \in entries : InRange(e)}, Page)
       IN  listing' = [listing EXCEPT
               !.step = "resolve",
               !.page = page,
               !.cursor = IF Cardinality(page) < Page THEN NoEntry
                          ELSE CHOOSE e \in page :
                                  \A f \in page \ {e} : Ahead(f, e)]
    /\ UNCHANGED <<clock, delivery, entries, resume>>

Matches(r, filter) == filter \in Categories(r)

(* Mutant: an entry is followed wherever it leads.                           *)
BugCurrent(e, r) == Matches(r, listing.filter)
(* An entry counts while the delivery is what it was when it was written.    *)
Current(e, r) == e.at = r.at /\ Matches(r, listing.filter)

(* The deliveries of a page are read one by one, in any order.               *)
Resolve ==
    /\ listing.step = "resolve"
    /\ \E e \in listing.page :
        listing' = [listing EXCEPT
            !.page = @ \ {e},
            !.found = IF Current(e, delivery[e.id]) THEN @ \cup {e.id} ELSE @]
    /\ UNCHANGED <<clock, delivery, entries, resume>>

(* A page is answered, with a cursor that is dated and bound to the window.  *)
Serve ==
    /\ listing.step = "resolve"
    /\ listing.page = {}
    /\ listing' = [listing EXCEPT
           !.step = IF listing.cursor = NoEntry THEN "done" ELSE "next",
           !.result = @ \o SetToSeq(listing.found),
           !.found = {},
           !.issued = clock]
    /\ UNCHANGED <<clock, delivery, entries, resume>>

(* The console takes a new window, up to the present, with each page.        *)
SameWindow == listing.client # "console" \/ clock = listing.to
CursorLives == listing.client = "count" \/ clock < listing.issued + CursorLife

NextPage ==
    /\ listing.step = "next"
    /\ listing' = IF SameWindow /\ CursorLives
                  THEN [listing EXCEPT !.step = "query"]
                  ELSE [listing EXCEPT !.step = "refused"]
    /\ UNCHANGED <<clock, delivery, entries, resume>>

-------------------------------------------------------------------------------
(* resumeDestination, after the destination was enabled.                     *)

InDestination == {e \in entries : e.category = "DESTINATION"}
OlderThan(e) == Cardinality({f \in InDestination : Older(f, e)})
OwnEntry(d) == [category |-> "DESTINATION", at |-> delivery[d].at, id |-> d]

ResumeQuery ==
    /\ resume.step = "idle" /\ listing.step = "idle"
    /\ resume' = [NoResume EXCEPT
           !.step = "read",
           !.started = clock,
           !.ids = {e.id : e \in {f \in InDestination : OlderThan(f) < ResumePage}},
           !.older = [d \in Deliveries |-> OlderThan(OwnEntry(d))]]
    /\ UNCHANGED <<clock, delivery, entries, listing>>

(* Mutant: only a delivery that is still under way is resumed.               *)
BugBlocked(r) == r.state = "in_progress" /\ r.disabled
Blocked(r) == r.state \notin TerminalState /\ r.disabled

ResumeRead ==
    /\ resume.step = "read"
    /\ \E d \in resume.ids :
        resume' = IF Blocked(delivery[d])
                  THEN [resume EXCEPT !.step = "write", !.id = d,
                                      !.saw = delivery[d], !.ids = @ \ {d}]
                  ELSE [resume EXCEPT !.ids = @ \ {d}]
    /\ UNCHANGED <<clock, delivery, entries, listing>>

(* A delivery that changed since is passed over; a refused transaction ends  *)
(* the run, and the message that asked for it comes back.                    *)
ResumeWrite ==
    /\ resume.step = "write"
    /\ LET d == resume.id
           new == Now("scheduled", FALSE)
       IN  \/ /\ delivery[d] = resume.saw
              /\ Replace(d, resume.saw, new)
              /\ resume' = [resume EXCEPT !.step = "read"]
           \/ /\ delivery[d] # resume.saw
              /\ Disjoint(d, resume.saw, new)
              /\ resume' = [resume EXCEPT !.step = "read"]
              /\ UNCHANGED <<delivery, entries>>
           \/ /\ ~Disjoint(d, resume.saw, new)
              /\ resume' = NoResume
              /\ UNCHANGED <<delivery, entries>>
    /\ UNCHANGED <<clock, listing>>

ResumeEnd ==
    /\ resume.step = "read"
    /\ resume.ids = {}
    /\ resume' = [resume EXCEPT !.step = "done"]
    /\ UNCHANGED <<clock, delivery, entries, listing>>

-------------------------------------------------------------------------------
Next ==
    \/ \E d \in Deliveries : Create(d) \/ Lease(d) \/ StartAttempt(d)
                                 \/ FinalizeAttempt(d) \/ Defer(d)
    \/ Search \/ Query \/ Resolve \/ Serve \/ NextPage
    \/ ResumeQuery \/ ResumeRead \/ ResumeWrite \/ ResumeEnd
    \/ Tick

Spec == Init /\ [][Next]_vars
===============================================================================
