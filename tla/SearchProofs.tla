----------------------------- MODULE SearchProofs -----------------------------
(***************************************************************************)
(* Proofs about Search, for any number of deliveries, any size of a page   *)
(* and any bound on time: the type invariant, that a listing misses and    *)
(* repeats nothing, and that a resumption reaches what its page shows.     *)
(***************************************************************************)
EXTENDS SearchProperties, FiniteSetTheorems, SequenceTheorems, TLAPS

-------------------------------------------------------------------------------
(* The type invariant, in the strength its proof needs.                      *)

Record == [state : DeliveryState \cup {"absent"}, disabled : BOOLEAN,
           sending : BOOLEAN, at : Nat]
Category == Filters \cup {"DESTINATION"}
Entry == [category : Category, at : Nat, id : Deliveries]

Listing == [step : {"idle", "query", "resolve", "next", "done", "refused"},
            client : {"script", "console", "count"}, filter : Filters \cup {"ALL"},
            from : Nat, to : Nat, since : Nat, cursor : Entry \cup {NoEntry},
            issued : Nat, page : SUBSET Entry, found : SUBSET Deliveries,
            result : Seq(Deliveries)]
Resume == [step : {"idle", "read", "write", "done"}, ids : SUBSET Deliveries,
           saw : Record, id : Nat, started : Nat, older : [Deliveries -> Nat]]

DeliveryTyped ==
    /\ clock \in Nat /\ clock <= MaxTime
    /\ delivery \in [Deliveries -> Record]
    /\ \A d \in Deliveries : /\ delivery[d].at <= clock
                             /\ delivery[d].disabled => delivery[d].state = "scheduled"
                             /\ delivery[d].sending => delivery[d].state = "in_progress"

(* The index: what is in it, and that a delivery whose attempt is not under  *)
(* way is listed as what it is.                                              *)
IndexInv ==
    /\ entries \subseteq Entry
    /\ IsFiniteSet(entries)
    /\ \A e \in entries : Exists(delivery[e.id]) /\ e.at <= delivery[e.id].at
    /\ \A d \in Deliveries :
        ~delivery[d].sending => EntriesOf(d, delivery[d]) \subseteq entries

ListingTyped ==
    /\ listing \in Listing
    /\ IsFiniteSet(listing.page) /\ IsFiniteSet(listing.found)
    /\ listing.since <= clock
    /\ listing.since <= listing.to
    /\ listing.step # "idle" => listing.filter \in Filters
    /\ \A e \in listing.page : /\ e.category = listing.filter
                               /\ e.at <= delivery[e.id].at
    /\ listing.cursor # NoEntry => listing.cursor.category = listing.filter
    /\ listing.step \in {"idle", "query"} => listing.page = {} /\ listing.found = {}
    /\ listing.step \in {"next", "done", "refused"} => listing.page = {} /\ listing.found = {}
    /\ listing.step = "idle" => listing.result = <<>>
    /\ listing.step = "query" /\ listing.cursor = NoEntry => listing.result = <<>>
    /\ listing.step = "next" => listing.cursor # NoEntry

ResumeTyped ==
    /\ resume \in Resume
    /\ resume.step = "write" => resume.id \in Deliveries
    /\ resume.started <= clock

-------------------------------------------------------------------------------
(* What makes a listing repeat nothing.  The key of a delivery only moves    *)
(* forward, and a listing runs backwards: what it has returned is not behind *)
(* its cursor any more, and the entries it still holds of such a delivery are*)
(* stale.                                                                    *)

Own(d) == [category |-> listing.filter, at |-> delivery[d].at, id |-> d]
Results == {listing.result[i] : i \in DOMAIN listing.result}
Done(d) == d \in Results \/ d \in listing.found

Backwards ==
    listing.client # "count" =>
        /\ \A i, j \in DOMAIN listing.result :
               listing.result[i] = listing.result[j] => i = j
        /\ \A d \in listing.found : d \notin Results
        /\ \A d \in Deliveries : Done(d) =>
               /\ listing.cursor # NoEntry => ~Older(Own(d), listing.cursor)
               /\ \A e \in listing.page : e.id = d => e.at < delivery[d].at
        /\ listing.cursor # NoEntry =>
               \A e \in listing.page : ~Older(e, listing.cursor)

(* What makes it miss nothing.  A delivery that has matched since the listing*)
(* began is listed under one key all along, and that key is returned, held,  *)
(* or still to come.                                                         *)
Stable(d) == /\ Matches(delivery[d], listing.filter)
             /\ ~delivery[d].sending
             /\ listing.from <= delivery[d].at
             /\ delivery[d].at < listing.since
ToCome(d) == listing.cursor # NoEntry /\ Ahead(listing.cursor, Own(d))

Covered ==
    \A d \in Deliveries : listing.step # "idle" /\ Stable(d) =>
        \/ Done(d)
        \/ listing.step = "query" /\ listing.cursor = NoEntry
        \/ listing.step = "resolve" /\ Own(d) \in listing.page
        \/ listing.step \in {"query", "resolve", "next"} /\ ToCome(d)
        \/ listing.step = "refused"

(* What a resumption is still to reach.                                      *)
Reached ==
    \A d \in Deliveries :
        resume.step # "idle" /\ delivery[d].disabled /\ delivery[d].at < resume.started =>
            \/ resume.older[d] >= ResumePage
            \/ resume.step = "read" /\ d \in resume.ids
            \/ /\ resume.step = "write"
               /\ d \in resume.ids \/ (resume.id = d /\ resume.saw = delivery[d])

Inductive ==
    /\ DeliveryTyped /\ IndexInv /\ ListingTyped /\ ResumeTyped
    /\ Backwards /\ Covered /\ Reached

-------------------------------------------------------------------------------
(* The order of the keys.                                                    *)

(* Ids are numbers, and the categories of entries are never "none".          *)
LEMMA EntryFields ==
    ASSUME NEW e \in Entry
    PROVE  /\ e.at \in Nat /\ e.id \in Nat /\ e.id \in Deliveries
           /\ e.category \in Category
           /\ e # NoEntry
           /\ e = [category |-> e.category, at |-> e.at, id |-> e.id]
<1>1. /\ e.at \in Nat /\ e.id \in Deliveries /\ e.category \in Category
      /\ e = [category |-> e.category, at |-> e.at, id |-> e.id]
    BY DEF Entry
<1>2. e.id \in Nat
    BY <1>1, SearchAssumption
<1>3. "none" \notin Category
    BY SearchAssumption DEF Category, DeliveryState
<1>4. NoEntry.category = "none"
    BY DEF NoEntry
<1> QED
    BY <1>1, <1>2, <1>3, <1>4

(* Entries of one category are ordered by their keys.                        *)
LEMMA OlderOrders ==
    ASSUME NEW e \in Entry, NEW f \in Entry, NEW g \in Entry
    PROVE  /\ ~Older(e, e)
           /\ Older(e, f) => ~Older(f, e)
           /\ Older(e, f) /\ Older(f, g) => Older(e, g)
           /\ e.category = f.category => e = f \/ Older(e, f) \/ Older(f, e)
<1>1. /\ e.at \in Nat /\ e.id \in Nat
      /\ f.at \in Nat /\ f.id \in Nat
      /\ g.at \in Nat /\ g.id \in Nat
    BY EntryFields
<1>2. e.category = f.category /\ e.at = f.at /\ e.id = f.id => e = f
    BY EntryFields
<1> QED
    BY <1>1, <1>2 DEF Older

(* So they are in the order a listing reads them in.                         *)
LEMMA AheadOrders ==
    ASSUME NEW e \in Entry, NEW f \in Entry, NEW g \in Entry
    PROVE  /\ ~Ahead(e, e)
           /\ Ahead(e, f) => ~Ahead(f, e)
           /\ Ahead(e, f) /\ Ahead(f, g) => Ahead(e, g)
           /\ e.category = f.category => e = f \/ Ahead(e, f) \/ Ahead(f, e)
<1>1. /\ ~Older(e, e)
      /\ Older(e, f) => ~Older(f, e)
      /\ Older(f, e) => ~Older(e, f)
      /\ Older(e, f) /\ Older(f, g) => Older(e, g)
      /\ Older(g, f) /\ Older(f, e) => Older(g, e)
      /\ e.category = f.category => e = f \/ Older(e, f) \/ Older(f, e)
    BY OlderOrders
<1> QED
    BY <1>1 DEF Ahead

(* A finite set has a first member in any order.                             *)
LEMMA Extreme ==
    ASSUME NEW T, IsFiniteSet(T), T # {}, NEW R,
           \A x \in T : <<x, x>> \notin R,
           \A x, y, z \in T : <<x, y>> \in R /\ <<y, z>> \in R => <<x, z>> \in R
    PROVE  \E x \in T : \A y \in T : <<y, x>> \notin R
<1> DEFINE Below(x) == {y \in T : <<y, x>> \in R}
           U == {Below(x) : x \in T}
<1>1. U \subseteq SUBSET T /\ U # {}
    <2>1. \A x \in T : Below(x) \subseteq T /\ Below(x) \in U
        OBVIOUS
    <2>2. \A u \in U : \E x \in T : u = Below(x)
        OBVIOUS
    <2> HIDE DEF U, Below
    <2> QED
        BY <2>1, <2>2
<1>2. IsWellFoundedOn(StrictSubsetOrdering(T), SUBSET T)
    BY FS_StrictSubsetOrderingWellFounded, FS_FiniteSubsetsOfFinite
<1>3. PICK u \in U : \A v \in U : <<v, u>> \notin StrictSubsetOrdering(T)
    <2> HIDE DEF U
    <2> QED
        BY <1>1, <1>2, WFMin
<1>4. PICK x \in T : u = Below(x)
    OBVIOUS
<1>5. ASSUME NEW y \in T, <<y, x>> \in R
      PROVE  FALSE
    <2>1. Below(y) \subseteq Below(x) /\ y \in Below(x) /\ y \notin Below(y)
        BY <1>5
    <2>2. <<Below(y), Below(x)>> \in StrictSubsetOrdering(T)
        BY <2>1 DEF StrictSubsetOrdering
    <2> QED
        BY <1>3, <1>4, <2>2
<1> QED
    BY <1>5

(* In particular in the order of a listing and in its reverse.               *)
LEMMA FirstAndLast ==
    ASSUME NEW T, IsFiniteSet(T), T # {}, T \subseteq Entry
    PROVE  /\ \E x \in T : \A y \in T : ~Ahead(y, x)
           /\ \E x \in T : \A y \in T : ~Ahead(x, y)
<1> DEFINE R == {p \in T \X T : Ahead(p[1], p[2])}
           Q == {p \in T \X T : Ahead(p[2], p[1])}
<1>1. \A x, y \in T : (<<x, y>> \in R <=> Ahead(x, y)) /\ (<<x, y>> \in Q <=> Ahead(y, x))
    OBVIOUS
<1>2. \A x \in T : ~Ahead(x, x)
    BY AheadOrders
<1>3. \A x, y, z \in T : Ahead(x, y) /\ Ahead(y, z) => Ahead(x, z)
    BY AheadOrders
<1> HIDE DEF R, Q
<1>4. \E x \in T : \A y \in T : <<y, x>> \notin R
    <2>1. \A x \in T : <<x, x>> \notin R
        BY <1>1, <1>2
    <2>2. \A x, y, z \in T : <<x, y>> \in R /\ <<y, z>> \in R => <<x, z>> \in R
        BY <1>1, <1>3
    <2> QED
        BY <2>1, <2>2, Extreme
<1>5. \E x \in T : \A y \in T : <<y, x>> \notin Q
    <2>1. \A x \in T : <<x, x>> \notin Q
        BY <1>1, <1>2
    <2>2. \A x, y, z \in T : <<x, y>> \in Q /\ <<y, z>> \in Q => <<x, z>> \in Q
        BY <1>1, <1>3
    <2> QED
        BY <2>1, <2>2, Extreme
<1> QED
    BY <1>1, <1>4, <1>5

-------------------------------------------------------------------------------
(* Pages.                                                                    *)

(* A page is the beginning of what is asked for, and all of it unless it is  *)
(* full; a full one has a last entry.                                        *)
LEMMA Pages ==
    ASSUME NEW S, IsFiniteSet(S), S \subseteq Entry,
           \A e, f \in S : e.category = f.category,
           NEW limit \in Nat \ {0}
    PROVE  LET page == First(S, limit)
           IN  /\ page \subseteq S
               /\ IsFiniteSet(page)
               /\ \A f \in page : \A e \in S : Ahead(e, f) => e \in page
               /\ Cardinality(page) < limit => page = S
               /\ ~(Cardinality(page) < limit) =>
                      \E e \in page : \A f \in page \ {e} : Ahead(f, e)
<1> DEFINE page == First(S, limit)
           Foremost(e) == {f \in S : Ahead(f, e)}
<1>1. /\ page = {e \in S : Cardinality(Foremost(e)) < limit}
      /\ page \subseteq S
    BY DEF First
<1>2. IsFiniteSet(page)
    BY <1>1, FS_Subset
<1>3. \A e \in S : IsFiniteSet(Foremost(e)) /\ Cardinality(Foremost(e)) \in Nat
    BY FS_Subset, FS_CardinalityType
<1>4. ASSUME NEW f \in page, NEW e \in S, Ahead(e, f)
      PROVE  e \in page
    <2>1. Foremost(e) \subseteq Foremost(f)
        BY <1>1, <1>4, AheadOrders
    <2>2. Cardinality(Foremost(e)) <= Cardinality(Foremost(f))
        BY <1>1, <1>3, <2>1, FS_Subset
    <2> HIDE DEF Foremost
    <2> QED
        BY <1>1, <1>3, <2>2
<1>5. ASSUME Cardinality(page) < limit, page # S
      PROVE  FALSE
    <2> DEFINE rest == S \ page
    <2>1. rest # {} /\ IsFiniteSet(rest) /\ rest \subseteq Entry
        BY <1>1, <1>5, FS_Subset
    <2>2. PICK x \in rest : \A y \in rest : ~Ahead(y, x)
        <3> HIDE DEF rest, page
        <3> QED
            BY <2>1, FirstAndLast
    <2>3. Foremost(x) \subseteq page
        BY <2>2
    <2>4. Cardinality(Foremost(x)) <= Cardinality(page)
        <3> HIDE DEF page, Foremost
        <3> QED
            BY <1>2, <2>3, FS_Subset
    <2>5. Cardinality(page) \in Nat /\ x \in S /\ x \notin page
        BY <1>2, FS_CardinalityType
    <2> HIDE DEF page, Foremost
    <2> QED
        BY <1>1, <1>3, <1>5, <2>4, <2>5
<1>6. ASSUME ~(Cardinality(page) < limit)
      PROVE  \E e \in page : \A f \in page \ {e} : Ahead(f, e)
    <2>1. page # {}
        <3>1. ASSUME page = {}
              PROVE  FALSE
            <4>1. Cardinality(page) = 0
                BY <3>1, FS_EmptySet
            <4> HIDE DEF page
            <4> QED
                BY <1>6, <4>1
        <3> QED
            BY <3>1
    <2>2. PICK e \in page : \A f \in page : ~Ahead(e, f)
        <3>1. page \subseteq Entry
            BY <1>1
        <3> HIDE DEF page
        <3> QED
            BY <1>2, <2>1, <3>1, FirstAndLast
    <2>3. \A f \in page \ {e} : Ahead(f, e)
        <3> TAKE f \in page \ {e}
        <3>1. /\ e \in Entry /\ f \in Entry /\ e.category = f.category
              /\ ~Ahead(e, f) /\ e # f
            BY <1>1, <2>2
        <3> QED
            BY <3>1, AheadOrders
    <2> QED
        BY <2>3
<1> HIDE DEF page
<1>7. /\ page \subseteq S
      /\ IsFiniteSet(page)
      /\ \A f \in page : \A e \in S : Ahead(e, f) => e \in page
    BY <1>1, <1>2, <1>4
<1>8. /\ Cardinality(page) < limit => page = S
      /\ ~(Cardinality(page) < limit) =>
             \E e \in page : \A f \in page \ {e} : Ahead(f, e)
    BY <1>5, <1>6
<1> QED
    BY <1>7, <1>8 DEF page

(* A finite set is put in a row without repetition.                          *)
LEMMA InARow ==
    ASSUME NEW S, IsFiniteSet(S)
    PROVE  /\ SetToSeq(S) \in Seq(S)
           /\ \A i, j \in DOMAIN SetToSeq(S) : SetToSeq(S)[i] = SetToSeq(S)[j] => i = j
           /\ \A x \in S : \E i \in DOMAIN SetToSeq(S) : SetToSeq(S)[i] = x
<1> DEFINE n == Cardinality(S)
           f == SetToSeq(S)
<1>1. n \in Nat /\ ExistsBijection(1..n, S)
    BY FS_CardinalityType
<1>2. \E g \in [1..n -> S] : IsInjective(g)
    BY <1>1 DEF ExistsBijection, Bijection, Injection
<1>3. f \in [1..n -> S] /\ IsInjective(f)
    BY <1>2 DEF SetToSeq
<1>4. f \in Surjection(1..n, S)
    <2>1. IsFiniteSet(1..n) /\ Cardinality(1..n) = n
        BY <1>1, FS_Interval
    <2>2. f \in Injection(1..n, S)
        BY <1>3 DEF Injection
    <2> HIDE DEF f
    <2> QED
        BY <2>1, <2>2, FS_Injection
<1> HIDE DEF f, n
<1>5. f \in Seq(S)
    BY <1>1, <1>3
<1>6. \A i, j \in DOMAIN f : f[i] = f[j] => i = j
    BY <1>3 DEF IsInjective
<1>7. \A x \in S : \E i \in DOMAIN f : f[i] = x
    BY <1>3, <1>4 DEF Surjection
<1> QED
    BY <1>5, <1>6, <1>7 DEF f

-------------------------------------------------------------------------------
(* The writers.                                                              *)

(* What a writer may do, as far as the readers are concerned: a delivery that*)
(* changes is one of now.                                                    *)
Moved ==
    /\ clock <= clock'
    /\ \A d \in Deliveries : /\ delivery'[d] = delivery[d] \/ delivery'[d].at >= clock
                             /\ delivery'[d].at >= delivery[d].at

(* The fields of a record of a delivery.                                     *)
LEMMA RecordFields ==
    ASSUME NEW r \in Record
    PROVE  r.state \in DeliveryState \cup {"absent"} /\ r.at \in Nat
BY DEF Record

(* What the writers put into the index.                                      *)
LEMMA NowIsTyped ==
    ASSUME clock \in Nat, NEW s \in DeliveryState, NEW dis \in BOOLEAN
    PROVE  /\ Now(s, dis) \in Record
           /\ Now(s, dis).state = s /\ Now(s, dis).at = clock
           /\ Now(s, dis).disabled = dis /\ Now(s, dis).sending = FALSE
           /\ Exists(Now(s, dis))
BY DEF Now, Record, Exists, DeliveryState

(* The entries of a record: they carry its instant, and there is one for the *)
(* destination and for every filter it matches.                              *)
LEMMA EntriesAre ==
    ASSUME NEW d \in Deliveries, NEW r \in Record
    PROVE  /\ EntriesOf(d, r) \subseteq Entry
           /\ IsFiniteSet(EntriesOf(d, r))
           /\ \A e \in EntriesOf(d, r) : e.id = d /\ e.at = r.at
           /\ Exists(r) => [category |-> "DESTINATION", at |-> r.at, id |-> d]
                               \in EntriesOf(d, r)
           /\ \A f \in Filters : Matches(r, f) =>
                  [category |-> f, at |-> r.at, id |-> d] \in EntriesOf(d, r)
<1> DEFINE E(c) == [category |-> c, at |-> r.at, id |-> d]
           C == Categories(r) \cap Searched
           four == {E("ALL"), E(r.state), E("DESTINATION"), E("TERMINAL_FAILURE")}
<1>1. r.at \in Nat
    BY RecordFields
<1>2. C \subseteq Category /\ C \subseteq {"ALL", r.state, "DESTINATION", "TERMINAL_FAILURE"}
    BY DEF Categories, Searched, Category
<1>3. EntriesOf(d, r) = {E(c) : c \in C}
    BY DEF EntriesOf
<1>4. /\ Exists(r) => "DESTINATION" \in C
      /\ \A f \in Filters : Matches(r, f) => f \in C
    BY DEF Categories, Searched, Matches
<1> HIDE DEF C
<1>5. IsFiniteSet(EntriesOf(d, r))
    <2>1. EntriesOf(d, r) \subseteq four
        BY <1>2, <1>3
    <2>2. four = (({} \cup {E("ALL")}) \cup {E(r.state)})
                     \cup {E("DESTINATION")} \cup {E("TERMINAL_FAILURE")}
        OBVIOUS
    <2> HIDE DEF E, four
    <2>3. IsFiniteSet(four)
        BY <2>2, FS_EmptySet, FS_AddElement
    <2> QED
        BY <2>1, <2>3, FS_Subset
<1>6. /\ \A c \in Category : E(c) \in Entry
      /\ \A c \in Category : E(c).id = d /\ E(c).at = r.at
    BY <1>1 DEF Entry
<1>7. \A e \in EntriesOf(d, r) : e \in Entry /\ e.id = d /\ e.at = r.at
    <2> HIDE DEF E
    <2> QED
        BY <1>2, <1>3, <1>6
<1>8. Exists(r) => [category |-> "DESTINATION", at |-> r.at, id |-> d] \in EntriesOf(d, r)
    BY <1>3, <1>4
<1>9. \A f \in Filters : Matches(r, f) =>
          [category |-> f, at |-> r.at, id |-> d] \in EntriesOf(d, r)
    BY <1>3, <1>4
<1> QED
    BY <1>5, <1>7, <1>8, <1>9

(* Replacing a record keeps the index true.                                  *)
LEMMA ReplaceKeeps ==
    ASSUME DeliveryTyped, IndexInv, NEW d \in Deliveries,
           NEW s \in DeliveryState, NEW dis \in BOOLEAN, dis => s = "scheduled",
           Replace(d, delivery[d], Now(s, dis)), clock' = clock
    PROVE  DeliveryTyped' /\ IndexInv' /\ Moved
<1> DEFINE new == Now(s, dis)
           old == delivery[d]
<1>1. /\ clock \in Nat
      /\ delivery \in [Deliveries -> Record]
      /\ \A x \in Deliveries : delivery[x].at \in Nat /\ delivery[x].at <= clock
    BY RecordFields DEF DeliveryTyped
<1>2. /\ new \in Record /\ new.state = s /\ new.at = clock
      /\ new.disabled = dis /\ new.sending = FALSE /\ Exists(new)
    BY <1>1, NowIsTyped
<1>3. /\ delivery'[d] = new
      /\ \A x \in Deliveries \ {d} : delivery'[x] = delivery[x]
      /\ delivery' \in [Deliveries -> Record]
      /\ entries' = (entries \ EntriesOf(d, old)) \cup EntriesOf(d, new)
    BY <1>1, <1>2 DEF Replace
<1> HIDE DEF new
<1>4. Moved
    BY <1>1, <1>2, <1>3 DEF Moved
<1>5. DeliveryTyped'
    BY <1>1, <1>2, <1>3 DEF DeliveryTyped
<1>6. old \in Record
    BY <1>1
<1>7. /\ EntriesOf(d, new) \subseteq Entry
      /\ IsFiniteSet(EntriesOf(d, new))
      /\ \A e \in EntriesOf(d, new) : e.id = d /\ e.at = clock
    BY <1>2, EntriesAre
<1>8. entries' \subseteq Entry
    BY <1>3, <1>7 DEF IndexInv
<1>9. IsFiniteSet(entries')
    BY <1>3, <1>7, FS_Subset, FS_Union DEF IndexInv
<1>10. \A e \in entries' : Exists(delivery'[e.id]) /\ e.at <= delivery'[e.id].at
    <2> TAKE e \in entries'
    <2>1. e.id \in Deliveries /\ e.at \in Nat
        BY <1>8, EntryFields
    <2>2. CASE e \in EntriesOf(d, new)
        BY <1>2, <1>3, <1>7, <2>2, <1>1
    <2>3. CASE e \in entries
        <3>1. Exists(delivery[e.id]) /\ e.at <= delivery[e.id].at
            BY <2>3 DEF IndexInv
        <3> QED
            BY <1>1, <1>2, <1>3, <2>1, <3>1
    <2> QED
        BY <1>3, <2>2, <2>3
<1>11. ASSUME NEW x \in Deliveries, ~delivery'[x].sending
       PROVE  EntriesOf(x, delivery'[x]) \subseteq entries'
    <2>1. CASE x = d
        BY <1>3, <2>1
    <2>2. CASE x # d
        <3>1. EntriesOf(x, delivery[x]) \subseteq entries /\ delivery'[x] = delivery[x]
            BY <1>3, <1>11, <2>2 DEF IndexInv
        <3>2. \A e \in EntriesOf(x, delivery[x]) : e.id = x
            BY <1>1, EntriesAre
        <3>3. \A e \in EntriesOf(d, old) : e.id = d
            BY <1>6, EntriesAre
        <3> QED
            BY <1>3, <2>2, <3>1, <3>2, <3>3
    <2> QED
        BY <2>1, <2>2
<1>12. IndexInv'
    BY <1>8, <1>9, <1>10, <1>11 DEF IndexInv, EntriesOf, Categories, Searched, Exists, Failure
<1> QED
    BY <1>4, <1>5, <1>12

(* The start of an attempt leaves the entries behind.                        *)
LEMMA StartKeeps ==
    ASSUME DeliveryTyped, IndexInv, NEW d \in Deliveries, StartAttempt(d)
    PROVE  DeliveryTyped' /\ IndexInv' /\ Moved
<1> DEFINE new == delivery'[d]
<1>1. /\ clock \in Nat /\ clock' = clock /\ entries' = entries
      /\ delivery \in [Deliveries -> Record]
      /\ \A x \in Deliveries : delivery[x].at \in Nat /\ delivery[x].at <= clock
      /\ delivery[d].state = "in_progress"
    BY RecordFields DEF DeliveryTyped, StartAttempt
<1>2. new = [[delivery[d] EXCEPT !.sending = TRUE] EXCEPT !.at = clock]
    BY <1>1 DEF StartAttempt
<1>3. /\ new \in Record /\ new.state = "in_progress" /\ new.at = clock
      /\ new.disabled = delivery[d].disabled /\ new.sending = TRUE
    BY <1>1, <1>2 DEF Record
<1>4. delivery' \in [Deliveries -> Record]
    BY <1>1, <1>3 DEF StartAttempt
<1>5. \A x \in Deliveries \ {d} : delivery'[x] = delivery[x]
    BY <1>1 DEF StartAttempt
<1>6. Moved
    BY <1>1, <1>3, <1>5 DEF Moved
<1>7. ~delivery[d].disabled
    BY <1>1 DEF DeliveryTyped
<1>8. DeliveryTyped'
    BY <1>1, <1>3, <1>4, <1>5, <1>7 DEF DeliveryTyped
<1>9. \A e \in entries : Exists(delivery'[e.id]) /\ e.at <= delivery'[e.id].at
    <2> TAKE e \in entries
    <2>1. /\ e.id \in Deliveries /\ e.at \in Nat
          /\ Exists(delivery[e.id]) /\ e.at <= delivery[e.id].at
        BY EntryFields DEF IndexInv
    <2> QED
        BY <1>1, <1>3, <1>5, <2>1 DEF Exists
<1>10. \A x \in Deliveries :
          ~delivery'[x].sending => EntriesOf(x, delivery'[x]) \subseteq entries
    BY <1>3, <1>5 DEF IndexInv
<1>11. IndexInv'
    BY <1>1, <1>9, <1>10 DEF IndexInv, EntriesOf, Categories, Searched, Exists, Failure
<1> QED
    BY <1>6, <1>8, <1>11

-------------------------------------------------------------------------------
(* What others do leaves a listing and a resumption true.                    *)

(* The fields of a listing.                                                  *)
LEMMA ListingFields ==
    ASSUME listing \in Listing
    PROVE  /\ listing.client \in {"script", "console", "count"}
           /\ listing.filter \in Filters \cup {"ALL"}
           /\ listing.from \in Nat /\ listing.to \in Nat /\ listing.since \in Nat
           /\ listing.cursor \in Entry \cup {NoEntry}
           /\ listing.issued \in Nat
           /\ listing.page \subseteq Entry
           /\ listing.found \subseteq Deliveries
           /\ listing.result \in Seq(Deliveries)
           /\ listing.step \in {"idle", "query", "resolve", "next", "done", "refused"}
BY DEF Listing

(* The fields of a resumption.                                               *)
LEMMA ResumeFields ==
    ASSUME resume \in Resume
    PROVE  /\ resume.step \in {"idle", "read", "write", "done"}
           /\ resume.ids \subseteq Deliveries
           /\ resume.saw \in Record
           /\ resume.id \in Nat
           /\ resume.started \in Nat
           /\ resume.older \in [Deliveries -> Nat]
BY DEF Resume

(* No delivery is newer than now ...                                         *)
LEMMA InstantsAreNumbers ==
    ASSUME DeliveryTyped
    PROVE  /\ clock \in Nat
           /\ \A d \in Deliveries : /\ delivery[d] \in Record
                                    /\ delivery[d].at \in Nat
                                    /\ delivery[d].at <= clock
BY RecordFields DEF DeliveryTyped

(* ... before a step as after it.                                            *)
LEMMA InstantsStayNumbers ==
    ASSUME DeliveryTyped'
    PROVE  /\ clock' \in Nat
           /\ \A d \in Deliveries : /\ delivery'[d] \in Record
                                    /\ delivery'[d].at \in Nat
                                    /\ delivery'[d].at <= clock'
<1>1. \A d \in Deliveries : delivery'[d] \in Record
    BY DEF DeliveryTyped
<1>2. \A d \in Deliveries : delivery'[d].at \in Nat
    BY <1>1, RecordFields
<1> QED
    BY <1>1, <1>2 DEF DeliveryTyped

(* A delivery that changes under a listing gets a later key, and is not      *)
(* stable any more.                                                          *)
LEMMA ListingKept ==
    ASSUME DeliveryTyped, ListingTyped, Backwards, Covered,
           DeliveryTyped', Moved, listing' = listing
    PROVE  ListingTyped' /\ Backwards' /\ Covered'
<1>1. /\ clock \in Nat /\ clock' \in Nat /\ clock <= clock'
      /\ \A d \in Deliveries : /\ delivery[d].at \in Nat /\ delivery'[d].at \in Nat
                               /\ delivery'[d].at >= delivery[d].at
                               /\ delivery'[d] = delivery[d] \/ delivery'[d].at >= clock
    BY InstantsAreNumbers, InstantsStayNumbers DEF Moved
<1>2. /\ listing \in Listing /\ listing.since <= clock
      /\ listing.since \in Nat /\ listing.page \subseteq Entry
      /\ listing.cursor \in Entry \cup {NoEntry}
    BY ListingFields DEF ListingTyped
<1>3. \A e \in listing.page : e.id \in Deliveries /\ e.at \in Nat
    BY <1>2, EntryFields
<1>4. ListingTyped'
    <2>1. \A e \in listing.page : e.at <= delivery'[e.id].at
        BY <1>1, <1>3 DEF ListingTyped
    <2>2. listing.since <= clock'
        BY <1>1, <1>2
    <2> QED
        BY <2>1, <2>2 DEF ListingTyped
<1>5. Backwards'
    <2>1. \A d \in Deliveries : Done(d)' = Done(d)
        BY DEF Done, Results
    <2>2. ASSUME NEW d \in Deliveries, listing.cursor # NoEntry,
                 ~Older(Own(d), listing.cursor)
          PROVE  ~Older(Own(d)', listing.cursor)
        <3>1. listing.cursor.at \in Nat /\ listing.cursor.id \in Nat /\ d \in Nat
            BY <1>2, <2>2, EntryFields, SearchAssumption
        <3> QED
            BY <1>1, <2>2, <3>1 DEF Older, Own
    <2>3. \A d \in Deliveries : \A e \in listing.page :
              e.id = d /\ e.at < delivery[d].at => e.at < delivery'[d].at
        BY <1>1, <1>3
    <2>4. \A d \in Deliveries : listing.client # "count" /\ Done(d) =>
              /\ listing.cursor # NoEntry => ~Older(Own(d), listing.cursor)
              /\ \A e \in listing.page : e.id = d => e.at < delivery[d].at
        BY DEF Backwards
    <2>5. \A d \in Deliveries : listing.client # "count" /\ Done(d) =>
              /\ listing.cursor # NoEntry => ~Older(Own(d)', listing.cursor)
              /\ \A e \in listing.page : e.id = d => e.at < delivery'[d].at
        BY <2>2, <2>3, <2>4
    <2>6. listing.client # "count" =>
              /\ \A i, j \in DOMAIN listing.result :
                     listing.result[i] = listing.result[j] => i = j
              /\ \A d \in listing.found : d \notin Results
              /\ listing.cursor # NoEntry =>
                     \A e \in listing.page : ~Older(e, listing.cursor)
        BY DEF Backwards
    <2>7. Results' = Results
        BY DEF Results
    <2> QED
        BY <2>1, <2>5, <2>6, <2>7 DEF Backwards, Older
<1>6. Covered'
    <2>1. SUFFICES ASSUME NEW d \in Deliveries, listing.step # "idle", Stable(d)'
                   PROVE  (\/ Done(d)
                           \/ listing.step = "query" /\ listing.cursor = NoEntry
                           \/ listing.step = "resolve" /\ Own(d) \in listing.page
                           \/ listing.step \in {"query", "resolve", "next"} /\ ToCome(d)
                           \/ listing.step = "refused")'
        BY DEF Covered
    <2>2. delivery'[d].at < listing.since
        BY <2>1 DEF Stable
    <2>3. delivery'[d] = delivery[d]
        BY <1>1, <1>2, <2>2
    <2>4. Stable(d)
        BY <2>1, <2>3 DEF Stable, Matches, Categories
    <2>5. /\ Done(d)' = Done(d) /\ Own(d)' = Own(d) /\ ToCome(d)' = ToCome(d)
        BY <2>3 DEF Done, Results, Own, ToCome, Ahead, Older
    <2> QED
        BY <2>1, <2>4, <2>5 DEF Covered
<1> QED
    BY <1>4, <1>5, <1>6

(* A delivery that changes under a resumption is not from before it any more.*)
LEMMA ResumeKept ==
    ASSUME DeliveryTyped, ResumeTyped, Reached,
           DeliveryTyped', Moved, resume' = resume
    PROVE  ResumeTyped' /\ Reached'
<1>1. /\ clock \in Nat /\ clock' \in Nat /\ clock <= clock'
      /\ \A d \in Deliveries : /\ delivery'[d].at \in Nat
                               /\ delivery'[d] = delivery[d] \/ delivery'[d].at >= clock
    BY InstantsAreNumbers, InstantsStayNumbers DEF Moved
<1>2. resume.started \in Nat /\ resume.started <= clock
    BY ResumeFields DEF ResumeTyped
<1>3. \A d \in Deliveries : delivery'[d].at < resume.started => delivery'[d] = delivery[d]
    BY <1>1, <1>2
<1>4. ResumeTyped'
    BY <1>1, <1>2 DEF ResumeTyped
<1>5. Reached'
    BY <1>3 DEF Reached
<1> QED
    BY <1>4, <1>5

-------------------------------------------------------------------------------
(* The steps of a listing.                                                   *)

(* A listing begins with nothing.                                            *)
LEMMA SearchSteps ==
    ASSUME Inductive, Search
    PROVE  ListingTyped' /\ Backwards' /\ Covered'
<1>1. PICK client \in Clients, filter \in Filters, from \in 0..clock :
          listing' = [NoListing EXCEPT !.step = "query", !.client = client,
                          !.filter = filter, !.from = from, !.since = clock,
                          !.to = IF client = "count" THEN MaxTime ELSE clock]
    BY DEF Search
<1>2. /\ clock \in Nat /\ clock' = clock /\ clock <= MaxTime /\ MaxTime \in Nat
      /\ from \in Nat
      /\ client \in {"script", "console", "count"}
    BY SearchAssumption DEF Inductive, DeliveryTyped, Search
<1>3. /\ listing'.step = "query" /\ listing'.client = client /\ listing'.filter = filter
      /\ listing'.from = from /\ listing'.since = clock
      /\ listing'.to = IF client = "count" THEN MaxTime ELSE clock
      /\ listing'.cursor = NoEntry /\ listing'.issued = 0
      /\ listing'.page = {} /\ listing'.found = {} /\ listing'.result = <<>>
    BY <1>1 DEF NoListing
<1>4. listing' \in Listing
    <2>1. listing' = [step |-> "query", client |-> client, filter |-> filter,
                      from |-> from, to |-> IF client = "count" THEN MaxTime ELSE clock,
                      since |-> clock, cursor |-> NoEntry, issued |-> 0,
                      page |-> {}, found |-> {}, result |-> <<>>]
        BY <1>1 DEF NoListing
    <2> QED
        BY <1>2, <2>1, EmptySeq DEF Listing
<1>5. ListingTyped'
    BY <1>2, <1>3, <1>4, FS_EmptySet DEF ListingTyped
<1>6. Results' = {} /\ \A d \in Deliveries : ~Done(d)'
    BY <1>3 DEF Results, Done
<1>7. Backwards'
    BY <1>3, <1>6 DEF Backwards
<1>8. Covered'
    BY <1>3 DEF Covered
<1> QED
    BY <1>5, <1>7, <1>8

(* What a page is, and the cursor that is its last entry.                    *)
LEMMA QueryPages ==
    ASSUME Inductive, Query
    PROVE  LET S == {e \in entries : InRange(e)}
               page == listing'.page
               cursor == listing'.cursor
           IN  /\ page \subseteq S /\ IsFiniteSet(page) /\ S \subseteq Entry
               /\ \A f \in page : \A e \in S : Ahead(e, f) => e \in page
               /\ cursor = NoEntry => page = S
               /\ cursor # NoEntry =>
                      cursor \in page /\ \A f \in page \ {cursor} : Ahead(f, cursor)
               /\ cursor \in Entry \cup {NoEntry}
               /\ listing' = [listing EXCEPT !.step = "resolve", !.page = page,
                                             !.cursor = cursor]
<1> DEFINE S == {e \in entries : InRange(e)}
           page == First(S, Page)
           cursor == IF Cardinality(page) < Page THEN NoEntry
                     ELSE CHOOSE e \in page : \A f \in page \ {e} : Ahead(f, e)
<1>1. listing' = [listing EXCEPT !.step = "resolve", !.page = page, !.cursor = cursor]
    BY DEF Query
<1>2. listing \in Listing
    BY DEF Inductive, ListingTyped
<1>3. listing'.page = page /\ listing'.cursor = cursor
    <2> HIDE DEF page, cursor
    <2> QED
        BY <1>1, <1>2 DEF Listing
<1>4. /\ IsFiniteSet(S) /\ S \subseteq Entry
      /\ \A e, f \in S : e.category = f.category
      /\ Page \in Nat \ {0}
    <2>1. S \subseteq entries /\ \A e \in S : e.category = listing.filter
        BY DEF InRange
    <2>2. IsFiniteSet(entries) /\ entries \subseteq Entry
        BY DEF Inductive, IndexInv
    <2> QED
        BY <2>1, <2>2, FS_Subset, SearchAssumption
<1> HIDE DEF S
<1>5. /\ page \subseteq S
      /\ IsFiniteSet(page)
      /\ \A f \in page : \A e \in S : Ahead(e, f) => e \in page
      /\ Cardinality(page) < Page => page = S
      /\ ~(Cardinality(page) < Page) =>
             \E e \in page : \A f \in page \ {e} : Ahead(f, e)
    BY <1>4, Pages
<1> HIDE DEF page
<1>6. /\ Cardinality(page) < Page => cursor = NoEntry
      /\ ~(Cardinality(page) < Page) =>
             cursor \in page /\ \A f \in page \ {cursor} : Ahead(f, cursor)
    BY <1>5
<1> HIDE DEF cursor
<1>7. cursor \in page => cursor # NoEntry /\ cursor \in Entry
    BY <1>4, <1>5, EntryFields
<1>8. /\ page \subseteq S /\ IsFiniteSet(page) /\ S \subseteq Entry
      /\ \A f \in page : \A e \in S : Ahead(e, f) => e \in page
      /\ cursor = NoEntry => page = S
      /\ cursor # NoEntry =>
             cursor \in page /\ \A f \in page \ {cursor} : Ahead(f, cursor)
      /\ cursor \in Entry \cup {NoEntry}
    BY <1>4, <1>5, <1>6, <1>7
<1> QED
    BY <1>1, <1>3, <1>8 DEF S

(* A query returns the entries after the cursor, up to the next.             *)
LEMMA QuerySteps ==
    ASSUME Inductive, Query
    PROVE  ListingTyped' /\ Backwards' /\ Covered'
<1> DEFINE S == {e \in entries : InRange(e)}
           page == listing'.page
           cursor == listing'.cursor
<1>1. /\ page \subseteq S /\ IsFiniteSet(page) /\ S \subseteq Entry
      /\ \A f \in page : \A e \in S : Ahead(e, f) => e \in page
      /\ cursor = NoEntry => page = S
      /\ cursor # NoEntry =>
             cursor \in page /\ \A f \in page \ {cursor} : Ahead(f, cursor)
      /\ cursor \in Entry \cup {NoEntry}
      /\ listing' = [listing EXCEPT !.step = "resolve", !.page = page, !.cursor = cursor]
    BY QueryPages
<1>2. /\ listing \in Listing
      /\ listing.step = "query" /\ listing.page = {} /\ listing.found = {}
      /\ listing.since \in Nat /\ listing.since <= clock /\ listing.since <= listing.to
      /\ listing.to \in Nat /\ listing.from \in Nat /\ listing.filter \in Filters
      /\ listing.cursor \in Entry \cup {NoEntry}
      /\ listing.cursor # NoEntry => listing.cursor.category = listing.filter
      /\ listing.cursor = NoEntry => listing.result = <<>>
      /\ clock' = clock /\ delivery' = delivery /\ entries' = entries
    BY ListingFields DEF Inductive, ListingTyped, Query
<1>3. /\ listing' \in Listing
      /\ listing'.step = "resolve" /\ listing'.client = listing.client
      /\ listing'.filter = listing.filter /\ listing'.from = listing.from
      /\ listing'.to = listing.to /\ listing'.since = listing.since
      /\ listing'.found = listing.found /\ listing'.result = listing.result
    <2>1. page \subseteq Entry
        BY <1>1
    <2> HIDE DEF page, cursor
    <2> QED
        BY <1>1, <1>2, <2>1 DEF Listing
<1>4. \A e \in S : /\ e \in entries /\ e.category = listing.filter
                   /\ listing.cursor # NoEntry => Ahead(listing.cursor, e)
    BY DEF InRange
<1>5. /\ \A e \in entries : e.at <= delivery[e.id].at
      /\ \A d \in Deliveries :
             ~delivery[d].sending => EntriesOf(d, delivery[d]) \subseteq entries
    BY DEF Inductive, IndexInv
<1>6. \A d \in Deliveries : delivery[d] \in Record /\ delivery[d].at \in Nat
    BY InstantsAreNumbers DEF Inductive
<1>7. Results' = Results /\ \A d \in Deliveries : Done(d)' <=> d \in Results
    BY <1>2, <1>3 DEF Results, Done
<1>8. \A e, f : Ahead(e, f)' = Ahead(e, f)
    BY <1>3 DEF Ahead
<1>9. \A d \in Deliveries : Own(d)' = Own(d) /\ Stable(d)' = Stable(d)
    BY <1>2, <1>3 DEF Own, Stable, Matches
<1>10. \A d \in Deliveries : Own(d) \in Entry
    BY <1>2, <1>6 DEF Own, Entry, Category
<1>11. ListingTyped'
    <2>1. \A e \in page : e.category = listing.filter /\ e.at <= delivery[e.id].at
        BY <1>1, <1>4, <1>5
    <2>2. cursor # NoEntry => cursor.category = listing.filter
        BY <1>1, <2>1
    <2> HIDE DEF S
    <2> QED
        BY <1>1, <1>2, <1>3, <2>1, <2>2, FS_EmptySet DEF ListingTyped
<1>12. Backwards'
    <2>1. ASSUME listing.client # "count"
          PROVE  /\ \A e, f : Ahead(e, f) <=> Older(f, e)
                 /\ \A i, j \in DOMAIN listing.result :
                       listing.result[i] = listing.result[j] => i = j
                 /\ \A d \in Deliveries : d \in Results /\ listing.cursor # NoEntry =>
                       ~Older(Own(d), listing.cursor)
        BY <2>1 DEF Ahead, Backwards, Inductive, Done
    <2>2. ASSUME NEW d \in Deliveries, d \in Results
          PROVE  listing.cursor # NoEntry
        BY <1>2, <2>2 DEF Results
    <2>3. ASSUME listing.client # "count", NEW d \in Deliveries, d \in Results,
                 cursor # NoEntry
          PROVE  ~Older(Own(d), cursor)
        <3>1. Ahead(listing.cursor, cursor) /\ listing.cursor \in Entry /\ cursor \in Entry
            BY <1>1, <1>2, <1>4, <2>2, <2>3
        <3>2. Older(cursor, listing.cursor) /\ ~Older(Own(d), listing.cursor)
            BY <2>1, <2>2, <2>3, <3>1
        <3> HIDE DEF cursor
        <3> QED
            BY <1>10, <3>1, <3>2, OlderOrders
    <2>4. ASSUME listing.client # "count", NEW d \in Deliveries, d \in Results,
                 NEW e \in page, e.id = d
          PROVE  e.at < delivery[d].at
        <3>1. /\ e \in Entry /\ Ahead(listing.cursor, e) /\ listing.cursor \in Entry
            BY <1>1, <1>2, <1>4, <2>2, <2>4
        <3>2. Older(e, listing.cursor) /\ ~Older(Own(d), listing.cursor)
            BY <2>1, <2>2, <2>4, <3>1
        <3>3. Own(d).at = delivery[d].at /\ Own(d).id = d
            BY DEF Own
        <3>4. /\ e.at \in Nat /\ e.id \in Nat /\ delivery[d].at \in Nat
              /\ listing.cursor.at \in Nat /\ listing.cursor.id \in Nat
            BY <1>6, <3>1, EntryFields
        <3> QED
            BY <2>4, <3>2, <3>3, <3>4 DEF Older
    <2>5. ASSUME listing.client # "count", cursor # NoEntry, NEW e \in page
          PROVE  ~Older(e, cursor)
        <3>1. e \in Entry /\ cursor \in Entry
            BY <1>1, <2>5
        <3>2. e = cursor \/ Older(cursor, e)
            BY <1>1, <2>1, <2>5
        <3> HIDE DEF cursor
        <3> QED
            BY <3>1, <3>2, OlderOrders
    <2> HIDE DEF S
    <2> QED
        BY <1>2, <1>3, <1>7, <1>9, <2>1, <2>3, <2>4, <2>5 DEF Backwards
<1>13. Covered'
    <2>1. SUFFICES ASSUME NEW d \in Deliveries, Stable(d)', ~Done(d)', Own(d) \notin page
                   PROVE  ToCome(d)'
        BY <1>3, <1>9 DEF Covered
    <2>2. /\ Stable(d) /\ d \notin Results /\ ~Done(d)
        BY <1>2, <1>7, <1>9, <2>1 DEF Done
    <2>3. listing.cursor = NoEntry \/ Ahead(listing.cursor, Own(d))
        <3>1. listing.step = "query" /\ Covered
            BY <1>2 DEF Inductive
        <3>2. \/ listing.step = "query" /\ listing.cursor = NoEntry
              \/ ToCome(d)
            BY <2>2, <3>1 DEF Covered
        <3> QED
            BY <3>2 DEF ToCome
    <2>4. Own(d) \in entries
        <3>1. /\ Matches(delivery[d], listing.filter) /\ ~delivery[d].sending
              /\ listing.filter \in Filters /\ delivery[d] \in Record
            BY <1>2, <1>6, <2>2 DEF Stable
        <3>2. [category |-> listing.filter, at |-> delivery[d].at, id |-> d]
                  \in EntriesOf(d, delivery[d])
            BY <3>1, EntriesAre
        <3>3. EntriesOf(d, delivery[d]) \subseteq entries
            BY <1>5, <3>1
        <3> QED
            BY <3>2, <3>3 DEF Own
    <2>5. Own(d) \in S
        <3>1. Own(d).category = listing.filter /\ Own(d).at = delivery[d].at
            BY DEF Own
        <3>2. delivery[d].at \in listing.from..listing.to
            BY <1>2, <1>6, <2>2 DEF Stable
        <3> QED
            BY <2>3, <2>4, <3>1, <3>2 DEF InRange
    <2>6. /\ cursor # NoEntry /\ cursor # Own(d) /\ ~Ahead(Own(d), cursor)
          /\ cursor \in Entry /\ cursor.category = Own(d).category
        <3>1. cursor # NoEntry
            BY <1>1, <2>1, <2>5
        <3>2. cursor \in page /\ cursor \in S
            BY <1>1, <3>1
        <3> QED
            BY <1>1, <1>4, <2>1, <2>5, <3>1, <3>2
    <2>7. Ahead(cursor, Own(d))
        <3> HIDE DEF cursor
        <3> QED
            BY <1>10, <2>6, AheadOrders
    <2> QED
        BY <1>8, <1>9, <2>6, <2>7 DEF ToCome
<1> QED
    BY <1>11, <1>12, <1>13

(* An entry is looked up: its delivery is found while it is what it was.     *)
LEMMA ResolveSteps ==
    ASSUME Inductive, Resolve
    PROVE  ListingTyped' /\ Backwards' /\ Covered'
<1>1. PICK e \in listing.page :
          listing' = [listing EXCEPT
              !.page = @ \ {e},
              !.found = IF Current(e, delivery[e.id]) THEN @ \cup {e.id} ELSE @]
    BY DEF Resolve
<1>2. /\ listing \in Listing /\ listing.page \subseteq Entry
      /\ listing.found \subseteq Deliveries
      /\ listing.step = "resolve"
      /\ listing.cursor \in Entry \cup {NoEntry}
      /\ \A f \in listing.page : f.category = listing.filter /\ f.at <= delivery[f.id].at
      /\ clock' = clock /\ delivery' = delivery
    BY ListingFields DEF Inductive, ListingTyped, Resolve
<1> DEFINE d0 == e.id
           found == IF Current(e, delivery[e.id]) THEN listing.found \cup {e.id}
                    ELSE listing.found
           page == listing.page \ {e}
<1>3. /\ e \in Entry /\ d0 \in Deliveries
      /\ e = [category |-> listing.filter, at |-> e.at, id |-> d0]
    BY <1>2, EntryFields
<1>4. listing' = [[listing EXCEPT !.page = page] EXCEPT !.found = found]
    BY <1>1, <1>2 DEF Listing
<1>5. found \subseteq Deliveries /\ page \subseteq Entry
    BY <1>2, <1>3
<1>6. IsFiniteSet(found) /\ IsFiniteSet(page)
    BY FS_AddElement, FS_RemoveElement DEF Inductive, ListingTyped
<1>7. /\ listing' \in Listing
      /\ listing'.page = page /\ listing'.found = found
      /\ listing'.step = listing.step /\ listing'.client = listing.client
      /\ listing'.filter = listing.filter /\ listing'.from = listing.from
      /\ listing'.to = listing.to /\ listing'.since = listing.since
      /\ listing'.cursor = listing.cursor /\ listing'.result = listing.result
    <2> HIDE DEF found, page
    <2> QED
        BY <1>2, <1>4, <1>5 DEF Listing
<1>8. /\ Results' = Results
      /\ \A d \in Deliveries : Own(d)' = Own(d) /\ Stable(d)' = Stable(d)
                               /\ ToCome(d)' = ToCome(d)
    BY <1>2, <1>7 DEF Results, Own, Stable, Matches, ToCome, Ahead
<1>9. \A d \in Deliveries : Done(d)' <=> d \in Results \/ d \in found
    BY <1>7, <1>8 DEF Done
<1>10. /\ \A d \in Deliveries : d \in listing.found => d \in found
       /\ \A d \in found : d \in listing.found \/ (d = d0 /\ Current(e, delivery[d0]))
       /\ Current(e, delivery[d0]) => d0 \in found
    OBVIOUS
<1>11. Current(e, delivery[d0]) => Own(d0) = e
    BY <1>3 DEF Current, Own
<1> HIDE DEF found, d0
<1>12. ListingTyped'
    BY <1>2, <1>6, <1>7 DEF ListingTyped, Inductive
<1>13. Backwards'
    <2>1. ASSUME listing.client # "count"
          PROVE  /\ \A i, j \in DOMAIN listing.result :
                       listing.result[i] = listing.result[j] => i = j
                 /\ \A d \in listing.found : d \notin Results
                 /\ listing.cursor # NoEntry =>
                       \A f \in listing.page : ~Older(f, listing.cursor)
                 /\ \A d \in Deliveries : d \in Results \/ d \in listing.found =>
                       /\ listing.cursor # NoEntry => ~Older(Own(d), listing.cursor)
                       /\ \A f \in listing.page : f.id = d => f.at < delivery[d].at
        BY <2>1 DEF Backwards, Inductive, Done
    <2>2. ASSUME listing.client # "count", Current(e, delivery[d0])
          PROVE  /\ d0 \notin Results
                 /\ listing.cursor # NoEntry => ~Older(Own(d0), listing.cursor)
                 /\ \A f \in page : f.id = d0 => f.at < delivery[d0].at
        <3>1. e.at = delivery[d0].at /\ e.at \in Nat /\ e.id = d0
            BY <1>3, <2>2, EntryFields DEF Current, d0
        <3>2. d0 \notin Results
            BY <1>3, <2>1, <2>2, <3>1
        <3>3. listing.cursor # NoEntry => ~Older(Own(d0), listing.cursor)
            BY <1>11, <2>1, <2>2
        <3>4. ASSUME NEW f \in page, f.id = d0
              PROVE  f.at < delivery[d0].at
            <4>1. /\ f \in Entry /\ f # e /\ f.at \in Nat
                  /\ f = [category |-> listing.filter, at |-> f.at, id |-> d0]
                  /\ f.at <= delivery[d0].at
                BY <1>2, <3>4, EntryFields
            <4>2. f.at # e.at
                BY <1>3, <4>1
            <4> QED
                BY <3>1, <4>1, <4>2
        <3> QED
            BY <3>2, <3>3, <3>4
    <2>3. listing.client # "count" =>
              /\ \A d \in found : d \notin Results
              /\ \A d \in Deliveries : d \in Results \/ d \in found =>
                    /\ listing.cursor # NoEntry => ~Older(Own(d), listing.cursor)
                    /\ \A f \in page : f.id = d => f.at < delivery[d].at
        BY <1>10, <2>1, <2>2
    <2> QED
        BY <1>2, <1>7, <1>8, <1>9, <2>1, <2>3 DEF Backwards
<1>14. Covered'
    <2>1. SUFFICES ASSUME NEW d \in Deliveries, Stable(d)
                   PROVE  \/ d \in Results \/ d \in found
                          \/ Own(d) \in page
                          \/ ToCome(d)
        BY <1>2, <1>7, <1>8, <1>9 DEF Covered
    <2>2. \/ d \in Results \/ d \in listing.found
          \/ Own(d) \in listing.page
          \/ ToCome(d)
        BY <1>2, <2>1 DEF Inductive, Covered, Done
    <2>3. CASE Own(d) = e
        <3>1. d = d0 /\ e.at = delivery[d].at
            BY <2>3 DEF Own, d0
        <3>2. Current(e, delivery[d0])
            BY <2>1, <3>1 DEF Current, Stable
        <3> QED
            BY <1>10, <3>1, <3>2
    <2>4. CASE Own(d) # e
        BY <1>10, <2>2, <2>4
    <2> QED
        BY <2>3, <2>4
<1> QED
    BY <1>12, <1>13, <1>14

(* Sequences one after the other: what they hold, and that nothing is held   *)
(* twice when that is so of each and they hold nothing together.             *)
LEMMA Joined ==
    ASSUME NEW D, NEW s \in Seq(D), NEW t \in Seq(D)
    PROVE  LET u == s \o t
           IN  /\ u \in Seq(D)
               /\ \A k \in DOMAIN u : \/ \E i \in DOMAIN s : u[k] = s[i]
                                      \/ \E j \in DOMAIN t : u[k] = t[j]
               /\ \A i \in DOMAIN s : \E k \in DOMAIN u : u[k] = s[i]
               /\ \A j \in DOMAIN t : \E k \in DOMAIN u : u[k] = t[j]
               /\ /\ \A i, j \in DOMAIN s : s[i] = s[j] => i = j
                  /\ \A i, j \in DOMAIN t : t[i] = t[j] => i = j
                  /\ \A i \in DOMAIN s : \A j \in DOMAIN t : s[i] # t[j]
                  => \A i, j \in DOMAIN u : u[i] = u[j] => i = j
<1> DEFINE u == s \o t
<1>1. /\ u \in Seq(D) /\ Len(u) = Len(s) + Len(t)
      /\ \A i \in 1 .. Len(s) + Len(t) :
             u[i] = IF i <= Len(s) THEN s[i] ELSE t[i - Len(s)]
    BY ConcatProperties
<1>2. /\ Len(s) \in Nat /\ DOMAIN s = 1 .. Len(s)
      /\ Len(t) \in Nat /\ DOMAIN t = 1 .. Len(t)
    BY LenProperties
<1>3. DOMAIN u = 1 .. Len(s) + Len(t)
    <2> HIDE DEF u
    <2> QED
        BY <1>1, LenProperties
<1> HIDE DEF u
<1>4. \A k \in DOMAIN u : \/ k \in DOMAIN s /\ u[k] = s[k]
                          \/ /\ k - Len(s) \in DOMAIN t /\ k - Len(s) \in Int
                             /\ u[k] = t[k - Len(s)]
    BY <1>1, <1>2, <1>3
<1>5. \A i \in DOMAIN s : i \in DOMAIN u /\ u[i] = s[i]
    BY <1>1, <1>2, <1>3
<1>6. \A j \in DOMAIN t : j + Len(s) \in DOMAIN u /\ u[j + Len(s)] = t[j]
    <2> TAKE j \in DOMAIN t
    <2>1. /\ j + Len(s) \in 1 .. Len(s) + Len(t) /\ ~(j + Len(s) <= Len(s))
          /\ (j + Len(s)) - Len(s) = j
        BY <1>2
    <2> QED
        BY <1>1, <1>3, <2>1
<1>7. ASSUME \A i, j \in DOMAIN s : s[i] = s[j] => i = j,
             \A i, j \in DOMAIN t : t[i] = t[j] => i = j,
             \A i \in DOMAIN s : \A j \in DOMAIN t : s[i] # t[j],
             NEW k \in DOMAIN u, NEW l \in DOMAIN u, u[k] = u[l]
      PROVE  k = l
    <2>1. k \in Nat /\ l \in Nat
        BY <1>2, <1>3
    <2>2. CASE k \in DOMAIN s /\ u[k] = s[k]
        BY <1>4, <1>7, <2>2
    <2>3. CASE /\ k - Len(s) \in DOMAIN t
               /\ u[k] = t[k - Len(s)]
        <3>1. l - Len(s) \in DOMAIN t /\ u[l] = t[l - Len(s)]
            BY <1>4, <1>7, <2>3
        <3>2. k - Len(s) = l - Len(s)
            BY <1>7, <2>3, <3>1
        <3> QED
            BY <1>2, <2>1, <3>2
    <2> QED
        BY <1>4, <2>2, <2>3
<1>8. /\ \A k \in DOMAIN u : \/ \E i \in DOMAIN s : u[k] = s[i]
                             \/ \E j \in DOMAIN t : u[k] = t[j]
      /\ \A i \in DOMAIN s : \E k \in DOMAIN u : u[k] = s[i]
      /\ \A j \in DOMAIN t : \E k \in DOMAIN u : u[k] = t[j]
    BY <1>4, <1>5, <1>6
<1> QED
    BY <1>1, <1>7, <1>8 DEF u

(* A page is answered: what was found follows what was returned.             *)
LEMMA ServeSteps ==
    ASSUME Inductive, Serve
    PROVE  ListingTyped' /\ Backwards' /\ Covered'
<1> DEFINE row == SetToSeq(listing.found)
           result == listing.result \o row
           step == IF listing.cursor = NoEntry THEN "done" ELSE "next"
<1>1. /\ listing \in Listing
      /\ listing.found \subseteq Deliveries /\ IsFiniteSet(listing.found)
      /\ listing.result \in Seq(Deliveries)
      /\ listing.step = "resolve" /\ listing.page = {}
      /\ clock' = clock /\ delivery' = delivery /\ clock \in Nat
      /\ listing' = [listing EXCEPT !.step = step, !.result = result,
                                    !.found = {}, !.issued = clock]
    BY ListingFields DEF Inductive, ListingTyped, DeliveryTyped, Serve
<1>2. /\ row \in Seq(listing.found)
      /\ \A i, j \in DOMAIN row : row[i] = row[j] => i = j
      /\ \A x \in listing.found : \E i \in DOMAIN row : row[i] = x
    BY <1>1, InARow
<1> HIDE DEF row
<1>3. row \in Seq(Deliveries)
    BY <1>1, <1>2, SeqMonotonic
<1>4. \A i \in DOMAIN row : row[i] \in listing.found
    BY <1>2, LenProperties, ElementOfSeq
<1>5. /\ result \in Seq(Deliveries)
      /\ \A k \in DOMAIN result : \/ \E i \in DOMAIN listing.result : result[k] = listing.result[i]
                                  \/ \E j \in DOMAIN row : result[k] = row[j]
      /\ \A i \in DOMAIN listing.result : \E k \in DOMAIN result : result[k] = listing.result[i]
      /\ \A j \in DOMAIN row : \E k \in DOMAIN result : result[k] = row[j]
      /\ /\ \A i, j \in DOMAIN listing.result : listing.result[i] = listing.result[j] => i = j
         /\ \A i, j \in DOMAIN row : row[i] = row[j] => i = j
         /\ \A i \in DOMAIN listing.result : \A j \in DOMAIN row : listing.result[i] # row[j]
         => \A i, j \in DOMAIN result : result[i] = result[j] => i = j
    BY <1>1, <1>3, Joined
<1> HIDE DEF result
<1>6. step \in {"done", "next"} /\ (step = "done" <=> listing.cursor = NoEntry)
    OBVIOUS
<1> HIDE DEF step
<1>7. /\ listing' \in Listing
      /\ listing'.page = {} /\ listing'.found = {} /\ listing'.result = result
      /\ listing'.step = step /\ listing'.client = listing.client
      /\ listing'.filter = listing.filter /\ listing'.from = listing.from
      /\ listing'.to = listing.to /\ listing'.since = listing.since
      /\ listing'.cursor = listing.cursor
    BY <1>1, <1>5, <1>6 DEF Listing
<1>8. /\ \A d \in Deliveries : Own(d)' = Own(d) /\ Stable(d)' = Stable(d)
                               /\ ToCome(d)' = ToCome(d)
    BY <1>1, <1>7 DEF Own, Stable, Matches, ToCome, Ahead
<1>9. \A d \in Deliveries : /\ Done(d)' <=> Done(d)
                            /\ d \in Results' <=> Done(d)
    <2>1. \A d : d \in Results' <=> \E k \in DOMAIN result : result[k] = d
        BY <1>7 DEF Results
    <2>2. \A d : d \in Results <=> \E i \in DOMAIN listing.result : listing.result[i] = d
        BY DEF Results
    <2>3. \A d : d \in listing.found <=> \E j \in DOMAIN row : row[j] = d
        BY <1>2, <1>4
    <2>4. \A d \in Deliveries : d \in Results' <=> d \in Results \/ d \in listing.found
        BY <1>5, <2>1, <2>2, <2>3
    <2>5. \A d \in Deliveries : Done(d)' <=> d \in Results'
        BY <1>7 DEF Done
    <2> QED
        BY <2>4, <2>5 DEF Done
<1>10. ListingTyped'
    <2>1. /\ listing.since <= clock /\ listing.since <= listing.to
          /\ listing.filter \in Filters
          /\ listing.cursor # NoEntry => listing.cursor.category = listing.filter
        BY <1>1 DEF Inductive, ListingTyped
    <2> QED
        BY <1>1, <1>6, <1>7, <2>1, FS_EmptySet DEF ListingTyped
<1>11. Backwards'
    <2>1. ASSUME listing.client # "count"
          PROVE  /\ \A i, j \in DOMAIN listing.result :
                       listing.result[i] = listing.result[j] => i = j
                 /\ \A d \in listing.found : d \notin Results
                 /\ \A d \in Deliveries : Done(d) /\ listing.cursor # NoEntry =>
                        ~Older(Own(d), listing.cursor)
        BY <2>1 DEF Backwards, Inductive
    <2>2. ASSUME listing.client # "count"
          PROVE  \A i, j \in DOMAIN result : result[i] = result[j] => i = j
        <3>1. \A i \in DOMAIN listing.result : \A j \in DOMAIN row : listing.result[i] # row[j]
            BY <1>4, <2>1, <2>2 DEF Results
        <3> QED
            BY <1>2, <1>5, <2>1, <2>2, <3>1
    <2> QED
        BY <1>1, <1>7, <1>8, <1>9, <2>1, <2>2 DEF Backwards
<1>12. Covered'
    <2>1. SUFFICES ASSUME NEW d \in Deliveries, Stable(d)
                   PROVE  \/ Done(d)
                          \/ step = "next" /\ ToCome(d)
        BY <1>7, <1>8, <1>9 DEF Covered
    <2>2. listing.step = "resolve" /\ Covered
        BY <1>1 DEF Inductive
    <2>3. Done(d) \/ ToCome(d)
        BY <1>1, <2>1, <2>2 DEF Covered
    <2> QED
        BY <1>6, <2>3 DEF ToCome
<1> QED
    BY <1>10, <1>11, <1>12

(* The next page is asked for, or refused.                                   *)
LEMMA NextPageSteps ==
    ASSUME Inductive, NextPage
    PROVE  ListingTyped' /\ Backwards' /\ Covered'
<1>1. /\ listing \in Listing
      /\ listing.step = "next" /\ listing.page = {} /\ listing.found = {}
      /\ listing.cursor # NoEntry
      /\ clock' = clock /\ delivery' = delivery
    BY DEF Inductive, ListingTyped, NextPage
<1>2. PICK step \in {"query", "refused"} : listing' = [listing EXCEPT !.step = step]
    BY DEF NextPage
<1>3. /\ listing' \in Listing
      /\ listing'.page = {} /\ listing'.found = {} /\ listing'.result = listing.result
      /\ listing'.step = step /\ listing'.client = listing.client
      /\ listing'.filter = listing.filter /\ listing'.from = listing.from
      /\ listing'.to = listing.to /\ listing'.since = listing.since
      /\ listing'.cursor = listing.cursor
    BY <1>1, <1>2 DEF Listing
<1>4. /\ Results' = Results
      /\ \A d \in Deliveries : Own(d)' = Own(d) /\ Stable(d)' = Stable(d)
                               /\ ToCome(d)' = ToCome(d) /\ Done(d)' = Done(d)
    BY <1>1, <1>3 DEF Results, Own, Stable, Matches, ToCome, Ahead, Done
<1>5. ListingTyped'
    BY <1>1, <1>3, FS_EmptySet DEF Inductive, ListingTyped
<1>6. Backwards'
    BY <1>1, <1>3, <1>4 DEF Inductive, Backwards
<1>7. Covered'
    <2>1. SUFFICES ASSUME NEW d \in Deliveries, Stable(d)
                   PROVE  Done(d) \/ ToCome(d)
        BY <1>3, <1>4 DEF Covered
    <2>2. listing.step = "next" /\ Covered
        BY <1>1 DEF Inductive
    <2> QED
        BY <2>1, <2>2 DEF Covered
<1> QED
    BY <1>5, <1>6, <1>7

-------------------------------------------------------------------------------
(* The steps of a resumption.                                                *)

(* It sees every entry of the destination but those its page has no room for.*)
LEMMA ResumeQuerySteps ==
    ASSUME Inductive, ResumeQuery
    PROVE  ResumeTyped' /\ Reached'
<1> DEFINE ids == {e.id : e \in {f \in InDestination : OlderThan(f) < ResumePage}}
           older == [d \in Deliveries |-> OlderThan(OwnEntry(d))]
<1>1. /\ resume' = [NoResume EXCEPT !.step = "read", !.started = clock,
                                    !.ids = ids, !.older = older]
      /\ clock' = clock /\ delivery' = delivery
    BY DEF ResumeQuery
<1>2. clock \in Nat /\ \A d \in Deliveries : delivery[d] \in Record
    BY InstantsAreNumbers DEF Inductive
<1>3. InDestination \subseteq entries /\ InDestination \subseteq Entry
    BY DEF InDestination, Inductive, IndexInv
<1>4. ids \subseteq Deliveries
    BY <1>3, EntryFields
<1>5. older \in [Deliveries -> Nat]
    <2>1. \A e : OlderThan(e) \in Nat
        <3> TAKE e
        <3>1. IsFiniteSet({f \in InDestination : Older(f, e)})
            BY <1>3, FS_Subset DEF Inductive, IndexInv
        <3> QED
            BY <3>1, FS_CardinalityType DEF OlderThan
    <2> QED
        BY <2>1
<1>6. ASSUME NEW d \in Deliveries, delivery[d].disabled
      PROVE  older[d] >= ResumePage \/ d \in ids
    <2>1. delivery[d].state = "scheduled" /\ ~delivery[d].sending
        BY <1>6 DEF Inductive, DeliveryTyped
    <2>2. OwnEntry(d) \in EntriesOf(d, delivery[d])
        <3>1. Exists(delivery[d])
            BY <2>1 DEF Exists
        <3> QED
            BY <1>2, <3>1, EntriesAre DEF OwnEntry
    <2>3. OwnEntry(d) \in entries
        BY <2>1, <2>2 DEF Inductive, IndexInv
    <2>4. OwnEntry(d) \in InDestination /\ OwnEntry(d).id = d
        BY <2>3 DEF InDestination, OwnEntry
    <2>5. older[d] = OlderThan(OwnEntry(d)) /\ older[d] \in Nat
        BY <1>5
    <2>6. CASE OlderThan(OwnEntry(d)) < ResumePage
        BY <2>4, <2>6
    <2> QED
        BY <2>5, <2>6, SearchAssumption
<1> HIDE DEF ids, older
<1>7. /\ resume'.step = "read" /\ resume'.started = clock
      /\ resume'.ids = ids /\ resume'.older = older
    BY <1>1 DEF NoResume
<1>8. resume' \in Resume
    <2>1. resume' = [step |-> "read", ids |-> ids, saw |-> Absent, id |-> 0,
                     started |-> clock, older |-> older]
        BY <1>1 DEF NoResume
    <2>2. Absent \in Record
        BY DEF Absent, Record
    <2> QED
        BY <1>2, <1>4, <1>5, <2>1, <2>2 DEF Resume
<1>9. ResumeTyped'
    BY <1>1, <1>2, <1>7, <1>8 DEF ResumeTyped
<1>10. Reached'
    BY <1>1, <1>6, <1>7 DEF Reached
<1> QED
    BY <1>9, <1>10

(* It looks at one: what the destination blocked, it is about to schedule.   *)
LEMMA ResumeReadSteps ==
    ASSUME Inductive, ResumeRead
    PROVE  ResumeTyped' /\ Reached'
<1>1. PICK d0 \in resume.ids :
          resume' = IF Blocked(delivery[d0])
                    THEN [resume EXCEPT !.step = "write", !.id = d0,
                                        !.saw = delivery[d0], !.ids = @ \ {d0}]
                    ELSE [resume EXCEPT !.ids = @ \ {d0}]
    BY DEF ResumeRead
<1>2. /\ resume \in Resume /\ resume.step = "read" /\ resume.ids \subseteq Deliveries
      /\ resume.started <= clock
      /\ clock' = clock /\ delivery' = delivery
      /\ d0 \in Deliveries /\ d0 \in Nat /\ delivery[d0] \in Record
    BY ResumeFields, InstantsAreNumbers, SearchAssumption
    DEF Inductive, ResumeTyped, ResumeRead
<1>3. \A d \in Deliveries : delivery[d].disabled /\ delivery[d].at < resume.started =>
          resume.older[d] >= ResumePage \/ d \in resume.ids
    <2>1. resume.step = "read" /\ Reached
        BY <1>2 DEF Inductive
    <2> QED
        BY <2>1 DEF Reached
<1>4. CASE Blocked(delivery[d0])
    <2>1. /\ resume' \in Resume
          /\ resume'.step = "write" /\ resume'.started = resume.started
          /\ resume'.ids = resume.ids \ {d0} /\ resume'.older = resume.older
          /\ resume'.id = d0 /\ resume'.saw = delivery[d0]
        BY <1>1, <1>2, <1>4 DEF Resume
    <2> QED
        BY <1>2, <1>3, <2>1 DEF ResumeTyped, Reached
<1>5. CASE ~Blocked(delivery[d0])
    <2>1. /\ resume' \in Resume
          /\ resume'.step = "read" /\ resume'.started = resume.started
          /\ resume'.ids = resume.ids \ {d0} /\ resume'.older = resume.older
        BY <1>1, <1>2, <1>5 DEF Resume
    <2>2. ~delivery[d0].disabled
        BY <1>2, <1>5 DEF Blocked, TerminalState, Inductive, DeliveryTyped
    <2> QED
        BY <1>2, <1>3, <2>1, <2>2 DEF ResumeTyped, Reached
<1> QED
    BY <1>4, <1>5

(* It writes, passes over, or gives up.                                      *)
LEMMA ResumeWriteSteps ==
    ASSUME Inductive, ResumeWrite
    PROVE  /\ DeliveryTyped' /\ IndexInv' /\ Moved
           /\ ResumeTyped' /\ Reached'
<1> DEFINE d0 == resume.id
           new == Now("scheduled", FALSE)
<1>1. /\ resume \in Resume /\ resume.step = "write"
      /\ resume.started <= clock /\ resume.started \in Nat /\ d0 \in Deliveries
      /\ clock' = clock /\ clock \in Nat
      /\ \A d \in Deliveries : delivery[d].at \in Nat
      /\ DeliveryTyped /\ IndexInv
    BY ResumeFields, InstantsAreNumbers DEF Inductive, ResumeTyped, ResumeWrite
<1>2. \A d \in Deliveries : delivery[d].disabled /\ delivery[d].at < resume.started =>
          \/ resume.older[d] >= ResumePage \/ d \in resume.ids
          \/ d = d0 /\ resume.saw = delivery[d]
    <2>1. resume.step = "write" /\ Reached
        BY <1>1 DEF Inductive
    <2> QED
        BY <2>1 DEF Reached
<1>3. /\ [resume EXCEPT !.step = "read"] \in Resume
      /\ [resume EXCEPT !.step = "read"].step = "read"
      /\ [resume EXCEPT !.step = "read"].started = resume.started
      /\ [resume EXCEPT !.step = "read"].ids = resume.ids
      /\ [resume EXCEPT !.step = "read"].older = resume.older
    BY <1>1 DEF Resume
<1>4. ASSUME delivery' = delivery, entries' = entries
      PROVE  DeliveryTyped' /\ IndexInv' /\ Moved
    BY <1>1, <1>4 DEF DeliveryTyped, IndexInv, Moved, EntriesOf, Categories, Searched,
                      Exists, Failure
<1>5. CASE /\ delivery[d0] = resume.saw
           /\ Replace(d0, resume.saw, new)
           /\ resume' = [resume EXCEPT !.step = "read"]
    <2>1. "scheduled" \in DeliveryState
        BY DEF DeliveryState
    <2>2. DeliveryTyped' /\ IndexInv' /\ Moved
        BY <1>1, <1>5, <2>1, ReplaceKeeps
    <2>3. ResumeTyped'
        BY <1>1, <1>3, <1>5 DEF ResumeTyped
    <2>4. Reached'
        <3>1. delivery'[d0].at = clock
            <4>1. new.at = clock
                BY DEF Now
            <4>2. delivery'[d0] = new
                BY <1>1, <1>5 DEF Replace, DeliveryTyped
            <4> QED
                BY <4>1, <4>2
        <3>2. \A d \in Deliveries \ {d0} : delivery'[d] = delivery[d]
            BY <1>1, <1>5 DEF Replace, DeliveryTyped
        <3> HIDE DEF d0
        <3>3. \A d \in Deliveries : delivery'[d].at < resume.started => d # d0
            BY <1>1, <3>1
        <3> QED
            BY <1>2, <1>3, <1>5, <3>2, <3>3 DEF Reached
    <2> QED
        BY <2>2, <2>3, <2>4
<1>6. CASE /\ delivery[d0] # resume.saw
           /\ resume' = [resume EXCEPT !.step = "read"]
           /\ UNCHANGED <<delivery, entries>>
    <2>1. ResumeTyped'
        BY <1>1, <1>3, <1>6 DEF ResumeTyped
    <2>2. Reached'
        BY <1>2, <1>3, <1>6 DEF Reached
    <2> QED
        BY <1>4, <1>6, <2>1, <2>2
<1>7. CASE resume' = NoResume /\ UNCHANGED <<delivery, entries>>
    <2>1. NoResume \in Resume /\ NoResume.step = "idle" /\ NoResume.started = 0
        BY DEF NoResume, Resume, Absent, Record
    <2>2. ResumeTyped' /\ Reached'
        BY <1>1, <1>7, <2>1 DEF ResumeTyped, Reached
    <2> QED
        BY <1>4, <1>7, <2>2
<1> QED
    BY <1>5, <1>6, <1>7 DEF ResumeWrite

(* It ends when it has looked at all.                                        *)
LEMMA ResumeEndSteps ==
    ASSUME Inductive, ResumeEnd
    PROVE  ResumeTyped' /\ Reached'
<1>1. /\ resume \in Resume /\ resume.step = "read" /\ resume.ids = {}
      /\ resume.started <= clock
      /\ resume' = [resume EXCEPT !.step = "done"]
      /\ clock' = clock /\ delivery' = delivery /\ Reached
    BY DEF Inductive, ResumeTyped, ResumeEnd
<1>2. /\ resume' \in Resume
      /\ resume'.step = "done" /\ resume'.started = resume.started
      /\ resume'.older = resume.older
    BY <1>1 DEF Resume
<1> QED
    BY <1>1, <1>2 DEF ResumeTyped, Reached

-------------------------------------------------------------------------------
(* The theorems.                                                             *)

(* Nothing is delivered, listed or resumed at first.                         *)
LEMMA InitHolds ==
    ASSUME Init
    PROVE  Inductive
<1>1. /\ clock = 0 /\ delivery = [d \in Deliveries |-> Absent] /\ entries = {}
      /\ listing = NoListing /\ resume = NoResume
    BY DEF Init
<1>2. Absent \in Record /\ Absent.state = "absent" /\ Absent.at = 0 /\ ~Absent.disabled
      /\ ~Absent.sending
    BY DEF Absent, Record
<1>3. DeliveryTyped
    BY <1>1, <1>2, SearchAssumption DEF DeliveryTyped
<1>4. IndexInv
    <2>1. \A d \in Deliveries : EntriesOf(d, delivery[d]) = {}
        BY <1>1, <1>2 DEF EntriesOf, Categories, Exists, Failure
    <2> QED
        BY <1>1, <2>1, FS_EmptySet DEF IndexInv
<1>5. listing \in Listing
    BY <1>1, EmptySeq DEF NoListing, Listing
<1>6. /\ listing.step = "idle" /\ listing.page = {} /\ listing.found = {}
      /\ listing.cursor = NoEntry /\ listing.result = <<>>
      /\ listing.since = 0 /\ listing.to = 0
    BY <1>1 DEF NoListing
<1>7. ListingTyped
    BY <1>1, <1>5, <1>6, FS_EmptySet DEF ListingTyped
<1>8. ResumeTyped
    BY <1>1, <1>2 DEF ResumeTyped, NoResume, Resume
<1>9. Backwards
    BY <1>6 DEF Backwards, Done, Results
<1>10. Covered
    BY <1>6 DEF Covered
<1>11. Reached
    BY <1>1 DEF Reached, NoResume
<1> QED
    BY <1>3, <1>4, <1>7, <1>8, <1>9, <1>10, <1>11 DEF Inductive

(* A step of a writer: the readers stay.                                     *)
LEMMA WritersStep ==
    ASSUME Inductive, DeliveryTyped', IndexInv', Moved,
           listing' = listing, resume' = resume
    PROVE  Inductive'
BY ListingKept, ResumeKept DEF Inductive

(* A step of a reader: the deliveries and the index stay.                    *)
LEMMA IndexStays ==
    ASSUME Inductive, UNCHANGED <<clock, delivery, entries>>
    PROVE  DeliveryTyped' /\ IndexInv' /\ Moved
<1>1. DeliveryTyped /\ IndexInv
    BY DEF Inductive
<1>2. DeliveryTyped' /\ IndexInv'
    BY <1>1 DEF DeliveryTyped, IndexInv, EntriesOf, Categories, Searched, Exists, Failure
<1>3. Moved
    BY <1>1, InstantsAreNumbers DEF Moved
<1> QED
    BY <1>2, <1>3

(* Every step keeps the invariant.                                           *)
LEMMA StepHolds ==
    ASSUME Inductive, [Next]_vars
    PROVE  Inductive'
<1>1. DeliveryTyped /\ IndexInv
    BY DEF Inductive
<1>2. ASSUME NEW d \in Deliveries, Create(d) \/ Lease(d) \/ FinalizeAttempt(d) \/ Defer(d)
      PROVE  Inductive'
    <2>1. PICK s \in DeliveryState, dis \in BOOLEAN :
              (dis => s = "scheduled") /\ Replace(d, delivery[d], Now(s, dis))
        <3>1. /\ {"scheduled", "failed_terminal", "in_progress", "succeeded",
                  "retry_scheduled", "dead_lettered", "rate_limited"} \subseteq DeliveryState
              /\ Failure = {"dead_lettered", "failed_terminal"}
            BY DEF DeliveryState, Failure
        <3>2. CASE Create(d)
            <4>1. PICK s \in {"scheduled", "failed_terminal"} :
                      Replace(d, delivery[d], Now(s, FALSE))
                BY <3>2 DEF Create
            <4> QED
                BY <3>1, <4>1
        <3>3. CASE Lease(d)
            <4>1. Replace(d, delivery[d], Now("in_progress", FALSE))
                BY <3>3 DEF Lease
            <4> QED
                BY <3>1, <4>1
        <3>4. CASE FinalizeAttempt(d)
            <4>1. PICK s \in {"succeeded", "retry_scheduled"} \cup Failure :
                      Replace(d, delivery[d], Now(s, FALSE))
                BY <3>4 DEF FinalizeAttempt
            <4> QED
                BY <3>1, <4>1
        <3>5. CASE Defer(d)
            <4>1. CASE Replace(d, delivery[d], Now("rate_limited", FALSE))
                BY <3>1, <4>1
            <4>2. CASE \E disabled \in BOOLEAN :
                           Replace(d, delivery[d], Now("scheduled", disabled))
                BY <3>1, <4>2
            <4> QED
                BY <3>5, <4>1, <4>2 DEF Defer
        <3> QED
            BY <1>2, <3>2, <3>3, <3>4, <3>5
    <2>2. clock' = clock /\ listing' = listing /\ resume' = resume
        BY <1>2 DEF Create, Lease, FinalizeAttempt, Defer
    <2> QED
        BY <1>1, <2>1, <2>2, ReplaceKeeps, WritersStep
<1>3. ASSUME NEW d \in Deliveries, StartAttempt(d)
      PROVE  Inductive'
    <2>1. listing' = listing /\ resume' = resume
        BY <1>3 DEF StartAttempt
    <2> QED
        BY <1>1, <1>3, <2>1, StartKeeps, WritersStep
<1>4. CASE Search \/ Query \/ Resolve \/ Serve \/ NextPage
    <2>1. UNCHANGED <<clock, delivery, entries>> /\ resume' = resume
        BY <1>4 DEF Search, Query, Resolve, Serve, NextPage
    <2>2. ListingTyped' /\ Backwards' /\ Covered'
        BY <1>4, SearchSteps, QuerySteps, ResolveSteps, ServeSteps, NextPageSteps
    <2>3. DeliveryTyped' /\ IndexInv' /\ Moved
        BY <2>1, IndexStays
    <2>4. ResumeTyped' /\ Reached'
        BY <2>1, <2>3, ResumeKept DEF Inductive
    <2> QED
        BY <2>2, <2>3, <2>4 DEF Inductive
<1>5. CASE ResumeQuery \/ ResumeRead \/ ResumeEnd
    <2>1. UNCHANGED <<clock, delivery, entries>> /\ listing' = listing
        BY <1>5 DEF ResumeQuery, ResumeRead, ResumeEnd
    <2>2. ResumeTyped' /\ Reached'
        BY <1>5, ResumeQuerySteps, ResumeReadSteps, ResumeEndSteps
    <2>3. DeliveryTyped' /\ IndexInv' /\ Moved
        BY <2>1, IndexStays
    <2>4. ListingTyped' /\ Backwards' /\ Covered'
        BY <2>1, <2>3, ListingKept DEF Inductive
    <2> QED
        BY <2>2, <2>3, <2>4 DEF Inductive
<1>6. CASE ResumeWrite
    <2>1. listing' = listing
        BY <1>6 DEF ResumeWrite
    <2>2. DeliveryTyped' /\ IndexInv' /\ Moved /\ ResumeTyped' /\ Reached'
        BY <1>6, ResumeWriteSteps
    <2>3. ListingTyped' /\ Backwards' /\ Covered'
        BY <2>1, <2>2, ListingKept DEF Inductive
    <2> QED
        BY <2>2, <2>3 DEF Inductive
<1>7. CASE Tick
    <2>1. /\ clock' = clock + 1 /\ clock < MaxTime /\ clock \in Nat /\ MaxTime \in Nat
          /\ delivery' = delivery /\ entries' = entries
          /\ listing' = listing /\ resume' = resume
          /\ \A d \in Deliveries : delivery[d].at \in Nat
        BY <1>1, <1>7, InstantsAreNumbers, SearchAssumption DEF Tick
    <2>2. DeliveryTyped'
        BY <1>1, <2>1 DEF DeliveryTyped
    <2>3. IndexInv'
        BY <1>1, <2>1 DEF IndexInv, EntriesOf, Categories, Searched, Exists, Failure
    <2>4. Moved
        BY <2>1 DEF Moved
    <2> QED
        BY <2>1, <2>2, <2>3, <2>4, WritersStep
<1>8. CASE UNCHANGED vars
    <2>1. UNCHANGED <<clock, delivery, entries>> /\ listing' = listing /\ resume' = resume
        BY <1>8 DEF vars
    <2> QED
        BY <2>1, IndexStays, WritersStep
<1> QED
    BY <1>2, <1>3, <1>4, <1>5, <1>6, <1>7, <1>8 DEF Next

(* The types follow.                                                         *)
LEMMA TypesFollow ==
    ASSUME Inductive
    PROVE  TypeOK
<1>1. DeliveryTyped /\ IndexInv /\ ListingTyped /\ ResumeTyped
    BY DEF Inductive
<1>2. clock \in 0..MaxTime
    BY <1>1, SearchAssumption DEF DeliveryTyped
<1>3. \A d \in Deliveries : /\ delivery[d].state \in DeliveryState \cup {"absent"}
                            /\ delivery[d].at <= clock
                            /\ delivery[d].disabled => delivery[d].state = "scheduled"
    BY <1>1, RecordFields DEF DeliveryTyped
<1>4. \A e \in entries : /\ e.id \in Deliveries
                         /\ Exists(delivery[e.id])
                         /\ e.at <= delivery[e.id].at
    BY <1>1, EntryFields DEF IndexInv
<1>5. listing.page \subseteq [category : Filters, at : 0..MaxTime, id : Deliveries]
    <2>1. SUFFICES ASSUME NEW e \in listing.page
                   PROVE  e \in [category : Filters, at : 0..MaxTime, id : Deliveries]
        OBVIOUS
    <2>2. /\ e \in Entry /\ e.at \in Nat /\ e.id \in Deliveries
          /\ e = [category |-> e.category, at |-> e.at, id |-> e.id]
        BY <1>1, <2>1, ListingFields, EntryFields DEF ListingTyped
    <2>3. e.category \in Filters
        <3>1. listing.step # "idle"
            BY <1>1, <2>1 DEF ListingTyped
        <3> QED
            BY <1>1, <2>1, <3>1 DEF ListingTyped
    <2>4. e.at <= delivery[e.id].at
        BY <1>1, <2>1 DEF ListingTyped
    <2>5. /\ delivery[e.id].at \in Nat /\ delivery[e.id].at <= clock
          /\ clock \in Nat /\ clock <= MaxTime
        BY <1>1, <2>2, InstantsAreNumbers DEF DeliveryTyped
    <2>6. e.at \in 0..MaxTime
        BY <2>2, <2>4, <2>5, SearchAssumption
    <2> QED
        BY <2>2, <2>3, <2>6
<1>6. /\ listing.step \in {"idle", "query", "resolve", "next", "done", "refused"}
      /\ listing.found \subseteq Deliveries
    BY <1>1, ListingFields DEF ListingTyped
<1>7. resume.step \in {"idle", "read", "write", "done"} /\ resume.ids \subseteq Deliveries
    BY <1>1, ResumeFields DEF ResumeTyped
<1> QED
    BY <1>2, <1>3, <1>4, <1>5, <1>6, <1>7 DEF TypeOK

(* What a listing returns follows.                                           *)
LEMMA ExactlyOnceFollows ==
    ASSUME Inductive
    PROVE  FoundExactlyOnce
<1>1. SUFFICES ASSUME NEW d \in Deliveries
               PROVE  /\ listing.client # "count" => Returned(d) <= 1
                      /\ /\ listing.step = "done"
                         /\ Matches(delivery[d], listing.filter)
                         /\ ~delivery[d].sending
                         /\ delivery[d].at >= listing.from
                         /\ delivery[d].at < listing.since
                         => Returned(d) >= 1
    BY DEF FoundExactlyOnce
<1> DEFINE at == {i \in DOMAIN listing.result : listing.result[i] = d}
<1>2. IsFiniteSet(at) /\ Returned(d) = Cardinality(at) /\ Cardinality(at) \in Nat
    <2>1. /\ Len(listing.result) \in Nat
          /\ DOMAIN listing.result = 1 .. Len(listing.result)
        BY ListingFields, LenProperties DEF Inductive, ListingTyped
    <2>2. at \subseteq 1 .. Len(listing.result)
        BY <2>1
    <2>3. IsFiniteSet(1 .. Len(listing.result))
        BY <2>1, FS_Interval
    <2>4. IsFiniteSet(at)
        <3> HIDE DEF at
        <3> QED
            BY <2>2, <2>3, FS_Subset
    <2> QED
        BY <2>4, FS_CardinalityType DEF Returned
<1>3. ASSUME listing.client # "count"
      PROVE  Returned(d) <= 1
    <2>1. \A i, j \in at : i = j
        BY <1>3 DEF Inductive, Backwards
    <2> HIDE DEF at
    <2>2. CASE at = {}
        BY <1>2, <2>2, FS_EmptySet
    <2>3. CASE at # {}
        <3>1. PICK i : at = {i}
            BY <2>1, <2>3
        <3> QED
            BY <1>2, <3>1, FS_Singleton
    <2> QED
        BY <2>2, <2>3
<1>4. ASSUME listing.step = "done",
             Matches(delivery[d], listing.filter),
             ~delivery[d].sending,
             delivery[d].at >= listing.from,
             delivery[d].at < listing.since
      PROVE  Returned(d) >= 1
    <2>1. Stable(d)
        <3>1. delivery[d].at \in Nat /\ listing.from \in Nat
            BY InstantsAreNumbers, ListingFields DEF Inductive, ListingTyped
        <3> QED
            BY <1>4, <3>1 DEF Stable
    <2>2. d \in Results
        <3>1. Covered /\ listing.found = {}
            BY <1>4 DEF Inductive, ListingTyped
        <3> QED
            BY <1>4, <2>1, <3>1 DEF Covered, Done
    <2>3. at # {}
        BY <2>2 DEF Results
    <2> HIDE DEF at
    <2>4. Cardinality(at) # 0
        BY <1>2, <2>3, FS_EmptySet
    <2> QED
        BY <1>2, <2>4
<1> QED
    BY <1>3, <1>4

(* The clock, the deliveries, the index, the listing and the resumption have *)
(* the types TypeOK says (the records deliveryIndexItem builds).             *)
THEOREM TypesHold == Spec => []TypeOK
<1>1. Inductive /\ [Next]_vars => Inductive'
    BY StepHolds
<1> QED
    BY InitHolds, <1>1, TypesFollow, PTL DEF Spec

(* A listing returns nothing twice and misses nothing that stayed as it was  *)
(* (searchDeliveries; countDeliveriesByState for the latter), for pages of   *)
(* any size, any number of deliveries and any life of a cursor.              *)
THEOREM ListingsAreExact == Spec => []FoundExactlyOnce
<1>1. Inductive /\ [Next]_vars => Inductive'
    BY StepHolds
<1> QED
    BY InitHolds, <1>1, ExactlyOnceFollows, PTL DEF Spec

(* A resumption leaves blocked only what its one page had no room for        *)
(* (resumeDestination).                                                      *)
THEOREM ResumptionsReach == Spec => []ResumeReaches
<1>1. Inductive /\ [Next]_vars => Inductive'
    BY StepHolds
<1>2. Inductive => ResumeReaches
    BY DEF Inductive, Reached, ResumeReaches
<1> QED
    BY InitHolds, <1>1, <1>2, PTL DEF Spec
===============================================================================
