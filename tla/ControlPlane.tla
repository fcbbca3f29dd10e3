----------------------------- MODULE ControlPlane -----------------------------
(***************************************************************************)
(* The configuration of one tenant: partners, destinations, transformation *)
(* versions and subscriptions, as items of the core table, and the         *)
(* requests that change them.                                              *)
(*                                                                         *)
(* A request is the list of the steps it still has to do, each one a call  *)
(* it awaits: read what it builds on, record the rotation of a credential, *)
(* store the credential, write.  A write is one DynamoDB transaction.      *)
(* Requests interleave between steps, and may end between any two.         *)
(***************************************************************************)
EXTENDS Naturals, Sequences, FiniteSets, FiniteSetsExt

CONSTANTS
    Slots,            \* who may have a request under way
    Clients,          \* the slots of the HTTP API; the others import bundles
    Operations,       \* client -> the operations it may ask for
    Ids,              \* identifiers the id generator may give out
    Initial,          \* the table before the first request
    PartnerLimit,     \* 10
    DestinationLimit, \* 25
    VersionPage,      \* the versions a request reads before it adds one: 100
    Aliases,          \* credential aliases
    Bound,            \* the aliases with a credential before the first request
    MaxFaults         \* bound on failing steps

ASSUME ControlAssumption ==
    /\ Clients \subseteq Slots
    /\ Ids \subseteq Nat \ {0}
    /\ Bound \subseteq Aliases
    /\ PartnerLimit \in Nat
    /\ DestinationLimit \in Nat
    /\ VersionPage \in Nat \ {0}
    /\ MaxFaults \in Nat

VARIABLES
    hosted,     \* DynamoDB itself, whose reads may lag behind its writes
    table,      \* key -> item
    before,     \* key -> the item its last write replaced, which a read that
                \* lags may still return
    audits,     \* id -> how many audit events of accepted writes name it
    rotations,  \* alias -> audit events of a requested rotation
    secret,     \* alias -> version of the stored credential, 0 if none
    resumes,    \* destination id -> RESUME_DESTINATION records committed
    request,    \* slot -> its request
    faults

store == <<table, before, audits, resumes>>
credentials == <<rotations, secret>>
vars == <<hosted, store, credentials, request, faults>>

-------------------------------------------------------------------------------
(* Keys and items.  An absent item has version 0; a pointer, which has no    *)
(* version of its own, 1.                                                    *)

PartnerKey(i) == <<"PARTNER", i>>
DestinationKey(i) == <<"DESTINATION", i>>
VersionKey(i, n) == <<"VERSION", i, n>>
CatalogKey(i) == <<"SUBSCRIPTION", i>>
RouteKey(s) == <<"EVENT_TYPE", s.eventType, s.destination>>
ExternalKey(kind, key) == <<"EXTERNAL", kind, key>>

Absent == [version |-> 0]
Pointer(i) == [id |-> i, version |-> 1]
Classes == {"PARTNER", "DESTINATION", "SUBSCRIPTION", "VERSION"}
NoOperation == [name |-> "none"]
NoId == 0

Get(key) == IF key \in DOMAIN table THEN table[key] ELSE Absent
Reads(key) ==
    {Get(key)} \cup (IF hosted /\ key \in DOMAIN before THEN {before[key]} ELSE {})
Existing(class) == {k \in DOMAIN table : k[1] = class}
IdOf(kind, key) ==
    LET p == Get(ExternalKey(kind, key)) IN IF p = Absent THEN NoId ELSE p.id

(* What listTransformationVersions ends with: the last of the first page.    *)
Latest(i) ==
    LET numbers == {k[3] : k \in {k \in Existing("VERSION") : k[2] = i}}
        first == {n \in numbers :
                    Cardinality({m \in numbers : m < n}) < VersionPage}
    IN IF first = {} THEN Absent ELSE table[VersionKey(i, Max(first))]

(* {...existing, ...changes}                                                 *)
Merge(existing, changes) ==
    [f \in DOMAIN existing \cup DOMAIN changes |->
        IF f \in DOMAIN changes THEN changes[f] ELSE existing[f]]

(* A configuration as a service that started without one leaves it: every    *)
(* resource has its external key and every key its resource, and the routing *)
(* table holds the subscriptions of the catalogue.                           *)
Kinds == {"PARTNER", "DESTINATION", "SUBSCRIPTION", "TRANSFORMATION"}
HomeKey(kind, i) == IF kind = "TRANSFORMATION" THEN VersionKey(i, 1) ELSE <<kind, i>>

IsResource(item, i) ==
    /\ {"id", "key", "version"} \subseteq DOMAIN item
    /\ item.id = i
    /\ item.version \in Nat \ {0}
IsRoutable(item) == {"eventType", "destination"} \subseteq DOMAIN item
Shaped(k, item) ==
    \/ /\ k[1] \in {"PARTNER", "DESTINATION", "SUBSCRIPTION"}
       /\ k = <<k[1], k[2]>>
       /\ k[2] \in Ids /\ IsResource(item, k[2])
       /\ k[1] = "SUBSCRIPTION" => IsRoutable(item)
    \/ /\ k[1] = "VERSION" /\ k = VersionKey(k[2], item.version)
       /\ k[2] \in Ids /\ IsResource(item, k[2])
    \/ k[1] = "EVENT_TYPE" /\ k = RouteKey(item) /\ item.id \in Ids
    \/ /\ k[1] = "EXTERNAL" /\ k = ExternalKey(k[2], k[3]) /\ k[2] \in Kinds
       /\ item.id \in Ids /\ item = Pointer(item.id)

Linked(t, k) ==
    /\ \A kind \in Kinds : k = HomeKey(kind, k[2]) =>
        /\ ExternalKey(kind, t[k].key) \in DOMAIN t
        /\ t[ExternalKey(kind, t[k].key)] = Pointer(k[2])
    /\ k[1] = "EXTERNAL" =>
        /\ HomeKey(k[2], t[k].id) \in DOMAIN t
        /\ t[HomeKey(k[2], t[k].id)].key = k[3]
    /\ k[1] = "SUBSCRIPTION" => RouteKey(t[k]) \in DOMAIN t /\ t[RouteKey(t[k])] = t[k]
    /\ k[1] = "EVENT_TYPE" =>
        CatalogKey(t[k].id) \in DOMAIN t /\ t[CatalogKey(t[k].id)] = t[k]
Sound(t) == IsFiniteSet(DOMAIN t) /\ \A k \in DOMAIN t : Shaped(k, t[k]) /\ Linked(t, k)

(* The first configuration is such a one, just created.                      *)
ASSUME InitialAssumption ==
    /\ Sound(Initial)
    /\ \A k \in DOMAIN Initial : Initial[k].version = 1
    /\ \A k, l \in DOMAIN Initial :
        {k[1], l[1]} \subseteq Classes /\ k[2] = l[2] => k[1] = l[1]

(* The identifier given out next, as long as Ids has one: one never given    *)
(* out before, for every accepted create is audited.                         *)
Fresh == {i \in Ids : audits[i] = 0 /\ \A j \in Ids : j < i => audits[j] > 0}

-------------------------------------------------------------------------------
(* Requests.                                                                 *)

NoRequest == [todo |-> <<>>, op |-> NoOperation, seen |-> Absent, late |-> FALSE,
              expected |-> 0, outcome |-> "none"]

Init ==
    /\ hosted \in BOOLEAN
    /\ table = Initial
    /\ before = <<>>
    /\ audits = [i \in Ids |->
                    IF \E k \in DOMAIN Initial : k[1] \in Classes /\ i = k[2]
                    THEN 1 ELSE 0]
    /\ rotations = [a \in Aliases |-> 0]
    /\ secret = [a \in Aliases |-> IF a \in Bound THEN 1 ELSE 0]
    /\ resumes = [k \in Ids |-> 0]
    /\ request = [c \in Slots |-> NoRequest]
    /\ faults = 0

Rotates(op) == op.credential # "none"
ItemKey(op) ==
    CASE op.name = "updatePartner" -> PartnerKey(op.id)
      [] op.name = "updateDestination" -> DestinationKey(op.id)
      [] OTHER -> CatalogKey(op.id)
Creations == {"createPartner", "createDestination", "createSubscription",
              "createTransformation"}
Updates == {"updatePartner", "updateDestination", "updateSubscription"}

(* What the schemas of the API let through: a create names a key, an update  *)
(* or a new version changes none of the fields that make a resource what it  *)
(* is.                                                                       *)
Names == Creations \cup Updates \cup
         {"deleteSubscription", "createTransformationVersion"}
Proper(op) ==
    /\ op.name \in Names
    /\ op.name \in Creations => "key" \in DOMAIN op.changes
    /\ op.name = "createSubscription" => IsRoutable(op.changes)
    /\ op.name \in Updates \cup {"createTransformationVersion"} =>
        DOMAIN op.changes \cap {"id", "eventType", "destination"} = {}
    /\ op.name = "createTransformationVersion" => "key" \notin DOMAIN op.changes

ASSUME OperationsAssumption ==
    \A c \in Clients : \A op \in Operations[c] :
        /\ Proper(op)
        /\ op.name \in Updates => "key" \notin DOMAIN op.changes

(* The awaited calls of an API request, in order.  A rotation is recorded    *)
(* before the credential is stored.                                          *)
Todo(op) ==
    CASE op.name = "createTransformation" -> <<"write">>
      [] op.name # "createTransformation" /\ ~Rotates(op) -> <<"read", "write">>
      [] op.name = "createDestination" /\ Rotates(op) ->
            <<"audit", "secret", "read", "write">>
      [] OTHER -> <<"read", "audit", "secret", "write">>

(* If-Match: the client saw the item it wants to change, and names its       *)
(* version, a number above 0.                                                *)
Begin(c, op) ==
    /\ request[c] = NoRequest
    /\ \E v \in IF op.name \in Updates
                THEN {i.version : i \in Reads(ItemKey(op))} \ {0}
                ELSE {0} :
        request' = [request EXCEPT ![c] = [NoRequest EXCEPT
            !.todo = Todo(op), !.op = op, !.expected = v]]
    /\ UNCHANGED <<hosted, store, credentials, faults>>

Doing(c, s) == request[c].todo # <<>> /\ Head(request[c].todo) = s
End(c, outcome) ==
    request' = [request EXCEPT ![c].todo = <<>>, ![c].outcome = outcome]
NextStep(c) == request' = [request EXCEPT ![c].todo = Tail(@)]

(* The answers a read may get, and whether one is out of date.               *)
Seen(op) ==
    CASE op.name \in Creations -> {Absent}
      [] op.name = "createTransformationVersion" -> {Latest(op.id)}
      [] OTHER -> Reads(ItemKey(op))
Late(op, seen) == op.name \in Updates /\ seen # Get(ItemKey(op))

(* Not found, or one more than the limit allows.                             *)
Refused(op, seen) ==
    CASE op.name = "createPartner" ->
            Cardinality(Existing("PARTNER")) >= PartnerLimit
      [] op.name = "createDestination" ->
            \/ Get(PartnerKey(op.changes.partner)) = Absent
            \/ Cardinality(Existing("DESTINATION")) >= DestinationLimit
      [] op.name = "createSubscription" ->
            Get(DestinationKey(op.changes.destination)) = Absent
      [] OTHER -> seen = Absent

Read(c) ==
    /\ Doing(c, "read")
    /\ \E seen \in Seen(request[c].op) :
        IF Refused(request[c].op, seen)
        THEN End(c, "refused")
        ELSE request' = [request EXCEPT ![c].todo = Tail(@), ![c].seen = seen,
                                        ![c].late = Late(request[c].op, seen)]
    /\ UNCHANGED <<hosted, store, credentials, faults>>

AuditRotation(c) ==
    /\ Doing(c, "audit")
    /\ NextStep(c)
    /\ rotations' = [rotations EXCEPT ![request[c].op.credential] = @ + 1]
    /\ UNCHANGED <<hosted, store, secret, faults>>

StoreSecret(c) ==
    /\ Doing(c, "secret")
    /\ NextStep(c)
    /\ secret' = [secret EXCEPT ![request[c].op.credential] = @ + 1]
    /\ UNCHANGED <<hosted, store, rotations, faults>>

-------------------------------------------------------------------------------
(* Writes: the key, the new item (Absent for a delete), and the versions the *)
(* condition allows the present item to have.                                *)

Put(key, item, allowed) == [key |-> key, item |-> item, allowed |-> allowed]
PutNew(key, item) == Put(key, item, {0})
Delete(key) == Put(key, Absent, Nat \ {0})
DeleteAny(key) == Put(key, Absent, Nat)

CreateWrites(kind, key, i, item) ==
    {PutNew(key, item), PutNew(ExternalKey(kind, item.key), Pointer(i))}

CreateSubscription(s) ==
    {PutNew(RouteKey(s), s)} \cup
    CreateWrites("SUBSCRIPTION", CatalogKey(s.id), s.id, s)

(* Mutant: any item will do.                                                 *)
BugIfMatch(r) == Nat \ {0}

(* The item still has the version the client named.                          *)
IfMatch(r) == {r.expected}

(* Mutant: neither of the two items carries a condition.                     *)
BugUpdateSubscription(s, expected) ==
    {Put(RouteKey(s), s, Nat), Put(CatalogKey(s.id), s, Nat)}

UpdateSubscription(s, expected) ==
    {Put(RouteKey(s), s, {expected}), Put(CatalogKey(s.id), s, {expected})}

DeleteSubscription(s) ==
    {Delete(RouteKey(s)), Delete(CatalogKey(s.id)),
     DeleteAny(ExternalKey("SUBSCRIPTION", s.key))}

(* The next version of what was seen.                                        *)
Updated(r) == [Merge(r.seen, r.op.changes) EXCEPT !.version = r.seen.version + 1]

(* Mutant: versions start at 0, which no If-Match can name.                  *)
BugCreated(r, i) == Merge(r.op.changes, [id |-> i, version |-> 0])

Created(r, i) == Merge(r.op.changes, [id |-> i, version |-> 1])

Writes(r, i) ==
    CASE r.op.name = "createPartner" ->
            CreateWrites("PARTNER", PartnerKey(i), i, Created(r, i))
      [] r.op.name = "createDestination" ->
            CreateWrites("DESTINATION", DestinationKey(i), i, Created(r, i))
      [] r.op.name = "createTransformation" ->
            CreateWrites("TRANSFORMATION", VersionKey(i, 1), i, Created(r, i))
      [] r.op.name = "createTransformationVersion" ->
            {PutNew(VersionKey(r.op.id, Updated(r).version), Updated(r))}
      [] r.op.name = "createSubscription" -> CreateSubscription(Created(r, i))
      [] r.op.name = "updateSubscription" ->
            UpdateSubscription(Updated(r), r.expected)
      [] r.op.name = "deleteSubscription" -> DeleteSubscription(r.seen)
      [] OTHER -> {Put(ItemKey(r.op), Updated(r), IfMatch(r))}

(* TransactWriteItems: all of them, if every condition holds.                *)
Accepted(writes) == \A w \in writes : Get(w.key).version \in w.allowed
Apply(writes) ==
    LET keys == {w.key : w \in writes}
        item(k) == (CHOOSE w \in writes : w.key = k).item
        gone == {k \in keys : item(k) = Absent}
    IN /\ table' = [k \in (DOMAIN table \cup keys) \ gone |->
                        IF k \in keys THEN item(k) ELSE table[k]]
       /\ before' = [k \in DOMAIN before \cup keys |->
                        IF k \in keys THEN Get(k) ELSE before[k]]

(* A destination that was disabled and is so no more gets a                  *)
(* RESUME_DESTINATION record, in the same transaction.                       *)
Resumes(r) ==
    r.op.name = "updateDestination" /\ ~r.seen.enabled /\ Updated(r).enabled

Write(c) ==
    /\ Doing(c, "write")
    /\ LET r == request[c]
       IN  \E i \in IF r.op.name \in Creations THEN Fresh ELSE {r.op.id} :
            IF Accepted(Writes(r, i))
            THEN /\ Apply(Writes(r, i))
                 /\ audits' = [audits EXCEPT ![i] = @ + 1]
                 /\ resumes' = IF Resumes(r) THEN [resumes EXCEPT ![i] = @ + 1]
                               ELSE resumes
                 /\ End(c, "ok")
            ELSE End(c, "conflict") /\ UNCHANGED store
    /\ UNCHANGED <<hosted, credentials, faults>>

(* An awaited call throws, or the process ends.                              *)
Abandon(c) ==
    /\ request[c].todo # <<>>
    /\ faults < MaxFaults
    /\ faults' = faults + 1
    /\ End(c, "failed")
    /\ UNCHANGED <<hosted, store, credentials>>

Step(c) == Read(c) \/ AuditRotation(c) \/ StoreSecret(c) \/ Write(c) \/ Abandon(c)
Next ==
    \/ \E c \in Clients : \E op \in Operations[c] : Begin(c, op)
    \/ \E c \in Slots : Step(c)
===============================================================================
