----------------------------- MODULE ControlProofs -----------------------------
(***************************************************************************)
(* The safety of the control plane and of imports, for any resources,      *)
(* requests, bundles and limits, on a table whose reads may lag.           *)
(***************************************************************************)
EXTENDS ControlProperties, FiniteSetTheorems, WellFoundedInduction, TLAPS

-------------------------------------------------------------------------------
(* The inductive invariant.                                                  *)

Resources == {"PARTNER", "DESTINATION", "SUBSCRIPTION"}

Typed ==
    /\ hosted \in BOOLEAN
    /\ audits \in [Ids -> Nat]
    /\ rotations \in [Aliases -> Nat]
    /\ secret \in [Aliases -> Nat]
    /\ resumes \in [Ids -> Nat]
    /\ faults \in 0..MaxFaults
    /\ DOMAIN request = Slots

(* An identifier that was given out, to a resource of that class: it may be  *)
(* deleted by now, but no other is or will be known by it.                   *)
Owned(class, i) ==
    /\ i \in Ids /\ audits[i] >= 1
    /\ \A k \in DOMAIN table : k[1] \in Classes /\ k[2] = i => k[1] = class

SameIdentity(k, a, b) ==
    /\ a.key = b.key
    /\ k[1] = "SUBSCRIPTION" =>
        a.eventType = b.eventType /\ a.destination = b.destination

(* An item that is or was under a key.                                       *)
Former(k, item) ==
    /\ IsResource(item, k[2])
    /\ k[1] = "SUBSCRIPTION" => IsRoutable(item)
    /\ Owned(k[1], k[2])
    /\ item.version <= audits[k[2]]
    /\ k \in DOMAIN table => SameIdentity(k, item, table[k])

TableInv == Sound(table)
OwnedInv == \A k \in DOMAIN table : k[1] \in Classes => Owned(k[1], k[2])
AuditInv ==
    \A k \in DOMAIN table : k[1] \in Resources =>
        /\ table[k].version <= audits[k[2]]
        /\ ~LateWrite => table[k].version = audits[k[2]]
BeforeInv ==
    \A k \in DOMAIN before : k[1] \in Resources /\ before[k] # Absent =>
        /\ Former(k, before[k])
        /\ k \in DOMAIN table => table[k].version \in {before[k].version, before[k].version + 1}

(* What is left to do, and whether the read is over.                         *)
Past(r) ==
    r.todo \in {<<"write">>, <<"secret", "write">>, <<"audit", "secret", "write">>}
Reading(r) ==
    r.todo \in {<<"read", "write">>, <<"secret", "read", "write">>,
                <<"audit", "secret", "read", "write">>,
                <<"read", "audit", "secret", "write">>}

IsRequest(r) ==
    r = [todo |-> r.todo, op |-> r.op, seen |-> r.seen, late |-> r.late,
         expected |-> r.expected, outcome |-> r.outcome]

(* What an update has seen is no older than what its client named, and no    *)
(* newer than what is there; of the same version, it is what is there.       *)
UpToDate(r) ==
    LET k == ItemKey(r.op)
    IN  /\ r.expected <= r.seen.version
        /\ k \in DOMAIN table =>
            /\ r.seen.version <= table[k].version
            /\ r.seen.version = table[k].version => r.seen = table[k]
(* One read late may be one version older.                                   *)
NoOlder(r, item) == r.expected <= r.seen.version + 1 /\ r.seen.version <= item.version
UpdateOK(r) ==
    LET k == ItemKey(r.op)
    IN  /\ r.expected \in Nat \ {0}
        /\ Owned(k[1], k[2])
        /\ k \in DOMAIN table => r.expected <= table[k].version
        /\ Past(r) /\ k \in DOMAIN table => NoOlder(r, table[k])
        /\ "key" \in DOMAIN r.op.changes => Past(r) /\ r.op.changes.key = r.seen.key
        /\ Past(r) => Former(k, r.seen)
        /\ Past(r) /\ ~r.late /\ ~LateWrite => UpToDate(r)
DeleteOK(r) == Past(r) => Former(CatalogKey(r.op.id), r.seen)
VersionOK(r) ==
    Past(r) =>
        /\ IsResource(r.seen, r.op.id)
        /\ VersionKey(r.op.id, r.seen.version) \in DOMAIN table
        /\ table[VersionKey(r.op.id, r.seen.version)] = r.seen
UnderWay(r) ==
    /\ Proper(r.op)
    /\ r.outcome = "none"
    /\ r.op.name \in Updates => UpdateOK(r)
    /\ r.op.name = "deleteSubscription" => DeleteOK(r)
    /\ r.op.name = "createTransformationVersion" => VersionOK(r)
RequestOK(c, r) ==
    /\ IsRequest(r)
    /\ r.todo = <<>> \/ Past(r) \/ Reading(r)
    /\ r.outcome \in Outcomes
    /\ r.late \in BOOLEAN
    /\ r.seen # Absent => r.op # NoOperation
    /\ r.late => hosted /\ c \in Clients
    /\ r.todo = <<>> /\ r.outcome = "none" => r = NoRequest
    /\ r.todo # <<>> => UnderWay(r)
    /\ c \in Importers /\ Reading(r) => r.op.name \in Creations
RequestsInv == \A c \in Slots : RequestOK(c, request[c])

IsImport(m) == {"phase", "bundle", "receipt", "at", "changed"} \subseteq DOMAIN m
Importing(m) ==
    /\ IsImport(m)
    /\ m.phase \in Phases
    /\ m.bundle \in Bundles \cup {NoBundle}
    /\ m.at \in 0..(Len(m.bundle) + 1)
    /\ Len(m.receipt) = Len(m.bundle)
Busy(m) == m.phase = "applying" /\ m.at \in DOMAIN m.bundle
ImportsInv ==
    /\ DOMAIN import = Importers
    /\ \A i \in Importers :
        Importing(import[i]) /\ (request[i] # NoRequest => Busy(import[i]))

StoreInv == TableInv /\ OwnedInv /\ AuditInv /\ BeforeInv
Inductive == Typed /\ StoreInv /\ RequestsInv /\ ImportsInv

-------------------------------------------------------------------------------
(* Keys and items.                                                           *)

(* The constants.                                                            *)
LEMMA Constants ==
    /\ Clients \subseteq Slots /\ Ids \subseteq Nat \ {0} /\ NoId \notin Ids
    /\ Bound \subseteq Aliases /\ PartnerLimit \in Nat /\ DestinationLimit \in Nat
    /\ VersionPage \in Nat \ {0} /\ MaxFaults \in Nat
    BY ControlAssumption DEF NoId

(* What a key says.                                                          *)
LEMMA Keys ==
    /\ \A i : PartnerKey(i)[1] = "PARTNER" /\ PartnerKey(i)[2] = i
    /\ \A i : DestinationKey(i)[1] = "DESTINATION" /\ DestinationKey(i)[2] = i
    /\ \A i : CatalogKey(i)[1] = "SUBSCRIPTION" /\ CatalogKey(i)[2] = i
    /\ \A i, n : /\ VersionKey(i, n)[1] = "VERSION" /\ VersionKey(i, n)[2] = i
                 /\ VersionKey(i, n)[3] = n
    /\ \A kind, key : /\ ExternalKey(kind, key)[1] = "EXTERNAL"
                      /\ ExternalKey(kind, key)[2] = kind
                      /\ ExternalKey(kind, key)[3] = key
    /\ \A s : RouteKey(s)[1] = "EVENT_TYPE"
    BY DEF PartnerKey, DestinationKey, CatalogKey, VersionKey, ExternalKey, RouteKey

(* The home of a resource is of its class and has its id.                    *)
LEMMA Homed ==
    ASSUME NEW kind \in Kinds, NEW i
    PROVE  /\ kind = "TRANSFORMATION" => HomeKey(kind, i) = VersionKey(i, 1)
           /\ kind = "PARTNER" => HomeKey(kind, i) = PartnerKey(i)
           /\ kind = "DESTINATION" => HomeKey(kind, i) = DestinationKey(i)
           /\ kind = "SUBSCRIPTION" => HomeKey(kind, i) = CatalogKey(i)
           /\ HomeKey(kind, i)[2] = i
           /\ HomeKey(kind, i)[1] =
                (IF kind = "TRANSFORMATION" THEN "VERSION" ELSE kind)
    BY DEF Kinds, HomeKey, VersionKey, PartnerKey, DestinationKey, CatalogKey

(* Kinds and classes.                                                        *)
LEMMA KindsAre ==
    /\ Kinds = Resources \cup {"TRANSFORMATION"}
    /\ Classes = Resources \cup {"VERSION"}
    /\ "EXTERNAL" \notin Classes /\ "EVENT_TYPE" \notin Classes
    /\ "EXTERNAL" # "EVENT_TYPE"
    BY DEF Kinds, Resources, Classes

(* The parts of a sound table.                                               *)
LEMMA SoundShape ==
    ASSUME NEW t, Sound(t), NEW k \in DOMAIN t
    PROVE  Shaped(k, t[k])
    BY DEF Sound

(* The item of a resource.                                                   *)
LEMMA SoundResource ==
    ASSUME NEW t, Sound(t), NEW k \in DOMAIN t, k[1] \in Resources
    PROVE  /\ k = <<k[1], k[2]>>
           /\ k[2] \in Ids /\ IsResource(t[k], k[2])
           /\ k[1] = "SUBSCRIPTION" => IsRoutable(t[k])
    BY SoundShape DEF Shaped, Resources

(* The item of a transformation version.                                     *)
LEMMA SoundVersion ==
    ASSUME NEW t, Sound(t), NEW k \in DOMAIN t, k[1] = "VERSION"
    PROVE  /\ k = VersionKey(k[2], k[3])
           /\ k[2] \in Ids /\ k[3] \in Nat \ {0} /\ IsResource(t[k], k[2])
           /\ k[3] = t[k].version
    BY SoundShape DEF Shaped, VersionKey, IsResource

(* The item of an external key.                                              *)
LEMMA SoundPointer ==
    ASSUME NEW t, Sound(t), NEW k \in DOMAIN t, k[1] = "EXTERNAL"
    PROVE  /\ k = ExternalKey(k[2], k[3]) /\ k[2] \in Kinds
           /\ t[k].id \in Ids /\ t[k] = Pointer(t[k].id)
           /\ HomeKey(k[2], t[k].id) \in DOMAIN t
           /\ t[HomeKey(k[2], t[k].id)].key = k[3]
<1>1. /\ k = ExternalKey(k[2], k[3]) /\ k[2] \in Kinds
      /\ t[k].id \in Ids /\ t[k] = Pointer(t[k].id)
    BY SoundShape DEF Shaped
<1>2. /\ HomeKey(k[2], t[k].id) \in DOMAIN t
      /\ t[HomeKey(k[2], t[k].id)].key = k[3]
    BY DEF Sound, Linked
<1> QED
    BY <1>1, <1>2

(* A resource has its external key.                                          *)
LEMMA SoundHome ==
    ASSUME NEW t, Sound(t), NEW kind \in Kinds, NEW i \in Ids,
           HomeKey(kind, i) \in DOMAIN t
    PROVE  /\ ExternalKey(kind, t[HomeKey(kind, i)].key) \in DOMAIN t
           /\ t[ExternalKey(kind, t[HomeKey(kind, i)].key)] = Pointer(i)
    BY Homed DEF Sound, Linked

(* A subscription is in the routing table.                                   *)
LEMMA SoundCatalog ==
    ASSUME NEW t, Sound(t), NEW k \in DOMAIN t, k[1] = "SUBSCRIPTION"
    PROVE  RouteKey(t[k]) \in DOMAIN t /\ t[RouteKey(t[k])] = t[k]
    BY DEF Sound, Linked

(* A route is a subscription's.                                              *)
LEMMA SoundRoute ==
    ASSUME NEW t, Sound(t), NEW k \in DOMAIN t, k[1] = "EVENT_TYPE"
    PROVE  /\ k = RouteKey(t[k]) /\ t[k].id \in Ids
           /\ CatalogKey(t[k].id) \in DOMAIN t
           /\ t[CatalogKey(t[k].id)] = t[k]
<1>1. k = RouteKey(t[k]) /\ t[k].id \in Ids
    BY SoundShape DEF Shaped
<1>2. CatalogKey(t[k].id) \in DOMAIN t /\ t[CatalogKey(t[k].id)] = t[k]
    BY DEF Sound, Linked
<1> QED
    BY <1>1, <1>2

(* What is in a sound table is one of these.                                 *)
LEMMA SoundKinds ==
    ASSUME NEW t, Sound(t), NEW k \in DOMAIN t
    PROVE  k[1] \in Classes \cup {"EVENT_TYPE", "EXTERNAL"}
    BY SoundShape DEF Shaped, Classes

(* Every item has a version above 0.                                         *)
LEMMA Versioned ==
    ASSUME NEW t, Sound(t), NEW k \in DOMAIN t
    PROVE  t[k].version \in Nat \ {0}
<1>1. CASE k[1] \in Resources
    BY <1>1, SoundResource DEF IsResource
<1>2. CASE k[1] = "VERSION"
    BY <1>2, SoundVersion DEF IsResource
<1>3. CASE k[1] = "EXTERNAL"
    BY <1>3, SoundPointer DEF Pointer
<1>4. CASE k[1] = "EVENT_TYPE"
    <2>1. /\ CatalogKey(t[k].id) \in DOMAIN t
          /\ t[CatalogKey(t[k].id)] = t[k]
        BY <1>4, SoundRoute
    <2>2. CatalogKey(t[k].id)[1] \in Resources
        BY Keys DEF Resources
    <2>3. t[CatalogKey(t[k].id)].version \in Nat \ {0}
        BY <2>1, <2>2, SoundResource DEF IsResource
    <2> QED
        BY <2>1, <2>3
<1> QED
    BY <1>1, <1>2, <1>3, <1>4, SoundKinds, KindsAre

(* What a read of the table returns.                                         *)
LEMMA Gets ==
    ASSUME TableInv, NEW k
    PROVE  /\ k \in DOMAIN table => Get(k) = table[k] /\ Get(k).version \in Nat \ {0}
           /\ k \notin DOMAIN table => Get(k) = Absent
           /\ Absent.version = 0
           /\ Get(k) = Absent <=> k \notin DOMAIN table
           /\ Get(k).version \in Nat
           /\ Get(k).version = 0 <=> k \notin DOMAIN table
<1>1. k \in DOMAIN table => table[k].version \in Nat \ {0}
    BY Versioned DEF TableInv
<1> QED
    BY <1>1 DEF Get, Absent

(* A write names a version that is there.                                    *)
LEMMA AcceptedPut ==
    ASSUME TableInv, NEW W, Accepted(W), NEW w \in W
    PROVE  /\ w.allowed = {0} => w.key \notin DOMAIN table
           /\ 0 \notin w.allowed => w.key \in DOMAIN table
           /\ w.key \in DOMAIN table => table[w.key].version \in w.allowed
    BY Gets DEF Accepted

-------------------------------------------------------------------------------
(* Transactions.                                                             *)

(* What a write replaces a lagging read may still return.                    *)
Recorded ==
    \A k \in DOMAIN before' :
        \/ before'[k] = Get(k)
        \/ /\ k \in DOMAIN before /\ before'[k] = before[k]
           /\ k \in DOMAIN table' => k \in DOMAIN table /\ table'[k] = table[k]

(* What a transaction makes of the table and of what lagging reads return.   *)
LEMMA Applied ==
    ASSUME NEW W, Apply(W), \A v, w \in W : v.key = w.key => v = w
    PROVE  /\ \A k : k \in DOMAIN table' <=>
                \/ \E w \in W : w.key = k /\ w.item # Absent
                \/ k \in DOMAIN table /\ \A w \in W : w.key # k
           /\ \A w \in W : w.item # Absent => table'[w.key] = w.item
           /\ \A k \in DOMAIN table : (\A w \in W : w.key # k) => table'[k] = table[k]
           /\ DOMAIN table' \subseteq DOMAIN table \cup {w.key : w \in W}
           /\ Recorded
<1> DEFINE keys == {w.key : w \in W}
           item(k) == (CHOOSE w \in W : w.key = k).item
           gone == {k \in keys : item(k) = Absent}
<1>1. /\ table' = [k \in (DOMAIN table \cup keys) \ gone |->
                    IF k \in keys THEN item(k) ELSE table[k]]
      /\ before' = [k \in DOMAIN before \cup keys |->
                    IF k \in keys THEN Get(k) ELSE before[k]]
    BY DEF Apply
<1>2. \A w \in W : w.key \in keys /\ item(w.key) = w.item
    OBVIOUS
<1>3. \A k : k \in keys <=> \E w \in W : w.key = k
    OBVIOUS
<1>4. \A k : k \in gone <=> k \in keys /\ item(k) = Absent
    OBVIOUS
<1> HIDE DEF keys, item, gone
<1>5. DOMAIN table' = (DOMAIN table \cup keys) \ gone
    BY <1>1
<1>6. \A k : k \in DOMAIN table' <=>
        \/ \E w \in W : w.key = k /\ w.item # Absent
        \/ k \in DOMAIN table /\ \A w \in W : w.key # k
    BY <1>2, <1>3, <1>4, <1>5
<1>7. \A w \in W : w.item # Absent => table'[w.key] = w.item
    BY <1>1, <1>2, <1>4
<1>8. \A k \in DOMAIN table : (\A w \in W : w.key # k) => table'[k] = table[k]
    BY <1>1, <1>3, <1>4
<1>9. Recorded
    BY <1>1, <1>4 DEF Recorded
<1>10. DOMAIN table' \subseteq DOMAIN table \cup keys
    BY <1>5
<1> QED
    BY <1>6, <1>7, <1>8, <1>9, <1>10 DEF keys

(* The fields of a write.                                                    *)
LEMMA Puts ==
    /\ \A k, item : /\ PutNew(k, item).key = k /\ PutNew(k, item).item = item
                    /\ PutNew(k, item).allowed = {0}
    /\ \A k, item, a : /\ Put(k, item, a).key = k /\ Put(k, item, a).item = item
                       /\ Put(k, item, a).allowed = a
    /\ \A k : /\ Delete(k).key = k /\ Delete(k).item = Absent
              /\ 0 \notin Delete(k).allowed
    /\ \A k : DeleteAny(k).key = k /\ DeleteAny(k).item = Absent
    BY DEF Put, PutNew, Delete, DeleteAny

(* A finite table stays one.                                                 *)
LEMMA StaysFinite ==
    ASSUME IsFiniteSet(DOMAIN table), NEW F, IsFiniteSet(F),
           DOMAIN table' \subseteq DOMAIN table \cup F
    PROVE  IsFiniteSet(DOMAIN table')
    BY FS_Union, FS_Subset

(* At most three keys make a finite set.                                     *)
LEMMA FewFinite ==
    ASSUME NEW a, NEW b, NEW c
    PROVE  IsFiniteSet({a, b, c})
<1>1. IsFiniteSet({a}) /\ IsFiniteSet({b}) /\ IsFiniteSet({c})
    BY FS_Singleton
<1>2. IsFiniteSet({a} \cup {b})
    BY <1>1, FS_Union
<1>3. IsFiniteSet(({a} \cup {b}) \cup {c})
    BY <1>1, <1>2, FS_Union
<1>4. {a, b, c} = ({a} \cup {b}) \cup {c}
    OBVIOUS
<1> QED
    BY <1>3, <1>4

(* So are the keys of at most three writes.                                  *)
LEMMA FewKeys ==
    ASSUME NEW W, NEW a, NEW b, NEW c, W = {a, b, c}
    PROVE  IsFiniteSet({w.key : w \in W})
<1>1. {w.key : w \in W} = {a.key, b.key, c.key}
    OBVIOUS
<1>2. IsFiniteSet({a.key, b.key, c.key})
    BY FewFinite
<1> QED
    BY <1>1, <1>2

(* Merging keeps what the changes leave alone.                               *)
LEMMA Merged ==
    ASSUME NEW a, NEW b
    PROVE  /\ DOMAIN Merge(a, b) = DOMAIN a \cup DOMAIN b
           /\ \A f \in DOMAIN b : Merge(a, b)[f] = b[f]
           /\ \A f \in DOMAIN a : f \notin DOMAIN b => Merge(a, b)[f] = a[f]
    BY DEF Merge

(* A created item.                                                           *)
LEMMA CreatedItem ==
    ASSUME NEW r, NEW i, "key" \in DOMAIN r.op.changes
    PROVE  /\ IsResource(Created(r, i), i)
           /\ Created(r, i).version = 1
           /\ Created(r, i) # Absent
           /\ IsRoutable(r.op.changes) => IsRoutable(Created(r, i))
<1> DEFINE b == [id |-> i, version |-> 1]
<1>1. DOMAIN b = {"id", "version"} /\ b["id"] = i /\ b["version"] = 1
    OBVIOUS
<1>2. Created(r, i) = Merge(r.op.changes, b)
    BY DEF Created
<1> HIDE DEF b
<1>3. /\ DOMAIN Created(r, i) = DOMAIN r.op.changes \cup {"id", "version"}
      /\ Created(r, i)["id"] = i /\ Created(r, i)["version"] = 1
    <2>1. DOMAIN Merge(r.op.changes, b) = DOMAIN r.op.changes \cup DOMAIN b
        BY Merged
    <2>2. \A f \in DOMAIN b : Merge(r.op.changes, b)[f] = b[f]
        BY Merged
    <2>3. "id" \in DOMAIN b /\ "version" \in DOMAIN b
        BY <1>1
    <2>4. Created(r, i)["id"] = i /\ Created(r, i)["version"] = 1
        BY <1>1, <1>2, <2>2, <2>3
    <2> QED
        BY <1>1, <1>2, <2>1, <2>4
<1> QED
    BY <1>3 DEF IsResource, IsRoutable, Absent

(* The next version of an item.                                              *)
LEMMA UpdatedItem ==
    ASSUME NEW r, NEW i, IsResource(r.seen, i),
           DOMAIN r.op.changes \cap {"id", "eventType", "destination"} = {}
    PROVE  /\ IsResource(Updated(r), i)
           /\ Updated(r).version = r.seen.version + 1
           /\ Updated(r) # Absent
           /\ ("key" \in DOMAIN r.op.changes => r.op.changes.key = r.seen.key)
                => Updated(r).key = r.seen.key
           /\ IsRoutable(r.seen) => /\ IsRoutable(Updated(r))
                                    /\ Updated(r).eventType = r.seen.eventType
                                    /\ Updated(r).destination = r.seen.destination
<1> DEFINE m == Merge(r.seen, r.op.changes)
<1>1. /\ DOMAIN m = DOMAIN r.seen \cup DOMAIN r.op.changes
      /\ \A f \in DOMAIN r.op.changes : m[f] = r.op.changes[f]
      /\ \A f \in DOMAIN r.seen : f \notin DOMAIN r.op.changes => m[f] = r.seen[f]
    BY Merged
<1>2. /\ {"id", "key", "version"} \subseteq DOMAIN r.seen
      /\ r.seen["id"] = i /\ r.seen["version"] \in Nat \ {0}
    BY DEF IsResource
<1>3. Updated(r) = [m EXCEPT !["version"] = r.seen["version"] + 1]
    BY DEF Updated
<1> HIDE DEF m
<1>4. /\ DOMAIN Updated(r) = DOMAIN m
      /\ Updated(r)["version"] = r.seen["version"] + 1
      /\ \A f \in DOMAIN m : f # "version" => Updated(r)[f] = m[f]
    BY <1>1, <1>2, <1>3
<1>5. Updated(r)["id"] = i
    BY <1>1, <1>2, <1>4
<1>6. IsResource(Updated(r), i)
    BY <1>1, <1>2, <1>4, <1>5 DEF IsResource
<1>7. Updated(r) # Absent
    BY <1>2, <1>4 DEF Absent
<1>8. ("key" \in DOMAIN r.op.changes => r.op.changes["key"] = r.seen["key"])
        => Updated(r)["key"] = r.seen["key"]
    BY <1>1, <1>2, <1>4
<1>9. IsRoutable(r.seen) => /\ IsRoutable(Updated(r))
                            /\ Updated(r)["eventType"] = r.seen["eventType"]
                            /\ Updated(r)["destination"] = r.seen["destination"]
    BY <1>1, <1>4 DEF IsRoutable
<1> QED
    BY <1>4, <1>6, <1>7, <1>8, <1>9

-------------------------------------------------------------------------------
(* Requests, field by field.                                                 *)

(* A request that ended.                                                     *)
LEMMA Ended ==
    ASSUME DOMAIN request = Slots, NEW c \in Slots, IsRequest(request[c]), NEW o,
           End(c, o)
    PROVE  /\ DOMAIN request' = Slots
           /\ \A d \in Slots : d # c => request'[d] = request[d]
           /\ request'[c] = [todo |-> <<>>, op |-> request[c].op,
                             seen |-> request[c].seen, late |-> request[c].late,
                             expected |-> request[c].expected, outcome |-> o]
<1>1. request' = [request EXCEPT ![c] = [@ EXCEPT !.todo = <<>>, !.outcome = o]]
    BY DEF End
<1>2. /\ DOMAIN request' = Slots
      /\ \A d \in Slots : d # c => request'[d] = request[d]
      /\ request'[c] = [request[c] EXCEPT !.todo = <<>>, !.outcome = o]
    BY <1>1
<1>3. request'[c] = [todo |-> <<>>, op |-> request[c].op,
                     seen |-> request[c].seen, late |-> request[c].late,
                     expected |-> request[c].expected, outcome |-> o]
    BY <1>2 DEF IsRequest
<1> QED
    BY <1>2, <1>3

(* A request whose step is done.                                             *)
LEMMA Stepped ==
    ASSUME DOMAIN request = Slots, NEW c \in Slots, IsRequest(request[c]), NextStep(c)
    PROVE  /\ DOMAIN request' = Slots
           /\ \A d \in Slots : d # c => request'[d] = request[d]
           /\ request'[c] = [todo |-> Tail(request[c].todo), op |-> request[c].op,
                             seen |-> request[c].seen, late |-> request[c].late,
                             expected |-> request[c].expected,
                             outcome |-> request[c].outcome]
<1>1. request' = [request EXCEPT ![c] =
                    [request[c] EXCEPT !.todo = Tail(request[c].todo)]]
    BY DEF NextStep
<1>2. /\ DOMAIN request' = Slots
      /\ \A d \in Slots : d # c => request'[d] = request[d]
      /\ request'[c] = [request[c] EXCEPT !.todo = Tail(request[c].todo)]
    BY <1>1
<1>3. request'[c] = [todo |-> Tail(request[c].todo), op |-> request[c].op,
                     seen |-> request[c].seen, late |-> request[c].late,
                     expected |-> request[c].expected,
                     outcome |-> request[c].outcome]
    BY <1>2 DEF IsRequest
<1> QED
    BY <1>2, <1>3

(* A request that has read.                                                  *)
LEMMA Saw ==
    ASSUME DOMAIN request = Slots, NEW c \in Slots, IsRequest(request[c]),
           NEW s, NEW l,
           request' = [request EXCEPT ![c] =
                [request[c] EXCEPT !.todo = Tail(request[c].todo), !.seen = s,
                                   !.late = l]]
    PROVE  /\ DOMAIN request' = Slots
           /\ \A d \in Slots : d # c => request'[d] = request[d]
           /\ request'[c] = [todo |-> Tail(request[c].todo), op |-> request[c].op,
                             seen |-> s, late |-> l,
                             expected |-> request[c].expected,
                             outcome |-> request[c].outcome]
<1>2. /\ DOMAIN request' = Slots
      /\ \A d \in Slots : d # c => request'[d] = request[d]
      /\ request'[c] = [request[c] EXCEPT !.todo = Tail(request[c].todo), !.seen = s,
                                          !.late = l]
    OBVIOUS
<1>3. request'[c] = [todo |-> Tail(request[c].todo), op |-> request[c].op,
                     seen |-> s, late |-> l,
                     expected |-> request[c].expected,
                     outcome |-> request[c].outcome]
    BY <1>2 DEF IsRequest
<1> QED
    BY <1>2, <1>3

(* What there is to do, step by step.                                        *)
LEMMA Todos ==
    ASSUME NEW r, r.todo = <<>> \/ Past(r) \/ Reading(r)
    PROVE  /\ r.todo \in Seq(Steps)
           /\ r.todo # <<>> /\ Head(r.todo) = "write" => r.todo = <<"write">>
           /\ Past(r) /\ Head(r.todo) # "write" =>
                Tail(r.todo) \in {<<"write">>, <<"secret", "write">>}
           /\ Reading(r) /\ Head(r.todo) = "read" =>
                Tail(r.todo) \in {<<"write">>, <<"audit", "secret", "write">>}
           /\ Reading(r) => r.todo # <<>> /\ Head(r.todo) # "write"
           /\ Past(r) => r.todo # <<>> /\ Head(r.todo) # "read" /\ ~Reading(r)
           /\ Reading(r) /\ Head(r.todo) # "read" =>
                Tail(r.todo) \in {<<"secret", "read", "write">>, <<"read", "write">>}
<1>1. CASE r.todo = <<>>
    BY <1>1 DEF Past, Reading, Steps
<1>2. CASE r.todo = <<"write">>
    BY <1>2 DEF Past, Reading, Steps
<1>3. CASE r.todo = <<"secret", "write">>
    BY <1>3 DEF Past, Reading, Steps
<1>4. CASE r.todo = <<"audit", "secret", "write">>
    BY <1>4 DEF Past, Reading, Steps
<1>5. CASE r.todo = <<"read", "write">>
    BY <1>5 DEF Past, Reading, Steps
<1>6. CASE r.todo = <<"secret", "read", "write">>
    BY <1>6 DEF Past, Reading, Steps
<1>7. CASE r.todo = <<"audit", "secret", "read", "write">>
    BY <1>7 DEF Past, Reading, Steps
<1>8. CASE r.todo = <<"read", "audit", "secret", "write">>
    BY <1>8 DEF Past, Reading, Steps
<1> QED
    BY <1>1, <1>2, <1>3, <1>4, <1>5, <1>6, <1>7, <1>8 DEF Past, Reading

-------------------------------------------------------------------------------
(* What a step may do to what requests rely on.                              *)

(* The key of what a request changes.                                        *)
LEMMA ItemKeys ==
    ASSUME NEW op
    PROVE  /\ op.name = "updatePartner" => ItemKey(op) = PartnerKey(op.id)
           /\ op.name = "updateDestination" => ItemKey(op) = DestinationKey(op.id)
           /\ op.name = "updateSubscription" => ItemKey(op) = CatalogKey(op.id)
           /\ op.name = "deleteSubscription" => ItemKey(op) = CatalogKey(op.id)
           /\ ItemKey(op)[1] \in Resources
           /\ ItemKey(op)[2] = op.id
           /\ ItemKey(op) = <<ItemKey(op)[1], op.id>>
    BY DEF ItemKey, PartnerKey, DestinationKey, CatalogKey, Resources

(* No step takes away what a request has learnt: ids stay with their         *)
(* resource, items keep their identity and, but for late writes, advance one *)
(* version at a time.                                                        *)
Steady ==
    /\ hosted' = hosted
    /\ LateWrite => LateWrite'
    /\ \A j \in Ids : audits[j] \in Nat /\ audits'[j] \in Nat /\ audits[j] <= audits'[j]
    /\ \A class, j : Owned(class, j) => Owned(class, j)'
    /\ \A k \in DOMAIN table' : k[1] \in Resources /\ Owned(k[1], k[2]) =>
        /\ k \in DOMAIN table
        /\ SameIdentity(k, table[k], table'[k])
        /\ table'[k].version \in {table[k].version, table[k].version + 1}
        /\ ~LateWrite' => \/ table'[k] = table[k]
                          \/ table'[k].version = table[k].version + 1
    /\ \A k \in DOMAIN table : k[1] = "VERSION" =>
        k \in DOMAIN table' /\ table'[k] = table[k]

(* What was an item is one still.                                            *)
LEMMA FormerKept ==
    ASSUME Steady, NEW k, k[1] \in Resources, NEW item, Former(k, item)
    PROVE  Former(k, item)'
<1>1. /\ IsResource(item, k[2])
      /\ k[1] = "SUBSCRIPTION" => IsRoutable(item)
      /\ Owned(k[1], k[2]) /\ k[2] \in Ids
      /\ item.version <= audits[k[2]]
      /\ k \in DOMAIN table => SameIdentity(k, item, table[k])
    BY DEF Former, Owned
<1>2. Owned(k[1], k[2])'
    BY <1>1 DEF Steady
<1>3. item.version <= audits'[k[2]]
    <2>1. /\ audits[k[2]] \in Nat /\ audits'[k[2]] \in Nat
          /\ audits[k[2]] <= audits'[k[2]]
        BY <1>1 DEF Steady
    <2>2. item.version \in Nat
        BY <1>1 DEF IsResource
    <2> QED
        BY <1>1, <2>1, <2>2
<1>4. ASSUME k \in DOMAIN table'
      PROVE  SameIdentity(k, item, table'[k])
    <2>1. k \in DOMAIN table /\ SameIdentity(k, table[k], table'[k])
        BY <1>1, <1>4 DEF Steady
    <2> QED
        BY <1>1, <2>1 DEF SameIdentity
<1> QED
    BY <1>1, <1>2, <1>3, <1>4 DEF Former

(* What is up to date stays so, without late writes.                         *)
LEMMA UpToDateKept ==
    ASSUME Steady, TableInv, NEW r, ~LateWrite', UpToDate(r),
           r.seen.version \in Nat, Owned(ItemKey(r.op)[1], ItemKey(r.op)[2])
    PROVE  UpToDate(r)'
<1> DEFINE k == ItemKey(r.op)
<1>1. k[1] \in Resources
    BY ItemKeys
<1>2. ASSUME k \in DOMAIN table'
      PROVE  /\ r.seen.version <= table'[k].version
             /\ r.seen.version = table'[k].version => r.seen = table'[k]
    <2>1. /\ k \in DOMAIN table
          /\ table'[k] = table[k] \/ table'[k].version = table[k].version + 1
        BY <1>1, <1>2 DEF Steady
    <2>2. table[k].version \in Nat
        BY <2>1, Gets
    <2>3. /\ r.seen.version <= table[k].version
          /\ r.seen.version = table[k].version => r.seen = table[k]
        BY <2>1 DEF UpToDate
    <2> QED
        BY <2>1, <2>2, <2>3
<1>3. r.expected <= r.seen.version
    BY DEF UpToDate
<1> QED
    BY <1>2, <1>3 DEF UpToDate

(* An update under way goes on as it was.                                    *)
LEMMA UpdateKept ==
    ASSUME Steady, TableInv, NEW r, UpdateOK(r)
    PROVE  UpdateOK(r)'
<1> DEFINE k == ItemKey(r.op)
<1>1. /\ r.expected \in Nat \ {0}
      /\ Owned(k[1], k[2])
      /\ k \in DOMAIN table => r.expected <= table[k].version
      /\ Past(r) /\ k \in DOMAIN table => NoOlder(r, table[k])
      /\ "key" \in DOMAIN r.op.changes => Past(r) /\ r.op.changes.key = r.seen.key
      /\ Past(r) => Former(k, r.seen)
      /\ Past(r) /\ ~r.late /\ ~LateWrite => UpToDate(r)
    BY DEF UpdateOK
<1>2. k[1] \in Resources
    BY ItemKeys
<1>3. Owned(k[1], k[2])'
    BY <1>1 DEF Steady
<1>4. Past(r) => Former(k, r.seen)'
    BY <1>1, <1>2, FormerKept
<1>5. ASSUME Past(r), ~r.late, ~LateWrite'
      PROVE  UpToDate(r)'
    <2>1. ~LateWrite
        BY <1>5 DEF Steady
    <2>2. r.seen.version \in Nat
        BY <1>1, <1>5 DEF Former, IsResource
    <2> QED
        BY <1>1, <1>5, <2>1, <2>2, UpToDateKept
<1>6. ASSUME k \in DOMAIN table'
      PROVE  r.expected <= table'[k].version /\ (Past(r) => NoOlder(r, table'[k]))
    <2>1. /\ k \in DOMAIN table
          /\ table'[k].version \in {table[k].version, table[k].version + 1}
        BY <1>1, <1>2, <1>6 DEF Steady
    <2>2. table[k].version \in Nat
        BY <2>1, Gets
    <2>3. r.expected <= table'[k].version
        BY <1>1, <2>1, <2>2
    <2>4. ASSUME Past(r)
          PROVE  NoOlder(r, table'[k])
        <3>1. r.seen.version \in Nat
            BY <1>1, <2>4 DEF Former, IsResource
        <3>2. NoOlder(r, table[k])
            BY <1>1, <2>1, <2>4
        <3> QED
            BY <2>1, <2>2, <3>1, <3>2 DEF NoOlder
    <2> QED
        BY <2>3, <2>4
<1> QED
    BY <1>1, <1>3, <1>4, <1>5, <1>6 DEF UpdateOK

(* So does every request that does not move.                                 *)
LEMMA RequestKept ==
    ASSUME Steady, TableInv, NEW c \in Slots, NEW r, RequestOK(c, r)
    PROVE  RequestOK(c, r)'
<1>1. r.late => hosted'
    BY DEF RequestOK, Steady
<1>2. ASSUME UnderWay(r)
      PROVE  UnderWay(r)'
    <2>1. r.op.name \in Updates => UpdateOK(r)'
        BY <1>2, UpdateKept DEF UnderWay
    <2>2. ASSUME r.op.name = "deleteSubscription", Past(r)
          PROVE  Former(CatalogKey(r.op.id), r.seen)'
        <3>1. CatalogKey(r.op.id)[1] \in Resources
            BY Keys DEF Resources
        <3>2. Former(CatalogKey(r.op.id), r.seen)
            BY <1>2, <2>2 DEF UnderWay, DeleteOK
        <3> QED
            BY <3>1, <3>2, FormerKept
    <2>3. ASSUME r.op.name = "createTransformationVersion", Past(r)
          PROVE  /\ IsResource(r.seen, r.op.id)
                 /\ VersionKey(r.op.id, r.seen.version) \in DOMAIN table'
                 /\ table'[VersionKey(r.op.id, r.seen.version)] = r.seen
        <3> DEFINE k == VersionKey(r.op.id, r.seen.version)
        <3>1. IsResource(r.seen, r.op.id) /\ k \in DOMAIN table /\ table[k] = r.seen
            BY <1>2, <2>3 DEF UnderWay, VersionOK
        <3>2. k[1] = "VERSION"
            BY Keys
        <3> HIDE DEF k
        <3>3. k \in DOMAIN table' /\ table'[k] = table[k]
            BY <3>1, <3>2 DEF Steady
        <3> QED
            BY <3>1, <3>3 DEF k
    <2>4. r.op.name = "deleteSubscription" => DeleteOK(r)'
        BY <2>2 DEF DeleteOK
    <2>5. r.op.name = "createTransformationVersion" => VersionOK(r)'
        BY <2>3 DEF VersionOK
    <2> QED
        BY <1>2, <2>1, <2>4, <2>5 DEF UnderWay
<1> QED
    BY <1>1, <1>2 DEF RequestOK

(* A step that leaves the store alone is steady.                             *)
LEMMA QuietSteady ==
    ASSUME Typed, UNCHANGED <<hosted, store>>, LateWrite => LateWrite'
    PROVE  Steady
<1>1. \A j \in Ids : audits[j] \in Nat /\ audits'[j] \in Nat /\ audits[j] <= audits'[j]
    BY DEF Typed, store
<1>2. \A class, j : Owned(class, j) => Owned(class, j)'
    BY DEF Owned, store
<1>3. \A k \in DOMAIN table' : /\ k \in DOMAIN table
                               /\ SameIdentity(k, table[k], table'[k])
                               /\ table'[k] = table[k]
    BY DEF store, SameIdentity
<1> QED
    BY <1>1, <1>2, <1>3 DEF Steady, store

(* It keeps what is said of the store.                                       *)
LEMMA QuietStore ==
    ASSUME StoreInv, UNCHANGED <<hosted, store>>, LateWrite => LateWrite'
    PROVE  StoreInv'
<1>1. table' = table /\ before' = before /\ audits' = audits
    BY DEF store
<1>2. TableInv'
    BY <1>1 DEF StoreInv, TableInv
<1>3. \A class, j : Owned(class, j) <=> Owned(class, j)'
    BY <1>1 DEF Owned
<1>4. OwnedInv'
    BY <1>1, <1>3 DEF StoreInv, OwnedInv
<1>5. AuditInv'
    BY <1>1 DEF StoreInv, AuditInv
<1>6. \A k, item : Former(k, item) => Former(k, item)'
    BY <1>1, <1>3 DEF Former
<1>7. BeforeInv'
    BY <1>1, <1>6 DEF StoreInv, BeforeInv
<1> QED
    BY <1>2, <1>4, <1>5, <1>7 DEF StoreInv

-------------------------------------------------------------------------------
(* What an accepted write does.                                              *)

(* To the item of a resource: a new one starts with the first audit event of *)
(* its id, the one that is audited advances, the others stay.                *)
Advances(i, k) ==
    \/ /\ k \notin DOMAIN table /\ k[2] = i /\ audits[i] = 0
       /\ table'[k].version = 1
    \/ k \in DOMAIN table /\ k[2] # i /\ table'[k] = table[k]
    \/ /\ k \in DOMAIN table /\ k[2] = i
       /\ SameIdentity(k, table[k], table'[k])
       /\ table'[k].version <= audits[i] + 1
       /\ table'[k].version \in {table[k].version, table[k].version + 1}
       /\ ~LateWrite' => table'[k].version = table[k].version + 1

(* Whatever replaces an item, but a late write, is its next version.         *)
Replaces ==
    \A k \in DOMAIN table \cap DOMAIN table' : table'[k] # table[k] =>
        /\ k[1] \notin {"EXTERNAL", "VERSION"}
        /\ ~LateWrite' => table'[k].version = table[k].version + 1

Evolves(class, i) ==
    /\ i \in Ids
    /\ audits' = [audits EXCEPT ![i] = @ + 1]
    /\ hosted' = hosted
    /\ audits[i] = 0 \/ \E k \in DOMAIN table : k[1] = class /\ k[2] = i
    /\ \A k \in DOMAIN table' :
        k[1] \in Classes /\ k \notin DOMAIN table => k[1] = class /\ k[2] = i
    /\ \A k \in DOMAIN table' : k[1] \in Resources => Advances(i, k)
    /\ \A k \in DOMAIN table : k[1] = "VERSION" => k \in DOMAIN table'
    /\ Recorded

(* Audit events only become more.                                            *)
LEMMA AuditsGrow ==
    ASSUME Typed, NEW class, NEW i, Evolves(class, i)
    PROVE  /\ audits' \in [Ids -> Nat]
           /\ \A j \in Ids : /\ audits[j] \in Nat /\ audits'[j] \in Nat
                             /\ audits[j] <= audits'[j]
                             /\ j # i => audits'[j] = audits[j]
           /\ audits'[i] = audits[i] + 1
<1>1. audits \in [Ids -> Nat] /\ i \in Ids /\ audits' = [audits EXCEPT ![i] = @ + 1]
    BY DEF Typed, Evolves
<1> QED
    BY <1>1

(* Ids stay with their class.                                                *)
LEMMA StaysOwned ==
    ASSUME Typed, NEW class, NEW i, Evolves(class, i), NEW cl, NEW j, Owned(cl, j)
    PROVE  Owned(cl, j)'
<1>1. /\ j \in Ids /\ audits[j] >= 1
      /\ \A k \in DOMAIN table : k[1] \in Classes /\ k[2] = j => k[1] = cl
    BY DEF Owned
<1>2. audits'[j] >= 1
    BY <1>1, AuditsGrow
<1>3. ASSUME NEW k \in DOMAIN table', k[1] \in Classes, k[2] = j
      PROVE  k[1] = cl
    <2>1. CASE k \in DOMAIN table
        BY <1>1, <1>3, <2>1
    <2>2. CASE k \notin DOMAIN table
        <3>1. k[1] = class /\ j = i
            BY <1>3, <2>2 DEF Evolves
        <3>2. PICK l \in DOMAIN table : l[1] = class /\ l[2] = i
            BY <1>1, <3>1 DEF Evolves
        <3> QED
            BY <1>1, <1>3, <3>1, <3>2
    <2> QED
        BY <2>1, <2>2
<1> QED
    BY <1>1, <1>2, <1>3 DEF Owned

(* An accepted write is steady.                                              *)
LEMMA EvolvesSteady ==
    ASSUME Typed, NEW class, NEW i, Evolves(class, i), Replaces,
           LateWrite => LateWrite'
    PROVE  Steady
<1>1. \A j \in Ids : audits[j] \in Nat /\ audits'[j] \in Nat /\ audits[j] <= audits'[j]
    BY AuditsGrow
<1>2. \A cl, j : Owned(cl, j) => Owned(cl, j)'
    BY StaysOwned
<1>3. ASSUME NEW k \in DOMAIN table', k[1] \in Resources, Owned(k[1], k[2])
      PROVE  /\ k \in DOMAIN table
             /\ SameIdentity(k, table[k], table'[k])
             /\ table'[k].version \in {table[k].version, table[k].version + 1}
             /\ ~LateWrite' => \/ table'[k] = table[k]
                               \/ table'[k].version = table[k].version + 1
    <2>1. Advances(i, k)
        BY <1>3 DEF Evolves
    <2>2. audits[k[2]] >= 1 /\ k[2] \in Ids
        BY <1>3 DEF Owned
    <2>3. audits[k[2]] # 0
        BY <1>1, <2>2
    <2> QED
        BY <2>1, <2>3 DEF Advances, SameIdentity
<1>4. /\ hosted' = hosted
      /\ \A k \in DOMAIN table : k[1] = "VERSION" =>
            k \in DOMAIN table' /\ table'[k] = table[k]
    BY DEF Evolves, Replaces
<1> QED
    BY <1>1, <1>2, <1>3, <1>4 DEF Steady

(* An item of the table is one that was under its key.                       *)
LEMMA PresentFormer ==
    ASSUME StoreInv, NEW k \in DOMAIN table, k[1] \in Resources
    PROVE  Former(k, table[k])
<1>1. /\ IsResource(table[k], k[2])
      /\ k[1] = "SUBSCRIPTION" => IsRoutable(table[k])
    BY SoundResource DEF StoreInv, TableInv
<1>2. Owned(k[1], k[2])
    BY KindsAre DEF StoreInv, OwnedInv
<1>3. table[k].version <= audits[k[2]]
    BY DEF StoreInv, AuditInv
<1> QED
    BY <1>1, <1>2, <1>3 DEF Former, SameIdentity

(* And it keeps what is said of the store.                                   *)
LEMMA EvolvesStore ==
    ASSUME Typed, StoreInv, NEW class, NEW i, Evolves(class, i), Replaces,
           LateWrite => LateWrite', Sound(table')
    PROVE  StoreInv'
<1>1. Steady
    BY EvolvesSteady
<1>2. TableInv'
    BY DEF TableInv
<1>3. OwnedInv'
    <2> SUFFICES ASSUME NEW k \in DOMAIN table', k[1] \in Classes
                 PROVE  Owned(k[1], k[2])'
        BY DEF OwnedInv
    <2>1. CASE k \in DOMAIN table
        <3>1. Owned(k[1], k[2])
            BY <2>1 DEF StoreInv, OwnedInv
        <3> QED
            BY <3>1, StaysOwned
    <2>2. CASE k \notin DOMAIN table
        <3>1. k[1] = class /\ k[2] = i /\ i \in Ids
            BY <2>2 DEF Evolves
        <3>2. audits'[i] >= 1
            BY <3>1, AuditsGrow
        <3>3. ASSUME NEW l \in DOMAIN table', l[1] \in Classes, l[2] = i
              PROVE  l[1] = class
            <4>1. CASE l \notin DOMAIN table
                BY <3>3, <4>1 DEF Evolves
            <4>2. CASE l \in DOMAIN table
                <5>1. Owned(l[1], i)
                    BY <3>3, <4>2 DEF StoreInv, OwnedInv
                <5>2. audits[i] # 0
                    BY <5>1, AuditsGrow DEF Owned
                <5>3. PICK m \in DOMAIN table : m[1] = class /\ m[2] = i
                    BY <5>2 DEF Evolves
                <5> QED
                    BY <3>1, <5>1, <5>3 DEF Owned
            <4> QED
                BY <4>1, <4>2
        <3> QED
            BY <3>1, <3>2, <3>3 DEF Owned
    <2> QED
        BY <2>1, <2>2
<1>4. AuditInv'
    <2> SUFFICES ASSUME NEW k \in DOMAIN table', k[1] \in Resources
                 PROVE  /\ table'[k].version <= audits'[k[2]]
                        /\ ~LateWrite' => table'[k].version = audits'[k[2]]
        BY DEF AuditInv
    <2>1. Advances(i, k)
        BY DEF Evolves
    <2>2. k[2] \in Ids
        BY <1>3, KindsAre DEF OwnedInv, Owned
    <2>3. /\ audits[k[2]] \in Nat /\ audits'[i] = audits[i] + 1
          /\ k[2] # i => audits'[k[2]] = audits[k[2]]
        BY <2>2, AuditsGrow
    <2>4. k \in DOMAIN table =>
            /\ table[k].version <= audits[k[2]]
            /\ ~LateWrite => table[k].version = audits[k[2]]
        BY DEF StoreInv, AuditInv
    <2> QED
        BY <2>1, <2>3, <2>4 DEF Advances
<1>5. BeforeInv'
    <2> SUFFICES ASSUME NEW k \in DOMAIN before', k[1] \in Resources, before'[k] # Absent
                 PROVE  /\ Former(k, before[k])'
                        /\ k \in DOMAIN table' =>
                            table'[k].version \in {before'[k].version, before'[k].version + 1}
        BY DEF BeforeInv
    <2>1. PICK item : /\ item = before'[k]
                      /\ Former(k, item)
                      /\ k \in DOMAIN table /\ k \in DOMAIN table' =>
                            table'[k].version \in {item.version, item.version + 1}
        <3>1. CASE before'[k] = Get(k)
            <4>1. k \in DOMAIN table /\ before'[k] = table[k]
                BY <3>1, Gets DEF StoreInv
            <4>2. Former(k, table[k])
                BY <4>1, PresentFormer, Gets DEF StoreInv
            <4>3. Owned(k[1], k[2])
                BY <4>2 DEF Former
            <4>4. k \in DOMAIN table' =>
                    table'[k].version \in {table[k].version, table[k].version + 1}
                BY <1>1, <4>3 DEF Steady
            <4> QED
                BY <4>1, <4>2, <4>4
        <3>2. CASE /\ k \in DOMAIN before /\ before'[k] = before[k]
                   /\ k \in DOMAIN table' => k \in DOMAIN table /\ table'[k] = table[k]
            <4>1. Former(k, before[k])
                BY <3>2 DEF StoreInv, BeforeInv
            <4>2. k \in DOMAIN table =>
                    table[k].version \in {before[k].version, before[k].version + 1}
                BY <3>2 DEF StoreInv, BeforeInv
            <4> QED
                BY <3>2, <4>1, <4>2
        <3> QED
            BY <3>1, <3>2 DEF Evolves, Recorded
    <2>2. Former(k, item)'
        BY <1>1, <2>1, FormerKept
    <2>3. Former(k, before[k])'
        BY <2>1, <2>2 DEF Former, Owned
    <2>4. k \in DOMAIN table' => k \in DOMAIN table
        <3>1. Owned(k[1], k[2])
            BY <2>1 DEF Former
        <3> QED
            BY <1>1, <3>1 DEF Steady
    <2> QED
        BY <2>1, <2>3, <2>4
<1> QED
    BY <1>2, <1>3, <1>4, <1>5 DEF StoreInv

-------------------------------------------------------------------------------
(* Accepted writes, one kind after the other.                                *)

Commits(W, i) ==
    /\ Accepted(W) /\ Apply(W)
    /\ audits' = [audits EXCEPT ![i] = @ + 1]
    /\ hosted' = hosted

OneEach(W) == \A v, w \in W : v.key = w.key => v = w

(* A transaction of creations, whose items fit together.                     *)
LEMMA Grows ==
    ASSUME Typed, StoreInv, NEW class \in Classes, NEW i \in Ids,
           NEW W, Commits(W, i), OneEach(W), IsFiniteSet({w.key : w \in W}),
           \A w \in W : /\ w.allowed = {0} /\ w.item # Absent
                        /\ Shaped(w.key, w.item)
                        /\ Linked(table', w.key)
                        /\ w.key[1] \in Classes =>
                            /\ w.key[1] = class /\ w.key[2] = i
                            /\ class \in Resources => w.item.version = 1,
           \/ audits[i] = 0
           \/ class = "VERSION" /\ \E k \in DOMAIN table : k[1] = class /\ k[2] = i
    PROVE  Sound(table') /\ Evolves(class, i) /\ Replaces
<1>1. \A w \in W : w.key \notin DOMAIN table
    BY AcceptedPut DEF Commits, StoreInv
<1>2. /\ \A k : k \in DOMAIN table' <=>
                \/ \E w \in W : w.key = k /\ w.item # Absent
                \/ k \in DOMAIN table /\ \A w \in W : w.key # k
      /\ \A w \in W : w.item # Absent => table'[w.key] = w.item
      /\ \A k \in DOMAIN table : (\A w \in W : w.key # k) => table'[k] = table[k]
      /\ DOMAIN table' \subseteq DOMAIN table \cup {w.key : w \in W}
      /\ Recorded
    BY Applied DEF Commits, OneEach
<1>3. \A k \in DOMAIN table : k \in DOMAIN table' /\ table'[k] = table[k]
    BY <1>1, <1>2
<1>4. \A k \in DOMAIN table' : k \notin DOMAIN table =>
        \E w \in W : w.key = k /\ table'[k] = w.item
    BY <1>2
<1>5. Sound(table')
    <2>1. IsFiniteSet(DOMAIN table')
        BY <1>2, StaysFinite DEF StoreInv, TableInv, Sound
    <2>2. ASSUME NEW k \in DOMAIN table', k \notin DOMAIN table
          PROVE  Shaped(k, table'[k]) /\ Linked(table', k)
        BY <1>4, <2>2
    <2>3. ASSUME NEW k \in DOMAIN table
          PROVE  Shaped(k, table'[k]) /\ Linked(table', k)
        <3>1. Shaped(k, table[k]) /\ Linked(table, k)
            BY DEF StoreInv, TableInv, Sound
        <3>2. Linked(table', k)
            BY <1>3, <3>1 DEF Linked
        <3> QED
            BY <1>3, <3>1, <3>2
    <2> QED
        BY <2>1, <2>2, <2>3 DEF Sound
<1>6. ASSUME NEW k \in DOMAIN table, k[1] \in Resources
      PROVE  k[2] # i
    <2>1. Owned(k[1], k[2])
        BY <1>6, KindsAre DEF StoreInv, OwnedInv
    <2>2. audits[k[2]] >= 1
        BY <2>1 DEF Owned
    <2>3. CASE audits[i] = 0
        BY <2>2, <2>3
    <2>4. CASE class = "VERSION" /\ \E l \in DOMAIN table : l[1] = class /\ l[2] = i
        <3>1. PICK l \in DOMAIN table : l[1] = class /\ l[2] = i
            BY <2>4
        <3> QED
            BY <1>6, <2>1, <2>4, <3>1 DEF Owned, Resources
    <2> QED
        BY <2>3, <2>4
<1>7. ASSUME NEW k \in DOMAIN table', k[1] \in Resources
      PROVE  Advances(i, k)
    <2>1. CASE k \in DOMAIN table
        BY <1>3, <1>6, <1>7, <2>1 DEF Advances
    <2>2. CASE k \notin DOMAIN table
        <3>1. PICK w \in W : w.key = k /\ table'[k] = w.item
            BY <1>4, <2>2
        <3>2. k[1] = class /\ k[2] = i /\ table'[k].version = 1
            BY <1>7, <3>1, KindsAre
        <3>3. audits[i] = 0
            BY <1>7, <3>2 DEF Resources
        <3> QED
            BY <2>2, <3>2, <3>3 DEF Advances
    <2> QED
        BY <2>1, <2>2
<1>8. \A k \in DOMAIN table' :
        k[1] \in Classes /\ k \notin DOMAIN table => k[1] = class /\ k[2] = i
    BY <1>4
<1>9. Evolves(class, i)
    BY <1>2, <1>3, <1>7, <1>8 DEF Evolves, Commits
<1>10. Replaces
    BY <1>3 DEF Replaces
<1> QED
    BY <1>5, <1>9, <1>10

(* Where the items of a create are.                                          *)
LEMMA Placed ==
    ASSUME NEW W, Apply(W), OneEach(W)
    PROVE  \A w \in W : w.item # Absent =>
                w.key \in DOMAIN table' /\ table'[w.key] = w.item
    BY Applied DEF OneEach

(* A fresh id is one of Ids without an audit event.                          *)
LEMMA Freshness ==
    ASSUME NEW i \in Fresh
    PROVE  i \in Ids /\ audits[i] = 0
    BY DEF Fresh

(* Creating a partner, a destination or a transformation.                    *)
LEMMA CreateEvolves ==
    ASSUME Typed, StoreInv, NEW i \in Fresh, NEW item, IsResource(item, i),
           item.version = 1,
           NEW kind \in {"PARTNER", "DESTINATION", "TRANSFORMATION"},
           Commits(CreateWrites(kind, HomeKey(kind, i), i, item), i)
    PROVE  Sound(table') /\ Replaces /\ \E class : Evolves(class, i)
<1> DEFINE home == HomeKey(kind, i)
           ext == ExternalKey(kind, item.key)
           v == PutNew(home, item)
           w == PutNew(ext, Pointer(i))
           W == {v, w}
           class == IF kind = "TRANSFORMATION" THEN "VERSION" ELSE kind
<1>1. Commits(W, i)
    BY DEF CreateWrites
<1>2. /\ home[1] = class /\ home[2] = i /\ class \in Classes /\ kind \in Kinds
      /\ class \notin {"EXTERNAL", "EVENT_TYPE", "SUBSCRIPTION"}
      /\ ext[1] = "EXTERNAL" /\ ext[2] = kind /\ ext[3] = item.key
    BY Homed, Keys DEF Kinds, Classes
<1>3. /\ v.key = home /\ v.item = item /\ v.allowed = {0}
      /\ w.key = ext /\ w.item = Pointer(i) /\ w.allowed = {0}
    BY Puts
<1>4. item # Absent /\ Pointer(i) # Absent
    BY DEF IsResource, Absent, Pointer
<1>5. i \in Ids /\ audits[i] = 0
    BY Freshness
<1>6. Shaped(home, item)
    <2>1. CASE kind = "TRANSFORMATION"
        <3>1. home = VersionKey(i, 1) /\ home[3] = 1
            BY <1>2, <2>1, Homed, Keys
        <3> QED
            BY <1>2, <1>5, <2>1, <3>1 DEF Shaped
    <2>2. CASE kind # "TRANSFORMATION"
        <3>1. home = <<kind, i>>
            BY <2>2 DEF HomeKey
        <3> QED
            BY <1>2, <1>5, <2>2, <3>1 DEF Shaped
    <2> QED
        BY <2>1, <2>2
<1>7. Shaped(ext, Pointer(i))
    <2>1. Pointer(i).id = i
        BY DEF Pointer
    <2> QED
        BY <1>2, <1>5, <2>1 DEF Shaped
<1>8. \A k \in Kinds : home = HomeKey(k, i) => k = kind
    BY Homed, <1>2 DEF Kinds
<1>9. class \in Resources => item.version = 1
    OBVIOUS
<1>10. \A p, q \in W : p.key = q.key => p = q
    BY <1>2, <1>3
<1>11. W = {v, w, w}
    OBVIOUS
<1> HIDE DEF home, ext, v, w, class, W
<1>12. OneEach(W)
    BY <1>10 DEF OneEach
<1>13. IsFiniteSet({p.key : p \in W})
    BY <1>11, FewKeys
<1>14. /\ home \in DOMAIN table' /\ table'[home] = item
       /\ ext \in DOMAIN table' /\ table'[ext] = Pointer(i)
    <2>1. \A p \in W : p.item # Absent => p.key \in DOMAIN table' /\ table'[p.key] = p.item
        BY <1>1, <1>12, Placed DEF Commits
    <2> QED
        BY <1>3, <1>4, <1>11, <2>1
<1>15. Linked(table', home)
    <2>1. \A k \in Kinds : home = HomeKey(k, home[2]) =>
            /\ ExternalKey(k, table'[home].key) \in DOMAIN table'
            /\ table'[ExternalKey(k, table'[home].key)] = Pointer(home[2])
        BY <1>2, <1>8, <1>14 DEF ext
    <2> QED
        BY <1>2, <2>1 DEF Linked
<1>16. Linked(table', ext)
    <2>1. \A k \in Kinds : ext # HomeKey(k, ext[2])
        BY <1>2, Homed DEF Kinds
    <2>2. table'[ext].id = i
        BY <1>14 DEF Pointer
    <2>3. HomeKey(ext[2], table'[ext].id) = home
        BY <1>2, <2>2 DEF home
    <2> QED
        BY <1>2, <1>14, <2>1, <2>3 DEF Linked
<1>17. \A p \in W : /\ p.allowed = {0} /\ p.item # Absent
                    /\ Shaped(p.key, p.item)
                    /\ Linked(table', p.key)
                    /\ p.key[1] \in Classes =>
                        /\ p.key[1] = class /\ p.key[2] = i
                        /\ class \in Resources => p.item.version = 1
    BY <1>2, <1>3, <1>4, <1>6, <1>7, <1>9, <1>11, <1>15, <1>16, KindsAre
<1> QED
    BY <1>1, <1>2, <1>5, <1>12, <1>13, <1>17, Grows

(* Creating a subscription.                                                  *)
LEMMA CreateSubscriptionEvolves ==
    ASSUME Typed, StoreInv, NEW i \in Fresh, NEW item, IsResource(item, i),
           item.version = 1, IsRoutable(item),
           Commits(CreateSubscription(item), i)
    PROVE  Sound(table') /\ Replaces /\ \E class : Evolves(class, i)
<1> DEFINE home == CatalogKey(i)
           ext == ExternalKey("SUBSCRIPTION", item.key)
           route == RouteKey(item)
           u == PutNew(route, item)
           v == PutNew(home, item)
           w == PutNew(ext, Pointer(i))
           W == {u, v, w}
<1>1. Commits(W, i)
    <2>1. item.id = i
        BY DEF IsResource
    <2>2. CreateSubscription(item) = W
        BY <2>1 DEF CreateSubscription, CreateWrites
    <2> QED
        BY <2>2
<1>2. /\ home[1] = "SUBSCRIPTION" /\ home[2] = i
      /\ home = HomeKey("SUBSCRIPTION", i) /\ home = <<"SUBSCRIPTION", i>>
      /\ "SUBSCRIPTION" \in Kinds /\ "SUBSCRIPTION" \in Classes
      /\ ext[1] = "EXTERNAL" /\ ext[2] = "SUBSCRIPTION" /\ ext[3] = item.key
      /\ route[1] = "EVENT_TYPE"
    BY Homed, Keys DEF Kinds, Classes, CatalogKey
<1>3. /\ v.key = home /\ v.item = item /\ v.allowed = {0}
      /\ w.key = ext /\ w.item = Pointer(i) /\ w.allowed = {0}
      /\ u.key = route /\ u.item = item /\ u.allowed = {0}
    BY Puts
<1>4. item # Absent /\ Pointer(i) # Absent /\ item.id = i
    BY DEF IsResource, Absent, Pointer
<1>5. i \in Ids /\ audits[i] = 0
    BY Freshness
<1>6. Shaped(home, item) /\ Shaped(route, item)
    BY <1>2, <1>4, <1>5 DEF Shaped
<1>7. Shaped(ext, Pointer(i))
    <2>1. Pointer(i).id = i
        BY DEF Pointer
    <2> QED
        BY <1>2, <1>5, <2>1 DEF Shaped
<1>8. \A k \in Kinds : home = HomeKey(k, i) => k = "SUBSCRIPTION"
    BY Homed, <1>2 DEF Kinds
<1>9. \A p, q \in W : p.key = q.key => p = q
    BY <1>2, <1>3
<1> HIDE DEF home, ext, route, u, v, w, W
<1>10. OneEach(W)
    BY <1>9 DEF OneEach
<1>11. W = {u, v, w}
    BY DEF W
<1>12. IsFiniteSet({p.key : p \in W})
    BY <1>11, FewKeys
<1>13. /\ home \in DOMAIN table' /\ table'[home] = item
       /\ ext \in DOMAIN table' /\ table'[ext] = Pointer(i)
       /\ route \in DOMAIN table' /\ table'[route] = item
    <2>1. \A p \in W : p.item # Absent => p.key \in DOMAIN table' /\ table'[p.key] = p.item
        BY <1>1, <1>10, Placed DEF Commits
    <2> QED
        BY <1>3, <1>4, <1>11, <2>1
<1>14. Linked(table', home)
    <2>1. \A k \in Kinds : home = HomeKey(k, home[2]) =>
            /\ ExternalKey(k, table'[home].key) \in DOMAIN table'
            /\ table'[ExternalKey(k, table'[home].key)] = Pointer(home[2])
        BY <1>2, <1>8, <1>13 DEF ext
    <2>2. RouteKey(table'[home]) = route
        BY <1>13 DEF route
    <2> QED
        BY <1>2, <1>13, <2>1, <2>2 DEF Linked
<1>15. Linked(table', ext)
    <2>1. \A k \in Kinds : ext # HomeKey(k, ext[2])
        BY <1>2, Homed DEF Kinds
    <2>2. table'[ext].id = i
        BY <1>13 DEF Pointer
    <2>3. HomeKey(ext[2], table'[ext].id) = home
        BY <1>2, <2>2
    <2> QED
        BY <1>2, <1>13, <2>1, <2>3 DEF Linked
<1>16. Linked(table', route)
    <2>1. \A k \in Kinds : route # HomeKey(k, route[2])
        BY <1>2, Homed DEF Kinds
    <2>2. CatalogKey(table'[route].id) = home
        BY <1>4, <1>13 DEF home
    <2> QED
        BY <1>2, <1>13, <2>1, <2>2 DEF Linked
<1>17. \A p \in W : /\ p.allowed = {0} /\ p.item # Absent
                    /\ Shaped(p.key, p.item)
                    /\ Linked(table', p.key)
                    /\ p.key[1] \in Classes =>
                        /\ p.key[1] = "SUBSCRIPTION" /\ p.key[2] = i
                        /\ "SUBSCRIPTION" \in Resources => p.item.version = 1
    BY <1>2, <1>3, <1>4, <1>6, <1>7, <1>11, <1>14, <1>15, <1>16, KindsAre
<1> QED
    BY <1>1, <1>2, <1>5, <1>10, <1>12, <1>17, Grows

(* Adding a version to a transformation that has one.                        *)
LEMMA CreateVersionEvolves ==
    ASSUME Typed, StoreInv, NEW i \in Ids, NEW item, IsResource(item, i),
           item.version >= 2,
           \E k \in DOMAIN table : k[1] = "VERSION" /\ k[2] = i,
           Commits({PutNew(VersionKey(i, item.version), item)}, i)
    PROVE  Sound(table') /\ Replaces /\ Evolves("VERSION", i)
<1> DEFINE key == VersionKey(i, item.version)
           w == PutNew(key, item)
           W == {w}
<1>1. Commits(W, i)
    OBVIOUS
<1>2. /\ key[1] = "VERSION" /\ key[2] = i /\ key[3] = item.version
      /\ "VERSION" \in Classes /\ "VERSION" \notin Resources
    BY Keys DEF Classes, Resources
<1>3. w.key = key /\ w.item = item /\ w.allowed = {0}
    BY Puts
<1>4. item # Absent /\ item.version \in Nat \ {0}
    BY DEF IsResource, Absent
<1>5. Shaped(key, item)
    BY <1>2, <1>4 DEF Shaped
<1>6. \A k \in Kinds : key # HomeKey(k, i)
    <2>1. VersionKey(i, 1)[3] = 1 /\ item.version # 1
        BY <1>4, Keys
    <2> QED
        BY <1>2, <2>1, Homed DEF Kinds
<1>7. Linked(table', key)
    BY <1>2, <1>6 DEF Linked
<1> HIDE DEF key, w
<1>8. OneEach(W)
    BY DEF OneEach
<1>9. W = {w, w, w}
    OBVIOUS
<1> HIDE DEF W
<1>10. IsFiniteSet({p.key : p \in W})
    BY <1>9, FewKeys
<1>11. \A p \in W : /\ p.allowed = {0} /\ p.item # Absent
                    /\ Shaped(p.key, p.item)
                    /\ Linked(table', p.key)
                    /\ p.key[1] \in Classes =>
                        /\ p.key[1] = "VERSION" /\ p.key[2] = i
                        /\ "VERSION" \in Resources => p.item.version = 1
    BY <1>2, <1>3, <1>4, <1>5, <1>7, <1>9
<1> QED
    BY <1>1, <1>2, <1>8, <1>10, <1>11, Grows

(* Where else an item is: a subscription also is in the routing table.       *)
Places(k) ==
    {k} \cup (IF k[1] = "SUBSCRIPTION" THEN {RouteKey(table[k])} ELSE {})

(* The routes of two subscriptions differ.                                   *)
LEMMA RoutesDiffer ==
    ASSUME TableInv, NEW j \in DOMAIN table, NEW k \in DOMAIN table,
           j[1] = "SUBSCRIPTION", k[1] = "SUBSCRIPTION",
           RouteKey(table[j]) = RouteKey(table[k])
    PROVE  j = k
<1>1. table[j] = table[k]
    BY SoundCatalog DEF TableInv
<1>2. /\ j = <<j[1], j[2]>> /\ table[j].id = j[2]
      /\ k = <<k[1], k[2]>> /\ table[k].id = k[2]
    BY SoundResource DEF TableInv, Resources, IsResource
<1> QED
    BY <1>1, <1>2

(* A resource's key is not an external key, nor a route.                     *)
LEMMA PlacesApart ==
    ASSUME NEW k, k[1] \in Resources, NEW j \in Places(k)
    PROVE  /\ j = k \/ (k[1] = "SUBSCRIPTION" /\ j = RouteKey(table[k]))
           /\ j[1] \in Resources \cup {"EVENT_TYPE"}
           /\ j[1] \in Resources => j = k
           /\ j[1] = "EVENT_TYPE" => k[1] = "SUBSCRIPTION" /\ j = RouteKey(table[k])
           /\ j[1] \notin {"EXTERNAL", "VERSION"}
<1>1. j = k \/ (k[1] = "SUBSCRIPTION" /\ j = RouteKey(table[k]))
    BY DEF Places
<1>2. RouteKey(table[k])[1] = "EVENT_TYPE"
    BY Keys
<1> QED
    BY <1>1, <1>2 DEF Resources

(* The home of a resource is a place of it alone.                            *)
LEMMA HomeApart ==
    ASSUME NEW k, k[1] \in Resources, k = <<k[1], k[2]>>, NEW kind \in Kinds, NEW i,
           HomeKey(kind, i) \in Places(k)
    PROVE  HomeKey(kind, i) = k /\ kind = k[1] /\ i = k[2]
<1>1. HomeKey(kind, i)[1] # "EVENT_TYPE" /\ HomeKey(kind, i)[2] = i
    BY Homed, KindsAre DEF Resources
<1>2. HomeKey(kind, i) = k
    BY <1>1, PlacesApart
<1>3. kind = k[1]
    BY <1>2, Homed DEF Resources
<1> QED
    BY <1>1, <1>2, <1>3

(* The next version of a resource, wherever it is.                           *)
LEMMA ReplacedSound ==
    ASSUME StoreInv, NEW k \in DOMAIN table, k[1] \in Resources, NEW item,
           IsResource(item, k[2]), SameIdentity(k, table[k], item),
           k[1] = "SUBSCRIPTION" => IsRoutable(item),
           DOMAIN table' = DOMAIN table,
           \A j \in Places(k) : table'[j] = item,
           \A j \in DOMAIN table : j \notin Places(k) => table'[j] = table[j]
    PROVE  Sound(table')
<1>1. /\ k = <<k[1], k[2]>> /\ k[2] \in Ids /\ IsResource(table[k], k[2])
      /\ k[1] \in Kinds /\ k \in Places(k) /\ table'[k] = item
    BY SoundResource, KindsAre DEF StoreInv, TableInv, Places
<1>2. k[1] = "SUBSCRIPTION" =>
        /\ RouteKey(table[k]) = RouteKey(item)
        /\ RouteKey(table[k]) \in DOMAIN table
        /\ RouteKey(table[k]) \in Places(k)
        /\ CatalogKey(item.id) = k
    <2>1. ASSUME k[1] = "SUBSCRIPTION"
          PROVE  /\ RouteKey(table[k]) = RouteKey(item)
                 /\ CatalogKey(item.id) = k
        BY <1>1, <2>1 DEF SameIdentity, RouteKey, CatalogKey, IsResource
    <2>2. ASSUME k[1] = "SUBSCRIPTION"
          PROVE  RouteKey(table[k]) \in DOMAIN table
        BY <2>2, SoundCatalog DEF StoreInv, TableInv
    <2> QED
        BY <2>1, <2>2 DEF Places
<1>3. item.key = table[k].key /\ item.id = k[2]
    BY DEF SameIdentity, IsResource
<1>4. ASSUME NEW j \in DOMAIN table
      PROVE  Shaped(j, table'[j])
    <2>1. CASE j = k
        BY <1>1, <2>1 DEF Shaped, Resources
    <2>2. CASE k[1] = "SUBSCRIPTION" /\ j = RouteKey(table[k])
        <3>1. j[1] = "EVENT_TYPE" /\ j = RouteKey(item) /\ table'[j] = item
            BY <1>2, <2>2, Keys
        <3> QED
            BY <1>1, <1>3, <3>1 DEF Shaped
    <2>3. CASE j \notin Places(k)
        <3>1. Shaped(j, table[j])
            BY SoundShape DEF StoreInv, TableInv
        <3> QED
            BY <2>3, <3>1
    <2> QED
        BY <2>1, <2>2, <2>3 DEF Places
<1>5. ASSUME NEW j \in DOMAIN table, NEW kind \in Kinds, j = HomeKey(kind, j[2])
      PROVE  /\ ExternalKey(kind, table'[j].key) \in DOMAIN table
             /\ table'[ExternalKey(kind, table'[j].key)] = Pointer(j[2])
    <2>1. j[2] \in Ids
        <3>1. j[1] \in Classes
            BY <1>5, Homed, KindsAre
        <3> QED
            BY <3>1 DEF StoreInv, OwnedInv, Owned
    <2>2. /\ ExternalKey(kind, table[j].key) \in DOMAIN table
          /\ table[ExternalKey(kind, table[j].key)] = Pointer(j[2])
        BY <1>5, <2>1, SoundHome DEF StoreInv, TableInv
    <2>3. table'[j].key = table[j].key
        <3>1. CASE j \in Places(k)
            BY <1>1, <1>3, <1>5, <3>1, HomeApart
        <3>2. CASE j \notin Places(k)
            BY <3>2
        <3> QED
            BY <3>1, <3>2
    <2>4. ExternalKey(kind, table[j].key) \notin Places(k)
        BY Keys, PlacesApart
    <2> QED
        BY <2>2, <2>3, <2>4
<1>6. ASSUME NEW j \in DOMAIN table, j[1] = "EXTERNAL"
      PROVE  /\ HomeKey(j[2], table'[j].id) \in DOMAIN table
             /\ table'[HomeKey(j[2], table'[j].id)].key = j[3]
    <2>1. j \notin Places(k)
        BY <1>6, PlacesApart
    <2>2. /\ HomeKey(j[2], table[j].id) \in DOMAIN table /\ j[2] \in Kinds
          /\ table[HomeKey(j[2], table[j].id)].key = j[3]
        BY <1>6, SoundPointer DEF StoreInv, TableInv
    <2>3. HomeKey(j[2], table[j].id) \in Places(k) => HomeKey(j[2], table[j].id) = k
        BY <1>1, <2>2, HomeApart
    <2> QED
        BY <1>1, <1>3, <2>1, <2>2, <2>3
<1>7. ASSUME NEW j \in DOMAIN table, j[1] = "SUBSCRIPTION"
      PROVE  /\ RouteKey(table'[j]) \in DOMAIN table
             /\ table'[RouteKey(table'[j])] = table'[j]
    <2>1. CASE j = k
        BY <1>1, <1>2, <1>7, <2>1
    <2>2. CASE j # k
        <3>1. j \notin Places(k)
            BY <1>7, <2>2, PlacesApart DEF Resources
        <3>2. RouteKey(table[j]) \in DOMAIN table /\ table[RouteKey(table[j])] = table[j]
            BY <1>7, SoundCatalog DEF StoreInv, TableInv
        <3>3. RouteKey(table[j]) \notin Places(k)
            <4>1. RouteKey(table[j])[1] = "EVENT_TYPE"
                BY Keys
            <4> QED
                BY <1>7, <2>2, <4>1, PlacesApart, RoutesDiffer DEF StoreInv
        <3> QED
            BY <3>1, <3>2, <3>3
    <2> QED
        BY <2>1, <2>2
<1>8. ASSUME NEW j \in DOMAIN table, j[1] = "EVENT_TYPE"
      PROVE  /\ CatalogKey(table'[j].id) \in DOMAIN table
             /\ table'[CatalogKey(table'[j].id)] = table'[j]
    <2>1. CASE j \in Places(k)
        <3>1. k[1] = "SUBSCRIPTION" /\ table'[j] = item
            BY <1>8, <2>1, PlacesApart
        <3> QED
            BY <1>1, <1>2, <3>1
    <2>2. CASE j \notin Places(k)
        <3>1. /\ j = RouteKey(table[j]) /\ CatalogKey(table[j].id) \in DOMAIN table
              /\ table[CatalogKey(table[j].id)] = table[j]
            BY <1>8, SoundRoute DEF StoreInv, TableInv
        <3>2. CatalogKey(table[j].id)[1] = "SUBSCRIPTION"
            BY Keys
        <3>3. CatalogKey(table[j].id) # k
            BY <2>2, <3>1, <3>2 DEF Places
        <3>4. CatalogKey(table[j].id) \notin Places(k)
            BY <3>2, <3>3, PlacesApart DEF Resources
        <3> QED
            BY <2>2, <3>1, <3>4
    <2> QED
        BY <2>1, <2>2
<1>9. \A j \in DOMAIN table : Linked(table', j)
    BY <1>5, <1>6, <1>7, <1>8 DEF Linked
<1>10. IsFiniteSet(DOMAIN table)
    BY DEF StoreInv, TableInv, Sound
<1> QED
    BY <1>4, <1>9, <1>10 DEF Sound

(* It is an accepted write of that resource.                                 *)
LEMMA ReplacedEvolves ==
    ASSUME Typed, StoreInv, NEW k \in DOMAIN table, k[1] \in Resources, NEW item,
           SameIdentity(k, table[k], item),
           item.version <= audits[k[2]] + 1,
           item.version \in {table[k].version, table[k].version + 1},
           ~LateWrite' => item.version = table[k].version + 1,
           DOMAIN table' = DOMAIN table,
           \A j \in Places(k) : table'[j] = item,
           \A j \in DOMAIN table : j \notin Places(k) => table'[j] = table[j],
           audits' = [audits EXCEPT ![k[2]] = @ + 1], hosted' = hosted,
           Recorded
    PROVE  Evolves(k[1], k[2]) /\ Replaces
<1>1. Owned(k[1], k[2]) /\ k[1] \in Classes /\ k[2] \in Ids
    BY KindsAre DEF StoreInv, OwnedInv, Owned
<1>2. k = <<k[1], k[2]>> /\ k \in Places(k)
    BY SoundResource DEF StoreInv, TableInv, Places
<1>3. ASSUME NEW j \in DOMAIN table, j[1] \in Resources
      PROVE  Advances(k[2], j)
    <2>1. CASE j = k
        BY <1>2, <2>1 DEF Advances
    <2>2. CASE j # k
        <3>1. j \notin Places(k)
            BY <1>3, <2>2, PlacesApart
        <3>2. j = <<j[1], j[2]>> /\ j[1] \in Classes
            BY <1>3, SoundResource, KindsAre DEF StoreInv, TableInv
        <3>3. j[2] # k[2]
            BY <1>1, <1>2, <2>2, <3>2 DEF Owned
        <3> QED
            BY <3>1, <3>3 DEF Advances
    <2> QED
        BY <2>1, <2>2
<1>4. Evolves(k[1], k[2])
    BY <1>1, <1>3 DEF Evolves
<1>5. ASSUME NEW j \in DOMAIN table, table'[j] # table[j]
      PROVE  /\ j[1] \notin {"EXTERNAL", "VERSION"}
             /\ ~LateWrite' => table'[j].version = table[j].version + 1
    <2>1. j \in Places(k) /\ table'[j] = item
        BY <1>5
    <2>2. table[j] = table[k]
        <3>1. CASE j = k
            BY <3>1
        <3>2. CASE k[1] = "SUBSCRIPTION" /\ j = RouteKey(table[k])
            BY <3>2, SoundCatalog DEF StoreInv, TableInv
        <3> QED
            BY <2>1, <3>1, <3>2, PlacesApart
    <2> QED
        BY <2>1, <2>2, PlacesApart
<1>6. Replaces
    BY <1>5 DEF Replaces
<1> QED
    BY <1>4, <1>6

(* Writing the next version of an item that was seen, on the condition that  *)
(* the present one has the version the client named.                         *)
LEMMA UpdateEvolves ==
    ASSUME Typed, StoreInv, NEW k, k[1] \in Resources, NEW seen, Former(k, seen),
           NEW item, IsResource(item, k[2]), item.version = seen.version + 1,
           SameIdentity(k, seen, item),
           k[1] = "SUBSCRIPTION" => IsRoutable(item),
           NEW e \in Nat \ {0},
           k \in DOMAIN table /\ table[k].version = e => item.version \in {e, e + 1},
           ~LateWrite' /\ k \in DOMAIN table /\ table[k].version = e => seen = table[k],
           NEW W, Commits(W, k[2]), OneEach(W),
           \E w \in W : w.key = k,
           k[1] = "SUBSCRIPTION" => \E w \in W : w.key = RouteKey(item),
           \A w \in W : /\ w.item = item /\ w.allowed = {e}
                        /\ \/ w.key = k
                           \/ k[1] = "SUBSCRIPTION" /\ w.key = RouteKey(item)
    PROVE  /\ Sound(table') /\ Replaces /\ Evolves(k[1], k[2])
           /\ k \in DOMAIN table
           /\ table'[k] = item /\ table[k].version = e
           /\ \A j \in DOMAIN table : j[1] \in Resources /\ j # k => table'[j] = table[j]
           /\ ~LateWrite' => seen = table[k]
<1>1. Accepted(W) /\ Apply(W)
    BY DEF Commits
<1>2. \A w \in W : w.key \in DOMAIN table /\ table[w.key].version = e
    BY <1>1, AcceptedPut DEF StoreInv
<1>3. k \in DOMAIN table /\ table[k].version = e
    BY <1>2
<1>4. SameIdentity(k, seen, table[k]) /\ seen.version <= audits[k[2]]
    BY <1>3 DEF Former
<1>5. SameIdentity(k, table[k], item)
    BY <1>4 DEF SameIdentity
<1>6. k[1] = "SUBSCRIPTION" => RouteKey(item) = RouteKey(table[k])
    BY <1>5 DEF SameIdentity, RouteKey
<1>7. \A j : j \in Places(k) <=> \E w \in W : w.key = j
    BY <1>6 DEF Places
<1>8. item # Absent
    BY DEF IsResource, Absent
<1>9. /\ \A j : j \in DOMAIN table' <=>
                \/ \E w \in W : w.key = j /\ w.item # Absent
                \/ j \in DOMAIN table /\ \A w \in W : w.key # j
      /\ \A w \in W : w.item # Absent => table'[w.key] = w.item
      /\ \A j \in DOMAIN table : (\A w \in W : w.key # j) => table'[j] = table[j]
      /\ Recorded
    BY <1>1, Applied DEF OneEach
<1>10. DOMAIN table' = DOMAIN table
    <2>1. \A j : j \in DOMAIN table' <=> j \in DOMAIN table
        BY <1>2, <1>8, <1>9
    <2> QED
        BY <2>1
<1>11. \A j \in Places(k) : table'[j] = item
    BY <1>7, <1>8, <1>9
<1>12. \A j \in DOMAIN table : j \notin Places(k) => table'[j] = table[j]
    BY <1>7, <1>9
<1>13. Sound(table')
    BY <1>3, <1>5, <1>10, <1>11, <1>12, ReplacedSound
<1>14. item.version <= audits[k[2]] + 1
    <2>1. k[2] \in Ids
        BY DEF Former, Owned
    <2>2. audits[k[2]] \in Nat /\ seen.version \in Nat
        BY <2>1 DEF Former, IsResource, Typed
    <2> QED
        BY <1>4, <2>2
<1>15. ~LateWrite' => item.version = table[k].version + 1
    BY <1>3
<1>16. Evolves(k[1], k[2]) /\ Replaces
    BY <1>3, <1>5, <1>9, <1>10, <1>11, <1>12, <1>14, <1>15, ReplacedEvolves DEF Commits
<1>17. \A j \in DOMAIN table : j[1] \in Resources /\ j # k => table'[j] = table[j]
    BY <1>12, PlacesApart
<1>18. table'[k] = item
    BY <1>11 DEF Places
<1> QED
    BY <1>3, <1>13, <1>16, <1>17, <1>18

(* Deleting a subscription that was seen.                                    *)
LEMMA DeleteEvolves ==
    ASSUME Typed, StoreInv, NEW i, NEW s, Former(CatalogKey(i), s),
           Commits(DeleteSubscription(s), i)
    PROVE  Sound(table') /\ Replaces /\ Evolves("SUBSCRIPTION", i)
<1> DEFINE k == CatalogKey(i)
           ext == ExternalKey("SUBSCRIPTION", s.key)
           route == RouteKey(s)
           u == Delete(route)
           v == Delete(k)
           w == DeleteAny(ext)
           W == {u, v, w}
           K == {route, k, ext}
<1>1. /\ k[1] = "SUBSCRIPTION" /\ k[2] = i /\ k = <<"SUBSCRIPTION", i>>
      /\ k = HomeKey("SUBSCRIPTION", i)
      /\ "SUBSCRIPTION" \in Kinds /\ "SUBSCRIPTION" \in Resources
      /\ route[1] = "EVENT_TYPE"
      /\ ext[1] = "EXTERNAL" /\ ext[2] = "SUBSCRIPTION" /\ ext[3] = s.key
    BY Keys, Homed DEF CatalogKey, Kinds, Resources
<1>2. s.id = i /\ i \in Ids
    BY <1>1 DEF Former, IsResource, Owned
<1>3. Commits(W, i)
    BY <1>2 DEF DeleteSubscription
<1>4. /\ u.key = route /\ v.key = k /\ w.key = ext
      /\ u.item = Absent /\ v.item = Absent /\ w.item = Absent
      /\ 0 \notin v.allowed
    BY Puts
<1>5. \A p, q \in W : p.key = q.key => p = q
    BY <1>1, <1>4
<1>6. \A j : (\E p \in W : p.key = j) <=> j \in K
    BY <1>4
<1>7. \A p \in W : p.item = Absent
    BY <1>4
<1>8. v \in W
    OBVIOUS
<1>9. \A j \in K : j = route \/ j = k \/ j = ext
    OBVIOUS
<1>10. route \in K /\ k \in K /\ ext \in K
    OBVIOUS
<1> HIDE DEF k, ext, route, u, v, w, W, K
<1>11. k \in DOMAIN table
    BY <1>3, <1>4, <1>8, AcceptedPut DEF Commits, StoreInv
<1>12. /\ \A j : j \in DOMAIN table' <=> j \in DOMAIN table /\ j \notin K
       /\ \A j \in DOMAIN table : j \notin K => table'[j] = table[j]
       /\ Recorded
    <2>1. Apply(W)
        BY <1>3 DEF Commits
    <2>2. /\ \A j : j \in DOMAIN table' <=>
                \/ \E p \in W : p.key = j /\ p.item # Absent
                \/ j \in DOMAIN table /\ \A p \in W : p.key # j
          /\ \A j \in DOMAIN table : (\A p \in W : p.key # j) => table'[j] = table[j]
          /\ Recorded
        BY <1>5, <2>1, Applied
    <2> QED
        BY <1>6, <1>7, <2>2
<1>13. /\ RouteKey(table[k]) = route /\ table[k].key = s.key /\ table[k].id = i
       /\ ext \in DOMAIN table /\ table[ext] = Pointer(i)
    <2>1. SameIdentity(k, s, table[k])
        BY <1>11 DEF Former, k
    <2>2. table[k].key = s.key /\ RouteKey(table[k]) = route
        BY <1>1, <2>1 DEF SameIdentity, RouteKey, route
    <2>3. table[k].id = i
        BY <1>1, <1>11, SoundResource DEF StoreInv, TableInv, IsResource
    <2>4. /\ ExternalKey("SUBSCRIPTION", table[k].key) \in DOMAIN table
          /\ table[ExternalKey("SUBSCRIPTION", table[k].key)] = Pointer(i)
        BY <1>1, <1>2, <1>11, SoundHome DEF StoreInv, TableInv
    <2> QED
        BY <2>2, <2>3, <2>4 DEF ext
<1>14. ASSUME NEW j \in DOMAIN table, j \notin K
       PROVE  Shaped(j, table'[j])
    BY <1>12, <1>14, SoundShape DEF StoreInv, TableInv
<1>15. ASSUME NEW j \in DOMAIN table, j \notin K, NEW kind \in Kinds,
              j = HomeKey(kind, j[2])
       PROVE  /\ ExternalKey(kind, table'[j].key) \in DOMAIN table'
              /\ table'[ExternalKey(kind, table'[j].key)] = Pointer(j[2])
    <2> DEFINE p == ExternalKey(kind, table[j].key)
    <2>1. j[2] \in Ids
        <3>1. j[1] \in Classes
            BY <1>15, Homed, KindsAre
        <3> QED
            BY <3>1 DEF StoreInv, OwnedInv, Owned
    <2>2. p \in DOMAIN table /\ table[p] = Pointer(j[2])
        BY <1>15, <2>1, SoundHome DEF StoreInv, TableInv
    <2>3. p[1] = "EXTERNAL" /\ p[2] = kind
        BY Keys
    <2>4. p \notin K
        <3>1. ASSUME p = ext
              PROVE  FALSE
            <4>1. kind = "SUBSCRIPTION"
                BY <1>1, <2>3, <3>1
            <4>2. j[2] = i
                BY <1>13, <2>2, <3>1 DEF Pointer
            <4> QED
                BY <1>1, <1>10, <1>15, <4>1, <4>2
        <3> QED
            BY <1>1, <1>9, <2>3, <3>1
    <2> QED
        BY <1>12, <1>15, <2>2, <2>4
<1>16. ASSUME NEW j \in DOMAIN table, j \notin K, j[1] = "EXTERNAL"
       PROVE  /\ HomeKey(j[2], table'[j].id) \in DOMAIN table'
              /\ table'[HomeKey(j[2], table'[j].id)].key = j[3]
    <2> DEFINE h == HomeKey(j[2], table[j].id)
    <2>1. /\ h \in DOMAIN table /\ table[h].key = j[3] /\ j[2] \in Kinds
          /\ j = ExternalKey(j[2], j[3])
        BY <1>16, SoundPointer DEF StoreInv, TableInv
    <2>2. h[1] \in Classes /\ (h[1] = "SUBSCRIPTION" => j[2] = "SUBSCRIPTION")
        BY <2>1, Homed, KindsAre
    <2>3. h # k
        BY <1>1, <1>10, <1>13, <1>16, <2>1, <2>2 DEF ext
    <2>4. h \notin K
        BY <1>1, <1>9, <2>2, <2>3, KindsAre
    <2> QED
        BY <1>12, <1>16, <2>1, <2>4
<1>17. ASSUME NEW j \in DOMAIN table, j \notin K, j[1] = "SUBSCRIPTION"
       PROVE  /\ RouteKey(table'[j]) \in DOMAIN table'
              /\ table'[RouteKey(table'[j])] = table'[j]
    <2>1. RouteKey(table[j]) \in DOMAIN table /\ table[RouteKey(table[j])] = table[j]
        BY <1>17, SoundCatalog DEF StoreInv, TableInv
    <2>2. RouteKey(table[j])[1] = "EVENT_TYPE"
        BY Keys
    <2>3. RouteKey(table[j]) # route
        BY <1>1, <1>10, <1>11, <1>13, <1>17, RoutesDiffer DEF StoreInv
    <2>4. RouteKey(table[j]) \notin K
        BY <1>1, <1>9, <2>2, <2>3
    <2> QED
        BY <1>12, <1>17, <2>1, <2>4
<1>18. ASSUME NEW j \in DOMAIN table, j \notin K, j[1] = "EVENT_TYPE"
       PROVE  /\ CatalogKey(table'[j].id) \in DOMAIN table'
              /\ table'[CatalogKey(table'[j].id)] = table'[j]
    <2>1. /\ j = RouteKey(table[j]) /\ CatalogKey(table[j].id) \in DOMAIN table
          /\ table[CatalogKey(table[j].id)] = table[j]
        BY <1>18, SoundRoute DEF StoreInv, TableInv
    <2>2. CatalogKey(table[j].id)[1] = "SUBSCRIPTION"
        BY Keys
    <2>3. CatalogKey(table[j].id) # k
        BY <1>10, <1>13, <1>18, <2>1
    <2>4. CatalogKey(table[j].id) \notin K
        BY <1>1, <1>9, <2>2, <2>3
    <2> QED
        BY <1>12, <1>18, <2>1, <2>4
<1>19. Sound(table')
    <2>1. \A j \in DOMAIN table' : Linked(table', j)
        BY <1>12, <1>15, <1>16, <1>17, <1>18 DEF Linked
    <2>2. IsFiniteSet(DOMAIN table')
        <3>1. DOMAIN table' \subseteq DOMAIN table
            BY <1>12
        <3> QED
            BY <3>1, FS_Subset DEF StoreInv, TableInv, Sound
    <2> QED
        BY <1>12, <1>14, <2>1, <2>2 DEF Sound
<1>20. ASSUME NEW j \in DOMAIN table', j[1] \in Resources
       PROVE  Advances(i, j)
    <2>1. j \in DOMAIN table /\ j \notin K /\ table'[j] = table[j]
        BY <1>12
    <2>2. j[2] # i
        <3>1. Owned("SUBSCRIPTION", i)
            BY <1>1, <1>11, KindsAre DEF StoreInv, OwnedInv
        <3>2. j = <<j[1], j[2]>>
            BY <1>20, <2>1, SoundResource DEF StoreInv, TableInv
        <3> QED
            BY <1>1, <1>10, <1>20, <2>1, <3>1, <3>2, KindsAre DEF Owned
    <2> QED
        BY <2>1, <2>2 DEF Advances
<1>21. \A j \in DOMAIN table : j[1] = "VERSION" => j \in DOMAIN table'
    <2>1. \A j \in K : j[1] # "VERSION"
        BY <1>1, <1>9
    <2> QED
        BY <1>12, <2>1
<1>22. Evolves("SUBSCRIPTION", i)
    BY <1>1, <1>2, <1>3, <1>11, <1>12, <1>20, <1>21 DEF Evolves, Commits
<1>23. Replaces
    BY <1>12 DEF Replaces
<1> QED
    BY <1>19, <1>22, <1>23

-------------------------------------------------------------------------------
(* The write of a request.                                                   *)

(* A late write stays one: an API request is not taken up again.             *)
LEMMA LateStays ==
    ASSUME RequestsInv, NEW c \in Slots,
           \A d \in Slots : d # c => request'[d] = request[d],
           request[c].todo # <<>> \/ c \in Importers \/ request[c] = NoRequest
    PROVE  LateWrite => LateWrite'
<1>1. ~(request[c].late /\ request[c].outcome = "ok")
    <2>1. RequestOK(c, request[c])
        BY DEF RequestsInv
    <2>2. CASE request[c].todo # <<>>
        BY <2>1, <2>2 DEF RequestOK, UnderWay
    <2>3. CASE c \in Importers
        BY <2>1, <2>3 DEF RequestOK, Importers
    <2>4. CASE request[c] = NoRequest
        BY <2>4 DEF NoRequest
    <2> QED
        BY <2>2, <2>3, <2>4
<1> QED
    BY <1>1 DEF LateWrite

(* The transactions by name.                                                 *)
LEMMA WritesAre ==
    ASSUME NEW r, NEW i
    PROVE  /\ r.op.name = "createPartner" =>
                Writes(r, i) = CreateWrites("PARTNER", PartnerKey(i), i, Created(r, i))
           /\ r.op.name = "createDestination" =>
                Writes(r, i) =
                    CreateWrites("DESTINATION", DestinationKey(i), i, Created(r, i))
           /\ r.op.name = "createTransformation" =>
                Writes(r, i) =
                    CreateWrites("TRANSFORMATION", VersionKey(i, 1), i, Created(r, i))
           /\ r.op.name = "createTransformationVersion" =>
                Writes(r, i) =
                    {PutNew(VersionKey(r.op.id, Updated(r).version), Updated(r))}
           /\ r.op.name = "createSubscription" =>
                Writes(r, i) = CreateSubscription(Created(r, i))
           /\ r.op.name = "updateSubscription" =>
                Writes(r, i) = UpdateSubscription(Updated(r), r.expected)
           /\ r.op.name = "deleteSubscription" =>
                Writes(r, i) = DeleteSubscription(r.seen)
           /\ r.op.name \in {"updatePartner", "updateDestination"} =>
                Writes(r, i) = {Put(ItemKey(r.op), Updated(r), {r.expected})}
    BY DEF Writes, IfMatch

(* A write of something else changes no destination.                         *)
LEMMA NoDestination ==
    ASSUME Typed, StoreInv, NEW class, NEW i, Evolves(class, i),
           audits[i] = 0 \/ class \in Classes \ {"DESTINATION"},
           NEW k \in DOMAIN table \cap DOMAIN table', k[1] = "DESTINATION"
    PROVE  table'[k] = table[k]
<1>1. Advances(i, k)
    BY DEF Evolves, Resources
<1>2. Owned("DESTINATION", k[2]) /\ "DESTINATION" \in Classes
    BY DEF StoreInv, OwnedInv, Classes
<1>3. k[2] # i
    <2>1. ASSUME k[2] = i
          PROVE  FALSE
        <3>1. audits[i] >= 1
            BY <1>2, <2>1 DEF Owned
        <3>2. class \in Classes \ {"DESTINATION"}
            BY <3>1
        <3>3. PICK l \in DOMAIN table : l[1] = class /\ l[2] = i
            BY <3>1 DEF Evolves
        <3> QED
            BY <1>2, <2>1, <3>2, <3>3 DEF Owned
    <2> QED
        BY <2>1
<1> QED
    BY <1>1, <1>3 DEF Advances

(* What an accepted write does to the destinations it enables.               *)
Resumed ==
    \A k \in DOMAIN table \cap DOMAIN table' :
        k[1] = "DESTINATION" /\ ~table[k].enabled /\ table'[k].enabled =>
            resumes'[k[2]] = resumes[k[2]] + 1 \/ LateWrite'

Accomplishes(i) ==
    /\ Sound(table') /\ Replaces /\ Resumed
    /\ \E class : Evolves(class, i)

(* The creations.                                                            *)
LEMMA CreationWrites ==
    ASSUME Typed, StoreInv, NEW r, Proper(r.op), r.op.name \in Creations,
           NEW i \in Fresh, Commits(Writes(r, i), i)
    PROVE  Accomplishes(i)
<1> DEFINE item == Created(r, i)
<1>1. IsResource(item, i) /\ item.version = 1
    BY CreatedItem DEF Proper
<1>2. Sound(table') /\ Replaces /\ \E class : Evolves(class, i)
    <2>1. CASE r.op.name = "createPartner"
        <3>1. HomeKey("PARTNER", i) = PartnerKey(i)
            BY Homed DEF Kinds
        <3>2. Writes(r, i) = CreateWrites("PARTNER", HomeKey("PARTNER", i), i, item)
            BY <2>1, <3>1, WritesAre
        <3>3. Commits(CreateWrites("PARTNER", HomeKey("PARTNER", i), i, item), i)
            BY <3>2
        <3> QED
            BY <1>1, <3>3, CreateEvolves
    <2>2. CASE r.op.name = "createDestination"
        <3>1. HomeKey("DESTINATION", i) = DestinationKey(i)
            BY Homed DEF Kinds
        <3>2. Writes(r, i) = CreateWrites("DESTINATION", HomeKey("DESTINATION", i), i, item)
            BY <2>2, <3>1, WritesAre
        <3>3. Commits(CreateWrites("DESTINATION", HomeKey("DESTINATION", i), i, item), i)
            BY <3>2
        <3> QED
            BY <1>1, <3>3, CreateEvolves
    <2>3. CASE r.op.name = "createTransformation"
        <3> DEFINE home == HomeKey("TRANSFORMATION", i)
        <3>1. home = VersionKey(i, 1)
            BY Homed DEF Kinds
        <3>2. Writes(r, i) = CreateWrites("TRANSFORMATION", home, i, item)
            BY <2>3, <3>1, WritesAre
        <3>3. Commits(CreateWrites("TRANSFORMATION", home, i, item), i)
            BY <3>2
        <3> QED
            BY <1>1, <3>3, CreateEvolves
    <2>4. CASE r.op.name = "createSubscription"
        <3>1. Commits(CreateSubscription(item), i)
            BY <2>4, WritesAre
        <3>2. IsRoutable(item)
            BY <2>4, CreatedItem DEF Proper
        <3> QED
            BY <1>1, <3>1, <3>2, CreateSubscriptionEvolves
    <2> QED
        BY <2>1, <2>2, <2>3, <2>4 DEF Creations
<1>3. Resumed
    <2>1. \A k \in DOMAIN table \cap DOMAIN table' :
            k[1] = "DESTINATION" => table'[k] = table[k]
        BY <1>2, Freshness, NoDestination
    <2> QED
        BY <2>1 DEF Resumed
<1> QED
    BY <1>2, <1>3 DEF Accomplishes

(* The versions.                                                             *)
LEMMA VersionWrites ==
    ASSUME Typed, StoreInv, NEW r, Proper(r.op), VersionOK(r), Past(r),
           r.op.name = "createTransformationVersion",
           Commits(Writes(r, r.op.id), r.op.id)
    PROVE  Accomplishes(r.op.id)
<1> DEFINE i == r.op.id
           item == Updated(r)
<1>1. IsResource(r.seen, i) /\ \E k \in DOMAIN table : k[1] = "VERSION" /\ k[2] = i
    <2>1. /\ VersionKey(i, r.seen.version)[1] = "VERSION"
          /\ VersionKey(i, r.seen.version)[2] = i
        BY Keys
    <2> QED
        BY <2>1 DEF VersionOK
<1>2. DOMAIN r.op.changes \cap {"id", "eventType", "destination"} = {}
    BY DEF Proper
<1>3. IsResource(item, i) /\ item.version = r.seen.version + 1
    BY <1>1, <1>2, UpdatedItem
<1>4. item.version >= 2
    BY <1>1, <1>3 DEF IsResource
<1>5. i \in Ids
    BY <1>1 DEF StoreInv, OwnedInv, Owned, Classes
<1>6. Commits({PutNew(VersionKey(i, item.version), item)}, i)
    BY WritesAre
<1>7. Sound(table') /\ Replaces /\ Evolves("VERSION", i)
    BY <1>1, <1>3, <1>4, <1>5, <1>6, CreateVersionEvolves
<1>8. \A k \in DOMAIN table \cap DOMAIN table' :
        k[1] = "DESTINATION" => table'[k] = table[k]
    BY <1>7, NoDestination DEF Classes
<1> QED
    BY <1>7, <1>8 DEF Accomplishes, Resumed

(* The deletions.                                                            *)
LEMMA DeletionWrites ==
    ASSUME Typed, StoreInv, NEW r, DeleteOK(r), Past(r),
           r.op.name = "deleteSubscription",
           Commits(Writes(r, r.op.id), r.op.id)
    PROVE  Accomplishes(r.op.id)
<1>1. Former(CatalogKey(r.op.id), r.seen)
    BY DEF DeleteOK
<1>2. Commits(DeleteSubscription(r.seen), r.op.id)
    BY WritesAre
<1>3. Sound(table') /\ Replaces /\ Evolves("SUBSCRIPTION", r.op.id)
    BY <1>1, <1>2, DeleteEvolves
<1>4. \A k \in DOMAIN table \cap DOMAIN table' :
        k[1] = "DESTINATION" => table'[k] = table[k]
    BY <1>3, NoDestination DEF Classes
<1> QED
    BY <1>3, <1>4 DEF Accomplishes, Resumed

(* The updates.                                                              *)
LEMMA UpdateWrites ==
    ASSUME Typed, StoreInv, NEW r, Proper(r.op), UpdateOK(r), Past(r),
           r.op.name \in Updates,
           ~LateWrite' => ~r.late /\ ~LateWrite,
           Commits(Writes(r, r.op.id), r.op.id),
           resumes' = IF Resumes(r) THEN [resumes EXCEPT ![r.op.id] = @ + 1]
                      ELSE resumes
    PROVE  /\ Accomplishes(r.op.id)
           /\ table'[ItemKey(r.op)].version = r.seen.version + 1
<1> DEFINE k == ItemKey(r.op)
           i == r.op.id
           item == Updated(r)
           e == r.expected
           W == Writes(r, i)
<1>1. k[1] \in Resources /\ k[2] = i
    BY ItemKeys
<1>2. Former(k, r.seen) /\ e \in Nat \ {0} /\ i \in Ids
    BY <1>1 DEF UpdateOK, Owned
<1>3. IsResource(r.seen, i) /\ (k[1] = "SUBSCRIPTION" => IsRoutable(r.seen))
    BY <1>1, <1>2 DEF Former
<1>4. DOMAIN r.op.changes \cap {"id", "eventType", "destination"} = {}
    BY DEF Proper
<1>5. "key" \in DOMAIN r.op.changes => r.op.changes.key = r.seen.key
    BY DEF UpdateOK
<1>6. /\ IsResource(item, i) /\ item.version = r.seen.version + 1
      /\ item.key = r.seen.key
      /\ k[1] = "SUBSCRIPTION" => /\ IsRoutable(item)
                                  /\ item.eventType = r.seen.eventType
                                  /\ item.destination = r.seen.destination
    BY <1>3, <1>4, <1>5, UpdatedItem
<1>7. SameIdentity(k, r.seen, item)
    BY <1>6 DEF SameIdentity
<1>14. k \in DOMAIN table /\ table[k].version = e => item.version \in {e, e + 1}
    <2>1. ASSUME k \in DOMAIN table, table[k].version = e
          PROVE  item.version \in {e, e + 1}
        <3>1. NoOlder(r, table[k])
            BY <2>1 DEF UpdateOK
        <3>2. r.seen.version \in Nat
            BY <1>3 DEF IsResource
        <3> QED
            BY <1>2, <1>6, <2>1, <3>1, <3>2 DEF NoOlder
    <2> QED
        BY <2>1
<1>8. ~LateWrite' /\ k \in DOMAIN table /\ table[k].version = e => r.seen = table[k]
    <2>1. ASSUME ~LateWrite', k \in DOMAIN table, table[k].version = e
          PROVE  r.seen = table[k]
        <3>1. UpToDate(r)
            BY <2>1 DEF UpdateOK
        <3>2. /\ e <= r.seen.version /\ r.seen.version <= table[k].version
              /\ r.seen.version = table[k].version => r.seen = table[k]
            BY <2>1, <3>1 DEF UpToDate
        <3>3. r.seen.version \in Nat
            BY <1>3 DEF IsResource
        <3> QED
            BY <1>2, <2>1, <3>2, <3>3
    <2> QED
        BY <2>1
<1>9. /\ OneEach(W)
      /\ \E w \in W : w.key = k
      /\ k[1] = "SUBSCRIPTION" => \E w \in W : w.key = RouteKey(item)
      /\ \A w \in W : /\ w.item = item /\ w.allowed = {e}
                      /\ \/ w.key = k
                         \/ k[1] = "SUBSCRIPTION" /\ w.key = RouteKey(item)
    <2>1. CASE r.op.name = "updateSubscription"
        <3> DEFINE u == Put(RouteKey(item), item, {e})
                   v == Put(k, item, {e})
        <3>1. k = CatalogKey(i) /\ item.id = i /\ k[1] = "SUBSCRIPTION"
            BY <1>6, <2>1, ItemKeys, Keys DEF IsResource
        <3>2. W = {u, v}
            BY <2>1, <3>1, WritesAre DEF UpdateSubscription
        <3>3. /\ u.key = RouteKey(item) /\ u.item = item /\ u.allowed = {e}
              /\ v.key = k /\ v.item = item /\ v.allowed = {e}
            BY Puts
        <3>4. RouteKey(item) # k
            BY <3>1, Keys
        <3> HIDE DEF u, v, W, k, item, e
        <3> QED
            BY <3>1, <3>2, <3>3, <3>4 DEF OneEach
    <2>2. CASE r.op.name \in {"updatePartner", "updateDestination"}
        <3> DEFINE v == Put(k, item, {e})
        <3>1. k[1] # "SUBSCRIPTION"
            BY <2>2, ItemKeys, Keys
        <3>2. W = {v}
            BY <2>2, WritesAre
        <3>3. v.key = k /\ v.item = item /\ v.allowed = {e}
            BY Puts
        <3> HIDE DEF v, W, k, item, e
        <3> QED
            BY <3>1, <3>2, <3>3 DEF OneEach
    <2> QED
        BY <2>1, <2>2 DEF Updates
<1>10. Commits(W, k[2])
    BY <1>1
<1> HIDE DEF W, k, item, e, i
<1>11. /\ Sound(table') /\ Replaces /\ Evolves(k[1], k[2])
       /\ k \in DOMAIN table
       /\ table'[k] = item /\ table[k].version = e
       /\ \A j \in DOMAIN table : j[1] \in Resources /\ j # k => table'[j] = table[j]
       /\ ~LateWrite' => r.seen = table[k]
    BY <1>1, <1>2, <1>6, <1>7, <1>8, <1>9, <1>10, <1>14, UpdateEvolves
<1>12. Resumed
    <2> SUFFICES ASSUME NEW j \in DOMAIN table, j[1] = "DESTINATION",
                        ~table[j].enabled, table'[j].enabled, ~LateWrite'
                 PROVE  resumes'[j[2]] = resumes[j[2]] + 1
        BY DEF Resumed
    <2>1. j = k
        BY <1>11 DEF Resources
    <2>2. ~r.seen.enabled /\ Updated(r).enabled
        BY <1>11, <2>1 DEF item
    <2>3. r.op.name = "updateDestination"
        BY <2>1, ItemKeys, Keys DEF Updates, k
    <2>4. Resumes(r)
        BY <2>2, <2>3 DEF Resumes
    <2>5. resumes' = [resumes EXCEPT ![i] = @ + 1]
        BY <2>4 DEF i
    <2> QED
        BY <1>1, <1>2, <2>1, <2>5 DEF Typed
<1>13. Evolves(k[1], r.op.id)
    BY <1>1, <1>11 DEF i
<1>15. table'[k].version = r.seen.version + 1
    BY <1>6, <1>11
<1> QED
    BY <1>11, <1>12, <1>13, <1>15 DEF Accomplishes, k

-------------------------------------------------------------------------------
(* The steps of a request.                                                   *)

(* The others go on as they were.                                            *)
LEMMA RequestsKept ==
    ASSUME Steady, TableInv, RequestsInv, NEW c \in Slots,
           \A d \in Slots : d # c => request'[d] = request[d],
           RequestOK(c, request[c])'
    PROVE  RequestsInv'
<1>1. ASSUME NEW d \in Slots
      PROVE  RequestOK(d, request[d])'
    <2>1. CASE d = c
        BY <2>1
    <2>2. CASE d # c
        <3>1. RequestOK(d, request[d]) /\ request'[d] = request[d]
            BY <2>2 DEF RequestsInv
        <3>2. PICK r : r = request[d]
            OBVIOUS
        <3>3. RequestOK(d, r)
            BY <3>1, <3>2
        <3>4. RequestOK(d, r)'
            BY <3>3, RequestKept
        <3>5. request'[d] = r
            BY <3>1, <3>2
        <3> QED
            BY <3>4, <3>5
    <2> QED
        BY <2>1, <2>2
<1> QED
    BY <1>1 DEF RequestsInv

(* An ended request is in order.                                             *)
LEMMA EndOK ==
    ASSUME Typed, RequestsInv, NEW c \in Slots, request[c].todo # <<>>,
           NEW o \in Outcomes \ {"none"}, End(c, o), hosted' = hosted
    PROVE  /\ DOMAIN request' = Slots
           /\ \A d \in Slots : d # c => request'[d] = request[d]
           /\ RequestOK(c, request[c])'
           /\ LateWrite => LateWrite'
           /\ request'[c].todo = <<>> /\ request'[c].outcome = o
           /\ request'[c].late = request[c].late
<1>1. RequestOK(c, request[c])
    BY DEF RequestsInv
<1>2. /\ DOMAIN request' = Slots
      /\ \A d \in Slots : d # c => request'[d] = request[d]
      /\ request'[c] = [todo |-> <<>>, op |-> request[c].op,
                        seen |-> request[c].seen, late |-> request[c].late,
                        expected |-> request[c].expected, outcome |-> o]
    BY <1>1, Ended DEF Typed, RequestOK
<1>3. /\ request'[c].todo = <<>> /\ request'[c].op = request[c].op
      /\ request'[c].seen = request[c].seen /\ request'[c].late = request[c].late
      /\ request'[c].expected = request[c].expected /\ request'[c].outcome = o
    BY <1>2
<1>4. IsRequest(request'[c])
    BY <1>2, <1>3 DEF IsRequest
<1>5. ~Reading(request'[c])
    BY <1>3 DEF Reading
<1>6. RequestOK(c, request[c])'
    BY <1>1, <1>3, <1>4, <1>5 DEF RequestOK
<1>7. LateWrite => LateWrite'
    BY <1>2, LateStays
<1> QED
    BY <1>2, <1>3, <1>6, <1>7

(* Among the keys of finitely many versions one has the greatest number.     *)
LEMMA Greatest ==
    ASSUME NEW F, IsFiniteSet(F), F # {}, \A k \in F : k[3] \in Nat
    PROVE  \E x \in F : \A y \in F : y[3] <= x[3]
<1> DEFINE Above(x) == {y \in F : y[3] > x[3]}
           U == {Above(x) : x \in F}
<1>1. U \subseteq SUBSET F /\ U # {}
    <2>1. \A x \in F : Above(x) \subseteq F /\ Above(x) \in U
        OBVIOUS
    <2>2. \A u \in U : \E x \in F : u = Above(x)
        OBVIOUS
    <2> HIDE DEF U, Above
    <2> QED
        BY <2>1, <2>2
<1>2. IsWellFoundedOn(StrictSubsetOrdering(F), SUBSET F)
    BY FS_StrictSubsetOrderingWellFounded, FS_FiniteSubsetsOfFinite
<1>3. PICK u \in U : \A v \in U : <<v, u>> \notin StrictSubsetOrdering(F)
    <2> HIDE DEF U
    <2> QED
        BY <1>1, <1>2, WFMin
<1>4. PICK x \in F : u = Above(x)
    OBVIOUS
<1>5. ASSUME NEW y \in F, y[3] > x[3]
      PROVE  FALSE
    <2>1. Above(y) \subseteq Above(x) /\ y \in Above(x) /\ y \notin Above(y)
        BY <1>5
    <2>2. <<Above(y), Above(x)>> \in StrictSubsetOrdering(F)
        BY <2>1 DEF StrictSubsetOrdering
    <2> QED
        BY <1>3, <1>4, <2>2
<1>6. \A y \in F : y[3] <= x[3]
    BY <1>5
<1> QED
    BY <1>6

(* The numbers on the first page of a transformation's versions.            *)
FirstPage(i) ==
    LET numbers == {k[3] : k \in {k \in Existing("VERSION") : k[2] = i}}
    IN  {n \in numbers : Cardinality({m \in numbers : m < n}) < VersionPage}

(* The last of the page is one of the transformation's versions.             *)
LEMMA LastOfPage ==
    ASSUME TableInv, NEW i, FirstPage(i) # {}
    PROVE  LET k == VersionKey(i, Max(FirstPage(i)))
           IN  /\ k \in DOMAIN table /\ IsResource(table[k], i)
               /\ k = VersionKey(i, table[k].version)
<1> DEFINE K == {k \in Existing("VERSION") : k[2] = i}
           numbers == {k[3] : k \in K}
           first == {n \in numbers : Cardinality({m \in numbers : m < n}) < VersionPage}
           F == {k \in K : k[3] \in first}
<1>1. first # {} /\ first = FirstPage(i)
    BY DEF FirstPage
<1>2. \A k \in K : /\ k \in DOMAIN table /\ k[1] = "VERSION" /\ k[2] = i
                   /\ k = VersionKey(i, k[3]) /\ k[3] \in Nat
                   /\ IsResource(table[k], i) /\ k[3] = table[k].version
    <2>1. \A k \in K : k \in DOMAIN table /\ k[1] = "VERSION" /\ k[2] = i
        BY DEF Existing
    <2> QED
        BY <2>1, SoundVersion DEF TableInv
<1>3. \A n \in first : \E k \in F : k[3] = n
    OBVIOUS
<1>4. \A k \in F : k \in K /\ k[3] \in first
    OBVIOUS
<1>5. IsFiniteSet(F) /\ F # {}
    <2>1. F \subseteq DOMAIN table
        BY <1>2
    <2>2. IsFiniteSet(DOMAIN table)
        BY DEF TableInv, Sound
    <2>3. IsFiniteSet(F)
        BY <2>1, <2>2, FS_Subset
    <2> QED
        BY <1>1, <1>3, <2>3
<1> HIDE DEF F, first, numbers, K
<1>6. PICK x \in F : \A y \in F : y[3] <= x[3]
    BY <1>2, <1>4, <1>5, Greatest
<1>7. x[3] \in first /\ \A n \in first : x[3] >= n
    <2>1. \A n \in first : n \in Nat /\ n <= x[3]
        BY <1>2, <1>3, <1>4, <1>6
    <2> QED
        BY <1>2, <1>4, <2>1
<1>8. Max(first) \in first
    BY <1>7 DEF Max
<1>9. PICK k \in F : k[3] = Max(first)
    BY <1>3, <1>8
<1> QED
    BY <1>1, <1>2, <1>4, <1>9

(* The latest version is one of the transformation's.                        *)
LEMMA LatestIs ==
    ASSUME TableInv, NEW i, Latest(i) # Absent
    PROVE  /\ IsResource(Latest(i), i)
           /\ VersionKey(i, Latest(i).version) \in DOMAIN table
           /\ table[VersionKey(i, Latest(i).version)] = Latest(i)
<1>1. FirstPage(i) # {} /\ Latest(i) = table[VersionKey(i, Max(FirstPage(i)))]
    BY DEF Latest, FirstPage
<1> QED
    BY <1>1, LastOfPage

(* A transformation with a first version has a latest.                       *)
LEMMA LatestPresent ==
    ASSUME TableInv, NEW i, VersionKey(i, 1) \in DOMAIN table
    PROVE  Latest(i) # Absent
<1> DEFINE numbers == {k[3] : k \in {k \in Existing("VERSION") : k[2] = i}}
<1>1. 1 \in numbers
    <2>1. VersionKey(i, 1) \in {k \in Existing("VERSION") : k[2] = i}
        BY Keys DEF Existing
    <2> QED
        BY <2>1, Keys
<1>2. {m \in numbers : m < 1} = {}
    <2>1. \A k \in DOMAIN table : k[1] = "VERSION" => k[3] \in Nat \ {0}
        BY SoundVersion DEF TableInv
    <2>2. \A m \in numbers : m \in Nat \ {0}
        BY <2>1 DEF Existing
    <2> HIDE DEF numbers
    <2> QED
        BY <2>2
<1>3. FirstPage(i) = {n \in numbers : Cardinality({m \in numbers : m < n}) < VersionPage}
    BY DEF FirstPage
<1> HIDE DEF numbers
<1>4. Cardinality({m \in numbers : m < 1}) < VersionPage
    BY <1>2, FS_EmptySet, Constants
<1>5. FirstPage(i) # {}
    BY <1>1, <1>3, <1>4
<1>6. Latest(i) = table[VersionKey(i, Max(FirstPage(i)))]
    BY <1>5 DEF Latest, FirstPage
<1> QED
    BY <1>5, <1>6, LastOfPage, Versioned DEF TableInv, Absent

(* A request whose step is done is in order, if that was neither its read    *)
(* nor its write.                                                            *)
LEMMA SameOK ==
    ASSUME NEW c, NEW r, RequestOK(c, r), r.todo # <<>>, NEW q,
           q = [todo |-> q.todo, op |-> r.op, seen |-> r.seen, late |-> r.late,
                expected |-> r.expected, outcome |-> r.outcome],
           Past(r) <=> Past(q), Reading(r) <=> Reading(q)
    PROVE  RequestOK(c, q)
<1>1. /\ q.op = r.op /\ q.seen = r.seen /\ q.late = r.late
      /\ q.expected = r.expected /\ q.outcome = r.outcome
    OBVIOUS
<1>2. IsRequest(q)
    BY <1>1 DEF IsRequest
<1>3. q.todo # <<>>
    <2>1. Past(r) \/ Reading(r)
        BY DEF RequestOK
    <2>2. Past(q) \/ Reading(q)
        BY <2>1
    <2> QED
        BY <2>2 DEF Past, Reading
<1>4. UnderWay(r)
    BY DEF RequestOK
<1>5. UpToDate(r) <=> UpToDate(q)
    BY <1>1 DEF UpToDate
<1>6. UpdateOK(r) => UpdateOK(q)
    BY <1>1, <1>5 DEF UpdateOK, NoOlder
<1>7. DeleteOK(r) => DeleteOK(q)
    BY <1>1 DEF DeleteOK
<1>8. VersionOK(r) => VersionOK(q)
    BY <1>1 DEF VersionOK
<1>9. UnderWay(q)
    BY <1>1, <1>4, <1>6, <1>7, <1>8 DEF UnderWay
<1> QED
    BY <1>1, <1>2, <1>3, <1>9 DEF RequestOK

(* A step of a request that leaves the store alone.                          *)
LEMMA QuietKept ==
    ASSUME Typed, StoreInv, RequestsInv, UNCHANGED <<hosted, store>>,
           NEW c \in Slots,
           \A d \in Slots : d # c => request'[d] = request[d],
           request[c].todo # <<>> \/ c \in Importers \/ request[c] = NoRequest,
           RequestOK(c, request'[c])
    PROVE  StoreInv' /\ RequestsInv'
<1>1. LateWrite => LateWrite'
    BY LateStays
<1>2. Steady
    BY <1>1, QuietSteady
<1>3. PICK q : q = request'[c]
    OBVIOUS
<1>4. RequestOK(c, q)
    BY <1>3
<1>5. RequestOK(c, q)'
    BY <1>2, <1>4, RequestKept DEF StoreInv
<1>6. RequestOK(c, request[c])'
    BY <1>3, <1>5
<1> QED
    BY <1>1, <1>2, <1>6, QuietStore, RequestsKept DEF StoreInv

(* Recording a rotation and storing a credential.                            *)
LEMMA SecretKept ==
    ASSUME Typed, StoreInv, RequestsInv, NEW c \in Slots,
           AuditRotation(c) \/ StoreSecret(c)
    PROVE  Typed' /\ StoreInv' /\ RequestsInv'
<1>1. /\ request[c].todo # <<>> /\ Head(request[c].todo) \in {"audit", "secret"}
      /\ NextStep(c) /\ UNCHANGED <<hosted, store>>
    BY DEF AuditRotation, StoreSecret, Doing
<1>2. RequestOK(c, request[c])
    BY DEF RequestsInv
<1>3. /\ DOMAIN request' = Slots
      /\ \A d \in Slots : d # c => request'[d] = request[d]
      /\ request'[c] = [todo |-> Tail(request[c].todo), op |-> request[c].op,
                        seen |-> request[c].seen, late |-> request[c].late,
                        expected |-> request[c].expected,
                        outcome |-> request[c].outcome]
    BY <1>1, <1>2, Stepped DEF Typed, RequestOK
<1>4. request'[c].todo = Tail(request[c].todo)
    BY <1>3
<1>5. /\ Past(request[c]) => Past(request'[c])
      /\ Reading(request[c]) => Reading(request'[c])
      /\ Past(request[c]) \/ Reading(request[c])
      /\ ~(Past(request'[c]) /\ Reading(request'[c]))
    <2>1. request[c].todo = <<>> \/ Past(request[c]) \/ Reading(request[c])
        BY <1>2 DEF RequestOK
    <2>2. Past(request[c]) => Past(request'[c])
        BY <1>1, <1>4, <2>1, Todos DEF Past
    <2>3. Reading(request[c]) => Reading(request'[c])
        BY <1>1, <1>4, <2>1, Todos DEF Reading
    <2>4. ~(Past(request'[c]) /\ Reading(request'[c]))
        BY Todos
    <2> QED
        BY <1>1, <2>1, <2>2, <2>3, <2>4
<1>6. RequestOK(c, request'[c])
    <2>1. request'[c] = [todo |-> request'[c].todo, op |-> request[c].op,
                         seen |-> request[c].seen, late |-> request[c].late,
                         expected |-> request[c].expected,
                         outcome |-> request[c].outcome]
        BY <1>3, <1>4
    <2>2. /\ Past(request[c]) <=> Past(request'[c])
          /\ Reading(request[c]) <=> Reading(request'[c])
        BY <1>5
    <2> QED
        BY <1>1, <1>2, <2>1, <2>2, SameOK
<1>7. StoreInv' /\ RequestsInv'
    BY <1>1, <1>3, <1>6, QuietKept
<1>8. rotations' \in [Aliases -> Nat] /\ secret' \in [Aliases -> Nat]
    BY DEF AuditRotation, StoreSecret, Typed
<1>9. Typed'
    BY <1>1, <1>3, <1>8 DEF Typed, AuditRotation, StoreSecret, store
<1> QED
    BY <1>7, <1>9

(* What a read returns is, or was, the item of that resource.                *)
LEMMA ReadsFormer ==
    ASSUME StoreInv, NEW k, k[1] \in Resources, NEW s \in Reads(k), s # Absent
    PROVE  /\ Former(k, s)
           /\ s # Get(k) => hosted
           /\ k \in DOMAIN table => table[k].version \in {s.version, s.version + 1}
<1>1. CASE s = Get(k)
    <2>1. k \in DOMAIN table /\ s = table[k] /\ table[k].version \in Nat
        BY <1>1, Gets DEF StoreInv
    <2> QED
        BY <1>1, <2>1, PresentFormer
<1>2. CASE s # Get(k)
    <2>1. hosted /\ k \in DOMAIN before /\ s = before[k]
        BY <1>2 DEF Reads
    <2> QED
        BY <2>1 DEF StoreInv, BeforeInv
<1> QED
    BY <1>1, <1>2

(* A request that has just read is in order.                                 *)
LEMMA SawOK ==
    ASSUME StoreInv, NEW c, NEW r, RequestOK(c, r), Reading(r),
           NEW s \in Seen(r.op), ~Refused(r.op, s), NEW q, Past(q),
           q = [todo |-> q.todo, op |-> r.op, seen |-> s, late |-> Late(r.op, s),
                expected |-> r.expected, outcome |-> r.outcome],
           c \in Slots
    PROVE  RequestOK(c, q)
<1>1. /\ q.op = r.op /\ q.seen = s /\ q.late = Late(r.op, s)
      /\ q.expected = r.expected /\ q.outcome = r.outcome
    OBVIOUS
<1>2. IsRequest(q)
    BY <1>1 DEF IsRequest
<1>3. UnderWay(r)
    BY Todos DEF RequestOK
<1>4. r.op.name \in Updates \cup {"deleteSubscription"} =>
        s \in Reads(ItemKey(r.op)) /\ s # Absent
    BY DEF Seen, Refused, Updates, Creations
<1>5. r.op.name = "createTransformationVersion" => s = Latest(r.op.id) /\ s # Absent
    BY DEF Seen, Refused, Creations
<1>6. r.op.name \in Updates \cup {"deleteSubscription"} => Former(ItemKey(r.op), s)
    BY <1>4, ItemKeys, ReadsFormer
<1>7. ASSUME r.op.name \in Updates
      PROVE  UpdateOK(q)
    <2> DEFINE k == ItemKey(r.op)
    <2>1. UpdateOK(r)
        BY <1>3, <1>7 DEF UnderWay
    <2>2. /\ r.expected \in Nat \ {0}
          /\ Owned(k[1], k[2])
          /\ k \in DOMAIN table => r.expected <= table[k].version
          /\ "key" \notin DOMAIN r.op.changes
        BY <2>1, Todos DEF UpdateOK
    <2>3. Former(k, s)
        BY <1>6, <1>7
    <2>4. ASSUME ~Late(r.op, s), ~LateWrite
          PROVE  UpToDate(q)
        <3>1. s = Get(k)
            BY <1>7, <2>4 DEF Late
        <3>2. k \in DOMAIN table /\ s = table[k] /\ table[k].version \in Nat
            BY <1>4, <1>7, <3>1, Gets DEF StoreInv
        <3> QED
            BY <1>1, <2>2, <2>4, <3>2 DEF UpToDate
    <2>5. ASSUME k \in DOMAIN table
          PROVE  NoOlder(q, table[k])
        <3>1. table[k].version \in {s.version, s.version + 1}
            BY <1>4, <1>7, <2>5, ItemKeys, ReadsFormer
        <3>2. s.version \in Nat
            BY <2>3 DEF Former, IsResource
        <3> QED
            BY <1>1, <2>2, <2>5, <3>1, <3>2 DEF NoOlder
    <2> QED
        BY <1>1, <2>2, <2>3, <2>4, <2>5 DEF UpdateOK
<1>8. r.op.name = "deleteSubscription" => DeleteOK(q)
    BY <1>1, <1>6, ItemKeys DEF DeleteOK
<1>9. r.op.name = "createTransformationVersion" => VersionOK(q)
    BY <1>1, <1>5, LatestIs DEF VersionOK, StoreInv
<1>10. UnderWay(q)
    BY <1>1, <1>3, <1>7, <1>8, <1>9 DEF UnderWay
<1>11. q.late \in BOOLEAN /\ (q.late => hosted /\ c \in Clients)
    <2>1. ASSUME q.late
          PROVE  hosted /\ c \in Clients
        <3>1. r.op.name \in Updates /\ s # Get(ItemKey(r.op))
            BY <1>1, <2>1 DEF Late
        <3>2. hosted
            BY <1>4, <3>1, ItemKeys, ReadsFormer
        <3>3. c \notin Importers
            BY <3>1 DEF RequestOK, Updates, Creations
        <3> QED
            BY <3>2, <3>3 DEF Importers
    <2> QED
        BY <1>1, <2>1 DEF Late
<1>12. q.op # NoOperation
    BY <1>1, <1>3 DEF UnderWay, Proper, Names, Creations, Updates, NoOperation
<1>13. q.todo # <<>> /\ ~Reading(q)
    BY Todos
<1>14. q.outcome = "none"
    BY <1>1, <1>3 DEF UnderWay
<1> QED
    BY <1>2, <1>10, <1>11, <1>12, <1>13, <1>14 DEF RequestOK, Outcomes

(* Reading.                                                                  *)
LEMMA ReadKept ==
    ASSUME Typed, StoreInv, RequestsInv, NEW c \in Slots, Read(c)
    PROVE  Typed' /\ StoreInv' /\ RequestsInv'
<1>1. /\ request[c].todo # <<>> /\ Head(request[c].todo) = "read"
      /\ UNCHANGED <<hosted, store, credentials, faults>>
    BY DEF Read, Doing
<1>2. RequestOK(c, request[c])
    BY DEF RequestsInv
<1>3. PICK s \in Seen(request[c].op) :
        IF Refused(request[c].op, s)
        THEN End(c, "refused")
        ELSE request' = [request EXCEPT ![c].todo = Tail(@), ![c].seen = s,
                                        ![c].late = Late(request[c].op, s)]
    BY DEF Read
<1>4. /\ DOMAIN request' = Slots
      /\ StoreInv' /\ RequestsInv'
    <2>1. CASE Refused(request[c].op, s)
        <3>1. End(c, "refused") /\ hosted' = hosted /\ "refused" \in Outcomes \ {"none"}
            BY <1>1, <1>3, <2>1 DEF Outcomes
        <3>2. /\ DOMAIN request' = Slots
              /\ \A d \in Slots : d # c => request'[d] = request[d]
              /\ RequestOK(c, request[c])'
              /\ LateWrite => LateWrite'
            BY <1>1, <3>1, EndOK
        <3>3. Steady /\ StoreInv'
            BY <1>1, <3>2, QuietSteady, QuietStore
        <3> QED
            BY <3>2, <3>3, RequestsKept DEF StoreInv
    <2>2. CASE ~Refused(request[c].op, s)
        <3> DEFINE l == Late(request[c].op, s)
        <3>1. request' = [request EXCEPT ![c].todo = Tail(@), ![c].seen = s,
                                         ![c].late = l]
            BY <1>3, <2>2
        <3>2. /\ DOMAIN request' = Slots
              /\ \A d \in Slots : d # c => request'[d] = request[d]
              /\ request'[c] = [todo |-> Tail(request[c].todo), op |-> request[c].op,
                                seen |-> s, late |-> l,
                                expected |-> request[c].expected,
                                outcome |-> request[c].outcome]
            <4>1. DOMAIN request = Slots /\ IsRequest(request[c])
                BY <1>2 DEF Typed, RequestOK
            <4> HIDE DEF l
            <4>2. request' = [request EXCEPT ![c] =
                    [request[c] EXCEPT !.todo = Tail(request[c].todo), !.seen = s,
                                       !.late = l]]
                BY <3>1
            <4> QED
                BY <4>1, <4>2, Saw
        <3>3. request'[c].todo = Tail(request[c].todo)
            BY <3>2
        <3>4. Reading(request[c]) /\ Past(request'[c])
            <4>1. Reading(request[c])
                BY <1>1, <1>2, Todos DEF RequestOK
            <4>2. Tail(request[c].todo) \in {<<"write">>, <<"audit", "secret", "write">>}
                BY <1>1, <4>1, Todos
            <4> QED
                BY <3>3, <4>1, <4>2 DEF Past
        <3>5. request'[c] = [todo |-> request'[c].todo, op |-> request[c].op,
                             seen |-> s, late |-> l,
                             expected |-> request[c].expected,
                             outcome |-> request[c].outcome]
            BY <3>2, <3>3
        <3>6. RequestOK(c, request'[c])
            BY <1>2, <2>2, <3>4, <3>5, SawOK
        <3>7. UNCHANGED <<hosted, store>>
            BY <1>1
        <3> QED
            BY <1>1, <3>2, <3>6, <3>7, QuietKept
    <2> QED
        BY <2>1, <2>2
<1>5. Typed'
    BY <1>1, <1>4 DEF Typed, store, credentials
<1> QED
    BY <1>4, <1>5

(* Abandoning.                                                               *)
LEMMA AbandonKept ==
    ASSUME Typed, StoreInv, RequestsInv, NEW c \in Slots, Abandon(c)
    PROVE  Typed' /\ StoreInv' /\ RequestsInv'
<1>1. /\ request[c].todo # <<>> /\ faults < MaxFaults /\ faults' = faults + 1
      /\ End(c, "failed") /\ UNCHANGED <<hosted, store, credentials>>
      /\ "failed" \in Outcomes \ {"none"} /\ hosted' = hosted
    BY DEF Abandon, Outcomes
<1>2. /\ DOMAIN request' = Slots
      /\ \A d \in Slots : d # c => request'[d] = request[d]
      /\ RequestOK(c, request[c])'
      /\ LateWrite => LateWrite'
    BY <1>1, EndOK
<1>3. Steady /\ StoreInv'
    BY <1>1, <1>2, QuietSteady, QuietStore
<1>4. RequestsInv'
    BY <1>2, <1>3, RequestsKept DEF StoreInv
<1>5. faults' \in 0..MaxFaults
    BY <1>1, Constants DEF Typed
<1>6. Typed'
    BY <1>1, <1>2, <1>5 DEF Typed, store, credentials
<1> QED
    BY <1>3, <1>4, <1>6

(* Writing: all of it, or nothing.                                           *)
LEMMA WriteDoes ==
    ASSUME Typed, StoreInv, RequestsInv, NEW c \in Slots, Write(c)
    PROVE  /\ UNCHANGED <<hosted, credentials, faults>>
           /\ request[c].todo # <<>>
           /\ \E o \in {"ok", "conflict"} : End(c, o)
           /\ resumes' \in [Ids -> Nat]
           /\ UNCHANGED store \/ \E i : Accomplishes(i)
           /\ request'[c].outcome = "ok" /\ request[c].op.name \in Updates =>
                table'[ItemKey(request[c].op)].version = request[c].seen.version + 1
<1> DEFINE r == request[c]
<1>1. /\ r.todo # <<>> /\ Head(r.todo) = "write"
      /\ UNCHANGED <<hosted, credentials, faults>>
    BY DEF Write, Doing
<1>2. PICK i \in IF r.op.name \in Creations THEN Fresh ELSE {r.op.id} :
        IF Accepted(Writes(r, i))
        THEN /\ Apply(Writes(r, i))
             /\ audits' = [audits EXCEPT ![i] = @ + 1]
             /\ resumes' = IF Resumes(r) THEN [resumes EXCEPT ![i] = @ + 1]
                           ELSE resumes
             /\ End(c, "ok")
        ELSE End(c, "conflict") /\ UNCHANGED store
    BY DEF Write
<1>3. RequestOK(c, r)
    BY DEF RequestsInv
<1>4. UnderWay(r) /\ Past(r)
    <2>1. r.todo = <<"write">>
        BY <1>1, <1>3, Todos DEF RequestOK
    <2> QED
        BY <1>1, <1>3, <2>1 DEF RequestOK, Past
<1>5. CASE ~Accepted(Writes(r, i))
    <2>1. End(c, "conflict") /\ UNCHANGED store
        BY <1>2, <1>5
    <2>2. request'[c].outcome = "conflict"
        <3>1. "conflict" \in Outcomes \ {"none"} /\ hosted' = hosted
            BY <1>1 DEF Outcomes
        <3> QED
            BY <1>1, <2>1, <3>1, EndOK
    <2> QED
        BY <1>1, <2>1, <2>2 DEF Typed, store
<1>6. CASE Accepted(Writes(r, i))
    <2>1. /\ Commits(Writes(r, i), i)
          /\ resumes' = IF Resumes(r) THEN [resumes EXCEPT ![i] = @ + 1] ELSE resumes
          /\ End(c, "ok")
        BY <1>1, <1>2, <1>6 DEF Commits
    <2>2. /\ request'[c].outcome = "ok"
          /\ request'[c].late = request[c].late
          /\ LateWrite => LateWrite'
        <3>1. "ok" \in Outcomes \ {"none"} /\ hosted' = hosted
            BY <1>1 DEF Outcomes
        <3> QED
            BY <1>1, <2>1, <3>1, EndOK
    <2>3. ~LateWrite' => ~r.late /\ ~LateWrite
        BY <2>2 DEF LateWrite
    <2>4. Proper(r.op)
        BY <1>4 DEF UnderWay
    <2> HIDE DEF r
    <2>5. ASSUME r.op.name \in Creations
          PROVE  Accomplishes(i)
        <3>1. i \in Fresh
            BY <1>2, <2>5
        <3> QED
            BY <2>1, <2>4, <2>5, <3>1, CreationWrites
    <2>6. ASSUME r.op.name \notin Creations
          PROVE  i = r.op.id
        BY <1>2, <2>6
    <2>7. ASSUME r.op.name = "createTransformationVersion"
          PROVE  Accomplishes(i)
        <3>1. VersionOK(r)
            BY <1>4, <2>7 DEF UnderWay
        <3>2. i = r.op.id
            BY <2>6, <2>7 DEF Creations
        <3>3. Commits(Writes(r, r.op.id), r.op.id)
            BY <2>1, <3>2
        <3> QED
            BY <1>4, <2>4, <2>7, <3>1, <3>2, <3>3, VersionWrites
    <2>8. ASSUME r.op.name = "deleteSubscription"
          PROVE  Accomplishes(i)
        <3>1. DeleteOK(r)
            BY <1>4, <2>8 DEF UnderWay
        <3>2. i = r.op.id
            BY <2>6, <2>8 DEF Creations
        <3>3. Commits(Writes(r, r.op.id), r.op.id)
            BY <2>1, <3>2
        <3> QED
            BY <1>4, <2>8, <3>1, <3>2, <3>3, DeletionWrites
    <2>9. ASSUME r.op.name \in Updates
          PROVE  /\ Accomplishes(i)
                 /\ table'[ItemKey(r.op)].version = r.seen.version + 1
        <3>1. UpdateOK(r)
            BY <1>4, <2>9 DEF UnderWay
        <3>2. i = r.op.id
            BY <2>6, <2>9 DEF Creations, Updates
        <3>3. Commits(Writes(r, r.op.id), r.op.id)
            BY <2>1, <3>2
        <3>4. resumes' = IF Resumes(r) THEN [resumes EXCEPT ![r.op.id] = @ + 1]
                         ELSE resumes
            BY <2>1, <3>2
        <3> QED
            BY <1>4, <2>3, <2>4, <2>9, <3>1, <3>2, <3>3, <3>4, UpdateWrites
    <2>10. Accomplishes(i)
        BY <2>4, <2>5, <2>7, <2>8, <2>9 DEF Proper, Names
    <2>11. resumes' \in [Ids -> Nat]
        <3>1. resumes \in [Ids -> Nat] /\ i \in Ids
            BY <2>10 DEF Typed, Accomplishes, Evolves
        <3>2. [resumes EXCEPT ![i] = @ + 1] \in [Ids -> Nat]
            BY <3>1
        <3>3. resumes' \in {resumes, [resumes EXCEPT ![i] = @ + 1]}
            BY <2>1
        <3> QED
            BY <3>1, <3>2, <3>3
    <2> QED
        BY <1>1, <2>1, <2>9, <2>10, <2>11 DEF r
<1> QED
    BY <1>5, <1>6

(* Writing.                                                                  *)
LEMMA WriteKept ==
    ASSUME Typed, StoreInv, RequestsInv, NEW c \in Slots, Write(c)
    PROVE  Typed' /\ StoreInv' /\ RequestsInv'
<1>1. /\ UNCHANGED <<hosted, credentials, faults>>
      /\ request[c].todo # <<>>
      /\ \E o \in {"ok", "conflict"} : End(c, o)
      /\ resumes' \in [Ids -> Nat]
      /\ UNCHANGED store \/ \E i : Accomplishes(i)
    BY WriteDoes
<1>2. PICK o \in Outcomes \ {"none"} : End(c, o)
    BY <1>1 DEF Outcomes
<1>3. /\ DOMAIN request' = Slots
      /\ \A d \in Slots : d # c => request'[d] = request[d]
      /\ RequestOK(c, request[c])'
      /\ LateWrite => LateWrite'
    BY <1>1, <1>2, EndOK
<1>4. CASE UNCHANGED store
    <2>1. Steady /\ StoreInv'
        BY <1>1, <1>3, <1>4, QuietSteady, QuietStore
    <2>2. RequestsInv'
        BY <1>3, <2>1, RequestsKept DEF StoreInv
    <2>3. Typed'
        BY <1>1, <1>3, <1>4 DEF Typed, store, credentials
    <2> QED
        BY <2>1, <2>2, <2>3
<1>5. CASE \E i : Accomplishes(i)
    <2>1. PICK i : Accomplishes(i)
        BY <1>5
    <2>2. PICK class : Evolves(class, i)
        BY <2>1 DEF Accomplishes
    <2>3. Steady /\ StoreInv'
        BY <1>3, <2>1, <2>2, EvolvesSteady, EvolvesStore DEF Accomplishes
    <2>4. RequestsInv'
        BY <1>3, <2>3, RequestsKept DEF StoreInv
    <2>5. audits' \in [Ids -> Nat]
        BY <2>2, AuditsGrow
    <2>6. Typed'
        BY <1>1, <1>3, <2>5 DEF Typed, credentials
    <2> QED
        BY <2>3, <2>4, <2>6
<1> QED
    BY <1>1, <1>4, <1>5

(* A step of a request.                                                      *)
LEMMA StepKept ==
    ASSUME Typed, StoreInv, RequestsInv, NEW c \in Slots, Step(c)
    PROVE  Typed' /\ StoreInv' /\ RequestsInv'
    BY ReadKept, SecretKept, WriteKept, AbandonKept DEF Step

(* What an update may name: a version the item has or had.                   *)
LEMMA Named ==
    ASSUME Typed, StoreInv, NEW k, k[1] \in Resources, NEW s \in Reads(k),
           s.version # 0
    PROVE  /\ s.version \in Nat \ {0}
           /\ Owned(k[1], k[2])
           /\ k \in DOMAIN table => s.version <= table[k].version
<1>1. s # Absent
    BY DEF Absent
<1>2. /\ Former(k, s)
      /\ k \in DOMAIN table => table[k].version \in {s.version, s.version + 1}
    BY <1>1, ReadsFormer
<1>3. s.version \in Nat \ {0} /\ Owned(k[1], k[2])
    BY <1>2 DEF Former, IsResource
<1> QED
    BY <1>2, <1>3

(* Beginning a request of the API.                                           *)
LEMMA BeginKept ==
    ASSUME Typed, StoreInv, RequestsInv, NEW c \in Clients, NEW op \in Operations[c],
           Begin(c, op)
    PROVE  Typed' /\ StoreInv' /\ RequestsInv'
<1>1. /\ request[c] = NoRequest /\ c \in Slots
      /\ UNCHANGED <<hosted, store, credentials, faults>>
    BY Constants DEF Begin
<1>2. PICK v \in IF op.name \in Updates
                 THEN {i.version : i \in Reads(ItemKey(op))} \ {0} ELSE {0} :
        request' = [request EXCEPT ![c] = [NoRequest EXCEPT
            !.todo = Todo(op), !.op = op, !.expected = v]]
    BY DEF Begin
<1> DEFINE q == [todo |-> Todo(op), op |-> op, seen |-> Absent, late |-> FALSE,
                 expected |-> v, outcome |-> "none"]
<1>3. /\ DOMAIN request' = Slots
      /\ \A d \in Slots : d # c => request'[d] = request[d]
      /\ request'[c] = q
    BY <1>1, <1>2 DEF Typed, NoRequest
<1>4. /\ Proper(op)
      /\ op.name \in Updates => "key" \notin DOMAIN op.changes
    BY OperationsAssumption
<1>5. /\ q.todo = Todo(op) /\ q.op = op /\ q.seen = Absent /\ q.late = FALSE
      /\ q.expected = v /\ q.outcome = "none"
      /\ IsRequest(q)
    BY DEF IsRequest
<1> HIDE DEF q
<1>6. /\ op.name \notin Creations => Reading(q)
      /\ Reading(q) \/ Past(q)
      /\ q.todo # <<>>
    <2>1. Todo(op) \in {<<"write">>, <<"read", "write">>,
                        <<"audit", "secret", "read", "write">>,
                        <<"read", "audit", "secret", "write">>}
        BY DEF Todo
    <2>2. op.name \notin Creations => Todo(op) # <<"write">>
        BY DEF Todo, Creations
    <2>3. Reading(q) \/ Past(q)
        BY <1>5, <2>1 DEF Reading, Past
    <2>4. op.name \notin Creations => Reading(q)
        BY <1>5, <2>1, <2>2 DEF Reading
    <2> QED
        BY <2>3, <2>4, Todos
<1>7. Reading(q) => ~Past(q)
    BY Todos
<1>8. ASSUME op.name \in Updates
      PROVE  UpdateOK(q)
    <2> DEFINE k == ItemKey(op)
    <2>1. PICK s \in Reads(k) : s.version = v /\ v # 0
        BY <1>2, <1>8
    <2>2. k[1] \in Resources
        BY ItemKeys
    <2> HIDE DEF k
    <2>3. /\ v \in Nat \ {0} /\ Owned(k[1], k[2])
          /\ k \in DOMAIN table => v <= table[k].version
        BY <2>1, <2>2, Named
    <2>4. ~Past(q)
        BY <1>6, <1>7, <1>8 DEF Creations, Updates
    <2> QED
        BY <1>4, <1>5, <1>8, <2>3, <2>4 DEF UpdateOK, k
<1>9. /\ op.name = "deleteSubscription" => DeleteOK(q)
      /\ op.name = "createTransformationVersion" => VersionOK(q)
    BY <1>6, <1>7 DEF DeleteOK, VersionOK, Creations
<1>10. UnderWay(q)
    BY <1>4, <1>5, <1>8, <1>9 DEF UnderWay
<1>11. RequestOK(c, q)
    BY <1>5, <1>6, <1>10 DEF RequestOK, Outcomes, Importers
<1>12. StoreInv' /\ RequestsInv'
    BY <1>1, <1>3, <1>11, QuietKept
<1>13. Typed'
    BY <1>1, <1>3 DEF Typed, store, credentials
<1> QED
    BY <1>12, <1>13

-------------------------------------------------------------------------------
(* Imports.                                                                  *)

(* A bundle is numbered from 1.                                              *)
LEMMA Numbered ==
    ASSUME NEW b \in Bundles \cup {NoBundle}
    PROVE  /\ Len(b) \in Nat /\ DOMAIN b = 1..Len(b)
           /\ \A n \in DOMAIN b : b \in Bundles /\ b[n].type \in
                {"partner", "transformation", "destination", "subscription"}
<1>1. CASE b \in Bundles
    BY <1>1, PortabilityAssumption DEF WellFormed
<1>2. CASE b = NoBundle
    <2>1. Len(b) = 0 /\ DOMAIN b = {}
        BY <1>2 DEF NoBundle
    <2> QED
        BY <2>1
<1> QED
    BY <1>1, <1>2

(* A plan has a line for each resource.                                      *)
LEMMA Planned ==
    ASSUME NEW b \in Bundles
    PROVE  Len(Plan(b)) = Len(b)
<1>1. Len(b) \in Nat /\ DOMAIN b = 1..Len(b)
    BY Numbered
<1> DEFINE line(n) == [action |-> Action(b, b[n]), target |-> Fingerprint(b[n])]
           S == {line(n) : n \in 1..Len(b)}
<1>2. Plan(b) = [n \in 1..Len(b) |-> line(n)]
    BY <1>1 DEF Plan
<1>3. \A n \in 1..Len(b) : line(n) \in S
    OBVIOUS
<1> HIDE DEF line, S
<1>4. Plan(b) \in [1..Len(b) -> S]
    BY <1>2, <1>3
<1>5. Plan(b) \in Seq(S)
    BY <1>1, <1>4
<1>6. DOMAIN Plan(b) = 1..Len(Plan(b)) /\ Len(Plan(b)) \in Nat
    BY <1>5
<1>7. 1..Len(b) = 1..Len(Plan(b))
    BY <1>2, <1>6
<1>8. ASSUME NEW x \in Nat, NEW y \in Nat, 1..x = 1..y
      PROVE  x <= y
    <2>1. x = 0 \/ x \in 1..x
        OBVIOUS
    <2>2. x = 0 \/ x \in 1..y
        BY <1>8, <2>1
    <2> QED
        BY <2>2
<1> DEFINE x == Len(b)
           y == Len(Plan(b))
<1>10. x \in Nat /\ y \in Nat /\ 1..x = 1..y /\ 1..y = 1..x
    BY <1>1, <1>6, <1>7
<1> HIDE DEF x, y
<1>11. x <= y
    BY <1>8, <1>10
<1>12. y <= x
    BY <1>8, <1>10
<1>9. x = y
    BY <1>10, <1>11, <1>12
<1> QED
    BY <1>9 DEF x, y

(* A step of one import.                                                     *)
LEMMA Imported ==
    ASSUME ImportsInv, NEW i \in Importers, NEW m, import' = [import EXCEPT ![i] = m],
           Importing(m), request'[i] # NoRequest => Busy(m),
           \A j \in Importers : j # i => request'[j] = request[j]
    PROVE  ImportsInv'
<1>1. DOMAIN import' = Importers
    BY DEF ImportsInv
<1>2. ASSUME NEW j \in Importers
      PROVE  Importing(import'[j]) /\ (request'[j] # NoRequest => Busy(import'[j]))
    <2>1. CASE j = i
        <3>1. import'[j] = m
            BY <2>1 DEF ImportsInv
        <3> QED
            BY <2>1, <3>1
    <2>2. CASE j # i
        <3>1. import'[j] = import[j] /\ request'[j] = request[j]
            BY <2>2 DEF ImportsInv
        <3> QED
            BY <3>1 DEF ImportsInv
    <2> QED
        BY <2>1, <2>2
<1> QED
    BY <1>1, <1>2 DEF ImportsInv

(* Nothing changes in the service.                                           *)
LEMMA Unmoved ==
    ASSUME Typed, StoreInv, RequestsInv, UNCHANGED vars
    PROVE  Typed' /\ StoreInv' /\ RequestsInv'
<1>1. UNCHANGED <<hosted, store>> /\ request' = request
    BY DEF vars
<1>2. LateWrite <=> LateWrite'
    BY <1>1 DEF LateWrite
<1>3. Steady /\ StoreInv'
    BY <1>1, <1>2, QuietSteady, QuietStore
<1>4. ASSUME NEW c \in Slots
      PROVE  RequestOK(c, request[c])'
    <2>1. PICK r : r = request[c]
        OBVIOUS
    <2>2. RequestOK(c, r)
        BY <2>1 DEF RequestsInv
    <2>3. RequestOK(c, r)'
        BY <1>3, <2>2, RequestKept DEF StoreInv
    <2> QED
        BY <1>1, <2>1, <2>3
<1>5. RequestsInv'
    BY <1>4 DEF RequestsInv
<1>6. Typed'
    BY DEF Typed, vars, store, credentials
<1> QED
    BY <1>3, <1>5, <1>6

(* An import that asks for nothing while it has nothing under way.           *)
LEMMA AsksNothing ==
    ASSUME ImportsInv, NEW i \in Importers, NothingAsked, request[i] = NoRequest,
           NEW m, import' = [import EXCEPT ![i] = m], Importing(m)
    PROVE  ImportsInv'
<1>1. request' = request
    BY DEF NothingAsked, vars
<1> QED
    BY <1>1, Imported

(* What an import is in the middle of.                                       *)
LEMMA ImportIs ==
    ASSUME ImportsInv, NEW i \in Importers
    PROVE  /\ Importing(import[i])
           /\ Len(import[i].bundle) \in Nat
           /\ DOMAIN import[i].bundle = 1..Len(import[i].bundle)
           /\ import[i].phase # "applying" => request[i] = NoRequest
           /\ import[i].at \notin DOMAIN import[i].bundle => request[i] = NoRequest
           /\ request[i] # NoRequest => Busy(import[i])
<1>1. Importing(import[i]) /\ (request[i] # NoRequest => Busy(import[i]))
    BY DEF ImportsInv
<1>2. import[i].bundle \in Bundles \cup {NoBundle}
    BY <1>1 DEF Importing
<1> QED
    BY <1>1, <1>2, Numbered DEF Busy

(* A step that only takes it to another phase.                               *)
LEMMA Turned ==
    ASSUME ImportsInv, NEW i \in Importers, NothingAsked, request[i] = NoRequest,
           NEW p \in Phases,
           import' = [import EXCEPT ![i] = [import[i] EXCEPT !.phase = p]]
    PROVE  ImportsInv'
<1> DEFINE old == import[i]
           m == [old EXCEPT !.phase = p]
<1>1. Importing(old)
    BY ImportIs
<1>2. /\ m.phase = p /\ m.bundle = old.bundle /\ m.at = old.at
      /\ m.receipt = old.receipt /\ IsImport(m)
    BY <1>1 DEF Importing, IsImport
<1> HIDE DEF m
<1>3. Importing(m)
    BY <1>1, <1>2 DEF Importing
<1>4. import' = [import EXCEPT ![i] = m]
    BY DEF m
<1> QED
    BY <1>3, <1>4, AsksNothing

(* Exporting.                                                                *)
LEMMA ExportKept ==
    ASSUME ImportsInv, NEW i \in Importers, BeginExport(i) \/ List(i) \/ EndExport(i)
    PROVE  ImportsInv'
<1> DEFINE old == import[i]
<1>1. NothingAsked
    BY DEF BeginExport, List, EndExport
<1>2. request[i] = NoRequest /\ Importing(old)
    BY ImportIs DEF BeginExport, List, EndExport, Free
<1>3. Len(NoBundle) = 0 /\ Len(<<>>) = 0
    BY DEF NoBundle
<1>4. CASE BeginExport(i)
    <2> DEFINE m == [NoImport EXCEPT !.phase = "listing", !.plans = old.plans + 1,
                                     !.alone = TRUE]
    <2>1. import' = [import EXCEPT ![i] = m]
        BY <1>4 DEF BeginExport
    <2>2. /\ m.phase = "listing" /\ m.bundle = NoBundle /\ m.at = 0
          /\ m.receipt = <<>> /\ IsImport(m)
        BY DEF NoImport, IsImport
    <2> HIDE DEF m
    <2>3. Importing(m)
        BY <1>3, <2>2 DEF Importing, Phases
    <2> QED
        BY <1>1, <1>2, <2>1, <2>3, AsksNothing
<1>5. CASE List(i)
    <2> DEFINE class == Listed[Len(old.lists) + 1]
               l == Append(old.lists, {table[k] : k \in Existing(class)})
               s == IF class = "DESTINATION" THEN NoneDangles ELSE old.sound
               m == [old EXCEPT !.lists = l, !.sound = s]
    <2>1. import' = [import EXCEPT ![i].lists = l, ![i].sound = s]
        BY <1>5 DEF List
    <2> HIDE DEF l, s
    <2>2. import' = [import EXCEPT ![i] = m]
        BY <2>1
    <2>3. /\ m.phase = old.phase /\ m.bundle = old.bundle /\ m.at = old.at
          /\ m.receipt = old.receipt /\ IsImport(m)
        BY <1>2 DEF Importing, IsImport
    <2> HIDE DEF m
    <2>4. Importing(m)
        BY <1>2, <2>3 DEF Importing
    <2> QED
        BY <1>1, <1>2, <2>2, <2>4, AsksNothing
<1>6. CASE EndExport(i)
    <2>1. CASE Representable(old.lists)
        <3>1. import' = [import EXCEPT ![i] = [old EXCEPT !.phase = "exported"]]
            BY <1>6, <2>1 DEF EndExport
        <3> QED
            BY <1>1, <1>2, <3>1, Turned DEF Phases
    <2>2. CASE ~Representable(old.lists)
        <3> DEFINE m == [NoImport EXCEPT !.phase = "failed", !.plans = old.plans]
        <3>1. import' = [import EXCEPT ![i] = m]
            BY <1>6, <2>2 DEF EndExport
        <3>2. /\ m.phase = "failed" /\ m.bundle = NoBundle /\ m.at = 0
              /\ m.receipt = <<>> /\ IsImport(m)
            BY DEF NoImport, IsImport
        <3> HIDE DEF m
        <3>3. Importing(m)
            BY <1>3, <3>2 DEF Importing, Phases
        <3> QED
            BY <1>1, <1>2, <3>1, <3>3, AsksNothing
    <2> QED
        BY <2>1, <2>2
<1> QED
    BY <1>4, <1>5, <1>6

(* Planning and beginning to apply.                                          *)
LEMMA PlanKept ==
    ASSUME ImportsInv, NEW i \in Importers,
           MakePlan(i) \/ BeginApply(i) \/ Drift(i)
    PROVE  ImportsInv'
<1> DEFINE old == import[i]
<1>1. NothingAsked
    BY DEF MakePlan, BeginApply, Drift
<1>2. request[i] = NoRequest /\ Importing(old) /\ Len(old.bundle) \in Nat
    BY ImportIs DEF MakePlan, BeginApply, Drift, Free
<1>3. CASE MakePlan(i)
    <2>1. PICK b \in Bundles : import' = [import EXCEPT ![i] = [NoImport EXCEPT
            !.phase = "planned", !.bundle = b, !.receipt = Plan(b),
            !.plans = old.plans + 1]]
        BY <1>3 DEF MakePlan
    <2> DEFINE m == [NoImport EXCEPT !.phase = "planned", !.bundle = b,
                                     !.receipt = Plan(b), !.plans = old.plans + 1]
    <2>2. import' = [import EXCEPT ![i] = m]
        BY <2>1
    <2>3. /\ m.phase = "planned" /\ m.bundle = b /\ m.at = 0
          /\ m.receipt = Plan(b) /\ IsImport(m)
        BY DEF NoImport, IsImport
    <2> HIDE DEF m
    <2>4. Len(Plan(b)) = Len(b) /\ Len(b) \in Nat
        BY Planned, Numbered
    <2>5. Importing(m)
        BY <2>3, <2>4 DEF Importing, Phases
    <2> QED
        BY <1>1, <1>2, <2>2, <2>5, AsksNothing
<1>4. CASE BeginApply(i)
    <2> DEFINE m == [old EXCEPT !.phase = "applying", !.at = 1, !.alone = TRUE]
    <2>1. import' = [import EXCEPT ![i].phase = "applying", ![i].at = 1,
                                   ![i].alone = TRUE]
        BY <1>4 DEF BeginApply
    <2>2. import' = [import EXCEPT ![i] = m]
        BY <2>1
    <2>3. /\ m.phase = "applying" /\ m.bundle = old.bundle /\ m.at = 1
          /\ m.receipt = old.receipt /\ IsImport(m)
        BY <1>2 DEF Importing, IsImport
    <2> HIDE DEF m
    <2>4. Importing(m)
        BY <1>2, <2>3 DEF Importing, Phases
    <2> QED
        BY <1>1, <1>2, <2>2, <2>4, AsksNothing
<1>5. CASE Drift(i)
    <2>1. import' = [import EXCEPT ![i] = [old EXCEPT !.phase = "failed"]]
        BY <1>5 DEF Drift
    <2> QED
        BY <1>1, <1>2, <2>1, Turned DEF Phases
<1> QED
    BY <1>3, <1>4, <1>5

(* Taking the resources in turn.                                             *)
LEMMA TurnKept ==
    ASSUME ImportsInv, NEW i \in Importers,
           Skip(i) \/ DependencyChanged(i) \/ Complete(i)
    PROVE  ImportsInv'
<1> DEFINE old == import[i]
<1>1. NothingAsked
    BY DEF Skip, DependencyChanged, Complete
<1>2. /\ request[i] = NoRequest /\ Importing(old)
      /\ Len(old.bundle) \in Nat /\ DOMAIN old.bundle = 1..Len(old.bundle)
    BY ImportIs DEF Skip, DependencyChanged, Complete, Applying
<1>3. CASE Skip(i)
    <2> DEFINE m == [old EXCEPT !.at = old.at + 1]
    <2>1. import' = [import EXCEPT ![i].at = @ + 1]
        BY <1>3 DEF Skip
    <2>2. import' = [import EXCEPT ![i] = m]
        BY <2>1
    <2>3. /\ m.phase = old.phase /\ m.bundle = old.bundle /\ m.at = old.at + 1
          /\ m.receipt = old.receipt /\ IsImport(m)
        BY <1>2 DEF Importing, IsImport
    <2>4. old.at \in 1..Len(old.bundle)
        BY <1>2, <1>3 DEF Skip, Applying
    <2> HIDE DEF m
    <2>5. Importing(m)
        BY <1>2, <2>3, <2>4 DEF Importing
    <2> QED
        BY <1>1, <1>2, <2>2, <2>5, AsksNothing
<1>4. CASE DependencyChanged(i)
    <2>1. import' = [import EXCEPT ![i] = [old EXCEPT !.phase = "failed"]]
        BY <1>4 DEF DependencyChanged
    <2> QED
        BY <1>1, <1>2, <2>1, Turned DEF Phases
<1>5. CASE Complete(i)
    <2>1. import' = [import EXCEPT ![i] = [old EXCEPT !.phase = "applied"]]
        BY <1>5 DEF Complete
    <2> QED
        BY <1>1, <1>2, <2>1, Turned DEF Phases
<1> QED
    BY <1>3, <1>4, <1>5

(* The service has answered.                                                 *)
LEMMA ReturnedKept ==
    ASSUME Inductive, NEW i \in Importers, Returned(i)
    PROVE  Inductive'
<1> DEFINE old == import[i]
<1>1. /\ request' = [request EXCEPT ![i] = NoRequest]
      /\ UNCHANGED <<hosted, store, credentials, faults>>
      /\ i \in Slots
    BY DEF Returned, Importers
<1>2. /\ DOMAIN request' = Slots /\ request'[i] = NoRequest
      /\ \A d \in Slots : d # i => request'[d] = request[d]
    BY <1>1 DEF Inductive, Typed
<1>3. RequestOK(i, NoRequest)
    BY DEF RequestOK, IsRequest, NoRequest, Reading, Outcomes
<1>4. StoreInv' /\ RequestsInv'
    BY <1>1, <1>2, <1>3, QuietKept DEF Inductive
<1>5. Typed'
    BY <1>1, <1>2 DEF Inductive, Typed, store, credentials
<1>6. /\ Importing(old) /\ Busy(old)
      /\ Len(old.bundle) \in Nat /\ DOMAIN old.bundle = 1..Len(old.bundle)
    <2>1. request[i] # NoRequest
        BY DEF Returned, NoRequest
    <2> QED
        BY <2>1, ImportIs DEF Inductive
<1> DEFINE more == [old EXCEPT !.at = old.at + 1, !.changed = TRUE]
           less == [old EXCEPT !.phase = "failed"]
           m == IF request[i].outcome = "ok" THEN more ELSE less
<1>7. import' = [import EXCEPT ![i] = m]
    <2>1. CASE request[i].outcome = "ok"
        <3>1. import' = [import EXCEPT ![i] = more]
            BY <2>1 DEF Returned
        <3> QED
            BY <2>1, <3>1
    <2>2. CASE request[i].outcome # "ok"
        <3>1. import' = [import EXCEPT ![i] = less]
            BY <2>2 DEF Returned
        <3> QED
            BY <2>2, <3>1
    <2> QED
        BY <2>1, <2>2
<1>8. /\ more.phase = old.phase /\ more.bundle = old.bundle /\ more.at = old.at + 1
      /\ more.receipt = old.receipt /\ IsImport(more)
    BY <1>6 DEF Importing, IsImport
<1>9. /\ less.phase = "failed" /\ less.bundle = old.bundle /\ less.at = old.at
      /\ less.receipt = old.receipt /\ IsImport(less)
    BY <1>6 DEF Importing, IsImport
<1> HIDE DEF more, less
<1>10. Importing(more) /\ Importing(less)
    BY <1>6, <1>8, <1>9 DEF Importing, Busy, Phases
<1>11. Importing(m)
    BY <1>10
<1> HIDE DEF m
<1>12. \A j \in Importers : j # i => request'[j] = request[j]
    BY <1>2 DEF Importers
<1>13. ImportsInv'
    BY <1>2, <1>7, <1>11, <1>12, Imported DEF Inductive
<1> QED
    BY <1>4, <1>5, <1>13 DEF Inductive

(* A request's step is a step of that request only.                          *)
LEMMA StepFrame ==
    ASSUME Typed, NEW c \in Slots, Step(c)
    PROVE  /\ request[c].todo # <<>>
           /\ \A d \in Slots : d # c => request'[d] = request[d]
<1>1. request[c].todo # <<>>
    BY DEF Step, Read, AuditRotation, StoreSecret, Write, Abandon, Doing
<1>2. ASSUME NEW o, End(c, o)
      PROVE  \A d \in Slots : d # c => request'[d] = request[d]
    BY <1>2 DEF End, Typed
<1>3. CASE Read(c)
    <2>1. PICK s : \/ End(c, "refused")
                   \/ request' = [request EXCEPT ![c].todo = Tail(@), ![c].seen = s,
                                    ![c].late = Late(request[c].op, s)]
        BY <1>3 DEF Read
    <2> QED
        BY <1>1, <1>2, <2>1 DEF Typed
<1>4. CASE AuditRotation(c) \/ StoreSecret(c)
    BY <1>1, <1>4 DEF AuditRotation, StoreSecret, NextStep, Typed
<1>5. CASE Write(c)
    <2>1. End(c, "ok") \/ End(c, "conflict")
        BY <1>5 DEF Write
    <2> QED
        BY <1>1, <1>2, <2>1
<1>6. CASE Abandon(c)
    BY <1>1, <1>2, <1>6 DEF Abandon
<1> QED
    BY <1>3, <1>4, <1>5, <1>6 DEF Step

(* The steps of the service.                                                 *)
LEMMA ServiceKept ==
    ASSUME Inductive, ServiceStep
    PROVE  Inductive'
<1>1. ASSUME NEW c \in Clients, NEW op \in Operations[c], Begin(c, op),
             UNCHANGED import
      PROVE  Inductive'
    <2>1. Typed' /\ StoreInv' /\ RequestsInv'
        BY <1>1, BeginKept DEF Inductive
    <2>2. \A i \in Importers : request'[i] = request[i]
        BY <1>1 DEF Begin, Importers, Inductive, Typed
    <2>3. ImportsInv'
        BY <1>1, <2>2 DEF Inductive, ImportsInv
    <2> QED
        BY <2>1, <2>3 DEF Inductive
<1>2. ASSUME NEW c \in Slots, Step(c),
             import' = [i \in Importers |-> [import[i] EXCEPT
                !.alone = @ /\ (c = i \/ UNCHANGED <<table, secret>>)]]
      PROVE  Inductive'
    <2>1. Typed' /\ StoreInv' /\ RequestsInv'
        BY <1>2, StepKept DEF Inductive
    <2>2. /\ request[c].todo # <<>>
          /\ \A d \in Slots : d # c => request'[d] = request[d]
        BY <1>2, StepFrame DEF Inductive
    <2>3. DOMAIN import' = Importers
        BY <1>2
    <2>4. ASSUME NEW i \in Importers
          PROVE  Importing(import'[i]) /\ (request'[i] # NoRequest => Busy(import'[i]))
        <3> DEFINE old == import[i]
                   new == import'[i]
        <3>1. Importing(old) /\ (request[i] # NoRequest => Busy(old))
            BY DEF Inductive, ImportsInv
        <3>2. \E a : new = [old EXCEPT !.alone = a]
            BY <1>2
        <3>3. /\ new.phase = old.phase /\ new.bundle = old.bundle
              /\ new.at = old.at /\ new.receipt = old.receipt /\ IsImport(new)
            BY <3>1, <3>2 DEF Importing, IsImport
        <3>4. request'[i] # NoRequest => request[i] # NoRequest
            BY <2>2 DEF NoRequest, Importers
        <3> HIDE DEF new
        <3>5. Importing(new) /\ (request'[i] # NoRequest => Busy(new))
            BY <3>1, <3>3, <3>4 DEF Importing, Busy
        <3> QED
            BY <3>5 DEF new
    <2>5. ImportsInv'
        BY <2>3, <2>4 DEF ImportsInv
    <2> QED
        BY <2>1, <2>5 DEF Inductive
<1> QED
    BY <1>1, <1>2 DEF ServiceStep

(* What a key of the bundle resolves to: the resource that has that key.     *)
LEMMA Resolves ==
    ASSUME TableInv, NEW kind \in Resources, NEW key,
           Get(<<kind, IdOf(kind, key)>>) # Absent
    PROVE  LET k == <<kind, IdOf(kind, key)>>
           IN  /\ k \in DOMAIN table /\ Get(k) = table[k]
               /\ table[k].key = key
<1> DEFINE p == ExternalKey(kind, key)
           k == <<kind, IdOf(kind, key)>>
<1>1. k \in DOMAIN table /\ Get(k) = table[k]
    BY Gets
<1>2. IdOf(kind, key) \in Ids
    <2>1. k[1] \in Resources /\ k[2] = IdOf(kind, key)
        OBVIOUS
    <2> HIDE DEF k
    <2> QED
        BY <1>1, <2>1, SoundResource DEF TableInv
<1>3. p \in DOMAIN table /\ IdOf(kind, key) = table[p].id
    <2>1. Get(p) # Absent
        BY <1>2, Constants DEF IdOf
    <2> QED
        BY <2>1, Gets DEF IdOf
<1>4. p[1] = "EXTERNAL" /\ p[2] = kind /\ p[3] = key
    BY Keys
<1> HIDE DEF p
<1>5. table[HomeKey(kind, table[p].id)].key = key
    BY <1>3, <1>4, SoundPointer DEF TableInv
<1>6. HomeKey(kind, table[p].id) = k
    BY <1>3 DEF HomeKey, Resources
<1> QED
    BY <1>1, <1>5, <1>6

(* A request that starts from what is there now.                             *)
LEMMA Begun ==
    ASSUME StoreInv, NEW c \in Slots, NEW q,
           q.outcome = "none", q.late = FALSE, IsRequest(q), Proper(q.op),
           Past(q) \/ Reading(q),
           q.op.name \in Creations \/ ~Reading(q),
           q.op.name \in Updates =>
                /\ ItemKey(q.op) \in DOMAIN table
                /\ q.seen = table[ItemKey(q.op)] /\ q.expected = q.seen.version
                /\ "key" \in DOMAIN q.op.changes => q.op.changes.key = q.seen.key,
           q.op.name # "deleteSubscription",
           q.op.name = "createTransformationVersion" =>
                q.seen = Latest(q.op.id) /\ q.seen # Absent
    PROVE  RequestOK(c, q)
<1>1. q.todo # <<>>
    BY Todos
<1>2. ASSUME q.op.name \in Updates
      PROVE  UpdateOK(q)
    <2> DEFINE k == ItemKey(q.op)
    <2>1. /\ k \in DOMAIN table /\ q.seen = table[k] /\ q.expected = table[k].version
          /\ "key" \in DOMAIN q.op.changes => q.op.changes.key = q.seen.key
        BY <1>2
    <2>2. Past(q)
        BY <1>2 DEF Creations, Updates
    <2>3. k[1] \in Resources
        BY ItemKeys
    <2>4. Former(k, q.seen)
        BY <2>1, <2>3, PresentFormer
    <2>5. table[k].version \in Nat \ {0}
        BY <2>1, Versioned DEF StoreInv, TableInv
    <2>6. Owned(k[1], k[2])
        BY <2>4 DEF Former
    <2>7. UpToDate(q)
        BY <2>1, <2>5 DEF UpToDate
    <2>8. NoOlder(q, table[k])
        BY <2>1, <2>5 DEF NoOlder
    <2> QED
        BY <2>1, <2>2, <2>4, <2>5, <2>6, <2>7, <2>8 DEF UpdateOK
<1>3. q.op.name = "createTransformationVersion" => VersionOK(q)
    BY LatestIs DEF VersionOK, StoreInv
<1>4. UnderWay(q)
    BY <1>2, <1>3 DEF UnderWay
<1>5. q.op # NoOperation
    BY DEF Proper, Names, Creations, Updates, NoOperation
<1> QED
    BY <1>1, <1>4, <1>5 DEF RequestOK, Outcomes

(* The operations an import asks for are ones the API would let through.     *)
LEMMA Creating ==
    ASSUME NEW r, r.type \in {"partner", "transformation", "destination", "subscription"}
    PROVE  LET op == CreateOperation(r)
           IN  /\ Proper(op) /\ op.name \in Creations
               /\ Todo(op) \in {<<"write">>, <<"read", "write">>}
<1> DEFINE op == CreateOperation(r)
<1>1. CASE r.type = "partner"
    <2>1. op = [name |-> "createPartner", id |-> NoId, credential |-> "none",
                changes |-> Merge([key |-> r.key], PartnerConfig(r))]
        BY <1>1 DEF CreateOperation, Operation
    <2>2. "key" \in DOMAIN Merge([key |-> r.key], PartnerConfig(r))
        BY Merged
    <2> QED
        BY <2>1, <2>2 DEF Proper, Names, Creations, Updates, Todo, Rotates
<1>2. CASE r.type = "transformation"
    <2>1. op = [name |-> "createTransformation", id |-> NoId, credential |-> "none",
                changes |-> [key |-> r.key, definition |-> r.definition]]
        BY <1>2 DEF CreateOperation, Operation
    <2> QED
        BY <2>1 DEF Proper, Names, Creations, Updates, Todo, Rotates
<1>3. CASE r.type = "destination"
    <2>1. op = [name |-> "createDestination", id |-> NoId, credential |-> "none",
                changes |-> DestinationChanges(r)]
        BY <1>3 DEF CreateOperation, Operation
    <2>2. "key" \in DOMAIN DestinationChanges(r)
        BY DEF DestinationChanges
    <2> QED
        BY <2>1, <2>2 DEF Proper, Names, Creations, Updates, Todo, Rotates
<1>4. CASE r.type = "subscription"
    <2>1. op = [name |-> "createSubscription", id |-> NoId, credential |-> "none",
                changes |-> SubscriptionChanges(r)]
        BY <1>4 DEF CreateOperation, Operation
    <2>2. "key" \in DOMAIN SubscriptionChanges(r) /\ IsRoutable(SubscriptionChanges(r))
        BY DEF SubscriptionChanges, IsRoutable
    <2> QED
        BY <2>1, <2>2 DEF Proper, Names, Creations, Updates, Todo, Rotates
<1> QED
    BY <1>1, <1>2, <1>3, <1>4

(* ... and updates start from the current item of the resource.              *)
LEMMA Updating ==
    ASSUME TableInv, NEW r, Found(r) # Absent,
           r.type \in {"partner", "transformation", "destination", "subscription"}
    PROVE  LET op == UpdateOperation(r)
           IN  /\ Proper(op)
               /\ op.name \in Updates \cup {"createTransformationVersion"}
               /\ op.name \in Updates =>
                    /\ ItemKey(op) \in DOMAIN table /\ Found(r) = table[ItemKey(op)]
                    /\ "key" \in DOMAIN op.changes => op.changes.key = Found(r).key
               /\ op.name = "createTransformationVersion" =>
                    Found(r) = Latest(op.id)
<1> DEFINE op == UpdateOperation(r)
<1>1. CASE r.type = "partner"
    <2> DEFINE i == IdOf("PARTNER", r.key)
    <2>1. /\ op = [name |-> "updatePartner", id |-> i, credential |-> "none",
                   changes |-> PartnerConfig(r)]
          /\ Found(r) = Get(PartnerKey(i))
        BY <1>1 DEF UpdateOperation, PartnerOperation, Operation, Found, Current,
                    CurrentPartner
    <2>2. PartnerKey(i) \in DOMAIN table /\ Get(PartnerKey(i)) = table[PartnerKey(i)]
        BY <2>1, Gets
    <2> HIDE DEF i
    <2>3. ItemKey(op) = PartnerKey(i)
        BY <2>1, ItemKeys
    <2>4. op.name = "updatePartner" /\ op.changes = PartnerConfig(r)
        BY <2>1
    <2>5. DOMAIN PartnerConfig(r) \subseteq {"name", "description"}
        BY DEF PartnerConfig
    <2> QED
        BY <2>1, <2>2, <2>3, <2>4, <2>5 DEF Proper, Names, Creations, Updates
<1>2. CASE r.type = "transformation"
    <2> DEFINE i == IdOf("TRANSFORMATION", r.key)
    <2>1. /\ op = [name |-> "createTransformationVersion", id |-> i,
                   credential |-> "none", changes |-> [definition |-> r.definition]]
          /\ Found(r) = Latest(i)
        BY <1>2 DEF UpdateOperation, Operation, Found
    <2> HIDE DEF i
    <2>4. /\ op.name = "createTransformationVersion" /\ op.id = i
          /\ op.changes = [definition |-> r.definition]
        BY <2>1
    <2> QED
        BY <2>1, <2>4 DEF Proper, Names, Creations, Updates
<1>3. CASE r.type = "destination"
    <2> DEFINE i == IdOf("DESTINATION", r.key)
    <2>1. /\ op = [name |-> "updateDestination", id |-> i, credential |-> "none",
                   changes |-> DestinationChanges(r)]
          /\ Found(r) = Get(DestinationKey(i))
        BY <1>3 DEF UpdateOperation, Operation, Found, Current, CurrentDestination
    <2>2. /\ DestinationKey(i) \in DOMAIN table
          /\ Get(DestinationKey(i)) = table[DestinationKey(i)]
          /\ table[DestinationKey(i)].key = r.key
        BY <2>1, Resolves DEF DestinationKey, Resources
    <2> HIDE DEF i
    <2>3. ItemKey(op) = DestinationKey(i)
        BY <2>1, ItemKeys
    <2>4. op.name = "updateDestination" /\ op.changes = DestinationChanges(r)
        BY <2>1
    <2>5. /\ DOMAIN DestinationChanges(r) \cap {"id", "eventType", "destination"} = {}
          /\ DestinationChanges(r).key = r.key
        BY DEF DestinationChanges
    <2> QED
        BY <2>1, <2>2, <2>3, <2>4, <2>5 DEF Proper, Names, Creations, Updates
<1>4. CASE r.type = "subscription"
    <2> DEFINE i == IdOf("SUBSCRIPTION", r.key)
    <2>1. /\ op = [name |-> "updateSubscription", id |-> i, credential |-> "none",
                   changes |-> [enabled |-> r.enabled]]
          /\ Found(r) = Get(CatalogKey(i))
        BY <1>4 DEF UpdateOperation, Operation, Found, Current, CurrentSubscription
    <2>2. CatalogKey(i) \in DOMAIN table /\ Get(CatalogKey(i)) = table[CatalogKey(i)]
        BY <2>1, Gets
    <2> HIDE DEF i
    <2>3. ItemKey(op) = CatalogKey(i)
        BY <2>1, ItemKeys
    <2>4. op.name = "updateSubscription" /\ op.changes = [enabled |-> r.enabled]
        BY <2>1
    <2> QED
        BY <2>1, <2>2, <2>3, <2>4 DEF Proper, Names, Creations, Updates
<1> QED
    BY <1>1, <1>2, <1>3, <1>4

(* Asking the service for one resource.                                      *)
LEMMA ApplyKept ==
    ASSUME Inductive, NEW i \in Importers, ApplyResource(i)
    PROVE  Inductive'
<1> DEFINE r == Resource(i)
           old == import[i]
<1>1. /\ Applying(i)
      /\ IF Creates(i)
         THEN Ask(i, CreateOperation(r), Todo(CreateOperation(r)), Absent)
         ELSE /\ Found(r) # Absent
              /\ Ask(i, UpdateOperation(r), <<"write">>, Found(r))
      /\ UNCHANGED <<hosted, store, credentials, faults, import>>
    BY DEF ApplyResource
<1>2. i \in Slots /\ request[i] = NoRequest /\ Busy(old) /\ Importing(old)
    BY <1>1, ImportIs DEF Inductive, Applying, Importers, Busy
<1>3. r.type \in {"partner", "transformation", "destination", "subscription"}
    BY <1>2, Numbered DEF Importing, Busy, Resource
<1> HIDE DEF r, old
<1>4. ASSUME NEW op, NEW todo, NEW seen, Ask(i, op, todo, seen),
             LET q == [todo |-> todo, op |-> op, seen |-> seen, late |-> FALSE,
                       expected |-> seen.version, outcome |-> "none"]
             IN  RequestOK(i, q)
      PROVE  Inductive'
    <2> DEFINE q == [todo |-> todo, op |-> op, seen |-> seen, late |-> FALSE,
                     expected |-> seen.version, outcome |-> "none"]
    <2>1. /\ DOMAIN request' = Slots /\ request'[i] = q
          /\ \A d \in Slots : d # i => request'[d] = request[d]
        BY <1>2, <1>4 DEF Ask, NoRequest, Inductive, Typed
    <2>2. RequestOK(i, q)
        BY <1>4
    <2> HIDE DEF q
    <2>3. StoreInv' /\ RequestsInv'
        BY <1>1, <1>2, <2>1, <2>2, QuietKept DEF Inductive
    <2>4. Typed'
        BY <1>1, <2>1 DEF Inductive, Typed, store, credentials
    <2>5. \A j \in Importers : j # i => request'[j] = request[j]
        BY <2>1 DEF Importers
    <2>6. ImportsInv'
        BY <1>1, <1>2, <2>5 DEF Inductive, ImportsInv, old
    <2> QED
        BY <2>3, <2>4, <2>6 DEF Inductive
<1>5. CASE Creates(i)
    <2> DEFINE op == CreateOperation(r)
               q == [todo |-> Todo(op), op |-> op, seen |-> Absent, late |-> FALSE,
                     expected |-> Absent.version, outcome |-> "none"]
    <2>1. /\ Proper(op) /\ op.name \in Creations
          /\ Todo(op) \in {<<"write">>, <<"read", "write">>}
        BY <1>3, Creating
    <2>2. Ask(i, op, Todo(op), Absent)
        BY <1>1, <1>5
    <2> HIDE DEF op
    <2>3. /\ q.outcome = "none" /\ q.late = FALSE /\ IsRequest(q) /\ q.op = op
          /\ q.todo = Todo(op)
        BY DEF IsRequest
    <2>4. Past(q) \/ Reading(q)
        BY <2>1, <2>3 DEF Past, Reading
    <2>5. /\ q.op.name \notin Updates /\ q.op.name # "deleteSubscription"
          /\ q.op.name # "createTransformationVersion"
        BY <2>1, <2>3 DEF Creations, Updates
    <2> HIDE DEF q
    <2>6. RequestOK(i, q)
        BY <1>2, <2>1, <2>3, <2>4, <2>5, Begun DEF Inductive
    <2> QED
        BY <1>4, <2>2, <2>6 DEF q
<1>6. CASE ~Creates(i)
    <2> DEFINE op == UpdateOperation(r)
               s == Found(r)
               q == [todo |-> <<"write">>, op |-> op, seen |-> s, late |-> FALSE,
                     expected |-> s.version, outcome |-> "none"]
    <2>1. s # Absent /\ Ask(i, op, <<"write">>, s)
        BY <1>1, <1>6
    <2>2. /\ Proper(op)
          /\ op.name \in Updates \cup {"createTransformationVersion"}
          /\ op.name \in Updates =>
                /\ ItemKey(op) \in DOMAIN table /\ s = table[ItemKey(op)]
                /\ "key" \in DOMAIN op.changes => op.changes.key = s.key
          /\ op.name = "createTransformationVersion" => s = Latest(op.id)
        BY <1>3, <2>1, Updating DEF Inductive, StoreInv
    <2> HIDE DEF op, s
    <2>3. /\ q.outcome = "none" /\ q.late = FALSE /\ IsRequest(q) /\ q.op = op
          /\ q.todo = <<"write">> /\ q.seen = s /\ q.expected = q.seen.version
        BY DEF IsRequest
    <2>4. Past(q) /\ ~Reading(q)
        BY <2>3, Todos DEF Past
    <2>5. q.op.name # "deleteSubscription"
        BY <2>2, <2>3 DEF Updates
    <2> HIDE DEF q
    <2>6. RequestOK(i, q)
        BY <1>2, <2>1, <2>2, <2>3, <2>4, <2>5, Begun DEF Inductive
    <2> QED
        BY <1>4, <2>1, <2>6 DEF q
<1> QED
    BY <1>5, <1>6

(* A step of an import.                                                      *)
LEMMA ImportStepKept ==
    ASSUME Inductive, NEW i \in Importers, ImportStep(i)
    PROVE  Inductive'
<1>1. CASE ApplyResource(i)
    BY <1>1, ApplyKept
<1>2. CASE Returned(i)
    BY <1>2, ReturnedKept
<1>3. CASE ~ApplyResource(i) /\ ~Returned(i)
    <2>1. UNCHANGED vars
        BY <1>3 DEF ImportStep, BeginExport, List, EndExport, MakePlan, BeginApply,
                    Drift, Skip, DependencyChanged, Complete, NothingAsked
    <2>2. Typed' /\ StoreInv' /\ RequestsInv'
        BY <2>1, Unmoved DEF Inductive
    <2>3. ImportsInv'
        BY <1>3, ExportKept, PlanKept, TurnKept DEF Inductive, ImportStep
    <2> QED
        BY <2>2, <2>3 DEF Inductive
<1> QED
    BY <1>1, <1>2, <1>3

-------------------------------------------------------------------------------
(* The invariant is one.                                                     *)

(* The first state.                                                          *)
LEMMA InitInductive == ImportInit => Inductive
<1> SUFFICES ASSUME ImportInit
             PROVE  Inductive
    OBVIOUS
<1>1. /\ hosted \in BOOLEAN /\ table = Initial /\ before = <<>> /\ faults = 0
      /\ audits = [i \in Ids |-> IF \E k \in DOMAIN Initial : k[1] \in Classes /\ i = k[2]
                                 THEN 1 ELSE 0]
      /\ rotations = [a \in Aliases |-> 0]
      /\ secret = [a \in Aliases |-> IF a \in Bound THEN 1 ELSE 0]
      /\ resumes = [k \in Ids |-> 0]
      /\ request = [c \in Slots |-> NoRequest]
      /\ import = [i \in Importers |-> NoImport]
    BY DEF ImportInit, Init
<1>2. Typed
    BY <1>1, Constants DEF Typed
<1>3. TableInv
    BY <1>1, InitialAssumption DEF TableInv
<1>4. ASSUME NEW k \in DOMAIN table, k[1] \in Classes
      PROVE  k[2] \in Ids /\ audits[k[2]] = 1 /\ Owned(k[1], k[2])
    <2>1. k[2] \in Ids
        BY <1>3, <1>4, KindsAre, SoundResource, SoundVersion DEF TableInv
    <2>2. audits[k[2]] = 1
        BY <1>1, <1>4, <2>1
    <2>3. \A l \in DOMAIN table : l[1] \in Classes /\ l[2] = k[2] => l[1] = k[1]
        BY <1>1, <1>4, InitialAssumption
    <2> QED
        BY <2>1, <2>2, <2>3 DEF Owned
<1>5. OwnedInv
    BY <1>4 DEF OwnedInv
<1>6. AuditInv
    <2>1. \A k \in DOMAIN table : table[k].version = 1
        BY <1>1, InitialAssumption
    <2> QED
        BY <1>4, <2>1, KindsAre DEF AuditInv
<1>7. BeforeInv
    BY <1>1 DEF BeforeInv
<1>8. RequestsInv
    <2>1. \A c : RequestOK(c, NoRequest)
        BY DEF RequestOK, IsRequest, NoRequest, Reading, Outcomes
    <2> QED
        BY <1>1, <2>1 DEF RequestsInv
<1>9. ImportsInv
    <2>1. /\ NoImport.phase = "idle" /\ NoImport.bundle = NoBundle /\ NoImport.at = 0
          /\ NoImport.receipt = <<>> /\ IsImport(NoImport)
        BY DEF NoImport, IsImport
    <2>2. Len(NoBundle) = 0 /\ Len(<<>>) = 0
        BY DEF NoBundle
    <2>3. Importing(NoImport)
        BY <2>1, <2>2 DEF Importing, Phases
    <2>4. \A i \in Importers : request[i] = NoRequest /\ import[i] = NoImport
        BY <1>1 DEF Importers
    <2> QED
        BY <1>1, <2>3, <2>4 DEF ImportsInv
<1> QED
    BY <1>2, <1>3, <1>5, <1>6, <1>7, <1>8, <1>9 DEF Inductive, StoreInv

(* Every step.                                                               *)
LEMMA NextInductive == Inductive /\ [ImportNext]_allVars => Inductive'
<1> SUFFICES ASSUME Inductive, [ImportNext]_allVars
             PROVE  Inductive'
    OBVIOUS
<1>1. CASE ServiceStep
    BY <1>1, ServiceKept
<1>2. ASSUME NEW i \in Importers, ImportStep(i)
      PROVE  Inductive'
    BY <1>2, ImportStepKept
<1>3. CASE UNCHANGED allVars
    <2>1. UNCHANGED vars /\ request' = request /\ import' = import
        BY <1>3 DEF allVars, vars
    <2>2. Typed' /\ StoreInv' /\ RequestsInv'
        BY <2>1, Unmoved DEF Inductive
    <2>3. ImportsInv'
        BY <2>1 DEF Inductive, ImportsInv
    <2> QED
        BY <2>2, <2>3 DEF Inductive
<1> QED
    BY <1>1, <1>2, <1>3 DEF ImportNext

(* Always.                                                                   *)
LEMMA AlwaysInductive == ImportSpec => []Inductive
    BY InitInductive, NextInductive, PTL DEF ImportSpec

-------------------------------------------------------------------------------
(* Receipts.  What a receipt says of a resource is about its item as it is   *)
(* or was; once the import has changed one, that item is gone or newer.      *)

ClassOf(type) ==
    CASE type = "partner" -> "PARTNER"
      [] type = "destination" -> "DESTINATION"
      [] OTHER -> "SUBSCRIPTION"
Target(type, t) == <<ClassOf(type), t.id>>

PlannedOn(type, key, t) ==
    t # Absent /\ type # "transformation" =>
        /\ Former(Target(type, t), t) /\ t.key = key
        /\ Target(type, t) \in DOMAIN table => t.version <= table[Target(type, t)].version
SpentOn(type, t) ==
    t # Absent =>
        /\ type # "transformation"
        /\ Target(type, t) \in DOMAIN table => t.version < table[Target(type, t)].version

Settled(r, line) ==
    /\ PlannedOn(r.type, r.key, line.target)
    /\ line.action \in {"CREATE", "UPDATE"} /\ r.type = "transformation" =>
        line.target = Absent
    /\ line.action = "CREATE" /\ r.type = "partner" => line.target = Absent
Used(m, n) == SpentOn(m.bundle[n].type, m.receipt[n].target)

(* A receipt, and whether it is used up.                                     *)
Drawn(m) ==
    /\ \A n \in DOMAIN m.bundle : Settled(m.bundle[n], m.receipt[n])
    /\ m.changed => \E n \in DOMAIN m.bundle : Used(m, n)

(* A request that will use it up when it is accepted, or has.                *)
Uses(m, q) ==
    \/ Used(m, m.at)
    \/ /\ q.op.name \in Updates /\ m.bundle[m.at].type # "transformation"
       /\ ItemKey(q.op) = Target(m.bundle[m.at].type, m.receipt[m.at].target)
       /\ m.receipt[m.at].target.version <= q.seen.version
Pending(m, q) ==
    /\ q.todo # <<>> => Uses(m, q)
    /\ q.outcome = "ok" => Used(m, m.at)
ReceiptsInv ==
    \A i \in Importers : Drawn(import[i]) /\ Pending(import[i], request[i])

(* The classes of resources.                                                 *)
LEMMA Targets ==
    ASSUME NEW type, NEW t
    PROVE  /\ ClassOf(type) \in Resources
           /\ Target(type, t)[1] = ClassOf(type) /\ Target(type, t)[2] = t.id
    BY DEF ClassOf, Target, Resources

(* A steady step keeps what is known of a target.                            *)
LEMMA SettledKept ==
    ASSUME Steady, TableInv, NEW r, NEW line, Settled(r, line)
    PROVE  Settled(r, line)'
<1> DEFINE t == line.target
           k == Target(r.type, t)
<1>1. ASSUME t # Absent, r.type # "transformation"
      PROVE  /\ Former(k, t)' /\ t.key = r.key
             /\ k \in DOMAIN table' => t.version <= table'[k].version
    <2>1. /\ Former(k, t) /\ t.key = r.key
          /\ k \in DOMAIN table => t.version <= table[k].version
        BY <1>1 DEF Settled, PlannedOn
    <2>2. k[1] \in Resources
        BY Targets
    <2> HIDE DEF k, t
    <2>3. Former(k, t)'
        BY <2>1, <2>2, FormerKept
    <2>4. Owned(k[1], k[2]) /\ t.version \in Nat
        BY <2>1 DEF Former, IsResource
    <2>5. ASSUME k \in DOMAIN table'
          PROVE  t.version <= table'[k].version
        <3>1. /\ k \in DOMAIN table
              /\ table'[k].version \in {table[k].version, table[k].version + 1}
            BY <2>2, <2>4, <2>5 DEF Steady
        <3>2. table[k].version \in Nat
            BY <3>1, Gets
        <3> QED
            BY <2>1, <2>4, <3>1, <3>2
    <2> QED
        BY <2>1, <2>3, <2>5
<1>2. PlannedOn(r.type, r.key, t)'
    BY <1>1 DEF PlannedOn
<1> QED
    BY <1>2 DEF Settled

(* ... and what is used up stays so.                                         *)
LEMMA SpentKept ==
    ASSUME Steady, TableInv, NEW r, NEW line, Settled(r, line),
           SpentOn(r.type, line.target)
    PROVE  SpentOn(r.type, line.target)'
<1> DEFINE t == line.target
           k == Target(r.type, t)
<1>1. ASSUME t # Absent, k \in DOMAIN table'
      PROVE  t.version < table'[k].version
    <2>1. /\ Former(k, t)
          /\ k \in DOMAIN table => t.version < table[k].version
        BY <1>1 DEF Settled, PlannedOn, SpentOn
    <2>2. k[1] \in Resources
        BY Targets
    <2> HIDE DEF k, t
    <2>3. Owned(k[1], k[2]) /\ t.version \in Nat
        BY <2>1 DEF Former, IsResource
    <2>4. /\ k \in DOMAIN table
          /\ table'[k].version \in {table[k].version, table[k].version + 1}
        BY <1>1, <2>2, <2>3 DEF Steady
    <2>5. table[k].version \in Nat
        BY <2>4, Gets
    <2> QED
        BY <2>1, <2>3, <2>4, <2>5
<1> QED
    BY <1>1 DEF SpentOn

(* A receipt stays what it is.                                               *)
LEMMA DrawnKept ==
    ASSUME Steady, TableInv, NEW m, Drawn(m)
    PROVE  Drawn(m)'
<1>1. ASSUME NEW n \in DOMAIN m.bundle
      PROVE  Settled(m.bundle[n], m.receipt[n])' /\ (Used(m, n) => Used(m, n)')
    <2>1. Settled(m.bundle[n], m.receipt[n])
        BY DEF Drawn
    <2> QED
        BY <2>1, SettledKept, SpentKept DEF Used
<1> QED
    BY <1>1 DEF Drawn

(* So does a request.                                                        *)
LEMMA PendingKept ==
    ASSUME Steady, TableInv, NEW m, Drawn(m), NEW q, Pending(m, q),
           q.todo # <<>> \/ q.outcome = "ok" => m.at \in DOMAIN m.bundle
    PROVE  Pending(m, q)'
<1>1. ASSUME m.at \in DOMAIN m.bundle, Used(m, m.at)
      PROVE  Used(m, m.at)'
    <2>1. Settled(m.bundle[m.at], m.receipt[m.at])
        BY <1>1 DEF Drawn
    <2> QED
        BY <1>1, <2>1, SpentKept DEF Used
<1> QED
    BY <1>1 DEF Pending, Uses

(* The current item of a resource of the bundle, and who has its key.        *)
LEMMA CurrentIs ==
    ASSUME TableInv, NEW r, r.type \in {"partner", "destination", "subscription"},
           Current(r) # Absent
    PROVE  LET k == Target(r.type, Current(r))
           IN  /\ k \in DOMAIN table /\ Current(r) = table[k] /\ table[k].key = r.key
               /\ k = <<ClassOf(r.type), IdOf(ClassOf(r.type), r.key)>>
<1> DEFINE class == ClassOf(r.type)
           k == <<class, IdOf(class, r.key)>>
<1>1. Current(r) = Get(k)
    BY DEF Current, CurrentPartner, CurrentDestination, CurrentSubscription, ClassOf,
           PartnerKey, DestinationKey, CatalogKey
<1>2. class \in Resources
    BY Targets
<1> HIDE DEF class
<1>3. k \in DOMAIN table /\ Get(k) = table[k] /\ table[k].key = r.key
    BY <1>1, <1>2, Resolves
<1>4. table[k].id = IdOf(class, r.key)
    <2>1. k[1] \in Resources /\ k[2] = IdOf(class, r.key)
        BY <1>2
    <2> HIDE DEF k
    <2> QED
        BY <1>3, <2>1, SoundResource DEF TableInv, IsResource
<1>5. Target(r.type, Current(r)) = k
    BY <1>1, <1>3, <1>4 DEF Target, class
<1> QED
    BY <1>1, <1>3, <1>5 DEF class

(* A resource is found by its key.                                           *)
LEMMA KeyFinds ==
    ASSUME TableInv, NEW class \in Resources, NEW j, <<class, j>> \in DOMAIN table
    PROVE  IdOf(class, table[<<class, j>>].key) = j
<1> DEFINE k == <<class, j>>
           p == ExternalKey(class, table[k].key)
<1>1. j \in Ids
    <2>1. k[1] \in Resources /\ k[2] = j
        OBVIOUS
    <2> HIDE DEF k
    <2> QED
        BY <2>1, SoundResource DEF TableInv, k
<1>2. class \in Kinds /\ HomeKey(class, j) = k
    BY DEF Kinds, Resources, HomeKey
<1> HIDE DEF k
<1>3. p \in DOMAIN table /\ table[p] = Pointer(j)
    BY <1>1, <1>2, SoundHome DEF TableInv, k
<1> HIDE DEF p
<1>4. Get(p) = Pointer(j) /\ Get(p) # Absent
    BY <1>3, Gets
<1>5. Pointer(j).id = j
    BY DEF Pointer
<1> QED
    BY <1>4, <1>5 DEF IdOf, p, k

(* What a plan says of a resource.                                           *)
LEMMA PlanSettles ==
    ASSUME StoreInv, NEW b \in Bundles, NEW n \in DOMAIN b
    PROVE  Settled(b[n], Plan(b)[n])
<1> DEFINE r == b[n]
           line == Plan(b)[n]
<1>1. r.type \in {"partner", "transformation", "destination", "subscription"}
    BY Numbered
<1>2. line.target = Current(r) /\ line.action = Action(b, r)
    BY DEF Plan, Fingerprint
<1> HIDE DEF r, line
<1>3. PlannedOn(r.type, r.key, Current(r))
    <2> DEFINE t == Current(r)
               k == Target(r.type, t)
    <2> SUFFICES ASSUME t # Absent, r.type # "transformation"
                 PROVE  /\ Former(k, t) /\ t.key = r.key
                        /\ k \in DOMAIN table => t.version <= table[k].version
        BY DEF PlannedOn
    <2>1. k \in DOMAIN table /\ t = table[k] /\ table[k].key = r.key
        BY <1>1, CurrentIs DEF StoreInv
    <2>2. k[1] \in Resources
        BY Targets
    <2> HIDE DEF t, k
    <2>3. Former(k, table[k]) /\ table[k].version \in Nat
        BY <2>1, <2>2, PresentFormer, Gets DEF StoreInv
    <2> QED
        BY <2>1, <2>3
<1>4. r.type = "transformation" /\ Current(r) # Absent =>
        Action(b, r) \notin {"CREATE", "UPDATE"}
    BY DEF Action, TransformationAction
<1>5. r.type = "partner" /\ Current(r) # Absent => Action(b, r) # "CREATE"
    BY DEF Action, PartnerAction
<1> QED
    BY <1>2, <1>3, <1>4, <1>5 DEF Settled, r, line

(* What an update starts from.                                               *)
LEMMA UpdateIs ==
    ASSUME NEW r, r.type \in {"partner", "destination", "subscription"}
    PROVE  /\ Found(r) = Current(r)
           /\ UpdateOperation(r).name \in Updates
           /\ ItemKey(UpdateOperation(r)) =
                <<ClassOf(r.type), IdOf(ClassOf(r.type), r.key)>>
<1> DEFINE op == UpdateOperation(r)
<1>1. Found(r) = Current(r)
    BY DEF Found
<1>2. CASE r.type = "partner"
    <2>1. op.name = "updatePartner" /\ op.id = IdOf("PARTNER", r.key)
        BY <1>2 DEF UpdateOperation, PartnerOperation, Operation
    <2>2. ItemKey(op) = PartnerKey(IdOf("PARTNER", r.key))
        BY <2>1, ItemKeys
    <2> QED
        BY <1>1, <1>2, <2>1, <2>2 DEF Updates, PartnerKey, ClassOf
<1>3. CASE r.type = "destination"
    <2>1. op.name = "updateDestination" /\ op.id = IdOf("DESTINATION", r.key)
        BY <1>3 DEF UpdateOperation, Operation
    <2>2. ItemKey(op) = DestinationKey(IdOf("DESTINATION", r.key))
        BY <2>1, ItemKeys
    <2> QED
        BY <1>1, <1>3, <2>1, <2>2 DEF Updates, DestinationKey, ClassOf
<1>4. CASE r.type = "subscription"
    <2>1. op.name = "updateSubscription" /\ op.id = IdOf("SUBSCRIPTION", r.key)
        BY <1>4 DEF UpdateOperation, Operation
    <2>2. ItemKey(op) = CatalogKey(IdOf("SUBSCRIPTION", r.key))
        BY <2>1, ItemKeys
    <2> QED
        BY <1>1, <1>4, <2>1, <2>2 DEF Updates, CatalogKey, ClassOf
<1> QED
    BY <1>2, <1>3, <1>4

(* Whatever an import asks for uses up its receipt.                          *)
LEMMA AskingUses ==
    ASSUME StoreInv, NEW i \in Importers, ApplyResource(i), Drawn(import[i]),
           Typed, import[i].bundle \in Bundles
    PROVE  Pending(import[i], request'[i]) /\ import' = import
<1> DEFINE m == import[i]
           r == m.bundle[m.at]
           line == m.receipt[m.at]
           t == line.target
           k == Target(r.type, t)
           q == request'[i]
<1>1. /\ m.at \in DOMAIN m.bundle
      /\ line.action \in {"CREATE", "UPDATE"}
      /\ IF Creates(i)
         THEN Ask(i, CreateOperation(r), Todo(CreateOperation(r)), Absent)
         ELSE /\ Found(r) # Absent
              /\ Ask(i, UpdateOperation(r), <<"write">>, Found(r))
      /\ Creates(i) = IF r.type = "partner" THEN line.action = "CREATE"
                      ELSE Found(r) = Absent
      /\ import' = import
    BY DEF ApplyResource, Applying, Wanted, Resource, Creates
<1>2. r.type \in {"partner", "transformation", "destination", "subscription"}
    BY <1>1, Numbered
<1>3. Settled(r, line)
    BY <1>1 DEF Drawn
<1>4. ASSUME NEW op, NEW todo, NEW seen, Ask(i, op, todo, seen)
      PROVE  q.outcome = "none" /\ q.op = op /\ q.seen = seen
    <2>1. i \in DOMAIN request
        BY DEF Typed, Importers
    <2> QED
        BY <1>4, <2>1 DEF Ask, NoRequest
<1>5. q.outcome = "none"
    <2>1. \E op, todo, seen : Ask(i, op, todo, seen)
        BY <1>1
    <2> QED
        BY <1>4, <2>1
<1> HIDE DEF r, line, q
<1>6. Uses(m, q)
    <2>1. CASE t = Absent
        BY <2>1 DEF Uses, Used, SpentOn, r, line
    <2>2. CASE t # Absent /\ k \notin DOMAIN table
        <3>1. r.type # "transformation"
            BY <1>1, <1>3, <2>2 DEF Settled
        <3> QED
            BY <2>2, <3>1 DEF Uses, Used, SpentOn, r, line
    <2>3. CASE t # Absent /\ k \in DOMAIN table
        <3>1. r.type # "transformation" /\ (r.type = "partner" => line.action # "CREATE")
            BY <1>1, <1>3, <2>3 DEF Settled
        <3>2. /\ Former(k, t) /\ t.key = r.key /\ t.version <= table[k].version
            BY <1>3, <2>3, <3>1 DEF Settled, PlannedOn
        <3>3. k = <<ClassOf(r.type), t.id>> /\ ClassOf(r.type) \in Resources
            BY Targets DEF Target
        <3>4. table[k].key = r.key
            BY <2>3, <3>2 DEF Former, SameIdentity
        <3>5. IdOf(ClassOf(r.type), r.key) = t.id
            BY <2>3, <3>3, <3>4, KeyFinds DEF StoreInv
        <3>6. r.type \in {"partner", "destination", "subscription"}
            BY <1>2, <3>1
        <3>7. Current(r) = Get(<<ClassOf(r.type), IdOf(ClassOf(r.type), r.key)>>)
            BY <3>6 DEF Current, CurrentPartner, CurrentDestination, CurrentSubscription,
                        ClassOf, PartnerKey, DestinationKey, CatalogKey
        <3>8. Found(r) = table[k] /\ Found(r) # Absent
            BY <2>3, <3>3, <3>5, <3>6, <3>7, UpdateIs, Gets DEF StoreInv
        <3>9. ~Creates(i)
            BY <1>1, <3>1, <3>8
        <3>10. q.op = UpdateOperation(r) /\ q.seen = table[k]
            BY <1>1, <1>4, <3>8, <3>9
        <3>11. q.op.name \in Updates /\ ItemKey(q.op) = k
            BY <3>3, <3>5, <3>6, <3>10, UpdateIs
        <3> QED
            BY <3>1, <3>2, <3>10, <3>11 DEF Uses, r, line
    <2> QED
        BY <2>1, <2>2, <2>3
<1> QED
    BY <1>1, <1>5, <1>6 DEF Pending, q

(* Steady steps.                                                             *)
LEMMA StepsSteady ==
    ASSUME Inductive, ImportNext
    PROVE  Steady
<1>1. ASSUME NEW c \in Slots, \A d \in Slots : d # c => request'[d] = request[d],
             request[c].todo # <<>> \/ c \in Importers \/ request[c] = NoRequest,
             UNCHANGED <<hosted, store>>
      PROVE  Steady
    BY <1>1, LateStays, QuietSteady DEF Inductive
<1>2. ASSUME NEW c \in Clients, NEW op \in Operations[c], Begin(c, op)
      PROVE  Steady
    <2>1. c \in Slots /\ request[c] = NoRequest /\ UNCHANGED <<hosted, store>>
        BY <1>2, Constants DEF Begin
    <2>2. \A d \in Slots : d # c => request'[d] = request[d]
        BY <1>2 DEF Begin, Inductive, Typed
    <2> QED
        BY <1>1, <2>1, <2>2
<1>3. ASSUME NEW c \in Slots, Step(c)
      PROVE  Steady
    <2>1. /\ request[c].todo # <<>>
          /\ \A d \in Slots : d # c => request'[d] = request[d]
        BY <1>3, StepFrame DEF Inductive
    <2>2. CASE UNCHANGED <<hosted, store>>
        BY <1>1, <2>1, <2>2
    <2>3. CASE Write(c) /\ ~UNCHANGED <<hosted, store>>
        <3>1. UNCHANGED hosted /\ (UNCHANGED store \/ \E i : Accomplishes(i))
            BY <2>3, WriteDoes DEF Inductive
        <3>2. Replaces /\ \E i : \E class : Evolves(class, i)
            BY <2>3, <3>1 DEF Accomplishes
        <3>3. LateWrite => LateWrite'
            BY <2>1, LateStays DEF Inductive
        <3> QED
            BY <3>2, <3>3, EvolvesSteady DEF Inductive
    <2> QED
        BY <1>3, <2>2, <2>3 DEF Step, Read, AuditRotation, StoreSecret, Abandon
<1>4. ASSUME NEW i \in Importers, ImportStep(i)
      PROVE  Steady
    <2>1. i \in Slots /\ UNCHANGED <<hosted, store>>
        BY <1>4 DEF Importers, ImportStep, BeginExport, List, EndExport, MakePlan,
                    BeginApply, Drift, Skip, DependencyChanged, Complete, Returned,
                    ApplyResource, NothingAsked, vars
    <2>2. \A d \in Slots : d # i => request'[d] = request[d]
        <3>1. CASE ApplyResource(i)
            BY <3>1, <2>1 DEF ApplyResource, Ask, Inductive, Typed
        <3>2. CASE Returned(i)
            BY <3>2, <2>1 DEF Returned, Inductive, Typed
        <3>3. CASE request' = request
            BY <3>3
        <3> QED
            BY <1>4, <3>1, <3>2, <3>3 DEF ImportStep, BeginExport, List, EndExport,
                MakePlan, BeginApply, Drift, Skip, DependencyChanged, Complete,
                NothingAsked, vars
    <2> QED
        BY <1>1, <2>1, <2>2
<1> QED
    BY <1>2, <1>3, <1>4 DEF ImportNext, ServiceStep

(* What a step makes of its request: it ends it, or takes it a step further. *)
LEMMA StepMoves ==
    ASSUME Inductive, NEW c \in Slots, Step(c)
    PROVE  LET r == request[c]
               q == request'[c]
           IN  \/ q.todo = <<>> /\ (q.outcome = "ok" => Write(c))
               \/ /\ q.op = r.op /\ q.outcome = "none"
                  /\ q.seen = r.seen \/ Reading(r)
<1> DEFINE r == request[c]
           q == request'[c]
<1>1. /\ c \in Slots /\ r.todo # <<>> /\ DOMAIN request = Slots
      /\ RequestOK(c, r) /\ IsRequest(r) /\ r.outcome = "none"
    BY StepFrame DEF Inductive, Typed, RequestsInv, RequestOK, UnderWay
<1>2. ASSUME NEW o, End(c, o)
      PROVE  q.todo = <<>> /\ q.outcome = o
    <2>1. q = [todo |-> <<>>, op |-> r.op, seen |-> r.seen, late |-> r.late,
               expected |-> r.expected, outcome |-> o]
        BY <1>1, <1>2, Ended
    <2> QED
        BY <2>1
<1>3. CASE Read(c)
    <2>1. PICK s : \/ End(c, "refused")
                   \/ request' = [request EXCEPT ![c].todo = Tail(@), ![c].seen = s,
                                    ![c].late = Late(request[c].op, s)]
        BY <1>3 DEF Read
    <2>2. CASE End(c, "refused")
        BY <1>2, <2>2
    <2>3. CASE ~End(c, "refused")
        <3> DEFINE l == Late(request[c].op, s)
        <3>1. request' = [request EXCEPT ![c].todo = Tail(@), ![c].seen = s,
                                         ![c].late = l]
            BY <2>1, <2>3
        <3> HIDE DEF l
        <3>2. request' = [request EXCEPT ![c] =
                [request[c] EXCEPT !.todo = Tail(request[c].todo), !.seen = s, !.late = l]]
            BY <3>1
        <3>5. q = [todo |-> Tail(r.todo), op |-> r.op, seen |-> s, late |-> l,
                   expected |-> r.expected, outcome |-> r.outcome]
            BY <1>1, <3>2, Saw
        <3>3. q.op = r.op /\ q.outcome = r.outcome
            BY <3>5
        <3>4. Reading(r)
            BY <1>1, <1>3, Todos DEF Read, Doing, RequestOK
        <3> QED
            BY <1>1, <3>3, <3>4
    <2> QED
        BY <2>2, <2>3
<1>4. CASE AuditRotation(c) \/ StoreSecret(c)
    <2>1. NextStep(c)
        BY <1>4 DEF AuditRotation, StoreSecret
    <2>3. q = [todo |-> Tail(r.todo), op |-> r.op, seen |-> r.seen, late |-> r.late,
               expected |-> r.expected, outcome |-> r.outcome]
        BY <1>1, <2>1, Stepped
    <2>2. q.op = r.op /\ q.outcome = r.outcome /\ q.seen = r.seen
        BY <2>3
    <2> QED
        BY <1>1, <2>2
<1>5. CASE Write(c)
    <2>1. End(c, "ok") \/ End(c, "conflict")
        BY <1>5 DEF Write
    <2> QED
        BY <1>2, <1>5, <2>1
<1>6. CASE Abandon(c)
    BY <1>2, <1>6 DEF Abandon
<1> QED
    BY <1>3, <1>4, <1>5, <1>6 DEF Step

(* An accepted write uses up the receipt it was asked for with.              *)
LEMMA WritingUses ==
    ASSUME Inductive, NEW i \in Importers, Write(i), request'[i].outcome = "ok",
           Steady, NEW m, Drawn(m), m.at \in DOMAIN m.bundle, Uses(m, request[i])
    PROVE  Used(m, m.at)'
<1> DEFINE r == m.bundle[m.at]
           t == m.receipt[m.at].target
           k == Target(r.type, t)
           q == request[i]
<1>1. i \in Slots /\ Settled(r, m.receipt[m.at])
    BY DEF Importers, Drawn
<1>2. CASE Used(m, m.at)
    BY <1>1, <1>2, SpentKept DEF Used, Inductive, StoreInv
<1>3. CASE ~Used(m, m.at)
    <2>1. /\ q.op.name \in Updates /\ r.type # "transformation" /\ ItemKey(q.op) = k
          /\ t.version <= q.seen.version
        BY <1>3 DEF Uses
    <2>2. table'[k].version = q.seen.version + 1
        BY <1>1, <2>1, WriteDoes DEF Inductive
    <2>3. q.seen.version \in Nat
        <3>1. RequestOK(i, q) /\ q.todo # <<>>
            BY <1>1, WriteDoes DEF Inductive, RequestsInv
        <3>2. UpdateOK(q) /\ Past(q)
            <4>1. Past(q) \/ Reading(q)
                BY <3>1 DEF RequestOK
            <4>2. ~Reading(q)
                BY <1>1, <2>1, <3>1 DEF RequestOK, Updates, Creations
            <4>3. UpdateOK(q)
                BY <2>1, <3>1 DEF RequestOK, UnderWay
            <4> QED
                BY <4>1, <4>2, <4>3
        <3> QED
            BY <3>2 DEF UpdateOK, Former, IsResource
    <2>4. t # Absent => t.version \in Nat
        BY <1>1, <2>1 DEF Settled, PlannedOn, Former, IsResource
    <2> HIDE DEF k, q
    <2>5. t # Absent => t.version < table'[k].version
        BY <2>1, <2>2, <2>3, <2>4
    <2> QED
        BY <2>1, <2>5 DEF Used, SpentOn, k
<1> QED
    BY <1>2, <1>3

(* Two imports with the same receipt at the same resource.                   *)
LEMMA SameReceipt ==
    ASSUME NEW m, NEW l, l.bundle = m.bundle, l.receipt = m.receipt, l.at = m.at,
           l.changed = m.changed, NEW q
    PROVE  (Drawn(m) => Drawn(l)) /\ (Pending(m, q) => Pending(l, q))
<1>1. \A n : Used(m, n) <=> Used(l, n)
    BY DEF Used
<1>2. Uses(m, q) <=> Uses(l, q)
    BY <1>1 DEF Uses
<1> QED
    BY <1>1, <1>2 DEF Drawn, Pending

(* Where an import is when it has asked for something.                       *)
LEMMA PendingAt ==
    ASSUME Inductive, NEW i \in Importers,
           request[i].todo # <<>> \/ request[i].outcome = "ok"
    PROVE  import[i].at \in DOMAIN import[i].bundle /\ import[i].bundle \in Bundles
<1>1. request[i] # NoRequest
    BY DEF NoRequest
<1>2. Busy(import[i]) /\ Importing(import[i])
    BY <1>1, ImportIs DEF Inductive
<1> QED
    BY <1>2, Numbered DEF Busy, Importing

(* An import whose request did not move, while others did.                   *)
LEMMA ReceiptStays ==
    ASSUME Inductive, Steady, NEW i \in Importers, NEW l, NEW q,
           Drawn(import[i]), Pending(import[i], request[i]), q = request[i],
           l.bundle = import[i].bundle, l.receipt = import[i].receipt,
           l.at = import[i].at, l.changed = import[i].changed
    PROVE  Drawn(l)' /\ Pending(l, q)'
<1>1. PICK m : m = import[i]
    OBVIOUS
<1>2. Drawn(l) /\ Pending(l, q)
    BY SameReceipt
<1>3. q.todo # <<>> \/ q.outcome = "ok" => l.at \in DOMAIN l.bundle
    BY PendingAt
<1> QED
    BY <1>2, <1>3, DrawnKept, PendingKept DEF Inductive, StoreInv

(* A step of a request.                                                      *)
LEMMA StepReceipts ==
    ASSUME Inductive, ReceiptsInv, Steady, NEW c \in Slots, Step(c),
           import' = [i \in Importers |-> [import[i] EXCEPT
                !.alone = @ /\ (c = i \/ UNCHANGED <<table, secret>>)]]
    PROVE  ReceiptsInv'
<1> SUFFICES ASSUME NEW i \in Importers
             PROVE  Drawn(import[i])' /\ Pending(import[i], request[i])'
    BY DEF ReceiptsInv
<1>1. PICK l : l = import'[i]
    OBVIOUS
<1>2. PICK q : q = request'[i]
    OBVIOUS
<1>3. Drawn(import[i]) /\ Pending(import[i], request[i])
    BY DEF ReceiptsInv
<1>4. /\ l.bundle = import[i].bundle /\ l.receipt = import[i].receipt
      /\ l.at = import[i].at /\ l.changed = import[i].changed
    <2>1. \E a : import'[i] = [import[i] EXCEPT !.alone = a]
        OBVIOUS
    <2>2. IsImport(import[i])
        BY ImportIs DEF Inductive, Importing
    <2> QED
        BY <1>1, <2>1, <2>2 DEF IsImport
<1>5. Drawn(l) /\ Pending(l, request[i])
    BY <1>3, <1>4, SameReceipt
<1>6. Drawn(l)'
    BY <1>5, DrawnKept DEF Inductive, StoreInv
<1>7. Pending(l, q)'
    <2>1. CASE c # i
        <3>1. q = request[i]
            BY <1>2, <2>1, StepFrame DEF Inductive, Importers
        <3> QED
            BY <1>3, <1>4, <3>1, ReceiptStays
    <2>2. CASE c = i
        <3>1. request[i].todo # <<>>
            BY <2>2, StepFrame DEF Inductive
        <3>2. l.at \in DOMAIN l.bundle
            BY <1>4, <3>1, PendingAt
        <3>3. Uses(l, request[i])
            BY <1>5, <3>1 DEF Pending
        <3>4. CASE q.todo = <<>> /\ (q.outcome = "ok" => Write(i))
            <4>1. ASSUME q.outcome = "ok"
                  PROVE  Used(l, l.at)'
                BY <1>2, <1>5, <3>2, <3>3, <3>4, <4>1, WritingUses
            <4> QED
                BY <3>4, <4>1 DEF Pending
        <3>5. CASE /\ q.op = request[i].op /\ q.outcome = "none"
                   /\ q.seen = request[i].seen \/ Reading(request[i])
            <4>1. Reading(request[i]) => request[i].op.name \notin Updates
                BY <2>2 DEF Inductive, RequestsInv, RequestOK, Updates, Creations
            <4>2. Uses(l, q)
                BY <3>3, <3>5, <4>1 DEF Uses
            <4>3. Pending(l, q)
                BY <3>5, <4>2 DEF Pending
            <4> QED
                BY <1>5, <3>2, <4>3, PendingKept DEF Inductive, StoreInv
        <3> QED
            BY <1>2, <2>2, <3>4, <3>5, StepMoves
    <2> QED
        BY <2>1, <2>2
<1> QED
    BY <1>1, <1>2, <1>6, <1>7

(* What a step of an import makes of its receipt: another one, none, or the  *)
(* same, used up at most by what the service accepted.                       *)
LEMMA ImportStepIs ==
    ASSUME Inductive, NEW i \in Importers, ImportStep(i), ~ApplyResource(i)
    PROVE  \E l :
            /\ import' = [import EXCEPT ![i] = l]
            /\ import[i].phase # "applying" /\ l.phase = "applying" => BeginApply(i)
            /\ \/ l.bundle = NoBundle /\ l.changed = FALSE
               \/ /\ l.bundle \in Bundles /\ l.receipt = Plan(l.bundle)
                  /\ l.changed = FALSE
               \/ /\ l.bundle = import[i].bundle /\ l.receipt = import[i].receipt
                  /\ \/ l.changed = import[i].changed
                     \/ request[i].outcome = "ok"
<1> DEFINE old == import[i]
           Same(l) == /\ l.bundle = old.bundle /\ l.receipt = old.receipt
                      /\ l.changed = old.changed
<1>1. IsImport(old)
    BY ImportIs DEF Inductive, Importing
<1>2. ASSUME NEW p, import' = [import EXCEPT ![i] = [old EXCEPT !.phase = p]]
      PROVE  \E l : import' = [import EXCEPT ![i] = l] /\ Same(l) /\ l.phase = p
    <2> DEFINE l == [old EXCEPT !.phase = p]
    <2>1. Same(l) /\ l.phase = p
        BY <1>1 DEF IsImport
    <2>2. import' = [import EXCEPT ![i] = l]
        BY <1>2
    <2> HIDE DEF l, Same
    <2> QED
        BY <2>1, <2>2
<1>3. CASE BeginExport(i)
    <2> DEFINE l == [NoImport EXCEPT !.phase = "listing", !.plans = old.plans + 1,
                                     !.alone = TRUE]
    <2>1. import' = [import EXCEPT ![i] = l]
        BY <1>3 DEF BeginExport
    <2>2. l.bundle = NoBundle /\ l.changed = FALSE /\ l.phase = "listing"
        BY DEF NoImport
    <2> HIDE DEF l
    <2> QED
        BY <2>1, <2>2
<1>4. CASE List(i)
    <2> DEFINE class == Listed[Len(old.lists) + 1]
               s == Append(old.lists, {table[k] : k \in Existing(class)})
               o == IF class = "DESTINATION" THEN NoneDangles ELSE old.sound
               l == [old EXCEPT !.lists = s, !.sound = o]
    <2>1. import' = [import EXCEPT ![i].lists = s, ![i].sound = o]
        BY <1>4 DEF List
    <2> HIDE DEF s, o
    <2>2. import' = [import EXCEPT ![i] = l]
        BY <2>1
    <2>3. Same(l) /\ l.phase = old.phase
        BY <1>1 DEF IsImport
    <2>4. old.phase # "applying"
        BY <1>4 DEF List
    <2> HIDE DEF l
    <2> QED
        BY <2>2, <2>3, <2>4
<1>5. CASE EndExport(i)
    <2>1. CASE Representable(old.lists)
        <3>1. import' = [import EXCEPT ![i] = [old EXCEPT !.phase = "exported"]]
            BY <1>5, <2>1 DEF EndExport
        <3>2. PICK l : import' = [import EXCEPT ![i] = l] /\ Same(l) /\ l.phase = "exported"
            BY <1>2, <3>1
        <3> QED
            BY <3>2
    <2>2. CASE ~Representable(old.lists)
        <3> DEFINE l == [NoImport EXCEPT !.phase = "failed", !.plans = old.plans]
        <3>1. import' = [import EXCEPT ![i] = l]
            BY <1>5, <2>2 DEF EndExport
        <3>2. l.bundle = NoBundle /\ l.changed = FALSE /\ l.phase = "failed"
            BY DEF NoImport
        <3> HIDE DEF l
        <3> QED
            BY <3>1, <3>2
    <2> QED
        BY <2>1, <2>2
<1>6. CASE MakePlan(i)
    <2>1. PICK b \in Bundles : import' = [import EXCEPT ![i] = [NoImport EXCEPT
            !.phase = "planned", !.bundle = b, !.receipt = Plan(b),
            !.plans = old.plans + 1]]
        BY <1>6 DEF MakePlan
    <2> DEFINE p == Plan(b)
               l == [NoImport EXCEPT !.phase = "planned", !.bundle = b,
                                     !.receipt = p, !.plans = old.plans + 1]
    <2>2. import' = [import EXCEPT ![i] = l]
        BY <2>1
    <2> HIDE DEF p
    <2>3. /\ l.bundle = b /\ l.receipt = p /\ l.changed = FALSE /\ l.phase = "planned"
        BY DEF NoImport
    <2> HIDE DEF l
    <2>4. l.receipt = Plan(l.bundle)
        BY <2>3 DEF p
    <2> QED
        BY <2>2, <2>3, <2>4
<1>7. CASE BeginApply(i)
    <2> DEFINE l == [old EXCEPT !.phase = "applying", !.at = 1, !.alone = TRUE]
    <2>1. import' = [import EXCEPT ![i].phase = "applying", ![i].at = 1,
                                   ![i].alone = TRUE]
        BY <1>7 DEF BeginApply
    <2>2. import' = [import EXCEPT ![i] = l]
        BY <2>1
    <2>3. Same(l)
        BY <1>1 DEF IsImport
    <2> HIDE DEF l
    <2> QED
        BY <1>7, <2>2, <2>3
<1>8. CASE Drift(i) \/ DependencyChanged(i)
    <2>1. import' = [import EXCEPT ![i] = [old EXCEPT !.phase = "failed"]]
        BY <1>8 DEF Drift, DependencyChanged
    <2>2. PICK l : import' = [import EXCEPT ![i] = l] /\ Same(l) /\ l.phase = "failed"
        BY <1>2, <2>1
    <2> QED
        BY <2>2
<1>9. CASE Complete(i)
    <2>1. import' = [import EXCEPT ![i] = [old EXCEPT !.phase = "applied"]]
        BY <1>9 DEF Complete
    <2>2. PICK l : import' = [import EXCEPT ![i] = l] /\ Same(l) /\ l.phase = "applied"
        BY <1>2, <2>1
    <2> QED
        BY <2>2
<1>10. CASE Skip(i)
    <2> DEFINE l == [old EXCEPT !.at = old.at + 1]
    <2>1. import' = [import EXCEPT ![i].at = @ + 1]
        BY <1>10 DEF Skip
    <2>2. import' = [import EXCEPT ![i] = l]
        BY <2>1
    <2>3. Same(l)
        BY <1>1 DEF IsImport
    <2>4. old.phase = "applying"
        BY <1>10 DEF Skip, Applying
    <2> HIDE DEF l
    <2> QED
        BY <2>2, <2>3, <2>4
<1>11. CASE Returned(i)
    <2>1. old.phase = "applying"
        <3>1. request[i] # NoRequest
            BY <1>11 DEF Returned, NoRequest
        <3> QED
            BY <3>1, ImportIs DEF Inductive
    <2>2. CASE request[i].outcome = "ok"
        <3> DEFINE l == [old EXCEPT !.at = old.at + 1, !.changed = TRUE]
        <3>1. import' = [import EXCEPT ![i] = l]
            BY <1>11, <2>2 DEF Returned
        <3>2. l.bundle = old.bundle /\ l.receipt = old.receipt
            BY <1>1 DEF IsImport
        <3> HIDE DEF l
        <3> QED
            BY <2>1, <2>2, <3>1, <3>2
    <2>3. CASE request[i].outcome # "ok"
        <3>1. import' = [import EXCEPT ![i] = [old EXCEPT !.phase = "failed"]]
            BY <1>11, <2>3 DEF Returned
        <3>2. PICK l : import' = [import EXCEPT ![i] = l] /\ Same(l) /\ l.phase = "failed"
            BY <1>2, <3>1
        <3> QED
            BY <3>2
    <2> QED
        BY <2>2, <2>3
<1> QED
    BY <1>3, <1>4, <1>5, <1>6, <1>7, <1>8, <1>9, <1>10, <1>11 DEF ImportStep

(* An import that has asked for nothing.                                     *)
LEMMA NothingPending ==
    ASSUME NEW m
    PROVE  Pending(m, NoRequest)
    BY DEF Pending, NoRequest

(* A step of an import.                                                      *)
LEMMA ImportReceipts ==
    ASSUME Inductive, ReceiptsInv, Steady, NEW i \in Importers, ImportStep(i)
    PROVE  ReceiptsInv'
<1>1. Drawn(import[i]) /\ Pending(import[i], request[i])
    BY DEF ReceiptsInv
<1>2. ASSUME \A j \in Importers : j # i =>
                import'[j] = import[j] /\ request'[j] = request[j],
             Drawn(import[i])' /\ Pending(import[i], request[i])'
      PROVE  ReceiptsInv'
    <2> SUFFICES ASSUME NEW j \in Importers
                 PROVE  Drawn(import[j])' /\ Pending(import[j], request[j])'
        BY DEF ReceiptsInv
    <2>1. CASE j = i
        BY <1>2, <2>1
    <2>2. CASE j # i
        <3>1. PICK l : l = import'[j]
            OBVIOUS
        <3>2. PICK q : q = request'[j]
            OBVIOUS
        <3>3. l = import[j] /\ q = request[j]
            BY <1>2, <2>2, <3>1, <3>2
        <3>4. Drawn(l)' /\ Pending(l, q)'
            BY <3>3, ReceiptStays DEF ReceiptsInv
        <3> QED
            BY <3>1, <3>2, <3>4
    <2> QED
        BY <2>1, <2>2
<1>3. CASE ApplyResource(i)
    <2>1. PICK q : q = request'[i]
        OBVIOUS
    <2>2. PICK m : m = import[i]
        OBVIOUS
    <2>3. m.at \in DOMAIN m.bundle /\ m.bundle \in Bundles
        <3>1. m.at \in DOMAIN m.bundle
            BY <1>3, <2>2 DEF ApplyResource, Applying
        <3> QED
            BY <2>2, <3>1, ImportIs, Numbered DEF Inductive, Importing
    <2>4. Pending(m, q) /\ import' = import
        BY <1>1, <1>3, <2>1, <2>2, <2>3, AskingUses DEF Inductive
    <2>5. Drawn(m)' /\ Pending(m, q)'
        BY <1>1, <2>2, <2>3, <2>4, DrawnKept, PendingKept DEF Inductive, StoreInv
    <2>6. \A j \in Importers : j # i => request'[j] = request[j]
        BY <1>3 DEF ApplyResource, Ask, Importers, Inductive, Typed
    <2> QED
        BY <1>2, <2>1, <2>2, <2>4, <2>5, <2>6
<1>4. CASE ~ApplyResource(i)
    <2>1. PICK l :
            /\ import' = [import EXCEPT ![i] = l]
            /\ \/ l.bundle = NoBundle /\ l.changed = FALSE
               \/ /\ l.bundle \in Bundles /\ l.receipt = Plan(l.bundle)
                  /\ l.changed = FALSE
               \/ /\ l.bundle = import[i].bundle /\ l.receipt = import[i].receipt
                  /\ \/ l.changed = import[i].changed
                     \/ request[i].outcome = "ok"
        BY <1>4, ImportStepIs
    <2>2. /\ import'[i] = l
          /\ \A j \in Importers : j # i => import'[j] = import[j]
        BY <2>1 DEF Inductive, ImportsInv
    <2>3. request'[i] = NoRequest /\ \A j \in Importers : j # i => request'[j] = request[j]
        <3>1. CASE Returned(i)
            BY <3>1 DEF Returned, Inductive, Typed, Importers
        <3>2. CASE ~Returned(i)
            <4>1. request' = request
                BY <1>4, <3>2 DEF ImportStep, BeginExport, List, EndExport, MakePlan,
                    BeginApply, Drift, Skip, DependencyChanged, Complete,
                    NothingAsked, vars
            <4>2. request[i] = NoRequest
                BY <1>4, <3>2, ImportIs DEF ImportStep, BeginExport, List, EndExport,
                    MakePlan, BeginApply, Drift, Skip, DependencyChanged, Complete,
                    Free, Applying, Inductive
            <4> QED
                BY <4>1, <4>2
        <3> QED
            BY <3>1, <3>2
    <2>4. Drawn(l)
        <3>1. CASE l.bundle = NoBundle /\ l.changed = FALSE
            BY <3>1 DEF Drawn, NoBundle
        <3>2. CASE /\ l.bundle \in Bundles /\ l.receipt = Plan(l.bundle)
                   /\ l.changed = FALSE
            BY <3>2, PlanSettles DEF Drawn, Inductive
        <3>3. CASE /\ l.bundle = import[i].bundle /\ l.receipt = import[i].receipt
                   /\ \/ l.changed = import[i].changed
                      \/ request[i].outcome = "ok"
            <4>1. request[i].outcome = "ok" =>
                    /\ import[i].at \in DOMAIN import[i].bundle
                    /\ Used(import[i], import[i].at)
                BY <1>1, PendingAt DEF Pending
            <4>2. \A n : Used(import[i], n) <=> Used(l, n)
                BY <3>3 DEF Used
            <4> QED
                BY <1>1, <3>3, <4>1, <4>2 DEF Drawn
        <3> QED
            BY <2>1, <3>1, <3>2, <3>3
    <2>5. Drawn(l)'
        BY <2>4, DrawnKept DEF Inductive, StoreInv
    <2>6. Pending(l, NoRequest)'
        <3>1. NoRequest.todo = <<>> /\ NoRequest.outcome = "none"
            BY DEF NoRequest
        <3> QED
            BY <3>1 DEF Pending
    <2> QED
        BY <1>2, <2>2, <2>3, <2>5, <2>6
<1> QED
    BY <1>3, <1>4

(* Always.                                                                   *)
LEMMA AlwaysReceipts == ImportSpec => []ReceiptsInv
<1>1. ImportInit => ReceiptsInv
    <2> SUFFICES ASSUME ImportInit
                 PROVE  ReceiptsInv
        OBVIOUS
    <2>1. \A i \in Importers : import[i] = NoImport /\ request[i] = NoRequest
        BY DEF ImportInit, Init, Importers
    <2>2. NoImport.bundle = NoBundle /\ NoImport.changed = FALSE
        BY DEF NoImport
    <2>3. Drawn(NoImport)
        BY <2>2 DEF Drawn, NoBundle
    <2> QED
        BY <2>1, <2>3, NothingPending DEF ReceiptsInv
<1>2. Inductive /\ ReceiptsInv /\ [ImportNext]_allVars => ReceiptsInv'
    <2> SUFFICES ASSUME Inductive, ReceiptsInv, [ImportNext]_allVars
                 PROVE  ReceiptsInv'
        OBVIOUS
    <2>1. CASE UNCHANGED allVars
        <3>1. UNCHANGED vars /\ import' = import
            BY <2>1 DEF allVars
        <3>2. Steady
            BY <3>1, QuietSteady DEF vars, LateWrite, Inductive
        <3>3. request' = request
            BY <3>1 DEF vars
        <3> SUFFICES ASSUME NEW j \in Importers
                     PROVE  Drawn(import[j])' /\ Pending(import[j], request[j])'
            BY DEF ReceiptsInv
        <3>4. PICK l : l = import[j]
            OBVIOUS
        <3>5. PICK q : q = request[j]
            OBVIOUS
        <3>6. Drawn(l)' /\ Pending(l, q)'
            BY <3>2, <3>4, <3>5, ReceiptStays DEF ReceiptsInv
        <3> QED
            BY <3>1, <3>3, <3>4, <3>5, <3>6
    <2>2. ASSUME ImportNext
          PROVE  ReceiptsInv'
        <3>1. Steady
            BY <2>2, StepsSteady
        <3>2. ASSUME NEW i \in Importers, ImportStep(i)
              PROVE  ReceiptsInv'
            BY <3>1, <3>2, ImportReceipts
        <3>3. ASSUME NEW c \in Slots, Step(c),
                     import' = [i \in Importers |-> [import[i] EXCEPT
                        !.alone = @ /\ (c = i \/ UNCHANGED <<table, secret>>)]]
              PROVE  ReceiptsInv'
            BY <3>1, <3>3, StepReceipts
        <3>4. ASSUME NEW c \in Clients, NEW op \in Operations[c], Begin(c, op),
                     UNCHANGED import
              PROVE  ReceiptsInv'
            <4> SUFFICES ASSUME NEW j \in Importers
                         PROVE  Drawn(import[j])' /\ Pending(import[j], request[j])'
                BY DEF ReceiptsInv
            <4>1. request'[j] = request[j]
                BY <3>4 DEF Begin, Importers, Inductive, Typed
            <4>2. PICK l : l = import[j]
                OBVIOUS
            <4>3. PICK q : q = request[j]
                OBVIOUS
            <4>4. Drawn(l)' /\ Pending(l, q)'
                BY <3>1, <4>2, <4>3, ReceiptStays DEF ReceiptsInv
            <4> QED
                BY <3>4, <4>1, <4>2, <4>3, <4>4
        <3> QED
            BY <2>2, <3>2, <3>3, <3>4 DEF ImportNext, ServiceStep
    <2> QED
        BY <2>1, <2>2
<1> QED
    BY <1>1, <1>2, AlwaysInductive, PTL DEF ImportSpec

-------------------------------------------------------------------------------
(* What the invariant means.                                                 *)

(* In every reachable state the table holds versions above 0, requests do    *)
(* the steps there are and imports are at a resource of their bundle.        *)
THEOREM TypesHold == ImportSpec => []TypeOK
<1>1. ASSUME Inductive
      PROVE  TypeOK
    <2>1. \A k \in DOMAIN table : table[k].version \in Nat \ {0}
        BY <1>1, Versioned DEF Inductive, StoreInv, TableInv
    <2>2. ASSUME NEW c \in Slots
          PROVE  /\ request[c].todo \in Seq(Steps)
                 /\ request[c].outcome \in Outcomes
                 /\ request[c].seen # Absent => request[c].op # NoOperation
        <3>1. RequestOK(c, request[c])
            BY <1>1 DEF Inductive, RequestsInv
        <3> QED
            BY <3>1, Todos DEF RequestOK
    <2>3. ASSUME NEW i \in Importers
          PROVE  /\ import[i].phase \in Phases
                 /\ import[i].at \in 0..(Len(import[i].bundle) + 1)
                 /\ Len(import[i].receipt) = Len(import[i].bundle)
        BY <1>1 DEF Inductive, ImportsInv, Importing
    <2> QED
        BY <1>1, <2>1, <2>2, <2>3 DEF TypeOK, Inductive, Typed
<1> QED
    BY <1>1, AlwaysInductive, PTL

(* A resource is where its external key points, and its key points there.    *)
LEMMA HomesAndPointers ==
    ASSUME TableInv, NEW kind \in Kinds
    PROVE  /\ \A p \in Pointers(kind) :
                /\ HomeKey(kind, table[p].id) \in Homes(kind)
                /\ p = ExternalKey(kind, p[3])
                /\ table[HomeKey(kind, table[p].id)].key = p[3]
           /\ \A h \in Homes(kind) :
                /\ h = HomeKey(kind, h[2])
                /\ ExternalKey(kind, table[h].key) \in Pointers(kind)
                /\ table[ExternalKey(kind, table[h].key)].id = h[2]
           /\ IsFiniteSet(Pointers(kind))
<1>1. ASSUME NEW p \in Pointers(kind)
      PROVE  /\ HomeKey(kind, table[p].id) \in Homes(kind)
             /\ p = ExternalKey(kind, p[3])
             /\ table[HomeKey(kind, table[p].id)].key = p[3]
    <2>1. p \in DOMAIN table /\ p[1] = "EXTERNAL" /\ p[2] = kind
        BY DEF Pointers, Existing
    <2> DEFINE h == HomeKey(kind, table[p].id)
    <2>2. h \in DOMAIN table /\ table[h].key = p[3] /\ p = ExternalKey(kind, p[3])
        BY <2>1, SoundPointer DEF TableInv
    <2>3. /\ h[1] = IF kind = "TRANSFORMATION" THEN "VERSION" ELSE kind
          /\ kind = "TRANSFORMATION" => h[3] = 1
        BY Homed, Keys
    <2> HIDE DEF h
    <2>4. h \in Homes(kind)
        BY <2>2, <2>3 DEF Homes, Existing
    <2> QED
        BY <2>2, <2>4 DEF h
<1>2. ASSUME NEW h \in Homes(kind)
      PROVE  /\ h = HomeKey(kind, h[2])
             /\ ExternalKey(kind, table[h].key) \in Pointers(kind)
             /\ table[ExternalKey(kind, table[h].key)].id = h[2]
    <2>1. /\ h \in DOMAIN table
          /\ h[1] = IF kind = "TRANSFORMATION" THEN "VERSION" ELSE kind
          /\ kind = "TRANSFORMATION" => h[3] = 1
        BY DEF Homes, Existing
    <2>2. h = HomeKey(kind, h[2]) /\ h[2] \in Ids
        <3>1. CASE kind = "TRANSFORMATION"
            BY <2>1, <3>1, SoundVersion DEF TableInv, HomeKey
        <3>2. CASE kind # "TRANSFORMATION"
            BY <2>1, <3>2, KindsAre, SoundResource DEF TableInv, HomeKey
        <3> QED
            BY <3>1, <3>2
    <2> DEFINE p == ExternalKey(kind, table[h].key)
    <2>3. p \in DOMAIN table /\ table[p] = Pointer(h[2])
        BY <2>1, <2>2, SoundHome DEF TableInv
    <2>4. p[1] = "EXTERNAL" /\ p[2] = kind
        BY Keys
    <2> HIDE DEF p
    <2>5. p \in Pointers(kind)
        BY <2>3, <2>4 DEF Pointers, Existing
    <2>6. table[p].id = h[2]
        BY <2>3 DEF Pointer
    <2> QED
        BY <2>2, <2>5, <2>6 DEF p
<1>3. IsFiniteSet(Pointers(kind))
    <2>1. Pointers(kind) \subseteq DOMAIN table
        BY DEF Pointers, Existing
    <2> QED
        BY <2>1, FS_Subset DEF TableInv, Sound
<1> QED
    BY <1>1, <1>2, <1>3

(* External keys and resources are as many.                                  *)
LEMMA OneToOne ==
    ASSUME TableInv, NEW kind \in Kinds
    PROVE  Cardinality(Pointers(kind)) = Cardinality(Homes(kind))
<1> DEFINE P == Pointers(kind)
           H == Homes(kind)
           f == [p \in P |-> HomeKey(kind, table[p].id)]
<1>1. f \in [P -> H]
    BY HomesAndPointers
<1>2. ASSUME NEW p \in P, NEW q \in P, f[p] = f[q]
      PROVE  p = q
    <2>1. p = ExternalKey(kind, p[3]) /\ q = ExternalKey(kind, q[3])
        BY HomesAndPointers
    <2>2. table[f[p]].key = p[3] /\ table[f[q]].key = q[3]
        BY HomesAndPointers
    <2>3. p[3] = q[3]
        BY <1>2, <2>2
    <2> HIDE DEF f
    <2> QED
        BY <2>1, <2>3
<1>3. ASSUME NEW h \in H
      PROVE  \E p \in P : f[p] = h
    <2> DEFINE p == ExternalKey(kind, table[h].key)
    <2>1. p \in P /\ table[p].id = h[2] /\ h = HomeKey(kind, h[2])
        BY HomesAndPointers
    <2> HIDE DEF p
    <2>2. f[p] = h
        BY <2>1
    <2> QED
        BY <2>1, <2>2
<1>4. IsFiniteSet(P)
    BY HomesAndPointers
<1> HIDE DEF f, P, H
<1>5. f \in Bijection(P, H)
    BY <1>1, <1>2, <1>3 DEF Bijection, Injection, Surjection, IsInjective
<1>6. ExistsBijection(P, H)
    BY <1>5 DEF ExistsBijection
<1>7. Cardinality(P) = Cardinality(H)
    BY <1>4, <1>6, FS_Bijection
<1> QED
    BY <1>7 DEF P, H

(* However requests, imports, errors and lagging reads interleave, a         *)
(* resource's external key and its item, and a subscription's route and its  *)
(* catalogue entry, are always there together and agree.                     *)
THEOREM ViewsAlwaysAgree == ImportSpec => []ViewsAgree
<1>1. ASSUME Inductive
      PROVE  ViewsAgree
    <2>1. TableInv
        BY <1>1 DEF Inductive, StoreInv
    <2>2. ASSUME NEW kind \in Kinds
          PROVE  {<<k[3], table[k].id>> : k \in Pointers(kind)}
                    = {<<table[k].key, k[2]>> : k \in Homes(kind)}
        <3>1. ASSUME NEW p \in Pointers(kind)
              PROVE  \E h \in Homes(kind) :
                        <<p[3], table[p].id>> = <<table[h].key, h[2]>>
            <4> DEFINE h == HomeKey(kind, table[p].id)
            <4>1. h \in Homes(kind) /\ table[h].key = p[3]
                BY <2>1, HomesAndPointers
            <4>2. h[2] = table[p].id
                BY Homed
            <4> HIDE DEF h
            <4> QED
                BY <4>1, <4>2
        <3>2. ASSUME NEW h \in Homes(kind)
              PROVE  \E p \in Pointers(kind) :
                        <<p[3], table[p].id>> = <<table[h].key, h[2]>>
            <4> DEFINE p == ExternalKey(kind, table[h].key)
            <4>1. p \in Pointers(kind) /\ table[p].id = h[2]
                BY <2>1, HomesAndPointers
            <4>2. p[3] = table[h].key
                BY Keys
            <4> HIDE DEF p
            <4> QED
                BY <4>1, <4>2
        <3> QED
            BY <3>1, <3>2
    <2>3. \A kind \in Kinds : Cardinality(Pointers(kind)) = Cardinality(Homes(kind))
        BY <2>1, OneToOne
    <2>4. ASSUME NEW k \in Existing("EVENT_TYPE")
          PROVE  /\ k = RouteKey(table[k])
                 /\ \E l \in Existing("SUBSCRIPTION") : table[k] = table[l]
        <3>1. k \in DOMAIN table /\ k[1] = "EVENT_TYPE"
            BY DEF Existing
        <3>2. /\ k = RouteKey(table[k])
              /\ CatalogKey(table[k].id) \in DOMAIN table
              /\ table[CatalogKey(table[k].id)] = table[k]
            BY <2>1, <3>1, SoundRoute DEF TableInv
        <3>3. CatalogKey(table[k].id) \in Existing("SUBSCRIPTION")
            BY <3>2, Keys DEF Existing
        <3> QED
            BY <3>2, <3>3
    <2>5. ASSUME NEW l \in Existing("SUBSCRIPTION")
          PROVE  \E k \in Existing("EVENT_TYPE") : table[k] = table[l]
        <3>1. l \in DOMAIN table /\ l[1] = "SUBSCRIPTION"
            BY DEF Existing
        <3>2. RouteKey(table[l]) \in DOMAIN table /\ table[RouteKey(table[l])] = table[l]
            BY <2>1, <3>1, SoundCatalog DEF TableInv
        <3>3. RouteKey(table[l]) \in Existing("EVENT_TYPE")
            BY <3>2, Keys DEF Existing
        <3> QED
            BY <3>2, <3>3
    <2>6. {table[k] : k \in Existing("EVENT_TYPE")}
            = {table[k] : k \in Existing("SUBSCRIPTION")}
        BY <2>4, <2>5
    <2> QED
        BY <2>2, <2>3, <2>4, <2>6 DEF ViewsAgree
<1> QED
    BY <1>1, AlwaysInductive, PTL

(* Every accepted change is audited, and but for changes built on a lagging  *)
(* read no audit event is without a version of its own.                      *)
THEOREM ChangesAreAudited == ImportSpec => []AuditTrail
<1>1. ASSUME Inductive
      PROVE  AuditTrail
    <2>1. LateWrite => hosted
        BY <1>1 DEF Inductive, RequestsInv, RequestOK, LateWrite
    <2>2. ASSUME NEW k \in DOMAIN table, k[1] \in Resources
          PROVE  /\ audits[k[2]] >= table[k].version
                 /\ ~hosted => audits[k[2]] = table[k].version
        <3>1. /\ table[k].version <= audits[k[2]]
              /\ ~LateWrite => table[k].version = audits[k[2]]
            BY <1>1, <2>2 DEF Inductive, StoreInv, AuditInv
        <3>2. table[k].version \in Nat
            BY <1>1, Versioned DEF Inductive, StoreInv, TableInv
        <3>3. audits[k[2]] \in Nat
            BY <1>1, <2>2, SoundResource
               DEF Inductive, StoreInv, TableInv, Typed
        <3> QED
            BY <2>1, <3>1, <3>2, <3>3
    <2> QED
        BY <2>2 DEF AuditTrail, Resources
<1> QED
    BY <1>1, AlwaysInductive, PTL

(* What any step may do to an item.                                          *)
LEMMA StepsReplace ==
    ASSUME Inductive, [ImportNext]_allVars
    PROVE  Replaces /\ Resumed
<1>1. CASE table' = table
    BY <1>1 DEF Replaces, Resumed
<1>2. CASE table' # table
    <2>1. PICK c \in Slots : Write(c)
        BY <1>2 DEF ImportNext, ServiceStep, Step, Begin, Read, AuditRotation,
                    StoreSecret, Abandon, ImportStep, BeginExport, List, EndExport,
                    MakePlan, BeginApply, Drift, Skip, ApplyResource,
                    DependencyChanged, Returned, Complete, NothingAsked, vars,
                    allVars, store
    <2>2. UNCHANGED store \/ \E i : Accomplishes(i)
        BY <2>1, WriteDoes DEF Inductive
    <2> QED
        BY <1>2, <2>2 DEF store, Accomplishes
<1> QED
    BY <1>1, <1>2

(* No update is lost but to a lagging read: what replaces an item is its     *)
(* next version, and a transformation version is never replaced.             *)
THEOREM NoUpdateLost == ImportSpec => VersionsAdvance
<1>1. ASSUME Inductive, [ImportNext]_allVars
      PROVE  \A k \in DOMAIN table \cap DOMAIN table' :
                table'[k] # table[k] =>
                    \/ k[1] \notin {"EXTERNAL", "VERSION"}
                       /\ table'[k].version = table[k].version + 1
                    \/ LateWrite'
    BY <1>1, StepsReplace DEF Replaces
<1> QED
    BY <1>1, AlwaysInductive, PTL DEF ImportSpec, VersionsAdvance

(* Enabling a destination and asking for its deliveries to be resumed are    *)
(* one transaction.                                                          *)
THEOREM EnablingResumes == ImportSpec => ResumeRequested
<1>1. ASSUME Inductive, [ImportNext]_allVars
      PROVE  \A k \in DOMAIN table \cap DOMAIN table' :
                k[1] = "DESTINATION" /\ ~table[k].enabled /\ table'[k].enabled =>
                    resumes'[k[2]] = resumes[k[2]] + 1 \/ LateWrite'
    BY <1>1, StepsReplace DEF Resumed
<1> QED
    BY <1>1, AlwaysInductive, PTL DEF ImportSpec, ResumeRequested

(* A receipt is spent by the first change made with it, however others       *)
(* change the configuration back and forth: no resource it is about is ever  *)
(* again what it was, unless it is gone.                                     *)
THEOREM ReceiptsAreSpent == ImportSpec => ReceiptSpent
<1>1. ASSUME Inductive, ReceiptsInv, [ImportNext]_allVars, NEW i \in Importers,
             import[i].phase # "applying", import'[i].phase = "applying",
             import[i].changed
      PROVE  \E n \in DOMAIN import[i].bundle : Current(import[i].bundle[n]) = Absent
    <2> DEFINE m == import[i]
    <2>1. IsImport(m) /\ Importing(m) /\ Drawn(m)
        BY <1>1, ImportIs DEF Inductive, Importing, ReceiptsInv
    <2>2. BeginApply(i)
        <3>1. import' # import /\ import'[i] # import[i]
            BY <1>1
        <3>2. ASSUME NEW c, import' = [j \in Importers |-> [import[j] EXCEPT
                        !.alone = @ /\ (c = j \/ UNCHANGED <<table, secret>>)]]
              PROVE  FALSE
            <4>1. \E a : import'[i] = [import[i] EXCEPT !.alone = a]
                BY <3>2
            <4>2. import'[i].phase = import[i].phase
                BY <2>1, <4>1 DEF IsImport
            <4> QED
                BY <1>1, <4>2
        <3>3. PICK j \in Importers : ImportStep(j)
            BY <1>1, <3>1, <3>2 DEF ImportNext, ServiceStep, allVars
        <3>4. ~ApplyResource(j)
            BY <3>1 DEF ApplyResource
        <3>5. PICK l : /\ import' = [import EXCEPT ![j] = l]
                       /\ import[j].phase # "applying" /\ l.phase = "applying" =>
                            BeginApply(j)
            BY <1>1, <3>3, <3>4, ImportStepIs
        <3>6. i = j /\ import'[i] = l
            BY <1>1, <3>1, <3>5 DEF Inductive, ImportsInv
        <3> QED
            BY <1>1, <3>5, <3>6
    <2>3. m.receipt = Plan(m.bundle)
        BY <2>2 DEF BeginApply
    <2>4. PICK n \in DOMAIN m.bundle : Used(m, n)
        BY <1>1, <2>1 DEF Drawn
    <2>5. m.bundle[n].type \in {"partner", "transformation", "destination", "subscription"}
        BY <2>1, <2>4, Numbered DEF Importing
    <2>6. m.receipt[n].target = Current(m.bundle[n])
        BY <2>3, <2>4 DEF Plan, Fingerprint
    <2> DEFINE r == m.bundle[n]
               t == Current(r)
    <2> HIDE DEF m
    <2>7. SpentOn(r.type, t)
        BY <2>4, <2>6 DEF Used
    <2> HIDE DEF r
    <2>8. ASSUME t # Absent
          PROVE  FALSE
        <3>1. /\ r.type # "transformation"
              /\ Target(r.type, t) \in DOMAIN table =>
                    t.version < table[Target(r.type, t)].version
            BY <2>7, <2>8 DEF SpentOn
        <3>2. /\ Target(r.type, t) \in DOMAIN table
              /\ t = table[Target(r.type, t)]
            BY <1>1, <2>5, <2>8, <3>1, CurrentIs DEF r, Inductive, StoreInv
        <3> DEFINE k == Target(r.type, t)
        <3> HIDE DEF k, t
        <3>3. table[k].version \in Nat
            BY <1>1, <3>2, Gets DEF Inductive, StoreInv, k
        <3> QED
            BY <3>1, <3>2, <3>3 DEF k
    <2> QED
        BY <2>4, <2>8 DEF r, m
<1>2. Inductive /\ ReceiptsInv /\ [ImportNext]_allVars =>
        \A i \in Importers :
            /\ import[i].phase # "applying"
            /\ import'[i].phase = "applying"
            /\ import[i].changed
            => \E n \in DOMAIN import[i].bundle : Current(import[i].bundle[n]) = Absent
    BY <1>1
<1> QED
    BY <1>2, AlwaysInductive, AlwaysReceipts, PTL DEF ImportSpec, ReceiptSpent

-------------------------------------------------------------------------------
(* The versions of a transformation.  They go back to the first one without  *)
(* a gap and all have its key.                                               *)

VersionsInv ==
    \A k \in DOMAIN table : k[1] = "VERSION" =>
        \A n \in 1..k[3] : /\ VersionKey(k[2], n) \in DOMAIN table
                           /\ table[VersionKey(k[2], n)].key = table[k].key

(* The key of an entry of a transaction.                                     *)
LEMMA PutKeys ==
    ASSUME NEW key, NEW item, NEW allowed
    PROVE  /\ Put(key, item, allowed).key = key
           /\ PutNew(key, item).key = key
           /\ Delete(key).key = key /\ DeleteAny(key).key = key
    BY DEF Put, PutNew, Delete, DeleteAny

(* A write puts a first version, or the next one of what it has seen.        *)
LEMMA VersionPuts ==
    ASSUME NEW r, NEW i, Proper(r.op), NEW w \in Writes(r, i), w.key[1] = "VERSION"
    PROVE  \/ w.key = VersionKey(i, 1)
           \/ /\ r.op.name = "createTransformationVersion"
              /\ w.key = VersionKey(r.op.id, Updated(r).version)
<1>1. /\ PartnerKey(i)[1] # "VERSION" /\ DestinationKey(i)[1] # "VERSION"
      /\ \A j : CatalogKey(j)[1] # "VERSION"
      /\ \A kind, key : ExternalKey(kind, key)[1] # "VERSION"
      /\ \A s : RouteKey(s)[1] # "VERSION"
      /\ ItemKey(r.op)[1] # "VERSION"
    BY Keys, ItemKeys DEF Resources
<1>2. ASSUME NEW kind, NEW key, NEW item, w \in CreateWrites(kind, key, i, item)
      PROVE  w.key = key
    <2>1. w = PutNew(key, item) \/ w = PutNew(ExternalKey(kind, item.key), Pointer(i))
        BY <1>2 DEF CreateWrites
    <2>2. w.key = key \/ w.key = ExternalKey(kind, item.key)
        BY <2>1, PutKeys
    <2> QED
        BY <1>1, <2>2
<1>3. CASE r.op.name \in {"createPartner", "createDestination", "createTransformation"}
    <2>1. CASE r.op.name = "createPartner"
        <3>1. w \in CreateWrites("PARTNER", PartnerKey(i), i, Created(r, i))
            BY <2>1, WritesAre
        <3> QED
            BY <1>1, <1>2, <3>1
    <2>2. CASE r.op.name = "createDestination"
        <3>1. w \in CreateWrites("DESTINATION", DestinationKey(i), i, Created(r, i))
            BY <2>2, WritesAre
        <3> QED
            BY <1>1, <1>2, <3>1
    <2>3. CASE r.op.name = "createTransformation"
        <3>1. w \in CreateWrites("TRANSFORMATION", VersionKey(i, 1), i, Created(r, i))
            BY <2>3, WritesAre
        <3> QED
            BY <1>2, <3>1
    <2> QED
        BY <1>3, <2>1, <2>2, <2>3
<1>4. CASE r.op.name = "createSubscription"
    <2> DEFINE s == Created(r, i)
    <2>1. w = PutNew(RouteKey(s), s)
            \/ w \in CreateWrites("SUBSCRIPTION", CatalogKey(s.id), s.id, s)
        BY <1>4, WritesAre DEF CreateSubscription
    <2>2. w \in {PutNew(RouteKey(s), s), PutNew(CatalogKey(s.id), s),
                  PutNew(ExternalKey("SUBSCRIPTION", s.key), Pointer(s.id))}
        BY <2>1 DEF CreateWrites
    <2>3. w.key \in {RouteKey(s), CatalogKey(s.id), ExternalKey("SUBSCRIPTION", s.key)}
        BY <2>2, PutKeys
    <2> QED
        BY <1>1, <2>3
<1>5. CASE r.op.name = "createTransformationVersion"
    <2>1. w = PutNew(VersionKey(r.op.id, Updated(r).version), Updated(r))
        BY <1>5, WritesAre
    <2> QED
        BY <1>5, <2>1, PutKeys
<1>6. CASE r.op.name \in {"updatePartner", "updateDestination"}
    <2>1. w = Put(ItemKey(r.op), Updated(r), {r.expected})
        BY <1>6, WritesAre
    <2> QED
        BY <1>1, <2>1, PutKeys
<1>7. CASE r.op.name = "updateSubscription"
    <2> DEFINE s == Updated(r)
    <2>1. w \in {Put(RouteKey(s), s, {r.expected}), Put(CatalogKey(s.id), s, {r.expected})}
        BY <1>7, WritesAre DEF UpdateSubscription
    <2>2. w.key \in {RouteKey(s), CatalogKey(s.id)}
        BY <2>1, PutKeys
    <2> QED
        BY <1>1, <2>2
<1>8. CASE r.op.name = "deleteSubscription"
    <2> DEFINE s == r.seen
    <2>1. w \in {Delete(RouteKey(s)), Delete(CatalogKey(s.id)),
                 DeleteAny(ExternalKey("SUBSCRIPTION", s.key))}
        BY <1>8, WritesAre DEF DeleteSubscription
    <2>2. w.key \in {RouteKey(s), CatalogKey(s.id), ExternalKey("SUBSCRIPTION", s.key)}
        BY <2>1, PutKeys
    <2> QED
        BY <1>1, <2>2
<1> QED
    BY <1>3, <1>4, <1>5, <1>6, <1>7, <1>8 DEF Proper, Names, Creations, Updates

(* A new version is a first one, or comes after one that is there.           *)
LEMMA NewVersion ==
    ASSUME Inductive, NEW c \in Slots, Write(c),
           NEW k \in DOMAIN table', k \notin DOMAIN table, k[1] = "VERSION"
    PROVE  \/ k[3] = 1
           \/ \E v \in DOMAIN table : /\ v[1] = "VERSION" /\ v[2] = k[2]
                                      /\ k[3] = v[3] + 1
                                      /\ table'[k].key = table[v].key
<1> DEFINE r == request[c]
<1>1. PICK i : Apply(Writes(r, i))
    <2>1. ~UNCHANGED store
        BY DEF store
    <2> QED
        BY <2>1 DEF Write
<1>2. UnderWay(r) /\ Past(r)
    <2>1. RequestOK(c, r) /\ r.todo # <<>> /\ Head(r.todo) = "write"
        BY DEF Inductive, RequestsInv, Write, Doing
    <2>2. r.todo = <<"write">>
        BY <2>1, Todos DEF RequestOK
    <2> QED
        BY <2>1, <2>2 DEF RequestOK, Past
<1>3. Proper(r.op) /\ (r.op.name = "createTransformationVersion" => VersionOK(r))
    BY <1>2 DEF UnderWay
<1> DEFINE W == Writes(r, i)
<1> HIDE DEF r
<1>4. \E w \in W : w.key = k
    BY <1>1 DEF Apply
<1>5. k = VersionKey(i, 1) \/ /\ r.op.name = "createTransformationVersion"
                              /\ k = VersionKey(r.op.id, Updated(r).version)
    BY <1>3, <1>4, VersionPuts
<1>6. CASE k = VersionKey(i, 1)
    BY <1>6, Keys
<1>7. CASE /\ r.op.name = "createTransformationVersion"
           /\ k = VersionKey(r.op.id, Updated(r).version)
    <2> DEFINE v == VersionKey(r.op.id, r.seen.version)
    <2>1. /\ IsResource(r.seen, r.op.id) /\ v \in DOMAIN table /\ table[v] = r.seen
        BY <1>2, <1>3, <1>7 DEF VersionOK
    <2>2. /\ Updated(r).version = r.seen.version + 1 /\ Updated(r).key = r.seen.key
        BY <1>3, <1>7, <2>1, UpdatedItem DEF Proper
    <2>3. table'[k] = Updated(r)
        <3>1. W = {PutNew(k, Updated(r))}
            BY <1>7, WritesAre
        <3>2. PutNew(k, Updated(r)).key = k /\ PutNew(k, Updated(r)).item = Updated(r)
            BY DEF PutNew, Put
        <3>3. Apply(W)
            BY <1>1
        <3>4. \A u, w \in W : u.key = w.key => u = w
            BY <3>1
        <3> HIDE DEF W
        <3>5. Updated(r) # Absent
            BY <1>3, <1>7, <2>1, UpdatedItem DEF Proper
        <3> QED
            BY <3>1, <3>2, <3>3, <3>4, <3>5, Applied
    <2>4. v[1] = "VERSION" /\ v[2] = r.op.id /\ v[3] = r.seen.version
        BY Keys
    <2>5. k[2] = r.op.id /\ k[3] = Updated(r).version
        BY <1>7, Keys
    <2> HIDE DEF v
    <2> QED
        BY <2>1, <2>2, <2>3, <2>4, <2>5
<1> QED
    BY <1>5, <1>6, <1>7

(* What is in the table of versions stays.                                   *)
LEMMA VersionsStay ==
    ASSUME Inductive, [ImportNext]_allVars, NEW k \in DOMAIN table, k[1] = "VERSION"
    PROVE  k \in DOMAIN table' /\ table'[k] = table[k]
<1>1. CASE ImportNext
    BY <1>1, StepsSteady DEF Steady
<1>2. CASE UNCHANGED allVars
    BY <1>2 DEF allVars, vars, store
<1> QED
    BY <1>1, <1>2

(* Only a write changes the table.                                           *)
LEMMA OnlyWrites ==
    ASSUME [ImportNext]_allVars, table' # table
    PROVE  \E c \in Slots : Write(c)
    BY DEF ImportNext, ServiceStep, Step, Begin, Read, AuditRotation,
           StoreSecret, Abandon, ImportStep, BeginExport, List, EndExport,
           MakePlan, BeginApply, Drift, Skip, ApplyResource,
           DependencyChanged, Returned, Complete, NothingAsked, vars,
           allVars, store

(* Always.                                                                   *)
LEMMA AlwaysVersions == ImportSpec => []VersionsInv
<1>1. ImportInit => VersionsInv
    <2> SUFFICES ASSUME ImportInit, NEW k \in DOMAIN table, k[1] = "VERSION",
                        NEW n \in 1..k[3]
                 PROVE  /\ VersionKey(k[2], n) \in DOMAIN table
                        /\ table[VersionKey(k[2], n)].key = table[k].key
        BY DEF VersionsInv
    <2>1. table = Initial /\ Sound(table)
        BY InitialAssumption DEF ImportInit, Init
    <2>2. k = VersionKey(k[2], k[3]) /\ k[3] = table[k].version
        BY <2>1, SoundVersion
    <2>3. k[3] = 1
        BY <2>1, <2>2, InitialAssumption
    <2>4. n = k[3]
        BY <2>3
    <2> QED
        BY <2>2, <2>4
<1>2. Inductive /\ VersionsInv /\ [ImportNext]_allVars => VersionsInv'
    <2> SUFFICES ASSUME Inductive, VersionsInv, [ImportNext]_allVars,
                        NEW k \in DOMAIN table', k[1] = "VERSION", NEW n \in 1..k[3]
                 PROVE  /\ VersionKey(k[2], n) \in DOMAIN table'
                        /\ table'[VersionKey(k[2], n)].key = table'[k].key
        BY DEF VersionsInv
    <2>1. \A l \in DOMAIN table : l[1] = "VERSION" =>
            l \in DOMAIN table' /\ table'[l] = table[l]
        BY VersionsStay
    <2>2. ASSUME NEW v \in DOMAIN table, v[1] = "VERSION", v[2] = k[2],
                 table[v].key = table'[k].key, n \in 1..v[3]
          PROVE  /\ VersionKey(k[2], n) \in DOMAIN table'
                 /\ table'[VersionKey(k[2], n)].key = table'[k].key
        <3>1. /\ VersionKey(v[2], n) \in DOMAIN table
              /\ table[VersionKey(v[2], n)].key = table[v].key
            BY <2>2 DEF VersionsInv
        <3>2. VersionKey(v[2], n)[1] = "VERSION"
            BY Keys
        <3> QED
            BY <2>1, <2>2, <3>1, <3>2
    <2>3. CASE k \in DOMAIN table
        BY <2>1, <2>2, <2>3
    <2>4. CASE k \notin DOMAIN table
        <3>1. TableInv' /\ TableInv
            BY NextInductive DEF Inductive, StoreInv
        <3>2. k = VersionKey(k[2], k[3]) /\ k[3] \in Nat
            BY <3>1, SoundVersion DEF TableInv
        <3>3. PICK c \in Slots : Write(c)
            BY <2>4, OnlyWrites
        <3>4. CASE n = k[3]
            BY <3>2, <3>4
        <3>5. CASE n # k[3]
            <4>1. k[3] # 1
                BY <3>5
            <4>2. PICK v \in DOMAIN table : /\ v[1] = "VERSION" /\ v[2] = k[2]
                                            /\ k[3] = v[3] + 1
                                            /\ table'[k].key = table[v].key
                BY <2>4, <3>3, <4>1, NewVersion
            <4>3. v[3] \in Nat
                BY <3>1, <4>2, SoundVersion DEF TableInv
            <4>4. n \in 1..v[3]
                BY <3>2, <3>5, <4>2, <4>3
            <4> QED
                BY <2>2, <4>2, <4>4
        <3> QED
            BY <3>4, <3>5
    <2> QED
        BY <2>3, <2>4
<1> QED
    BY <1>1, <1>2, AlwaysInductive, PTL DEF ImportSpec

-------------------------------------------------------------------------------
(* Exports.  While nobody interferes the lists are what is there; a version  *)
(* that a listed destination names is listed, for versions stay.             *)

Snapshot(n) == {table[k] : k \in Existing(Listed[n])}
ListsOK(m) ==
    /\ \E S : m.lists \in Seq(S)
    /\ Len(m.lists) <= 4
    /\ \A n \in DOMAIN m.lists : IsFiniteSet(m.lists[n])
    /\ m.alone => \A n \in DOMAIN m.lists : m.lists[n] = Snapshot(n)
    /\ m.sound =>
        /\ 2 \in DOMAIN m.lists
        /\ \A d \in m.lists[2] :
            VersionKey(d.transformation, d.active) \in DOMAIN table
        /\ 4 \in DOMAIN m.lists => \A d \in m.lists[2] : \E v \in m.lists[4] :
            v.id = d.transformation /\ v.version = d.active
    /\ 4 \in DOMAIN m.lists =>
        \A v, w \in m.lists[4] : v.id = w.id => v.key = w.key
    /\ m.phase = "exported" => Len(m.lists) = 4 /\ Representable(m.lists)
ExportOK(m) ==
    /\ {"phase", "lists", "sound", "alone"} \subseteq DOMAIN m
    /\ m.phase \in {"listing", "exported"} => ListsOK(m)
ExportsInv == \A i \in Importers : ExportOK(import[i])

(* Appending to a sequence.                                                  *)
LEMMA Appended ==
    ASSUME NEW S, NEW L \in Seq(S), NEW x
    PROVE  /\ Append(L, x) \in Seq(S \cup {x})
           /\ Len(L) \in Nat /\ DOMAIN L = 1..Len(L)
           /\ Len(Append(L, x)) = Len(L) + 1
           /\ DOMAIN Append(L, x) = 1..(Len(L) + 1)
           /\ Append(L, x)[Len(L) + 1] = x
           /\ \A n \in 1..Len(L) : Append(L, x)[n] = L[n]
<1>1. L \in Seq(S \cup {x}) /\ x \in S \cup {x}
    OBVIOUS
<1> QED
    BY <1>1

(* The image of a finite set.                                                *)
LEMMA ImageFinite ==
    ASSUME NEW S, IsFiniteSet(S), NEW f
    PROVE  IsFiniteSet({f[x] : x \in S})
<1> DEFINE T == {f[x] : x \in S}
           g == [x \in S |-> f[x]]
<1>1. g \in [S -> T] /\ \A t \in T : \E x \in S : g[x] = t
    <2>1. \A x \in S : f[x] \in T /\ g[x] = f[x]
        OBVIOUS
    <2>2. \A t \in T : \E x \in S : f[x] = t
        OBVIOUS
    <2>3. g = [x \in S |-> g[x]]
        OBVIOUS
    <2> HIDE DEF g, T
    <2> QED
        BY <2>1, <2>2, <2>3
<1>3. g \in Surjection(S, T)
    <2> HIDE DEF g, T
    <2> QED
        BY <1>1 DEF Surjection
<1> HIDE DEF g, T
<1>2. IsFiniteSet(T)
    BY <1>3, FS_Surjection
<1> QED
    BY <1>2 DEF T

Sequence(s) == \E S : s \in Seq(S)

(* SetToSeq enumerates a finite set.                                         *)
LEMMA Enumerated ==
    ASSUME NEW S, IsFiniteSet(S)
    PROVE  /\ Sequence(SetToSeq(S))
           /\ Range(SetToSeq(S)) = S
<1> DEFINE n == Cardinality(S)
           f == SetToSeq(S)
<1>1. n \in Nat /\ ExistsBijection(1..n, S)
    BY FS_CardinalityType
<1>2. \E g \in [1..n -> S] : IsInjective(g)
    BY <1>1 DEF ExistsBijection, Bijection, Injection
<1>3. f \in [1..n -> S] /\ IsInjective(f)
    BY <1>2 DEF SetToSeq
<1> HIDE DEF f
<1>4. f \in Injection(1..n, S)
    BY <1>3 DEF Injection
<1>5. Cardinality(1..n) = Cardinality(S)
    BY <1>1, FS_Interval
<1>6. f \in Surjection(1..n, S)
    BY <1>4, <1>5, FS_Injection
<1>7. \A s \in S : \E m \in 1..n : f[m] = s
    BY <1>6 DEF Surjection
<1>8. f \in Seq(S)
    BY <1>1, <1>3
<1>9. Range(f) = S
    BY <1>3, <1>7 DEF Range
<1> QED
    BY <1>8, <1>9 DEF f, Sequence

(* What a concatenation holds.                                               *)
LEMMA Joined ==
    ASSUME NEW a, Sequence(a), NEW b, Sequence(b)
    PROVE  /\ Sequence(a \o b)
           /\ Range(a \o b) = Range(a) \cup Range(b)
<1> DEFINE c == a \o b
<1>1. PICK S : a \in Seq(S)
    BY DEF Sequence
<1>2. PICK T : b \in Seq(T)
    BY DEF Sequence
<1>3. a \in Seq(S \cup T) /\ b \in Seq(S \cup T)
    BY <1>1, <1>2
<1>4. /\ c \in Seq(S \cup T) /\ Len(c) = Len(a) + Len(b)
      /\ \A n \in 1..Len(c) : c[n] = IF n <= Len(a) THEN a[n] ELSE b[n - Len(a)]
    BY <1>3
<1>5. /\ DOMAIN a = 1..Len(a) /\ DOMAIN b = 1..Len(b) /\ DOMAIN c = 1..Len(c)
      /\ Len(a) \in Nat /\ Len(b) \in Nat
    BY <1>3, <1>4
<1> HIDE DEF c
<1>6. \A x \in Range(c) : x \in Range(a) \/ x \in Range(b)
    <2> SUFFICES ASSUME NEW n \in DOMAIN c
                 PROVE  c[n] \in Range(a) \/ c[n] \in Range(b)
        BY DEF Range
    <2>1. CASE n <= Len(a)
        <3>1. n \in DOMAIN a /\ c[n] = a[n]
            BY <1>4, <1>5, <2>1
        <3> QED
            BY <3>1 DEF Range
    <2>2. CASE ~(n <= Len(a))
        <3>1. n - Len(a) \in DOMAIN b /\ c[n] = b[n - Len(a)]
            BY <1>4, <1>5, <2>2
        <3> QED
            BY <3>1 DEF Range
    <2> QED
        BY <2>1, <2>2
<1>7. \A m \in DOMAIN a : a[m] \in Range(c)
    <2> SUFFICES ASSUME NEW m \in DOMAIN a
                 PROVE  a[m] \in Range(c)
        OBVIOUS
    <2>1. m \in DOMAIN c /\ c[m] = a[m]
        BY <1>4, <1>5
    <2> QED
        BY <2>1 DEF Range
<1>8. \A m \in DOMAIN b : b[m] \in Range(c)
    <2> SUFFICES ASSUME NEW m \in DOMAIN b
                 PROVE  b[m] \in Range(c)
        OBVIOUS
    <2>1. m + Len(a) \in DOMAIN c /\ c[m + Len(a)] = b[m]
        BY <1>4, <1>5
    <2> QED
        BY <2>1 DEF Range
<1>9. /\ \A x \in Range(a) : x \in Range(c)
      /\ \A x \in Range(b) : x \in Range(c)
    BY <1>7, <1>8 DEF Range
<1>10. Range(c) = Range(a) \cup Range(b)
    BY <1>6, <1>9
<1> QED
    BY <1>4, <1>10 DEF c, Sequence

(* The lists of an export that does not move, while others do.               *)
LEMMA ListsStay ==
    ASSUME Inductive, [ImportNext]_allVars, NEW m, ListsOK(m), NEW l,
           l.phase = m.phase, l.lists = m.lists, l.sound = m.sound,
           l.alone => m.alone /\ table' = table
    PROVE  ListsOK(l)'
<1>1. \A k \in DOMAIN table : k[1] = "VERSION" => k \in DOMAIN table'
    BY VersionsStay
<1>2. \A i, n : VersionKey(i, n)[1] = "VERSION"
    BY Keys
<1>3. l.alone => \A n : Snapshot(n)' = Snapshot(n)
    BY DEF Snapshot, Existing
<1>4. l.alone => \A n \in DOMAIN l.lists : l.lists[n] = Snapshot(n)'
    BY <1>3 DEF ListsOK
<1>5. \A d \in m.lists[2] : VersionKey(d.transformation, d.active) \in DOMAIN table =>
            VersionKey(d.transformation, d.active) \in DOMAIN table'
    BY <1>1, <1>2
<1> QED
    BY <1>4, <1>5 DEF ListsOK

(* The next list.                                                            *)
LEMMA ListsGrow ==
    ASSUME Inductive, VersionsInv, NEW m, ListsOK(m), Len(m.lists) < Len(Listed),
           NEW l, l.phase = "listing", l.alone = m.alone,
           l.lists = Append(m.lists,
                {table[k] : k \in Existing(Listed[Len(m.lists) + 1])}),
           l.sound = IF Listed[Len(m.lists) + 1] = "DESTINATION" THEN NoneDangles
                     ELSE m.sound
    PROVE  ListsOK(l)
<1> DEFINE at == Len(m.lists) + 1
           x == {table[k] : k \in Existing(Listed[at])}
<1>1. /\ Len(Listed) = 4 /\ Listed[1] = "PARTNER" /\ Listed[2] = "DESTINATION"
      /\ Listed[3] = "SUBSCRIPTION" /\ Listed[4] = "VERSION"
    BY DEF Listed
<1>2. PICK S : m.lists \in Seq(S)
    BY DEF ListsOK
<1>3. /\ l.lists \in Seq(S \cup {x})
      /\ Len(m.lists) \in Nat /\ DOMAIN m.lists = 1..Len(m.lists)
      /\ Len(l.lists) = at /\ DOMAIN l.lists = 1..at
      /\ l.lists[at] = x
      /\ \A n \in 1..Len(m.lists) : l.lists[n] = m.lists[n]
    BY <1>2, Appended
<1>4. x = Snapshot(at)
    BY DEF Snapshot
<1>5. at \in 1..4
    BY <1>1, <1>3
<1>6. TableInv
    BY DEF Inductive, StoreInv
<1>7. IsFiniteSet(x)
    <2>1. IsFiniteSet(Existing(Listed[at]))
        BY <1>6, FS_Subset DEF TableInv, Sound, Existing
    <2> QED
        BY <2>1, ImageFinite
<1>8. at = 2 => \A d \in x : NoneDangles =>
            VersionKey(d.transformation, d.active) \in DOMAIN table
    BY <1>1 DEF NoneDangles
<1>9. at = 4 => \A d \in m.lists[2] :
            VersionKey(d.transformation, d.active) \in DOMAIN table =>
                \E v \in x : v.id = d.transformation /\ v.version = d.active
    <2> SUFFICES ASSUME at = 4, NEW d \in m.lists[2],
                        VersionKey(d.transformation, d.active) \in DOMAIN table
                 PROVE  \E v \in x : v.id = d.transformation /\ v.version = d.active
        OBVIOUS
    <2> DEFINE k == VersionKey(d.transformation, d.active)
    <2>1. k[1] = "VERSION" /\ k[2] = d.transformation /\ k[3] = d.active
        BY Keys
    <2>2. k \in DOMAIN table
        OBVIOUS
    <2> HIDE DEF k
    <2>3. table[k] \in x
        BY <1>1, <2>1, <2>2 DEF Existing
    <2>4. table[k].id = k[2] /\ table[k].version = k[3]
        BY <1>6, <2>1, <2>2, SoundVersion DEF TableInv, IsResource
    <2> QED
        BY <2>1, <2>3, <2>4
<1>10. at = 4 => \A v, w \in x : v.id = w.id => v.key = w.key
    <2> SUFFICES ASSUME at = 4, NEW v \in x, NEW w \in x, v.id = w.id
                 PROVE  v.key = w.key
        OBVIOUS
    <2>1. PICK a \in DOMAIN table : a[1] = "VERSION" /\ v = table[a]
        BY <1>1 DEF Existing
    <2>2. PICK b \in DOMAIN table : b[1] = "VERSION" /\ w = table[b]
        BY <1>1 DEF Existing
    <2>3. /\ a[2] = v.id /\ b[2] = w.id /\ 1 \in 1..a[3] /\ 1 \in 1..b[3]
        BY <1>6, <2>1, <2>2, SoundVersion DEF TableInv, IsResource
    <2>4. /\ table[VersionKey(a[2], 1)].key = v.key
          /\ table[VersionKey(b[2], 1)].key = w.key
        BY <2>1, <2>2, <2>3 DEF VersionsInv
    <2> QED
        BY <2>3, <2>4
<1> HIDE DEF at, x
<1>11. \A n \in DOMAIN l.lists : n # at =>
            n \in DOMAIN m.lists /\ l.lists[n] = m.lists[n]
    <2> SUFFICES ASSUME NEW n \in DOMAIN l.lists, n # at
                 PROVE  n \in DOMAIN m.lists /\ l.lists[n] = m.lists[n]
        OBVIOUS
    <2>1. n \in 1..at
        BY <1>3
    <2>2. n \in 1..Len(m.lists)
        BY <1>3, <2>1 DEF at
    <2>3. l.lists[n] = m.lists[n]
        BY <1>3, <2>2
    <2> QED
        BY <1>3, <2>2, <2>3
<1>12. \E T : l.lists \in Seq(T)
    BY <1>3
<1>13. \A n \in DOMAIN l.lists : IsFiniteSet(l.lists[n])
    BY <1>3, <1>7, <1>11 DEF ListsOK
<1>14. l.alone => \A n \in DOMAIN l.lists : l.lists[n] = Snapshot(n)
    BY <1>3, <1>4, <1>11 DEF ListsOK
<1>15. l.sound => at >= 2
    BY <1>1, <1>3, <1>5 DEF ListsOK, at
<1>16. ASSUME l.sound
       PROVE  /\ 2 \in DOMAIN l.lists
              /\ \A d \in l.lists[2] :
                    VersionKey(d.transformation, d.active) \in DOMAIN table
              /\ 4 \in DOMAIN l.lists => \A d \in l.lists[2] : \E v \in l.lists[4] :
                    v.id = d.transformation /\ v.version = d.active
    <2>1. CASE at = 2
        <3>1. NoneDangles
            BY <1>1, <1>16, <2>1 DEF at
        <3> QED
            BY <1>3, <1>8, <2>1, <3>1
    <2>2. CASE at # 2
        <3>1. Listed[at] # "DESTINATION"
            BY <1>1, <1>5, <2>2
        <3>2. m.sound
            BY <1>16, <3>1 DEF at
        <3>3. /\ 2 \in DOMAIN m.lists
              /\ \A d \in m.lists[2] :
                    VersionKey(d.transformation, d.active) \in DOMAIN table
            BY <3>2 DEF ListsOK
        <3>4. 2 \in DOMAIN l.lists /\ l.lists[2] = m.lists[2]
            BY <1>3, <3>3 DEF at
        <3>5. 4 \in DOMAIN l.lists => at = 4
            BY <1>3, <1>5
        <3> QED
            BY <1>3, <1>9, <3>3, <3>4, <3>5
    <2> QED
        BY <2>1, <2>2
<1>17. 4 \in DOMAIN l.lists => \A v, w \in l.lists[4] : v.id = w.id => v.key = w.key
    <2>1. 4 \in DOMAIN l.lists => at = 4
        BY <1>3, <1>5
    <2> QED
        BY <1>3, <1>10, <2>1
<1>18. Len(l.lists) <= 4
    BY <1>3, <1>5
<1> QED
    BY <1>12, <1>13, <1>14, <1>16, <1>17, <1>18 DEF ListsOK

(* An export that does not move, while others do.                            *)
LEMMA ExportStays ==
    ASSUME Inductive, [ImportNext]_allVars, NEW m, ExportOK(m), NEW l,
           DOMAIN l = DOMAIN m,
           l.phase = m.phase, l.lists = m.lists, l.sound = m.sound,
           l.phase \in {"listing", "exported"} /\ l.alone => m.alone /\ table' = table
    PROVE  ExportOK(l)'
<1>1. ASSUME l.phase \in {"listing", "exported"}
      PROVE  ListsOK(l)'
    <2>1. ListsOK(m)
        BY <1>1 DEF ExportOK
    <2>2. l.alone => m.alone /\ table' = table
        BY <1>1
    <2> QED
        BY <2>1, <2>2, ListsStay
<1>2. {"phase", "lists", "sound", "alone"} \subseteq DOMAIN l
    BY DEF ExportOK
<1> QED
    BY <1>1, <1>2 DEF ExportOK

(* Another phase, with nothing listed.                                       *)
LEMMA NotExporting ==
    ASSUME NEW l, {"phase", "lists", "sound", "alone"} \subseteq DOMAIN l,
           l.phase \notin {"listing", "exported"}
    PROVE  ExportOK(l)
    BY DEF ExportOK

(* A step of an importer.                                                    *)
LEMMA ExporterMoves ==
    ASSUME Inductive, VersionsInv, NEW i \in Importers, ExportOK(import[i]),
           ImportStep(i), ~ApplyResource(i)
    PROVE  \E l : /\ import' = [import EXCEPT ![i] = l]
                  /\ ExportOK(l)
<1> DEFINE m == import[i]
<1>1. {"phase", "lists", "sound", "alone"} \subseteq DOMAIN m
    BY DEF ExportOK
<1>2. /\ DOMAIN NoImport = {"phase", "bundle", "receipt", "at", "plans", "alone",
                            "changed", "lists", "sound"}
      /\ NoImport.lists = <<>> /\ NoImport.sound = FALSE
    BY DEF NoImport
<1>3. CASE BeginExport(i)
    <2> DEFINE l == [NoImport EXCEPT !.phase = "listing", !.plans = m.plans + 1,
                                     !.alone = TRUE]
    <2>1. import' = [import EXCEPT ![i] = l]
        BY <1>3 DEF BeginExport
    <2>2. /\ {"phase", "lists", "sound", "alone"} \subseteq DOMAIN l
          /\ l.phase = "listing" /\ l.lists = <<>> /\ l.sound = FALSE
        BY <1>2
    <2> HIDE DEF l
    <2>3. /\ <<>> \in Seq({}) /\ Len(<<>>) = 0 /\ DOMAIN <<>> = {}
        OBVIOUS
    <2>4. ListsOK(l)
        BY <2>2, <2>3 DEF ListsOK
    <2> QED
        BY <2>1, <2>2, <2>4 DEF ExportOK
<1>4. CASE List(i)
    <2> DEFINE n == Len(m.lists) + 1
               x == {table[k] : k \in Existing(Listed[n])}
               sound == IF Listed[n] = "DESTINATION" THEN NoneDangles ELSE m.sound
               l == [m EXCEPT !.lists = Append(m.lists, x), !.sound = sound]
    <2>1. import' = [import EXCEPT ![i] = l]
        BY <1>4 DEF List, Inductive, ImportsInv
    <2>2. m.phase = "listing" /\ Len(m.lists) < Len(Listed)
        BY <1>4 DEF List
    <2>3. DOMAIN l = DOMAIN m /\ l.phase = "listing" /\ l.alone = m.alone
        BY <1>1, <2>2
    <2>4. l.lists = Append(m.lists, x) /\ l.sound = sound
        BY <1>1
    <2>5. ListsOK(m)
        BY <2>2 DEF ExportOK
    <2> HIDE DEF l, m
    <2>6. ListsOK(l)
        BY <2>2, <2>3, <2>4, <2>5, ListsGrow
    <2> QED
        BY <1>1, <2>1, <2>3, <2>6 DEF ExportOK
<1>5. CASE EndExport(i)
    <2>1. m.phase = "listing" /\ Len(m.lists) = Len(Listed) /\ Len(Listed) = 4
        BY <1>5 DEF EndExport, Listed
    <2>2. CASE Representable(m.lists)
        <3> DEFINE l == [m EXCEPT !.phase = "exported"]
        <3>1. import' = [import EXCEPT ![i] = l]
            BY <1>5, <2>2 DEF EndExport, Inductive, ImportsInv
        <3>2. /\ DOMAIN l = DOMAIN m /\ l.phase = "exported" /\ l.lists = m.lists
              /\ l.sound = m.sound /\ l.alone = m.alone
            BY <1>1
        <3>3. ListsOK(m)
            BY <2>1 DEF ExportOK
        <3> HIDE DEF l, m
        <3>4. ListsOK(l)
            BY <2>1, <2>2, <3>2, <3>3 DEF ListsOK
        <3> QED
            BY <1>1, <3>1, <3>2, <3>4 DEF ExportOK
    <2>3. CASE ~Representable(m.lists)
        <3> DEFINE l == [NoImport EXCEPT !.phase = "failed", !.plans = m.plans]
        <3>1. import' = [import EXCEPT ![i] = l]
            BY <1>5, <2>3 DEF EndExport
        <3>2. DOMAIN l = DOMAIN NoImport /\ l.phase = "failed"
            BY <1>2
        <3> HIDE DEF l
        <3> QED
            BY <1>2, <3>1, <3>2, NotExporting
    <2> QED
        BY <2>2, <2>3
<1>6. CASE MakePlan(i)
    <2>1. PICK b \in Bundles :
            import' = [import EXCEPT ![i] = [NoImport EXCEPT
                        !.phase = "planned", !.bundle = b, !.receipt = Plan(b),
                        !.plans = import[i].plans + 1]]
        BY <1>6 DEF MakePlan
    <2> DEFINE l == [NoImport EXCEPT
                        !.phase = "planned", !.bundle = b, !.receipt = Plan(b),
                        !.plans = import[i].plans + 1]
    <2>2. DOMAIN l = DOMAIN NoImport /\ l.phase = "planned"
        BY <1>2
    <2>3. import' = [import EXCEPT ![i] = l]
        BY <2>1
    <2> HIDE DEF l
    <2> QED
        BY <1>2, <2>2, <2>3, NotExporting
<1>7. CASE BeginApply(i)
    <2> DEFINE l == [m EXCEPT !.phase = "applying", !.at = 1, !.alone = TRUE]
    <2>1. import' = [import EXCEPT ![i] = l]
        BY <1>7 DEF BeginApply, Inductive, ImportsInv
    <2>2. DOMAIN l = DOMAIN m /\ l.phase = "applying"
        BY <1>1
    <2> HIDE DEF l
    <2> QED
        BY <1>1, <2>1, <2>2, NotExporting
<1>8. CASE Drift(i) \/ DependencyChanged(i)
    <2> DEFINE l == [m EXCEPT !.phase = "failed"]
    <2>1. import' = [import EXCEPT ![i] = l]
        BY <1>8 DEF Drift, DependencyChanged, Inductive, ImportsInv
    <2>2. DOMAIN l = DOMAIN m /\ l.phase = "failed"
        BY <1>1
    <2> HIDE DEF l
    <2> QED
        BY <1>1, <2>1, <2>2, NotExporting
<1>9. CASE Skip(i)
    <2> DEFINE l == [m EXCEPT !.at = m.at + 1]
    <2>1. import' = [import EXCEPT ![i] = l]
        BY <1>9 DEF Skip, Inductive, ImportsInv
    <2>2. DOMAIN l = DOMAIN m /\ l.phase = m.phase
        BY <1>1
    <2>3. m.phase = "applying"
        BY <1>9 DEF Skip, Applying
    <2> HIDE DEF l
    <2> QED
        BY <1>1, <2>1, <2>2, <2>3, NotExporting
<1>10. CASE Complete(i)
    <2> DEFINE l == [m EXCEPT !.phase = "applied"]
    <2>1. import' = [import EXCEPT ![i] = l]
        BY <1>10 DEF Complete, Inductive, ImportsInv
    <2>2. DOMAIN l = DOMAIN m /\ l.phase = "applied"
        BY <1>1
    <2> HIDE DEF l
    <2> QED
        BY <1>1, <2>1, <2>2, NotExporting
<1>11. CASE Returned(i)
    <2>1. request[i] # NoRequest
        BY <1>11 DEF Returned, NoRequest
    <2>2. m.phase = "applying"
        BY <2>1, ImportIs DEF Inductive, Busy
    <2>3. CASE request[i].outcome = "ok"
        <3> DEFINE l == [m EXCEPT !.at = m.at + 1, !.changed = TRUE]
        <3>1. import' = [import EXCEPT ![i] = l]
            BY <1>11, <2>3 DEF Returned, Inductive, ImportsInv
        <3>2. DOMAIN l = DOMAIN m /\ l.phase = m.phase
            BY <1>1
        <3> HIDE DEF l
        <3> QED
            BY <1>1, <2>2, <3>1, <3>2, NotExporting
    <2>4. CASE request[i].outcome # "ok"
        <3> DEFINE l == [m EXCEPT !.phase = "failed"]
        <3>1. import' = [import EXCEPT ![i] = l]
            BY <1>11, <2>4 DEF Returned, Inductive, ImportsInv
        <3>2. DOMAIN l = DOMAIN m /\ l.phase = "failed"
            BY <1>1
        <3> HIDE DEF l
        <3> QED
            BY <1>1, <3>1, <3>2, NotExporting
    <2> QED
        BY <2>3, <2>4
<1> QED
    BY <1>3, <1>4, <1>5, <1>6, <1>7, <1>8, <1>9, <1>10, <1>11 DEF ImportStep

(* Always.                                                                   *)
LEMMA AlwaysExports == ImportSpec => []ExportsInv
<1>1. ImportInit => ExportsInv
    <2> SUFFICES ASSUME ImportInit, NEW i \in Importers
                 PROVE  ExportOK(import[i])
        BY DEF ExportsInv
    <2>1. import[i] = NoImport
        BY DEF ImportInit
    <2>2. /\ {"phase", "lists", "sound", "alone"} \subseteq DOMAIN NoImport
          /\ NoImport.phase = "idle"
        BY DEF NoImport
    <2> QED
        BY <2>1, <2>2, NotExporting
<1>2. Inductive /\ VersionsInv /\ ExportsInv /\ [ImportNext]_allVars => ExportsInv'
    <2> SUFFICES ASSUME Inductive, VersionsInv, ExportsInv, [ImportNext]_allVars,
                        NEW j \in Importers
                 PROVE  ExportOK(import[j])'
        BY DEF ExportsInv
    <2>1. ExportOK(import[j])
        BY DEF ExportsInv
    <2>2. PICK l : l = import'[j]
        OBVIOUS
    <2>3. CASE table' = table /\ import'[j] = import[j]
        <3>1. ExportOK(l)'
            BY <2>1, <2>2, <2>3, ExportStays
        <3> QED
            BY <2>2, <3>1
    <2>4. ASSUME NEW c \in Slots, Step(c),
                 import' = [i \in Importers |-> [import[i] EXCEPT
                    !.alone = @ /\ (c = i \/ UNCHANGED <<table, secret>>)]]
          PROVE  ExportOK(import[j])'
        <3> DEFINE m == import[j]
                   a == m.alone /\ (c = j \/ UNCHANGED <<table, secret>>)
        <3>1. l = [m EXCEPT !.alone = a]
            BY <2>2, <2>4
        <3>2. {"phase", "lists", "sound", "alone"} \subseteq DOMAIN m
            BY <2>1 DEF ExportOK
        <3>3. /\ DOMAIN l = DOMAIN m /\ l.phase = m.phase /\ l.lists = m.lists
              /\ l.sound = m.sound /\ l.alone = a
            BY <3>1, <3>2
        <3>4. c = j => m.phase = "applying"
            <4>1. request[c].todo # <<>>
                BY <2>4, StepFrame DEF Inductive
            <4>2. request[c] # NoRequest
                BY <4>1 DEF NoRequest
            <4> QED
                BY <4>2, ImportIs DEF Inductive, Busy
        <3>5. l.phase \in {"listing", "exported"} /\ l.alone => m.alone /\ table' = table
            BY <3>3, <3>4
        <3> HIDE DEF a
        <3>6. ExportOK(l)'
            BY <2>1, <3>3, <3>5, ExportStays
        <3> QED
            BY <2>2, <3>6
    <2>5. ASSUME NEW i \in Importers, ImportStep(i)
          PROVE  ExportOK(import[j])'
        <3>1. table' = table
            BY <2>5 DEF ImportStep, BeginExport, List, EndExport, MakePlan,
                    BeginApply, Drift, Skip, DependencyChanged, Complete, Returned,
                    ApplyResource, NothingAsked, vars, store
        <3>2. CASE ApplyResource(i)
            BY <2>3, <3>1, <3>2 DEF ApplyResource
        <3>3. CASE ~ApplyResource(i)
            <4>1. ExportOK(import[i])
                BY DEF ExportsInv
            <4>2. PICK x : import' = [import EXCEPT ![i] = x] /\ ExportOK(x)
                BY <2>5, <3>3, <4>1, ExporterMoves
            <4>3. CASE j = i
                <5>1. l = x
                    BY <2>2, <4>2, <4>3 DEF Inductive, ImportsInv
                <5>2. ExportOK(x)'
                    BY <3>1, <4>2, ExportStays
                <5> QED
                    BY <2>2, <5>1, <5>2
            <4>4. CASE j # i
                <5>1. import'[j] = import[j]
                    BY <4>2, <4>4 DEF Inductive, ImportsInv
                <5> QED
                    BY <2>3, <3>1, <5>1
            <4> QED
                BY <4>3, <4>4
        <3> QED
            BY <3>2, <3>3
    <2>6. ASSUME NEW c \in Clients, NEW op \in Operations[c], Begin(c, op),
                 UNCHANGED import
          PROVE  ExportOK(import[j])'
        BY <2>3, <2>6 DEF Begin, store
    <2>7. CASE UNCHANGED allVars
        BY <2>3, <2>7 DEF allVars, vars, store
    <2> QED
        BY <2>4, <2>5, <2>6, <2>7 DEF ImportNext, ServiceStep
<1> QED
    BY <1>1, <1>2, AlwaysInductive, AlwaysVersions, PTL DEF ImportSpec
-------------------------------------------------------------------------------
(* The bundle of an export: a line for every item of its lists.              *)

PartnerLine(p) == Merge([type |-> "partner", key |-> p.key], PartnerConfig(p))
VersionLine(v) == [type |-> "transformation", key |-> v.key,
                   number |-> v.version, definition |-> v.definition]
DestinationLine(lists, d) ==
    [type |-> "destination", key |-> d.key,
     partner |-> KeyOf(lists, "PARTNER", d.partner),
     transformation |-> KeyOf(lists, "VERSION", d.transformation),
     active |-> d.active, enabled |-> d.enabled, alias |-> d.alias]
SubscriptionLine(lists, s) ==
    [type |-> "subscription", key |-> s.key,
     destination |-> KeyOf(lists, "DESTINATION", s.destination),
     eventType |-> s.eventType, enabled |-> s.enabled]

(* The list of a class.                                                      *)
LEMMA ItemsAre ==
    ASSUME NEW lists
    PROVE  /\ Items(lists, "PARTNER") = lists[1]
           /\ Items(lists, "DESTINATION") = lists[2]
           /\ Items(lists, "SUBSCRIPTION") = lists[3]
           /\ Items(lists, "VERSION") = lists[4]
<1>1. /\ DOMAIN Listed = 1..4 /\ Listed[1] = "PARTNER" /\ Listed[2] = "DESTINATION"
      /\ Listed[3] = "SUBSCRIPTION" /\ Listed[4] = "VERSION"
    BY DEF Listed
<1>2. \A n \in DOMAIN Listed : n = 1 \/ n = 2 \/ n = 3 \/ n = 4
    BY <1>1
<1>3. /\ \A n \in DOMAIN Listed : Listed[n] = "PARTNER" => n = 1
      /\ \A n \in DOMAIN Listed : Listed[n] = "DESTINATION" => n = 2
      /\ \A n \in DOMAIN Listed : Listed[n] = "SUBSCRIPTION" => n = 3
      /\ \A n \in DOMAIN Listed : Listed[n] = "VERSION" => n = 4
    BY <1>1, <1>2
<1>4. {1, 2, 3, 4} \subseteq DOMAIN Listed
    BY <1>1
<1>5. /\ (CHOOSE n \in DOMAIN Listed : Listed[n] = "PARTNER") = 1
      /\ (CHOOSE n \in DOMAIN Listed : Listed[n] = "DESTINATION") = 2
      /\ (CHOOSE n \in DOMAIN Listed : Listed[n] = "SUBSCRIPTION") = 3
      /\ (CHOOSE n \in DOMAIN Listed : Listed[n] = "VERSION") = 4
    BY <1>1, <1>3, <1>4
<1> QED
    BY <1>5 DEF Items

(* What a partner's line says.                                               *)
LEMMA PartnerLines ==
    ASSUME NEW p
    PROVE  /\ PartnerLine(p).type = "partner" /\ PartnerLine(p).key = p.key
           /\ PartnerConfig(PartnerLine(p)) = PartnerConfig(p)
<1> DEFINE a == [type |-> "partner", key |-> p.key]
           c == PartnerConfig(p)
           l == PartnerLine(p)
<1>1. /\ DOMAIN a = {"type", "key"} /\ a["type"] = "partner" /\ a["key"] = p.key
    OBVIOUS
<1>2. /\ DOMAIN c = DOMAIN p \cap {"name", "description"}
      /\ c = [f \in DOMAIN c |-> c[f]]
    BY DEF PartnerConfig
<1>3. l = Merge(a, c)
    BY DEF PartnerLine
<1> HIDE DEF a, c, l
<1>4. /\ DOMAIN l = DOMAIN a \cup DOMAIN c
      /\ \A f \in DOMAIN c : l[f] = c[f]
      /\ \A f \in DOMAIN a : f \notin DOMAIN c => l[f] = a[f]
    <2>1. DOMAIN Merge(a, c) = DOMAIN a \cup DOMAIN c
        BY Merged
    <2>2. \A f \in DOMAIN c : Merge(a, c)[f] = c[f]
        BY Merged
    <2>3. \A f \in DOMAIN a : f \notin DOMAIN c => Merge(a, c)[f] = a[f]
        BY Merged
    <2> QED
        BY <1>3, <2>1, <2>2, <2>3
<1>5. "type" \notin DOMAIN c /\ "key" \notin DOMAIN c
    BY <1>2
<1>6. l["type"] = "partner" /\ l["key"] = p.key
    BY <1>1, <1>4, <1>5
<1>7. DOMAIN l \cap {"name", "description"} = DOMAIN c
    BY <1>1, <1>2, <1>4
<1>8. PartnerConfig(l) = [f \in DOMAIN c |-> l[f]]
    BY <1>7 DEF PartnerConfig
<1>9. PartnerConfig(l) = c
    BY <1>2, <1>4, <1>8
<1> QED
    BY <1>6, <1>9 DEF c, l

(* The lines of an export are those of its items.                            *)
LEMMA LinesAre ==
    ASSUME NEW lists, NEW S, lists \in Seq(S), Len(lists) = 4,
           \A n \in DOMAIN lists : IsFiniteSet(lists[n])
    PROVE  Range(Exported(lists)) =
                {PartnerLine(p) : p \in lists[1]}
                \cup {VersionLine(v) : v \in lists[4]}
                \cup {DestinationLine(lists, d) : d \in lists[2]}
                \cup {SubscriptionLine(lists, s) : s \in lists[3]}
<1> DEFINE P == {PartnerLine(p) : p \in lists[1]}
           V == {VersionLine(v) : v \in lists[4]}
           D == {DestinationLine(lists, d) : d \in lists[2]}
           U == {SubscriptionLine(lists, s) : s \in lists[3]}
<1>1. /\ IsFiniteSet(lists[1]) /\ IsFiniteSet(lists[2])
      /\ IsFiniteSet(lists[3]) /\ IsFiniteSet(lists[4])
    <2>1. DOMAIN lists = 1..4
        OBVIOUS
    <2>2. 1 \in DOMAIN lists /\ 2 \in DOMAIN lists /\ 3 \in DOMAIN lists /\ 4 \in DOMAIN lists
        BY <2>1
    <2> QED
        BY <2>2
<1>2. IsFiniteSet(P)
    <2> DEFINE f == [p \in lists[1] |-> PartnerLine(p)]
    <2>1. P = {f[p] : p \in lists[1]}
        OBVIOUS
    <2> HIDE DEF f, P
    <2> QED
        BY <1>1, <2>1, ImageFinite
<1>3. IsFiniteSet(V)
    <2> DEFINE f == [v \in lists[4] |-> VersionLine(v)]
    <2>1. V = {f[v] : v \in lists[4]}
        OBVIOUS
    <2> HIDE DEF f, V
    <2> QED
        BY <1>1, <2>1, ImageFinite
<1>4. IsFiniteSet(D)
    <2> DEFINE f == [d \in lists[2] |-> DestinationLine(lists, d)]
    <2>1. D = {f[d] : d \in lists[2]}
        OBVIOUS
    <2> HIDE DEF f, D
    <2> QED
        BY <1>1, <2>1, ImageFinite
<1>5. IsFiniteSet(U)
    <2> DEFINE f == [s \in lists[3] |-> SubscriptionLine(lists, s)]
    <2>1. U = {f[s] : s \in lists[3]}
        OBVIOUS
    <2> HIDE DEF f, U
    <2> QED
        BY <1>1, <2>1, ImageFinite
<1>6. Exported(lists) = SetToSeq(P) \o SetToSeq(V) \o SetToSeq(D) \o SetToSeq(U)
    BY ItemsAre DEF Exported, PartnerLine, VersionLine, DestinationLine, SubscriptionLine
<1> HIDE DEF P, V, D, U
<1>7. /\ Sequence(SetToSeq(P)) /\ Range(SetToSeq(P)) = P
      /\ Sequence(SetToSeq(V)) /\ Range(SetToSeq(V)) = V
      /\ Sequence(SetToSeq(D)) /\ Range(SetToSeq(D)) = D
      /\ Sequence(SetToSeq(U)) /\ Range(SetToSeq(U)) = U
    BY <1>2, <1>3, <1>4, <1>5, Enumerated
<1>8. Range(Exported(lists)) = P \cup V \cup D \cup U
    BY <1>6, <1>7, Joined
<1> QED
    BY <1>8 DEF P, V, D, U

(* By their types.                                                           *)
LEMMA LinesByType ==
    ASSUME NEW lists, NEW S, lists \in Seq(S), Len(lists) = 4,
           \A n \in DOMAIN lists : IsFiniteSet(lists[n])
    PROVE  /\ OfType(Exported(lists), "partner") = {PartnerLine(p) : p \in lists[1]}
           /\ OfType(Exported(lists), "transformation") = {VersionLine(v) : v \in lists[4]}
           /\ OfType(Exported(lists), "destination") =
                {DestinationLine(lists, d) : d \in lists[2]}
           /\ OfType(Exported(lists), "subscription") =
                {SubscriptionLine(lists, s) : s \in lists[3]}
<1> DEFINE P == {PartnerLine(p) : p \in lists[1]}
           V == {VersionLine(v) : v \in lists[4]}
           D == {DestinationLine(lists, d) : d \in lists[2]}
           U == {SubscriptionLine(lists, s) : s \in lists[3]}
           b == Exported(lists)
<1>1. Range(b) = P \cup V \cup D \cup U
    BY LinesAre
<1>2. \A r \in P : r.type = "partner"
    BY PartnerLines
<1>3. \A r \in V : r.type = "transformation"
    BY DEF VersionLine
<1>4. \A r \in D : r.type = "destination"
    BY DEF DestinationLine
<1>5. \A r \in U : r.type = "subscription"
    BY DEF SubscriptionLine
<1> HIDE DEF P, V, D, U, b
<1>6. \A type : OfType(b, type) = {r \in P \cup V \cup D \cup U : r.type = type}
    BY <1>1 DEF OfType, Range
<1>7. /\ OfType(b, "partner") = P /\ OfType(b, "transformation") = V
      /\ OfType(b, "destination") = D /\ OfType(b, "subscription") = U
    BY <1>2, <1>3, <1>4, <1>5, <1>6
<1> QED
    BY <1>7 DEF P, V, D, U, b
(* A key that an export writes for an identifier.                            *)
LEMMA KeyWritten ==
    ASSUME NEW lists, NEW class, NEW i, Knows(lists, class, i)
    PROVE  \E item \in Items(lists, class) :
                item.id = i /\ KeyOf(lists, class, i) = item.key
<1> DEFINE item == CHOOSE x \in Items(lists, class) : x.id = i
<1>1. item \in Items(lists, class) /\ item.id = i
    BY DEF Knows
<1>2. KeyOf(lists, class, i) = item.key
    BY DEF KeyOf
<1> QED
    BY <1>1, <1>2

(* The bundle of an export that none of its references escaped is valid.     *)
LEMMA ExportValid ==
    ASSUME NEW m, ListsOK(m), m.phase = "exported", m.sound
    PROVE  Valid(Exported(m.lists))
<1> DEFINE L == m.lists
           b == Exported(L)
<1>1. PICK S : L \in Seq(S)
    BY DEF ListsOK
<1>2. /\ Len(L) = 4 /\ Representable(L)
      /\ \A n \in DOMAIN L : IsFiniteSet(L[n])
    BY DEF ListsOK
<1>3. 2 \in DOMAIN L /\ 4 \in DOMAIN L
    BY <1>1, <1>2
<1>4. /\ \A d \in L[2] : \E v \in L[4] :
            v.id = d.transformation /\ v.version = d.active
      /\ \A v, w \in L[4] : v.id = w.id => v.key = w.key
    BY <1>3 DEF ListsOK
<1> HIDE DEF L
<1>5. /\ OfType(b, "partner") = {PartnerLine(p) : p \in L[1]}
      /\ OfType(b, "transformation") = {VersionLine(v) : v \in L[4]}
      /\ OfType(b, "destination") = {DestinationLine(L, d) : d \in L[2]}
      /\ OfType(b, "subscription") = {SubscriptionLine(L, s) : s \in L[3]}
    BY <1>1, <1>2, LinesByType
<1>6. /\ Items(L, "PARTNER") = L[1] /\ Items(L, "DESTINATION") = L[2]
      /\ Items(L, "SUBSCRIPTION") = L[3] /\ Items(L, "VERSION") = L[4]
    BY ItemsAre
<1> HIDE DEF b
<1>7. ASSUME NEW d \in L[2]
      PROVE  Has(b, "partner", DestinationLine(L, d).partner)
    <2>1. Knows(L, "PARTNER", d.partner)
        BY <1>2, <1>6 DEF Representable
    <2>2. PICK p \in L[1] : KeyOf(L, "PARTNER", d.partner) = p.key
        BY <1>6, <2>1, KeyWritten
    <2>3. PartnerLine(p) \in OfType(b, "partner") /\ PartnerLine(p).key = p.key
        BY <1>5, PartnerLines
    <2>4. DestinationLine(L, d).partner = p.key
        BY <2>2 DEF DestinationLine
    <2> QED
        BY <2>3, <2>4 DEF Has
<1>8. ASSUME NEW d \in L[2]
      PROVE  \E t \in OfType(b, "transformation") :
                /\ t.key = DestinationLine(L, d).transformation
                /\ t.number = DestinationLine(L, d).active
    <2>1. Knows(L, "VERSION", d.transformation)
        BY <1>2, <1>6 DEF Representable
    <2>2. PICK w \in L[4] : w.id = d.transformation
                            /\ KeyOf(L, "VERSION", d.transformation) = w.key
        BY <1>6, <2>1, KeyWritten
    <2>3. PICK v \in L[4] : v.id = d.transformation /\ v.version = d.active
        BY <1>4
    <2>4. v.key = w.key
        BY <1>4, <2>2, <2>3
    <2>5. VersionLine(v) \in OfType(b, "transformation")
        BY <1>5
    <2>6. VersionLine(v).key = v.key /\ VersionLine(v).number = v.version
        BY DEF VersionLine
    <2>7. /\ DestinationLine(L, d).transformation = w.key
          /\ DestinationLine(L, d).active = d.active
        BY <2>2 DEF DestinationLine
    <2> QED
        BY <2>3, <2>4, <2>5, <2>6, <2>7
<1>9. ASSUME NEW s \in L[3]
      PROVE  Has(b, "destination", SubscriptionLine(L, s).destination)
    <2>1. Knows(L, "DESTINATION", s.destination)
        BY <1>2, <1>6 DEF Representable
    <2>2. PICK d \in L[2] : KeyOf(L, "DESTINATION", s.destination) = d.key
        BY <1>6, <2>1, KeyWritten
    <2>3. DestinationLine(L, d) \in OfType(b, "destination")
        BY <1>5
    <2>4. DestinationLine(L, d).key = d.key
        BY DEF DestinationLine
    <2>5. SubscriptionLine(L, s).destination = d.key
        BY <2>2 DEF SubscriptionLine
    <2> QED
        BY <2>3, <2>4, <2>5 DEF Has
<1>10. \A d \in OfType(b, "destination") :
            /\ Has(b, "partner", d.partner)
            /\ \E t \in OfType(b, "transformation") :
                    t.key = d.transformation /\ t.number = d.active
    BY <1>5, <1>7, <1>8
<1>11. \A s \in OfType(b, "subscription") : Has(b, "destination", s.destination)
    BY <1>5, <1>9
<1>12. Valid(b)
    BY <1>10, <1>11 DEF Valid
<1> QED
    BY <1>12 DEF b, L

-------------------------------------------------------------------------------
(* Planning an export that nobody interfered with.                           *)

(* The key of a version finds its transformation.                            *)
LEMMA VersionFinds ==
    ASSUME TableInv, VersionsInv, NEW k \in DOMAIN table, k[1] = "VERSION"
    PROVE  /\ k = VersionKey(table[k].id, table[k].version)
           /\ IdOf("TRANSFORMATION", table[k].key) = table[k].id
<1> DEFINE i == table[k].id
           h == VersionKey(i, 1)
           p == ExternalKey("TRANSFORMATION", table[k].key)
<1>1. /\ k = VersionKey(k[2], k[3]) /\ k[2] \in Ids /\ k[3] \in Nat \ {0}
      /\ k[3] = table[k].version /\ k[2] = i
    BY SoundVersion DEF TableInv, IsResource
<1>2. 1 \in 1..k[3]
    BY <1>1
<1>3. h \in DOMAIN table /\ table[h].key = table[k].key
    BY <1>1, <1>2 DEF VersionsInv
<1>4. "TRANSFORMATION" \in Kinds /\ HomeKey("TRANSFORMATION", i) = h
    BY DEF Kinds, HomeKey
<1> HIDE DEF h
<1>5. p \in DOMAIN table /\ table[p] = Pointer(i)
    BY <1>1, <1>3, <1>4, SoundHome DEF TableInv
<1> HIDE DEF p
<1>6. Get(p) = Pointer(i) /\ Get(p) # Absent
    BY <1>5, Gets
<1>7. Pointer(i).id = i
    BY DEF Pointer
<1>8. IdOf("TRANSFORMATION", table[k].key) = i
    BY <1>6, <1>7 DEF IdOf, p
<1> QED
    BY <1>1, <1>8

(* The key of a listed resource finds it.                                    *)
LEMMA ResourceFinds ==
    ASSUME TableInv, NEW class \in Resources, NEW k \in Existing(class)
    PROVE  /\ k = <<class, table[k].id>>
           /\ IdOf(class, table[k].key) = table[k].id
           /\ Get(<<class, IdOf(class, table[k].key)>>) = table[k]
           /\ table[k] # Absent
<1>1. k \in DOMAIN table /\ k[1] = class
    BY DEF Existing
<1>2. k = <<class, k[2]>> /\ table[k].id = k[2]
    BY <1>1, SoundResource DEF TableInv, IsResource
<1>3. IdOf(class, table[k].key) = k[2]
    BY <1>1, <1>2, KeyFinds
<1>4. Get(k) = table[k] /\ table[k] # Absent
    BY <1>1, Gets
<1> QED
    BY <1>2, <1>3, <1>4

(* The line of a partner that is there is unchanged.                         *)
LEMMA PartnerUnchanged ==
    ASSUME TableInv, NEW k \in Existing("PARTNER")
    PROVE  PartnerAction(PartnerLine(table[k])) = "UNCHANGED"
<1> DEFINE p == table[k]
           r == PartnerLine(p)
<1>1. "PARTNER" \in Resources
    BY DEF Resources
<1>2. /\ Get(<<"PARTNER", IdOf("PARTNER", p.key)>>) = p
      /\ p # Absent
    BY <1>1, ResourceFinds
<1>3. r.type = "partner" /\ r.key = p.key /\ PartnerConfig(r) = PartnerConfig(p)
    BY PartnerLines
<1> HIDE DEF p, r
<1>4. Current(r) = p
    BY <1>2, <1>3 DEF Current, CurrentPartner, PartnerKey
<1>5. PartnerAction(r) = "UNCHANGED"
    BY <1>2, <1>3, <1>4 DEF PartnerAction
<1> QED
    BY <1>5 DEF p, r

(* So is a version's line.                                                   *)
LEMMA VersionUnchanged ==
    ASSUME TableInv, VersionsInv, NEW k \in Existing("VERSION")
    PROVE  TransformationAction(VersionLine(table[k])) = "UNCHANGED"
<1> DEFINE v == table[k]
           r == VersionLine(v)
<1>1. k \in DOMAIN table /\ k[1] = "VERSION"
    BY DEF Existing
<1>2. k = VersionKey(v.id, v.version) /\ IdOf("TRANSFORMATION", v.key) = v.id
    BY <1>1, VersionFinds
<1>3. /\ r.type = "transformation" /\ r.key = v.key /\ r.number = v.version
      /\ r.definition = v.definition
    BY DEF VersionLine
<1>4. Get(k) = v /\ v # Absent
    BY <1>1, Gets
<1> HIDE DEF v, r
<1>5. Current(r) = v
    BY <1>2, <1>3, <1>4 DEF Current, CurrentVersion
<1>6. TransformationAction(r) = "UNCHANGED"
    BY <1>3, <1>4, <1>5 DEF TransformationAction
<1> QED
    BY <1>6 DEF v, r

(* A destination whose partner and transformation are listed.                *)
LEMMA DestinationUnchanged ==
    ASSUME TableInv, VersionsInv, NEW k \in Existing("DESTINATION"), NEW lists, NEW b,
           Items(lists, "PARTNER") = {table[j] : j \in Existing("PARTNER")},
           Items(lists, "VERSION") = {table[j] : j \in Existing("VERSION")},
           Knows(lists, "PARTNER", table[k].partner),
           Knows(lists, "VERSION", table[k].transformation)
    PROVE  DestinationAction(b, DestinationLine(lists, table[k])) \in {"UNCHANGED", "BLOCKED"}
<1> DEFINE d == table[k]
           r == DestinationLine(lists, d)
<1>1. {"PARTNER", "DESTINATION"} \subseteq Resources
    BY DEF Resources
<1>2. /\ Get(<<"DESTINATION", IdOf("DESTINATION", d.key)>>) = d
      /\ d # Absent
    BY <1>1, ResourceFinds
<1>3. IdOf("PARTNER", KeyOf(lists, "PARTNER", d.partner)) = d.partner
    <2>1. PICK p \in Items(lists, "PARTNER") :
            p.id = d.partner /\ KeyOf(lists, "PARTNER", d.partner) = p.key
        BY KeyWritten
    <2>2. PICK j \in Existing("PARTNER") : p = table[j]
        OBVIOUS
    <2>3. IdOf("PARTNER", table[j].key) = table[j].id
        BY <1>1, ResourceFinds
    <2> QED
        BY <2>1, <2>2, <2>3
<1>4. IdOf("TRANSFORMATION", KeyOf(lists, "VERSION", d.transformation)) = d.transformation
    <2>1. PICK v \in Items(lists, "VERSION") :
            v.id = d.transformation /\ KeyOf(lists, "VERSION", d.transformation) = v.key
        BY KeyWritten
    <2>2. PICK j \in Existing("VERSION") : v = table[j]
        OBVIOUS
    <2>3. IdOf("TRANSFORMATION", table[j].key) = table[j].id
        BY VersionFinds DEF Existing
    <2> QED
        BY <2>1, <2>2, <2>3
<1>5. /\ r.type = "destination" /\ r.key = d.key
      /\ r.partner = KeyOf(lists, "PARTNER", d.partner)
      /\ r.transformation = KeyOf(lists, "VERSION", d.transformation)
      /\ r.active = d.active /\ r.enabled = d.enabled /\ r.alias = d.alias
    BY DEF DestinationLine
<1> HIDE DEF d, r
<1>6. Current(r) = d
    BY <1>2, <1>5 DEF Current, CurrentDestination, DestinationKey
<1>7. IdOf("PARTNER", r.partner) \in {NoId, d.partner}
    BY <1>3, <1>5
<1>8. SameDestination(r, d)
    BY <1>4, <1>5 DEF SameDestination
<1>9. DestinationAction(b, r) \in {"UNCHANGED", "BLOCKED"}
    BY <1>2, <1>6, <1>7, <1>8 DEF DestinationAction
<1> QED
    BY <1>9 DEF d, r

(* A subscription whose destination is listed.                               *)
LEMMA SubscriptionUnchanged ==
    ASSUME TableInv, NEW k \in Existing("SUBSCRIPTION"), NEW lists, NEW b,
           Items(lists, "DESTINATION") = {table[j] : j \in Existing("DESTINATION")},
           Knows(lists, "DESTINATION", table[k].destination)
    PROVE  SubscriptionAction(b, SubscriptionLine(lists, table[k])) \in {"UNCHANGED", "BLOCKED"}
<1> DEFINE s == table[k]
           r == SubscriptionLine(lists, s)
<1>1. {"DESTINATION", "SUBSCRIPTION"} \subseteq Resources
    BY DEF Resources
<1>2. /\ Get(<<"SUBSCRIPTION", IdOf("SUBSCRIPTION", s.key)>>) = s
      /\ s # Absent
    BY <1>1, ResourceFinds
<1>3. IdOf("DESTINATION", KeyOf(lists, "DESTINATION", s.destination)) = s.destination
    <2>1. PICK d \in Items(lists, "DESTINATION") :
            d.id = s.destination /\ KeyOf(lists, "DESTINATION", s.destination) = d.key
        BY KeyWritten
    <2>2. PICK j \in Existing("DESTINATION") : d = table[j]
        OBVIOUS
    <2>3. IdOf("DESTINATION", table[j].key) = table[j].id
        BY <1>1, ResourceFinds
    <2> QED
        BY <2>1, <2>2, <2>3
<1>4. /\ r.type = "subscription" /\ r.key = s.key
      /\ r.destination = KeyOf(lists, "DESTINATION", s.destination)
      /\ r.eventType = s.eventType /\ r.enabled = s.enabled
    BY DEF SubscriptionLine
<1> HIDE DEF s, r
<1>5. Current(r) = s
    BY <1>2, <1>4 DEF Current, CurrentSubscription, CatalogKey
<1>6. IdOf("DESTINATION", r.destination) \in {NoId, s.destination}
    BY <1>3, <1>4
<1>7. SubscriptionAction(b, r) \in {"UNCHANGED", "BLOCKED"}
    BY <1>2, <1>4, <1>5, <1>6 DEF SubscriptionAction
<1> QED
    BY <1>7 DEF s, r

(* Nothing to do but for what is blocked.                                    *)
LEMMA ExportUnchanged ==
    ASSUME TableInv, VersionsInv, NEW m, ListsOK(m), m.phase = "exported", m.alone,
           NEW n \in DOMAIN Exported(m.lists)
    PROVE  Action(Exported(m.lists), Exported(m.lists)[n]) \in {"UNCHANGED", "BLOCKED"}
<1> DEFINE L == m.lists
           b == Exported(L)
           r == b[n]
<1>1. PICK S : L \in Seq(S)
    BY DEF ListsOK
<1>2. /\ Len(L) = 4 /\ Representable(L)
      /\ \A at \in DOMAIN L : IsFiniteSet(L[at])
      /\ \A at \in DOMAIN L : L[at] = Snapshot(at)
    BY DEF ListsOK
<1>3. 1 \in DOMAIN L /\ 2 \in DOMAIN L /\ 3 \in DOMAIN L /\ 4 \in DOMAIN L
    <2>1. DOMAIN L = 1..4
        BY <1>1, <1>2
    <2> QED
        BY <2>1
<1>4. /\ L[1] = {table[k] : k \in Existing("PARTNER")}
      /\ L[2] = {table[k] : k \in Existing("DESTINATION")}
      /\ L[3] = {table[k] : k \in Existing("SUBSCRIPTION")}
      /\ L[4] = {table[k] : k \in Existing("VERSION")}
    BY <1>2, <1>3 DEF Snapshot, Listed
<1> HIDE DEF L
<1>5. Range(b) = {PartnerLine(p) : p \in L[1]} \cup {VersionLine(v) : v \in L[4]}
                    \cup {DestinationLine(L, d) : d \in L[2]}
                    \cup {SubscriptionLine(L, s) : s \in L[3]}
    BY <1>1, <1>2, LinesAre
<1>6. /\ Items(L, "PARTNER") = L[1] /\ Items(L, "DESTINATION") = L[2]
      /\ Items(L, "SUBSCRIPTION") = L[3] /\ Items(L, "VERSION") = L[4]
    BY ItemsAre
<1>7. r \in Range(b)
    BY DEF Range, L
<1> HIDE DEF b, r
<1>8. \/ \E p \in L[1] : r = PartnerLine(p)
      \/ \E v \in L[4] : r = VersionLine(v)
      \/ \E d \in L[2] : r = DestinationLine(L, d)
      \/ \E s \in L[3] : r = SubscriptionLine(L, s)
    BY <1>5, <1>7
<1>9. ASSUME NEW p \in L[1], r = PartnerLine(p)
      PROVE  Action(b, r) \in {"UNCHANGED", "BLOCKED"}
    <2>1. PICK k \in Existing("PARTNER") : p = table[k]
        BY <1>4
    <2>2. PartnerAction(r) = "UNCHANGED" /\ r.type = "partner"
        BY <1>9, <2>1, PartnerUnchanged, PartnerLines
    <2> QED
        BY <2>2 DEF Action
<1>10. ASSUME NEW v \in L[4], r = VersionLine(v)
       PROVE  Action(b, r) \in {"UNCHANGED", "BLOCKED"}
    <2>1. PICK k \in Existing("VERSION") : v = table[k]
        BY <1>4
    <2>2. TransformationAction(r) = "UNCHANGED"
        BY <1>10, <2>1, VersionUnchanged
    <2>3. r.type = "transformation"
        BY <1>10 DEF VersionLine
    <2> QED
        BY <2>2, <2>3 DEF Action
<1>11. ASSUME NEW d \in L[2], r = DestinationLine(L, d)
       PROVE  Action(b, r) \in {"UNCHANGED", "BLOCKED"}
    <2>1. PICK k \in Existing("DESTINATION") : d = table[k]
        BY <1>4
    <2>2. /\ Knows(L, "PARTNER", d.partner)
          /\ Knows(L, "VERSION", d.transformation)
        BY <1>2, <1>6 DEF Representable
    <2>3. DestinationAction(b, r) \in {"UNCHANGED", "BLOCKED"}
        BY <1>4, <1>6, <1>11, <2>1, <2>2, DestinationUnchanged
    <2>4. r.type = "destination"
        BY <1>11 DEF DestinationLine
    <2> QED
        BY <2>3, <2>4 DEF Action
<1>12. ASSUME NEW s \in L[3], r = SubscriptionLine(L, s)
       PROVE  Action(b, r) \in {"UNCHANGED", "BLOCKED"}
    <2>1. PICK k \in Existing("SUBSCRIPTION") : s = table[k]
        BY <1>4
    <2>2. Knows(L, "DESTINATION", s.destination)
        BY <1>2, <1>6 DEF Representable
    <2>3. SubscriptionAction(b, r) \in {"UNCHANGED", "BLOCKED"}
        BY <1>4, <1>6, <1>12, <2>1, <2>2, SubscriptionUnchanged
    <2>4. r.type = "subscription"
        BY <1>12 DEF SubscriptionLine
    <2> QED
        BY <2>3, <2>4 DEF Action
<1>13. Action(b, r) \in {"UNCHANGED", "BLOCKED"}
    BY <1>8, <1>9, <1>10, <1>11, <1>12
<1> QED
    BY <1>13 DEF b, r, L

(* The bundle an export ends with is one an import accepts, and planning it  *)
(* when nobody interfered finds nothing to create or to update.              *)
THEOREM ExportsRoundTrip == ImportSpec => []ExportRoundTrips
<1>1. Inductive /\ VersionsInv /\ ExportsInv => ExportRoundTrips
    <2> SUFFICES ASSUME Inductive, VersionsInv, ExportsInv, NEW i \in Importers,
                        import[i].phase = "exported", import[i].sound
                 PROVE  LET b == Exported(import[i].lists)
                        IN  /\ Valid(b)
                            /\ import[i].alone => \A n \in DOMAIN b :
                                    Action(b, b[n]) \in {"UNCHANGED", "BLOCKED"}
        BY DEF ExportRoundTrips
    <2>1. ListsOK(import[i]) /\ TableInv
        BY DEF ExportsInv, ExportOK, Inductive, StoreInv
    <2>2. Valid(Exported(import[i].lists))
        BY <2>1, ExportValid
    <2>3. import[i].alone => \A n \in DOMAIN Exported(import[i].lists) :
            Action(Exported(import[i].lists), Exported(import[i].lists)[n])
                \in {"UNCHANGED", "BLOCKED"}
        BY <2>1, ExportUnchanged
    <2> QED
        BY <2>2, <2>3
<1> QED
    BY <1>1, AlwaysInductive, AlwaysVersions, AlwaysExports, PTL

-------------------------------------------------------------------------------
(* Imports nobody interferes with.  What is so of a resource of the bundle   *)
(* that the receipt does not want, or that has had its turn.                 *)

Wants(m, n) == m.receipt[n].action \in {"CREATE", "UPDATE"}
Hopeless(m, n) ==
    /\ m.receipt[n].action \in {"BLOCKED", "CONFLICT"}
    /\ DestinationAction(m.bundle, m.bundle[n]) \in {"BLOCKED", "CONFLICT"}

PartnerReached(r) ==
    /\ Current(r) # Absent
    /\ PartnerConfig(Current(r)) = PartnerConfig(r) \/ KeepsDescription(r)
DestinationReached(m, n) ==
    LET r == m.bundle[n]
    IN  \/ Hopeless(m, n)
        \/ /\ m.receipt[n].action \notin {"BLOCKED", "CONFLICT"}
           /\ Current(r) # Absent
           /\ \/ /\ SameDestination(r, Current(r))
                 /\ \/ m.receipt[n].action = "UNCHANGED"
                    \/ IdOf("TRANSFORMATION", r.transformation) # NoId
              \/ KeepsTransformation(m, n)
SubscriptionReached(m, n) ==
    LET r == m.bundle[n]
        s == Current(r)
    IN  \/ \E d \in DOMAIN m.bundle :
            /\ m.bundle[d].type = "destination" /\ m.bundle[d].key = r.destination
            /\ Hopeless(m, d)
        \/ /\ s # Absent
           /\ \/ IdOf("DESTINATION", r.destination) \notin {NoId, s.destination}
              \/ s.eventType # r.eventType
              \/ s.enabled = r.enabled
Attained(m, n) ==
    LET r == m.bundle[n]
    IN  /\ r.type = "partner" => PartnerReached(r)
        /\ r.type = "transformation" => Current(r) # Absent
        /\ r.type = "destination" => DestinationReached(m, n)
        /\ r.type = "subscription" => SubscriptionReached(m, n)

(* What was there when the receipt was drawn.                                *)
Present(m, n) ==
    m.bundle[n].type \in {"partner", "transformation"} /\ m.receipt[n].action # "CREATE" =>
        Current(m.bundle[n]) # Absent

(* A request of the import is about what is there.                           *)
Asked(m, q) ==
    LET r == m.bundle[m.at]
    IN  /\ m.at \in DOMAIN m.bundle /\ Wants(m, m.at) /\ Resolved(r)
        /\ q.todo \in {<<"read", "write">>, <<"write">>}
        /\ \/ q.op = CreateOperation(r) /\ (r.type # "partner" => Found(r) = Absent)
           \/ q.op = UpdateOperation(r) /\ q.seen = Found(r) /\ Found(r) # Absent

Undisturbed(m) == m.phase \in {"applying", "applied"} /\ m.alone /\ Gapless(m.bundle)
Converging(m, q) ==
    Undisturbed(m) =>
        /\ m.at >= 1
        /\ m.phase = "applied" => m.at \notin DOMAIN m.bundle
        /\ \A n \in DOMAIN m.bundle :
            /\ Present(m, n)
            /\ ~Wants(m, n) \/ n < m.at \/ (n = m.at /\ q.outcome = "ok") =>
                Attained(m, n)
        /\ q.todo # <<>> => Asked(m, q)
ConvergesInv == \A i \in Importers : Converging(import[i], request[i])

-------------------------------------------------------------------------------
(* What an import's own writes leave.                                        *)

(* All that was there is there still, as it was but for one resource.        *)
Grown(key) ==
    /\ secret' = secret
    /\ \A k \in DOMAIN table :
        /\ k \in DOMAIN table'
        /\ k[1] # "EVENT_TYPE" /\ k # key => table'[k] = table[k]

(* A key finds what it found.                                                *)
LEMMA IdStays ==
    ASSUME TableInv, TableInv', NEW key, key[1] \in Resources, Grown(key),
           NEW kind, NEW x, IdOf(kind, x) # NoId
    PROVE  IdOf(kind, x)' = IdOf(kind, x)
<1> DEFINE p == ExternalKey(kind, x)
<1>1. Get(p) # Absent
    BY DEF IdOf
<1>2. p \in DOMAIN table /\ Get(p) = table[p]
    BY <1>1, Gets
<1>3. p[1] = "EXTERNAL" /\ p # key
    BY Keys DEF Resources
<1> HIDE DEF p
<1>4. p \in DOMAIN table' /\ table'[p] = table[p]
    BY <1>2, <1>3 DEF Grown
<1>5. Get(p)' = Get(p)
    BY <1>2, <1>4 DEF Get
<1> QED
    BY <1>5 DEF IdOf, p

(* A version that is there.                                                  *)
LEMMA CurrentVersionIs ==
    ASSUME TableInv, NEW r, r.type = "transformation"
    PROVE  LET k == VersionKey(IdOf("TRANSFORMATION", r.key), r.number)
           IN  /\ Current(r) # Absent <=> k \in DOMAIN table
               /\ Current(r) # Absent => /\ Current(r) = table[k]
                                         /\ IdOf("TRANSFORMATION", r.key) # NoId
<1> DEFINE k == VersionKey(IdOf("TRANSFORMATION", r.key), r.number)
<1>1. Current(r) = Get(k)
    BY DEF Current, CurrentVersion
<1>2. k[1] = "VERSION" /\ k[2] = IdOf("TRANSFORMATION", r.key)
    BY Keys
<1> HIDE DEF k
<1>3. k \in DOMAIN table => k[2] \in Ids
    BY <1>2, SoundVersion DEF TableInv
<1>4. k \in DOMAIN table => IdOf("TRANSFORMATION", r.key) # NoId
    BY <1>2, <1>3, Constants
<1> QED
    BY <1>1, <1>4, Gets DEF k

(* Where a resource that is no version is.                                   *)
Place(r) == <<ClassOf(r.type), IdOf(ClassOf(r.type), r.key)>>

(* What is there of it.                                                      *)
LEMMA CurrentPlace ==
    ASSUME TableInv, NEW r, r.type \in {"partner", "destination", "subscription"}
    PROVE  /\ Current(r) = Get(Place(r))
           /\ Current(r) # Absent =>
                /\ Place(r) \in DOMAIN table /\ Current(r) = table[Place(r)]
                /\ table[Place(r)].key = r.key
                /\ IdOf(ClassOf(r.type), r.key) # NoId
           /\ ClassOf(r.type) \in Resources
           /\ Place(r)[1] = ClassOf(r.type)
<1>1. Current(r) = Get(Place(r))
    BY DEF Current, CurrentPartner, CurrentDestination, CurrentSubscription, ClassOf,
           PartnerKey, DestinationKey, CatalogKey, Place
<1>2. ClassOf(r.type) \in Resources /\ Place(r)[1] = ClassOf(r.type)
      /\ Place(r)[2] = IdOf(ClassOf(r.type), r.key)
    BY Targets DEF Place
<1>3. ASSUME Current(r) # Absent
      PROVE  /\ Place(r) \in DOMAIN table /\ Current(r) = table[Place(r)]
             /\ table[Place(r)].key = r.key
             /\ IdOf(ClassOf(r.type), r.key) # NoId
    <2>1. Place(r) \in DOMAIN table /\ Current(r) = table[Place(r)]
        BY <1>1, <1>3, Gets
    <2>2. table[Place(r)].key = r.key
        BY <1>1, <1>2, <1>3, Resolves DEF Place
    <2>3. Place(r)[2] \in Ids
        BY <1>2, <2>1, SoundResource DEF TableInv
    <2> QED
        BY <1>2, <2>1, <2>2, <2>3, Constants
<1> QED
    BY <1>1, <1>2, <1>3

(* What is there stays there, and of another resource as it was.             *)
LEMMA CurrentStays ==
    ASSUME TableInv, TableInv', NEW key, key[1] \in Resources, Grown(key), NEW r,
           r.type \in {"partner", "transformation", "destination", "subscription"},
           Current(r) # Absent
    PROVE  /\ Current(r)' # Absent
           /\ r.type = "transformation" \/ Place(r) # key => Current(r)' = Current(r)
<1>1. CASE r.type = "transformation"
    <2> PICK k : k = VersionKey(IdOf("TRANSFORMATION", r.key), r.number)
        OBVIOUS
    <2>1. /\ k \in DOMAIN table /\ Current(r) = table[k]
          /\ IdOf("TRANSFORMATION", r.key) # NoId
        BY <1>1, CurrentVersionIs
    <2>2. IdOf("TRANSFORMATION", r.key)' = IdOf("TRANSFORMATION", r.key)
        BY <2>1, IdStays
    <2>3. k[1] = "VERSION" /\ k # key
        BY Keys DEF Resources
    <2>4. Current(r)' = Get(k)'
        BY <1>1, <2>2 DEF Current, CurrentVersion
    <2>5. k \in DOMAIN table' /\ table'[k] = table[k]
        BY <2>1, <2>3 DEF Grown
    <2>6. Current(r)' = table[k]
        BY <2>4, <2>5 DEF Get
    <2> QED
        BY <2>1, <2>6
<1>2. CASE r.type # "transformation"
    <2> PICK k : k = Place(r)
        OBVIOUS
    <2>1. /\ k \in DOMAIN table /\ Current(r) = table[k]
          /\ IdOf(ClassOf(r.type), r.key) # NoId
          /\ k[1] \in Resources
        BY <1>2, CurrentPlace
    <2>2. IdOf(ClassOf(r.type), r.key)' = IdOf(ClassOf(r.type), r.key)
        BY <2>1, IdStays
    <2>3. Place(r)' = k
        BY <2>2 DEF Place
    <2>4. Current(r)' = Get(Place(r))'
        BY <1>2 DEF Current, CurrentPartner, CurrentDestination, CurrentSubscription, ClassOf,
           PartnerKey, DestinationKey, CatalogKey, Place
    <2>5. Current(r)' = Get(k)'
        BY <2>3, <2>4
    <2>6. k \in DOMAIN table' /\ (k # key => table'[k] = table[k])
        BY <2>1 DEF Grown, Resources
    <2>7. Get(k)' # Absent
        <3>1. Get(k)' = table'[k]
            BY <2>6 DEF Get
        <3>2. table'[k].version \in Nat \ {0}
            BY <2>6, Versioned DEF TableInv
        <3>3. Absent.version = 0
            BY DEF Absent
        <3> QED
            BY <3>1, <3>2, <3>3
    <2>8. k # key => Get(k)' = table[k]
        BY <2>6 DEF Get
    <2> QED
        BY <1>2, <2>1, <2>5, <2>7, <2>8
<1> QED
    BY <1>1, <1>2

(* What no import of the bundle can create or change.                        *)
Barred(b, r) ==
    \/ \E t \in OfType(b, "transformation") :
        /\ t.key = r.transformation /\ t.number = r.active
        /\ TransformationAction(t) = "CONFLICT"
    \/ r.enabled /\ secret[r.alias] = 0
    \/ Current(r) # Absent /\ IdOf("PARTNER", r.partner) \notin {NoId, Current(r).partner}

(* It is what the plan calls blocked or in conflict.                         *)
LEMMA HopelessIs ==
    ASSUME NEW b, NEW r
    PROVE  DestinationAction(b, r) \in {"BLOCKED", "CONFLICT"} <=> Barred(b, r)
    BY DEF DestinationAction, Barred

(* A conflict stays one.                                                     *)
LEMMA ConflictStays ==
    ASSUME TableInv, TableInv', NEW key, key[1] \in Resources, Grown(key), NEW r,
           r.type = "transformation", TransformationAction(r) = "CONFLICT"
    PROVE  TransformationAction(r)' = "CONFLICT"
<1>1. Current(r) # Absent /\ Current(r).definition # r.definition
    BY DEF TransformationAction
<1>2. Current(r)' = Current(r)
    BY <1>1, CurrentStays
<1> QED
    BY <1>1, <1>2 DEF TransformationAction, Absent

(* What is barred stays so.                                                  *)
LEMMA BarredStays ==
    ASSUME TableInv, TableInv', NEW key, key[1] \in Resources, Grown(key), NEW b, NEW r,
           r.type = "destination", Barred(b, r),
           Current(r) # Absent => Place(r) # key
    PROVE  Barred(b, r)'
<1>1. CASE \E t \in OfType(b, "transformation") :
            /\ t.key = r.transformation /\ t.number = r.active
            /\ TransformationAction(t) = "CONFLICT"
    <2> PICK t \in OfType(b, "transformation") :
            /\ t.key = r.transformation /\ t.number = r.active
            /\ TransformationAction(t) = "CONFLICT"
        BY <1>1
    <2>1. t.type = "transformation"
        BY DEF OfType
    <2>2. TransformationAction(t)' = "CONFLICT"
        BY <2>1, ConflictStays
    <2> QED
        BY <2>2 DEF Barred
<1>2. CASE r.enabled /\ secret[r.alias] = 0
    BY <1>2 DEF Grown, Barred
<1>3. CASE Current(r) # Absent /\ IdOf("PARTNER", r.partner) \notin {NoId, Current(r).partner}
    <2>1. Current(r)' = Current(r) /\ Current(r)' # Absent
        BY <1>3, CurrentStays
    <2>2. IdOf("PARTNER", r.partner)' = IdOf("PARTNER", r.partner)
        BY <1>3, IdStays
    <2> QED
        BY <1>3, <2>1, <2>2 DEF Barred
<1> QED
    BY <1>1, <1>2, <1>3 DEF Barred

-------------------------------------------------------------------------------
(* What a write leaves attained.                                             *)

(* It changes none of the other resources of the bundle.                     *)
Spares(m, key, n) ==
    \A k \in DOMAIN m.bundle :
        /\ m.bundle[k].type # "transformation"
        /\ k = n \/ ~Wants(m, k)
        /\ Current(m.bundle[k]) # Absent
        => Place(m.bundle[k]) # key

(* A resource the import can do nothing for.                                 *)
LEMMA HopelessStays ==
    ASSUME TableInv, TableInv', NEW key, key[1] \in Resources, Grown(key),
           NEW m, NEW n, Spares(m, key, n),
           NEW d \in DOMAIN m.bundle, m.bundle[d].type = "destination", Hopeless(m, d)
    PROVE  Hopeless(m, d)'
<1>1. Barred(m.bundle, m.bundle[d]) /\ m.receipt[d].action \in {"BLOCKED", "CONFLICT"}
    BY HopelessIs DEF Hopeless
<1>2. ~Wants(m, d)
    BY <1>1 DEF Wants
<1>3. Current(m.bundle[d]) # Absent => Place(m.bundle[d]) # key
    BY <1>2 DEF Spares
<1>4. Barred(m.bundle, m.bundle[d])'
    BY <1>1, <1>3, BarredStays
<1>5. DestinationAction(m.bundle, m.bundle[d])' \in {"BLOCKED", "CONFLICT"}
    BY <1>4 DEF DestinationAction, Barred
<1> QED
    BY <1>1, <1>5 DEF Hopeless

(* What is there still is.                                                   *)
LEMMA PresentStays ==
    ASSUME TableInv, TableInv', NEW key, key[1] \in Resources, Grown(key),
           NEW m, NEW n, Present(m, n)
    PROVE  Present(m, n)'
<1> SUFFICES ASSUME m.bundle[n].type \in {"partner", "transformation"},
                    m.receipt[n].action # "CREATE"
             PROVE  Current(m.bundle[n])' # Absent
    BY DEF Present
<1>1. Current(m.bundle[n]) # Absent
    BY DEF Present
<1> QED
    BY <1>1, CurrentStays

(* A destination that is as the bundle has it.                               *)
LEMMA DestinationStays ==
    ASSUME TableInv, TableInv', NEW key, key[1] \in Resources, Grown(key),
           NEW m, NEW n \in DOMAIN m.bundle, Spares(m, key, n),
           \A k \in DOMAIN m.bundle : Present(m, k),
           m.bundle[n].type = "destination", DestinationReached(m, n)
    PROVE  DestinationReached(m, n)'
<1> PICK r : r = m.bundle[n]
    OBVIOUS
<1> PICK i : i = IdOf("TRANSFORMATION", r.transformation)
    OBVIOUS
<1>1. CASE Hopeless(m, n)
    <2>1. Hopeless(m, n)'
        BY <1>1, HopelessStays
    <2> QED
        BY <2>1 DEF DestinationReached
<1>2. CASE ~Hopeless(m, n)
    <2>1. /\ m.receipt[n].action \notin {"BLOCKED", "CONFLICT"}
          /\ Current(r) # Absent
          /\ \/ /\ SameDestination(r, Current(r))
                /\ m.receipt[n].action = "UNCHANGED" \/ i # NoId
             \/ KeepsTransformation(m, n)
        BY <1>2 DEF DestinationReached
    <2>2. Place(r) # key
        BY <2>1 DEF Spares
    <2>3. Current(r)' = Current(r) /\ Current(r)' # Absent
        BY <2>1, <2>2, CurrentStays
    <2>4. CASE KeepsTransformation(m, n)
        <3>1. KeepsTransformation(m, n)'
            BY <2>4 DEF KeepsTransformation
        <3> QED
            BY <2>1, <2>3, <3>1 DEF DestinationReached
    <2>5. CASE SameDestination(r, Current(r)) /\ i # NoId
        <3>1. IdOf("TRANSFORMATION", r.transformation)' = i
            BY <2>5, IdStays
        <3>2. SameDestination(r, Current(r))'
            BY <2>3, <2>5, <3>1 DEF SameDestination
        <3> QED
            BY <2>1, <2>3, <2>5, <3>1, <3>2 DEF DestinationReached
    <2>6. CASE /\ SameDestination(r, Current(r)) /\ i = NoId
               /\ m.receipt[n].action = "UNCHANGED"
        <3>1. ASSUME NEW k \in DOMAIN m.bundle, m.bundle[k].type = "transformation",
                     m.bundle[k].key = r.transformation
              PROVE  m.receipt[k].action = "CREATE"
            <4>1. IdOf("TRANSFORMATION", m.bundle[k].key) = NoId
                BY <2>6, <3>1
            <4>2. Current(m.bundle[k]) = Absent
                BY <3>1, <4>1, CurrentVersionIs
            <4> QED
                BY <3>1, <4>2 DEF Present
        <3>2. KeepsTransformation(m, n)'
            BY <2>6, <3>1 DEF KeepsTransformation
        <3> QED
            BY <2>1, <2>3, <3>2 DEF DestinationReached
    <2> QED
        BY <2>1, <2>4, <2>5, <2>6
<1> QED
    BY <1>1, <1>2

(* A subscription that is as the bundle has it.                              *)
LEMMA SubscriptionStays ==
    ASSUME TableInv, TableInv', NEW key, key[1] \in Resources, Grown(key),
           NEW m, NEW n \in DOMAIN m.bundle, Spares(m, key, n),
           m.bundle[n].type = "subscription", SubscriptionReached(m, n)
    PROVE  SubscriptionReached(m, n)'
<1> PICK r : r = m.bundle[n]
    OBVIOUS
<1>1. CASE \E d \in DOMAIN m.bundle :
            /\ m.bundle[d].type = "destination" /\ m.bundle[d].key = r.destination
            /\ Hopeless(m, d)
    <2> PICK d \in DOMAIN m.bundle :
            /\ m.bundle[d].type = "destination" /\ m.bundle[d].key = r.destination
            /\ Hopeless(m, d)
        BY <1>1
    <2>1. Hopeless(m, d)'
        BY HopelessStays
    <2> QED
        BY <2>1 DEF SubscriptionReached
<1>2. CASE /\ Current(r) # Absent
           /\ \/ IdOf("DESTINATION", r.destination) \notin {NoId, Current(r).destination}
              \/ Current(r).eventType # r.eventType
              \/ Current(r).enabled = r.enabled
    <2>1. Place(r) # key
        BY <1>2 DEF Spares
    <2>2. Current(r)' = Current(r) /\ Current(r)' # Absent
        BY <1>2, <2>1, CurrentStays
    <2>3. IdOf("DESTINATION", r.destination) # NoId =>
            IdOf("DESTINATION", r.destination)' = IdOf("DESTINATION", r.destination)
        BY IdStays
    <2> QED
        BY <1>2, <2>2, <2>3 DEF SubscriptionReached
<1> QED
    BY <1>1, <1>2 DEF SubscriptionReached

(* What is attained stays so.                                                *)
LEMMA AttainedStays ==
    ASSUME TableInv, TableInv', NEW key, key[1] \in Resources, Grown(key),
           NEW m, NEW n \in DOMAIN m.bundle, Spares(m, key, n),
           \A k \in DOMAIN m.bundle : Present(m, k), Attained(m, n)
    PROVE  Attained(m, n)'
<1> PICK r : r = m.bundle[n]
    OBVIOUS
<1>1. ASSUME r.type = "partner"
      PROVE  PartnerReached(r)'
    <2>1. PartnerReached(r)
        BY <1>1 DEF Attained
    <2>2. Current(r) # Absent
        BY <2>1 DEF PartnerReached
    <2>3. Place(r) # key
        BY <1>1, <2>2 DEF Spares
    <2>4. Current(r)' = Current(r)
        BY <1>1, <2>2, <2>3, CurrentStays
    <2> QED
        BY <2>1, <2>4 DEF PartnerReached, KeepsDescription, PartnerConfig
<1>2. ASSUME r.type = "transformation"
      PROVE  Current(r)' # Absent
    BY <1>2, CurrentStays DEF Attained
<1>3. ASSUME r.type = "destination"
      PROVE  DestinationReached(m, n)'
    BY <1>3, DestinationStays DEF Attained
<1>4. ASSUME r.type = "subscription"
      PROVE  SubscriptionReached(m, n)'
    BY <1>4, SubscriptionStays DEF Attained
<1> QED
    BY <1>1, <1>2, <1>3, <1>4 DEF Attained

-------------------------------------------------------------------------------
(* What an import's own write does.                                          *)

(* The transaction it commits.                                               *)
LEMMA OwnCommit ==
    ASSUME Inductive, NEW i \in Importers, Write(i), request'[i].outcome = "ok",
           NEW q, q = request[i]
    PROVE  /\ \E j \in IF q.op.name \in Creations THEN Fresh ELSE {q.op.id} :
                Accepted(Writes(q, j)) /\ Apply(Writes(q, j))
           /\ secret' = secret
           /\ Proper(q.op) /\ Past(q) /\ UnderWay(q)
<1>1. i \in Slots /\ RequestOK(i, q)
    BY DEF Importers, Inductive, RequestsInv
<1>2. /\ q.todo # <<>> /\ Head(q.todo) = "write"
      /\ UNCHANGED <<hosted, credentials, faults>>
    BY DEF Write, Doing
<1>3. UnderWay(q) /\ Past(q)
    <2>1. q.todo = <<"write">>
        BY <1>1, <1>2, Todos DEF RequestOK
    <2> QED
        BY <1>1, <1>2, <2>1 DEF RequestOK, Past
<1>4. PICK j \in IF q.op.name \in Creations THEN Fresh ELSE {q.op.id} :
        IF Accepted(Writes(q, j))
        THEN Apply(Writes(q, j))
        ELSE End(i, "conflict")
    BY DEF Write
<1>5. Accepted(Writes(q, j))
    <2>1. ASSUME End(i, "conflict")
          PROVE  FALSE
        <3>1. "conflict" \in Outcomes \ {"none"} /\ hosted' = hosted
            BY <1>2 DEF Outcomes
        <3>2. request'[i].outcome = "conflict"
            BY <1>1, <1>2, <2>1, <3>1, EndOK DEF Inductive
        <3> QED
            BY <3>2
    <2> QED
        BY <1>4, <2>1
<1>6. secret' = secret
    BY <1>2 DEF credentials
<1> QED
    BY <1>3, <1>4, <1>5, <1>6 DEF UnderWay

(* A transaction that only adds items.                                       *)
LEMMA OnlyNew ==
    ASSUME TableInv, NEW W, Accepted(W), Apply(W), OneEach(W), secret' = secret,
           \A w \in W : w.allowed = {0} /\ w.item # Absent
    PROVE  /\ \A key : Grown(key)
           /\ \A w \in W : /\ w.key \in DOMAIN table' /\ table'[w.key] = w.item
                           /\ w.key \notin DOMAIN table
<1>1. \A w \in W : w.key \notin DOMAIN table
    BY AcceptedPut
<1>2. /\ \A w \in W : w.key \in DOMAIN table' /\ table'[w.key] = w.item
      /\ \A k \in DOMAIN table :
            (\A w \in W : w.key # k) => k \in DOMAIN table' /\ table'[k] = table[k]
    BY Applied DEF OneEach
<1> QED
    BY <1>1, <1>2 DEF Grown

(* A pointer that is there finds its resource.                               *)
LEMMA PointerFinds ==
    ASSUME NEW kind, NEW x, NEW j, ExternalKey(kind, x) \in DOMAIN table',
           table'[ExternalKey(kind, x)] = Pointer(j)
    PROVE  IdOf(kind, x)' = j
<1> PICK p : p = ExternalKey(kind, x)
    OBVIOUS
<1>1. Get(p)' = Pointer(j)
    BY DEF Get
<1>2. Pointer(j) # Absent /\ Pointer(j).id = j
    BY DEF Pointer, Absent
<1> QED
    BY <1>1, <1>2 DEF IdOf

(* What is created is under its id, and its key finds it.                    *)
LEMMA CreationAdds ==
    ASSUME TableInv, NEW kind \in Kinds, NEW j, NEW item, item # Absent, NEW W,
           Accepted(W), Apply(W), secret' = secret,
           \/ W = CreateWrites(kind, HomeKey(kind, j), j, item)
           \/ W = {PutNew(RouteKey(item), item)}
                    \cup CreateWrites(kind, HomeKey(kind, j), j, item)
    PROVE  /\ \A key : Grown(key)
           /\ HomeKey(kind, j) \in DOMAIN table' /\ table'[HomeKey(kind, j)] = item
           /\ IdOf(kind, item.key)' = j
<1> DEFINE h == HomeKey(kind, j)
           p == ExternalKey(kind, item.key)
           u == PutNew(h, item)
           v == PutNew(p, Pointer(j))
           w == PutNew(RouteKey(item), item)
<1>1. /\ u.key = h /\ u.item = item /\ u.allowed = {0}
      /\ v.key = p /\ v.item = Pointer(j) /\ v.allowed = {0}
      /\ w.key = RouteKey(item) /\ w.item = item /\ w.allowed = {0}
    BY Puts
<1>2. h[1] \in Classes /\ p[1] = "EXTERNAL" /\ RouteKey(item)[1] = "EVENT_TYPE"
    BY Homed, Keys, KindsAre
<1>3. h # p /\ h # RouteKey(item) /\ p # RouteKey(item)
    BY <1>2, KindsAre
<1>4. W = {u, v} \/ W = {w, u, v}
    BY DEF CreateWrites
<1>5. Pointer(j) # Absent
    BY DEF Pointer, Absent
<1> HIDE DEF h, p, u, v, w
<1>6. OneEach(W) /\ u \in W /\ v \in W
    BY <1>1, <1>3, <1>4 DEF OneEach
<1>7. \A x \in W : x.allowed = {0} /\ x.item # Absent
    BY <1>1, <1>4, <1>5
<1>8. /\ \A key : Grown(key)
      /\ \A x \in W : x.key \in DOMAIN table' /\ table'[x.key] = x.item
    BY <1>6, <1>7, OnlyNew
<1>9. h \in DOMAIN table' /\ table'[h] = item /\ p \in DOMAIN table' /\ table'[p] = Pointer(j)
    BY <1>1, <1>6, <1>8
<1>10. IdOf(kind, item.key)' = j
    BY <1>9, PointerFinds DEF p
<1> QED
    BY <1>8, <1>9, <1>10 DEF h

(* A field the changes leave out.                                            *)
LEMMA MergeKeeps ==
    ASSUME NEW a, NEW b, NEW f \in DOMAIN a, f \notin DOMAIN b
    PROVE  f \in DOMAIN Merge(a, b) /\ Merge(a, b)[f] = a[f]
    BY DEF Merge

(* The kind of a resource of a bundle.                                       *)
KindOf(type) == IF type = "transformation" THEN "TRANSFORMATION" ELSE ClassOf(type)

(* A resource the import creates.                                            *)
LEMMA CreationDoes ==
    ASSUME TableInv, NEW r,
           r.type \in {"partner", "transformation", "destination", "subscription"},
           NEW q, q.op = CreateOperation(r), NEW j,
           Accepted(Writes(q, j)), Apply(Writes(q, j)), secret' = secret,
           NEW kind, kind = KindOf(r.type)
    PROVE  /\ \A key : Grown(key)
           /\ HomeKey(kind, j) \in DOMAIN table'
           /\ table'[HomeKey(kind, j)] = Created(q, j)
           /\ IdOf(kind, r.key)' = j
<1> DEFINE item == Created(q, j)
           W == Writes(q, j)
<1>1. "key" \in DOMAIN q.op.changes /\ q.op.changes.key = r.key
    <2>1. CASE r.type = "partner"
        <3>1. q.op.changes = Merge([key |-> r.key], PartnerConfig(r))
            BY <2>1 DEF CreateOperation, Operation
        <3>2. "key" \in DOMAIN [key |-> r.key] /\ "key" \notin DOMAIN PartnerConfig(r)
              /\ [key |-> r.key].key = r.key
            BY DEF PartnerConfig
        <3>3. "key" \in DOMAIN q.op.changes /\ q.op.changes["key"] = [key |-> r.key]["key"]
            BY <3>1, <3>2, MergeKeeps
        <3> QED
            BY <3>3
    <2>2. CASE r.type # "partner"
        BY <2>2 DEF CreateOperation, Operation, DestinationChanges, SubscriptionChanges
    <2> QED
        BY <2>1, <2>2
<1>2. item # Absent
    BY <1>1, CreatedItem
<1>3. item.key = r.key
    <2>1. item = Merge(q.op.changes, [id |-> j, version |-> 1])
        BY DEF Created
    <2>2. "key" \notin DOMAIN [id |-> j, version |-> 1]
        OBVIOUS
    <2>3. item["key"] = q.op.changes["key"]
        BY <1>1, <2>1, <2>2, MergeKeeps
    <2> QED
        BY <1>1, <2>3
<1>4. /\ kind \in Kinds
      /\ \/ W = CreateWrites(kind, HomeKey(kind, j), j, item)
         \/ W = {PutNew(RouteKey(item), item)}
                    \cup CreateWrites(kind, HomeKey(kind, j), j, item)
    <2>1. kind \in Kinds
        BY DEF KindOf, ClassOf, Kinds
    <2>2. CASE r.type = "partner"
        <3>1. q.op.name = "createPartner"
            BY <2>2 DEF CreateOperation, Operation
        <3>2. HomeKey(kind, j) = PartnerKey(j) /\ kind = "PARTNER"
            BY <2>1, <2>2, Homed DEF KindOf, ClassOf
        <3> QED
            BY <2>1, <3>1, <3>2, WritesAre
    <2>3. CASE r.type = "transformation"
        <3>1. q.op.name = "createTransformation"
            BY <2>3 DEF CreateOperation, Operation
        <3>2. HomeKey(kind, j) = VersionKey(j, 1) /\ kind = "TRANSFORMATION"
            BY <2>1, <2>3, Homed DEF KindOf
        <3> QED
            BY <2>1, <3>1, <3>2, WritesAre
    <2>4. CASE r.type = "destination"
        <3>1. q.op.name = "createDestination"
            BY <2>4 DEF CreateOperation, Operation
        <3>2. HomeKey(kind, j) = DestinationKey(j) /\ kind = "DESTINATION"
            BY <2>1, <2>4, Homed DEF KindOf, ClassOf
        <3> QED
            BY <2>1, <3>1, <3>2, WritesAre
    <2>5. CASE r.type = "subscription"
        <3>1. q.op.name = "createSubscription"
            BY <2>5 DEF CreateOperation, Operation
        <3>2. HomeKey(kind, j) = CatalogKey(j) /\ kind = "SUBSCRIPTION"
            BY <2>1, <2>5, Homed DEF KindOf, ClassOf
        <3>3. item.id = j
            BY <1>1, CreatedItem DEF IsResource
        <3>4. W = CreateSubscription(item)
            BY <3>1, WritesAre
        <3> QED
            BY <2>1, <3>2, <3>3, <3>4 DEF CreateSubscription
    <2> QED
        BY <2>1, <2>2, <2>3, <2>4, <2>5
<1> HIDE DEF item, W
<1>5. Accepted(W) /\ Apply(W)
    BY DEF W
<1>6. /\ \A key : Grown(key)
      /\ HomeKey(kind, j) \in DOMAIN table' /\ table'[HomeKey(kind, j)] = item
      /\ IdOf(kind, item.key)' = j
    BY <1>2, <1>4, <1>5, CreationAdds
<1> QED
    BY <1>3, <1>6 DEF item

(* A resource the import updates.                                            *)
LEMMA UpdateDoes ==
    ASSUME TableInv, NEW q, UpdateOK(q), Past(q), Proper(q.op), q.op.name \in Updates,
           Accepted(Writes(q, q.op.id)), Apply(Writes(q, q.op.id)), secret' = secret
    PROVE  /\ Grown(ItemKey(q.op))
           /\ ItemKey(q.op) \in DOMAIN table' /\ table'[ItemKey(q.op)] = Updated(q)
<1> DEFINE k == ItemKey(q.op)
           item == Updated(q)
           e == q.expected
           W == Writes(q, q.op.id)
           u == Put(RouteKey(item), item, {e})
           v == Put(k, item, {e})
<1>1. k[1] \in Resources /\ k[2] = q.op.id
    BY ItemKeys
<1>2. IsResource(q.seen, q.op.id)
    BY <1>1 DEF UpdateOK, Former
<1>3. DOMAIN q.op.changes \cap {"id", "eventType", "destination"} = {}
    BY DEF Proper
<1>4. item # Absent /\ IsResource(item, q.op.id)
    BY <1>2, <1>3, UpdatedItem
<1>5. W = {v} \/ W = {u, v}
    <2>1. CASE q.op.name = "updateSubscription"
        <3>1. k = CatalogKey(q.op.id) /\ item.id = q.op.id
            BY <1>4, <2>1, ItemKeys DEF IsResource
        <3>2. W = UpdateSubscription(item, e)
            BY <2>1, WritesAre
        <3> QED
            BY <3>1, <3>2 DEF UpdateSubscription
    <2>2. CASE q.op.name \in {"updatePartner", "updateDestination"}
        BY <2>2, WritesAre
    <2> QED
        BY <2>1, <2>2 DEF Updates
<1>6. /\ u.key = RouteKey(item) /\ u.item = item
      /\ v.key = k /\ v.item = item
    BY Puts
<1>7. RouteKey(item)[1] = "EVENT_TYPE" /\ "EVENT_TYPE" \notin Resources
    BY Keys DEF Resources
<1> HIDE DEF k, item, e, W, u, v
<1>8. Apply(W)
    BY DEF W
<1>9. OneEach(W) /\ v \in W
    BY <1>1, <1>5, <1>6, <1>7 DEF OneEach
<1>10. \A w \in W : w.item # Absent /\ (w.key = k \/ w.key[1] = "EVENT_TYPE")
    BY <1>4, <1>5, <1>6, <1>7
<1>11. /\ \A w \in W : w.key \in DOMAIN table' /\ table'[w.key] = w.item
       /\ \A j \in DOMAIN table :
            (\A w \in W : w.key # j) => j \in DOMAIN table' /\ table'[j] = table[j]
    BY <1>8, <1>9, <1>10, Applied DEF OneEach
<1>12. k \in DOMAIN table' /\ table'[k] = item
    BY <1>6, <1>9, <1>11
<1>13. Grown(k)
    BY <1>10, <1>11 DEF Grown
<1> QED
    BY <1>12, <1>13 DEF k, item

(* A version the import adds.                                                *)
LEMMA VersionDoes ==
    ASSUME TableInv, NEW q, VersionOK(q), Past(q), Proper(q.op),
           q.op.name = "createTransformationVersion",
           Accepted(Writes(q, q.op.id)), Apply(Writes(q, q.op.id)), secret' = secret,
           NEW k, k = VersionKey(q.op.id, q.seen.version + 1)
    PROVE  /\ \A key : Grown(key)
           /\ k \in DOMAIN table' /\ k \notin DOMAIN table
<1> DEFINE item == Updated(q)
           w == PutNew(k, item)
<1>1. IsResource(q.seen, q.op.id)
    BY DEF VersionOK
<1>2. DOMAIN q.op.changes \cap {"id", "eventType", "destination"} = {}
    BY DEF Proper
<1>3. item # Absent /\ item.version = q.seen.version + 1
    BY <1>1, <1>2, UpdatedItem
<1>4. Writes(q, q.op.id) = {w}
    BY <1>3, WritesAre
<1>5. w.key = k /\ w.item = item /\ w.allowed = {0}
    BY Puts
<1> HIDE DEF item, w
<1>6. Accepted({w}) /\ Apply({w}) /\ OneEach({w})
    BY <1>4 DEF OneEach
<1>7. \A x \in {w} : x.allowed = {0} /\ x.item # Absent
    BY <1>3, <1>5
<1>8. /\ \A key : Grown(key)
      /\ \A x \in {w} : /\ x.key \in DOMAIN table' /\ table'[x.key] = x.item
                        /\ x.key \notin DOMAIN table
    BY <1>6, <1>7, OnlyNew
<1> QED
    BY <1>5, <1>8

(* What was created is what is there.                                        *)
LEMMA CreatedIsCurrent ==
    ASSUME TableInv, TableInv', NEW r, r.type \in {"partner", "destination", "subscription"},
           NEW q, q.op = CreateOperation(r), NEW j,
           Accepted(Writes(q, j)), Apply(Writes(q, j)), secret' = secret
    PROVE  Current(r)' = Created(q, j) /\ Current(r)' # Absent
<1> PICK k : k = <<ClassOf(r.type), j>>
    OBVIOUS
<1> PICK kind : kind = ClassOf(r.type)
    OBVIOUS
<1>1. kind = KindOf(r.type) /\ HomeKey(kind, j) = k
    BY DEF KindOf, ClassOf, HomeKey
<1>2. k \in DOMAIN table' /\ table'[k] = Created(q, j) /\ IdOf(kind, r.key)' = j
    BY <1>1, CreationDoes
<1>3. Current(r)' = Get(k)'
    BY <1>2 DEF Current, CurrentPartner, CurrentDestination, CurrentSubscription, ClassOf,
       PartnerKey, DestinationKey, CatalogKey
<1>4. Get(k)' = table'[k]
    BY <1>2 DEF Get
<1>5. table'[k].version \in Nat \ {0}
    BY <1>2, Versioned DEF TableInv
<1> QED
    BY <1>2, <1>3, <1>4, <1>5 DEF Absent

(* What was updated is what is there.                                        *)
LEMMA UpdatedIsCurrent ==
    ASSUME TableInv, TableInv', NEW r, r.type \in {"partner", "destination", "subscription"},
           NEW q, q.op = UpdateOperation(r), Found(r) # Absent,
           UpdateOK(q), Past(q), Proper(q.op),
           Accepted(Writes(q, q.op.id)), Apply(Writes(q, q.op.id)), secret' = secret
    PROVE  /\ Current(r)' = Updated(q) /\ Current(r)' # Absent
           /\ Grown(Place(r))
<1> PICK k : k = Place(r)
    OBVIOUS
<1>1. Current(r) # Absent /\ q.op.name \in Updates /\ ItemKey(q.op) = k
    BY UpdateIs DEF Place
<1>2. /\ Grown(k)
      /\ k \in DOMAIN table' /\ table'[k] = Updated(q)
    BY <1>1, UpdateDoes
<1>3. k[1] \in Resources /\ IdOf(ClassOf(r.type), r.key) # NoId
    BY <1>1, CurrentPlace
<1>4. IdOf(ClassOf(r.type), r.key)' = IdOf(ClassOf(r.type), r.key)
    BY <1>2, <1>3, IdStays
<1>5. Current(r)' = Get(k)'
    BY <1>4 DEF Current, CurrentPartner, CurrentDestination, CurrentSubscription, ClassOf,
       PartnerKey, DestinationKey, CatalogKey, Place
<1>6. Get(k)' = table'[k]
    BY <1>2 DEF Get
<1>7. table'[k].version \in Nat \ {0}
    BY <1>2, Versioned DEF TableInv
<1> QED
    BY <1>2, <1>5, <1>6, <1>7 DEF Absent

(* A partner the import creates says what the bundle says.                   *)
LEMMA PartnerCreated ==
    ASSUME NEW r, NEW q, q.op.changes = Merge([key |-> r.key], PartnerConfig(r)), NEW j
    PROVE  PartnerConfig(Created(q, j)) = PartnerConfig(r)
<1> DEFINE p == PartnerConfig(r)
           c == Merge([key |-> r.key], p)
           d == Created(q, j)
           F == {"name", "description"}
<1>1. DOMAIN p = DOMAIN r \cap F
    BY DEF PartnerConfig
<1>2. DOMAIN c = {"key"} \cup DOMAIN p /\ \A f \in DOMAIN p : c[f] = p[f]
    BY DEF Merge
<1>3. /\ DOMAIN d = DOMAIN c \cup {"id", "version"}
      /\ \A f \in DOMAIN c : f \notin {"id", "version"} => d[f] = c[f]
    BY DEF Created, Merge
<1>4. p = [f \in DOMAIN p |-> p[f]]
    BY DEF PartnerConfig
<1> HIDE DEF p, c, d
<1>5. DOMAIN d \cap F = DOMAIN p
    BY <1>1, <1>2, <1>3
<1>6. \A f \in DOMAIN p : d[f] = p[f]
    BY <1>1, <1>2, <1>3
<1>7. PartnerConfig(d) = [f \in DOMAIN p |-> d[f]]
    BY <1>5 DEF PartnerConfig
<1>8. [f \in DOMAIN p |-> d[f]] = [f \in DOMAIN p |-> p[f]]
    BY <1>6
<1> QED
    BY <1>4, <1>7, <1>8 DEF p, d

(* One that it updates, too, but for a description the bundle leaves out.    *)
LEMMA PartnerUpdated ==
    ASSUME NEW r, NEW q, q.op.changes = PartnerConfig(r), "name" \in DOMAIN r
    PROVE  \/ PartnerConfig(Updated(q)) = PartnerConfig(r)
           \/ "description" \in DOMAIN Updated(q) \ DOMAIN r
<1> DEFINE p == PartnerConfig(r)
           d == Updated(q)
           F == {"name", "description"}
<1> SUFFICES ASSUME ~("description" \in DOMAIN d \ DOMAIN r)
             PROVE  PartnerConfig(d) = p
    OBVIOUS
<1>1. DOMAIN p = DOMAIN r \cap F
    BY DEF PartnerConfig
<1>2. /\ DOMAIN d = DOMAIN q.seen \cup DOMAIN p
      /\ \A f \in DOMAIN p : f # "version" => d[f] = p[f]
    BY DEF Updated, Merge
<1>3. p = [f \in DOMAIN p |-> p[f]]
    BY DEF PartnerConfig
<1> HIDE DEF p, d
<1>4. DOMAIN d \cap F = DOMAIN p
    BY <1>1, <1>2
<1>5. \A f \in DOMAIN p : d[f] = p[f]
    BY <1>1, <1>2
<1>6. PartnerConfig(d) = [f \in DOMAIN p |-> d[f]]
    BY <1>4 DEF PartnerConfig
<1>7. [f \in DOMAIN p |-> d[f]] = [f \in DOMAIN p |-> p[f]]
    BY <1>5
<1> QED
    BY <1>3, <1>6, <1>7

(* The partner it has written.                                               *)
LEMMA PartnerAttained ==
    ASSUME TableInv, TableInv', NEW r, r.type = "partner", "name" \in DOMAIN r, NEW q,
           NEW j, Accepted(Writes(q, j)), Apply(Writes(q, j)), secret' = secret,
           \/ q.op = CreateOperation(r)
           \/ /\ q.op = UpdateOperation(r) /\ Found(r) # Absent /\ j = q.op.id
              /\ UpdateOK(q) /\ Past(q) /\ Proper(q.op)
    PROVE  PartnerReached(r)'
<1>1. CASE q.op = CreateOperation(r)
    <2> PICK p : p = Created(q, j)
        OBVIOUS
    <2>1. Current(r)' = p /\ Current(r)' # Absent
        BY <1>1, CreatedIsCurrent
    <2>2. q.op.changes = Merge([key |-> r.key], PartnerConfig(r))
        BY <1>1 DEF CreateOperation, Operation
    <2>3. PartnerConfig(p) = PartnerConfig(r)
        BY <2>2, PartnerCreated
    <2> QED
        BY <2>1, <2>3 DEF PartnerReached, PartnerConfig
<1>2. CASE /\ q.op = UpdateOperation(r) /\ Found(r) # Absent /\ j = q.op.id
           /\ UpdateOK(q) /\ Past(q) /\ Proper(q.op)
    <2> PICK p : p = Updated(q)
        OBVIOUS
    <2>1. Current(r)' = p /\ Current(r)' # Absent
        BY <1>2, UpdatedIsCurrent
    <2>2. q.op.changes = PartnerConfig(r)
        BY <1>2 DEF UpdateOperation, PartnerOperation, Operation
    <2>3. PartnerConfig(p) = PartnerConfig(r) \/ "description" \in DOMAIN p \ DOMAIN r
        BY <2>2, PartnerUpdated
    <2> QED
        BY <2>1, <2>3 DEF PartnerReached, PartnerConfig, KeepsDescription
<1> QED
    BY <1>1, <1>2

(* What a resource has of what created or updated it.                        *)
LEMMA FieldsWritten ==
    ASSUME NEW q, NEW j, NEW f \in DOMAIN q.op.changes, f \notin {"id", "version"}
    PROVE  Created(q, j)[f] = q.op.changes[f] /\ Updated(q)[f] = q.op.changes[f]
    BY DEF Created, Updated, Merge

(* The destination it has written.                                           *)
LEMMA DestinationAttained ==
    ASSUME TableInv, TableInv', NEW m, NEW n \in DOMAIN m.bundle, Wants(m, n),
           NEW r, r = m.bundle[n], r.type = "destination", Resolved(r), NEW q,
           NEW j, Accepted(Writes(q, j)), Apply(Writes(q, j)), secret' = secret,
           \/ q.op = CreateOperation(r)
           \/ /\ q.op = UpdateOperation(r) /\ Found(r) # Absent /\ j = q.op.id
              /\ UpdateOK(q) /\ Past(q) /\ Proper(q.op)
    PROVE  DestinationReached(m, n)'
<1> PICK t : t = IdOf("TRANSFORMATION", r.transformation)
    OBVIOUS
<1> PICK c : c = q.op.changes
    OBVIOUS
<1>1. /\ {"enabled", "alias", "active", "transformation"} \subseteq DOMAIN c
      /\ c["enabled"] = r.enabled /\ c["alias"] = r.alias /\ c["active"] = r.active
      /\ c["transformation"] = t
    BY DEF CreateOperation, UpdateOperation, Operation, DestinationChanges
<1>2. t # NoId
    BY DEF Resolved
<1>3. /\ Current(r)' # Absent
      /\ Current(r)' \in {Created(q, j), Updated(q)}
      /\ \E key : key[1] \in Resources /\ Grown(key)
    <2>1. CASE q.op = CreateOperation(r)
        <3>1. Grown(Place(r))
            BY <2>1, CreationDoes
        <3>2. Place(r)[1] \in Resources
            BY CurrentPlace
        <3> QED
            BY <2>1, <3>1, <3>2, CreatedIsCurrent
    <2>2. CASE /\ q.op = UpdateOperation(r) /\ Found(r) # Absent /\ j = q.op.id
               /\ UpdateOK(q) /\ Past(q) /\ Proper(q.op)
        <3>1. Place(r)[1] \in Resources
            BY CurrentPlace
        <3> QED
            BY <2>2, <3>1, UpdatedIsCurrent
    <2> QED
        BY <2>1, <2>2
<1>4. IdOf("TRANSFORMATION", r.transformation)' = t
    BY <1>2, <1>3, IdStays
<1> PICK d \in {Created(q, j), Updated(q)} : Current(r)' = d
    BY <1>3
<1>5. \A f \in {"enabled", "alias", "active", "transformation"} : d[f] = c[f]
    BY <1>1, FieldsWritten
<1>6. d.enabled = r.enabled /\ d.alias = r.alias /\ d.active = r.active /\ d.transformation = t
    BY <1>1, <1>5
<1>7. SameDestination(r, Current(r))'
    BY <1>4, <1>6 DEF SameDestination
<1>8. m.receipt[n].action \notin {"BLOCKED", "CONFLICT"}
    BY DEF Wants
<1> QED
    BY <1>2, <1>3, <1>4, <1>7, <1>8 DEF DestinationReached

(* The subscription it has written.                                          *)
LEMMA SubscriptionAttained ==
    ASSUME TableInv, TableInv', NEW m, NEW n \in DOMAIN m.bundle,
           NEW r, r = m.bundle[n], r.type = "subscription", NEW q,
           NEW j, Accepted(Writes(q, j)), Apply(Writes(q, j)), secret' = secret,
           \/ q.op = CreateOperation(r)
           \/ /\ q.op = UpdateOperation(r) /\ Found(r) # Absent /\ j = q.op.id
              /\ UpdateOK(q) /\ Past(q) /\ Proper(q.op)
    PROVE  SubscriptionReached(m, n)'
<1> PICK c : c = q.op.changes
    OBVIOUS
<1>1. "enabled" \in DOMAIN c /\ c["enabled"] = r.enabled
    BY DEF CreateOperation, UpdateOperation, Operation, SubscriptionChanges
<1>2. Current(r)' # Absent /\ Current(r)' \in {Created(q, j), Updated(q)}
    BY CreatedIsCurrent, UpdatedIsCurrent
<1> PICK s \in {Created(q, j), Updated(q)} : Current(r)' = s
    BY <1>2
<1>3. s["enabled"] = c["enabled"]
    BY <1>1, FieldsWritten
<1>4. s.enabled = r.enabled
    BY <1>1, <1>3
<1> QED
    BY <1>2, <1>4 DEF SubscriptionReached

(* The versions before one of a bundle without gaps have had their turn.     *)
LEMMA EarlierVersions ==
    ASSUME TableInv, NEW m, m.bundle \in Bundles, Gapless(m.bundle),
           NEW n \in DOMAIN m.bundle, \A k \in DOMAIN m.bundle : k < n => Attained(m, k),
           NEW r, r = m.bundle[n], r.type = "transformation",
           NEW x \in 1..r.number, x # r.number
    PROVE  VersionKey(IdOf("TRANSFORMATION", r.key), x) \in DOMAIN table
<1>1. /\ Len(m.bundle) \in Nat /\ DOMAIN m.bundle = 1..Len(m.bundle)
      /\ r.number \in Nat
      /\ \A k, l \in DOMAIN m.bundle :
            k < l /\ m.bundle[k].type = m.bundle[l].type /\ m.bundle[k].key = m.bundle[l].key =>
                m.bundle[k].number <= m.bundle[l].number
    BY PortabilityAssumption DEF WellFormed
<1>2. r \in OfType(m.bundle, "transformation")
    BY DEF OfType
<1> PICK u \in OfType(m.bundle, "transformation") : u.key = r.key /\ u.number = x
    BY <1>2 DEF Gapless
<1> PICK d \in DOMAIN m.bundle : u = m.bundle[d] /\ u.type = "transformation"
    BY DEF OfType
<1>3. d < n
    <2>1. d # n
        OBVIOUS
    <2>2. ~(n < d)
        BY <1>1
    <2> QED
        BY <1>1, <2>1, <2>2
<1>4. Current(u) # Absent
    BY <1>3 DEF Attained
<1>5. VersionKey(IdOf("TRANSFORMATION", u.key), u.number) \in DOMAIN table
    BY <1>4, CurrentVersionIs
<1> QED
    BY <1>5

(* The version it has written is the one it was to write.                    *)
LEMMA TransformationAttained ==
    ASSUME TableInv, TableInv', VersionsInv, NEW m, m.bundle \in Bundles,
           Gapless(m.bundle), NEW n \in DOMAIN m.bundle,
           \A k \in DOMAIN m.bundle : k < n => Attained(m, k),
           NEW r, r = m.bundle[n], r.type = "transformation", NEW q,
           NEW j, Accepted(Writes(q, j)), Apply(Writes(q, j)), secret' = secret,
           \/ q.op = CreateOperation(r) /\ Found(r) = Absent
           \/ /\ q.op = UpdateOperation(r) /\ q.seen = Found(r) /\ Found(r) # Absent
              /\ j = q.op.id /\ VersionOK(q) /\ Past(q) /\ Proper(q.op)
    PROVE  Current(r)' # Absent
<1> PICK i : i = IdOf("TRANSFORMATION", r.key)
    OBVIOUS
<1>1. r.number \in Nat \ {0}
    BY PortabilityAssumption DEF WellFormed
<1>2. Found(r) = Latest(i)
    BY DEF Found
<1>3. SUFFICES \E k : k \in DOMAIN table' /\ k = VersionKey(IdOf("TRANSFORMATION", r.key)', r.number)
    <2> PICK k : k \in DOMAIN table' /\ k = VersionKey(IdOf("TRANSFORMATION", r.key)', r.number)
        BY <1>3
    <2>1. Current(r)' = Get(k)'
        BY DEF Current, CurrentVersion, VersionKey
    <2>2. Get(k)' = table'[k]
        BY DEF Get
    <2>3. table'[k].version \in Nat \ {0}
        BY Versioned DEF TableInv
    <2> QED
        BY <2>1, <2>2, <2>3 DEF Absent
<1>4. CASE q.op = CreateOperation(r) /\ Found(r) = Absent
    <2>1. VersionKey(i, 1) \notin DOMAIN table
        BY <1>2, <1>4, LatestPresent
    <2>2. 1 \in 1..r.number
        BY <1>1
    <2>3. r.number = 1
        BY <2>1, <2>2, EarlierVersions
    <2> PICK kind : kind = "TRANSFORMATION"
        OBVIOUS
    <2>4. kind = KindOf(r.type) /\ HomeKey(kind, j) = VersionKey(j, 1)
        BY DEF KindOf, HomeKey
    <2>5. HomeKey(kind, j) \in DOMAIN table' /\ IdOf(kind, r.key)' = j
        BY <1>4, <2>4, CreationDoes
    <2> QED
        BY <2>3, <2>4, <2>5
<1>5. CASE /\ q.op = UpdateOperation(r) /\ q.seen = Found(r) /\ Found(r) # Absent
           /\ j = q.op.id /\ VersionOK(q) /\ Past(q) /\ Proper(q.op)
    <2> PICK v : v = q.seen.version
        OBVIOUS
    <2> PICK k : k = VersionKey(i, v + 1)
        OBVIOUS
    <2>1. q.op.name = "createTransformationVersion" /\ q.op.id = i
        BY <1>5 DEF UpdateOperation, Operation
    <2>2. (\A key : Grown(key)) /\ k \in DOMAIN table' /\ k \notin DOMAIN table
        BY <1>5, <2>1, VersionDoes
    <2>3. v \in Nat \ {0} /\ VersionKey(i, v) \in DOMAIN table
        BY <1>5, <2>1 DEF VersionOK, IsResource
    <2>4. /\ VersionKey(i, v)[1] = "VERSION" /\ VersionKey(i, v)[2] = i
          /\ VersionKey(i, v)[3] = v
        BY Keys
    <2>5. i # NoId
        BY <2>3, <2>4, SoundVersion, Constants DEF TableInv
    <2>6. IdOf("TRANSFORMATION", r.key)' = i
        <3>1. Grown(<<"PARTNER", 0>>) /\ <<"PARTNER", 0>>[1] \in Resources
            BY <2>2 DEF Resources
        <3> QED
            BY <2>5, <3>1, IdStays
    <2>7. ~(v + 1 < r.number)
        <3>1. ASSUME v + 1 < r.number
              PROVE  FALSE
            <4>1. v + 1 \in 1..r.number /\ v + 1 # r.number
                BY <1>1, <2>3, <3>1
            <4> QED
                BY <2>2, <4>1, EarlierVersions
        <3> QED
            BY <3>1
    <2>8. CASE r.number = v + 1
        BY <2>2, <2>6, <2>8
    <2>9. CASE r.number <= v
        <3> PICK l : l = VersionKey(i, r.number)
            OBVIOUS
        <3>1. r.number \in 1..v
            BY <1>1, <2>3, <2>9
        <3>2. l \in DOMAIN table /\ l[1] = "VERSION"
            BY <2>3, <2>4, <3>1, Keys DEF VersionsInv
        <3>3. l \in DOMAIN table'
            BY <2>2, <3>2 DEF Grown
        <3> QED
            BY <2>6, <3>3
    <2> QED
        BY <1>1, <2>3, <2>7, <2>8, <2>9
<1> QED
    BY <1>4, <1>5

(* A change of one resource is no change of another of the bundle.           *)
LEMMA OthersSpared ==
    ASSUME TableInv, NEW m, m.bundle \in Bundles, m.at \in DOMAIN m.bundle, Wants(m, m.at),
           NEW key,
           \/ key[2] = NoId
           \/ /\ m.bundle[m.at].type # "transformation" /\ key = Place(m.bundle[m.at])
              /\ Current(m.bundle[m.at]) # Absent,
           NEW n \in DOMAIN m.bundle, n # m.at
    PROVE  Spares(m, key, n)
<1> PICK b : b = m.bundle
    OBVIOUS
<1> PICK a : a = m.at
    OBVIOUS
<1> SUFFICES ASSUME NEW k \in DOMAIN b, b[k].type # "transformation", k # a,
                    Current(b[k]) # Absent, Place(b[k]) = key
             PROVE  FALSE
    BY DEF Spares
<1>1. /\ Len(b) \in Nat /\ DOMAIN b = 1..Len(b)
      /\ \A x \in DOMAIN b :
            b[x].type \in {"partner", "transformation", "destination", "subscription"}
      /\ \A x, y \in DOMAIN b : x < y /\ b[x].type = b[y].type /\ b[x].key = b[y].key =>
            b[x].type = "transformation"
    BY PortabilityAssumption DEF WellFormed
<1>2. /\ IdOf(ClassOf(b[k].type), b[k].key) # NoId
      /\ table[key].key = b[k].key /\ key[1] = ClassOf(b[k].type)
    BY <1>1, CurrentPlace
<1>3. key[2] # NoId
    BY <1>2 DEF Place
<1>4. /\ b[a].type # "transformation" /\ key = Place(b[a]) /\ Current(b[a]) # Absent
    BY <1>3
<1>5. table[key].key = b[a].key /\ key[1] = ClassOf(b[a].type)
    BY <1>1, <1>4, CurrentPlace
<1>6. b[a].type = b[k].type
    BY <1>1, <1>2, <1>4, <1>5 DEF ClassOf
<1>7. k < a \/ a < k
    BY <1>1
<1> QED
    BY <1>1, <1>2, <1>5, <1>6, <1>7

(* The write of an import that is alone.                                     *)
LEMMA OwnWrite ==
    ASSUME Inductive, TableInv', VersionsInv, NEW i \in Importers, Write(i),
           request'[i].outcome = "ok", NEW q, q = request[i],
           NEW m, m.bundle \in Bundles, Gapless(m.bundle), Asked(m, q),
           \A k \in DOMAIN m.bundle : k < m.at => Attained(m, k)
    PROVE  /\ Attained(m, m.at)'
           /\ \E key : /\ key[1] \in Resources /\ Grown(key)
                       /\ \A n \in DOMAIN m.bundle : n # m.at => Spares(m, key, n)
<1> PICK r : r = m.bundle[m.at]
    OBVIOUS
<1> PICK a : a = m.at
    OBVIOUS
<1>1. TableInv /\ a \in DOMAIN m.bundle /\ Wants(m, a) /\ Resolved(r)
    BY DEF Inductive, StoreInv, Asked
<1>2. /\ r.type \in {"partner", "transformation", "destination", "subscription"}
      /\ r.type = "partner" => "name" \in DOMAIN r
    BY <1>1, PortabilityAssumption DEF WellFormed
<1> PICK j \in IF q.op.name \in Creations THEN Fresh ELSE {q.op.id} :
        Accepted(Writes(q, j)) /\ Apply(Writes(q, j))
    BY OwnCommit
<1>3. secret' = secret /\ Proper(q.op) /\ Past(q) /\ UnderWay(q)
    BY OwnCommit
<1>4. \/ q.op = CreateOperation(r) /\ (r.type # "partner" => Found(r) = Absent)
      \/ q.op = UpdateOperation(r) /\ q.seen = Found(r) /\ Found(r) # Absent
    BY DEF Asked
<1>5. ASSUME q.op = UpdateOperation(r), q.seen = Found(r), Found(r) # Absent
      PROVE  /\ j = q.op.id
             /\ r.type = "transformation" => VersionOK(q)
                    /\ q.op.name = "createTransformationVersion"
             /\ r.type # "transformation" => UpdateOK(q)
    <2>1. q.op.name \in Updates \cup {"createTransformationVersion"}
        BY <1>1, <1>2, <1>5, Updating
    <2>2. q.op.name \notin Creations
        BY <2>1 DEF Creations, Updates
    <2>3. r.type = "transformation" => q.op.name = "createTransformationVersion"
        BY <1>5 DEF UpdateOperation, Operation
    <2>4. r.type # "transformation" => q.op.name \in Updates
        BY <1>2, <1>5, UpdateIs
    <2> QED
        BY <1>3, <2>2, <2>3, <2>4 DEF UnderWay
<1>6. Attained(m, a)'
    <2>1. ASSUME r.type = "partner"
          PROVE  PartnerReached(r)'
        BY <1>1, <1>2, <1>3, <1>4, <1>5, <2>1, PartnerAttained
    <2>2. ASSUME r.type = "transformation"
          PROVE  Current(r)' # Absent
        BY <1>1, <1>3, <1>4, <1>5, <2>2, TransformationAttained
    <2>3. ASSUME r.type = "destination"
          PROVE  DestinationReached(m, a)'
        BY <1>1, <1>3, <1>4, <1>5, <2>3, DestinationAttained
    <2>4. ASSUME r.type = "subscription"
          PROVE  SubscriptionReached(m, a)'
        BY <1>1, <1>3, <1>4, <1>5, <2>4, SubscriptionAttained
    <2> QED
        BY <2>1, <2>2, <2>3, <2>4 DEF Attained
<1>7. \E key : /\ key[1] \in Resources /\ Grown(key)
               /\ \/ key[2] = NoId
                  \/ /\ r.type # "transformation" /\ key = Place(r)
                     /\ Current(r) # Absent
    <2> DEFINE none == <<"PARTNER", NoId>>
    <2>1. none[1] \in Resources /\ none[2] = NoId
        BY DEF Resources
    <2> HIDE DEF none
    <2>2. CASE q.op = CreateOperation(r)
        <3>1. Grown(none)
            BY <1>1, <1>2, <1>3, <2>2, CreationDoes
        <3> QED
            BY <2>1, <3>1
    <2>3. CASE q.op = UpdateOperation(r) /\ q.seen = Found(r) /\ Found(r) # Absent
        <3>1. CASE r.type = "transformation"
            <4>1. Grown(none)
                BY <1>1, <1>3, <1>5, <2>3, <3>1, VersionDoes
            <4> QED
                BY <2>1, <4>1
        <3>2. CASE r.type # "transformation"
            <4>1. Current(r) # Absent
                BY <1>2, <2>3, <3>2, UpdateIs
            <4>2. Grown(Place(r))
                BY <1>1, <1>2, <1>3, <1>5, <2>3, <3>2, UpdatedIsCurrent
            <4>3. Place(r)[1] \in Resources
                BY <1>1, <1>2, <3>2, CurrentPlace
            <4> QED
                BY <3>2, <4>1, <4>2, <4>3
        <3> QED
            BY <3>1, <3>2
    <2> QED
        BY <1>4, <2>2, <2>3
<1> PICK key : /\ key[1] \in Resources /\ Grown(key)
               /\ \/ key[2] = NoId
                  \/ /\ r.type # "transformation" /\ key = Place(r)
                     /\ Current(r) # Absent
    BY <1>7
<1>8. \A n \in DOMAIN m.bundle : n # a => Spares(m, key, n)
    BY <1>1, OthersSpared
<1> QED
    BY <1>6, <1>8

-------------------------------------------------------------------------------
(* The steps.                                                                *)

(* What follows the table and the credentials.                               *)
LEMMA SameView ==
    ASSUME UNCHANGED <<table, secret>>, NEW r,
           r.type \in {"partner", "transformation", "destination", "subscription"}
    PROVE  /\ Current(r)' = Current(r) /\ Found(r)' = Found(r)
           /\ Resolved(r)' <=> Resolved(r)
           /\ CreateOperation(r)' = CreateOperation(r)
           /\ UpdateOperation(r)' = UpdateOperation(r)
<1>1. \A k : Get(k)' = Get(k)
    BY DEF Get
<1>2. \A kind, x : IdOf(kind, x)' = IdOf(kind, x)
    BY <1>1 DEF IdOf
<1>3. Current(r)' = Current(r)
    BY <1>1, <1>2 DEF Current, CurrentPartner, CurrentVersion, CurrentDestination,
       CurrentSubscription
<1>4. \A i : Latest(i)' = Latest(i)
    BY DEF Latest, Existing
<1>5. Found(r)' = Found(r)
    BY <1>2, <1>3, <1>4 DEF Found
<1>6. Resolved(r)' <=> Resolved(r)
    BY <1>2 DEF Resolved
<1>7. CreateOperation(r)' = CreateOperation(r)
    BY <1>2 DEF CreateOperation, DestinationChanges, SubscriptionChanges
<1>8. UpdateOperation(r)' = UpdateOperation(r)
    BY <1>2 DEF UpdateOperation, PartnerOperation, DestinationChanges
<1> QED
    BY <1>3, <1>5, <1>6, <1>7, <1>8

(* Nothing happens to what an import has attained when nothing is written.   *)
LEMMA QuietAttained ==
    ASSUME TableInv, UNCHANGED <<table, secret>>, NEW m, m.bundle \in Bundles,
           \A k \in DOMAIN m.bundle : Present(m, k), NEW n \in DOMAIN m.bundle
    PROVE  /\ Present(m, n)'
           /\ Attained(m, n) => Attained(m, n)'
<1> DEFINE none == <<"PARTNER", NoId>>
<1>1. none[1] \in Resources /\ none[2] = NoId
    BY DEF Resources
<1>2. TableInv'
    BY DEF TableInv
<1>3. Grown(none)
    BY DEF Grown
<1> HIDE DEF none
<1>4. Spares(m, none, n)
    <2> SUFFICES ASSUME NEW k \in DOMAIN m.bundle, m.bundle[k].type # "transformation",
                        Current(m.bundle[k]) # Absent
                 PROVE  Place(m.bundle[k]) # none
        BY DEF Spares
    <2>1. m.bundle[k].type \in {"partner", "transformation", "destination", "subscription"}
        BY PortabilityAssumption DEF WellFormed
    <2>2. IdOf(ClassOf(m.bundle[k].type), m.bundle[k].key) # NoId
        BY <2>1, CurrentPlace
    <2> QED
        BY <1>1, <2>2 DEF Place
<1>5. Attained(m, n) => Attained(m, n)'
    BY <1>1, <1>2, <1>3, <1>4, AttainedStays
<1>6. Present(m, n)'
    BY <1>1, <1>2, <1>3, PresentStays
<1> QED
    BY <1>5, <1>6

(* Two states of an import that differ in nothing that counts here.          *)
LEMMA SameConverging ==
    ASSUME NEW m, NEW l, NEW q, Converging(m, q),
           l.phase = m.phase, l.alone => m.alone, l.bundle = m.bundle,
           l.receipt = m.receipt, l.at = m.at
    PROVE  Converging(l, q)
<1> SUFFICES ASSUME Undisturbed(l)
             PROVE  Converging(l, q)
    BY DEF Converging
<1>1. Undisturbed(m)
    BY DEF Undisturbed
<1>2. Asked(m, q) => Asked(l, q)
    BY DEF Asked, Wants
<1>3. ASSUME NEW n \in DOMAIN l.bundle
      PROVE  /\ Present(m, n) => Present(l, n)
             /\ Wants(m, n) <=> Wants(l, n)
             /\ Attained(m, n) => Attained(l, n)
    BY <1>3 DEF Present, Wants, Attained, DestinationReached, SubscriptionReached,
       Hopeless, KeepsTransformation
<1> QED
    BY <1>1, <1>2, <1>3 DEF Converging

(* A step in which nobody writes.                                            *)
LEMMA QuietConverging ==
    ASSUME TableInv, UNCHANGED <<table, secret>>, NEW m, NEW q, Converging(m, q),
           m.bundle \in Bundles \cup {NoBundle}
    PROVE  Converging(m, q)'
<1> SUFFICES ASSUME Undisturbed(m)
             PROVE  Converging(m, q)'
    BY DEF Converging, Undisturbed
<1>1. /\ m.at >= 1 /\ (m.phase = "applied" => m.at \notin DOMAIN m.bundle)
      /\ \A n \in DOMAIN m.bundle :
            /\ Present(m, n)
            /\ ~Wants(m, n) \/ n < m.at \/ (n = m.at /\ q.outcome = "ok") => Attained(m, n)
      /\ q.todo # <<>> => Asked(m, q)
    BY DEF Converging
<1>2. ASSUME NEW n \in DOMAIN m.bundle
      PROVE  /\ Present(m, n)'
             /\ Attained(m, n) => Attained(m, n)'
    <2>1. m.bundle \in Bundles
        BY <1>2, Numbered
    <2> QED
        BY <1>1, <2>1, QuietAttained
<1>3. Asked(m, q) => Asked(m, q)'
    <2> SUFFICES ASSUME Asked(m, q)
                 PROVE  Asked(m, q)'
        OBVIOUS
    <2> PICK r : r = m.bundle[m.at]
        OBVIOUS
    <2>1. m.at \in DOMAIN m.bundle
        BY DEF Asked
    <2>2. r.type \in {"partner", "transformation", "destination", "subscription"}
        BY <2>1, Numbered
    <2>3. /\ Found(r)' = Found(r) /\ (Resolved(r)' <=> Resolved(r))
          /\ CreateOperation(r)' = CreateOperation(r)
          /\ UpdateOperation(r)' = UpdateOperation(r)
        BY <2>2, SameView
    <2> QED
        BY <2>3 DEF Asked, Wants
<1> QED
    BY <1>1, <1>2, <1>3 DEF Converging, Wants

(* A read that goes on.                                                      *)
LEMMA ReadTakes ==
    ASSUME DOMAIN request = Slots, NEW c \in Slots, IsRequest(request[c]), Read(c),
           ~End(c, "refused")
    PROVE  request'[c].op = request[c].op /\ request'[c].todo = Tail(request[c].todo)
<1>0. PICK s : request' = [request EXCEPT ![c].todo = Tail(@), ![c].seen = s,
                                          ![c].late = Late(request[c].op, s)]
    BY DEF Read
<1> DEFINE late == Late(request[c].op, s)
<1>1. request' = [request EXCEPT ![c].todo = Tail(@), ![c].seen = s, ![c].late = late]
    BY <1>0
<1> HIDE DEF late
<1>2. request' = [request EXCEPT ![c] =
        [request[c] EXCEPT !.todo = Tail(request[c].todo), !.seen = s, !.late = late]]
    BY <1>1
<1>3. request'[c] = [todo |-> Tail(request[c].todo), op |-> request[c].op, seen |-> s,
                     late |-> late, expected |-> request[c].expected,
                     outcome |-> request[c].outcome]
    BY <1>2, Saw
<1> QED
    BY <1>3

(* A step of an import's request that writes nothing.                        *)
LEMMA OwnQuiet ==
    ASSUME Inductive, NEW i \in Importers, Step(i), NEW q, q = request[i],
           NEW l, l.bundle \in Bundles, Asked(l, q),
           NEW p, p = request'[i], p.outcome # "ok"
    PROVE  /\ UNCHANGED <<table, secret>>
           /\ p.todo = <<>> \/ Asked(l, p)
<1>1. /\ i \in Slots /\ DOMAIN request = Slots /\ RequestOK(i, q) /\ IsRequest(q)
      /\ q.todo \in {<<"read", "write">>, <<"write">>}
    BY DEF Importers, Inductive, Typed, RequestsInv, RequestOK, Asked
<1>2. ASSUME NEW o \in Outcomes \ {"none"}, End(i, o), hosted' = hosted
      PROVE  p.todo = <<>> /\ p.outcome = o
    <2>1. q.todo # <<>>
        BY <1>1
    <2> QED
        BY <1>1, <1>2, <2>1, EndOK DEF Inductive
<1>3. {"ok", "conflict", "refused", "failed"} \subseteq Outcomes \ {"none"}
    BY DEF Outcomes
<1>4. CASE Read(i)
    <2>1. UNCHANGED <<hosted, table, secret>>
        BY <1>4 DEF Read, store, credentials
    <2>2. q.todo = <<"read", "write">>
        BY <1>1, <1>4 DEF Read, Doing
    <2>4. CASE End(i, "refused")
        BY <1>2, <1>3, <2>1, <2>4
    <2>5. CASE ~End(i, "refused")
        <3>3. p.op = q.op /\ p.todo = Tail(q.todo)
            BY <1>1, <1>4, <2>5, ReadTakes
        <3>4. p.op = q.op /\ p.todo = <<"write">>
            BY <2>2, <3>3
        <3> PICK r : r = l.bundle[l.at]
            OBVIOUS
        <3>5. r.type \in {"partner", "transformation", "destination", "subscription"}
            BY PortabilityAssumption DEF WellFormed, Asked
        <3>6. q.op.name \in Creations
            BY <1>1, <2>2 DEF RequestOK, Reading
        <3>7. ~(q.op = UpdateOperation(r) /\ Found(r) # Absent)
            <4>1. ASSUME q.op = UpdateOperation(r), Found(r) # Absent
                  PROVE  FALSE
                <5>1. q.op.name \in Updates \cup {"createTransformationVersion"}
                    BY <3>5, <4>1, Updating DEF Inductive, StoreInv
                <5> QED
                    BY <3>6, <5>1 DEF Creations, Updates
            <4> QED
                BY <4>1
        <3>8. Asked(l, p)
            BY <3>4, <3>7 DEF Asked
        <3> QED
            BY <2>1, <3>8
    <2> QED
        BY <2>4, <2>5
<1>5. CASE AuditRotation(i) \/ StoreSecret(i)
    BY <1>1, <1>5 DEF AuditRotation, StoreSecret, Doing
<1>6. CASE Write(i)
    <2>1. UNCHANGED <<hosted, credentials, faults>>
        BY <1>6 DEF Write
    <2>2. \/ End(i, "ok")
          \/ End(i, "conflict") /\ UNCHANGED store
        BY <1>6 DEF Write
    <2>3. ~End(i, "ok")
        BY <1>2, <1>3, <2>1
    <2> QED
        BY <1>2, <1>3, <2>1, <2>2, <2>3 DEF store, credentials
<1>7. CASE Abandon(i)
    BY <1>2, <1>3, <1>7 DEF Abandon, store, credentials
<1> QED
    BY <1>4, <1>5, <1>6, <1>7 DEF Step

(* A step of an import's own request.                                        *)
LEMMA OwnConverging ==
    ASSUME Inductive, TableInv', VersionsInv, NEW i \in Importers, Step(i),
           NEW q, q = request[i], NEW p, p = request'[i],
           NEW l, l.bundle \in Bundles \cup {NoBundle}, Converging(l, q)
    PROVE  Converging(l, p)'
<1> SUFFICES ASSUME Undisturbed(l)
             PROVE  Converging(l, p)'
    BY DEF Converging, Undisturbed
<1>1. i \in Slots /\ q.todo # <<>> /\ RequestOK(i, q)
    BY StepFrame DEF Importers, Inductive, RequestsInv
<1>2. /\ l.at >= 1 /\ (l.phase = "applied" => l.at \notin DOMAIN l.bundle)
      /\ \A n \in DOMAIN l.bundle :
            /\ Present(l, n)
            /\ ~Wants(l, n) \/ n < l.at => Attained(l, n)
      /\ Asked(l, q)
    BY <1>1 DEF Converging
<1>3. l.at \in DOMAIN l.bundle /\ l.bundle \in Bundles
    BY <1>2, Numbered DEF Asked
<1>4. TableInv /\ Gapless(l.bundle)
    BY DEF Inductive, StoreInv, Undisturbed
<1>5. CASE p.outcome = "ok"
    <2>1. p.todo = <<>> /\ Write(i)
        BY <1>1, <1>5, StepMoves
    <2>2. /\ Attained(l, l.at)'
          /\ \E key : /\ key[1] \in Resources /\ Grown(key)
                      /\ \A n \in DOMAIN l.bundle : n # l.at => Spares(l, key, n)
        BY <1>2, <1>3, <1>4, <1>5, <2>1, OwnWrite
    <2> PICK key : /\ key[1] \in Resources /\ Grown(key)
                   /\ \A n \in DOMAIN l.bundle : n # l.at => Spares(l, key, n)
        BY <2>2
    <2>3. ASSUME NEW n \in DOMAIN l.bundle
          PROVE  /\ Present(l, n)'
                 /\ ~Wants(l, n) \/ n < l.at \/ n = l.at => Attained(l, n)'
        <3>1. Present(l, n)'
            BY <1>2, <1>4, PresentStays
        <3>2. CASE n = l.at
            BY <2>2, <3>1, <3>2
        <3>3. CASE n # l.at
            BY <1>2, <1>4, <3>1, <3>3, AttainedStays
        <3> QED
            BY <3>2, <3>3
    <2> QED
        BY <1>2, <2>1, <2>3 DEF Converging, Wants
<1>6. CASE p.outcome # "ok"
    <2>1. UNCHANGED <<table, secret>> /\ (p.todo = <<>> \/ Asked(l, p))
        BY <1>2, <1>3, <1>6, OwnQuiet
    <2> PICK z : z = [outcome |-> "none", todo |-> p.todo, op |-> p.op, seen |-> p.seen]
        OBVIOUS
    <2>2. Asked(l, p) => Asked(l, z)
        BY DEF Asked
    <2>3. Converging(l, z)
        BY <1>2, <2>1, <2>2 DEF Converging
    <2>4. Converging(l, z)'
        BY <1>4, <2>1, <2>3, QuietConverging
    <2>5. Asked(l, z)' => Asked(l, p)'
        BY DEF Asked
    <2> QED
        BY <1>6, <2>4, <2>5 DEF Converging
<1> QED
    BY <1>5, <1>6

(* What a plan says of the target, while it is as it was.                    *)
LEMMA PlanConverges ==
    ASSUME NEW m, m.bundle \in Bundles, m.receipt = Plan(m.bundle), NEW n \in DOMAIN m.bundle
    PROVE  Present(m, n) /\ (~Wants(m, n) => Attained(m, n))
<1> PICK b : b = m.bundle
    OBVIOUS
<1> PICK r : r = b[n]
    OBVIOUS
<1>1. \A d \in DOMAIN b : m.receipt[d].action = Action(b, b[d])
    BY DEF Plan
<1>2. r.type \in {"partner", "transformation", "destination", "subscription"}
    BY PortabilityAssumption DEF WellFormed
<1>3. CASE r.type = "partner"
    <2>1. m.receipt[n].action = PartnerAction(r)
        BY <1>1, <1>3 DEF Action
    <2> QED
        BY <1>3, <2>1 DEF PartnerAction, Present, Wants, Attained, PartnerReached
<1>4. CASE r.type = "transformation"
    <2>1. m.receipt[n].action = TransformationAction(r)
        BY <1>1, <1>4 DEF Action
    <2> QED
        BY <1>4, <2>1 DEF TransformationAction, Present, Wants, Attained
<1>5. CASE r.type = "destination"
    <2>1. m.receipt[n].action = DestinationAction(b, r)
        BY <1>1, <1>5 DEF Action
    <2>2. DestinationAction(b, r) \in {"BLOCKED", "CONFLICT"} => Hopeless(m, n)
        BY <2>1 DEF Hopeless
    <2>3. DestinationAction(b, r) \notin {"BLOCKED", "CONFLICT"} =>
            \/ DestinationAction(b, r) \in {"CREATE", "UPDATE"}
            \/ /\ DestinationAction(b, r) = "UNCHANGED"
               /\ Current(r) # Absent /\ SameDestination(r, Current(r))
        BY DEF DestinationAction
    <2> QED
        BY <1>5, <2>1, <2>2, <2>3 DEF Present, Wants, Attained, DestinationReached
<1>6. CASE r.type = "subscription"
    <2>1. m.receipt[n].action = SubscriptionAction(b, r)
        BY <1>1, <1>6 DEF Action
    <2>2. ASSUME NEW d \in OfType(b, "destination"), d.key = r.destination,
                 DestinationAction(b, d) \in {"BLOCKED", "CONFLICT"}
          PROVE  SubscriptionReached(m, n)
        <3> PICK k \in DOMAIN b : d = b[k] /\ d.type = "destination"
            BY DEF OfType
        <3>1. m.receipt[k].action = DestinationAction(b, d)
            BY <1>1 DEF Action
        <3>2. Hopeless(m, k)
            BY <2>2, <3>1 DEF Hopeless
        <3> QED
            BY <2>2, <3>2 DEF SubscriptionReached
    <2>3. ASSUME \A d \in OfType(b, "destination") : d.key = r.destination =>
                    DestinationAction(b, d) \notin {"BLOCKED", "CONFLICT"}
          PROVE  \/ SubscriptionAction(b, r) \in {"CREATE", "UPDATE"}
                 \/ /\ Current(r) # Absent
                    /\ \/ IdOf("DESTINATION", r.destination)
                            \notin {NoId, Current(r).destination}
                       \/ Current(r).eventType # r.eventType
                       \/ Current(r).enabled = r.enabled
        BY <2>3 DEF SubscriptionAction
    <2> QED
        BY <1>6, <2>1, <2>2, <2>3 DEF Present, Wants, Attained, SubscriptionReached
<1> QED
    BY <1>2, <1>3, <1>4, <1>5, <1>6

(* An import that is not applying a receipt, or has not just applied it.     *)
LEMMA NotConverging ==
    ASSUME NEW l, l.phase \notin {"applying", "applied"}, NEW q
    PROVE  Converging(l, q)
    BY DEF Converging, Undisturbed

(* An import that begins.                                                    *)
LEMMA BeginsConverging ==
    ASSUME NEW l, l.bundle \in Bundles \cup {NoBundle}, l.receipt = Plan(l.bundle),
           l.at = 1, l.phase = "applying"
    PROVE  Converging(l, NoRequest)
<1>1. NoRequest.todo = <<>> /\ NoRequest.outcome = "none"
    BY DEF NoRequest
<1>2. ASSUME NEW n \in DOMAIN l.bundle
      PROVE  /\ Present(l, n) /\ (~Wants(l, n) => Attained(l, n))
             /\ ~(n < 1)
    <2>1. l.bundle \in Bundles /\ Len(l.bundle) \in Nat /\ DOMAIN l.bundle = 1..Len(l.bundle)
        BY <1>2, Numbered
    <2> QED
        BY <2>1, PlanConverges
<1> QED
    BY <1>1, <1>2 DEF Converging

(* An import whose resource has had its turn.                                *)
LEMMA GoesOnConverging ==
    ASSUME NEW m, NEW q, Converging(m, q), NEW l,
           m.phase = "applying", l.phase = "applying", l.alone => m.alone,
           l.bundle = m.bundle, m.bundle \in Bundles \cup {NoBundle},
           l.receipt = m.receipt, m.at \in Nat, l.at = m.at + 1,
           \/ ~Wants(m, m.at) \/ q.outcome = "ok"
           \/ /\ m.bundle[m.at].type = "partner" /\ m.receipt[m.at].action = "UPDATE"
              /\ m.at \in DOMAIN m.bundle /\ Current(m.bundle[m.at]) = Absent
    PROVE  Converging(l, NoRequest)
<1> SUFFICES ASSUME Undisturbed(l)
             PROVE  Converging(l, NoRequest)
    BY DEF Converging
<1>1. Undisturbed(m)
    BY DEF Undisturbed
<1>2. NoRequest.todo = <<>> /\ NoRequest.outcome = "none"
    BY DEF NoRequest
<1>3. ~Wants(m, m.at) \/ q.outcome = "ok"
    BY <1>1 DEF Converging, Present
<1>4. ASSUME NEW n \in DOMAIN l.bundle
      PROVE  /\ Present(l, n) /\ (Wants(m, n) <=> Wants(l, n))
             /\ ~Wants(l, n) \/ n < l.at => Attained(l, n)
    <2>1. n \in Nat
        BY <1>4, Numbered
    <2>2. n < l.at => n < m.at \/ n = m.at
        BY <2>1
    <2>3. Wants(m, n) <=> Wants(l, n)
        BY DEF Wants
    <2>4. Present(m, n) /\ (~Wants(m, n) \/ n < l.at => Attained(m, n))
        BY <1>1, <1>3, <2>2 DEF Converging
    <2>5. (Present(m, n) => Present(l, n)) /\ (Attained(m, n) => Attained(l, n))
        BY DEF Present, Wants, Attained, DestinationReached, SubscriptionReached,
           Hopeless, KeepsTransformation
    <2> QED
        BY <2>3, <2>4, <2>5
<1> QED
    BY <1>1, <1>2, <1>4 DEF Converging

(* A step of an importer.                                                    *)
LEMMA ImporterConverges ==
    ASSUME Inductive, NEW i \in Importers, "alone" \in DOMAIN import[i],
           Converging(import[i], request[i]), ImportStep(i), ~ApplyResource(i)
    PROVE  \E l : /\ import' = [import EXCEPT ![i] = l]
                  /\ Converging(l, request'[i])
<1> DEFINE m == import[i]
<1>1. /\ {"phase", "bundle", "receipt", "at", "changed", "alone"} \subseteq DOMAIN m
      /\ m.bundle \in Bundles \cup {NoBundle} /\ m.at \in Nat
      /\ m.phase # "applying" => request[i] = NoRequest
      /\ request[i] # NoRequest => m.phase = "applying"
    BY ImportIs DEF Inductive, Importing, IsImport, Busy
<1>2. ASSUME NEW p \in {"exported", "failed"},
             import' = [import EXCEPT ![i] = [m EXCEPT !.phase = p]]
      PROVE  \E l : import' = [import EXCEPT ![i] = l] /\ Converging(l, request'[i])
    <2> DEFINE l == [m EXCEPT !.phase = p]
    <2>1. l.phase = p
        BY <1>1
    <2>2. import' = [import EXCEPT ![i] = l]
        BY <1>2
    <2> HIDE DEF l
    <2> QED
        BY <2>1, <2>2, NotConverging
<1>3. CASE BeginExport(i)
    <2> DEFINE l == [NoImport EXCEPT !.phase = "listing", !.plans = m.plans + 1,
                                     !.alone = TRUE]
    <2>1. import' = [import EXCEPT ![i] = l]
        BY <1>3 DEF BeginExport
    <2>2. l.phase = "listing"
        BY DEF NoImport
    <2> HIDE DEF l
    <2> QED
        BY <2>1, <2>2, NotConverging
<1>4. CASE List(i)
    <2> DEFINE class == Listed[Len(m.lists) + 1]
               s == Append(m.lists, {table[k] : k \in Existing(class)})
               o == IF class = "DESTINATION" THEN NoneDangles ELSE m.sound
               l == [m EXCEPT !.lists = s, !.sound = o]
    <2>1. import' = [import EXCEPT ![i].lists = s, ![i].sound = o]
        BY <1>4 DEF List
    <2> HIDE DEF s, o
    <2>2. import' = [import EXCEPT ![i] = l]
        BY <2>1
    <2>3. l.phase = "listing"
        BY <1>1, <1>4 DEF List
    <2> HIDE DEF l
    <2> QED
        BY <2>2, <2>3, NotConverging
<1>5. CASE EndExport(i)
    <2>1. CASE Representable(m.lists)
        <3>1. import' = [import EXCEPT ![i] = [m EXCEPT !.phase = "exported"]]
            BY <1>5, <2>1 DEF EndExport
        <3> QED
            BY <1>2, <3>1
    <2>2. CASE ~Representable(m.lists)
        <3> DEFINE l == [NoImport EXCEPT !.phase = "failed", !.plans = m.plans]
        <3>1. import' = [import EXCEPT ![i] = l]
            BY <1>5, <2>2 DEF EndExport
        <3>2. l.phase = "failed"
            BY DEF NoImport
        <3> HIDE DEF l
        <3> QED
            BY <3>1, <3>2, NotConverging
    <2> QED
        BY <2>1, <2>2
<1>6. CASE MakePlan(i)
    <2>1. PICK b \in Bundles : import' = [import EXCEPT ![i] = [NoImport EXCEPT
            !.phase = "planned", !.bundle = b, !.receipt = Plan(b),
            !.plans = m.plans + 1]]
        BY <1>6 DEF MakePlan
    <2> DEFINE l == [NoImport EXCEPT !.phase = "planned", !.bundle = b,
                                     !.receipt = Plan(b), !.plans = m.plans + 1]
    <2>2. import' = [import EXCEPT ![i] = l]
        BY <2>1
    <2>3. l.phase = "planned"
        BY DEF NoImport
    <2> HIDE DEF l
    <2> QED
        BY <2>2, <2>3, NotConverging
<1>7. CASE BeginApply(i)
    <2> DEFINE l == [m EXCEPT !.phase = "applying", !.at = 1, !.alone = TRUE]
    <2>1. import' = [import EXCEPT ![i].phase = "applying", ![i].at = 1,
                                   ![i].alone = TRUE]
        BY <1>7 DEF BeginApply
    <2>2. import' = [import EXCEPT ![i] = l]
        BY <2>1
    <2>3. /\ l.bundle = m.bundle /\ l.receipt = m.receipt
          /\ l.phase = "applying" /\ l.at = 1
        BY <1>1
    <2>4. m.receipt = Plan(m.bundle)
        BY <1>7 DEF BeginApply
    <2>5. request'[i] = NoRequest
        BY <1>1, <1>7 DEF BeginApply, NothingAsked, vars
    <2> HIDE DEF l, m
    <2>6. Converging(l, NoRequest)
        BY <1>1, <2>3, <2>4, BeginsConverging
    <2> QED
        BY <2>2, <2>5, <2>6
<1>8. CASE Drift(i) \/ DependencyChanged(i)
    <2>1. import' = [import EXCEPT ![i] = [m EXCEPT !.phase = "failed"]]
        BY <1>8 DEF Drift, DependencyChanged
    <2> QED
        BY <1>2, <2>1
<1>9. CASE Complete(i)
    <2> DEFINE l == [m EXCEPT !.phase = "applied"]
    <2>1. import' = [import EXCEPT ![i] = l]
        BY <1>9 DEF Complete
    <2>2. /\ l.bundle = m.bundle /\ l.receipt = m.receipt /\ l.at = m.at
          /\ l.phase = "applied" /\ l.alone = m.alone
        BY <1>1
    <2>3. /\ m.phase = "applying" /\ m.at \notin DOMAIN m.bundle
          /\ request'[i] = request[i]
        BY <1>9 DEF Complete, NothingAsked, vars
    <2> PICK q : q = request[i]
        OBVIOUS
    <2> HIDE DEF l, m
    <2>4. Converging(m, q)
        BY DEF m
    <2>5. Converging(l, q)
        <3> SUFFICES ASSUME Undisturbed(l)
                     PROVE  Converging(l, q)
            BY DEF Converging
        <3>1. Undisturbed(m)
            BY <2>2, <2>3 DEF Undisturbed
        <3>2. ASSUME NEW n \in DOMAIN l.bundle
              PROVE  /\ Present(m, n) => Present(l, n)
                     /\ Wants(m, n) <=> Wants(l, n)
                     /\ Attained(m, n) => Attained(l, n)
            BY <2>2 DEF Present, Wants, Attained, DestinationReached,
               SubscriptionReached, Hopeless, KeepsTransformation
        <3>3. Asked(m, q) => Asked(l, q)
            BY <2>2 DEF Asked, Wants
        <3> QED
            BY <2>2, <2>3, <2>4, <3>1, <3>2, <3>3 DEF Converging
    <2> QED
        BY <2>1, <2>3, <2>5
<1>10. CASE Skip(i)
    <2> DEFINE l == [m EXCEPT !.at = m.at + 1]
    <2>1. import' = [import EXCEPT ![i].at = @ + 1]
        BY <1>10 DEF Skip
    <2>2. import' = [import EXCEPT ![i] = l]
        BY <2>1
    <2>3. /\ l.bundle = m.bundle /\ l.receipt = m.receipt /\ l.at = m.at + 1
          /\ l.phase = m.phase /\ l.alone = m.alone
        BY <1>1
    <2>4. m.phase = "applying" /\ request[i] = NoRequest /\ m.at \in DOMAIN m.bundle
        BY <1>10 DEF Skip, Applying
    <2>5. \/ ~Wants(m, m.at)
          \/ /\ m.bundle[m.at].type = "partner" /\ m.receipt[m.at].action = "UPDATE"
             /\ Current(m.bundle[m.at]) = Absent
        BY <1>10 DEF Skip, Wanted, Resource, Wants
    <2>6. request'[i] = NoRequest
        BY <1>10, <2>4 DEF Skip, NothingAsked, vars
    <2>7. Converging(m, request[i])
        OBVIOUS
    <2> HIDE DEF l, m
    <2>8. Converging(l, NoRequest)
        BY <1>1, <2>3, <2>4, <2>5, <2>7, GoesOnConverging
    <2> QED
        BY <2>2, <2>6, <2>8
<1>11. CASE Returned(i)
    <2>1. request'[i] = NoRequest
        BY <1>11 DEF Returned, Inductive, Typed, Importers
    <2>2. m.phase = "applying"
        <3>1. request[i] # NoRequest
            BY <1>11 DEF Returned, NoRequest
        <3> QED
            BY <1>1, <3>1
    <2>3. CASE request[i].outcome = "ok"
        <3> DEFINE l == [m EXCEPT !.at = m.at + 1, !.changed = TRUE]
        <3>1. import' = [import EXCEPT ![i] = l]
            BY <1>11, <2>3 DEF Returned
        <3>2. /\ l.bundle = m.bundle /\ l.receipt = m.receipt /\ l.at = m.at + 1
              /\ l.phase = m.phase /\ l.alone = m.alone
            BY <1>1
        <3>3. Converging(m, request[i])
            OBVIOUS
        <3> HIDE DEF l, m
        <3>4. Converging(l, NoRequest)
            BY <1>1, <2>2, <2>3, <3>2, <3>3, GoesOnConverging
        <3> QED
            BY <2>1, <3>1, <3>4
    <2>4. CASE request[i].outcome # "ok"
        <3>1. import' = [import EXCEPT ![i] = [m EXCEPT !.phase = "failed"]]
            BY <1>11, <2>4 DEF Returned
        <3> QED
            BY <1>2, <3>1
    <2> QED
        BY <2>3, <2>4
<1> QED
    BY <1>3, <1>4, <1>5, <1>6, <1>7, <1>8, <1>9, <1>10, <1>11 DEF ImportStep

(* An import that asks for what its receipt wants.                           *)
LEMMA AskConverges ==
    ASSUME Inductive, NEW i \in Importers, ApplyResource(i), NEW m, m = import[i],
           Converging(m, request[i])
    PROVE  Converging(m, request'[i])
<1> PICK r : r = Resource(i)
    OBVIOUS
<1>1. /\ request[i] = NoRequest /\ m.at \in DOMAIN m.bundle /\ r = m.bundle[m.at]
      /\ Wants(m, m.at) /\ Resolved(r)
      /\ m.bundle \in Bundles \cup {NoBundle}
    BY ImportIs DEF ApplyResource, Applying, Resource, Wanted, Wants, Inductive, Importing
<1>2. r.type \in {"partner", "transformation", "destination", "subscription"}
    BY <1>1, Numbered
<1>3. DOMAIN request = Slots /\ i \in Slots
    BY DEF Inductive, Typed, Importers
<1>4. \E op, todo, seen :
        /\ Ask(i, op, todo, seen) /\ todo \in {<<"read", "write">>, <<"write">>}
        /\ \/ op = CreateOperation(r) /\ (r.type # "partner" => Found(r) = Absent)
           \/ op = UpdateOperation(r) /\ seen = Found(r) /\ Found(r) # Absent
    <2>1. CASE Creates(i)
        <3>1. Ask(i, CreateOperation(r), Todo(CreateOperation(r)), Absent)
            BY <2>1 DEF ApplyResource
        <3>2. Todo(CreateOperation(r)) \in {<<"read", "write">>, <<"write">>}
            BY <1>2, Creating
        <3>3. r.type # "partner" => Found(r) = Absent
            BY <2>1 DEF Creates
        <3> QED
            BY <3>1, <3>2, <3>3
    <2>2. CASE ~Creates(i)
        <3>1. Found(r) # Absent /\ Ask(i, UpdateOperation(r), <<"write">>, Found(r))
            BY <2>2 DEF ApplyResource
        <3> QED
            BY <3>1
    <2> QED
        BY <2>1, <2>2
<1> PICK op, todo, seen :
        /\ Ask(i, op, todo, seen) /\ todo \in {<<"read", "write">>, <<"write">>}
        /\ \/ op = CreateOperation(r) /\ (r.type # "partner" => Found(r) = Absent)
           \/ op = UpdateOperation(r) /\ seen = Found(r) /\ Found(r) # Absent
    BY <1>4
<1> DEFINE p == [NoRequest EXCEPT !.op = op, !.todo = todo, !.seen = seen,
                                  !.expected = seen.version]
<1>5. request'[i] = p
    BY <1>3 DEF Ask
<1>6. p.op = op /\ p.todo = todo /\ p.seen = seen /\ p.outcome = "none"
    BY DEF NoRequest
<1>7. NoRequest.outcome = "none"
    BY DEF NoRequest
<1> HIDE DEF p
<1>8. Asked(m, p)
    BY <1>1, <1>6 DEF Asked
<1>9. Converging(m, p)
    BY <1>1, <1>6, <1>7, <1>8 DEF Converging
<1> QED
    BY <1>5, <1>9

(* A step of the service, seen by one importer.                              *)
LEMMA ServiceConverges ==
    ASSUME Inductive, TableInv', VersionsInv, NEW j \in Importers,
           "alone" \in DOMAIN import[j], Converging(import[j], request[j]),
           NEW c \in Slots, Step(c),
           import' = [i \in Importers |-> [import[i] EXCEPT
                !.alone = @ /\ (c = i \/ UNCHANGED <<table, secret>>)]]
    PROVE  Converging(import[j], request[j])'
<1> DEFINE m == import[j]
           a == m.alone /\ (c = j \/ UNCHANGED <<table, secret>>)
<1> PICK l : l = import'[j]
    OBVIOUS
<1> PICK q : q = request[j]
    OBVIOUS
<1> PICK p : p = request'[j]
    OBVIOUS
<1>1. {"phase", "bundle", "receipt", "at", "alone"} \subseteq DOMAIN m
      /\ m.bundle \in Bundles \cup {NoBundle}
    BY ImportIs DEF Inductive, Importing, IsImport
<1>2. l = [m EXCEPT !.alone = a]
    OBVIOUS
<1>3. /\ l.phase = m.phase /\ l.bundle = m.bundle /\ l.receipt = m.receipt
      /\ l.at = m.at /\ l.alone = a
    BY <1>1, <1>2
<1>4. Converging(l, q)
    BY <1>3, SameConverging
<1>5. CASE c = j
    <2>1. Converging(l, p)'
        BY <1>1, <1>3, <1>4, <1>5, OwnConverging
    <2> QED
        BY <2>1
<1>6. CASE c # j
    <2>1. p = q
        BY <1>6, StepFrame DEF Inductive, Importers
    <2>2. CASE UNCHANGED <<table, secret>>
        <3>1. Converging(l, q)'
            BY <1>1, <1>3, <1>4, <2>2, QuietConverging DEF Inductive, StoreInv
        <3> QED
            BY <2>1, <3>1
    <2>3. CASE ~UNCHANGED <<table, secret>>
        <3>1. ~l.alone
            BY <1>3, <1>6, <2>3
        <3>2. Converging(l, p)'
            BY <3>1 DEF Converging, Undisturbed
        <3> QED
            BY <3>2
    <2> QED
        BY <2>2, <2>3
<1> QED
    BY <1>5, <1>6

(* Always.                                                                   *)
LEMMA AlwaysConverges == ImportSpec => []ConvergesInv
<1>1. ImportInit => ConvergesInv
    <2> SUFFICES ASSUME ImportInit, NEW i \in Importers
                 PROVE  Converging(import[i], request[i])
        BY DEF ConvergesInv
    <2>1. import[i] = NoImport /\ NoImport.phase = "idle"
        BY DEF ImportInit, NoImport
    <2> QED
        BY <2>1, NotConverging
<1>2. /\ Inductive /\ VersionsInv /\ ExportsInv /\ ConvergesInv
      /\ [ImportNext]_allVars /\ TableInv'
      => ConvergesInv'
    <2> SUFFICES ASSUME Inductive, VersionsInv, ExportsInv, ConvergesInv,
                        [ImportNext]_allVars, TableInv', NEW j \in Importers
                 PROVE  Converging(import[j], request[j])'
        BY DEF ConvergesInv
    <2> PICK l : l = import'[j]
        OBVIOUS
    <2> PICK p : p = request'[j]
        OBVIOUS
    <2>1. Converging(import[j], request[j]) /\ "alone" \in DOMAIN import[j]
        BY DEF ConvergesInv, ExportsInv, ExportOK
    <2>2. ASSUME UNCHANGED <<table, secret>>, Converging(l, p),
                 l.bundle \in Bundles \cup {NoBundle}
          PROVE  Converging(import[j], request[j])'
        <3>1. Converging(l, p)'
            BY <2>2, QuietConverging DEF Inductive, StoreInv
        <3> QED
            BY <3>1
    <2>3. import[j].bundle \in Bundles \cup {NoBundle}
        BY ImportIs DEF Inductive, Importing
    <2>4. ASSUME UNCHANGED <<table, secret>>, l = import[j], p = request[j]
          PROVE  Converging(import[j], request[j])'
        BY <2>1, <2>2, <2>3, <2>4
    <2>5. ASSUME NEW c \in Slots, Step(c),
                 import' = [i \in Importers |-> [import[i] EXCEPT
                    !.alone = @ /\ (c = i \/ UNCHANGED <<table, secret>>)]]
          PROVE  Converging(import[j], request[j])'
        BY <2>1, <2>5, ServiceConverges
    <2>6. ASSUME NEW i \in Importers, ImportStep(i)
          PROVE  Converging(import[j], request[j])'
        <3>1. UNCHANGED <<table, secret>>
            BY <2>6 DEF ImportStep, BeginExport, List, EndExport, MakePlan,
                    BeginApply, Drift, Skip, DependencyChanged, Complete, Returned,
                    ApplyResource, NothingAsked, vars, store, credentials
        <3>2. i # j => p = request[j]
            BY <2>6 DEF ImportStep, BeginExport, List, EndExport, MakePlan,
                    BeginApply, Drift, Skip, DependencyChanged, Complete, Returned,
                    ApplyResource, Ask, NothingAsked, vars, Inductive, Typed, Importers
        <3>3. CASE ApplyResource(i)
            <4>1. l = import[j]
                BY <3>3 DEF ApplyResource
            <4>2. CASE i = j
                <5>1. Converging(l, p)
                    BY <2>1, <3>3, <4>1, <4>2, AskConverges
                <5> QED
                    BY <2>2, <2>3, <3>1, <4>1, <5>1
            <4>3. CASE i # j
                BY <2>4, <3>1, <3>2, <4>1, <4>3
            <4> QED
                BY <4>2, <4>3
        <3>4. CASE ~ApplyResource(i)
            <4>1. Converging(import[i], request[i]) /\ "alone" \in DOMAIN import[i]
                BY DEF ConvergesInv, ExportsInv, ExportOK
            <4>2. PICK x : /\ import' = [import EXCEPT ![i] = x]
                           /\ Converging(x, request'[i])
                BY <2>6, <3>4, <4>1, ImporterConverges
            <4>3. CASE i = j
                <5>1. l = x /\ Converging(l, p)
                    BY <4>2, <4>3 DEF Inductive, ImportsInv
                <5>2. l.bundle \in Bundles \cup {NoBundle}
                    <6>1. ImportsInv'
                        BY <2>6, ImportStepKept DEF Inductive
                    <6> QED
                        BY <6>1 DEF ImportsInv, Importing
                <5> QED
                    BY <2>2, <3>1, <5>1, <5>2
            <4>4. CASE i # j
                <5>1. l = import[j]
                    BY <4>2, <4>4 DEF Inductive, ImportsInv
                <5> QED
                    BY <2>4, <3>1, <3>2, <4>4, <5>1
            <4> QED
                BY <4>3, <4>4
        <3> QED
            BY <3>3, <3>4
    <2>7. ASSUME NEW c \in Clients, NEW op \in Operations[c], Begin(c, op),
                 UNCHANGED import
          PROVE  Converging(import[j], request[j])'
        <3>1. p = request[j]
            BY <2>7 DEF Begin, Inductive, Typed, Importers
        <3> QED
            BY <2>4, <2>7, <3>1 DEF Begin, store, credentials
    <2>8. CASE UNCHANGED allVars
        BY <2>4, <2>8 DEF allVars, vars, store, credentials
    <2> QED
        BY <2>5, <2>6, <2>7, <2>8 DEF ImportNext, ServiceStep
<1>3. Inductive => TableInv
    BY DEF Inductive, StoreInv
<1> QED
    BY <1>1, <1>2, <1>3, AlwaysInductive, AlwaysVersions, AlwaysExports, PTL
    DEF ImportSpec

(* After an import that nobody interfered with nothing is left to do for any *)
(* resource of its bundle, but for the two kinds it leaves as they were.     *)
THEOREM ImportsConverge == ImportSpec => []Converges
<1>1. Inductive /\ ConvergesInv => Converges
    <2> SUFFICES ASSUME Inductive, ConvergesInv, NEW i \in Importers, Settles(import[i]),
                        NEW n \in DOMAIN import[i].bundle, LeftToDo(import[i], n)
                 PROVE  \/ KeepsDescription(import[i].bundle[n])
                        \/ KeepsTransformation(import[i], n)
        BY DEF Converges
    <2> PICK m : m = import[i]
        OBVIOUS
    <2> PICK r : r = m.bundle[n]
        OBVIOUS
    <2>1. /\ Undisturbed(m) /\ m.phase = "applied"
          /\ Converging(m, request[i])
        BY DEF Settles, Undisturbed, ConvergesInv
    <2>2. /\ m.bundle \in Bundles \cup {NoBundle} /\ m.at \in 0..(Len(m.bundle) + 1)
        BY ImportIs DEF Inductive, Importing
    <2>3. /\ m.bundle \in Bundles /\ Len(m.bundle) \in Nat
          /\ DOMAIN m.bundle = 1..Len(m.bundle)
          /\ r.type \in {"partner", "transformation", "destination", "subscription"}
        BY <2>2, Numbered
    <2>4. m.at >= 1 /\ m.at \notin DOMAIN m.bundle
        BY <2>1 DEF Converging
    <2>5. n < m.at
        BY <2>2, <2>3, <2>4
    <2>6. Attained(m, n)
        BY <2>1, <2>5 DEF Converging
    <2>7. Action(m.bundle, r) \in {"CREATE", "UPDATE"}
        BY DEF LeftToDo
    <2>8. CASE r.type = "partner"
        BY <2>6, <2>7, <2>8 DEF Attained, PartnerReached, Action, PartnerAction
    <2>9. CASE r.type = "transformation"
        BY <2>6, <2>7, <2>9 DEF Attained, Action, TransformationAction
    <2>10. CASE r.type = "destination"
        <3>1. DestinationAction(m.bundle, r) \in {"CREATE", "UPDATE"}
            BY <2>7, <2>10 DEF Action
        <3>2. ~Hopeless(m, n)
            BY <3>1 DEF Hopeless
        <3>3. /\ Current(r) # Absent
              /\ SameDestination(r, Current(r)) \/ KeepsTransformation(m, n)
            BY <2>6, <2>10, <3>2 DEF Attained, DestinationReached
        <3> QED
            BY <3>1, <3>3 DEF DestinationAction
    <2>11. CASE r.type = "subscription"
        <3>1. SubscriptionAction(m.bundle, r) \in {"CREATE", "UPDATE"}
            BY <2>7, <2>11 DEF Action
        <3>2. \A d \in OfType(m.bundle, "destination") : d.key = r.destination =>
                    DestinationAction(m.bundle, d) \notin {"BLOCKED", "CONFLICT"}
            BY <3>1 DEF SubscriptionAction
        <3>3. ~\E d \in DOMAIN m.bundle :
                /\ m.bundle[d].type = "destination" /\ m.bundle[d].key = r.destination
                /\ Hopeless(m, d)
            BY <3>2 DEF Hopeless, OfType
        <3>4. /\ Current(r) # Absent
              /\ \/ IdOf("DESTINATION", r.destination)
                        \notin {NoId, Current(r).destination}
                 \/ Current(r).eventType # r.eventType
                 \/ Current(r).enabled = r.enabled
            BY <2>6, <2>11, <3>3 DEF Attained, SubscriptionReached
        <3> QED
            BY <3>1, <3>4 DEF SubscriptionAction
    <2> QED
        BY <2>3, <2>8, <2>9, <2>10, <2>11
<1> QED
    BY <1>1, AlwaysInductive, AlwaysConverges, PTL
===============================================================================
