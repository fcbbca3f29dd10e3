--------------------------- MODULE ConfigPortability ---------------------------
(***************************************************************************)
(* Importing a configuration bundle into a tenant whose configuration      *)
(* other requests may be changing.                                         *)
(*                                                                         *)
(* A plan compares every resource of the bundle with the target and is     *)
(* handed out with a receipt over what it found.  Applying takes the       *)
(* bundle and the receipt, plans again, compares, and then takes the       *)
(* resources one at a time through the service the API uses: look the      *)
(* target up again, then create or update.  The reads of one plan are one  *)
(* step here, and find what is current.  An export lists the resources     *)
(* class by class while they go on changing; it is modelled where reads do *)
(* not lag.                                                                *)
(***************************************************************************)
EXTENDS ControlPlane, SequencesExt

CONSTANTS
    Bundles,   \* the bundles that may be imported: their resources in the
               \* order in which plan and apply take them
    MaxPlans   \* bound on the plans and exports of one importer

(* What the schema lets through and how it is put in order: keys are unique  *)
(* but for the versions of a transformation, which come by number.           *)
WellFormed(b) ==
    /\ Len(b) \in Nat
    /\ DOMAIN b = 1..Len(b)
    /\ \A n \in DOMAIN b :
        /\ b[n].type \in {"partner", "transformation", "destination", "subscription"}
        /\ b[n].type = "partner" => "name" \in DOMAIN b[n]
        /\ b[n].type = "transformation" => b[n].number \in Nat \ {0}
    /\ \A m, n \in DOMAIN b :
        m < n /\ b[m].type = b[n].type /\ b[m].key = b[n].key =>
            b[n].type = "transformation" /\ b[m].number <= b[n].number

ASSUME PortabilityAssumption ==
    /\ MaxPlans \in Nat
    /\ \A b \in Bundles : WellFormed(b)

VARIABLES import   \* importer -> its import or export

Importers == Slots \ Clients
allVars == <<vars, import>>
NoBundle == <<>>
NoImport == [phase |-> "idle", bundle |-> NoBundle, receipt |-> <<>>, at |-> 0,
             plans |-> 0, alone |-> FALSE, changed |-> FALSE, lists |-> <<>>,
             sound |-> FALSE]

ImportInit ==
    /\ Init
    /\ import = [i \in Importers |-> NoImport]

-------------------------------------------------------------------------------
(* The bundle by itself.                                                     *)

OfType(b, type) == {r \in {b[n] : n \in DOMAIN b} : r.type = type}
Has(b, type, key) == \E r \in OfType(b, type) : r.key = key

(* Every reference resolves within the bundle.                               *)
Valid(b) ==
    /\ \A d \in OfType(b, "destination") :
        /\ Has(b, "partner", d.partner)
        /\ \E t \in OfType(b, "transformation") :
                t.key = d.transformation /\ t.number = d.active
    /\ \A s \in OfType(b, "subscription") : Has(b, "destination", s.destination)

-------------------------------------------------------------------------------
(* The target.                                                               *)

CurrentPartner(key) == Get(PartnerKey(IdOf("PARTNER", key)))
CurrentDestination(key) == Get(DestinationKey(IdOf("DESTINATION", key)))
CurrentSubscription(key) == Get(CatalogKey(IdOf("SUBSCRIPTION", key)))
CurrentVersion(r) == Get(VersionKey(IdOf("TRANSFORMATION", r.key), r.number))
Current(r) ==
    CASE r.type = "partner" -> CurrentPartner(r.key)
      [] r.type = "transformation" -> CurrentVersion(r)
      [] r.type = "destination" -> CurrentDestination(r.key)
      [] r.type = "subscription" -> CurrentSubscription(r.key)

TransformationAction(r) ==
    IF Current(r) = Absent THEN "CREATE"
    ELSE IF Current(r).definition # r.definition THEN "CONFLICT" ELSE "UNCHANGED"

(* What a bundle says of a partner: a name, and perhaps a description.       *)
PartnerConfig(p) == [f \in DOMAIN p \cap {"name", "description"} |-> p[f]]

PartnerAction(r) ==
    IF Current(r) = Absent THEN "CREATE"
    ELSE IF PartnerConfig(Current(r)) = PartnerConfig(r) THEN "UNCHANGED" ELSE "UPDATE"

SameDestination(r, d) ==
    LET t == IdOf("TRANSFORMATION", r.transformation)
    IN /\ d.enabled = r.enabled
       /\ d.alias = r.alias
       /\ d.active = r.active
       /\ t \in {NoId, d.transformation}

DestinationAction(b, r) ==
    LET d == Current(r)
        blocked ==
            \/ \E t \in OfType(b, "transformation") :
                    /\ t.key = r.transformation /\ t.number = r.active
                    /\ TransformationAction(t) = "CONFLICT"
            \/ r.enabled /\ secret[r.alias] = 0
    IN CASE blocked -> "BLOCKED"
         [] ~blocked /\ d = Absent -> "CREATE"
         [] OTHER ->
            IF IdOf("PARTNER", r.partner) \notin {NoId, d.partner} THEN "CONFLICT"
            ELSE IF SameDestination(r, d) THEN "UNCHANGED" ELSE "UPDATE"

SubscriptionAction(b, r) ==
    LET s == Current(r)
        parent == {DestinationAction(b, d) :
                    d \in {d \in OfType(b, "destination") : d.key = r.destination}}
    IN CASE parent \cap {"BLOCKED", "CONFLICT"} # {} -> "BLOCKED"
         [] parent \cap {"BLOCKED", "CONFLICT"} = {} /\ s = Absent -> "CREATE"
         [] OTHER ->
            IF \/ IdOf("DESTINATION", r.destination) \notin {NoId, s.destination}
               \/ s.eventType # r.eventType
            THEN "CONFLICT"
            ELSE IF s.enabled = r.enabled THEN "UNCHANGED" ELSE "UPDATE"

Action(b, r) ==
    CASE r.type = "partner" -> PartnerAction(r)
      [] r.type = "transformation" -> TransformationAction(r)
      [] r.type = "destination" -> DestinationAction(b, r)
      [] r.type = "subscription" -> SubscriptionAction(b, r)

(* Mutant: the target's fingerprint leaves out its version.                  *)
BugFingerprint(r) == [Current(r) EXCEPT !.version = IF @ = 0 THEN 0 ELSE 1]

Fingerprint(r) == Current(r)

(* What the receipt signs.                                                   *)
Plan(b) ==
    [n \in DOMAIN b |-> [action |-> Action(b, b[n]), target |-> Fingerprint(b[n])]]

-------------------------------------------------------------------------------
(* Operations of an export.                                                  *)

NothingAsked == UNCHANGED vars
Free(i) ==
    /\ import[i].phase \in {"idle", "exported", "applied", "failed"}
    /\ import[i].plans < MaxPlans

(* Mutant: the transformations are listed before what refers to them.        *)
BugListed == <<"VERSION", "PARTNER", "DESTINATION", "SUBSCRIPTION">>

(* The order of the lists.  The versions stand for the transformations and   *)
(* their versions, which are listed next and only become more.               *)
Listed == <<"PARTNER", "DESTINATION", "SUBSCRIPTION", "VERSION">>

BeginExport(i) ==
    /\ Free(i)
    /\ ~hosted
    /\ import' = [import EXCEPT ![i] = [NoImport EXCEPT
                    !.phase = "listing", !.plans = import[i].plans + 1, !.alone = TRUE]]
    /\ NothingAsked

(* A destination may name a version that does not exist: neither the API nor *)
(* an import asks for it.  (History: how it was when they were listed.)      *)
NoneDangles ==
    \A k \in Existing("DESTINATION") :
        VersionKey(table[k].transformation, table[k].active) \in DOMAIN table

List(i) ==
    /\ import[i].phase = "listing"
    /\ Len(import[i].lists) < Len(Listed)
    /\ LET class == Listed[Len(import[i].lists) + 1]
       IN  import' = [import EXCEPT
                ![i].lists = Append(@, {table[k] : k \in Existing(class)}),
                ![i].sound = IF class = "DESTINATION" THEN NoneDangles ELSE @]
    /\ NothingAsked

Items(lists, class) == lists[CHOOSE n \in DOMAIN Listed : Listed[n] = class]
Knows(lists, class, i) == \E item \in Items(lists, class) : item.id = i
KeyOf(lists, class, i) ==
    (CHOOSE item \in Items(lists, class) : item.id = i).key

(* Every reference can be written as a key of what was listed.               *)
Representable(lists) ==
    /\ \A d \in Items(lists, "DESTINATION") :
        /\ Knows(lists, "PARTNER", d.partner)
        /\ Knows(lists, "VERSION", d.transformation)
    /\ \A s \in Items(lists, "SUBSCRIPTION") :
        Knows(lists, "DESTINATION", s.destination)

Exported(lists) ==
    SetToSeq({Merge([type |-> "partner", key |-> p.key], PartnerConfig(p)) :
                p \in Items(lists, "PARTNER")})
    \o SetToSeq({[type |-> "transformation", key |-> v.key,
                  number |-> v.version, definition |-> v.definition] :
                v \in Items(lists, "VERSION")})
    \o SetToSeq({[type |-> "destination", key |-> d.key,
                  partner |-> KeyOf(lists, "PARTNER", d.partner),
                  transformation |-> KeyOf(lists, "VERSION", d.transformation),
                  active |-> d.active, enabled |-> d.enabled, alias |-> d.alias] :
                d \in Items(lists, "DESTINATION")})
    \o SetToSeq({[type |-> "subscription", key |-> s.key,
                  destination |-> KeyOf(lists, "DESTINATION", s.destination),
                  eventType |-> s.eventType, enabled |-> s.enabled] :
                s \in Items(lists, "SUBSCRIPTION")})

EndExport(i) ==
    /\ import[i].phase = "listing"
    /\ Len(import[i].lists) = Len(Listed)
    /\ import' = IF Representable(import[i].lists)
                 THEN [import EXCEPT ![i].phase = "exported"]
                 ELSE [import EXCEPT ![i] = [NoImport EXCEPT
                        !.phase = "failed", !.plans = import[i].plans]]
    /\ NothingAsked

-------------------------------------------------------------------------------
(* Operations of an import.                                                  *)

MakePlan(i) ==
    /\ Free(i)
    /\ \E b \in Bundles :
        /\ Valid(b)
        /\ import' = [import EXCEPT ![i] = [NoImport EXCEPT
                        !.phase = "planned", !.bundle = b, !.receipt = Plan(b),
                        !.plans = import[i].plans + 1]]
    /\ NothingAsked

(* Apply, any time and any number of times, until the receipt is given up.   *)
BeginApply(i) ==
    /\ import[i].phase \in {"planned", "applied", "failed"}
    /\ import[i].receipt = Plan(import[i].bundle)
    /\ import' = [import EXCEPT ![i].phase = "applying", ![i].at = 1,
                                ![i].alone = TRUE]
    /\ NothingAsked

(* PLAN_DRIFT                                                                *)
Drift(i) ==
    /\ import[i].phase = "planned"
    /\ import[i].receipt # Plan(import[i].bundle)
    /\ import' = [import EXCEPT ![i].phase = "failed"]
    /\ NothingAsked

Applying(i) ==
    /\ import[i].phase = "applying"
    /\ request[i] = NoRequest
    /\ import[i].at \in DOMAIN import[i].bundle
Resource(i) == import[i].bundle[import[i].at]
Wanted(i) == import[i].receipt[import[i].at].action

Skip(i) ==
    /\ Applying(i)
    /\ \/ Wanted(i) \notin {"CREATE", "UPDATE"}
       \/ /\ Resource(i).type = "partner"
          /\ Wanted(i) = "UPDATE" /\ Current(Resource(i)) = Absent
    /\ import' = [import EXCEPT ![i].at = @ + 1]
    /\ NothingAsked

(* The service's operation for one resource.                                 *)
Operation(name, id, changes) ==
    [name |-> name, id |-> id, credential |-> "none", changes |-> changes]

PartnerOperation(r) ==
    Operation("updatePartner", IdOf("PARTNER", r.key), PartnerConfig(r))

(* Mutant: the imported version is not activated.                            *)
BugDestinationChanges(r) ==
    [partner |-> IdOf("PARTNER", r.partner), enabled |-> r.enabled,
     transformation |-> IdOf("TRANSFORMATION", r.transformation),
     active |-> 1, alias |-> r.alias, key |-> r.key]

DestinationChanges(r) ==
    [partner |-> IdOf("PARTNER", r.partner), enabled |-> r.enabled,
     transformation |-> IdOf("TRANSFORMATION", r.transformation),
     active |-> r.active, alias |-> r.alias, key |-> r.key]
SubscriptionChanges(r) ==
    [key |-> r.key, destination |-> IdOf("DESTINATION", r.destination),
     eventType |-> r.eventType, enabled |-> r.enabled]

(* With one that does not exist yet, and with one that does.                 *)
CreateOperation(r) ==
    CASE r.type = "partner" ->
            Operation("createPartner", NoId, Merge([key |-> r.key], PartnerConfig(r)))
      [] r.type = "transformation" ->
            Operation("createTransformation", NoId,
                      [key |-> r.key, definition |-> r.definition])
      [] r.type = "destination" ->
            Operation("createDestination", NoId, DestinationChanges(r))
      [] r.type = "subscription" ->
            Operation("createSubscription", NoId, SubscriptionChanges(r))
UpdateOperation(r) ==
    CASE r.type = "partner" -> PartnerOperation(r)
      [] r.type = "transformation" ->
            Operation("createTransformationVersion",
                      IdOf("TRANSFORMATION", r.key), [definition |-> r.definition])
      [] r.type = "destination" ->
            Operation("updateDestination", IdOf("DESTINATION", r.key),
                      DestinationChanges(r))
      [] r.type = "subscription" ->
            Operation("updateSubscription", IdOf("SUBSCRIPTION", r.key),
                      [enabled |-> r.enabled])

(* What the operation builds on, read when the resource's turn comes.        *)
Found(r) ==
    IF r.type = "transformation" THEN Latest(IdOf("TRANSFORMATION", r.key))
    ELSE Current(r)

(* A pointer just written may not be found by a read that lags.              *)
Unresolved(r) ==
    \/ /\ r.type = "destination"
       /\ \/ Absent \in Reads(ExternalKey("PARTNER", r.partner))
          \/ Absent \in Reads(ExternalKey("TRANSFORMATION", r.transformation))
    \/ /\ r.type = "subscription"
       /\ Absent \in Reads(ExternalKey("DESTINATION", r.destination))
Resolved(r) ==
    /\ r.type = "destination" =>
        NoId \notin {IdOf("PARTNER", r.partner),
                     IdOf("TRANSFORMATION", r.transformation)}
    /\ r.type = "subscription" => IdOf("DESTINATION", r.destination) # NoId

(* The plan's word decides only whether a partner is created; the others are *)
(* created or updated by what is there now.                                  *)
Creates(i) ==
    IF Resource(i).type = "partner" THEN Wanted(i) = "CREATE"
    ELSE Found(Resource(i)) = Absent

Ask(i, op, todo, seen) ==
    request' = [request EXCEPT ![i] =
        [NoRequest EXCEPT !.op = op, !.todo = todo, !.seen = seen,
                          !.expected = seen.version]]

ApplyResource(i) ==
    LET r == Resource(i)
    IN /\ Applying(i)
       /\ Wanted(i) \in {"CREATE", "UPDATE"}
       /\ Resolved(r)
       /\ IF Creates(i)
          THEN Ask(i, CreateOperation(r), Todo(CreateOperation(r)), Absent)
          ELSE /\ Found(r) # Absent
               /\ Ask(i, UpdateOperation(r), <<"write">>, Found(r))
       /\ UNCHANGED <<hosted, store, credentials, faults, import>>

DependencyChanged(i) ==
    /\ Applying(i)
    /\ Wanted(i) \in {"CREATE", "UPDATE"}
    /\ Unresolved(Resource(i))
    /\ import' = [import EXCEPT ![i].phase = "failed"]
    /\ NothingAsked

(* The service's operation returned, or threw and ended the import.          *)
Returned(i) ==
    /\ request[i].outcome # "none"
    /\ request' = [request EXCEPT ![i] = NoRequest]
    /\ import' = [import EXCEPT
            ![i] = IF request[i].outcome = "ok"
                   THEN [@ EXCEPT !.at = import[i].at + 1, !.changed = TRUE]
                   ELSE [@ EXCEPT !.phase = "failed"]]
    /\ UNCHANGED <<hosted, store, credentials, faults>>

Complete(i) ==
    /\ import[i].phase = "applying"
    /\ import[i].at \notin DOMAIN import[i].bundle
    /\ import' = [import EXCEPT ![i].phase = "applied"]
    /\ NothingAsked

ImportStep(i) ==
    \/ BeginExport(i) \/ List(i) \/ EndExport(i)
    \/ MakePlan(i) \/ BeginApply(i) \/ Drift(i) \/ Skip(i) \/ ApplyResource(i)
    \/ DependencyChanged(i) \/ Returned(i) \/ Complete(i)

(* A step of the API or of the service; what changes the table or the        *)
(* credentials is noted as interference with the imports of the others.      *)
ServiceStep ==
    \/ /\ \E c \in Clients : \E op \in Operations[c] : Begin(c, op)
       /\ UNCHANGED import
    \/ \E c \in Slots :
        /\ Step(c)
        /\ import' = [i \in Importers |-> [import[i] EXCEPT
                !.alone = @ /\ (c = i \/ UNCHANGED <<table, secret>>)]]

ImportNext == ServiceStep \/ \E i \in Importers : ImportStep(i)
ImportSpec == ImportInit /\ [][ImportNext]_allVars
===============================================================================
