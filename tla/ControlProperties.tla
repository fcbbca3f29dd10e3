--------------------------- MODULE ControlProperties ---------------------------
(***************************************************************************)
(* What the control plane and the import of bundles promise.               *)
(***************************************************************************)
EXTENDS ConfigPortability

Steps == {"read", "audit", "secret", "write"}
Outcomes == {"none", "ok", "refused", "conflict", "failed"}
Phases == {"idle", "listing", "exported", "planned", "applying", "applied", "failed"}

(* The state is well formed.                                                 *)
TypeOK ==
    /\ hosted \in BOOLEAN
    /\ \A k \in DOMAIN table : table[k].version \in Nat \ {0}
    /\ audits \in [Ids -> Nat]
    /\ rotations \in [Aliases -> Nat]
    /\ secret \in [Aliases -> Nat]
    /\ resumes \in [Ids -> Nat]
    /\ \A c \in Slots :
        /\ request[c].todo \in Seq(Steps)
        /\ request[c].outcome \in Outcomes
        /\ request[c].seen # Absent => request[c].op # NoOperation
    /\ \A i \in Importers :
        /\ import[i].phase \in Phases
        /\ import[i].at \in 0..(Len(import[i].bundle) + 1)
        /\ Len(import[i].receipt) = Len(import[i].bundle)
    /\ faults \in 0..MaxFaults

-------------------------------------------------------------------------------
(* Each resource has one external key and each external key one resource;    *)
(* the routing table and the catalogue hold the same subscriptions.          *)
Homes(kind) == IF kind = "TRANSFORMATION" THEN {k \in Existing("VERSION") : k[3] = 1}
               ELSE Existing(kind)
Pointers(kind) == {k \in Existing("EXTERNAL") : k[2] = kind}

(* However requests, imports, errors and retries interleave, the items one   *)
(* resource is stored in agree: a subscription is in the routing table as it *)
(* is in the catalogue or in neither, and external keys and resources match  *)
(* one to one.                                                               *)
ViewsAgree ==
    /\ \A kind \in Kinds :
        /\ {<<k[3], table[k].id>> : k \in Pointers(kind)}
            = {<<table[k].key, k[2]>> : k \in Homes(kind)}
        /\ Cardinality(Pointers(kind)) = Cardinality(Homes(kind))
    /\ {table[k] : k \in Existing("EVENT_TYPE")}
        = {table[k] : k \in Existing("SUBSCRIPTION")}
    /\ \A k \in Existing("EVENT_TYPE") : k = RouteKey(table[k])

(* The number of accepted changes to a resource is the number of audit       *)
(* events that name it; refused and abandoned ones leave none.  Only a       *)
(* change built on a read that lagged is audited without a version of its    *)
(* own.                                                                      *)
AuditTrail ==
    \A k \in DOMAIN table :
        k[1] \in {"PARTNER", "DESTINATION", "SUBSCRIPTION"} =>
            /\ audits[k[2]] >= table[k].version
            /\ ~hosted => audits[k[2]] = table[k].version

(* A write built on a lagging read was accepted.  It may have given a second *)
(* content to a version, which protects nobody any more.                     *)
LateWrite == \E c \in Slots : request[c].late /\ request[c].outcome = "ok"

(* No lost update: what replaces an item is the next version of exactly that *)
(* item, so a version names one content; a transformation version is never   *)
(* replaced.  The condition checks the client's If-Match and not the version *)
(* the request read, so on DynamoDB a lagging read is the one exception.     *)
VersionsAdvance ==
    [][\A k \in DOMAIN table \cap DOMAIN table' :
        table'[k] # table[k] =>
            \/ k[1] \notin {"EXTERNAL", "VERSION"}
               /\ table'[k].version = table[k].version + 1
            \/ LateWrite']_allVars

(* Whoever enables a destination that is disabled also commits the request   *)
(* to resume its deliveries, with the same exception.                        *)
ResumeRequested ==
    [][\A k \in DOMAIN table \cap DOMAIN table' :
        k[1] = "DESTINATION" /\ ~table[k].enabled /\ table'[k].enabled =>
            resumes'[k[2]] = resumes[k[2]] + 1 \/ LateWrite']_allVars

-------------------------------------------------------------------------------
(* The versions of each transformation of the bundle are 1, 2, ...           *)
Gapless(b) ==
    \A t \in OfType(b, "transformation") :
        \A n \in 1..t.number : \E u \in OfType(b, "transformation") :
            u.key = t.key /\ u.number = n

(* What an import leaves as it was: a description the bundle leaves out, and *)
(* the transformation of a destination that passed for unchanged before the  *)
(* one it should have was created.                                           *)
KeepsDescription(r) ==
    r.type = "partner" /\ "description" \in DOMAIN Current(r) \ DOMAIN r
KeepsTransformation(m, n) ==
    /\ m.bundle[n].type = "destination" /\ m.receipt[n].action = "UNCHANGED"
    /\ \A k \in DOMAIN m.bundle :
        m.bundle[k].type = "transformation" /\ m.bundle[k].key = m.bundle[n].transformation
            => m.receipt[k].action = "CREATE"

Settles(m) == m.phase = "applied" /\ m.alone /\ Gapless(m.bundle)
LeftToDo(m, n) == Action(m.bundle, m.bundle[n]) \in {"CREATE", "UPDATE"}

(* After an import that nobody interfered with, even one that completes the  *)
(* work of an import that failed half-way, nothing is left to create or to   *)
(* update but for these two, which the plan after it finds again (the test   *)
(* tests/integration/m02.integration.test.ts:310 expects every item          *)
(* unchanged, of a bundle without them).  A bundle that skips version        *)
(* numbers is renumbered.                                                    *)
Converges ==
    \A i \in Importers : Settles(import[i]) =>
        \A n \in DOMAIN import[i].bundle : LeftToDo(import[i], n) =>
            \/ KeepsDescription(import[i].bundle[n])
            \/ KeepsTransformation(import[i], n)

(* An export is a bundle an import accepts, although other requests change   *)
(* the configuration between its lists; and when nobody did, planning it     *)
(* against the same tenant finds nothing to do.  (Not so if a destination    *)
(* already named a version that does not exist.)                             *)
ExportRoundTrips ==
    \A i \in Importers :
        import[i].phase = "exported" /\ import[i].sound =>
            LET b == Exported(import[i].lists)
            IN  /\ Valid(b)
                /\ import[i].alone =>
                    \A n \in DOMAIN b : Action(b, b[n]) \in {"UNCHANGED", "BLOCKED"}

(* A receipt is spent by the first change made with it: whatever others undo *)
(* in between, it is refused afterwards - unless a resource is gone again.   *)
ReceiptSpent ==
    [][\A i \in Importers :
        /\ import[i].phase # "applying"
        /\ import'[i].phase = "applying"
        /\ import[i].changed
        => \E n \in DOMAIN import[i].bundle :
                Current(import[i].bundle[n]) = Absent]_allVars
===============================================================================
