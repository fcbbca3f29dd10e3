---------------------------- MODULE MCControlPlane ----------------------------
(***************************************************************************)
(* A small tenant for TLC: one resource of each kind, a bundle that        *)
(* changes them all, one that adds more, and one that leaves a             *)
(* description out and names another transformation.                       *)
(***************************************************************************)
EXTENDS ControlProperties

MCPartner == [id |-> 1, key |-> "a", name |-> "x", description |-> "p", version |-> 1]
MCVersion == [id |-> 2, key |-> "t", definition |-> "d1", version |-> 1]
MCDestination == [id |-> 3, key |-> "d", partner |-> 1, transformation |-> 2,
                  active |-> 1, enabled |-> FALSE, alias |-> "s", version |-> 1]
MCSubscription == [id |-> 4, key |-> "u", destination |-> 3,
                   eventType |-> "order", enabled |-> TRUE, version |-> 1]
MCItems ==
    {<<PartnerKey(1), MCPartner>>, <<VersionKey(2, 1), MCVersion>>,
     <<DestinationKey(3), MCDestination>>, <<CatalogKey(4), MCSubscription>>,
     <<RouteKey(MCSubscription), MCSubscription>>,
     <<ExternalKey("PARTNER", "a"), Pointer(1)>>,
     <<ExternalKey("TRANSFORMATION", "t"), Pointer(2)>>,
     <<ExternalKey("DESTINATION", "d"), Pointer(3)>>,
     <<ExternalKey("SUBSCRIPTION", "u"), Pointer(4)>>}
MCInitial ==
    [k \in {p[1] : p \in MCItems} |-> (CHOOSE p \in MCItems : p[1] = k)[2]]

MCAsk(name, id, credential, changes) ==
    [name |-> name, id |-> id, credential |-> credential, changes |-> changes]
MCUpdates ==
    {MCAsk("updateDestination", 3, "none", [enabled |-> TRUE, active |-> 2]),
     MCAsk("updatePartner", 1, "none", [name |-> "x"]),
     MCAsk("deleteSubscription", 4, "none", <<>>),
     MCAsk("createDestination", NoId, "n",
           [key |-> "e", partner |-> 5, transformation |-> 2, active |-> 1,
            enabled |-> FALSE, alias |-> "n"])}
MCOffered ==
    {MCAsk("updateDestination", 3, "none", [enabled |-> TRUE]),
     MCAsk("updateDestination", 3, "s", [enabled |-> FALSE, alias |-> "s"]),
     MCAsk("deleteSubscription", 4, "none", <<>>),
     MCAsk("createSubscription", NoId, "none",
           [key |-> "u", destination |-> 3, eventType |-> "order", enabled |-> TRUE]),
     MCAsk("createTransformationVersion", 2, "none", [definition |-> "d2"]),
     MCAsk("createPartner", NoId, "none", [key |-> "b", name |-> "x"])}
MCOperations == [c \in Clients |-> IF c = "api1" THEN MCOffered ELSE MCUpdates]

MCTransformation(key, n, definition) ==
    [type |-> "transformation", key |-> key, number |-> n, definition |-> definition]
MCChanging ==
    <<[type |-> "partner", key |-> "a", name |-> "y", description |-> "p"],
      MCTransformation("t", 1, "d1"), MCTransformation("t", 2, "d2"),
      [type |-> "destination", key |-> "d", partner |-> "a", transformation |-> "t",
       active |-> 2, enabled |-> TRUE, alias |-> "s"],
      [type |-> "subscription", key |-> "u", destination |-> "d",
       eventType |-> "order", enabled |-> FALSE]>>
MCAdding ==
    <<[type |-> "partner", key |-> "b", name |-> "x"],
      MCTransformation("w", 2, "d2"),
      [type |-> "destination", key |-> "e", partner |-> "b", transformation |-> "w",
       active |-> 2, enabled |-> TRUE, alias |-> "n"],
      [type |-> "subscription", key |-> "v", destination |-> "e",
       eventType |-> "order", enabled |-> TRUE]>>

(* As it is, but for the partner's description and the transformation.       *)
MCMoving ==
    <<[type |-> "partner", key |-> "a", name |-> "x"], MCTransformation("w", 1, "d2"),
      [type |-> "destination", key |-> "d", partner |-> "a", transformation |-> "w",
       active |-> 1, enabled |-> FALSE, alias |-> "s"]>>
MCBundles == {MCChanging, MCAdding, MCMoving}
===============================================================================
