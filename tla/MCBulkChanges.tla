---------------------------- MODULE MCBulkChanges ----------------------------
(***************************************************************************)
(* Instances of BulkChanges: a and b are recordsets of the cluster in z1   *)
(* (or b in z2, where there is such a zone), f is one of z1 that           *)
(* ExternalDNS does not own, c one of the zone z3 that the filter keeps    *)
(* out, and bad a list of record values that do not parse.                 *)
(***************************************************************************)
EXTENDS BulkChanges

CONSTANTS z1, z2, z3, a, b, c, f, r1, r2, bad, t1, t2, l0, l1

MCZoneOf  == [k \in Key |-> CASE k = b -> IF z2 \in Zone THEN z2 ELSE z1
                           [] k = c -> z3
                           [] OTHER -> z1]
MCZoneTTL == [z \in Zone |-> t1]

E1(recs, ttl, labels) == [recs |-> recs, ttl |-> ttl, labels |-> labels]
Wish(f1) == [k \in Key |-> IF k \in DOMAIN f1 THEN f1[k] ELSE None]

WishNone == Nothing
WishAll  == Wish([k \in Owned |-> IF k = b THEN E1(r1, None, l0) ELSE E1(r2, t2, l0)])
WishBad  == Wish([k \in Owned |-> E1(IF k = a THEN bad ELSE r2, t2, l0)])
MCWishes == {WishNone, WishAll, WishBad}

\* A wish with labels.
WishLabels == {Wish([k \in {a} |-> E1(r1, t1, l1)])}

Stored == Wish([k \in {a, f} |-> IF k = a THEN E1(r1, None, l0) ELSE E1(r1, t2, l1)])
MCStartDNS == {Stored}
MCEdits == {None, E1(r2, t1, l1)}

MCStartSerial == {Unsupported, [age |-> 0, version |-> MaxVersion], [age |-> 1, version |-> 1]}
MCSupported   == MCStartSerial \ {Unsupported}
=============================================================================
