----------------------------- MODULE MCReconcile -----------------------------
(***************************************************************************)
(* Instances of Reconcile.  The zones z1 and z2 are managed, zx is kept    *)
(* out by the domain filter.  a and c are an A and a CNAME recordset of    *)
(* the same name in z1, b lives in z2, f is a recordset of z1 that         *)
(* ExternalDNS does not own, x would live in zx.                           *)
(***************************************************************************)
EXTENDS Reconcile

CONSTANTS z1, z2, zx, a, b, c, f, x, r1, r2, t1, t2, l0, l1

MCZoneOf == [k \in Key |-> CASE k = b -> z2 [] k = x -> zx [] OTHER -> z1]
MCZoneTTL == [z \in Zone |-> t1]
MCRivals == [k \in Key |-> CASE k = a -> {c} \cap Key [] k = c -> {a} [] OTHER -> {}]

E1(recs, ttl, labels) == [recs |-> recs, ttl |-> ttl, labels |-> labels]
Wish(f1) == [k \in Key |-> IF k \in DOMAIN f1 THEN f1[k] ELSE None]

WishA == Wish([k \in {a} |-> E1(r1, None, l0)])
WishC == Wish([k \in {b, c} |-> IF k = c THEN E1(r1, t2, l1) ELSE E1(r2, t1, BadLabels)])
WishB == Wish([k \in {a, b} |-> IF k = a THEN E1(r2, t2, l1) ELSE E1(r1, None, l0)])
MCWishes == {WishA, WishB, WishC}

\* One more wish, for a name that lies in the filtered-out zone.
WishX == Wish([k \in {a, x} |-> E1(r1, None, l0)])
MCWishesX == {WishX, WishA}

Stored == Wish([k \in {a, b, f} |->
                  CASE k = a -> E1(r1, None, l1) [] k = b -> E1(r2, t2, l0)
                    [] k = f -> E1(r1, t2, l0)])
MCStartDNS == {Nothing, Stored}
MCEdits == {None, E1(r2, t1, l1)}
=============================================================================
