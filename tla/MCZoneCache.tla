----------------------------- MODULE MCZoneCache -----------------------------
(***************************************************************************)
(* Instances of ZoneCache.  sub is a zone nested in top; other is kept out *)
(* by the domain filter.  deep is a DNS name below sub, flat one in top    *)
(* only, away one in other.                                                *)
(***************************************************************************)
EXTENDS ZoneCache

CONSTANTS top, sub, other, deep, flat, away

MCSuffixes == [n \in Name |-> CASE n = deep -> <<sub, top>>
                                [] n = flat -> <<top>>
                                [] n = away -> <<other>>]
=============================================================================
