--------------------------- MODULE ZoneCacheProofs ---------------------------
(***************************************************************************)
(* Theorems about ZoneCache, for any zones, names, times to live and       *)
(* limits: the type invariant for any number of handlers, and for one      *)
(* handler the three safety properties.  That two handlers break them is   *)
(* what the run "outages" is about: it asks for repair, not for safety.    *)
(***************************************************************************)
EXTENDS ZoneCache, WellFoundedInduction, TLAPS

-----------------------------------------------------------------------------
(* The type invariant.                                                     *)

LEMMA IdleIsRequest == IdleRequest \in Request
  BY ZoneCacheAssumption DEF IdleRequest, Request, Time

LEMMA TypeInit == Init => TypeOK
  BY ZoneCacheAssumption, IdleIsRequest DEF Init, TypeOK, Time

-----------------------------------------------------------------------------
(* FindZone.                                                               *)

LessThan == {p \in Nat \X Nat : p[1] < p[2]}

\* A set of natural numbers has a least element.
LEMMA LeastElement ==
  ASSUME NEW S \in SUBSET Nat, S # {}
  PROVE  \E m \in S : \A n \in S : m <= n
  <1>1. IsWellFoundedOn(LessThan, Nat)
    <2>1. LessThan = OpToRel(<, Nat)
      BY Zenon DEF LessThan, OpToRel
    <2>2. QED  BY <2>1, NatLessThanWellFounded, Zenon
  <1>2. PICK m \in S : \A n \in S : <<n, m>> \notin LessThan
    BY <1>1, WFMin
  <1>3. ASSUME NEW n \in S
        PROVE  m <= n
    <2>1. m \in Nat /\ n \in Nat
      OBVIOUS
    <2>2. <<n, m>> \notin LessThan
      BY <1>2
    <2>3. QED  BY <2>1, <2>2, Z3 DEF LessThan
  <1>4. QED  BY <1>3

\* The places of the mapped zones among the suffixes of a name.
Suitable(mapper, n) == {i \in DOMAIN Suffixes[n] : Suffixes[n][i] \in mapper}

\* FindZone gives the first mapped zone among the suffixes, if there is any.
LEMMA FirstIsFound ==
  ASSUME NEW mapper, NEW n \in Name
  PROVE  \/ Suitable(mapper, n) = {} /\ FindZone(mapper, n) = None
         \/ \E i \in Suitable(mapper, n) :
              /\ FindZone(mapper, n) = Suffixes[n][i]
              /\ \A j \in Suitable(mapper, n) : i <= j
  <1>1. CASE Suitable(mapper, n) = {}
    BY <1>1 DEF Suitable, FindZone
  <1>2. CASE Suitable(mapper, n) # {}
    <2>1. Suffixes[n] \in Seq(Zone)
      BY ZoneCacheAssumption
    <2>2. Suitable(mapper, n) \in SUBSET Nat
      BY <2>1 DEF Suitable
    <2>3. \E i \in Suitable(mapper, n) : \A j \in Suitable(mapper, n) : i <= j
      BY <1>2, <2>2, LeastElement
    <2>4. FindZone(mapper, n) =
            Suffixes[n][CHOOSE i \in Suitable(mapper, n) : \A j \in Suitable(mapper, n) : i <= j]
      BY <1>2 DEF Suitable, FindZone
    <2>5. QED  BY <2>3, <2>4
  <1>3. QED  BY <1>1, <1>2

LEMMA FindsAZone ==
  ASSUME NEW mapper, NEW n \in Name
  PROVE  FindZone(mapper, n) \in (mapper \cap Zone) \cup {None}
  <1>1. Suffixes[n] \in Seq(Zone)
    BY ZoneCacheAssumption
  <1>2. \A i \in Suitable(mapper, n) : Suffixes[n][i] \in mapper \cap Zone
    BY <1>1 DEF Suitable
  <1>3. QED  BY <1>2, FirstIsFound

\* What is found in a map is found in every part of it that holds the zone found.
LEMMA FoundInPart ==
  ASSUME NEW mapper, NEW part \in SUBSET mapper, NEW n \in Name,
         None \notin mapper
  PROVE  FindZone(mapper, n) =
           FindZone(part \cup ({FindZone(mapper, n)} \ {None}), n)
  <1> DEFINE z == FindZone(mapper, n)
             rest == part \cup ({z} \ {None})
  <1>0. Suffixes[n] \in Seq(Zone)
    BY ZoneCacheAssumption
  <1>1. Suitable(rest, n) \subseteq Suitable(mapper, n)
    BY FindsAZone DEF Suitable
  <1>2. CASE Suitable(mapper, n) = {}
    <2>1. z = None /\ Suitable(rest, n) = {}
      BY <1>1, <1>2, FirstIsFound
    <2>2. FindZone(rest, n) = None
      BY <2>1, FirstIsFound
    <2>3. QED  BY <2>1, <2>2
  <1>3. CASE Suitable(mapper, n) # {}
    <2>1. PICK i \in Suitable(mapper, n) :
            z = Suffixes[n][i] /\ \A j \in Suitable(mapper, n) : i <= j
      BY <1>3, FirstIsFound
    <2>2. z # None
      BY <2>1 DEF Suitable
    <2>3. i \in Suitable(rest, n)
      BY <2>1, <2>2 DEF Suitable
    <2>4. PICK k \in Suitable(rest, n) :
            FindZone(rest, n) = Suffixes[n][k] /\ \A j \in Suitable(rest, n) : k <= j
      BY <2>3, FirstIsFound
    <2>5. i <= k /\ k <= i
      BY <1>1, <2>1, <2>3, <2>4
    <2>6. i \in Nat /\ k \in Nat
      BY <1>0 DEF Suitable
    <2>7. QED  BY <2>1, <2>4, <2>5, <2>6
  <1>4. QED  BY <1>2, <1>3

-----------------------------------------------------------------------------
(* The type invariant is preserved.                                        *)

LEMMA Arithmetic ==
  ASSUME NEW t \in Time
  PROVE  /\ Shorter(t, 1) \in Time /\ Capped(t + 1, ZoneCacheTTL) \in Time
         /\ Shorter(ZoneCacheTTL, t) \in Time
  BY ZoneCacheAssumption DEF Time, Shorter, Capped

LEMMA CappedCount ==
  ASSUME NEW c \in 0..MaxFailCount
  PROVE  Capped(c + 1, MaxFailCount) \in 0..MaxFailCount
  BY ZoneCacheAssumption DEF Capped

\* A request that is replaced by a request.
LEMMA RequestReplaced ==
  ASSUME TypeOK, NEW h \in Handler, NEW r \in Request, req' = [req EXCEPT ![h] = r]
  PROVE  /\ req' \in [Handler -> Request]
         /\ req'[h] = r
         /\ \A g \in Handler \ {h} : req'[g] = req[g]
  BY DEF TypeOK

LEMMA CountsRecords ==
  ASSUME TypeOK, NEW h \in Handler, NEW failed \in BOOLEAN, CountRecords(h, failed)
  PROVE  failedRecords' \in 0..MaxFailCount
  BY CappedCount, ZoneCacheAssumption DEF TypeOK, CountRecords

LEMMA Resets ==
  ASSUME TypeOK, NEW kind, resetFailCount(kind)
  PROVE  failCount' \in Nat /\ failedListings' \in 0..MaxFailCount
  BY ZoneCacheAssumption DEF TypeOK, resetFailCount

LEMMA ReturnIsTyped ==
  ASSUME TypeOK, NEW h \in Handler, Return(h)
  PROVE  req' \in [Handler -> Request]
  BY RequestReplaced, IdleIsRequest DEF Return

LEMMA BeginIsTyped ==
  ASSUME TypeOK, NEW h \in Handler, NEW kind \in {"Records", "ApplyChanges"}, Begin(h, kind)
  PROVE  TypeOK'
  <1>1. CASE CacheValid
    <2>1. zoneCache \in SUBSET Zone
      BY <1>1 DEF CacheValid, TypeOK
    <2>2. [IdleRequest EXCEPT !.pc = "read", !.kind = kind, !.zones = zoneCache,
                              !.unread = zoneCache] \in Request
      BY <2>1, IdleIsRequest DEF Request
    <2>3. req' \in [Handler -> Request]
      BY <1>1, <2>2, RequestReplaced DEF Begin
    <2>4. failCount' \in Nat /\ failedListings' \in 0..MaxFailCount
      BY <1>1, Resets DEF Begin
    <2>5. QED  BY <2>3, <2>4 DEF Begin, TypeOK, hetzner
  <1>2. CASE ~CacheValid
    <2>1. [IdleRequest EXCEPT !.pc = "list", !.kind = kind] \in Request
      BY IdleIsRequest DEF Request
    <2>2. req' \in [Handler -> Request]
      BY <1>2, <2>1, RequestReplaced DEF Begin
    <2>3. QED  BY <1>2, <2>2 DEF Begin, TypeOK, hetzner
  <1>3. QED  BY <1>1, <1>2

LEMMA StoreExpiryIsTyped ==
  ASSUME TypeOK, NEW h \in Handler, StoreExpiry(h)
  PROVE  TypeOK'
  <1> DEFINE zones == req[h].listed \cap Managed
             r == [IdleRequest EXCEPT !.pc = "read", !.kind = req[h].kind,
                                      !.zones = zones, !.unread = zones]
  <1>1. req[h] \in Request
    BY DEF TypeOK
  <1>2. r \in Request
    BY <1>1, IdleIsRequest DEF Request
  <1>3. req' = [req EXCEPT ![h] = r]
    BY DEF StoreExpiry
  <1>4. req' \in [Handler -> Request]
    BY <1>2, <1>3, RequestReplaced
  <1>5. cacheLeft' \in Time
    BY <1>1, Arithmetic DEF StoreExpiry, Validity, Request
  <1>6. failCount' \in Nat /\ failedListings' \in 0..MaxFailCount
    BY Resets DEF StoreExpiry
  <1>7. QED  BY <1>4, <1>5, <1>6 DEF StoreExpiry, TypeOK, hetzner

LEMMA TickIsTyped ==
  ASSUME TypeOK, Tick
  PROVE  TypeOK'
  <1>1. ASSUME NEW h \in Handler
        PROVE  req'[h] \in Request
    <2>1. req[h] \in Request
      BY DEF TypeOK
    <2>2. Capped(req[h].elapsed + 1, ZoneCacheTTL) \in Time
      BY <2>1, Arithmetic DEF Request
    <2>3. Capped(req[h].age + 1, ZoneCacheTTL) \in Time
      BY <2>1, Arithmetic DEF Request
    <2>4. QED  BY <2>1, <2>2, <2>3 DEF Tick, Request
  <1>2. req' \in [Handler -> Request]
    BY <1>1 DEF Tick
  <1>3. cacheLeft' \in Time /\ cacheAge' \in Time
    BY Arithmetic DEF Tick, TypeOK
  <1>4. QED  BY <1>2, <1>3 DEF Tick, TypeOK, hetzner, failures

LEMMA HandleIsTyped ==
  ASSUME TypeOK, NEW h \in Handler, Handle(h)
  PROVE  TypeOK'
  <1> USE DEF hetzner, provider, failures
  <1>0. req[h] \in Request
    BY DEF TypeOK
  <1>1. CASE fetchZones(h)
    <2>1. [req[h] EXCEPT !.pc = "map", !.listed = Live] \in Request
      BY <1>0 DEF Request, Live
    <2>2. req' \in [Handler -> Request]
      BY <1>1, <2>1 DEF fetchZones, TypeOK
    <2>3. QED  BY <1>1, <2>2 DEF fetchZones, TypeOK
  <1>2. CASE fetchZonesFails(h)
    <2>1. failedRecords' \in 0..MaxFailCount
      BY <1>2, CountsRecords DEF fetchZonesFails
    <2>2. req' \in [Handler -> Request] /\ failedListings' \in 0..MaxFailCount
      <3>1. CASE req[h].kind = "Records" /\ MaxFailCount > 0
        <4>1. [req[h] EXCEPT !.pc = "inc"] \in Request
          BY <1>0 DEF Request
        <4>2. QED  BY <1>2, <3>1, <4>1, CappedCount DEF fetchZonesFails, TypeOK
      <3>2. CASE ~(req[h].kind = "Records" /\ MaxFailCount > 0)
        BY <1>2, <3>2, ReturnIsTyped DEF fetchZonesFails, TypeOK
      <3>3. QED  BY <3>1, <3>2
    <2>3. QED  BY <1>2, <2>1, <2>2 DEF fetchZonesFails, TypeOK
  <1>3. CASE ensureZoneIDMappingPresent(h)
    <2>1. [req[h] EXCEPT !.pc = "cache"] \in Request
      BY <1>0 DEF Request
    <2>2. req' \in [Handler -> Request]
      BY <1>3, <2>1 DEF ensureZoneIDMappingPresent, TypeOK
    <2>3. zoneIDNameMapper' \subseteq Zone
      BY <1>0, <1>3 DEF ensureZoneIDMappingPresent, MapOf, Request
    <2>4. QED  BY <1>3, <2>2, <2>3 DEF ensureZoneIDMappingPresent, TypeOK
  <1>4. CASE StoreCache(h)
    <2>1. [req[h] EXCEPT !.pc = "expiry"] \in Request
      BY <1>0 DEF Request
    <2>2. req' \in [Handler -> Request]
      BY <1>4, <2>1 DEF StoreCache, TypeOK
    <2>3. zoneCache' \in SUBSET Zone /\ cacheAge' \in Time
      BY <1>0, <1>4 DEF StoreCache, Request
    <2>4. QED  BY <1>4, <2>2, <2>3 DEF StoreCache, TypeOK
  <1>5. CASE StoreExpiry(h)
    BY <1>5, StoreExpiryIsTyped
  <1>6. CASE LoadCount(h)
    <2>0. failCount + 1 \in Nat
      BY DEF TypeOK
    <2>1. [req[h] EXCEPT !.pc = "store", !.count = failCount + 1] \in Request
      BY <1>0, <2>0 DEF Request
    <2>2. req' \in [Handler -> Request]
      BY <1>6, <2>1 DEF LoadCount, TypeOK
    <2>3. QED  BY <1>6, <2>2 DEF LoadCount, TypeOK
  <1>7. CASE StoreCount(h)
    <2>1. [req[h] EXCEPT !.pc = "check"] \in Request
      BY <1>0 DEF Request
    <2>2. req' \in [Handler -> Request]
      BY <1>7, <2>1 DEF StoreCount, TypeOK
    <2>3. failCount' \in Nat
      BY <1>0, <1>7 DEF StoreCount, Request
    <2>4. QED  BY <1>7, <2>2, <2>3 DEF StoreCount, TypeOK
  <1>8. CASE CheckCount(h)
    <2>1. req' \in [Handler -> Request] /\ running' \in BOOLEAN
      BY <1>8, ReturnIsTyped, IdleIsRequest DEF CheckCount, TypeOK
    <2>2. QED  BY <1>8, <2>1 DEF CheckCount, TypeOK
  <1>9. CASE fetchRecords(h)
    <2>1. PICK z \in req[h].unread : req' = [req EXCEPT ![h].unread = @ \ {z}]
      BY <1>9 DEF fetchRecords
    <2>2. [req[h] EXCEPT !.unread = @ \ {z}] \in Request
      BY <1>0 DEF Request
    <2>3. req' \in [Handler -> Request]
      BY <2>1, <2>2 DEF TypeOK
    <2>4. QED  BY <1>9, <2>3 DEF fetchRecords, TypeOK
  <1>10. CASE fetchRecordsFails(h)
    <2>1. failedRecords' \in 0..MaxFailCount
      BY <1>10, CountsRecords DEF fetchRecordsFails
    <2>2. QED  BY <1>10, <2>1, ReturnIsTyped DEF fetchRecordsFails, TypeOK
  <1>11. CASE ReturnRecords(h)
    <2>1. failedRecords' \in 0..MaxFailCount
      BY <1>11, CountsRecords DEF ReturnRecords
    <2>2. QED  BY <1>11, <2>1, ReturnIsTyped DEF ReturnRecords, TypeOK
  <1>12. CASE GroupChanges(h)
    <2>1. [n \in Name |-> FindZone(zoneIDNameMapper, n)] \in [Name -> Zone \cup {None}]
      BY FindsAZone
    <2>2. [req[h] EXCEPT !.pc = "process",
             !.groups = [n \in Name |-> FindZone(zoneIDNameMapper, n)]] \in Request
      BY <1>0, <2>1 DEF Request
    <2>3. req' \in [Handler -> Request]
      BY <1>12, <2>2 DEF GroupChanges, TypeOK
    <2>4. QED  BY <1>12, <2>3 DEF GroupChanges, TypeOK
  <1>13. CASE ProcessChanges(h)
    BY <1>13, ReturnIsTyped DEF ProcessChanges, TypeOK
  <1>14. QED
    BY <1>1, <1>2, <1>3, <1>4, <1>5, <1>6, <1>7, <1>8, <1>9, <1>10, <1>11, <1>12, <1>13
    DEF Handle

LEMMA WorldIsTyped ==
  ASSUME TypeOK,
         (\E z \in Zone : CreateZone(z) \/ DeleteZone(z)) \/ Outage \/ Restart
  PROVE  TypeOK'
  <1> USE DEF hetzner, provider, failures
  <1>1. ASSUME NEW z \in Zone, CreateZone(z) \/ DeleteZone(z)
        PROVE  TypeOK'
    BY <1>1 DEF CreateZone, DeleteZone, TypeOK
  <1>2. CASE Outage
    BY <1>2 DEF Outage, TypeOK
  <1>3. CASE Restart
    BY <1>3, ZoneCacheAssumption DEF Restart, NewProvider, TypeOK, Time
  <1>4. QED  BY <1>1, <1>2, <1>3

LEMMA TypeStep == TypeOK /\ [Next]_vars => TypeOK'
  <1> SUFFICES ASSUME TypeOK, [Next]_vars
               PROVE  TypeOK'
    OBVIOUS
  <1>1. ASSUME NEW h \in Handler, Records(h) \/ ApplyChanges(h)
        PROVE  TypeOK'
    BY <1>1, BeginIsTyped DEF Records, ApplyChanges
  <1>2. ASSUME NEW h \in Handler, Handle(h)
        PROVE  TypeOK'
    BY <1>2, HandleIsTyped
  <1>3. CASE UNCHANGED vars
    BY <1>3 DEF vars, TypeOK
  <1>4. QED  BY <1>1, <1>2, <1>3, WorldIsTyped, TickIsTyped DEF Next

\* The provider's fields, and the requests of any number of handlers, are always
\* of their types: the counts stay within their limits and every zone found for
\* a change is a zone or none.
THEOREM TypeCorrect == Spec => []TypeOK
  <1>1. Init => TypeOK
    BY TypeInit
  <1>2. TypeOK /\ [Next]_vars => TypeOK'
    BY TypeStep
  <1>3. QED  BY <1>1, <1>2, PTL DEF Spec

-----------------------------------------------------------------------------
(* One handler: the steps of a request leave the fields in line.           *)

OneHandler == \E h : Handler = {h}

\* The conjuncts of OneHandlerInv for the handler h.
InvOf(h) ==
  /\ ~running => Idle(h)
  /\ zoneCache = None => cacheLeft = 0
  /\ cacheAge + cacheLeft <= ZoneCacheTTL
  /\ StoredInTime(h) /\ OfOneListing(h) /\ CountsFailures(h)

LEMMA InvOfTheHandler ==
  ASSUME OneHandler, NEW h \in Handler
  PROVE  OneHandlerInv <=> InvOf(h)
  BY DEF OneHandler, OneHandlerInv, InvOf, ServesWhileRunning

LEMMA InvInit == Init => OneHandlerInv
  BY ZoneCacheAssumption
  DEF Init, OneHandlerInv, ServesWhileRunning, Idle, StoredInTime, OfOneListing,
      CountsFailures, IdleRequest

LEMMA BeginKeepsInv ==
  ASSUME TypeOK, TypeOK', NEW h \in Handler, InvOf(h),
         NEW kind \in {"Records", "ApplyChanges"}, Begin(h, kind)
  PROVE  InvOf(h)'
  <1>0. running /\ running' = running /\ req[h].pc = "free" /\ MaxFailCount \in Nat
    BY ZoneCacheAssumption DEF Begin, Idle
  <1>1. CASE CacheValid
    <2>1. /\ req'[h].pc = "read" /\ req'[h].zones = zoneCache
          /\ resetFailCount(kind)
          /\ UNCHANGED <<zoneCache, cacheLeft, zoneIDNameMapper, cacheAge>>
      BY <1>1 DEF Begin, TypeOK, IdleRequest
    <2>2. StoredInTime(h)'
      BY <2>1 DEF StoredInTime
    <2>3. OfOneListing(h)'
      BY <1>0, <1>1, <2>1 DEF OfOneListing, InvOf, CacheValid
    <2>4. CountsFailures(h)'
      BY <1>0, <2>1 DEF CountsFailures, InvOf, resetFailCount
    <2>5. QED  BY <1>0, <2>1, <2>2, <2>3, <2>4 DEF InvOf
  <1>2. CASE ~CacheValid
    <2>1. /\ req'[h].pc = "list" /\ req'[h].age = 0 /\ req'[h].elapsed = 0
          /\ UNCHANGED <<zoneCache, cacheLeft, zoneIDNameMapper, cacheAge, failCount,
                         failedListings>>
      BY <1>2 DEF Begin, TypeOK, IdleRequest
    <2>2. cacheLeft = 0
      BY <1>2, ZoneCacheAssumption DEF CacheValid, InvOf, TypeOK, Time
    <2>3. StoredInTime(h)'
      BY <2>1, <2>2 DEF StoredInTime
    <2>4. OfOneListing(h)'
      BY <1>0, <2>1 DEF OfOneListing, InvOf
    <2>5. CountsFailures(h)'
      BY <1>0, <2>1 DEF CountsFailures, InvOf
    <2>6. QED  BY <1>0, <2>1, <2>3, <2>4, <2>5 DEF InvOf
  <1>3. QED  BY <1>1, <1>2

\* The steps of Zones.
LEMMA ListingKeepsInv ==
  ASSUME TypeOK, TypeOK', NEW h \in Handler, InvOf(h),
         \/ fetchZones(h) \/ fetchZonesFails(h) \/ ensureZoneIDMappingPresent(h)
         \/ StoreCache(h) \/ StoreExpiry(h)
  PROVE  InvOf(h)'
  <1> USE DEF provider, failures
  <1>0. req[h] \in Request /\ MaxFailCount \in Nat /\ ZoneCacheTTL \in Nat
    BY ZoneCacheAssumption DEF TypeOK
  <1>1. CASE fetchZones(h)
    <2>1. /\ req[h].pc = "list" /\ req'[h].pc = "map"
          /\ req'[h].age = req[h].age /\ req'[h].elapsed = req[h].elapsed
          /\ UNCHANGED <<running, provider, failures>>
      BY <1>0, <1>1 DEF fetchZones, TypeOK, Request
    <2>2. QED
      BY <2>1 DEF InvOf, Idle, StoredInTime, OfOneListing, CountsFailures
  <1>2. CASE fetchZonesFails(h)
    <2>1. /\ req[h].pc = "list"
          /\ UNCHANGED <<running, provider>>
      BY <1>2 DEF fetchZonesFails
    <2>2. running /\ failedListings = failCount
      BY <2>1 DEF InvOf, Idle, CountsFailures
    <2>3. CASE req[h].kind = "Records" /\ MaxFailCount > 0
      <3>1. req'[h].pc = "inc" /\ failedListings' = Capped(failedListings + 1, MaxFailCount)
        BY <1>0, <1>2, <2>3 DEF fetchZonesFails, TypeOK, Request
      <3>2. failedListings' = failCount + 1
        BY <1>0, <2>1, <2>2, <2>3, <3>1 DEF InvOf, CountsFailures, Capped, TypeOK
      <3>3. CountsFailures(h)'
        BY <2>1, <2>2, <2>3, <3>1, <3>2 DEF InvOf, CountsFailures
      <3>4. StoredInTime(h)' /\ OfOneListing(h)'
        BY <2>1, <3>1 DEF InvOf, StoredInTime, OfOneListing
      <3>5. QED  BY <2>1, <2>2, <3>3, <3>4 DEF InvOf
    <2>4. CASE ~(req[h].kind = "Records" /\ MaxFailCount > 0)
      <3>1. req'[h].pc = "free" /\ UNCHANGED failedListings
        BY <1>2, <2>4 DEF fetchZonesFails, Return, IdleRequest, TypeOK
      <3>2. QED
        BY <2>1, <2>2, <3>1 DEF InvOf, StoredInTime, OfOneListing, CountsFailures
    <2>5. QED  BY <2>3, <2>4
  <1>3. CASE ensureZoneIDMappingPresent(h)
    <2>1. /\ req[h].pc = "map" /\ req'[h].pc = "cache"
          /\ req'[h].age = req[h].age /\ req'[h].elapsed = req[h].elapsed
          /\ req'[h].listed = req[h].listed
          /\ zoneIDNameMapper' = req[h].listed
          /\ UNCHANGED <<running, zoneCache, cacheLeft, failCount, cacheAge, failures>>
      BY <1>0, <1>3 DEF ensureZoneIDMappingPresent, MapOf, TypeOK, Request
    <2>2. QED
      BY <2>1 DEF InvOf, Idle, StoredInTime, OfOneListing, CountsFailures
  <1>4. CASE StoreCache(h)
    <2>1. /\ req[h].pc = "cache" /\ req'[h].pc = "expiry"
          /\ req'[h].elapsed = req[h].elapsed /\ req'[h].listed = req[h].listed
          /\ zoneCache' = req[h].listed \cap Managed /\ cacheAge' = req[h].age
          /\ UNCHANGED <<running, cacheLeft, zoneIDNameMapper, failCount, failures>>
      BY <1>0, <1>4 DEF StoreCache, TypeOK, Request
    <2>2. cacheLeft = 0 /\ req[h].age <= req[h].elapsed
      BY <2>1 DEF InvOf, StoredInTime
    <2>3. StoredInTime(h)'
      BY <2>1, <2>2 DEF StoredInTime
    <2>4. OfOneListing(h)' /\ CountsFailures(h)'
      BY <2>1 DEF InvOf, OfOneListing, CountsFailures
    <2>5. (cacheAge + cacheLeft <= ZoneCacheTTL)'
      BY <1>0, <2>1, <2>2 DEF TypeOK, Time
    <2>6. QED  BY <2>1, <2>2, <2>3, <2>4, <2>5 DEF InvOf, Idle
  <1>5. CASE StoreExpiry(h)
    <2>1. /\ req[h].pc = "expiry" /\ req'[h].pc = "read"
          /\ req'[h].zones = req[h].listed \cap Managed
          /\ cacheLeft' = Shorter(ZoneCacheTTL, req[h].elapsed)
          /\ resetFailCount(req[h].kind)
          /\ UNCHANGED <<running, zoneCache, zoneIDNameMapper, cacheAge>>
      BY <1>0, <1>5 DEF StoreExpiry, Validity, TypeOK, Request
    <2>2. running
      BY <2>1 DEF InvOf, Idle
    <2>3. StoredInTime(h)' /\ OfOneListing(h)'
      BY <2>1 DEF InvOf, StoredInTime, OfOneListing
    <2>4. CountsFailures(h)'
      BY <1>0, <2>1, <2>2 DEF InvOf, CountsFailures, resetFailCount
    <2>5. (cacheAge + cacheLeft <= ZoneCacheTTL)'
      <3>1. cacheAge <= req[h].elapsed /\ req[h].elapsed \in Time /\ cacheAge \in Time
        BY <1>0, <2>1 DEF InvOf, StoredInTime, TypeOK, Request
      <3>2. QED  BY <1>0, <2>1, <3>1 DEF Time, Shorter
    <2>6. zoneCache' # None
      <3>1. zoneCache = req[h].listed \cap Managed
        BY <2>1 DEF InvOf, OfOneListing
      <3>2. zoneCache \in SUBSET Zone
        BY <1>0, <3>1 DEF Request
      <3>3. QED  BY <2>1, <3>2, ZoneCacheAssumption
    <2>7. QED  BY <2>1, <2>2, <2>3, <2>4, <2>5, <2>6 DEF InvOf
  <1>6. QED  BY <1>1, <1>2, <1>3, <1>4, <1>5

\* The steps of incFailCount.
LEMMA CountingKeepsInv ==
  ASSUME TypeOK, TypeOK', OneHandler, NEW h \in Handler, InvOf(h),
         LoadCount(h) \/ StoreCount(h) \/ CheckCount(h)
  PROVE  InvOf(h)'
  <1> USE DEF provider, failures
  <1>0. req[h] \in Request /\ MaxFailCount \in Nat /\ failCount \in Nat
    BY ZoneCacheAssumption DEF TypeOK
  <1>1. CASE LoadCount(h)
    <2>1. /\ req[h].pc = "inc" /\ req'[h].pc = "store" /\ req'[h].count = failCount + 1
          /\ UNCHANGED <<running, provider, failures>>
      BY <1>0, <1>1 DEF LoadCount, TypeOK, Request
    <2>2. QED
      BY <2>1 DEF InvOf, Idle, StoredInTime, OfOneListing, CountsFailures
  <1>2. CASE StoreCount(h)
    <2>1. /\ req[h].pc = "store" /\ req'[h].pc = "check" /\ failCount' = req[h].count
          /\ UNCHANGED <<running, zoneCache, cacheLeft, zoneIDNameMapper, cacheAge, failures>>
      BY <1>0, <1>2 DEF StoreCount, TypeOK, Request
    <2>2. CountsFailures(h)'
      BY <1>0, <2>1 DEF InvOf, Idle, CountsFailures
    <2>3. QED
      BY <2>1, <2>2 DEF InvOf, Idle, StoredInTime, OfOneListing
  <1>3. CASE CheckCount(h)
    <2>1. /\ req[h].pc = "check" /\ running /\ MaxFailCount > 0
          /\ failedListings = failCount
          /\ UNCHANGED <<provider, failures>>
      BY <1>3 DEF CheckCount, InvOf, CountsFailures
    <2>2. req'[h].pc = "free"
      <3>1. IdleRequest.pc = "free"  BY DEF IdleRequest
      <3>2. CASE CountReached
        <4>1. req' = [g \in Handler |-> IdleRequest]
          BY <1>3, <3>2 DEF CheckCount
        <4>2. QED  BY <3>1, <4>1
      <3>3. CASE ~CountReached
        <4>1. req' = [req EXCEPT ![h] = IdleRequest]
          BY <1>3, <3>3 DEF CheckCount, Return
        <4>2. req'[h] = IdleRequest  BY <4>1 DEF TypeOK
        <4>3. QED  BY <3>1, <4>2
      <3>4. QED  BY <3>2, <3>3
    <2>3. zoneCache # None => zoneCache = zoneIDNameMapper \cap Managed
      BY <2>1 DEF InvOf, OfOneListing
    <2>4. CASE CountReached
      <3>1. running' = FALSE
        BY <1>3, <2>4 DEF CheckCount
      <3>2. failedListings' = MaxFailCount
        BY <1>0, <2>1, <2>4 DEF CountReached, TypeOK
      <3>3. QED
        BY <2>1, <2>2, <2>3, <3>1, <3>2
        DEF InvOf, Idle, StoredInTime, OfOneListing, CountsFailures
    <2>5. CASE ~CountReached
      <3>1. running' = running /\ failCount < MaxFailCount
        BY <1>0, <1>3, <2>5 DEF CheckCount, CountReached
      <3>2. QED
        BY <2>1, <2>2, <2>3, <3>1
        DEF InvOf, Idle, StoredInTime, OfOneListing, CountsFailures
    <2>6. QED  BY <2>4, <2>5
  <1>4. QED  BY <1>1, <1>2, <1>3

\* The steps of the callers.
LEMMA ServingKeepsInv ==
  ASSUME TypeOK, TypeOK', NEW h \in Handler, InvOf(h),
         \/ fetchRecords(h) \/ fetchRecordsFails(h) \/ ReturnRecords(h)
         \/ GroupChanges(h) \/ ProcessChanges(h)
  PROVE  InvOf(h)'
  <1> USE DEF provider, failures
  <1>0. /\ req[h].pc \in {"read", "process"} /\ running
        /\ UNCHANGED <<running, provider, failedListings>>
    BY DEF fetchRecords, fetchRecordsFails, ReturnRecords, GroupChanges, ProcessChanges,
           InvOf, Idle
  <1>1. CASE fetchRecords(h)
    <2>1. /\ req'[h].pc = req[h].pc /\ req'[h].zones = req[h].zones
          /\ req[h].pc = "read"
      BY <1>1 DEF fetchRecords, TypeOK, Request
    <2>2. QED
      BY <1>0, <2>1 DEF InvOf, Idle, StoredInTime, OfOneListing, CountsFailures
  <1>2. CASE fetchRecordsFails(h) \/ ReturnRecords(h) \/ ProcessChanges(h)
    <2>1. Return(h)
      BY <1>2 DEF fetchRecordsFails, ReturnRecords, ProcessChanges
    <2>2. req'[h].pc = "free"
      BY <2>1 DEF Return, IdleRequest, TypeOK
    <2>3. QED
      BY <1>0, <2>2 DEF InvOf, Idle, StoredInTime, OfOneListing, CountsFailures
  <1>3. CASE GroupChanges(h)
    <2>1. /\ req[h].pc = "read" /\ req'[h].pc = "process"
          /\ req'[h].zones = req[h].zones
          /\ req'[h].groups = [n \in Name |-> FindZone(zoneIDNameMapper, n)]
      <3>1. req[h] \in Request /\ req \in [Handler -> Request]
        BY DEF TypeOK
      <3>2. req'[h] = [req[h] EXCEPT !.pc = "process",
                        !.groups = [n \in Name |-> FindZone(zoneIDNameMapper, n)]]
        BY <1>3, <3>1 DEF GroupChanges
      <3>3. req[h].pc = "read"
        BY <1>3 DEF GroupChanges
      <3>4. QED  BY <3>1, <3>2, <3>3 DEF Request
    <2>2. OfOneListing(h)'
      <3>1. zoneIDNameMapper' = zoneIDNameMapper
        BY <1>0
      <3>2. req'[h].groups = [n \in Name |-> FindZone(zoneIDNameMapper', n)]
        BY <2>1, <3>1
      <3>3. QED  BY <1>0, <2>1, <3>2 DEF InvOf, OfOneListing
    <2>3. QED
      BY <1>0, <2>1, <2>2 DEF InvOf, Idle, StoredInTime, CountsFailures
  <1>4. QED  BY <1>1, <1>2, <1>3

\* What happens around the requests.
LEMMA WorldKeepsInv ==
  ASSUME TypeOK, TypeOK', NEW h \in Handler, InvOf(h),
         (\E z \in Zone : CreateZone(z) \/ DeleteZone(z)) \/ Outage \/ Restart
  PROVE  InvOf(h)'
  <1> USE DEF provider, failures
  <1>1. CASE (\E z \in Zone : CreateZone(z) \/ DeleteZone(z)) \/ Outage
    <2>1. UNCHANGED <<running, provider, req, failures>>
      BY <1>1 DEF CreateZone, DeleteZone, Outage
    <2>2. QED
      BY <2>1 DEF InvOf, Idle, StoredInTime, OfOneListing, CountsFailures
  <1>2. CASE Restart
    <2>1. /\ req[h].pc = "free" /\ req' = req
          /\ running' /\ zoneCache' = None /\ cacheLeft' = 0 /\ failCount' = 0
          /\ cacheAge' = 0 /\ failedListings' = 0
      BY <1>2 DEF Restart, NewProvider, InvOf, Idle
    <2>2. QED
      BY <2>1, ZoneCacheAssumption DEF InvOf, Idle, StoredInTime, OfOneListing, CountsFailures
  <1>3. QED  BY <1>1, <1>2

LEMMA TickKeepsInv ==
  ASSUME TypeOK, TypeOK', NEW h \in Handler, InvOf(h), Tick
  PROVE  InvOf(h)'
  <1>0. req[h] \in Request /\ ZoneCacheTTL \in Nat /\ cacheLeft \in Time /\ cacheAge \in Time
    BY ZoneCacheAssumption DEF TypeOK
  <1>1. /\ req'[h].pc = req[h].pc /\ req'[h].listed = req[h].listed
        /\ req'[h].zones = req[h].zones /\ req'[h].groups = req[h].groups
        /\ req'[h].count = req[h].count
        /\ req[h].pc \in {"list", "map", "cache", "expiry"} =>
             req'[h].elapsed = Capped(req[h].elapsed + 1, ZoneCacheTTL)
        /\ req'[h].age = IF req[h].pc \in {"map", "cache"}
                         THEN Capped(req[h].age + 1, ZoneCacheTTL) ELSE req[h].age
    BY <1>0 DEF Tick, Request
  <1>2. /\ cacheLeft' = Shorter(cacheLeft, 1) /\ cacheAge' = Capped(cacheAge + 1, ZoneCacheTTL)
        /\ UNCHANGED <<running, zoneCache, zoneIDNameMapper, failCount, failedListings>>
    BY DEF Tick, failures
  <1>3. StoredInTime(h)'
    <2>1. StoredInTime(h) /\ req[h].elapsed \in Time /\ req[h].age \in Time
      BY <1>0 DEF InvOf, Request
    <2>2. ASSUME req[h].pc \in {"list", "map", "cache", "expiry"}
          PROVE  cacheLeft' = 0
      BY <1>2, <2>1, <2>2 DEF StoredInTime, Shorter
    <2>3. ASSUME req[h].pc \in {"list", "map", "cache"}
          PROVE  req'[h].age <= req'[h].elapsed
      BY <1>0, <1>1, <2>1, <2>3 DEF StoredInTime, Capped, Time
    <2>4. ASSUME req[h].pc = "expiry"
          PROVE  cacheAge' <= req'[h].elapsed
      BY <1>0, <1>1, <1>2, <2>1, <2>4 DEF StoredInTime, Capped, Time
    <2>5. QED  BY <1>1, <2>2, <2>3, <2>4 DEF StoredInTime
  <1>4. OfOneListing(h)'
    BY <1>1, <1>2 DEF InvOf, OfOneListing
  <1>5. CountsFailures(h)'
    BY <1>1, <1>2 DEF InvOf, CountsFailures
  <1>6. (cacheAge + cacheLeft <= ZoneCacheTTL /\ (zoneCache = None => cacheLeft = 0))'
    BY <1>0, <1>2 DEF InvOf, Capped, Shorter, Time
  <1>7. QED  BY <1>1, <1>2, <1>3, <1>4, <1>5, <1>6 DEF InvOf, Idle

LEMMA StutterKeepsInv ==
  ASSUME NEW h \in Handler, InvOf(h), UNCHANGED vars
  PROVE  InvOf(h)'
  <1>1. UNCHANGED <<running, provider, req, failures>>
    BY DEF vars, provider, failures
  <1>2. QED
    BY <1>1 DEF provider, failures, InvOf, Idle, StoredInTime, OfOneListing, CountsFailures

LEMMA StepOfTheHandler ==
  ASSUME TypeOK, TypeOK', NEW h \in Handler, Handler = {h}, InvOf(h), [Next]_vars
  PROVE  InvOf(h)'
  <1>1. CASE Records(h) \/ ApplyChanges(h)
    BY <1>1, BeginKeepsInv DEF Records, ApplyChanges
  <1>2. CASE Handle(h)
    BY <1>2, ListingKeepsInv, CountingKeepsInv, ServingKeepsInv DEF Handle, OneHandler
  <1>3. CASE (\E z \in Zone : CreateZone(z) \/ DeleteZone(z)) \/ Outage \/ Restart
    BY <1>3, WorldKeepsInv
  <1>4. CASE Tick
    BY <1>4, TickKeepsInv
  <1>5. CASE UNCHANGED vars
    BY <1>5, StutterKeepsInv
  <1>6. QED  BY <1>1, <1>2, <1>3, <1>4, <1>5 DEF Next

LEMMA InvStep ==
  ASSUME OneHandler, TypeOK, TypeOK', OneHandlerInv, [Next]_vars
  PROVE  OneHandlerInv'
  <1>1. PICK h : Handler = {h}
    BY DEF OneHandler
  <1>2. InvOf(h)
    BY <1>1, InvOfTheHandler
  <1>3. InvOf(h)'
    BY <1>1, <1>2, StepOfTheHandler
  <1>4. QED
    BY <1>1, <1>3 DEF OneHandlerInv, InvOf, ServesWhileRunning

-----------------------------------------------------------------------------
(* What follows for one handler.                                           *)

\* However long calls take and whatever fails in between, the steps of a single
\* handler keep map, cache, expiry and fail count in line with each other.
THEOREM OneHandlerInductive ==
  ASSUME OneHandler
  PROVE  Spec => []OneHandlerInv
  <1>1. Init => OneHandlerInv
    BY InvInit
  <1>2. TypeOK /\ TypeOK' /\ OneHandlerInv /\ [Next]_vars => OneHandlerInv'
    BY InvStep
  <1>3. QED  BY <1>1, <1>2, TypeCorrect, PTL DEF Spec

\* A list of zones is not used any more when Hetzner gave it ZoneCacheTTL ago.
THEOREM CachesExpire ==
  ASSUME OneHandler
  PROVE  Spec => []CacheExpires
  <1>1. OneHandlerInv => CacheExpires
    BY DEF OneHandlerInv, CacheExpires
  <1>2. QED  BY <1>1, OneHandlerInductive, PTL

\* Every change is decided on the recordsets of the zone it belongs to, however
\* zones are nested, come and go.
THEOREM EveryChangeMeetsItsZone ==
  ASSUME OneHandler
  PROVE  Spec => []ChangesMeetTheirZone
  <1>1. ASSUME TypeOK, OneHandlerInv
        PROVE  ChangesMeetTheirZone
    <2> SUFFICES ASSUME NEW h \in Handler, req[h].pc = "process", NEW n \in Name
                 PROVE  LET z == req[h].groups[n] IN
                          /\ z \in Managed => z \in req[h].zones
                          /\ z = FindZone(req[h].zones \cup ({z} \ {None}), n)
      BY DEF ChangesMeetTheirZone
    <2>1. /\ req[h].zones = zoneIDNameMapper \cap Managed
          /\ req[h].groups[n] = FindZone(zoneIDNameMapper, n)
      BY <1>1 DEF OneHandlerInv, OfOneListing
    <2>2. None \notin zoneIDNameMapper /\ None \notin Managed
      BY <1>1, ZoneCacheAssumption DEF TypeOK
    <2>3. FindZone(zoneIDNameMapper, n) \in zoneIDNameMapper \cup {None}
      BY FindsAZone
    <2>4. FindZone(zoneIDNameMapper, n) \in Managed => FindZone(zoneIDNameMapper, n) \in req[h].zones
      BY <2>1, <2>2, <2>3
    <2>5. req[h].zones \in SUBSET zoneIDNameMapper
      BY <2>1
    <2>6. FindZone(zoneIDNameMapper, n) =
            FindZone(req[h].zones \cup ({FindZone(zoneIDNameMapper, n)} \ {None}), n)
      BY <2>2, <2>5, FoundInPart
    <2>7. QED  BY <2>1, <2>4, <2>6
  <1>2. QED  BY <1>1, TypeCorrect, OneHandlerInductive, PTL

\* The webhook shuts down at the MaxFailCount-th listing in a row that fails for
\* Records, neither earlier nor later.
THEOREM ShutsDownOnTime ==
  ASSUME OneHandler
  PROVE  Spec => []ShutsDownInTime
  <1>1. OneHandlerInv => ShutsDownInTime
    BY DEF OneHandler, OneHandlerInv, CountsFailures, ShutsDownInTime, Idle
  <1>2. QED  BY <1>1, OneHandlerInductive, PTL
=============================================================================
