------------------------------ MODULE ZoneCache ------------------------------
(***************************************************************************)
(* What the provider keeps between requests: the cache of the zones, the   *)
(* moment it expires, the map from zone IDs to zones and the fail count    *)
(* (provider.go).  No lock protects them, and every request runs in a      *)
(* goroutine of its own: each access is a step.                            *)
(*                                                                         *)
(* Time is relative: cacheLeft is how long the cache is still valid, and   *)
(* Tick lets one unit of time pass.  Hetzner answers while it is           *)
(* reachable; its zones may be created and deleted at any time.  What      *)
(* ApplyChanges does with a zone once it has found it is in Reconcile.     *)
(***************************************************************************)
EXTENDS Naturals, Sequences

CONSTANTS
  Zone,             \* the zones, by ID: a zone that is recreated gets a new ID
  Managed,          \* the zones that the domain filter lets through
  Name,             \* the DNS names that ExternalDNS has changes for
  Suffixes,         \* the zones whose name is a suffix of a DNS name, longest first
  StartZones,       \* the zones that exist at the beginning
  Handler,          \* the goroutines that may serve a request at a time
  ZoneCacheTTL,     \* ZONE_CACHE_TTL, in units of time
  MaxFailCount,     \* MAX_FAIL_COUNT
  None              \* a nil slice, or no zone

ASSUME ZoneCacheAssumption ==
  /\ Managed \subseteq Zone /\ StartZones \subseteq Zone
  /\ Suffixes \in [Name -> Seq(Zone)]
  /\ ZoneCacheTTL \in Nat /\ MaxFailCount \in Nat
  /\ None \notin Zone /\ \A zones \in SUBSET Zone : zones # None

VARIABLES
  status,            \* Hetzner: which zones exist
  reachable,         \* Hetzner: whether calls are answered
  running,           \* whether the webhook runs
  zoneCache,         \* the provider's fields
  cacheLeft,
  zoneIDNameMapper,
  failCount,
  req,               \* the request each handler serves
  cacheAge,          \* history: the time since Hetzner listed what is cached
  failedListings,    \* history: listings failed in a row, as Records sees it
  failedRecords      \* history: Records requests failed in a row

vars == <<status, reachable, running, zoneCache, cacheLeft, zoneIDNameMapper, failCount,
          req, cacheAge, failedListings, failedRecords>>

hetzner  == <<status, reachable>>
provider == <<zoneCache, cacheLeft, zoneIDNameMapper, failCount, cacheAge>>
failures == <<failedListings, failedRecords>>

\* pc: list, map, cache and expiry are inside Zones; inc, store and check
\* inside incFailCount; read, group and process in the caller.  elapsed is the
\* time since Zones took the time, age the time since Hetzner answered.
Time == 0..ZoneCacheTTL
Request ==
  [pc      : {"free", "list", "map", "cache", "expiry", "inc", "store", "check",
              "read", "group", "process"},
   kind    : {"Records", "ApplyChanges"},
   elapsed : Time,
   age     : Time,
   listed  : SUBSET Zone,
   zones   : SUBSET Zone,
   unread  : SUBSET Zone,
   count   : Nat,
   groups  : [Name -> Zone \cup {None}]]

IdleRequest ==
  [pc |-> "free", kind |-> "Records", elapsed |-> 0, age |-> 0, listed |-> {},
   zones |-> {}, unread |-> {}, count |-> 0, groups |-> [n \in Name |-> None]]

TypeOK ==
  /\ status \in [Zone -> {"unborn", "live", "deleted"}]
  /\ reachable \in BOOLEAN /\ running \in BOOLEAN
  /\ zoneCache \in {None} \cup SUBSET Zone
  /\ cacheLeft \in Time /\ cacheAge \in Time
  /\ zoneIDNameMapper \subseteq Zone
  /\ failCount \in Nat
  /\ req \in [Handler -> Request]
  /\ failedListings \in 0..MaxFailCount /\ failedRecords \in 0..MaxFailCount

Live == {z \in Zone : status[z] = "live"}
Idle(h) == req[h].pc = "free"
Shorter(t, u) == IF t >= u THEN t - u ELSE 0
Capped(t, bound) == IF t < bound THEN t ELSE bound

\* NewHetznerProvider: nothing is cached and the cache has just expired.
NewProvider ==
  /\ running' = TRUE
  /\ zoneCache' = None /\ cacheLeft' = 0 /\ zoneIDNameMapper' = {} /\ failCount' = 0
  /\ cacheAge' = 0
  /\ failedListings' = 0 /\ failedRecords' = 0

Init ==
  /\ status = [z \in Zone |-> IF z \in StartZones THEN "live" ELSE "unborn"]
  /\ reachable = TRUE /\ running = TRUE
  /\ zoneCache = None /\ cacheLeft = 0 /\ zoneIDNameMapper = {} /\ failCount = 0
  /\ req = [h \in Handler |-> IdleRequest]
  /\ cacheAge = 0 /\ failedListings = 0 /\ failedRecords = 0

\* The request of h ends, and Records was it or not, with a failure or not.
Return(h) == req' = [req EXCEPT ![h] = IdleRequest]
CountRecords(h, failed) ==
  failedRecords' = IF req[h].kind # "Records" THEN failedRecords
                   ELSE IF failed THEN Capped(failedRecords + 1, MaxFailCount) ELSE 0

-----------------------------------------------------------------------------
(* Zones: from the cache, or from Hetzner.                                 *)

\* A slip: the count is never reset, and grows over listings that succeed.
resetFailCountNever(kind) ==
  /\ failedListings' = IF kind = "Records" THEN 0 ELSE failedListings
  /\ UNCHANGED failCount

\* Records, and nobody else, resets the fail count when it has the zones, also
\* without a call.
resetFailCount(kind) ==
  IF kind = "Records" /\ MaxFailCount > 0
  THEN failCount' = 0 /\ failedListings' = 0
  ELSE UNCHANGED <<failCount, failedListings>>

\* A slip: the cache never expires.
CacheFilled == zoneCache # None

CacheValid == cacheLeft > 0 /\ zoneCache # None

Begin(h, kind) ==
  /\ running
  /\ Idle(h)
  /\ IF CacheValid
     THEN /\ req' = [req EXCEPT ![h] = [IdleRequest EXCEPT
                       !.pc = "read", !.kind = kind, !.zones = zoneCache, !.unread = zoneCache]]
          /\ resetFailCount(kind)
     ELSE /\ req' = [req EXCEPT ![h] = [IdleRequest EXCEPT !.pc = "list", !.kind = kind]]
          /\ UNCHANGED <<failCount, failedListings>>
  /\ UNCHANGED <<hetzner, running, zoneCache, cacheLeft, zoneIDNameMapper, cacheAge, failedRecords>>

Records(h)      == Begin(h, "Records")
ApplyChanges(h) == Begin(h, "ApplyChanges")

fetchZones(h) ==
  /\ req[h].pc = "list"
  /\ reachable
  /\ req' = [req EXCEPT ![h].pc = "map", ![h].listed = Live]
  /\ UNCHANGED <<hetzner, running, provider, failures>>

\* Zones passes the error on; Records counts it.
fetchZonesFails(h) ==
  /\ req[h].pc = "list"
  /\ ~reachable
  /\ CountRecords(h, TRUE)
  /\ IF req[h].kind = "Records" /\ MaxFailCount > 0
     THEN /\ req' = [req EXCEPT ![h].pc = "inc"]
          /\ failedListings' = Capped(failedListings + 1, MaxFailCount)
     ELSE Return(h) /\ UNCHANGED failedListings
  /\ UNCHANGED <<hetzner, running, provider>>

\* A slip: the map is made once, as "ensure ... present" may suggest.
MapOnce(listed) == IF zoneIDNameMapper = {} THEN listed ELSE zoneIDNameMapper

MapOf(listed) == listed

ensureZoneIDMappingPresent(h) ==
  /\ req[h].pc = "map"
  /\ zoneIDNameMapper' = MapOf(req[h].listed)
  /\ req' = [req EXCEPT ![h].pc = "cache"]
  /\ UNCHANGED <<hetzner, running, zoneCache, cacheLeft, failCount, cacheAge, failures>>

StoreCache(h) ==
  /\ req[h].pc = "cache"
  /\ zoneCache' = req[h].listed \cap Managed
  /\ cacheAge' = req[h].age
  /\ req' = [req EXCEPT ![h].pc = "expiry"]
  /\ UNCHANGED <<hetzner, running, cacheLeft, zoneIDNameMapper, failCount, failures>>

\* Slips: the validity counts from the moment it is stored, or is prolonged by
\* the time the calls took.
ValidityFromNow(h) == ZoneCacheTTL
ValidityProlonged(h) == ZoneCacheTTL + req[h].elapsed

\* The validity counts from the moment Zones was called.
Validity(h) == Shorter(ZoneCacheTTL, req[h].elapsed)

StoreExpiry(h) ==
  /\ req[h].pc = "expiry"
  /\ cacheLeft' = Validity(h)
  /\ LET zones == req[h].listed \cap Managed IN
     req' = [req EXCEPT ![h] = [IdleRequest EXCEPT
               !.pc = "read", !.kind = req[h].kind, !.zones = zones, !.unread = zones]]
  /\ resetFailCount(req[h].kind)
  /\ UNCHANGED <<hetzner, running, zoneCache, zoneIDNameMapper, cacheAge, failedRecords>>

-----------------------------------------------------------------------------
(* incFailCount: the count is loaded, stored and loaded again.             *)

LoadCount(h) ==
  /\ req[h].pc = "inc"
  /\ req' = [req EXCEPT ![h].pc = "store", ![h].count = failCount + 1]
  /\ UNCHANGED <<hetzner, running, provider, failures>>

StoreCount(h) ==
  /\ req[h].pc = "store"
  /\ failCount' = req[h].count
  /\ req' = [req EXCEPT ![h].pc = "check"]
  /\ UNCHANGED <<hetzner, running, zoneCache, cacheLeft, zoneIDNameMapper, cacheAge, failures>>

CountReached == failCount >= MaxFailCount

CheckCount(h) ==
  /\ req[h].pc = "check"
  /\ IF CountReached
     THEN running' = FALSE /\ req' = [g \in Handler |-> IdleRequest]
     ELSE Return(h) /\ UNCHANGED running
  /\ UNCHANGED <<hetzner, provider, failures>>

-----------------------------------------------------------------------------
(* The callers: reading the recordsets of the zones, and the changes.      *)

fetchRecords(h) ==
  /\ req[h].pc = "read"
  /\ reachable
  /\ \E z \in req[h].unread \cap Live :
       req' = [req EXCEPT ![h].unread = @ \ {z}]
  /\ UNCHANGED <<hetzner, running, provider, failures>>

\* One zone that is gone fails the whole request; nothing counts the failure.
fetchRecordsFails(h) ==
  /\ req[h].pc = "read"
  /\ \E z \in req[h].unread : ~reachable \/ z \notin Live
  /\ CountRecords(h, TRUE)
  /\ Return(h)
  /\ UNCHANGED <<hetzner, running, provider, failedListings>>

ReturnRecords(h) ==
  /\ req[h].pc = "read" /\ req[h].unread = {}
  /\ req[h].kind = "Records"
  /\ CountRecords(h, FALSE)
  /\ Return(h)
  /\ UNCHANGED <<hetzner, running, provider, failedListings>>

\* The longest of the mapped zones whose name is a suffix of the DNS name.
FindZone(mapper, n) ==
  LET suitable == {i \in DOMAIN Suffixes[n] : Suffixes[n][i] \in mapper} IN
  IF suitable = {} THEN None
  ELSE Suffixes[n][CHOOSE i \in suitable : \A j \in suitable : i <= j]

\* endpointsByZoneID, for the creations, the updates and the deletions.
GroupChanges(h) ==
  /\ req[h].pc = "read" /\ req[h].unread = {}
  /\ req[h].kind = "ApplyChanges"
  /\ req' = [req EXCEPT ![h].pc = "process",
                        ![h].groups = [n \in Name |-> FindZone(zoneIDNameMapper, n)]]
  /\ UNCHANGED <<hetzner, running, provider, failures>>

\* The changes of each group are processed, with the zone that the map has for
\* it by now.  A panic over a zone it has not ends this request only.
ProcessChanges(h) ==
  /\ req[h].pc = "process"
  /\ Return(h)
  /\ UNCHANGED <<hetzner, running, provider, failures>>

-----------------------------------------------------------------------------
(* The world.                                                              *)

CreateZone(z) ==
  /\ status[z] = "unborn"
  /\ status' = [status EXCEPT ![z] = "live"]
  /\ UNCHANGED <<reachable, running, provider, req, failures>>

DeleteZone(z) ==
  /\ status[z] = "live"
  /\ status' = [status EXCEPT ![z] = "deleted"]
  /\ UNCHANGED <<reachable, running, provider, req, failures>>

Outage ==
  /\ reachable' = ~reachable
  /\ UNCHANGED <<status, running, provider, req, failures>>

Tick ==
  /\ cacheLeft' = Shorter(cacheLeft, 1)
  /\ cacheAge' = Capped(cacheAge + 1, ZoneCacheTTL)
  /\ req' = [h \in Handler |->
       [req[h] EXCEPT
          !.elapsed = IF req[h].pc \in {"list", "map", "cache", "expiry"}
                      THEN Capped(@ + 1, ZoneCacheTTL) ELSE @,
          !.age = IF req[h].pc \in {"map", "cache"} THEN Capped(@ + 1, ZoneCacheTTL) ELSE @]]
  /\ UNCHANGED <<hetzner, running, zoneCache, zoneIDNameMapper, failCount, failures>>

\* Kubernetes restarts the container that shut down.
Restart ==
  /\ ~running
  /\ NewProvider
  /\ UNCHANGED <<hetzner, req>>

-----------------------------------------------------------------------------
Handle(h) ==
  \/ fetchZones(h) \/ fetchZonesFails(h)
  \/ ensureZoneIDMappingPresent(h) \/ StoreCache(h) \/ StoreExpiry(h)
  \/ LoadCount(h) \/ StoreCount(h) \/ CheckCount(h)
  \/ fetchRecords(h) \/ fetchRecordsFails(h) \/ ReturnRecords(h)
  \/ GroupChanges(h) \/ ProcessChanges(h)

Next ==
  \/ \E h \in Handler : Records(h) \/ ApplyChanges(h) \/ Handle(h)
  \/ \E z \in Zone : CreateZone(z) \/ DeleteZone(z)
  \/ Outage \/ Tick \/ Restart

Spec == Init /\ [][Next]_vars

\* Goroutines that can take a step take it, time passes, a container that shut
\* down is restarted, and ExternalDNS asks for the records again and again.
Fairness ==
  /\ \A h \in Handler : WF_vars(Handle(h))
  /\ WF_vars(Tick) /\ WF_vars(Restart)
  /\ SF_vars(\E h \in Handler : Records(h))

FairSpec == Spec /\ Fairness

-----------------------------------------------------------------------------
(* Properties.                                                             *)

\* A list of zones is not used any more when Hetzner gave it ZoneCacheTTL ago:
\* however long the calls of Zones took, the age of what is cached and the time
\* it stays valid add up to no more.
CacheExpires == CacheValid => cacheAge + cacheLeft <= ZoneCacheTTL

\* Every change is decided on the recordsets of the zone it belongs to: the
\* zone found for it is one whose recordsets the same request has read (or one
\* that the filter keeps out), and the request has read no longer one.  No
\* existing recordset is taken for missing, and none is created in a parent
\* zone, because the map and the list of the request differ.
ChangesMeetTheirZone ==
  \A h \in Handler : req[h].pc = "process" =>
    \A n \in Name : LET z == req[h].groups[n] IN
      /\ z \in Managed => z \in req[h].zones
      /\ z = FindZone(req[h].zones \cup ({z} \ {None}), n)

\* The webhook shuts down at the MaxFailCount-th call of Records in a row that gets
\* no zones, neither earlier nor later, whatever was cached in between.  This is the
\* count as provider.go keeps it (213-218), and not as its option's comment has it
\* (configuration.go:51-53, "Failed reads count before shutting down the container.
\* It gets reset for every successful API access"): an ApplyChanges that reads
\* everything resets nothing, and a cached list, without any access, resets it.
ShutsDownInTime ==
  /\ ~running => failedListings = MaxFailCount
  /\ running /\ MaxFailCount > 0 /\ (\A h \in Handler : Idle(h)) => failedListings < MaxFailCount

\* A webhook that has shut down serves nobody.
ServesWhileRunning == ~running => \A h \in Handler : Idle(h)

\* What is stored is stored in time: the listing that a request took is no older
\* than the request, and the time left of the cache is over while it lists.
StoredInTime(h) ==
  /\ req[h].pc \in {"list", "map", "cache", "expiry"} => cacheLeft = 0
  /\ req[h].pc \in {"list", "map", "cache"} => req[h].age <= req[h].elapsed
  /\ req[h].pc = "expiry" => cacheAge <= req[h].elapsed

\* The map, the cache and what the request has read of them are of one listing.
OfOneListing(h) ==
  /\ req[h].pc # "cache" /\ zoneCache # None => zoneCache = zoneIDNameMapper \cap Managed
  /\ req[h].pc \in {"cache", "expiry"} => zoneIDNameMapper = req[h].listed
  /\ req[h].pc = "expiry" => zoneCache = req[h].listed \cap Managed
  /\ req[h].pc \in {"read", "process"} => req[h].zones = zoneIDNameMapper \cap Managed
  /\ req[h].pc = "process" =>
       req[h].groups = [n \in Name |-> FindZone(zoneIDNameMapper, n)]

\* The fail count is the number of listings that failed in a row, but for the
\* steps of incFailCount, and is below its limit, but for the last of them.
CountsFailures(h) ==
  /\ req[h].pc \in {"inc", "store", "check"} => running /\ MaxFailCount > 0
  /\ req[h].pc = "store" => req[h].count = failCount + 1
  /\ failedListings = IF req[h].pc \in {"inc", "store"} THEN failCount + 1 ELSE failCount
  /\ ~running => failedListings = MaxFailCount
  /\ running /\ MaxFailCount > 0 /\ req[h].pc # "check" => failCount < MaxFailCount

\* With one handler at a time the steps of a request leave the provider's fields
\* in line with each other: the invariant that the three properties rest on.
OneHandlerInv ==
  /\ ServesWhileRunning
  /\ zoneCache = None => cacheLeft = 0
  /\ cacheAge + cacheLeft <= ZoneCacheTTL
  /\ \A h \in Handler : StoredInTime(h) /\ OfOneListing(h) /\ CountsFailures(h)

\* Repeated failed attempts to retrieve the records shut the webhook down.
FailedRecordsShutDown ==
  running /\ MaxFailCount > 0 /\ (\A h \in Handler : Idle(h)) => failedRecords < MaxFailCount

\* When Hetzner stays reachable, the cache and the map end up in line with its
\* zones and with each other, and stay so: a zone deleted while it is cached
\* does not fail the requests for ever, and what two handlers leave behind when
\* they store halves of different lists is repaired.
Heals ==
  <>[]reachable => <>[](zoneIDNameMapper = Live /\ zoneCache = Live \cap Managed)

\* An outage that lasts shuts the webhook down, again after every restart: a
\* cached list delays it and handlers that count at the same time may lose a
\* count, but neither prevents it.
OutageShutsDown == MaxFailCount > 0 => (<>[]~reachable => []<>~running)
=============================================================================
