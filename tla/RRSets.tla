------------------------------- MODULE RRSets -------------------------------
(***************************************************************************)
(* The data of the webhook: recordsets as Hetzner stores them, endpoints   *)
(* as ExternalDNS asks for them, and the pure functions that turn a plan   *)
(* into queued changes (change_processors.go, endpoints.go).               *)
(*                                                                         *)
(* A Key stands for a recordset's identity: its name and its type.  The    *)
(* list of record values is one abstract value in Recs: two lists that     *)
(* sameZoneRRSetRecords takes for equal are the same element.              *)
(***************************************************************************)
CONSTANTS
  Zone,       \* the zones of the Hetzner project
  Managed,    \* the zones that the domain filter lets through
  Key,        \* the recordsets that may exist
  ZoneOf,     \* the zone FindZone selects for the key's DNS name, or None
  Recs,       \* the lists of record values
  TTL,        \* the times to live
  ZoneTTL,    \* the default TTL of each zone
  Labels,     \* the label maps
  NoLabels,   \* the empty label map
  BadLabels,  \* provider-specific properties that do not parse as labels
  Owned,      \* the recordsets that ExternalDNS may manage
  None        \* a nil pointer

ASSUME DataAssumption ==
  /\ Managed \subseteq Zone /\ Owned \subseteq Key
  /\ ZoneOf \in [Key -> Zone \cup {None}]
  /\ ZoneTTL \in [Zone -> TTL]
  /\ NoLabels \in Labels
  /\ BadLabels \notin Labels
  /\ None \notin Zone \cup Recs \cup TTL \cup Labels \cup {BadLabels}

\* What ExternalDNS sends: the TTL may be unconfigured, the labels may be
\* unparsable.
Endpoint == [recs : Recs, ttl : TTL \cup {None}, labels : Labels \cup {BadLabels}]

\* What Hetzner stores: a recordset without a TTL of its own takes its zone's.
RRSet == [recs : Recs, ttl : TTL \cup {None}, labels : Labels]

\* The options of a queued update: None where no call is needed.
UpdateOpts == [recs   : Recs \cup {None},
               ttl    : TTL \cup {None},
               labels : Labels \cup {None}]

ASSUME NilIsNoRecord == None \notin Endpoint \cup RRSet \cup UpdateOpts

\* A map from recordsets to a value or to nothing.
Partial(S) == [Key -> S \cup {None}]
Nothing    == [k \in Key |-> None]
Present(f) == {k \in Key : f[k] # None}

-----------------------------------------------------------------------------
(* Reading: the endpoint that Records makes of a recordset.                *)

\* The TTL that an endpoint shows for recordset rr of key k.
EffectiveTTL(k, rr) == IF rr.ttl # None THEN rr.ttl ELSE ZoneTTL[ZoneOf[k]]

createEndpointFromRecord(k, rr) ==
  [recs |-> rr.recs, ttl |-> EffectiveTTL(k, rr), labels |-> rr.labels]

-----------------------------------------------------------------------------
(* Writing: the options computed from an endpoint.                         *)

\* A slip: the labels are used although they do not parse.
HetznerLabelsUnchecked(ep) == ep.labels

\* Labels that do not parse are dropped with a warning.
HetznerLabels(ep) == IF ep.labels = BadLabels THEN NoLabels ELSE ep.labels

\* The recordset that a queued creation stores: a missing TTL is replaced by
\* the zone's when the call is made.
CreateOpts(k, ep) ==
  [recs   |-> ep.recs,
   ttl    |-> IF ep.ttl = None THEN ZoneTTL[ZoneOf[k]] ELSE ep.ttl,
   labels |-> HetznerLabels(ep)]

\* Slips: a recordset without a TTL of its own never gets one; the values are
\* taken from the wrong side; labels are set but never cleared.
ttlOptsIfSet(rr, ep) ==
  IF ep.ttl # None /\ rr.ttl # None /\ rr.ttl # ep.ttl THEN ep.ttl ELSE None
recordsOptsSwapped(rr, ep) == IF ep.recs # rr.recs THEN rr.recs ELSE None
labelsOptsIfAny(rr, ep) ==
  IF ep.labels \notin {BadLabels, NoLabels, rr.labels} THEN ep.labels ELSE None

\* "We do not update an unconfigured TTL."
ttlOpts(rr, ep)     == IF ep.ttl # None /\ rr.ttl # ep.ttl THEN ep.ttl ELSE None
recordsOpts(rr, ep) == IF ep.recs # rr.recs THEN ep.recs ELSE None
labelsOpts(rr, ep)  ==
  IF ep.labels # BadLabels /\ ep.labels # rr.labels THEN ep.labels ELSE None

processUpdateEndpoint(rr, ep) ==
  [recs   |-> recordsOpts(rr, ep),
   ttl    |-> ttlOpts(rr, ep),
   labels |-> labelsOpts(rr, ep)]

-----------------------------------------------------------------------------
(* Queueing: plan is what ExternalDNS posted, seen what getRRSetsByZoneID  *)
(* fetched.  A key outside every zone is skipped; a creation of a known    *)
(* recordset and an update or a deletion of an unknown one are refused.    *)

Plan == [create : SUBSET Key, update : SUBSET Key, delete : SUBSET Key,
         target : Partial(Endpoint)]
NoPlan == [create |-> {}, update |-> {}, delete |-> {}, target |-> Nothing]

HasChanges(p) == p.create \cup p.update \cup p.delete # {}

endpointsByZoneID(keys) == {k \in keys : ZoneOf[k] \in Zone}

processCreateActions(p, seen) ==
  [k \in Key |->
     IF k \in endpointsByZoneID(p.create) /\ seen[k] = None
     THEN CreateOpts(k, p.target[k]) ELSE None]

processUpdateActions(p, seen) ==
  [k \in Key |->
     IF k \in endpointsByZoneID(p.update) /\ seen[k] # None
     THEN processUpdateEndpoint(seen[k], p.target[k]) ELSE None]

processDeleteActions(p, seen) ==
  {k \in endpointsByZoneID(p.delete) : seen[k] # None}

-----------------------------------------------------------------------------
(* Planning, by ExternalDNS (external code): the changes that lead from    *)
(* the records it was shown to the endpoints it wants.                     *)

\* A recordset whose endpoint is not the wanted one.
Differs(k, ep, rr) ==
  LET current == createEndpointFromRecord(k, rr) IN
  \/ ep.recs # current.recs
  \/ ep.ttl # None /\ ep.ttl # current.ttl
  \/ ep.labels # current.labels

PlanFor(wanted, records) ==
  [create |-> {k \in Owned : wanted[k] # None /\ records[k] = None},
   update |-> {k \in Owned : /\ wanted[k] # None /\ records[k] # None
                             /\ Differs(k, wanted[k], records[k])},
   delete |-> {k \in Owned : wanted[k] = None /\ records[k] # None},
   target |-> wanted]
=============================================================================
