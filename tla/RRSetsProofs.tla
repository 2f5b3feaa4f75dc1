----------------------------- MODULE RRSetsProofs -----------------------------
(***************************************************************************)
(* Lemmas about the pure functions of RRSets: the types of what they       *)
(* return.  The proofs about both runners of changes rest on them.         *)
(***************************************************************************)
EXTENDS RRSets, TLAPS

LEMMA NothingType == \A S : Nothing \in Partial(S)
  BY DEF Nothing, Partial

\* A queued creation stores a recordset: endpointsByZoneID has made sure that
\* the key lies in a zone.
LEMMA CreateOptsType ==
  ASSUME NEW k \in Key, NEW ep \in Endpoint, ZoneOf[k] \in Zone
  PROVE  CreateOpts(k, ep) \in RRSet
  BY DataAssumption DEF CreateOpts, HetznerLabels, Endpoint, RRSet

\* processUpdateEndpoint returns options of the right kinds.
LEMMA UpdateOptsType ==
  ASSUME NEW rr \in RRSet, NEW ep \in Endpoint
  PROVE  processUpdateEndpoint(rr, ep) \in UpdateOpts
  BY DataAssumption
  DEF processUpdateEndpoint, recordsOpts, ttlOpts, labelsOpts, Endpoint, RRSet, UpdateOpts

\* The plan ExternalDNS makes of a wish works for that wish.
LEMMA PlanForType ==
  ASSUME NEW w \in Partial(Endpoint), NEW r \in Partial(RRSet)
  PROVE  PlanFor(w, r) \in Plan
  BY DataAssumption DEF PlanFor, Plan, Partial

LEMMA NoPlanType == NoPlan \in Plan
  BY NothingType DEF NoPlan, Plan

\* The three queues, for a plan whose creations and updates have a target.
LEMMA QueueTypes ==
  ASSUME NEW p \in Plan, NEW seen \in Partial(RRSet),
         \A k \in p.create \cup p.update : p.target[k] # None
  PROVE  /\ processDeleteActions(p, seen) \in SUBSET Key
         /\ processCreateActions(p, seen) \in Partial(RRSet)
         /\ processUpdateActions(p, seen) \in Partial(UpdateOpts)
  <1>1. \A k \in p.create \cup p.update : k \in Key /\ p.target[k] \in Endpoint
    BY DEF Plan, Partial
  <1>2. processDeleteActions(p, seen) \in SUBSET Key
    BY DEF processDeleteActions, endpointsByZoneID, Plan
  <1>3. \A k \in endpointsByZoneID(p.create) : CreateOpts(k, p.target[k]) \in RRSet
    BY <1>1, CreateOptsType DEF endpointsByZoneID
  <1>4. processCreateActions(p, seen) \in Partial(RRSet)
    BY <1>3 DEF processCreateActions, Partial
  <1>5. \A k \in p.update : seen[k] # None =>
          processUpdateEndpoint(seen[k], p.target[k]) \in UpdateOpts
    BY <1>1, UpdateOptsType DEF Partial
  <1>6. processUpdateActions(p, seen) \in Partial(UpdateOpts)
    BY <1>5 DEF processUpdateActions, endpointsByZoneID, Partial
  <1>7. QED  BY <1>2, <1>4, <1>6
=============================================================================
