----------------------------- MODULE CycleProofs -----------------------------
(***************************************************************************)
(* Theorems about undisturbed cycles and dry runs of Reconcile, for every  *)
(* instance of its constants.  CycleInv says how far a cycle has come; it  *)
(* is inductive together with TypeOK, WishInv and LoopInv.                 *)
(*                                                                         *)
(* From there on Reconcile implements DesiredState, and an undisturbed     *)
(* cycle never fails in an orderly system: one whose wishes can be stored  *)
(* together, and whose owned recordsets do not share a name with what      *)
(* ExternalDNS must not touch (FitInv).                                    *)
(***************************************************************************)
EXTENDS ReconcileProofs

-----------------------------------------------------------------------------
(* What plans and queues promise about the zones.                          *)

\* A listing of every managed zone shows each of their recordsets.
LEMMA VisibleManaged ==
  ASSUME NEW k \in Key, ZoneOf[k] \in Managed
  PROVE  Visible(Managed)[k] = dns[k]
  BY DEF Visible

\* A plan without changes is made only when there is nothing to change.
LEMMA NothingPlanned ==
  ASSUME ~HasChanges(PlanNow)
  PROVE  Synced
  <1>1. \A k \in Owned : k \in Key
    BY DataAssumption
  <1>2. SUFFICES ASSUME NEW k \in Owned, ZoneOf[k] \in Managed
                 PROVE  SyncedKey(k)
    BY DEF Synced
  <1>3. Visible(Managed)[k] = dns[k]
    BY <1>1, <1>2, VisibleManaged
  <1>4. k \notin PlanNow.create /\ k \notin PlanNow.update /\ k \notin PlanNow.delete
    BY DEF HasChanges
  <1>5. /\ ~(want[k] # None /\ dns[k] = None)
        /\ ~(want[k] # None /\ dns[k] # None /\ Differs(k, want[k], dns[k]))
        /\ ~(want[k] = None /\ dns[k] # None)
    BY <1>3, <1>4 DEF PlanNow, PlanFor
  <1>6. QED
    BY <1>5 DEF SyncedKey, Outdated, Differs, createEndpointFromRecord

\* A recordset that matches its endpoint needs no call.
LEMMA SettledUnlessDiffers ==
  ASSUME NEW k, NEW ep, NEW rr, NEW u, ~Differs(k, ep, rr)
  PROVE  Settled(k, u, ep, rr)
  BY DEF Differs, createEndpointFromRecord, Settled

\* The options of an update cover all that differs.
LEMMA SettledByOptions ==
  ASSUME NEW k, NEW ep, NEW rr, processUpdateEndpoint(rr, ep) # None
  PROVE  Settled(k, processUpdateEndpoint(rr, ep), ep, rr)
  BY DEF Settled, processUpdateEndpoint, recordsOpts, ttlOpts, labelsOpts, EffectiveTTL

\* What a creation stores is as wanted.
LEMMA SettledByCreation ==
  ASSUME NEW k, NEW ep, NEW u
  PROVE  Settled(k, u, ep, CreateOpts(k, ep))
  BY DEF Settled, CreateOpts, HetznerLabels, EffectiveTTL

\* What is settled without a call is as wanted.
LEMMA SettledIsSynced ==
  ASSUME NEW k, want[k] # None, dns[k] # None, Settled(k, None, want[k], dns[k])
  PROVE  SyncedKey(k)
  BY DEF Settled, SyncedKey, Outdated

\* An update with no call left covers nothing.
LEMMA SettledWithoutOptions ==
  ASSUME NEW k, NEW ep \in Endpoint, NEW rr, Settled(k, NoOpts, ep, rr)
  PROVE  Settled(k, None, ep, rr)
  BY DataAssumption DEF Settled, NoOpts, Endpoint

\* The call for an option settles it, and leaves the other two.
LEMMA SettledByCall ==
  ASSUME NEW k, NEW option \in {"recs", "ttl", "labels"},
         NEW ep, NEW rr \in RRSet, NEW u \in UpdateOpts,
         u[option] # None, u[option] = ep[option], Settled(k, u, ep, rr)
  PROVE  Settled(k, [u EXCEPT ![option] = None], ep, [rr EXCEPT ![option] = u[option]])
  <1> DEFINE v == [u EXCEPT ![option] = None]
             new == [rr EXCEPT ![option] = u[option]]
  <1> SUFFICES Settled(k, v, ep, new)
    OBVIOUS
  <1>0. v # None /\ u # None
    BY OptionTypes, NilIsNoRecord
  <1>1. CASE option = "recs"
    <2>1. /\ new.recs = ep.recs /\ new.ttl = rr.ttl /\ new.labels = rr.labels
          /\ v.ttl = u.ttl /\ v.labels = u.labels
      BY <1>1 DEF RRSet, UpdateOpts
    <2> HIDE DEF v, new
    <2>2. QED  BY <1>0, <2>1 DEF Settled, EffectiveTTL
  <1>2. CASE option = "ttl"
    <2>1. /\ new.recs = rr.recs /\ new.ttl = ep.ttl /\ new.ttl # None /\ new.labels = rr.labels
          /\ v.recs = u.recs /\ v.labels = u.labels
      BY <1>2 DEF RRSet, UpdateOpts
    <2> HIDE DEF v, new
    <2>2. QED  BY <1>0, <2>1 DEF Settled, EffectiveTTL
  <1>3. CASE option = "labels"
    <2>1. /\ new.recs = rr.recs /\ new.ttl = rr.ttl /\ new.labels = ep.labels
          /\ v.recs = u.recs /\ v.ttl = u.ttl
      BY <1>3 DEF RRSet, UpdateOpts
    <2> HIDE DEF v, new
    <2>2. QED  BY <1>0, <2>1 DEF Settled, EffectiveTTL
  <1>4. QED  BY <1>1, <1>2, <1>3

-----------------------------------------------------------------------------
(* CycleInv: the steps of an undisturbed cycle.                            *)

\* Only the handler that ExternalDNS awaits is busy.
LEMMA OneBusy ==
  ASSUME TypeOK, LoopInv, QuietInv, NEW h \in Handler, req[h].pc # "free"
  PROVE  serving = h /\ h # None /\ loop \in {"reading", "applying"} /\ last = "none"
  <1>1. serving = h /\ h # None
    BY ReconcileAssumption DEF QuietInv, Free
  <1>2. loop \in {"reading", "applying"}
    BY <1>1 DEF TypeOK, LoopInv
  <1>3. last = "none"
    BY <1>2 DEF LoopInv
  <1>4. QED  BY <1>1, <1>2, <1>3

LEMMA OthersFree ==
  ASSUME TypeOK, QuietInv, NEW h \in Handler, serving \in {None, h}, NEW r,
         req' = [req EXCEPT ![h] = r]
  PROVE  \A g \in Handler \ {h} : Free(g)'
  BY ReconcileAssumption DEF TypeOK, QuietInv, Free

\* The awaited handler answers.
LEMMA AnswerQuiet ==
  ASSUME TypeOK, LoopInv, QuietInv, NEW h \in Handler, req[h].pc # "free",
         NEW outcome \in {"ok", "err"}, Answer(h, outcome), outcome = "ok" => Synced'
  PROVE  QuietInv'
  <1>1. serving = h
    BY OneBusy
  <1>2. /\ req' = [req EXCEPT ![h] = IdleRequest]
        /\ loop' = "idle" /\ serving' = None /\ last' = outcome
    BY <1>1 DEF Answer
  <1>3. Free(h)'
    BY <1>2 DEF TypeOK, Free, IdleRequest
  <1>4. \A g \in Handler : Free(g)'
    BY <1>1, <1>2, <1>3, OthersFree
  <1>5. QED  BY <1>2, <1>4 DEF QuietInv

LEMMA PlanNowKept ==
  ASSUME UNCHANGED <<dns, want>>
  PROVE  PlanNow' = PlanNow /\ Synced' = Synced /\ \A Z : Visible(Z)' = Visible(Z)
  BY DEF PlanNow, PlanFor, Visible, Synced, SyncedKey

\* A handler that goes on reading.
LEMMA ReadOnQuiet ==
  ASSUME TypeOK, LoopInv, QuietInv, NEW h \in Handler, req[h].pc # "free",
         NEW r, req' = [req EXCEPT ![h] = r], r.pc = "fetch", r.plan = req[h].plan,
         r.unread \subseteq Managed, r.seen = Visible(Managed \ r.unread),
         req[h].pc \in {"zones", "fetch"},
         UNCHANGED <<dns, want, loop, serving, plan, last>>
  PROVE  QuietInv'
  <1>1. serving = h /\ loop \in {"reading", "applying"} /\ last = "none"
    BY OneBusy
  <1>2. req'[h] = r
    BY DEF TypeOK
  <1>3. \A g \in Handler \ {h} : Free(g)'
    BY <1>1, OthersFree
  <1>4. Reading(h)'
    BY <1>2 DEF Reading, Visible
  <1>5. loop = "applying" => Applying(h)'
    BY <1>1, <1>2, PlanNowKept DEF QuietInv, Applying
  <1>6. QED  BY <1>1, <1>3, <1>4, <1>5 DEF QuietInv

LEMMA StartQuiet ==
  ASSUME TypeOK, LoopInv, CycleInv, ~DryRun, quiet', NEW h \in Handler,
         StartRecords(h) \/ StartApply(h)
  PROVE  QuietInv'
  <1>1. CASE StartRecords(h)
    <2> DEFINE r == [IdleRequest EXCEPT !.pc = "zones"]
    <2>1. r.pc = "zones" /\ r.unread = {} /\ r.seen = Nothing
      BY DEF IdleRequest
    <2>2. req' = [req EXCEPT ![h] = r] /\ \A g \in Handler \ {h} : Free(g)
      BY <1>1 DEF StartRecords
    <2> HIDE DEF r
    <2>3. req'[h] = r /\ \A g \in Handler \ {h} : Free(g)'
      BY <2>2 DEF TypeOK, Free
    <2>4. loop' = "reading" /\ serving' = h /\ last' = "none"
      BY <1>1 DEF StartRecords
    <2>5. Reading(h)'
      BY <2>1, <2>3 DEF Reading
    <2>6. QED  BY <2>3, <2>4, <2>5 DEF QuietInv
  <1>2. CASE StartApply(h)
    <2> DEFINE r == [IdleRequest EXCEPT !.pc = "zones", !.plan = plan]
    <2>0. QuietInv /\ serving = None /\ last = "none"
      BY <1>2 DEF StartApply, CycleInv, LoopInv
    <2>1. r.pc = "zones" /\ r.unread = {} /\ r.seen = Nothing /\ r.plan = plan
      BY DEF IdleRequest
    <2>2. req' = [req EXCEPT ![h] = r]
      BY <1>2, Zenon DEF StartApply
    <2> HIDE DEF r
    <2>3. req'[h] = r /\ \A g \in Handler \ {h} : Free(g)'
      BY <2>0, <2>2, OthersFree DEF TypeOK
    <2>4. loop' = "applying" /\ serving' = h /\ last' = "none"
      BY <1>2, <2>0 DEF StartApply
    <2>5. plan = PlanNow' /\ PlanNow = PlanNow'
      BY <1>2, <2>0, PlanNowKept DEF StartApply, QuietInv
    <2>6. Reading(h)' /\ Applying(h)'
      BY <2>1, <2>3, <2>5 DEF Reading, Applying
    <2>7. QED  BY <2>3, <2>4, <2>6 DEF QuietInv
  <1>3. QED  BY <1>1, <1>2

LEMMA ReadingQuiet ==
  ASSUME TypeOK, LoopInv, QuietInv, NEW h \in Handler,
         ReturnUnchanged(h) \/ ListZones(h) \/ FetchZone(h)
  PROVE  QuietInv'
  <1>1. CASE ReturnUnchanged(h)
    <2>1. /\ req[h].pc = "zones" /\ req[h].plan # None /\ ~HasChanges(req[h].plan)
          /\ Answer(h, "ok") /\ UNCHANGED <<dns, want>>
      BY <1>1 DEF ReturnUnchanged
    <2>2. loop = "applying" /\ serving = h
      BY <2>1, OneBusy DEF LoopInv
    <2>3. req[h].plan = PlanNow
      BY <2>1, <2>2 DEF QuietInv, Applying
    <2>4. Synced
      BY <2>1, <2>3, NothingPlanned
    <2>5. Synced'
      BY <2>1, <2>4, PlanNowKept
    <2>6. QED  BY <2>1, <2>5, AnswerQuiet
  <1>2. CASE ListZones(h)
    <2>1. req[h].pc = "zones"
      BY <1>2 DEF ListZones
    <2>2. req[h].seen = Nothing
      BY <2>1, OneBusy DEF QuietInv, Reading
    <2>3. Visible(Managed \ Managed) = Nothing
      BY DEF Visible, Nothing
    <2>4. QED  BY <1>2, <2>1, <2>2, <2>3, ListZonesStep, ReadOnQuiet
  <1>3. CASE FetchZone(h)
    <2>1. req[h].pc = "fetch"
      BY <1>3 DEF FetchZone
    <2>2. req[h].unread \subseteq Managed /\ req[h].seen = Visible(Managed \ req[h].unread)
      BY <2>1, OneBusy DEF QuietInv, Reading
    <2>3. PICK z \in req[h].unread :
            /\ req' = [req EXCEPT ![h] = FetchedReq(h, z)]
            /\ FetchedReq(h, z).pc = "fetch" /\ FetchedReq(h, z).plan = req[h].plan
            /\ FetchedReq(h, z).unread = req[h].unread \ {z}
            /\ FetchedReq(h, z).seen = SeenWith(h, z)
            /\ UNCHANGED <<dns, want, loop, serving, plan, last>>
      BY <1>3, FetchZoneStep
    <2>4. SeenWith(h, z) = Visible(Managed \ (req[h].unread \ {z}))
      BY <2>2 DEF SeenWith, Visible
    <2>5. QED  BY <2>1, <2>2, <2>3, <2>4, ReadOnQuiet
  <1>4. QED  BY <1>1, <1>2, <1>3

\* Records has seen every managed zone as it is.
LEMMA ReturnRecordsQuiet ==
  ASSUME TypeOK, LoopInv, QuietInv, NEW h \in Handler, ReturnRecords(h)
  PROVE  QuietInv'
  <1>1. req[h].pc = "fetch" /\ req[h].unread = {} /\ req[h].plan = None
    BY DEF ReturnRecords
  <1>2. serving = h /\ loop = "reading" /\ last = "none"
    BY <1>1, OneBusy DEF LoopInv
  <1>3. req[h].seen = Visible(Managed)
    <2>1. req[h].seen = Visible(Managed \ {})
      BY <1>1, <1>2 DEF QuietInv, Reading
    <2>2. Managed \ {} = Managed
      OBVIOUS
    <2>3. QED  BY <2>1, <2>2
  <1>4. /\ req' = [req EXCEPT ![h] = IdleRequest] /\ loop' = "planned" /\ serving' = None
        /\ plan' = PlanFor(want, req[h].seen) /\ UNCHANGED <<dns, want, last>>
    BY <1>2 DEF ReturnRecords
  <1>5. plan' = PlanNow'
    BY <1>3, <1>4, PlanNowKept DEF PlanNow
  <1>6. Free(h)'
    BY <1>4 DEF TypeOK, Free, IdleRequest
  <1>7. \A g \in Handler : Free(g)'
    BY <1>2, <1>4, <1>6, OthersFree
  <1>8. QED  BY <1>2, <1>4, <1>5, <1>7 DEF QuietInv
-----------------------------------------------------------------------------
(* CycleInv: applying the changes.                                         *)

AllPending(h) == \A k \in Owned : ZoneOf[k] \in Managed => Pending(h, k)

\* The queues made of an up-to-date plan cover all that is wrong.
LEMMA QueuesCover ==
  ASSUME TypeOK, WishInv, NEW h \in Handler, NEW q, FromWish(PlanNow), PlanNow \in Plan,
         q.dels = processDeleteActions(PlanNow, Visible(Managed)),
         q.crts = processCreateActions(PlanNow, Visible(Managed)),
         q.upds = processUpdateActions(PlanNow, Visible(Managed)),
         NEW k \in Owned, ZoneOf[k] \in Managed
  PROVE  /\ want[k] = None => dns[k] = None \/ k \in q.dels
         /\ want[k] # None /\ dns[k] = None => q.crts[k] # None
         /\ want[k] # None /\ dns[k] # None => Settled(k, q.upds[k], want[k], dns[k])
  <1> DEFINE p == PlanNow
             seen == Visible(Managed)
  <1>1. k \in Key /\ ZoneOf[k] \in Zone
    BY ReconcileAssumption, DataAssumption
  <1>2. seen[k] = dns[k]
    BY <1>1, VisibleManaged
  <1>3. p.target = want
    BY DEF PlanNow, PlanFor
  <1>4. dns[k] \in RRSet \cup {None} /\ want[k] \in Endpoint \cup {None}
    BY <1>1 DEF TypeOK, Partial
  <1>5. ASSUME want[k] = None, dns[k] # None
        PROVE  k \in q.dels
    <2>1. k \in p.delete
      BY <1>2, <1>5 DEF PlanNow, PlanFor
    <2>2. QED  BY <1>1, <1>2, <1>5, <2>1 DEF processDeleteActions, endpointsByZoneID
  <1>6. ASSUME want[k] # None, dns[k] = None
        PROVE  q.crts[k] # None
    <2>1. k \in p.create
      BY <1>2, <1>6 DEF PlanNow, PlanFor
    <2>2. q.crts[k] = CreateOpts(k, want[k])
      BY <1>1, <1>2, <1>3, <1>6, <2>1 DEF processCreateActions, endpointsByZoneID
    <2>3. CreateOpts(k, want[k]) \in RRSet
      BY <1>1, <1>4, <1>6, CreateOptsType
    <2>4. QED  BY <2>2, <2>3, NilIsNoRecord
  <1>7. ASSUME want[k] # None, dns[k] # None
        PROVE  Settled(k, q.upds[k], want[k], dns[k])
    <2>1. CASE Differs(k, want[k], dns[k])
      <3>1. k \in p.update
        BY <1>2, <1>7, <2>1 DEF PlanNow, PlanFor
      <3>2. q.upds[k] = processUpdateEndpoint(dns[k], want[k])
        BY <1>1, <1>2, <1>3, <1>7, <3>1 DEF processUpdateActions, endpointsByZoneID
      <3>3. processUpdateEndpoint(dns[k], want[k]) # None
        BY <1>4, <1>7, UpdateOptsType, NilIsNoRecord
      <3>4. QED  BY <3>2, <3>3, SettledByOptions
    <2>2. CASE ~Differs(k, want[k], dns[k])
      BY <2>2, SettledUnlessDiffers
    <2>3. QED  BY <2>1, <2>2
  <1>8. QED  BY <1>5, <1>6, <1>7

\* A handler that goes on applying.
LEMMA GoesQuiet ==
  ASSUME TypeOK, LoopInv, QuietInv, NEW h \in Handler, req[h].pc # "free", NEW r,
         req' = [req EXCEPT ![h] = r], r.pc = "run", r.unread = req[h].unread,
         req[h].plan # None, UNCHANGED <<loop, serving, last>>,
         (QueuesForWant(h) /\ AllPending(h))'
  PROVE  QuietInv'
  <1>1. serving = h /\ loop = "applying" /\ last = "none"
    BY OneBusy DEF LoopInv
  <1>2. req'[h] = r
    BY DEF TypeOK
  <1>3. \A g \in Handler \ {h} : Free(g)'
    BY <1>1, OthersFree
  <1>4. Reading(h)'
    BY <1>1, <1>2 DEF QuietInv, Reading
  <1>5. Applying(h)'
    BY <1>2 DEF Applying, AllPending
  <1>6. QED  BY <1>1, <1>3, <1>4, <1>5 DEF QuietInv

LEMMA QueueQuiet ==
  ASSUME TypeOK, WishInv, LoopInv, QuietInv, NEW h \in Handler, Queue(h)
  PROVE  QuietInv'
  <1>1. req[h].pc = "fetch" /\ req[h].unread = {} /\ req[h].plan # None
    BY DEF Queue
  <1>2. serving = h /\ loop = "applying"
    BY <1>1, OneBusy DEF LoopInv
  <1>3. req[h].plan = PlanNow
    BY <1>1, <1>2 DEF QuietInv, Applying
  <1>4. req[h].seen = Visible(Managed)
    <2>1. req[h].seen = Visible(Managed \ {})
      BY <1>1, <1>2 DEF QuietInv, Reading
    <2>2. Managed \ {} = Managed
      OBVIOUS
    <2>3. QED  BY <2>1, <2>2
  <1>5. PlanNow \in Plan /\ FromWish(PlanNow) /\ req[h].seen \in Partial(RRSet)
    BY <1>1, <1>3 DEF TypeOK, Request, WishInv
  <1> DEFINE q == QueuedReq(h)
  <1>6. /\ req' = [req EXCEPT ![h] = q] /\ req'[h] = q /\ q.pc = "run"
        /\ q.unread = req[h].unread
        /\ q.dels = processDeleteActions(PlanNow, Visible(Managed))
        /\ q.crts = processCreateActions(PlanNow, Visible(Managed))
        /\ q.upds = processUpdateActions(PlanNow, Visible(Managed))
        /\ UNCHANGED <<dns, want, wished, loop, serving, plan, last>>
    BY <1>3, <1>4, QueueStep
  <1> HIDE DEF q
  <1>7. PlanNow.target = want
    BY DEF PlanNow, PlanFor
  <1>8. QueuesForWant(h)'
    <2>1. QueuesForWant(h)' =
            /\ \A k \in q.dels : DeletionFor(want, k)
            /\ \A k \in Present(q.crts) : CreationFor(want, k, q.crts[k])
            /\ \A k \in Present(q.upds) : UpdateFor(want, k, q.upds[k])
      BY <1>6 DEF QueuesForWant
    <2>2. QED  BY <1>4, <1>5, <1>6, <1>7, <2>1, QueuesFromPlan
  <1>9. AllPending(h)'
    <2>1. SUFFICES ASSUME NEW k \in Owned, ZoneOf[k] \in Managed
                   PROVE  Pending(h, k)'
      BY DEF AllPending
    <2>2. /\ want[k] = None => dns[k] = None \/ k \in q.dels
          /\ want[k] # None /\ dns[k] = None => q.crts[k] # None
          /\ want[k] # None /\ dns[k] # None => Settled(k, q.upds[k], want[k], dns[k])
      BY <1>5, <1>6, <2>1, QueuesCover
    <2>3. QED  BY <1>6, <2>2 DEF Pending
  <1>10. QED  BY <1>1, <1>6, <1>8, <1>9, GoesQuiet
\* A call about recordset k leaves the others as they are, so that what it does
\* to k is all that matters.
LEMMA CallQuiet ==
  ASSUME TypeOK, LoopInv, QuietInv, NEW h \in Handler, req[h].pc = "run",
         NEW r, Goes(h, r), NEW k \in Key,
         \A j \in Key \ {k} : /\ dns'[j] = dns[j] /\ r.crts[j] = req[h].crts[j]
                              /\ r.upds[j] = req[h].upds[j]
                              /\ j \in req[h].dels => j \in r.dels,
         r.dels \subseteq req[h].dels, r.crts[k] \in {None, req[h].crts[k]},
         r.upds[k] # None => UpdateFor(want, k, r.upds[k]),
         want[k] = None => dns'[k] = None \/ k \in r.dels,
         want[k] # None /\ dns'[k] = None => r.crts[k] # None,
         k \in Owned /\ ZoneOf[k] \in Managed /\ want[k] # None /\ dns'[k] # None =>
           Settled(k, r.upds[k], want[k], dns'[k])
  PROVE  QuietInv'
  <1>1. serving = h /\ loop = "applying" /\ req[h].plan # None
    BY OneBusy DEF LoopInv
  <1>2. QueuesForWant(h) /\ AllPending(h)
    BY <1>1 DEF QuietInv, Applying, AllPending
  <1>3. /\ req' = [req EXCEPT ![h] = r] /\ req'[h] = r /\ r.pc = "run"
        /\ r.unread = req[h].unread /\ UNCHANGED <<want, loop, serving, last>>
    BY DEF Goes
  <1>4. QueuesForWant(h)'
    <2>1. \A j \in r.dels : DeletionFor(want, j)
      BY <1>2 DEF QueuesForWant
    <2>2. ASSUME NEW j \in Present(r.crts)
          PROVE  CreationFor(want, j, r.crts[j])
      <3>1. j \in Key /\ r.crts[j] # None
        BY DEF Present
      <3>2. r.crts[j] = req[h].crts[j] /\ j \in Present(req[h].crts)
        BY <3>1 DEF Present
      <3>3. QED  BY <1>2, <3>2 DEF QueuesForWant
    <2>3. ASSUME NEW j \in Present(r.upds)
          PROVE  UpdateFor(want, j, r.upds[j])
      <3>1. j \in Key /\ r.upds[j] # None
        BY DEF Present
      <3>2. CASE j # k
        <4>1. r.upds[j] = req[h].upds[j] /\ j \in Present(req[h].upds)
          BY <3>1, <3>2 DEF Present
        <4>2. QED  BY <1>2, <4>1 DEF QueuesForWant
      <3>3. QED  BY <3>1, <3>2
    <2>4. QED  BY <1>3, <2>1, <2>2, <2>3 DEF QueuesForWant
  <1>5. AllPending(h)'
    <2>1. SUFFICES ASSUME NEW j \in Owned, ZoneOf[j] \in Managed
                   PROVE  Pending(h, j)'
      BY DEF AllPending
    <2>2. j \in Key /\ Pending(h, j)
      BY <1>2, <2>1, DataAssumption DEF AllPending
    <2>3. CASE j = k
      BY <1>3, <2>1, <2>3 DEF Pending
    <2>4. CASE j # k
      BY <1>3, <2>2, <2>4 DEF Pending
    <2>5. QED  BY <2>3, <2>4
  <1>6. QED  BY <1>1, <1>3, <1>4, <1>5, GoesQuiet

\* What an undisturbed call does, outside a dry run: it takes effect, or
\* Hetzner refuses it and nothing changes.
LEMMA UndisturbedCall ==
  ASSUME quiet', NEW k, NEW rr, NEW legal
  PROVE  /\ Succeeds(legal, k, rr) => legal /\ dns' = [dns EXCEPT ![k] = rr]
         /\ Fails(legal, k, rr) => UNCHANGED dns
  BY DEF Succeeds, Fails, Disturb

LEMMA DeletesQuiet ==
  ASSUME TypeOK, LoopInv, QuietInv, ~DryRun, quiet', NEW h \in Handler, applyDeletes(h)
  PROVE  QuietInv'
  <1>1. req[h].pc = "run" /\ req[h] \in Request
    BY DEF applyDeletes, Deleting, TypeOK
  <1>2. PICK k \in req[h].dels :
          \/ /\ Skips \/ Does(MayChange(k), k, None)
             /\ \E r : /\ Goes(h, r) /\ r.dels = req[h].dels \ {k}
                      /\ r.crts = req[h].crts /\ r.upds = req[h].upds
          \/ Aborts(h, MayChange(k), k, None)
    BY DeletesStep
  <1>3. k \in Key
    BY <1>1 DEF Request
  <1>4. CASE Answer(h, "err")
    BY <1>1, <1>4, AnswerQuiet
  <1>5. ASSUME Does(MayChange(k), k, None), NEW r, Goes(h, r), r.dels = req[h].dels \ {k},
               r.crts = req[h].crts, r.upds = req[h].upds
        PROVE  QuietInv'
    <2>1. dns' = [dns EXCEPT ![k] = None] /\ dns \in [Key -> RRSet \cup {None}]
      BY <1>5, UndisturbedCall DEF Does, TypeOK, Partial
    <2>2. dns'[k] = None /\ \A j \in Key \ {k} : dns'[j] = dns[j]
      BY <1>3, <2>1
    <2>3. Applying(h)
      BY <1>1, OneBusy DEF LoopInv, QuietInv
    <2>4. want[k] = None
      BY <1>1, <2>3 DEF Applying, QueuesForWant, DeletionFor
    <2>5. r.upds[k] # None => UpdateFor(want, k, r.upds[k])
      BY <1>1, <1>3, <1>5, <2>3 DEF Applying, QueuesForWant, Present
    <2>6. QED  BY <1>1, <1>3, <1>5, <2>2, <2>4, <2>5, CallQuiet
  <1>6. QED  BY <1>2, <1>4, <1>5 DEF Skips, Aborts

LEMMA CreatesQuiet ==
  ASSUME TypeOK, LoopInv, QuietInv, ~DryRun, quiet', NEW h \in Handler, applyCreates(h)
  PROVE  QuietInv'
  <1>1. req[h].pc = "run" /\ req[h] \in Request
    BY DEF applyCreates, Creating, TypeOK
  <1>2. PICK k \in Present(req[h].crts) :
          \/ /\ Skips \/ Does(MayCreate(k), k, req[h].crts[k])
             /\ \E r : /\ Goes(h, r) /\ r.dels = req[h].dels /\ r.upds = req[h].upds
                      /\ r.crts = [req[h].crts EXCEPT ![k] = None]
          \/ Aborts(h, MayCreate(k), k, req[h].crts[k])
    BY CreatesStep
  <1>3. k \in Key /\ req[h].crts[k] # None /\ req[h].crts \in [Key -> RRSet \cup {None}]
    BY <1>1 DEF Request, Present, Partial
  <1>4. CASE Answer(h, "err")
    BY <1>1, <1>4, AnswerQuiet
  <1>5. ASSUME Does(MayCreate(k), k, req[h].crts[k]), NEW r, Goes(h, r),
               r.dels = req[h].dels, r.upds = req[h].upds,
               r.crts = [req[h].crts EXCEPT ![k] = None]
        PROVE  QuietInv'
    <2>1. dns' = [dns EXCEPT ![k] = req[h].crts[k]] /\ dns \in [Key -> RRSet \cup {None}]
      BY <1>5, UndisturbedCall DEF Does, TypeOK, Partial
    <2>2. dns'[k] = req[h].crts[k] /\ \A j \in Key \ {k} : dns'[j] = dns[j]
      BY <1>3, <2>1
    <2>3. Applying(h)
      BY <1>1, OneBusy DEF LoopInv, QuietInv
    <2>4. want[k] # None /\ req[h].crts[k] = CreateOpts(k, want[k])
      BY <1>1, <1>2, <2>3 DEF Applying, QueuesForWant, CreationFor
    <2>5. r.upds[k] # None => UpdateFor(want, k, r.upds[k])
      BY <1>1, <1>3, <1>5, <2>3 DEF Applying, QueuesForWant, Present
    <2>6. Settled(k, r.upds[k], want[k], dns'[k])
      BY <2>2, <2>4, SettledByCreation
    <2>7. r.crts[k] = None /\ \A j \in Key \ {k} : r.crts[j] = req[h].crts[j]
      BY <1>3, <1>5
    <2>8. QED  BY <1>1, <1>3, <1>5, <2>2, <2>4, <2>5, <2>6, <2>7, CallQuiet
  <1>6. QED  BY <1>2, <1>4, <1>5 DEF Skips, Aborts

LEMMA UpdateCallQuiet ==
  ASSUME TypeOK, LoopInv, QuietInv, ~DryRun, quiet', NEW h \in Handler,
         NEW option \in {"recs", "ttl", "labels"}, NEW earlier, UpdateCall(h, option, earlier)
  PROVE  QuietInv'
  <1>1. PICK k \in Key :
           LET u == req[h].upds[k]
               rr == [dns[k] EXCEPT ![option] = u[option]]
           IN /\ u # None /\ u[option] # None /\ req[h].pc = "run" /\ ~DryRun
              /\ \/ /\ Succeeds(MayChange(k), k, rr)
                    /\ \E r : /\ Goes(h, r) /\ r.dels = req[h].dels /\ r.crts = req[h].crts
                             /\ r.upds = [req[h].upds EXCEPT ![k] = [u EXCEPT ![option] = None]]
                 \/ Fails(MayChange(k), k, rr) /\ Answer(h, "err")
    BY UpdateCallStep
  <1> DEFINE u == req[h].upds[k]
             v == [u EXCEPT ![option] = None]
             rr == [dns[k] EXCEPT ![option] = u[option]]
  <1>2. CASE Answer(h, "err")
    BY <1>1, <1>2, AnswerQuiet
  <1>3. ASSUME Succeeds(MayChange(k), k, rr), NEW r, Goes(h, r), r.dels = req[h].dels,
               r.crts = req[h].crts, r.upds = [req[h].upds EXCEPT ![k] = v]
        PROVE  QuietInv'
    <2>1. dns' = [dns EXCEPT ![k] = rr] /\ MayChange(k) /\ dns \in [Key -> RRSet \cup {None}]
      <3>1. dns \in [Key -> RRSet \cup {None}]
        BY DEF TypeOK, Partial
      <3> HIDE DEF rr
      <3>2. QED  BY <1>3, <3>1, UndisturbedCall
    <2>2. dns[k] \in RRSet /\ req[h].upds \in [Key -> UpdateOpts \cup {None}] /\ u \in UpdateOpts
      BY <1>1, <2>1 DEF MayChange, TypeOK, Request, Partial
    <2>3. rr \in RRSet /\ v \in UpdateOpts
      BY <1>1, <2>2, OptionTypes
    <2>4. Applying(h)
      BY <1>1, OneBusy DEF LoopInv, QuietInv
    <2>5. UpdateFor(want, k, u)
      BY <1>1, <2>4 DEF Applying, QueuesForWant, Present
    <2>6. want[k] # None /\ u[option] = want[k][option]
      BY <1>1, <2>5 DEF UpdateFor
    <2>7. UpdateFor(want, k, v)
      <3>1. v.recs \in {None, u.recs} /\ v.ttl \in {None, u.ttl} /\ v.labels \in {None, u.labels}
        BY <2>2 DEF UpdateOpts
      <3> HIDE DEF v
      <3>2. QED  BY <2>5, <3>1 DEF UpdateFor
    <2>8. ASSUME k \in Owned, ZoneOf[k] \in Managed
          PROVE  Settled(k, v, want[k], rr)
      <3>1. Settled(k, u, want[k], dns[k])
        BY <1>1, <2>1, <2>4, <2>6, <2>8 DEF Applying, Pending, MayChange
      <3>2. QED  BY <1>1, <2>2, <2>6, <3>1, SettledByCall
    <2> HIDE DEF v, rr
    <2>9. dns'[k] = rr /\ r.upds[k] = v
      BY <1>3, <2>1, <2>2
    <2>10. \A j \in Key \ {k} : dns'[j] = dns[j] /\ r.upds[j] = req[h].upds[j]
      BY <1>3, <2>1, <2>2
    <2>11. rr # None
      BY <2>3, NilIsNoRecord
    <2>12. /\ req[h].pc = "run" /\ r.dels = req[h].dels
           /\ \A j \in Key : r.crts[j] = req[h].crts[j]
      BY <1>1, <1>3
    <2>13. Goes(h, r)
      BY <1>3
    <2>14. QED  BY <2>6, <2>7, <2>8, <2>9, <2>10, <2>11, <2>12, <2>13, CallQuiet
  <1> HIDE DEF v, rr
  <1>4. QED  BY <1>1, <1>2, <1>3 DEF v, rr
\* An update is taken off its queue when it has no call left.
LEMMA FinishQuiet ==
  ASSUME TypeOK, LoopInv, QuietInv, ~DryRun, NEW h \in Handler, FinishUpdate(h)
  PROVE  QuietInv'
  <1>1. PICK k \in Key :
           /\ req[h].upds[k] # None /\ (DryRun \/ req[h].upds[k] = NoOpts)
           /\ UNCHANGED <<dns, quiet, disturbances>>
           /\ \E r : /\ Goes(h, r) /\ r.dels = req[h].dels /\ r.crts = req[h].crts
                    /\ r.upds = [req[h].upds EXCEPT ![k] = None]
    BY FinishUpdateStep
  <1>2. PICK r : /\ Goes(h, r) /\ r.dels = req[h].dels /\ r.crts = req[h].crts
                 /\ r.upds = [req[h].upds EXCEPT ![k] = None]
    BY <1>1
  <1>3. req[h].pc = "run" /\ req[h].upds \in [Key -> UpdateOpts \cup {None}]
    BY DEF FinishUpdate, MayUpdate, Updating, TypeOK, Request, Partial
  <1>4. r.upds[k] = None /\ \A j \in Key \ {k} : r.upds[j] = req[h].upds[j]
    BY <1>2, <1>3
  <1>5. Applying(h)
    BY <1>3, OneBusy DEF LoopInv, QuietInv
  <1>6. want[k] # None
    BY <1>1, <1>3, <1>5 DEF Applying, QueuesForWant, UpdateFor, Present
  <1>7. want[k] \in Endpoint
    BY <1>6 DEF TypeOK, Partial
  <1>8. ASSUME k \in Owned, ZoneOf[k] \in Managed
        PROVE  Pending(h, k) /\ (dns[k] # None => Settled(k, None, want[k], dns[k]))
    <2>1. Pending(h, k)
      BY <1>3, <1>5, <1>8 DEF Applying
    <2>2. ASSUME dns[k] # None
          PROVE  Settled(k, NoOpts, want[k], dns[k])
      BY <1>1, <1>6, <2>1, <2>2 DEF Pending
    <2>3. QED  BY <1>7, <2>1, <2>2, SettledWithoutOptions
  <1>9. \A j \in Owned : ZoneOf[j] \in Managed => Pending(h, j)
    BY <1>3, <1>5 DEF Applying
  <1>10. req'[h] = r /\ UNCHANGED <<dns, want>>
    BY <1>1, <1>2 DEF Goes
  <1>11. QueuesForWant(h)'
    <2>1. QueuesForWant(h)
      BY <1>3, <1>5 DEF Applying
    <2>2. ASSUME NEW j \in Present(r.upds)
          PROVE  UpdateFor(want, j, r.upds[j])
      <3>1. j \in Key /\ j # k /\ r.upds[j] = req[h].upds[j] /\ j \in Present(req[h].upds)
        BY <1>4 DEF Present
      <3>2. QED  BY <2>1, <3>1 DEF QueuesForWant
    <2>3. QED  BY <1>2, <1>10, <2>1, <2>2 DEF QueuesForWant
  <1>12. AllPending(h)'
    <2>1. SUFFICES ASSUME NEW j \in Owned, ZoneOf[j] \in Managed
                   PROVE  Pending(h, j)'
      BY DEF AllPending
    <2>2. Pending(h, j) /\ j \in Key
      BY <1>9, <2>1, DataAssumption
    <2>3. CASE j = k
      BY <1>2, <1>4, <1>6, <1>8, <1>10, <2>1, <2>2, <2>3 DEF Pending
    <2>4. CASE j # k
      BY <1>2, <1>4, <1>10, <2>2, <2>4 DEF Pending
    <2>5. QED  BY <2>3, <2>4
  <1>13. req[h].plan # None
    BY <1>3, OneBusy DEF LoopInv
  <1>14. QED  BY <1>2, <1>3, <1>11, <1>12, <1>13, GoesQuiet DEF Goes

\* All queues are empty: everything is as wanted.
LEMMA ReturnAppliedQuiet ==
  ASSUME TypeOK, LoopInv, QuietInv, NEW h \in Handler, ReturnApplied(h)
  PROVE  QuietInv'
  <1>1. /\ req[h].pc = "run" /\ req[h].dels = {} /\ Present(req[h].crts) = {}
        /\ Present(req[h].upds) = {} /\ Answer(h, "ok") /\ UNCHANGED <<dns, want>>
    BY DEF ReturnApplied
  <1>2. Applying(h)
    BY <1>1, OneBusy DEF LoopInv, QuietInv
  <1>3. ASSUME NEW k \in Owned, ZoneOf[k] \in Managed
        PROVE  SyncedKey(k)
    <2>1. Pending(h, k) /\ k \in Key
      BY <1>1, <1>2, <1>3, DataAssumption DEF Applying
    <2>2. req[h].crts[k] = None /\ req[h].upds[k] = None
      BY <1>1, <2>1 DEF Present
    <2>3. CASE want[k] = None
      BY <1>1, <2>1, <2>3 DEF Pending, SyncedKey
    <2>4. CASE want[k] # None
      BY <2>1, <2>2, <2>4, SettledIsSynced DEF Pending
    <2>5. QED  BY <2>3, <2>4
  <1>4. Synced'
    BY <1>1, <1>3, PlanNowKept DEF Synced
  <1>5. QED  BY <1>1, <1>4, AnswerQuiet

\* A step that leaves a cycle undisturbed follows an undisturbed state, except
\* the one that begins the cycle.
LEMMA QuietBefore ==
  ASSUME NEW h, Handle(h), quiet'
  PROVE  quiet /\ ~ReadFails(h)
  BY DEF Handle, ReturnUnchanged, ListZones, FetchZone, ReadFails, ReturnRecords, Queue,
         applyDeletes, applyCreates, UpdateRecords, UpdateTTL, UpdateLabels, UpdateCall,
         FinishUpdate, ReturnApplied, Skips, Does, Aborts, Succeeds, Fails, Disturb

LEMMA NextCycle ==
  ASSUME TypeOK, WishInv, LoopInv, CycleInv, [Next]_vars
  PROVE  CycleInv'
  <1> SUFFICES ASSUME quiet', ~DryRun PROVE QuietInv'
    BY DEF CycleInv
  <1>1. ASSUME NEW h \in Handler, Handle(h)
        PROVE  QuietInv'
    <2>1. quiet /\ ~ReadFails(h)
      BY <1>1, QuietBefore
    <2>2. QuietInv
      BY <2>1 DEF CycleInv
    <2>3. CASE UpdateRecords(h)
      BY <2>2, <2>3, UpdateCallQuiet DEF UpdateRecords
    <2>4. CASE UpdateTTL(h)
      BY <2>2, <2>4, UpdateCallQuiet DEF UpdateTTL
    <2>5. CASE UpdateLabels(h)
      BY <2>2, <2>5, UpdateCallQuiet DEF UpdateLabels
    <2>6. QED
      BY <1>1, <2>1, <2>2, <2>3, <2>4, <2>5, ReadingQuiet, ReturnRecordsQuiet, QueueQuiet,
         DeletesQuiet, CreatesQuiet, FinishQuiet, ReturnAppliedQuiet
      DEF Handle
  <1>2. CASE Outside
    BY <1>2 DEF Outside, GiveUp, Crash, ForeignEdit, ChangeWant, Disturb
  <1>3. CASE UNCHANGED vars
    <2>1. QuietInv /\ UNCHANGED <<dns, want>>
      BY <1>3 DEF vars, CycleInv
    <2>2. QED
      BY <1>3, <2>1, PlanNowKept
      DEF vars, QuietInv, Free, Reading, Visible, Applying, QueuesForWant, Pending
  <1>4. QED  BY <1>1, <1>2, <1>3, StartQuiet DEF Next, ExternalDNS

-----------------------------------------------------------------------------
(* The theorems.                                                           *)

LEMMA InitCycle == Init => CycleInv
  BY DEF Init, CycleInv

\* The invariant that the proofs rest on is inductive, hence true throughout.
THEOREM Inductive == Spec => []IndInv
  <1>1. Init => IndInv
    BY InitType, InitWish, InitLoop, InitCycle DEF IndInv
  <1>2. IndInv /\ [Next]_vars => IndInv'
    BY NextType, NextWish, NextLoop, NextCycle DEF IndInv
  <1>3. QED  BY <1>1, <1>2, PTL DEF Spec

\* When ApplyChanges has answered without an error at the end of a cycle that
\* nothing disturbed, every managed recordset is as the cluster wants it.
THEOREM CleanCyclesSync == Spec => []CleanCycleSyncs
  <1>1. IndInv => CleanCycleSyncs
    BY DEF IndInv, CycleInv, QuietInv, CleanCycleSyncs
  <1>2. QED  BY <1>1, Inductive, PTL

\* With DRY_RUN set the webhook never changes a recordset.
THEOREM DryRunsWriteNothing == Spec => DryRunWritesNothing
  <1>1. ASSUME [Next]_vars, DryRun, dns' # dns
        PROVE  \E k \in Key : ForeignEdit(k)
    <2>1. ASSUME NEW h \in Handler, Handle(h)
          PROVE  FALSE
      BY <1>1, <2>1
      DEF Handle, ReturnUnchanged, ListZones, FetchZone, ReadFails, ReturnRecords, Queue,
          applyDeletes, applyCreates, UpdateRecords, UpdateTTL, UpdateLabels, UpdateCall,
          FinishUpdate, ReturnApplied, Skips, Does, Aborts
    <2>2. QED
      BY <1>1, <2>1
      DEF Next, vars, ExternalDNS, StartRecords, StartApply, Outside, GiveUp, Crash, ChangeWant
  <1>2. [Next]_vars => [DryRun /\ dns' # dns => \E k \in Key : ForeignEdit(k)]_vars
    BY <1>1
  <1>3. QED  BY <1>2, PTL DEF Spec, DryRunWritesNothing

-----------------------------------------------------------------------------
(* FitInv: Hetzner has no reason to refuse a call of an undisturbed cycle. *)

\* The queues of an undisturbed handler are the ones of the wish.
LEMMA RunningApplies ==
  ASSUME TypeOK, LoopInv, QuietInv, NEW h \in Handler, req[h].pc = "run"
  PROVE  /\ serving = h /\ loop = "applying" /\ last = "none"
         /\ QueuesForWant(h) /\ AllPending(h)
  <1>1. serving = h /\ loop = "applying" /\ last = "none"
    BY OneBusy DEF LoopInv
  <1>2. QED  BY <1>1 DEF QuietInv, Applying, AllPending

\* What is queued of an up-to-date plan fits what is stored.
LEMMA QueueFits ==
  ASSUME TypeOK, WishInv, LoopInv, QuietInv, DS!Orderly, NEW h \in Handler, Queue(h)
  PROVE  Fitting(h)'
  <1>1. req[h].pc = "fetch" /\ req[h].unread = {} /\ req[h].plan # None
    BY DEF Queue
  <1>2. serving = h /\ loop = "applying"
    BY <1>1, OneBusy DEF LoopInv
  <1>3. req[h].seen = Visible(Managed)
    <2>1. req[h].seen = Visible(Managed \ {})
      BY <1>1, <1>2 DEF QuietInv, Reading
    <2>2. Managed \ {} = Managed
      OBVIOUS
    <2>3. QED  BY <2>1, <2>2
  <1> DEFINE q == QueuedReq(h)
             p == req[h].plan
  <1>4. /\ req'[h] = q /\ UNCHANGED dns
        /\ q.dels = processDeleteActions(p, Visible(Managed))
        /\ q.crts = processCreateActions(p, Visible(Managed))
        /\ q.upds = processUpdateActions(p, Visible(Managed))
    BY <1>3, QueueStep
  <1>5. p \in Plan /\ FromWish(p)
    BY <1>1 DEF TypeOK, Request, WishInv
  <1> HIDE DEF q, p
  <1>6. ASSUME NEW k \in q.dels
        PROVE  dns[k] # None
    BY <1>4, <1>6, <1>5 DEF processDeleteActions, endpointsByZoneID, Plan, Visible
  <1>7. ASSUME NEW k \in Present(q.upds)
        PROVE  dns[k] # None
    BY <1>4, <1>7 DEF processUpdateActions, Present, Visible
  <1>8. ASSUME NEW k \in Present(q.crts)
        PROVE  dns[k] = None /\ ZoneOf[k] \in Managed
    <2>1. k \in Key /\ q.crts[k] # None
      BY <1>8 DEF Present
    <2>2. k \in p.create /\ ZoneOf[k] \in Zone /\ Visible(Managed)[k] = None
      BY <1>4, <2>1 DEF processCreateActions, endpointsByZoneID
    <2>3. k \in Owned
      BY <1>5, <2>2 DEF FromWish
    <2>4. ZoneOf[k] \in Managed
      BY <2>2, <2>3, DataAssumption DEF DS!Orderly
    <2>5. QED  BY <2>1, <2>2, <2>4, VisibleManaged
  <1>9. QED  BY <1>4, <1>6, <1>7, <1>8 DEF Fitting

\* A queued creation meets none of its rivals once the deletions are done.
LEMMA CreationIsLegal ==
  ASSUME TypeOK, LoopInv, QuietInv, FitInv, DS!Orderly, Fitting(serving),
         NEW h \in Handler, req[h].pc = "run", req[h].dels = {},
         NEW k \in Present(req[h].crts)
  PROVE  MayCreate(k)
  <1>1. serving = h /\ QueuesForWant(h) /\ AllPending(h)
    BY RunningApplies
  <1>2. dns[k] = None /\ ZoneOf[k] \in Managed /\ k \in Key
    BY <1>1 DEF Fitting, Present
  <1>3. k \in Present(want)
    BY <1>1, <1>2 DEF QueuesForWant, CreationFor, Present
  <1>4. ASSUME NEW r \in Rivals[k]
        PROVE  dns[r] = None
    <2>1. k \in Owned
      BY <1>2, <1>3, ReconcileAssumption DEF FitInv
    <2>2. r \in Owned /\ ZoneOf[r] \in Managed
      BY <1>2, <2>1 DEF DS!Orderly
    <2>3. want[r] = None
      BY <1>3 DEF FitInv, DS!Orderly, DS!Present, Present
    <2>4. Pending(h, r)
      BY <1>1, <2>2 DEF AllPending
    <2>5. QED  BY <2>3, <2>4 DEF Pending
  <1>5. QED  BY <1>2, <1>4 DEF MayCreate

\* So no call of an undisturbed cycle is refused: each has its effect.
LEMMA DeletesFit ==
  ASSUME TypeOK, LoopInv, QuietInv, ~DryRun, quiet', Fitting(serving),
         NEW h \in Handler, applyDeletes(h)
  PROVE  /\ Fitting(h)' /\ UNCHANGED <<serving, last>>
         /\ \E k \in req[h].dels : MayChange(k) /\ dns' = [dns EXCEPT ![k] = None]
  <1>1. req[h].pc = "run" /\ req[h] \in Request /\ dns \in [Key -> RRSet \cup {None}]
    BY DEF applyDeletes, Deleting, TypeOK, Partial
  <1>2. serving = h /\ QueuesForWant(h)
    BY <1>1, RunningApplies
  <1>3. PICK k \in req[h].dels :
          \/ /\ Skips \/ Does(MayChange(k), k, None)
             /\ \E r : /\ Goes(h, r) /\ r.dels = req[h].dels \ {k}
                      /\ r.crts = req[h].crts /\ r.upds = req[h].upds
          \/ Aborts(h, MayChange(k), k, None)
    BY DeletesStep
  <1>4. k \in Key /\ MayChange(k)
    BY <1>1, <1>2 DEF Request, Fitting, MayChange
  <1>5. ~Aborts(h, MayChange(k), k, None) /\ ~Skips
    BY <1>4 DEF Aborts, Fails, Disturb, Skips
  <1>6. PICK r : /\ Goes(h, r) /\ r.dels = req[h].dels \ {k}
                 /\ r.crts = req[h].crts /\ r.upds = req[h].upds
    BY <1>3, <1>5
  <1>7. dns' = [dns EXCEPT ![k] = None]
    BY <1>3, <1>5, UndisturbedCall DEF Does
  <1>8. req'[h] = r /\ UNCHANGED <<serving, last>>
    BY <1>6 DEF Goes
  <1>9. \A j \in Key \ {k} : dns'[j] = dns[j]
    BY <1>1, <1>7
  <1>10. dns'[k] = None
    BY <1>1, <1>4, <1>7
  <1>11. k \notin Present(req[h].upds)
    BY <1>2 DEF QueuesForWant, DeletionFor, UpdateFor
  <1>12. Fitting(h)'
    <2>1. \A j \in r.dels : dns'[j] # None
      BY <1>1, <1>2, <1>6, <1>9 DEF Request, Fitting
    <2>2. \A j \in Present(r.crts) : dns'[j] = None /\ ZoneOf[j] \in Managed
      BY <1>2, <1>6, <1>9, <1>10 DEF Present, Fitting
    <2>3. \A j \in Present(r.upds) : dns'[j] # None
      BY <1>2, <1>6, <1>9, <1>11 DEF Present, Fitting
    <2>4. QED  BY <1>8, <2>1, <2>2, <2>3 DEF Fitting
  <1>13. QED  BY <1>4, <1>7, <1>8, <1>12

LEMMA CreatesFit ==
  ASSUME TypeOK, LoopInv, QuietInv, FitInv, DS!Orderly, ~DryRun, quiet', Fitting(serving),
         NEW h \in Handler, applyCreates(h)
  PROVE  /\ Fitting(h)' /\ UNCHANGED <<serving, last>>
         /\ \E k \in Present(req[h].crts) :
              MayCreate(k) /\ dns' = [dns EXCEPT ![k] = req[h].crts[k]]
  <1>1. /\ req[h].pc = "run" /\ req[h].dels = {} /\ req[h] \in Request
        /\ dns \in [Key -> RRSet \cup {None}]
    BY DEF applyCreates, Creating, TypeOK, Partial
  <1>2. serving = h
    BY <1>1, RunningApplies
  <1>3. PICK k \in Present(req[h].crts) :
          \/ /\ Skips \/ Does(MayCreate(k), k, req[h].crts[k])
             /\ \E r : /\ Goes(h, r) /\ r.dels = req[h].dels /\ r.upds = req[h].upds
                      /\ r.crts = [req[h].crts EXCEPT ![k] = None]
          \/ Aborts(h, MayCreate(k), k, req[h].crts[k])
    BY CreatesStep
  <1> DEFINE rr == req[h].crts[k]
  <1>4. /\ k \in Key /\ rr # None /\ MayCreate(k)
        /\ req[h].crts \in [Key -> RRSet \cup {None}]
    BY <1>1, CreationIsLegal DEF Present, Request, Partial
  <1> HIDE DEF rr
  <1>5. ~Aborts(h, MayCreate(k), k, rr) /\ ~Skips
    BY <1>4 DEF Aborts, Fails, Disturb, Skips
  <1>6. PICK r : /\ Goes(h, r) /\ r.dels = req[h].dels /\ r.upds = req[h].upds
                 /\ r.crts = [req[h].crts EXCEPT ![k] = None]
    BY <1>3, <1>5 DEF rr
  <1>7. Does(MayCreate(k), k, rr)
    BY <1>3, <1>5 DEF rr
  <1>8. dns' = [dns EXCEPT ![k] = rr]
    BY <1>7, UndisturbedCall DEF Does
  <1>9. req'[h] = r /\ UNCHANGED <<serving, last>>
    BY <1>6 DEF Goes
  <1>10. dns'[k] = rr /\ \A j \in Key \ {k} : dns'[j] = dns[j]
    BY <1>1, <1>4, <1>8
  <1>11. r.crts[k] = None /\ \A j \in Key \ {k} : r.crts[j] = req[h].crts[j]
    BY <1>4, <1>6
  <1>12. Fitting(h)'
    <2>1. \A j \in Present(r.crts) : dns'[j] = None /\ ZoneOf[j] \in Managed
      BY <1>2, <1>10, <1>11 DEF Present, Fitting
    <2>2. \A j \in Present(r.upds) : dns'[j] # None
      BY <1>2, <1>4, <1>6, <1>10 DEF Present, Fitting
    <2>3. QED  BY <1>1, <1>6, <1>9, <2>1, <2>2 DEF Fitting
  <1>13. QED  BY <1>4, <1>8, <1>9, <1>12 DEF rr

\* Calls that update a recordset never make it vanish.
LEMMA UpdateCallFit ==
  ASSUME TypeOK, LoopInv, QuietInv, quiet', Fitting(serving), NEW h \in Handler,
         NEW option \in {"recs", "ttl", "labels"}, NEW earlier, UpdateCall(h, option, earlier)
  PROVE  /\ Fitting(h)' /\ UNCHANGED <<serving, last>>
         /\ \E k \in Present(req[h].upds) :
              /\ MayChange(k) /\ req[h].upds[k][option] # None
              /\ dns' = [dns EXCEPT ![k] = [@ EXCEPT ![option] = req[h].upds[k][option]]]
  <1>1. PICK k \in Key :
           LET u == req[h].upds[k]
               rr == [dns[k] EXCEPT ![option] = u[option]]
           IN /\ u # None /\ u[option] # None /\ req[h].pc = "run" /\ ~DryRun
              /\ \/ /\ Succeeds(MayChange(k), k, rr)
                    /\ \E r : /\ Goes(h, r) /\ r.dels = req[h].dels /\ r.crts = req[h].crts
                             /\ r.upds = [req[h].upds EXCEPT ![k] = [u EXCEPT ![option] = None]]
                 \/ Fails(MayChange(k), k, rr) /\ Answer(h, "err")
    BY UpdateCallStep
  <1> DEFINE u == req[h].upds[k]
             v == [u EXCEPT ![option] = None]
             rr == [dns[k] EXCEPT ![option] = u[option]]
  <1>2. /\ req[h].pc = "run" /\ req[h] \in Request /\ k \in Present(req[h].upds)
        /\ dns \in [Key -> RRSet \cup {None}]
        /\ req[h].upds \in [Key -> UpdateOpts \cup {None}]
    BY <1>1 DEF TypeOK, Request, Partial, Present
  <1>3. serving = h /\ MayChange(k)
    BY <1>2, RunningApplies DEF Fitting, MayChange
  <1>4. req[h].dels = {} /\ Present(req[h].crts) = {}
    BY DEF UpdateCall, MayUpdate, Updating
  <1>5. rr # None
    <2>1. dns[k] \in RRSet /\ u \in UpdateOpts /\ u[option] # None
      BY <1>1, <1>2, <1>3 DEF MayChange
    <2>2. rr \in RRSet
      BY <2>1, OptionTypes
    <2> HIDE DEF rr
    <2>3. QED  BY <2>2, NilIsNoRecord
  <1>6. /\ Succeeds(MayChange(k), k, rr)
        /\ \E r : /\ Goes(h, r) /\ r.dels = req[h].dels /\ r.crts = req[h].crts
                 /\ r.upds = [req[h].upds EXCEPT ![k] = v]
    <2>1. ~Fails(MayChange(k), k, rr)
      BY <1>3 DEF Fails, Disturb
    <2>2. QED  BY <1>1, <2>1
  <1> HIDE DEF rr, v
  <1>7. PICK r : /\ Goes(h, r) /\ r.dels = req[h].dels /\ r.crts = req[h].crts
                 /\ r.upds = [req[h].upds EXCEPT ![k] = v]
    BY <1>6
  <1>8. dns' = [dns EXCEPT ![k] = rr]
    BY <1>6, UndisturbedCall
  <1>9. req'[h] = r /\ UNCHANGED <<serving, last>>
    BY <1>7 DEF Goes
  <1>10. dns'[k] = rr /\ \A j \in Key \ {k} : dns'[j] = dns[j] /\ r.upds[j] = req[h].upds[j]
    BY <1>2, <1>7, <1>8
  <1>11. Fitting(h)'
    <2>1. \A j \in Present(r.upds) : dns'[j] # None
      BY <1>3, <1>5, <1>10 DEF Present, Fitting
    <2>2. QED  BY <1>4, <1>7, <1>9, <2>1 DEF Fitting
  <1>12. dns' = [dns EXCEPT ![k] = [@ EXCEPT ![option] = req[h].upds[k][option]]]
    BY <1>8 DEF rr
  <1>13. QED  BY <1>1, <1>2, <1>3, <1>9, <1>11, <1>12

LEMMA FinishFit ==
  ASSUME TypeOK, LoopInv, QuietInv, Fitting(serving), NEW h \in Handler, FinishUpdate(h)
  PROVE  Fitting(h)'
  <1>1. PICK k \in Key :
           /\ UNCHANGED <<dns, quiet, disturbances>>
           /\ \E r : /\ Goes(h, r) /\ r.dels = req[h].dels /\ r.crts = req[h].crts
                    /\ r.upds = [req[h].upds EXCEPT ![k] = None]
    BY FinishUpdateStep
  <1>2. PICK r : /\ Goes(h, r) /\ r.dels = req[h].dels /\ r.crts = req[h].crts
                 /\ r.upds = [req[h].upds EXCEPT ![k] = None]
    BY <1>1
  <1>3. req[h].pc = "run" /\ req[h].upds \in [Key -> UpdateOpts \cup {None}]
    BY DEF FinishUpdate, MayUpdate, Updating, TypeOK, Request, Partial
  <1>4. serving = h
    BY <1>3, RunningApplies
  <1>5. \A j \in Present(r.upds) : j \in Present(req[h].upds)
    BY <1>2, <1>3 DEF Present
  <1>6. req'[h] = r
    BY <1>2 DEF Goes
  <1>7. QED  BY <1>1, <1>2, <1>4, <1>5, <1>6 DEF Fitting

\* A handler that makes no call does not make the cycle fail either.
LEMMA QuietlyOn ==
  ASSUME IndInv, FitInv, DS!Orderly, quiet, ~DryRun, NEW h \in Handler, Handle(h),
         ~ReadFails(h), ~applyDeletes(h), ~applyCreates(h),
         ~UpdateRecords(h), ~UpdateTTL(h), ~UpdateLabels(h)
  PROVE  /\ last' # "err"
         /\ loop' = "applying" /\ req'[serving'].pc = "run" => Fitting(serving)'
  <1>1. TypeOK /\ WishInv /\ LoopInv /\ QuietInv
    BY DEF IndInv, CycleInv
  <1>2. CASE ReturnUnchanged(h) \/ ReturnApplied(h)
    <2>1. req[h].pc # "free" /\ Answer(h, "ok")
      BY <1>2 DEF ReturnUnchanged, ReturnApplied
    <2>2. serving = h
      BY <1>1, <2>1, OneBusy
    <2>3. QED  BY <2>1, <2>2 DEF Answer
  <1>3. CASE ListZones(h)
    <2>1. serving = h
      BY <1>1, <1>3, OneBusy DEF ListZones
    <2>2. /\ req'[h] = ListedReq(h) /\ ListedReq(h).pc = "fetch"
          /\ UNCHANGED <<serving, last>>
      BY <1>1, <1>3, ListZonesStep
    <2>3. QED  BY <2>1, <2>2 DEF FitInv
  <1>4. CASE FetchZone(h)
    <2>1. serving = h
      BY <1>1, <1>4, OneBusy DEF FetchZone
    <2>2. PICK z \in req[h].unread : /\ req'[h] = FetchedReq(h, z)
                                     /\ FetchedReq(h, z).pc = "fetch"
                                     /\ UNCHANGED <<serving, last>>
      BY <1>1, <1>4, FetchZoneStep
    <2>3. QED  BY <2>1, <2>2 DEF FitInv
  <1>5. CASE ReturnRecords(h)
    <2>1. serving = h
      BY <1>1, <1>5, OneBusy DEF ReturnRecords
    <2>2. QED  BY <1>5, <2>1 DEF ReturnRecords, FitInv
  <1>6. CASE Queue(h)
    <2>1. serving = h
      BY <1>1, <1>6, OneBusy DEF Queue
    <2>2. Fitting(h)' /\ UNCHANGED <<serving, last>>
      BY <1>1, <1>6, QueueFits DEF Queue
    <2>3. QED  BY <2>1, <2>2 DEF FitInv
  <1>7. CASE FinishUpdate(h)
    <2>1. req[h].pc = "run"
      BY <1>7 DEF FinishUpdate, MayUpdate, Updating
    <2>2. serving = h /\ loop = "applying"
      BY <1>1, <2>1, RunningApplies
    <2>3. Fitting(serving)
      BY <2>1, <2>2 DEF FitInv
    <2>4. Fitting(h)' /\ UNCHANGED <<serving, last>>
      BY <1>1, <1>7, <2>3, FinishFit DEF FinishUpdate
    <2>5. QED  BY <2>2, <2>4 DEF FitInv
  <1>8. QED  BY <1>2, <1>3, <1>4, <1>5, <1>6, <1>7 DEF Handle

LEMMA CallsFit ==
  ASSUME IndInv, FitInv, DS!Orderly, quiet', quiet, ~DryRun, NEW h \in Handler,
         \/ applyDeletes(h) \/ applyCreates(h)
         \/ UpdateRecords(h) \/ UpdateTTL(h) \/ UpdateLabels(h)
  PROVE  serving = h /\ Fitting(h)' /\ UNCHANGED <<serving, last>>
  <1>1. TypeOK /\ LoopInv /\ QuietInv
    BY DEF IndInv, CycleInv
  <1>2. req[h].pc = "run"
    BY DEF applyDeletes, Deleting, applyCreates, Creating, UpdateRecords, UpdateTTL,
           UpdateLabels, UpdateCall, MayUpdate, Updating
  <1>3. serving = h /\ Fitting(serving)
    BY <1>1, <1>2, RunningApplies DEF FitInv
  <1>4. CASE applyDeletes(h)
    BY <1>1, <1>3, <1>4, DeletesFit
  <1>5. CASE applyCreates(h)
    BY <1>1, <1>3, <1>5, CreatesFit
  <1>6. CASE UpdateRecords(h)
    BY <1>1, <1>3, <1>6, UpdateCallFit DEF UpdateRecords
  <1>7. CASE UpdateTTL(h)
    BY <1>1, <1>3, <1>7, UpdateCallFit DEF UpdateTTL
  <1>8. CASE UpdateLabels(h)
    BY <1>1, <1>3, <1>8, UpdateCallFit DEF UpdateLabels
  <1>9. QED  BY <1>4, <1>5, <1>6, <1>7, <1>8

\* A dry run makes no call that could fail.
LEMMA DryRunNeverFails ==
  ASSUME DryRun, NEW h \in Handler, Handle(h), ~ReadFails(h), last # "err"
  PROVE  last' # "err"
  BY DEF Handle, ReturnUnchanged, ListZones, FetchZone, ReturnRecords, Queue, Answer,
         applyDeletes, applyCreates, UpdateRecords, UpdateTTL, UpdateLabels, UpdateCall,
         FinishUpdate, ReturnApplied, Aborts, LoopWaits

LEMMA NextFit ==
  ASSUME IndInv, FitInv, [Next]_vars
  PROVE  FitInv'
  <1>1. want' \in Wishes
    <2>1. want \in Wishes
      BY DEF FitInv
    <2>2. CASE ExternalDNS
      BY <2>1, <2>2 DEF ExternalDNS, StartRecords, StartApply
    <2>3. ASSUME NEW h \in Handler, Handle(h)
          PROVE  want' \in Wishes
      BY <2>1, <2>3
      DEF Handle, ReturnUnchanged, ListZones, FetchZone, ReadFails, ReturnRecords, Queue,
          applyDeletes, applyCreates, UpdateRecords, UpdateTTL, UpdateLabels, UpdateCall,
          FinishUpdate, ReturnApplied
    <2>4. CASE Outside
      BY <2>1, <2>4 DEF Outside, GiveUp, Crash, ForeignEdit, ChangeWant
    <2>5. CASE UNCHANGED vars
      BY <2>1, <2>5 DEF vars
    <2>6. QED  BY <2>2, <2>3, <2>4, <2>5 DEF Next
  <1>2. ASSUME quiet', DS!Orderly
        PROVE  /\ last' # "err"
               /\ ~DryRun /\ loop' = "applying" /\ req'[serving'].pc = "run" => Fitting(serving)'
    <2>0. TypeOK
      BY DEF IndInv
    <2>1. ASSUME NEW h \in Handler, StartRecords(h)
          PROVE  last' # "err" /\ loop' # "applying"
      BY <2>1 DEF StartRecords
    <2>2. ASSUME NEW h \in Handler, StartApply(h)
          PROVE  last' # "err" /\ req'[serving'].pc # "run"
      <3> DEFINE r == [IdleRequest EXCEPT !.pc = "zones", !.plan = plan]
      <3>1. r.pc = "zones"
        BY DEF IdleRequest
      <3>2. req' = [req EXCEPT ![h] = r] /\ serving' = h
        BY <2>2, Zenon DEF StartApply
      <3> HIDE DEF r
      <3>3. req'[h] = r
        BY <2>0, <3>2 DEF TypeOK
      <3>4. last' # "err"
        BY <1>2, <2>2 DEF StartApply, FitInv
      <3>5. QED  BY <3>1, <3>2, <3>3, <3>4
    <2>3. ASSUME NEW h \in Handler, Handle(h)
          PROVE  /\ last' # "err"
                 /\ ~DryRun /\ loop' = "applying" /\ req'[serving'].pc = "run" =>
                      Fitting(serving)'
      <3>1. quiet /\ ~ReadFails(h) /\ last # "err"
        BY <1>2, <2>3, QuietBefore DEF FitInv
      <3>2. CASE DryRun
        BY <2>3, <3>1, <3>2, DryRunNeverFails
      <3>3. CASE ~DryRun
        BY <1>2, <2>3, <3>1, <3>3, CallsFit, QuietlyOn
      <3>4. QED  BY <3>2, <3>3
    <2>4. CASE Outside
      BY <1>2, <2>4 DEF Outside, GiveUp, Crash, ForeignEdit, ChangeWant, Disturb
    <2>5. CASE UNCHANGED vars
      BY <1>2, <2>5 DEF vars, FitInv, Fitting
    <2>6. QED  BY <2>1, <2>2, <2>3, <2>4, <2>5 DEF Next, ExternalDNS
  <1>3. QED  BY <1>1, <1>2 DEF FitInv, DS!Orderly

-----------------------------------------------------------------------------
(* The refinement: every step is one of DesiredState, or a stutter.        *)

\* An answer without an error ends a cycle well.
LEMMA AnswerMaps ==
  ASSUME IndInv, CycleInv', NEW h \in Handler, req[h].pc # "free", Answer(h, "ok"),
         UNCHANGED <<dns, want, wished, quiet>>
  PROVE  [DS!Next]_DS!vars
  <1>1. CASE serving = h
    <2>1. last' = "ok"
      BY <1>1 DEF Answer
    <2>2. quiet /\ ~DryRun => Synced'
      BY <2>1 DEF CycleInv, QuietInv
    <2>3. quiet /\ ~DryRun => Synced
      BY <2>2, PlanNowKept
    <2>4. Synced => DS!Fulfilled
      BY DEF Synced, SyncedKey, Outdated, EffectiveTTL,
             DS!Fulfilled, DS!Satisfies, DS!EffectiveTTL
    <2>5. DS!Succeed
      BY <2>1, <2>3, <2>4 DEF DS!Succeed
    <2>6. QED  BY <2>5 DEF DS!Next
  <1>2. CASE serving # h
    BY <1>2 DEF Answer, DS!vars
  <1>3. QED  BY <1>1, <1>2

\* A call that succeeds writes what a wish called for, or is an upset.
LEMMA SucceedsMaps ==
  ASSUME IndInv, NEW h \in Handler, req[h].pc = "run", ~DryRun,
         NEW k \in Owned, NEW rr \in RRSet \cup {None}, NEW legal \in BOOLEAN, NEW w \in wished,
         legal => DS!Towards(w, k, dns[k], rr),
         Succeeds(legal, k, rr), UNCHANGED <<want, wished, last>>
  PROVE  [DS!Next]_DS!vars
  <1>1. k \in Key
    BY DataAssumption
  <1>2. quiet => last = "none"
    BY OneBusy DEF IndInv, CycleInv
  <1>3. CASE legal /\ dns' = [dns EXCEPT ![k] = rr] /\ UNCHANGED <<quiet, disturbances>>
    <2>1. DS!Write(k)
      BY <1>2, <1>3 DEF DS!Write, DS!RRSet, RRSet
    <2>2. QED  BY <1>1, <2>1 DEF DS!Next
  <1>4. CASE Disturb /\ UNCHANGED dns
    <2>1. DS!Upset
      BY <1>4 DEF DS!Upset, Disturb
    <2>2. QED  BY <2>1 DEF DS!Next
  <1>5. QED  BY <1>3, <1>4 DEF Succeeds

\* A call that reports an error ends the cycle, after its effect or without it.
LEMMA FailsMaps ==
  ASSUME IndInv, NEW h \in Handler, ~DryRun,
         NEW k \in Owned, NEW rr \in RRSet \cup {None}, NEW legal \in BOOLEAN, NEW w \in wished,
         legal => DS!Towards(w, k, dns[k], rr),
         DS!Orderly /\ quiet' => UNCHANGED last,
         Fails(legal, k, rr), Answer(h, "err"), UNCHANGED <<want, wished>>
  PROVE  [DS!Next]_DS!vars
  <1>1. k \in Key
    BY DataAssumption
  <1>2. last' \in {last, "err"}
    BY DEF Answer
  <1>3. CASE UNCHANGED <<dns, quiet, disturbances>>
    <2>1. CASE last' = last
      BY <1>3, <2>1 DEF DS!vars
    <2>2. CASE last' # last
      <3>1. DS!Fail
        BY <1>2, <1>3, <2>2 DEF DS!Fail
      <3>2. QED  BY <3>1 DEF DS!Next
    <2>3. QED  BY <2>1, <2>2
  <1>4. CASE Disturb /\ UNCHANGED dns
    <2>1. DS!Upset
      BY <1>2, <1>4 DEF DS!Upset, Disturb
    <2>2. QED  BY <2>1 DEF DS!Next
  <1>5. CASE Disturb /\ legal /\ dns' = [dns EXCEPT ![k] = rr]
    <2>1. DS!Write(k)
      BY <1>2, <1>5 DEF DS!Write, Disturb, DS!RRSet, RRSet
    <2>2. QED  BY <1>1, <2>1 DEF DS!Next
  <1>6. QED  BY <1>3, <1>4, <1>5 DEF Fails

LEMMA DeletesMap ==
  ASSUME IndInv, NEW h \in Handler, applyDeletes(h),
         DS!Orderly /\ quiet' => UNCHANGED last
  PROVE  [DS!Next]_DS!vars
  <1>1. req[h].pc = "run"
    BY DEF applyDeletes, Deleting
  <1>2. PICK k \in req[h].dels :
          \/ (Skips \/ Does(MayChange(k), k, None)) /\ UNCHANGED last
          \/ Aborts(h, MayChange(k), k, None)
    BY DEF applyDeletes, LoopWaits
  <1>3. k \in Owned /\ \E w \in wished : DeletionFor(w, k)
    BY DEF IndInv, WishInv, QueuesFromWishes
  <1>4. PICK w \in wished : DS!Towards(w, k, dns[k], None)
    BY <1>3 DEF DeletionFor, DS!Towards
  <1>5. UNCHANGED <<want, wished>>
    BY DEF applyDeletes
  <1>6. MayChange(k) \in BOOLEAN
    BY DEF MayChange
  <1>7. CASE Skips /\ UNCHANGED last
    BY <1>5, <1>7 DEF Skips, DS!vars
  <1>8. CASE Does(MayChange(k), k, None) /\ UNCHANGED last
    BY <1>1, <1>3, <1>4, <1>5, <1>6, <1>8, SucceedsMaps DEF Does
  <1>9. CASE Aborts(h, MayChange(k), k, None)
    BY <1>3, <1>4, <1>5, <1>6, <1>9, FailsMaps DEF Aborts
  <1>10. QED  BY <1>2, <1>7, <1>8, <1>9

LEMMA CreatesMap ==
  ASSUME IndInv, NEW h \in Handler, applyCreates(h),
         DS!Orderly /\ quiet' => UNCHANGED last
  PROVE  [DS!Next]_DS!vars
  <1>1. req[h].pc = "run" /\ req[h] \in Request
    BY DEF applyCreates, Creating, IndInv, TypeOK
  <1>2. PICK k \in Present(req[h].crts) :
          \/ (Skips \/ Does(MayCreate(k), k, req[h].crts[k])) /\ UNCHANGED last
          \/ Aborts(h, MayCreate(k), k, req[h].crts[k])
    BY DEF applyCreates, LoopWaits
  <1> DEFINE rr == req[h].crts[k]
  <1>3. k \in Owned /\ rr \in RRSet \cup {None} /\ \E w \in wished : CreationFor(w, k, rr)
    BY <1>1 DEF IndInv, WishInv, QueuesFromWishes, Request, Partial, Present
  <1> HIDE DEF rr
  <1>4. PICK w \in wished : MayCreate(k) => DS!Towards(w, k, dns[k], rr)
    BY <1>3 DEF CreationFor, CreateOpts, HetznerLabels, MayCreate,
                DS!Towards, DS!CreateOpts, DS!HetznerLabels
  <1>5. UNCHANGED <<want, wished>>
    BY DEF applyCreates
  <1>6. MayCreate(k) \in BOOLEAN
    BY DEF MayCreate
  <1>7. CASE Skips /\ UNCHANGED last
    BY <1>5, <1>7 DEF Skips, DS!vars
  <1>8. CASE Does(MayCreate(k), k, rr) /\ UNCHANGED last
    BY <1>1, <1>3, <1>4, <1>5, <1>6, <1>8, SucceedsMaps DEF Does
  <1>9. CASE Aborts(h, MayCreate(k), k, rr)
    BY <1>3, <1>4, <1>5, <1>6, <1>9, FailsMaps DEF Aborts
  <1>10. QED  BY <1>2, <1>7, <1>8, <1>9 DEF rr

LEMMA UpdateCallMaps ==
  ASSUME IndInv, NEW h \in Handler, NEW option \in {"recs", "ttl", "labels"}, NEW earlier,
         UpdateCall(h, option, earlier),
         DS!Orderly /\ quiet' => UNCHANGED last
  PROVE  [DS!Next]_DS!vars
  <1>1. PICK k \in Key :
          /\ req[h].upds[k] # None /\ req[h].upds[k][option] # None
          /\ req[h].pc = "run" /\ ~DryRun
          /\ LET rr == [dns[k] EXCEPT ![option] = req[h].upds[k][option]] IN
             \/ Succeeds(MayChange(k), k, rr) /\ UNCHANGED last
             \/ Fails(MayChange(k), k, rr) /\ Answer(h, "err")
    BY DEF UpdateCall, MayUpdate, Updating, LoopWaits
  <1> DEFINE u == req[h].upds[k]
             new == [dns[k] EXCEPT ![option] = u[option]]
             rr == IF MayChange(k) THEN new ELSE None
  <1>2. k \in Owned /\ \E w \in wished : UpdateFor(w, k, u)
    BY <1>1 DEF IndInv, WishInv, QueuesFromWishes, Present
  <1>3. PICK w \in wished : w[k] # None /\ u[option] = w[k][option]
    BY <1>1, <1>2 DEF UpdateFor
  <1>4. MayChange(k) \in BOOLEAN
    BY DEF MayChange
  <1>5. rr \in RRSet \cup {None}
    <2>1. CASE MayChange(k)
      <3>1. dns[k] \in RRSet /\ u \in UpdateOpts /\ u[option] # None
        BY <1>1, <2>1 DEF MayChange, IndInv, TypeOK, Partial, Request
      <3>2. new \in RRSet
        BY <3>1, OptionTypes
      <3> HIDE DEF new
      <3>3. QED  BY <2>1, <3>2
    <2>2. CASE ~MayChange(k)
      BY <2>2
    <2>3. QED  BY <2>1, <2>2
  <1>6. MayChange(k) => DS!Towards(w, k, dns[k], new)
    BY <1>3 DEF MayChange, DS!Towards
  <1>7. UNCHANGED <<want, wished>>
    BY DEF UpdateCall
  <1>8. \/ Succeeds(MayChange(k), k, new) /\ UNCHANGED last
        \/ Fails(MayChange(k), k, new) /\ Answer(h, "err")
    BY <1>1
  <1> HIDE DEF new
  <1>9. \/ Succeeds(MayChange(k), k, rr) /\ UNCHANGED last
        \/ Fails(MayChange(k), k, rr) /\ Answer(h, "err")
    BY <1>8 DEF Succeeds, Fails
  <1>10. MayChange(k) => DS!Towards(w, k, dns[k], rr)
    BY <1>6
  <1> HIDE DEF rr
  <1>11. CASE Succeeds(MayChange(k), k, rr) /\ UNCHANGED last
    BY <1>1, <1>2, <1>4, <1>5, <1>7, <1>10, <1>11, SucceedsMaps
  <1>12. CASE Fails(MayChange(k), k, rr) /\ Answer(h, "err")
    BY <1>1, <1>2, <1>4, <1>5, <1>7, <1>10, <1>12, FailsMaps
  <1>13. QED  BY <1>9, <1>11, <1>12

\* The calls of an undisturbed cycle in an orderly system do not end it.
LEMMA CallsKeepOutcome ==
  ASSUME IndInv, FitInv, NEW h \in Handler, DS!Orderly, quiet',
         \/ applyDeletes(h) \/ applyCreates(h)
         \/ UpdateRecords(h) \/ UpdateTTL(h) \/ UpdateLabels(h)
  PROVE  UNCHANGED last
  <1>1. quiet
    BY QuietBefore DEF Handle
  <1>2. CASE DryRun
    BY <1>2 DEF applyDeletes, applyCreates, UpdateRecords, UpdateTTL, UpdateLabels,
                UpdateCall, Aborts, LoopWaits
  <1>3. CASE ~DryRun
    BY <1>1, <1>3, CallsFit
  <1>4. QED  BY <1>2, <1>3

LEMMA HandleMaps ==
  ASSUME IndInv, FitInv, CycleInv', NEW h \in Handler, Handle(h)
  PROVE  [DS!Next]_DS!vars
  <1>1. CASE ReturnUnchanged(h) \/ ReturnApplied(h)
    BY <1>1, AnswerMaps DEF ReturnUnchanged, ReturnApplied
  <1>2. CASE ListZones(h) \/ FetchZone(h) \/ ReturnRecords(h) \/ Queue(h) \/ FinishUpdate(h)
    BY <1>2 DEF ListZones, FetchZone, ReturnRecords, Queue, FinishUpdate, DS!vars
  <1>3. CASE ReadFails(h)
    <2>1. DS!Upset
      BY <1>3 DEF ReadFails, Answer, Disturb, DS!Upset
    <2>2. QED  BY <2>1 DEF DS!Next
  <1>4. CASE applyDeletes(h)
    BY <1>4, CallsKeepOutcome, DeletesMap
  <1>5. CASE applyCreates(h)
    BY <1>5, CallsKeepOutcome, CreatesMap
  <1>6. CASE UpdateRecords(h)
    BY <1>6, CallsKeepOutcome, UpdateCallMaps DEF UpdateRecords
  <1>7. CASE UpdateTTL(h)
    BY <1>7, CallsKeepOutcome, UpdateCallMaps DEF UpdateTTL
  <1>8. CASE UpdateLabels(h)
    BY <1>8, CallsKeepOutcome, UpdateCallMaps DEF UpdateLabels
  <1>9. QED  BY <1>1, <1>2, <1>3, <1>4, <1>5, <1>6, <1>7, <1>8 DEF Handle

LEMMA NextMaps ==
  ASSUME IndInv, FitInv, CycleInv', [Next]_vars
  PROVE  [DS!Next]_DS!vars
  <1>1. ASSUME NEW h \in Handler, StartRecords(h)
        PROVE  DS!Next
    <2>1. DS!StartCycle
      BY <1>1 DEF StartRecords, DS!StartCycle
    <2>2. QED  BY <2>1 DEF DS!Next
  <1>2. ASSUME NEW h \in Handler, StartApply(h)
        PROVE  UNCHANGED DS!vars
    BY <1>2 DEF StartApply, DS!vars
  <1>3. CASE GiveUp \/ Crash
    <2>1. DS!Upset
      BY <1>3 DEF GiveUp, Crash, Disturb, DS!Upset
    <2>2. QED  BY <2>1 DEF DS!Next
  <1>4. ASSUME NEW k \in Key, ForeignEdit(k)
        PROVE  DS!Next
    <2>1. DS!ForeignEdit(k)
      BY <1>4 DEF ForeignEdit, Disturb, DS!ForeignEdit
    <2>2. QED  BY <2>1 DEF DS!Next
  <1>5. CASE ChangeWant
    <2>1. DS!ChangeWant
      BY <1>5 DEF ChangeWant, Disturb, DS!ChangeWant
    <2>2. QED  BY <2>1 DEF DS!Next
  <1>6. CASE UNCHANGED vars
    BY <1>6 DEF vars, DS!vars
  <1>7. QED
    BY <1>1, <1>2, <1>3, <1>4, <1>5, <1>6, HandleMaps DEF Next, ExternalDNS, Outside

-----------------------------------------------------------------------------
(* The theorems.                                                           *)

\* The inductive invariant of the two theorems below.
THEOREM OrderlyInductive == Spec => []OrderlyInv
  <1>1. Init => FitInv
    BY DEF Init, FitInv
  <1>2. IndInv /\ FitInv /\ [Next]_vars => FitInv'
    BY NextFit
  <1>3. QED  BY <1>1, <1>2, Inductive, PTL DEF Spec, OrderlyInv

\* In an orderly system an undisturbed cycle never ends in an error: whatever
\* half-applied state earlier cycles left, deleting first, creating then and
\* updating last gives Hetzner no reason to refuse a call.
THEOREM CleanCyclesSucceed ==
  ASSUME DS!Orderly
  PROVE  Spec => []CleanCycleSucceeds
  <1>1. OrderlyInv => CleanCycleSucceeds
    BY DEF OrderlyInv, FitInv, CleanCycleSucceeds
  <1>2. QED  BY <1>1, OrderlyInductive, PTL

\* Behind its requests, listings, plans, queues and handlers, the webhook is what
\* DesiredState says: recordsets are written one at a time towards a wish of the
\* cluster, an undisturbed cycle does not fail, and after one that succeeds they
\* are as wanted; whatever is lost, doubled, killed or edited meanwhile.
THEOREM Implements == Spec => ImplementsDesiredState
  <1>1. Init => DS!Init
    BY DEF Init, DS!Init
  <1>2. OrderlyInv /\ OrderlyInv' /\ [Next]_vars => [DS!Next]_DS!vars
    BY NextMaps DEF OrderlyInv, IndInv
  <1>3. QED
    BY <1>1, <1>2, OrderlyInductive, PTL DEF Spec, ImplementsDesiredState, DS!Spec
=============================================================================
