------------------------------ MODULE Reconcile ------------------------------
(***************************************************************************)
(* The reconciliation of Hetzner DNS with what ExternalDNS wants, through  *)
(* the webhook in its regular (not bulk) mode.                             *)
(*                                                                         *)
(* ExternalDNS (external code) loops: it reads the records, plans, posts   *)
(* the changes.  The webhook serves each request in a handler of its own   *)
(* (provider.go: Records, ApplyChanges; changes.go: hetznerChanges), with  *)
(* one step per call to the Hetzner API (external code).  Between two      *)
(* steps anything may happen: a call is refused, its answer is lost, the   *)
(* client gives up while the handler runs on, the process is killed,       *)
(* somebody edits the zone, the wishes change.  Each of these is a         *)
(* disturbance, and there are at most MaxDisturbances of them.             *)
(***************************************************************************)
EXTENDS RRSets, Naturals

CONSTANTS
  Rivals,          \* Rivals[k]: recordsets that cannot exist beside k (CNAME)
  Handler,         \* the goroutines that may serve a request at a time
  DryRun,          \* the DRY_RUN option
  Wishes,          \* what the cluster may want
  StartDNS,        \* what the zones may hold at the beginning
  Edits,           \* what somebody else may write into a zone
  MaxDisturbances  \* the bound on disturbances

ASSUME ReconcileAssumption ==
  /\ Rivals \in [Key -> SUBSET Key]
  /\ \A k \in Key : k \notin Rivals[k]
  /\ DryRun \in BOOLEAN
  /\ Wishes \subseteq Partial(Endpoint)
  /\ \A w \in Wishes : Present(w) \subseteq Owned
  /\ StartDNS \subseteq Partial(RRSet)
  /\ \A d \in StartDNS : \A k \in Present(d) : ZoneOf[k] \in Zone
  /\ Edits \subseteq RRSet \cup {None}
  /\ MaxDisturbances \in Nat
  /\ None \notin Handler \cup Key \cup Plan

VARIABLES
  dns,           \* the recordsets stored by Hetzner
  want,          \* the endpoints wanted by the cluster
  wished,        \* history: every value that want ever had
  loop,          \* ExternalDNS: where the reconciliation loop is
  serving,       \* ExternalDNS: the handler whose answer it awaits
  plan,          \* ExternalDNS: the changes it is about to post
  last,          \* history: the outcome of the last complete cycle
  quiet,         \* history: no disturbance since the cycle began
  disturbances,  \* how many disturbances there were
  req            \* the webhook: the request each handler serves

vars == <<dns, want, wished, loop, serving, plan, last, quiet, disturbances, req>>

\* pc: free, zones (about to list the zones), fetch (reading the zones one by
\* one), run (applying the queued changes).  plan is None for a GET of the
\* records.  dels, crts and upds are the queues of hetznerChanges; cur is the
\* update whose calls have begun.
Request ==
  [pc     : {"free", "zones", "fetch", "run"},
   plan   : Plan \cup {None},
   unread : SUBSET Zone,
   seen   : Partial(RRSet),
   dels   : SUBSET Key,
   crts   : Partial(RRSet),
   upds   : Partial(UpdateOpts),
   cur    : Key \cup {None}]

IdleRequest ==
  [pc |-> "free", plan |-> None, unread |-> {}, seen |-> Nothing,
   dels |-> {}, crts |-> Nothing, upds |-> Nothing, cur |-> None]

TypeOK ==
  /\ dns \in Partial(RRSet)
  /\ want \in Partial(Endpoint)
  /\ wished \subseteq Partial(Endpoint)
  /\ loop \in {"idle", "reading", "planned", "applying"}
  /\ serving \in Handler \cup {None}
  /\ plan \in Plan
  /\ last \in {"none", "ok", "err"}
  /\ quiet \in BOOLEAN
  /\ disturbances \in 0..MaxDisturbances
  /\ req \in [Handler -> Request]

Init ==
  /\ dns \in StartDNS
  /\ want \in Wishes
  /\ wished = {want}
  /\ loop = "idle"
  /\ serving = None
  /\ plan = NoPlan
  /\ last = "none"
  /\ quiet = FALSE
  /\ disturbances = 0
  /\ req = [h \in Handler |-> IdleRequest]

Free(h) == req[h].pc = "free"

Disturb ==
  /\ disturbances < MaxDisturbances
  /\ disturbances' = disturbances + 1
  /\ quiet' = FALSE

-----------------------------------------------------------------------------
(* ExternalDNS.                                                            *)

\* The interval elapsed: ExternalDNS asks a free handler for the records.
StartRecords(h) ==
  /\ loop = "idle"
  /\ Free(h)
  /\ loop' = "reading"
  /\ serving' = h
  /\ last' = "none"
  /\ quiet' = (\A g \in Handler \ {h} : Free(g))
  /\ req' = [req EXCEPT ![h] = [IdleRequest EXCEPT !.pc = "zones"]]
  /\ UNCHANGED <<dns, want, wished, plan, disturbances>>

\* The plan is posted.
StartApply(h) ==
  /\ loop = "planned"
  /\ Free(h)
  /\ loop' = "applying"
  /\ serving' = h
  /\ req' = [req EXCEPT ![h] = [IdleRequest EXCEPT !.pc = "zones", !.plan = plan]]
  /\ UNCHANGED <<dns, want, wished, plan, last, quiet, disturbances>>

\* The handler answers; nobody listens to a handler the client gave up on.
Answer(h, outcome) ==
  /\ req' = [req EXCEPT ![h] = IdleRequest]
  /\ IF serving = h
     THEN /\ loop' = "idle"
          /\ serving' = None
          /\ plan' = NoPlan
          /\ last' = outcome
     ELSE UNCHANGED <<loop, serving, plan, last>>

-----------------------------------------------------------------------------
(* Records and the first half of ApplyChanges: reading the zones.          *)

\* ApplyChanges returns at once when there is nothing to change.
ReturnUnchanged(h) ==
  /\ req[h].pc = "zones"
  /\ req[h].plan # None
  /\ ~HasChanges(req[h].plan)
  /\ Answer(h, "ok")
  /\ UNCHANGED <<dns, want, wished, quiet, disturbances>>

Reads(h) == req[h].plan # None => HasChanges(req[h].plan)

ListZones(h) ==
  /\ req[h].pc = "zones"
  /\ Reads(h)
  /\ req' = [req EXCEPT ![h].pc = "fetch", ![h].unread = Managed]
  /\ UNCHANGED <<dns, want, wished, loop, serving, plan, last, quiet, disturbances>>

\* fetchRecords of one zone.
FetchZone(h) ==
  /\ req[h].pc = "fetch"
  /\ \E z \in req[h].unread :
       req' = [req EXCEPT
                 ![h].unread = @ \ {z},
                 ![h].seen = [k \in Key |-> IF ZoneOf[k] = z THEN dns[k] ELSE @[k]]]
  /\ UNCHANGED <<dns, want, wished, loop, serving, plan, last, quiet, disturbances>>

\* Listing the zones or reading one of them fails: so does the request.
ReadFails(h) ==
  /\ \/ req[h].pc = "zones" /\ Reads(h)
     \/ req[h].pc = "fetch" /\ req[h].unread # {}
  /\ Disturb
  /\ Answer(h, "err")
  /\ UNCHANGED <<dns, want, wished>>

\* Records returns the endpoints, and ExternalDNS plans from them.
ReturnRecords(h) ==
  /\ req[h].pc = "fetch"
  /\ req[h].unread = {}
  /\ req[h].plan = None
  /\ req' = [req EXCEPT ![h] = IdleRequest]
  /\ IF serving = h
     THEN /\ loop' = "planned"
          /\ serving' = None
          /\ plan' = PlanFor(want, req[h].seen)
     ELSE UNCHANGED <<loop, serving, plan>>
  /\ UNCHANGED <<dns, want, wished, last, quiet, disturbances>>

-----------------------------------------------------------------------------
(* The second half of ApplyChanges: queueing, then deletions, creations    *)
(* and updates, in this order; the first error ends the request.           *)

Queue(h) ==
  /\ req[h].pc = "fetch"
  /\ req[h].unread = {}
  /\ req[h].plan # None
  /\ LET p    == req[h].plan
         seen == req[h].seen
     IN req' = [req EXCEPT ![h].pc = "run",
                           ![h].dels = processDeleteActions(p, seen),
                           ![h].crts = processCreateActions(p, seen),
                           ![h].upds = processUpdateActions(p, seen)]
  /\ UNCHANGED <<dns, want, wished, loop, serving, plan, last, quiet, disturbances>>

\* A slip: creations do not wait for the deletions.
CreatingEarly(h) == req[h].pc = "run" /\ Present(req[h].crts) # {}

Deleting(h) == req[h].pc = "run" /\ req[h].dels # {}
Creating(h) == req[h].pc = "run" /\ req[h].dels = {} /\ Present(req[h].crts) # {}
Updating(h) == /\ req[h].pc = "run"
               /\ req[h].dels = {} /\ Present(req[h].crts) = {}
               /\ Present(req[h].upds) # {}

\* What Hetzner accepts.
MayCreate(k) == dns[k] = None /\ \A r \in Rivals[k] : dns[r] = None
MayChange(k) == dns[k] # None

\* A call that would make dns[k] equal to rr reports success: it took effect,
\* or the action it started fails later, which nobody looks at.
Succeeds(legal, k, rr) ==
  \/ legal /\ dns' = [dns EXCEPT ![k] = rr] /\ UNCHANGED <<quiet, disturbances>>
  \/ Disturb /\ UNCHANGED dns

\* The call reports an error: Hetzner refuses it, or it is not carried out, or
\* it is and only the answer is lost.
Fails(legal, k, rr) ==
  \/ ~legal /\ UNCHANGED <<dns, quiet, disturbances>>
  \/ Disturb /\ UNCHANGED dns
  \/ Disturb /\ legal /\ dns' = [dns EXCEPT ![k] = rr]

\* A dry run logs the change and goes on to the next.
Skips == DryRun /\ UNCHANGED <<dns, quiet, disturbances>>
Does(legal, k, rr) == ~DryRun /\ Succeeds(legal, k, rr)
Aborts(h, legal, k, rr) == ~DryRun /\ Fails(legal, k, rr) /\ Answer(h, "err")

LoopWaits == UNCHANGED <<loop, serving, plan, last>>

applyDeletes(h) ==
  /\ Deleting(h)
  /\ \E k \in req[h].dels :
       \/ /\ Skips \/ Does(MayChange(k), k, None)
          /\ req' = [req EXCEPT ![h].dels = @ \ {k}]
          /\ LoopWaits
       \/ Aborts(h, MayChange(k), k, None)
  /\ UNCHANGED <<want, wished>>

applyCreates(h) ==
  /\ Creating(h)
  /\ \E k \in Present(req[h].crts) :
       \/ /\ Skips \/ Does(MayCreate(k), k, req[h].crts[k])
          /\ req' = [req EXCEPT ![h].crts[k] = None]
          /\ LoopWaits
       \/ Aborts(h, MayCreate(k), k, req[h].crts[k])
  /\ UNCHANGED <<want, wished>>

\* The update to go on with: the one begun, or any other.
MayUpdate(h, k) ==
  /\ Updating(h)
  /\ req[h].upds[k] # None
  /\ req[h].cur \in {None, k}

\* The calls of an update, in their order: each is made for the option that is
\* set, and clears it.
UpdateCall(h, option, earlier) ==
  /\ \E k \in Key :
       /\ MayUpdate(h, k)
       /\ ~DryRun
       /\ req[h].upds[k][option] # None
       /\ \A o \in earlier : req[h].upds[k][o] = None
       /\ LET rr == [dns[k] EXCEPT ![option] = req[h].upds[k][option]] IN
          \/ /\ Succeeds(MayChange(k), k, rr)
             /\ req' = [req EXCEPT ![h].upds[k][option] = None, ![h].cur = k]
             /\ LoopWaits
          \/ Fails(MayChange(k), k, rr) /\ Answer(h, "err")
  /\ UNCHANGED <<want, wished>>

UpdateRecords(h) == UpdateCall(h, "recs", {})
UpdateTTL(h)     == UpdateCall(h, "ttl", {"recs"})
UpdateLabels(h)  == UpdateCall(h, "labels", {"recs", "ttl"})

NoOpts == [recs |-> None, ttl |-> None, labels |-> None]

\* An update is over when it has no call left, or when it must not call.
FinishUpdate(h) ==
  /\ \E k \in Key :
       /\ MayUpdate(h, k)
       /\ DryRun \/ req[h].upds[k] = NoOpts
       /\ req' = [req EXCEPT ![h].upds[k] = None, ![h].cur = None]
  /\ UNCHANGED <<dns, want, wished, loop, serving, plan, last, quiet, disturbances>>

ReturnApplied(h) ==
  /\ req[h].pc = "run"
  /\ req[h].dels = {} /\ Present(req[h].crts) = {} /\ Present(req[h].upds) = {}
  /\ Answer(h, "ok")
  /\ UNCHANGED <<dns, want, wished, quiet, disturbances>>

-----------------------------------------------------------------------------
(* Disturbances from outside.                                              *)

\* The client, or the server's write timeout, gives up on the answer: the
\* handler runs on.
GiveUp ==
  /\ serving # None
  /\ Disturb
  /\ loop' = "idle"
  /\ serving' = None
  /\ plan' = NoPlan
  /\ last' = "err"
  /\ UNCHANGED <<dns, want, wished, req>>

\* The webhook process dies, and its handlers with it; it is restarted.
Crash ==
  /\ Disturb
  /\ req' = [h \in Handler |-> IdleRequest]
  /\ IF serving # None
     THEN /\ loop' = "idle"
          /\ serving' = None
          /\ plan' = NoPlan
          /\ last' = "err"
     ELSE UNCHANGED <<loop, serving, plan, last>>
  /\ UNCHANGED <<dns, want, wished>>

\* Somebody else writes a recordset or deletes it.
ForeignEdit(k) ==
  /\ Disturb
  /\ ZoneOf[k] \in Zone
  /\ \E rr \in Edits :
       /\ rr # None => \A r \in Rivals[k] : dns[r] = None
       /\ dns' = [dns EXCEPT ![k] = rr]
  /\ UNCHANGED <<want, wished, loop, serving, plan, last, req>>

ChangeWant ==
  /\ Disturb
  /\ want' \in Wishes
  /\ wished' = wished \cup {want'}
  /\ UNCHANGED <<dns, loop, serving, plan, last, req>>

-----------------------------------------------------------------------------
ExternalDNS == \E h \in Handler : StartRecords(h) \/ StartApply(h)

Handle(h) ==
  \/ ReturnUnchanged(h)
  \/ ListZones(h)
  \/ FetchZone(h)
  \/ ReadFails(h)
  \/ ReturnRecords(h)
  \/ Queue(h)
  \/ applyDeletes(h)
  \/ applyCreates(h)
  \/ UpdateRecords(h)
  \/ UpdateTTL(h)
  \/ UpdateLabels(h)
  \/ FinishUpdate(h)
  \/ ReturnApplied(h)

Outside ==
  \/ GiveUp
  \/ Crash
  \/ \E k \in Key : ForeignEdit(k)
  \/ ChangeWant

Next == ExternalDNS \/ (\E h \in Handler : Handle(h)) \/ Outside

Spec == Init /\ [][Next]_vars

\* ExternalDNS keeps looping, and a goroutine that can take a step takes it:
\* every API call returns, with an answer or with an error.
Fairness == WF_vars(ExternalDNS) /\ \A h \in Handler : WF_vars(Handle(h))

FairSpec == Spec /\ Fairness

-----------------------------------------------------------------------------
(* Properties.                                                             *)

\* A recordset that is not as the cluster wants it; unparsable labels are not
\* held against it.
Outdated(k, ep, rr) ==
  \/ ep.recs # rr.recs
  \/ ep.ttl # None /\ ep.ttl # EffectiveTTL(k, rr)
  \/ ep.labels # BadLabels /\ ep.labels # rr.labels

SyncedKey(k) ==
  IF want[k] = None THEN dns[k] = None
                    ELSE dns[k] # None /\ ~Outdated(k, want[k], dns[k])

Synced == \A k \in Owned : ZoneOf[k] \in Managed => SyncedKey(k)

\* One undisturbed cycle is enough: when ApplyChanges has answered without an
\* error and nothing disturbed the cycle, every managed recordset is as wanted,
\* whatever half-applied state earlier cycles left behind.
CleanCycleSyncs == quiet /\ last = "ok" /\ ~DryRun => Synced

\* An undisturbed cycle never ends in an error: the order of the calls never
\* makes Hetzner refuse one, not even when a plan replaces a recordset by one
\* that cannot exist beside it.
CleanCycleSucceeds == quiet => last # "err"

\* What a webhook working for the wish w may make of recordset k: remove it,
\* create it as wanted, or bring one of its options to the wanted value.
Towards(w, k, old, new) ==
  \/ w[k] = None /\ old # None /\ new = None
  \/ w[k] # None /\ old = None /\ new = CreateOpts(k, w[k])
  \/ /\ w[k] # None /\ old # None
     /\ \/ new = [old EXCEPT !.recs = w[k].recs]
        \/ new = [old EXCEPT !.ttl = w[k].ttl]
        \/ new = [old EXCEPT !.labels = w[k].labels]

\* Every write of the webhook is one that some wish of the cluster called for:
\* neither a handler working for a plan long superseded, nor one that meets a
\* zone quite unlike the one it read, writes what nobody ever wanted, removes
\* what was always wanted, or touches what ExternalDNS does not manage.
WritesOnlyWishes ==
  [][\A k \in Key : dns'[k] # dns[k] =>
       \/ ForeignEdit(k)
       \/ k \in Owned /\ \E w \in wished : Towards(w, k, dns[k], dns'[k])]_vars

\* The webhook works only in the zones that match the domain filter.
OnlyManagedZones ==
  [][\A k \in Key : dns'[k] # dns[k] => ForeignEdit(k) \/ ZoneOf[k] \in Managed]_vars

\* A dry run writes nothing.
DryRunWritesNothing ==
  [][DryRun /\ dns' # dns => \E k \in Key : ForeignEdit(k)]_vars

\* Once the disturbances are over the zones become as wanted, and stay so.
Convergence == <>[]Synced

\* What the webhook promises, as a specification of its own.
DS == INSTANCE DesiredState WITH outcome <- last

\* Every step of ExternalDNS, the handlers and the disturbances is a step of
\* DesiredState, or changes nothing that it speaks of.
ImplementsDesiredState == DS!Spec

-----------------------------------------------------------------------------
(* The inductive invariant behind TypeOK, WritesOnlyWishes and             *)
(* CleanCycleSyncs.                                                        *)

\* A plan works for a wish, on the recordsets that ExternalDNS may manage.
FromWish(p) ==
  /\ p.create \cup p.update \cup p.delete \subseteq Owned
  /\ \A k \in p.create \cup p.update : p.target[k] # None
  /\ \A k \in p.delete : p.target[k] = None
  /\ HasChanges(p) => p.target \in wished

\* So does every call in the queues of handler h: the three parts say what a
\* wish w has to do with a deletion, a creation and an update.
DeletionFor(w, k)    == w[k] = None
CreationFor(w, k, c) == w[k] # None /\ c = CreateOpts(k, w[k])
UpdateFor(w, k, u)   ==
  /\ w[k] # None
  /\ u.recs \in {None, w[k].recs}
  /\ u.ttl \in {None, w[k].ttl}
  /\ u.labels \in {None, w[k].labels}

QueuesFromWishes(h) ==
  /\ \A k \in req[h].dels :
       k \in Owned /\ \E w \in wished : DeletionFor(w, k)
  /\ \A k \in Present(req[h].crts) :
       k \in Owned /\ \E w \in wished : CreationFor(w, k, req[h].crts[k])
  /\ \A k \in Present(req[h].upds) :
       k \in Owned /\ \E w \in wished : UpdateFor(w, k, req[h].upds[k])

WishInv ==
  /\ want \in wished
  /\ FromWish(plan)
  /\ \A h \in Handler : req[h].plan # None => FromWish(req[h].plan)
  /\ \A h \in Handler : QueuesFromWishes(h)

\* The loop and the handler that serves it agree on where they are.
LoopInv ==
  /\ serving = None <=> loop \in {"idle", "planned"}
  /\ loop = "reading" => req[serving].plan = None /\ req[serving].pc \in {"zones", "fetch"}
  /\ loop = "applying" => req[serving].plan # None /\ req[serving].pc # "free"
  /\ last # "none" => loop = "idle"

\* What a listing of the zones Z shows, and what ExternalDNS plans from it.
Visible(Z) == [k \in Key |-> IF ZoneOf[k] \in Z THEN dns[k] ELSE None]
PlanNow    == PlanFor(want, Visible(Managed))

\* What is still wrong with recordset k is in the queues of handler h.
Settled(k, u, ep, rr) ==
  /\ ep.recs = rr.recs \/ (u # None /\ u.recs = ep.recs)
  /\ ep.ttl \in {None, EffectiveTTL(k, rr)} \/ (u # None /\ u.ttl = ep.ttl)
  /\ ep.labels \in {BadLabels, rr.labels} \/ (u # None /\ u.labels = ep.labels)

Pending(h, k) ==
  /\ want[k] = None => dns[k] = None \/ k \in req[h].dels
  /\ want[k] # None /\ dns[k] = None => req[h].crts[k] # None
  /\ want[k] # None /\ dns[k] # None => Settled(k, req[h].upds[k], want[k], dns[k])

QueuesForWant(h) ==
  /\ \A k \in req[h].dels : DeletionFor(want, k)
  /\ \A k \in Present(req[h].crts) : CreationFor(want, k, req[h].crts[k])
  /\ \A k \in Present(req[h].upds) : UpdateFor(want, k, req[h].upds[k])

\* How far an undisturbed cycle has come.
Reading(h) ==
  /\ req[h].unread \subseteq Managed
  /\ req[h].pc = "zones" => req[h].seen = Nothing
  /\ req[h].pc = "fetch" => req[h].seen = Visible(Managed \ req[h].unread)

Applying(h) ==
  /\ req[h].pc \in {"zones", "fetch"} => req[h].plan = PlanNow
  /\ req[h].pc = "run" =>
       /\ QueuesForWant(h)
       /\ \A k \in Owned : ZoneOf[k] \in Managed => Pending(h, k)

QuietInv ==
  /\ \A h \in Handler \ {serving} : Free(h)
  /\ loop = "planned" => plan = PlanNow
  /\ loop \in {"reading", "applying"} => Reading(serving)
  /\ loop = "applying" => Applying(serving)
  /\ last = "ok" => Synced

CycleInv == quiet /\ ~DryRun => QuietInv

IndInv == TypeOK /\ WishInv /\ LoopInv /\ CycleInv

\* Hetzner has no reason to refuse what is left in the queues of handler h, save
\* that a creation may have to wait for the deletion of its rivals.
Fitting(h) ==
  /\ \A k \in req[h].dels : dns[k] # None
  /\ \A k \in Present(req[h].crts) : dns[k] = None /\ ZoneOf[k] \in Managed
  /\ \A k \in Present(req[h].upds) : dns[k] # None

FitInv ==
  /\ want \in Wishes
  /\ quiet /\ DS!Orderly =>
       /\ last # "err"
       /\ ~DryRun /\ loop = "applying" /\ req[serving].pc = "run" => Fitting(serving)

\* The invariant behind CleanCycleSucceeds and ImplementsDesiredState.
OrderlyInv == IndInv /\ FitInv
=============================================================================
