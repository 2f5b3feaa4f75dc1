--------------------------- MODULE ReconcileProofs ---------------------------
(***************************************************************************)
(* Theorems about Reconcile, for every instance of its constants: the type *)
(* invariant and WritesOnlyWishes; and the part of the inductive invariant *)
(* IndInv that ties the loop to its handler, for CycleProofs.  They are    *)
(* built on lemmas about each step: that it preserves TypeOK, and what it  *)
(* makes of the request of its handler.                                    *)
(***************************************************************************)
EXTENDS Reconcile, RRSetsProofs, TLAPS

-----------------------------------------------------------------------------
(* The type invariant.  It needs WishInv: only an endpoint that is there   *)
(* can be turned into options.                                             *)

LEMMA IdleRequestType == IdleRequest \in Request
  BY NothingType DEF IdleRequest, Request

LEMMA DisturbType ==
  ASSUME TypeOK, Disturb
  PROVE  quiet' \in BOOLEAN /\ disturbances' \in 0..MaxDisturbances
  <1>1. MaxDisturbances \in Nat
    BY ReconcileAssumption
  <1>2. disturbances \in 0..MaxDisturbances
    BY DEF TypeOK
  <1>3. disturbances + 1 \in 0..MaxDisturbances
    BY <1>1, <1>2 DEF Disturb
  <1>4. QED  BY <1>3, Zenon DEF Disturb

LEMMA AnswerType ==
  ASSUME TypeOK, NEW h \in Handler, NEW outcome \in {"ok", "err"}, Answer(h, outcome)
  PROVE  /\ loop' \in {"idle", "reading", "planned", "applying"}
         /\ serving' \in Handler \cup {None}
         /\ plan' \in Plan
         /\ last' \in {"none", "ok", "err"}
         /\ req' \in [Handler -> Request]
  BY IdleRequestType, NoPlanType DEF TypeOK, Answer

\* A call that leaves a recordset or nothing leaves the zones well-typed.
LEMMA SucceedsType ==
  ASSUME TypeOK, NEW k \in Key, NEW rr, NEW legal \in BOOLEAN,
         legal => rr \in RRSet \cup {None}, Succeeds(legal, k, rr)
  PROVE  dns' \in Partial(RRSet) /\ quiet' \in BOOLEAN /\ disturbances' \in 0..MaxDisturbances
  BY DisturbType DEF TypeOK, Succeeds, Partial

LEMMA FailsType ==
  ASSUME TypeOK, NEW k \in Key, NEW rr, NEW legal \in BOOLEAN,
         legal => rr \in RRSet \cup {None}, Fails(legal, k, rr)
  PROVE  dns' \in Partial(RRSet) /\ quiet' \in BOOLEAN /\ disturbances' \in 0..MaxDisturbances
  BY DisturbType DEF TypeOK, Fails, Partial

LEMMA CallType ==
  ASSUME TypeOK, NEW k \in Key, NEW rr, NEW legal \in BOOLEAN,
         legal => rr \in RRSet \cup {None},
         \/ Skips \/ Does(legal, k, rr)
         \/ ~DryRun /\ Fails(legal, k, rr)
  PROVE  dns' \in Partial(RRSet) /\ quiet' \in BOOLEAN /\ disturbances' \in 0..MaxDisturbances
  BY SucceedsType, FailsType DEF TypeOK, Skips, Does

LEMMA InitType == Init => TypeOK
  <1> SUFFICES ASSUME Init PROVE TypeOK
    OBVIOUS
  <1>1. dns \in Partial(RRSet) /\ want \in Partial(Endpoint) /\ wished \subseteq Partial(Endpoint)
    BY ReconcileAssumption DEF Init
  <1>2. disturbances \in 0..MaxDisturbances
    BY ReconcileAssumption DEF Init
  <1>3. req \in [Handler -> Request]
    BY IdleRequestType DEF Init
  <1>4. QED  BY <1>1, <1>2, <1>3, NoPlanType DEF Init, TypeOK

LEMMA StartRecordsType ==
  ASSUME TypeOK, NEW h \in Handler, StartRecords(h)
  PROVE  TypeOK'
  BY IdleRequestType DEF TypeOK, StartRecords, Free, Request

LEMMA StartApplyType ==
  ASSUME TypeOK, NEW h \in Handler, StartApply(h)
  PROVE  TypeOK'
  BY IdleRequestType DEF TypeOK, StartApply, Request

LEMMA ReadingType ==
  ASSUME TypeOK, WishInv, NEW h \in Handler,
         \/ ReturnUnchanged(h) \/ ListZones(h) \/ FetchZone(h) \/ ReadFails(h)
         \/ ReturnRecords(h) \/ Queue(h)
  PROVE  TypeOK'
  <1>0. req \in [Handler -> Request] /\ req[h] \in Request
    BY DEF TypeOK
  <1>1. CASE ReturnUnchanged(h)
    BY <1>1, AnswerType DEF TypeOK, ReturnUnchanged
  <1>2. CASE ListZones(h)
    <2>1. req' \in [Handler -> Request]
      <3> DEFINE r == [req[h] EXCEPT !.pc = "fetch", !.unread = Managed]
      <3>1. r \in Request
        BY <1>0, DataAssumption DEF Request
      <3>2. req' = [req EXCEPT ![h] = r]
        BY <1>0, <1>2, Zenon DEF ListZones
      <3>3. QED  BY <1>0, <3>1, <3>2
    <2>2. UNCHANGED <<dns, want, wished, loop, serving, plan, last, quiet, disturbances>>
      BY <1>2 DEF ListZones
    <2>3. QED  BY <2>1, <2>2 DEF TypeOK
  <1>3. CASE FetchZone(h)
    <2>1. PICK z \in req[h].unread :
            req' = [req EXCEPT
                      ![h].unread = @ \ {z},
                      ![h].seen = [k \in Key |-> IF ZoneOf[k] = z THEN dns[k] ELSE @[k]]]
      BY <1>3 DEF FetchZone
    <2>2. req[h].seen \in Partial(RRSet) /\ req[h].unread \subseteq Zone
      BY DEF TypeOK, Request
    <2>3. [k \in Key |-> IF ZoneOf[k] = z THEN dns[k] ELSE req[h].seen[k]] \in Partial(RRSet)
      BY <2>2 DEF TypeOK, Partial
    <2>4. req' \in [Handler -> Request]
      <3> DEFINE r == [req[h] EXCEPT
                         !.unread = @ \ {z},
                         !.seen = [k \in Key |-> IF ZoneOf[k] = z THEN dns[k] ELSE @[k]]]
      <3>1. r \in Request
        BY <1>0, <2>2, <2>3 DEF Request
      <3>2. req' = [req EXCEPT ![h] = r]
        BY <1>0, <2>1, Zenon
      <3>3. QED  BY <1>0, <3>1, <3>2
    <2>5. UNCHANGED <<dns, want, wished, loop, serving, plan, last, quiet, disturbances>>
      BY <1>3 DEF FetchZone
    <2>6. QED  BY <2>4, <2>5 DEF TypeOK
  <1>4. CASE ReadFails(h)
    BY <1>4, AnswerType, DisturbType DEF TypeOK, ReadFails
  <1>5. CASE ReturnRecords(h)
    <2>1. PlanFor(want, req[h].seen) \in Plan
      BY PlanForType DEF TypeOK, Request
    <2>2. QED  BY <1>5, <2>1, IdleRequestType DEF TypeOK, ReturnRecords
  <1>6. CASE Queue(h)
    <2> DEFINE p == req[h].plan
               seen == req[h].seen
    <2>1. p \in Plan /\ seen \in Partial(RRSet)
      BY <1>6 DEF TypeOK, Request, Queue
    <2>2. \A k \in p.create \cup p.update : p.target[k] # None
      BY <1>6 DEF Queue, WishInv, FromWish
    <2>3. /\ processDeleteActions(p, seen) \in SUBSET Key
          /\ processCreateActions(p, seen) \in Partial(RRSet)
          /\ processUpdateActions(p, seen) \in Partial(UpdateOpts)
      BY <2>1, <2>2, QueueTypes
    <2>4. req' \in [Handler -> Request]
      <3> DEFINE r == [req[h] EXCEPT !.pc = "run",
                                     !.dels = processDeleteActions(p, seen),
                                     !.crts = processCreateActions(p, seen),
                                     !.upds = processUpdateActions(p, seen)]
      <3>1. r \in Request
        BY <1>0, <2>3 DEF Request
      <3>2. req' = [req EXCEPT ![h] = r]
        BY <1>0, <1>6, Zenon DEF Queue
      <3>3. QED  BY <1>0, <3>1, <3>2
    <2>5. UNCHANGED <<dns, want, wished, loop, serving, plan, last, quiet, disturbances>>
      BY <1>6 DEF Queue
    <2>6. QED  BY <2>4, <2>5 DEF TypeOK
  <1>7. QED  BY <1>1, <1>2, <1>3, <1>4, <1>5, <1>6

\* Deletions and creations.
LEMMA CallsType ==
  ASSUME TypeOK, NEW h \in Handler, applyDeletes(h) \/ applyCreates(h)
  PROVE  TypeOK'
  <1>0. req[h] \in Request
    BY DEF TypeOK
  <1>1. CASE applyDeletes(h)
    <2>1. PICK k \in req[h].dels :
            \/ /\ Skips \/ Does(MayChange(k), k, None)
               /\ req' = [req EXCEPT ![h].dels = @ \ {k}]
               /\ LoopWaits
            \/ Aborts(h, MayChange(k), k, None)
      BY <1>1 DEF applyDeletes
    <2>2. k \in Key
      BY <1>0 DEF Request
    <2>3. dns' \in Partial(RRSet) /\ quiet' \in BOOLEAN /\ disturbances' \in 0..MaxDisturbances
      BY <2>1, <2>2, CallType DEF Aborts, MayChange
    <2>4. CASE req' = [req EXCEPT ![h].dels = @ \ {k}] /\ LoopWaits
      <3>1. req' \in [Handler -> Request]
        BY <1>0, <2>4 DEF TypeOK, Request
      <3>2. QED  BY <1>1, <2>3, <2>4, <3>1 DEF TypeOK, applyDeletes, LoopWaits
    <2>5. CASE Answer(h, "err")
      BY <1>1, <2>3, <2>5, AnswerType DEF TypeOK, applyDeletes
    <2>6. QED  BY <2>1, <2>4, <2>5 DEF Aborts
  <1>2. CASE applyCreates(h)
    <2>1. PICK k \in Present(req[h].crts) :
            \/ /\ Skips \/ Does(MayCreate(k), k, req[h].crts[k])
               /\ req' = [req EXCEPT ![h].crts[k] = None]
               /\ LoopWaits
            \/ Aborts(h, MayCreate(k), k, req[h].crts[k])
      BY <1>2 DEF applyCreates
    <2>2. k \in Key /\ req[h].crts[k] \in RRSet
      BY <1>0 DEF Request, Partial, Present
    <2>3. dns' \in Partial(RRSet) /\ quiet' \in BOOLEAN /\ disturbances' \in 0..MaxDisturbances
      BY <2>1, <2>2, CallType DEF Aborts, MayCreate
    <2>4. CASE req' = [req EXCEPT ![h].crts[k] = None] /\ LoopWaits
      <3>1. [req[h].crts EXCEPT ![k] = None] \in Partial(RRSet)
        BY <1>0 DEF Request, Partial
      <3>2. req' \in [Handler -> Request]
        BY <1>0, <2>4, <3>1 DEF TypeOK, Request
      <3>3. QED  BY <1>2, <2>3, <2>4, <3>2 DEF TypeOK, applyCreates, LoopWaits
    <2>5. CASE Answer(h, "err")
      BY <1>2, <2>3, <2>5, AnswerType DEF TypeOK, applyCreates
    <2>6. QED  BY <2>1, <2>4, <2>5 DEF Aborts
  <1>3. QED  BY <1>1, <1>2

\* Setting one option of a recordset, and clearing one of queued options.
LEMMA OptionTypes ==
  ASSUME NEW option \in {"recs", "ttl", "labels"}, NEW u \in UpdateOpts, u[option] # None
  PROVE  /\ \A rr \in RRSet : [rr EXCEPT ![option] = u[option]] \in RRSet
         /\ [u EXCEPT ![option] = None] \in UpdateOpts
  <1>1. CASE option = "recs"
    BY <1>1 DEF UpdateOpts, RRSet
  <1>2. CASE option = "ttl"
    BY <1>2 DEF UpdateOpts, RRSet
  <1>3. CASE option = "labels"
    BY <1>3 DEF UpdateOpts, RRSet
  <1>4. QED  BY <1>1, <1>2, <1>3

LEMMA UpdateCallType ==
  ASSUME TypeOK, NEW h \in Handler, NEW option \in {"recs", "ttl", "labels"}, NEW earlier,
         UpdateCall(h, option, earlier)
  PROVE  TypeOK'
  <1>0. req \in [Handler -> Request] /\ req[h] \in Request /\ dns \in Partial(RRSet)
    BY DEF TypeOK
  <1>1. PICK k \in Key :
          /\ MayUpdate(h, k)
          /\ ~DryRun
          /\ req[h].upds[k][option] # None
          /\ LET rr == [dns[k] EXCEPT ![option] = req[h].upds[k][option]] IN
             \/ /\ Succeeds(MayChange(k), k, rr)
                /\ req' = [req EXCEPT ![h].upds[k][option] = None, ![h].cur = k]
                /\ LoopWaits
             \/ Fails(MayChange(k), k, rr) /\ Answer(h, "err")
    BY Zenon DEF UpdateCall
  <1> DEFINE u == req[h].upds[k]
             rr == [dns[k] EXCEPT ![option] = u[option]]
             us == [req[h].upds EXCEPT ![k] = [u EXCEPT ![option] = None]]
             r == [req[h] EXCEPT !.upds = us, !.cur = k]
  <1>2. u \in UpdateOpts
    BY <1>0, <1>1 DEF MayUpdate, Request, Partial
  <1>3. MayChange(k) => dns[k] \in RRSet
    BY <1>0 DEF MayChange, Partial
  <1>4. MayChange(k) \in BOOLEAN
    BY DEF MayChange
  <1>5. MayChange(k) => rr \in RRSet \cup {None}
    BY <1>1, <1>2, <1>3, OptionTypes
  <1>6. dns' \in Partial(RRSet) /\ quiet' \in BOOLEAN /\ disturbances' \in 0..MaxDisturbances
    <2>1. Succeeds(MayChange(k), k, rr) \/ Fails(MayChange(k), k, rr)
      BY <1>1
    <2> HIDE DEF rr
    <2>2. QED  BY <1>4, <1>5, <2>1, SucceedsType, FailsType
  <1>7. UNCHANGED <<want, wished>>
    BY DEF UpdateCall
  <1>8. CASE req' = [req EXCEPT ![h] = r] /\ LoopWaits
    <2>1. [u EXCEPT ![option] = None] \in UpdateOpts
      BY <1>1, <1>2, OptionTypes
    <2>2. us \in Partial(UpdateOpts)
      BY <1>0, <2>1 DEF Request, Partial
    <2> HIDE DEF us
    <2>3. r \in Request
      BY <1>0, <2>2 DEF Request
    <2> HIDE DEF r
    <2>4. req' \in [Handler -> Request]
      BY <1>0, <1>8, <2>3
    <2>5. QED  BY <1>6, <1>7, <1>8, <2>4 DEF TypeOK, LoopWaits
  <1>9. CASE Answer(h, "err")
    BY <1>6, <1>7, <1>9, AnswerType DEF TypeOK
  <1>10. QED
    <2>1. ASSUME req' = [req EXCEPT ![h].upds[k][option] = None, ![h].cur = k]
          PROVE  req' = [req EXCEPT ![h] = r]
      BY <1>0, <2>1, Zenon
    <2> HIDE DEF r
    <2>2. QED  BY <1>1, <1>8, <1>9, <2>1

LEMMA FinishType ==
  ASSUME TypeOK, NEW h \in Handler, FinishUpdate(h) \/ ReturnApplied(h)
  PROVE  TypeOK'
  <1>0. req \in [Handler -> Request] /\ req[h] \in Request
    BY DEF TypeOK
  <1>1. CASE FinishUpdate(h)
    <2>1. PICK k \in Key :
            req' = [req EXCEPT ![h].upds[k] = None, ![h].cur = None]
      BY <1>1 DEF FinishUpdate
    <2> DEFINE us == [req[h].upds EXCEPT ![k] = None]
               r == [req[h] EXCEPT !.upds = us, !.cur = None]
    <2>2. us \in Partial(UpdateOpts)
      BY <1>0 DEF Request, Partial
    <2>4. req' = [req EXCEPT ![h] = r]
      BY <1>0, <2>1, Zenon
    <2> HIDE DEF us
    <2>3. r \in Request
      BY <1>0, <2>2 DEF Request
    <2> HIDE DEF r
    <2>5. req' \in [Handler -> Request]
      BY <1>0, <2>3, <2>4
    <2>6. UNCHANGED <<dns, want, wished, loop, serving, plan, last, quiet, disturbances>>
      BY <1>1 DEF FinishUpdate
    <2>7. QED  BY <2>5, <2>6 DEF TypeOK
  <1>2. CASE ReturnApplied(h)
    BY <1>2, AnswerType DEF TypeOK, ReturnApplied
  <1>3. QED  BY <1>1, <1>2

LEMMA OutsideType ==
  ASSUME TypeOK, Outside
  PROVE  TypeOK'
  <1>1. CASE GiveUp
    BY <1>1, DisturbType, NoPlanType DEF TypeOK, GiveUp
  <1>2. CASE Crash
    BY <1>2, DisturbType, NoPlanType, IdleRequestType DEF TypeOK, Crash
  <1>3. ASSUME NEW k \in Key, ForeignEdit(k)
        PROVE  TypeOK'
    <2>1. dns' \in Partial(RRSet)
      BY <1>3, ReconcileAssumption DEF TypeOK, ForeignEdit, Partial
    <2>2. QED  BY <1>3, <2>1, DisturbType DEF TypeOK, ForeignEdit
  <1>4. CASE ChangeWant
    <2>1. want' \in Partial(Endpoint) /\ wished' \subseteq Partial(Endpoint)
      BY <1>4, ReconcileAssumption DEF TypeOK, ChangeWant
    <2>2. QED  BY <1>4, <2>1, DisturbType DEF TypeOK, ChangeWant
  <1>5. QED  BY <1>1, <1>2, <1>3, <1>4 DEF Outside

LEMMA NextType ==
  ASSUME TypeOK, WishInv, [Next]_vars
  PROVE  TypeOK'
  <1>1. ASSUME NEW h \in Handler, StartRecords(h) \/ StartApply(h)
        PROVE  TypeOK'
    BY <1>1, StartRecordsType, StartApplyType
  <1>2. ASSUME NEW h \in Handler, Handle(h)
        PROVE  TypeOK'
    <2>1. CASE UpdateRecords(h)
      BY <2>1, UpdateCallType DEF UpdateRecords
    <2>2. CASE UpdateTTL(h)
      BY <2>2, UpdateCallType DEF UpdateTTL
    <2>3. CASE UpdateLabels(h)
      BY <2>3, UpdateCallType DEF UpdateLabels
    <2>4. QED  BY <1>2, <2>1, <2>2, <2>3, ReadingType, CallsType, FinishType DEF Handle
  <1>3. CASE UNCHANGED vars
    BY <1>3 DEF TypeOK, vars
  <1>4. QED  BY <1>1, <1>2, <1>3, OutsideType DEF Next, ExternalDNS

-----------------------------------------------------------------------------
(* What the steps of a handler that neither starts nor ends make of its    *)
(* request.                                                                *)

ListedReq(h) == [req[h] EXCEPT !.pc = "fetch", !.unread = Managed]

LEMMA ListZonesStep ==
  ASSUME TypeOK, NEW h \in Handler, ListZones(h)
  PROVE  /\ req' = [req EXCEPT ![h] = ListedReq(h)]
         /\ req'[h] = ListedReq(h)
         /\ ListedReq(h).pc = "fetch" /\ ListedReq(h).unread = Managed
         /\ ListedReq(h).plan = req[h].plan /\ ListedReq(h).seen = req[h].seen
         /\ ListedReq(h).dels = req[h].dels /\ ListedReq(h).crts = req[h].crts
         /\ ListedReq(h).upds = req[h].upds
         /\ UNCHANGED <<dns, want, wished, loop, serving, plan, last, quiet, disturbances>>
  <1>1. req' = [req EXCEPT ![h] = ListedReq(h)]
    BY Zenon DEF ListZones, ListedReq
  <1>2. req'[h] = ListedReq(h)
    BY <1>1 DEF TypeOK
  <1>3. /\ ListedReq(h).pc = "fetch" /\ ListedReq(h).unread = Managed
        /\ ListedReq(h).plan = req[h].plan /\ ListedReq(h).seen = req[h].seen
        /\ ListedReq(h).dels = req[h].dels /\ ListedReq(h).crts = req[h].crts
        /\ ListedReq(h).upds = req[h].upds
    BY DEF TypeOK, Request, ListedReq
  <1>4. UNCHANGED <<dns, want, wished, loop, serving, plan, last, quiet, disturbances>>
    BY DEF ListZones
  <1>5. QED  BY <1>1, <1>2, <1>3, <1>4

SeenWith(h, z) == [k \in Key |-> IF ZoneOf[k] = z THEN dns[k] ELSE req[h].seen[k]]
FetchedReq(h, z) == [req[h] EXCEPT !.unread = @ \ {z}, !.seen = SeenWith(h, z)]

LEMMA FetchZoneStep ==
  ASSUME TypeOK, NEW h \in Handler, FetchZone(h)
  PROVE  \E z \in req[h].unread :
           /\ req' = [req EXCEPT ![h] = FetchedReq(h, z)]
           /\ req'[h] = FetchedReq(h, z)
           /\ FetchedReq(h, z).pc = "fetch" /\ FetchedReq(h, z).plan = req[h].plan
           /\ FetchedReq(h, z).unread = req[h].unread \ {z}
           /\ FetchedReq(h, z).seen = SeenWith(h, z)
           /\ FetchedReq(h, z).dels = req[h].dels /\ FetchedReq(h, z).crts = req[h].crts
           /\ FetchedReq(h, z).upds = req[h].upds
           /\ UNCHANGED <<dns, want, wished, loop, serving, plan, last, quiet, disturbances>>
  <1>1. PICK z \in req[h].unread :
          req' = [req EXCEPT
                    ![h].unread = @ \ {z},
                    ![h].seen = [k \in Key |-> IF ZoneOf[k] = z THEN dns[k] ELSE @[k]]]
    BY DEF FetchZone
  <1>2. req' = [req EXCEPT ![h] = FetchedReq(h, z)]
    BY <1>1, Zenon DEF FetchedReq, SeenWith
  <1>3. req'[h] = FetchedReq(h, z)
    BY <1>2 DEF TypeOK
  <1>4. req[h] \in Request /\ req[h].pc = "fetch"
    BY DEF TypeOK, FetchZone
  <1>5. /\ FetchedReq(h, z).pc = "fetch" /\ FetchedReq(h, z).plan = req[h].plan
        /\ FetchedReq(h, z).unread = req[h].unread \ {z}
        /\ FetchedReq(h, z).seen = SeenWith(h, z)
        /\ FetchedReq(h, z).dels = req[h].dels /\ FetchedReq(h, z).crts = req[h].crts
        /\ FetchedReq(h, z).upds = req[h].upds
    BY <1>4 DEF Request, FetchedReq
  <1>6. UNCHANGED <<dns, want, wished, loop, serving, plan, last, quiet, disturbances>>
    BY DEF FetchZone
  <1>7. QED  BY <1>2, <1>3, <1>5, <1>6

QueuedReq(h) ==
  [req[h] EXCEPT !.pc = "run",
                 !.dels = processDeleteActions(req[h].plan, req[h].seen),
                 !.crts = processCreateActions(req[h].plan, req[h].seen),
                 !.upds = processUpdateActions(req[h].plan, req[h].seen)]

LEMMA QueueStep ==
  ASSUME TypeOK, NEW h \in Handler, Queue(h)
  PROVE  /\ req' = [req EXCEPT ![h] = QueuedReq(h)]
         /\ req'[h] = QueuedReq(h)
         /\ QueuedReq(h).pc = "run" /\ QueuedReq(h).plan = req[h].plan
         /\ QueuedReq(h).seen = req[h].seen /\ QueuedReq(h).unread = req[h].unread
         /\ QueuedReq(h).dels = processDeleteActions(req[h].plan, req[h].seen)
         /\ QueuedReq(h).crts = processCreateActions(req[h].plan, req[h].seen)
         /\ QueuedReq(h).upds = processUpdateActions(req[h].plan, req[h].seen)
         /\ UNCHANGED <<dns, want, wished, loop, serving, plan, last, quiet, disturbances>>
  <1>1. req' = [req EXCEPT ![h] = QueuedReq(h)]
    BY Zenon DEF Queue, QueuedReq
  <1>2. req'[h] = QueuedReq(h)
    BY <1>1 DEF TypeOK
  <1>3. req[h] \in Request
    BY DEF TypeOK
  <1>4. /\ QueuedReq(h).pc = "run" /\ QueuedReq(h).plan = req[h].plan
        /\ QueuedReq(h).seen = req[h].seen /\ QueuedReq(h).unread = req[h].unread
        /\ QueuedReq(h).dels = processDeleteActions(req[h].plan, req[h].seen)
        /\ QueuedReq(h).crts = processCreateActions(req[h].plan, req[h].seen)
        /\ QueuedReq(h).upds = processUpdateActions(req[h].plan, req[h].seen)
    BY <1>3 DEF Request, QueuedReq
  <1>5. UNCHANGED <<dns, want, wished, loop, serving, plan, last, quiet, disturbances>>
    BY DEF Queue
  <1>6. QED  BY <1>1, <1>2, <1>4, <1>5

\* A handler that applies changes goes on with the same plan, and with queues
\* from which one call is gone.
Goes(h, r) ==
  /\ req' = [req EXCEPT ![h] = r]
  /\ req'[h] = r
  /\ r.pc = "run" /\ r.plan = req[h].plan
  /\ r.unread = req[h].unread /\ r.seen = req[h].seen
  /\ UNCHANGED <<want, wished, loop, serving, plan, last>>

LEMMA DeletesStep ==
  ASSUME TypeOK, NEW h \in Handler, applyDeletes(h)
  PROVE  \E k \in req[h].dels :
           \/ /\ Skips \/ Does(MayChange(k), k, None)
              /\ \E r : /\ Goes(h, r) /\ r.dels = req[h].dels \ {k}
                       /\ r.crts = req[h].crts /\ r.upds = req[h].upds
           \/ Aborts(h, MayChange(k), k, None)
  <1>1. PICK k \in req[h].dels :
          \/ /\ Skips \/ Does(MayChange(k), k, None)
             /\ req' = [req EXCEPT ![h].dels = @ \ {k}]
             /\ LoopWaits
          \/ Aborts(h, MayChange(k), k, None)
    BY DEF applyDeletes
  <1>2. ASSUME req' = [req EXCEPT ![h].dels = @ \ {k}], LoopWaits
        PROVE  \E r : /\ Goes(h, r) /\ r.dels = req[h].dels \ {k}
                     /\ r.crts = req[h].crts /\ r.upds = req[h].upds
    <2> DEFINE r == [req[h] EXCEPT !.dels = @ \ {k}]
    <2>1. req[h] \in Request /\ req[h].pc = "run" /\ UNCHANGED <<want, wished>>
      BY DEF TypeOK, applyDeletes, Deleting
    <2>2. req' = [req EXCEPT ![h] = r]
      BY <1>2, Zenon
    <2>3. /\ r.pc = "run" /\ r.plan = req[h].plan
          /\ r.unread = req[h].unread /\ r.seen = req[h].seen
          /\ r.dels = req[h].dels \ {k} /\ r.crts = req[h].crts /\ r.upds = req[h].upds
      BY <2>1 DEF Request
    <2> HIDE DEF r
    <2>4. req'[h] = r
      BY <2>2 DEF TypeOK
    <2>5. QED  BY <1>2, <2>1, <2>2, <2>3, <2>4 DEF Goes, LoopWaits
  <1>3. QED  BY <1>1, <1>2

LEMMA CreatesStep ==
  ASSUME TypeOK, NEW h \in Handler, applyCreates(h)
  PROVE  \E k \in Present(req[h].crts) :
           \/ /\ Skips \/ Does(MayCreate(k), k, req[h].crts[k])
              /\ \E r : /\ Goes(h, r) /\ r.dels = req[h].dels /\ r.upds = req[h].upds
                       /\ r.crts = [req[h].crts EXCEPT ![k] = None]
           \/ Aborts(h, MayCreate(k), k, req[h].crts[k])
  <1>1. PICK k \in Present(req[h].crts) :
          \/ /\ Skips \/ Does(MayCreate(k), k, req[h].crts[k])
             /\ req' = [req EXCEPT ![h].crts[k] = None]
             /\ LoopWaits
          \/ Aborts(h, MayCreate(k), k, req[h].crts[k])
    BY DEF applyCreates
  <1>2. ASSUME req' = [req EXCEPT ![h].crts[k] = None], LoopWaits
        PROVE  \E r : /\ Goes(h, r) /\ r.dels = req[h].dels /\ r.upds = req[h].upds
                     /\ r.crts = [req[h].crts EXCEPT ![k] = None]
    <2> DEFINE cs == [req[h].crts EXCEPT ![k] = None]
               r == [req[h] EXCEPT !.crts = cs]
    <2>1. req[h] \in Request /\ req[h].pc = "run" /\ UNCHANGED <<want, wished>>
      BY DEF TypeOK, applyCreates, Creating
    <2>2. req' = [req EXCEPT ![h] = r]
      BY <1>2, Zenon
    <2> HIDE DEF cs
    <2>3. /\ r.pc = "run" /\ r.plan = req[h].plan
          /\ r.unread = req[h].unread /\ r.seen = req[h].seen
          /\ r.dels = req[h].dels /\ r.crts = cs /\ r.upds = req[h].upds
      BY <2>1 DEF Request
    <2> HIDE DEF r
    <2>4. req'[h] = r
      BY <2>2 DEF TypeOK
    <2>5. Goes(h, r)
      BY <1>2, <2>1, <2>2, <2>3, <2>4 DEF Goes, LoopWaits
    <2> USE DEF cs
    <2>6. QED  BY <2>3, <2>5
  <1>3. QED  BY <1>1, <1>2

LEMMA UpdateCallStep ==
  ASSUME TypeOK, NEW h \in Handler, NEW option \in {"recs", "ttl", "labels"}, NEW earlier,
         UpdateCall(h, option, earlier)
  PROVE  \E k \in Key :
           LET u == req[h].upds[k]
               rr == [dns[k] EXCEPT ![option] = u[option]]
           IN /\ u # None /\ u[option] # None /\ req[h].pc = "run" /\ ~DryRun
              /\ \/ /\ Succeeds(MayChange(k), k, rr)
                    /\ \E r : /\ Goes(h, r) /\ r.dels = req[h].dels /\ r.crts = req[h].crts
                             /\ r.upds = [req[h].upds EXCEPT ![k] = [u EXCEPT ![option] = None]]
                 \/ Fails(MayChange(k), k, rr) /\ Answer(h, "err")
  <1>1. PICK k \in Key :
          /\ MayUpdate(h, k)
          /\ ~DryRun
          /\ req[h].upds[k][option] # None
          /\ LET rr == [dns[k] EXCEPT ![option] = req[h].upds[k][option]] IN
             \/ /\ Succeeds(MayChange(k), k, rr)
                /\ req' = [req EXCEPT ![h].upds[k][option] = None, ![h].cur = k]
                /\ LoopWaits
             \/ Fails(MayChange(k), k, rr) /\ Answer(h, "err")
    BY Zenon DEF UpdateCall
  <1> DEFINE u == req[h].upds[k]
             rr == [dns[k] EXCEPT ![option] = u[option]]
             us == [req[h].upds EXCEPT ![k] = [u EXCEPT ![option] = None]]
             r == [req[h] EXCEPT !.upds = us, !.cur = k]
  <1>2. req[h] \in Request /\ req[h].pc = "run" /\ UNCHANGED <<want, wished>> /\ u # None
    BY <1>1 DEF TypeOK, MayUpdate, Updating, UpdateCall
  <1>3. ASSUME req' = [req EXCEPT ![h].upds[k][option] = None, ![h].cur = k], LoopWaits
        PROVE  /\ Goes(h, r) /\ r.dels = req[h].dels /\ r.crts = req[h].crts
               /\ r.upds = us
    <2>1. req' = [req EXCEPT ![h] = r]
      BY <1>3, Zenon
    <2> HIDE DEF us
    <2>2. /\ r.pc = "run" /\ r.plan = req[h].plan
          /\ r.unread = req[h].unread /\ r.seen = req[h].seen
          /\ r.dels = req[h].dels /\ r.crts = req[h].crts /\ r.upds = us
      BY <1>2 DEF Request
    <2> HIDE DEF r
    <2>3. req'[h] = r
      BY <2>1 DEF TypeOK
    <2>4. QED  BY <1>2, <1>3, <2>1, <2>2, <2>3 DEF Goes, LoopWaits
  <1>4. \/ Succeeds(MayChange(k), k, rr) /\ \E q : /\ Goes(h, q) /\ q.dels = req[h].dels
                                                  /\ q.crts = req[h].crts /\ q.upds = us
        \/ Fails(MayChange(k), k, rr) /\ Answer(h, "err")
    <2> HIDE DEF r, us
    <2>1. QED  BY <1>1, <1>3
  <1> HIDE DEF r
  <1>5. QED  BY <1>1, <1>2, <1>4

LEMMA FinishUpdateStep ==
  ASSUME TypeOK, NEW h \in Handler, FinishUpdate(h)
  PROVE  \E k \in Key :
           /\ req[h].upds[k] # None /\ (DryRun \/ req[h].upds[k] = NoOpts)
           /\ UNCHANGED <<dns, quiet, disturbances>>
           /\ \E r : /\ Goes(h, r) /\ r.dels = req[h].dels /\ r.crts = req[h].crts
                    /\ r.upds = [req[h].upds EXCEPT ![k] = None]
  <1>1. PICK k \in Key : /\ req[h].upds[k] # None /\ (DryRun \/ req[h].upds[k] = NoOpts)
                         /\ req' = [req EXCEPT ![h].upds[k] = None, ![h].cur = None]
    BY DEF FinishUpdate, MayUpdate
  <1>2. /\ req[h] \in Request /\ req[h].pc = "run"
        /\ UNCHANGED <<dns, want, wished, loop, serving, plan, last, quiet, disturbances>>
    BY DEF TypeOK, FinishUpdate, MayUpdate, Updating
  <1> DEFINE us == [req[h].upds EXCEPT ![k] = None]
             r == [req[h] EXCEPT !.upds = us, !.cur = None]
  <1>3. req' = [req EXCEPT ![h] = r]
    BY <1>1, Zenon
  <1> HIDE DEF us
  <1>4. /\ r.pc = "run" /\ r.plan = req[h].plan
        /\ r.unread = req[h].unread /\ r.seen = req[h].seen
        /\ r.dels = req[h].dels /\ r.crts = req[h].crts /\ r.upds = us
    BY <1>2 DEF Request
  <1> HIDE DEF r
  <1>5. req'[h] = r
    BY <1>3 DEF TypeOK
  <1>6. Goes(h, r) /\ r.dels = req[h].dels /\ r.crts = req[h].crts /\ r.upds = us
    BY <1>2, <1>3, <1>4, <1>5 DEF Goes
  <1> USE DEF us
  <1>7. QED  BY <1>1, <1>2, <1>6

-----------------------------------------------------------------------------
(* WishInv: every plan and every queue works for a wish.                   *)

\* What ExternalDNS plans, whatever it saw.
LEMMA PlanFromWish ==
  ASSUME NEW r \in Partial(RRSet), want \in wished
  PROVE  FromWish(PlanFor(want, r))
  BY DEF PlanFor, FromWish, HasChanges

\* What ApplyChanges queues for plan p, whatever it saw.
LEMMA QueuesFromPlan ==
  ASSUME NEW p \in Plan, NEW seen \in Partial(RRSet), FromWish(p)
  PROVE  /\ \A k \in processDeleteActions(p, seen) :
              k \in Owned /\ p.target \in wished /\ DeletionFor(p.target, k)
         /\ \A k \in Present(processCreateActions(p, seen)) :
              /\ k \in Owned /\ p.target \in wished
              /\ CreationFor(p.target, k, processCreateActions(p, seen)[k])
         /\ \A k \in Present(processUpdateActions(p, seen)) :
              /\ k \in Owned /\ p.target \in wished
              /\ UpdateFor(p.target, k, processUpdateActions(p, seen)[k])
  <1>1. \A k \in p.create \cup p.update \cup p.delete : k \in Owned /\ p.target \in wished
    BY DEF FromWish, HasChanges
  <1>2. ASSUME NEW k \in processDeleteActions(p, seen)
        PROVE  k \in Owned /\ p.target \in wished /\ DeletionFor(p.target, k)
    BY <1>1 DEF processDeleteActions, endpointsByZoneID, DeletionFor, FromWish
  <1>3. ASSUME NEW k \in Present(processCreateActions(p, seen))
        PROVE  /\ k \in Owned /\ p.target \in wished
               /\ CreationFor(p.target, k, processCreateActions(p, seen)[k])
    <2>1. k \in Key /\ processCreateActions(p, seen)[k] # None
      BY DEF Present
    <2>2. k \in p.create /\ processCreateActions(p, seen)[k] = CreateOpts(k, p.target[k])
      BY <2>1 DEF processCreateActions, endpointsByZoneID
    <2>3. QED  BY <1>1, <2>2 DEF CreationFor, FromWish
  <1>4. ASSUME NEW k \in Present(processUpdateActions(p, seen))
        PROVE  /\ k \in Owned /\ p.target \in wished
               /\ UpdateFor(p.target, k, processUpdateActions(p, seen)[k])
    <2>1. k \in Key /\ processUpdateActions(p, seen)[k] # None
      BY DEF Present
    <2>2. /\ k \in p.update
          /\ processUpdateActions(p, seen)[k] = processUpdateEndpoint(seen[k], p.target[k])
      BY <2>1 DEF processUpdateActions, endpointsByZoneID
    <2>3. p.target[k] # None
      BY <2>2 DEF FromWish
    <2>4. UpdateFor(p.target, k, processUpdateEndpoint(seen[k], p.target[k]))
      BY <2>3 DEF UpdateFor, processUpdateEndpoint, recordsOpts, ttlOpts, labelsOpts
    <2>5. QED  BY <1>1, <2>2, <2>4
  <1>5. QED  BY <1>2, <1>3, <1>4

\* A step after which handler g works for the same plan, for the one being
\* posted, or for none, with no more calls in its queues than before.
Shrinks(g) ==
  /\ req'[g].plan \in {None, plan, req[g].plan}
  /\ req'[g].dels \subseteq req[g].dels
  /\ \A k \in Key : req'[g].crts[k] \in {None, req[g].crts[k]}
  /\ \A k \in Key :
       \/ req'[g].upds[k] = None
       \/ /\ req[g].upds[k] # None
          /\ req'[g].upds[k].recs \in {None, req[g].upds[k].recs}
          /\ req'[g].upds[k].ttl \in {None, req[g].upds[k].ttl}
          /\ req'[g].upds[k].labels \in {None, req[g].upds[k].labels}

LEMMA KeptShrinks ==
  ASSUME NEW g, req'[g] = req[g]
  PROVE  Shrinks(g)
  BY DEF Shrinks

LEMMA IdleShrinks ==
  ASSUME NEW g, req'[g] = IdleRequest
  PROVE  Shrinks(g)
  BY DEF Shrinks, IdleRequest, Nothing

\* Such a step preserves WishInv.
LEMMA ShrinkingKeepsWishInv ==
  ASSUME WishInv, wished \subseteq wished', want' \in wished', plan' \in {plan, NoPlan},
         \A g \in Handler : Shrinks(g)
  PROVE  WishInv'
  <1>1. FromWish(plan)'
    <2>1. CASE plan' = plan
      BY <2>1 DEF WishInv, FromWish
    <2>2. CASE plan' = NoPlan
      BY <2>2 DEF FromWish, NoPlan, HasChanges
    <2>3. QED  BY <2>1, <2>2
  <1>2. ASSUME NEW g \in Handler, req'[g].plan # None
        PROVE  FromWish(req[g].plan)'
    BY <1>2 DEF WishInv, FromWish, Shrinks
  <1>3. ASSUME NEW g \in Handler
        PROVE  QueuesFromWishes(g)'
    <2>0. QueuesFromWishes(g) /\ Shrinks(g)
      BY DEF WishInv
    <2>1. ASSUME NEW k \in req'[g].dels
          PROVE  k \in Owned /\ \E w \in wished' : DeletionFor(w, k)
      BY <2>0 DEF QueuesFromWishes, Shrinks
    <2>2. ASSUME NEW k \in Present(req'[g].crts)
          PROVE  k \in Owned /\ \E w \in wished' : CreationFor(w, k, req'[g].crts[k])
      <3>1. k \in Key /\ req'[g].crts[k] # None
        BY DEF Present
      <3>2. req'[g].crts[k] = req[g].crts[k] /\ k \in Present(req[g].crts)
        BY <2>0, <3>1 DEF Shrinks, Present
      <3>3. QED  BY <2>0, <3>2 DEF QueuesFromWishes
    <2>3. ASSUME NEW k \in Present(req'[g].upds)
          PROVE  k \in Owned /\ \E w \in wished' : UpdateFor(w, k, req'[g].upds[k])
      <3>1. k \in Key /\ req'[g].upds[k] # None
        BY DEF Present
      <3>2. k \in Present(req[g].upds)
        BY <2>0, <3>1 DEF Shrinks, Present
      <3>3. PICK w \in wished : UpdateFor(w, k, req[g].upds[k])
        BY <2>0, <3>2 DEF QueuesFromWishes
      <3>4. UpdateFor(w, k, req'[g].upds[k])
        BY <2>0, <3>1, <3>3 DEF Shrinks, UpdateFor
      <3>5. QED  BY <2>0, <3>2, <3>4 DEF QueuesFromWishes
    <2>4. QED  BY <2>1, <2>2, <2>3 DEF QueuesFromWishes, Present
  <1>4. QED  BY <1>1, <1>2, <1>3 DEF WishInv
LEMMA InitWish == Init => WishInv
  BY ReconcileAssumption
  DEF Init, WishInv, FromWish, HasChanges, QueuesFromWishes, NoPlan, IdleRequest, Nothing, Present

\* An answer ends the request, and a step that touches no other request than
\* that of h is a matter of h alone.
LEMMA OnlyShrinks ==
  ASSUME TypeOK, NEW h \in Handler, NEW r, req' = [req EXCEPT ![h] = r],
         Shrinks(h)
  PROVE  \A g \in Handler : Shrinks(g)
  <1>1. ASSUME NEW g \in Handler, g # h
        PROVE  Shrinks(g)
    <2>1. req'[g] = req[g]
      BY <1>1 DEF TypeOK
    <2>2. QED  BY <2>1, KeptShrinks
  <1>2. QED  BY <1>1

LEMMA AnswerShrinks ==
  ASSUME TypeOK, NEW h \in Handler, NEW outcome, Answer(h, outcome)
  PROVE  plan' \in {plan, NoPlan} /\ \A g \in Handler : Shrinks(g)
  <1>1. req' = [req EXCEPT ![h] = IdleRequest] /\ plan' \in {plan, NoPlan}
    BY DEF Answer
  <1>2. req'[h] = IdleRequest
    BY <1>1 DEF TypeOK
  <1>3. QED  BY <1>1, <1>2, IdleShrinks, OnlyShrinks

LEMMA StartWish ==
  ASSUME TypeOK, WishInv, NEW h \in Handler, StartRecords(h) \/ StartApply(h)
  PROVE  WishInv'
  <1>1. plan' = plan /\ want' = want /\ wished' = wished
    BY DEF StartRecords, StartApply
  <1>2. PICK r : /\ req' = [req EXCEPT ![h] = r]
                 /\ \/ r = [IdleRequest EXCEPT !.pc = "zones"]
                    \/ r = [IdleRequest EXCEPT !.pc = "zones", !.plan = plan]
    BY Zenon DEF StartRecords, StartApply
  <1>3. req'[h] = r
    BY <1>2 DEF TypeOK
  <1>4. Shrinks(h)
    <2>1. r.plan \in {None, plan} /\ r.dels = {} /\ r.crts = Nothing /\ r.upds = Nothing
      <3>1. CASE r = [IdleRequest EXCEPT !.pc = "zones"]
        BY <3>1 DEF IdleRequest
      <3>2. CASE r = [IdleRequest EXCEPT !.pc = "zones", !.plan = plan]
        BY <3>2 DEF IdleRequest
      <3>3. QED  BY <1>2, <3>1, <3>2
    <2>2. QED  BY <1>3, <2>1 DEF Shrinks, Nothing
  <1>5. QED  BY <1>1, <1>2, <1>4, OnlyShrinks, ShrinkingKeepsWishInv DEF WishInv

LEMMA ReadingWish ==
  ASSUME TypeOK, WishInv, NEW h \in Handler,
         \/ ReturnUnchanged(h) \/ ListZones(h) \/ FetchZone(h) \/ ReadFails(h)
  PROVE  WishInv'
  <1>1. CASE ReturnUnchanged(h) \/ ReadFails(h)
    BY <1>1, AnswerShrinks, ShrinkingKeepsWishInv DEF ReturnUnchanged, ReadFails, WishInv
  <1>2. ASSUME NEW r, req' = [req EXCEPT ![h] = r], req'[h] = r,
               r.plan = req[h].plan, r.dels = req[h].dels,
               r.crts = req[h].crts, r.upds = req[h].upds,
               UNCHANGED <<want, wished, plan>>
        PROVE  WishInv'
    <2>1. Shrinks(h)
      BY <1>2 DEF Shrinks
    <2>2. QED  BY <1>2, <2>1, OnlyShrinks, ShrinkingKeepsWishInv DEF WishInv
  <1>3. CASE ListZones(h)
    <2>1. UNCHANGED <<want, wished, plan>>
      BY <1>3, ListZonesStep
    <2>2. QED  BY <1>2, <1>3, <2>1, ListZonesStep
  <1>4. CASE FetchZone(h)
    <2>1. PICK z \in req[h].unread :
            /\ req' = [req EXCEPT ![h] = FetchedReq(h, z)]
            /\ req'[h] = FetchedReq(h, z)
            /\ FetchedReq(h, z).plan = req[h].plan /\ FetchedReq(h, z).dels = req[h].dels
            /\ FetchedReq(h, z).crts = req[h].crts /\ FetchedReq(h, z).upds = req[h].upds
            /\ UNCHANGED <<want, wished, plan>>
      BY <1>4, FetchZoneStep
    <2>2. QED  BY <1>2, <2>1
  <1>5. QED  BY <1>1, <1>3, <1>4

\* ExternalDNS makes a plan: of the wish of the moment.
LEMMA ReturnRecordsWish ==
  ASSUME TypeOK, WishInv, NEW h \in Handler, ReturnRecords(h)
  PROVE  WishInv'
  <1>1. want' = want /\ wished' = wished /\ req' = [req EXCEPT ![h] = IdleRequest]
    BY DEF ReturnRecords
  <1>2. req'[h] = IdleRequest
    BY <1>1 DEF TypeOK
  <1>3. \A g \in Handler : Shrinks(g)
    BY <1>1, <1>2, IdleShrinks, OnlyShrinks
  <1>4. CASE plan' = plan
    BY <1>1, <1>3, <1>4, ShrinkingKeepsWishInv DEF WishInv
  <1>5. CASE plan' = PlanFor(want, req[h].seen)
    <2>1. FromWish(plan')
      BY <1>5, PlanFromWish DEF TypeOK, Request, WishInv
    <2>2. FromWish(plan)'
      BY <1>1, <2>1 DEF FromWish
    <2>3. ASSUME NEW g \in Handler
          PROVE  (req'[g].plan # None => FromWish(req[g].plan)') /\ QueuesFromWishes(g)'
      <3>1. CASE g = h
        BY <1>2, <3>1 DEF IdleRequest, QueuesFromWishes, Nothing, Present
      <3>2. CASE g # h
        <4>1. req'[g] = req[g]
          BY <1>1, <3>2 DEF TypeOK
        <4>2. QED  BY <1>1, <4>1 DEF WishInv, FromWish, QueuesFromWishes
      <3>3. QED  BY <3>1, <3>2
    <2>4. QED  BY <1>1, <2>2, <2>3 DEF WishInv
  <1>6. QED  BY <1>4, <1>5 DEF ReturnRecords
\* ApplyChanges queues: for the wish its plan works for.
LEMMA QueueWish ==
  ASSUME TypeOK, WishInv, NEW h \in Handler, Queue(h)
  PROVE  WishInv'
  <1>1. UNCHANGED <<want, wished, plan>> /\ req[h].plan # None
    BY DEF Queue
  <1>2. /\ req[h].plan \in Plan /\ req[h].seen \in Partial(RRSet)
        /\ FromWish(req[h].plan)
    BY <1>1 DEF TypeOK, Request, WishInv
  <1>3. FromWish(plan)'
    BY <1>1 DEF WishInv, FromWish
  <1>4. ASSUME NEW g \in Handler
        PROVE  (req'[g].plan # None => FromWish(req[g].plan)') /\ QueuesFromWishes(g)'
    <2>1. CASE g = h
      <3>1. FromWish(req[g].plan)'
        BY <1>1, <1>2, <2>1, QueueStep DEF FromWish
      <3>2. QueuesFromWishes(g)'
        BY <1>1, <1>2, <2>1, QueueStep, QueuesFromPlan DEF QueuesFromWishes
      <3>3. QED  BY <3>1, <3>2
    <2>2. CASE g # h
      <3>1. req'[g] = req[g]
        BY <2>2, QueueStep DEF TypeOK
      <3>2. QED  BY <1>1, <3>1 DEF WishInv, FromWish, QueuesFromWishes
    <2>3. QED  BY <2>1, <2>2
  <1>5. QED  BY <1>1, <1>3, <1>4 DEF WishInv

\* A handler that goes on, with shrinking queues.
LEMMA GoesOnWish ==
  ASSUME TypeOK, WishInv, NEW h \in Handler, NEW r, Goes(h, r),
         r.dels \subseteq req[h].dels,
         \A j \in Key : r.crts[j] \in {None, req[h].crts[j]},
         \A j \in Key :
           \/ r.upds[j] \in {None, req[h].upds[j]}
           \/ /\ req[h].upds[j] # None
              /\ r.upds[j].recs \in {None, req[h].upds[j].recs}
              /\ r.upds[j].ttl \in {None, req[h].upds[j].ttl}
              /\ r.upds[j].labels \in {None, req[h].upds[j].labels}
  PROVE  WishInv'
  <1>1. Shrinks(h)
    BY DEF Shrinks, Goes
  <1>2. QED  BY <1>1, OnlyShrinks, ShrinkingKeepsWishInv DEF Goes, WishInv

LEMMA CallsWish ==
  ASSUME TypeOK, WishInv, NEW h \in Handler, applyDeletes(h) \/ applyCreates(h)
  PROVE  WishInv'
  <1>0. ASSUME Answer(h, "err")
        PROVE  WishInv'
    BY <1>0, AnswerShrinks, ShrinkingKeepsWishInv DEF applyDeletes, applyCreates, WishInv
  <1>1. CASE applyDeletes(h)
    BY <1>0, <1>1, DeletesStep, GoesOnWish DEF Aborts
  <1>2. CASE applyCreates(h)
    <2>1. ASSUME NEW k \in Key, NEW r, Goes(h, r), r.dels = req[h].dels, r.upds = req[h].upds,
                 r.crts = [req[h].crts EXCEPT ![k] = None]
          PROVE  WishInv'
      <3>1. \A j \in Key : r.crts[j] \in {None, req[h].crts[j]}
        BY <2>1 DEF TypeOK, Request, Partial
      <3>2. \A j \in Key : r.upds[j] \in {None, req[h].upds[j]}
        BY <2>1
      <3>3. QED  BY <2>1, <3>1, <3>2, GoesOnWish
    <2>2. QED  BY <1>0, <1>2, <2>1, CreatesStep DEF Aborts, Present
  <1>3. QED  BY <1>1, <1>2

LEMMA UpdateCallWish ==
  ASSUME TypeOK, WishInv, NEW h \in Handler, NEW option \in {"recs", "ttl", "labels"},
         NEW earlier, UpdateCall(h, option, earlier)
  PROVE  WishInv'
  <1>1. PICK k \in Key :
          /\ req[h].upds[k] # None
          /\ \/ \E r : /\ Goes(h, r) /\ r.dels = req[h].dels /\ r.crts = req[h].crts
                     /\ r.upds = [req[h].upds EXCEPT ![k] = [req[h].upds[k] EXCEPT ![option] = None]]
             \/ Answer(h, "err")
    BY UpdateCallStep
  <1>2. CASE Answer(h, "err")
    BY <1>2, AnswerShrinks, ShrinkingKeepsWishInv DEF UpdateCall, WishInv
  <1>3. CASE \E r : /\ Goes(h, r) /\ r.dels = req[h].dels /\ r.crts = req[h].crts
                   /\ r.upds = [req[h].upds EXCEPT ![k] = [req[h].upds[k] EXCEPT ![option] = None]]
    <2> DEFINE u == req[h].upds[k]
               v == [u EXCEPT ![option] = None]
    <2>1. u \in UpdateOpts
      BY <1>1 DEF TypeOK, Request, Partial
    <2>2. v.recs \in {None, u.recs} /\ v.ttl \in {None, u.ttl} /\ v.labels \in {None, u.labels}
      BY <2>1 DEF UpdateOpts
    <2> HIDE DEF v
    <2>3. \A j \in Key : [req[h].upds EXCEPT ![k] = v][j] = IF j = k THEN v ELSE req[h].upds[j]
      BY DEF TypeOK, Request, Partial
    <2>4. PICK r : /\ Goes(h, r) /\ r.dels = req[h].dels /\ r.crts = req[h].crts
                   /\ r.upds = [req[h].upds EXCEPT ![k] = v]
      BY <1>3 DEF v
    <2>5. \A j \in Key :
           \/ r.upds[j] \in {None, req[h].upds[j]}
           \/ /\ req[h].upds[j] # None
              /\ r.upds[j].recs \in {None, req[h].upds[j].recs}
              /\ r.upds[j].ttl \in {None, req[h].upds[j].ttl}
              /\ r.upds[j].labels \in {None, req[h].upds[j].labels}
      BY <1>1, <2>2, <2>3, <2>4
    <2>6. QED  BY <2>4, <2>5, GoesOnWish
  <1>4. QED  BY <1>1, <1>2, <1>3

LEMMA FinishWish ==
  ASSUME TypeOK, WishInv, NEW h \in Handler, FinishUpdate(h) \/ ReturnApplied(h)
  PROVE  WishInv'
  <1>1. CASE FinishUpdate(h)
    <2>1. ASSUME NEW k \in Key, NEW r, Goes(h, r), r.dels = req[h].dels, r.crts = req[h].crts,
                 r.upds = [req[h].upds EXCEPT ![k] = None]
          PROVE  WishInv'
      <3>1. \A j \in Key : r.upds[j] \in {None, req[h].upds[j]}
        BY <2>1 DEF TypeOK, Request, Partial
      <3>2. QED  BY <2>1, <3>1, GoesOnWish
    <2>2. QED  BY <1>1, <2>1, FinishUpdateStep
  <1>2. CASE ReturnApplied(h)
    BY <1>2, AnswerShrinks, ShrinkingKeepsWishInv DEF ReturnApplied, WishInv
  <1>3. QED  BY <1>1, <1>2

LEMMA OutsideWish ==
  ASSUME TypeOK, WishInv, Outside
  PROVE  WishInv'
  <1>1. wished \subseteq wished' /\ want' \in wished' /\ plan' \in {plan, NoPlan}
    BY DEF Outside, GiveUp, Crash, ForeignEdit, ChangeWant, WishInv
  <1>2. ASSUME NEW g \in Handler
        PROVE  Shrinks(g)
    <2>1. req'[g] = req[g] \/ req'[g] = IdleRequest
      BY DEF Outside, GiveUp, Crash, ForeignEdit, ChangeWant
    <2>2. QED  BY <2>1, KeptShrinks, IdleShrinks
  <1>3. QED  BY <1>1, <1>2, ShrinkingKeepsWishInv

LEMMA NextWish ==
  ASSUME TypeOK, WishInv, [Next]_vars
  PROVE  WishInv'
  <1>1. ASSUME NEW h \in Handler, Handle(h)
        PROVE  WishInv'
    <2>1. CASE UpdateRecords(h)
      BY <2>1, UpdateCallWish DEF UpdateRecords
    <2>2. CASE UpdateTTL(h)
      BY <2>2, UpdateCallWish DEF UpdateTTL
    <2>3. CASE UpdateLabels(h)
      BY <2>3, UpdateCallWish DEF UpdateLabels
    <2>4. QED
      BY <1>1, <2>1, <2>2, <2>3, ReadingWish, ReturnRecordsWish, QueueWish, CallsWish,
         FinishWish
      DEF Handle
  <1>2. CASE UNCHANGED vars
    BY <1>2 DEF vars, WishInv, FromWish, QueuesFromWishes
  <1>3. QED  BY <1>1, <1>2, StartWish, OutsideWish DEF Next, ExternalDNS

-----------------------------------------------------------------------------
(* WritesOnlyWishes, from TypeOK and WishInv.                              *)

\* A call changes at most the recordset it is about, to what it is meant to.
LEMMA CallWrites ==
  ASSUME TypeOK, NEW k \in Key, NEW rr, NEW legal,
         Succeeds(legal, k, rr) \/ Fails(legal, k, rr),
         NEW j \in Key, dns'[j] # dns[j]
  PROVE  j = k /\ legal /\ dns'[j] = rr
  BY DEF TypeOK, Partial, Succeeds, Fails

WebhookWrite(k) == k \in Owned /\ \E w \in wished : Towards(w, k, dns[k], dns'[k])

LEMMA DeletesWrite ==
  ASSUME TypeOK, WishInv, NEW h \in Handler, applyDeletes(h),
         NEW j \in Key, dns'[j] # dns[j]
  PROVE  WebhookWrite(j)
  <1>1. PICK k \in req[h].dels :
          \/ Skips
          \/ Succeeds(MayChange(k), k, None) \/ Fails(MayChange(k), k, None)
    BY DEF applyDeletes, Does, Aborts
  <1>2. k \in Key
    BY DEF TypeOK, Request
  <1>3. j = k /\ MayChange(k) /\ dns'[j] = None
    BY <1>1, <1>2, CallWrites DEF Skips
  <1>4. k \in Owned /\ \E w \in wished : DeletionFor(w, k)
    BY DEF WishInv, QueuesFromWishes
  <1>5. QED  BY <1>3, <1>4 DEF WebhookWrite, Towards, MayChange, DeletionFor

LEMMA CreatesWrite ==
  ASSUME TypeOK, WishInv, NEW h \in Handler, applyCreates(h),
         NEW j \in Key, dns'[j] # dns[j]
  PROVE  WebhookWrite(j)
  <1>1. PICK k \in Present(req[h].crts) :
          \/ Skips
          \/ Succeeds(MayCreate(k), k, req[h].crts[k]) \/ Fails(MayCreate(k), k, req[h].crts[k])
    BY DEF applyCreates, Does, Aborts
  <1>2. k \in Key
    BY DEF Present
  <1>3. j = k /\ MayCreate(k) /\ dns'[j] = req[h].crts[k]
    BY <1>1, <1>2, CallWrites DEF Skips
  <1>4. k \in Owned /\ \E w \in wished : CreationFor(w, k, req[h].crts[k])
    BY DEF WishInv, QueuesFromWishes
  <1>5. QED  BY <1>3, <1>4 DEF WebhookWrite, Towards, MayCreate, CreationFor

LEMMA UpdatesWrite ==
  ASSUME TypeOK, WishInv, NEW h \in Handler, NEW option \in {"recs", "ttl", "labels"},
         NEW earlier, UpdateCall(h, option, earlier),
         NEW j \in Key, dns'[j] # dns[j]
  PROVE  WebhookWrite(j)
  <1>1. PICK k \in Key :
          /\ req[h].upds[k] # None /\ req[h].upds[k][option] # None
          /\ LET rr == [dns[k] EXCEPT ![option] = req[h].upds[k][option]] IN
             Succeeds(MayChange(k), k, rr) \/ Fails(MayChange(k), k, rr)
    BY DEF UpdateCall, MayUpdate
  <1> DEFINE u == req[h].upds[k]
             rr == [dns[k] EXCEPT ![option] = u[option]]
  <1>2. j = k /\ MayChange(k) /\ dns'[j] = rr
    <2>1. Succeeds(MayChange(k), k, rr) \/ Fails(MayChange(k), k, rr)
      BY <1>1
    <2> HIDE DEF rr
    <2>2. QED  BY <2>1, CallWrites
  <1>3. PICK w \in wished : UpdateFor(w, k, u)
    BY <1>1 DEF WishInv, QueuesFromWishes, Present
  <1>4. k \in Owned /\ w[k] # None /\ dns[k] # None
    BY <1>1, <1>2, <1>3 DEF WishInv, QueuesFromWishes, Present, UpdateFor, MayChange
  <1>5. CASE option = "recs"
    <2>1. u.recs = w[k].recs
      BY <1>1, <1>3, <1>5 DEF UpdateFor
    <2>2. QED  BY <1>2, <1>4, <1>5, <2>1 DEF WebhookWrite, Towards
  <1>6. CASE option = "ttl"
    <2>1. u.ttl = w[k].ttl
      BY <1>1, <1>3, <1>6 DEF UpdateFor
    <2>2. QED  BY <1>2, <1>4, <1>6, <2>1 DEF WebhookWrite, Towards
  <1>7. CASE option = "labels"
    <2>1. u.labels = w[k].labels
      BY <1>1, <1>3, <1>7 DEF UpdateFor
    <2>2. QED  BY <1>2, <1>4, <1>7, <2>1 DEF WebhookWrite, Towards
  <1>8. QED  BY <1>5, <1>6, <1>7

LEMMA NextWrites ==
  ASSUME TypeOK, WishInv, [Next]_vars, NEW j \in Key, dns'[j] # dns[j]
  PROVE  ForeignEdit(j) \/ WebhookWrite(j)
  <1>1. ASSUME NEW h \in Handler, Handle(h)
        PROVE  WebhookWrite(j)
    <2>1. CASE UpdateRecords(h)
      BY <2>1, UpdatesWrite DEF UpdateRecords
    <2>2. CASE UpdateTTL(h)
      BY <2>2, UpdatesWrite DEF UpdateTTL
    <2>3. CASE UpdateLabels(h)
      BY <2>3, UpdatesWrite DEF UpdateLabels
    <2>4. CASE applyDeletes(h) \/ applyCreates(h)
      BY <2>4, DeletesWrite, CreatesWrite
    <2>5. QED
      BY <1>1, <2>1, <2>2, <2>3, <2>4
      DEF Handle, ReturnUnchanged, ListZones, FetchZone, ReadFails, ReturnRecords, Queue,
          FinishUpdate, ReturnApplied
  <1>2. ASSUME NEW k \in Key, ForeignEdit(k)
        PROVE  ForeignEdit(j)
    <2>1. j = k
      BY <1>2 DEF ForeignEdit, TypeOK, Partial
    <2>2. QED  BY <1>2, <2>1
  <1>3. CASE Next
    BY <1>1, <1>2, <1>3
    DEF Next, ExternalDNS, StartRecords, StartApply, Outside, GiveUp, Crash, ChangeWant
  <1>4. QED  BY <1>3 DEF vars

-----------------------------------------------------------------------------
(* LoopInv: the loop and its handler.                                      *)

LEMMA InitLoop == Init => LoopInv
  BY DEF Init, LoopInv

\* A handler that answers leaves the loop idle, or does not concern it.
LEMMA AnswerLoop ==
  ASSUME TypeOK, LoopInv, NEW h \in Handler, NEW outcome, Answer(h, outcome)
  PROVE  LoopInv'
  <1>1. CASE serving = h
    BY <1>1 DEF Answer, LoopInv
  <1>2. CASE serving # h
    <2>1. serving # None => req'[serving] = req[serving]
      BY <1>2 DEF Answer, TypeOK
    <2>2. QED  BY <1>2, <2>1 DEF Answer, LoopInv
  <1>3. QED  BY <1>1, <1>2

\* A handler that goes on keeps its plan and is not free.
LEMMA GoesOnLoop ==
  ASSUME TypeOK, LoopInv, NEW h \in Handler, NEW r, req' = [req EXCEPT ![h] = r],
         r.plan = req[h].plan, r.pc # "free",
         r.pc \in {"zones", "fetch"} \/ req[h].pc \notin {"zones", "fetch"} \/ r.plan # None,
         UNCHANGED <<loop, serving, last>>
  PROVE  LoopInv'
  <1>1. req'[h] = r /\ \A g \in Handler \ {h} : req'[g] = req[g]
    BY DEF TypeOK
  <1>2. CASE serving = h
    BY <1>1, <1>2 DEF LoopInv
  <1>3. CASE serving # h
    <2>1. serving # None => req'[serving] = req[serving]
      BY <1>1, <1>3 DEF TypeOK
    <2>2. QED  BY <2>1 DEF LoopInv
  <1>4. QED  BY <1>2, <1>3

LEMMA NextLoop ==
  ASSUME TypeOK, LoopInv, [Next]_vars
  PROVE  LoopInv'
  <1>1. ASSUME NEW h \in Handler, StartRecords(h) \/ StartApply(h)
        PROVE  LoopInv'
    <2>1. h # None
      BY ReconcileAssumption
    <2>2. CASE StartRecords(h)
      <3> DEFINE r == [IdleRequest EXCEPT !.pc = "zones"]
      <3>1. r.pc = "zones" /\ r.plan = None
        BY DEF IdleRequest
      <3> HIDE DEF r
      <3>2. req'[h] = r
        BY <2>2 DEF StartRecords, TypeOK, r
      <3>3. QED  BY <2>1, <2>2, <3>1, <3>2 DEF StartRecords, LoopInv
    <2>3. CASE StartApply(h)
      <3> DEFINE r == [IdleRequest EXCEPT !.pc = "zones", !.plan = plan]
      <3>1. r.pc = "zones" /\ r.plan = plan
        BY DEF IdleRequest
      <3>2. req' = [req EXCEPT ![h] = r]
        BY <2>3, Zenon DEF StartApply
      <3> HIDE DEF r
      <3>3. req'[h] = r
        BY <3>2 DEF TypeOK
      <3>4. plan # None
        BY ReconcileAssumption DEF TypeOK
      <3>5. QED  BY <2>1, <2>3, <3>1, <3>3, <3>4 DEF StartApply, LoopInv
    <2>4. QED  BY <1>1, <2>2, <2>3
  <1>2. ASSUME NEW h \in Handler, Handle(h)
        PROVE  LoopInv'
    <2>1. ASSUME NEW outcome, Answer(h, outcome)
          PROVE  LoopInv'
      BY <2>1, AnswerLoop
    <2>2. ASSUME NEW r, Goes(h, r), req[h].pc = "run"
          PROVE  LoopInv'
      BY <2>2, GoesOnLoop DEF Goes
    <2>3. CASE ListZones(h)
      BY <2>3, ListZonesStep, GoesOnLoop
    <2>4. CASE FetchZone(h)
      <3>1. PICK z \in req[h].unread :
              /\ req' = [req EXCEPT ![h] = FetchedReq(h, z)]
              /\ FetchedReq(h, z).pc = "fetch" /\ FetchedReq(h, z).plan = req[h].plan
              /\ UNCHANGED <<loop, serving, last>>
        BY <2>4, FetchZoneStep
      <3>2. QED  BY <3>1, GoesOnLoop
    <2>5. CASE ReturnRecords(h)
      <3>1. CASE serving = h
        <4>1. serving # None
          BY <3>1, ReconcileAssumption
        <4>2. last = "none"
          BY <4>1 DEF LoopInv
        <4>3. QED  BY <2>5, <3>1, <4>2 DEF ReturnRecords, LoopInv
      <3>2. CASE serving # h
        <4>1. serving # None => req'[serving] = req[serving]
          BY <2>5, <3>2 DEF ReturnRecords, TypeOK
        <4>2. QED  BY <2>5, <3>2, <4>1 DEF ReturnRecords, LoopInv
      <3>3. QED  BY <3>1, <3>2
    <2>6. CASE Queue(h)
      <3>1. QueuedReq(h).plan # None
        BY <2>6, QueueStep DEF Queue
      <3>2. QED  BY <2>6, <3>1, QueueStep, GoesOnLoop
    <2>7. CASE applyDeletes(h)
      BY <2>1, <2>2, <2>7, DeletesStep DEF Aborts, applyDeletes, Deleting
    <2>8. CASE applyCreates(h)
      BY <2>1, <2>2, <2>8, CreatesStep DEF Aborts, applyCreates, Creating
    <2>9. ASSUME NEW option \in {"recs", "ttl", "labels"}, NEW earlier,
                 UpdateCall(h, option, earlier)
          PROVE  LoopInv'
      BY <2>1, <2>2, <2>9, UpdateCallStep
    <2>10. CASE FinishUpdate(h)
      <3>1. req[h].pc = "run"
        BY <2>10 DEF FinishUpdate, MayUpdate, Updating
      <3>2. QED  BY <2>2, <2>10, <3>1, FinishUpdateStep
    <2>11. CASE ReturnUnchanged(h) \/ ReadFails(h) \/ ReturnApplied(h)
      BY <2>1, <2>11 DEF ReturnUnchanged, ReadFails, ReturnApplied
    <2>12. CASE UpdateRecords(h)
      BY <2>9, <2>12 DEF UpdateRecords
    <2>13. CASE UpdateTTL(h)
      BY <2>9, <2>13 DEF UpdateTTL
    <2>14. CASE UpdateLabels(h)
      BY <2>9, <2>14 DEF UpdateLabels
    <2>15. QED
      BY <1>2, <2>3, <2>4, <2>5, <2>6, <2>7, <2>8, <2>10, <2>11, <2>12, <2>13, <2>14 DEF Handle
  <1>3. CASE Outside
    <2>1. CASE GiveUp
      BY <2>1 DEF GiveUp, LoopInv
    <2>2. CASE Crash
      BY <2>2 DEF Crash, LoopInv
    <2>3. CASE \E k \in Key : ForeignEdit(k)
      BY <2>3 DEF ForeignEdit, LoopInv
    <2>4. CASE ChangeWant
      BY <2>4 DEF ChangeWant, LoopInv
    <2>5. QED  BY <1>3, <2>1, <2>2, <2>3, <2>4 DEF Outside
  <1>4. CASE UNCHANGED vars
    BY <1>4 DEF vars, LoopInv
  <1>5. QED  BY <1>1, <1>2, <1>3, <1>4 DEF Next, ExternalDNS

-----------------------------------------------------------------------------
(* The theorems.                                                           *)

\* Every state of every behaviour is well-typed: nothing that is stored, queued
\* or planned has a shape the code does not produce.
THEOREM TypeCorrect == Spec => []TypeOK
  <1>1. Init => TypeOK /\ WishInv
    BY InitType, InitWish
  <1>2. TypeOK /\ WishInv /\ [Next]_vars => TypeOK' /\ WishInv'
    BY NextType, NextWish
  <1>3. QED  BY <1>1, <1>2, PTL DEF Spec

\* The webhook writes nothing but what some wish of the cluster called for,
\* whatever calls are lost, refused or doubled, whoever edits the zones, and
\* however many handlers run at a time.
THEOREM OnlyWishesAreWritten == Spec => WritesOnlyWishes
  <1>1. Init => TypeOK /\ WishInv
    BY InitType, InitWish
  <1>2. TypeOK /\ WishInv /\ [Next]_vars => TypeOK' /\ WishInv'
    BY NextType, NextWish
  <1>3. TypeOK /\ WishInv /\ [Next]_vars =>
          [\A k \in Key : dns'[k] # dns[k] =>
             \/ ForeignEdit(k)
             \/ k \in Owned /\ \E w \in wished : Towards(w, k, dns[k], dns'[k])]_vars
    BY NextWrites DEF WebhookWrite
  <1>4. QED  BY <1>1, <1>2, <1>3, PTL DEF Spec, WritesOnlyWishes
=============================================================================
