------------------------------ MODULE BulkProofs ------------------------------
(***************************************************************************)
(* Theorems about the bulk mode (BulkChanges), for every instance of its   *)
(* constants: types, serial numbers that rise, and, where no recordset     *)
(* stops the parser of zonefiles, imports that keep what is in no queue    *)
(* and cycles that make the zones as wanted.                               *)
(***************************************************************************)
EXTENDS BulkChanges, RRSetsProofs, TLAPS

-----------------------------------------------------------------------------
(* Serial numbers.                                                         *)

LEMMA DatedFields ==
  ASSUME NEW s \in Dated
  PROVE  s.age \in 0..2 /\ s.version \in 0..MaxVersion /\ s \in Serial
  BY DEF Dated, Serial

\* Inc makes a later number of today, or none.
LEMMA IncIsLater ==
  ASSUME NEW s \in Dated, Inc(s) # None
  PROVE  Inc(s) \in Dated /\ Inc(s).age = 0 /\ Later(s, Inc(s))
  <1>1. s.age \in 0..2 /\ s.version \in 0..MaxVersion /\ MaxVersion \in Nat
    BY DatedFields, BulkAssumption
  <1>2. CASE s.age > 0
    <2>1. Inc(s) = [age |-> 0, version |-> 0]
      BY <1>2 DEF Inc
    <2>2. QED  BY <1>1, <1>2, <2>1 DEF Dated, Later
  <1>3. CASE ~(s.age > 0)
    <2>1. s.version # MaxVersion /\ Inc(s) = [age |-> 0, version |-> s.version + 1]
      BY <1>3 DEF Inc
    <2>2. s.version + 1 \in 0..MaxVersion
      BY <1>1, <2>1
    <2>3. QED  BY <1>1, <1>3, <2>1, <2>2 DEF Dated, Later
  <1>4. QED  BY <1>2, <1>3

\* So does updateSOA, of a number it supports.
LEMMA UpdatedSOA ==
  ASSUME NEW s \in Serial, updateSOA(s) # None
  PROVE  /\ s \in Dated
         /\ updateSOA(s) \in Dated /\ updateSOA(s).age = 0
         /\ Later(s, updateSOA(s))
  <1>1. Supported(s) /\ updateSOA(s) = Inc(s)
    BY DEF updateSOA
  <1>2. s \in Dated
    BY <1>1 DEF Supported, Serial
  <1>3. QED  BY <1>1, <1>2, IncIsLater

\* A day makes a date older, up to two days.
LEMMA AgedDated ==
  ASSUME NEW s \in Dated
  PROVE  /\ Aged(s) \in Dated
         /\ Aged(s).version = s.version
         /\ Aged(s).age = IF s.age = 2 THEN 2 ELSE s.age + 1
  <1>1. s # Unsupported /\ s.age \in 0..2
    BY DatedFields, BulkAssumption
  <1>2. CASE s.age = 2
    BY <1>2 DEF Aged
  <1>3. CASE s.age # 2
    <2>1. Aged(s) = [s EXCEPT !.age = s.age + 1]
      BY <1>1, <1>3 DEF Aged
    <2>2. s.age + 1 \in 0..2
      BY <1>1, <1>3
    <2>3. QED  BY <1>1, <1>3, <2>1, <2>2 DEF Dated
  <1>4. QED  BY <1>2, <1>3

LEMMA AgedSerial ==
  ASSUME NEW s \in Serial
  PROVE  Aged(s) \in Serial
  <1>1. CASE s = Unsupported
    BY <1>1 DEF Aged
  <1>2. CASE s # Unsupported
    <2>1. s \in Dated
      BY <1>2 DEF Serial
    <2>2. QED  BY <2>1, AgedDated, DatedFields
  <1>3. QED  BY <1>1, <1>2

\* Midnight keeps the order of a number of today and the one before it.
LEMMA AgedLater ==
  ASSUME NEW s \in Dated, NEW t \in Dated, t.age = 0, Later(s, t)
  PROVE  Later(Aged(s), Aged(t)) /\ Aged(t).age = 1
  BY AgedDated, DatedFields DEF Later

-----------------------------------------------------------------------------
(* Recordsets in a zonefile.                                               *)

LEMMA EntryFields ==
  ASSUME NEW e \in Entry
  PROVE  e.recs \in Recs /\ e.ttl \in TTL /\ e = [recs |-> e.recs, ttl |-> e.ttl]
         /\ e.ttl # None /\ e # None
  BY DataAssumption, BulkAssumption DEF Entry

LEMMA RRSetFields ==
  ASSUME NEW rr \in RRSet
  PROVE  rr.recs \in Recs /\ rr.ttl \in TTL \cup {None} /\ rr.labels \in Labels /\ rr # None
  BY NilIsNoRecord DEF RRSet

LEMMA EffectiveType ==
  ASSUME NEW k \in Key, NEW rr \in RRSet, ZoneOf[k] \in Zone
  PROVE  EffectiveTTL(k, rr) \in TTL
  BY DataAssumption, RRSetFields DEF EffectiveTTL

\* An export has what the zone holds, each recordset with a TTL.
LEMMA ExportedEntry ==
  ASSUME NEW z \in Zone, NEW k \in Key, ZoneOf[k] = z, dns[k] \in RRSet
  PROVE  /\ Exported(z)[k] = [recs |-> dns[k].recs, ttl |-> EffectiveTTL(k, dns[k])]
         /\ Exported(z)[k] \in Entry
  BY RRSetFields, EffectiveType DEF Exported, Entry

LEMMA ExportedType ==
  ASSUME NEW z \in Zone, dns \in Partial(RRSet)
  PROVE  Exported(z) \in Partial(Entry)
  <1>1. \A k \in Key : Exported(z)[k] \in Entry \cup {None}
    <2>1. SUFFICES ASSUME NEW k \in Key
                   PROVE  Exported(z)[k] \in Entry \cup {None}
      OBVIOUS
    <2>2. CASE ZoneOf[k] = z /\ dns[k] # None
      BY <2>2, ExportedEntry DEF Partial
    <2>3. CASE ~(ZoneOf[k] = z /\ dns[k] # None)
      BY <2>3 DEF Exported
    <2>4. QED  BY <2>2, <2>3
  <1>2. Exported(z) = [k \in Key |-> Exported(z)[k]]
    BY DEF Exported
  <1>3. QED  BY <1>1, <1>2 DEF Partial

\* The parser reads recordsets of the export, and no others.
LEMMA ReadType ==
  ASSUME NEW entries \in Partial(Entry), NEW read \in readRecords(entries)
  PROVE  read \in Partial(Entry)
  BY DEF readRecords, Partial

\* It reads all of them if none of them stops it.
Readable == Unreadable = {}

LEMMA ReadAll ==
  ASSUME Readable, NEW entries \in Partial(Entry), NEW read \in readRecords(entries)
  PROVE  read = entries
  <1>1. Present(entries) \cap Unreadable = {}
    BY DEF Readable
  <1>2. read = [k \in Key |-> IF k \in Key THEN entries[k] ELSE None]
    BY <1>1 DEF readRecords
  <1>3. QED  BY <1>2 DEF Partial

LEMMA SetRecordsType ==
  ASSUME NEW e \in Entry \cup {None}, NEW recs \in Recs, NEW ttl \in TTL
  PROVE  SetRecords(e, recs, ttl) \in Entry \cup {None}
  BY DEF SetRecords, parseRecord, Entry

\* Values that parse are set.
LEMMA SetRecordsSets ==
  ASSUME NEW e, NEW recs \in Recs \ Unparsable, NEW ttl \in TTL
  PROVE  SetRecords(e, recs, ttl) = [recs |-> recs, ttl |-> ttl]
  BY DataAssumption DEF SetRecords, parseRecord

-----------------------------------------------------------------------------
(* The edited zonefile.                                                    *)

\* The TTL that an update falls back to.
ReadTTL(z, k) == IF seen[k] # None THEN EffectiveTTL(k, seen[k]) ELSE ZoneTTL[z]

\* What runZoneChanges makes of the entry e of recordset k.
Edited(z, k, e) ==
  deleteRecord(
    updateRecord(createRecord(e, processCreateActions(plan, seen)[k]),
                 processUpdateActions(plan, seen)[k], seen[k], ReadTTL(z, k)),
    k \in processDeleteActions(plan, seen))

LEMMA RunZone ==
  ASSUME NEW z, NEW entries
  PROVE  runZoneChanges(z, entries) =
           [k \in Key |-> IF ZoneOf[k] # z THEN None ELSE Edited(z, k, entries[k])]
  BY DEF runZoneChanges, Edited, ReadTTL

\* In a plan whose creations and updates have a target, as every plan has.
PlanInv == \A k \in plan.create \cup plan.update : plan.target[k] # None

\* What is queued for a recordset in a zone.
LEMMA QueuedCreation ==
  ASSUME TypeOK, PlanInv, NEW k \in Key, processCreateActions(plan, seen)[k] # None
  PROVE  /\ processCreateActions(plan, seen)[k].recs \in Recs
         /\ processCreateActions(plan, seen)[k].ttl \in TTL
  <1>1. k \in plan.create /\ ZoneOf[k] \in Zone
        /\ processCreateActions(plan, seen)[k] = CreateOpts(k, plan.target[k])
    BY DEF processCreateActions, endpointsByZoneID
  <1>2. plan.target[k] \in Endpoint
    BY <1>1 DEF TypeOK, PlanInv, Plan, Partial
  <1>3. QED  BY <1>1, <1>2, DataAssumption DEF CreateOpts, Endpoint

LEMMA QueuedUpdate ==
  ASSUME TypeOK, PlanInv, NEW k \in Key, processUpdateActions(plan, seen)[k] # None
  PROVE  /\ seen[k] \in RRSet
         /\ processUpdateActions(plan, seen)[k] \in UpdateOpts
  <1>1. k \in plan.update /\ seen[k] # None
        /\ processUpdateActions(plan, seen)[k] = processUpdateEndpoint(seen[k], plan.target[k])
    BY DEF processUpdateActions, endpointsByZoneID
  <1>2. plan.target[k] \in Endpoint /\ seen[k] \in RRSet
    BY <1>1 DEF TypeOK, PlanInv, Plan, Partial
  <1>3. QED  BY <1>1, <1>2, UpdateOptsType

LEMMA EditedType ==
  ASSUME TypeOK, PlanInv, NEW z \in Zone, NEW k \in Key, ZoneOf[k] = z,
         NEW e \in Entry \cup {None}
  PROVE  Edited(z, k, e) \in Entry \cup {None}
  <1> DEFINE c == processCreateActions(plan, seen)[k]
             u == processUpdateActions(plan, seen)[k]
             created == createRecord(e, c)
             updated == updateRecord(created, u, seen[k], ReadTTL(z, k))
  <1>1. created \in Entry \cup {None}
    <2>1. CASE c = None
      BY <2>1 DEF createRecord
    <2>2. CASE c # None
      <3>1. SetRecords(e, c.recs, c.ttl) \in Entry \cup {None}
        BY <2>2, QueuedCreation, SetRecordsType
      <3>2. QED  BY <2>2, <3>1 DEF createRecord, AddRecord
    <2>3. QED  BY <2>1, <2>2
  <1>2. ReadTTL(z, k) \in TTL
    <2>1. seen[k] # None => EffectiveTTL(k, seen[k]) \in TTL
      BY EffectiveType DEF TypeOK, Partial
    <2>2. QED  BY <2>1, DataAssumption DEF ReadTTL
  <1>3. updated \in Entry \cup {None}
    <2>1. CASE u = None
      BY <1>1, <2>1 DEF updateRecord
    <2>2. CASE u # None
      <3> DEFINE recs == IF u.recs # None THEN u.recs ELSE seen[k].recs
                 ttl  == IF u.ttl # None THEN u.ttl ELSE ReadTTL(z, k)
      <3>1. recs \in Recs /\ ttl \in TTL
        BY <1>2, <2>2, QueuedUpdate, RRSetFields DEF UpdateOpts
      <3>2. SetRecords(created, recs, ttl) \in Entry \cup {None}
        <4> HIDE DEF recs, ttl, created
        <4> QED  BY <1>1, <3>1, SetRecordsType
      <3>3. updated = UpdateRecord(created, recs, ttl)
        BY <2>2 DEF updateRecord
      <3>4. QED
        <4> HIDE DEF recs, ttl, created, updated
        <4> QED  BY <1>1, <3>2, <3>3 DEF UpdateRecord
    <2>3. QED  BY <2>1, <2>2
  <1>4. QED
    <2>1. Edited(z, k, e) \in {updated, None}
      BY DEF Edited, deleteRecord, DeleteRecord
    <2>2. QED  BY <1>3, <2>1

LEMMA RunZoneType ==
  ASSUME TypeOK, PlanInv, NEW z \in Zone, NEW entries \in Partial(Entry)
  PROVE  runZoneChanges(z, entries) \in Partial(Entry)
  <1>1. \A k \in Key : ZoneOf[k] = z => Edited(z, k, entries[k]) \in Entry \cup {None}
    BY EditedType DEF Partial
  <1>2. QED  BY <1>1, RunZone DEF Partial

\* The entry of a recordset that is in no queue stays.
LEMMA EditedKeeps ==
  ASSUME NEW z, NEW k \in Key, NEW e, k \notin Queued(plan, seen)
  PROVE  Edited(z, k, e) = e
  <1>1. /\ processCreateActions(plan, seen)[k] = None
        /\ processUpdateActions(plan, seen)[k] = None
        /\ k \notin processDeleteActions(plan, seen)
    BY DEF Queued, Present
  <1>2. QED  BY <1>1 DEF Edited, createRecord, updateRecord, deleteRecord

\* What is queued lies in a zone: in one that is not managed as well.
LEMMA QueuedZone ==
  ASSUME NEW p, NEW s, NEW k \in Queued(p, s)
  PROVE  ZoneOf[k] \in Zone
  BY DEF Queued, Present, processCreateActions, processUpdateActions, processDeleteActions,
         endpointsByZoneID

-----------------------------------------------------------------------------
(* Type correctness.                                                       *)

LEMMA ListedType ==
  ASSUME TypeOK
  PROVE  Listed \in Partial(RRSet)
  BY DEF Listed, TypeOK, Partial

LEMMA NoPlanTargets == NoPlan.create \cup NoPlan.update = {}
  BY DEF NoPlan

\* A plan that ExternalDNS makes has a target where it needs one.
LEMMA PlanForTargets ==
  ASSUME NEW w, NEW r
  PROVE  \A k \in PlanFor(w, r).create \cup PlanFor(w, r).update : PlanFor(w, r).target[k] # None
  BY DEF PlanFor

\* After the end of a cycle.
LEMMA EndCycleType ==
  ASSUME NEW outcome \in {"done", "err"}, EndCycle(outcome)
  PROVE  /\ phase' = "idle" /\ plan' \in Plan /\ seen' \in Partial(RRSet)
         /\ todo' = {} /\ file' = None /\ last' \in {"none", "done", "err"}
         /\ PlanInv'
  BY NothingType, NoPlanType, NoPlanTargets DEF EndCycle, PlanInv

LEMMA DisturbType ==
  ASSUME TypeOK, Disturb
  PROVE  quiet' = FALSE /\ quiet' \in BOOLEAN /\ disturbances' \in 0..MaxDisturbances
  <1>1. disturbances \in 0..MaxDisturbances /\ MaxDisturbances \in Nat
    BY BulkAssumption DEF TypeOK
  <1>2. disturbances' \in 0..MaxDisturbances
    BY <1>1 DEF Disturb
  <1>3. quiet' = FALSE
    BY DEF Disturb
  <1>4. QED  BY <1>2, <1>3

LEMMA UndisturbedType ==
  ASSUME TypeOK, Undisturbed
  PROVE  quiet' = quiet /\ quiet' \in BOOLEAN /\ disturbances' \in 0..MaxDisturbances
  BY DEF TypeOK, Undisturbed

LEMMA InitType == Init => TypeOK /\ PlanInv
  <1> SUFFICES ASSUME Init PROVE TypeOK /\ PlanInv
    OBVIOUS
  <1>1. dns \in Partial(RRSet) /\ want \in Partial(Endpoint)
    BY BulkAssumption DEF Init
  <1>2. serial \in [Zone -> Serial]
    BY BulkAssumption DEF Init
  <1>3. plan \in Plan /\ seen \in Partial(RRSet)
    BY NothingType, NoPlanType DEF Init
  <1>4. quiet \in BOOLEAN
    <2>1. quiet = FALSE  BY DEF Init
    <2>2. QED  BY <2>1
  <1>5. disturbances \in 0..MaxDisturbances
    BY BulkAssumption DEF Init
  <1>6. /\ phase \in {"idle", "planned", "apply"} /\ todo \subseteq Zone
        /\ file \in {None} \cup Zonefile /\ last \in {"none", "done", "err"}
        /\ skipped \subseteq Zone
    BY DEF Init
  <1>7. TypeOK
    BY <1>1, <1>2, <1>3, <1>4, <1>5, <1>6 DEF TypeOK
  <1>8. PlanInv
    BY NoPlanTargets DEF Init, PlanInv
  <1>9. QED  BY <1>7, <1>8

\* The file that ExportZone makes.
LEMMA ExportType ==
  ASSUME TypeOK, PlanInv, NEW z \in Zone, updateSOA(serial[z]) # None,
         NEW entries \in readRecords(Exported(z))
  PROVE  Export(z, updateSOA(serial[z]), runZoneChanges(z, entries)) \in Zonefile
  <1>1. z \in Zone /\ serial[z] \in Serial
    BY DataAssumption DEF TypeOK
  <1>2. updateSOA(serial[z]) \in Serial
    BY <1>1, UpdatedSOA, DatedFields
  <1>3. Exported(z) \in Partial(Entry)
    BY <1>1, ExportedType DEF TypeOK
  <1>4. runZoneChanges(z, entries) \in Partial(Entry)
    BY <1>1, <1>3, ReadType, RunZoneType
  <1>5. QED  BY <1>1, <1>2, <1>3, <1>4 DEF Export, Zonefile

\* What an import stores.
LEMMA ImportedType ==
  ASSUME TypeOK, NEW k \in Key, NEW e \in Entry \cup {None}
  PROVE  Imported(k, e) \in RRSet \cup {None}
  <1>1. CASE e = None
    BY <1>1 DEF Imported
  <1>2. CASE e # None
    <2>1. e \in Entry
      BY <1>2
    <2>2. (IF dns[k] # None THEN dns[k].labels ELSE NoLabels) \in Labels
      BY DataAssumption, RRSetFields DEF TypeOK, Partial
    <2>3. QED  BY <1>2, <2>1, <2>2, EntryFields DEF Imported, RRSet
  <1>3. QED  BY <1>1, <1>2

LEMMA ZonefileFields ==
  ASSUME NEW f \in Zonefile
  PROVE  /\ f.zone \in Zone /\ f.serial \in Serial /\ f.base \in Serial
         /\ f.entries \in Partial(Entry) /\ f.old \in Partial(Entry)
  BY DEF Zonefile

\* Midnight changes the file in its two serial numbers.
OlderFile == [file EXCEPT !.serial = Aged(file.serial), !.base = Aged(file.base)]

LEMMA OlderFileFields ==
  ASSUME file \in Zonefile
  PROVE  /\ OlderFile \in Zonefile
         /\ OlderFile.serial = Aged(file.serial) /\ OlderFile.base = Aged(file.base)
         /\ OlderFile.zone = file.zone
         /\ OlderFile.entries = file.entries /\ OlderFile.old = file.old
  <1>1. Aged(file.serial) \in Serial /\ Aged(file.base) \in Serial
    BY ZonefileFields, AgedSerial
  <1>2. QED  BY <1>1 DEF OlderFile, Zonefile

LEMMA NextDayFile ==
  ASSUME NextDay, file # None
  PROVE  file' = OlderFile
  BY DEF NextDay, OlderFile

LEMMA TypeStep ==
  ASSUME TypeOK, PlanInv, [Next]_vars
  PROVE  TypeOK' /\ PlanInv'
  <1> USE DataAssumption
  <1>1. CASE PlanCycle
    <2>1. plan' \in Plan /\ PlanInv'
      BY <1>1, ListedType, PlanForType, PlanForTargets DEF PlanCycle, PlanInv, TypeOK
    <2>2. quiet' \in BOOLEAN
      <3>1. quiet' = TRUE  BY <1>1 DEF PlanCycle
      <3>2. QED  BY <3>1
    <2>3. QED  BY <1>1, <2>1, <2>2 DEF PlanCycle, TypeOK
  <1>2. CASE QueueChanges
    <2>1. quiet' \in BOOLEAN /\ disturbances' \in 0..MaxDisturbances
      BY <1>2, UndisturbedType DEF QueueChanges
    <2>2. /\ dns' \in Partial(RRSet) /\ serial' \in [Zone -> Serial]
          /\ want' \in Partial(Endpoint) /\ skipped' \subseteq Zone
      BY <1>2 DEF QueueChanges, TypeOK
    <2>3. CASE HasChanges(plan)
      <3>1. /\ phase' = "apply" /\ seen' = Listed /\ todo' = getZoneChanges(plan, Listed)
            /\ plan' = plan /\ file' = file /\ last' = last
        BY <1>2, <2>3 DEF QueueChanges
      <3>2. todo' \subseteq Zone
        BY <3>1, QueuedZone DEF getZoneChanges
      <3>3. PlanInv'
        BY <3>1 DEF PlanInv
      <3>4. TypeOK'
        BY <2>1, <2>2, <3>1, <3>2, ListedType DEF TypeOK
      <3>5. QED  BY <3>3, <3>4
    <2>4. CASE ~HasChanges(plan)
      <3>1. EndCycle("done")
        BY <1>2, <2>4 DEF QueueChanges
      <3>2. QED  BY <2>1, <2>2, <3>1, EndCycleType DEF TypeOK
    <2>5. QED  BY <2>3, <2>4
  <1>3. CASE ReadFails \/ Crash
    <2>1. Disturb /\ EndCycle("err") /\ UNCHANGED <<dns, serial, want, skipped>>
      BY <1>3 DEF ReadFails, Crash
    <2>2. QED  BY <2>1, DisturbType, EndCycleType DEF TypeOK
  <1>4. CASE ReturnApplied
    <2>1. Undisturbed /\ EndCycle("done") /\ UNCHANGED <<dns, serial, want, skipped>>
      BY <1>4 DEF ReturnApplied
    <2>2. QED  BY <2>1, UndisturbedType, EndCycleType DEF TypeOK
  <1>5. ASSUME NEW z \in Zone, ExportZone(z)
        PROVE  TypeOK' /\ PlanInv'
    <2>1. file = None
      BY <1>5 DEF ExportZone, TypeOK
    <2>2. /\ UNCHANGED <<dns, serial, want, phase, plan, seen, last>>
          /\ quiet' \in BOOLEAN /\ disturbances' \in 0..MaxDisturbances
      BY <1>5, UndisturbedType DEF ExportZone
    <2>3. PlanInv'
      BY <2>2 DEF PlanInv
    <2>4. todo' \subseteq Zone /\ skipped' \subseteq Zone /\ file' \in {None} \cup Zonefile
      <3>1. CASE updateSOA(serial[z]) = None
        BY <1>5, <2>1, <3>1 DEF ExportZone, ZoneDone, TypeOK
      <3>2. CASE updateSOA(serial[z]) # None
        <4>1. PICK entries \in readRecords(Exported(z)) :
                file' = Export(z, updateSOA(serial[z]), runZoneChanges(z, entries))
          BY <1>5, <3>2 DEF ExportZone
        <4>2. UNCHANGED <<todo, skipped>>
          BY <1>5, <3>2 DEF ExportZone
        <4>3. file' \in Zonefile
          BY <2>1, <3>2, <4>1, ExportType
        <4>4. QED  BY <4>2, <4>3 DEF TypeOK
      <3>3. QED  BY <3>1, <3>2
    <2>5. QED  BY <2>2, <2>3, <2>4 DEF TypeOK
  <1>6. ASSUME NEW z \in Zone, ExportFails(z)
        PROVE  TypeOK' /\ PlanInv'
    <2>1. Disturb /\ ZoneDone(z) /\ UNCHANGED <<dns, serial, want, phase, plan, seen, last, skipped>>
      BY <1>6 DEF ExportFails
    <2>2. QED  BY <2>1, DisturbType DEF ZoneDone, TypeOK, PlanInv
  <1>7. CASE ImportZone
    <2>1. file \in Zonefile
      BY <1>7 DEF ImportZone, TypeOK
    <2>2. dns' \in Partial(RRSet)
      <3>1. \A k \in Key : Imported(k, file.entries[k]) \in RRSet \cup {None}
        BY <2>1, ZonefileFields, ImportedType DEF Partial
      <3>2. dns' = [k \in Key |-> IF ZoneOf[k] = file.zone THEN Imported(k, file.entries[k])
                                  ELSE dns[k]]
        BY <1>7 DEF ImportZone
      <3>3. QED  BY <3>1, <3>2 DEF TypeOK, Partial
    <2>3. serial' \in [Zone -> Serial]
      BY <1>7, <2>1, ZonefileFields DEF ImportZone, TypeOK
    <2>4. /\ UNCHANGED <<want, phase, plan, seen, last, skipped>>
          /\ ZoneDone(file.zone) /\ quiet' \in BOOLEAN /\ disturbances' \in 0..MaxDisturbances
      BY <1>7, UndisturbedType DEF ImportZone
    <2>5. QED  BY <2>2, <2>3, <2>4 DEF ZoneDone, TypeOK, PlanInv
  <1>8. CASE ImportFails
    <2>1. Disturb /\ ZoneDone(file.zone)
          /\ UNCHANGED <<dns, serial, want, phase, plan, seen, last, skipped>>
      BY <1>8 DEF ImportFails
    <2>2. QED  BY <2>1, DisturbType DEF ZoneDone, TypeOK, PlanInv
  <1>9. ASSUME NEW k \in Key, ForeignEdit(k)
        PROVE  TypeOK' /\ PlanInv'
    <2>1. ZoneOf[k] \in Zone /\ Disturb
          /\ UNCHANGED <<want, phase, plan, seen, todo, file, last, skipped>>
      BY <1>9 DEF ForeignEdit
    <2>2. PICK rr \in Edits, sn \in {serial[ZoneOf[k]], updateSOA(serial[ZoneOf[k]])} \ {None} :
            dns' = [dns EXCEPT ![k] = rr] /\ serial' = [serial EXCEPT ![ZoneOf[k]] = sn]
      BY <1>9 DEF ForeignEdit
    <2>3. dns' \in Partial(RRSet)
      BY <2>2, BulkAssumption DEF TypeOK, Partial
    <2>4. sn \in Serial
      <3>1. serial[ZoneOf[k]] \in Serial
        BY <2>1 DEF TypeOK
      <3>2. QED  BY <2>2, <3>1, UpdatedSOA, DatedFields
    <2>5. serial' \in [Zone -> Serial]
      BY <2>2, <2>4 DEF TypeOK
    <2>6. QED  BY <2>1, <2>3, <2>5, DisturbType DEF TypeOK, PlanInv
  <1>10. CASE ChangeWant
    <2>1. Disturb /\ UNCHANGED <<dns, serial, phase, plan, seen, todo, file, last, skipped>>
          /\ want' \in Partial(Endpoint)
      BY <1>10, BulkAssumption DEF ChangeWant
    <2>2. QED  BY <2>1, DisturbType DEF TypeOK, PlanInv
  <1>11. CASE NextDay
    <2>1. UNCHANGED <<dns, want, phase, plan, seen, todo, last, skipped, quiet, disturbances>>
      BY <1>11 DEF NextDay
    <2>2. serial' \in [Zone -> Serial]
      <3>1. \A z \in Zone : Aged(serial[z]) \in Serial
        BY AgedSerial DEF TypeOK
      <3>2. serial' = [z \in Zone |-> Aged(serial[z])]
        BY <1>11 DEF NextDay
      <3>3. QED  BY <3>1, <3>2
    <2>3. file' \in {None} \cup Zonefile
      <3>1. CASE file = None
        BY <1>11, <3>1 DEF NextDay
      <3>2. CASE file # None
        BY <1>11, <3>2, NextDayFile, OlderFileFields DEF TypeOK
      <3>3. QED  BY <3>1, <3>2
    <2>4. QED  BY <2>1, <2>2, <2>3 DEF TypeOK, PlanInv
  <1>12. CASE UNCHANGED vars
    BY <1>12 DEF vars, TypeOK, PlanInv
  <1>13. QED
    BY <1>1, <1>2, <1>3, <1>4, <1>5, <1>6, <1>7, <1>8, <1>9, <1>10, <1>11, <1>12
    DEF Next, Cycle

\* Every state is of its type: in particular a zone never gets a serial number
\* that is no date and version, and an import stores recordsets with a TTL that
\* is one (ExportZone, ImportZone).
THEOREM TypeCorrect == Spec => []TypeOK
  <1>1. Init => TypeOK /\ PlanInv
    BY InitType
  <1>2. TypeOK /\ PlanInv /\ [Next]_vars => (TypeOK /\ PlanInv)'
    BY TypeStep
  <1>3. QED  BY <1>1, <1>2, PTL DEF Spec

-----------------------------------------------------------------------------
(* Imports raise serial numbers.                                           *)

\* FileIsLater with an export, and without a file.
LEMMA ExportIsLater ==
  ASSUME TypeOK, NEW z \in Zone, ExportZone(z)
  PROVE  FileIsLater'
  <1>1. CASE updateSOA(serial[z]) = None
    BY <1>1 DEF ExportZone, ZoneDone, FileIsLater
  <1>2. CASE updateSOA(serial[z]) # None
    <2> DEFINE sn == updateSOA(serial[z])
    <2>1. PICK entries \in readRecords(Exported(z)) :
            file' = Export(z, sn, runZoneChanges(z, entries))
      BY <1>2 DEF ExportZone
    <2>2. file'.base = serial[z] /\ file'.serial = sn
      BY <2>1 DEF Export
    <2>3. serial[z] \in Dated /\ sn \in Dated /\ sn.age = 0 /\ Later(serial[z], sn)
      BY <1>2, UpdatedSOA DEF TypeOK
    <2>4. phase' = "apply" /\ 0 < 2
      BY DEF ExportZone
    <2>5. QED  BY <2>2, <2>3, <2>4 DEF FileIsLater
  <1>3. QED  BY <1>1, <1>2

LEMMA LaterStep ==
  ASSUME TypeOK, FileIsLater, [Next]_vars
  PROVE  FileIsLater'
  <1>1. CASE PlanCycle
    <2>1. file = None
      BY <1>1 DEF PlanCycle, FileIsLater
    <2>2. QED  BY <1>1, <2>1 DEF PlanCycle, FileIsLater
  <1>2. CASE QueueChanges
    <2>1. file = None /\ file' = None
      BY <1>2 DEF QueueChanges, EndCycle, FileIsLater
    <2>2. QED  BY <2>1 DEF FileIsLater
  <1>3. CASE ReadFails \/ ReturnApplied \/ Crash
    BY <1>3 DEF ReadFails, ReturnApplied, Crash, EndCycle, FileIsLater
  <1>4. ASSUME NEW z \in Zone, ExportZone(z)
        PROVE  FileIsLater'
    BY <1>4, ExportIsLater
  <1>5. ASSUME NEW z \in Zone, ExportFails(z)
        PROVE  FileIsLater'
    BY <1>5 DEF ExportFails, ZoneDone, FileIsLater
  <1>6. CASE ImportZone \/ ImportFails
    BY <1>6 DEF ImportZone, ImportFails, ZoneDone, FileIsLater
  <1>7. ASSUME NEW k \in Key, ForeignEdit(k)
        PROVE  FileIsLater'
    BY <1>7 DEF ForeignEdit, FileIsLater
  <1>8. CASE ChangeWant
    BY <1>8 DEF ChangeWant, FileIsLater
  <1>9. CASE NextDay
    <2>1. CASE file = None
      BY <1>9, <2>1 DEF NextDay, FileIsLater
    <2>2. CASE file # None
      <3>1. file \in Zonefile
        BY <2>2 DEF TypeOK
      <3>2. file'.serial = Aged(file.serial) /\ file'.base = Aged(file.base) /\ phase' = "apply"
        BY <1>9, <2>2, <3>1, NextDayFile, OlderFileFields DEF NextDay, FileIsLater
      <3>3. /\ file.base \in Dated /\ file.serial \in Dated
            /\ Later(file.base, file.serial) /\ file.serial.age = 0
        BY <1>9, <2>2 DEF NextDay, FileIsLater
      <3>4. /\ Aged(file.base) \in Dated /\ Aged(file.serial) \in Dated
            /\ Later(Aged(file.base), Aged(file.serial)) /\ Aged(file.serial).age = 1
        BY <3>3, AgedLater, AgedDated
      <3>5. 1 < 2
        OBVIOUS
      <3>6. QED  BY <3>2, <3>4, <3>5 DEF FileIsLater
    <2>3. QED  BY <2>1, <2>2
  <1>10. CASE UNCHANGED vars
    BY <1>10 DEF vars, FileIsLater
  <1>11. QED
    BY <1>1, <1>2, <1>3, <1>4, <1>5, <1>6, <1>7, <1>8, <1>9, <1>10 DEF Next, Cycle

\* An import raises the serial number of its zone, although midnight may pass
\* after the export: Inc goes from one version to the next or to a new day, and
\* gives up after the last version (ExportZone, ImportZone, NextDay).
THEOREM ImportsRaiseSerials == Spec => ImportRaisesSerial
  <1> DEFINE Raises(z) == file # None /\ file.zone = z /\ ImportZone /\ serial[z] = file.base
                            => Later(serial[z], serial'[z])
  <1>1. Init => TypeOK /\ PlanInv /\ FileIsLater
    BY InitType DEF Init, FileIsLater
  <1>2. TypeOK /\ PlanInv /\ FileIsLater /\ [Next]_vars => (TypeOK /\ PlanInv /\ FileIsLater)'
    BY TypeStep, LaterStep
  <1>3. TypeOK /\ FileIsLater => \A z \in Zone : Raises(z)
    <2>1. SUFFICES ASSUME TypeOK, FileIsLater, NEW z \in Zone,
                          file # None, file.zone = z, ImportZone, serial[z] = file.base
                   PROVE  Later(serial[z], serial'[z])
      OBVIOUS
    <2>2. serial'[z] = file.serial
      BY <2>1 DEF ImportZone, TypeOK
    <2>3. QED  BY <2>1, <2>2 DEF FileIsLater
  <1>4. TypeOK /\ FileIsLater /\ [Next]_vars => [\A z \in Zone : Raises(z)]_vars
    BY <1>3
  <1>5. QED  BY <1>1, <1>2, <1>4, PTL DEF Spec, ImportRaisesSerial

-----------------------------------------------------------------------------
(* Imports keep the rest.                                                  *)

\* Steps that keep the file, or drop it, keep what is said of its entries.
LEMMA KeepsIfSame ==
  ASSUME FileKeepsTheRest, plan' = plan, seen' = seen, file' \in {file, None}
  PROVE  FileKeepsTheRest'
  BY DEF FileKeepsTheRest, Queued, processDeleteActions, processCreateActions,
         processUpdateActions, Present, endpointsByZoneID

LEMMA KeepsStep ==
  ASSUME Readable, TypeOK, FileIsLater, FileKeepsTheRest, [Next]_vars
  PROVE  FileKeepsTheRest'
  <1>1. CASE PlanCycle \/ QueueChanges
    <2>1. file = None /\ file' = None
      BY <1>1 DEF PlanCycle, QueueChanges, EndCycle, FileIsLater
    <2>2. QED  BY <2>1 DEF FileKeepsTheRest
  <1>2. CASE ReadFails \/ ReturnApplied \/ Crash
    BY <1>2 DEF ReadFails, ReturnApplied, Crash, EndCycle, FileKeepsTheRest
  <1>3. ASSUME NEW z \in Zone, ExportZone(z)
        PROVE  FileKeepsTheRest'
    <2>1. CASE updateSOA(serial[z]) = None
      BY <1>3, <2>1 DEF ExportZone, ZoneDone, FileKeepsTheRest
    <2>2. CASE updateSOA(serial[z]) # None
      <3>1. PICK entries \in readRecords(Exported(z)) :
              file' = Export(z, updateSOA(serial[z]), runZoneChanges(z, entries))
        BY <1>3, <2>2 DEF ExportZone
      <3>2. entries = Exported(z)
        BY <3>1, ExportedType, ReadAll DEF TypeOK
      <3>3. /\ file'.zone = z /\ file'.old = Exported(z)
            /\ file'.entries = runZoneChanges(z, Exported(z))
        BY <3>1, <3>2 DEF Export
      <3>4. UNCHANGED <<plan, seen>>
        BY <1>3 DEF ExportZone
      <3>5. \A k \in Key : ZoneOf[k] = z /\ k \notin Queued(plan, seen) =>
              runZoneChanges(z, Exported(z))[k] = Exported(z)[k]
        BY RunZone, EditedKeeps
      <3>6. Queued(plan, seen)' = Queued(plan, seen)
        BY <3>4 DEF Queued, processDeleteActions, processCreateActions,
                    processUpdateActions, Present, endpointsByZoneID
      <3>7. QED  BY <3>3, <3>5, <3>6 DEF FileKeepsTheRest
    <2>3. QED  BY <2>1, <2>2
  <1>4. ASSUME NEW z \in Zone, ExportFails(z)
        PROVE  FileKeepsTheRest'
    BY <1>4 DEF ExportFails, ZoneDone, FileKeepsTheRest
  <1>5. CASE ImportZone \/ ImportFails
    BY <1>5 DEF ImportZone, ImportFails, ZoneDone, FileKeepsTheRest
  <1>6. ASSUME NEW k \in Key, ForeignEdit(k)
        PROVE  FileKeepsTheRest'
    BY <1>6, KeepsIfSame DEF ForeignEdit
  <1>7. CASE ChangeWant
    BY <1>7, KeepsIfSame DEF ChangeWant
  <1>8. CASE NextDay
    <2>1. CASE file = None
      BY <1>8, <2>1 DEF NextDay, FileKeepsTheRest
    <2>2. CASE file # None
      <3>1. /\ file'.zone = file.zone
            /\ file'.entries = file.entries /\ file'.old = file.old
        BY <1>8, <2>2, NextDayFile, OlderFileFields DEF TypeOK
      <3>2. UNCHANGED <<plan, seen>>
        BY <1>8 DEF NextDay
      <3>3. Queued(plan, seen)' = Queued(plan, seen)
        BY <3>2 DEF Queued, processDeleteActions, processCreateActions,
                    processUpdateActions, Present, endpointsByZoneID
      <3>4. QED  BY <2>2, <3>1, <3>3 DEF FileKeepsTheRest
    <2>3. QED  BY <2>1, <2>2
  <1>9. CASE UNCHANGED vars
    BY <1>9, KeepsIfSame DEF vars
  <1>10. QED
    BY <1>1, <1>2, <1>3, <1>4, <1>5, <1>6, <1>7, <1>8, <1>9 DEF Next, Cycle

\* What an import stores is what the next export shows.
LEMMA ImportedShown ==
  ASSUME TypeOK, ImportZone, NEW z \in Zone, file.zone = z, NEW k \in Key, ZoneOf[k] = z
  PROVE  /\ file.entries[k] = None => dns'[k] = None
         /\ file.entries[k] # None =>
              /\ dns'[k] \in RRSet
              /\ dns'[k].recs = file.entries[k].recs
              /\ EffectiveTTL(k, dns'[k]) = file.entries[k].ttl
         /\ Exported(z)'[k] = file.entries[k]
  <1>1. file \in Zonefile
    BY DEF ImportZone, TypeOK
  <1>2. file.entries[k] \in Entry \cup {None}
    BY <1>1, ZonefileFields DEF Partial
  <1>3. dns'[k] = Imported(k, file.entries[k])
    BY DEF ImportZone
  <1>4. CASE file.entries[k] = None
    <2>1. dns'[k] = None
      BY <1>3, <1>4 DEF Imported
    <2>2. Exported(z)'[k] = None
      BY <2>1 DEF Exported
    <2>3. QED  BY <1>4, <2>1, <2>2
  <1>5. CASE file.entries[k] # None
    <2>1. file.entries[k] \in Entry
      BY <1>2, <1>5
    <2>2. Imported(k, file.entries[k]) \in RRSet
      <3>1. Imported(k, file.entries[k]) # None
        <4>1. (IF dns[k] # None THEN dns[k].labels ELSE NoLabels) \in Labels
          BY DataAssumption, RRSetFields DEF TypeOK, Partial
        <4>2. QED  BY <1>5, <2>1, <4>1, EntryFields, NilIsNoRecord DEF Imported, RRSet
      <3>2. QED  BY <1>2, <3>1, ImportedType
    <2>3. dns'[k] \in RRSet /\ dns'[k] # None
      BY <1>3, <2>2, RRSetFields
    <2>4. dns'[k].recs = file.entries[k].recs /\ dns'[k].ttl = file.entries[k].ttl
      BY <1>3, <1>5 DEF Imported
    <2>5. EffectiveTTL(k, dns'[k]) = file.entries[k].ttl
      BY <2>1, <2>4, EntryFields DEF EffectiveTTL
    <2>6. Exported(z)'[k] =
            [recs |-> dns'[k].recs, ttl |-> EffectiveTTL(k, dns'[k])]
      BY <2>3 DEF Exported, EffectiveTTL
    <2>7. Exported(z)'[k] = file.entries[k]
      BY <2>1, <2>4, <2>5, <2>6, EntryFields
    <2>8. QED  BY <1>5, <2>3, <2>4, <2>5, <2>7
  <1>6. QED  BY <1>4, <1>5

\* What an import destroys is bounded: a recordset that is in no queue keeps its
\* values and its TTL, whatever was read before, and whatever else is in the
\* file (runZoneChanges, ImportZone).  Where the parser of zonefiles stops at a
\* recordset, this does not hold.
THEOREM ImportsKeepTheRest ==
  ASSUME Readable
  PROVE  Spec => ImportKeepsTheRest
  <1> DEFINE Inv == TypeOK /\ PlanInv /\ FileIsLater /\ FileKeepsTheRest
             Keeps(z) == file # None /\ file.zone = z /\ ImportZone =>
                           \A k \in Key : Exported(z)'[k] # Exported(z)[k] =>
                             k \in Queued(plan, seen) \/ Exported(z)[k] # file.old[k]
  <1>1. Init => Inv
    BY InitType DEF Init, FileIsLater, FileKeepsTheRest
  <1>2. Inv /\ [Next]_vars => Inv'
    BY TypeStep, LaterStep, KeepsStep
  <1>3. Inv => \A z \in Zone : Keeps(z)
    <2>1. SUFFICES ASSUME Inv, NEW z \in Zone, file # None, file.zone = z, ImportZone,
                          NEW k \in Key, Exported(z)'[k] # Exported(z)[k],
                          k \notin Queued(plan, seen)
                   PROVE  Exported(z)[k] # file.old[k]
      OBVIOUS
    <2>2. ZoneOf[k] = z
      BY <2>1 DEF Exported
    <2>3. Exported(z)'[k] = file.entries[k]
      BY <2>1, <2>2, ImportedShown
    <2>4. file.entries[k] = file.old[k]
      BY <2>1, <2>2 DEF FileKeepsTheRest
    <2>5. QED  BY <2>1, <2>3, <2>4
  <1>4. Inv /\ [Next]_vars => [\A z \in Zone : Keeps(z)]_vars
    BY <1>3
  <1>5. QED  BY <1>1, <1>2, <1>4, PTL DEF Spec, ImportKeepsTheRest

-----------------------------------------------------------------------------
(* Imports of zones that the filter keeps out.                             *)

\* Nothing has been read of such a zone: all that is queued for it are creations,
\* and a creation does not touch a recordset that the file has.
FilteredUnread == \A k \in Key : ZoneOf[k] \notin Managed => seen[k] = None

FilteredKept ==
  file # None /\ file.zone \notin Managed =>
    \A k \in Key : file.old[k] # None =>
      ZoneOf[k] = file.zone /\ file.entries[k] = file.old[k]

\* Where nothing was read, a recordset that is there stays.
LEMMA UnreadStays ==
  ASSUME NEW z, NEW k \in Key, NEW e, e # None, seen[k] = None
  PROVE  Edited(z, k, e) = e
  <1>1. processUpdateActions(plan, seen)[k] = None /\ k \notin processDeleteActions(plan, seen)
    BY DEF processUpdateActions, processDeleteActions
  <1>2. QED  BY <1>1 DEF Edited, createRecord, AddRecord, updateRecord, deleteRecord

LEMMA UnreadStep ==
  ASSUME FilteredUnread, [Next]_vars
  PROVE  FilteredUnread'
  <1>1. CASE QueueChanges
    <2>1. \A k \in Key : ZoneOf[k] \notin Managed => Listed[k] = None /\ Nothing[k] = None
      BY DEF Listed, Nothing
    <2>2. seen' \in {Listed, Nothing}
      BY <1>1 DEF QueueChanges, EndCycle
    <2>3. QED  BY <2>1, <2>2 DEF FilteredUnread
  <1>2. CASE ReadFails \/ ReturnApplied \/ Crash
    BY <1>2 DEF ReadFails, ReturnApplied, Crash, EndCycle, FilteredUnread, Nothing
  <1>3. CASE UNCHANGED seen
    BY <1>3 DEF FilteredUnread
  <1>4. QED
    BY <1>1, <1>2, <1>3
    DEF Next, Cycle, PlanCycle, ExportZone, ExportFails, ImportZone, ImportFails,
        ForeignEdit, ChangeWant, NextDay, vars

LEMMA FilteredStep ==
  ASSUME Readable, TypeOK, FilteredUnread, FilteredKept, [Next]_vars
  PROVE  FilteredKept'
  <1>1. ASSUME NEW z \in Zone, ExportZone(z)
        PROVE  FilteredKept'
    <2>1. CASE updateSOA(serial[z]) = None
      BY <1>1, <2>1 DEF ExportZone, ZoneDone, FilteredKept
    <2>2. CASE updateSOA(serial[z]) # None
      <3>1. PICK entries \in readRecords(Exported(z)) :
              file' = Export(z, updateSOA(serial[z]), runZoneChanges(z, entries))
        BY <1>1, <2>2 DEF ExportZone
      <3>2. entries = Exported(z)
        BY <3>1, ExportedType, ReadAll DEF TypeOK
      <3>3. /\ file'.zone = z /\ file'.old = Exported(z)
            /\ file'.entries = runZoneChanges(z, Exported(z))
        BY <3>1, <3>2 DEF Export
      <3>4. SUFFICES ASSUME z \notin Managed, NEW k \in Key, Exported(z)[k] # None
                     PROVE  ZoneOf[k] = z /\ runZoneChanges(z, Exported(z))[k] = Exported(z)[k]
        BY <3>3 DEF FilteredKept
      <3>5. ZoneOf[k] = z /\ seen[k] = None
        BY <3>4 DEF Exported, FilteredUnread
      <3>6. QED  BY <3>4, <3>5, RunZone, UnreadStays
    <2>3. QED  BY <2>1, <2>2
  <1>2. CASE NextDay
    <2>1. CASE file = None
      BY <1>2, <2>1 DEF NextDay, FilteredKept
    <2>2. CASE file # None
      BY <1>2, <2>2, NextDayFile, OlderFileFields DEF FilteredKept, TypeOK
    <2>3. QED  BY <2>1, <2>2
  <1>3. CASE file' \in {file, None}
    BY <1>3 DEF FilteredKept
  <1>4. QED
    BY <1>1, <1>2, <1>3
    DEF Next, Cycle, PlanCycle, QueueChanges, ReadFails, ReturnApplied, Crash, EndCycle,
        ExportFails, ImportZone, ImportFails, ZoneDone, ForeignEdit, ChangeWant, vars

\* A zone that the filter keeps out only grows: what its export shows comes out of
\* the import as it was, also under the name of a creation that falls into the zone
\* (provider.go:308 with all zones, getZoneChanges, AddRecord).
THEOREM FilteredZonesKeep ==
  ASSUME Readable
  PROVE  Spec => FilteredZonesOnlyGrow
  <1> DEFINE Inv == TypeOK /\ PlanInv /\ FilteredUnread /\ FilteredKept
             Grows(z) == file # None /\ file.zone = z /\ ImportZone =>
                           \A k \in Key : file.old[k] # None => Exported(z)'[k] = file.old[k]
  <1>1. Init => Inv
    BY InitType DEF Init, FilteredUnread, FilteredKept, Nothing
  <1>2. Inv /\ [Next]_vars => Inv'
    BY TypeStep, UnreadStep, FilteredStep
  <1>3. Inv => \A z \in Zone \ Managed : Grows(z)
    BY ImportedShown DEF FilteredKept
  <1>4. Inv /\ [Next]_vars => [\A z \in Zone \ Managed : Grows(z)]_vars
    BY <1>3
  <1>5. QED  BY <1>1, <1>2, <1>4, PTL DEF Spec, FilteredZonesOnlyGrow

-----------------------------------------------------------------------------
(* Cycles make the zones as wanted.                                        *)

\* No change is planned for a recordset that is as wanted; one that no change
\* is planned for is as wanted.
LEMMA UnplannedAsWanted ==
  ASSUME TypeOK, NEW k \in Owned, ZoneOf[k] \in Managed,
         k \notin PlanFor(want, Listed).create \cup PlanFor(want, Listed).update
                    \cup PlanFor(want, Listed).delete
  PROVE  AsWanted(k)
  <1>1. k \in Key
    BY DataAssumption
  <1>2. Listed[k] = dns[k]
    BY <1>1 DEF Listed
  <1>3. /\ ~(want[k] # None /\ dns[k] = None)
        /\ ~(want[k] # None /\ dns[k] # None /\ Differs(k, want[k], dns[k]))
        /\ ~(want[k] = None /\ dns[k] # None)
    BY <1>2 DEF PlanFor
  <1>4. QED
    BY <1>3 DEF AsWanted, Differs, createEndpointFromRecord

\* In a managed zone, a planned change is queued, unless an update needs no option.
LEMMA UnqueuedAsWanted ==
  ASSUME TypeOK, PlanInv, plan = PlanFor(want, Listed),
         NEW k \in Owned, ZoneOf[k] \in Managed, k \notin Queued(plan, Listed)
  PROVE  AsWanted(k)
  <1>1. k \in Key /\ ZoneOf[k] \in Zone
    BY DataAssumption
  <1>2. Listed[k] = dns[k]
    BY <1>1 DEF Listed
  <1>3. /\ processCreateActions(plan, Listed)[k] = None
        /\ processUpdateActions(plan, Listed)[k] = None
        /\ k \notin processDeleteActions(plan, Listed)
    BY <1>1 DEF Queued, Present
  <1>4. want[k] # None => want[k] \in Endpoint
    BY <1>1 DEF TypeOK, Partial
  <1>5. k \notin plan.create
    <2>1. SUFFICES ASSUME k \in plan.create
                   PROVE  FALSE
      OBVIOUS
    <2>2. Listed[k] = None /\ want[k] # None /\ plan.target[k] = want[k]
      BY <2>1 DEF PlanFor
    <2>3. processCreateActions(plan, Listed)[k] = CreateOpts(k, want[k])
      BY <1>1, <2>1, <2>2 DEF processCreateActions, endpointsByZoneID
    <2>4. CreateOpts(k, want[k]) \in RRSet
      BY <1>1, <1>4, <2>2, CreateOptsType
    <2>5. QED  BY <1>3, <2>3, <2>4, RRSetFields
  <1>6. k \notin plan.update
    <2>1. SUFFICES ASSUME k \in plan.update
                   PROVE  FALSE
      OBVIOUS
    <2>2. Listed[k] # None /\ want[k] # None /\ plan.target[k] = want[k]
      BY <2>1 DEF PlanFor
    <2>3. processUpdateActions(plan, Listed)[k] = processUpdateEndpoint(Listed[k], want[k])
      BY <1>1, <2>1, <2>2 DEF processUpdateActions, endpointsByZoneID
    <2>4. processUpdateEndpoint(Listed[k], want[k]) \in UpdateOpts
      BY <1>1, <1>4, <2>2, ListedType, UpdateOptsType DEF Partial
    <2>5. QED  BY <1>3, <2>3, <2>4, NilIsNoRecord
  <1>7. k \notin plan.delete
    <2>1. SUFFICES ASSUME k \in plan.delete
                   PROVE  FALSE
      OBVIOUS
    <2>2. Listed[k] # None
      BY <2>1 DEF PlanFor
    <2>3. QED  BY <1>1, <1>3, <2>1, <2>2 DEF processDeleteActions, endpointsByZoneID
  <1>8. QED  BY <1>5, <1>6, <1>7, UnplannedAsWanted

\* Editing the export of a zone that is as it was read makes what the plan was for.
LEMMA EditMeetsWish ==
  ASSUME TypeOK, PlanInv, plan = PlanFor(want, seen), NEW z \in Zone, NEW k \in Owned,
         ZoneOf[k] = z, dns[k] = seen[k], Possible(k)
  PROVE  EntryAsWanted(k, Edited(z, k, Exported(z)[k]))
  <1> DEFINE w == want[k]
             c == processCreateActions(plan, seen)[k]
             u == processUpdateActions(plan, seen)[k]
             d == k \in processDeleteActions(plan, seen)
             e == Exported(z)[k]
  <1>1. k \in Key /\ plan.target[k] = w
    BY DataAssumption DEF PlanFor
  <1>2. w # None => w \in Endpoint /\ w.recs \in Recs \ Unparsable
    BY <1>1 DEF TypeOK, Partial, Endpoint, Possible
  <1>3. seen[k] # None => seen[k] \in RRSet
    BY <1>1 DEF TypeOK, Partial
  <1>4. c = IF w # None /\ seen[k] = None THEN CreateOpts(k, w) ELSE None
    BY <1>1 DEF processCreateActions, endpointsByZoneID, PlanFor
  <1>5. u = IF w # None /\ seen[k] # None /\ Differs(k, w, seen[k])
            THEN processUpdateEndpoint(seen[k], w) ELSE None
    BY <1>1 DEF processUpdateActions, endpointsByZoneID, PlanFor
  <1>6. d <=> w = None /\ seen[k] # None
    BY <1>1 DEF processDeleteActions, endpointsByZoneID, PlanFor
  <1>7. seen[k] = None => e = None
    BY <1>1 DEF Exported
  <1>8. seen[k] # None => /\ e = [recs |-> seen[k].recs, ttl |-> EffectiveTTL(k, seen[k])]
                          /\ e \in Entry
    BY <1>1, <1>3, ExportedEntry
  <1>9. Edited(z, k, e) = deleteRecord(updateRecord(createRecord(e, c), u, seen[k], ReadTTL(z, k)), d)
    BY DEF Edited
  <1> HIDE DEF w, c, u, d, e
  <1>10. CASE w = None
    <2>1. CASE seen[k] = None
      <3>1. c = None /\ u = None /\ ~d /\ e = None
        BY <1>4, <1>5, <1>6, <1>7, <1>10, <2>1
      <3>2. Edited(z, k, e) = None
        BY <1>9, <3>1 DEF createRecord, updateRecord, deleteRecord
      <3>3. QED  BY <1>10, <3>2 DEF EntryAsWanted, w, e
    <2>2. CASE seen[k] # None
      <3>1. d
        BY <1>6, <1>10, <2>2
      <3>2. Edited(z, k, e) = None
        BY <1>9, <3>1 DEF deleteRecord, DeleteRecord
      <3>3. QED  BY <1>10, <3>2 DEF EntryAsWanted, w, e
    <2>3. QED  BY <2>1, <2>2
  <1>11. CASE w # None /\ seen[k] = None
    <2>1. c = CreateOpts(k, w) /\ u = None /\ ~d /\ e = None
      BY <1>4, <1>5, <1>6, <1>7, <1>11
    <2>2. CreateOpts(k, w) \in RRSet /\ CreateOpts(k, w) # None
      BY <1>1, <1>2, <1>11, CreateOptsType, RRSetFields
    <2>3. /\ CreateOpts(k, w).recs = w.recs
          /\ CreateOpts(k, w).ttl \in TTL
          /\ w.ttl \in {None, CreateOpts(k, w).ttl}
      BY <1>1, <1>2, <1>11, DataAssumption DEF CreateOpts, Endpoint
    <2>4. createRecord(e, c) = [recs |-> w.recs, ttl |-> CreateOpts(k, w).ttl]
      BY <1>2, <1>11, <2>1, <2>2, <2>3, SetRecordsSets DEF createRecord, AddRecord
    <2>5. Edited(z, k, e) = [recs |-> w.recs, ttl |-> CreateOpts(k, w).ttl]
      BY <1>9, <2>1, <2>4 DEF updateRecord, deleteRecord
    <2>6. [recs |-> w.recs, ttl |-> CreateOpts(k, w).ttl] # None
      BY <1>2, <1>11, <2>3, BulkAssumption DEF Entry
    <2>7. QED  BY <1>11, <2>3, <2>5, <2>6 DEF EntryAsWanted, w, e
  <1>12. CASE w # None /\ seen[k] # None
    <2>1. c = None /\ ~d /\ e # None /\ createRecord(e, c) = e
      BY <1>4, <1>6, <1>8, <1>12, EntryFields DEF createRecord
    <2>2. EffectiveTTL(k, seen[k]) \in TTL
      BY <1>1, <1>3, <1>12, EffectiveType
    <2>3. CASE ~Differs(k, w, seen[k])
      <3>1. u = None
        BY <1>5, <2>3
      <3>2. Edited(z, k, e) = e
        BY <1>9, <2>1, <3>1 DEF updateRecord, deleteRecord
      <3>3. w.recs = seen[k].recs /\ w.ttl \in {None, EffectiveTTL(k, seen[k])}
        BY <2>3 DEF Differs, createEndpointFromRecord
      <3>4. QED  BY <1>8, <1>12, <2>1, <3>2, <3>3 DEF EntryAsWanted, w, e
    <2>4. CASE Differs(k, w, seen[k])
      <3> DEFINE recs == IF u.recs # None THEN u.recs ELSE seen[k].recs
                 ttl  == IF u.ttl # None THEN u.ttl ELSE ReadTTL(z, k)
      <3>1. u = processUpdateEndpoint(seen[k], w)
        BY <1>5, <1>12, <2>4
      <3>2. u \in UpdateOpts /\ u # None
        BY <1>2, <1>3, <1>12, <3>1, UpdateOptsType, NilIsNoRecord
      <3>3. recs = w.recs
        <4>1. u.recs = IF w.recs # seen[k].recs THEN w.recs ELSE None
          BY <3>1 DEF processUpdateEndpoint, recordsOpts
        <4>2. w.recs # None
          BY <1>2, <1>12, DataAssumption
        <4>3. QED  BY <4>1, <4>2
      <3>4. ttl \in TTL /\ w.ttl \in {None, ttl}
        <4>1. u.ttl = IF w.ttl # None /\ seen[k].ttl # w.ttl THEN w.ttl ELSE None
          BY <3>1 DEF processUpdateEndpoint, ttlOpts
        <4>2. ReadTTL(z, k) = EffectiveTTL(k, seen[k])
          BY <1>12 DEF ReadTTL
        <4>3. w.ttl \in TTL \cup {None}
          BY <1>2, <1>12 DEF Endpoint
        <4>4. CASE w.ttl # None /\ seen[k].ttl # w.ttl
          BY <4>1, <4>3, <4>4
        <4>5. CASE ~(w.ttl # None /\ seen[k].ttl # w.ttl)
          <5>1. ttl = EffectiveTTL(k, seen[k])
            BY <4>1, <4>2, <4>5
          <5>2. w.ttl # None => EffectiveTTL(k, seen[k]) = w.ttl
            BY <4>5 DEF EffectiveTTL
          <5>3. QED  BY <2>2, <5>1, <5>2
        <4>6. QED  BY <4>4, <4>5
      <3>5. updateRecord(e, u, seen[k], ReadTTL(z, k)) = SetRecords(e, recs, ttl)
        BY <2>1, <3>2 DEF updateRecord, UpdateRecord
      <3> HIDE DEF recs, ttl
      <3>6. SetRecords(e, recs, ttl) = [recs |-> recs, ttl |-> ttl]
        BY <1>2, <1>12, <3>3, <3>4, SetRecordsSets
      <3>7. Edited(z, k, e) = [recs |-> recs, ttl |-> ttl]
        BY <1>9, <2>1, <3>5, <3>6 DEF deleteRecord
      <3>8. [recs |-> recs, ttl |-> ttl] # None
        BY <1>2, <1>12, <3>3, <3>4, BulkAssumption DEF Entry
      <3>9. QED  BY <1>12, <3>3, <3>4, <3>7, <3>8 DEF EntryAsWanted, w, e
    <2>5. QED  BY <2>3, <2>4
  <1>13. QED  BY <1>10, <1>11, <1>12 DEF w, e

\* Of a cycle that is over, or disturbed, CycleInv says little.
LEMMA CycleOver ==
  ASSUME phase' = "idle", PlanInv'
  PROVE  CycleInv'
  BY DEF CycleInv, PlanInv

LEMMA CycleDisturbed ==
  ASSUME CycleInv, quiet' = FALSE, PlanInv',
         UNCHANGED <<phase, last>> \/ phase' = "idle"
  PROVE  CycleInv' /\ BulkCycleSyncs'
  BY DEF CycleInv, PlanInv, BulkCycleSyncs

LEMMA AsWantedStays ==
  ASSUME NEW k, want' = want, dns'[k] = dns[k], AsWanted(k)
  PROVE  AsWanted(k)'
  BY DEF AsWanted, EffectiveTTL

\* A step that keeps the recordsets, the wish and the cycle, and of the file its
\* zone and its entries, keeps what CycleInv says of them.
LEMMA CycleStays ==
  ASSUME TypeOK, CycleInv, BulkCycleSyncs,
         UNCHANGED <<dns, want, phase, plan, seen, todo, last, skipped, quiet>>,
         \/ file' = None
         \/ file # None /\ file'.zone = file.zone /\ file'.entries = file.entries
  PROVE  CycleInv' /\ BulkCycleSyncs'
  <1>1. \A k \in Owned : Possible(k)' => Possible(k)
    BY DEF Possible
  <1>2. \A k \in Owned : AsWanted(k) => AsWanted(k)'
    BY AsWantedStays
  <1>3. BulkCycleSyncs'
    BY <1>1, <1>2 DEF BulkCycleSyncs
  <1>4. /\ (phase # "idle" => last = "none")'
        /\ (\A k \in plan.create \cup plan.update : plan.target[k] # None)'
    BY DEF CycleInv
  <1>5. (quiet /\ phase = "planned" => plan = PlanFor(want, Listed))'
    <2>1. PlanFor(want, Listed)' = PlanFor(want, Listed)
      BY DEF PlanFor, Listed, Differs, createEndpointFromRecord, EffectiveTTL
    <2>2. QED  BY <2>1 DEF CycleInv
  <1>6. ASSUME quiet, phase = "apply"
        PROVE  /\ (plan = PlanFor(want, seen))'
               /\ (\A k \in Key : ZoneOf[k] \in todo \cap Managed => dns[k] = seen[k])'
               /\ (\A k \in Owned : ZoneOf[k] \in Managed \ (todo \cup skipped) /\ Possible(k)
                                      => AsWanted(k))'
               /\ (file # None /\ file.zone \in Managed =>
                     \A k \in Owned : ZoneOf[k] = file.zone /\ Possible(k) =>
                                    EntryAsWanted(k, file.entries[k]))'
    <2>1. PlanFor(want, seen)' = PlanFor(want, seen)
      BY DEF PlanFor, Differs, createEndpointFromRecord, EffectiveTTL
    <2>2. (plan = PlanFor(want, seen))'
      BY <1>6, <2>1 DEF CycleInv
    <2>3. (\A k \in Key : ZoneOf[k] \in todo \cap Managed => dns[k] = seen[k])'
      BY <1>6 DEF CycleInv
    <2>4. (\A k \in Owned : ZoneOf[k] \in Managed \ (todo \cup skipped) /\ Possible(k)
                              => AsWanted(k))'
      BY <1>1, <1>2, <1>6 DEF CycleInv
    <2>5. (file # None /\ file.zone \in Managed =>
             \A k \in Owned : ZoneOf[k] = file.zone /\ Possible(k) =>
                            EntryAsWanted(k, file.entries[k]))'
      <3>1. CASE file' = None
        BY <3>1
      <3>2. CASE file # None /\ file'.zone = file.zone /\ file'.entries = file.entries
        <4>1. file.zone \in Managed =>
                \A k \in Owned : ZoneOf[k] = file.zone /\ Possible(k) =>
                                 EntryAsWanted(k, file.entries[k])
          BY <1>6, <3>2 DEF CycleInv
        <4>2. QED  BY <1>1, <3>2, <4>1 DEF EntryAsWanted
      <3>3. QED  BY <3>1, <3>2
    <2>6. QED  BY <2>2, <2>3, <2>4, <2>5
  <1>7. CycleInv'
    BY <1>4, <1>5, <1>6 DEF CycleInv
  <1>8. QED  BY <1>3, <1>7

LEMMA CycleStep ==
  ASSUME Readable, TypeOK, PlanInv, FileIsLater, CycleInv, BulkCycleSyncs, [Next]_vars
  PROVE  CycleInv' /\ BulkCycleSyncs'
  <1>0. TypeOK' /\ PlanInv'
    BY TypeStep
  <1>1. CASE PlanCycle
    <2>1. phase' = "planned" /\ last' = "none" /\ UNCHANGED <<dns, want>>
          /\ plan' = PlanFor(want, Listed)
      BY <1>1 DEF PlanCycle
    <2>2. plan' = PlanFor(want, Listed)'
      BY <2>1 DEF Listed, PlanFor, Differs, createEndpointFromRecord, EffectiveTTL
    <2>3. QED  BY <1>0, <2>1, <2>2 DEF CycleInv, PlanInv, BulkCycleSyncs
  <1>2. CASE QueueChanges
    <2>1. phase = "planned" /\ quiet' = quiet /\ UNCHANGED <<dns, want, skipped>>
      BY <1>2 DEF QueueChanges, Undisturbed
    <2>2. CASE HasChanges(plan)
      <3>1. /\ phase' = "apply" /\ seen' = Listed /\ todo' = getZoneChanges(plan, Listed)
            /\ plan' = plan /\ file' = file /\ last' = last
        BY <1>2, <2>2 DEF QueueChanges
      <3>2. last' = "none" /\ file' = None
        BY <2>1, <3>1 DEF CycleInv, FileIsLater
      <3>3. SUFFICES ASSUME quiet
                     PROVE  CycleInv'
        BY <1>0, <2>1, <3>1, <3>2 DEF CycleInv, PlanInv, BulkCycleSyncs
      <3>4. plan = PlanFor(want, Listed)
        BY <2>1, <3>3 DEF CycleInv
      <3>5. (plan = PlanFor(want, seen))'
        BY <2>1, <3>1, <3>4
           DEF PlanFor, Differs, createEndpointFromRecord, EffectiveTTL
      <3>6. \A k \in Key : ZoneOf[k] \in todo' \cap Managed => dns'[k] = seen'[k]
        BY <2>1, <3>1 DEF getZoneChanges, Listed
      <3>7. \A k \in Owned : ZoneOf[k] \in Managed \ (todo' \cup skipped') => AsWanted(k)'
        <4>1. SUFFICES ASSUME NEW k \in Owned, ZoneOf[k] \in Managed \ (todo' \cup skipped')
                       PROVE  AsWanted(k)'
          OBVIOUS
        <4>2. k \notin Queued(plan, Listed)
          BY <3>1, <4>1 DEF getZoneChanges
        <4>3. AsWanted(k)
          BY <3>4, <4>1, <4>2, UnqueuedAsWanted
        <4>4. QED  BY <2>1, <4>3, AsWantedStays
      <3>8. QED  BY <1>0, <3>1, <3>2, <3>5, <3>6, <3>7 DEF CycleInv, PlanInv
    <2>3. CASE ~HasChanges(plan)
      <3>1. EndCycle("done")
        BY <1>2, <2>3 DEF QueueChanges
      <3>2. CycleInv'
        BY <1>0, <3>1, CycleOver DEF EndCycle
      <3>3. BulkCycleSyncs'
        <4>1. SUFFICES ASSUME quiet, NEW k \in Owned, ZoneOf[k] \in Managed \ skipped'
                       PROVE  AsWanted(k)'
          BY <2>1 DEF BulkCycleSyncs
        <4>2. plan = PlanFor(want, Listed)
          BY <2>1, <4>1 DEF CycleInv
        <4>3. AsWanted(k)
          BY <2>3, <4>1, <4>2, UnplannedAsWanted DEF HasChanges
        <4>4. QED  BY <2>1, <4>3, AsWantedStays
      <3>4. QED  BY <3>2, <3>3
    <2>4. QED  BY <2>2, <2>3
  <1>3. CASE ReadFails \/ Crash
    BY <1>0, <1>3, CycleDisturbed DEF ReadFails, Crash, Disturb, EndCycle
  <1>4. ASSUME NEW z \in Zone, ExportZone(z)
        PROVE  CycleInv' /\ BulkCycleSyncs'
    <2>1. /\ phase = "apply" /\ file = None /\ z \in todo
          /\ UNCHANGED <<dns, serial, want, phase, plan, seen, last>> /\ quiet' = quiet
      BY <1>4 DEF ExportZone, Undisturbed
    <2>2. last' = "none"
      BY <2>1 DEF CycleInv
    <2>3. SUFFICES ASSUME quiet
                   PROVE  CycleInv'
      BY <1>0, <2>1, <2>2 DEF CycleInv, PlanInv, BulkCycleSyncs
    <2>4. plan = PlanFor(want, seen) /\ (plan = PlanFor(want, seen))'
      BY <2>1, <2>3 DEF CycleInv, PlanFor, Differs, createEndpointFromRecord, EffectiveTTL
    <2>5. /\ \A k \in Key : ZoneOf[k] \in todo \cap Managed => dns[k] = seen[k]
          /\ \A k \in Owned : ZoneOf[k] \in Managed \ (todo \cup skipped) /\ Possible(k) => AsWanted(k)
      BY <2>1, <2>3 DEF CycleInv
    <2>6. \A k : (Possible(k)' <=> Possible(k)) /\ (AsWanted(k) => AsWanted(k)')
      BY <2>1 DEF Possible, AsWanted, EffectiveTTL
    <2>7. CASE updateSOA(serial[z]) = None
      <3>1. todo' = todo \ {z} /\ skipped' = skipped \cup {z} /\ file' = None
        BY <1>4, <2>7 DEF ExportZone, ZoneDone
      <3>2. \A k \in Key : ZoneOf[k] \in todo' \cap Managed => dns'[k] = seen'[k]
        BY <2>1, <2>5, <3>1
      <3>3. \A k \in Owned : ZoneOf[k] \in Managed \ (todo' \cup skipped') /\ Possible(k)'
                               => AsWanted(k)'
        BY <2>5, <2>6, <3>1
      <3>4. QED  BY <1>0, <2>1, <2>2, <2>4, <3>1, <3>2, <3>3 DEF CycleInv, PlanInv
    <2>8. CASE updateSOA(serial[z]) # None
      <3>1. PICK entries \in readRecords(Exported(z)) :
              file' = Export(z, updateSOA(serial[z]), runZoneChanges(z, entries))
        BY <1>4, <2>8 DEF ExportZone
      <3>2. entries = Exported(z)
        BY <3>1, ExportedType, ReadAll DEF TypeOK
      <3>3. file'.zone = z /\ file'.entries = runZoneChanges(z, Exported(z))
        BY <3>1, <3>2 DEF Export
      <3>4. todo' = todo /\ skipped' = skipped
        BY <1>4, <2>8 DEF ExportZone
      <3>5. z \in Managed =>
              \A k \in Owned : ZoneOf[k] = z /\ Possible(k) => EntryAsWanted(k, file'.entries[k])
        <4>1. SUFFICES ASSUME z \in Managed, NEW k \in Owned, ZoneOf[k] = z, Possible(k)
                       PROVE  EntryAsWanted(k, file'.entries[k])
          OBVIOUS
        <4>2. k \in Key
          BY DataAssumption
        <4>3. file'.entries[k] = Edited(z, k, Exported(z)[k])
          BY <3>3, <4>1, <4>2, RunZone
        <4>4. dns[k] = seen[k]
          BY <2>1, <2>5, <4>1, <4>2
        <4>5. QED  BY <2>4, <4>1, <4>3, <4>4, EditMeetsWish
      <3>6. file'.zone \in Managed =>
              \A k \in Owned : ZoneOf[k] = file'.zone /\ Possible(k)' => EntryAsWanted(k, file.entries[k])'
        BY <2>1, <2>6, <3>3, <3>5 DEF EntryAsWanted
      <3>7. \A k \in Key : ZoneOf[k] \in todo' \cap Managed => dns'[k] = seen'[k]
        BY <2>1, <2>5, <3>4
      <3>8. \A k \in Owned : ZoneOf[k] \in Managed \ (todo' \cup skipped') /\ Possible(k)'
                               => AsWanted(k)'
        BY <2>5, <2>6, <3>4
      <3>9. QED  BY <1>0, <2>1, <2>2, <2>4, <3>6, <3>7, <3>8 DEF CycleInv, PlanInv
    <2>9. QED  BY <2>7, <2>8
  <1>5. ASSUME NEW z \in Zone, ExportFails(z)
        PROVE  CycleInv' /\ BulkCycleSyncs'
    BY <1>0, <1>5, CycleDisturbed DEF ExportFails, Disturb
  <1>6. CASE ImportZone
    <2>1. file # None /\ phase = "apply" /\ file \in Zonefile
      BY <1>6 DEF ImportZone, FileIsLater, TypeOK
    <2>2. /\ UNCHANGED <<want, phase, plan, seen, last, skipped>> /\ quiet' = quiet
          /\ todo' = todo \ {file.zone} /\ file' = None
      BY <1>6 DEF ImportZone, ZoneDone, Undisturbed
    <2>3. last' = "none"
      BY <2>1, <2>2 DEF CycleInv
    <2>4. SUFFICES ASSUME quiet
                   PROVE  CycleInv'
      BY <1>0, <2>1, <2>2, <2>3 DEF CycleInv, PlanInv, BulkCycleSyncs
    <2>5. plan = PlanFor(want, seen) /\ (plan = PlanFor(want, seen))'
      BY <2>1, <2>2, <2>4 DEF CycleInv, PlanFor, Differs, createEndpointFromRecord, EffectiveTTL
    <2>6. \A k \in Key : ZoneOf[k] # file.zone => dns'[k] = dns[k]
      BY <1>6 DEF ImportZone
    <2>7. \A k \in Key : ZoneOf[k] \in todo' \cap Managed => dns'[k] = seen'[k]
      BY <2>1, <2>2, <2>4, <2>6 DEF CycleInv
    <2>8. ASSUME NEW k \in Owned, ZoneOf[k] \in Managed \ (todo' \cup skipped'), Possible(k)'
          PROVE  AsWanted(k)'
      <3>1. k \in Key /\ ZoneOf[k] \in Zone /\ Possible(k)
        BY <2>2, <2>8, DataAssumption DEF Possible
      <3>2. CASE ZoneOf[k] = file.zone
        <4>1. EntryAsWanted(k, file.entries[k])
          BY <2>1, <2>4, <2>8, <3>1, <3>2 DEF CycleInv
        <4>2. /\ file.entries[k] = None => dns'[k] = None
              /\ file.entries[k] # None =>
                   /\ dns'[k] \in RRSet
                   /\ dns'[k].recs = file.entries[k].recs
                   /\ EffectiveTTL(k, dns'[k]) = file.entries[k].ttl
          BY <1>6, <3>1, <3>2, ImportedShown
        <4>3. EffectiveTTL(k, dns[k])' = EffectiveTTL(k, dns'[k])
          BY DEF EffectiveTTL
        <4>4. QED  BY <2>2, <4>1, <4>2, <4>3, RRSetFields DEF AsWanted, EntryAsWanted
      <3>3. CASE ZoneOf[k] # file.zone
        <4>1. ZoneOf[k] \in Managed \ (todo \cup skipped)
          BY <2>2, <2>8, <3>3
        <4>2. AsWanted(k)
          BY <2>1, <2>4, <3>1, <4>1 DEF CycleInv
        <4>3. QED  BY <2>2, <2>6, <3>1, <3>3, <4>2, AsWantedStays
      <3>4. QED  BY <3>2, <3>3
    <2>9. QED  BY <1>0, <2>1, <2>2, <2>3, <2>5, <2>7, <2>8 DEF CycleInv, PlanInv
  <1>7. CASE ImportFails
    BY <1>0, <1>7, CycleDisturbed DEF ImportFails, Disturb
  <1>8. CASE ReturnApplied
    <2>1. phase = "apply" /\ todo = {} /\ EndCycle("done") /\ quiet' = quiet
          /\ UNCHANGED <<dns, want, skipped>>
      BY <1>8 DEF ReturnApplied, Undisturbed
    <2>2. CycleInv'
      BY <1>0, <2>1, CycleOver DEF EndCycle
    <2>3. ASSUME quiet, NEW k \in Owned, ZoneOf[k] \in Managed \ skipped', Possible(k)'
          PROVE  AsWanted(k)'
      <3>1. Possible(k) /\ k \in Key
        BY <2>1, <2>3, DataAssumption DEF Possible
      <3>2. AsWanted(k)
        BY <2>1, <2>3, <3>1 DEF CycleInv
      <3>3. QED  BY <2>1, <3>2, AsWantedStays
    <2>4. BulkCycleSyncs'
      BY <2>1, <2>3 DEF BulkCycleSyncs
    <2>5. QED  BY <2>2, <2>4
  <1>9. ASSUME NEW k \in Key, ForeignEdit(k)
        PROVE  CycleInv' /\ BulkCycleSyncs'
    BY <1>0, <1>9, CycleDisturbed DEF ForeignEdit, Disturb
  <1>10. CASE ChangeWant
    BY <1>0, <1>10, CycleDisturbed DEF ChangeWant, Disturb
  <1>11. CASE NextDay
    <2>1. UNCHANGED <<dns, want, phase, plan, seen, todo, last, skipped, quiet>>
      BY <1>11 DEF NextDay
    <2>2. file' = None \/ (file # None /\ file'.zone = file.zone /\ file'.entries = file.entries)
      BY <1>11, NextDayFile, OlderFileFields DEF NextDay, TypeOK
    <2>3. QED  BY <2>1, <2>2, CycleStays
  <1>12. CASE UNCHANGED vars
    BY <1>12, CycleStays DEF vars
  <1>13. QED
    BY <1>1, <1>2, <1>3, <1>4, <1>5, <1>6, <1>7, <1>8, <1>9, <1>10, <1>11, <1>12
    DEF Next, Cycle

\* BulkInv is inductive, together with the types: in an undisturbed cycle the
\* file is as wanted before the import and the zone after it, although what is
\* edited is the zone as it is exported, and what is set is computed from the
\* zone as it was read before (QueueChanges, ExportZone, ImportZone).
THEOREM BulkInductive ==
  ASSUME Readable
  PROVE  Spec => []BulkInv
  <1>1. Init => TypeOK /\ PlanInv /\ BulkInv
    <2> SUFFICES ASSUME Init PROVE TypeOK /\ PlanInv /\ BulkInv
      OBVIOUS
    <2>1. TypeOK /\ PlanInv
      BY InitType
    <2>2. phase = "idle" /\ last = "none" /\ file = None
      BY DEF Init
    <2>3. QED
      BY <2>1, <2>2 DEF BulkInv, FileIsLater, FileKeepsTheRest, CycleInv, PlanInv, BulkCycleSyncs
  <1>2. TypeOK /\ PlanInv /\ BulkInv /\ [Next]_vars => (TypeOK /\ PlanInv /\ BulkInv)'
    BY TypeStep, LaterStep, KeepsStep, CycleStep DEF BulkInv
  <1>3. QED  BY <1>1, <1>2, PTL DEF Spec

\* Where the parser stops at nothing, an undisturbed cycle that ended makes every
\* recordset as wanted in the zones
\* that it did not give up for their serial number, whatever other recordsets and
\* other zones are refused (applyZoneChanges, runZoneChanges).
THEOREM BulkCyclesSync ==
  ASSUME Readable
  PROVE  Spec => []BulkCycleSyncs
  <1>1. BulkInv => BulkCycleSyncs
    BY DEF BulkInv
  <1>2. QED  BY <1>1, BulkInductive, PTL
=============================================================================
