----------------------------- MODULE BulkChanges -----------------------------
(***************************************************************************)
(* The bulk mode: ApplyChanges exports the zonefile of every zone it has   *)
(* changes for, edits it and imports it again (bulk_changes.go and the     *)
(* package zonefile).  The records were read before, so that a zone is     *)
(* seen three times: when ExternalDNS plans, when ApplyChanges queues, and *)
(* when the zonefile is exported.  Errors are logged, never returned.      *)
(*                                                                         *)
(* One handler works at a time here; how a cycle reads the zones one by    *)
(* one, and how handlers overlap, is in Reconcile.                         *)
(***************************************************************************)
EXTENDS RRSets, Naturals

CONSTANTS
  DryRun,          \* the DRY_RUN option
  Unparsable,      \* record values that parseRecord rejects
  Unreadable,      \* recordsets at which the parser of zonefiles stops
  MaxVersion,      \* the last serial number of a day (99)
  Unsupported,     \* a serial number that is not a date and a version
  Wishes,          \* what the cluster may want
  StartDNS,        \* what the zones may hold at the beginning
  StartSerial,     \* the serial numbers they may have at the beginning
  Edits,           \* what somebody else may write into a zone
  MaxDisturbances  \* the bound on disturbances

\* A serial number, by the age of its date in days: older is as old as two.
Dated == [age : 0..2, version : 0..MaxVersion]
Serial == {Unsupported} \cup Dated

\* A recordset as a zonefile has it: always with a TTL, never with labels.
Entry == [recs : Recs, ttl : TTL]

ASSUME BulkAssumption ==
  /\ DryRun \in BOOLEAN
  /\ Unparsable \subseteq Recs /\ Unreadable \subseteq Key
  /\ MaxVersion \in Nat /\ MaxDisturbances \in Nat
  /\ Wishes \subseteq Partial(Endpoint)
  /\ \A w \in Wishes : Present(w) \subseteq Owned
  /\ StartDNS \subseteq Partial(RRSet)
  /\ \A d \in StartDNS : \A k \in Present(d) : ZoneOf[k] \in Zone
  /\ StartSerial \subseteq Serial
  /\ Edits \subseteq RRSet \cup {None}
  /\ \A s \in Dated : s # Unsupported
  /\ \A e \in Entry : e # None

VARIABLES
  dns,           \* the recordsets stored by Hetzner
  serial,        \* the serial number in each zone's SOA
  want,          \* the endpoints wanted by the cluster
  phase,         \* where the cycle is
  plan,          \* the changes ExternalDNS posts
  seen,          \* what ApplyChanges read
  todo,          \* the zones still to be exported and imported
  file,          \* the edited zonefile about to be imported
  last,          \* history: the outcome of the last cycle
  skipped,       \* history: the zones it skipped for their serial number
  quiet,         \* history: no disturbance since the cycle began
  disturbances   \* how many disturbances there were

vars == <<dns, serial, want, phase, plan, seen, todo, file, last, skipped, quiet, disturbances>>

\* base and old are history: the serial number and the recordsets exported.
Zonefile == [zone : Zone, serial : Serial, entries : Partial(Entry),
             base : Serial, old : Partial(Entry)]

TypeOK ==
  /\ dns \in Partial(RRSet)
  /\ serial \in [Zone -> Serial]
  /\ want \in Partial(Endpoint)
  /\ phase \in {"idle", "planned", "apply"}
  /\ plan \in Plan
  /\ seen \in Partial(RRSet)
  /\ todo \subseteq Zone
  /\ file \in {None} \cup Zonefile
  /\ last \in {"none", "done", "err"}
  /\ skipped \subseteq Zone
  /\ quiet \in BOOLEAN
  /\ disturbances \in 0..MaxDisturbances

Init ==
  /\ dns \in StartDNS
  /\ serial \in [Zone -> StartSerial]
  /\ want \in Wishes
  /\ phase = "idle" /\ plan = NoPlan /\ seen = Nothing /\ todo = {} /\ file = None
  /\ last = "none" /\ skipped = {} /\ quiet = FALSE /\ disturbances = 0

Disturb ==
  /\ disturbances < MaxDisturbances
  /\ disturbances' = disturbances + 1
  /\ quiet' = FALSE

Undisturbed == UNCHANGED <<quiet, disturbances>>

EndCycle(outcome) ==
  /\ phase' = "idle" /\ plan' = NoPlan /\ seen' = Nothing /\ todo' = {} /\ file' = None
  /\ last' = outcome

-----------------------------------------------------------------------------
(* Planning and queueing.                                                  *)

Listed == [k \in Key |-> IF ZoneOf[k] \in Managed THEN dns[k] ELSE None]

\* ExternalDNS reads the records and plans.
PlanCycle ==
  /\ phase = "idle"
  /\ phase' = "planned"
  /\ plan' = PlanFor(want, Listed)
  /\ last' = "none" /\ skipped' = {} /\ quiet' = TRUE
  /\ UNCHANGED <<dns, serial, want, seen, todo, file, disturbances>>

Queued(p, s) == processDeleteActions(p, s) \cup Present(processCreateActions(p, s))
                  \cup Present(processUpdateActions(p, s))

\* The zones that getZoneChanges has made an entry for.  A creation may lie in one
\* that the filter keeps out, and has not been read.
getZoneChanges(p, s) == {ZoneOf[k] : k \in Queued(p, s)}

\* ApplyChanges reads the zones and queues the changes zone by zone.
QueueChanges ==
  /\ phase = "planned"
  /\ IF HasChanges(plan)
     THEN /\ phase' = "apply" /\ seen' = Listed /\ todo' = getZoneChanges(plan, Listed)
          /\ UNCHANGED <<plan, file, last>>
     ELSE EndCycle("done")
  /\ Undisturbed
  /\ UNCHANGED <<dns, serial, want, skipped>>

ReadFails ==
  /\ phase = "planned"
  /\ HasChanges(plan)
  /\ Disturb
  /\ EndCycle("err")
  /\ UNCHANGED <<dns, serial, want, skipped>>

-----------------------------------------------------------------------------
(* The zonefile.                                                           *)

\* What Hetzner exports of zone z.
Exported(z) ==
  [k \in Key |-> IF ZoneOf[k] = z /\ dns[k] # None
                 THEN [recs |-> dns[k].recs, ttl |-> EffectiveTTL(k, dns[k])] ELSE None]

\* A slip: only what ExternalDNS manages is read.
readRecordsOwned(entries) == {[k \in Key |-> IF k \in Owned THEN entries[k] ELSE None]}

\* The parser stops at what it cannot read.  Its error is not asked for: the
\* recordsets before it, in the order of the export, are all there is.
readRecords(entries) ==
  {[k \in Key |-> IF k \in read THEN entries[k] ELSE None] :
     read \in IF Present(entries) \cap Unreadable = {}
              THEN {Key} ELSE SUBSET (Present(entries) \ Unreadable)}

\* The values as a zonefile has them: None for an error.
parseRecord(recs) == IF recs \in Unparsable THEN None ELSE recs

\* The recordset e of the file after one change to it.  A change that cannot be
\* made is logged, and leaves e as it is.
SetRecords(e, recs, ttl) ==
  IF parseRecord(recs) = None THEN e ELSE [recs |-> parseRecord(recs), ttl |-> ttl]

\* A slip: a recordset that is there already is overwritten.
AddRecordAnyway(e, recs, ttl) == SetRecords(e, recs, ttl)

AddRecord(e, recs, ttl)    == IF e # None THEN e ELSE SetRecords(e, recs, ttl)
UpdateRecord(e, recs, ttl) == IF e = None THEN e ELSE SetRecords(e, recs, ttl)
DeleteRecord(e)            == None

createRecord(e, c) == IF c = None THEN e ELSE AddRecord(e, c.recs, c.ttl)

\* A slip: the values are those that were read, and only the TTL is new.
updateRecordTTL(e, u, rset, ttl) ==
  IF u = None THEN e
  ELSE UpdateRecord(e, rset.recs, IF u.ttl # None THEN u.ttl ELSE ttl)

\* What no option gives is taken from the recordset read by ApplyChanges, not
\* from the file.
updateRecord(e, u, rset, ttl) ==
  IF u = None THEN e
  ELSE UpdateRecord(e, IF u.recs # None THEN u.recs ELSE rset.recs,
                       IF u.ttl # None THEN u.ttl ELSE ttl)

deleteRecord(e, deleted) == IF deleted THEN DeleteRecord(e) ELSE e

runZoneChanges(z, entries) ==
  LET crts == processCreateActions(plan, seen)
      upds == processUpdateActions(plan, seen)
      dels == processDeleteActions(plan, seen)
      ttl(k) == IF seen[k] # None THEN EffectiveTTL(k, seen[k]) ELSE ZoneTTL[z]
  IN [k \in Key |->
        IF ZoneOf[k] # z THEN None
        ELSE deleteRecord(
               updateRecord(createRecord(entries[k], crts[k]), upds[k], seen[k], ttl(k)),
               k \in dels)]

\* Slips: the version starts again on the same day; it goes on for ever; the
\* last version has a successor.
IncWraps(s) ==
  [age |-> 0, version |-> IF s.age = 0 /\ s.version < MaxVersion THEN s.version + 1 ELSE 0]
IncForever(s) ==
  IF s.version = MaxVersion THEN None ELSE [age |-> 0, version |-> s.version + 1]
IncPastLast(s) ==
  [age |-> 0, version |-> IF s.age > 0 THEN 0 ELSE s.version + 1]

\* The next serial number: None for an error.
Inc(s) ==
  IF s.age > 0 THEN [age |-> 0, version |-> 0]
  ELSE IF s.version = MaxVersion THEN None
  ELSE [age |-> 0, version |-> s.version + 1]

\* NewSOASerialNumber: ten digits, a date that is not in the future, a version.
Supported(s) == s # Unsupported

updateSOA(s) == IF Supported(s) THEN Inc(s) ELSE None

\* The file with serial number sn in its SOA, and what was exported of zone z.
Export(z, sn, entries) ==
  [zone |-> z, serial |-> sn, entries |-> entries, base |-> serial[z], old |-> Exported(z)]

-----------------------------------------------------------------------------
(* applyZoneChanges, for one zone after the other.                         *)

ZoneDone(z) == todo' = todo \ {z} /\ file' = None

\* The zonefile is exported and edited; without a new serial number for it the
\* zone is given up.
ExportZone(z) ==
  /\ phase = "apply" /\ file = None /\ z \in todo
  /\ LET sn == updateSOA(serial[z]) IN
     IF sn = None
     THEN /\ skipped' = skipped \cup {z}
          /\ ZoneDone(z)
     ELSE /\ \E entries \in readRecords(Exported(z)) :
               file' = Export(z, sn, runZoneChanges(z, entries))
          /\ UNCHANGED <<todo, skipped>>
  /\ Undisturbed
  /\ UNCHANGED <<dns, serial, want, phase, plan, seen, last>>

ExportFails(z) ==
  /\ phase = "apply" /\ file = None /\ z \in todo
  /\ Disturb
  /\ ZoneDone(z)
  /\ UNCHANGED <<dns, serial, want, phase, plan, seen, last, skipped>>

\* The import replaces all recordsets of the zone.  Labels are not part of it:
\* a recordset that stays keeps them.
Imported(k, e) ==
  IF e = None THEN None
  ELSE [recs |-> e.recs, ttl |-> e.ttl,
        labels |-> IF dns[k] # None THEN dns[k].labels ELSE NoLabels]

ImportZone ==
  /\ file # None
  /\ dns' = [k \in Key |-> IF ZoneOf[k] = file.zone THEN Imported(k, file.entries[k]) ELSE dns[k]]
  /\ serial' = [serial EXCEPT ![file.zone] = file.serial]
  /\ ZoneDone(file.zone)
  /\ Undisturbed
  /\ UNCHANGED <<want, phase, plan, seen, last, skipped>>

\* The call fails, or the action it started does.
ImportFails ==
  /\ file # None
  /\ Disturb
  /\ ZoneDone(file.zone)
  /\ UNCHANGED <<dns, serial, want, phase, plan, seen, last, skipped>>

\* ApplyChanges returns no error, whatever happened.
ReturnApplied ==
  /\ phase = "apply" /\ todo = {}
  /\ EndCycle("done")
  /\ Undisturbed
  /\ UNCHANGED <<dns, serial, want, skipped>>

-----------------------------------------------------------------------------
(* Disturbances from outside.                                              *)

Crash ==
  /\ phase # "idle"
  /\ Disturb
  /\ EndCycle("err")
  /\ UNCHANGED <<dns, serial, want, skipped>>

\* Somebody else edits a recordset; Hetzner may raise the serial number.
ForeignEdit(k) ==
  /\ Disturb
  /\ ZoneOf[k] \in Zone
  /\ \E rr \in Edits, sn \in {serial[ZoneOf[k]], updateSOA(serial[ZoneOf[k]])} \ {None} :
       /\ dns' = [dns EXCEPT ![k] = rr]
       /\ serial' = [serial EXCEPT ![ZoneOf[k]] = sn]
  /\ UNCHANGED <<want, phase, plan, seen, todo, file, last, skipped>>

ChangeWant ==
  /\ Disturb
  /\ want' \in Wishes
  /\ UNCHANGED <<dns, serial, phase, plan, seen, todo, file, last, skipped>>

Aged(s) == IF s = Unsupported \/ s.age = 2 THEN s ELSE [s EXCEPT !.age = @ + 1]

\* Midnight.  At most one passes between an export and its import.
NextDay ==
  /\ file # None => file.serial.age = 0
  /\ serial' = [z \in Zone |-> Aged(serial[z])]
  /\ file' = IF file = None THEN None
             ELSE [file EXCEPT !.serial = Aged(@), !.base = Aged(@)]
  /\ UNCHANGED <<dns, want, phase, plan, seen, todo, last, skipped, quiet, disturbances>>

-----------------------------------------------------------------------------
Cycle ==
  \/ PlanCycle \/ QueueChanges \/ ReadFails
  \/ \E z \in Zone : ExportZone(z) \/ ExportFails(z)
  \/ ImportZone \/ ImportFails \/ ReturnApplied

Next ==
  \/ Cycle
  \/ Crash \/ (\E k \in Key : ForeignEdit(k)) \/ ChangeWant
  \/ NextDay

Spec == Init /\ [][Next]_vars

\* ExternalDNS keeps looping, every API call returns, and days pass.
FairSpec == Spec /\ WF_vars(Cycle) /\ WF_vars(NextDay)

-----------------------------------------------------------------------------
(* Properties.                                                             *)

\* The recordset is as wanted, but for the labels.
AsWanted(k) ==
  IF want[k] = None THEN dns[k] = None
  ELSE /\ dns[k] # None
       /\ dns[k].recs = want[k].recs
       /\ want[k].ttl \in {None, EffectiveTTL(k, dns[k])}

Possible(k) == want[k] # None => want[k].recs \notin Unparsable

\* One undisturbed cycle makes every recordset of the zones that it could give
\* a new serial number as wanted: the first change that cannot be made, and the
\* first zone that cannot be imported, do not hold up the others.
BulkCycleSyncs ==
  quiet /\ last = "done" =>
    \A k \in Owned : ZoneOf[k] \in Managed \ skipped /\ Possible(k) => AsWanted(k)

\* What an import destroys is bounded: a recordset that is in no queue keeps
\* its values and its TTL, unless somebody changed it after the export.
ImportKeepsTheRest ==
  [][\A z \in Zone : file # None /\ file.zone = z /\ ImportZone =>
       \A k \in Key : Exported(z)'[k] # Exported(z)[k] =>
         k \in Queued(plan, seen) \/ Exported(z)[k] # file.old[k]]_vars

\* A zone that the filter keeps out is imported as well, when a creation falls into
\* it, although none of its recordsets has been read: whatever was there at its
\* export comes out of the import as it was, also under the name of the creation.
FilteredZonesOnlyGrow ==
  [][\A z \in Zone \ Managed : file # None /\ file.zone = z /\ ImportZone =>
       \A k \in Key : file.old[k] # None => Exported(z)'[k] = file.old[k]]_vars

Later(s, t) == t.age < s.age \/ (t.age = s.age /\ t.version > s.version)

\* An import raises the serial number, or secondary servers would not notice
\* it: also when midnight passes after the export, and unless somebody raised
\* it in between.
ImportRaisesSerial ==
  [][\A z \in Zone : file # None /\ file.zone = z /\ ImportZone /\ serial[z] = file.base =>
       Later(serial[z], serial'[z])]_vars

\* The file is of the cycle at work and has a later serial number than the zone
\* had, by the day it was made or the next.
FileIsLater ==
  file # None =>
    /\ phase = "apply"
    /\ file.base \in Dated /\ file.serial \in Dated /\ file.serial.age < 2
    /\ Later(file.base, file.serial)

\* It has other entries than the export in queued recordsets only.
FileKeepsTheRest ==
  file # None =>
    \A k \in Key : ZoneOf[k] = file.zone /\ k \notin Queued(plan, seen) =>
      file.entries[k] = file.old[k]

\* The entry of a zonefile is as wanted.
EntryAsWanted(k, e) ==
  IF want[k] = None THEN e = None
  ELSE e # None /\ e.recs = want[k].recs /\ want[k].ttl \in {None, e.ttl}

\* In an undisturbed cycle the plan is for what is wanted and what the zones hold;
\* the zones to come are as they were read, the file is as wanted, and so are the
\* zones that are done with.
CycleInv ==
  /\ phase # "idle" => last = "none"
  /\ \A k \in plan.create \cup plan.update : plan.target[k] # None
  /\ quiet /\ phase = "planned" => plan = PlanFor(want, Listed)
  /\ quiet /\ phase = "apply" =>
       /\ plan = PlanFor(want, seen)
       /\ \A k \in Key : ZoneOf[k] \in todo \cap Managed => dns[k] = seen[k]
       /\ \A k \in Owned : ZoneOf[k] \in Managed \ (todo \cup skipped) /\ Possible(k) => AsWanted(k)
       /\ file # None /\ file.zone \in Managed =>
            \A k \in Owned : ZoneOf[k] = file.zone /\ Possible(k) => EntryAsWanted(k, file.entries[k])

\* Where no recordset stops the parser of zonefiles, all of this holds together:
\* the invariant that the safety properties rest on.
BulkInv == FileIsLater /\ FileKeepsTheRest /\ CycleInv /\ BulkCycleSyncs

\* The zones become as wanted once the disturbances are over, although errors
\* are reported to nobody and a zone may run out of serial numbers for the day;
\* all but those whose serial number is not supported.
BulkConverges ==
  <>[](\A k \in Owned :
         ZoneOf[k] \in Managed /\ Supported(serial[ZoneOf[k]]) /\ Possible(k) => AsWanted(k))

\* A dry run writes nothing.
BulkDryRunWritesNothing ==
  [][DryRun /\ dns' # dns => \E k \in Key : ForeignEdit(k)]_vars

\* Labels are not available in bulk mode: they are no reason to import a zone.
LabelsAreNoReason ==
  [][\A z \in Zone : file # None /\ file.zone = z /\ ImportZone =>
       \E k \in Queued(plan, seen) :
         /\ ZoneOf[k] = z
         /\ LET u == processUpdateActions(plan, seen)[k] IN
            u # None => u.recs # None \/ u.ttl # None]_vars
=============================================================================
