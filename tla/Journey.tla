------------------------------ MODULE Journey ------------------------------
(***************************************************************************)
(* The journey of endpoints through the webhook and back, name by name and *)
(* page by page: what the cluster wants is adjusted (AdjustEndpoints),     *)
(* planned by ExternalDNS (external code), matched with the recordsets     *)
(* listed (fetchRecords), written to Hetzner (external code), listed again *)
(* and shown to ExternalDNS.                                               *)
(*                                                                         *)
(* Both modes are here: the calls of the regular mode one by one, those of *)
(* the bulk mode through the zonefile of each zone.  One request is served *)
(* at a time, and a call takes effect or is refused: overlapping requests  *)
(* and lost answers are in Reconcile and BulkChanges.  What may come       *)
(* between any two steps is a restart of the webhook (at most MaxRestarts  *)
(* of them), an edit by somebody else and a change of the wishes (at most  *)
(* MaxDisturbances of these).                                              *)
(***************************************************************************)
EXTENDS Names

CONSTANTS
  Zone,            \* the names of the zones
  Config,          \* DOMAIN_FILTER, EXCLUDE_DOMAIN_FILTER and the REGEXP ones
  BatchSize,       \* BATCH_SIZE: how many recordsets a page has
  Wishes,          \* what the cluster may want
  StartDNS,        \* what the zones may hold at the beginning
  Edits,           \* the recordsets that somebody else may create
  MaxRestarts,     \* the bound on restarts
  MaxDisturbances  \* the bound on edits and changes of the wishes

RecordType == {"A", "CNAME", "MX"}
Endpoint == [name : Name, type : RecordType, targets : Seq(Text), keys : SUBSET Key]
RRSet    == [name : Name \cup {<<At>>}, type : RecordType, records : Seq(Text),
             labels : SUBSET Key]

ASSUME JourneyAssumption ==
  /\ Zone \subseteq Name /\ IsFiniteSet(Zone)
  /\ BatchSize \in Nat \ {0}
  /\ \A w \in Wishes : w \subseteq Endpoint /\ IsFiniteSet(w)
  /\ StartDNS \subseteq [Zone -> Seq(RRSet)]
  /\ Edits \subseteq RRSet
  /\ MaxRestarts \in Nat /\ MaxDisturbances \in Nat

\* The filters: if the regular expression is set, the others are ignored.  Each
\* is given as the set of the names it matches.
GetDomainFilter(config) ==
  IF config.regexp # {} THEN config.regexp \ config.regexpExclusion
  ELSE config.domains \ config.exclusions

Matches(n) == n \in GetDomainFilter(Config)
Managed    == {z \in Zone : Matches(z)}

VARIABLES
  bulk,          \* BULK_MODE, which never changes
  dns,           \* Hetzner: the recordsets of each zone, in the order of its pages
  want,          \* the endpoints wanted by the cluster
  pc,            \* idle, fetch, adjust, post or apply
  mapper,        \* the zones in zoneIDNameMapper; none before the first listing
  purpose,       \* the request that fetches: Records or ApplyChanges
  unread,        \* the zones still to be fetched
  page,          \* the next page, and the zone it is of when it is not the first
  pageOf,
  seen,          \* the recordsets fetched from each zone
  plan,          \* the changes that ExternalDNS posts
  calls,         \* the calls that are queued
  settled,       \* history: a cycle succeeded, and nothing disturbed it or came since
  quiet,         \* history: nothing disturbed the cycle so far
  restarts,      \* how many restarts there were
  disturbances,  \* how many edits and changes of the wishes
  lasting,       \* history: the recordsets that are in a zone since it is listed
  shrunk         \* history: the zones that lost a recordset since they are listed

request == <<purpose, unread, page, pageOf, seen, calls>>
history == <<settled, quiet, lasting, shrunk>>
vars == <<bulk, dns, want, pc, mapper, purpose, unread, page, pageOf, seen, plan, calls,
          settled, quiet, restarts, disturbances, lasting, shrunk>>
context == <<bulk, restarts, disturbances>>

Plan   == [create : SUBSET Endpoint, update : SUBSET Endpoint, delete : SUBSET Endpoint]
NoPlan == [create |-> {}, update |-> {}, delete |-> {}]
Empty  == [z \in Zone |-> <<>>]

Call == [op : {"create", "update", "delete"}, zone : Zone, rrset : RRSet]

TypeOK ==
  /\ bulk \in BOOLEAN
  /\ dns \in [Zone -> Seq(RRSet)]
  /\ want \subseteq Endpoint
  /\ pc \in {"idle", "fetch", "adjust", "post", "apply"}
  /\ mapper \subseteq Zone
  /\ purpose \in {"Records", "ApplyChanges"}
  /\ unread \subseteq Zone
  /\ page \in Nat \ {0} /\ pageOf \in Zone \cup {NoZone}
  /\ seen \in [Zone -> Seq(RRSet)]
  /\ plan \in Plan
  /\ calls \subseteq Call
  /\ settled \in BOOLEAN /\ quiet \in BOOLEAN
  /\ restarts \in 0..MaxRestarts /\ disturbances \in 0..MaxDisturbances
  /\ lasting \in [Zone -> SUBSET RRSet]
  /\ shrunk \subseteq Zone

Init ==
  /\ bulk \in BOOLEAN
  /\ dns \in StartDNS
  /\ want \in Wishes
  /\ pc = "idle"
  /\ mapper = {}
  /\ purpose = "Records" /\ unread = {} /\ page = 1 /\ pageOf = NoZone /\ seen = Empty
  /\ plan = NoPlan /\ calls = {}
  /\ settled = FALSE /\ quiet = FALSE /\ restarts = 0 /\ disturbances = 0
  /\ lasting = [z \in Zone |-> {}] /\ shrunk = {}

NothingListed == seen' = Empty /\ lasting' = [z \in Zone |-> {}] /\ shrunk' = {}

\* The cycle is over, and with it what was kept for it.
EndCycle(ok) ==
  /\ pc' = "idle"
  /\ settled' = (settled \/ (ok /\ quiet))
  /\ quiet' = FALSE
  /\ purpose' = "Records" /\ unread' = {} /\ page' = 1 /\ pageOf' = NoZone
  /\ plan' = NoPlan /\ calls' = {}
  /\ NothingListed

-----------------------------------------------------------------------------
(* Listing the recordsets.                                                 *)

\* Zones lists the zones and maps them all; the filtered ones are fetched.
Fetch(why) ==
  /\ pc' = "fetch"
  /\ purpose' = why
  /\ mapper' = Zone
  /\ unread' = Managed
  /\ page' = 1 /\ pageOf' = NoZone
  /\ calls' = {}
  /\ NothingListed

\* ExternalDNS begins a cycle.
StartRecords ==
  /\ pc = "idle"
  /\ Fetch("Records")
  /\ quiet' = TRUE
  /\ UNCHANGED <<dns, want, plan, settled, context>>

LastPage(rrsets) ==
  IF rrsets = <<>> THEN 1 ELSE (Len(rrsets) + BatchSize - 1) \div BatchSize
PageRows(rrsets, p) ==
  LET last == p * BatchSize IN
  SubSeq(rrsets, last - BatchSize + 1, IF last < Len(rrsets) THEN last ELSE Len(rrsets))

\* A slip: the last page is not fetched.
isEndPageEarly(lastPage, p) == lastPage <= p + 1

isEndPage(lastPage, p) == lastPage <= p

\* One page of one zone.
FetchPage ==
  /\ pc = "fetch"
  /\ \E z \in IF pageOf = NoZone THEN unread ELSE {pageOf} :
       /\ seen' = [seen EXCEPT ![z] = @ \o PageRows(dns[z], page)]
       /\ IF isEndPage(LastPage(dns[z]), page)
          THEN unread' = unread \ {z} /\ page' = 1 /\ pageOf' = NoZone
          ELSE unread' = unread /\ page' = page + 1 /\ pageOf' = z
       /\ IF page = 1
          THEN lasting' = [lasting EXCEPT ![z] = ToSet(dns[z])] /\ shrunk' = shrunk \ {z}
          ELSE UNCHANGED <<lasting, shrunk>>
  /\ UNCHANGED <<dns, want, pc, mapper, purpose, plan, calls, settled, quiet, context>>

Fetched == pc = "fetch" /\ unread = {}

\* Records is answered.
ReturnRecords ==
  /\ Fetched
  /\ purpose = "Records"
  /\ pc' = "adjust"
  /\ UNCHANGED <<dns, want, mapper, request, plan, history, context>>

createEndpointFromRecord(zone, rr) ==
  [name    |-> EndpointName(zone, rr.name),
   type    |-> rr.type,
   targets |-> extractEndpointTargets(zone, rr.type, rr.records),
   keys    |-> getProviderSpecific(rr.labels)]

\* What Records returned.
Shown == UNION {{createEndpointFromRecord(z, rr) : rr \in ToSet(seen[z])} : z \in Zone}

-----------------------------------------------------------------------------
(* Adjusting and planning.                                                 *)

InZone(ep) == FindZone(mapper, ep.name) # NoZone

adjustEndpointTargets(ep) ==
  [ep EXCEPT !.targets = [i \in DOMAIN @ |-> makeEndpointTarget(@[i])]]

\* With no zone for it, as after a restart, an endpoint is left as it is.
AdjustEndpoint(ep) == IF InZone(ep) THEN adjustEndpointTargets(ep) ELSE ep

\* A slip: the error of the conversion is ignored.
CanAdjustAnyway == TRUE

CanAdjust == \A ep \in want : InZone(ep) => \A t \in ToSet(ep.targets) : Encodable(t)

\* ExternalDNS compares by name and type, within the domain filter, for the
\* names it may manage; of two endpoints of one name and type it sees one.
Id(ep) == <<ep.name, ep.type>>
Owned  == {Id(ep) : ep \in UNION Wishes}

Differs(wanted, current) ==
  \/ ToSet(wanted.targets) # ToSet(current.targets)
  \/ wanted.keys # current.keys

PlanFor(wanted, shown) ==
  LET mine(eps) == {ep \in eps : Id(ep) \in Owned /\ Matches(ep.name)}
      ids(eps)  == {Id(ep) : ep \in eps}
  IN [create |-> {ep \in mine(wanted) : Id(ep) \notin ids(shown)},
      update |-> {ep \in mine(wanted) : \E s \in shown : Id(s) = Id(ep) /\ Differs(ep, s)},
      delete |-> {s \in mine(shown) : Id(s) \notin ids(wanted)}]

OneOfEach(eps) == {e \in SUBSET eps : \A ep \in eps : \E s \in e :
                                        Id(s) = Id(ep) /\ \A r \in e : Id(r) = Id(s) => r = s}

AdjustEndpoints ==
  /\ pc = "adjust"
  /\ CanAdjust
  /\ \E shown \in OneOfEach(Shown) :
       plan' = PlanFor({AdjustEndpoint(ep) : ep \in want}, shown)
  /\ pc' = "post"
  /\ NothingListed
  /\ UNCHANGED <<dns, want, mapper, purpose, unread, page, pageOf, calls, settled, quiet,
                 context>>

\* One target that cannot be adjusted fails the request, and the cycle.
AdjustEndpointsFails ==
  /\ pc = "adjust"
  /\ ~CanAdjust
  /\ EndCycle(FALSE)
  /\ UNCHANGED <<dns, want, mapper, context>>

-----------------------------------------------------------------------------
(* Applying the plan.                                                      *)

ReturnUnchanged ==
  /\ pc = "post"
  /\ plan = NoPlan
  /\ EndCycle(TRUE)
  /\ UNCHANGED <<dns, want, mapper, context>>

StartApply ==
  /\ pc = "post"
  /\ plan # NoPlan
  /\ Fetch("ApplyChanges")
  /\ UNCHANGED <<dns, want, plan, settled, quiet, context>>

ZoneOf(ep) == FindZone(mapper, ep.name)

\* The places of an endpoint's recordset among those that were seen; what was
\* listed twice has two.
Matching(ep) ==
  LET z == ZoneOf(ep) IN
  {i \in DOMAIN seen[z] : seen[z][i].name = MatchingName(z, ep.name) /\ seen[z][i].type = ep.type}

\* The first of them is taken.
getMatchingDomainRRSet(ep) == seen[ZoneOf(ep)][Min(Matching(ep))]

\* The endpoints that endpointsByZoneID does not skip, and whose recordset was
\* seen, or was not.
Known(eps)   == {ep \in eps : ZoneOf(ep) # NoZone /\ Matching(ep) # {}}
Unknown(eps) == {ep \in eps : ZoneOf(ep) # NoZone /\ Matching(ep) = {}}

\* Labels that do not parse are ignored.
LabelsOr(keys, otherwise) ==
  LET labels == extractHetznerLabels(keys) IN
  IF labels = BadLabels THEN otherwise ELSE labels

CreateCall(ep) ==
  LET z == ZoneOf(ep) IN
  [op |-> "create", zone |-> z,
   rrset |-> [name    |-> makeEndpointName(z, ep.name),
              type    |-> ep.type,
              records |-> extractRRSetRecords(z, ep.type, ep.targets),
              labels  |-> LabelsOr(ep.keys, {})]]

\* What the recordset is to be: records that count as the same are not sent.
UpdateCall(ep) ==
  LET z       == ZoneOf(ep)
      rr      == getMatchingDomainRRSet(ep)
      records == extractRRSetRecords(z, ep.type, ep.targets)
  IN [op |-> "update", zone |-> z,
      rrset |-> [rr EXCEPT
                   !.records = IF sameZoneRRSetRecords(records, @) THEN @ ELSE records,
                   !.labels  = LabelsOr(ep.keys, @)]]

DeleteCall(ep) ==
  [op |-> "delete", zone |-> ZoneOf(ep), rrset |-> getMatchingDomainRRSet(ep)]

\* The second half of ApplyChanges: an update with nothing to send is no call of
\* the regular mode.
Queue ==
  /\ Fetched
  /\ purpose = "ApplyChanges"
  /\ pc' = "apply"
  /\ calls' = {CreateCall(ep) : ep \in Unknown(plan.create)}
         \cup {c \in {UpdateCall(ep) : ep \in Known(plan.update)} :
                 bulk \/ c.rrset \notin ToSet(seen[c.zone])}
         \cup {DeleteCall(ep) : ep \in Known(plan.delete)}
  /\ plan' = NoPlan
  /\ NothingListed
  /\ UNCHANGED <<dns, want, mapper, purpose, unread, page, pageOf, settled, quiet,
                 context>>

\* The recordset of a zone that a call is about: its place, or 0.
Place(z, rr) ==
  LET places == {i \in DOMAIN dns[z] : dns[z][i].name = rr.name /\ dns[z][i].type = rr.type}
  IN IF places = {} THEN 0 ELSE CHOOSE i \in places : TRUE

\* An alias bears its name alone.
Fits(z, rr) ==
  \A i \in DOMAIN dns[z] : dns[z][i].name = rr.name =>
    rr.type # dns[z][i].type /\ "CNAME" \notin {rr.type, dns[z][i].type}

\* Hetzner stores what a zonefile could hold.
WellFormed(rr) == \A v \in ToSet(rr.records) : CanParse(rr.type, v)

Accepted(c) ==
  CASE c.op = "create" -> Fits(c.zone, c.rrset) /\ WellFormed(c.rrset)
    [] c.op = "update" -> Place(c.zone, c.rrset) # 0 /\ WellFormed(c.rrset)
    [] OTHER           -> Place(c.zone, c.rrset) # 0

\* A new recordset may come anywhere in the pages.
Insert(z, rr) == \E i \in 1..Len(dns[z]) + 1 : dns' = [dns EXCEPT ![z] = InsertAt(@, i, rr)]

Effect(c) ==
  LET i == Place(c.zone, c.rrset) IN
  CASE c.op = "create" -> Insert(c.zone, c.rrset)
    [] c.op = "update" -> dns' = [dns EXCEPT ![c.zone] = ReplaceAt(@, i, c.rrset)]
    [] OTHER           -> dns' = [dns EXCEPT ![c.zone] = RemoveAt(@, i)]

\* A slip: what is to go is deleted last.
DeletesLast(op) == IF op = "delete" THEN {"create", "update"} ELSE {}

\* Deletions come first, then creations, then updates.
Before(op) == CASE op = "delete" -> {} [] op = "create" -> {"delete"} [] OTHER -> {"delete", "create"}
Due == {c \in calls : \A d \in calls : d.op \notin Before(c.op)}

DoCall ==
  /\ pc = "apply" /\ ~bulk
  /\ \E c \in Due : Accepted(c) /\ Effect(c) /\ calls' = calls \ {c}
  /\ UNCHANGED <<want, pc, mapper, purpose, unread, page, pageOf, seen, plan, history,
                 context>>

\* The first call that is refused ends the request.
CallRefused ==
  /\ pc = "apply" /\ ~bulk
  /\ \E c \in Due : ~Accepted(c)
  /\ EndCycle(FALSE)
  /\ UNCHANGED <<dns, want, mapper, context>>

\* The zonefile of zone z after some calls: a call that meets no recordset of its
\* name and type, or one that it should not meet, or a value that does not parse,
\* is logged and changes nothing.  Labels are not part of a zonefile, and the values
\* of the recordsets that no call is about mean what they meant.  The recordsets stay
\* in the order they had; new ones come last, in any order.  Of two creations of one
\* name and type the first is taken.
Parses(rr) == \A v \in ToSet(rr.records) : CanParse(rr.type, v)
InFile(z, rr, labels) ==
  [rr EXCEPT !.records = [i \in DOMAIN @ |-> parseRecord(z, rr.type, @[i])], !.labels = labels]

InOrder(z, rrsets) ==
  \A i, j \in DOMAIN rrsets :
    i < j /\ Place(z, rrsets[j]) # 0 => Place(z, rrsets[i]) \in 1..Place(z, rrsets[j])

SameName(c, d) == c.rrset.name = d.rrset.name /\ c.rrset.type = d.rrset.type
OneOfEachName(cs) ==
  {e \in SUBSET cs : \A c \in cs : \E d \in e : SameName(c, d) /\ \A r \in e : SameName(r, d) => r = d}

runZoneChanges(z, cs) ==
  LET on(op, rr) == {c \in cs : c.op = op /\ c.rrset.name = rr.name /\ c.rrset.type = rr.type
                               /\ (op # "delete" => Parses(c.rrset))}
      edited(rr) == IF on("update", rr) = {} THEN rr
                    ELSE InFile(z, (CHOOSE c \in on("update", rr) : TRUE).rrset, rr.labels)
      kept  == {rr \in ToSet(dns[z]) : on("delete", rr) = {}}
      new   == {c \in cs : c.op = "create" /\ Parses(c.rrset) /\ Place(z, c.rrset) = 0}
  IN UNION {{rrsets \in SetToSeqs({edited(rr) : rr \in kept} \cup {InFile(z, c.rrset, {}) : c \in added}) :
               InOrder(z, rrsets)} : added \in OneOfEachName(new)}

\* Hetzner takes a zonefile as a whole, or not at all.
Valid(rrsets) ==
  \A i, j \in DOMAIN rrsets : i # j /\ rrsets[i].name = rrsets[j].name =>
    rrsets[i].type # rrsets[j].type /\ rrsets[i].type # "CNAME"

\* The zonefile of a zone is exported, edited and imported; a refusal is logged.
\* What comes between the export and the import is in BulkChanges.
applyZoneChanges ==
  /\ pc = "apply" /\ bulk
  /\ \E z \in {c.zone : c \in calls} :
       /\ \E file \in runZoneChanges(z, {c \in calls : c.zone = z}) :
            dns' = IF Valid(file) THEN [dns EXCEPT ![z] = file] ELSE dns
       /\ calls' = {c \in calls : c.zone # z}
  /\ UNCHANGED <<want, pc, mapper, purpose, unread, page, pageOf, seen, plan, history,
                 context>>

ReturnApplied ==
  /\ pc = "apply"
  /\ calls = {}
  /\ EndCycle(TRUE)
  /\ UNCHANGED <<dns, want, mapper, context>>

-----------------------------------------------------------------------------
(* Disturbances.                                                           *)

Disturb ==
  /\ disturbances < MaxDisturbances
  /\ disturbances' = disturbances + 1
  /\ settled' = FALSE /\ quiet' = FALSE
  /\ UNCHANGED <<bulk, restarts>>

\* The webhook is restarted: its map is gone, and the request it was serving.
Restart ==
  /\ restarts < MaxRestarts
  /\ restarts' = restarts + 1
  /\ mapper' = {}
  /\ IF pc \in {"fetch", "apply"} THEN EndCycle(FALSE)
                                  ELSE UNCHANGED <<pc, request, plan, history>>
  /\ UNCHANGED <<bulk, dns, want, disturbances>>

ForeignCreate(z) ==
  /\ Disturb
  /\ \E rr \in Edits : Fits(z, rr) /\ Insert(z, rr)
  /\ UNCHANGED <<want, pc, mapper, request, plan, lasting, shrunk>>

ForeignDelete(z) ==
  /\ Disturb
  /\ \E i \in DOMAIN dns[z] :
       /\ dns' = [dns EXCEPT ![z] = RemoveAt(@, i)]
       /\ lasting' = [lasting EXCEPT ![z] = @ \ {dns[z][i]}]
  /\ shrunk' = shrunk \cup {z}
  /\ UNCHANGED <<want, pc, mapper, request, plan>>

ChangeWant ==
  /\ Disturb
  /\ want' \in Wishes \ {want}
  /\ UNCHANGED <<dns, pc, mapper, request, plan, lasting, shrunk>>

-----------------------------------------------------------------------------
Cycle ==
  \/ StartRecords \/ FetchPage \/ ReturnRecords
  \/ AdjustEndpoints \/ AdjustEndpointsFails
  \/ ReturnUnchanged \/ StartApply \/ Queue
  \/ DoCall \/ CallRefused \/ applyZoneChanges \/ ReturnApplied

Outside ==
  \/ Restart
  \/ \E z \in Zone : ForeignCreate(z) \/ ForeignDelete(z)
  \/ ChangeWant

Next == Cycle \/ Outside

Spec == Init /\ [][Next]_vars

\* ExternalDNS keeps looping and every call returns.  Some step of Cycle is always
\* possible, so that this is the weak fairness of Cycle.
FairSpec == Spec /\ []<><<Cycle>>_vars

-----------------------------------------------------------------------------
(* Properties.                                                             *)

\* What a record value of a zone stands for: a name without a final dot is
\* completed with the zone.
Absolute(zone, type, v) ==
  [prio |-> v.prio,
   name |-> IF v.dot \/ type = "A" THEN v.name
            ELSE IF v.name = <<At>> THEN zone ELSE v.name \o zone]
RRName(zone, rr) == IF rr.name = <<At>> THEN zone ELSE rr.name \o zone

\* A name in ASCII; a part that has no ASCII form stands for itself.
Canonical(n) ==
  [i \in DOMAIN n |-> IF n[i] = At \/ ToASCII[n[i]] = Unencodable THEN n[i] ELSE ToASCII[n[i]]]

\* What endpoint ep asks for, and what recordset rr of a zone says.
Asked(ep) ==
  {[prio |-> t.prio, name |-> Canonical(t.name)] : t \in ToSet(ep.targets)}
Said(zone, rr) ==
  {[a EXCEPT !.name = Canonical(@)] : a \in {Absolute(zone, rr.type, v) : v \in ToSet(rr.records)}}

\* The recordsets of a zone that bear the name and type of an id.
Bearers(zone, id) == {rr \in ToSet(dns[zone]) : <<RRName(zone, rr), rr.type>> = id}

\* A name that repeats the name of its zone: it is cut down to the apex.
RepeatsZone(n) == LET z == FindZone(Zone, n) IN n = z \o z

\* A wish for the name of a zone written twice, which is created at the apex.
TakesApex(id) ==
  \E ep \in want : RepeatsZone(ep.name) /\ id = <<FindZone(Zone, ep.name), ep.type>>

\* Somebody put a recordset of this name into a zone above its own, as happens
\* when the zone is split: Records shows it, ApplyChanges does not reach it.
Shadowed(id) == \E z \in Managed \ {FindZone(Zone, id[1])} : Bearers(z, id) # {}

\* A target does not do as it is asked for, or not as it is adjusted: an MX host whose
\* first part is not in ASCII takes its priority along (see TargetsConform).
Formless(ep) ==
  \E t \in ToSet(ep.targets) :
    ~CanParse(ep.type, t) \/ ~CanParse(ep.type, makeEndpointTarget(t))

\* What the bulk mode cannot say: such a target, which is logged and left out, and an
\* MX record of the zone itself, for "@" is completed with the zone once more.
Unsayable(ep) ==
  /\ bulk
  /\ \/ Formless(ep)
     \/ /\ ep.type = "MX"
        /\ \E t \in ToSet(ep.targets) :
             FindZone(Zone, ep.name) \in {t.name, makeEndpointTarget(t).name}

Plain(id) ==
  /\ Matches(id[1]) /\ FindZone(Zone, id[1]) \in Managed
  /\ ~RepeatsZone(id[1]) /\ ~TakesApex(id) /\ ~Shadowed(id)
  /\ \A ep \in want : Id(ep) = id => ~Unsayable(ep)

\* A wish that keeps cycles from succeeding: its name repeats its zone's (and the
\* apex is taken, at the latest after the first cycle), is taken by a recordset of
\* somebody else's, or a target cannot be adjusted, or is refused as it is adjusted;
\* the bulk mode goes on without what is refused.
Blocked ==
  \E ep \in want : \/ RepeatsZone(ep.name)
                   \/ \E z \in {FindZone(Zone, ep.name)} \ {NoZone}, type \in RecordType :
                        /\ <<ep.name, type>> \notin Owned
                        /\ Bearers(z, <<ep.name, type>>) # {}
                        /\ "CNAME" \in {type, ep.type}
                   \/ \E t \in ToSet(ep.targets) :
                        ~Encodable(t) \/ (~bulk /\ ~CanParse(ep.type, makeEndpointTarget(t)))

-----------------------------------------------------------------------------
(* What the cycle relies on.                                               *)

\* FindZone looks at a name in Unicode; the name is cut as it is.
InUnicode(n)   == \A i \in DOMAIN n : ToUnicode[n[i]] = n[i]
OwnedInUnicode == \A id \in Owned : InUnicode(id[1])

\* ExternalDNS asks for hosts, with a priority in MX records only, for none twice in
\* one endpoint, and settles conflicts between sources: an alias is asked for alone,
\* no id twice.
WishesOrderly ==
  \A wish \in Wishes : \A ep \in wish :
    /\ \A t \in ToSet(ep.targets) :
         At \notin ToSet(t.name) /\ (ep.type # "MX" => t.prio = NoPriority)
    /\ \A i, j \in DOMAIN ep.targets :
         /\ ep.targets[i].prio = ep.targets[j].prio
         /\ Canonical(ep.targets[i].name) = Canonical(ep.targets[j].name)
         => i = j
    /\ \A other \in wish \ {ep} : other.name = ep.name =>
         ep.type # other.type /\ "CNAME" \notin {ep.type, other.type}

\* Hetzner holds no recordset that it would refuse, and none with a value twice;
\* the labels of others hold no escape sequence.
Decent(rr) ==
  /\ WellFormed(rr) /\ IsInjective(rr.records)
  /\ \A l \in rr.labels : Escape \notin ToSet(l)
HetznerOrderly ==
  /\ \A zones \in StartDNS, z \in Zone :
       Valid(zones[z]) /\ \A rr \in ToSet(zones[z]) : Decent(rr)
  /\ \A rr \in Edits : Decent(rr)

Orderly == OwnedInUnicode /\ WishesOrderly /\ HetznerOrderly

-----------------------------------------------------------------------------
WishesFor(id) == {ep \in want : Id(ep) = id}

\* A recordset says what was asked, and bears the labels that were asked.
Means(z, rr, ep) ==
  /\ Said(z, rr) = Asked(ep)
  /\ bulk \/ extractHetznerLabels(ep.keys) \in {BadLabels, rr.labels}

Fulfilled(id) ==
  LET bearers == Bearers(FindZone(Zone, id[1]), id) IN
  IF WishesFor(id) = {} THEN bearers = {}
  ELSE \E ep \in WishesFor(id), rr \in bearers :
         bearers = {rr} /\ Means(FindZone(Zone, id[1]), rr, ep)

\* After a cycle that succeeded undisturbed, be it over a restart of the
\* webhook, every name that the cluster wants has one recordset, in the deepest
\* zone of its name, which says exactly what was asked and bears the labels that
\* were asked, and no other owned name has any.  However targets are written (with
\* or without the zone, the final dot, a priority; a CNAME also in Unicode), none
\* changes its meaning on the way, and the slash of a label is a slash again.  The
\* bulk mode writes no labels, and leaves out what is Unsayable: all else is written.
CycleMeansWished ==
  settled /\ ~(bulk /\ Blocked) => \A id \in Owned : Plain(id) => Fulfilled(id)

\* What carries CycleMeansWished through an undisturbed cycle: what was read of a
\* zone is what it holds, up to the page that comes next;
ReadInv ==
  \A z \in Zone :
    LET last == (page - 1) * BatchSize
    IN /\ pc = "fetch" => seen[z] = IF z \notin Managed THEN <<>>
                                    ELSE IF z \notin unread THEN dns[z]
                                    ELSE IF z = pageOf THEN SubSeq(dns[z], 1, last)
                                    ELSE <<>>
       /\ pc = "fetch" /\ z = pageOf => last < Len(dns[z])
       /\ pc = "adjust" => seen[z] = IF z \in Managed THEN dns[z] ELSE <<>>

\* the plan names what is not as wished, and comes from what is wished;
AdjustedFrom(ep, wish) ==
  \/ ep = wish
  \/ ep = adjustEndpointTargets(wish) /\ \A t \in ToSet(wish.targets) : Encodable(t)

\* an owned id that nobody wishes any more.
Leftover(id) ==
  /\ Matches(id[1]) /\ FindZone(Zone, id[1]) \in Managed
  /\ WishesFor(id) = {} /\ Bearers(FindZone(Zone, id[1]), id) # {}

PlanInv ==
  pc = "post" \/ (pc = "fetch" /\ purpose = "ApplyChanges") =>
    /\ \A ep \in plan.create \cup plan.update : \E w \in want : AdjustedFrom(ep, w)
    /\ \A ep \in plan.create, other \in plan.create : Id(ep) = Id(other) => ep = other
    /\ \A ep \in plan.delete : WishesFor(Id(ep)) = {}
    /\ \A id \in Owned :
         /\ Leftover(id) => \E ep \in plan.delete : Id(ep) = id
         /\ Plain(id) /\ WishesFor(id) # {} /\ ~Fulfilled(id) =>
              \E ep \in IF Bearers(FindZone(Zone, id[1]), id) = {} THEN plan.create ELSE plan.update :
                 Id(ep) = id

CallId(c) == <<RRName(c.zone, c.rrset), c.rrset.type>>

\* the recordset that a call writes, and what it means;
Written(c) == IF bulk THEN InFile(c.zone, c.rrset, {}) ELSE c.rrset
Grants(c, ep) ==
  IF bulk THEN Unsayable(ep) \/ (Parses(c.rrset) /\ Means(c.zone, Written(c), ep))
  ELSE WellFormed(c.rrset) => Means(c.zone, c.rrset, ep)

\* the calls do what is left to do.
CallsInv ==
  pc = "apply" =>
    /\ \A c \in calls :
         IF c.op = "delete" THEN WishesFor(CallId(c)) = {} ELSE
         TakesApex(CallId(c)) \/ \E ep \in WishesFor(CallId(c)) : Grants(c, ep)
    /\ \A id \in Owned :
         /\ Plain(id) /\ (\A c \in calls : CallId(c) # id) => Fulfilled(id)
         /\ bulk /\ Leftover(id) => \E c \in calls : c.op = "delete" /\ CallId(c) = id
    /\ bulk => \A c \in calls : c.zone \in Managed =>
         /\ Matches(CallId(c)[1])
         /\ c.op = "create" <=> Bearers(c.zone, CallId(c)) = {}
         /\ c.op = "create" => \A d \in calls : d.op = "create" /\ CallId(d) = CallId(c) => d = c

WishInv ==
  ~(bulk /\ Blocked) =>
    /\ quiet => ReadInv /\ PlanInv /\ CallsInv
    /\ settled => (pc # "idle" => quiet) /\ \A id \in Owned : Plain(id) => Fulfilled(id)

\* The values are written as the webhook itself writes them.
WrittenAsOurs(z, rr) ==
  LET ours == extractRRSetRecords(z, rr.type, extractEndpointTargets(z, rr.type, rr.records))
  IN rr = IF bulk THEN InFile(z, [rr EXCEPT !.records = ours], rr.labels)
                  ELSE [rr EXCEPT !.records = ours]

\* Records shows an owned id alike, wherever it is.  Of two that differ, one of
\* them Shadowed, ExternalDNS may see now this one and now that.
ShownAlike ==
  \A y, z \in Managed : \A a \in ToSet(dns[y]), b \in ToSet(dns[z]) :
    LET one   == createEndpointFromRecord(y, a)
        other == createEndpointFromRecord(z, b)
    IN Id(one) = Id(other) /\ Id(one) \in Owned => one = other

\* Once settled the webhook writes nothing: what it stored reads back as what
\* was asked, also when a restart makes AdjustEndpoints leave targets as they
\* are.  Only then targets that are not in ASCII, addresses with a final dot, or
\* values that somebody else stored in another form, would be written again.
AskedAsSent(ep) ==
  \A t \in ToSet(ep.targets) :
    [makeEndpointTarget(t) EXCEPT !.dot = t.dot] = t /\ (ep.type = "A" => ~t.dot)
SettledIsQuiet ==
  [][/\ settled /\ settled'
     /\ \A ep \in want : AskedAsSent(ep) /\ ~RepeatsZone(ep.name)
     /\ ShownAlike
     /\ \/ \A ep \in want : adjustEndpointTargets(ep) = ep
        \/ \A z \in Zone : \A rr \in ToSet(dns[z]) : WrittenAsOurs(z, rr)
     => dns' = dns]_vars

\* What the webhook writes bears a name that ExternalDNS may manage, and lies in
\* the deepest zone of this name: no name is taken for another's, neither by
\* its cut form nor across nested zones.
WritesMeetTheirName ==
  [][dns' # dns /\ Cycle => \A z \in Zone :
       \A rr \in (ToSet(dns[z]) \ ToSet(dns'[z])) \cup (ToSet(dns'[z]) \ ToSet(dns[z])) :
         \/ <<RRName(z, rr), rr.type>> \in Owned /\ z = FindZone(Zone, RRName(z, rr))
         \/ rr.name = <<At>> /\ <<z \o z, rr.type>> \in Owned]_vars

\* A listing that is over has every recordset that was there all the time,
\* unless one was deleted meanwhile: creations shift the pages, but hide none.
ListingComplete ==
  pc = "fetch" => \A z \in Managed \ (unread \cup shrunk) :
                    lasting[z] \subseteq ToSet(seen[z])

\* "makeEndpointTarget makes a endpoint target that conforms to Hetzner DNS
\* requirements": what is sent for a wish whose targets would do does as well.
TargetsConform ==
  \A c \in {c \in calls : c.op # "delete"} : \A ep \in WishesFor(CallId(c)) :
    (\A t \in ToSet(ep.targets) : CanParse(ep.type, t)) => WellFormed(c.rrset)

\* When the edits are over a cycle succeeds, whatever the pages were like
\* in the meantime, unless a wish forbids it.
Settles == <>[](settled \/ Blocked)
=============================================================================
