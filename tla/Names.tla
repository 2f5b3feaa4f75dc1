------------------------------- MODULE Names -------------------------------
(***************************************************************************)
(* How names, targets and label keys are translated between ExternalDNS    *)
(* and Hetzner (endpoints.go, change_processors.go, zoneidmap.go,          *)
(* labels.go).                                                             *)
(*                                                                         *)
(* A DNS name is the sequence of its parts, most specific first.  A target *)
(* or a record value is a name with or without a final dot, behind a       *)
(* priority in an MX record; an address is a name of one part.  A label    *)
(* key is a sequence of words, slashes and escape sequences; the map of    *)
(* the labels is the set of its keys.                                      *)
(***************************************************************************)
EXTENDS Naturals, SequencesExt

CONSTANTS
  Part,            \* the parts of DNS names
  At,              \* "@", which stands for the zone itself
  ToUnicode,       \* idna.ToUnicode of a part, itself when it has an underscore
  ToASCII,         \* idna.ToASCII of a part
  Unencodable,     \* what ToASCII gives for a part that has no ASCII form
  Priority,        \* what may stand before the host in an MX record
  Numeric,         \* the priorities that are integers
  NoPriority,      \* no priority
  BehindPriority,  \* idna.ToASCII of a priority, a space and a part, as one label
  Word,            \* the words of label keys
  Slash,           \* "/"
  Escape,          \* SLASH_ESC_SEQ
  BadLabels        \* labels that do not parse

\* A label that is not in ASCII gets the prefix xn--, and so does the priority in it.
\* (Left out: a priority that is itself the punycode of a number.)
KeepsOrSpoils(prio, part) ==
  BehindPriority[prio, part] = <<prio, part>> \/ BehindPriority[prio, part][1] \notin Numeric

ASSUME NamesAssumption ==
  /\ At \notin Part /\ Unencodable \notin Part \cup {At}
  /\ ToUnicode \in [Part -> Part]
  /\ ToASCII \in [Part -> Part \cup {Unencodable}]
  /\ \A p \in Part : ToASCII[p] = Unencodable \/ ToASCII[ToASCII[p]] = ToASCII[p]
  /\ Numeric \subseteq Priority /\ NoPriority \notin Priority
  /\ BehindPriority \in [Priority \X Part -> Priority \X (Part \cup {Unencodable})]
  /\ \A prio \in Priority, part \in Part : KeepsOrSpoils(prio, part)
  /\ Slash \notin Word /\ Escape \notin Word \cup {Slash}

Name == Seq(Part) \ {<<>>}
Text == [prio : Priority \cup {NoPriority}, name : Seq(Part \cup {At}), dot : BOOLEAN]
Key  == Seq(Word \cup {Slash, Escape})

-----------------------------------------------------------------------------
(* Names.                                                                  *)

\* strings.HasSuffix(n, "." + zone)
Below(n, zone) == IsStrictSuffix(zone, n)

\* strings.TrimSuffix(n, "." + zone)
CutZone(n, zone) == IF Below(n, zone) THEN SubSeq(n, 1, Len(n) - Len(zone)) ELSE n

NoZone == <<>>

\* The longest of the zones that the name, in Unicode, is in.
FindZone(zones, n) ==
  LET unicode  == [i \in DOMAIN n |-> ToUnicode[n[i]]]
      suitable == {z \in zones : unicode = z \/ Below(unicode, z)}
  IN IF suitable = {} THEN NoZone
     ELSE CHOOSE z \in suitable : \A y \in suitable : Len(y) <= Len(z)

\* A slip: the apex keeps its name.
makeEndpointNameUncut(zone, n) == CutZone(n, zone)

makeEndpointName(zone, n) ==
  LET cut == CutZone(n, zone) IN IF cut = zone THEN <<At>> ELSE cut

\* A slip: the apex is looked for under the name of the zone.
MatchingNameCut(zone, n) == CutZone(n, zone)

\* The name that getMatchingDomainRRSet looks for.
MatchingName(zone, n) == IF n = zone THEN <<At>> ELSE CutZone(n, zone)

\* The name of the endpoint that createEndpointFromRecord makes.
EndpointName(zone, n) == IF n = <<At>> THEN zone ELSE n \o zone

-----------------------------------------------------------------------------
(* Targets, as AdjustEndpoints leaves them, as Hetzner stores them and as  *)
(* Records returns them.                                                   *)

ASCII(n) == [i \in DOMAIN n |-> IF n[i] = At THEN At ELSE ToASCII[n[i]]]

\* The conversion takes the whole target for a name: a priority is part of its
\* first label.
HasPriority(t) == t.prio # NoPriority /\ t.name # <<>>
FirstLabel(t)  == IF t.name[1] = At THEN <<t.prio, At>> ELSE BehindPriority[t.prio, t.name[1]]

makeEndpointTarget(t) ==
  IF HasPriority(t)
  THEN [prio |-> FirstLabel(t)[1], name |-> <<FirstLabel(t)[2]>> \o ASCII(Tail(t.name)), dot |-> FALSE]
  ELSE [t EXCEPT !.name = ASCII(@), !.dot = FALSE]

Encodable(t) == Unencodable \notin ToSet(makeEndpointTarget(t).name)

\* Slips: an external target gets no dot; a target with a dot is not cut.
adjustCNAMETargetUndotted(zone, t) ==
  IF Below(t.name, zone) THEN [t EXCEPT !.name = CutZone(@, zone), !.dot = FALSE] ELSE t
adjustCNAMETargetUncut(zone, t) ==
  IF Below(t.name, zone) /\ ~t.dot THEN [t EXCEPT !.name = CutZone(@, zone)]
                                   ELSE [t EXCEPT !.dot = TRUE]

\* A target in the zone loses the zone, another one ends with a dot.
adjustCNAMETarget(zone, t) ==
  IF Below(t.name, zone) THEN [t EXCEPT !.name = CutZone(@, zone), !.dot = FALSE]
                         ELSE [t EXCEPT !.dot = TRUE]

adjustMXTarget(zone, t) ==
  IF t.prio \notin Numeric THEN t
  ELSE IF t.name = zone THEN [t EXCEPT !.name = <<At>>, !.dot = FALSE]
  ELSE adjustCNAMETarget(zone, t)

fromHetznerHostname(zone, t) ==
  IF t.name = <<At>> /\ ~t.dot THEN [t EXCEPT !.name = zone]
  ELSE IF t.dot THEN [t EXCEPT !.dot = FALSE]
  ELSE [t EXCEPT !.name = @ \o zone]

extractRRSetRecords(zone, type, targets) ==
  [i \in DOMAIN targets |->
     CASE type = "CNAME" -> adjustCNAMETarget(zone, targets[i])
       [] type = "MX"    -> adjustMXTarget(zone, targets[i])
       [] OTHER          -> targets[i]]

extractEndpointTargets(zone, type, records) ==
  [i \in DOMAIN records |->
     IF type = "CNAME" \/ (type = "MX" /\ records[i].prio # NoPriority)
     THEN fromHetznerHostname(zone, records[i]) ELSE records[i]]

\* The code compares the lengths and looks for values of the second list that
\* the first has not.
sameZoneRRSetRecords(first, second) ==
  Len(first) = Len(second) /\ ToSet(second) \subseteq ToSet(first)

-----------------------------------------------------------------------------
(* Values as the bulk mode writes them into a zonefile.                    *)

\* "@" is taken for a part of a name.
expandTarget(zone, t) == IF t.dot THEN t ELSE [t EXCEPT !.name = @ \o zone, !.dot = TRUE]

\* An address ends with no dot, a priority is a number.
CanParse(type, value) ==
  /\ type = "A" => ~value.dot
  /\ type = "MX" => value.prio \in Numeric

parseRecord(zone, type, value) == IF type = "A" THEN value ELSE expandTarget(zone, value)

-----------------------------------------------------------------------------
(* Labels.                                                                 *)

\* A slash may not appear in the name of an annotation.
getProviderSpecific(labels) == {ReplaceAll(l, Slash, Escape) : l \in labels}

checkLabel(l) == l # <<>> /\ {l[1], l[Len(l)]} \subseteq Word

extractHetznerLabels(keys) ==
  LET labels == {ReplaceAll(k, Escape, Slash) : k \in keys}
  IN IF \A l \in labels : checkLabel(l) THEN labels ELSE BadLabels
=============================================================================
