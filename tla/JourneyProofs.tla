---------------------------- MODULE JourneyProofs ----------------------------
(***************************************************************************)
(* Theorems about Journey, for any zones, names, wishes and pages.         *)
(***************************************************************************)
EXTENDS Journey, SequenceTheorems, FiniteSetTheorems, WellFoundedInduction, TLAPS

-----------------------------------------------------------------------------
(* Numbers, sequences and finite sets.                                     *)

LessThan == {p \in Nat \X Nat : p[1] < p[2]}

\* A set of natural numbers has a least element.
LEMMA LeastElement ==
  ASSUME NEW S \in SUBSET Nat, S # {}
  PROVE  \E m \in S : \A n \in S : m <= n
  <1>1. IsWellFoundedOn(LessThan, Nat)
    <2>1. LessThan = OpToRel(<, Nat)
      BY Zenon DEF LessThan, OpToRel
    <2>2. QED  BY <2>1, NatLessThanWellFounded, Zenon
  <1>2. PICK m \in S : \A n \in S : <<n, m>> \notin LessThan
    BY <1>1, WFMin
  <1>3. ASSUME NEW n \in S
        PROVE  m <= n
    <2>1. m \in Nat /\ n \in Nat
      OBVIOUS
    <2>2. <<n, m>> \notin LessThan
      BY <1>2
    <2>3. QED  BY <2>1, <2>2, Z3 DEF LessThan
  <1>4. QED  BY <1>3

LEMMA MinIsIn ==
  ASSUME NEW S \in SUBSET Nat, S # {}
  PROVE  Min(S) \in S
  BY LeastElement DEF Min

\* An image of a finite set is finite.
LEMMA ImageFinite ==
  ASSUME NEW S, IsFiniteSet(S), NEW f
  PROVE  IsFiniteSet({f[x] : x \in S})
  <1> DEFINE g == [x \in S |-> f[x]]
             T == {f[x] : x \in S}
  <1>1. g \in [S -> T]
    OBVIOUS
  <1>2. \A t \in T : \E x \in S : g[x] = t
    OBVIOUS
  <1>3. g \in Surjection(S, T)
    BY <1>1, <1>2 DEF Surjection
  <1>4. QED  BY <1>3, FS_Surjection

LEMMA ToSetFinite ==
  ASSUME NEW S, NEW s \in Seq(S)
  PROVE  IsFiniteSet(ToSet(s)) /\ ToSet(s) \subseteq S
  <1>1. DOMAIN s = 1..Len(s) /\ Len(s) \in Nat
    OBVIOUS
  <1>2. IsFiniteSet(DOMAIN s)
    BY <1>1, FS_Interval
  <1>3. IsFiniteSet(ToSet(s))
    BY <1>2, ImageFinite DEF ToSet
  <1>4. QED  BY <1>3 DEF ToSet

\* What is put, replaced and removed in a sequence.
LEMMA InsertType ==
  ASSUME NEW S, NEW s \in Seq(S), NEW i \in 1..Len(s) + 1, NEW e \in S
  PROVE  InsertAt(s, i, e) \in Seq(S)
  BY DEF InsertAt

LEMMA ReplaceType ==
  ASSUME NEW S, NEW s \in Seq(S), NEW i \in DOMAIN s, NEW e \in S
  PROVE  ReplaceAt(s, i, e) \in Seq(S)
  BY DEF ReplaceAt

LEMMA RemoveType ==
  ASSUME NEW S, NEW s \in Seq(S), NEW i \in DOMAIN s
  PROVE  RemoveAt(s, i) \in Seq(S)
  BY DEF RemoveAt

LEMMA ReplaceAllType ==
  ASSUME NEW S, NEW s \in Seq(S), NEW old, NEW new \in S
  PROVE  ReplaceAll(s, old, new) \in Seq(S)
  BY DEF ReplaceAll

\* A listing of a finite set is a sequence.
LEMMA ListingType ==
  ASSUME NEW S, NEW T \in SUBSET S, IsFiniteSet(T), NEW s \in SetToSeqs(T)
  PROVE  s \in Seq(S)
  <1>1. Cardinality(T) \in Nat
    BY FS_CardinalityType
  <1>2. s \in [1..Cardinality(T) -> T]
    BY DEF SetToSeqs
  <1>3. s \in [1..Cardinality(T) -> S]
    BY <1>2
  <1>4. QED  BY <1>1, <1>3

-----------------------------------------------------------------------------
(* Names.                                                                  *)

\* One name lies below another if it ends with it and is longer.
LEMMA BelowMeans ==
  ASSUME NEW S, NEW n \in Seq(S), NEW zone \in Seq(S)
  PROVE  Below(n, zone) <=> /\ Len(zone) < Len(n)
                            /\ \A i \in 1..Len(zone) : n[Len(n) - Len(zone) + i] = zone[i]
  <1> DEFINE rn == Reverse(n)
             rz == Reverse(zone)
  <1>1. /\ rn \in Seq(S) /\ Len(rn) = Len(n)
        /\ \A i \in 1..Len(n) : rn[i] = n[(Len(n) - i) + 1]
    BY DEF Reverse
  <1>2. /\ rz \in Seq(S) /\ Len(rz) = Len(zone)
        /\ \A i \in 1..Len(zone) : rz[i] = zone[(Len(zone) - i) + 1]
    BY DEF Reverse
  <1> HIDE DEF rn, rz
  <1>3. Below(n, zone) <=> IsPrefix(rz, rn) /\ zone # n
    BY DEF Below, IsStrictSuffix, IsSuffix, rn, rz
  <1>4. CASE Len(zone) > Len(n)
    BY <1>1, <1>2, <1>3, <1>4 DEF IsPrefix
  <1>5. CASE Len(zone) <= Len(n)
    <2>1. SubSeq(rz, 1, Len(rz)) = rz
      BY <1>2, SubSeqFull
    <2> DEFINE p == SubSeq(rn, 1, Len(rz))
    <2>2. p \in Seq(S) /\ Len(p) = Len(zone) /\ \A i \in 1..Len(zone) : p[i] = rn[i]
      BY <1>1, <1>2, <1>5
    <2> HIDE DEF p
    <2>3. IsPrefix(rz, rn) <=> rz = p
      BY <1>1, <1>2, <1>5, <2>1 DEF IsPrefix, p
    <2>4. rz = p <=> \A i \in 1..Len(zone) : rz[i] = p[i]
      BY <1>2, <2>2, SeqEqual
    <2>5. IsPrefix(rz, rn) <=>
            \A i \in 1..Len(zone) : zone[(Len(zone) - i) + 1] = n[(Len(n) - i) + 1]
      <3>1. \A i \in 1..Len(zone) : /\ rz[i] = zone[(Len(zone) - i) + 1]
                                    /\ p[i] = n[(Len(n) - i) + 1]
        <4>1. \A i \in 1..Len(zone) : i \in 1..Len(n)
          BY <1>5
        <4>2. QED  BY <1>1, <1>2, <2>2, <4>1
      <3>2. QED  BY <2>3, <2>4, <3>1
    <2>6. IsPrefix(rz, rn) <=> \A i \in 1..Len(zone) : n[Len(n) - Len(zone) + i] = zone[i]
      <3>1. ASSUME \A i \in 1..Len(zone) : zone[(Len(zone) - i) + 1] = n[(Len(n) - i) + 1],
                   NEW i \in 1..Len(zone)
            PROVE  n[Len(n) - Len(zone) + i] = zone[i]
        <4> DEFINE j == (Len(zone) - i) + 1
        <4>1. /\ j \in 1..Len(zone) /\ (Len(zone) - j) + 1 = i
              /\ (Len(n) - j) + 1 = Len(n) - Len(zone) + i
          BY <1>5
        <4>2. zone[(Len(zone) - j) + 1] = n[(Len(n) - j) + 1]
          BY <3>1, <4>1
        <4>3. QED  BY <4>1, <4>2
      <3>2. ASSUME \A i \in 1..Len(zone) : n[Len(n) - Len(zone) + i] = zone[i],
                   NEW i \in 1..Len(zone)
            PROVE  zone[(Len(zone) - i) + 1] = n[(Len(n) - i) + 1]
        <4> DEFINE j == (Len(zone) - i) + 1
        <4>1. /\ j \in 1..Len(zone)
              /\ (Len(n) - i) + 1 = Len(n) - Len(zone) + j
          BY <1>5
        <4>2. n[Len(n) - Len(zone) + j] = zone[j]
          BY <3>2, <4>1
        <4>3. QED  BY <4>1, <4>2
      <3>3. QED  BY <2>5, <3>1, <3>2
    <2>7. CASE Len(zone) = Len(n)
      <3>1. IsPrefix(rz, rn) <=> \A i \in 1..Len(zone) : n[i] = zone[i]
        BY <2>6, <2>7
      <3>2. IsPrefix(rz, rn) => zone = n
        BY <3>1, <2>7, SeqEqual
      <3>3. QED  BY <1>3, <3>2, <2>7
    <2>8. CASE Len(zone) < Len(n)
      BY <1>3, <2>6, <2>8
    <2>9. QED  BY <1>5, <2>7, <2>8
  <1>6. QED  BY <1>4, <1>5

LEMMA CutType ==
  ASSUME NEW S, NEW n \in Seq(S), NEW zone \in Seq(S)
  PROVE  CutZone(n, zone) \in Seq(S) /\ (n # <<>> => CutZone(n, zone) # <<>>)
  <1>1. CASE Below(n, zone)
    <2>1. Len(zone) < Len(n)
      BY <1>1, BelowMeans
    <2> DEFINE k == Len(n) - Len(zone)
               cut == SubSeq(n, 1, k)
    <2>2. k \in 1..Len(n)
      BY <2>1
    <2> HIDE DEF k
    <2>3. cut \in Seq(S) /\ Len(cut) = k
      BY <2>2
    <2>4. CutZone(n, zone) = cut
      BY <1>1 DEF CutZone, k
    <2>5. QED  BY <2>2, <2>3, <2>4
  <1>2. CASE ~Below(n, zone)
    BY <1>2 DEF CutZone
  <1>3. QED  BY <1>1, <1>2

\* The zones that a name is in.
Suitable(zones, n) ==
  LET unicode == [i \in DOMAIN n |-> ToUnicode[n[i]]]
  IN {z \in zones : unicode = z \/ Below(unicode, z)}

\* FindZone gives one of the longest of them.
LEMMA LongestIsFound ==
  ASSUME NEW zones \in SUBSET Name, NEW n \in Seq(Part)
  PROVE  \/ Suitable(zones, n) = {} /\ FindZone(zones, n) = NoZone
         \/ /\ FindZone(zones, n) \in Suitable(zones, n)
            /\ \A y \in Suitable(zones, n) : Len(y) <= Len(FindZone(zones, n))
  <1> DEFINE unicode == [i \in DOMAIN n |-> ToUnicode[n[i]]]
             S       == Suitable(zones, n)
  <1>1. S = {z \in zones : unicode = z \/ Below(unicode, z)}
    BY DEF Suitable
  <1>2. unicode \in Seq(Part)
    BY NamesAssumption
  <1>3. FindZone(zones, n) = IF S = {} THEN NoZone
                             ELSE CHOOSE z \in S : \A y \in S : Len(y) <= Len(z)
    BY DEF FindZone, Suitable
  <1> HIDE DEF unicode, S
  <1>4. CASE S = {}
    BY <1>3, <1>4 DEF S
  <1>5. CASE S # {}
    <2> DEFINE rest(z) == Len(unicode) - Len(z)
               R       == {rest(z) : z \in S}
    <2>1. \A z \in S : Len(z) \in Nat /\ rest(z) \in Nat
      <3>1. SUFFICES ASSUME NEW z \in S
                     PROVE  Len(z) \in Nat /\ Len(unicode) - Len(z) \in Nat
        OBVIOUS
      <3>2. z \in Seq(Part)
        BY <1>1 DEF Name
      <3>3. Len(z) <= Len(unicode)
        BY <1>1, <1>2, <3>2, BelowMeans
      <3>4. QED  BY <1>2, <3>2, <3>3
    <2>2. R \in SUBSET Nat /\ R # {}
      BY <1>5, <2>1
    <2>3. PICK m \in R : \A r \in R : m <= r
      BY <2>2, LeastElement
    <2>4. PICK z \in S : m = rest(z)
      OBVIOUS
    <2>5. \A y \in S : rest(z) <= rest(y)
      BY <2>3, <2>4
    <2>6. \A y \in S : Len(y) <= Len(z)
      BY <1>2, <2>1, <2>5
    <2>7. QED  BY <1>3, <1>5, <2>6 DEF S
  <1>6. QED  BY <1>4, <1>5

LEMMA FindZoneType ==
  ASSUME NEW zones \in SUBSET Zone, NEW n \in Seq(Part)
  PROVE  FindZone(zones, n) \in zones \cup {NoZone}
  <1>1. zones \in SUBSET Name
    BY JourneyAssumption
  <1>2. QED  BY <1>1, LongestIsFound DEF Suitable

-----------------------------------------------------------------------------
(* What the conversions give.                                              *)

LEMMA ZoneIsAName ==
  /\ \A z \in Zone : z \in Name /\ z \in Seq(Part) /\ z \in Seq(Part \cup {At}) /\ z # NoZone
  /\ NoZone \notin Zone
  <1>1. \A z \in Name : z \in Seq(Part) /\ z \in Seq(Part \cup {At}) /\ z # <<>>
    BY SeqMonotonic DEF Name
  <1>2. QED  BY <1>1, JourneyAssumption DEF NoZone

LEMMA EndpointNameType ==
  ASSUME NEW zone \in Zone, NEW n \in Name \cup {<<At>>}
  PROVE  EndpointName(zone, n) \in Name
  <1>1. CASE n = <<At>>
    BY <1>1, ZoneIsAName DEF EndpointName
  <1>2. CASE n # <<At>>
    <2>1. n \in Seq(Part) /\ zone \in Seq(Part) /\ zone # <<>>
      BY <1>2, ZoneIsAName DEF Name, NoZone
    <2>2. n \o zone \in Seq(Part) /\ n \o zone # <<>>
      BY <2>1, ConcatProperties, ConcatEqualIffEmpty
    <2>3. QED  BY <1>2, <2>2 DEF EndpointName, Name
  <1>3. QED  BY <1>1, <1>2

LEMMA CutNameType ==
  ASSUME NEW zone \in Zone, NEW n \in Name
  PROVE  /\ CutZone(n, zone) \in Name
         /\ makeEndpointName(zone, n) \in Name \cup {<<At>>}
  <1>1. n \in Seq(Part) /\ n # <<>> /\ zone \in Seq(Part)
    BY ZoneIsAName DEF Name
  <1>2. CutZone(n, zone) \in Name
    BY <1>1, CutType DEF Name
  <1>3. QED  BY <1>2 DEF makeEndpointName

LEMMA TextParts ==
  ASSUME NEW t \in Text
  PROVE  /\ t.prio \in Priority \cup {NoPriority}
         /\ t.name \in Seq(Part \cup {At})
         /\ t.dot \in BOOLEAN
  BY DEF Text

LEMMA TextWith ==
  ASSUME NEW t \in Text, NEW n \in Seq(Part \cup {At}), NEW d \in BOOLEAN
  PROVE  /\ [t EXCEPT !.name = n] \in Text
         /\ [t EXCEPT !.dot = d] \in Text
         /\ [t EXCEPT !.name = n, !.dot = d] \in Text
  BY DEF Text

LEMMA ASCIIType ==
  ASSUME NEW n \in Seq(Part \cup {At})
  PROVE  ASCII(n) \in Seq(Part \cup {At, Unencodable}) /\ DOMAIN ASCII(n) = 1..Len(n)
  <1> DEFINE S == Part \cup {At, Unencodable}
  <1>1. \A i \in 1..Len(n) : (IF n[i] = At THEN At ELSE ToASCII[n[i]]) \in S
    BY NamesAssumption
  <1>2. DOMAIN n = 1..Len(n) /\ Len(n) \in Nat
    OBVIOUS
  <1>3. ASCII(n) = [i \in 1..Len(n) |-> IF n[i] = At THEN At ELSE ToASCII[n[i]]]
    BY <1>2 DEF ASCII
  <1> HIDE DEF S
  <1>4. ASCII(n) \in Seq(S)
    BY <1>1, <1>2, <1>3
  <1>5. QED  BY <1>3, <1>4 DEF S

\* The first label of a target with a priority.
LEMMA FirstLabelType ==
  ASSUME NEW t \in Text, HasPriority(t)
  PROVE  /\ FirstLabel(t)[1] \in Priority
         /\ FirstLabel(t)[2] \in Part \cup {At, Unencodable}
  <1>1. t.prio \in Priority /\ t.name \in Seq(Part \cup {At}) /\ t.name # <<>>
    BY TextParts, Zenon DEF HasPriority
  <1>2. t.name[1] \in Part \cup {At}
    BY <1>1
  <1>3. CASE t.name[1] = At
    BY <1>1, <1>3 DEF FirstLabel
  <1>4. CASE t.name[1] # At
    <2>1. <<t.prio, t.name[1]>> \in Priority \X Part
      BY <1>1, <1>2, <1>4
    <2>2. BehindPriority[t.prio, t.name[1]] \in Priority \X (Part \cup {Unencodable})
      BY <2>1, NamesAssumption
    <2>3. QED  BY <1>4, <2>2 DEF FirstLabel
  <1>5. QED  BY <1>3, <1>4

LEMMA AdjustedTargetType ==
  ASSUME NEW t \in Text, Encodable(t)
  PROVE  makeEndpointTarget(t) \in Text
  <1>1. t.name \in Seq(Part \cup {At})
    BY TextParts
  <1>2. ASSUME NEW n \in Seq(Part \cup {At, Unencodable}), Unencodable \notin ToSet(n)
        PROVE  n \in Seq(Part \cup {At})
    <2>1. \A i \in 1..Len(n) : n[i] \in Part \cup {At}
      BY <1>2 DEF ToSet
    <2>2. n = [i \in 1..Len(n) |-> n[i]] /\ Len(n) \in Nat
      OBVIOUS
    <2>3. QED  BY <2>1, <2>2
  <1>3. CASE ~HasPriority(t)
    <2> DEFINE a == ASCII(t.name)
    <2>1. makeEndpointTarget(t) = [t EXCEPT !.name = a, !.dot = FALSE]
      BY <1>3 DEF makeEndpointTarget
    <2>2. a \in Seq(Part \cup {At, Unencodable})
      BY <1>1, ASCIIType
    <2> HIDE DEF a
    <2>3. makeEndpointTarget(t).name = a
      BY <2>1 DEF Text
    <2>4. a \in Seq(Part \cup {At})
      BY <1>2, <2>2, <2>3 DEF Encodable
    <2>5. QED  BY <2>1, <2>4, TextWith
  <1>4. CASE HasPriority(t)
    <2> DEFINE a == <<FirstLabel(t)[2]>> \o ASCII(Tail(t.name))
    <2>1. makeEndpointTarget(t) = [prio |-> FirstLabel(t)[1], name |-> a, dot |-> FALSE]
      BY <1>4 DEF makeEndpointTarget
    <2>2. Tail(t.name) \in Seq(Part \cup {At})
      BY <1>1, <1>4 DEF HasPriority
    <2>3. ASCII(Tail(t.name)) \in Seq(Part \cup {At, Unencodable})
      BY <2>2, ASCIIType
    <2>4. FirstLabel(t)[1] \in Priority /\ FirstLabel(t)[2] \in Part \cup {At, Unencodable}
      BY <1>4, FirstLabelType
    <2>5. a \in Seq(Part \cup {At, Unencodable})
      BY <2>3, <2>4
    <2> HIDE DEF a
    <2>6. a \in Seq(Part \cup {At})
      BY <1>2, <2>1, <2>5 DEF Encodable
    <2>7. QED  BY <2>1, <2>4, <2>6 DEF Text
  <1>5. QED  BY <1>3, <1>4

LEMMA HostTypes ==
  ASSUME NEW zone \in Zone, NEW t \in Text
  PROVE  /\ adjustCNAMETarget(zone, t) \in Text
         /\ adjustMXTarget(zone, t) \in Text
         /\ fromHetznerHostname(zone, t) \in Text
         /\ expandTarget(zone, t) \in Text
  <1>1. t.name \in Seq(Part \cup {At}) /\ zone \in Seq(Part \cup {At})
    BY TextParts, ZoneIsAName
  <1>2. FALSE \in BOOLEAN /\ TRUE \in BOOLEAN
    OBVIOUS
  <1>3. /\ CutZone(t.name, zone) \in Seq(Part \cup {At})
        /\ t.name \o zone \in Seq(Part \cup {At})
        /\ <<At>> \in Seq(Part \cup {At})
    BY <1>1, CutType, ConcatProperties
  <1>4. adjustCNAMETarget(zone, t) \in Text
    BY <1>1, <1>2, <1>3, TextWith DEF adjustCNAMETarget
  <1>5. adjustMXTarget(zone, t) \in Text
    BY <1>2, <1>3, <1>4, TextWith DEF adjustMXTarget
  <1>6. fromHetznerHostname(zone, t) \in Text
    BY <1>1, <1>2, <1>3, TextWith DEF fromHetznerHostname
  <1>7. expandTarget(zone, t) \in Text
    BY <1>2, <1>3, TextWith DEF expandTarget
  <1>8. QED  BY <1>4, <1>5, <1>6, <1>7

LEMMA TargetsType ==
  ASSUME NEW zone \in Zone, NEW type, NEW texts \in Seq(Text)
  PROVE  /\ extractRRSetRecords(zone, type, texts) \in Seq(Text)
         /\ extractEndpointTargets(zone, type, texts) \in Seq(Text)
         /\ [i \in DOMAIN texts |-> parseRecord(zone, type, texts[i])] \in Seq(Text)
  <1>1. DOMAIN texts = 1..Len(texts) /\ Len(texts) \in Nat /\ \A i \in DOMAIN texts : texts[i] \in Text
    OBVIOUS
  <1>2. extractRRSetRecords(zone, type, texts) \in Seq(Text)
    <2> DEFINE s == extractRRSetRecords(zone, type, texts)
    <2>1. \A i \in DOMAIN texts : s[i] \in Text
      BY <1>1, HostTypes DEF extractRRSetRecords
    <2>2. s = [i \in 1..Len(texts) |-> s[i]]
      BY <1>1 DEF extractRRSetRecords
    <2> HIDE DEF s
    <2>3. s \in Seq(Text)
      BY <1>1, <2>1, <2>2
    <2>4. QED  BY <2>3 DEF s
  <1>3. extractEndpointTargets(zone, type, texts) \in Seq(Text)
    <2> DEFINE s == extractEndpointTargets(zone, type, texts)
    <2>1. \A i \in DOMAIN texts : s[i] \in Text
      BY <1>1, HostTypes DEF extractEndpointTargets
    <2>2. s = [i \in 1..Len(texts) |-> s[i]]
      BY <1>1 DEF extractEndpointTargets
    <2> HIDE DEF s
    <2>3. s \in Seq(Text)
      BY <1>1, <2>1, <2>2
    <2>4. QED  BY <2>3 DEF s
  <1>4. [i \in DOMAIN texts |-> parseRecord(zone, type, texts[i])] \in Seq(Text)
    <2> DEFINE s == [i \in DOMAIN texts |-> parseRecord(zone, type, texts[i])]
    <2>1. \A i \in DOMAIN texts : s[i] \in Text
      BY <1>1, HostTypes DEF parseRecord
    <2>2. s = [i \in 1..Len(texts) |-> s[i]]
      BY <1>1
    <2> HIDE DEF s
    <2>3. s \in Seq(Text)
      BY <1>1, <2>1, <2>2
    <2>4. QED  BY <2>3 DEF s
  <1>5. QED  BY <1>2, <1>3, <1>4

LEMMA KeysType ==
  ASSUME NEW keys \in SUBSET Key
  PROVE  /\ getProviderSpecific(keys) \in SUBSET Key
         /\ \A other \in SUBSET Key : LabelsOr(keys, other) \in SUBSET Key
  <1>1. \A k \in keys : ReplaceAll(k, Slash, Escape) \in Key /\ ReplaceAll(k, Escape, Slash) \in Key
    BY ReplaceAllType DEF Key
  <1>2. getProviderSpecific(keys) \in SUBSET Key
    BY <1>1 DEF getProviderSpecific
  <1>3. {ReplaceAll(k, Escape, Slash) : k \in keys} \in SUBSET Key
    BY <1>1
  <1>4. extractHetznerLabels(keys) \in SUBSET Key \/ extractHetznerLabels(keys) = BadLabels
    BY <1>3, Zenon DEF extractHetznerLabels
  <1>5. \A other \in SUBSET Key : LabelsOr(keys, other) \in SUBSET Key
    BY <1>4, Zenon DEF LabelsOr
  <1>6. QED  BY <1>2, <1>5

-----------------------------------------------------------------------------
(* What Records returns and what ExternalDNS plans.                        *)

\* The sets that a zonefile is made of are finite.
Finite ==
  /\ IsFiniteSet(want)
  /\ \A op \in {"create", "update", "delete"} : IsFiniteSet(plan[op])
  /\ IsFiniteSet(calls)

LEMMA EndpointFields ==
  ASSUME NEW ep \in Endpoint
  PROVE  ep.name \in Name /\ ep.type \in RecordType /\ ep.targets \in Seq(Text) /\ ep.keys \in SUBSET Key
  BY DEF Endpoint

LEMMA RRSetFields ==
  ASSUME NEW rr \in RRSet
  PROVE  /\ rr.name \in Name \cup {<<At>>} /\ rr.type \in RecordType
         /\ rr.records \in Seq(Text) /\ rr.labels \in SUBSET Key
  BY DEF RRSet

LEMMA ShownType ==
  ASSUME TypeOK
  PROVE  Shown \in SUBSET Endpoint /\ IsFiniteSet(Shown)
  <1> DEFINE made(z) == {createEndpointFromRecord(z, rr) : rr \in ToSet(seen[z])}
  <1>1. ASSUME NEW z \in Zone
        PROVE  made(z) \in SUBSET Endpoint /\ IsFiniteSet(made(z))
    <2> DEFINE S == ToSet(seen[z])
    <2>1. S \in SUBSET RRSet /\ IsFiniteSet(S)
      BY ToSetFinite DEF TypeOK
    <2> HIDE DEF S
    <2>2. ASSUME NEW rr \in S
          PROVE  createEndpointFromRecord(z, rr) \in Endpoint
      <3>1. rr \in RRSet
        BY <2>1
      <3>2. EndpointName(z, rr.name) \in Name
        BY <3>1, RRSetFields, EndpointNameType
      <3>3. extractEndpointTargets(z, rr.type, rr.records) \in Seq(Text)
        BY <3>1, RRSetFields, TargetsType
      <3>4. getProviderSpecific(rr.labels) \in SUBSET Key
        BY <3>1, RRSetFields, KeysType
      <3>5. rr.type \in RecordType
        BY <3>1, RRSetFields
      <3>6. QED  BY <3>2, <3>3, <3>4, <3>5 DEF createEndpointFromRecord, Endpoint
    <2> DEFINE f == [rr \in S |-> createEndpointFromRecord(z, rr)]
    <2>3. made(z) = {f[rr] : rr \in S}
      BY DEF S
    <2>4. IsFiniteSet({f[rr] : rr \in S})
      <3> HIDE DEF f
      <3>1. QED  BY <2>1, ImageFinite
    <2>5. QED  BY <2>2, <2>3, <2>4 DEF S
  <1> DEFINE g == [z \in Zone |-> made(z)]
             U == {g[z] : z \in Zone}
  <1>2. Shown = UNION U
    BY DEF Shown
  <1>3. IsFiniteSet(U)
    <2> HIDE DEF g
    <2>1. QED  BY JourneyAssumption, ImageFinite
  <1>4. \A u \in U : IsFiniteSet(u) /\ u \in SUBSET Endpoint
    BY <1>1
  <1> HIDE DEF U
  <1>5. QED  BY <1>2, <1>3, <1>4, FS_UNION

LEMMA AdjustedType ==
  ASSUME TypeOK, CanAdjust, NEW ep \in want
  PROVE  AdjustEndpoint(ep) \in Endpoint
  <1>1. ep \in Endpoint
    BY DEF TypeOK
  <1>2. CASE InZone(ep)
    <2> DEFINE texts == ep.targets
               s     == [i \in DOMAIN texts |-> makeEndpointTarget(texts[i])]
    <2>1. texts \in Seq(Text)
      BY <1>1, EndpointFields
    <2>2. \A i \in DOMAIN texts : texts[i] \in Text /\ Encodable(texts[i])
      <3>1. \A t \in ToSet(texts) : Encodable(t)
        BY <1>2 DEF CanAdjust
      <3> HIDE DEF texts
      <3>2. \A i \in DOMAIN texts : texts[i] \in Text /\ texts[i] \in ToSet(texts)
        BY <2>1 DEF ToSet
      <3>3. QED  BY <3>1, <3>2
    <2>3. AdjustEndpoint(ep) = [ep EXCEPT !.targets = s]
      BY <1>2 DEF AdjustEndpoint, adjustEndpointTargets
    <2> HIDE DEF texts
    <2>4. DOMAIN texts = 1..Len(texts) /\ Len(texts) \in Nat
      BY <2>1
    <2>5. \A i \in 1..Len(texts) : s[i] \in Text
      BY <2>2, <2>4, AdjustedTargetType
    <2>6. s = [i \in 1..Len(texts) |-> s[i]]
      BY <2>4
    <2> HIDE DEF s
    <2>7. s \in Seq(Text)
      BY <2>4, <2>5, <2>6
    <2>8. QED  BY <1>1, <2>3, <2>7 DEF Endpoint
  <1>3. CASE ~InZone(ep)
    BY <1>1, <1>3 DEF AdjustEndpoint
  <1>4. QED  BY <1>2, <1>3

LEMMA PlanType ==
  ASSUME NEW wanted \in SUBSET Endpoint, IsFiniteSet(wanted),
         NEW shown \in SUBSET Endpoint, IsFiniteSet(shown)
  PROVE  /\ PlanFor(wanted, shown) \in Plan
         /\ \A op \in {"create", "update", "delete"} : IsFiniteSet(PlanFor(wanted, shown)[op])
  <1> DEFINE p == PlanFor(wanted, shown)
  <1>1. p.create \in SUBSET wanted /\ p.update \in SUBSET wanted /\ p.delete \in SUBSET shown
    BY DEF PlanFor
  <1>2. p = [create |-> p.create, update |-> p.update, delete |-> p.delete]
    BY DEF PlanFor
  <1> HIDE DEF p
  <1>3. p \in Plan
    BY <1>1, <1>2 DEF Plan
  <1>4. IsFiniteSet(p.create) /\ IsFiniteSet(p.update) /\ IsFiniteSet(p.delete)
    BY <1>1, FS_Subset
  <1>5. QED  BY <1>3, <1>4 DEF p

-----------------------------------------------------------------------------
(* What is queued.                                                         *)

LEMMA ZoneOfType ==
  ASSUME TypeOK, NEW ep \in Endpoint
  PROVE  ZoneOf(ep) \in Zone \cup {NoZone}
  <1>1. mapper \in SUBSET Zone
    BY DEF TypeOK
  <1>2. ep.name \in Seq(Part)
    BY EndpointFields DEF Name
  <1>3. QED  BY <1>1, <1>2, FindZoneType DEF ZoneOf

LEMMA MatchType ==
  ASSUME TypeOK, NEW ep \in Endpoint, ZoneOf(ep) # NoZone, Matching(ep) # {}
  PROVE  /\ ZoneOf(ep) \in Zone
         /\ getMatchingDomainRRSet(ep) \in RRSet
         /\ getMatchingDomainRRSet(ep).name = MatchingName(ZoneOf(ep), ep.name)
         /\ getMatchingDomainRRSet(ep).type = ep.type
  <1> DEFINE z == ZoneOf(ep)
  <1>1. z \in Zone
    BY ZoneOfType
  <1>2. seen[z] \in Seq(RRSet)
    BY <1>1 DEF TypeOK
  <1> DEFINE m == Min(Matching(ep))
  <1>3. Matching(ep) \in SUBSET Nat
    BY <1>2 DEF Matching
  <1>4. m \in Matching(ep)
    BY <1>3, MinIsIn
  <1>5. /\ m \in DOMAIN seen[z]
        /\ seen[z][m].name = MatchingName(z, ep.name)
        /\ seen[z][m].type = ep.type
    BY <1>4 DEF Matching
  <1>6. seen[z][m] \in RRSet
    BY <1>2, <1>5
  <1>7. QED  BY <1>1, <1>5, <1>6 DEF getMatchingDomainRRSet

LEMMA CreateType ==
  ASSUME TypeOK, NEW ep \in Endpoint, ZoneOf(ep) # NoZone
  PROVE  CreateCall(ep) \in Call
  <1> DEFINE z == ZoneOf(ep)
  <1>1. z \in Zone
    BY ZoneOfType
  <1>2. /\ makeEndpointName(z, ep.name) \in Name \cup {<<At>>}
        /\ ep.type \in RecordType
        /\ extractRRSetRecords(z, ep.type, ep.targets) \in Seq(Text)
    BY <1>1, EndpointFields, CutNameType, TargetsType
  <1>3. LabelsOr(ep.keys, {}) \in SUBSET Key
    BY EndpointFields, KeysType
  <1>4. QED  BY <1>1, <1>2, <1>3 DEF CreateCall, Call, RRSet

LEMMA UpdateType ==
  ASSUME TypeOK, NEW ep \in Endpoint, ZoneOf(ep) # NoZone, Matching(ep) # {}
  PROVE  UpdateCall(ep) \in Call
  <1> DEFINE z       == ZoneOf(ep)
             rr      == getMatchingDomainRRSet(ep)
             records == extractRRSetRecords(z, ep.type, ep.targets)
             r       == IF sameZoneRRSetRecords(records, rr.records) THEN rr.records ELSE records
             l       == LabelsOr(ep.keys, rr.labels)
  <1>1. z \in Zone /\ rr \in RRSet
    BY MatchType
  <1>2. UpdateCall(ep) = [op |-> "update", zone |-> z,
                          rrset |-> [rr EXCEPT !.records = r, !.labels = l]]
    BY DEF UpdateCall
  <1>3. records \in Seq(Text)
    BY <1>1, EndpointFields, TargetsType
  <1>4. rr.records \in Seq(Text) /\ rr.labels \in SUBSET Key
    BY <1>1, RRSetFields
  <1>5. r \in Seq(Text)
    BY <1>3, <1>4
  <1>6. l \in SUBSET Key
    BY <1>4, EndpointFields, KeysType
  <1> HIDE DEF z, rr, r, l
  <1>7. [rr EXCEPT !.records = r, !.labels = l] \in RRSet
    BY <1>1, <1>5, <1>6 DEF RRSet
  <1>8. QED  BY <1>1, <1>2, <1>7 DEF Call

LEMMA DeleteType ==
  ASSUME TypeOK, NEW ep \in Endpoint, ZoneOf(ep) # NoZone, Matching(ep) # {}
  PROVE  DeleteCall(ep) \in Call
  BY MatchType DEF DeleteCall, Call

\* The calls that Queue makes.
Creations == {CreateCall(ep) : ep \in Unknown(plan.create)}
Updates   == {UpdateCall(ep) : ep \in Known(plan.update)}
Deletions == {DeleteCall(ep) : ep \in Known(plan.delete)}

LEMMA QueuedType ==
  ASSUME TypeOK, Finite
  PROVE  /\ Creations \in SUBSET Call /\ IsFiniteSet(Creations)
         /\ Updates \in SUBSET Call /\ IsFiniteSet(Updates)
         /\ Deletions \in SUBSET Call /\ IsFiniteSet(Deletions)
  <1>1. /\ plan.create \in SUBSET Endpoint /\ plan.update \in SUBSET Endpoint
        /\ plan.delete \in SUBSET Endpoint
    BY DEF TypeOK, Plan
  <1>2. IsFiniteSet(plan.create) /\ IsFiniteSet(plan.update) /\ IsFiniteSet(plan.delete)
    BY DEF Finite
  <1>3. Creations \in SUBSET Call /\ Updates \in SUBSET Call /\ Deletions \in SUBSET Call
    BY <1>1, CreateType, UpdateType, DeleteType DEF Creations, Updates, Deletions, Known, Unknown
  <1>4. IsFiniteSet(Creations)
    <2> DEFINE S == Unknown(plan.create)
               f == [ep \in S |-> CreateCall(ep)]
    <2>1. IsFiniteSet(S)
      BY <1>2, FS_Subset DEF Unknown
    <2>2. Creations = {f[ep] : ep \in S}
      BY DEF Creations
    <2> HIDE DEF S, f
    <2>3. QED  BY <2>1, <2>2, ImageFinite
  <1>5. IsFiniteSet(Updates)
    <2> DEFINE S == Known(plan.update)
               f == [ep \in S |-> UpdateCall(ep)]
    <2>1. IsFiniteSet(S)
      BY <1>2, FS_Subset DEF Known
    <2>2. Updates = {f[ep] : ep \in S}
      BY DEF Updates
    <2> HIDE DEF S, f
    <2>3. QED  BY <2>1, <2>2, ImageFinite
  <1>6. IsFiniteSet(Deletions)
    <2> DEFINE S == Known(plan.delete)
               f == [ep \in S |-> DeleteCall(ep)]
    <2>1. IsFiniteSet(S)
      BY <1>2, FS_Subset DEF Known
    <2>2. Deletions = {f[ep] : ep \in S}
      BY DEF Deletions
    <2> HIDE DEF S, f
    <2>3. QED  BY <2>1, <2>2, ImageFinite
  <1>7. QED  BY <1>3, <1>4, <1>5, <1>6

-----------------------------------------------------------------------------
(* What runZoneChanges makes of a zone.                                    *)

On(cs, op, rr) ==
  {c \in cs : c.op = op /\ c.rrset.name = rr.name /\ c.rrset.type = rr.type
              /\ (op # "delete" => Parses(c.rrset))}
Edited(z, cs, rr) ==
  IF On(cs, "update", rr) = {} THEN rr
  ELSE InFile(z, (CHOOSE c \in On(cs, "update", rr) : TRUE).rrset, rr.labels)
Kept(z, cs)  == {rr \in ToSet(dns[z]) : On(cs, "delete", rr) = {}}
New(z, cs)   == {c \in cs : c.op = "create" /\ Parses(c.rrset) /\ Place(z, c.rrset) = 0}
Content(z, cs, added) ==
  {Edited(z, cs, rr) : rr \in Kept(z, cs)} \cup {InFile(z, c.rrset, {}) : c \in added}

LEMMA FilesAreListings ==
  ASSUME NEW z, NEW cs
  PROVE  runZoneChanges(z, cs) =
           UNION {{rrsets \in SetToSeqs(Content(z, cs, added)) : InOrder(z, rrsets)} :
                    added \in OneOfEachName(New(z, cs))}
  BY DEF runZoneChanges, Content, On, Edited, Kept, New

LEMMA FileContent ==
  ASSUME NEW z, NEW cs, NEW file \in runZoneChanges(z, cs)
  PROVE  \E added \in OneOfEachName(New(z, cs)) :
           file \in SetToSeqs(Content(z, cs, added)) /\ InOrder(z, file)
  BY FilesAreListings

LEMMA AddedAreNew ==
  ASSUME NEW z, NEW cs, NEW added \in OneOfEachName(New(z, cs)), NEW c \in added
  PROVE  c \in cs /\ c.op = "create" /\ Parses(c.rrset) /\ Place(z, c.rrset) = 0
  BY DEF OneOfEachName, New

LEMMA InFileType ==
  ASSUME NEW z \in Zone, NEW rr \in RRSet, NEW labels \in SUBSET Key
  PROVE  /\ InFile(z, rr, labels) \in RRSet
         /\ InFile(z, rr, labels).name = rr.name
         /\ InFile(z, rr, labels).type = rr.type
  <1> DEFINE texts == rr.records
             s     == [i \in DOMAIN texts |-> parseRecord(z, rr.type, texts[i])]
  <1>1. s \in Seq(Text)
    BY RRSetFields, TargetsType
  <1>2. InFile(z, rr, labels) = [rr EXCEPT !.records = s, !.labels = labels]
    BY DEF InFile
  <1> HIDE DEF s
  <1>3. QED  BY <1>1, <1>2 DEF RRSet

LEMMA EditedType ==
  ASSUME NEW z \in Zone, NEW cs \in SUBSET Call, NEW rr \in RRSet
  PROVE  /\ Edited(z, cs, rr) \in RRSet
         /\ Edited(z, cs, rr).name = rr.name
         /\ Edited(z, cs, rr).type = rr.type
  <1>1. CASE On(cs, "update", rr) = {}
    BY <1>1 DEF Edited
  <1>2. CASE On(cs, "update", rr) # {}
    <2> DEFINE c == CHOOSE c \in On(cs, "update", rr) : TRUE
    <2>1. c \in On(cs, "update", rr)
      BY <1>2
    <2>2. Edited(z, cs, rr) = InFile(z, c.rrset, rr.labels)
      BY <1>2 DEF Edited
    <2> HIDE DEF c
    <2>3. c.rrset \in RRSet /\ c.rrset.name = rr.name /\ c.rrset.type = rr.type
      BY <2>1 DEF On, Call
    <2>4. rr.labels \in SUBSET Key
      BY RRSetFields
    <2>5. QED  BY <2>2, <2>3, <2>4, InFileType
  <1>3. QED  BY <1>1, <1>2

LEMMA ContentType ==
  ASSUME TypeOK, NEW z \in Zone, NEW cs \in SUBSET Call, IsFiniteSet(cs),
         NEW added \in OneOfEachName(New(z, cs))
  PROVE  Content(z, cs, added) \in SUBSET RRSet /\ IsFiniteSet(Content(z, cs, added))
  <1> DEFINE K == Kept(z, cs)
             A == added
             e == [rr \in K |-> Edited(z, cs, rr)]
             a == [c \in A |-> InFile(z, c.rrset, {})]
  <1>1. K \in SUBSET RRSet /\ IsFiniteSet(K)
    <2>1. ToSet(dns[z]) \in SUBSET RRSet /\ IsFiniteSet(ToSet(dns[z]))
      BY ToSetFinite DEF TypeOK
    <2>2. QED  BY <2>1, FS_Subset DEF Kept
  <1>2. A \in SUBSET Call /\ IsFiniteSet(A)
    BY FS_Subset DEF OneOfEachName, New
  <1> HIDE DEF K, A
  <1>3. \A rr \in K : e[rr] \in RRSet
    BY <1>1, EditedType
  <1>4. \A c \in A : a[c] \in RRSet
    <2>1. \A c \in A : c.rrset \in RRSet
      BY <1>2 DEF Call
    <2>2. QED  BY <2>1, InFileType
  <1>5. Content(z, cs, added) = {e[rr] : rr \in K} \cup {a[c] : c \in A}
    BY DEF Content, K, A
  <1> HIDE DEF e, a
  <1>6. IsFiniteSet({e[rr] : rr \in K}) /\ IsFiniteSet({a[c] : c \in A})
    BY <1>1, <1>2, ImageFinite
  <1>7. QED  BY <1>3, <1>4, <1>5, <1>6, FS_Union

LEMMA FileType ==
  ASSUME TypeOK, NEW z \in Zone, NEW cs \in SUBSET Call, IsFiniteSet(cs),
         NEW file \in runZoneChanges(z, cs)
  PROVE  file \in Seq(RRSet)
  <1>1. PICK added \in OneOfEachName(New(z, cs)) : file \in SetToSeqs(Content(z, cs, added))
    BY FileContent
  <1>2. QED  BY <1>1, ContentType, ListingType

-----------------------------------------------------------------------------
(* The type invariant.                                                     *)

Typed == TypeOK /\ Finite

LEMMA EmptyType ==
  /\ Empty \in [Zone -> Seq(RRSet)]
  /\ [z \in Zone |-> {}] \in [Zone -> SUBSET RRSet]
  BY DEF Empty

LEMMA NoPlanType ==
  /\ NoPlan \in Plan
  /\ \A op \in {"create", "update", "delete"} : NoPlan[op] = {} /\ IsFiniteSet(NoPlan[op])
  <1>1. NoPlan \in Plan
    BY DEF NoPlan, Plan
  <1>2. \A op \in {"create", "update", "delete"} : NoPlan[op] = {}
    BY DEF NoPlan
  <1>3. QED  BY <1>1, <1>2, FS_EmptySet

\* What a request leaves behind when it ends, and how it starts to fetch.
LEMMA EndCycleType ==
  ASSUME Typed, NEW ok \in BOOLEAN, EndCycle(ok)
  PROVE  /\ pc' \in {"idle", "fetch", "adjust", "post", "apply"}
         /\ purpose' \in {"Records", "ApplyChanges"}
         /\ unread' \in SUBSET Zone
         /\ page' \in Nat \ {0} /\ pageOf' \in Zone \cup {NoZone}
         /\ seen' \in [Zone -> Seq(RRSet)]
         /\ plan' \in Plan
         /\ \A op \in {"create", "update", "delete"} : IsFiniteSet(plan'[op])
         /\ calls' \in SUBSET Call /\ IsFiniteSet(calls')
         /\ lasting' \in [Zone -> SUBSET RRSet]
         /\ shrunk' \in SUBSET Zone
         /\ settled' \in BOOLEAN /\ quiet' \in BOOLEAN
  <1>1. settled' \in BOOLEAN /\ quiet' \in BOOLEAN
    BY Zenon DEF EndCycle
  <1>2. calls' = {} /\ IsFiniteSet(calls')
    <2>1. calls' = {}
      BY DEF EndCycle
    <2>2. QED  BY <2>1, FS_EmptySet
  <1>3. plan' = NoPlan
    BY DEF EndCycle
  <1>4. QED  BY <1>1, <1>2, <1>3, EmptyType, NoPlanType DEF EndCycle, NothingListed

LEMMA FetchType ==
  ASSUME NEW why \in {"Records", "ApplyChanges"}, Fetch(why)
  PROVE  /\ pc' \in {"idle", "fetch", "adjust", "post", "apply"}
         /\ purpose' \in {"Records", "ApplyChanges"}
         /\ mapper' \in SUBSET Zone
         /\ unread' \in SUBSET Zone
         /\ page' \in Nat \ {0} /\ pageOf' \in Zone \cup {NoZone}
         /\ seen' \in [Zone -> Seq(RRSet)]
         /\ calls' \in SUBSET Call /\ IsFiniteSet(calls')
         /\ lasting' \in [Zone -> SUBSET RRSet]
         /\ shrunk' \in SUBSET Zone
  <1>1. calls' = {} /\ IsFiniteSet(calls')
    <2>1. calls' = {}
      BY DEF Fetch
    <2>2. QED  BY <2>1, FS_EmptySet
  <1>2. QED  BY <1>1, EmptyType DEF Fetch, NothingListed, Managed

\* A page of a zone.
LEMMA PageType ==
  ASSUME TypeOK, NEW z \in Zone, NEW p \in Nat \ {0}
  PROVE  PageRows(dns[z], p) \in Seq(RRSet)
  <1> DEFINE s == dns[z]
             last == p * BatchSize
             m == last - BatchSize + 1
             n == IF last < Len(s) THEN last ELSE Len(s)
  <1>1. s \in Seq(RRSet)
    BY DEF TypeOK
  <1>2. last \in Nat /\ last >= BatchSize /\ BatchSize \in Nat \ {0}
    BY JourneyAssumption
  <1>3. PageRows(s, p) = SubSeq(s, m, n)
    BY DEF PageRows
  <1> HIDE DEF last, s
  <1>4. m \in Int /\ n \in Int /\ m >= 1 /\ n <= Len(s)
    BY <1>1, <1>2
  <1>5. \A i \in m..n : s[i] \in RRSet
    BY <1>1, <1>4
  <1>6. SubSeq(s, m, n) \in Seq(RRSet)
    BY <1>4, <1>5, SubSeqProperties
  <1>7. QED  BY <1>3, <1>6 DEF s

LEMMA TypeInit == Init => Typed
  <1> SUFFICES ASSUME Init  PROVE Typed
    OBVIOUS
  <1>1. IsFiniteSet(want) /\ want \in SUBSET Endpoint
    BY JourneyAssumption DEF Init
  <1>2. calls = {} /\ IsFiniteSet(calls)
    BY FS_EmptySet DEF Init
  <1>3. Finite
    BY <1>1, <1>2, NoPlanType DEF Init, Finite
  <1>4. dns \in [Zone -> Seq(RRSet)]
    BY JourneyAssumption DEF Init
  <1>5. 0 \in 0..MaxRestarts /\ 0 \in 0..MaxDisturbances
    BY JourneyAssumption
  <1>6. settled \in BOOLEAN /\ quiet \in BOOLEAN /\ bulk \in BOOLEAN
    BY Zenon DEF Init
  <1>7. TypeOK
    BY <1>1, <1>2, <1>4, <1>5, <1>6, EmptyType, NoPlanType DEF Init, TypeOK
  <1>8. QED  BY <1>3, <1>7 DEF Typed

LEMMA FetchPageType ==
  ASSUME Typed, FetchPage
  PROVE  Typed'
  <1>1. PICK z \in IF pageOf = NoZone THEN unread ELSE {pageOf} :
          /\ seen' = [seen EXCEPT ![z] = @ \o PageRows(dns[z], page)]
          /\ IF isEndPage(LastPage(dns[z]), page)
             THEN unread' = unread \ {z} /\ page' = 1 /\ pageOf' = NoZone
             ELSE unread' = unread /\ page' = page + 1 /\ pageOf' = z
          /\ IF page = 1
             THEN lasting' = [lasting EXCEPT ![z] = ToSet(dns[z])] /\ shrunk' = shrunk \ {z}
             ELSE UNCHANGED <<lasting, shrunk>>
    BY DEF FetchPage
  <1>2. TypeOK
    BY DEF Typed
  <1>3. z \in Zone
    BY <1>2 DEF TypeOK
  <1>4. seen' \in [Zone -> Seq(RRSet)]
    <2>1. seen[z] \in Seq(RRSet) /\ PageRows(dns[z], page) \in Seq(RRSet)
      BY <1>2, <1>3, PageType DEF TypeOK
    <2>2. seen[z] \o PageRows(dns[z], page) \in Seq(RRSet)
      BY <2>1, ConcatProperties
    <2>3. QED  BY <1>1, <1>2, <2>2 DEF TypeOK
  <1>5. unread' \in SUBSET Zone /\ page' \in Nat \ {0} /\ pageOf' \in Zone \cup {NoZone}
    BY <1>1, <1>2, <1>3 DEF TypeOK
  <1>6. lasting' \in [Zone -> SUBSET RRSet] /\ shrunk' \in SUBSET Zone
    <2>1. ToSet(dns[z]) \in SUBSET RRSet
      BY <1>2, <1>3, ToSetFinite DEF TypeOK
    <2>2. QED  BY <1>1, <1>2, <2>1 DEF TypeOK
  <1>7. UNCHANGED <<dns, want, pc, mapper, purpose, plan, calls, settled, quiet, bulk, restarts,
                    disturbances>>
    BY DEF FetchPage, context
  <1>8. TypeOK'
    BY <1>2, <1>4, <1>5, <1>6, <1>7 DEF TypeOK
  <1>9. Finite'
    BY <1>7 DEF Typed, Finite
  <1>10. QED  BY <1>8, <1>9 DEF Typed

LEMMA AdjustType ==
  ASSUME Typed, AdjustEndpoints
  PROVE  Typed'
  <1>1. TypeOK /\ Finite /\ CanAdjust
    BY DEF Typed, AdjustEndpoints
  <1> DEFINE f      == [ep \in want |-> AdjustEndpoint(ep)]
             wanted == {AdjustEndpoint(ep) : ep \in want}
  <1>2. PICK shown \in OneOfEach(Shown) : plan' = PlanFor(wanted, shown)
    BY DEF AdjustEndpoints
  <1>3. wanted \in SUBSET Endpoint
    BY <1>1, AdjustedType
  <1>4. IsFiniteSet(wanted)
    <2>1. wanted = {f[ep] : ep \in want} /\ IsFiniteSet(want)
      BY <1>1 DEF Finite
    <2> HIDE DEF wanted, f
    <2>2. QED  BY <2>1, ImageFinite
  <1> HIDE DEF wanted
  <1>5. shown \in SUBSET Endpoint /\ IsFiniteSet(shown)
    <2>1. shown \in SUBSET Shown
      BY DEF OneOfEach
    <2>2. QED  BY <1>1, <2>1, ShownType, FS_Subset
  <1>6. plan' \in Plan /\ \A op \in {"create", "update", "delete"} : IsFiniteSet(plan'[op])
    BY <1>2, <1>3, <1>4, <1>5, PlanType
  <1>7. /\ pc' = "post"
        /\ seen' = Empty /\ lasting' = [z \in Zone |-> {}] /\ shrunk' = {}
        /\ UNCHANGED <<dns, want, mapper, purpose, unread, page, pageOf, calls, settled, quiet,
                       bulk, restarts, disturbances>>
    BY DEF AdjustEndpoints, NothingListed, context
  <1>8. TypeOK'
    BY <1>1, <1>6, <1>7, EmptyType DEF TypeOK
  <1>9. Finite'
    BY <1>1, <1>6, <1>7 DEF Finite
  <1>10. QED  BY <1>8, <1>9 DEF Typed

LEMMA QueueType ==
  ASSUME Typed, Queue
  PROVE  Typed'
  <1>1. TypeOK /\ Finite
    BY DEF Typed
  <1>2. calls' \in SUBSET (Creations \cup Updates \cup Deletions)
    BY DEF Queue, Creations, Updates, Deletions
  <1>3. calls' \in SUBSET Call /\ IsFiniteSet(calls')
    <2> DEFINE S == Creations \cup Updates \cup Deletions
    <2>1. S \in SUBSET Call /\ IsFiniteSet(S)
      BY <1>1, QueuedType, FS_Union
    <2> HIDE DEF S
    <2>2. calls' \in SUBSET S
      BY <1>2 DEF S
    <2>3. QED  BY <2>1, <2>2, FS_Subset
  <1>4. /\ pc' = "apply" /\ plan' = NoPlan
        /\ seen' = Empty /\ lasting' = [z \in Zone |-> {}] /\ shrunk' = {}
        /\ UNCHANGED <<dns, want, mapper, purpose, unread, page, pageOf, settled, quiet,
                       bulk, restarts, disturbances>>
    BY DEF Queue, NothingListed, context
  <1>5. TypeOK'
    BY <1>1, <1>3, <1>4, EmptyType, NoPlanType DEF TypeOK
  <1>6. Finite'
    BY <1>1, <1>3, <1>4, NoPlanType DEF Finite
  <1>7. QED  BY <1>5, <1>6 DEF Typed

\* The place of a recordset in its zone.
LEMMA PlaceType ==
  ASSUME TypeOK, NEW z \in Zone, NEW rr
  PROVE  /\ Place(z, rr) \in Nat
         /\ Place(z, rr) # 0 => /\ Place(z, rr) \in DOMAIN dns[z]
                                /\ dns[z][Place(z, rr)].name = rr.name
                                /\ dns[z][Place(z, rr)].type = rr.type
         /\ Place(z, rr) = 0 => \A i \in DOMAIN dns[z] :
                                  ~(dns[z][i].name = rr.name /\ dns[z][i].type = rr.type)
  <1> DEFINE places == {i \in DOMAIN dns[z] : dns[z][i].name = rr.name /\ dns[z][i].type = rr.type}
  <1>1. dns[z] \in Seq(RRSet)
    BY DEF TypeOK
  <1>2. places \in SUBSET (Nat \ {0})
    BY <1>1
  <1>3. Place(z, rr) = IF places = {} THEN 0 ELSE CHOOSE i \in places : TRUE
    BY DEF Place
  <1>4. CASE places = {}
    BY <1>3, <1>4
  <1>5. CASE places # {}
    <2>1. Place(z, rr) \in places
      BY <1>3, <1>5
    <2>2. QED  BY <1>2, <2>1
  <1>6. QED  BY <1>4, <1>5

LEMMA InsertDNS ==
  ASSUME TypeOK, NEW z \in Zone, NEW rr \in RRSet, Insert(z, rr)
  PROVE  dns' \in [Zone -> Seq(RRSet)]
  <1>1. PICK i \in 1..Len(dns[z]) + 1 : dns' = [dns EXCEPT ![z] = InsertAt(@, i, rr)]
    BY DEF Insert
  <1>2. InsertAt(dns[z], i, rr) \in Seq(RRSet)
    BY InsertType DEF TypeOK
  <1>3. QED  BY <1>1, <1>2 DEF TypeOK

LEMMA EffectType ==
  ASSUME TypeOK, NEW c \in Call, Accepted(c), Effect(c)
  PROVE  dns' \in [Zone -> Seq(RRSet)]
  <1> DEFINE z  == c.zone
             rr == c.rrset
             i  == Place(z, rr)
  <1>1. z \in Zone /\ rr \in RRSet /\ c.op \in {"create", "update", "delete"}
    BY DEF Call
  <1>2. dns[z] \in Seq(RRSet)
    BY <1>1 DEF TypeOK
  <1>3. CASE c.op = "create"
    <2>1. Insert(z, rr)
      BY <1>3 DEF Effect
    <2>2. QED  BY <1>1, <2>1, InsertDNS
  <1>4. CASE c.op = "update"
    <2>1. i # 0 /\ dns' = [dns EXCEPT ![z] = ReplaceAt(@, i, rr)]
      BY <1>4 DEF Accepted, Effect
    <2>2. i \in DOMAIN dns[z]
      BY <1>1, <2>1, PlaceType
    <2>3. ReplaceAt(dns[z], i, rr) \in Seq(RRSet)
      BY <1>1, <1>2, <2>2, ReplaceType
    <2>4. QED  BY <2>1, <2>3 DEF TypeOK
  <1>5. CASE c.op = "delete"
    <2>1. i # 0 /\ dns' = [dns EXCEPT ![z] = RemoveAt(@, i)]
      BY <1>5 DEF Accepted, Effect
    <2>2. i \in DOMAIN dns[z]
      BY <1>1, <2>1, PlaceType
    <2>3. RemoveAt(dns[z], i) \in Seq(RRSet)
      BY <1>1, <1>2, <2>2, RemoveType
    <2>4. QED  BY <2>1, <2>3 DEF TypeOK
  <1>6. QED  BY <1>1, <1>3, <1>4, <1>5

LEMMA DoCallType ==
  ASSUME Typed, DoCall
  PROVE  Typed'
  <1>1. TypeOK /\ Finite
    BY DEF Typed
  <1>2. PICK c \in Due : Accepted(c) /\ Effect(c) /\ calls' = calls \ {c}
    BY DEF DoCall
  <1>3. c \in Call
    BY <1>1 DEF Due, TypeOK
  <1>4. dns' \in [Zone -> Seq(RRSet)]
    BY <1>1, <1>2, <1>3, EffectType
  <1>5. UNCHANGED <<want, pc, mapper, purpose, unread, page, pageOf, seen, plan, settled, quiet,
                    lasting, shrunk, bulk, restarts, disturbances>>
    BY DEF DoCall, history, context
  <1>6. TypeOK'
    BY <1>1, <1>2, <1>4, <1>5 DEF TypeOK
  <1>7. IsFiniteSet(calls')
    BY <1>1, <1>2, FS_Subset DEF Finite
  <1>8. Finite'
    BY <1>1, <1>5, <1>7 DEF Finite
  <1>9. QED  BY <1>6, <1>8 DEF Typed

LEMMA ZoneChangesType ==
  ASSUME Typed, applyZoneChanges
  PROVE  Typed'
  <1>1. TypeOK /\ Finite
    BY DEF Typed
  <1>2. PICK z \in {c.zone : c \in calls} :
          /\ \E file \in runZoneChanges(z, {c \in calls : c.zone = z}) :
               dns' = IF Valid(file) THEN [dns EXCEPT ![z] = file] ELSE dns
          /\ calls' = {c \in calls : c.zone # z}
    BY DEF applyZoneChanges
  <1> DEFINE cs == {c \in calls : c.zone = z}
  <1>3. z \in Zone /\ cs \in SUBSET Call
    BY <1>1 DEF TypeOK, Call
  <1>4. IsFiniteSet(cs) /\ IsFiniteSet(calls') /\ calls' \in SUBSET calls
    BY <1>1, <1>2, FS_Subset DEF Finite
  <1>5. dns' \in [Zone -> Seq(RRSet)]
    <2>1. PICK file \in runZoneChanges(z, cs) :
            dns' = IF Valid(file) THEN [dns EXCEPT ![z] = file] ELSE dns
      BY <1>2
    <2>2. file \in Seq(RRSet)
      BY <1>1, <1>3, <1>4, FileType
    <2>3. QED  BY <1>1, <2>1, <2>2 DEF TypeOK
  <1>6. UNCHANGED <<want, pc, mapper, purpose, unread, page, pageOf, seen, plan, settled, quiet,
                    lasting, shrunk, bulk, restarts, disturbances>>
    BY DEF applyZoneChanges, history, context
  <1>7. TypeOK'
    BY <1>1, <1>4, <1>5, <1>6 DEF TypeOK
  <1>8. Finite'
    BY <1>1, <1>4, <1>6 DEF Finite
  <1>9. QED  BY <1>7, <1>8 DEF Typed

LEMMA RestartType ==
  ASSUME Typed, Restart
  PROVE  Typed'
  <1>1. TypeOK /\ Finite
    BY DEF Typed
  <1>2. /\ restarts' \in 0..MaxRestarts /\ mapper' = {}
        /\ UNCHANGED <<bulk, dns, want, disturbances>>
    BY <1>1, JourneyAssumption DEF Restart, TypeOK
  <1>3. CASE pc \in {"fetch", "apply"}
    <2>1. EndCycle(FALSE)
      BY <1>3 DEF Restart
    <2>2. FALSE \in BOOLEAN
      OBVIOUS
    <2>3. TypeOK'
      BY <1>1, <1>2, <2>1, <2>2, EndCycleType DEF TypeOK
    <2>4. Finite'
      BY <1>1, <1>2, <2>1, <2>2, EndCycleType DEF Finite
    <2>5. QED  BY <2>3, <2>4 DEF Typed
  <1>4. CASE pc \notin {"fetch", "apply"}
    <2>1. UNCHANGED <<pc, purpose, unread, page, pageOf, seen, calls, plan, settled, quiet, lasting,
                      shrunk>>
      BY <1>4 DEF Restart, request, history
    <2>2. TypeOK'
      BY <1>1, <1>2, <2>1 DEF TypeOK
    <2>3. Finite'
      BY <1>1, <1>2, <2>1 DEF Finite
    <2>4. QED  BY <2>2, <2>3 DEF Typed
  <1>5. QED  BY <1>3, <1>4

LEMMA OutsideType ==
  ASSUME Typed,
         (\E z \in Zone : ForeignCreate(z) \/ ForeignDelete(z)) \/ ChangeWant
  PROVE  Typed'
  <1>1. TypeOK /\ Finite
    BY DEF Typed
  <1>2. Disturb
    BY DEF ForeignCreate, ForeignDelete, ChangeWant
  <1>3. /\ disturbances' \in 0..MaxDisturbances /\ settled' = FALSE /\ quiet' = FALSE
        /\ UNCHANGED <<bulk, restarts>>
    BY <1>1, <1>2, JourneyAssumption DEF Disturb, TypeOK
  <1>4. FALSE \in BOOLEAN
    OBVIOUS
  <1>5. ASSUME NEW z \in Zone, ForeignCreate(z)
        PROVE  Typed'
    <2>1. PICK rr \in Edits : Insert(z, rr)
      BY <1>5 DEF ForeignCreate
    <2>2. rr \in RRSet
      BY JourneyAssumption
    <2>3. dns' \in [Zone -> Seq(RRSet)]
      BY <1>1, <2>1, <2>2, InsertDNS
    <2>4. UNCHANGED <<want, pc, mapper, purpose, unread, page, pageOf, seen, calls, plan, lasting,
                      shrunk>>
      BY <1>5 DEF ForeignCreate, request
    <2>5. TypeOK'
      BY <1>1, <1>3, <1>4, <2>3, <2>4 DEF TypeOK
    <2>6. Finite'
      BY <1>1, <2>4 DEF Finite
    <2>7. QED  BY <2>5, <2>6 DEF Typed
  <1>6. ASSUME NEW z \in Zone, ForeignDelete(z)
        PROVE  Typed'
    <2>1. PICK i \in DOMAIN dns[z] :
            /\ dns' = [dns EXCEPT ![z] = RemoveAt(@, i)]
            /\ lasting' = [lasting EXCEPT ![z] = @ \ {dns[z][i]}]
      BY <1>6 DEF ForeignDelete
    <2>2. RemoveAt(dns[z], i) \in Seq(RRSet)
      BY <1>1, RemoveType DEF TypeOK
    <2>3. dns' \in [Zone -> Seq(RRSet)] /\ lasting' \in [Zone -> SUBSET RRSet]
      BY <1>1, <2>1, <2>2 DEF TypeOK
    <2>4. shrunk' \in SUBSET Zone
      BY <1>1, <1>6 DEF ForeignDelete, TypeOK
    <2>5. UNCHANGED <<want, pc, mapper, purpose, unread, page, pageOf, seen, calls, plan>>
      BY <1>6 DEF ForeignDelete, request
    <2>6. TypeOK'
      BY <1>1, <1>3, <1>4, <2>3, <2>4, <2>5 DEF TypeOK
    <2>7. Finite'
      BY <1>1, <2>5 DEF Finite
    <2>8. QED  BY <2>6, <2>7 DEF Typed
  <1>7. ASSUME ChangeWant
        PROVE  Typed'
    <2>1. want' \in Wishes
      BY <1>7 DEF ChangeWant
    <2>2. want' \in SUBSET Endpoint /\ IsFiniteSet(want')
      BY <2>1, JourneyAssumption
    <2>3. UNCHANGED <<dns, pc, mapper, purpose, unread, page, pageOf, seen, calls, plan, lasting,
                      shrunk>>
      BY <1>7 DEF ChangeWant, request
    <2>4. TypeOK'
      BY <1>1, <1>3, <1>4, <2>2, <2>3 DEF TypeOK
    <2>5. Finite'
      BY <1>1, <2>2, <2>3 DEF Finite
    <2>6. QED  BY <2>4, <2>5 DEF Typed
  <1>8. QED  BY <1>5, <1>6, <1>7

\* The steps that end a cycle.
LEMMA EndType ==
  ASSUME Typed, NEW ok \in BOOLEAN, EndCycle(ok),
         UNCHANGED <<dns, want, mapper, context>>
  PROVE  Typed'
  <1>1. TypeOK /\ Finite
    BY DEF Typed
  <1>2. UNCHANGED <<dns, want, mapper, bulk, restarts, disturbances>>
    BY DEF context
  <1>3. TypeOK'
    BY <1>1, <1>2, EndCycleType DEF TypeOK
  <1>4. Finite'
    BY <1>1, <1>2, EndCycleType DEF Finite
  <1>5. QED  BY <1>3, <1>4 DEF Typed

LEMMA TypeNext == Typed /\ [Next]_vars => Typed'
  <1> SUFFICES ASSUME Typed, [Next]_vars  PROVE Typed'
    OBVIOUS
  <1>1. TypeOK /\ Finite
    BY DEF Typed
  <1>2. FALSE \in BOOLEAN /\ TRUE \in BOOLEAN
    OBVIOUS
  <1>3. CASE StartRecords
    <2>1. Fetch("Records")
      BY <1>3 DEF StartRecords
    <2>2. quiet' = TRUE /\ UNCHANGED <<dns, want, plan, settled, bulk, restarts, disturbances>>
      BY <1>3 DEF StartRecords, context
    <2>3. TypeOK'
      BY <1>1, <1>2, <2>1, <2>2, FetchType DEF TypeOK
    <2>4. Finite'
      BY <1>1, <2>1, <2>2, FetchType DEF Finite
    <2>5. QED  BY <2>3, <2>4 DEF Typed
  <1>4. CASE FetchPage
    BY <1>4, FetchPageType
  <1>5. CASE ReturnRecords
    <2>1. /\ pc' = "adjust"
          /\ UNCHANGED <<dns, want, mapper, purpose, unread, page, pageOf, seen, calls, plan,
                         settled, quiet, lasting, shrunk, bulk, restarts, disturbances>>
      BY <1>5 DEF ReturnRecords, request, history, context
    <2>2. TypeOK'
      BY <1>1, <2>1 DEF TypeOK
    <2>3. Finite'
      BY <1>1, <2>1 DEF Finite
    <2>4. QED  BY <2>2, <2>3 DEF Typed
  <1>6. CASE AdjustEndpoints
    BY <1>6, AdjustType
  <1>7. CASE AdjustEndpointsFails
    BY <1>2, <1>7, EndType DEF AdjustEndpointsFails
  <1>8. CASE ReturnUnchanged
    BY <1>2, <1>8, EndType DEF ReturnUnchanged
  <1>9. CASE StartApply
    <2>1. Fetch("ApplyChanges")
      BY <1>9 DEF StartApply
    <2>2. UNCHANGED <<dns, want, plan, settled, quiet, bulk, restarts, disturbances>>
      BY <1>9 DEF StartApply, context
    <2>3. TypeOK'
      BY <1>1, <2>1, <2>2, FetchType DEF TypeOK
    <2>4. Finite'
      BY <1>1, <2>1, <2>2, FetchType DEF Finite
    <2>5. QED  BY <2>3, <2>4 DEF Typed
  <1>10. CASE Queue
    BY <1>10, QueueType
  <1>11. CASE DoCall
    BY <1>11, DoCallType
  <1>12. CASE CallRefused
    BY <1>2, <1>12, EndType DEF CallRefused
  <1>13. CASE applyZoneChanges
    BY <1>13, ZoneChangesType
  <1>14. CASE ReturnApplied
    BY <1>2, <1>14, EndType DEF ReturnApplied
  <1>15. CASE Restart
    BY <1>15, RestartType
  <1>16. CASE (\E z \in Zone : ForeignCreate(z) \/ ForeignDelete(z)) \/ ChangeWant
    BY <1>16, OutsideType
  <1>17. CASE UNCHANGED vars
    <2>1. UNCHANGED <<bulk, dns, want, pc, mapper, purpose, unread, page, pageOf, seen, plan,
                      calls, settled, quiet, restarts, disturbances, lasting, shrunk>>
      BY <1>17 DEF vars
    <2>2. TypeOK'
      BY <1>1, <2>1 DEF TypeOK
    <2>3. Finite'
      BY <1>1, <2>1 DEF Finite
    <2>4. QED  BY <2>2, <2>3 DEF Typed
  <1>18. QED
    BY <1>3, <1>4, <1>5, <1>6, <1>7, <1>8, <1>9, <1>10, <1>11, <1>12, <1>13, <1>14, <1>15, <1>16,
       <1>17
    DEF Next, Cycle, Outside

LEMMA AlwaysTyped == Spec => []Typed
  BY TypeInit, TypeNext, PTL DEF Spec

\* Names, targets and calls are what they seem in every state: no conversion
\* makes an empty name or lets a target pass that it failed for (a priority may
\* come out changed, see TargetsConform), and no lookup misses its zone, page or
\* place.  (endpoints.go, zoneidmap.go)
THEOREM TypeCorrect == Spec => []TypeOK
  <1>1. Typed => TypeOK
    BY DEF Typed
  <1>2. QED  BY <1>1, AlwaysTyped, PTL

-----------------------------------------------------------------------------
(* A listing is complete.                                                  *)

\* The recordsets of a zone from page p on.
Ahead(z, p) == {dns[z][i] : i \in {j \in DOMAIN dns[z] : (p - 1) * BatchSize < j}}

\* Between two pages, what lasts has been seen or lies ahead; a creation only
\* moves it further ahead.
ListingInv ==
  /\ unread \subseteq Managed
  /\ page = 1 <=> pageOf = NoZone
  /\ pageOf # NoZone => pageOf \in unread
  /\ \A z \in Managed \ (unread \cup shrunk) : lasting[z] \subseteq ToSet(seen[z])
  /\ pageOf \notin {NoZone} \cup shrunk =>
       lasting[pageOf] \subseteq ToSet(seen[pageOf]) \cup Ahead(pageOf, page)

Fetching == pc = "fetch" => ListingInv

LEMMA ToSetConcat ==
  ASSUME NEW S, NEW s \in Seq(S), NEW t \in Seq(S)
  PROVE  ToSet(s \o t) = ToSet(s) \cup ToSet(t)
  <1>1. \A x \in Seq(S) : ToSet(x) = Range(x)
    BY DEF ToSet, Range
  <1>2. s \o t \in Seq(S)
    BY ConcatProperties
  <1>3. Range(s \o t) = Range(s) \cup Range(t)
    BY RangeConcatenation
  <1>4. QED  BY <1>1, <1>2, <1>3, Zenon

\* What lies ahead is on the next page or after it.
LEMMA PageOfAhead ==
  ASSUME TypeOK, NEW z \in Zone, NEW p \in Nat \ {0}
  PROVE  Ahead(z, p) \subseteq ToSet(PageRows(dns[z], p)) \cup Ahead(z, p + 1)
  <1> DEFINE s == dns[z]
             last == p * BatchSize
             m == last - BatchSize + 1
             n == IF last < Len(s) THEN last ELSE Len(s)
             rows == SubSeq(s, m, n)
  <1>1. s \in Seq(RRSet)
    BY DEF TypeOK
  <1>2. /\ last \in Nat /\ last >= BatchSize /\ BatchSize \in Nat \ {0}
        /\ (p - 1) * BatchSize = last - BatchSize /\ ((p + 1) - 1) * BatchSize = last
    BY JourneyAssumption
  <1>3. PageRows(s, p) = rows
    BY DEF PageRows
  <1>4. Ahead(z, p) = {s[i] : i \in {j \in DOMAIN s : last - BatchSize < j}}
    BY <1>2 DEF Ahead
  <1>5. Ahead(z, p + 1) = {s[i] : i \in {j \in DOMAIN s : last < j}}
    BY <1>2 DEF Ahead
  <1> HIDE DEF last, s
  <1>6. m \in Int /\ n \in Int /\ m >= 1 /\ n <= Len(s)
    BY <1>1, <1>2
  <1>7. \A i \in m..n : s[i] \in RRSet
    BY <1>1, <1>6
  <1>8. /\ rows \in Seq(RRSet) /\ Len(rows) = IF m <= n THEN n - m + 1 ELSE 0
        /\ \A i \in 1..n - m + 1 : rows[i] = s[m + i - 1]
    BY <1>6, <1>7, SubSeqProperties
  <1> HIDE DEF rows
  <1>9. ASSUME NEW j \in DOMAIN s, last - BatchSize < j, ~(last < j)
        PROVE  s[j] \in ToSet(rows)
    <2> DEFINE i == j - m + 1
    <2>1. m <= n /\ i \in 1..n - m + 1 /\ m + i - 1 = j
      BY <1>1, <1>2, <1>9
    <2>2. i \in DOMAIN rows /\ rows[i] = s[j]
      BY <1>8, <2>1
    <2>3. QED  BY <2>2 DEF ToSet
  <1>10. QED  BY <1>3, <1>4, <1>5, <1>9 DEF s

\* Nothing lies ahead of the last page.
LEMMA NothingAfterLastPage ==
  ASSUME TypeOK, NEW z \in Zone, NEW p \in Nat \ {0}, isEndPage(LastPage(dns[z]), p)
  PROVE  Ahead(z, p + 1) = {}
  <1> DEFINE s == dns[z]
  <1>1. s \in Seq(RRSet)
    BY DEF TypeOK
  <1>2. BatchSize \in Nat \ {0} /\ ((p + 1) - 1) * BatchSize = p * BatchSize
        /\ p * BatchSize \in Nat
    BY JourneyAssumption
  <1>3. LastPage(s) <= p
    BY DEF isEndPage
  <1> HIDE DEF s
  <1>4. Len(s) <= p * BatchSize
    <2>1. CASE s = <<>>
      BY <1>2, <2>1
    <2>2. CASE s # <<>>
      <3>1. (Len(s) + BatchSize - 1) \div BatchSize <= p
        BY <1>3, <2>2 DEF LastPage
      <3>2. Len(s) \in Nat
        BY <1>1
      <3>3. QED  BY <1>2, <3>1, <3>2
    <2>3. QED  BY <2>1, <2>2
  <1>5. \A j \in DOMAIN s : ~(p * BatchSize < j)
    BY <1>1, <1>2, <1>4
  <1>6. QED  BY <1>2, <1>5 DEF Ahead, s

LEMMA FirstPageIsAhead ==
  ASSUME TypeOK, NEW z \in Zone
  PROVE  ToSet(dns[z]) = Ahead(z, 1)
  <1>1. (1 - 1) * BatchSize = 0
    BY JourneyAssumption
  <1>2. \A j \in DOMAIN dns[z] : 0 < j
    BY DEF TypeOK
  <1>3. QED  BY <1>1, <1>2 DEF Ahead, ToSet

LEMMA FetchPageLists ==
  ASSUME TypeOK, ListingInv, FetchPage
  PROVE  ListingInv'
  <1>1. PICK z \in IF pageOf = NoZone THEN unread ELSE {pageOf} :
          /\ seen' = [seen EXCEPT ![z] = @ \o PageRows(dns[z], page)]
          /\ IF isEndPage(LastPage(dns[z]), page)
             THEN unread' = unread \ {z} /\ page' = 1 /\ pageOf' = NoZone
             ELSE unread' = unread /\ page' = page + 1 /\ pageOf' = z
          /\ IF page = 1
             THEN lasting' = [lasting EXCEPT ![z] = ToSet(dns[z])] /\ shrunk' = shrunk \ {z}
             ELSE UNCHANGED <<lasting, shrunk>>
    BY DEF FetchPage
  <1>2. z \in unread /\ z \in Zone /\ z # NoZone /\ page \in Nat \ {0} /\ dns' = dns
    BY <1>1, ZoneIsAName DEF ListingInv, TypeOK, FetchPage
  <1>3. ToSet(seen'[z]) = ToSet(seen[z]) \cup ToSet(PageRows(dns[z], page))
    <2>1. seen[z] \in Seq(RRSet) /\ PageRows(dns[z], page) \in Seq(RRSet)
      BY <1>2, PageType DEF TypeOK
    <2>2. seen'[z] = seen[z] \o PageRows(dns[z], page)
      BY <1>1, <1>2 DEF TypeOK
    <2>3. QED  BY <2>1, <2>2, ToSetConcat
  <1>4. \A y \in Zone \ {z} : seen'[y] = seen[y] /\ lasting'[y] = lasting[y]
    BY <1>1 DEF TypeOK
  <1>5. \A y \in Zone \ {z} : y \notin shrunk' => y \notin shrunk
    BY <1>1
  <1>6. z \notin shrunk' => lasting'[z] \subseteq ToSet(seen[z]) \cup Ahead(z, page)
    <2>1. CASE page = 1
      BY <1>1, <1>2, <2>1, FirstPageIsAhead DEF TypeOK
    <2>2. CASE page # 1
      BY <1>1, <1>2, <2>2 DEF ListingInv
    <2>3. QED  BY <2>1, <2>2
  <1>7. z \notin shrunk' => lasting'[z] \subseteq ToSet(seen'[z]) \cup Ahead(z, page + 1)
    BY <1>2, <1>3, <1>6, PageOfAhead
  <1>8. unread' \subseteq unread /\ unread \subseteq Managed /\ unread \ unread' \subseteq {z}
    BY <1>1 DEF ListingInv
  <1>9. ASSUME NEW y \in Managed \ (unread' \cup shrunk'), y # z
        PROVE  lasting'[y] \subseteq ToSet(seen'[y])
    <2>1. y \in Zone /\ y \notin unread
      BY <1>8, <1>9 DEF Managed
    <2>2. QED  BY <1>4, <1>5, <1>9, <2>1 DEF ListingInv
  <1>10. CASE isEndPage(LastPage(dns[z]), page)
    <2>1. unread' = unread \ {z} /\ page' = 1 /\ pageOf' = NoZone
      BY <1>1, <1>10
    <2>2. z \notin shrunk' => lasting'[z] \subseteq ToSet(seen'[z])
      BY <1>2, <1>7, <1>10, NothingAfterLastPage
    <2>3. Managed' = Managed
      BY DEF Managed, Matches, GetDomainFilter
    <2>4. QED  BY <1>8, <1>9, <2>1, <2>2, <2>3 DEF ListingInv
  <1>11. CASE ~isEndPage(LastPage(dns[z]), page)
    <2>1. unread' = unread /\ page' = page + 1 /\ pageOf' = z
      BY <1>1, <1>11
    <2>2. page' # 1
      BY <1>2, <2>1
    <2>3. Ahead(pageOf, page)' = Ahead(z, page + 1)
      BY <1>2, <2>1 DEF Ahead
    <2>4. Managed' = Managed
      BY DEF Managed, Matches, GetDomainFilter
    <2>5. QED  BY <1>2, <1>7, <1>8, <1>9, <2>1, <2>2, <2>3, <2>4 DEF ListingInv
  <1>12. QED  BY <1>10, <1>11

\* A creation keeps what lies ahead ahead.
LEMMA InsertKeepsAhead ==
  ASSUME TypeOK, NEW z \in Zone, NEW rr \in RRSet, Insert(z, rr), NEW y \in Zone,
         NEW p \in Nat \ {0}, NEW x \in Ahead(y, p)
  PROVE  \E j \in DOMAIN dns'[y] : (p - 1) * BatchSize < j /\ dns'[y][j] = x
  <1>1. PICK i \in 1..Len(dns[z]) + 1 : dns' = [dns EXCEPT ![z] = InsertAt(@, i, rr)]
    BY DEF Insert
  <1>2. PICK j \in DOMAIN dns[y] : (p - 1) * BatchSize < j /\ dns[y][j] = x
    BY DEF Ahead
  <1>3. CASE y # z
    BY <1>1, <1>2, <1>3 DEF TypeOK
  <1>4. CASE y = z
    <2> DEFINE s == dns[z]
               t == InsertAt(s, i, rr)
               b == (p - 1) * BatchSize
    <2>1. s \in Seq(RRSet) /\ dns'[z] = t
      BY <1>1 DEF TypeOK
    <2>2. b \in Nat
      BY JourneyAssumption
    <2>3. j \in DOMAIN s /\ b < j /\ s[j] = x
      BY <1>2, <1>4
    <2> HIDE DEF s, b
    <2> DEFINE left  == SubSeq(s, 1, i - 1)
               one   == <<rr>>
               right == SubSeq(s, i, Len(s))
               front == left \o one
    <2>4. i \in Nat /\ 1 <= i /\ i <= Len(s) + 1
      BY <2>1 DEF s
    <2>5. /\ left \in Seq(RRSet) /\ Len(left) = i - 1
          /\ \A k \in 1..i - 1 : left[k] = s[k]
      BY <2>1, <2>4
    <2>6. one \in Seq(RRSet) /\ Len(one) = 1
      OBVIOUS
    <2>7. /\ right \in Seq(RRSet) /\ Len(right) = Len(s) - i + 1
          /\ \A k \in 1..Len(s) - i + 1 : right[k] = s[i + k - 1]
      <3>1. i \in Int /\ Len(s) \in Int /\ \A k \in i..Len(s) : s[k] \in RRSet
        BY <2>1, <2>4
      <3>2. QED  BY <2>4, <3>1, SubSeqProperties
    <2>8. t = front \o right
      BY Zenon DEF InsertAt
    <2> HIDE DEF left, one, right, t
    <2>9. /\ front \in Seq(RRSet) /\ Len(front) = i
          /\ \A k \in 1..i - 1 : front[k] = s[k]
      <3>1. /\ front \in Seq(RRSet) /\ Len(front) = Len(left) + Len(one)
            /\ \A k \in 1..Len(left) + Len(one) :
                 front[k] = IF k <= Len(left) THEN left[k] ELSE one[k - Len(left)]
        BY <2>5, <2>6, ConcatProperties
      <3> HIDE DEF front
      <3>2. QED  BY <2>4, <2>5, <2>6, <3>1
    <2> HIDE DEF front
    <2>10. /\ t \in Seq(RRSet) /\ Len(t) = Len(s) + 1
           /\ \A k \in 1..Len(s) + 1 : t[k] = IF k <= i THEN front[k] ELSE right[k - i]
      <3>1. /\ front \o right \in Seq(RRSet) /\ Len(front \o right) = Len(front) + Len(right)
            /\ \A k \in 1..Len(front) + Len(right) :
                 (front \o right)[k] = IF k <= Len(front) THEN front[k] ELSE right[k - Len(front)]
        BY <2>7, <2>9, ConcatProperties
      <3>2. Len(front) = i /\ Len(front) + Len(right) = Len(s) + 1
        BY <2>1, <2>4, <2>7, <2>9
      <3>3. QED  BY <2>8, <3>1, <3>2
    <2>11. DOMAIN t = 1..Len(s) + 1 /\ j \in 1..Len(s)
      BY <2>1, <2>3, <2>10
    <2>12. CASE j < i
      <3>1. j \in DOMAIN t /\ t[j] = x
        BY <2>3, <2>4, <2>9, <2>10, <2>11, <2>12
      <3>2. QED  BY <1>4, <2>1, <2>3, <3>1 DEF b
    <2>13. CASE ~(j < i)
      <3>1. j + 1 \in DOMAIN t /\ (j + 1) - i \in 1..Len(s) - i + 1 /\ ~(j + 1 <= i)
            /\ i + ((j + 1) - i) - 1 = j
        BY <2>1, <2>4, <2>11, <2>13
      <3>2. right[(j + 1) - i] = s[j]
        BY <2>7, <3>1
      <3>3. t[j + 1] = x
        BY <2>3, <2>10, <2>11, <3>1, <3>2
      <3>4. b < j + 1
        BY <2>2, <2>3, <2>11
      <3>5. QED  BY <1>4, <2>1, <3>1, <3>3, <3>4 DEF b
    <2>14. QED  BY <2>12, <2>13
  <1>5. QED  BY <1>3, <1>4

LEMMA ForeignCreateLists ==
  ASSUME TypeOK, ListingInv, NEW z \in Zone, ForeignCreate(z)
  PROVE  ListingInv'
  <1>1. PICK rr \in Edits : Insert(z, rr)
    BY DEF ForeignCreate
  <1>2. UNCHANGED <<unread, page, pageOf, seen, lasting, shrunk>>
    BY DEF ForeignCreate, request
  <1>3. Managed' = Managed
    BY DEF Managed, Matches, GetDomainFilter
  <1>4. ASSUME pageOf \notin {NoZone} \cup shrunk, NEW x \in Ahead(pageOf, page)
        PROVE  x \in Ahead(pageOf, page)'
    <2>1. pageOf \in Zone /\ page \in Nat \ {0} /\ rr \in RRSet
      BY <1>4, JourneyAssumption DEF TypeOK
    <2>2. \E j \in DOMAIN dns'[pageOf] : (page - 1) * BatchSize < j /\ dns'[pageOf][j] = x
      BY <1>1, <1>4, <2>1, InsertKeepsAhead
    <2>3. QED  BY <1>2, <2>2 DEF Ahead
  <1>5. QED  BY <1>2, <1>3, <1>4 DEF ListingInv

LEMMA ForeignDeleteLists ==
  ASSUME TypeOK, ListingInv, NEW z \in Zone, ForeignDelete(z)
  PROVE  ListingInv'
  <1>1. PICK i \in DOMAIN dns[z] :
          /\ dns' = [dns EXCEPT ![z] = RemoveAt(@, i)]
          /\ lasting' = [lasting EXCEPT ![z] = @ \ {dns[z][i]}]
    BY DEF ForeignDelete
  <1>2. shrunk' = shrunk \cup {z} /\ UNCHANGED <<unread, page, pageOf, seen>>
    BY DEF ForeignDelete, request
  <1>3. Managed' = Managed
    BY DEF Managed, Matches, GetDomainFilter
  <1>4. \A y \in Zone \ {z} : dns'[y] = dns[y] /\ lasting'[y] = lasting[y]
    BY <1>1 DEF TypeOK
  <1>5. ASSUME NEW y \in Managed \ (unread' \cup shrunk')
        PROVE  lasting'[y] \subseteq ToSet(seen'[y])
    <2>1. y \in Zone \ {z} /\ y \in Managed \ (unread \cup shrunk)
      BY <1>2, <1>5 DEF Managed
    <2>2. QED  BY <1>2, <1>4, <2>1 DEF ListingInv
  <1>6. ASSUME pageOf \notin {NoZone} \cup shrunk'
        PROVE  lasting'[pageOf] \subseteq ToSet(seen'[pageOf]) \cup Ahead(pageOf, page)'
    <2>1. pageOf \in Zone \ {z} /\ pageOf \notin {NoZone} \cup shrunk
      BY <1>2, <1>6 DEF TypeOK
    <2>2. Ahead(pageOf, page)' = Ahead(pageOf, page)
      BY <1>2, <1>4, <2>1 DEF Ahead
    <2>3. QED  BY <1>2, <1>4, <2>1, <2>2 DEF ListingInv
  <1>7. QED  BY <1>2, <1>3, <1>5, <1>6 DEF ListingInv

\* A listing that begins has listed nothing.
LEMMA FetchLists ==
  ASSUME NEW why, Fetch(why)
  PROVE  ListingInv'
  <1>1. Managed' = Managed
    BY DEF Managed, Matches, GetDomainFilter
  <1>2. unread' = Managed /\ page' = 1 /\ pageOf' = NoZone
    BY DEF Fetch
  <1>3. QED  BY <1>1, <1>2 DEF ListingInv

LEMMA FetchingInit == Init => Fetching
  BY DEF Init, Fetching

LEMMA FetchingNext == TypeOK /\ Fetching /\ [Next]_vars => Fetching'
  <1> SUFFICES ASSUME TypeOK, Fetching, [Next]_vars  PROVE Fetching'
    OBVIOUS
  <1> USE DEF Fetching
  <1>1. CASE StartRecords \/ StartApply
    BY <1>1, FetchLists DEF StartRecords, StartApply
  <1>2. CASE FetchPage
    BY <1>2, FetchPageLists DEF FetchPage
  <1>3. CASE ReturnRecords \/ AdjustEndpoints \/ Queue
    BY <1>3 DEF ReturnRecords, AdjustEndpoints, Queue
  <1>4. CASE AdjustEndpointsFails \/ ReturnUnchanged \/ CallRefused \/ ReturnApplied
    BY <1>4 DEF AdjustEndpointsFails, ReturnUnchanged, CallRefused, ReturnApplied, EndCycle
  <1>5. CASE DoCall \/ applyZoneChanges
    BY <1>5 DEF DoCall, applyZoneChanges
  <1>6. CASE Restart
    BY <1>6 DEF Restart, EndCycle
  <1>7. ASSUME NEW z \in Zone, ForeignCreate(z)
        PROVE  Fetching'
    BY <1>7, ForeignCreateLists DEF ForeignCreate
  <1>8. ASSUME NEW z \in Zone, ForeignDelete(z)
        PROVE  Fetching'
    BY <1>8, ForeignDeleteLists DEF ForeignDelete
  <1>9. CASE ChangeWant \/ UNCHANGED vars
    <2>1. UNCHANGED <<pc, dns, unread, page, pageOf, seen, lasting, shrunk>>
      BY <1>9 DEF ChangeWant, vars, request
    <2>2. UNCHANGED Managed /\ UNCHANGED Ahead(pageOf, page)
      BY <2>1 DEF Managed, Matches, GetDomainFilter, Ahead
    <2>3. QED  BY <2>1, <2>2 DEF ListingInv
  <1>10. QED
    BY <1>1, <1>2, <1>3, <1>4, <1>5, <1>6, <1>7, <1>8, <1>9 DEF Next, Cycle, Outside

\* Of what is in a zone while its pages are fetched a listing misses nothing,
\* whatever the size of the pages and however many recordsets are created in the
\* meantime, unless one of the zone is deleted.  (fetchRecords)
THEOREM ListingsAreComplete == Spec => []ListingComplete
  <1>1. Fetching => ListingComplete
    BY DEF Fetching, ListingInv, ListingComplete
  <1>2. Typed => TypeOK
    BY DEF Typed
  <1>3. QED  BY <1>1, <1>2, FetchingInit, FetchingNext, AlwaysTyped, PTL DEF Spec

-----------------------------------------------------------------------------
(* Names that are cut and joined.                                          *)

\* What is cut off a name is put back.
LEMMA CutAndJoin ==
  ASSUME NEW S, NEW n \in Seq(S), NEW zone \in Seq(S), Below(n, zone)
  PROVE  CutZone(n, zone) \o zone = n
  <1> DEFINE k   == Len(n) - Len(zone)
             cut == SubSeq(n, 1, k)
  <1>1. /\ k \in 1..Len(n) /\ Len(n) = k + Len(zone)
        /\ \A i \in 1..Len(zone) : n[k + i] = zone[i]
    <2>1. /\ Len(zone) < Len(n)
          /\ \A i \in 1..Len(zone) : n[Len(n) - Len(zone) + i] = zone[i]
      BY BelowMeans
    <2>2. Len(n) \in Nat /\ Len(zone) \in Nat
      OBVIOUS
    <2>3. QED  BY <2>1, <2>2
  <1>2. CutZone(n, zone) = cut
    BY DEF CutZone
  <1> HIDE DEF k
  <1>3. cut \in Seq(S) /\ Len(cut) = k /\ \A i \in 1..k : cut[i] = n[i]
    BY <1>1
  <1> HIDE DEF cut
  <1>4. /\ cut \o zone \in Seq(S) /\ Len(cut \o zone) = Len(n)
        /\ \A i \in 1..Len(n) : (cut \o zone)[i] = IF i <= k THEN cut[i] ELSE zone[i - k]
    <2>1. /\ cut \o zone \in Seq(S) /\ Len(cut \o zone) = Len(cut) + Len(zone)
          /\ \A i \in 1..Len(cut) + Len(zone) :
               (cut \o zone)[i] = IF i <= Len(cut) THEN cut[i] ELSE zone[i - Len(cut)]
      BY <1>3, ConcatProperties
    <2>2. Len(cut) = k /\ Len(cut) + Len(zone) = Len(n)
      BY <1>1, <1>3
    <2>3. QED  BY <2>1, <2>2
  <1>5. \A i \in 1..Len(n) : (cut \o zone)[i] = n[i]
    <2>1. SUFFICES ASSUME NEW i \in 1..Len(n)  PROVE (cut \o zone)[i] = n[i]
      OBVIOUS
    <2>2. CASE i <= k
      BY <1>1, <1>3, <1>4, <2>2
    <2>3. CASE ~(i <= k)
      <3>1. i - k \in 1..Len(zone) /\ k + (i - k) = i
        BY <1>1, <2>3
      <3>2. n[k + (i - k)] = zone[i - k]
        BY <1>1, <3>1
      <3>3. QED  BY <1>4, <2>3, <3>1, <3>2
    <2>4. QED  BY <2>2, <2>3
  <1>6. QED  BY <1>2, <1>4, <1>5, SeqEqual

LEMMA FoundIsSuffix ==
  ASSUME NEW n \in Name, InUnicode(n), FindZone(Zone, n) # NoZone
  PROVE  /\ FindZone(Zone, n) \in Zone
         /\ n = FindZone(Zone, n) \/ Below(n, FindZone(Zone, n))
  <1> DEFINE unicode == [i \in DOMAIN n |-> ToUnicode[n[i]]]
  <1>1. n \in Seq(Part) /\ Zone \in SUBSET Name
    BY JourneyAssumption DEF Name
  <1>2. unicode = n
    <2>1. unicode \in Seq(Part) /\ Len(unicode) = Len(n)
      BY <1>1, NamesAssumption
    <2>2. \A i \in 1..Len(n) : unicode[i] = n[i]
      BY <1>1 DEF InUnicode
    <2> HIDE DEF unicode
    <2>3. QED  BY <1>1, <2>1, <2>2, SeqEqual
  <1>3. FindZone(Zone, n) \in Suitable(Zone, n)
    BY <1>1, LongestIsFound
  <1>4. QED  BY <1>2, <1>3 DEF Suitable

\* The name that a recordset of a zone bears is that of the endpoint.
LEMMA MatchingNameIsRead ==
  ASSUME NEW z \in Zone, NEW n \in Name, n = z \/ Below(n, z),
         NEW rr, rr.name = MatchingName(z, n)
  PROVE  RRName(z, rr) = n
  <1>1. CASE n = z
    BY <1>1 DEF MatchingName, RRName
  <1>2. CASE n # z
    <2>1. n \in Seq(Part) /\ z \in Seq(Part) /\ Below(n, z)
      BY <1>2, ZoneIsAName DEF Name
    <2>2. CutZone(n, z) \o z = n
      BY <2>1, CutAndJoin
    <2>3. rr.name = CutZone(n, z)
      BY <1>2 DEF MatchingName
    <2>4. CutZone(n, z) # <<At>>
      <3>1. CutZone(n, z) \in Seq(Part)
        BY <2>1, CutType
      <3>2. <<At>> \notin Seq(Part)
        BY NamesAssumption
      <3>3. QED  BY <3>1, <3>2
    <2>5. QED  BY <2>2, <2>3, <2>4 DEF RRName
  <1>3. QED  BY <1>1, <1>2

\* So does the name of a new recordset, unless it repeats the zone.
LEMMA MadeNameIsRead ==
  ASSUME NEW z \in Zone, NEW n \in Name, n = z \/ Below(n, z),
         NEW rr, rr.name = makeEndpointName(z, n)
  PROVE  RRName(z, rr) = n \/ (rr.name = <<At>> /\ n = z \o z)
  <1>1. n \in Seq(Part) /\ z \in Seq(Part)
    BY ZoneIsAName DEF Name
  <1>2. CASE CutZone(n, z) = z
    <2>1. rr.name = <<At>> /\ RRName(z, rr) = z
      BY <1>2 DEF makeEndpointName, RRName
    <2>2. CASE Below(n, z)
      BY <1>1, <1>2, <2>1, <2>2, CutAndJoin
    <2>3. CASE ~Below(n, z)
      BY <2>1, <2>3
    <2>4. QED  BY <2>2, <2>3
  <1>3. CASE CutZone(n, z) # z
    <2>1. rr.name = CutZone(n, z)
      BY <1>3 DEF makeEndpointName
    <2>2. n # z
      <3>1. ASSUME n = z  PROVE FALSE
        <4>1. ~Below(n, z)
          BY <1>1, <3>1, BelowMeans
        <4>2. QED  BY <1>3, <3>1, <4>1 DEF CutZone
      <3>2. QED  BY <3>1
    <2>3. rr.name = MatchingName(z, n)
      BY <2>1, <2>2 DEF MatchingName
    <2>4. QED  BY <2>3, MatchingNameIsRead
  <1>4. QED  BY <1>2, <1>3

-----------------------------------------------------------------------------
(* What a call changes in the set of the recordsets of a zone.             *)

LEMMA InsertSet ==
  ASSUME NEW S, NEW s \in Seq(S), NEW i \in 1..Len(s) + 1, NEW e \in S
  PROVE  ToSet(InsertAt(s, i, e)) = ToSet(s) \cup {e}
  <1> DEFINE left  == SubSeq(s, 1, i - 1)
             right == SubSeq(s, i, Len(s))
  <1>1. left \in Seq(S) /\ right \in Seq(S) /\ <<e>> \in Seq(S)
    OBVIOUS
  <1>2. left \o right = s
    <2>1. i - 1 \in (1 - 1)..Len(s) /\ Len(s) \in (i - 1)..Len(s) /\ 1 \in 1..Len(s) + 1
          /\ (i - 1) + 1 = i
      OBVIOUS
    <2>2. SubSeq(s, 1, i - 1) \o SubSeq(s, (i - 1) + 1, Len(s)) = SubSeq(s, 1, Len(s))
      BY <2>1, ConcatAdjacentSubSeq
    <2>3. QED  BY <2>1, <2>2, SubSeqFull
  <1>3. ToSet(<<e>>) = {e}
    BY DEF ToSet
  <1>4. InsertAt(s, i, e) = left \o <<e>> \o right
    BY Zenon DEF InsertAt
  <1> HIDE DEF left, right
  <1>5. left \o <<e>> \in Seq(S)
    BY <1>1, ConcatProperties
  <1> DEFINE one == <<e>>
             two == left \o one
  <1> HIDE DEF one, two
  <1>6. one \in Seq(S) /\ two \in Seq(S)
    BY <1>1, <1>5 DEF one, two
  <1>7. ToSet(left \o one) = ToSet(left) \cup ToSet(one)
    BY <1>1, <1>6, ToSetConcat, Zenon
  <1>8. ToSet(two \o right) = ToSet(two) \cup ToSet(right)
    BY <1>1, <1>6, ToSetConcat, Zenon
  <1>9. ToSet(left \o right) = ToSet(left) \cup ToSet(right)
    BY <1>1, ToSetConcat, Zenon
  <1>10. ToSet(InsertAt(s, i, e)) = ToSet(two) \cup ToSet(right)
    BY <1>4, <1>8, Zenon DEF two, one
  <1>11. ToSet(two) = ToSet(left) \cup {e}
    BY <1>3, <1>7, Zenon DEF two, one
  <1>12. QED  BY <1>2, <1>9, <1>10, <1>11

LEMMA ReplaceSet ==
  ASSUME NEW S, NEW s \in Seq(S), NEW i \in DOMAIN s, NEW e \in S
  PROVE  /\ ToSet(ReplaceAt(s, i, e)) \subseteq ToSet(s) \cup {e}
         /\ ToSet(s) \subseteq ToSet(ReplaceAt(s, i, e)) \cup {s[i]}
  <1> DEFINE t == ReplaceAt(s, i, e)
  <1>1. DOMAIN t = DOMAIN s /\ t[i] = e /\ \A j \in DOMAIN s \ {i} : t[j] = s[j]
    BY DEF ReplaceAt
  <1> HIDE DEF t
  <1>2. QED  BY <1>1 DEF ToSet, t

LEMMA RemoveSet ==
  ASSUME NEW S, NEW s \in Seq(S), NEW i \in DOMAIN s
  PROVE  /\ ToSet(RemoveAt(s, i)) \subseteq ToSet(s)
         /\ ToSet(s) \subseteq ToSet(RemoveAt(s, i)) \cup {s[i]}
  <1> DEFINE left  == SubSeq(s, 1, i - 1)
             right == SubSeq(s, i + 1, Len(s))
             one   == <<s[i]>>
             end   == one \o right
  <1>1. left \in Seq(S) /\ right \in Seq(S) /\ one \in Seq(S) /\ i \in 1..Len(s)
    OBVIOUS
  <1>2. left \o end = s
    <2>1. i - 1 \in (1 - 1)..Len(s) /\ Len(s) \in (i - 1)..Len(s) /\ 1 \in 1..Len(s) + 1
          /\ (i - 1) + 1 = i /\ Len(s) \in i..Len(s)
      BY <1>1
    <2>2. SubSeq(s, 1, i - 1) \o SubSeq(s, (i - 1) + 1, Len(s)) = SubSeq(s, 1, Len(s))
      BY <2>1, ConcatAdjacentSubSeq
    <2>3. SubSeq(s, i, Len(s)) = one \o right
      BY <1>1, <2>1, SubSeqRecursiveFirst
    <2>4. QED  BY <2>1, <2>2, <2>3, SubSeqFull
  <1>3. ToSet(one) = {s[i]}
    BY DEF ToSet
  <1>4. RemoveAt(s, i) = left \o right
    BY Zenon DEF RemoveAt
  <1> HIDE DEF left, right, one
  <1>5. end \in Seq(S)
    BY <1>1, ConcatProperties
  <1>6. ToSet(end) = ToSet(one) \cup ToSet(right)
    BY <1>1, ToSetConcat
  <1> HIDE DEF end
  <1>7. ToSet(left \o end) = ToSet(left) \cup ToSet(end)
    BY <1>1, <1>5, ToSetConcat
  <1>8. ToSet(left \o right) = ToSet(left) \cup ToSet(right)
    BY <1>1, ToSetConcat
  <1>9. QED  BY <1>2, <1>3, <1>4, <1>6, <1>7, <1>8

\* A listing of a finite set has all of it.
LEMMA ListingSet ==
  ASSUME NEW S, IsFiniteSet(S), NEW s \in SetToSeqs(S)
  PROVE  ToSet(s) = S
  <1> DEFINE D == 1..Cardinality(S)
  <1>1. Cardinality(S) \in Nat
    BY FS_CardinalityType
  <1>2. IsFiniteSet(D) /\ Cardinality(D) = Cardinality(S)
    BY <1>1, FS_Interval
  <1>3. s \in [D -> S] /\ \A i, j \in D : i # j => s[i] # s[j]
    BY DEF SetToSeqs
  <1> HIDE DEF D
  <1>4. s \in Injection(D, S)
    <2>1. DOMAIN s = D
      BY <1>3
    <2>2. \A i, j \in DOMAIN s : s[i] = s[j] => i = j
      BY <1>3, <2>1
    <2>3. QED  BY <1>3, <2>2, Zenon DEF Injection, IsInjective
  <1>5. s \in Surjection(D, S)
    BY <1>2, <1>4, FS_Injection
  <1>6. \A x \in S : \E i \in D : s[i] = x
    BY <1>5 DEF Surjection
  <1>7. QED  BY <1>3, <1>6 DEF ToSet

-----------------------------------------------------------------------------
(* What is written meets its name.                                         *)

Meets(z, rr) ==
  \/ <<RRName(z, rr), rr.type>> \in Owned /\ z = FindZone(Zone, RRName(z, rr))
  \/ rr.name = <<At>> /\ <<z \o z, rr.type>> \in Owned

\* What is planned is owned, and what is queued meets its name, in the zones that
\* were mapped before the recordsets were fetched.
NamesInv ==
  /\ pc = "fetch" => mapper = Zone
  /\ \A op \in {"create", "update", "delete"} : \A ep \in plan[op] : Id(ep) \in Owned
  /\ \A c \in calls : Meets(c.zone, c.rrset)

LEMMA MeetsByName ==
  ASSUME NEW z, NEW rr, NEW other, rr.name = other.name, rr.type = other.type, Meets(z, other)
  PROVE  Meets(z, rr)
  BY DEF Meets, RRName

LEMMA EndpointMeets ==
  ASSUME OwnedInUnicode, mapper = Zone, NEW ep \in Endpoint, Id(ep) \in Owned,
         ZoneOf(ep) # NoZone, NEW rr, rr.type = ep.type,
         rr.name \in {MatchingName(ZoneOf(ep), ep.name), makeEndpointName(ZoneOf(ep), ep.name)}
  PROVE  Meets(ZoneOf(ep), rr)
  <1> DEFINE z == ZoneOf(ep)
             n == ep.name
  <1>1. n \in Name /\ Id(ep) = <<n, ep.type>> /\ z = FindZone(Zone, n)
    BY EndpointFields DEF Id, ZoneOf
  <1>2. InUnicode(n)
    <2>1. Id(ep)[1] = n
      BY <1>1
    <2>2. QED  BY <2>1 DEF OwnedInUnicode
  <1>3. z \in Zone /\ (n = z \/ Below(n, z))
    BY <1>1, <1>2, FoundIsSuffix
  <1>4. RRName(z, rr) = n \/ (rr.name = <<At>> /\ n = z \o z)
    BY <1>1, <1>3, MatchingNameIsRead, MadeNameIsRead
  <1>5. QED  BY <1>1, <1>4 DEF Meets

LEMMA QueuedMeets ==
  ASSUME TypeOK, NamesInv, OwnedInUnicode, mapper = Zone
  PROVE  \A c \in Creations \cup Updates \cup Deletions : Meets(c.zone, c.rrset)
  <1>1. \A op \in {"create", "update", "delete"} :
          \A ep \in plan[op] : ep \in Endpoint /\ Id(ep) \in Owned
    <2>1. plan.create \in SUBSET Endpoint /\ plan.update \in SUBSET Endpoint
          /\ plan.delete \in SUBSET Endpoint
      BY DEF TypeOK, Plan
    <2>2. QED  BY <2>1 DEF NamesInv
  <1>2. ASSUME NEW ep \in Unknown(plan.create)
        PROVE  Meets(CreateCall(ep).zone, CreateCall(ep).rrset)
    <2>1. ep \in Endpoint /\ Id(ep) \in Owned /\ ZoneOf(ep) # NoZone
      BY <1>1, <1>2 DEF Unknown
    <2> DEFINE rr == CreateCall(ep).rrset
    <2>2. /\ CreateCall(ep).zone = ZoneOf(ep) /\ rr.type = ep.type
          /\ rr.name = makeEndpointName(ZoneOf(ep), ep.name)
      BY DEF CreateCall
    <2> HIDE DEF rr
    <2>3. Meets(ZoneOf(ep), rr)
      BY <2>1, <2>2, EndpointMeets
    <2>4. QED  BY <2>2, <2>3 DEF rr
  <1>3. ASSUME NEW ep \in Known(plan.update)
        PROVE  Meets(UpdateCall(ep).zone, UpdateCall(ep).rrset)
    <2>1. ep \in Endpoint /\ Id(ep) \in Owned /\ ZoneOf(ep) # NoZone /\ Matching(ep) # {}
      BY <1>1, <1>3 DEF Known
    <2> DEFINE rr  == UpdateCall(ep).rrset
               old == getMatchingDomainRRSet(ep)
    <2>2. /\ old \in RRSet /\ old.name = MatchingName(ZoneOf(ep), ep.name) /\ old.type = ep.type
      BY <2>1, MatchType
    <2>3. UpdateCall(ep).zone = ZoneOf(ep) /\ rr.name = old.name /\ rr.type = old.type
      <3> HIDE DEF old
      <3>1. QED  BY <2>2 DEF UpdateCall, RRSet, old
    <2> HIDE DEF rr, old
    <2>4. Meets(ZoneOf(ep), rr)
      BY <2>1, <2>2, <2>3, EndpointMeets
    <2>5. QED  BY <2>3, <2>4 DEF rr
  <1>4. ASSUME NEW ep \in Known(plan.delete)
        PROVE  Meets(DeleteCall(ep).zone, DeleteCall(ep).rrset)
    <2>1. ep \in Endpoint /\ Id(ep) \in Owned /\ ZoneOf(ep) # NoZone /\ Matching(ep) # {}
      BY <1>1, <1>4 DEF Known
    <2> DEFINE rr == getMatchingDomainRRSet(ep)
    <2>2. rr.name = MatchingName(ZoneOf(ep), ep.name) /\ rr.type = ep.type
      BY <2>1, MatchType
    <2>3. DeleteCall(ep).zone = ZoneOf(ep) /\ DeleteCall(ep).rrset = rr
      BY DEF DeleteCall
    <2> HIDE DEF rr
    <2>4. QED  BY <2>1, <2>2, <2>3, EndpointMeets
  <1>5. QED  BY <1>2, <1>3, <1>4 DEF Creations, Updates, Deletions

\* The recordsets of a zone that a step takes away and brings.
Changed(z) == (ToSet(dns[z]) \ ToSet(dns'[z])) \cup (ToSet(dns'[z]) \ ToSet(dns[z]))

LEMMA CallMeets ==
  ASSUME TypeOK, NEW c \in Call, Accepted(c), Effect(c), Meets(c.zone, c.rrset),
         NEW z \in Zone, NEW rr \in Changed(z)
  PROVE  Meets(z, rr)
  <1> DEFINE call == c.rrset
             i    == Place(c.zone, call)
  <1>1. c.zone \in Zone /\ call \in RRSet /\ c.op \in {"create", "update", "delete"}
    BY DEF Call
  <1>2. dns[c.zone] \in Seq(RRSet) /\ DOMAIN dns = Zone
    BY <1>1 DEF TypeOK
  <1>3. ASSUME c.zone = z, i # 0,
               ToSet(dns'[z]) \subseteq ToSet(dns[z]) \cup {call},
               ToSet(dns[z]) \subseteq ToSet(dns'[z]) \cup {dns[z][i]}
        PROVE  Meets(z, rr)
    <2>1. rr \in {call, dns[z][i]}
      BY <1>3 DEF Changed
    <2>2. dns[z][i].name = call.name /\ dns[z][i].type = call.type
      BY <1>1, <1>3, PlaceType
    <2>3. rr.name = call.name /\ rr.type = call.type
      BY <2>1, <2>2
    <2>4. QED  BY <1>3, <2>3, MeetsByName
  <1>4. CASE c.op = "create"
    <2>1. Insert(c.zone, call)
      BY <1>4 DEF Effect
    <2>2. PICK j \in 1..Len(dns[c.zone]) + 1 :
            dns' = [dns EXCEPT ![c.zone] = InsertAt(@, j, call)]
      BY <2>1 DEF Insert
    <2>3. c.zone = z
      BY <1>2, <2>2 DEF Changed
    <2>4. dns'[z] = InsertAt(dns[z], j, call)
      BY <1>2, <2>2, <2>3
    <2>5. ToSet(dns'[z]) = ToSet(dns[z]) \cup {call}
      BY <1>1, <1>2, <2>3, <2>4, InsertSet
    <2>6. rr = call
      BY <2>5 DEF Changed
    <2>7. QED  BY <2>3, <2>6
  <1>5. CASE c.op = "update"
    <2>1. i # 0 /\ dns' = [dns EXCEPT ![c.zone] = ReplaceAt(@, i, call)]
      BY <1>5 DEF Accepted, Effect
    <2>2. c.zone = z
      BY <1>2, <2>1 DEF Changed
    <2>3. dns'[z] = ReplaceAt(dns[z], i, call) /\ i \in DOMAIN dns[z]
      BY <1>1, <1>2, <2>1, <2>2, PlaceType
    <2> HIDE DEF i, call
    <2>4. /\ ToSet(dns'[z]) \subseteq ToSet(dns[z]) \cup {call}
          /\ ToSet(dns[z]) \subseteq ToSet(dns'[z]) \cup {dns[z][i]}
      BY <1>1, <1>2, <2>2, <2>3, ReplaceSet
    <2>5. QED  BY <1>3, <2>1, <2>2, <2>4
  <1>6. CASE c.op = "delete"
    <2>1. i # 0 /\ dns' = [dns EXCEPT ![c.zone] = RemoveAt(@, i)]
      BY <1>6 DEF Accepted, Effect
    <2>2. c.zone = z
      BY <1>2, <2>1 DEF Changed
    <2>3. dns'[z] = RemoveAt(dns[z], i) /\ i \in DOMAIN dns[z]
      BY <1>1, <1>2, <2>1, <2>2, PlaceType
    <2> HIDE DEF i, call
    <2>4. /\ ToSet(dns'[z]) \subseteq ToSet(dns[z])
          /\ ToSet(dns[z]) \subseteq ToSet(dns'[z]) \cup {dns[z][i]}
      BY <1>1, <1>2, <2>2, <2>3, RemoveSet
    <2>5. QED  BY <1>3, <2>1, <2>2, <2>4
  <1>7. QED  BY <1>1, <1>4, <1>5, <1>6

\* A zonefile differs from its zone in what a call is about.
LEMMA FileMeets ==
  ASSUME TypeOK, NEW z \in Zone, NEW cs \in SUBSET Call, IsFiniteSet(cs),
         \A c \in cs : Meets(z, c.rrset),
         NEW file \in runZoneChanges(z, cs),
         NEW rr \in (ToSet(dns[z]) \ ToSet(file)) \cup (ToSet(file) \ ToSet(dns[z]))
  PROVE  Meets(z, rr)
  <1>0. PICK added \in OneOfEachName(New(z, cs)) : file \in SetToSeqs(Content(z, cs, added))
    BY FileContent
  <1>1. ToSet(file) = Content(z, cs, added)
    BY <1>0, ContentType, ListingSet
  <1>2. ToSet(dns[z]) \in SUBSET RRSet
    BY ToSetFinite DEF TypeOK
  <1>3. ASSUME NEW old \in ToSet(dns[z]), NEW op \in {"update", "delete"}, On(cs, op, old) # {}
        PROVE  Meets(z, old)
    <2>1. PICK c \in cs : c.rrset.name = old.name /\ c.rrset.type = old.type
      BY <1>3 DEF On
    <2>2. QED  BY <2>1, MeetsByName
  <1>4. ASSUME NEW old \in Kept(z, cs), Edited(z, cs, old) # old
        PROVE  Meets(z, old) /\ Meets(z, Edited(z, cs, old))
    <2>1. old \in ToSet(dns[z]) /\ old \in RRSet
      BY <1>2 DEF Kept
    <2>2. On(cs, "update", old) # {}
      BY <1>4 DEF Edited
    <2>3. Meets(z, old)
      BY <1>3, <2>1, <2>2
    <2>4. Edited(z, cs, old).name = old.name /\ Edited(z, cs, old).type = old.type
      BY <2>1, EditedType
    <2>5. QED  BY <2>3, <2>4, MeetsByName
  <1>5. CASE rr \in ToSet(dns[z]) /\ rr \notin Content(z, cs, added)
    <2>1. CASE rr \in Kept(z, cs)
      <3>1. Edited(z, cs, rr) # rr
        BY <1>5, <2>1 DEF Content
      <3>2. QED  BY <1>4, <2>1, <3>1
    <2>2. CASE rr \notin Kept(z, cs)
      BY <1>3, <1>5, <2>2 DEF Kept
    <2>3. QED  BY <2>1, <2>2
  <1>6. CASE rr \in Content(z, cs, added) /\ rr \notin ToSet(dns[z])
    <2>1. CASE \E old \in Kept(z, cs) : rr = Edited(z, cs, old)
      <3>1. PICK old \in Kept(z, cs) : rr = Edited(z, cs, old)
        BY <2>1
      <3>2. rr # old
        BY <1>6 DEF Kept
      <3>3. QED  BY <1>4, <3>1, <3>2
    <2>2. CASE \E c \in added : rr = InFile(z, c.rrset, {})
      <3>1. PICK c \in added : rr = InFile(z, c.rrset, {})
        BY <2>2
      <3>2. c \in cs /\ c.rrset \in RRSet
        BY AddedAreNew DEF Call
      <3>3. rr.name = c.rrset.name /\ rr.type = c.rrset.type
        BY <3>1, <3>2, InFileType
      <3>4. QED  BY <3>2, <3>3, MeetsByName
    <2>3. QED  BY <1>6, <2>1, <2>2 DEF Content
  <1>7. QED  BY <1>1, <1>5, <1>6

LEMMA ZoneChangesMeet ==
  ASSUME Typed, NamesInv, applyZoneChanges, NEW y \in Zone, NEW rr \in Changed(y)
  PROVE  Meets(y, rr)
  <1>1. TypeOK /\ Finite
    BY DEF Typed
  <1>2. PICK z \in {c.zone : c \in calls} :
          \E file \in runZoneChanges(z, {c \in calls : c.zone = z}) :
               dns' = IF Valid(file) THEN [dns EXCEPT ![z] = file] ELSE dns
    BY DEF applyZoneChanges
  <1> DEFINE cs == {c \in calls : c.zone = z}
  <1>3. PICK file \in runZoneChanges(z, cs) :
          dns' = IF Valid(file) THEN [dns EXCEPT ![z] = file] ELSE dns
    BY <1>2
  <1>4. z \in Zone /\ cs \in SUBSET Call
    BY <1>1 DEF TypeOK, Call
  <1>5. IsFiniteSet(cs)
    BY <1>1, FS_Subset DEF Finite
  <1>6. \A c \in cs : Meets(z, c.rrset)
    BY DEF NamesInv
  <1>7. y = z /\ dns'[z] = file
    BY <1>1, <1>3, <1>4 DEF Changed, TypeOK
  <1>8. rr \in (ToSet(dns[z]) \ ToSet(file)) \cup (ToSet(file) \ ToSet(dns[z]))
    BY <1>7 DEF Changed
  <1> HIDE DEF cs
  <1>9. QED  BY <1>1, <1>4, <1>5, <1>6, <1>7, <1>8, FileMeets

LEMMA WritesMeet ==
  ASSUME Typed, NamesInv, Cycle, dns' # dns, NEW z \in Zone, NEW rr \in Changed(z)
  PROVE  Meets(z, rr)
  <1>1. CASE DoCall
    <2>1. PICK c \in Due : Accepted(c) /\ Effect(c)
      BY <1>1 DEF DoCall
    <2>2. c \in Call /\ Meets(c.zone, c.rrset) /\ TypeOK
      BY DEF Due, Typed, TypeOK, NamesInv
    <2>3. QED  BY <2>1, <2>2, CallMeets
  <1>2. CASE applyZoneChanges
    BY <1>2, ZoneChangesMeet
  <1>3. CASE StartRecords \/ FetchPage \/ ReturnRecords \/ AdjustEndpoints \/ AdjustEndpointsFails
             \/ ReturnUnchanged \/ StartApply \/ Queue \/ CallRefused \/ ReturnApplied
    BY <1>3 DEF StartRecords, FetchPage, ReturnRecords, AdjustEndpoints, AdjustEndpointsFails,
                ReturnUnchanged, StartApply, Queue, CallRefused, ReturnApplied
  <1>4. QED  BY <1>1, <1>2, <1>3 DEF Cycle

LEMMA NamesInit == Init => NamesInv
  BY NoPlanType DEF Init, NamesInv

\* What is planned is owned.
LEMMA PlannedIsOwned ==
  ASSUME NEW wanted, NEW shown, NEW op \in {"create", "update", "delete"},
         NEW ep \in PlanFor(wanted, shown)[op]
  PROVE  Id(ep) \in Owned
  <1> DEFINE p == PlanFor(wanted, shown)
  <1>1. /\ \A e \in p.create : Id(e) \in Owned
        /\ \A e \in p.update : Id(e) \in Owned
        /\ \A e \in p.delete : Id(e) \in Owned
    BY DEF PlanFor
  <1>2. QED  BY <1>1

LEMMA NamesNext ==
  ASSUME OwnedInUnicode, Typed, NamesInv, [Next]_vars
  PROVE  NamesInv'
  <1>1. CASE StartRecords \/ StartApply
    <2>1. mapper' = Zone /\ calls' = {} /\ plan' = plan
      BY <1>1 DEF StartRecords, StartApply, Fetch
    <2>2. QED  BY <2>1 DEF NamesInv
  <1>2. CASE FetchPage
    BY <1>2 DEF FetchPage, NamesInv, Meets, RRName
  <1>3. CASE ReturnRecords
    <2>1. pc' = "adjust" /\ UNCHANGED <<plan, calls>>
      BY <1>3 DEF ReturnRecords, request
    <2>2. QED  BY <2>1 DEF NamesInv, Meets, RRName
  <1>4. CASE AdjustEndpoints
    <2>1. PICK shown \in OneOfEach(Shown) :
            plan' = PlanFor({AdjustEndpoint(ep) : ep \in want}, shown)
      BY <1>4 DEF AdjustEndpoints
    <2>2. \A op \in {"create", "update", "delete"} : \A ep \in plan'[op] : Id(ep) \in Owned
      BY <2>1, PlannedIsOwned
    <2>3. pc' = "post" /\ UNCHANGED calls
      BY <1>4 DEF AdjustEndpoints
    <2>4. QED  BY <2>2, <2>3 DEF NamesInv, Meets, RRName
  <1>5. ASSUME NEW ok \in BOOLEAN, EndCycle(ok)
        PROVE  NamesInv'
    <2>1. pc' = "idle" /\ plan' = NoPlan /\ calls' = {}
      BY <1>5 DEF EndCycle
    <2>2. QED  BY <2>1, NoPlanType DEF NamesInv
  <1>6. CASE AdjustEndpointsFails \/ ReturnUnchanged \/ CallRefused \/ ReturnApplied
    <2>1. TRUE \in BOOLEAN /\ FALSE \in BOOLEAN
      OBVIOUS
    <2>2. QED  BY <1>5, <1>6, <2>1 DEF AdjustEndpointsFails, ReturnUnchanged, CallRefused, ReturnApplied
  <1>7. CASE Queue
    <2>1. mapper = Zone /\ TypeOK
      BY <1>7 DEF Queue, Fetched, NamesInv, Typed
    <2>2. \A c \in Creations \cup Updates \cup Deletions : Meets(c.zone, c.rrset)
      BY <2>1, QueuedMeets
    <2>3. calls' \subseteq Creations \cup Updates \cup Deletions
      BY <1>7 DEF Queue, Creations, Updates, Deletions
    <2>4. pc' = "apply" /\ plan' = NoPlan
      BY <1>7 DEF Queue
    <2>5. QED  BY <2>2, <2>3, <2>4, NoPlanType DEF NamesInv, Meets, RRName
  <1>8. CASE DoCall \/ applyZoneChanges
    <2>1. calls' \subseteq calls /\ UNCHANGED <<pc, plan, mapper>>
      BY <1>8 DEF DoCall, applyZoneChanges
    <2>2. QED  BY <2>1 DEF NamesInv, Meets, RRName
  <1>9. CASE Restart
    <2>1. CASE pc \in {"fetch", "apply"}
      <3>1. EndCycle(FALSE) /\ FALSE \in BOOLEAN
        BY <1>9, <2>1 DEF Restart
      <3>2. QED  BY <1>5, <3>1
    <2>2. CASE pc \notin {"fetch", "apply"}
      <3>1. UNCHANGED <<pc, plan, calls>>
        BY <1>9, <2>2 DEF Restart, request
      <3>2. QED  BY <2>2, <3>1 DEF NamesInv, Meets, RRName
    <2>3. QED  BY <2>1, <2>2
  <1>10. CASE (\E z \in Zone : ForeignCreate(z) \/ ForeignDelete(z)) \/ ChangeWant \/ UNCHANGED vars
    <2>1. UNCHANGED <<pc, plan, calls, mapper>>
      BY <1>10 DEF ForeignCreate, ForeignDelete, ChangeWant, vars, request
    <2>2. QED  BY <2>1 DEF NamesInv, Meets, RRName
  <1>11. QED
    BY <1>1, <1>2, <1>3, <1>4, <1>6, <1>7, <1>8, <1>9, <1>10 DEF Next, Cycle, Outside

\* If the owned names are in Unicode form, as FindZone compares them, then
\* whatever is written or deleted bears an owned name and lies in the deepest zone
\* of it, for any nesting of the zones: the cut name that is looked for and the one
\* that is written join with the zone to the name of the endpoint.  (endpoints.go,
\* zoneidmap.go, change_processors.go)
THEOREM WritesMeetTheirNames ==
  ASSUME OwnedInUnicode
  PROVE  Spec => WritesMeetTheirName
  <1> DEFINE A == dns' # dns /\ Cycle => \A z \in Zone : \A rr \in Changed(z) : Meets(z, rr)
  <1>1. Init => NamesInv
    BY NamesInit
  <1>2. Typed /\ NamesInv /\ [Next]_vars => NamesInv'
    BY NamesNext
  <1>3. Typed /\ NamesInv /\ [Next]_vars => [A]_vars
    BY WritesMeet
  <1>4. Spec => [][A]_vars
    BY <1>1, <1>2, <1>3, AlwaysTyped, PTL DEF Spec
  <1>5. QED  BY <1>4 DEF WritesMeetTheirName, Changed, Meets

-----------------------------------------------------------------------------
(* What is stored reads back.                                              *)

\* A target that can be stored: its name is written with the parts of names, and
\* the priority of an MX record is a number.
Storable(type, t) == t \in Text /\ t.name \in Seq(Part) /\ (type = "MX" => t.prio \in Numeric)

LEMMA NotAt ==
  ASSUME NEW n \in Seq(Part)
  PROVE  n # <<At>>
  <1>1. <<At>> \notin Seq(Part)
    BY NamesAssumption
  <1>2. QED  BY <1>1

LEMMA TextFields ==
  ASSUME NEW t \in Text, NEW u \in Text, t.prio = u.prio, t.name = u.name, t.dot = u.dot
  PROVE  t = u
  BY DEF Text

\* The three parts of a target that is changed.
LEMMA TextExcept ==
  ASSUME NEW t \in Text, NEW n \in Seq(Part \cup {At}), NEW d \in BOOLEAN
  PROVE  /\ [t EXCEPT !.name = n, !.dot = d] = [prio |-> t.prio, name |-> n, dot |-> d]
         /\ [t EXCEPT !.name = n] = [prio |-> t.prio, name |-> n, dot |-> t.dot]
         /\ [t EXCEPT !.dot = d] = [prio |-> t.prio, name |-> t.name, dot |-> d]
  <1> DEFINE r == [prio |-> t.prio, name |-> n, dot |-> d]
             s == [prio |-> t.prio, name |-> n, dot |-> t.dot]
             u == [prio |-> t.prio, name |-> t.name, dot |-> d]
             x == [t EXCEPT !.name = n, !.dot = d]
             y == [t EXCEPT !.name = n]
             z == [t EXCEPT !.dot = d]
  <1>1. r \in Text /\ s \in Text /\ u \in Text
    BY DEF Text
  <1>2. x \in Text /\ y \in Text /\ z \in Text
    BY TextWith
  <1>3. x.prio = r.prio /\ x.name = r.name /\ x.dot = r.dot
    BY DEF Text
  <1>4. y.prio = s.prio /\ y.name = s.name /\ y.dot = s.dot
    BY DEF Text
  <1>5. z.prio = u.prio /\ z.name = u.name /\ z.dot = u.dot
    BY DEF Text
  <1> HIDE DEF r, s, u, x, y, z
  <1>6. x = r /\ y = s /\ z = u
    BY <1>1, <1>2, <1>3, <1>4, <1>5, TextFields
  <1>7. QED  BY <1>6 DEF r, s, u, x, y, z

LEMMA DotExcept ==
  ASSUME NEW t \in Text, NEW d \in BOOLEAN
  PROVE  [t EXCEPT !.dot = d] = [prio |-> t.prio, name |-> t.name, dot |-> d]
  BY TextParts, TextExcept

LEMMA NameExcept ==
  ASSUME NEW t \in Text, NEW n \in Seq(Part \cup {At})
  PROVE  [t EXCEPT !.name = n] = [prio |-> t.prio, name |-> n, dot |-> t.dot]
  <1>1. FALSE \in BOOLEAN
    OBVIOUS
  <1>2. QED  BY <1>1, TextExcept

LEMMA HostExcept ==
  ASSUME NEW t \in Text, NEW n \in Seq(Part \cup {At})
  PROVE  [t EXCEPT !.name = n, !.dot = FALSE] = [prio |-> t.prio, name |-> n, dot |-> FALSE]
  <1>1. FALSE \in BOOLEAN
    OBVIOUS
  <1>2. QED  BY <1>1, TextExcept

LEMMA Undotted ==
  ASSUME NEW t \in Text
  PROVE  [t EXCEPT !.dot = FALSE] = [prio |-> t.prio, name |-> t.name, dot |-> FALSE]
  <1>1. FALSE \in BOOLEAN
    OBVIOUS
  <1>2. QED  BY <1>1, DotExcept

LEMMA HostReadsBack ==
  ASSUME NEW zone \in Zone, NEW t \in Text, t.name \in Seq(Part),
         NEW v, v = adjustCNAMETarget(zone, t)
  PROVE  /\ v.prio = t.prio /\ v.name # <<At>> /\ v.name \in Seq(Part)
         /\ (IF v.dot THEN v.name ELSE v.name \o zone) = t.name
         /\ v.dot \in BOOLEAN
  <1>1. zone \in Seq(Part)
    BY ZoneIsAName
  <1>2. CASE Below(t.name, zone)
    <2> DEFINE cut == CutZone(t.name, zone)
    <2>1. v = [t EXCEPT !.name = cut, !.dot = FALSE]
      BY <1>2 DEF adjustCNAMETarget
    <2>2. cut \in Seq(Part) /\ cut \o zone = t.name /\ FALSE \in BOOLEAN
      BY <1>1, <1>2, CutType, CutAndJoin
    <2> HIDE DEF cut
    <2>3. cut \in Seq(Part \cup {At})
      BY <2>2, SeqMonotonic
    <2>4. v = [prio |-> t.prio, name |-> cut, dot |-> FALSE]
      BY <2>1, <2>2, <2>3, TextExcept
    <2>5. cut # <<At>>
      BY <2>2, NotAt
    <2>6. QED  BY <2>2, <2>4, <2>5
  <1>3. CASE ~Below(t.name, zone)
    <2>1. v = [prio |-> t.prio, name |-> t.name, dot |-> TRUE]
      <3>1. TRUE \in BOOLEAN /\ t.name \in Seq(Part \cup {At})
        BY SeqMonotonic
      <3>2. v = [t EXCEPT !.dot = TRUE]
        BY <1>3 DEF adjustCNAMETarget
      <3>3. QED  BY <3>1, <3>2, TextExcept
    <2>2. t.name # <<At>>
      BY NotAt
    <2>3. QED  BY <2>1, <2>2
  <1>4. QED  BY <1>2, <1>3

\* The record value of a target.
Stored(zone, type, t) ==
  CASE type = "CNAME" -> adjustCNAMETarget(zone, t)
    [] type = "MX"    -> adjustMXTarget(zone, t)
    [] OTHER          -> t

LEMMA TargetReadsBack ==
  ASSUME NEW zone \in Zone, NEW type \in RecordType, NEW t \in Text, Storable(type, t)
  PROVE  /\ Absolute(zone, type, Stored(zone, type, t)) = [prio |-> t.prio, name |-> t.name]
         /\ type # "A" => fromHetznerHostname(zone, Stored(zone, type, t)) = [t EXCEPT !.dot = FALSE]
         /\ type = "A" => Stored(zone, type, t) = t
         /\ Stored(zone, type, t).prio = t.prio
  <1> DEFINE v == Stored(zone, type, t)
  <1> SUFFICES /\ Absolute(zone, type, v) = [prio |-> t.prio, name |-> t.name]
               /\ type # "A" => fromHetznerHostname(zone, v) = [t EXCEPT !.dot = FALSE]
               /\ type = "A" => v = t
               /\ v.prio = t.prio
    OBVIOUS
  <1>1. t \in Text /\ t.name \in Seq(Part)
    BY DEF Storable
  <1>2. v = CASE type = "CNAME" -> adjustCNAMETarget(zone, t)
              [] type = "MX"    -> adjustMXTarget(zone, t)
              [] OTHER          -> t
    BY DEF Stored
  <1> HIDE DEF v
  <1>3. /\ [t EXCEPT !.dot = FALSE] = [prio |-> t.prio, name |-> t.name, dot |-> FALSE]
        /\ t.name \in Seq(Part \cup {At})
    BY <1>1, TextExcept, TextParts
  <1>4. CASE type = "A"
    BY <1>2, <1>4 DEF Absolute
  <1>5. ASSUME type # "A", v = adjustCNAMETarget(zone, t)
        PROVE  /\ Absolute(zone, type, v) = [prio |-> t.prio, name |-> t.name]
               /\ fromHetznerHostname(zone, v) = [t EXCEPT !.dot = FALSE]
               /\ v.prio = t.prio
    <2>1. /\ v.prio = t.prio /\ v.name # <<At>>
          /\ (IF v.dot THEN v.name ELSE v.name \o zone) = t.name
          /\ v.dot \in BOOLEAN
      BY <1>1, <1>5, HostReadsBack
    <2>2. v \in Text
      BY <1>1, <1>5, HostTypes
    <2>3. Absolute(zone, type, v) = [prio |-> t.prio, name |-> t.name]
      BY <1>5, <2>1 DEF Absolute
    <2>4. CASE v.dot = TRUE
      <3>1. fromHetznerHostname(zone, v) = [v EXCEPT !.dot = FALSE]
        BY <2>1, <2>4 DEF fromHetznerHostname
      <3>2. [v EXCEPT !.dot = FALSE] = [prio |-> v.prio, name |-> v.name, dot |-> FALSE]
        BY <2>2, Undotted
      <3>3. QED  BY <1>3, <2>1, <2>3, <2>4, <3>1, <3>2
    <2>5. CASE v.dot = FALSE
      <3> DEFINE joined == v.name \o zone
      <3>1. fromHetznerHostname(zone, v) = [v EXCEPT !.name = joined]
        BY <2>1, <2>5 DEF fromHetznerHostname
      <3>2. joined = t.name
        BY <2>1, <2>5
      <3>3. [v EXCEPT !.name = joined] = [prio |-> v.prio, name |-> joined, dot |-> FALSE]
        <4>1. joined \in Seq(Part \cup {At})
          BY <1>3, <3>2
        <4> HIDE DEF joined
        <4>2. [v EXCEPT !.name = joined] = [prio |-> v.prio, name |-> joined, dot |-> v.dot]
          BY <2>2, <4>1, NameExcept
        <4>3. QED  BY <2>5, <4>2
      <3>4. QED  BY <1>3, <2>1, <2>3, <3>1, <3>2, <3>3
    <2>6. QED  BY <2>1, <2>4, <2>5
  <1>6. CASE type = "CNAME"
    BY <1>2, <1>5, <1>6
  <1>7. CASE type = "MX"
    <2>1. t.prio \in Numeric /\ v = adjustMXTarget(zone, t)
      BY <1>2, <1>7 DEF Storable
    <2>2. CASE t.name = zone
      <3>1. v = [prio |-> t.prio, name |-> <<At>>, dot |-> FALSE] /\ v \in Text
        <4>1. v = [t EXCEPT !.name = <<At>>, !.dot = FALSE]
          BY <2>1, <2>2 DEF adjustMXTarget
        <4>2. <<At>> \in Seq(Part \cup {At}) /\ FALSE \in BOOLEAN
          OBVIOUS
        <4>3. v = [prio |-> t.prio, name |-> <<At>>, dot |-> FALSE]
          BY <1>1, <4>1, <4>2, HostExcept
        <4>4. v \in Text
          BY <1>1, <2>1, HostTypes
        <4>5. QED  BY <4>3, <4>4
      <3>2. fromHetznerHostname(zone, v) = [v EXCEPT !.name = zone]
        BY <3>1 DEF fromHetznerHostname
      <3>3. [v EXCEPT !.name = zone] = [prio |-> t.prio, name |-> zone, dot |-> FALSE]
        <4>1. zone \in Seq(Part \cup {At}) /\ FALSE \in BOOLEAN
          BY ZoneIsAName
        <4>2. [v EXCEPT !.name = zone] = [prio |-> v.prio, name |-> zone, dot |-> v.dot]
          BY <3>1, <4>1, NameExcept
        <4>3. v.prio = t.prio /\ v.dot = FALSE
          BY <3>1
        <4>4. QED  BY <4>2, <4>3
      <3>4. Absolute(zone, type, v) = [prio |-> t.prio, name |-> zone]
        BY <1>7, <3>1 DEF Absolute
      <3>5. QED  BY <1>3, <1>7, <2>2, <3>1, <3>2, <3>3, <3>4
    <2>3. CASE t.name # zone
      <3>1. v = adjustCNAMETarget(zone, t)
        BY <2>1, <2>3 DEF adjustMXTarget
      <3>2. QED  BY <1>5, <1>7, <3>1
    <2>4. QED  BY <2>2, <2>3
  <1>8. QED  BY <1>4, <1>6, <1>7 DEF RecordType

\* Target i is read back from the recordset that is written for the targets.
ReadsBack(zone, type, targets, i) ==
  LET records == extractRRSetRecords(zone, type, targets)
      read    == extractEndpointTargets(zone, type, records)
  IN /\ Absolute(zone, type, records[i]) = [prio |-> targets[i].prio, name |-> targets[i].name]
     /\ read[i] = IF type = "A" THEN targets[i] ELSE [targets[i] EXCEPT !.dot = FALSE]
     /\ targets[i].dot = FALSE => read[i] = targets[i]

\* Each target by itself, for TargetsReadBack.
LEMMA EachTargetReadsBack ==
  ASSUME NEW zone \in Zone, NEW type \in RecordType, NEW targets \in Seq(Text),
         NEW i \in DOMAIN targets, Storable(type, targets[i])
  PROVE  ReadsBack(zone, type, targets, i)
  <1> DEFINE records == extractRRSetRecords(zone, type, targets)
             read    == extractEndpointTargets(zone, type, records)
  <1> DEFINE t == targets[i]
             v == records[i]
  <1>1. i \in DOMAIN records
    BY DEF extractRRSetRecords
  <1>2. v = Stored(zone, type, t)
    BY DEF extractRRSetRecords, Stored
  <1>3. t \in Text /\ Storable(type, t)
    OBVIOUS
  <1>4. read[i] = IF type = "CNAME" \/ (type = "MX" /\ v.prio # NoPriority)
                  THEN fromHetznerHostname(zone, v) ELSE v
    <2> HIDE DEF records
    <2>1. QED  BY <1>1 DEF extractEndpointTargets
  <1> HIDE DEF t, v, records, read
  <1>5. /\ Absolute(zone, type, v) = [prio |-> t.prio, name |-> t.name]
        /\ type # "A" => fromHetznerHostname(zone, v) = [t EXCEPT !.dot = FALSE]
        /\ type = "A" => v = t
        /\ v.prio = t.prio
    BY <1>2, <1>3, TargetReadsBack
  <1>6. type = "MX" => v.prio # NoPriority
    BY <1>3, <1>5, NamesAssumption DEF Storable
  <1>7. type \in {"A", "CNAME", "MX"}
    BY DEF RecordType
  <1>8. read[i] = IF type = "A" THEN t ELSE [t EXCEPT !.dot = FALSE]
    BY <1>4, <1>5, <1>6, <1>7
  <1>9. ASSUME t.dot = FALSE
        PROVE  read[i] = t
    <2>1. [t EXCEPT !.dot = FALSE] = [prio |-> t.prio, name |-> t.name, dot |-> FALSE]
      BY <1>3, Undotted
    <2>2. [prio |-> t.prio, name |-> t.name, dot |-> FALSE] = t
      <3>1. [prio |-> t.prio, name |-> t.name, dot |-> FALSE] \in Text
        BY <1>3 DEF Text
      <3>2. QED  BY <1>3, <1>9, <3>1, TextFields
    <2>3. QED  BY <1>8, <2>1, <2>2
  <1>10. QED  BY <1>5, <1>8, <1>9 DEF t, v, records, read, ReadsBack

\* Targets that can be stored keep their meaning on the way: every record value
\* stands, completed with the zone, for the host and the priority that were asked
\* for, and createEndpointFromRecord reads the targets back as they were, without
\* the final dot.  (adjustCNAMETarget, adjustMXTarget, fromHetznerHostname)
THEOREM TargetsReadBack ==
  ASSUME NEW zone \in Zone, NEW type \in RecordType, NEW targets \in Seq(Text),
         \A i \in DOMAIN targets : Storable(type, targets[i])
  PROVE  LET records == extractRRSetRecords(zone, type, targets)
             read    == extractEndpointTargets(zone, type, records)
         IN \A i \in DOMAIN targets :
              /\ Absolute(zone, type, records[i]) = [prio |-> targets[i].prio, name |-> targets[i].name]
              /\ read[i] = IF type = "A" THEN targets[i] ELSE [targets[i] EXCEPT !.dot = FALSE]
  <1>1. ASSUME NEW i \in DOMAIN targets
        PROVE  ReadsBack(zone, type, targets, i)
    <2>1. Storable(type, targets[i])
      OBVIOUS
    <2>2. QED  BY <2>1, EachTargetReadsBack, Zenon
  <1>2. QED  BY <1>1, Zenon DEF ReadsBack

\* Targets without a final dot, as AdjustEndpoints leaves them, are read back
\* unchanged.
LEMMA UndottedReadBack ==
  ASSUME NEW zone \in Zone, NEW type \in RecordType, NEW targets \in Seq(Text),
         \A i \in DOMAIN targets : Storable(type, targets[i]) /\ targets[i].dot = FALSE
  PROVE  extractEndpointTargets(zone, type, extractRRSetRecords(zone, type, targets)) = targets
  <1> DEFINE records == extractRRSetRecords(zone, type, targets)
             read    == extractEndpointTargets(zone, type, records)
  <1>1. read \in Seq(Text) /\ Len(read) = Len(targets)
    <2>1. records \in Seq(Text)
      BY TargetsType
    <2>2. read \in Seq(Text)
      BY <2>1, TargetsType
    <2>3. DOMAIN read = DOMAIN targets
      BY DEF extractEndpointTargets, extractRRSetRecords
    <2>4. QED  BY <2>2, <2>3
  <1>2. ASSUME NEW i \in DOMAIN targets
        PROVE  read[i] = targets[i]
    <2>1. Storable(type, targets[i]) /\ targets[i].dot = FALSE
      OBVIOUS
    <2>2. ReadsBack(zone, type, targets, i)
      BY <2>1, EachTargetReadsBack, Zenon
    <2>3. QED  BY <2>1, <2>2 DEF ReadsBack
  <1> HIDE DEF read
  <1>3. \A i \in 1..Len(read) : read[i] = targets[i]
    BY <1>1, <1>2
  <1>4. read = targets
    BY <1>1, <1>3, SeqEqual
  <1>5. QED  BY <1>4 DEF read

LEMMA SlashReadsBack ==
  ASSUME NEW l \in Key, Escape \notin ToSet(l)
  PROVE  ReplaceAll(ReplaceAll(l, Slash, Escape), Escape, Slash) = l
  <1> DEFINE key  == ReplaceAll(l, Slash, Escape)
             back == ReplaceAll(key, Escape, Slash)
  <1>1. l \in Seq(Word \cup {Slash, Escape})
    BY DEF Key
  <1>2. \A i \in 1..Len(l) : l[i] # Escape
    BY <1>1 DEF ToSet
  <1>3. /\ key \in Seq(Word \cup {Slash, Escape}) /\ Len(key) = Len(l)
        /\ \A i \in 1..Len(l) : key[i] = IF l[i] = Slash THEN Escape ELSE l[i]
    BY <1>1 DEF ReplaceAll
  <1> HIDE DEF key
  <1>4. /\ back \in Seq(Word \cup {Slash, Escape}) /\ Len(back) = Len(l)
        /\ \A i \in 1..Len(l) : back[i] = IF key[i] = Escape THEN Slash ELSE key[i]
    BY <1>3 DEF ReplaceAll
  <1> HIDE DEF back
  <1>5. \A i \in 1..Len(back) : back[i] = l[i]
    BY <1>2, <1>3, <1>4
  <1>6. back = l
    BY <1>1, <1>4, <1>5, SeqEqual
  <1>7. QED  BY <1>6 DEF back, key

\* Labels in which no escape sequence stands by itself read back as they were,
\* or do not parse.
LEMMA LabelsOrBad ==
  ASSUME NEW labels \in SUBSET Key, \A l \in labels : Escape \notin ToSet(l)
  PROVE  /\ extractHetznerLabels(getProviderSpecific(labels)) \in {labels, BadLabels}
         /\ (\A l \in labels : checkLabel(l))
              => extractHetznerLabels(getProviderSpecific(labels)) = labels
  <1> DEFINE keys == getProviderSpecific(labels)
  <1>1. \A l \in labels : ReplaceAll(ReplaceAll(l, Slash, Escape), Escape, Slash) = l
    BY SlashReadsBack
  <1>2. keys = {ReplaceAll(l, Slash, Escape) : l \in labels}
    BY DEF getProviderSpecific
  <1> HIDE DEF keys
  <1>3. {ReplaceAll(k, Escape, Slash) : k \in keys} = labels
    BY <1>1, <1>2
  <1>4. extractHetznerLabels(keys) = IF \A l \in labels : checkLabel(l) THEN labels ELSE BadLabels
    BY <1>3, Zenon DEF extractHetznerLabels
  <1>5. QED  BY <1>4 DEF keys

\* Labels that Hetzner takes, and in which no escape sequence stands by itself,
\* read back as they were.  (getProviderSpecific, extractHetznerLabels)
THEOREM LabelsReadBack ==
  ASSUME NEW labels \in SUBSET Key,
         \A l \in labels : checkLabel(l) /\ Escape \notin ToSet(l)
  PROVE  extractHetznerLabels(getProviderSpecific(labels)) = labels
  BY LabelsOrBad

\* Keys that hold no slash of their own become the labels they were made of.
LEMMA KeysReadBack ==
  ASSUME NEW keys \in SUBSET Key, \A k \in keys : Slash \notin ToSet(k),
         extractHetznerLabels(keys) # BadLabels
  PROVE  getProviderSpecific(LabelsOr(keys, {})) = keys
  <1>1. ASSUME NEW k \in keys
        PROVE  ReplaceAll(ReplaceAll(k, Escape, Slash), Slash, Escape) = k
    <2> DEFINE label == ReplaceAll(k, Escape, Slash)
               back  == ReplaceAll(label, Slash, Escape)
    <2>1. k \in Seq(Word \cup {Slash, Escape})
      BY DEF Key
    <2>2. \A i \in 1..Len(k) : k[i] # Slash
      BY <2>1 DEF ToSet
    <2>3. /\ label \in Seq(Word \cup {Slash, Escape}) /\ Len(label) = Len(k)
          /\ \A i \in 1..Len(k) : label[i] = IF k[i] = Escape THEN Slash ELSE k[i]
      BY <2>1 DEF ReplaceAll
    <2> HIDE DEF label
    <2>4. /\ back \in Seq(Word \cup {Slash, Escape}) /\ Len(back) = Len(k)
          /\ \A i \in 1..Len(k) : back[i] = IF label[i] = Slash THEN Escape ELSE label[i]
      BY <2>3 DEF ReplaceAll
    <2> HIDE DEF back
    <2>5. \A i \in 1..Len(back) : back[i] = k[i]
      BY <2>2, <2>3, <2>4
    <2>6. back = k
      BY <2>1, <2>4, <2>5, SeqEqual
    <2>7. QED  BY <2>6 DEF back, label
  <1> DEFINE labels == {ReplaceAll(k, Escape, Slash) : k \in keys}
  <1>2. LabelsOr(keys, {}) = labels
    <2>1. extractHetznerLabels(keys) = labels
      BY Zenon DEF extractHetznerLabels
    <2>2. QED  BY <2>1, Zenon DEF LabelsOr
  <1>3. {ReplaceAll(l, Slash, Escape) : l \in labels} = keys
    BY <1>1
  <1> HIDE DEF labels
  <1>4. QED  BY <1>2, <1>3, Zenon DEF getProviderSpecific

\* A recordset that is created for an adjusted endpoint is shown to ExternalDNS
\* as that very endpoint, with the name, the targets and the labels it had, so
\* that the next cycle finds nothing to update.  It asks for what the theorems
\* above ask for, and leaves out a name that repeats its zone and labels that do
\* not parse.  (processCreateActionsByZone, createEndpointFromRecord)
THEOREM CreatedReadsBack ==
  ASSUME TypeOK, mapper = Zone, NEW ep \in Endpoint, ZoneOf(ep) # NoZone,
         InUnicode(ep.name), ep.name # ZoneOf(ep) \o ZoneOf(ep),
         \A i \in DOMAIN ep.targets : Storable(ep.type, ep.targets[i]) /\ ep.targets[i].dot = FALSE,
         \A k \in ep.keys : Slash \notin ToSet(k), extractHetznerLabels(ep.keys) # BadLabels
  PROVE  createEndpointFromRecord(ZoneOf(ep), CreateCall(ep).rrset) = ep
  <1> DEFINE z       == ZoneOf(ep)
             n       == ep.name
             type    == ep.type
             targets == ep.targets
             rr      == CreateCall(ep).rrset
             records == extractRRSetRecords(z, type, targets)
             read    == extractEndpointTargets(z, type, records)
  <1>1. n \in Name /\ type \in RecordType /\ targets \in Seq(Text) /\ ep.keys \in SUBSET Key
    BY EndpointFields
  <1>2. z \in Zone /\ (n = z \/ Below(n, z))
    BY <1>1, FoundIsSuffix DEF ZoneOf
  <1>3. /\ rr.name = makeEndpointName(z, n) /\ rr.type = type
        /\ rr.records = records /\ rr.labels = LabelsOr(ep.keys, {})
    BY DEF CreateCall
  <1>4. EndpointName(z, rr.name) = n
    <2>1. RRName(z, rr) = n
      BY <1>1, <1>2, <1>3, MadeNameIsRead
    <2>2. QED  BY <2>1 DEF EndpointName, RRName
  <1>5. read = targets
    <2>1. \A i \in DOMAIN targets : Storable(type, targets[i]) /\ targets[i].dot = FALSE
      OBVIOUS
    <2> HIDE DEF z, type, targets
    <2>2. QED  BY <1>1, <1>2, <2>1, UndottedReadBack
  <1>6. getProviderSpecific(rr.labels) = ep.keys
    BY <1>1, <1>3, KeysReadBack
  <1>7. createEndpointFromRecord(z, rr) = [name |-> n, type |-> type, targets |-> targets, keys |-> ep.keys]
    <2> HIDE DEF rr, z
    <2>1. QED  BY <1>3, <1>4, <1>5, <1>6 DEF createEndpointFromRecord
  <1>8. ep = [name |-> n, type |-> type, targets |-> targets, keys |-> ep.keys]
    BY DEF Endpoint
  <1>9. QED  BY <1>7, <1>8

=============================================================================
