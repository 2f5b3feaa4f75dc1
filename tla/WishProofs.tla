----------------------------- MODULE WishProofs -----------------------------
(***************************************************************************)
(* After an undisturbed cycle the zones say what the cluster wished:       *)
(* CycleMeansWished of Journey, for any zones, names, filters and pages.   *)
(*                                                                         *)
(* The argument has two invariants.  KeepInv holds in every state: Hetzner *)
(* holds nothing that it would refuse, and what is read, planned or queued *)
(* comes from a wish.  WishInv (in Journey) follows an undisturbed cycle:  *)
(* what was read is what the zones hold, the plan names what is not as     *)
(* wished, and the calls that are left do what is left to do.              *)
(***************************************************************************)
EXTENDS JourneyProofs

-----------------------------------------------------------------------------
(* Sequences: what moves where.                                            *)

LEMMA InsertPlaces ==
  ASSUME NEW S, NEW s \in Seq(S), NEW i \in 1..Len(s) + 1, NEW e \in S
  PROVE  LET t == InsertAt(s, i, e) IN
         /\ t \in Seq(S) /\ Len(t) = Len(s) + 1 /\ t[i] = e
         /\ \A j \in 1..Len(s) + 1 : j < i => t[j] = s[j]
         /\ \A j \in 1..Len(s) + 1 : i < j => t[j] = s[j - 1]
  <1> DEFINE left  == SubSeq(s, 1, i - 1)
             right == SubSeq(s, i, Len(s))
             one   == <<e>>
             two   == left \o one
  <1>1. /\ left \in Seq(S) /\ Len(left) = i - 1 /\ \A j \in 1..i - 1 : left[j] = s[j]
        /\ i \in Nat \ {0} /\ i <= Len(s) + 1 /\ Len(s) \in Nat
    OBVIOUS
  <1>2. /\ right \in Seq(S) /\ Len(right) = Len(s) - i + 1
        /\ \A j \in 1..Len(s) - i + 1 : right[j] = s[i + j - 1]
    BY <1>1
  <1>3. one \in Seq(S) /\ Len(one) = 1 /\ one[1] = e
    OBVIOUS
  <1>4. InsertAt(s, i, e) = two \o right
    BY Zenon DEF InsertAt
  <1> HIDE DEF left, right, one
  <1>5. /\ two \in Seq(S) /\ Len(two) = i /\ two[i] = e
        /\ \A j \in 1..i - 1 : two[j] = s[j]
    <2>1. /\ two \in Seq(S) /\ Len(two) = Len(left) + Len(one)
          /\ \A j \in 1..Len(left) + Len(one) :
               two[j] = IF j <= Len(left) THEN left[j] ELSE one[j - Len(left)]
      BY <1>1, <1>3, ConcatProperties
    <2>2. QED  BY <1>1, <1>3, <2>1
  <1> HIDE DEF two
  <1> DEFINE t == two \o right
  <1>6. /\ t \in Seq(S) /\ Len(t) = Len(two) + Len(right)
        /\ \A j \in 1..Len(two) + Len(right) :
             t[j] = IF j <= Len(two) THEN two[j] ELSE right[j - Len(two)]
    BY <1>2, <1>5, ConcatProperties
  <1> HIDE DEF t
  <1>7. Len(two) + Len(right) = Len(s) + 1
    BY <1>1, <1>2, <1>5
  <1>8. t[i] = e
    BY <1>1, <1>5, <1>6, <1>7
  <1>9. ASSUME NEW j \in 1..Len(s) + 1, j < i
        PROVE  t[j] = s[j]
    BY <1>1, <1>5, <1>6, <1>7, <1>9
  <1>10. ASSUME NEW j \in 1..Len(s) + 1, i < j
         PROVE  t[j] = s[j - 1]
    <2>1. t[j] = right[j - i] /\ j - i \in 1..Len(s) - i + 1 /\ i + (j - i) - 1 = j - 1
      BY <1>1, <1>5, <1>6, <1>7, <1>10
    <2>2. right[j - i] = s[i + (j - i) - 1]
      BY <1>2, <2>1
    <2>3. QED  BY <2>1, <2>2
  <1>11. InsertAt(s, i, e) = t
    BY <1>4 DEF t
  <1>12. QED  BY <1>6, <1>7, <1>8, <1>9, <1>10, <1>11

LEMMA RemovePlaces ==
  ASSUME NEW S, NEW s \in Seq(S), NEW i \in DOMAIN s
  PROVE  LET t == RemoveAt(s, i) IN
         /\ t \in Seq(S) /\ Len(t) = Len(s) - 1
         /\ \A j \in 1..Len(s) - 1 : t[j] = IF j < i THEN s[j] ELSE s[j + 1]
  <1> DEFINE left  == SubSeq(s, 1, i - 1)
             right == SubSeq(s, i + 1, Len(s))
             t     == RemoveAt(s, i)
  <1>1. /\ left \in Seq(S) /\ Len(left) = i - 1 /\ \A j \in 1..i - 1 : left[j] = s[j]
        /\ i \in Nat \ {0} /\ i <= Len(s) /\ Len(s) \in Nat
    OBVIOUS
  <1>2. /\ right \in Seq(S) /\ Len(right) = Len(s) - i
        /\ \A j \in 1..Len(s) - i : right[j] = s[i + j]
    BY <1>1
  <1>3. t = left \o right
    BY Zenon DEF RemoveAt
  <1> HIDE DEF left, right, t
  <1>4. /\ t \in Seq(S) /\ Len(t) = Len(left) + Len(right)
        /\ \A j \in 1..Len(left) + Len(right) :
             t[j] = IF j <= Len(left) THEN left[j] ELSE right[j - Len(left)]
    BY <1>1, <1>2, <1>3, ConcatProperties
  <1>5. Len(left) + Len(right) = Len(s) - 1
    BY <1>1, <1>2
  <1>6. ASSUME NEW j \in 1..Len(s) - 1, j < i
        PROVE  t[j] = s[j]
    BY <1>1, <1>4, <1>5, <1>6
  <1>7. ASSUME NEW j \in 1..Len(s) - 1, ~(j < i)
        PROVE  t[j] = s[j + 1]
    <2> DEFINE k == j - (i - 1)
    <2>1. /\ k \in 1..Len(s) - i /\ i + k = j + 1
          /\ ~(j <= Len(left)) /\ j - Len(left) = k /\ j \in 1..Len(left) + Len(right)
      BY <1>1, <1>5, <1>7
    <2> HIDE DEF k
    <2>2. t[j] = right[k]
      BY <1>4, <2>1
    <2>3. right[k] = s[i + k]
      BY <1>2, <2>1
    <2>4. QED  BY <2>1, <2>2, <2>3
  <1>8. \A j \in 1..Len(s) - 1 : t[j] = IF j < i THEN s[j] ELSE s[j + 1]
    BY <1>6, <1>7
  <1>9. t \in Seq(S) /\ Len(t) = Len(s) - 1
    BY <1>4, <1>5
  <1>10. QED  BY <1>8, <1>9 DEF t

\* Two lists of one length, the second without repetition and within the first,
\* have the same values.
LEMMA SameValues ==
  ASSUME NEW S, NEW a \in Seq(S), NEW b \in Seq(S), Len(a) = Len(b), IsInjective(b),
         ToSet(b) \subseteq ToSet(a)
  PROVE  ToSet(a) = ToSet(b) /\ IsInjective(a)
  <1> DEFINE D == 1..Len(a)
             A == ToSet(a)
             B == ToSet(b)
  <1>1. IsFiniteSet(D) /\ DOMAIN a = D /\ DOMAIN b = D
    BY FS_Interval
  <1> HIDE DEF D
  <1>2. a \in [D -> A] /\ b \in [D -> B]
    BY <1>1 DEF ToSet
  <1>3. a \in Surjection(D, A) /\ b \in Surjection(D, B)
    BY <1>1, <1>2 DEF Surjection, ToSet
  <1>4. b \in Injection(D, B)
    BY <1>2 DEF Injection
  <1> HIDE DEF A, B
  <1>5. /\ IsFiniteSet(A) /\ Cardinality(A) <= Cardinality(D)
        /\ Cardinality(A) = Cardinality(D) => a \in Injection(D, A)
        /\ IsFiniteSet(B) /\ Cardinality(B) = Cardinality(D)
    BY <1>1, <1>3, <1>4, FS_Surjection
  <1>6. B \in SUBSET A
    BY DEF A, B
  <1>7. Cardinality(B) <= Cardinality(A) /\ (Cardinality(A) = Cardinality(B) => A = B)
    BY <1>5, <1>6, FS_Subset
  <1>8. Cardinality(A) \in Nat /\ Cardinality(B) \in Nat
    BY <1>5, FS_CardinalityType
  <1>9. Cardinality(A) = Cardinality(B)
    BY <1>5, <1>7, <1>8
  <1>10. a \in Injection(D, A)
    BY <1>5, <1>9
  <1>11. QED  BY <1>7, <1>9, <1>10 DEF A, B, Injection

-----------------------------------------------------------------------------
(* Names and zones.                                                        *)

\* In one zone, recordsets of different names bear different names.
LEMMA NamesDiffer ==
  ASSUME NEW z \in Zone, NEW a \in RRSet, NEW b \in RRSet, RRName(z, a) = RRName(z, b)
  PROVE  a.name = b.name
  <1>1. z \in Seq(Part) /\ z # <<>>
    BY ZoneIsAName DEF NoZone
  <1>2. ASSUME NEW n \in Name \cup {<<At>>}, n # <<At>>
        PROVE  n \in Seq(Part) /\ n # <<>> /\ n \o z # z
    <2>1. n \in Seq(Part) /\ n # <<>>
      BY <1>2 DEF Name
    <2>2. n \o z # z
      BY <1>1, <2>1, ConcatEqualIffEmpty, ConcatSimplifications
    <2>3. QED  BY <2>1, <2>2
  <1>3. a.name \in Name \cup {<<At>>} /\ b.name \in Name \cup {<<At>>}
    BY RRSetFields
  <1>4. CASE a.name # <<At>> /\ b.name # <<At>>
    <2>1. a.name \o z = b.name \o z
      BY <1>4 DEF RRName
    <2>2. a.name \in Seq(Part) /\ b.name \in Seq(Part)
      BY <1>2, <1>3, <1>4
    <2>3. QED  BY <1>1, <2>1, <2>2, ConcatSimplifications
  <1>5. CASE a.name = <<At>> \/ b.name = <<At>>
    BY <1>2, <1>3, <1>5 DEF RRName
  <1>6. QED  BY <1>4, <1>5

\* A recordset that bears the name of an endpoint is found for it.
LEMMA BearerMatches ==
  ASSUME NEW z \in Zone, NEW n \in Name, n = z \/ Below(n, z), NEW rr \in RRSet,
         RRName(z, rr) = n
  PROVE  rr.name = MatchingName(z, n)
  <1> DEFINE m == [rr EXCEPT !.name = MatchingName(z, n)]
  <1>1. MatchingName(z, n) \in Name \cup {<<At>>}
    BY CutNameType DEF MatchingName
  <1>2. m \in RRSet /\ m.name = MatchingName(z, n)
    BY <1>1 DEF RRSet
  <1> HIDE DEF m
  <1>3. RRName(z, m) = n
    BY <1>2, MatchingNameIsRead
  <1>4. QED  BY <1>2, <1>3, NamesDiffer

\* A zone in Unicode is the deepest zone of its own name.
LEMMA ZoneFindsItself ==
  ASSUME NEW z \in Zone, InUnicode(z)
  PROVE  FindZone(Zone, z) = z
  <1> DEFINE unicode == [i \in DOMAIN z |-> ToUnicode[z[i]]]
  <1>1. z \in Seq(Part) /\ Zone \in SUBSET Name
    BY ZoneIsAName, JourneyAssumption
  <1>2. unicode = z
    <2>1. unicode \in Seq(Part) /\ Len(unicode) = Len(z)
      BY <1>1, NamesAssumption
    <2>2. \A i \in 1..Len(z) : unicode[i] = z[i]
      BY <1>1 DEF InUnicode
    <2> HIDE DEF unicode
    <2>3. QED  BY <1>1, <2>1, <2>2, SeqEqual
  <1>3. z \in Suitable(Zone, z)
    BY <1>2 DEF Suitable
  <1> DEFINE f == FindZone(Zone, z)
  <1>4. f \in Suitable(Zone, z) /\ Len(z) <= Len(f)
    BY <1>1, <1>3, LongestIsFound
  <1>5. f \in Zone /\ (z = f \/ Below(z, f))
    BY <1>2, <1>4 DEF Suitable
  <1> HIDE DEF f
  <1>6. f \in Seq(Part)
    BY <1>5, ZoneIsAName
  <1>7. ~Below(z, f)
    BY <1>1, <1>4, <1>6, BelowMeans
  <1>8. QED  BY <1>5, <1>7 DEF f

\* What meets its name lies in the deepest zone of the name that it bears.
LEMMA MeetsZone ==
  ASSUME OwnedInUnicode, NEW z \in Zone, NEW rr, Meets(z, rr)
  PROVE  z = FindZone(Zone, RRName(z, rr))
  <1>1. CASE rr.name = <<At>> /\ <<z \o z, rr.type>> \in Owned
    <2> DEFINE n == z \o z
    <2>1. InUnicode(n)
      BY <1>1 DEF OwnedInUnicode
    <2>2. z \in Seq(Part)
      BY ZoneIsAName
    <2>3. \A i \in DOMAIN z : i \in DOMAIN n /\ n[i] = z[i]
      BY <2>2, ConcatProperties
    <2> HIDE DEF n
    <2>4. InUnicode(z)
      BY <2>1, <2>3 DEF InUnicode
    <2>5. RRName(z, rr) = z
      BY <1>1 DEF RRName
    <2>6. QED  BY <2>4, <2>5, ZoneFindsItself
  <1>2. QED  BY <1>1 DEF Meets

-----------------------------------------------------------------------------
(* What is asked for.                                                      *)

\* A name that is in ASCII wherever it can be has the same canonical form.
LEMMA SameCanonical ==
  ASSUME NEW n \in Seq(Part), NEW m \in Seq(Part), Len(m) = Len(n),
         \A i \in 1..Len(n) : m[i] \in {n[i], ToASCII[n[i]]}
  PROVE  Canonical(m) = Canonical(n)
  <1> DEFINE C(p) == IF p = At \/ ToASCII[p] = Unencodable THEN p ELSE ToASCII[p]
  <1>1. ASSUME NEW i \in 1..Len(n)
        PROVE  C(m[i]) = C(n[i])
    <2>1. n[i] \in Part /\ m[i] \in Part
      OBVIOUS
    <2>2. CASE m[i] = n[i]
      BY <2>2
    <2>3. CASE m[i] = ToASCII[n[i]]
      <3>1. ToASCII[n[i]] # Unencodable /\ n[i] # At /\ m[i] # At
        BY <2>1, <2>3, NamesAssumption
      <3>2. ToASCII[m[i]] = m[i] /\ m[i] # Unencodable
        BY <2>1, <2>3, <3>1, NamesAssumption
      <3>3. QED  BY <2>3, <3>1, <3>2
    <2>4. QED  BY <2>2, <2>3
  <1>2. Canonical(m) = [i \in 1..Len(n) |-> C(m[i])] /\ Canonical(n) = [i \in 1..Len(n) |-> C(n[i])]
    BY DEF Canonical
  <1> HIDE DEF C
  <1>3. QED  BY <1>1, <1>2

LEMMA PartNames ==
  ASSUME NEW S, NEW n \in Seq(S), \A i \in 1..Len(n) : n[i] \in Part
  PROVE  n \in Seq(Part)
  <1>1. n = [i \in 1..Len(n) |-> n[i]] /\ Len(n) \in Nat
    OBVIOUS
  <1>2. QED  BY <1>1

\* The form in ASCII of a name, where it has one.
LEMMA ASCIIName ==
  ASSUME NEW n \in Seq(Part), Unencodable \notin ToSet(ASCII(n))
  PROVE  ASCII(n) \in Seq(Part) /\ Len(ASCII(n)) = Len(n)
         /\ \A i \in 1..Len(n) : ASCII(n)[i] = ToASCII[n[i]]
  <1> DEFINE a == ASCII(n)
  <1>1. n \in Seq(Part \cup {At})
    BY SeqMonotonic
  <1>2. a \in Seq(Part \cup {At, Unencodable}) /\ DOMAIN a = 1..Len(n)
    BY <1>1, ASCIIType
  <1>3. \A i \in 1..Len(n) : a[i] = ToASCII[n[i]]
    BY NamesAssumption DEF ASCII
  <1>4. \A i \in 1..Len(n) : a[i] # Unencodable
    BY <1>2 DEF ToSet
  <1>5. Len(n) \in Nat /\ \A i \in 1..Len(n) : n[i] \in Part
    OBVIOUS
  <1> HIDE DEF a
  <1>6. Len(a) = Len(n)
    BY <1>2, <1>5
  <1>7. \A i \in 1..Len(n) : a[i] \in Part
    BY <1>3, <1>4, <1>5, NamesAssumption
  <1>8. QED  BY <1>2, <1>3, <1>6, <1>7, PartNames DEF a

LEMMA BehindPriorityType ==
  ASSUME NEW prio \in Priority, NEW part \in Part
  PROVE  BehindPriority[prio, part] \in Priority \X (Part \cup {Unencodable})
  <1>1. <<prio, part>> \in Priority \X Part
    OBVIOUS
  <1>2. BehindPriority \in [Priority \X Part -> Priority \X (Part \cup {Unencodable})]
    BY NamesAssumption
  <1>3. QED  BY <1>1, <1>2

\* A priority that is still a number is the one it was, and the host is the same.
LEMMA AdjustedTarget ==
  ASSUME NEW t \in Text, t.name \in Seq(Part), Encodable(t)
  PROVE  /\ makeEndpointTarget(t).name \in Seq(Part)
         /\ t.prio = NoPriority \/ makeEndpointTarget(t).prio \in Numeric =>
              /\ makeEndpointTarget(t).prio = t.prio
              /\ Canonical(makeEndpointTarget(t).name) = Canonical(t.name)
  <1> DEFINE u == makeEndpointTarget(t)
             n == t.name
  <1>1. CASE ~HasPriority(t)
    <2> DEFINE a == ASCII(n)
    <2>1. u = [t EXCEPT !.name = a, !.dot = FALSE]
      BY <1>1 DEF makeEndpointTarget
    <2> HIDE DEF a, u
    <2>2. u.name = a /\ u.prio = t.prio
      BY <2>1 DEF Text
    <2>3. Unencodable \notin ToSet(a)
      BY <2>2 DEF Encodable, u
    <2>4. /\ a \in Seq(Part) /\ Len(a) = Len(n)
          /\ \A i \in 1..Len(n) : a[i] = ToASCII[n[i]]
      BY <2>3, ASCIIName DEF a
    <2>5. Canonical(a) = Canonical(n)
      BY <2>4, SameCanonical
    <2>6. QED  BY <2>2, <2>4, <2>5 DEF u
  <1>2. CASE HasPriority(t)
    <2> DEFINE h == FirstLabel(t)
               r == Tail(n)
               a == ASCII(r)
               m == <<h[2]>> \o a
    <2>1. u = [prio |-> h[1], name |-> m, dot |-> FALSE]
      BY <1>2 DEF makeEndpointTarget
    <2>2. n # <<>> /\ t.prio # NoPriority /\ t.prio \in Priority
      BY <1>2, TextParts, Zenon DEF HasPriority
    <2>3. n[1] \in Part /\ r \in Seq(Part) /\ Len(r) = Len(n) - 1 /\ Len(n) \in Nat \ {0}
          /\ \A i \in 1..Len(r) : r[i] = n[i + 1]
      BY <2>2
    <2>4. h = BehindPriority[t.prio, n[1]]
      <3>1. t.name[1] # At
        BY <2>3, NamesAssumption
      <3>2. QED  BY <3>1, Zenon DEF FirstLabel
    <2>5. h[1] \in Priority /\ h[2] \in Part \cup {At, Unencodable}
      BY <1>2, FirstLabelType
    <2>6. h = <<t.prio, n[1]>> \/ h[1] \notin Numeric
      <3>1. KeepsOrSpoils(t.prio, n[1])
        BY <2>2, <2>3, NamesAssumption
      <3>2. QED  BY <2>4, <3>1, Zenon DEF KeepsOrSpoils
    <2>7. h[2] # At
      <3>2. BehindPriority[t.prio, n[1]] \in Priority \X (Part \cup {Unencodable})
        BY <2>2, <2>3, BehindPriorityType
      <3> HIDE DEF h
      <3>3. h \in Priority \X (Part \cup {Unencodable})
        BY <2>4, <3>2
      <3>4. h[2] \in Part \cup {Unencodable}
        BY <3>3
      <3>5. QED  BY <3>4, NamesAssumption
    <2>8. r \in Seq(Part \cup {At})
      BY <2>3, SeqMonotonic
    <2>9. a \in Seq(Part \cup {At, Unencodable})
      BY <2>8, ASCIIType
    <2> HIDE DEF h, a, r, u
    <2>10. /\ m \in Seq(Part \cup {At, Unencodable}) /\ Len(m) = Len(a) + 1 /\ m[1] = h[2]
           /\ \A i \in 1..Len(a) : m[i + 1] = a[i]
           /\ Len(a) \in Nat
      BY <2>5, <2>9
    <2>11. u.name = m /\ u.prio = h[1]
      BY <2>1
    <2> HIDE DEF m
    <2>12. Unencodable \notin ToSet(m)
      BY <2>11 DEF Encodable, u
    <2>13. Unencodable \notin ToSet(a) /\ m[1] # Unencodable
      <3>1. \A i \in 1..Len(m) : m[i] # Unencodable
        BY <2>10, <2>12 DEF ToSet
      <3>2. \A i \in 1..Len(a) : a[i] # Unencodable
        BY <2>10, <3>1
      <3>3. QED  BY <2>9, <2>10, <3>1, <3>2 DEF ToSet
    <2>14. a \in Seq(Part) /\ Len(a) = Len(r) /\ \A i \in 1..Len(r) : a[i] = ToASCII[r[i]]
      BY <2>3, <2>13, ASCIIName DEF a
    <2>15. ASSUME NEW i \in 1..Len(m), i # 1
           PROVE  m[i] = a[i - 1] /\ i - 1 \in 1..Len(a)
      <3>1. i - 1 \in 1..Len(a) /\ (i - 1) + 1 = i
        BY <2>10, <2>15
      <3>2. QED  BY <2>10, <3>1
    <2>16. m[1] \in Part
      BY <2>5, <2>7, <2>10, <2>13
    <2>17. \A i \in 1..Len(m) : m[i] \in Part
      BY <2>14, <2>15, <2>16
    <2>18. m \in Seq(Part)
      BY <2>10, <2>17, PartNames
    <2>19. ASSUME h[1] \in Numeric
           PROVE  u.prio = t.prio /\ Canonical(m) = Canonical(n)
      <3>1. h = <<t.prio, n[1]>>
        BY <2>6, <2>19
      <3>2. h[1] = t.prio /\ m[1] = n[1]
        BY <2>10, <3>1
      <3>3. Len(m) = Len(n)
        BY <2>3, <2>10, <2>14
      <3>4. ASSUME NEW i \in 1..Len(n)
            PROVE  m[i] \in {n[i], ToASCII[n[i]]}
        <4>1. CASE i = 1
          BY <3>2, <4>1
        <4>2. CASE i # 1
          <5>1. m[i] = a[i - 1] /\ i - 1 \in 1..Len(r) /\ (i - 1) + 1 = i
            BY <2>14, <2>15, <3>3, <4>2
          <5>2. r[i - 1] = n[i]
            BY <2>3, <5>1
          <5>3. QED  BY <2>14, <5>1, <5>2
        <4>3. QED  BY <4>1, <4>2
      <3>5. Canonical(m) = Canonical(n)
        BY <2>18, <3>3, <3>4, SameCanonical
      <3>6. QED  BY <2>11, <3>2, <3>5
    <2>20. QED  BY <2>2, <2>11, <2>18, <2>19 DEF u
  <1>3. QED  BY <1>1, <1>2

\* The priorities of an endpoint are numbers, if it needs any.
Numbered(ep) == ep.type = "MX" => \A i \in DOMAIN ep.targets : ep.targets[i].prio \in Numeric

\* What an endpoint has in common with the wish that it comes from.
ComesFrom(ep, wish) ==
  /\ ep.name = wish.name /\ ep.type = wish.type /\ ep.keys = wish.keys
  /\ ep.targets \in Seq(Text) /\ Len(ep.targets) = Len(wish.targets)
  /\ \A i \in 1..Len(wish.targets) :
       /\ ep.targets[i].name \in Seq(Part)
       /\ ep.targets[i] \in {wish.targets[i], makeEndpointTarget(wish.targets[i])}
       /\ wish.type # "MX" \/ ep.targets[i].prio \in Numeric =>
            /\ ep.targets[i].prio = wish.targets[i].prio
            /\ Canonical(ep.targets[i].name) = Canonical(wish.targets[i].name)

\* A wish names hosts.
LEMMA WishedNames ==
  ASSUME WishesOrderly, NEW w \in UNION Wishes, NEW i \in DOMAIN w.targets
  PROVE  /\ w \in Endpoint /\ w.targets[i] \in Text /\ At \notin ToSet(w.targets[i].name)
         /\ w.targets[i].name \in Seq(Part)
         /\ w.type # "MX" => w.targets[i].prio = NoPriority
  <1>1. w \in Endpoint
    BY JourneyAssumption
  <1>2. w.targets \in Seq(Text)
    BY <1>1, EndpointFields
  <1> DEFINE t == w.targets[i]
  <1>3. t \in Text /\ t \in ToSet(w.targets)
    BY <1>2 DEF ToSet
  <1>4. At \notin ToSet(t.name) /\ (w.type # "MX" => t.prio = NoPriority)
    BY <1>3 DEF WishesOrderly
  <1> HIDE DEF t
  <1>5. t.name \in Seq(Part \cup {At})
    BY <1>3, TextParts
  <1> DEFINE n == t.name
  <1>6. \A j \in 1..Len(n) : n[j] \in Part
    BY <1>4, <1>5 DEF ToSet
  <1>7. n \in Seq(Part)
    <2>1. n = [j \in 1..Len(n) |-> n[j]] /\ Len(n) \in Nat
      BY <1>5
    <2> HIDE DEF n
    <2>2. QED  BY <1>6, <2>1
  <1>8. QED  BY <1>1, <1>3, <1>4, <1>7 DEF t

LEMMA AdjustedComesFrom ==
  ASSUME WishesOrderly, NEW w \in UNION Wishes, NEW ep, AdjustedFrom(ep, w)
  PROVE  ComesFrom(ep, w)
  <1>1. w \in Endpoint
    BY JourneyAssumption
  <1>2. w.targets \in Seq(Text)
    BY <1>1, EndpointFields
  <1>3. CASE ep = w
    <2>1. \A i \in 1..Len(w.targets) : w.targets[i].name \in Seq(Part)
      BY <1>2, WishedNames
    <2>2. QED  BY <1>2, <1>3, <2>1 DEF ComesFrom
  <1>4. CASE ep = adjustEndpointTargets(w) /\ \A t \in ToSet(w.targets) : Encodable(t)
    <2> DEFINE texts == w.targets
               s     == [i \in DOMAIN texts |-> makeEndpointTarget(texts[i])]
    <2>1. ep = [w EXCEPT !.targets = s]
      BY <1>4 DEF adjustEndpointTargets
    <2>2. DOMAIN texts = 1..Len(texts) /\ Len(texts) \in Nat
      BY <1>2
    <2>3. \A i \in 1..Len(texts) : Encodable(texts[i])
      BY <1>4, <2>2 DEF ToSet
    <2>4. ASSUME NEW i \in 1..Len(texts)
          PROVE  /\ s[i] \in Text
                 /\ s[i].name \in Seq(Part)
                 /\ s[i] = makeEndpointTarget(texts[i])
                 /\ w.type # "MX" \/ s[i].prio \in Numeric =>
                      s[i].prio = texts[i].prio /\ Canonical(s[i].name) = Canonical(texts[i].name)
      <3> DEFINE t == texts[i]
      <3>1. /\ t \in Text /\ t.name \in Seq(Part) /\ Encodable(t)
            /\ w.type # "MX" => t.prio = NoPriority
        BY <2>2, <2>3, WishedNames
      <3>2. s[i] = makeEndpointTarget(t)
        BY <2>2
      <3> HIDE DEF t, s
      <3>3. s[i] \in Text
        BY <3>1, <3>2, AdjustedTargetType
      <3>4. QED  BY <3>1, <3>2, <3>3, AdjustedTarget DEF t
    <2>5. s \in Seq(Text) /\ Len(s) = Len(texts)
      <3>1. s = [i \in 1..Len(texts) |-> s[i]]
        BY <2>2
      <3>2. \A i \in 1..Len(texts) : s[i] \in Text
        BY <2>4
      <3> HIDE DEF s, texts
      <3>3. QED  BY <2>2, <3>1, <3>2
    <2> HIDE DEF s
    <2>6. /\ ep.name = w.name /\ ep.type = w.type /\ ep.keys = w.keys /\ ep.targets = s
      BY <1>1, <2>1 DEF Endpoint
    <2>7. QED  BY <2>4, <2>5, <2>6 DEF ComesFrom
  <1>5. QED  BY <1>3, <1>4 DEF AdjustedFrom

\* It asks for the same, and for nothing twice.
LEMMA AsksTheSame ==
  ASSUME NEW ep, NEW w, ComesFrom(ep, w), w.targets \in Seq(Text), Numbered(ep)
  PROVE  Asked(ep) = Asked(w)
  <1> DEFINE e == ep.targets
             t == w.targets
             said(x) == [prio |-> x.prio, name |-> Canonical(x.name)]
  <1>1. /\ DOMAIN e = 1..Len(t) /\ DOMAIN t = 1..Len(t)
        /\ \A i \in 1..Len(t) : said(e[i]) = said(t[i])
    BY DEF ComesFrom, Numbered
  <1>2. Asked(ep) = {said(x) : x \in ToSet(e)} /\ Asked(w) = {said(x) : x \in ToSet(t)}
    BY DEF Asked
  <1> HIDE DEF said, e, t
  <1>3. {said(x) : x \in ToSet(e)} = {said(x) : x \in ToSet(t)}
    BY <1>1 DEF ToSet
  <1>4. QED  BY <1>2, <1>3

LEMMA AsksOnce ==
  ASSUME WishesOrderly, NEW w \in UNION Wishes, NEW ep, ComesFrom(ep, w),
         Numbered(ep), NEW i \in DOMAIN ep.targets, NEW j \in DOMAIN ep.targets,
         ep.targets[i].prio = ep.targets[j].prio, ep.targets[i].name = ep.targets[j].name
  PROVE  i = j
  <1>1. w.targets \in Seq(Text)
    BY JourneyAssumption, EndpointFields
  <1>2. DOMAIN ep.targets = 1..Len(w.targets) /\ DOMAIN w.targets = 1..Len(w.targets)
    BY <1>1 DEF ComesFrom
  <1>3. /\ w.targets[i].prio = w.targets[j].prio
        /\ Canonical(w.targets[i].name) = Canonical(w.targets[j].name)
    BY <1>2 DEF ComesFrom, Numbered
  <1>4. i \in DOMAIN w.targets /\ j \in DOMAIN w.targets
    BY <1>2
  <1>5. QED  BY <1>3, <1>4 DEF WishesOrderly

-----------------------------------------------------------------------------
(* What record values mean.                                                *)

\* What a record value tells.
Heard(zone, type, v) == [prio |-> v.prio, name |-> Canonical(Absolute(zone, type, v).name)]

LEMMA SaidIsHeard ==
  ASSUME NEW zone, NEW rr
  PROVE  Said(zone, rr) = {Heard(zone, rr.type, v) : v \in ToSet(rr.records)}
  <1> DEFINE canonical(a) == [a EXCEPT !.name = Canonical(@)]
             told(v)    == Absolute(zone, rr.type, v)
             R          == ToSet(rr.records)
  <1>1. ASSUME NEW v
        PROVE  canonical(told(v)) = Heard(zone, rr.type, v)
    <2> DEFINE n == IF v.dot \/ rr.type = "A" THEN v.name
                    ELSE IF v.name = <<At>> THEN zone ELSE v.name \o zone
    <2>1. Absolute(zone, rr.type, v) = [prio |-> v.prio, name |-> n]
      BY DEF Absolute
    <2> HIDE DEF n
    <2>2. [[prio |-> v.prio, name |-> n] EXCEPT !.name = Canonical(@)] = [prio |-> v.prio, name |-> Canonical(n)]
      OBVIOUS
    <2>3. Heard(zone, rr.type, v) = [prio |-> v.prio, name |-> Canonical(n)]
      BY <2>1 DEF Heard
    <2>4. QED  BY <2>1, <2>2, <2>3
  <1>2. Said(zone, rr) = {canonical(a) : a \in {told(v) : v \in R}}
    BY Zenon DEF Said
  <1> HIDE DEF canonical, told
  <1>3. {canonical(a) : a \in {told(v) : v \in R}} = {Heard(zone, rr.type, v) : v \in R}
    BY <1>1
  <1>4. QED  BY <1>2, <1>3

\* It is what was asked for, when the target was stored.
LEMMA StoredIsHeard ==
  ASSUME NEW zone \in Zone, NEW type \in RecordType, NEW t \in Text, Storable(type, t)
  PROVE  Heard(zone, type, Stored(zone, type, t)) = [prio |-> t.prio, name |-> Canonical(t.name)]
  <1> DEFINE v == Stored(zone, type, t)
  <1>1. Absolute(zone, type, v) = [prio |-> t.prio, name |-> t.name] /\ v.prio = t.prio
    BY TargetReadsBack
  <1> HIDE DEF v
  <1>2. Absolute(zone, type, v).name = t.name
    BY <1>1
  <1>3. QED  BY <1>1, <1>2 DEF Heard, v

\* A value that is stored as it is, or not.
LEMMA StoredAnyway ==
  ASSUME NEW zone \in Zone, NEW type \in RecordType, NEW t \in Text, t.name \in Seq(Part)
  PROVE  /\ Stored(zone, type, t) \in Text
         /\ Stored(zone, type, t).prio = t.prio
         /\ ~Storable(type, t) => Stored(zone, type, t) = t
  <1>1. CASE Storable(type, t)
    <2>1. Stored(zone, type, t) \in Text
      BY HostTypes DEF Stored
    <2>2. Stored(zone, type, t).prio = t.prio
      BY <1>1, TargetReadsBack
    <2>3. QED  BY <1>1, <2>1, <2>2
  <1>2. CASE ~Storable(type, t)
    <2>1. type = "MX" /\ t.prio \notin Numeric
      BY <1>2 DEF Storable
    <2>2. Stored(zone, type, t) = t
      BY <2>1 DEF Stored, adjustMXTarget
    <2>3. QED  BY <2>2
  <1>3. QED  BY <1>1, <1>2

\* Different targets have different values.
LEMMA StoredDiffer ==
  ASSUME NEW zone \in Zone, NEW type \in RecordType,
         NEW t \in Text, t.name \in Seq(Part), NEW u \in Text, u.name \in Seq(Part),
         Stored(zone, type, t) = Stored(zone, type, u)
  PROVE  t.prio = u.prio /\ t.name = u.name
  <1>1. t.prio = u.prio
    BY StoredAnyway
  <1>2. Storable(type, t) <=> Storable(type, u)
    BY <1>1 DEF Storable
  <1>3. CASE Storable(type, t)
    <2>1. /\ Absolute(zone, type, Stored(zone, type, t)) = [prio |-> t.prio, name |-> t.name]
          /\ Absolute(zone, type, Stored(zone, type, u)) = [prio |-> u.prio, name |-> u.name]
      BY <1>2, <1>3, TargetReadsBack
    <2>2. [prio |-> t.prio, name |-> t.name].name = [prio |-> u.prio, name |-> u.name].name
      BY <2>1
    <2>3. QED  BY <1>1, <2>2
  <1>4. CASE ~Storable(type, t)
    BY <1>2, <1>4, StoredAnyway
  <1>5. QED  BY <1>3, <1>4

\* A stored value as it is in a zonefile.
ParsedAs(zone, type, t, p) ==
  /\ p \in Text /\ p.prio = t.prio
  /\ type = "A" => p = t
  /\ type # "A" => p.dot = TRUE
  /\ type # "A" /\ ~(type = "MX" /\ t.name = zone) => p.name = t.name
  /\ type = "MX" /\ t.name = zone => p.name = <<At>> \o zone

LEMMA ParsedValue ==
  ASSUME NEW zone \in Zone, NEW type \in RecordType, NEW t \in Text, Storable(type, t)
  PROVE  ParsedAs(zone, type, t, parseRecord(zone, type, Stored(zone, type, t)))
  <1> DEFINE v == Stored(zone, type, t)
             p == parseRecord(zone, type, v)
  <1>1. /\ v \in Text /\ v.prio = t.prio /\ t.name \in Seq(Part)
        /\ zone \in Seq(Part \cup {At}) /\ type \in {"A", "CNAME", "MX"}
    BY StoredAnyway, ZoneIsAName DEF Storable, RecordType
  <1>2. CASE type = "A"
    BY <1>1, <1>2 DEF Stored, parseRecord, ParsedAs
  <1>3. CASE type # "A"
    <2> DEFINE n == v.name \o zone
    <2>1. v.name \in Seq(Part \cup {At}) /\ v.dot \in BOOLEAN
      BY <1>1, TextParts
    <2>2. n \in Seq(Part \cup {At}) /\ TRUE \in BOOLEAN
      BY <1>1, <2>1, ConcatProperties
    <2>3. p = IF v.dot THEN v ELSE [v EXCEPT !.name = n, !.dot = TRUE]
      BY <1>3 DEF parseRecord, expandTarget
    <2> HIDE DEF v, p, n
    <2>4. [v EXCEPT !.name = n, !.dot = TRUE] = [prio |-> v.prio, name |-> n, dot |-> TRUE]
      BY <1>1, <2>2, TextExcept, Zenon
    <2>5. p \in Text /\ p.prio = v.prio /\ p.dot = TRUE /\ p.name = IF v.dot THEN v.name ELSE n
      <3>1. CASE v.dot = TRUE
        BY <1>1, <2>3, <3>1
      <3>2. CASE v.dot = FALSE
        <4>1. p = [prio |-> v.prio, name |-> n, dot |-> TRUE]
          BY <2>3, <2>4, <3>2
        <4>2. [prio |-> v.prio, name |-> n, dot |-> TRUE] \in Text
          BY <1>1, <2>2 DEF Text
        <4>3. QED  BY <3>2, <4>1, <4>2
      <3>3. QED  BY <2>1, <3>1, <3>2
    <2>6. ASSUME v = adjustCNAMETarget(zone, t)
          PROVE  (IF v.dot THEN v.name ELSE n) = t.name
      BY <1>1, <2>6, HostReadsBack DEF n
    <2>7. CASE type = "MX" /\ t.name = zone
      <3>1. v = [t EXCEPT !.name = <<At>>, !.dot = FALSE]
        BY <2>7 DEF v, Stored, adjustMXTarget, Storable
      <3>2. <<At>> \in Seq(Part \cup {At}) /\ FALSE \in BOOLEAN
        OBVIOUS
      <3>3. v = [prio |-> t.prio, name |-> <<At>>, dot |-> FALSE]
        BY <3>1, <3>2, HostExcept, Zenon
      <3>4. n = <<At>> \o zone /\ v.dot = FALSE
        BY <3>3 DEF n
      <3>5. QED  BY <1>1, <1>3, <2>5, <2>7, <3>4 DEF p, v, ParsedAs
    <2>8. CASE ~(type = "MX" /\ t.name = zone)
      <3>1. v = adjustCNAMETarget(zone, t)
        BY <1>1, <1>3, <2>8 DEF v, Stored, adjustMXTarget, Storable
      <3>2. QED  BY <1>1, <1>3, <2>5, <2>6, <2>8, <3>1 DEF p, v, ParsedAs
    <2>9. QED  BY <2>7, <2>8
  <1>4. QED  BY <1>2, <1>3

\* In a zonefile different targets have different values, and those that are not
\* the zone itself mean what they meant.
LEMMA ParsedDiffer ==
  ASSUME NEW zone \in Zone, NEW type \in RecordType,
         NEW t \in Text, Storable(type, t), NEW u \in Text, Storable(type, u),
         parseRecord(zone, type, Stored(zone, type, t)) = parseRecord(zone, type, Stored(zone, type, u))
  PROVE  t.prio = u.prio /\ t.name = u.name
  <1> DEFINE p == parseRecord(zone, type, Stored(zone, type, t))
             q == parseRecord(zone, type, Stored(zone, type, u))
  <1>1. /\ p.prio = t.prio
        /\ type = "A" => p = t
        /\ type # "A" /\ ~(type = "MX" /\ t.name = zone) => p.name = t.name
        /\ type = "MX" /\ t.name = zone => p.name = <<At>> \o zone
    <2>1. ParsedAs(zone, type, t, p)
      BY ParsedValue
    <2> HIDE DEF p
    <2>2. QED  BY <2>1 DEF ParsedAs
  <1>2. /\ q.prio = u.prio
        /\ type = "A" => q = u
        /\ type # "A" /\ ~(type = "MX" /\ u.name = zone) => q.name = u.name
        /\ type = "MX" /\ u.name = zone => q.name = <<At>> \o zone
    <2>1. ParsedAs(zone, type, u, q)
      BY ParsedValue
    <2> HIDE DEF q
    <2>2. QED  BY <2>1 DEF ParsedAs
  <1>3. p = q
    OBVIOUS
  <1> DEFINE apex == <<At>> \o zone
  <1>4. apex \notin Seq(Part)
    <2>1. zone \in Seq(Part \cup {At}) /\ <<At>> \in Seq(Part \cup {At})
      BY ZoneIsAName
    <2>2. Len(apex) = 1 + Len(zone) /\ apex[1] = At
      BY <2>1, ConcatProperties
    <2>3. Len(zone) \in Nat
      BY <2>1
    <2> HIDE DEF apex
    <2>4. ASSUME apex \in Seq(Part)  PROVE FALSE
      <3>1. apex[1] \in Part
        BY <2>2, <2>3, <2>4
      <3>2. QED  BY <2>2, <3>1, NamesAssumption
    <2>5. QED  BY <2>4
  <1>5. t.name \in Seq(Part) /\ u.name \in Seq(Part)
    BY DEF Storable
  <1> HIDE DEF p, q, apex
  <1>6. (type = "MX" /\ t.name = zone => p.name = apex) /\ (type = "MX" /\ u.name = zone => q.name = apex)
    BY <1>1, <1>2 DEF apex
  <1>7. QED  BY <1>1, <1>2, <1>3, <1>4, <1>5, <1>6

LEMMA ParsedIsHeard ==
  ASSUME NEW zone \in Zone, NEW type \in RecordType, NEW t \in Text, Storable(type, t),
         ~(type = "MX" /\ t.name = zone)
  PROVE  Heard(zone, type, parseRecord(zone, type, Stored(zone, type, t))) =
           [prio |-> t.prio, name |-> Canonical(t.name)]
  <1> DEFINE p == parseRecord(zone, type, Stored(zone, type, t))
  <1>1. p.prio = t.prio /\ p.name = t.name /\ (type = "A" \/ p.dot = TRUE)
    <2>1. ParsedAs(zone, type, t, p)
      BY ParsedValue
    <2> HIDE DEF p
    <2>2. QED  BY <2>1 DEF ParsedAs
  <1> HIDE DEF p
  <1>2. Absolute(zone, type, p).name = t.name
    BY <1>1 DEF Absolute
  <1>3. QED  BY <1>1, <1>2 DEF Heard, p

-----------------------------------------------------------------------------
(* What is written for a wish.                                             *)

\* The records that are made of the targets of a wish.
StoredFrom(zone, ep, records) ==
  /\ ep.type \in RecordType /\ records \in Seq(Text) /\ Len(records) = Len(ep.targets)
  /\ \A i \in DOMAIN ep.targets : /\ ep.targets[i] \in Text /\ ep.targets[i].name \in Seq(Part)
                                  /\ records[i] = Stored(zone, ep.type, ep.targets[i])

LEMMA WrittenRecords ==
  ASSUME WishesOrderly, NEW zone \in Zone, NEW w \in UNION Wishes, NEW ep, ComesFrom(ep, w),
         NEW records, records = extractRRSetRecords(zone, ep.type, ep.targets)
  PROVE  StoredFrom(zone, ep, records) /\ (Numbered(ep) => IsInjective(records))
  <1> DEFINE type == ep.type
             e    == ep.targets
  <1>1. w \in Endpoint
    BY JourneyAssumption
  <1>2. type \in RecordType /\ e \in Seq(Text) /\ DOMAIN e = 1..Len(w.targets)
    BY <1>1, EndpointFields DEF ComesFrom
  <1>3. records \in Seq(Text)
    BY <1>2, TargetsType
  <1>4. DOMAIN records = DOMAIN e /\ \A i \in DOMAIN e : records[i] = Stored(zone, type, e[i])
    BY DEF extractRRSetRecords, Stored
  <1>5. \A i \in DOMAIN e : e[i] \in Text /\ e[i].name \in Seq(Part)
    BY <1>2 DEF ComesFrom
  <1>6. ASSUME Numbered(ep)
        PROVE  IsInjective(records)
    <2>1. SUFFICES ASSUME NEW i \in DOMAIN e, NEW j \in DOMAIN e, records[i] = records[j]
                   PROVE  i = j
      BY <1>4, Zenon DEF IsInjective
    <2>2. e[i].prio = e[j].prio /\ e[i].name = e[j].name
      BY <1>2, <1>4, <1>5, <2>1, StoredDiffer
    <2>3. QED  BY <1>6, <2>2, AsksOnce
  <1>7. Len(records) = Len(e)
    BY <1>2, <1>3, <1>4
  <1>8. QED  BY <1>2, <1>3, <1>4, <1>5, <1>6, <1>7 DEF StoredFrom

\* What the records of a zonefile are made of.
Parsed(zone, type, V)  == {parseRecord(zone, type, v) : v \in V}
Told(zone, type, V)    == {Heard(zone, type, v) : v \in V}
CanParseAll(type, V)   == \A v \in V : CanParse(type, v)
ParseApart(zone, type, V) ==
  \A u, v \in V : parseRecord(zone, type, u) = parseRecord(zone, type, v) => u = v

\* They tell what was wished, in both modes.
LEMMA WrittenTells ==
  ASSUME WishesOrderly, NEW zone \in Zone, NEW w \in UNION Wishes, NEW ep, ComesFrom(ep, w),
         NEW records, records = extractRRSetRecords(zone, ep.type, ep.targets),
         CanParseAll(ep.type, ToSet(records))
  PROVE  /\ Told(zone, ep.type, ToSet(records)) = Asked(w)
         /\ ParseApart(zone, ep.type, ToSet(records))
         /\ Numbered(ep)
         /\ (ep.type = "MX" => \A t \in ToSet(w.targets) : zone \notin {t.name, makeEndpointTarget(t).name})
              => Told(zone, ep.type, Parsed(zone, ep.type, ToSet(records))) = Asked(w)
  <1> DEFINE type == ep.type
             e    == ep.targets
             R    == ToSet(records)
             said(t) == [prio |-> t.prio, name |-> Canonical(t.name)]
  <1>1. /\ type \in RecordType /\ records \in Seq(Text) /\ Len(records) = Len(e) /\ e \in Seq(Text)
        /\ \A i \in DOMAIN e : e[i] \in Text /\ e[i].name \in Seq(Part)
                               /\ records[i] = Stored(zone, type, e[i])
    <2>1. StoredFrom(zone, ep, records)
      BY WrittenRecords
    <2>2. QED  BY <2>1 DEF StoredFrom, ComesFrom
  <1>2. DOMAIN e = DOMAIN records
    BY <1>1
  <1>3. R = {records[i] : i \in DOMAIN e}
    BY <1>2 DEF ToSet
  <1>4. \A i \in DOMAIN e : Storable(type, e[i])
    <2>1. SUFFICES ASSUME NEW i \in DOMAIN e  PROVE Storable(type, e[i])
      OBVIOUS
    <2>2. records[i] \in R /\ CanParse(type, records[i])
      BY <1>3 DEF CanParseAll
    <2>3. records[i].prio = e[i].prio
      BY <1>1, StoredAnyway
    <2>4. QED  BY <1>1, <2>2, <2>3 DEF CanParse, Storable
  <1>11. Numbered(ep)
    BY <1>4 DEF Storable, Numbered
  <1>5. \A i \in DOMAIN e : Heard(zone, type, records[i]) = said(e[i])
    BY <1>1, <1>4, StoredIsHeard
  <1>6. Asked(w) = {said(e[i]) : i \in DOMAIN e}
    <2>1. w.targets \in Seq(Text)
      BY JourneyAssumption, EndpointFields
    <2>2. Asked(w) = {said(t) : t \in ToSet(e)}
      BY <1>11, <2>1, AsksTheSame DEF Asked
    <2> HIDE DEF said, e
    <2>3. {said(t) : t \in ToSet(e)} = {said(e[i]) : i \in DOMAIN e}
      BY DEF ToSet
    <2>4. QED  BY <2>2, <2>3
  <1>7. ParseApart(zone, type, R)
    <2>1. SUFFICES ASSUME NEW i \in DOMAIN e, NEW j \in DOMAIN e,
                          parseRecord(zone, type, records[i]) = parseRecord(zone, type, records[j])
                   PROVE  records[i] = records[j]
      <3>1. ASSUME NEW u \in R, NEW v \in R,
                   parseRecord(zone, type, u) = parseRecord(zone, type, v)
            PROVE  u = v
        <4>1. PICK i \in DOMAIN e : u = records[i]
          BY <1>3
        <4>2. PICK j \in DOMAIN e : v = records[j]
          BY <1>3
        <4>3. QED  BY <2>1, <3>1, <4>1, <4>2
      <3> HIDE DEF R
      <3>2. QED  BY <3>1, Zenon DEF ParseApart
    <2>2. e[i].prio = e[j].prio /\ e[i].name = e[j].name
      BY <1>1, <1>4, <2>1, ParsedDiffer
    <2>3. i = j
      BY <1>11, <2>2, AsksOnce
    <2>4. QED  BY <2>3
  <1>8. ASSUME type = "MX" => \A t \in ToSet(w.targets) : zone \notin {t.name, makeEndpointTarget(t).name}
        PROVE  Told(zone, type, Parsed(zone, type, R)) = Asked(w)
    <2>1. ASSUME NEW i \in DOMAIN e
          PROVE  Heard(zone, type, parseRecord(zone, type, records[i])) = said(e[i])
      <3>1. ~(type = "MX" /\ e[i].name = zone)
        <4>1. i \in 1..Len(w.targets) /\ i \in DOMAIN w.targets
          BY <1>1, <2>1, JourneyAssumption, EndpointFields DEF ComesFrom
        <4>2. w.targets[i] \in ToSet(w.targets)
          BY <4>1 DEF ToSet
        <4>3. e[i].name \in {w.targets[i].name, makeEndpointTarget(w.targets[i]).name}
          BY <4>1 DEF ComesFrom
        <4>4. QED  BY <1>8, <4>2, <4>3
      <3>2. QED  BY <1>1, <1>4, <2>1, <3>1, ParsedIsHeard
    <2> HIDE DEF said, e, R, type
    <2>2. Told(zone, type, Parsed(zone, type, R)) =
            {Heard(zone, type, parseRecord(zone, type, records[i])) : i \in DOMAIN e}
      BY <1>3 DEF Told, Parsed
    <2>3. QED  BY <1>6, <2>1, <2>2
  <1>9. Told(zone, type, R) = Asked(w)
    <2> HIDE DEF said, e, R, type
    <2>1. Told(zone, type, R) = {Heard(zone, type, records[i]) : i \in DOMAIN e}
      BY <1>3 DEF Told
    <2>2. QED  BY <1>5, <1>6, <2>1
  <1>10. QED  BY <1>7, <1>8, <1>9, <1>11

-----------------------------------------------------------------------------
(* The recordsets of a call.                                               *)

LEMMA SaidIsTold ==
  ASSUME NEW zone, NEW rr
  PROVE  Said(zone, rr) = Told(zone, rr.type, ToSet(rr.records))
  BY SaidIsHeard DEF Told

LEMMA WellFormedParses ==
  ASSUME NEW rr
  PROVE  /\ WellFormed(rr) <=> CanParseAll(rr.type, ToSet(rr.records))
         /\ WellFormed(rr) <=> Parses(rr)
  BY DEF WellFormed, CanParseAll, Parses

\* A recordset as it is in a zonefile.
LEMMA InFileRecords ==
  ASSUME NEW z \in Zone, NEW rr \in RRSet, NEW labels \in SUBSET Key
  PROVE  /\ InFile(z, rr, labels).type = rr.type
         /\ InFile(z, rr, labels).labels = labels
         /\ ToSet(InFile(z, rr, labels).records) = Parsed(z, rr.type, ToSet(rr.records))
         /\ IsInjective(rr.records) /\ ParseApart(z, rr.type, ToSet(rr.records))
              => IsInjective(InFile(z, rr, labels).records)
         /\ WellFormed(rr) => WellFormed(InFile(z, rr, labels))
  <1> DEFINE texts == rr.records
             s     == [i \in DOMAIN texts |-> parseRecord(z, rr.type, texts[i])]
             f     == InFile(z, rr, labels)
  <1>1. s \in Seq(Text) /\ texts \in Seq(Text) /\ rr.type \in RecordType
    BY RRSetFields, TargetsType
  <1>2. f = [rr EXCEPT !.records = s, !.labels = labels]
    BY DEF InFile
  <1>3. DOMAIN s = DOMAIN texts /\ \A i \in DOMAIN texts : s[i] = parseRecord(z, rr.type, texts[i])
    OBVIOUS
  <1> HIDE DEF s, f
  <1>4. f.type = rr.type /\ f.labels = labels /\ f.records = s
    BY <1>2 DEF RRSet
  <1>5. ToSet(s) = Parsed(z, rr.type, ToSet(texts))
    BY <1>3 DEF ToSet, Parsed
  <1>6. ASSUME IsInjective(texts), ParseApart(z, rr.type, ToSet(texts))
        PROVE  IsInjective(s)
    <2>1. SUFFICES ASSUME NEW i \in DOMAIN texts, NEW j \in DOMAIN texts, s[i] = s[j]
                   PROVE  i = j
      BY <1>3, Zenon DEF IsInjective
    <2>2. texts[i] \in ToSet(texts) /\ texts[j] \in ToSet(texts)
      BY DEF ToSet
    <2>3. parseRecord(z, rr.type, texts[i]) = parseRecord(z, rr.type, texts[j])
      BY <1>3, <2>1
    <2>4. texts[i] = texts[j]
      BY <1>6, <2>2, <2>3, Zenon DEF ParseApart
    <2>5. QED  BY <1>6, <2>4 DEF IsInjective
  <1>7. ASSUME WellFormed(rr)
        PROVE  WellFormed(f)
    <2>1. ASSUME NEW i \in DOMAIN texts
          PROVE  CanParse(rr.type, s[i])
      <3>1. texts[i] \in Text /\ CanParse(rr.type, texts[i])
        BY <1>1, <1>7 DEF WellFormed, ToSet
      <3>2. CASE rr.type = "A"
        BY <1>3, <3>1, <3>2 DEF parseRecord
      <3>3. CASE rr.type # "A"
        <4>1. s[i] = expandTarget(z, texts[i])
          BY <1>3, <3>3 DEF parseRecord
        <4>2. s[i].prio = texts[i].prio
          BY <3>1, <4>1 DEF expandTarget, Text
        <4>3. QED  BY <3>1, <3>3, <4>2 DEF CanParse
      <3>4. QED  BY <3>2, <3>3
    <2>2. \A t \in ToSet(s) : CanParse(rr.type, t)
      BY <1>3, <2>1 DEF ToSet
    <2>3. QED  BY <1>4, <2>2 DEF WellFormed
  <1>8. QED  BY <1>4, <1>5, <1>6, <1>7 DEF f

NoEscape(labels) == \A l \in labels : Escape \notin ToSet(l)

LEMMA LabelsWithoutEscape ==
  ASSUME NEW keys \in SUBSET Key, NEW otherwise, NoEscape(otherwise)
  PROVE  /\ NoEscape(LabelsOr(keys, otherwise))
         /\ extractHetznerLabels(keys) \in {BadLabels, LabelsOr(keys, otherwise)}
  <1> DEFINE labels == {ReplaceAll(k, Escape, Slash) : k \in keys}
  <1>1. ASSUME NEW k \in keys
        PROVE  Escape \notin ToSet(ReplaceAll(k, Escape, Slash))
    <2>1. k \in Seq(Word \cup {Slash, Escape})
      BY DEF Key
    <2> DEFINE r == ReplaceAll(k, Escape, Slash)
    <2>2. DOMAIN r = 1..Len(k) /\ \A i \in 1..Len(k) : r[i] = IF k[i] = Escape THEN Slash ELSE k[i]
      BY DEF ReplaceAll
    <2> HIDE DEF r
    <2>3. \A i \in DOMAIN r : r[i] # Escape
      BY <2>2, NamesAssumption
    <2>4. QED  BY <2>3 DEF ToSet, r
  <1>2. NoEscape(labels)
    BY <1>1 DEF NoEscape
  <1>3. extractHetznerLabels(keys) \in {labels, BadLabels}
    BY Zenon DEF extractHetznerLabels
  <1> HIDE DEF labels
  <1>4. CASE extractHetznerLabels(keys) = BadLabels
    BY <1>4, Zenon DEF LabelsOr
  <1>5. CASE extractHetznerLabels(keys) # BadLabels
    <2>1. LabelsOr(keys, otherwise) = extractHetznerLabels(keys)
      BY <1>5, Zenon DEF LabelsOr
    <2>2. QED  BY <1>2, <1>3, <1>5, <2>1
  <1>6. QED  BY <1>4, <1>5

\* What a call that writes has of the endpoint that it is made for.
MadeFor(c, ep) ==
  /\ c \in Call /\ c.zone = ZoneOf(ep) /\ c.rrset.type = ep.type
  /\ Numbered(ep) => IsInjective(c.rrset.records)
  /\ ToSet(c.rrset.records) = ToSet(extractRRSetRecords(ZoneOf(ep), ep.type, ep.targets))
  /\ NoEscape(c.rrset.labels)
  /\ extractHetznerLabels(ep.keys) \in {BadLabels, c.rrset.labels}

LEMMA CreationMade ==
  ASSUME TypeOK, WishesOrderly, NEW ep \in Endpoint, ZoneOf(ep) # NoZone,
         NEW w \in UNION Wishes, ComesFrom(ep, w)
  PROVE  MadeFor(CreateCall(ep), ep)
  <1> DEFINE c == CreateCall(ep)
  <1>1. c \in Call /\ ZoneOf(ep) \in Zone
    BY CreateType, ZoneOfType
  <1>2. /\ c.zone = ZoneOf(ep) /\ c.rrset.type = ep.type
        /\ c.rrset.records = extractRRSetRecords(ZoneOf(ep), ep.type, ep.targets)
        /\ c.rrset.labels = LabelsOr(ep.keys, {})
    <2> DEFINE n == makeEndpointName(ZoneOf(ep), ep.name)
               r == extractRRSetRecords(ZoneOf(ep), ep.type, ep.targets)
               l == LabelsOr(ep.keys, {})
    <2>1. c = [op |-> "create", zone |-> ZoneOf(ep),
               rrset |-> [name |-> n, type |-> ep.type, records |-> r, labels |-> l]]
      BY DEF CreateCall
    <2> HIDE DEF n, r, l, c
    <2>2. c.zone = ZoneOf(ep) /\ c.rrset.type = ep.type /\ c.rrset.records = r /\ c.rrset.labels = l
      BY <2>1
    <2>3. QED  BY <2>2 DEF r, l
  <1> HIDE DEF c
  <1> DEFINE records == extractRRSetRecords(ZoneOf(ep), ep.type, ep.targets)
  <1>3. Numbered(ep) => IsInjective(c.rrset.records)
    <2>1. Numbered(ep) => IsInjective(records)
      BY <1>1, WrittenRecords
    <2>2. QED  BY <1>2, <2>1
  <1>4. NoEscape({}) /\ ep.keys \in SUBSET Key
    BY EndpointFields DEF NoEscape
  <1>5. NoEscape(c.rrset.labels) /\ extractHetznerLabels(ep.keys) \in {BadLabels, c.rrset.labels}
    BY <1>2, <1>4, LabelsWithoutEscape
  <1>6. QED  BY <1>1, <1>2, <1>3, <1>5 DEF MadeFor, c

\* Records that count as the same are the same, in another order.
LEMMA UpdateMade ==
  ASSUME TypeOK, WishesOrderly, NEW ep \in Endpoint, ZoneOf(ep) # NoZone, Matching(ep) # {},
         Decent(getMatchingDomainRRSet(ep)), NEW w \in UNION Wishes, ComesFrom(ep, w)
  PROVE  MadeFor(UpdateCall(ep), ep)
  <1> DEFINE c       == UpdateCall(ep)
             z       == ZoneOf(ep)
             rr      == getMatchingDomainRRSet(ep)
             records == extractRRSetRecords(z, ep.type, ep.targets)
             r       == IF sameZoneRRSetRecords(records, rr.records) THEN rr.records ELSE records
             l       == LabelsOr(ep.keys, rr.labels)
  <1>1. c \in Call
    BY UpdateType
  <1>2. z \in Zone /\ rr \in RRSet /\ rr.type = ep.type
    BY MatchType
  <1>3. c = [op |-> "update", zone |-> z, rrset |-> [rr EXCEPT !.records = r, !.labels = l]]
    BY DEF UpdateCall
  <1>4. /\ rr.records \in Seq(Text) /\ IsInjective(rr.records) /\ NoEscape(rr.labels)
        /\ ep.keys \in SUBSET Key
    BY <1>2, RRSetFields, EndpointFields DEF Decent, NoEscape
  <1>5. records \in Seq(Text) /\ (Numbered(ep) => IsInjective(records))
    <2>1. StoredFrom(z, ep, records) /\ (Numbered(ep) => IsInjective(records))
      BY <1>2, WrittenRecords
    <2> HIDE DEF records, z
    <2>2. QED  BY <2>1 DEF StoredFrom
  <1> HIDE DEF z, rr, records
  <1>6. ToSet(r) = ToSet(records) /\ (Numbered(ep) => IsInjective(r))
    <2>1. CASE sameZoneRRSetRecords(records, rr.records)
      <3>1. Len(records) = Len(rr.records) /\ ToSet(rr.records) \subseteq ToSet(records)
        BY <2>1 DEF sameZoneRRSetRecords
      <3>2. ToSet(records) = ToSet(rr.records)
        BY <1>4, <1>5, <3>1, SameValues
      <3>3. QED  BY <1>4, <2>1, <3>2
    <2>2. CASE ~sameZoneRRSetRecords(records, rr.records)
      BY <1>5, <2>2
    <2>3. QED  BY <2>1, <2>2
  <1>7. NoEscape(l) /\ extractHetznerLabels(ep.keys) \in {BadLabels, l}
    BY <1>4, LabelsWithoutEscape
  <1> HIDE DEF r, l, c
  <1>8. c.zone = z /\ c.rrset = [rr EXCEPT !.records = r, !.labels = l]
    BY <1>3
  <1>9. c.rrset.type = ep.type /\ c.rrset.records = r /\ c.rrset.labels = l
    BY <1>2, <1>8 DEF RRSet
  <1>10. QED  BY <1>1, <1>6, <1>7, <1>8, <1>9 DEF MadeFor, c, z, records

\* What Hetzner would not refuse, and what a zonefile would not repeat.
CallDecent(c) ==
  /\ c.op # "create" => CallId(c) \in Owned
  /\ c.op # "delete" =>
       /\ WellFormed(c.rrset) => IsInjective(c.rrset.records)
       /\ NoEscape(c.rrset.labels)
       /\ bulk /\ Parses(c.rrset) => IsInjective(InFile(c.zone, c.rrset, {}).records)

LEMMA MadeIsCall ==
  ASSUME NEW c, NEW ep, MadeFor(c, ep)
  PROVE  c.zone \in Zone /\ c.rrset \in RRSet /\ c.zone = ZoneOf(ep) /\ c.rrset.type = ep.type
  BY DEF MadeFor, Call

LEMMA MadeTells ==
  ASSUME WishesOrderly, NEW c, NEW ep, MadeFor(c, ep), NEW w \in UNION Wishes, ComesFrom(ep, w),
         WellFormed(c.rrset)
  PROVE  /\ Said(c.zone, c.rrset) = Asked(w)
         /\ IsInjective(c.rrset.records)
         /\ IsInjective(InFile(c.zone, c.rrset, {}).records)
         /\ (ep.type = "MX" => \A t \in ToSet(w.targets) : c.zone \notin {t.name, makeEndpointTarget(t).name})
              => Said(c.zone, InFile(c.zone, c.rrset, {})) = Asked(w)
  <1> DEFINE z       == c.zone
             rr      == c.rrset
             f       == InFile(z, rr, {})
             records == extractRRSetRecords(z, ep.type, ep.targets)
             V       == ToSet(rr.records)
  <1>1. z \in Zone /\ rr \in RRSet /\ rr.type = ep.type /\ z = ZoneOf(ep) /\ {} \in SUBSET Key
    BY MadeIsCall
  <1>2. V = ToSet(records) /\ (Numbered(ep) => IsInjective(rr.records))
    BY <1>1 DEF MadeFor
  <1>3. CanParseAll(ep.type, V)
    BY <1>1, WellFormedParses
  <1> HIDE DEF V
  <1>4. /\ Told(z, ep.type, V) = Asked(w)
        /\ ParseApart(z, ep.type, V)
        /\ Numbered(ep)
        /\ (ep.type = "MX" => \A t \in ToSet(w.targets) : z \notin {t.name, makeEndpointTarget(t).name})
             => Told(z, ep.type, Parsed(z, ep.type, V)) = Asked(w)
    <2> HIDE DEF z
    <2>1. CanParseAll(ep.type, ToSet(records))
      BY <1>2, <1>3
    <2>2. /\ Told(z, ep.type, ToSet(records)) = Asked(w)
          /\ ParseApart(z, ep.type, ToSet(records))
          /\ Numbered(ep)
          /\ (ep.type = "MX" => \A t \in ToSet(w.targets) : z \notin {t.name, makeEndpointTarget(t).name})
               => Told(z, ep.type, Parsed(z, ep.type, ToSet(records))) = Asked(w)
      BY <1>1, <2>1, WrittenTells
    <2>3. QED  BY <1>2, <2>2
  <1>5. f.type = ep.type /\ ToSet(f.records) = Parsed(z, ep.type, V)
    <2>1. f.type = rr.type /\ ToSet(f.records) = Parsed(z, rr.type, ToSet(rr.records))
      BY <1>1, InFileRecords
    <2>2. QED  BY <1>1, <2>1 DEF V
  <1>6. IsInjective(f.records)
    <2>1. ParseApart(z, rr.type, ToSet(rr.records))
      BY <1>1, <1>4 DEF V
    <2>2. QED  BY <1>1, <1>2, <1>4, <2>1, InFileRecords
  <1> HIDE DEF f
  <1>7. Said(z, rr) = Told(z, ep.type, V)
    BY <1>1, SaidIsTold DEF V
  <1>8. Said(z, f) = Told(z, ep.type, Parsed(z, ep.type, V))
    BY <1>5, SaidIsTold
  <1>9. QED  BY <1>2, <1>4, <1>6, <1>7, <1>8 DEF f

LEMMA MadeDecent ==
  ASSUME WishesOrderly, NEW c, NEW ep, MadeFor(c, ep), NEW w \in UNION Wishes, ComesFrom(ep, w),
         c.op = "create" \/ CallId(c) \in Owned
  PROVE  CallDecent(c)
  <1>1. WellFormed(c.rrset) => IsInjective(c.rrset.records)
    BY MadeTells
  <1>2. Parses(c.rrset) => IsInjective(InFile(c.zone, c.rrset, {}).records)
    BY MadeTells, WellFormedParses
  <1>3. QED  BY <1>1, <1>2 DEF CallDecent, MadeFor

\* Nothing is refused for its form that is written for a wish whose targets all do.
LEMMA MadeWellFormed ==
  ASSUME WishesOrderly, NEW c, NEW ep, MadeFor(c, ep), NEW w \in UNION Wishes, ComesFrom(ep, w),
         ~Formless(w)
  PROVE  WellFormed(c.rrset)
  <1> DEFINE z       == c.zone
             records == extractRRSetRecords(z, ep.type, ep.targets)
  <1>1. z \in Zone /\ c.rrset.type = ep.type /\ ToSet(c.rrset.records) = ToSet(records)
    BY MadeIsCall DEF MadeFor
  <1>2. ASSUME NEW i \in DOMAIN records
        PROVE  CanParse(ep.type, records[i])
    <2>1. /\ ep.type \in RecordType /\ Len(records) = Len(ep.targets) /\ records \in Seq(Text)
          /\ \A j \in DOMAIN ep.targets : /\ ep.targets[j] \in Text /\ ep.targets[j].name \in Seq(Part)
                                          /\ records[j] = Stored(z, ep.type, ep.targets[j])
      <3>1. StoredFrom(z, ep, records)
        BY <1>1, WrittenRecords
      <3> HIDE DEF z, records
      <3>2. QED  BY <3>1 DEF StoredFrom
    <2>2. /\ ep.targets \in Seq(Text) /\ Len(ep.targets) = Len(w.targets)
          /\ \A j \in 1..Len(w.targets) :
               ep.targets[j] \in {w.targets[j], makeEndpointTarget(w.targets[j])}
          /\ w.targets \in Seq(Text) /\ w.type = ep.type
      BY JourneyAssumption, EndpointFields DEF ComesFrom
    <2>3. i \in DOMAIN ep.targets /\ i \in DOMAIN w.targets /\ i \in 1..Len(w.targets)
      <3> HIDE DEF records
      <3>1. QED  BY <1>2, <2>1, <2>2
    <2>4. CanParse(ep.type, ep.targets[i])
      <3>1. w.targets[i] \in ToSet(w.targets)
        BY <2>3 DEF ToSet
      <3>2. CanParse(w.type, w.targets[i]) /\ CanParse(w.type, makeEndpointTarget(w.targets[i]))
        BY <3>1 DEF Formless
      <3>3. QED  BY <2>2, <2>3, <3>2
    <2>5. records[i] = Stored(z, ep.type, ep.targets[i]) /\ records[i].prio = ep.targets[i].prio
      <3> HIDE DEF records, z
      <3>1. QED  BY <1>1, <2>1, <2>3, StoredAnyway
    <2>6. ep.type = "A" => records[i] = ep.targets[i]
      BY <2>5 DEF Stored
    <2> HIDE DEF records
    <2>7. QED  BY <2>4, <2>5, <2>6 DEF CanParse
  <1> HIDE DEF records
  <1>3. QED  BY <1>1, <1>2 DEF WellFormed, ToSet

LEMMA MadeGrants ==
  ASSUME WishesOrderly, NEW c, NEW ep, MadeFor(c, ep), NEW w \in UNION Wishes, ComesFrom(ep, w),
         c.zone = FindZone(Zone, w.name)
  PROVE  Grants(c, w)
  <1>1. ep.keys = w.keys /\ ep.type = w.type
    BY DEF ComesFrom
  <1>2. extractHetznerLabels(w.keys) \in {BadLabels, c.rrset.labels}
    BY <1>1 DEF MadeFor
  <1>3. CASE ~bulk
    <2>1. WellFormed(c.rrset) => Said(c.zone, c.rrset) = Asked(w)
      BY MadeTells
    <2>2. QED  BY <1>2, <1>3, <2>1 DEF Means, Grants
  <1>4. CASE bulk /\ ~Unsayable(w)
    <2>1. /\ ~Formless(w)
          /\ w.type = "MX" =>
               \A t \in ToSet(w.targets) : c.zone \notin {t.name, makeEndpointTarget(t).name}
      BY <1>4 DEF Unsayable
    <2>2. WellFormed(c.rrset)
      BY <2>1, MadeWellFormed
    <2>3. Said(c.zone, InFile(c.zone, c.rrset, {})) = Asked(w)
      BY <1>1, <2>1, <2>2, MadeTells
    <2>4. QED  BY <1>4, <2>2, <2>3, WellFormedParses DEF Means, Written, Grants
  <1>5. CASE bulk /\ Unsayable(w)
    BY <1>5 DEF Grants
  <1>6. QED  BY <1>3, <1>4, <1>5

-----------------------------------------------------------------------------
(* What Hetzner holds, and what a call changes of it.                      *)

\* Valid, of the set of the recordsets of a zone.
ValidSet(S) ==
  \A a, b \in S : a # b /\ a.name = b.name => a.type # b.type /\ a.type # "CNAME"

LEMMA ValidApart ==
  ASSUME NEW s, Valid(s)
  PROVE  ValidSet(ToSet(s))
  BY DEF Valid, ValidSet, ToSet

\* A recordset is found by its name and type.
LEMMA ValidIsOne ==
  ASSUME NEW S, ValidSet(S), NEW a \in S, NEW b \in S, a.name = b.name, a.type = b.type
  PROVE  a = b
  BY DEF ValidSet

LEMMA ValidListing ==
  ASSUME NEW S, NEW s \in SetToSeqs(S), ToSet(s) = S, ValidSet(S)
  PROVE  Valid(s)
  <1>1. \A i, j \in DOMAIN s : i # j => s[i] # s[j]
    BY DEF SetToSeqs
  <1>2. \A i \in DOMAIN s : s[i] \in S
    BY DEF ToSet
  <1>3. QED  BY <1>1, <1>2 DEF ValidSet, Valid

LEMMA InsertValid ==
  ASSUME NEW s \in Seq(RRSet), Valid(s), NEW rr \in RRSet, NEW i \in 1..Len(s) + 1,
         \A j \in DOMAIN s : s[j].name = rr.name =>
           rr.type # s[j].type /\ "CNAME" \notin {rr.type, s[j].type}
  PROVE  Valid(InsertAt(s, i, rr)) /\ ToSet(InsertAt(s, i, rr)) = ToSet(s) \cup {rr}
  <1> DEFINE t == InsertAt(s, i, rr)
  <1>1. /\ t \in Seq(RRSet) /\ Len(t) = Len(s) + 1 /\ t[i] = rr
        /\ \A j \in 1..Len(s) + 1 : j < i => t[j] = s[j]
        /\ \A j \in 1..Len(s) + 1 : i < j => t[j] = s[j - 1]
    BY InsertPlaces
  <1>2. ToSet(t) = ToSet(s) \cup {rr}
    BY InsertSet
  <1> HIDE DEF t
  <1>3. DOMAIN t = 1..Len(s) + 1 /\ DOMAIN s = 1..Len(s) /\ Len(s) \in Nat
    BY <1>1
  <1> DEFINE from(j) == IF j < i THEN j ELSE j - 1
  <1>4. ASSUME NEW j \in DOMAIN t, j # i
        PROVE  from(j) \in DOMAIN s /\ t[j] = s[from(j)]
    BY <1>1, <1>3, <1>4
  <1>5. \A j, k \in DOMAIN t : j # k /\ j # i /\ k # i => from(j) # from(k)
    BY <1>3
  <1> HIDE DEF from
  <1>6. SUFFICES ASSUME NEW j \in DOMAIN t, NEW k \in DOMAIN t, j # k, t[j].name = t[k].name
                 PROVE  t[j].type # t[k].type /\ t[j].type # "CNAME"
    BY <1>2 DEF Valid, t
  <1>7. CASE j # i /\ k # i
    BY <1>4, <1>5, <1>6, <1>7 DEF Valid
  <1>8. CASE j = i /\ k # i
    BY <1>1, <1>4, <1>6, <1>8
  <1>9. CASE j # i /\ k = i
    BY <1>1, <1>4, <1>6, <1>9
  <1>10. QED  BY <1>6, <1>7, <1>8, <1>9

LEMMA ReplaceValid ==
  ASSUME NEW s \in Seq(RRSet), Valid(s), NEW i \in DOMAIN s, NEW rr \in RRSet,
         rr.name = s[i].name, rr.type = s[i].type
  PROVE  /\ Valid(ReplaceAt(s, i, rr))
         /\ ToSet(ReplaceAt(s, i, rr)) = (ToSet(s) \ {s[i]}) \cup {rr}
  <1> DEFINE t == ReplaceAt(s, i, rr)
  <1>1. DOMAIN t = DOMAIN s /\ t[i] = rr /\ \A j \in DOMAIN s \ {i} : t[j] = s[j]
    BY DEF ReplaceAt
  <1> HIDE DEF t
  <1>2. \A j \in DOMAIN s : t[j].name = s[j].name /\ t[j].type = s[j].type
    BY <1>1
  <1>3. Valid(t)
    BY <1>1, <1>2 DEF Valid
  <1>4. \A j \in DOMAIN s \ {i} : s[j] # s[i]
    BY DEF Valid
  <1>5. ToSet(t) = (ToSet(s) \ {s[i]}) \cup {rr}
    BY <1>1, <1>4 DEF ToSet
  <1>6. QED  BY <1>3, <1>5 DEF t

LEMMA RemoveValid ==
  ASSUME NEW s \in Seq(RRSet), Valid(s), NEW i \in DOMAIN s
  PROVE  Valid(RemoveAt(s, i)) /\ ToSet(RemoveAt(s, i)) = ToSet(s) \ {s[i]}
  <1> DEFINE t == RemoveAt(s, i)
             from(j) == IF j < i THEN j ELSE j + 1
  <1>1. /\ t \in Seq(RRSet) /\ Len(t) = Len(s) - 1
        /\ \A j \in 1..Len(s) - 1 : t[j] = s[from(j)]
    <2>1. /\ t \in Seq(RRSet) /\ Len(t) = Len(s) - 1
          /\ \A j \in 1..Len(s) - 1 : t[j] = IF j < i THEN s[j] ELSE s[j + 1]
      BY RemovePlaces
    <2> HIDE DEF t
    <2>2. QED  BY <2>1
  <1>2. ToSet(t) \subseteq ToSet(s) /\ ToSet(s) \subseteq ToSet(t) \cup {s[i]}
    BY RemoveSet
  <1> HIDE DEF t
  <1>3. /\ DOMAIN t = 1..Len(s) - 1 /\ DOMAIN s = 1..Len(s) /\ Len(s) \in Nat
        /\ \A j \in DOMAIN t : from(j) \in DOMAIN s /\ from(j) # i
        /\ \A j, k \in DOMAIN t : j # k => from(j) # from(k)
    BY <1>1
  <1> HIDE DEF from
  <1>4. Valid(t)
    BY <1>1, <1>3 DEF Valid
  <1>5. s[i] \notin ToSet(t)
    <2>1. \A j \in DOMAIN s \ {i} : s[j] # s[i]
      BY DEF Valid
    <2>2. QED  BY <1>1, <1>3, <2>1 DEF ToSet
  <1>6. QED  BY <1>2, <1>4, <1>5 DEF t

\* The recordsets of name and type of rr.
Alike(a, b)    == a.name = b.name /\ a.type = b.type
Others(S, rr)  == {a \in S : ~Alike(a, rr)}

\* What an accepted call makes of its zone.
LEMMA CallEffect ==
  ASSUME TypeOK, NEW c \in Call, Accepted(c), Effect(c), Valid(dns[c.zone])
  PROVE  /\ \A y \in Zone \ {c.zone} : dns'[y] = dns[y]
         /\ Valid(dns'[c.zone])
         /\ ToSet(dns'[c.zone]) = Others(ToSet(dns[c.zone]), c.rrset)
                                    \cup (IF c.op = "delete" THEN {} ELSE {c.rrset})
         /\ c.op # "delete" => WellFormed(c.rrset)
  <1> DEFINE z  == c.zone
             rr == c.rrset
             i  == Place(z, rr)
             s  == dns[z]
  <1>1. z \in Zone /\ rr \in RRSet /\ c.op \in {"create", "update", "delete"}
    BY DEF Call
  <1>2. s \in Seq(RRSet) /\ dns \in [Zone -> Seq(RRSet)]
    BY <1>1 DEF TypeOK
  <1>3. ASSUME i # 0
        PROVE  /\ i \in DOMAIN s /\ Alike(s[i], rr)
               /\ Others(ToSet(s), rr) = ToSet(s) \ {s[i]}
    <2>1. i \in DOMAIN s /\ s[i].name = rr.name /\ s[i].type = rr.type
      BY <1>1, <1>3, PlaceType
    <2> HIDE DEF i
    <2>2. s[i] \in ToSet(s)
      BY <2>1 DEF ToSet
    <2>3. ValidSet(ToSet(s))
      BY ValidApart
    <2>4. QED  BY <2>1, <2>2, <2>3 DEF ValidSet, Others, Alike
  <1>4. CASE c.op = "create"
    <2>1. Insert(z, rr) /\ Fits(z, rr) /\ WellFormed(rr)
      BY <1>4 DEF Effect, Accepted
    <2>2. PICK j \in 1..Len(s) + 1 : dns' = [dns EXCEPT ![z] = InsertAt(@, j, rr)]
      BY <2>1 DEF Insert
    <2>3. dns'[z] = InsertAt(s, j, rr) /\ \A y \in Zone \ {z} : dns'[y] = dns[y]
      BY <1>1, <1>2, <2>2
    <2>4. \A k \in DOMAIN s : s[k].name = rr.name =>
            rr.type # s[k].type /\ "CNAME" \notin {rr.type, s[k].type}
      BY <2>1 DEF Fits
    <2>5. Others(ToSet(s), rr) = ToSet(s)
      BY <2>4 DEF Others, Alike, ToSet
    <2> HIDE DEF s
    <2>6. Valid(InsertAt(s, j, rr)) /\ ToSet(InsertAt(s, j, rr)) = ToSet(s) \cup {rr}
      BY <1>1, <1>2, <2>4, InsertValid DEF s
    <2>7. QED  BY <1>4, <2>1, <2>3, <2>5, <2>6 DEF s
  <1>5. CASE c.op = "update"
    <2>1. i # 0 /\ dns' = [dns EXCEPT ![z] = ReplaceAt(@, i, rr)] /\ WellFormed(rr)
      BY <1>5 DEF Accepted, Effect
    <2>2. dns'[z] = ReplaceAt(s, i, rr) /\ \A y \in Zone \ {z} : dns'[y] = dns[y]
      BY <1>1, <1>2, <2>1
    <2>3. i \in DOMAIN s /\ Alike(s[i], rr) /\ Others(ToSet(s), rr) = ToSet(s) \ {s[i]}
      BY <1>3, <2>1
    <2> HIDE DEF i
    <2>4. Valid(ReplaceAt(s, i, rr)) /\ ToSet(ReplaceAt(s, i, rr)) = (ToSet(s) \ {s[i]}) \cup {rr}
      BY <1>1, <1>2, <2>3, ReplaceValid DEF Alike
    <2>5. QED  BY <1>5, <2>1, <2>2, <2>3, <2>4
  <1>6. CASE c.op = "delete"
    <2>1. i # 0 /\ dns' = [dns EXCEPT ![z] = RemoveAt(@, i)]
      BY <1>6 DEF Accepted, Effect
    <2>2. dns'[z] = RemoveAt(s, i) /\ \A y \in Zone \ {z} : dns'[y] = dns[y]
      BY <1>1, <1>2, <2>1
    <2>3. i \in DOMAIN s /\ Others(ToSet(s), rr) = ToSet(s) \ {s[i]}
      BY <1>3, <2>1
    <2> HIDE DEF i
    <2>4. Valid(RemoveAt(s, i)) /\ ToSet(RemoveAt(s, i)) = ToSet(s) \ {s[i]}
      BY <1>1, <1>2, <2>3, RemoveValid
    <2>5. QED  BY <1>6, <2>2, <2>3, <2>4
  <1>7. QED  BY <1>1, <1>4, <1>5, <1>6

-----------------------------------------------------------------------------
(* What always holds.                                                      *)

ZonesDecent == \A z \in Zone : Valid(dns[z]) /\ \A rr \in ToSet(dns[z]) : Decent(rr)
SeenDecent  == \A z \in Zone : \A rr \in ToSet(seen[z]) : Decent(rr)
PlanWished  ==
  /\ \A ep \in plan.create \cup plan.update : \E w \in UNION Wishes : AdjustedFrom(ep, w)
  /\ \A ep \in plan.create \cup plan.update \cup plan.delete : Matches(ep.name)
CallsDecent == \A c \in calls : CallDecent(c)
KeepInv     == want \in Wishes /\ ZonesDecent /\ SeenDecent /\ PlanWished /\ CallsDecent

\* The endpoint that is planned for a wish.
LEMMA AdjustedFromWish ==
  ASSUME CanAdjust, NEW w \in want
  PROVE  AdjustedFrom(AdjustEndpoint(w), w)
  BY DEF CanAdjust, AdjustEndpoint, AdjustedFrom

LEMMA PlanIsWished ==
  ASSUME CanAdjust, want \in Wishes, NEW shown,
         plan' = PlanFor({AdjustEndpoint(ep) : ep \in want}, shown)
  PROVE  PlanWished'
  <1> DEFINE wanted == {AdjustEndpoint(ep) : ep \in want}
  <1>1. \A ep \in wanted : \E w \in UNION Wishes : AdjustedFrom(ep, w)
    BY AdjustedFromWish
  <1> HIDE DEF wanted
  <1>2. /\ \A ep \in plan'.create \cup plan'.update : ep \in wanted
        /\ \A ep \in plan'.create \cup plan'.update \cup plan'.delete : Matches(ep.name)
    BY DEF PlanFor, wanted
  <1>3. QED  BY <1>1, <1>2 DEF PlanWished, Matches, AdjustedFrom, adjustEndpointTargets,
               GetDomainFilter, Encodable

LEMMA MatchIsSeen ==
  ASSUME TypeOK, NEW ep \in Endpoint, ZoneOf(ep) # NoZone, Matching(ep) # {}
  PROVE  getMatchingDomainRRSet(ep) \in ToSet(seen[ZoneOf(ep)])
  <1>1. ZoneOf(ep) \in Zone
    BY MatchType
  <1>2. Matching(ep) \in SUBSET (DOMAIN seen[ZoneOf(ep)]) /\ DOMAIN seen[ZoneOf(ep)] \subseteq Nat
    BY <1>1 DEF Matching, TypeOK
  <1>3. Min(Matching(ep)) \in DOMAIN seen[ZoneOf(ep)]
    BY <1>2, MinIsIn
  <1>4. QED  BY <1>3 DEF getMatchingDomainRRSet, ToSet

\* What a call is about, told by the endpoint that it is made for.
LEMMA EndpointZone ==
  ASSUME TypeOK, OwnedInUnicode, mapper = Zone, NEW ep \in Endpoint, Id(ep) \in Owned,
         ZoneOf(ep) # NoZone
  PROVE  /\ ZoneOf(ep) = FindZone(Zone, ep.name) /\ ZoneOf(ep) \in Zone
         /\ ep.name = ZoneOf(ep) \/ Below(ep.name, ZoneOf(ep))
  <1>1. Id(ep)[1] = ep.name /\ ep.name \in Name
    BY EndpointFields DEF Id
  <1>2. InUnicode(ep.name)
    BY <1>1 DEF OwnedInUnicode
  <1>3. ZoneOf(ep) = FindZone(Zone, ep.name)
    BY DEF ZoneOf
  <1>4. QED  BY <1>1, <1>2, <1>3, FoundIsSuffix

LEMMA MatchId ==
  ASSUME TypeOK, OwnedInUnicode, mapper = Zone, NEW ep \in Endpoint, Id(ep) \in Owned,
         ZoneOf(ep) # NoZone, Matching(ep) # {}
  PROVE  /\ <<RRName(ZoneOf(ep), getMatchingDomainRRSet(ep)), getMatchingDomainRRSet(ep).type>> = Id(ep)
         /\ CallId(UpdateCall(ep)) = Id(ep)
         /\ CallId(DeleteCall(ep)) = Id(ep)
  <1> DEFINE z  == ZoneOf(ep)
             rr == getMatchingDomainRRSet(ep)
  <1>1. z \in Zone /\ rr \in RRSet /\ rr.name = MatchingName(z, ep.name) /\ rr.type = ep.type
    BY MatchType
  <1>2. ep.name \in Name /\ (ep.name = z \/ Below(ep.name, z))
    BY EndpointZone, EndpointFields
  <1> HIDE DEF rr, z
  <1>3. RRName(z, rr) = ep.name
    BY <1>1, <1>2, MatchingNameIsRead
  <1>4. /\ UpdateCall(ep).zone = z /\ UpdateCall(ep).rrset.name = rr.name
        /\ UpdateCall(ep).rrset.type = rr.type
    BY <1>1 DEF UpdateCall, RRSet, z, rr
  <1>5. DeleteCall(ep).zone = z /\ DeleteCall(ep).rrset = rr
    BY DEF DeleteCall, z, rr
  <1>6. QED  BY <1>1, <1>3, <1>4, <1>5 DEF CallId, RRName, Id, z, rr

LEMMA CreationId ==
  ASSUME TypeOK, OwnedInUnicode, mapper = Zone, NEW ep \in Endpoint, Id(ep) \in Owned,
         ZoneOf(ep) # NoZone
  PROVE  \/ CallId(CreateCall(ep)) = Id(ep)
         \/ ep.name = ZoneOf(ep) \o ZoneOf(ep) /\ CallId(CreateCall(ep)) = <<ZoneOf(ep), ep.type>>
  <1> DEFINE z  == ZoneOf(ep)
             rr == CreateCall(ep).rrset
  <1>1. CreateCall(ep).zone = z /\ rr.type = ep.type /\ rr.name = makeEndpointName(z, ep.name)
    BY DEF CreateCall
  <1>2. ep.name \in Name /\ z \in Zone /\ (ep.name = z \/ Below(ep.name, z))
    BY EndpointZone, EndpointFields
  <1> HIDE DEF rr, z
  <1>3. RRName(z, rr) = ep.name \/ (rr.name = <<At>> /\ ep.name = z \o z)
    BY <1>1, <1>2, MadeNameIsRead
  <1>4. CallId(CreateCall(ep)) = <<RRName(z, rr), ep.type>>
    BY <1>1 DEF CallId, rr
  <1>5. QED  BY <1>3, <1>4 DEF Id, RRName, z

LEMMA QueuedDecent ==
  ASSUME TypeOK, NamesInv, OwnedInUnicode, WishesOrderly, mapper = Zone, SeenDecent, PlanWished
  PROVE  \A c \in Creations \cup Updates \cup Deletions : CallDecent(c)
  <1>1. \A op \in {"create", "update", "delete"} :
          \A ep \in plan[op] : ep \in Endpoint /\ Id(ep) \in Owned
    <2>1. plan.create \in SUBSET Endpoint /\ plan.update \in SUBSET Endpoint
          /\ plan.delete \in SUBSET Endpoint
      BY DEF TypeOK, Plan
    <2>2. QED  BY <2>1 DEF NamesInv
  <1>2. ASSUME NEW ep \in plan.create \cup plan.update
        PROVE  \E w \in UNION Wishes : ComesFrom(ep, w)
    BY AdjustedComesFrom DEF PlanWished
  <1>3. ASSUME NEW ep \in Unknown(plan.create)
        PROVE  CallDecent(CreateCall(ep))
    <2>1. ep \in Endpoint /\ ZoneOf(ep) # NoZone
      BY <1>1, <1>3 DEF Unknown
    <2>2. PICK w \in UNION Wishes : ComesFrom(ep, w)
      BY <1>2, <1>3 DEF Unknown
    <2>3. MadeFor(CreateCall(ep), ep)
      BY <2>1, <2>2, CreationMade
    <2>4. CreateCall(ep).op = "create"
      BY DEF CreateCall
    <2>5. QED  BY <2>2, <2>3, <2>4, MadeDecent
  <1>4. ASSUME NEW ep \in Known(plan.update)
        PROVE  CallDecent(UpdateCall(ep))
    <2>1. ep \in Endpoint /\ Id(ep) \in Owned /\ ZoneOf(ep) # NoZone /\ Matching(ep) # {}
      BY <1>1, <1>4 DEF Known
    <2>2. PICK w \in UNION Wishes : ComesFrom(ep, w)
      BY <1>2, <1>4 DEF Known
    <2>3. Decent(getMatchingDomainRRSet(ep))
      BY <2>1, MatchIsSeen, MatchType DEF SeenDecent
    <2>4. MadeFor(UpdateCall(ep), ep)
      BY <2>1, <2>2, <2>3, UpdateMade
    <2>5. CallId(UpdateCall(ep)) \in Owned
      BY <2>1, MatchId
    <2>6. QED  BY <2>2, <2>4, <2>5, MadeDecent
  <1>5. ASSUME NEW ep \in Known(plan.delete)
        PROVE  CallDecent(DeleteCall(ep))
    <2>1. ep \in Endpoint /\ Id(ep) \in Owned /\ ZoneOf(ep) # NoZone /\ Matching(ep) # {}
      BY <1>1, <1>5 DEF Known
    <2>2. DeleteCall(ep).op = "delete"
      BY DEF DeleteCall
    <2>3. QED  BY <2>1, <2>2, MatchId DEF CallDecent
  <1>6. QED  BY <1>3, <1>4, <1>5 DEF Creations, Updates, Deletions

\* What a zonefile makes of a recordset, and of a creation.
LEMMA FileIsDecent ==
  ASSUME TypeOK, bulk, NEW z \in Zone, NEW cs \in SUBSET Call, IsFiniteSet(cs),
         \A c \in cs : c.zone = z /\ CallDecent(c), \A rr \in ToSet(dns[z]) : Decent(rr),
         NEW file \in runZoneChanges(z, cs)
  PROVE  \A rr \in ToSet(file) : Decent(rr)
  <1>0. PICK added \in OneOfEachName(New(z, cs)) : file \in SetToSeqs(Content(z, cs, added))
    BY FileContent
  <1>1. ToSet(file) = Content(z, cs, added)
    BY <1>0, ContentType, ListingSet
  <1>2. ASSUME NEW c \in cs, c.op # "delete", Parses(c.rrset),
               NEW labels \in SUBSET Key, NoEscape(labels)
        PROVE  Decent(InFile(z, c.rrset, labels))
    <2>1. c.rrset \in RRSet /\ WellFormed(c.rrset)
      BY <1>2, WellFormedParses DEF Call
    <2>2. IsInjective(InFile(z, c.rrset, {}).records)
      BY <1>2 DEF CallDecent
    <2>3. InFile(z, c.rrset, labels).records = InFile(z, c.rrset, {}).records
      BY <2>1 DEF InFile, RRSet
    <2>4. WellFormed(InFile(z, c.rrset, labels)) /\ InFile(z, c.rrset, labels).labels = labels
      BY <2>1, InFileRecords
    <2>5. QED  BY <1>2, <2>2, <2>3, <2>4 DEF Decent, NoEscape
  <1>3. ASSUME NEW rr \in Kept(z, cs)
        PROVE  Decent(Edited(z, cs, rr))
    <2>1. rr \in ToSet(dns[z]) /\ Decent(rr)
      BY <1>3 DEF Kept
    <2>2. rr.labels \in SUBSET Key /\ NoEscape(rr.labels)
      <3>1. rr \in RRSet
        BY <2>1, ToSetFinite DEF TypeOK
      <3>2. QED  BY <2>1, <3>1, RRSetFields DEF Decent, NoEscape
    <2>3. CASE On(cs, "update", rr) = {}
      BY <2>1, <2>3 DEF Edited
    <2>4. CASE On(cs, "update", rr) # {}
      <3> DEFINE c == CHOOSE c \in On(cs, "update", rr) : TRUE
      <3>1. c \in On(cs, "update", rr)
        BY <2>4
      <3> HIDE DEF c
      <3>2. c \in cs /\ c.op = "update" /\ Parses(c.rrset)
        BY <3>1 DEF On
      <3>3. Edited(z, cs, rr) = InFile(z, c.rrset, rr.labels)
        BY <2>4 DEF Edited, c
      <3>4. QED  BY <1>2, <2>2, <3>2, <3>3
    <2>5. QED  BY <2>3, <2>4
  <1>4. ASSUME NEW c \in added
        PROVE  Decent(InFile(z, c.rrset, {}))
    <2>1. c \in cs /\ c.op = "create" /\ Parses(c.rrset)
      BY <1>4, AddedAreNew
    <2>2. {} \in SUBSET Key /\ NoEscape({})
      BY DEF NoEscape
    <2>3. QED  BY <1>2, <2>1, <2>2
  <1>5. QED  BY <1>1, <1>3, <1>4 DEF Content

LEMMA PageIsListed ==
  ASSUME TypeOK, NEW z \in Zone, NEW p \in Nat \ {0}
  PROVE  ToSet(PageRows(dns[z], p)) \subseteq ToSet(dns[z])
  <1> DEFINE s    == dns[z]
             last == p * BatchSize
             top  == IF last < Len(s) THEN last ELSE Len(s)
             low  == last - BatchSize + 1
  <1>1. s \in Seq(RRSet) /\ Len(s) \in Nat
    BY DEF TypeOK
  <1>2. BatchSize \in Nat \ {0} /\ last \in Nat /\ BatchSize <= last
    <2>1. BatchSize \in Nat \ {0}
      BY JourneyAssumption
    <2>2. QED  BY <2>1
  <1> HIDE DEF last
  <1>3. low \in Nat \ {0} /\ top \in Nat /\ top <= Len(s)
    BY <1>1, <1>2
  <1>4. PageRows(s, p) = SubSeq(s, low, top)
    BY DEF PageRows, last
  <1> HIDE DEF s, top, low
  <1>5. ASSUME NEW i \in DOMAIN SubSeq(s, low, top)
        PROVE  SubSeq(s, low, top)[i] \in ToSet(s)
    <2>1. i \in 1..(top - low + 1) /\ SubSeq(s, low, top)[i] = s[low + i - 1]
      BY <1>1, <1>3, <1>5
    <2>2. low + i - 1 \in 1..Len(s)
      BY <1>1, <1>3, <2>1
    <2>3. QED  BY <1>1, <2>1, <2>2 DEF ToSet
  <1>6. QED  BY <1>4, <1>5 DEF ToSet, s

LEMMA CallKeeps ==
  ASSUME Typed, KeepInv, DoCall
  PROVE  ZonesDecent'
  <1>1. PICK c \in calls : Accepted(c) /\ Effect(c)
    BY DEF DoCall, Due
  <1>2. c \in Call /\ c.zone \in Zone /\ CallDecent(c) /\ TypeOK
    BY <1>1 DEF Typed, TypeOK, Call, KeepInv, CallsDecent
  <1>3. /\ \A y \in Zone \ {c.zone} : dns'[y] = dns[y]
        /\ Valid(dns'[c.zone])
        /\ ToSet(dns'[c.zone]) = Others(ToSet(dns[c.zone]), c.rrset)
                                   \cup (IF c.op = "delete" THEN {} ELSE {c.rrset})
        /\ c.op # "delete" => WellFormed(c.rrset)
    BY <1>1, <1>2, CallEffect DEF KeepInv, ZonesDecent
  <1>4. c.op # "delete" => Decent(c.rrset)
    BY <1>2, <1>3 DEF CallDecent, Decent, NoEscape
  <1>5. \A rr \in ToSet(dns'[c.zone]) : Decent(rr)
    BY <1>2, <1>3, <1>4 DEF KeepInv, ZonesDecent, Others
  <1>6. \A z \in Zone : Valid(dns'[z]) /\ \A rr \in ToSet(dns'[z]) : Decent(rr)
    BY <1>3, <1>5 DEF KeepInv, ZonesDecent
  <1>7. QED  BY <1>6 DEF ZonesDecent, Valid, Decent, WellFormed

LEMMA FileKeeps ==
  ASSUME Typed, KeepInv, applyZoneChanges
  PROVE  ZonesDecent'
  <1>1. PICK z \in {c.zone : c \in calls} : \E file \in runZoneChanges(z, {c \in calls : c.zone = z}) :
            dns' = IF Valid(file) THEN [dns EXCEPT ![z] = file] ELSE dns
    BY DEF applyZoneChanges
  <1> DEFINE cs == {c \in calls : c.zone = z}
  <1>2. PICK file \in runZoneChanges(z, cs) :
            dns' = IF Valid(file) THEN [dns EXCEPT ![z] = file] ELSE dns
    BY <1>1
  <1>3. z \in Zone /\ cs \in SUBSET Call /\ IsFiniteSet(cs) /\ TypeOK /\ bulk
    BY FS_Subset DEF Typed, TypeOK, Finite, Call, applyZoneChanges
  <1>4. \A c \in cs : c.zone = z /\ CallDecent(c)
    BY DEF KeepInv, CallsDecent
  <1> HIDE DEF cs
  <1>5. \A rr \in ToSet(file) : Decent(rr)
    BY <1>2, <1>3, <1>4, FileIsDecent DEF KeepInv, ZonesDecent
  <1>6. \A y \in Zone : Valid(dns'[y]) /\ \A rr \in ToSet(dns'[y]) : Decent(rr)
    <2>1. dns \in [Zone -> Seq(RRSet)]
      BY <1>3 DEF TypeOK
    <2>2. QED  BY <1>2, <1>5, <2>1 DEF KeepInv, ZonesDecent
  <1>7. QED  BY <1>6 DEF ZonesDecent, Valid, Decent, WellFormed

LEMMA OthersKeep ==
  ASSUME Typed, HetznerOrderly, KeepInv, NEW z \in Zone, ForeignCreate(z) \/ ForeignDelete(z)
  PROVE  ZonesDecent'
  <1>1. dns \in [Zone -> Seq(RRSet)] /\ dns[z] \in Seq(RRSet) /\ Valid(dns[z])
    BY DEF Typed, TypeOK, KeepInv, ZonesDecent
  <1>2. ASSUME NEW s, dns' = [dns EXCEPT ![z] = s], Valid(s), \A rr \in ToSet(s) : Decent(rr)
        PROVE  ZonesDecent'
    <2>1. \A y \in Zone : Valid(dns'[y]) /\ \A rr \in ToSet(dns'[y]) : Decent(rr)
      BY <1>1, <1>2 DEF KeepInv, ZonesDecent
    <2>2. QED  BY <2>1 DEF ZonesDecent, Valid, Decent, WellFormed
  <1>3. \A rr \in ToSet(dns[z]) : Decent(rr)
    BY DEF KeepInv, ZonesDecent
  <1>4. CASE ForeignCreate(z)
    <2>1. PICK rr \in Edits : Fits(z, rr) /\ Insert(z, rr)
      BY <1>4 DEF ForeignCreate
    <2>2. PICK i \in 1..Len(dns[z]) + 1 : dns' = [dns EXCEPT ![z] = InsertAt(@, i, rr)]
      BY <2>1 DEF Insert
    <2> DEFINE s == InsertAt(dns[z], i, rr)
    <2>3. dns' = [dns EXCEPT ![z] = s]
      BY <2>2
    <2>4. rr \in RRSet /\ Decent(rr)
      BY JourneyAssumption DEF HetznerOrderly
    <2>5. Valid(s) /\ ToSet(s) = ToSet(dns[z]) \cup {rr}
      <3>1. \A j \in DOMAIN dns[z] : dns[z][j].name = rr.name =>
              rr.type # dns[z][j].type /\ "CNAME" \notin {rr.type, dns[z][j].type}
        BY <2>1 DEF Fits
      <3>2. QED  BY <1>1, <2>4, <3>1, InsertValid
    <2> HIDE DEF s
    <2>6. QED  BY <1>2, <1>3, <2>3, <2>4, <2>5
  <1>5. CASE ForeignDelete(z)
    <2>1. PICK i \in DOMAIN dns[z] : dns' = [dns EXCEPT ![z] = RemoveAt(@, i)]
      BY <1>5 DEF ForeignDelete
    <2> DEFINE s == RemoveAt(dns[z], i)
    <2>2. dns' = [dns EXCEPT ![z] = s]
      BY <2>1
    <2>3. Valid(s) /\ ToSet(s) = ToSet(dns[z]) \ {dns[z][i]}
      BY <1>1, RemoveValid
    <2> HIDE DEF s
    <2>4. QED  BY <1>2, <1>3, <2>2, <2>3
  <1>6. QED  BY <1>4, <1>5

LEMMA EmptyIsDecent ==
  ASSUME NEW rrsets, rrsets = Empty
  PROVE  \A z \in Zone : ToSet(rrsets[z]) = {}
  BY DEF Empty, ToSet

LEMMA KeepInit ==
  ASSUME HetznerOrderly, Init
  PROVE  KeepInv
  <1>1. want \in Wishes /\ dns \in StartDNS /\ seen = Empty /\ plan = NoPlan /\ calls = {}
    BY DEF Init
  <1>2. ZonesDecent
    BY <1>1 DEF HetznerOrderly, ZonesDecent
  <1>3. SeenDecent
    BY <1>1, EmptyIsDecent DEF SeenDecent
  <1>4. PlanWished
    BY <1>1 DEF PlanWished, NoPlan
  <1>5. QED  BY <1>1, <1>2, <1>3, <1>4 DEF KeepInv, CallsDecent

LEMMA FetchPageKeeps ==
  ASSUME Typed, KeepInv, FetchPage
  PROVE  SeenDecent'
  <1>1. PICK z \in IF pageOf = NoZone THEN unread ELSE {pageOf} :
          seen' = [seen EXCEPT ![z] = @ \o PageRows(dns[z], page)]
    BY DEF FetchPage
  <1>2. TypeOK /\ z \in Zone /\ page \in Nat \ {0}
    BY <1>1 DEF Typed, TypeOK
  <1>3. seen \in [Zone -> Seq(RRSet)] /\ seen[z] \in Seq(RRSet) /\ PageRows(dns[z], page) \in Seq(RRSet)
    BY <1>2, PageType DEF TypeOK
  <1> DEFINE rows == PageRows(dns[z], page)
  <1>4. ToSet(rows) \subseteq ToSet(dns[z])
    BY <1>2, PageIsListed
  <1>5. seen' = [seen EXCEPT ![z] = seen[z] \o rows]
    BY <1>1
  <1> HIDE DEF rows
  <1>6. ToSet(seen[z] \o rows) = ToSet(seen[z]) \cup ToSet(rows)
    BY <1>3, ToSetConcat DEF rows
  <1>7. \A y \in Zone : \A rr \in ToSet(seen'[y]) : Decent(rr)
    <2>1. ASSUME NEW y \in Zone
          PROVE  seen'[y] = IF y = z THEN seen[z] \o rows ELSE seen[y]
      BY <1>3, <1>5
    <2>2. \A rr \in ToSet(seen[z] \o rows) : Decent(rr)
      BY <1>2, <1>4, <1>6 DEF KeepInv, SeenDecent, ZonesDecent
    <2>3. QED  BY <2>1, <2>2 DEF KeepInv, SeenDecent
  <1>8. QED  BY <1>7 DEF SeenDecent, Decent, WellFormed

\* The parts of KeepInv look at a variable each.
LEMMA KeepUnchanged ==
  ASSUME KeepInv
  PROVE  /\ UNCHANGED dns => ZonesDecent'
         /\ UNCHANGED seen => SeenDecent'
         /\ UNCHANGED plan => PlanWished'
         /\ UNCHANGED bulk /\ calls' \subseteq calls => CallsDecent'
         /\ seen' = Empty => SeenDecent'
         /\ plan' = NoPlan => PlanWished'
         /\ calls' = {} => CallsDecent'
  <1>1. UNCHANGED dns => ZonesDecent'
    BY DEF KeepInv, ZonesDecent, Valid, Decent, WellFormed
  <1>2. UNCHANGED seen => SeenDecent'
    BY DEF KeepInv, SeenDecent, Decent, WellFormed
  <1>3. UNCHANGED plan => PlanWished'
    BY DEF KeepInv, PlanWished, AdjustedFrom, Matches, GetDomainFilter
  <1>4. UNCHANGED bulk /\ calls' \subseteq calls => CallsDecent'
    <2>1. ASSUME NEW c, UNCHANGED bulk, CallDecent(c)
          PROVE  CallDecent(c)'
      <3>1. c.op # "create" => CallId(c)' \in Owned
        BY <2>1 DEF CallDecent, CallId, RRName
      <3>2. bulk' /\ Parses(c.rrset) => IsInjective(InFile(c.zone, c.rrset, {}).records) \/ c.op = "delete"
        BY <2>1 DEF CallDecent
      <3>3. c.op # "delete" => /\ WellFormed(c.rrset) => IsInjective(c.rrset.records)
                               /\ NoEscape(c.rrset.labels)
        BY <2>1 DEF CallDecent
      <3>4. QED  BY <3>1, <3>2, <3>3 DEF CallDecent
    <2>2. QED  BY <2>1 DEF KeepInv, CallsDecent
  <1>5. seen' = Empty => SeenDecent'
    BY EmptyIsDecent DEF SeenDecent
  <1>6. plan' = NoPlan => PlanWished'
    BY DEF PlanWished, NoPlan
  <1>7. calls' = {} => CallsDecent'
    BY DEF CallsDecent
  <1>8. QED  BY <1>1, <1>2, <1>3, <1>4, <1>5, <1>6, <1>7

LEMMA KeepNext ==
  ASSUME Orderly, Typed, NamesInv, KeepInv, [Next]_vars
  PROVE  KeepInv'
  <1>1. OwnedInUnicode /\ WishesOrderly /\ HetznerOrderly /\ TypeOK /\ want \in Wishes
    BY DEF Orderly, Typed, KeepInv
  <1>2. CASE StartRecords \/ StartApply
    <2>1. UNCHANGED <<dns, want, plan>> /\ seen' = Empty /\ calls' = {}
      BY <1>2 DEF StartRecords, StartApply, Fetch, NothingListed
    <2>2. QED  BY <1>1, <2>1, KeepUnchanged DEF KeepInv
  <1>3. CASE FetchPage
    <2>1. UNCHANGED <<dns, want, plan, calls, bulk>>
      BY <1>3 DEF FetchPage, context
    <2>2. QED  BY <1>1, <1>3, <2>1, KeepUnchanged, FetchPageKeeps DEF KeepInv
  <1>4. CASE ReturnRecords
    <2>1. UNCHANGED <<dns, want, plan, calls, bulk, seen>>
      BY <1>4 DEF ReturnRecords, context, request
    <2>2. QED  BY <1>1, <2>1, KeepUnchanged DEF KeepInv
  <1>5. CASE AdjustEndpoints
    <2>1. UNCHANGED <<dns, want, calls, bulk>> /\ seen' = Empty /\ CanAdjust
      BY <1>5 DEF AdjustEndpoints, context, NothingListed
    <2>2. PICK shown \in OneOfEach(Shown) :
            plan' = PlanFor({AdjustEndpoint(ep) : ep \in want}, shown)
      BY <1>5 DEF AdjustEndpoints
    <2>3. PlanWished'
      BY <1>1, <2>1, <2>2, PlanIsWished
    <2>4. QED  BY <1>1, <2>1, <2>3, KeepUnchanged DEF KeepInv
  <1>6. ASSUME NEW ok, EndCycle(ok), UNCHANGED <<dns, want>>
        PROVE  KeepInv'
    <2>1. seen' = Empty /\ plan' = NoPlan /\ calls' = {}
      BY <1>6 DEF EndCycle, NothingListed
    <2>2. QED  BY <1>1, <1>6, <2>1, KeepUnchanged DEF KeepInv
  <1>7. CASE AdjustEndpointsFails \/ ReturnUnchanged \/ CallRefused \/ ReturnApplied
    BY <1>6, <1>7 DEF AdjustEndpointsFails, ReturnUnchanged, CallRefused, ReturnApplied
  <1>8. CASE Queue
    <2>1. mapper = Zone
      BY <1>8 DEF Queue, Fetched, NamesInv
    <2>2. \A c \in Creations \cup Updates \cup Deletions : CallDecent(c)
      BY <1>1, <2>1, QueuedDecent DEF KeepInv
    <2>3. calls' \subseteq Creations \cup Updates \cup Deletions
      BY <1>8 DEF Queue, Creations, Updates, Deletions
    <2>4. plan' = NoPlan /\ seen' = Empty /\ UNCHANGED <<dns, want, bulk>>
      BY <1>8 DEF Queue, NothingListed, context
    <2>5. CallsDecent'
      <3>1. \A c \in calls' : CallDecent(c)
        BY <2>2, <2>3
      <3>2. QED  BY <2>4, <3>1 DEF CallsDecent, CallDecent, CallId, RRName, Parses, InFile, Owned
    <2>6. QED  BY <1>1, <2>4, <2>5, KeepUnchanged DEF KeepInv
  <1>9. CASE DoCall \/ applyZoneChanges
    <2>1. UNCHANGED <<want, plan, bulk, seen>> /\ calls' \subseteq calls
      BY <1>9 DEF DoCall, applyZoneChanges, context
    <2>2. ZonesDecent'
      BY <1>9, CallKeeps, FileKeeps
    <2>3. QED  BY <1>1, <2>1, <2>2, KeepUnchanged DEF KeepInv
  <1>10. CASE Restart
    <2>1. UNCHANGED <<dns, want, bulk>>
      BY <1>10 DEF Restart
    <2>2. CASE pc \in {"fetch", "apply"}
      BY <1>6, <1>10, <2>1, <2>2 DEF Restart
    <2>3. CASE pc \notin {"fetch", "apply"}
      <3>1. UNCHANGED <<seen, plan, calls>>
        BY <1>10, <2>3 DEF Restart, request
      <3>2. QED  BY <1>1, <2>1, <3>1, KeepUnchanged DEF KeepInv
    <2>4. QED  BY <2>2, <2>3
  <1>11. ASSUME NEW z \in Zone, ForeignCreate(z) \/ ForeignDelete(z)
         PROVE  KeepInv'
    <2>1. UNCHANGED <<want, seen, plan, calls, bulk>>
      BY <1>11 DEF ForeignCreate, ForeignDelete, Disturb, request
    <2>2. QED  BY <1>1, <1>11, <2>1, KeepUnchanged, OthersKeep DEF KeepInv
  <1>12. CASE ChangeWant
    <2>1. UNCHANGED <<dns, seen, plan, calls, bulk>> /\ want' \in Wishes
      BY <1>12 DEF ChangeWant, Disturb, request
    <2>2. QED  BY <2>1, KeepUnchanged DEF KeepInv
  <1>13. CASE UNCHANGED vars
    <2>1. UNCHANGED <<dns, seen, plan, calls, bulk, want>>
      BY <1>13 DEF vars
    <2>2. QED  BY <1>1, <2>1, KeepUnchanged DEF KeepInv
  <1>14. QED
    BY <1>2, <1>3, <1>4, <1>5, <1>7, <1>8, <1>9, <1>10, <1>11, <1>12, <1>13
    DEF Next, Cycle, Outside

-----------------------------------------------------------------------------
(* What the invariant looks at.                                            *)

\* What depends on the wishes and on the mode only.
SameAsked(id) ==
  /\ WishesFor(id)' = WishesFor(id)
  /\ TakesApex(id)' <=> TakesApex(id)
  /\ \A ep : Unsayable(ep)' <=> Unsayable(ep)

LEMMA WishesStay ==
  ASSUME UNCHANGED <<want, bulk>>, NEW id
  PROVE  SameAsked(id)
  <1>1. WishesFor(id)' = WishesFor(id)
    BY DEF WishesFor
  <1>2. TakesApex(id)' <=> TakesApex(id)
    BY DEF TakesApex, RepeatsZone
  <1>3. ASSUME NEW ep
        PROVE  Unsayable(ep)' <=> Unsayable(ep)
    BY DEF Unsayable
  <1>4. QED  BY <1>1, <1>2, <1>3 DEF SameAsked

LEMMA GrantsStay ==
  ASSUME UNCHANGED <<want, bulk>>, NEW c, NEW ep
  PROVE  (Grants(c, ep)' <=> Grants(c, ep)) /\ CallId(c)' = CallId(c)
  <1>1. Unsayable(ep)' <=> Unsayable(ep)
    BY DEF Unsayable
  <1>2. Written(c)' = Written(c)
    BY DEF Written
  <1>3. \A rr : Means(c.zone, rr, ep)' <=> Means(c.zone, rr, ep)
    BY DEF Means
  <1>4. Means(c.zone, Written(c), ep)' <=> Means(c.zone, Written(c), ep)
    BY <1>2 DEF Means
  <1>5. Means(c.zone, c.rrset, ep)' <=> Means(c.zone, c.rrset, ep)
    BY DEF Means
  <1>6. Grants(c, ep)' <=> Grants(c, ep)
    BY <1>1, <1>4, <1>5 DEF Grants
  <1>7. QED  BY <1>6 DEF CallId, RRName

\* What depends on the recordsets of an id as well.
SameLook(id) ==
  /\ Plain(id)' <=> Plain(id)
  /\ Fulfilled(id)' <=> Fulfilled(id)
  /\ Leftover(id)' <=> Leftover(id)

LEMMA FulfilledStays ==
  ASSUME UNCHANGED <<want, bulk>>, NEW id,
         Bearers(FindZone(Zone, id[1]), id)' = Bearers(FindZone(Zone, id[1]), id)
  PROVE  (Fulfilled(id)' <=> Fulfilled(id)) /\ (Leftover(id)' <=> Leftover(id))
  <1> DEFINE z == FindZone(Zone, id[1])
             B == Bearers(z, id)
  <1>1. B' = B /\ WishesFor(id)' = WishesFor(id)
    BY WishesStay DEF SameAsked
  <1>2. \A rr, ep : Means(z, rr, ep)' <=> Means(z, rr, ep)
    BY DEF Means
  <1>3. Fulfilled(id) <=> IF WishesFor(id) = {} THEN B = {}
                          ELSE \E ep \in WishesFor(id), rr \in B : B = {rr} /\ Means(z, rr, ep)
    BY DEF Fulfilled
  <1>4. Fulfilled(id)' <=> IF WishesFor(id)' = {} THEN B' = {}
                          ELSE \E ep \in WishesFor(id)', rr \in B' : B' = {rr} /\ Means(z, rr, ep)'
    BY DEF Fulfilled
  <1>5. Leftover(id)' <=> Leftover(id)
    BY <1>1 DEF Leftover, Matches
  <1> HIDE DEF z, B
  <1>6. QED  BY <1>1, <1>2, <1>3, <1>4, <1>5

LEMMA PlainStays ==
  ASSUME UNCHANGED <<want, bulk>>, NEW id,
         \A z \in Managed \ {FindZone(Zone, id[1])} : Bearers(z, id)' = {} <=> Bearers(z, id) = {}
  PROVE  Plain(id)' <=> Plain(id)
  <1>1. Shadowed(id)' <=> Shadowed(id)
    BY DEF Shadowed
  <1>2. \A ep : Unsayable(ep)' <=> Unsayable(ep)
    BY WishesStay DEF SameAsked
  <1>3. TakesApex(id)' <=> TakesApex(id)
    BY WishesStay DEF SameAsked
  <1>4. QED  BY <1>1, <1>2, <1>3 DEF Plain, Matches, RepeatsZone, Managed

LEMMA WorldStays ==
  ASSUME UNCHANGED <<dns, want, bulk>>
  PROVE  /\ Blocked' <=> Blocked
         /\ \A id : SameLook(id)
         /\ \A z, id : Bearers(z, id)' = Bearers(z, id)
  <1>1. ASSUME NEW z, NEW id
        PROVE  Bearers(z, id)' = Bearers(z, id)
    BY DEF Bearers, RRName
  <1>2. Blocked' <=> Blocked
    BY <1>1 DEF Blocked, RepeatsZone
  <1>3. ASSUME NEW id
        PROVE  SameLook(id)
    <2>1. Bearers(FindZone(Zone, id[1]), id)' = Bearers(FindZone(Zone, id[1]), id)
      BY <1>1
    <2>2. \A z \in Managed \ {FindZone(Zone, id[1])} : Bearers(z, id)' = Bearers(z, id)
      BY <1>1
    <2>3. (Fulfilled(id)' <=> Fulfilled(id)) /\ (Leftover(id)' <=> Leftover(id))
      BY <2>1, FulfilledStays
    <2>4. Plain(id)' <=> Plain(id)
      BY <2>2, PlainStays
    <2>5. QED  BY <2>3, <2>4 DEF SameLook
  <1>4. QED  BY <1>1, <1>2, <1>3

-----------------------------------------------------------------------------
(* WishInv, step by step: what leaves the zones as they are.               *)

AsWished == \A id \in Owned : Plain(id) => Fulfilled(id)

LEMMA AsWishedStays ==
  ASSUME UNCHANGED <<dns, want, bulk>>
  PROVE  AsWished' <=> AsWished
  BY WorldStays DEF AsWished, SameLook

LEMMA WishByParts ==
  ASSUME WishInv, UNCHANGED <<dns, want, bulk>>,
         ~(bulk /\ Blocked) /\ quiet' => ReadInv' /\ PlanInv' /\ CallsInv',
         ~(bulk /\ Blocked) /\ settled' => (pc' # "idle" => quiet') /\ AsWished
  PROVE  WishInv'
  <1>1. Blocked' <=> Blocked
    BY WorldStays
  <1>2. ~(bulk /\ Blocked)' => ~(bulk /\ Blocked)
    BY <1>1
  <1>3. AsWished' <=> AsWished
    BY AsWishedStays
  <1>4. QED  BY <1>2, <1>3 DEF WishInv, AsWished

PlanPending == pc = "post" \/ (pc = "fetch" /\ purpose = "ApplyChanges")

\* What PlanInv says of the plan that is pending.
PlanSays(p) ==
  /\ \A ep \in p.create \cup p.update : \E w \in want : AdjustedFrom(ep, w)
  /\ \A ep \in p.create, other \in p.create : Id(ep) = Id(other) => ep = other
  /\ \A ep \in p.delete : WishesFor(Id(ep)) = {}
  /\ \A id \in Owned :
       /\ Leftover(id) => \E ep \in p.delete : Id(ep) = id
       /\ Plain(id) /\ WishesFor(id) # {} /\ ~Fulfilled(id) =>
            \E ep \in IF Bearers(FindZone(Zone, id[1]), id) = {} THEN p.create ELSE p.update : Id(ep) = id

LEMMA PlanSaysSo ==
  ASSUME UNCHANGED <<dns, want, bulk>>, PlanSays(plan')
  PROVE  PlanInv'
  <1>1. \A id : SameLook(id) /\ SameAsked(id)
    BY WorldStays, WishesStay
  <1>2. \A z, id : Bearers(z, id)' = Bearers(z, id)
    BY WorldStays
  <1>3. /\ \A ep \in plan'.create \cup plan'.update : \E w \in want' : AdjustedFrom(ep, w)
        /\ \A ep \in plan'.create, other \in plan'.create : Id(ep) = Id(other) => ep = other
    BY DEF PlanSays
  <1>4. \A ep \in plan'.delete : WishesFor(Id(ep))' = {}
    BY <1>1 DEF SameAsked, PlanSays
  <1>5. ASSUME NEW id \in Owned
        PROVE  /\ Leftover(id)' => \E ep \in plan'.delete : Id(ep) = id
               /\ Plain(id)' /\ WishesFor(id)' # {} /\ ~Fulfilled(id)' =>
                    \E ep \in IF Bearers(FindZone(Zone, id[1]), id)' = {} THEN plan'.create ELSE plan'.update :
                       Id(ep) = id
    BY <1>1, <1>2 DEF SameAsked, SameLook, PlanSays
  <1>6. QED  BY <1>3, <1>4, <1>5 DEF PlanInv

LEMMA PlanStays ==
  ASSUME PlanInv, PlanPending, UNCHANGED <<dns, want, bulk, plan>>
  PROVE  PlanInv'
  <1>1. PlanSays(plan)
    BY DEF PlanInv, PlanPending, PlanSays
  <1>2. PlanSays(plan')
    BY <1>1
  <1>3. QED  BY <1>2, PlanSaysSo

LEMMA FetchReads ==
  ASSUME NEW why, Fetch(why)
  PROVE  ReadInv' /\ CallsInv' /\ (why = "Records" => PlanInv')
  <1>1. /\ pc' = "fetch" /\ purpose' = why /\ unread' = Managed /\ page' = 1 /\ pageOf' = NoZone
        /\ seen' = Empty
    BY DEF Fetch, NothingListed
  <1>2. CallsInv' /\ (why = "Records" => PlanInv')
    BY <1>1 DEF CallsInv, PlanInv
  <1>3. ASSUME NEW z \in Zone
        PROVE  seen'[z] = <<>> /\ z # pageOf'
    BY <1>1, ZoneIsAName DEF Empty
  <1>4. QED  BY <1>1, <1>2, <1>3 DEF ReadInv

LEMMA StartWished ==
  ASSUME WishInv, StartRecords \/ StartApply
  PROVE  WishInv'
  <1>1. UNCHANGED <<dns, want, bulk, plan, settled>> /\ pc' = "fetch"
    BY DEF StartRecords, StartApply, context, Fetch
  <1>2. CASE StartRecords
    <2>1. Fetch("Records") /\ quiet' = TRUE
      BY <1>2 DEF StartRecords
    <2>2. QED  BY <1>1, <2>1, FetchReads, WishByParts DEF WishInv, AsWished
  <1>3. CASE StartApply
    <2>1. Fetch("ApplyChanges") /\ UNCHANGED quiet /\ pc = "post"
      BY <1>3 DEF StartApply
    <2>2. ASSUME ~(bulk /\ Blocked), quiet'
          PROVE  ReadInv' /\ PlanInv' /\ CallsInv'
      <3>1. PlanInv
        BY <2>1, <2>2 DEF WishInv
      <3>2. PlanInv'
        BY <1>1, <2>1, <3>1, PlanStays DEF PlanPending
      <3>3. QED  BY <2>1, <3>2, FetchReads
    <2>3. ~(bulk /\ Blocked) /\ settled' => quiet' /\ AsWished
      BY <1>1, <2>1 DEF WishInv, AsWished
    <2>4. QED  BY <1>1, <2>2, <2>3, WishByParts
  <1>4. QED  BY <1>2, <1>3

LEMMA EndWished ==
  ASSUME WishInv, NEW ok \in BOOLEAN, EndCycle(ok), UNCHANGED <<dns, want, bulk>>,
         ~(bulk /\ Blocked) /\ ok /\ quiet => AsWished
  PROVE  WishInv'
  <1>1. pc' = "idle" /\ settled' = (settled \/ (ok /\ quiet)) /\ quiet' = FALSE
    BY DEF EndCycle
  <1>2. ~(bulk /\ Blocked) /\ settled' => AsWished
    BY <1>1 DEF WishInv, AsWished
  <1>3. QED  BY <1>1, <1>2, WishByParts

LEMMA DisturbWished ==
  ASSUME Disturb
  PROVE  WishInv'
  BY DEF Disturb, WishInv

LEMMA ReturnReadWished ==
  ASSUME WishInv, ReturnRecords
  PROVE  WishInv'
  <1>1. UNCHANGED <<dns, want, bulk, seen, settled, quiet>> /\ pc = "fetch" /\ pc' = "adjust" /\ unread = {}
    BY DEF ReturnRecords, Fetched, request, history, context
  <1>2. ReadInv => ReadInv'
    BY <1>1 DEF ReadInv
  <1>3. PlanInv' /\ CallsInv'
    BY <1>1 DEF PlanInv, CallsInv
  <1>4. QED  BY <1>1, <1>2, <1>3, WishByParts DEF WishInv, AsWished

LEMMA UntouchedWished ==
  ASSUME WishInv, UNCHANGED <<dns, want, bulk, pc, request, plan, history>>
  PROVE  WishInv'
  <1>1. UNCHANGED <<purpose, unread, page, pageOf, seen, calls, settled, quiet>>
    BY DEF request, history
  <1>2. ReadInv => ReadInv'
    BY <1>1 DEF ReadInv, Managed, Matches
  <1>3. PlanInv => PlanInv'
    <2>1. PlanPending' <=> PlanPending
      BY <1>1 DEF PlanPending
    <2>2. CASE PlanPending
      BY <2>2, PlanStays
    <2>3. CASE ~PlanPending
      BY <2>1, <2>3 DEF PlanInv, PlanPending
    <2>4. QED  BY <2>2, <2>3
  <1>4. CallsInv => CallsInv'
    <2>1. CASE pc = "apply"
      <3>1. \A id : SameLook(id) /\ SameAsked(id)
        BY WorldStays, WishesStay
      <3>2. \A z, id : Bearers(z, id)' = Bearers(z, id)
        BY WorldStays
      <3>3. \A c, ep : (Grants(c, ep)' <=> Grants(c, ep)) /\ CallId(c)' = CallId(c)
        BY GrantsStay
      <3>4. QED
        BY <1>1, <2>1, <3>1, <3>2, <3>3 DEF CallsInv, SameLook, SameAsked
    <2>2. QED  BY <2>1 DEF CallsInv
  <1>5. QED  BY <1>1, <1>2, <1>3, <1>4, WishByParts DEF WishInv, AsWished

-----------------------------------------------------------------------------
(* WishInv, step by step: reading.                                         *)

LEMMA EndPageMeans ==
  ASSUME NEW s \in Seq(RRSet), NEW p \in Nat \ {0}
  PROVE  isEndPage(LastPage(s), p) <=> Len(s) <= p * BatchSize
  <1>1. BatchSize \in Nat \ {0} /\ p * BatchSize \in Nat /\ Len(s) \in Nat
    BY JourneyAssumption
  <1>2. p * BatchSize >= BatchSize
    BY <1>1
  <1>3. CASE s = <<>>
    <2>1. Len(s) = 0 /\ LastPage(s) = 1
      BY <1>3 DEF LastPage
    <2>2. QED  BY <1>1, <2>1 DEF isEndPage
  <1>4. CASE s # <<>>
    <2>1. LastPage(s) = (Len(s) + BatchSize - 1) \div BatchSize
      BY <1>4 DEF LastPage
    <2>2. (Len(s) + BatchSize - 1) \div BatchSize <= p <=> Len(s) <= p * BatchSize
      BY <1>1
    <2>3. QED  BY <2>1, <2>2 DEF isEndPage
  <1>5. QED  BY <1>3, <1>4

\* A page is appended to what was read before it.
LEMMA PageFollows ==
  ASSUME NEW s \in Seq(RRSet), NEW p \in Nat \ {0}, (p - 1) * BatchSize <= Len(s)
  PROVE  SubSeq(s, 1, (p - 1) * BatchSize) \o PageRows(s, p) =
           IF isEndPage(LastPage(s), p) THEN s ELSE SubSeq(s, 1, p * BatchSize)
  <1> DEFINE last == p * BatchSize
             k    == (p - 1) * BatchSize
             n    == IF last < Len(s) THEN last ELSE Len(s)
  <1>1. BatchSize \in Nat \ {0} /\ last \in Nat /\ Len(s) \in Nat /\ k = last - BatchSize /\ k \in Nat
    BY JourneyAssumption
  <1>2. PageRows(s, p) = SubSeq(s, last - BatchSize + 1, n)
    BY DEF PageRows
  <1>3. isEndPage(LastPage(s), p) <=> Len(s) <= last
    BY EndPageMeans
  <1>4. k <= Len(s)
    OBVIOUS
  <1> HIDE DEF last, k
  <1>5. last - BatchSize + 1 = k + 1 /\ 1 \in 1..Len(s) + 1 /\ k \in 1-1..Len(s) /\ n \in k..Len(s)
    BY <1>1, <1>4
  <1> HIDE DEF n
  <1>6. SubSeq(s, 1, k) \o SubSeq(s, k + 1, n) = SubSeq(s, 1, n)
    BY <1>5, ConcatAdjacentSubSeq
  <1>7. SubSeq(s, 1, k) \o PageRows(s, p) = SubSeq(s, 1, n)
    BY <1>2, <1>5, <1>6
  <1>8. n = IF isEndPage(LastPage(s), p) THEN Len(s) ELSE last
    BY <1>1, <1>3 DEF n
  <1>9. SubSeq(s, 1, Len(s)) = s
    OBVIOUS
  <1>10. QED  BY <1>7, <1>8, <1>9 DEF k, last

LEMMA PageRead ==
  ASSUME Typed, Fetching, FetchPage, ReadInv
  PROVE  ReadInv'
  <1>1. /\ pc = "fetch" /\ pc' = "fetch" /\ UNCHANGED dns
    BY DEF FetchPage
  <1>2. PICK z \in IF pageOf = NoZone THEN unread ELSE {pageOf} :
          /\ seen' = [seen EXCEPT ![z] = @ \o PageRows(dns[z], page)]
          /\ IF isEndPage(LastPage(dns[z]), page)
             THEN unread' = unread \ {z} /\ page' = 1 /\ pageOf' = NoZone
             ELSE unread' = unread /\ page' = page + 1 /\ pageOf' = z
    BY DEF FetchPage
  <1>3. /\ unread \subseteq Managed /\ (page = 1 <=> pageOf = NoZone)
        /\ (pageOf # NoZone => pageOf \in unread)
    BY <1>1 DEF Fetching, ListingInv
  <1>4. /\ z \in unread /\ z \in Managed /\ z \in Zone /\ z # NoZone /\ pageOf \in {NoZone, z}
    BY <1>2, <1>3, ZoneIsAName DEF Managed
  <1>5. /\ dns \in [Zone -> Seq(RRSet)] /\ seen \in [Zone -> Seq(RRSet)] /\ page \in Nat \ {0}
    BY DEF Typed, TypeOK
  <1> DEFINE s == dns[z]
             k == (page - 1) * BatchSize
             rows == PageRows(s, page)
  <1>6. BatchSize \in Nat \ {0} /\ s \in Seq(RRSet) /\ Len(s) \in Nat /\ k \in Nat
        /\ (page = 1 => k = 0) /\ ((page + 1) - 1) * BatchSize = page * BatchSize
        /\ (1 - 1) * BatchSize = 0 /\ page * BatchSize \in Nat
    BY <1>4, <1>5, JourneyAssumption
  <1>7. seen[z] = SubSeq(s, 1, k) /\ k <= Len(s)
    <2>1. CASE pageOf = z
      <3>1. seen[z] = SubSeq(s, 1, k) /\ k < Len(s)
        BY <1>1, <1>4, <2>1, Zenon DEF ReadInv
      <3> HIDE DEF k, s
      <3>2. QED  BY <1>6, <3>1
    <2>2. CASE pageOf = NoZone
      <3>1. seen[z] = <<>> /\ k = 0
        BY <1>1, <1>3, <1>4, <1>6, <2>2 DEF ReadInv
      <3>2. SubSeq(s, 1, 0) = <<>>
        BY <1>6
      <3>3. QED  BY <1>6, <3>1, <3>2
    <2>3. QED  BY <1>4, <2>1, <2>2
  <1>8. SubSeq(s, 1, k) \o rows =
          IF isEndPage(LastPage(s), page) THEN s ELSE SubSeq(s, 1, page * BatchSize)
    BY <1>5, <1>6, <1>7, PageFollows
  <1>9. isEndPage(LastPage(s), page) <=> Len(s) <= page * BatchSize
    BY <1>5, <1>6, EndPageMeans
  <1>10. /\ seen'[z] = SubSeq(s, 1, k) \o rows
         /\ \A y \in Zone \ {z} : seen'[y] = seen[y]
    BY <1>2, <1>4, <1>5, <1>7
  <1> HIDE DEF rows, k
  <1>11. ASSUME NEW y \in Zone, y # z
         PROVE  /\ y # pageOf' /\ y # pageOf /\ (y \in unread' <=> y \in unread)
                /\ seen'[y] = IF y \notin Managed THEN <<>> ELSE IF y \notin unread THEN dns[y] ELSE <<>>
    <2>1. y # NoZone
      BY ZoneIsAName
    <2>2. y # pageOf' /\ y # pageOf /\ (y \in unread' <=> y \in unread)
      BY <1>2, <1>4, <1>11, <2>1
    <2>3. seen[y] = IF y \notin Managed THEN <<>> ELSE IF y \notin unread THEN dns[y] ELSE <<>>
      BY <1>1, <2>2 DEF ReadInv
    <2>4. QED  BY <1>10, <1>11, <2>2, <2>3
  <1>12. CASE isEndPage(LastPage(s), page)
    <2>1. seen'[z] = s /\ z \notin unread' /\ z # pageOf'
      BY <1>2, <1>4, <1>8, <1>10, <1>12
    <2>2. QED  BY <1>1, <1>4, <1>11, <2>1 DEF ReadInv, Managed, Matches, GetDomainFilter
  <1>13. CASE ~isEndPage(LastPage(s), page)
    <2>1. seen'[z] = SubSeq(s, 1, page * BatchSize) /\ z \in unread' /\ z = pageOf' /\ page' = page + 1
      BY <1>2, <1>4, <1>8, <1>10, <1>13
    <2>2. page * BatchSize < Len(s)
      BY <1>6, <1>9, <1>13
    <2>3. (page' - 1) * BatchSize = page * BatchSize
      BY <1>6, <2>1
    <2>4. QED  BY <1>1, <1>4, <1>11, <2>1, <2>2, <2>3 DEF ReadInv, Managed, Matches, GetDomainFilter
  <1>14. QED  BY <1>12, <1>13

LEMMA FetchPageWished ==
  ASSUME Typed, Fetching, WishInv, FetchPage
  PROVE  WishInv'
  <1>1. UNCHANGED <<dns, want, bulk, plan, pc, purpose, settled, quiet>> /\ pc = "fetch"
    BY DEF FetchPage, context
  <1>2. CallsInv'
    BY <1>1 DEF CallsInv
  <1>3. PlanInv => PlanInv'
    <2>1. CASE PlanPending
      BY <1>1, <2>1, PlanStays
    <2>2. CASE ~PlanPending
      BY <1>1, <2>2 DEF PlanInv, PlanPending
    <2>3. QED  BY <2>1, <2>2
  <1>4. QED  BY <1>1, <1>2, <1>3, PageRead, WishByParts DEF WishInv, AsWished

-----------------------------------------------------------------------------
(* WishInv, step by step: planning.                                        *)

\* What Records makes of a value, and what the value stands for.
LEMMA ShownTarget ==
  ASSUME NEW zone \in Zone, NEW type \in RecordType, NEW v \in Text, type = "MX" => v.prio \in Numeric,
         NEW t, t = IF type = "CNAME" \/ (type = "MX" /\ v.prio # NoPriority)
                    THEN fromHetznerHostname(zone, v) ELSE v
  PROVE  [prio |-> t.prio, name |-> Canonical(t.name)] = Heard(zone, type, v)
  <1>1. /\ v.name \in Seq(Part \cup {At}) /\ v.prio \in Priority \cup {NoPriority} /\ v.dot \in BOOLEAN
        /\ zone \in Seq(Part \cup {At}) /\ v.name \o zone \in Seq(Part \cup {At})
    <2>1. v.name \in Seq(Part \cup {At}) /\ v.prio \in Priority \cup {NoPriority} /\ v.dot \in BOOLEAN
      BY TextParts
    <2>2. zone \in Seq(Part \cup {At})
      BY ZoneIsAName
    <2>3. QED  BY <2>1, <2>2
  <1>2. t.prio = v.prio /\ t.name = Absolute(zone, type, v).name
    <2>1. CASE type = "A"
      <3>1. t = v
        BY <2>1
      <3>2. Absolute(zone, type, v).name = v.name
        BY <2>1 DEF Absolute
      <3>3. QED  BY <3>1, <3>2
    <2>2. CASE type # "A"
      <3>1. t = fromHetznerHostname(zone, v)
        BY <2>2, NamesAssumption DEF RecordType
      <3>2. Absolute(zone, type, v).name =
              IF v.dot THEN v.name ELSE IF v.name = <<At>> THEN zone ELSE v.name \o zone
        BY <2>2 DEF Absolute
      <3>3. CASE v.name = <<At>> /\ ~v.dot
        <4>1. t = [v EXCEPT !.name = zone]
          BY <3>1, <3>3, Zenon DEF fromHetznerHostname
        <4>2. t = [prio |-> v.prio, name |-> zone, dot |-> v.dot]
          BY <1>1, <4>1, NameExcept
        <4>3. QED  BY <3>2, <3>3, <4>2
      <3>4. CASE v.dot
        <4>1. t = [v EXCEPT !.dot = FALSE]
          BY <3>1, <3>4, Zenon DEF fromHetznerHostname
        <4>2. t = [prio |-> v.prio, name |-> v.name, dot |-> FALSE]
          BY <4>1, Undotted
        <4>3. QED  BY <3>2, <3>4, <4>2
      <3>5. CASE v.name # <<At>> /\ ~v.dot
        <4>1. t = [v EXCEPT !.name = @ \o zone]
          BY <3>1, <3>5, Zenon DEF fromHetznerHostname
        <4>2. t = [v EXCEPT !.name = v.name \o zone]
          BY <4>1, Zenon
        <4>3. t = [prio |-> v.prio, name |-> v.name \o zone, dot |-> v.dot]
          BY <1>1, <4>2, NameExcept
        <4>4. t.prio = v.prio /\ t.name = v.name \o zone
          BY <4>3
        <4>5. Absolute(zone, type, v).name = v.name \o zone
          BY <3>2, <3>5, Zenon
        <4>6. QED  BY <4>4, <4>5
      <3>6. QED  BY <3>3, <3>4, <3>5
    <2>3. QED  BY <2>1, <2>2
  <1>3. QED  BY <1>2 DEF Heard

LEMMA ShownTells ==
  ASSUME NEW zone \in Zone, NEW rr \in RRSet, Decent(rr), NEW s, s = createEndpointFromRecord(zone, rr)
  PROVE  Asked(s) = Said(zone, rr)
  <1> DEFINE read == extractEndpointTargets(zone, rr.type, rr.records)
  <1>1. rr.type \in RecordType /\ rr.records \in Seq(Text) /\ WellFormed(rr)
    BY RRSetFields DEF Decent
  <1>2. s.targets = read
    BY DEF createEndpointFromRecord
  <1>3. ASSUME NEW i \in DOMAIN rr.records
        PROVE  /\ rr.records[i] \in Text /\ rr.records[i] \in ToSet(rr.records)
               /\ i \in DOMAIN read /\ read[i] \in ToSet(read)
               /\ [prio |-> read[i].prio, name |-> Canonical(read[i].name)] = Heard(zone, rr.type, rr.records[i])
    <2> DEFINE v == rr.records[i]
    <2>1. v \in Text /\ v \in ToSet(rr.records)
      BY <1>1 DEF ToSet
    <2>2. i \in DOMAIN read
          /\ read[i] = IF rr.type = "CNAME" \/ (rr.type = "MX" /\ v.prio # NoPriority)
                       THEN fromHetznerHostname(zone, v) ELSE v
      BY DEF extractEndpointTargets
    <2>3. rr.type = "MX" => v.prio \in Numeric
      BY <1>1, <2>1 DEF WellFormed, CanParse
    <2> HIDE DEF read, v
    <2>4. [prio |-> read[i].prio, name |-> Canonical(read[i].name)] = Heard(zone, rr.type, v)
      BY <1>1, <2>1, <2>2, <2>3, ShownTarget
    <2>5. read[i] \in ToSet(read)
      BY <2>2 DEF ToSet
    <2>6. QED  BY <2>1, <2>2, <2>4, <2>5 DEF v
  <1>4. DOMAIN read = DOMAIN rr.records
    BY DEF extractEndpointTargets
  <1> HIDE DEF read
  <1> DEFINE ask(t)  == [prio |-> t.prio, name |-> Canonical(t.name)]
             hear(v) == Heard(zone, rr.type, v)
  <1>5. Asked(s) = {ask(t) : t \in ToSet(read)}
    BY <1>2 DEF Asked
  <1>6. Said(zone, rr) = {hear(v) : v \in ToSet(rr.records)}
    BY SaidIsHeard
  <1>7. \A t \in ToSet(read) : \E i \in DOMAIN rr.records : t = read[i]
    BY <1>4 DEF ToSet
  <1>8. \A v \in ToSet(rr.records) : \E i \in DOMAIN rr.records : v = rr.records[i]
    BY DEF ToSet
  <1>9. \A i \in DOMAIN rr.records : /\ rr.records[i] \in ToSet(rr.records) /\ read[i] \in ToSet(read)
                                     /\ ask(read[i]) = hear(rr.records[i])
    BY <1>3
  <1> HIDE DEF ask, hear
  <1>10. QED  BY <1>5, <1>6, <1>7, <1>8, <1>9

\* The priorities that are shown are numbers.
LEMMA ShownNumbered ==
  ASSUME NEW zone \in Zone, NEW rr \in RRSet, Decent(rr), rr.type = "MX",
         NEW s, s = createEndpointFromRecord(zone, rr), NEW t \in ToSet(s.targets)
  PROVE  t.prio \in Numeric
  <1> DEFINE read == extractEndpointTargets(zone, rr.type, rr.records)
  <1>1. rr.records \in Seq(Text) /\ WellFormed(rr)
    BY RRSetFields DEF Decent
  <1>2. s.targets = read /\ DOMAIN read = DOMAIN rr.records
    BY DEF createEndpointFromRecord, extractEndpointTargets
  <1>3. PICK i \in DOMAIN rr.records : t = read[i]
    BY <1>2 DEF ToSet
  <1> DEFINE v == rr.records[i]
  <1>4. v \in Text /\ v \in ToSet(rr.records)
    BY <1>1 DEF ToSet
  <1>5. t = IF v.prio # NoPriority THEN fromHetznerHostname(zone, v) ELSE v
    BY <1>3 DEF extractEndpointTargets
  <1>6. v.prio \in Numeric
    BY <1>1, <1>4 DEF WellFormed, CanParse
  <1> HIDE DEF v
  <1>7. t.prio = v.prio
    BY <1>4, <1>5 DEF fromHetznerHostname, Text
  <1>8. QED  BY <1>6, <1>7

\* An endpoint that does not differ from what is shown is granted.
LEMMA SameIsMeant ==
  ASSUME WishesOrderly, NEW zone \in Zone, NEW rr \in RRSet, Decent(rr),
         NEW s, s = createEndpointFromRecord(zone, rr),
         NEW w \in UNION Wishes, NEW ep, ComesFrom(ep, w), ep.type = rr.type, ~Differs(ep, s)
  PROVE  Means(zone, rr, w)
  <1>1. ToSet(ep.targets) = ToSet(s.targets) /\ ep.keys = s.keys
    BY DEF Differs
  <1>2. Asked(ep) = Asked(s)
    BY <1>1 DEF Asked
  <1>3. w.targets \in Seq(Text) /\ w.keys = ep.keys
    BY JourneyAssumption, EndpointFields DEF ComesFrom
  <1>9. Numbered(ep)
    <2>1. \A i \in DOMAIN ep.targets : ep.targets[i] \in ToSet(s.targets)
      BY <1>1 DEF ToSet
    <2>2. QED  BY <2>1, ShownNumbered DEF Numbered
  <1>4. Asked(ep) = Asked(w)
    BY <1>3, <1>9, AsksTheSame
  <1>5. Asked(s) = Said(zone, rr)
    BY ShownTells
  <1>6. s.keys = getProviderSpecific(rr.labels)
    BY DEF createEndpointFromRecord
  <1>7. extractHetznerLabels(getProviderSpecific(rr.labels)) \in {rr.labels, BadLabels}
    BY RRSetFields, LabelsOrBad DEF Decent
  <1>8. QED  BY <1>1, <1>2, <1>3, <1>4, <1>5, <1>6, <1>7 DEF Means

\* A zone that Hetzner takes has one recordset for an id, or none.
LEMMA BearerIsOne ==
  ASSUME TypeOK, NEW z \in Zone, Valid(dns[z]), NEW id, NEW rr \in Bearers(z, id)
  PROVE  Bearers(z, id) = {rr}
  <1>1. ValidSet(ToSet(dns[z])) /\ ToSet(dns[z]) \in SUBSET RRSet
    BY ValidApart, ToSetFinite DEF TypeOK
  <1>2. ASSUME NEW a \in Bearers(z, id)
        PROVE  a = rr
    <2>1. /\ a \in ToSet(dns[z]) /\ rr \in ToSet(dns[z])
          /\ RRName(z, a) = RRName(z, rr) /\ a.type = rr.type
      BY <1>2 DEF Bearers
    <2>2. a.name = rr.name
      BY <1>1, <2>1, NamesDiffer
    <2>3. QED  BY <1>1, <2>1, <2>2, ValidIsOne
  <1>3. QED  BY <1>2

LEMMA ShownFrom ==
  ASSUME TypeOK, ReadInv, pc = "adjust"
  PROVE  /\ \A z \in Managed : \A rr \in ToSet(dns[z]) :
              /\ createEndpointFromRecord(z, rr) \in Shown
              /\ Id(createEndpointFromRecord(z, rr)) = <<RRName(z, rr), rr.type>>
         /\ \A s \in Shown : \E z \in Managed : \E rr \in ToSet(dns[z]) :
              s = createEndpointFromRecord(z, rr) /\ Id(s) = <<RRName(z, rr), rr.type>>
  <1>1. ASSUME NEW z, NEW rr
        PROVE  Id(createEndpointFromRecord(z, rr)) = <<RRName(z, rr), rr.type>>
    BY DEF Id, createEndpointFromRecord, RRName, EndpointName
  <1>2. \A z \in Managed : z \in Zone /\ seen[z] = dns[z]
    BY DEF ReadInv, Managed
  <1>3. \A z \in Zone : z \notin Managed => ToSet(seen[z]) = {}
    BY DEF ReadInv, ToSet
  <1>4. ASSUME NEW z \in Managed, NEW rr \in ToSet(dns[z])
        PROVE  createEndpointFromRecord(z, rr) \in Shown
    BY <1>2 DEF Shown
  <1>5. ASSUME NEW s \in Shown
        PROVE  \E z \in Managed : \E rr \in ToSet(dns[z]) : s = createEndpointFromRecord(z, rr)
    <2>1. PICK z \in Zone : s \in {createEndpointFromRecord(z, rr) : rr \in ToSet(seen[z])}
      BY DEF Shown
    <2>2. PICK rr \in ToSet(seen[z]) : s = createEndpointFromRecord(z, rr)
      BY <2>1
    <2>3. z \in Managed /\ rr \in ToSet(dns[z])
      BY <1>2, <1>3, <2>2
    <2>4. QED  BY <2>2, <2>3
  <1>6. QED  BY <1>1, <1>4, <1>5

LEMMA OneWishEach ==
  ASSUME WishesOrderly, want \in Wishes, NEW a \in want, NEW b \in want, Id(a) = Id(b)
  PROVE  a = b
  BY DEF WishesOrderly, Id

LEMMA AdjustedId ==
  ASSUME NEW w
  PROVE  Id(AdjustEndpoint(w)) = Id(w)
  BY DEF AdjustEndpoint, adjustEndpointTargets, Id

\* What is planned is what is not as wished.
LEMMA PlanIsDue ==
  ASSUME WishesOrderly, Typed, KeepInv, ReadInv, pc = "adjust", CanAdjust,
         NEW shown \in OneOfEach(Shown),
         NEW wanted, wanted = {AdjustEndpoint(ep) : ep \in want},
         NEW p, p = PlanFor(wanted, shown)
  PROVE  PlanSays(p)
  <1>1. want \in Wishes /\ TypeOK
    BY DEF KeepInv, Typed
  <1>2. shown \subseteq Shown /\ \A ep \in Shown : \E s \in shown : Id(s) = Id(ep)
    BY DEF OneOfEach
  <1>3. /\ p.create = {ep \in wanted : /\ Id(ep) \in Owned /\ Matches(ep.name)
                                       /\ \A s \in shown : Id(s) # Id(ep)}
        /\ p.update = {ep \in wanted : /\ Id(ep) \in Owned /\ Matches(ep.name)
                                       /\ \E s \in shown : Id(s) = Id(ep) /\ Differs(ep, s)}
        /\ p.delete = {s \in shown : /\ Id(s) \in Owned /\ Matches(s.name)
                                     /\ \A ep \in wanted : Id(ep) # Id(s)}
    BY DEF PlanFor
  <1>4. \A ep \in wanted : \E w \in want : ep = AdjustEndpoint(w) /\ AdjustedFrom(ep, w) /\ Id(ep) = Id(w)
    BY AdjustedFromWish, AdjustedId
  <1>5. \A w \in want : AdjustEndpoint(w) \in wanted /\ Id(AdjustEndpoint(w)) = Id(w)
    BY AdjustedId
  <1>6. \A e : Id(e)[1] = e.name
    BY DEF Id
  <1>7. \A ep \in p.create \cup p.update : \E w \in want : AdjustedFrom(ep, w)
    BY <1>3, <1>4
  <1>8. ASSUME NEW ep \in p.create, NEW other \in p.create, Id(ep) = Id(other)
        PROVE  ep = other
    <2>1. ep \in wanted /\ other \in wanted
      BY <1>3
    <2>2. PICK v \in want : ep = AdjustEndpoint(v) /\ Id(ep) = Id(v)
      BY <1>4, <2>1
    <2>3. PICK w \in want : other = AdjustEndpoint(w) /\ Id(other) = Id(w)
      BY <1>4, <2>1
    <2>4. v = w
      BY <1>1, <1>8, <2>2, <2>3, OneWishEach
    <2>5. QED  BY <2>2, <2>3, <2>4
  <1>9. ASSUME NEW ep \in p.delete
        PROVE  WishesFor(Id(ep)) = {}
    BY <1>3, <1>5 DEF WishesFor
  <1>10. ASSUME NEW id \in Owned, Leftover(id)
         PROVE  \E ep \in p.delete : Id(ep) = id
    <2> DEFINE z == FindZone(Zone, id[1])
    <2>1. z \in Managed /\ Matches(id[1]) /\ WishesFor(id) = {}
      BY <1>10 DEF Leftover
    <2>2. PICK rr \in ToSet(dns[z]) : <<RRName(z, rr), rr.type>> = id
      BY <1>10 DEF Leftover, Bearers
    <2>3. \E s \in Shown : Id(s) = id
      BY <1>1, <2>1, <2>2, ShownFrom
    <2>4. PICK s \in shown : Id(s) = id
      BY <1>2, <2>3
    <2>5. \A ep \in wanted : Id(ep) # id
      BY <1>4, <2>1 DEF WishesFor
    <2>6. s \in p.delete
      BY <1>3, <1>6, <2>1, <2>4, <2>5
    <2>7. QED  BY <2>4, <2>6
  <1>11. ASSUME NEW id \in Owned, Plain(id), WishesFor(id) # {}, ~Fulfilled(id)
         PROVE  \E ep \in IF Bearers(FindZone(Zone, id[1]), id) = {} THEN p.create ELSE p.update : Id(ep) = id
    <2> DEFINE z == FindZone(Zone, id[1])
               B == Bearers(z, id)
    <2>1. z \in Managed /\ z \in Zone /\ Matches(id[1]) /\ ~Shadowed(id)
      BY <1>11 DEF Plain, Managed
    <2>2. PICK w \in want : Id(w) = id
      BY <1>11 DEF WishesFor
    <2> DEFINE ep == AdjustEndpoint(w)
    <2>3. ep \in wanted /\ Id(ep) = id /\ AdjustedFrom(ep, w) /\ ep.name = id[1]
      BY <1>5, <1>6, <2>2, AdjustedFromWish
    <2> HIDE DEF ep
    <2>4. ASSUME NEW s \in shown, Id(s) = id
          PROVE  \E rr \in B : s = createEndpointFromRecord(z, rr)
      <3>1. PICK y \in Managed : \E rr \in ToSet(dns[y]) :
              s = createEndpointFromRecord(y, rr) /\ Id(s) = <<RRName(y, rr), rr.type>>
        BY <1>1, <1>2, ShownFrom
      <3>2. PICK rr \in ToSet(dns[y]) :
              s = createEndpointFromRecord(y, rr) /\ Id(s) = <<RRName(y, rr), rr.type>>
        BY <3>1
      <3>3. rr \in Bearers(y, id)
        BY <2>4, <3>2 DEF Bearers
      <3>4. y = z
        BY <2>1, <3>3 DEF Shadowed
      <3>5. QED  BY <3>2, <3>3, <3>4
    <2>5. CASE B = {}
      <3>1. ep \in p.create
        BY <1>3, <2>1, <2>3, <2>4, <2>5
      <3>2. QED  BY <2>3, <2>5, <3>1
    <2>6. CASE B # {}
      <3>1. PICK rr \in B : TRUE
        BY <2>6
      <3>2. rr \in ToSet(dns[z]) /\ <<RRName(z, rr), rr.type>> = id
        BY <3>1 DEF Bearers
      <3>3. \E s \in Shown : Id(s) = id
        BY <1>1, <2>1, <3>2, ShownFrom
      <3>4. PICK s \in shown : Id(s) = id
        BY <1>2, <3>3
      <3>5. PICK r \in B : s = createEndpointFromRecord(z, r)
        BY <2>4, <3>4
      <3>6. B = {r}
        BY <1>1, <2>1, <3>5, BearerIsOne DEF KeepInv, ZonesDecent
      <3>7. r \in RRSet /\ Decent(r)
        <4>1. r \in ToSet(dns[z])
          BY <3>5 DEF Bearers
        <4>2. QED  BY <1>1, <2>1, <4>1, ToSetFinite DEF TypeOK, KeepInv, ZonesDecent
      <3>8. Differs(ep, s)
        <4>1. SUFFICES ASSUME ~Differs(ep, s)
                       PROVE  FALSE
          OBVIOUS
        <4>2. w \in UNION Wishes
          BY <1>1
        <4>3. ComesFrom(ep, w)
          BY <2>3, <4>2, AdjustedComesFrom
        <4>4. ep.type = r.type
          <5>1. ep.type = id[2]
            BY <2>3 DEF Id
          <5>2. <<RRName(z, r), r.type>> = id
            BY <3>5 DEF Bearers
          <5>3. QED  BY <5>1, <5>2
        <4>5. Means(z, r, w)
          BY <2>1, <3>5, <3>7, <4>1, <4>2, <4>3, <4>4, SameIsMeant
        <4>6. w \in WishesFor(id)
          BY <2>2 DEF WishesFor
        <4>7. Fulfilled(id)
          BY <3>5, <3>6, <4>5, <4>6 DEF Fulfilled
        <4>8. QED  BY <1>11, <4>7
      <3>9. ep \in p.update
        BY <1>3, <2>1, <2>3, <3>4, <3>8
      <3>10. QED  BY <2>3, <2>6, <3>9
    <2>7. QED  BY <2>5, <2>6
  <1>12. QED  BY <1>7, <1>8, <1>9, <1>10, <1>11 DEF PlanSays

LEMMA AdjustWished ==
  ASSUME WishesOrderly, Typed, KeepInv, WishInv, AdjustEndpoints
  PROVE  WishInv'
  <1>1. /\ UNCHANGED <<dns, want, bulk, settled, quiet>> /\ pc = "adjust" /\ pc' = "post" /\ CanAdjust
    BY DEF AdjustEndpoints, context
  <1>2. PICK shown \in OneOfEach(Shown) : plan' = PlanFor({AdjustEndpoint(ep) : ep \in want}, shown)
    BY DEF AdjustEndpoints
  <1>3. ReadInv' /\ CallsInv'
    BY <1>1 DEF ReadInv, CallsInv
  <1>4. ReadInv => PlanInv'
    <2>1. SUFFICES ASSUME ReadInv
                   PROVE  PlanSays(plan')
      BY <1>1, PlanSaysSo
    <2>2. QED  BY <1>1, <1>2, <2>1, PlanIsDue
  <1>5. QED  BY <1>1, <1>3, <1>4, WishByParts DEF WishInv, AsWished

\* A plain id that nobody wishes and that still has a recordset is left over.
LEMMA UnwishedIsLeft ==
  ASSUME NEW id, Plain(id), WishesFor(id) = {}, ~Fulfilled(id)
  PROVE  Leftover(id)
  BY DEF Plain, Fulfilled, Leftover

LEMMA NothingToDo ==
  ASSUME PlanInv, PlanPending, plan = NoPlan
  PROVE  AsWished
  <1>1. PlanSays(plan)
    BY DEF PlanInv, PlanPending, PlanSays
  <1>2. plan.create = {} /\ plan.update = {} /\ plan.delete = {}
    BY DEF NoPlan
  <1>3. ASSUME NEW id \in Owned, Plain(id), ~Fulfilled(id)
        PROVE  FALSE
    <2>1. CASE WishesFor(id) = {}
      BY <1>1, <1>2, <1>3, <2>1, UnwishedIsLeft DEF PlanSays
    <2>2. CASE WishesFor(id) # {}
      BY <1>1, <1>2, <1>3, <2>2 DEF PlanSays
    <2>3. QED  BY <2>1, <2>2
  <1>4. QED  BY <1>3 DEF AsWished

LEMMA ReturnWished ==
  ASSUME WishInv, ReturnUnchanged \/ ReturnApplied
  PROVE  WishInv'
  <1>1. EndCycle(TRUE) /\ UNCHANGED <<dns, want, bulk>> /\ TRUE \in BOOLEAN
    BY DEF ReturnUnchanged, ReturnApplied, context
  <1>2. ASSUME ~(bulk /\ Blocked), quiet
        PROVE  AsWished
    <2>1. CASE ReturnUnchanged
      <3>1. PlanPending /\ plan = NoPlan /\ PlanInv
        BY <1>2, <2>1 DEF ReturnUnchanged, PlanPending, WishInv
      <3>2. QED  BY <3>1, NothingToDo
    <2>2. CASE ReturnApplied
      <3>1. pc = "apply" /\ calls = {} /\ CallsInv
        BY <1>2, <2>2 DEF ReturnApplied, WishInv
      <3>2. QED  BY <3>1 DEF CallsInv, AsWished
    <2>3. QED  BY <2>1, <2>2
  <1>3. QED  BY <1>1, <1>2, EndWished

-----------------------------------------------------------------------------
(* WishInv, step by step: queueing.                                        *)

\* What CallsInv says of the calls that are queued.
CallsSay(cs) ==
  /\ \A c \in cs :
       IF c.op = "delete" THEN WishesFor(CallId(c)) = {} ELSE
       TakesApex(CallId(c)) \/ \E ep \in WishesFor(CallId(c)) : Grants(c, ep)
  /\ \A id \in Owned :
       /\ Plain(id) /\ (\A c \in cs : CallId(c) # id) => Fulfilled(id)
       /\ bulk /\ Leftover(id) => \E c \in cs : c.op = "delete" /\ CallId(c) = id
  /\ bulk => \A c \in cs : c.zone \in Managed =>
       /\ Matches(CallId(c)[1])
       /\ c.op = "create" <=> Bearers(c.zone, CallId(c)) = {}
       /\ c.op = "create" => \A d \in cs : d.op = "create" /\ CallId(d) = CallId(c) => d = c

LEMMA CallsSaySo ==
  ASSUME UNCHANGED <<dns, want, bulk>>, CallsSay(calls')
  PROVE  CallsInv'
  <1>1. \A id : SameLook(id) /\ SameAsked(id)
    BY WorldStays, WishesStay
  <1>2. \A z, id : Bearers(z, id)' = Bearers(z, id)
    BY WorldStays
  <1>3. \A c, ep : (Grants(c, ep)' <=> Grants(c, ep)) /\ CallId(c)' = CallId(c)
    BY GrantsStay
  <1>4. ASSUME NEW c \in calls'
        PROVE  IF c.op = "delete" THEN WishesFor(CallId(c))' = {} ELSE
               TakesApex(CallId(c))' \/ \E ep \in WishesFor(CallId(c))' : Grants(c, ep)'
    BY <1>1, <1>3 DEF CallsSay, SameAsked
  <1>5. ASSUME NEW id \in Owned
        PROVE  /\ Plain(id)' /\ (\A c \in calls' : CallId(c) # id) => Fulfilled(id)'
               /\ bulk' /\ Leftover(id)' => \E c \in calls' : c.op = "delete" /\ CallId(c) = id
    BY <1>1 DEF CallsSay, SameLook
  <1>6. bulk' => \A c \in calls' : c.zone \in Managed =>
          /\ Matches(CallId(c)[1])
          /\ c.op = "create" <=> Bearers(c.zone, CallId(c))' = {}
          /\ c.op = "create" => \A d \in calls' : d.op = "create" /\ CallId(d) = CallId(c) => d = c
    BY <1>2 DEF CallsSay
  <1>7. QED  BY <1>3, <1>4, <1>5, <1>6 DEF CallsInv

LEMMA MatchesAreBearers ==
  ASSUME OwnedInUnicode, TypeOK, ReadInv, pc = "fetch", unread = {}, mapper = Zone,
         NEW ep \in Endpoint, Id(ep) \in Owned, ZoneOf(ep) \in Managed
  PROVE  /\ Matching(ep) = {} <=> Bearers(ZoneOf(ep), Id(ep)) = {}
         /\ seen[ZoneOf(ep)] = dns[ZoneOf(ep)]
  <1> DEFINE z == ZoneOf(ep)
  <1>1. z \in Zone /\ z # NoZone /\ seen[z] = dns[z]
    BY ZoneIsAName DEF ReadInv, Managed
  <1>2. ep.name \in Name /\ (ep.name = z \/ Below(ep.name, z)) /\ Id(ep) = <<ep.name, ep.type>>
    BY <1>1, EndpointZone, EndpointFields DEF Id
  <1>3. Matching(ep) = {i \in DOMAIN seen[z] : /\ seen[z][i].name = MatchingName(z, ep.name)
                                              /\ seen[z][i].type = ep.type}
    BY DEF Matching
  <1> HIDE DEF z
  <1>4. ASSUME NEW i \in Matching(ep)
        PROVE  dns[z][i] \in Bearers(z, Id(ep))
    <2>1. i \in DOMAIN dns[z] /\ dns[z][i].name = MatchingName(z, ep.name) /\ dns[z][i].type = ep.type
      BY <1>1, <1>3
    <2>2. RRName(z, dns[z][i]) = ep.name
      BY <1>1, <1>2, <2>1, MatchingNameIsRead
    <2>3. QED  BY <1>2, <2>1, <2>2 DEF Bearers, ToSet
  <1>5. ASSUME NEW rr \in Bearers(z, Id(ep))
        PROVE  Matching(ep) # {}
    <2>1. PICK i \in DOMAIN dns[z] : rr = dns[z][i]
      BY <1>5 DEF Bearers, ToSet
    <2>2. RRName(z, rr) = ep.name /\ rr.type = ep.type
      BY <1>2, <1>5 DEF Bearers
    <2>3. rr \in RRSet
      BY <1>1, <2>1 DEF TypeOK
    <2>4. rr.name = MatchingName(z, ep.name)
      BY <1>1, <1>2, <2>2, <2>3, BearerMatches
    <2>5. QED  BY <1>1, <1>3, <2>1, <2>2, <2>4
  <1>6. QED  BY <1>1, <1>4, <1>5 DEF z

\* The endpoints of the plan, and the wishes that they come from.
LEMMA PlannedWish ==
  ASSUME WishesOrderly, TypeOK, NamesInv, want \in Wishes, PlanSays(plan)
  PROVE  /\ \A op \in {"create", "update", "delete"} :
              \A ep \in plan[op] : ep \in Endpoint /\ Id(ep) \in Owned
         /\ \A ep \in plan.create \cup plan.update :
              \E w \in want : w \in UNION Wishes /\ ComesFrom(ep, w) /\ Id(w) = Id(ep) /\ w.name = ep.name
  <1>1. \A op \in {"create", "update", "delete"} :
          \A ep \in plan[op] : ep \in Endpoint /\ Id(ep) \in Owned
    <2>1. plan.create \in SUBSET Endpoint /\ plan.update \in SUBSET Endpoint
          /\ plan.delete \in SUBSET Endpoint
      BY DEF TypeOK, Plan
    <2>2. QED  BY <2>1 DEF NamesInv
  <1>2. ASSUME NEW ep \in plan.create \cup plan.update
        PROVE  \E w \in want : w \in UNION Wishes /\ ComesFrom(ep, w) /\ Id(w) = Id(ep) /\ w.name = ep.name
    <2>1. PICK w \in want : AdjustedFrom(ep, w)
      BY DEF PlanSays
    <2>2. w \in UNION Wishes
      OBVIOUS
    <2>3. ComesFrom(ep, w)
      BY <2>1, <2>2, AdjustedComesFrom
    <2>4. Id(w) = Id(ep) /\ w.name = ep.name
      BY <2>3 DEF ComesFrom, Id
    <2>5. QED  BY <2>2, <2>3, <2>4
  <1>3. QED  BY <1>1, <1>2

Context ==
  /\ WishesOrderly /\ OwnedInUnicode /\ TypeOK /\ NamesInv /\ KeepInv /\ PlanSays(plan) /\ mapper = Zone
  /\ ~(bulk /\ Blocked)

LEMMA WriteGrants ==
  ASSUME Context, NEW ep \in Endpoint, Id(ep) \in Owned, ZoneOf(ep) # NoZone, NEW c, MadeFor(c, ep),
         NEW w \in want, w \in UNION Wishes, ComesFrom(ep, w), w.name = ep.name
  PROVE  Grants(c, w)
  <1>1. c.zone = FindZone(Zone, w.name)
    BY MadeIsCall, EndpointZone DEF Context
  <1>2. QED  BY <1>1, MadeGrants DEF Context

LEMMA CreationIsDue ==
  ASSUME Context, NEW ep \in Unknown(plan.create)
  PROVE  \/ CallId(CreateCall(ep)) = Id(ep) /\ \E w \in WishesFor(Id(ep)) : Grants(CreateCall(ep), w)
         \/ TakesApex(CallId(CreateCall(ep))) /\ ~bulk /\ RepeatsZone(ep.name)
  <1>1. ep \in plan.create /\ ep \in Endpoint /\ Id(ep) \in Owned /\ ZoneOf(ep) # NoZone
    BY PlannedWish DEF Unknown, Context, KeepInv
  <1>2. PICK w \in want : w \in UNION Wishes /\ ComesFrom(ep, w) /\ Id(w) = Id(ep) /\ w.name = ep.name
    BY <1>1, PlannedWish DEF Context, KeepInv
  <1>3. MadeFor(CreateCall(ep), ep)
    BY <1>1, <1>2, CreationMade DEF Context
  <1>4. Grants(CreateCall(ep), w) /\ w \in WishesFor(Id(ep))
    BY <1>1, <1>2, <1>3, WriteGrants DEF WishesFor
  <1>5. CASE CallId(CreateCall(ep)) = Id(ep)
    BY <1>4, <1>5
  <1>6. CASE ep.name = ZoneOf(ep) \o ZoneOf(ep) /\ CallId(CreateCall(ep)) = <<ZoneOf(ep), ep.type>>
    <2>1. ZoneOf(ep) = FindZone(Zone, ep.name)
      BY <1>1, EndpointZone DEF Context
    <2>2. RepeatsZone(ep.name) /\ RepeatsZone(w.name)
      BY <1>2, <1>6, <2>1 DEF RepeatsZone
    <2>3. w.type = ep.type
      BY <1>2 DEF ComesFrom
    <2>4. TakesApex(CallId(CreateCall(ep)))
      BY <1>2, <1>6, <2>1, <2>2, <2>3 DEF TakesApex
    <2>5. Blocked
      BY <1>2, <2>2 DEF Blocked
    <2>6. QED  BY <2>2, <2>4, <2>5 DEF Context
  <1>7. QED  BY <1>1, <1>5, <1>6, CreationId DEF Context

LEMMA UpdateIsDue ==
  ASSUME Context, NEW ep \in Known(plan.update)
  PROVE  /\ CallId(UpdateCall(ep)) = Id(ep) /\ UpdateCall(ep).zone = FindZone(Zone, Id(ep)[1])
         /\ \E w \in WishesFor(Id(ep)) : Grants(UpdateCall(ep), w)
  <1>1. ep \in plan.update /\ ep \in Endpoint /\ Id(ep) \in Owned /\ ZoneOf(ep) # NoZone /\ Matching(ep) # {}
    BY PlannedWish DEF Known, Context, KeepInv
  <1>2. PICK w \in want : w \in UNION Wishes /\ ComesFrom(ep, w) /\ Id(w) = Id(ep) /\ w.name = ep.name
    BY <1>1, PlannedWish DEF Context, KeepInv
  <1>3. ZoneOf(ep) \in Zone /\ getMatchingDomainRRSet(ep) \in ToSet(seen[ZoneOf(ep)])
    BY <1>1, MatchIsSeen, MatchType DEF Context
  <1>4. MadeFor(UpdateCall(ep), ep)
    BY <1>1, <1>2, <1>3, UpdateMade DEF Context, KeepInv, SeenDecent
  <1>5. Grants(UpdateCall(ep), w) /\ w \in WishesFor(Id(ep))
    BY <1>1, <1>2, <1>4, WriteGrants DEF WishesFor
  <1>6. CallId(UpdateCall(ep)) = Id(ep)
    BY <1>1, MatchId DEF Context
  <1>7. UpdateCall(ep).zone = FindZone(Zone, Id(ep)[1])
    BY <1>1, EndpointZone DEF Context, UpdateCall, Id
  <1>8. QED  BY <1>5, <1>6, <1>7

LEMMA DeletionIsDue ==
  ASSUME Context, NEW ep \in Known(plan.delete)
  PROVE  CallId(DeleteCall(ep)) = Id(ep) /\ WishesFor(Id(ep)) = {}
  <1>1. ep \in plan.delete /\ ep \in Endpoint /\ Id(ep) \in Owned /\ ZoneOf(ep) # NoZone /\ Matching(ep) # {}
    BY PlannedWish DEF Known, Context, KeepInv
  <1>2. QED  BY <1>1, MatchId DEF Context, PlanSays

Read == ReadInv /\ pc = "fetch" /\ unread = {}

Sent   == {c \in Updates : bulk \/ c.rrset \notin ToSet(seen[c.zone])}
Queued == Creations \cup Sent \cup Deletions

LEMMA LeftoverIsQueued ==
  ASSUME Context, Read, NEW id \in Owned, Leftover(id)
  PROVE  \E c \in Deletions : CallId(c) = id
  <1>1. PICK ep \in plan.delete : Id(ep) = id
    BY DEF Context, PlanSays
  <1>2. ep \in Endpoint /\ Id(ep) \in Owned
    BY <1>1, PlannedWish DEF Context, KeepInv
  <1>3. ZoneOf(ep) = FindZone(Zone, id[1])
    BY <1>1 DEF ZoneOf, Id, Context
  <1>4. ZoneOf(ep) \in Managed /\ Bearers(ZoneOf(ep), id) # {}
    BY <1>3 DEF Leftover
  <1>5. ZoneOf(ep) # NoZone /\ Matching(ep) # {}
    BY <1>1, <1>2, <1>4, MatchesAreBearers, ZoneIsAName DEF Context, Read, Managed
  <1>6. ep \in Known(plan.delete)
    BY <1>1, <1>5 DEF Known
  <1>7. CallId(DeleteCall(ep)) = id
    BY <1>1, <1>6, DeletionIsDue
  <1>8. QED  BY <1>6, <1>7 DEF Deletions

LEMMA WantingIsQueued ==
  ASSUME Context, Read, NEW id \in Owned, Plain(id), WishesFor(id) # {}, ~Fulfilled(id)
  PROVE  \E c \in Creations \cup Sent : CallId(c) = id
  <1> DEFINE z == FindZone(Zone, id[1])
             B == Bearers(z, id)
  <1>1. z \in Managed /\ z \in Zone /\ z # NoZone /\ ~RepeatsZone(id[1])
    BY ZoneIsAName DEF Plain, Managed
  <1>2. PICK ep \in IF B = {} THEN plan.create ELSE plan.update : Id(ep) = id
    BY DEF Context, PlanSays
  <1>3. ep \in Endpoint /\ Id(ep) \in Owned
    BY <1>2, PlannedWish DEF Context, KeepInv
  <1>4. ZoneOf(ep) = z /\ ep.name = id[1]
    BY <1>2 DEF ZoneOf, Id, Context
  <1>5. /\ Matching(ep) = {} <=> B = {}
        /\ seen[z] = dns[z]
    BY <1>1, <1>2, <1>3, <1>4, MatchesAreBearers DEF Context, Read
  <1>6. CASE B = {}
    <2>1. ep \in Unknown(plan.create)
      BY <1>1, <1>2, <1>4, <1>5, <1>6 DEF Unknown
    <2>2. CallId(CreateCall(ep)) = id
      BY <1>1, <1>2, <1>4, <2>1, CreationIsDue
    <2>3. QED  BY <2>1, <2>2 DEF Creations
  <1>7. CASE B # {}
    <2>1. ep \in Known(plan.update)
      BY <1>1, <1>2, <1>4, <1>5, <1>7 DEF Known
    <2> DEFINE c == UpdateCall(ep)
    <2>2. /\ CallId(c) = id /\ c.zone = z /\ \E w \in WishesFor(id) : Grants(c, w)
      BY <1>2, <2>1, UpdateIsDue
    <2>3. c \in Updates
      BY <2>1 DEF Updates
    <2> HIDE DEF c
    <2>4. CASE ~bulk /\ c.rrset \in ToSet(seen[c.zone])
      <3>1. c.rrset \in B /\ Decent(c.rrset)
        BY <1>1, <1>5, <2>2, <2>4 DEF Bearers, CallId, Context, KeepInv, ZonesDecent
      <3>2. B = {c.rrset}
        BY <1>1, <3>1, BearerIsOne DEF Context, KeepInv, ZonesDecent
      <3>3. PICK w \in WishesFor(id) : Grants(c, w)
        BY <2>2
      <3>4. WellFormed(c.rrset) /\ ~Unsayable(w) /\ Written(c) = c.rrset
        BY <2>4, <3>1 DEF Decent, Unsayable, Written
      <3>5. Means(z, c.rrset, w)
        BY <2>2, <3>3, <3>4 DEF Grants
      <3>6. Fulfilled(id)
        BY <3>1, <3>2, <3>3, <3>5 DEF Fulfilled
      <3>7. QED  BY <3>6
    <2>5. CASE bulk \/ c.rrset \notin ToSet(seen[c.zone])
      BY <2>2, <2>3, <2>5 DEF Sent
    <2>6. QED  BY <2>4, <2>5
  <1>8. QED  BY <1>6, <1>7

\* In the bulk mode: a creation is of an id that has no recordset, the other calls
\* are of one that has.
LEMMA QueuedMode ==
  ASSUME Context, Read, NEW op \in {"create", "update", "delete"}, NEW ep \in plan[op],
         ZoneOf(ep) \in Managed, NEW c, c.zone = ZoneOf(ep), CallId(c) = Id(ep), c.op = op,
         op = "create" <=> Matching(ep) = {}
  PROVE  Matches(CallId(c)[1]) /\ (c.op = "create" <=> Bearers(c.zone, CallId(c)) = {})
  <1>1. ep \in Endpoint /\ Id(ep) \in Owned
    BY PlannedWish DEF Context, KeepInv
  <1>2. Matching(ep) = {} <=> Bearers(ZoneOf(ep), Id(ep)) = {}
    BY <1>1, MatchesAreBearers DEF Context, Read
  <1>3. ep \in plan.create \cup plan.update \cup plan.delete
    OBVIOUS
  <1>4. Matches(ep.name) /\ Id(ep)[1] = ep.name
    BY <1>3 DEF Context, KeepInv, PlanWished, Id
  <1>5. QED  BY <1>2, <1>4

LEMMA QueuedOps ==
  /\ \A ep : CreateCall(ep).op = "create" /\ CreateCall(ep).zone = ZoneOf(ep)
  /\ \A ep : UpdateCall(ep).op = "update" /\ UpdateCall(ep).zone = ZoneOf(ep)
  /\ \A ep : DeleteCall(ep).op = "delete" /\ DeleteCall(ep).zone = ZoneOf(ep)
  BY DEF CreateCall, UpdateCall, DeleteCall

LEMMA QueueIsDue ==
  ASSUME Context, Read
  PROVE  CallsSay(Queued)
  <1>1. ASSUME NEW c \in Queued
        PROVE  IF c.op = "delete" THEN WishesFor(CallId(c)) = {} ELSE
               TakesApex(CallId(c)) \/ \E ep \in WishesFor(CallId(c)) : Grants(c, ep)
    <2>1. CASE c \in Creations
      <3>1. PICK ep \in Unknown(plan.create) : c = CreateCall(ep)
        BY <2>1 DEF Creations
      <3>2. c.op = "create"
        BY <3>1, QueuedOps
      <3>3. TakesApex(CallId(c)) \/ \E w \in WishesFor(CallId(c)) : Grants(c, w)
        BY <3>1, CreationIsDue
      <3>4. QED  BY <3>2, <3>3
    <2>2. CASE c \in Sent
      <3>1. PICK ep \in Known(plan.update) : c = UpdateCall(ep)
        BY <2>2 DEF Sent, Updates
      <3>2. c.op = "update"
        BY <3>1, QueuedOps
      <3>3. \E w \in WishesFor(CallId(c)) : Grants(c, w)
        BY <3>1, UpdateIsDue
      <3>4. QED  BY <3>2, <3>3
    <2>3. CASE c \in Deletions
      <3>1. PICK ep \in Known(plan.delete) : c = DeleteCall(ep)
        BY <2>3 DEF Deletions
      <3>2. c.op = "delete"
        BY <3>1, QueuedOps
      <3>3. WishesFor(CallId(c)) = {}
        BY <3>1, DeletionIsDue
      <3>4. QED  BY <3>2, <3>3
    <2>4. QED  BY <1>1, <2>1, <2>2, <2>3 DEF Queued
  <1>2. ASSUME NEW id \in Owned, Plain(id), \A c \in Queued : CallId(c) # id, ~Fulfilled(id)
        PROVE  FALSE
    <2>1. CASE WishesFor(id) = {}
      <3>1. Leftover(id)
        BY <1>2, <2>1, UnwishedIsLeft
      <3>2. QED  BY <1>2, <3>1, LeftoverIsQueued DEF Queued
    <2>2. CASE WishesFor(id) # {}
      BY <1>2, <2>2, WantingIsQueued DEF Queued
    <2>3. QED  BY <2>1, <2>2
  <1>3. ASSUME NEW id \in Owned, Leftover(id)
        PROVE  \E c \in Queued : c.op = "delete" /\ CallId(c) = id
    <2>1. PICK c \in Deletions : CallId(c) = id
      BY <1>3, LeftoverIsQueued
    <2>2. c.op = "delete"
      BY QueuedOps DEF Deletions
    <2>3. QED  BY <2>1, <2>2 DEF Queued
  <1>4. ASSUME bulk, NEW c \in Queued, c.zone \in Managed
        PROVE  /\ Matches(CallId(c)[1])
               /\ c.op = "create" <=> Bearers(c.zone, CallId(c)) = {}
    <2>1. CASE c \in Creations
      <3>1. PICK ep \in Unknown(plan.create) : c = CreateCall(ep)
        BY <2>1 DEF Creations
      <3>2. c.op = "create" /\ c.zone = ZoneOf(ep) /\ CallId(c) = Id(ep)
        BY <1>4, <3>1, QueuedOps, CreationIsDue
      <3>3. ep \in plan.create /\ Matching(ep) = {}
        BY <3>1 DEF Unknown
      <3>4. QED  BY <1>4, <3>2, <3>3, QueuedMode
    <2>2. CASE c \in Sent
      <3>1. PICK ep \in Known(plan.update) : c = UpdateCall(ep)
        BY <2>2 DEF Sent, Updates
      <3>2. c.op = "update" /\ c.zone = ZoneOf(ep) /\ CallId(c) = Id(ep)
        BY <3>1, QueuedOps, UpdateIsDue
      <3>3. ep \in plan.update /\ Matching(ep) # {}
        BY <3>1 DEF Known
      <3>4. QED  BY <1>4, <3>2, <3>3, QueuedMode
    <2>3. CASE c \in Deletions
      <3>1. PICK ep \in Known(plan.delete) : c = DeleteCall(ep)
        BY <2>3 DEF Deletions
      <3>2. c.op = "delete" /\ c.zone = ZoneOf(ep) /\ CallId(c) = Id(ep)
        BY <3>1, QueuedOps, DeletionIsDue
      <3>3. ep \in plan.delete /\ Matching(ep) # {}
        BY <3>1 DEF Known
      <3>4. QED  BY <1>4, <3>2, <3>3, QueuedMode
    <2>4. QED  BY <1>4, <2>1, <2>2, <2>3 DEF Queued
  <1>5. ASSUME bulk, NEW c \in Queued, c.op = "create", NEW d \in Queued, d.op = "create",
               CallId(d) = CallId(c)
        PROVE  d = c
    <2>1. ASSUME NEW b \in Queued, b.op = "create"
          PROVE  \E ep \in Unknown(plan.create) : b = CreateCall(ep)
      BY <2>1, QueuedOps DEF Queued, Creations, Sent, Updates, Deletions
    <2>2. PICK e \in Unknown(plan.create) : c = CreateCall(e)
      BY <1>5, <2>1
    <2>3. PICK f \in Unknown(plan.create) : d = CreateCall(f)
      BY <1>5, <2>1
    <2>4. Id(e) = Id(f)
      BY <1>5, <2>2, <2>3, CreationIsDue
    <2>5. e \in plan.create /\ f \in plan.create
      BY DEF Unknown
    <2>6. e = f
      BY <2>4, <2>5 DEF Context, PlanSays
    <2>7. QED  BY <2>2, <2>3, <2>6
  <1>6. QED  BY <1>1, <1>2, <1>3, <1>4, <1>5 DEF CallsSay

LEMMA QueueWished ==
  ASSUME WishesOrderly, OwnedInUnicode, Typed, NamesInv, KeepInv, WishInv, Queue
  PROVE  WishInv'
  <1>1. /\ UNCHANGED <<dns, want, bulk, settled, quiet>> /\ pc = "fetch" /\ pc' = "apply" /\ unread = {}
        /\ purpose = "ApplyChanges" /\ calls' = Queued /\ mapper = Zone
    BY DEF Queue, Fetched, context, Queued, Creations, Sent, Updates, Deletions, NamesInv
  <1>2. ReadInv' /\ PlanInv'
    BY <1>1 DEF ReadInv, PlanInv
  <1>3. ASSUME ~(bulk /\ Blocked), quiet
        PROVE  CallsInv'
    <2>1. ReadInv /\ PlanSays(plan)
      BY <1>1, <1>3 DEF WishInv, PlanInv, PlanSays
    <2>2. Context /\ Read
      BY <1>1, <1>3, <2>1 DEF Context, Read, Typed
    <2>3. CallsSay(calls')
      BY <1>1, <2>2, QueueIsDue
    <2>4. QED  BY <1>1, <2>3, CallsSaySo
  <1>4. QED  BY <1>1, <1>2, <1>3, WishByParts DEF WishInv, AsWished

-----------------------------------------------------------------------------
(* WishInv, step by step: writing.                                         *)

\* Whatever is written lies in the deepest zone of its name, so that no id becomes
\* shadowed, and none stops being so.
LEMMA WritesBearHome ==
  ASSUME OwnedInUnicode, Typed, NamesInv, Cycle, NEW y \in Zone, NEW id,
         Bearers(y, id)' # Bearers(y, id)
  PROVE  y = FindZone(Zone, id[1])
  <1>1. /\ Bearers(y, id) = {rr \in ToSet(dns[y]) : <<RRName(y, rr), rr.type>> = id}
        /\ Bearers(y, id)' = {rr \in ToSet(dns'[y]) : <<RRName(y, rr), rr.type>> = id}
    BY DEF Bearers, RRName
  <1>2. PICK rr \in Changed(y) : <<RRName(y, rr), rr.type>> = id
    BY <1>1 DEF Changed
  <1>3. dns' # dns
    BY <1>1
  <1>4. Meets(y, rr)
    BY <1>2, <1>3, WritesMeet
  <1>5. y = FindZone(Zone, RRName(y, rr))
    BY <1>4, MeetsZone
  <1>6. QED  BY <1>2, <1>5

LEMMA PlainAfterWrite ==
  ASSUME OwnedInUnicode, Typed, NamesInv, Cycle, UNCHANGED <<want, bulk>>, NEW id
  PROVE  Plain(id)' <=> Plain(id)
  <1>1. \A z \in Managed \ {FindZone(Zone, id[1])} : Bearers(z, id)' = Bearers(z, id)
    BY WritesBearHome DEF Managed
  <1>2. QED  BY <1>1, PlainStays

LEMMA CallBearers ==
  ASSUME TypeOK, NEW c \in Call, Accepted(c), Effect(c), Valid(dns[c.zone]), NEW y \in Zone, NEW id
  PROVE  Bearers(y, id)' = IF y = c.zone /\ id = CallId(c)
                           THEN IF c.op = "delete" THEN {} ELSE {c.rrset}
                           ELSE Bearers(y, id)
  <1> DEFINE z == c.zone
             X == IF c.op = "delete" THEN {} ELSE {c.rrset}
  <1>1. /\ \A x \in Zone \ {z} : dns'[x] = dns[x]
        /\ ToSet(dns'[z]) = Others(ToSet(dns[z]), c.rrset) \cup X
    BY CallEffect
  <1>2. /\ Bearers(y, id) = {rr \in ToSet(dns[y]) : <<RRName(y, rr), rr.type>> = id}
        /\ Bearers(y, id)' = {rr \in ToSet(dns'[y]) : <<RRName(y, rr), rr.type>> = id}
    BY DEF Bearers, RRName
  <1>3. CASE y # z
    BY <1>1, <1>2, <1>3
  <1>4. CASE y = z
    <2>1. c.rrset \in RRSet /\ z \in Zone /\ ToSet(dns[z]) \in SUBSET RRSet
      BY ToSetFinite DEF Call, TypeOK
    <2>2. \A a \in ToSet(dns[z]) : Alike(a, c.rrset) <=> <<RRName(z, a), a.type>> = CallId(c)
      <3>1. ASSUME NEW a \in ToSet(dns[z])
            PROVE  Alike(a, c.rrset) <=> <<RRName(z, a), a.type>> = CallId(c)
        <4>1. a \in RRSet
          BY <2>1
        <4>2. RRName(z, a) = RRName(z, c.rrset) <=> a.name = c.rrset.name
          BY <2>1, <4>1, NamesDiffer DEF RRName
        <4>3. QED  BY <4>2 DEF Alike, CallId
      <3>2. QED  BY <3>1
    <2>3. <<RRName(z, c.rrset), c.rrset.type>> = CallId(c)
      BY DEF CallId
    <2>4. CASE id = CallId(c)
      <3>1. {rr \in Others(ToSet(dns[z]), c.rrset) : <<RRName(z, rr), rr.type>> = id} = {}
        BY <2>2, <2>4 DEF Others
      <3>2. {rr \in X : <<RRName(z, rr), rr.type>> = id} = X
        BY <2>3, <2>4
      <3> HIDE DEF X, z
      <3>3. Bearers(y, id)' = X
        BY <1>1, <1>2, <1>4, <3>1, <3>2
      <3>4. QED  BY <1>4, <2>4, <3>3 DEF X, z
    <2>5. CASE id # CallId(c)
      <3>1. {rr \in Others(ToSet(dns[z]), c.rrset) : <<RRName(z, rr), rr.type>> = id}
              = {rr \in ToSet(dns[z]) : <<RRName(z, rr), rr.type>> = id}
        BY <2>2, <2>5 DEF Others
      <3>2. {rr \in X : <<RRName(z, rr), rr.type>> = id} = {}
        BY <2>3, <2>5
      <3> HIDE DEF X, z
      <3>3. Bearers(y, id)' = Bearers(y, id)
        BY <1>1, <1>2, <1>4, <3>1, <3>2
      <3>4. QED  BY <2>5, <3>3
    <2>6. QED  BY <2>4, <2>5
  <1>5. QED  BY <1>3, <1>4

\* What a recordset is to mean is what makes its id fulfilled.
LEMMA FulfilledBy ==
  ASSUME UNCHANGED <<want, bulk>>, NEW id, NEW z, z = FindZone(Zone, id[1])
  PROVE  /\ WishesFor(id) = {} /\ Bearers(z, id)' = {} => Fulfilled(id)'
         /\ \A ep \in WishesFor(id) : \A rr :
              Bearers(z, id)' = {rr} /\ Means(z, rr, ep) => Fulfilled(id)'
  <1>1. WishesFor(id)' = WishesFor(id)
    BY DEF WishesFor
  <1>2. \A ep, rr : Means(z, rr, ep)' <=> Means(z, rr, ep)
    BY DEF Means
  <1>3. Fulfilled(id)' <=> IF WishesFor(id)' = {} THEN Bearers(z, id)' = {}
                          ELSE \E ep \in WishesFor(id)', rr \in Bearers(z, id)' :
                                 Bearers(z, id)' = {rr} /\ Means(z, rr, ep)'
    BY DEF Fulfilled
  <1>4. QED  BY <1>1, <1>2, <1>3

LEMMA CallWished ==
  ASSUME OwnedInUnicode, Typed, NamesInv, KeepInv, WishInv, DoCall
  PROVE  WishInv'
  <1>1. /\ UNCHANGED <<want, bulk, settled, quiet>> /\ pc = "apply" /\ pc' = "apply" /\ ~bulk /\ Cycle
    BY DEF DoCall, context, history, Cycle
  <1>2. (quiet \/ settled) => quiet /\ CallsInv
    BY <1>1 DEF WishInv
  <1>3. CASE ~quiet /\ ~settled
    BY <1>1, <1>3 DEF WishInv
  <1>4. CASE quiet /\ CallsInv
    <2>1. PICK c \in calls : Accepted(c) /\ Effect(c) /\ calls' = calls \ {c}
      BY DEF DoCall, Due
    <2>2. TypeOK /\ c \in Call /\ c.zone \in Zone /\ c.rrset \in RRSet /\ Valid(dns[c.zone])
          /\ (c.op # "delete" => WellFormed(c.rrset)) /\ Meets(c.zone, c.rrset)
      <3>1. TypeOK /\ c \in Call /\ c.zone \in Zone /\ c.rrset \in RRSet /\ Valid(dns[c.zone])
        BY <2>1 DEF Typed, TypeOK, Call, KeepInv, ZonesDecent
      <3>2. c.op # "delete" => WellFormed(c.rrset)
        BY <2>1, <3>1, CallEffect
      <3>3. Meets(c.zone, c.rrset)
        BY <2>1 DEF NamesInv
      <3>4. QED  BY <3>1, <3>2, <3>3
    <2>3. c.zone = FindZone(Zone, CallId(c)[1])
      BY <2>2, MeetsZone DEF CallId
    <2>4. \A y \in Zone : \A id : Bearers(y, id)' = IF y = c.zone /\ id = CallId(c)
                                               THEN IF c.op = "delete" THEN {} ELSE {c.rrset}
                                               ELSE Bearers(y, id)
      BY <2>1, <2>2, CallBearers
    <2>5. \A id : Plain(id)' <=> Plain(id)
      BY <1>1, PlainAfterWrite
    <2>6. \A id : Plain(id) => FindZone(Zone, id[1]) \in Zone
      BY DEF Plain, Managed
    <2>7. IF c.op = "delete" THEN WishesFor(CallId(c)) = {} ELSE
          TakesApex(CallId(c)) \/ \E ep \in WishesFor(CallId(c)) : Grants(c, ep)
      BY <1>1, <1>4, <2>1 DEF CallsInv
    <2>8. ASSUME NEW id \in Owned, Plain(id), CallId(c) = id
          PROVE  Fulfilled(id)'
      <3>1. Bearers(c.zone, id)' = IF c.op = "delete" THEN {} ELSE {c.rrset}
        BY <2>2, <2>4, <2>8
      <3>2. CASE c.op = "delete"
        <4>1. WishesFor(id) = {} /\ Bearers(c.zone, id)' = {}
          BY <2>7, <2>8, <3>1, <3>2
        <4>2. QED  BY <1>1, <2>3, <2>8, <4>1, FulfilledBy
      <3>3. CASE c.op # "delete"
        <4>1. PICK ep \in WishesFor(id) : Grants(c, ep)
          BY <2>7, <2>8, <3>3 DEF Plain
        <4>2. Written(c) = c.rrset /\ ~Unsayable(ep)
          BY <1>1 DEF Written, Unsayable
        <4>3. Means(c.zone, c.rrset, ep)
          BY <2>2, <3>3, <4>1, <4>2 DEF Grants
        <4>4. Bearers(c.zone, id)' = {c.rrset}
          BY <3>1, <3>3
        <4>5. QED  BY <1>1, <2>3, <2>8, <4>1, <4>3, <4>4, FulfilledBy
      <3>4. QED  BY <3>2, <3>3
    <2>9. ASSUME NEW id \in Owned, Plain(id), CallId(c) # id
          PROVE  Fulfilled(id)' <=> Fulfilled(id)
      BY <1>1, <2>4, <2>6, <2>9, FulfilledStays
    <2>10. CallsInv'
      <3>1. \A d, ep : (Grants(d, ep)' <=> Grants(d, ep)) /\ CallId(d)' = CallId(d)
        BY <1>1, GrantsStay
      <3>2. \A id : WishesFor(id)' = WishesFor(id) /\ (TakesApex(id)' <=> TakesApex(id))
        BY <1>1, WishesStay DEF SameAsked
      <3>3. ASSUME NEW d \in calls'
            PROVE  IF d.op = "delete" THEN WishesFor(CallId(d))' = {} ELSE
                   TakesApex(CallId(d))' \/ \E ep \in WishesFor(CallId(d))' : Grants(d, ep)'
        <4>1. d \in calls
          BY <2>1
        <4>2. IF d.op = "delete" THEN WishesFor(CallId(d)) = {} ELSE
              TakesApex(CallId(d)) \/ \E ep \in WishesFor(CallId(d)) : Grants(d, ep)
          BY <1>1, <1>4, <4>1 DEF CallsInv
        <4>3. QED  BY <3>1, <3>2, <4>2
      <3>4. ASSUME NEW id \in Owned, Plain(id)', \A d \in calls' : CallId(d) # id
            PROVE  Fulfilled(id)'
        <4>1. Plain(id)
          BY <2>5, <3>4
        <4>2. CASE CallId(c) = id
          BY <2>8, <4>1, <4>2
        <4>3. CASE CallId(c) # id
          <5>1. \A d \in calls : CallId(d) # id
            BY <2>1, <3>4, <4>3
          <5>2. Fulfilled(id)
            BY <1>1, <1>4, <4>1, <5>1 DEF CallsInv
          <5>3. QED  BY <2>9, <4>1, <4>3, <5>2
        <4>4. QED  BY <4>2, <4>3
      <3>5. QED  BY <1>1, <3>1, <3>3, <3>4 DEF CallsInv
    <2>11. settled => AsWished'
      BY <1>1, <2>5, <2>8, <2>9 DEF WishInv, AsWished
    <2>12. ReadInv' /\ PlanInv'
      BY <1>1 DEF ReadInv, PlanInv
    <2>13. QED  BY <1>1, <1>4, <2>10, <2>11, <2>12 DEF WishInv, AsWished
  <1>5. QED  BY <1>2, <1>3, <1>4

-----------------------------------------------------------------------------
(* WishInv, step by step: a zonefile.                                      *)

CallsOf(z)       == {c \in calls : c.zone = z}
BornBy(z, S, id) == {rr \in S : <<RRName(z, rr), rr.type>> = id}

LEMMA BearersAreBorn ==
  ASSUME NEW z, NEW id
  PROVE  /\ Bearers(z, id) = BornBy(z, ToSet(dns[z]), id)
         /\ Bearers(z, id)' = BornBy(z, ToSet(dns'[z]), id)
  BY DEF Bearers, BornBy, RRName

\* The zone that a step of the bulk mode writes, and what the file of it holds.
Filed(z, added) ==
  /\ z \in Zone /\ CallsOf(z) \in SUBSET Call /\ IsFiniteSet(CallsOf(z))
  /\ added \in OneOfEachName(New(z, CallsOf(z)))
  /\ calls' = {c \in calls : c.zone # z}
  /\ \A y \in Zone \ {z} : dns'[y] = dns[y]
  /\ \/ dns'[z] = dns[z] /\ ~ValidSet(Content(z, CallsOf(z), added))
     \/ ToSet(dns'[z]) = Content(z, CallsOf(z), added)

LEMMA ZoneIsFiled ==
  ASSUME Typed, applyZoneChanges
  PROVE  \E z \in Zone : \E added : Filed(z, added)
  <1>1. PICK z \in {c.zone : c \in calls} : \E file \in runZoneChanges(z, {c \in calls : c.zone = z}) :
            /\ dns' = IF Valid(file) THEN [dns EXCEPT ![z] = file] ELSE dns
            /\ calls' = {c \in calls : c.zone # z}
    BY DEF applyZoneChanges
  <1>2. PICK file \in runZoneChanges(z, CallsOf(z)) :
            /\ dns' = IF Valid(file) THEN [dns EXCEPT ![z] = file] ELSE dns
            /\ calls' = {c \in calls : c.zone # z}
    BY <1>1 DEF CallsOf
  <1>3. z \in Zone /\ CallsOf(z) \in SUBSET Call /\ IsFiniteSet(CallsOf(z)) /\ TypeOK
    BY FS_Subset DEF Typed, TypeOK, Finite, Call, CallsOf
  <1>4. dns \in [Zone -> Seq(RRSet)]
    BY <1>3 DEF TypeOK
  <1>5. PICK added \in OneOfEachName(New(z, CallsOf(z))) : file \in SetToSeqs(Content(z, CallsOf(z), added))
    BY FileContent
  <1>6. ToSet(file) = Content(z, CallsOf(z), added)
    BY <1>3, <1>5, ContentType, ListingSet
  <1>7. ValidSet(Content(z, CallsOf(z), added)) => Valid(file)
    BY <1>5, <1>6, ValidListing
  <1>8. \A y \in Zone \ {z} : dns'[y] = dns[y]
    BY <1>2, <1>4
  <1>9. dns'[z] = IF Valid(file) THEN file ELSE dns[z]
    BY <1>2, <1>3, <1>4
  <1>10. QED  BY <1>2, <1>3, <1>5, <1>6, <1>7, <1>8, <1>9 DEF Filed

\* A recordset that no deletion and no update is about stays as it is.
LEMMA UntouchedStays ==
  ASSUME NEW z, NEW cs, NEW added, \A c \in cs : c.zone = z, NEW rr \in ToSet(dns[z]),
         \A c \in cs : c.op # "create" => CallId(c) # <<RRName(z, rr), rr.type>>
  PROVE  rr \in Content(z, cs, added) /\ rr \in Kept(z, cs) /\ Edited(z, cs, rr) = rr
  <1>1. ASSUME NEW op \in {"update", "delete"}
        PROVE  On(cs, op, rr) = {}
    BY DEF On, CallId, RRName
  <1>2. rr \in Kept(z, cs) /\ Edited(z, cs, rr) = rr
    BY <1>1 DEF Kept, Edited
  <1>3. QED  BY <1>2 DEF Content

\* What stands in a file comes from the zone or from a creation.
LEMMA FiledFrom ==
  ASSUME TypeOK, NEW z \in Zone, NEW cs \in SUBSET Call, \A c \in cs : c.zone = z,
         NEW added \in OneOfEachName(New(z, cs)),
         NEW rr \in Content(z, cs, added)
  PROVE  \/ \E old \in Kept(z, cs) : /\ old \in ToSet(dns[z]) /\ old \in RRSet
                                     /\ rr = Edited(z, cs, old) /\ Alike(rr, old)
         \/ \E c \in added : /\ c \in cs /\ c.op = "create" /\ c.rrset \in RRSet
                                    /\ rr = InFile(z, c.rrset, {}) /\ Alike(rr, c.rrset)
                                    /\ <<RRName(z, rr), rr.type>> = CallId(c)
  <1>1. CASE \E old \in Kept(z, cs) : rr = Edited(z, cs, old)
    <2>1. PICK old \in Kept(z, cs) : rr = Edited(z, cs, old)
      BY <1>1
    <2>2. old \in ToSet(dns[z]) /\ old \in RRSet
      BY ToSetFinite DEF Kept, TypeOK
    <2>3. Alike(rr, old)
      BY <2>1, <2>2, EditedType DEF Alike
    <2>4. QED  BY <2>1, <2>2, <2>3
  <1>2. CASE \E c \in added : rr = InFile(z, c.rrset, {})
    <2>1. PICK c \in added : rr = InFile(z, c.rrset, {})
      BY <1>2
    <2>2. c \in cs /\ c.op = "create" /\ c.rrset \in RRSet /\ {} \in SUBSET Key
      BY AddedAreNew DEF Call
    <2>3. Alike(rr, c.rrset)
      BY <2>1, <2>2, InFileType DEF Alike
    <2>4. <<RRName(z, rr), rr.type>> = CallId(c)
      BY <2>2, <2>3 DEF Alike, CallId, RRName
    <2>5. QED  BY <2>1, <2>2, <2>3, <2>4
  <1>3. QED  BY <1>1, <1>2 DEF Content

LEMMA AlikeIds ==
  ASSUME NEW z \in Zone, NEW a \in RRSet, NEW b \in RRSet
  PROVE  Alike(a, b) <=> <<RRName(z, a), a.type>> = <<RRName(z, b), b.type>>
  <1>1. RRName(z, a) = RRName(z, b) => a.name = b.name
    BY NamesDiffer
  <1>2. a.name = b.name => RRName(z, a) = RRName(z, b)
    BY DEF RRName
  <1>3. QED  BY <1>1, <1>2 DEF Alike

\* No call is about the id.
LEMMA FileLeaves ==
  ASSUME TypeOK, NEW z \in Zone, NEW cs \in SUBSET Call, \A c \in cs : c.zone = z,
         NEW added \in OneOfEachName(New(z, cs)),
         NEW id, \A c \in cs : CallId(c) # id
  PROVE  BornBy(z, Content(z, cs, added), id) = Bearers(z, id)
  <1>1. Bearers(z, id) = BornBy(z, ToSet(dns[z]), id)
    BY BearersAreBorn
  <1>2. ASSUME NEW rr \in Content(z, cs, added), <<RRName(z, rr), rr.type>> = id
        PROVE  rr \in ToSet(dns[z])
    <2>1. PICK old \in Kept(z, cs) : old \in ToSet(dns[z]) /\ rr = Edited(z, cs, old) /\ Alike(rr, old)
      BY <1>2, FiledFrom
    <2>2. <<RRName(z, old), old.type>> = id
      BY <1>2, <2>1 DEF Alike, RRName
    <2>3. Edited(z, cs, old) = old
      BY <2>1, <2>2, UntouchedStays
    <2>4. QED  BY <2>1, <2>3
  <1>3. ASSUME NEW rr \in ToSet(dns[z]), <<RRName(z, rr), rr.type>> = id
        PROVE  rr \in Content(z, cs, added)
    BY <1>3, UntouchedStays
  <1>4. QED  BY <1>1, <1>2, <1>3 DEF BornBy

\* The id is deleted, and not created.
LEMMA FileDeletes ==
  ASSUME TypeOK, NEW z \in Zone, NEW cs \in SUBSET Call, \A c \in cs : c.zone = z,
         NEW added \in OneOfEachName(New(z, cs)),
         NEW c \in cs, c.op = "delete", \A d \in cs : d.op = "create" => CallId(d) # CallId(c)
  PROVE  BornBy(z, Content(z, cs, added), CallId(c)) = {}
  <1>1. c.rrset \in RRSet /\ c.zone = z
    BY DEF Call
  <1>2. ASSUME NEW rr \in Content(z, cs, added), <<RRName(z, rr), rr.type>> = CallId(c)
        PROVE  FALSE
    <2>1. PICK old \in Kept(z, cs) : old \in RRSet /\ Alike(rr, old)
      BY <1>2, FiledFrom
    <2>2. <<RRName(z, old), old.type>> = <<RRName(z, c.rrset), c.rrset.type>>
      BY <1>1, <1>2, <2>1 DEF Alike, RRName, CallId
    <2>3. Alike(old, c.rrset)
      BY <1>1, <2>1, <2>2, AlikeIds
    <2>4. c \in On(cs, "delete", old)
      BY <2>3 DEF On, Alike
    <2>5. QED  BY <2>1, <2>4 DEF Kept
  <1>3. QED  BY <1>2 DEF BornBy

\* The id is created, and bore nothing.
LEMMA FileCreates ==
  ASSUME TypeOK, NEW z \in Zone, NEW cs \in SUBSET Call, \A c \in cs : c.zone = z,
         NEW added \in OneOfEachName(New(z, cs)),
         NEW c \in cs, c.op = "create", Parses(c.rrset), Bearers(z, CallId(c)) = {},
         \A d \in cs : d.op = "create" /\ CallId(d) = CallId(c) => d = c
  PROVE  BornBy(z, Content(z, cs, added), CallId(c)) = {InFile(z, c.rrset, {})}
  <1> DEFINE new == InFile(z, c.rrset, {})
  <1>1. c.rrset \in RRSet /\ c.zone = z /\ {} \in SUBSET Key
    BY DEF Call
  <1>2. new.name = c.rrset.name /\ new.type = c.rrset.type
    BY <1>1, InFileType
  <1> HIDE DEF new
  <1>3. <<RRName(z, new), new.type>> = CallId(c)
    BY <1>1, <1>2 DEF CallId, RRName
  <1>4. Place(z, c.rrset) = 0
    <2>1. SUFFICES ASSUME Place(z, c.rrset) # 0
                   PROVE  FALSE
      OBVIOUS
    <2> DEFINE rr == dns[z][Place(z, c.rrset)]
    <2>2. Place(z, c.rrset) \in DOMAIN dns[z] /\ rr.name = c.rrset.name /\ rr.type = c.rrset.type
      BY <2>1, PlaceType
    <2>3. rr \in ToSet(dns[z])
      BY <2>2 DEF ToSet
    <2> HIDE DEF rr
    <2>4. rr \in Bearers(z, CallId(c))
      BY <1>1, <2>2, <2>3 DEF Bearers, CallId, RRName
    <2>5. QED  BY <2>4
  <1>5. new \in Content(z, cs, added)
    <2>1. c \in New(z, cs)
      BY <1>4 DEF New
    <2>2. PICK d \in added : SameName(c, d)
      BY <2>1 DEF OneOfEachName
    <2>3. d \in cs /\ d.op = "create" /\ d.zone = z
      BY AddedAreNew
    <2>4. CallId(d) = CallId(c)
      BY <1>1, <2>2, <2>3 DEF CallId, RRName, SameName
    <2>5. d = c
      BY <2>3, <2>4
    <2>6. QED  BY <2>5 DEF Content, new
  <1>6. ASSUME NEW rr \in Content(z, cs, added), <<RRName(z, rr), rr.type>> = CallId(c)
        PROVE  rr = new
    <2>1. CASE \E old \in Kept(z, cs) : old \in ToSet(dns[z]) /\ Alike(rr, old)
      <3>1. PICK old \in Kept(z, cs) : old \in ToSet(dns[z]) /\ Alike(rr, old)
        BY <2>1
      <3>2. <<RRName(z, old), old.type>> = CallId(c)
        BY <1>6, <3>1 DEF Alike, RRName
      <3>3. QED  BY <3>1, <3>2 DEF Bearers
    <2>2. CASE \E d \in added : /\ d \in cs /\ d.op = "create" /\ rr = InFile(z, d.rrset, {})
                                       /\ <<RRName(z, rr), rr.type>> = CallId(d)
      BY <1>6, <2>2 DEF new
    <2>3. QED  BY <2>1, <2>2, FiledFrom
  <1>7. QED  BY <1>3, <1>5, <1>6 DEF BornBy, new

\* The id is updated, and neither deleted nor created.
LEMMA FileUpdates ==
  ASSUME TypeOK, NEW z \in Zone, NEW cs \in SUBSET Call, \A c \in cs : c.zone = z,
         NEW added \in OneOfEachName(New(z, cs)),
         NEW c \in cs, c.op = "update", Parses(c.rrset),
         \A d \in cs : CallId(d) = CallId(c) => d.op = "update",
         NEW rr, Bearers(z, CallId(c)) = {rr}
  PROVE  \E d \in cs : /\ d.op = "update" /\ CallId(d) = CallId(c) /\ Parses(d.rrset)
                       /\ BornBy(z, Content(z, cs, added), CallId(c)) = {InFile(z, d.rrset, rr.labels)}
  <1>1. c.rrset \in RRSet /\ c.zone = z
    BY DEF Call
  <1>2. rr \in ToSet(dns[z]) /\ <<RRName(z, rr), rr.type>> = CallId(c) /\ rr \in RRSet
    <2>1. rr \in Bearers(z, CallId(c))
      OBVIOUS
    <2>2. rr \in ToSet(dns[z]) /\ <<RRName(z, rr), rr.type>> = CallId(c)
      BY <2>1 DEF Bearers
    <2>3. QED  BY <2>2, ToSetFinite DEF TypeOK
  <1>3. Alike(rr, c.rrset)
    BY <1>1, <1>2, AlikeIds DEF CallId
  <1>4. c \in On(cs, "update", rr)
    BY <1>3 DEF On, Alike
  <1> DEFINE d == CHOOSE d \in On(cs, "update", rr) : TRUE
  <1>5. d \in On(cs, "update", rr)
    BY <1>4
  <1>6. Edited(z, cs, rr) = InFile(z, d.rrset, rr.labels)
    BY <1>4 DEF Edited
  <1> HIDE DEF d
  <1>7. d \in cs /\ d.op = "update" /\ Parses(d.rrset) /\ CallId(d) = CallId(c)
    <2>1. d \in cs /\ d.op = "update" /\ Parses(d.rrset) /\ d.rrset.name = rr.name /\ d.rrset.type = rr.type
      BY <1>5 DEF On
    <2>2. d.zone = z
      BY <2>1
    <2>3. CallId(d) = <<RRName(z, rr), rr.type>>
      BY <2>1, <2>2 DEF CallId, RRName
    <2>4. QED  BY <1>2, <2>1, <2>3
  <1>8. rr \in Kept(z, cs)
    <2>1. ASSUME NEW e \in On(cs, "delete", rr)
          PROVE  FALSE
      <3>1. e \in cs /\ e.op = "delete" /\ e.rrset.name = rr.name /\ e.rrset.type = rr.type /\ e.zone = z
        BY DEF On
      <3>2. CallId(e) = CallId(c)
        BY <1>2, <3>1 DEF CallId, RRName
      <3>3. QED  BY <3>1, <3>2
    <2>2. QED  BY <1>2, <2>1 DEF Kept
  <1>9. Edited(z, cs, rr) \in Content(z, cs, added)
    BY <1>8 DEF Content
  <1>10. <<RRName(z, Edited(z, cs, rr)), Edited(z, cs, rr).type>> = CallId(c)
    BY <1>2, EditedType DEF RRName
  <1>11. ASSUME NEW r \in Content(z, cs, added), <<RRName(z, r), r.type>> = CallId(c)
         PROVE  r = Edited(z, cs, rr)
    <2>1. PICK old \in Kept(z, cs) : old \in ToSet(dns[z]) /\ r = Edited(z, cs, old) /\ Alike(r, old)
      BY <1>11, FiledFrom
    <2>2. <<RRName(z, old), old.type>> = CallId(c)
      BY <1>11, <2>1 DEF Alike, RRName
    <2>3. old \in Bearers(z, CallId(c))
      BY <2>1, <2>2 DEF Bearers
    <2>4. QED  BY <2>1, <2>3
  <1>12. BornBy(z, Content(z, cs, added), CallId(c)) = {Edited(z, cs, rr)}
    BY <1>9, <1>10, <1>11 DEF BornBy
  <1>13. QED  BY <1>6, <1>7, <1>12

\* An owned id is all that a deletion or an update is about, so that what blocks a
\* wish stays.
LEMMA BlockedStays ==
  ASSUME TypeOK, KeepInv, UNCHANGED <<want, bulk>>, NEW z, NEW added, Filed(z, added), Blocked
  PROVE  Blocked'
  <1>1. ASSUME NEW y \in Zone, NEW id, id \notin Owned, Bearers(y, id) # {}
        PROVE  Bearers(y, id)' # {}
    <2>1. PICK rr \in ToSet(dns[y]) : <<RRName(y, rr), rr.type>> = id
      BY <1>1 DEF Bearers
    <2>2. CASE dns'[y] = dns[y]
      BY <2>1, <2>2, BearersAreBorn DEF BornBy
    <2>3. CASE y = z /\ ToSet(dns'[z]) = Content(z, CallsOf(z), added)
      <3>1. \A c \in CallsOf(z) : c.zone = z /\ (c.op # "create" => CallId(c) # id)
        BY <1>1 DEF CallsOf, KeepInv, CallsDecent, CallDecent
      <3>2. rr \in Content(z, CallsOf(z), added)
        BY <2>1, <2>3, <3>1, UntouchedStays
      <3>3. QED  BY <2>1, <2>3, <3>2, BearersAreBorn DEF BornBy
    <2>4. QED  BY <2>2, <2>3 DEF Filed
  <1>2. PICK ep \in want :
          \/ RepeatsZone(ep.name)
          \/ \E y \in {FindZone(Zone, ep.name)} \ {NoZone}, type \in RecordType :
               /\ <<ep.name, type>> \notin Owned
               /\ Bearers(y, <<ep.name, type>>) # {}
               /\ "CNAME" \in {type, ep.type}
          \/ \E t \in ToSet(ep.targets) :
               ~Encodable(t) \/ (~bulk /\ ~CanParse(ep.type, makeEndpointTarget(t)))
    BY DEF Blocked
  <1>3. ep \in want'
    OBVIOUS
  <1>4. CASE RepeatsZone(ep.name)
    BY <1>3, <1>4 DEF Blocked
  <1>5. CASE \E y \in {FindZone(Zone, ep.name)} \ {NoZone}, type \in RecordType :
               /\ <<ep.name, type>> \notin Owned
               /\ Bearers(y, <<ep.name, type>>) # {}
               /\ "CNAME" \in {type, ep.type}
    <2>1. PICK y \in {FindZone(Zone, ep.name)} \ {NoZone}, type \in RecordType :
               /\ <<ep.name, type>> \notin Owned
               /\ Bearers(y, <<ep.name, type>>) # {}
               /\ "CNAME" \in {type, ep.type}
      BY <1>5
    <2>2. ep.name \in Seq(Part)
      BY JourneyAssumption, EndpointFields DEF KeepInv, Name
    <2>3. y \in Zone
      BY <2>1, <2>2, FindZoneType
    <2>4. Bearers(y, <<ep.name, type>>)' # {}
      BY <1>1, <2>1, <2>3
    <2>5. QED  BY <1>3, <2>1, <2>4 DEF Blocked
  <1>6. CASE \E t \in ToSet(ep.targets) :
               ~Encodable(t) \/ (~bulk /\ ~CanParse(ep.type, makeEndpointTarget(t)))
    BY <1>3, <1>6 DEF Blocked
  <1>7. QED  BY <1>2, <1>4, <1>5, <1>6

\* What is known when the file of a managed zone is made.
Filing(z) ==
  /\ TypeOK /\ OwnedInUnicode /\ WishesOrderly /\ NamesInv /\ KeepInv /\ CallsSay(calls)
  /\ bulk /\ ~Blocked /\ z \in Managed /\ CallsOf(z) \in SUBSET Call

LEMMA FiledCalls ==
  ASSUME NEW z, Filing(z), NEW c \in CallsOf(z)
  PROVE  /\ z \in Zone /\ c \in calls /\ c \in Call /\ c.rrset \in RRSet /\ c.zone = z
         /\ z = FindZone(Zone, CallId(c)[1]) /\ Matches(CallId(c)[1])
         /\ c.op = "delete" => WishesFor(CallId(c)) = {}
         /\ c.op # "delete" =>
              /\ WishesFor(CallId(c)) # {}
              /\ \E ep \in WishesFor(CallId(c)) :
                   Unsayable(ep) \/ (Parses(c.rrset) /\ Means(z, InFile(z, c.rrset, {}), ep))
         /\ c.op = "create" <=> Bearers(z, CallId(c)) = {}
  <1>1. c \in calls /\ c.zone = z /\ c \in Call /\ z \in Zone /\ c.rrset \in RRSet
    BY DEF CallsOf, Filing, Call, Managed
  <1>2. z = FindZone(Zone, CallId(c)[1])
    <2>1. Meets(z, c.rrset)
      BY <1>1 DEF Filing, NamesInv
    <2>2. QED  BY <1>1, <2>1, MeetsZone DEF CallId, Filing
  <1>3. /\ Matches(CallId(c)[1])
        /\ c.op = "create" <=> Bearers(z, CallId(c)) = {}
        /\ c.op = "delete" => WishesFor(CallId(c)) = {}
        /\ c.op # "delete" => TakesApex(CallId(c)) \/ \E ep \in WishesFor(CallId(c)) : Grants(c, ep)
    BY <1>1 DEF Filing, CallsSay
  <1>4. ~TakesApex(CallId(c))
    BY DEF Filing, TakesApex, Blocked
  <1>5. ASSUME c.op # "delete"
        PROVE  /\ WishesFor(CallId(c)) # {}
               /\ \E ep \in WishesFor(CallId(c)) :
                    Unsayable(ep) \/ (Parses(c.rrset) /\ Means(z, InFile(z, c.rrset, {}), ep))
    <2>1. PICK ep \in WishesFor(CallId(c)) : Grants(c, ep)
      BY <1>3, <1>4, <1>5
    <2>2. bulk /\ Written(c) = InFile(z, c.rrset, {})
      BY <1>1 DEF Written, Filing
    <2>3. Unsayable(ep) \/ (Parses(c.rrset) /\ Means(z, InFile(z, c.rrset, {}), ep))
      BY <1>1, <2>1, <2>2 DEF Grants
    <2>4. QED  BY <2>1, <2>3
  <1>6. QED  BY <1>1, <1>2, <1>3, <1>5

LEMMA WishedTogether ==
  ASSUME WishesOrderly, want \in Wishes, NEW n, NEW s, NEW t,
         WishesFor(<<n, s>>) # {}, WishesFor(<<n, t>>) # {}, s # t
  PROVE  "CNAME" \notin {s, t}
  <1>1. PICK a \in want : Id(a) = <<n, s>>
    BY DEF WishesFor
  <1>2. PICK b \in want : Id(b) = <<n, t>>
    BY DEF WishesFor
  <1>3. a.name = n /\ a.type = s /\ b.name = n /\ b.type = t
    BY <1>1, <1>2 DEF Id
  <1>4. QED  BY <1>1, <1>2, <1>3 DEF WishesOrderly

\* What a file keeps beside what it adds is of somebody else's, or wished as well.
LEMMA KeptBesideAdded ==
  ASSUME NEW z, Filing(z), NEW old \in Kept(z, CallsOf(z)), old \in ToSet(dns[z]), old \in RRSet,
         NEW c \in CallsOf(z), c.op = "create", old.name = c.rrset.name
  PROVE  old.type # c.rrset.type /\ "CNAME" \notin {old.type, c.rrset.type}
  <1> DEFINE n  == RRName(z, old)
             id == <<n, old.type>>
  <1>1. /\ z \in Zone /\ c.zone = z /\ c.rrset \in RRSet
        /\ z = FindZone(Zone, CallId(c)[1]) /\ Matches(CallId(c)[1])
        /\ WishesFor(CallId(c)) # {} /\ Bearers(z, CallId(c)) = {}
    BY FiledCalls
  <1>2. CallId(c) = <<n, c.rrset.type>>
    BY <1>1 DEF CallId, RRName
  <1>3. old \in Bearers(z, id)
    BY DEF Bearers
  <1>4. old.type # c.rrset.type
    BY <1>1, <1>2, <1>3
  <1> HIDE DEF n
  <1>5. z = FindZone(Zone, n) /\ Matches(n) /\ z \in Managed /\ z # NoZone
    BY <1>1, <1>2, ZoneIsAName DEF Filing
  <1>6. PICK ep \in want : ep.name = n /\ ep.type = c.rrset.type
    BY <1>1, <1>2 DEF WishesFor, Id
  <1>7. CASE id \notin Owned
    <2>1. z \in {FindZone(Zone, ep.name)} \ {NoZone} /\ old.type \in RecordType
      BY <1>5, <1>6 DEF RRSet
    <2>2. <<ep.name, old.type>> \notin Owned /\ Bearers(z, <<ep.name, old.type>>) # {}
      BY <1>3, <1>6, <1>7
    <2>3. "CNAME" \notin {old.type, ep.type}
      BY <2>1, <2>2 DEF Filing, Blocked
    <2>4. QED  BY <1>4, <1>6, <2>3
  <1>8. CASE id \in Owned /\ WishesFor(id) = {}
    <2>1. id[1] = n
      OBVIOUS
    <2>2. Leftover(id)
      BY <1>3, <1>5, <1>8, <2>1 DEF Leftover
    <2>3. PICK d \in calls : d.op = "delete" /\ CallId(d) = id
      BY <1>8, <2>2 DEF Filing, CallsSay
    <2>4. d \in Call /\ d.zone \in Zone /\ d.rrset \in RRSet
      BY DEF Filing, TypeOK, Call
    <2>5. d.zone = z
      <3>1. Meets(d.zone, d.rrset)
        BY DEF Filing, NamesInv
      <3>2. d.zone = FindZone(Zone, RRName(d.zone, d.rrset))
        BY <2>4, <3>1, MeetsZone DEF Filing
      <3>3. RRName(d.zone, d.rrset) = n
        BY <2>3 DEF CallId
      <3>4. QED  BY <1>5, <3>2, <3>3
    <2>6. Alike(old, d.rrset)
      BY <1>1, <2>3, <2>4, <2>5, AlikeIds DEF CallId, n
    <2>7. d \in On(CallsOf(z), "delete", old)
      BY <2>3, <2>5, <2>6 DEF On, Alike, CallsOf
    <2>8. QED  BY <2>7 DEF Kept
  <1>9. CASE id \in Owned /\ WishesFor(id) # {}
    <2>1. WishesFor(<<n, old.type>>) # {} /\ WishesFor(<<n, c.rrset.type>>) # {}
      BY <1>1, <1>2, <1>9
    <2>2. QED  BY <1>4, <2>1, WishedTogether DEF Filing, KeepInv
  <1>10. QED  BY <1>7, <1>8, <1>9

\* The file of a managed zone is one that Hetzner takes.
LEMMA FileIsValid ==
  ASSUME NEW z, Filing(z), NEW added \in OneOfEachName(New(z, CallsOf(z)))
  PROVE  ValidSet(Content(z, CallsOf(z), added))
  <1> DEFINE cs == CallsOf(z)
  <1>1. /\ TypeOK /\ z \in Zone /\ cs \in SUBSET Call /\ ValidSet(ToSet(dns[z]))
        /\ \A c \in cs : c.zone = z
    BY ValidApart DEF Filing, Managed, KeepInv, ZonesDecent, CallsOf
  <1> DEFINE IsKept(rr)  == \E old \in Kept(z, cs) : /\ old \in ToSet(dns[z]) /\ old \in RRSet
                                                    /\ rr = Edited(z, cs, old) /\ Alike(rr, old)
             IsAdded(rr) == \E c \in added : /\ c \in cs /\ c.op = "create" /\ c.rrset \in RRSet
                                                   /\ rr = InFile(z, c.rrset, {}) /\ Alike(rr, c.rrset)
                                                   /\ <<RRName(z, rr), rr.type>> = CallId(c)
  <1>2. \A rr \in Content(z, cs, added) : IsKept(rr) \/ IsAdded(rr)
    BY <1>1, FiledFrom
  <1> HIDE DEF cs
  <1>3. ASSUME NEW a, NEW b, IsKept(a), IsKept(b), a # b, a.name = b.name
        PROVE  a.type # b.type /\ a.type # "CNAME"
    <2>1. PICK o \in Kept(z, cs) : o \in ToSet(dns[z]) /\ a = Edited(z, cs, o) /\ Alike(a, o)
      BY <1>3
    <2>2. PICK p \in Kept(z, cs) : p \in ToSet(dns[z]) /\ b = Edited(z, cs, p) /\ Alike(b, p)
      BY <1>3
    <2>3. o # p /\ o.name = p.name
      BY <1>3, <2>1, <2>2 DEF Alike
    <2>4. o.type # p.type /\ o.type # "CNAME"
      BY <1>1, <2>1, <2>2, <2>3 DEF ValidSet
    <2>5. QED  BY <2>1, <2>2, <2>4 DEF Alike
  <1>4. ASSUME NEW a, NEW b, IsKept(a), IsAdded(b), a.name = b.name
        PROVE  a.type # b.type /\ "CNAME" \notin {a.type, b.type}
    <2>1. PICK o \in Kept(z, cs) : o \in ToSet(dns[z]) /\ o \in RRSet /\ Alike(a, o)
      BY <1>4
    <2>2. PICK c \in cs : c.op = "create" /\ Alike(b, c.rrset)
      BY <1>4
    <2>3. o.name = c.rrset.name
      BY <1>4, <2>1, <2>2 DEF Alike
    <2>4. o.type # c.rrset.type /\ "CNAME" \notin {o.type, c.rrset.type}
      BY <2>1, <2>2, <2>3, KeptBesideAdded DEF cs
    <2>5. QED  BY <2>1, <2>2, <2>4 DEF Alike
  <1>5. ASSUME NEW a, NEW b, IsAdded(a), IsAdded(b), a # b, a.name = b.name
        PROVE  a.type # b.type /\ a.type # "CNAME"
    <2>1. PICK c \in cs : /\ c.op = "create" /\ a = InFile(z, c.rrset, {}) /\ Alike(a, c.rrset)
                          /\ <<RRName(z, a), a.type>> = CallId(c)
      BY <1>5
    <2>2. PICK d \in cs : /\ d.op = "create" /\ b = InFile(z, d.rrset, {}) /\ Alike(b, d.rrset)
                          /\ <<RRName(z, b), b.type>> = CallId(d)
      BY <1>5
    <2>3. RRName(z, a) = RRName(z, b)
      BY <1>5 DEF RRName
    <2>4. a.type # b.type
      <3>1. SUFFICES ASSUME a.type = b.type
                     PROVE  FALSE
        OBVIOUS
      <3>2. CallId(d) = CallId(c) /\ c # d
        BY <1>5, <2>1, <2>2, <2>3, <3>1
      <3>3. c \in calls /\ c.zone \in Managed /\ d \in calls
        BY <1>1 DEF cs, CallsOf, Filing
      <3>4. QED  BY <2>1, <2>2, <3>2, <3>3 DEF Filing, CallsSay
    <2>5. WishesFor(CallId(c)) # {} /\ WishesFor(CallId(d)) # {}
      BY <2>1, <2>2, FiledCalls DEF cs
    <2>6. WishesFor(<<RRName(z, a), a.type>>) # {} /\ WishesFor(<<RRName(z, a), b.type>>) # {}
      BY <2>1, <2>2, <2>3, <2>5
    <2>7. "CNAME" \notin {a.type, b.type}
      BY <2>4, <2>6, WishedTogether DEF Filing, KeepInv
    <2>8. QED  BY <2>4, <2>7
  <1> HIDE DEF IsKept, IsAdded
  <1>6. ASSUME NEW a \in Content(z, cs, added), NEW b \in Content(z, cs, added), a # b, a.name = b.name
        PROVE  a.type # b.type /\ a.type # "CNAME"
    <2>1. CASE IsKept(a) /\ IsKept(b)
      BY <1>3, <1>6, <2>1
    <2>2. CASE IsKept(a) /\ IsAdded(b)
      BY <1>4, <1>6, <2>2
    <2>3. CASE IsAdded(a) /\ IsKept(b)
      <3>1. b.type # a.type /\ "CNAME" \notin {b.type, a.type}
        BY <1>4, <1>6, <2>3
      <3>2. QED  BY <3>1
    <2>4. CASE IsAdded(a) /\ IsAdded(b)
      BY <1>5, <1>6, <2>4
    <2>5. QED  BY <1>2, <1>6, <2>1, <2>2, <2>3, <2>4
  <1>7. QED  BY <1>6 DEF ValidSet, cs

\* Labels do not count in the bulk mode, and the records of a zonefile are the same
\* with any.
LEMMA MeansAnyLabels ==
  ASSUME bulk, NEW z \in Zone, NEW rr \in RRSet, NEW k \in SUBSET Key, NEW l \in SUBSET Key, NEW ep,
         Means(z, InFile(z, rr, k), ep)
  PROVE  Means(z, InFile(z, rr, l), ep)
  <1>1. /\ InFile(z, rr, k).type = rr.type /\ InFile(z, rr, l).type = rr.type
        /\ ToSet(InFile(z, rr, k).records) = ToSet(InFile(z, rr, l).records)
    BY InFileRecords
  <1>2. Said(z, InFile(z, rr, k)) = Said(z, InFile(z, rr, l))
    BY <1>1 DEF Said
  <1>3. QED  BY <1>2 DEF Means

\* A call of the file that is taken fulfils its id.
LEMMA FileFulfils ==
  ASSUME NEW z, NEW added, Filing(z), Filed(z, added), UNCHANGED <<want, bulk>>, NEW c \in CallsOf(z), Plain(CallId(c))
  PROVE  Fulfilled(CallId(c))'
  <1> DEFINE cs == CallsOf(z)
             id == CallId(c)
  <1>1. /\ TypeOK /\ z \in Zone /\ cs \in SUBSET Call /\ \A d \in cs : d.zone = z
        /\ z = FindZone(Zone, id[1]) /\ c \in Call /\ c.rrset \in RRSet
        /\ added \in OneOfEachName(New(z, cs))
    BY FiledCalls DEF Filing, CallsOf, Filed
  <1>2. Bearers(z, id)' = BornBy(z, Content(z, cs, added), id)
    BY FileIsValid, BearersAreBorn DEF Filed, BornBy
  <1>3. \A d \in cs : CallId(d) = id =>
          /\ d.op = "create" <=> Bearers(z, id) = {}
          /\ d.op = "delete" <=> WishesFor(id) = {}
    <2>1. ASSUME NEW d \in cs, CallId(d) = id
          PROVE  /\ d.op = "create" <=> Bearers(z, id) = {}
                 /\ d.op = "delete" <=> WishesFor(id) = {}
      <3>1. /\ d.op = "create" <=> Bearers(z, CallId(d)) = {}
            /\ d.op = "delete" => WishesFor(CallId(d)) = {}
            /\ d.op # "delete" => WishesFor(CallId(d)) # {}
        BY FiledCalls
      <3>2. QED  BY <2>1, <3>1
    <2>2. QED  BY <2>1
  <1>9. ASSUME NEW d \in cs, CallId(d) = id, d.op # "delete"
        PROVE  Parses(d.rrset) /\ \E ep \in WishesFor(id) : Means(z, InFile(z, d.rrset, {}), ep)
    <2>1. PICK ep \in WishesFor(id) :
            Unsayable(ep) \/ (Parses(d.rrset) /\ Means(z, InFile(z, d.rrset, {}), ep))
      BY <1>9, FiledCalls
    <2>2. ~Unsayable(ep)
      BY <2>1 DEF Plain, WishesFor
    <2>3. QED  BY <2>1, <2>2
  <1>4. CASE c.op = "delete"
    <2>1. WishesFor(id) = {} /\ \A d \in cs : d.op = "create" => CallId(d) # id
      BY <1>3, <1>4
    <2>2. BornBy(z, Content(z, cs, added), id) = {}
      BY <1>1, <1>4, <2>1, FileDeletes
    <2> HIDE DEF cs, id
    <2>3. Fulfilled(id)'
      BY <1>1, <1>2, <2>1, <2>2, FulfilledBy
    <2>4. QED  BY <2>3 DEF id
  <1>5. ASSUME c.op # "delete", NEW d \in cs, CallId(d) = id, NEW labels \in SUBSET Key,
               Bearers(z, id)' = {InFile(z, d.rrset, labels)}
        PROVE  Fulfilled(id)'
    <2>1. d.op # "delete"
      BY <1>3, <1>5
    <2>2. PICK ep \in WishesFor(id) : Means(z, InFile(z, d.rrset, {}), ep)
      BY <1>5, <1>9, <2>1
    <2>4. d.rrset \in RRSet /\ {} \in SUBSET Key
      BY <1>5, FiledCalls
    <2>5. Means(z, InFile(z, d.rrset, labels), ep)
      BY <1>1, <2>2, <2>4, MeansAnyLabels DEF Filing
    <2> HIDE DEF cs, id
    <2>6. QED  BY <1>1, <1>5, <2>2, <2>5, FulfilledBy
  <1>6. CASE c.op = "create"
    <2>1. Bearers(z, id) = {} /\ Parses(c.rrset)
      BY <1>3, <1>6, <1>9
    <2>2. \A d \in cs : d.op = "create" /\ CallId(d) = id => d = c
      BY <1>1, <1>6 DEF Filing, CallsSay, CallsOf
    <2>3. BornBy(z, Content(z, cs, added), id) = {InFile(z, c.rrset, {})}
      BY <1>1, <1>6, <2>1, <2>2, FileCreates
    <2>4. Bearers(z, id)' = {InFile(z, c.rrset, {})} /\ {} \in SUBSET Key
      BY <1>2, <2>3
    <2>5. Fulfilled(id)'
      BY <1>5, <1>6, <2>4
    <2>6. QED  BY <2>5
  <1>7. CASE c.op = "update"
    <2>1. Bearers(z, id) # {} /\ WishesFor(id) # {} /\ Parses(c.rrset)
      BY <1>3, <1>7, <1>9
    <2>2. PICK rr \in Bearers(z, id) : TRUE
      BY <2>1
    <2>3. Bearers(z, id) = {rr}
      BY <1>1, <2>2, BearerIsOne DEF Filing, KeepInv, ZonesDecent
    <2>4. \A d \in cs : CallId(d) = id => d.op = "update"
      <3>1. \A d \in cs : d.op \in {"create", "update", "delete"}
        BY <1>1 DEF Call
      <3>2. QED  BY <1>3, <2>1, <3>1
    <2>5. PICK d \in cs : /\ d.op = "update" /\ CallId(d) = id /\ Parses(d.rrset)
                          /\ BornBy(z, Content(z, cs, added), id) = {InFile(z, d.rrset, rr.labels)}
      BY <1>1, <1>7, <2>1, <2>3, <2>4, FileUpdates
    <2>6. rr.labels \in SUBSET Key
      <3>1. rr \in ToSet(dns[z])
        BY <2>2 DEF Bearers
      <3>2. rr \in RRSet
        BY <1>1, <3>1, ToSetFinite DEF TypeOK
      <3>3. QED  BY <3>2, RRSetFields
    <2>7. Bearers(z, id)' = {InFile(z, d.rrset, rr.labels)}
      BY <1>2, <2>5
    <2>8. Fulfilled(id)'
      BY <1>5, <1>7, <2>5, <2>6, <2>7
    <2>9. QED  BY <2>8
  <1>8. QED  BY <1>1, <1>4, <1>6, <1>7 DEF Call

\* What a step of the bulk mode meets: zone z is filed, while the calls are known to
\* do what is left to do.
Writing(z, added) ==
  /\ OwnedInUnicode /\ WishesOrderly /\ Typed /\ NamesInv /\ KeepInv /\ CallsSay(calls)
  /\ bulk /\ ~Blocked /\ Filed(z, added)

LEMMA WritingIsFiling ==
  ASSUME NEW z, NEW added, Writing(z, added), z \in Managed
  PROVE  Filing(z)
  BY DEF Writing, Filing, Filed, Typed

LEMMA CallsBearHome ==
  ASSUME NEW z, NEW added, Writing(z, added), NEW c \in calls
  PROVE  c \in Call /\ c.zone \in Zone /\ c.zone = FindZone(Zone, CallId(c)[1])
  <1>1. c \in Call /\ c.zone \in Zone
    BY DEF Writing, Typed, TypeOK, Call
  <1>2. Meets(c.zone, c.rrset)
    BY DEF Writing, NamesInv
  <1>3. c.zone = FindZone(Zone, RRName(c.zone, c.rrset))
    BY <1>1, <1>2, MeetsZone DEF Writing
  <1>4. QED  BY <1>1, <1>3 DEF CallId

\* An id that no call of the file is about keeps its recordsets.
LEMMA FileSpares ==
  ASSUME NEW z, NEW added, Writing(z, added), NEW id, FindZone(Zone, id[1]) \in Managed,
         \A c \in CallsOf(z) : CallId(c) # id
  PROVE  Bearers(FindZone(Zone, id[1]), id)' = Bearers(FindZone(Zone, id[1]), id)
  <1> DEFINE y == FindZone(Zone, id[1])
  <1>1. y \in Zone
    BY DEF Managed
  <1>2. CASE y # z
    <2>1. dns'[y] = dns[y]
      BY <1>1, <1>2 DEF Writing, Filed
    <2> HIDE DEF y
    <2>2. Bearers(y, id)' = Bearers(y, id)
      BY <2>1, BearersAreBorn DEF BornBy
    <2>3. QED  BY <2>2 DEF y
  <1>3. CASE y = z
    <2>1. ToSet(dns'[z]) = Content(z, CallsOf(z), added)
      BY <1>3, WritingIsFiling, FileIsValid DEF Writing, Filed
    <2>2. BornBy(z, Content(z, CallsOf(z), added), id) = Bearers(z, id)
      <3>1. /\ TypeOK /\ z \in Zone /\ CallsOf(z) \in SUBSET Call /\ \A c \in CallsOf(z) : c.zone = z
            /\ added \in OneOfEachName(New(z, CallsOf(z)))
        BY DEF Writing, Filed, Typed, CallsOf
      <3>2. QED  BY <3>1, FileLeaves
    <2>3. Bearers(z, id)' = Bearers(z, id)
      BY <2>1, <2>2, BearersAreBorn DEF BornBy
    <2>4. QED  BY <1>3, <2>3
  <1>4. QED  BY <1>2, <1>3

\* An unwished id that some call of the file is about is gone.
LEMMA FileClears ==
  ASSUME NEW z, NEW added, Writing(z, added), NEW c \in CallsOf(z), z \in Managed, WishesFor(CallId(c)) = {}
  PROVE  Bearers(z, CallId(c))' = {}
  <1>1. /\ Filing(z) /\ TypeOK /\ z \in Zone /\ CallsOf(z) \in SUBSET Call
        /\ added \in OneOfEachName(New(z, CallsOf(z)))
    BY WritingIsFiling DEF Writing, Filed, Typed
  <1>2. ToSet(dns'[z]) = Content(z, CallsOf(z), added)
    BY <1>1, FileIsValid DEF Writing, Filed
  <1>3. c.op = "delete"
    BY <1>1, FiledCalls
  <1>4. \A d \in CallsOf(z) : d.op = "create" => CallId(d) # CallId(c)
    <2>1. ASSUME NEW d \in CallsOf(z), d.op = "create"
          PROVE  CallId(d) # CallId(c)
      <3>1. WishesFor(CallId(d)) # {}
        BY <1>1, <2>1, FiledCalls
      <3>2. QED  BY <3>1
    <2>2. QED  BY <2>1
  <1>5. \A d \in CallsOf(z) : d.zone = z
    BY DEF CallsOf
  <1>6. BornBy(z, Content(z, CallsOf(z), added), CallId(c)) = {}
    BY <1>1, <1>3, <1>4, <1>5, FileDeletes
  <1>7. QED  BY <1>2, <1>6, BearersAreBorn DEF BornBy

\* After the step an id is as wished, if a call of the file was about it, or else
\* as it was before.
LEMMA FileWishes ==
  ASSUME NEW z, NEW added, Writing(z, added), UNCHANGED <<want, bulk>>, NEW id, Plain(id)
  PROVE  /\ (\E c \in CallsOf(z) : CallId(c) = id) => Fulfilled(id)'
         /\ (\A c \in CallsOf(z) : CallId(c) # id) => (Fulfilled(id)' <=> Fulfilled(id))
  <1>1. ASSUME NEW c \in CallsOf(z), CallId(c) = id
        PROVE  Fulfilled(id)'
    <2>1. c \in calls /\ c.zone = z
      BY DEF CallsOf
    <2>2. z = FindZone(Zone, id[1])
      BY <1>1, <2>1, CallsBearHome
    <2>3. Filing(z) /\ Filed(z, added)
      BY <2>2, WritingIsFiling DEF Plain, Writing
    <2>4. QED  BY <1>1, <2>3, FileFulfils
  <1>2. ASSUME \A c \in CallsOf(z) : CallId(c) # id
        PROVE  Fulfilled(id)' <=> Fulfilled(id)
    <2>1. Bearers(FindZone(Zone, id[1]), id)' = Bearers(FindZone(Zone, id[1]), id)
      BY <1>2, FileSpares DEF Plain
    <2>2. QED  BY <2>1, FulfilledStays
  <1>3. QED  BY <1>1, <1>2

LEMMA FileCallsSay ==
  ASSUME NEW z, NEW added, Writing(z, added), UNCHANGED <<want, bulk>>, \A id : Plain(id)' <=> Plain(id)
  PROVE  CallsInv'
  <1>1. \A c, ep : (Grants(c, ep)' <=> Grants(c, ep)) /\ CallId(c)' = CallId(c)
    BY GrantsStay
  <1>2. \A id : WishesFor(id)' = WishesFor(id) /\ (TakesApex(id)' <=> TakesApex(id))
    BY WishesStay DEF SameAsked
  <1>3. calls' = {c \in calls : c.zone # z} /\ CallsSay(calls) /\ bulk /\ z \in Zone
        /\ \A y \in Zone \ {z} : dns'[y] = dns[y]
    BY DEF Writing, Filed
  <1>4. ASSUME NEW c \in calls'
        PROVE  IF c.op = "delete" THEN WishesFor(CallId(c))' = {} ELSE
               TakesApex(CallId(c))' \/ \E ep \in WishesFor(CallId(c))' : Grants(c, ep)'
    <2>1. IF c.op = "delete" THEN WishesFor(CallId(c)) = {} ELSE
          TakesApex(CallId(c)) \/ \E ep \in WishesFor(CallId(c)) : Grants(c, ep)
      BY <1>3 DEF CallsSay
    <2>2. QED  BY <1>1, <1>2, <2>1
  <1>5. ASSUME NEW id \in Owned, Plain(id)', \A c \in calls' : CallId(c) # id
        PROVE  Fulfilled(id)'
    <2>1. CASE \E c \in CallsOf(z) : CallId(c) = id
      BY <1>5, <2>1, FileWishes
    <2>2. CASE \A c \in CallsOf(z) : CallId(c) # id
      <3>1. \A c \in calls : CallId(c) # id
        BY <1>3, <1>5, <2>2 DEF CallsOf
      <3>2. Fulfilled(id)
        BY <1>3, <1>5, <3>1 DEF CallsSay
      <3>3. QED  BY <1>5, <2>2, <3>2, FileWishes
    <2>3. QED  BY <2>1, <2>2
  <1>6. ASSUME NEW id \in Owned, Leftover(id)'
        PROVE  \E c \in calls' : c.op = "delete" /\ CallId(c) = id
    <2> DEFINE y == FindZone(Zone, id[1])
    <2>1. Matches(id[1]) /\ y \in Managed /\ WishesFor(id) = {} /\ Bearers(y, id)' # {}
      BY <1>2, <1>6 DEF Leftover
    <2>2. \A c \in CallsOf(z) : CallId(c) # id
      <3>1. ASSUME NEW c \in CallsOf(z), CallId(c) = id
            PROVE  FALSE
        <4>1. z = y
          BY <3>1, CallsBearHome DEF CallsOf
        <4>2. Bearers(z, CallId(c))' = {}
          BY <2>1, <3>1, <4>1, FileClears
        <4>3. QED  BY <2>1, <3>1, <4>1, <4>2
      <3>2. QED  BY <3>1
    <2>3. Bearers(y, id)' = Bearers(y, id)
      BY <2>1, <2>2, FileSpares
    <2>4. Leftover(id)
      BY <2>1, <2>3 DEF Leftover
    <2>5. PICK c \in calls : c.op = "delete" /\ CallId(c) = id
      BY <1>3, <2>4 DEF CallsSay
    <2>6. c \in calls'
      BY <1>3, <2>2, <2>5 DEF CallsOf
    <2>7. QED  BY <2>5, <2>6
  <1>7. ASSUME NEW c \in calls', c.zone \in Managed
        PROVE  /\ Matches(CallId(c)[1])
               /\ c.op = "create" <=> Bearers(c.zone, CallId(c))' = {}
               /\ c.op = "create" => \A d \in calls' : d.op = "create" /\ CallId(d) = CallId(c) => d = c
    <2>1. c \in calls /\ c.zone \in Zone \ {z} /\ calls' \subseteq calls
      BY <1>3, <1>7 DEF Managed
    <2>2. Bearers(c.zone, CallId(c))' = Bearers(c.zone, CallId(c))
      <3>1. dns'[c.zone] = dns[c.zone]
        BY <1>3, <2>1
      <3>2. QED  BY <3>1, BearersAreBorn DEF BornBy
    <2>3. /\ Matches(CallId(c)[1])
          /\ c.op = "create" <=> Bearers(c.zone, CallId(c)) = {}
          /\ c.op = "create" => \A d \in calls : d.op = "create" /\ CallId(d) = CallId(c) => d = c
      BY <1>3, <1>7, <2>1 DEF CallsSay
    <2>4. QED  BY <2>1, <2>2, <2>3
  <1>8. QED  BY <1>1, <1>4, <1>5, <1>6, <1>7 DEF CallsInv

LEMMA FileWished ==
  ASSUME WishesOrderly, OwnedInUnicode, Typed, NamesInv, KeepInv, WishInv, applyZoneChanges
  PROVE  WishInv'
  <1>1. /\ UNCHANGED <<want, bulk, settled, quiet>> /\ pc = "apply" /\ pc' = "apply" /\ bulk /\ Cycle
    BY DEF applyZoneChanges, context, history, Cycle
  <1>0. PICK z \in Zone : \E added : Filed(z, added)
    BY ZoneIsFiled
  <1>2. PICK added : Filed(z, added)
    BY <1>0
  <1>3. CASE Blocked
    <2>1. Blocked'
      BY <1>1, <1>2, <1>3, BlockedStays DEF Typed
    <2>2. QED  BY <1>1, <2>1 DEF WishInv
  <1>4. CASE ~Blocked /\ ~quiet
    BY <1>1, <1>4 DEF WishInv
  <1>5. CASE ~Blocked /\ quiet
    <2>1. CallsSay(calls)
      BY <1>1, <1>5 DEF WishInv, CallsInv, CallsSay
    <2>2. Writing(z, added)
      BY <1>1, <1>2, <1>5, <2>1 DEF Writing
    <2>3. \A id : Plain(id)' <=> Plain(id)
      BY <1>1, PlainAfterWrite
    <2>4. CallsInv'
      BY <1>1, <2>2, <2>3, FileCallsSay
    <2>5. ReadInv' /\ PlanInv'
      BY <1>1 DEF ReadInv, PlanInv
    <2>6. ASSUME settled, NEW id \in Owned, Plain(id)'
          PROVE  Fulfilled(id)'
      <3>1. Plain(id) /\ Fulfilled(id)
        BY <1>5, <2>3, <2>6 DEF WishInv
      <3>2. QED  BY <1>1, <2>2, <3>1, FileWishes
    <2>7. QED  BY <1>1, <1>5, <2>4, <2>5, <2>6 DEF WishInv
  <1>6. QED  BY <1>3, <1>4, <1>5

-----------------------------------------------------------------------------
(* The two together.                                                       *)

LEMMA WishInit == Init => WishInv
  BY DEF Init, WishInv

LEMMA WishNext ==
  ASSUME Orderly, Typed, Fetching, NamesInv, KeepInv, WishInv, [Next]_vars
  PROVE  WishInv'
  <1>1. WishesOrderly /\ OwnedInUnicode
    BY DEF Orderly
  <1>2. CASE StartRecords \/ StartApply
    BY <1>2, StartWished
  <1>3. CASE FetchPage
    BY <1>3, FetchPageWished
  <1>4. CASE ReturnRecords
    BY <1>4, ReturnReadWished
  <1>5. CASE AdjustEndpoints
    BY <1>1, <1>5, AdjustWished
  <1>6. ASSUME EndCycle(FALSE), UNCHANGED <<dns, want, bulk>>
        PROVE  WishInv'
    <2>1. FALSE \in BOOLEAN
      OBVIOUS
    <2>2. QED  BY <1>6, <2>1, EndWished
  <1>7. CASE AdjustEndpointsFails \/ CallRefused
    BY <1>6, <1>7 DEF AdjustEndpointsFails, CallRefused, context
  <1>8. CASE ReturnUnchanged \/ ReturnApplied
    BY <1>8, ReturnWished
  <1>9. CASE Queue
    BY <1>1, <1>9, QueueWished
  <1>10. CASE DoCall
    BY <1>1, <1>10, CallWished
  <1>11. CASE applyZoneChanges
    BY <1>1, <1>11, FileWished
  <1>12. CASE Restart
    <2>1. UNCHANGED <<dns, want, bulk>>
      BY <1>12 DEF Restart
    <2>2. CASE pc \in {"fetch", "apply"}
      BY <1>6, <1>12, <2>1, <2>2 DEF Restart
    <2>3. CASE pc \notin {"fetch", "apply"}
      <3>1. UNCHANGED <<pc, request, plan, history>>
        BY <1>12, <2>3 DEF Restart
      <3>2. QED  BY <2>1, <3>1, UntouchedWished
    <2>4. QED  BY <2>2, <2>3
  <1>13. CASE (\E z \in Zone : ForeignCreate(z) \/ ForeignDelete(z)) \/ ChangeWant
    <2>1. Disturb
      BY <1>13 DEF ForeignCreate, ForeignDelete, ChangeWant
    <2>2. QED  BY <2>1, DisturbWished
  <1>14. CASE UNCHANGED vars
    <2>1. UNCHANGED <<dns, want, bulk, pc, request, plan, history>>
      BY <1>14 DEF vars, request, history
    <2>2. QED  BY <2>1, UntouchedWished
  <1>15. QED
    BY <1>2, <1>3, <1>4, <1>5, <1>7, <1>8, <1>9, <1>10, <1>11, <1>12, <1>13, <1>14
    DEF Next, Cycle, Outside

\* What was read during an undisturbed cycle is what the zones hold, the plan names
\* every owned id that is not as wished, and the calls that are left, whatever of
\* them is already done, do what is left to do.
\* (Records, AdjustEndpoints, ApplyChanges of either mode)
THEOREM CyclesWorkOnWishes ==
  ASSUME Orderly
  PROVE  Spec => []WishInv
  <1> DEFINE Held == Fetching /\ NamesInv /\ KeepInv /\ WishInv
  <1>1. Init => Held
    BY FetchingInit, NamesInit, KeepInit, WishInit DEF Orderly
  <1>2. ASSUME Typed, Held, [Next]_vars
        PROVE  Held'
    <2>1. Fetching'
      BY <1>2, FetchingNext DEF Typed
    <2>2. NamesInv'
      BY <1>2, NamesNext DEF Orderly
    <2>3. KeepInv'
      BY <1>2, KeepNext
    <2>4. WishInv'
      BY <1>2, WishNext
    <2>5. QED  BY <2>1, <2>2, <2>3, <2>4
  <1>3. Typed /\ Held /\ [Next]_vars => Held'
    BY <1>2
  <1>4. Held => WishInv
    OBVIOUS
  <1> HIDE DEF Held
  <1>5. QED  BY <1>1, <1>3, <1>4, AlwaysTyped, PTL DEF Spec

\* After a cycle that nobody disturbed, though the webhook may have been restarted
\* in it, each plain name that the cluster wants has the one recordset that says
\* what was asked, and no other owned one is left, in the regular and in the bulk
\* mode, for any zones, names, pages and filters.  (Records, AdjustEndpoints,
\* ApplyChanges, processCreateActions, runZoneChanges)
THEOREM CyclesMeanWhatIsWished ==
  ASSUME Orderly
  PROVE  Spec => []CycleMeansWished
  <1>1. WishInv => CycleMeansWished
    BY DEF WishInv, CycleMeansWished
  <1>2. QED  BY <1>1, CyclesWorkOnWishes, PTL

=============================================================================
