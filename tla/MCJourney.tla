----------------------------- MODULE MCJourney -----------------------------
(***************************************************************************)
(* Instances of Journey.  sub.top is a zone nested in top; other is kept   *)
(* out by the domain filter.  xn-u is the ASCII form of the part u; behind *)
(* a priority the part is in the same label, and its form is -u.           *)
(***************************************************************************)
EXTENDS Journey

MCPart == {"top", "sub", "www", "mail", "other", "u", "xn-u", "-u", "odd", "ip", "ip2"}
MCToUnicode == [p \in Part |-> IF p = "xn-u" THEN "u" ELSE p]
MCToASCII == [p \in Part |-> CASE p = "u" -> "xn-u" [] p = "odd" -> Unencodable [] OTHER -> p]

MCPriority == {"10", "20", "x", "xn-10", "xn-20"}
MCBehindPriority ==
  [label \in Priority \X Part |->
     CASE label = <<"10", "u">> -> <<"xn-10", "-u">>
       [] label = <<"20", "u">> -> <<"xn-20", "-u">>
       [] OTHER                 -> label]

Top == <<"top">>
Sub == <<"sub", "top">>
Other == <<"other">>
MCZone == {Top, Sub, Other}

\* The names that the filters may match: one domain filter, one exclusion.
MCConfig ==
  [domains |-> {Top, Sub, Other, <<"www">> \o Top, <<"www">> \o Sub, Top \o Top},
   exclusions |-> {Other}, regexp |-> {}, regexpExclusion |-> {}]

T(prio, name, dot) == [prio |-> prio, name |-> name, dot |-> dot]
Host(name)    == T(NoPriority, name, FALSE)
HostDot(name) == T(NoPriority, name, TRUE)
Ep(name, type, targets, keys) == [name |-> name, type |-> type, targets |-> targets, keys |-> keys]
RR(name, type, records, labels) ==
  [name |-> name, type |-> type, records |-> records, labels |-> labels]

Www == <<"www">> \o Top
Deep == <<"www">> \o Sub

\* A local and a labelled CNAME, an MX of the apex; both written with dots.
WishDots ==
  {Ep(Www, "CNAME", <<HostDot(<<"mail">> \o Top)>>, {<<"a", Escape, "b">>}),
   Ep(Top, "MX", <<T("10", Top, TRUE), T("20", <<"mail">> \o Other, TRUE)>>, {})}
\* Hosts of other zones and an address in the nested zone; labels that do not
\* parse.
WishAway ==
  {Ep(Www, "CNAME", <<Host(Other)>>, {<<Escape, "b">>}),
   Ep(Deep, "A", <<Host(<<"ip">>)>>, {})}
\* The zone itself as a target; the same values in another order.
WishApex ==
  {Ep(Www, "CNAME", <<Host(Top)>>, {}),
   Ep(Top, "MX", <<T("20", <<"mail">> \o Other, FALSE), T("10", Top, FALSE)>>, {})}
\* The alias becomes an address.
WishMoved == {Ep(Www, "A", <<Host(<<"ip">>)>>, {})}
\* An alias of the apex, and one that is asked for as somebody else may store it.
WishBare ==
  {Ep(Top, "CNAME", <<Host(Other)>>, {}),
   Ep(Www, "CNAME", <<HostDot(<<"mail">> \o Top)>>, {})}
\* Targets in Unicode.
WishUnicode ==
  {Ep(Www, "CNAME", <<HostDot(<<"u">> \o Top)>>, {}),
   Ep(Top, "MX", <<T("10", <<"mail", "u">> \o Other, FALSE)>>, {})}
\* A priority is lost with a host in Unicode; next to it an address with a final
\* dot.
WishUnicodeMX ==
  {Ep(Top, "MX", <<T("10", <<"u">> \o Top, FALSE)>>, {}),
   Ep(Deep, "A", <<HostDot(<<"ip">>)>>, {})}
\* Wishes that cannot be fulfilled.
WishRepeats == {Ep(Top \o Top, "CNAME", <<Host(Other)>>, {})}
WishOdd     == {Ep(Www, "CNAME", <<Host(<<"odd">> \o Top)>>, {})}
WishFormless == {Ep(Top, "MX", <<T("x", <<"mail">> \o Top, FALSE)>>, {})}

MCWishes ==
  {WishDots, WishAway, WishApex, WishUnicode, WishUnicodeMX, WishRepeats, WishOdd,
   WishFormless, WishMoved, WishBare, {}}

MCUnicodeMX == {WishUnicodeMX}

\* Nothing; a name of the nested zone, and what was left behind of it in the zone
\* above, next to a recordset of the apex that nobody owns.
Left == RR(<<"www", "sub">>, "A", <<Host(<<"ip">>)>>, {})
Moved == RR(<<"www">>, "A", <<Host(<<"ip2">>)>>, {})
Loose1 == RR(<<"mail">>, "A", <<Host(<<"ip">>)>>, {<<"a", Slash, "b">>})
Loose2 == RR(<<At>>, "A", <<Host(<<"ip">>)>>, {})
MCStartDNS ==
  {Empty, [Empty EXCEPT ![Top] = <<Left, Loose2>>, ![Sub] = <<Moved>>]}

\* A recordset of a wanted name, stored in the unusual long form, and another.
MCEdits == {RR(<<"www">>, "CNAME", <<HostDot(<<"mail">> \o Top)>>, {}), Loose1}

\* The instance is one that the theorems are about.
ASSUME InstanceIsOrderly == Orderly
=============================================================================
