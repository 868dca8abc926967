------------------------------ MODULE MCRules -------------------------------
(* Instances of Rules for TLC.                                             *)
EXTENDS Rules, TLC

Com     == <<"com">>
Example == <<"example", "com">>
Ads     == <<"ads", "example", "com">>
MyAds   == <<"myads", "com">>
MCLabelsWith == [ads |-> {"ads", "myads"}, example |-> {"example"}]

Pattern == <<"^my">>
MCRegexHosts == Pattern :> {MyAds}

(* Files: entries out of order, said twice, with fields nobody knows, with *)
(* another type of domain, cut short.                                      *)
Field(num, wire, val) == [num |-> num, wire |-> wire, val |-> val, ok |-> TRUE]
Cut == [num |-> 0, wire |-> "bytes", val |-> <<>>, ok |-> FALSE]
Name(c) == Field(1, "bytes", c)
Dom(typ, text) ==
  Field(2, "bytes", <<Field(1, "varint", typ), Field(2, "bytes", text), Field(3, "bytes", "cn")>>)
Site(fs) == Field(1, "bytes", fs)

Blocklist == Site(<<Name("blocklist"), Dom(1, Example), Dom(0, Ads), Dom(2, Pattern)>>)
MCFiles ==
  {<<Blocklist, Field(7, "varint", 0), Site(<<Dom(3, <<"ads">>), Name("tracking"), Dom(9, MyAds)>>)>>,
   <<Blocklist, Site(<<Field(2, "bytes", <<Field(2, "bytes", Ads), Field(2, "bytes", MyAds)>>),
                       Name("tracking"), Name("blocklist"), Field(1, "varint", 3)>>),
     Site(<<Dom(0, Com)>>), Site(<<Name("tracking")>>)>>,
   <<Site(<<Name("blocklist"), Dom(2, <<"(">>), Dom(0, <<>>)>>), Blocklist,
     Site(<<Name("blocklist"), Dom(1, Com)>>)>>,
   <<Blocklist, Site(<<Name("tracking"), Field(2, "bytes", <<Field(2, "bytes", Com), Cut>>)>>)>>}

Line(typ, arg, adapter) == [typ |-> typ, arg |-> arg, adapter |-> adapter, ok |-> TRUE]

MCLines ==
  {Line("DOMAIN", Example, "TUNNEL"), Line("DOMAIN", Ads, "DIRECT"),
   Line("DOMAIN-SUFFIX", Example, "REJECT"), Line("DOMAIN-SUFFIX", Com, "TUNNEL"),
   Line("DOMAIN-KEYWORD", "ads", "REJECT"), Line("DOMAIN-REGEX", {Ads}, "TUNNEL"),
   Line("IP-CIDR", {"10.0.0.1"}, "DIRECT"), Line("IP-CIDR6", {"2001:db8::1"}, "REJECT"),
   Line("DST-PORT", 53, "DIRECT"),
   Line("GEOSITE", "blocklist", "REJECT"), Line("GEOSITE", "tracking", "REJECT"),
   Line("GEOSITE", "unknown", "REJECT"), Line("MATCH", "", "TUNNEL"),
   Line("GEOIP", "", "DIRECT"),
   [typ |-> "DOMAIN-SUFFIX", arg |-> Com, adapter |-> "REJECT", ok |-> FALSE]}

MCRequests ==
  {[host |-> h, ip |-> "none", port |-> p] : h \in {Example, Ads, MyAds, Com}, p \in {53, 443}}
  \cup {[host |-> <<>>, ip |-> a, port |-> 443] : a \in {"10.0.0.1", "2001:db8::1"}}
=============================================================================
