------------------------------- MODULE Rules --------------------------------
(***************************************************************************)
(* The rule engine: Build turns the lines of the Clash configuration into  *)
(* rules, Engine.Match finds the first that matches a request, and the     *)
(* SOCKS server's route dials accordingly.                                 *)
(*                                                                         *)
(* A host is its sequence of labels, in lower case and without a trailing  *)
(* dot, as NormalizeHost leaves it; <<>> is the empty string a request for *)
(* an IP address has.  A line is what Parse makes of its text: its type,   *)
(* argument and adapter, and whether it is well formed.  A regular         *)
(* expression and a CIDR are the hosts and the addresses they match.  The  *)
(* categories of GEOSITE lines come from geosite.dat (GeoData).            *)
(***************************************************************************)
EXTENDS Integers, Sequences, FiniteSets, GeoData

CONSTANTS
  ConfigLines,  \* lines that may occur: records [typ, arg, adapter, ok]
  MaxLines,     \* bound: lines of a configuration
  Requests,     \* records [host, ip, port]
  NoIP,         \* the ip of a request for a host
  Files,        \* contents geosite.dat may have; one that cannot be opened or
                \* read is like one whose first field cannot be read
  NoPath,       \* no path to a geosite.dat is configured
  RegexHosts,   \* text -> the hosts it matches; other texts do not compile
  LabelsWith    \* keyword -> the labels that contain it as text

(* A host is a sequence of labels; a file is one of fields; a line that is *)
(* well formed has an argument, and a network holds addresses.             *)
ASSUME RulesAssumption ==
  /\ MaxLines \in Nat
  /\ \A r \in Requests : r.host \in Seq(STRING)
  /\ \A f \in Files : GeoSiteListMessage(f)
  /\ \A l \in ConfigLines : l.ok =>
       /\ l.typ = "DOMAIN-SUFFIX" => l.arg \in Seq(STRING) \ {<<>>}
       /\ l.typ \in {"IP-CIDR", "IP-CIDR6"} => NoIP \notin l.arg

VARIABLES
  file,    \* geosite.dat
  sites,   \* Loader.sites: category -> sequence of records [typ, value]
  lines,   \* ClashConfig.Rules; <<>> also when there is no configuration
  engine,  \* Engine.rules
  pc,      \* "load", "exit", "build", "idle", "match", "routed"
  next,    \* the line Build, or the rule Match, looks at
  req,     \* the request
  dest     \* where it went: "ssh", "direct" or "blocked"; "none" before

vars == <<file, sites, lines, engine, pc, next, req, dest>>

TypeOK ==
  /\ lines \in Seq(ConfigLines) /\ engine \in Seq(ConfigLines)
  /\ Len(engine) <= Len(lines) /\ Len(lines) <= MaxLines
  /\ file \in Files \cup {NoPath}
  /\ pc \in {"load", "exit", "build", "idle", "match", "routed"}
  /\ next \in 1 .. MaxLines + 1
  /\ req \in Requests
  /\ dest \in {"none", "ssh", "direct", "blocked"}

Init ==
  /\ lines \in UNION {[1 .. n -> ConfigLines] : n \in 0 .. MaxLines}
  /\ file \in Files \cup {NoPath} /\ sites = <<>>
  /\ engine = <<>> /\ pc = "load" /\ next = 1
  /\ req \in Requests /\ dest = "none"

-----------------------------------------------------------------------------
(* Build and Parse.                                                        *)

(* Without a path the store has no loader.                                 *)
LoadSites ==
  /\ pc = "load" /\ (file # NoPath => GeoSiteListOK(file))
  /\ sites' = IF file = NoPath THEN <<>> ELSE DecodeGeoSiteList(file)
  /\ pc' = "build"
  /\ UNCHANGED <<file, lines, engine, next, req, dest>>

LoadFails == \* main exits
  /\ pc = "load" /\ file # NoPath /\ ~GeoSiteListOK(file) /\ pc' = "exit"
  /\ UNCHANGED <<file, sites, lines, engine, next, req, dest>>

Cidr == {"IP-CIDR", "IP-CIDR6"}   \* one kind of rule
Supported == {"DOMAIN", "DOMAIN-SUFFIX", "DOMAIN-KEYWORD", "DOMAIN-REGEX",
              "DST-PORT", "GEOSITE", "MATCH"} \cup Cidr

(* GeoSiteStore.Get: a category geosite.dat does not have, or has without  *)
(* a domain, is an error.                                                  *)
Known(line) ==
  line.typ = "GEOSITE" => line.arg \in DOMAIN sites /\ sites[line.arg] # <<>>

Parses(line) == line.typ \in Supported /\ line.ok /\ Known(line)

AddFirst == \* mutant: a rule goes before those added earlier
  /\ pc = "build" /\ next <= Len(lines) /\ Parses(lines[next])
  /\ engine' = <<lines[next]>> \o engine /\ next' = next + 1
  /\ UNCHANGED <<file, sites, lines, pc, req, dest>>

Add ==
  /\ pc = "build" /\ next <= Len(lines) /\ Parses(lines[next])
  /\ engine' = Append(engine, lines[next]) /\ next' = next + 1
  /\ UNCHANGED <<file, sites, lines, pc, req, dest>>

Skip == \* logged when it is an error, silent for unsupported types
  /\ pc = "build" /\ next <= Len(lines) /\ ~Parses(lines[next])
  /\ next' = next + 1
  /\ UNCHANGED <<file, sites, lines, engine, pc, req, dest>>

Built ==
  /\ pc = "build" /\ next > Len(lines) /\ pc' = "idle" /\ next' = 1
  /\ UNCHANGED <<file, sites, lines, engine, req, dest>>

Build == LoadSites \/ LoadFails \/ Add \/ Skip \/ Built

-----------------------------------------------------------------------------
(* The rules.                                                              *)

Suffix(h, i) == SubSeq(h, i, Len(h))

(* DomainMatcher, as GeoSiteStore.Get fills it: types are numbered Domain, *)
(* Full, Regex, Keyword; another type is in no case of the switch.         *)
Values(category, types) ==
  {d.value : d \in {e \in {sites[category][i] : i \in DOMAIN sites[category]} :
                     e.typ \in types}}
Contains(category, h) ==
  /\ h # <<>>
  /\ \/ h \in Values(category, {1})
     \/ \E i \in DOMAIN h : Suffix(h, i) \in Values(category, {0, 3})
     \/ \E re \in Values(category, {2}) \cap DOMAIN RegexHosts : h \in RegexHosts[re]

HasKeyword(h, kw) == \E i \in DOMAIN h : h[i] \in LabelsWith[kw]

HasSuffix(h, s) == Len(h) > Len(s) /\ s # <<>> /\ Suffix(h, Len(h) - Len(s) + 1) = s

Matches(rule, r) ==
  CASE rule.typ = "DOMAIN"         -> r.host = rule.arg
    [] rule.typ = "DOMAIN-SUFFIX"  -> r.host = rule.arg \/ HasSuffix(r.host, rule.arg)
    [] rule.typ = "DOMAIN-KEYWORD" -> HasKeyword(r.host, rule.arg)
    [] rule.typ = "DOMAIN-REGEX"   -> r.host \in rule.arg
    [] rule.typ \in Cidr           -> r.ip # NoIP /\ r.ip \in rule.arg
    [] rule.typ = "DST-PORT"       -> r.port = rule.arg
    [] rule.typ = "GEOSITE"        -> Contains(rule.arg, r.host)
    [] rule.typ = "MATCH"          -> TRUE

-----------------------------------------------------------------------------
(* Server.route and Engine.Match.                                          *)

(* Any adapter that is neither REJECT nor DIRECT means the tunnel.         *)
Route(adapter) == CASE adapter = "REJECT" -> "blocked"
                    [] adapter = "DIRECT" -> "direct"
                    [] OTHER              -> "ssh"

Ask == /\ pc = "idle" /\ pc' = "match"
       /\ UNCHANGED <<file, sites, lines, engine, next, req, dest>>

RuleMatches ==
  /\ pc = "match" /\ next <= Len(engine) /\ Matches(engine[next], req)
  /\ dest' = Route(engine[next].adapter) /\ pc' = "routed"
  /\ UNCHANGED <<file, sites, lines, engine, next, req>>

RulePasses ==
  /\ pc = "match" /\ next <= Len(engine) /\ ~Matches(engine[next], req)
  /\ next' = next + 1
  /\ UNCHANGED <<file, sites, lines, engine, pc, req, dest>>

NoRuleMatches == \* "MATCH,DIRECT (implicit)"
  /\ pc = "match" /\ next > Len(engine)
  /\ dest' = Route("DIRECT") /\ pc' = "routed"
  /\ UNCHANGED <<file, sites, lines, engine, next, req>>

Match == RuleMatches \/ RulePasses \/ NoRuleMatches

Next == Build \/ Ask \/ Match

Spec == Init /\ [][Next]_vars

-----------------------------------------------------------------------------
(* What the lines say, without the loops and the tables: a host and its    *)
(* subdomains, a text in it, an address in a network.                      *)
Within(h, domain) == \E n \in 0 .. Len(h) :
                       h = SubSeq(h, 1, n) \o domain /\ domain # <<>>
EntrySays(typ, text, h) ==
  \/ typ = 1 /\ h = text
  \/ typ = 2 /\ text \in DOMAIN RegexHosts /\ h \in RegexHosts[text]
  \/ typ \in {0, 3} /\ Within(h, text)
FileSays(category, h) ==
  h # <<>> /\ \E d \in Written(file, category) : EntrySays(d[1], d[2], h)
Says(line, r) ==
  CASE line.typ = "DOMAIN"         -> r.host = line.arg
    [] line.typ = "DOMAIN-SUFFIX"  -> Within(r.host, line.arg)
    [] line.typ = "DOMAIN-KEYWORD" -> HasKeyword(r.host, line.arg)
    [] line.typ = "DOMAIN-REGEX"   -> r.host \in line.arg
    [] line.typ \in Cidr           -> r.ip \in line.arg
    [] line.typ = "DST-PORT"       -> r.port = line.arg
    [] line.typ = "GEOSITE"        -> FileSays(line.arg, r.host)
    [] line.typ = "MATCH"          -> TRUE

(* A request goes where the first line that is in force and applies to it  *)
(* says, whatever lines before it were skipped; to no line's: direct.      *)
FirstLineDecides ==
  pc = "routed" =>
    LET hits == {i \in DOMAIN lines : Parses(lines[i]) /\ Says(lines[i], req)}
    IN  IF hits = {} THEN dest = "direct"
        ELSE \E i \in hits : (\A j \in hits : i <= j) /\ dest = Route(lines[i].adapter)

(* geosite.dat: a category the program knows covers exactly the hosts that *)
(* the last entry of that name lists, whatever else the file holds and in  *)
(* whatever order its fields come; a file with an error is not used at     *)
(* all, nor a line of a category that lists nothing.                       *)
TableAsWritten ==
  /\ pc \notin {"load", "exit"} /\ file # NoPath =>
       /\ GeoSiteListOK(file)
       /\ \A c \in DOMAIN sites : Contains(c, req.host) <=> FileSays(c, req.host)
  /\ \A i \in DOMAIN engine : engine[i].typ = "GEOSITE" =>
       file # NoPath /\ Written(file, engine[i].arg) # {}
=============================================================================
