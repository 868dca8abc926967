------------------------------ MODULE GeoData -------------------------------
(***************************************************************************)
(* The decoding of geosite.dat.  A protobuf message is the sequence of its *)
(* fields, records [num, wire, val, ok]: the field's number and wire type, *)
(* its value - for an embedded message again a sequence of fields - and    *)
(* whether it can be read at all.  A tag, a length or a varint that runs   *)
(* past the end of the data, as in a file cut short, is a field that is    *)
(* not ok.                                                                 *)
(*                                                                         *)
(* The attributes of a domain are decoded but nobody reads them, and an    *)
(* error inside one is ignored: they are fields that are skipped.          *)
(***************************************************************************)
EXTENDS Integers, Sequences

Is(f, num, wire) == f.num = num /\ f.wire = wire

(* What the loops rely on: a message is a sequence of fields, a domain's   *)
(* text a sequence of labels.                                              *)
Message(fs) == Len(fs) \in Nat /\ DOMAIN fs = 1 .. Len(fs)
DomainMessage(fs) ==
  Message(fs) /\ \A i \in DOMAIN fs : Is(fs[i], 2, "bytes") => fs[i].val \in Seq(STRING)
GeoSiteMessage(fs) ==
  Message(fs) /\ \A i \in DOMAIN fs : Is(fs[i], 2, "bytes") => DomainMessage(fs[i].val)
GeoSiteListMessage(fs) ==
  Message(fs) /\ \A i \in DOMAIN fs : Is(fs[i], 1, "bytes") => GeoSiteMessage(fs[i].val)

(* One error anywhere ends the decoding of the whole file.                 *)
DomainOK(fs) == \A i \in DOMAIN fs : fs[i].ok
GeoSiteOK(fs) ==
  \A i \in DOMAIN fs : fs[i].ok /\ (Is(fs[i], 2, "bytes") => DomainOK(fs[i].val))
GeoSiteListOK(fs) ==
  \A i \in DOMAIN fs : fs[i].ok /\ (Is(fs[i], 1, "bytes") => GeoSiteOK(fs[i].val))

(* A field that occurs again overwrites; a field not known is skipped.     *)
DomainField(d, f) ==
  IF Is(f, 1, "varint") THEN [d EXCEPT !.typ = f.val]
  ELSE IF Is(f, 2, "bytes") THEN [d EXCEPT !.value = f.val] ELSE d

DecodeDomain(fs) ==
  LET upTo[i \in 0 .. Len(fs)] ==
        IF i = 0 THEN [typ |-> 0, value |-> <<>>] ELSE DomainField(upTo[i - 1], fs[i])
  IN  upTo[Len(fs)]

NoName == ""

GeoSiteField(e, f) ==
  IF Is(f, 1, "bytes") THEN [e EXCEPT !.cc = f.val]
  ELSE IF Is(f, 2, "bytes") THEN [e EXCEPT !.domains = Append(@, DecodeDomain(f.val))]
  ELSE e

DecodeGeoSite(fs) ==
  LET upTo[i \in 0 .. Len(fs)] ==
        IF i = 0 THEN [cc |-> NoName, domains |-> <<>>] ELSE GeoSiteField(upTo[i - 1], fs[i])
  IN  upTo[Len(fs)]

EnterOnce(sites, e) == \* mutant: the first entry of a name stays
  IF e.cc = NoName \/ e.cc \in DOMAIN sites THEN sites
  ELSE [c \in DOMAIN sites \cup {e.cc} |-> IF c = e.cc THEN e.domains ELSE sites[c]]

(* An entry without a name is dropped, one whose name occurred before      *)
(* replaces it.                                                            *)
Enter(sites, e) ==
  IF e.cc = NoName THEN sites
  ELSE [c \in DOMAIN sites \cup {e.cc} |-> IF c = e.cc THEN e.domains ELSE sites[c]]

GeoSiteListField(sites, f) ==
  IF Is(f, 1, "bytes") THEN Enter(sites, DecodeGeoSite(f.val)) ELSE sites

DecodeGeoSiteList(fs) ==
  LET upTo[i \in 0 .. Len(fs)] ==
        IF i = 0 THEN <<>> ELSE GeoSiteListField(upTo[i - 1], fs[i])
  IN  upTo[Len(fs)]

-----------------------------------------------------------------------------
(* The same read off the file: what its last field of a kind says.         *)
LastOf(fs, num, wire, default) ==
  LET at == {i \in DOMAIN fs : Is(fs[i], num, wire)}
  IN  IF at = {} THEN default
      ELSE fs[CHOOSE i \in at : \A j \in at : j <= i].val

(* The domains, as pairs of type and text, that the last entry of the      *)
(* category lists.                                                         *)
Written(file, category) ==
  LET named == {i \in DOMAIN file : /\ Is(file[i], 1, "bytes")
                                    /\ LastOf(file[i].val, 1, "bytes", NoName) = category}
      last  == CHOOSE i \in named : \A j \in named : j <= i
  IN  IF named = {} THEN {}
      ELSE {<<LastOf(f.val, 1, "varint", 0), LastOf(f.val, 2, "bytes", <<>>)>> :
              f \in {g \in {file[last].val[k] : k \in DOMAIN file[last].val} :
                       Is(g, 2, "bytes")}}
=============================================================================
