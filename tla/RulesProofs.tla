---------------------------- MODULE RulesProofs -----------------------------
(***************************************************************************)
(* Theorems about Rules for configurations, requests and files of any kind *)
(* and size: the table of categories is what the file says, and the first  *)
(* line that applies decides.                                              *)
(***************************************************************************)
EXTENDS Rules, WellFoundedInduction, TLAPS

-----------------------------------------------------------------------------
(* Loops.                                                                  *)

(* A set of natural numbers has a least one.                               *)
LEMMA LeastNat ==
  ASSUME NEW T \in SUBSET Nat, T # {}
  PROVE  \E n \in T : \A m \in T : n <= m
<1> DEFINE Less == OpToRel(<, Nat)
<1>1. IsWellFoundedOn(Less, Nat)
  BY NatLessThanWellFounded
<1>2. \A m, n \in Nat : m < n => <<m, n>> \in Less
  BY DEF OpToRel
<1> HIDE DEF Less
<1>3. \E n \in T : \A m \in T : ~ (<<m, n>> \in Less)
  BY <1>1, WFMin
<1>4. PICK n \in T : \A m \in T : <<m, n>> \notin Less
  BY <1>3
<1>5. \A m \in T : n <= m
  <2> SUFFICES ASSUME NEW m \in T, ~(n <= m) PROVE FALSE
    OBVIOUS
  <2>1. m \in Nat /\ n \in Nat /\ m < n
    OBVIOUS
  <2>2. QED
    BY <1>2, <1>4, <2>1, Zenon
<1>6. QED
  BY <1>5

(* What holds at 0 and passes from each number to the next holds up to n.  *)
LEMMA UpToN ==
  ASSUME NEW n \in Nat, NEW T, 0 \in T, \A k \in 0 .. n - 1 : k \in T => k + 1 \in T
  PROVE  \A k \in 0 .. n : k \in T
<1> DEFINE bad == {k \in 0 .. n : k \notin T}
<1> SUFFICES ASSUME bad # {} PROVE FALSE
  OBVIOUS
<1>1. bad \in SUBSET Nat
  OBVIOUS
<1>2. PICK k \in bad : \A m \in bad : k <= m
  BY <1>1, LeastNat
<1>3. k # 0 /\ k \in 0 .. n /\ k \notin T
  OBVIOUS
<1>4. k - 1 \in 0 .. n - 1 /\ k - 1 \in 0 .. n /\ ~(k <= k - 1) /\ (k - 1) + 1 = k
  BY <1>3
<1>5. k - 1 \in T
  BY <1>2, <1>4
<1>6. QED
  BY <1>3, <1>4, <1>5

(* The states a loop over n fields goes through.                           *)
Runs(n, A, b, G) ==
  {r \in [0 .. n -> A] : r[0] = b /\ \A i \in 1 .. n : r[i] = G[i][r[i - 1]]}

(* There is such a sequence of states for any step.                        *)
LEMMA Iterates ==
  ASSUME NEW n \in Nat, NEW A, NEW b \in A, NEW G \in [1 .. n -> [A -> A]]
  PROVE  Runs(n, A, b, G) # {}
<1> DEFINE Run(r, k) == r[0] = b /\ \A i \in 1 .. k : r[i] = G[i][r[i - 1]]
           T == {k \in 0 .. n : \E r \in [0 .. k -> A] : Run(r, k)}
<1>1. 0 \in T
  <2> DEFINE r == [i \in 0 .. 0 |-> b]
  <2>1. r \in [0 .. 0 -> A] /\ r[0] = b
    OBVIOUS
  <2> HIDE DEF r
  <2>2. Run(r, 0)
    BY <2>1
  <2>3. QED
    BY <2>1, <2>2
<1>2. ASSUME NEW k \in 0 .. n - 1, k \in T PROVE k + 1 \in T
  <2>1. PICK r \in [0 .. k -> A] : Run(r, k)
    BY <1>2
  <2>2. /\ k \in Nat /\ k \in 0 .. k /\ k + 1 \in 1 .. n /\ k + 1 \in 0 .. n /\ 0 \in 0 .. k
        /\ 0 # k + 1
    OBVIOUS
  <2>3. r[k] \in A /\ G[k + 1] \in [A -> A]
    BY <2>1, <2>2
  <2>4. G[k + 1][r[k]] \in A
    BY <2>3
  <2> DEFINE s == [i \in 0 .. k + 1 |-> IF i = k + 1 THEN G[k + 1][r[k]] ELSE r[i]]
  <2>5. \A i \in 0 .. k + 1 : i # k + 1 => i \in 0 .. k
    BY <2>2
  <2>6. s \in [0 .. k + 1 -> A]
    BY <2>1, <2>4, <2>5
  <2>7. s[k + 1] = G[k + 1][r[k]] /\ \A i \in 0 .. k : s[i] = r[i]
    BY <2>2
  <2> HIDE DEF s
  <2>8. Run(s, k + 1)
    <3>1. s[0] = b
      BY <2>1, <2>2, <2>7
    <3>2. ASSUME NEW i \in 1 .. k + 1 PROVE s[i] = G[i][s[i - 1]]
      <4>1. CASE i = k + 1
        <5>1. i - 1 = k
          BY <4>1, <2>2
        <5>2. s[i - 1] = r[k]
          BY <5>1, <2>2, <2>7
        <5>3. QED
          BY <4>1, <5>2, <2>7
      <4>2. CASE i # k + 1
        <5>1. i \in 1 .. k /\ i \in 0 .. k /\ i - 1 \in 0 .. k
          BY <4>2, <2>2
        <5>2. s[i] = r[i] /\ s[i - 1] = r[i - 1]
          BY <5>1, <2>7
        <5>3. QED
          BY <5>1, <5>2, <2>1
      <4>3. QED
        BY <4>1, <4>2
    <3>3. QED
      BY <3>1, <3>2
  <2> HIDE DEF Run
  <2>9. QED
    BY <2>2, <2>6, <2>8
<1> HIDE DEF Run
<1>3. n \in T
  <2> HIDE DEF T
  <2>1. n \in 0 .. n
    OBVIOUS
  <2>2. QED
    BY <1>1, <1>2, <2>1, UpToN
<1>4. QED
  BY <1>3 DEF Run, Runs

-----------------------------------------------------------------------------
(* The decoders.                                                           *)

(* Each decoder is a loop that goes through its states.                    *)
LEMMA DomainRuns ==
  ASSUME NEW fs, Message(fs)
  PROVE  \E r, V : /\ r[0] = [typ |-> 0, value |-> <<>>]
                   /\ \A i \in 1 .. Len(fs) : r[i] = DomainField(r[i - 1], fs[i])
                   /\ \A i \in 0 .. Len(fs) : r[i] \in [typ : V, value : V]
                   /\ DecodeDomain(fs) = r[Len(fs)]
<1> DEFINE n == Len(fs)
           V == {0, <<>>} \cup {fs[i].val : i \in 1 .. n}
           A == [typ : V, value : V]
           b == [typ |-> 0, value |-> <<>>]
           G == [i \in 1 .. n |-> [a \in A |-> DomainField(a, fs[i])]]
<1>0. n \in Nat
  BY DEF Message
<1> HIDE DEF n
<1>1. b \in A
  OBVIOUS
<1>2. ASSUME NEW i \in 1 .. n, NEW a \in A PROVE DomainField(a, fs[i]) \in A
  BY DEF DomainField
<1> HIDE DEF A, b
<1>3. G \in [1 .. n -> [A -> A]]
  BY <1>2
<1>4. \A i \in 1 .. n, a \in A : G[i][a] = DomainField(a, fs[i])
  OBVIOUS
<1> HIDE DEF G
<1>5. PICK r \in [0 .. n -> A] : r[0] = b /\ \A i \in 1 .. n : r[i] = G[i][r[i - 1]]
  <2>1. Runs(n, A, b, G) # {}
    BY <1>0, <1>1, <1>3, Iterates
  <2>2. QED
    BY <2>1 DEF Runs
<1>6. \A i \in 1 .. n : r[i] = DomainField(r[i - 1], fs[i])
  <2> TAKE i \in 1 .. n
  <2>1. i - 1 \in 0 .. n
    BY <1>0
  <2>2. QED
    BY <1>4, <1>5, <2>1
<1>7. r = [i \in 0 .. n |-> IF i = 0 THEN b ELSE DomainField(r[i - 1], fs[i])]
  <2>1. \A i \in 0 .. n : i # 0 => i \in 1 .. n
    BY <1>0
  <2>2. QED
    BY <1>5, <1>6, <2>1
<1> DEFINE S(g) == g = [i \in 0 .. n |-> IF i = 0 THEN b ELSE DomainField(g[i - 1], fs[i])]
           c == CHOOSE g : S(g)
<1>8. S(c)
  <2>1. S(r)
    BY <1>7
  <2> HIDE DEF S
  <2>2. QED
    BY <2>1
<1>9. c[0] = b /\ \A i \in 1 .. n : c[i] = DomainField(c[i - 1], fs[i])
  <2>1. 0 \in 0 .. n /\ \A i \in 1 .. n : i \in 0 .. n /\ i # 0
    BY <1>0
  <2> HIDE DEF c
  <2>2. QED
    BY <1>8, <2>1
<1>10. DecodeDomain(fs) = c[n]
  BY DEF DecodeDomain, b, n
<1> HIDE DEF c
<1>11. \A i \in 0 .. n : c[i] \in A
  <2> DEFINE T == {i \in 0 .. n : c[i] \in A}
  <2>1. 0 \in T
    BY <1>0, <1>1, <1>9
  <2>2. ASSUME NEW k \in 0 .. n - 1, k \in T PROVE k + 1 \in T
    <3>1. k + 1 \in 1 .. n /\ k + 1 \in 0 .. n /\ (k + 1) - 1 = k
      BY <1>0
    <3>2. QED
      BY <1>2, <1>9, <2>2, <3>1
  <2> HIDE DEF T
  <2>3. \A k \in 0 .. n : k \in T
    BY <1>0, <2>1, <2>2, UpToN
  <2>4. QED
    BY <2>3 DEF T
<1>12. QED
  BY <1>9, <1>10, <1>11 DEF n, b, A

(* A loop that overwrites a value at every field of a kind ends with that  *)
(* of the last.                                                            *)
LEMMA LastWins ==
  ASSUME NEW fs, Message(fs), NEW num, NEW wire, NEW default, NEW v, v[0] = default,
         \A i \in 1 .. Len(fs) : v[i] = IF Is(fs[i], num, wire) THEN fs[i].val ELSE v[i - 1]
  PROVE  v[Len(fs)] = LastOf(fs, num, wire, default)
<1> DEFINE n == Len(fs)
           K(i) == Is(fs[i], num, wire)
           Last(k) == \/ v[k] = default /\ \A i \in 1 .. k : ~K(i)
                      \/ \E i \in 1 .. k : /\ K(i) /\ v[k] = fs[i].val
                                          /\ \A j \in 1 .. k : K(j) => j <= i
           T == {k \in 0 .. n : Last(k)}
<1>0. n \in Nat /\ DOMAIN fs = 1 .. n
  BY DEF Message
<1>1. \A i \in 1 .. n : v[i] = IF K(i) THEN fs[i].val ELSE v[i - 1]
  OBVIOUS
<1> HIDE DEF n, K
<1>2. 0 \in T
  BY <1>0
<1>3. ASSUME NEW k \in 0 .. n - 1, k \in T PROVE k + 1 \in T
  <2>1. k + 1 \in 1 .. n /\ k + 1 \in 0 .. n /\ (k + 1) - 1 = k /\ k \in Nat
    BY <1>0
  <2>2. v[k + 1] = IF K(k + 1) THEN fs[k + 1].val ELSE v[k]
    BY <1>1, <2>1
  <2>3. \A j \in 1 .. k + 1 : j \in 1 .. k \/ j = k + 1
    BY <2>1
  <2>4. \A j \in 1 .. k : j \in 1 .. k + 1
    BY <2>1
  <2>5. CASE K(k + 1)
    <3>1. \A j \in 1 .. k + 1 : j <= k + 1
      BY <2>1
    <3>2. k + 1 \in 1 .. k + 1
      BY <2>1
    <3>3. Last(k + 1)
      BY <2>2, <2>5, <3>1, <3>2
    <3>4. QED
      BY <2>1, <3>3
  <2>6. CASE ~K(k + 1)
    <3>1. Last(k)
      BY <1>3
    <3>2. Last(k + 1)
      BY <2>2, <2>3, <2>4, <2>6, <3>1
    <3>3. QED
      BY <2>1, <3>2
  <2>7. QED
    BY <2>5, <2>6
<1>4. Last(n)
  <2>1. \A k \in 0 .. n : k \in T
    <3> HIDE DEF T
    <3>1. QED
      BY <1>0, <1>2, <1>3, UpToN
  <2>2. n \in 0 .. n
    BY <1>0
  <2>3. QED
    BY <2>1, <2>2
<1> DEFINE at == {i \in DOMAIN fs : K(i)}
<1>5. LastOf(fs, num, wire, default) =
        IF at = {} THEN default ELSE fs[CHOOSE i \in at : \A j \in at : j <= i].val
  BY DEF LastOf, K
<1>6. CASE at = {}
  BY <1>0, <1>4, <1>5, <1>6 DEF n
<1>7. CASE at # {}
  <2>1. PICK i \in 1 .. n : K(i) /\ v[n] = fs[i].val /\ \A j \in 1 .. n : K(j) => j <= i
    BY <1>0, <1>4, <1>7
  <2>2. i \in at /\ \A j \in at : j <= i
    BY <1>0, <2>1
  <2>3. \A m \in at : (\A j \in at : j <= m) => m = i
    BY <1>0, <2>2
  <2> HIDE DEF at
  <2>4. (CHOOSE m \in at : \A j \in at : j <= m) = i
    BY <2>2, <2>3
  <2>5. QED
    BY <1>5, <1>7, <2>1, <2>4 DEF n
<1>8. QED
  BY <1>6, <1>7

(* A decoded domain has the last type and the last text of its fields.     *)
LEMMA DecodedDomain ==
  ASSUME NEW fs, Message(fs)
  PROVE  /\ DecodeDomain(fs).typ = LastOf(fs, 1, "varint", 0)
         /\ DecodeDomain(fs).value = LastOf(fs, 2, "bytes", <<>>)
         /\ DomainMessage(fs) => DecodeDomain(fs).value \in Seq(STRING)
<1>0. Len(fs) \in Nat
  BY DEF Message
<1>1. PICK r, V : /\ r[0] = [typ |-> 0, value |-> <<>>]
                  /\ \A i \in 1 .. Len(fs) : r[i] = DomainField(r[i - 1], fs[i])
                  /\ \A i \in 0 .. Len(fs) : r[i] \in [typ : V, value : V]
                  /\ DecodeDomain(fs) = r[Len(fs)]
  BY DomainRuns
<1>2. ASSUME NEW i \in 1 .. Len(fs)
      PROVE  /\ r[i].typ = IF Is(fs[i], 1, "varint") THEN fs[i].val ELSE r[i - 1].typ
             /\ r[i].value = IF Is(fs[i], 2, "bytes") THEN fs[i].val ELSE r[i - 1].value
  <2>1. r[i - 1] \in [typ : V, value : V]
    BY <1>0, <1>1
  <2>2. r[i] = DomainField(r[i - 1], fs[i])
    BY <1>1
  <2>3. ~(Is(fs[i], 1, "varint") /\ Is(fs[i], 2, "bytes"))
    BY DEF Is
  <2>4. QED
    BY <2>1, <2>2, <2>3 DEF DomainField
<1> DEFINE t == [i \in 0 .. Len(fs) |-> r[i].typ]
           v == [i \in 0 .. Len(fs) |-> r[i].value]
<1>3. \A i \in 1 .. Len(fs) : i \in 0 .. Len(fs) /\ i - 1 \in 0 .. Len(fs)
  BY <1>0
<1>4. 0 \in 0 .. Len(fs) /\ Len(fs) \in 0 .. Len(fs)
  BY <1>0
<1>5. /\ t[0] = 0 /\ t[Len(fs)] = DecodeDomain(fs).typ
      /\ \A i \in 1 .. Len(fs) : t[i] = IF Is(fs[i], 1, "varint") THEN fs[i].val ELSE t[i - 1]
  BY <1>1, <1>2, <1>3, <1>4
<1>6. /\ v[0] = <<>> /\ v[Len(fs)] = DecodeDomain(fs).value
      /\ \A i \in 1 .. Len(fs) : v[i] = IF Is(fs[i], 2, "bytes") THEN fs[i].val ELSE v[i - 1]
  BY <1>1, <1>2, <1>3, <1>4
<1> HIDE DEF t, v
<1>7. t[Len(fs)] = LastOf(fs, 1, "varint", 0)
  BY <1>5, LastWins
<1>8. v[Len(fs)] = LastOf(fs, 2, "bytes", <<>>)
  BY <1>6, LastWins
<1>9. ASSUME DomainMessage(fs) PROVE v[Len(fs)] \in Seq(STRING)
  <2> DEFINE T == {k \in 0 .. Len(fs) : v[k] \in Seq(STRING)}
  <2>1. 0 \in T
    <3>1. <<>> \in Seq(STRING)
      OBVIOUS
    <3>2. QED
      BY <1>4, <1>6, <3>1
  <2>2. ASSUME NEW k \in 0 .. Len(fs) - 1, k \in T PROVE k + 1 \in T
    <3>1. k + 1 \in 1 .. Len(fs) /\ k + 1 \in 0 .. Len(fs) /\ (k + 1) - 1 = k
      BY <1>0
    <3>2. Is(fs[k + 1], 2, "bytes") => fs[k + 1].val \in Seq(STRING)
      BY <1>9, <3>1 DEF DomainMessage, Message
    <3>3. QED
      BY <1>6, <2>2, <3>1, <3>2
  <2> HIDE DEF T
  <2>3. \A k \in 0 .. Len(fs) : k \in T
    BY <1>0, <2>1, <2>2, UpToN
  <2>4. QED
    BY <1>4, <2>3 DEF T
<1>10. QED
  BY <1>5, <1>6, <1>7, <1>8, <1>9

(* The same for the entries.                                               *)
GeoSiteLoop(fs, r, V, D) ==
  /\ r[0] = [cc |-> NoName, domains |-> <<>>]
  /\ \A i \in 1 .. Len(fs) : r[i] = GeoSiteField(r[i - 1], fs[i])
  /\ \A i \in 0 .. Len(fs) : r[i] \in [cc : V, domains : Seq(D)]
  /\ DecodeGeoSite(fs) = r[Len(fs)]

(* Decoding an entry goes through such states.                             *)
LEMMA GeoSiteRuns ==
  ASSUME NEW fs, Message(fs)
  PROVE  \E r, V, D : GeoSiteLoop(fs, r, V, D)
<1> DEFINE n == Len(fs)
           V == {NoName} \cup {fs[i].val : i \in 1 .. n}
           D == {DecodeDomain(fs[i].val) : i \in 1 .. n}
           A == [cc : V, domains : Seq(D)]
           b == [cc |-> NoName, domains |-> <<>>]
           G == [i \in 1 .. n |-> [a \in A |-> GeoSiteField(a, fs[i])]]
<1>0. n \in Nat
  BY DEF Message
<1> HIDE DEF n
<1>1. b \in A
  OBVIOUS
<1>2. ASSUME NEW i \in 1 .. n, NEW a \in A PROVE GeoSiteField(a, fs[i]) \in A
  <2>1. a.domains \in Seq(D) /\ DecodeDomain(fs[i].val) \in D /\ fs[i].val \in V
    OBVIOUS
  <2>2. Append(a.domains, DecodeDomain(fs[i].val)) \in Seq(D)
    BY <2>1
  <2> HIDE DEF V, D
  <2>3. [a EXCEPT !.cc = fs[i].val] \in A
    BY <2>1
  <2>4. [a EXCEPT !.domains = Append(a.domains, DecodeDomain(fs[i].val))] \in A
    BY <2>2
  <2>5. QED
    BY <2>3, <2>4 DEF GeoSiteField
<1> HIDE DEF A, b
<1>3. G \in [1 .. n -> [A -> A]]
  BY <1>2
<1>4. \A i \in 1 .. n, a \in A : G[i][a] = GeoSiteField(a, fs[i])
  OBVIOUS
<1> HIDE DEF G
<1>5. PICK r \in [0 .. n -> A] : r[0] = b /\ \A i \in 1 .. n : r[i] = G[i][r[i - 1]]
  <2>1. Runs(n, A, b, G) # {}
    BY <1>0, <1>1, <1>3, Iterates
  <2>2. QED
    BY <2>1 DEF Runs
<1>6. \A i \in 1 .. n : r[i] = GeoSiteField(r[i - 1], fs[i])
  <2> TAKE i \in 1 .. n
  <2>1. i - 1 \in 0 .. n
    BY <1>0
  <2>2. QED
    BY <1>4, <1>5, <2>1
<1>7. r = [i \in 0 .. n |-> IF i = 0 THEN b ELSE GeoSiteField(r[i - 1], fs[i])]
  <2>1. \A i \in 0 .. n : i # 0 => i \in 1 .. n
    BY <1>0
  <2>2. QED
    BY <1>5, <1>6, <2>1
<1> DEFINE S(g) == g = [i \in 0 .. n |-> IF i = 0 THEN b ELSE GeoSiteField(g[i - 1], fs[i])]
           c == CHOOSE g : S(g)
<1>8. S(c)
  <2>1. S(r)
    BY <1>7
  <2> HIDE DEF S
  <2>2. QED
    BY <2>1
<1>9. c[0] = b /\ \A i \in 1 .. n : c[i] = GeoSiteField(c[i - 1], fs[i])
  <2>1. 0 \in 0 .. n /\ \A i \in 1 .. n : i \in 0 .. n /\ i # 0
    BY <1>0
  <2> HIDE DEF c
  <2>2. QED
    BY <1>8, <2>1
<1>10. DecodeGeoSite(fs) = c[n]
  BY DEF DecodeGeoSite, b, n
<1> HIDE DEF c
<1>11. \A i \in 0 .. n : c[i] \in A
  <2> DEFINE T == {i \in 0 .. n : c[i] \in A}
  <2>1. 0 \in T
    BY <1>0, <1>1, <1>9
  <2>2. ASSUME NEW k \in 0 .. n - 1, k \in T PROVE k + 1 \in T
    <3>1. k + 1 \in 1 .. n /\ k + 1 \in 0 .. n /\ (k + 1) - 1 = k
      BY <1>0
    <3>2. QED
      BY <1>2, <1>9, <2>2, <3>1
  <2> HIDE DEF T
  <2>3. \A k \in 0 .. n : k \in T
    BY <1>0, <2>1, <2>2, UpToN
  <2>4. QED
    BY <2>3 DEF T
<1>12. QED
  <2>1. GeoSiteLoop(fs, c, V, D)
    BY <1>9, <1>10, <1>11 DEF n, b, A, GeoSiteLoop
  <2>2. QED
    BY <2>1

(* A decoded entry has the last name and the domains of all its fields.    *)
LEMMA DecodedGeoSite ==
  ASSUME NEW fs, Message(fs)
  PROVE  LET table == DecodeGeoSite(fs).domains
         IN  /\ DecodeGeoSite(fs).cc = LastOf(fs, 1, "bytes", NoName)
             /\ {table[j] : j \in DOMAIN table} =
                  {DecodeDomain(fs[i].val) : i \in {k \in DOMAIN fs : Is(fs[k], 2, "bytes")}}
             /\ table = <<>> <=> DOMAIN table = {}
<1>0. Len(fs) \in Nat /\ DOMAIN fs = 1 .. Len(fs)
  BY DEF Message
<1> PICK r, V, D : GeoSiteLoop(fs, r, V, D)
  BY GeoSiteRuns
<1>1. /\ r[0] = [cc |-> NoName, domains |-> <<>>]
      /\ \A i \in 1 .. Len(fs) : r[i] = GeoSiteField(r[i - 1], fs[i])
      /\ \A i \in 0 .. Len(fs) : r[i] \in [cc : V, domains : Seq(D)]
      /\ DecodeGeoSite(fs) = r[Len(fs)]
  BY DEF GeoSiteLoop
<1>2. ASSUME NEW i \in 1 .. Len(fs)
      PROVE  /\ r[i].cc = IF Is(fs[i], 1, "bytes") THEN fs[i].val ELSE r[i - 1].cc
             /\ r[i].domains = IF Is(fs[i], 2, "bytes")
                               THEN Append(r[i - 1].domains, DecodeDomain(fs[i].val))
                               ELSE r[i - 1].domains
  <2>1. r[i - 1] \in [cc : V, domains : Seq(D)]
    BY <1>0, <1>1
  <2>2. r[i] = GeoSiteField(r[i - 1], fs[i])
    BY <1>1
  <2>3. ~(Is(fs[i], 1, "bytes") /\ Is(fs[i], 2, "bytes"))
    BY DEF Is
  <2>4. QED
    BY <2>1, <2>2, <2>3 DEF GeoSiteField
<1>3. \A i \in 1 .. Len(fs) : i \in 0 .. Len(fs) /\ i - 1 \in 0 .. Len(fs)
  BY <1>0
<1>4. 0 \in 0 .. Len(fs) /\ Len(fs) \in 0 .. Len(fs)
  BY <1>0
<1>5. DecodeGeoSite(fs).cc = LastOf(fs, 1, "bytes", NoName)
  <2> DEFINE v == [i \in 0 .. Len(fs) |-> r[i].cc]
  <2>1. /\ v[0] = NoName /\ v[Len(fs)] = DecodeGeoSite(fs).cc
        /\ \A i \in 1 .. Len(fs) : v[i] = IF Is(fs[i], 1, "bytes") THEN fs[i].val ELSE v[i - 1]
    BY <1>1, <1>2, <1>3, <1>4
  <2> HIDE DEF v
  <2>2. v[Len(fs)] = LastOf(fs, 1, "bytes", NoName)
    BY <2>1, LastWins
  <2>3. QED
    BY <2>1, <2>2
<1> DEFINE In(k) == {r[k].domains[j] : j \in DOMAIN r[k].domains}
           Of(k) == {DecodeDomain(fs[i].val) : i \in {m \in 1 .. k : Is(fs[m], 2, "bytes")}}
           T == {k \in 0 .. Len(fs) : In(k) = Of(k)}
<1>6. 0 \in T
  BY <1>1, <1>4
<1>7. ASSUME NEW k \in 0 .. Len(fs) - 1, k \in T PROVE k + 1 \in T
  <2>1. k + 1 \in 1 .. Len(fs) /\ k + 1 \in 0 .. Len(fs) /\ (k + 1) - 1 = k /\ k \in Nat /\ k \in 0 .. Len(fs)
    BY <1>0
  <2>2. \A j \in 1 .. k + 1 : j \in 1 .. k \/ j = k + 1
    BY <2>1
  <2>3. k + 1 \in 1 .. k + 1 /\ \A j \in 1 .. k : j \in 1 .. k + 1
    BY <2>1
  <2>4. CASE Is(fs[k + 1], 2, "bytes")
    <3> DEFINE d == DecodeDomain(fs[k + 1].val)
               s == r[k].domains
    <3>1. r[k + 1].domains = Append(s, d)
      BY <1>2, <2>1, <2>4
    <3>2. s \in Seq(D)
      BY <1>1, <2>1
    <3> HIDE DEF d, s
    <3>3. {Append(s, d)[j] : j \in DOMAIN Append(s, d)} = {s[j] : j \in DOMAIN s} \cup {d}
      <4> DEFINE a == Append(s, d)
      <4>1. /\ Len(s) \in Nat /\ DOMAIN s = 1 .. Len(s) /\ DOMAIN a = 1 .. Len(s) + 1
            /\ a[Len(s) + 1] = d
        BY <3>2
      <4>2. \A j \in 1 .. Len(s) : a[j] = s[j]
        BY <3>2
      <4> HIDE DEF a
      <4>3. \A j \in 1 .. Len(s) + 1 : j \in 1 .. Len(s) \/ j = Len(s) + 1
        BY <4>1
      <4>4. Len(s) + 1 \in 1 .. Len(s) + 1 /\ \A j \in 1 .. Len(s) : j \in 1 .. Len(s) + 1
        BY <4>1
      <4>5. {a[j] : j \in DOMAIN a} = {s[j] : j \in DOMAIN s} \cup {d}
        BY <4>1, <4>2, <4>3, <4>4
      <4>6. QED
        BY <4>5 DEF a
    <3>4. In(k + 1) = In(k) \cup {d}
      BY <3>1, <3>3 DEF s
    <3>5. Of(k + 1) = Of(k) \cup {d}
      BY <2>2, <2>3, <2>4 DEF d
    <3>6. QED
      BY <1>7, <2>1, <3>4, <3>5
  <2>5. CASE ~Is(fs[k + 1], 2, "bytes")
    <3>1. r[k + 1].domains = r[k].domains
      BY <1>2, <2>1, <2>5
    <3>2. Of(k + 1) = Of(k)
      BY <2>2, <2>3, <2>5
    <3>3. QED
      BY <1>7, <2>1, <3>1, <3>2
  <2>6. QED
    BY <2>4, <2>5
<1>8. In(Len(fs)) = Of(Len(fs))
  <2>1. \A k \in 0 .. Len(fs) : k \in T
    <3> HIDE DEF T
    <3>1. QED
      BY <1>0, <1>6, <1>7, UpToN
  <2>2. QED
    BY <1>4, <2>1
<1>9. r[Len(fs)].domains \in Seq(D)
  BY <1>1, <1>4
<1>10. r[Len(fs)].domains = <<>> <=> DOMAIN r[Len(fs)].domains = {}
  <2> DEFINE s == r[Len(fs)].domains
  <2> HIDE DEF s
  <2>1. s \in Seq(D)
    BY <1>9 DEF s
  <2>2. s = <<>> <=> DOMAIN s = {}
    BY <2>1
  <2>3. QED
    BY <2>2 DEF s
<1>11. QED
  BY <1>0, <1>1, <1>5, <1>8, <1>10

(* The same for the list.                                                  *)
ListLoop(fs, r) ==
  /\ r[0] = <<>>
  /\ \A i \in 1 .. Len(fs) : r[i] = GeoSiteListField(r[i - 1], fs[i])
  /\ DecodeGeoSiteList(fs) = r[Len(fs)]

(* Decoding the list goes through such states.                             *)
LEMMA ListRuns ==
  ASSUME NEW fs, Message(fs)
  PROVE  \E r : ListLoop(fs, r)
<1> DEFINE n == Len(fs)
           C == {DecodeGeoSite(fs[i].val).cc : i \in 1 .. n}
           W == {DecodeGeoSite(fs[i].val).domains : i \in 1 .. n}
           A == UNION {[S -> W] : S \in SUBSET C}
           G == [i \in 1 .. n |-> [a \in A |-> GeoSiteListField(a, fs[i])]]
<1>0. n \in Nat
  BY DEF Message
<1> HIDE DEF n
<1>1. <<>> \in A
  <2>1. <<>> \in [{} -> W]
    OBVIOUS
  <2>2. {} \in SUBSET C
    OBVIOUS
  <2> HIDE DEF C, W
  <2>3. QED
    BY <2>1, <2>2
<1>2. ASSUME NEW i \in 1 .. n, NEW a \in A PROVE GeoSiteListField(a, fs[i]) \in A
  <2> DEFINE e == DecodeGeoSite(fs[i].val)
  <2>1. e.cc \in C /\ e.domains \in W
    OBVIOUS
  <2>2. PICK S \in SUBSET C : a \in [S -> W]
    OBVIOUS
  <2> HIDE DEF C, W, e
  <2>3. S \cup {e.cc} \in SUBSET C
    BY <2>1
  <2>4. [c \in DOMAIN a \cup {e.cc} |-> IF c = e.cc THEN e.domains ELSE a[c]] \in [S \cup {e.cc} -> W]
    BY <2>1, <2>2
  <2>5. [c \in DOMAIN a \cup {e.cc} |-> IF c = e.cc THEN e.domains ELSE a[c]] \in A
    BY <2>3, <2>4
  <2>6. Enter(a, e) \in A
    BY <2>5 DEF Enter
  <2>7. QED
    BY <2>6 DEF GeoSiteListField, e
<1> HIDE DEF A
<1>3. G \in [1 .. n -> [A -> A]]
  BY <1>2
<1>4. \A i \in 1 .. n, a \in A : G[i][a] = GeoSiteListField(a, fs[i])
  OBVIOUS
<1> HIDE DEF G
<1>5. PICK r \in [0 .. n -> A] : r[0] = <<>> /\ \A i \in 1 .. n : r[i] = G[i][r[i - 1]]
  <2>1. Runs(n, A, <<>>, G) # {}
    BY <1>0, <1>1, <1>3, Iterates
  <2>2. QED
    BY <2>1 DEF Runs
<1>6. \A i \in 1 .. n : r[i] = GeoSiteListField(r[i - 1], fs[i])
  <2> TAKE i \in 1 .. n
  <2>1. i - 1 \in 0 .. n
    BY <1>0
  <2>2. QED
    BY <1>4, <1>5, <2>1
<1>7. r = [i \in 0 .. n |-> IF i = 0 THEN <<>> ELSE GeoSiteListField(r[i - 1], fs[i])]
  <2>1. \A i \in 0 .. n : i # 0 => i \in 1 .. n
    BY <1>0
  <2>2. QED
    BY <1>5, <1>6, <2>1
<1> DEFINE P(g) == g = [i \in 0 .. n |-> IF i = 0 THEN <<>> ELSE GeoSiteListField(g[i - 1], fs[i])]
           c == CHOOSE g : P(g)
<1>8. P(c)
  <2>1. P(r)
    BY <1>7
  <2> HIDE DEF P
  <2>2. QED
    BY <2>1
<1>9. c[0] = <<>> /\ \A i \in 1 .. n : c[i] = GeoSiteListField(c[i - 1], fs[i])
  <2>1. 0 \in 0 .. n /\ \A i \in 1 .. n : i \in 0 .. n /\ i # 0
    BY <1>0
  <2> HIDE DEF c
  <2>2. QED
    BY <1>8, <2>1
<1>10. DecodeGeoSiteList(fs) = c[n]
  BY DEF DecodeGeoSiteList, n
<1> HIDE DEF c
<1>11. ListLoop(fs, c)
  BY <1>9, <1>10 DEF n, ListLoop
<1>12. QED
  BY <1>11

(* The table has the domains of the last entry of each name it knows.      *)
LEMMA DecodedList ==
  ASSUME NEW fs, Message(fs), NEW c \in DOMAIN DecodeGeoSiteList(fs)
  PROVE  \E i \in 1 .. Len(fs) :
           /\ Is(fs[i], 1, "bytes") /\ DecodeGeoSite(fs[i].val).cc = c
           /\ DecodeGeoSiteList(fs)[c] = DecodeGeoSite(fs[i].val).domains
           /\ \A j \in 1 .. Len(fs) :
                Is(fs[j], 1, "bytes") /\ DecodeGeoSite(fs[j].val).cc = c => j <= i
<1> PICK r : ListLoop(fs, r)
  BY ListRuns
<1> DEFINE e(i) == DecodeGeoSite(fs[i].val)
           Named(i, x) == Is(fs[i], 1, "bytes") /\ e(i).cc = x
           Last(k, x) == \E i \in 1 .. k : /\ Named(i, x) /\ r[k][x] = e(i).domains
                                          /\ \A j \in 1 .. k : Named(j, x) => j <= i
           T == {k \in 0 .. Len(fs) : NoName \notin DOMAIN r[k] /\ \A x \in DOMAIN r[k] : Last(k, x)}
<1>1. /\ Len(fs) \in Nat /\ r[0] = <<>> /\ DecodeGeoSiteList(fs) = r[Len(fs)]
      /\ \A i \in 1 .. Len(fs) : r[i] = GeoSiteListField(r[i - 1], fs[i])
  BY DEF ListLoop, Message
<1> HIDE DEF e
<1>2. 0 \in T
  <2>1. DOMAIN r[0] = {}
    BY <1>1
  <2>2. QED
    BY <1>1, <2>1
<1>3. ASSUME NEW k \in 0 .. Len(fs) - 1, k \in T PROVE k + 1 \in T
  <2>1. /\ k + 1 \in 1 .. Len(fs) /\ k + 1 \in 0 .. Len(fs) /\ (k + 1) - 1 = k /\ k \in Nat
        /\ k + 1 \in 1 .. k + 1
    BY <1>1
  <2>2. \A j \in 1 .. k + 1 : (j \in 1 .. k \/ j = k + 1) /\ j <= k + 1
    BY <2>1
  <2>3. \A j \in 1 .. k : j \in 1 .. k + 1
    BY <2>1
  <2>4. r[k + 1] = GeoSiteListField(r[k], fs[k + 1])
    BY <1>1, <2>1
  <2>5. ASSUME NEW x \in DOMAIN r[k], r[k + 1][x] = r[k][x], ~Named(k + 1, x)
        PROVE  Last(k + 1, x)
    <3>1. PICK i \in 1 .. k : /\ Named(i, x) /\ r[k][x] = e(i).domains
                              /\ \A j \in 1 .. k : Named(j, x) => j <= i
      BY <1>3
    <3>2. QED
      BY <2>2, <2>3, <2>5, <3>1
  <2>6. CASE ~Is(fs[k + 1], 1, "bytes") \/ e(k + 1).cc = NoName
    <3>1. r[k + 1] = r[k]
      BY <2>4, <2>6 DEF GeoSiteListField, Enter, e
    <3>2. NoName \notin DOMAIN r[k]
      BY <1>3
    <3>3. \A x \in DOMAIN r[k] : ~Named(k + 1, x)
      BY <2>6, <3>2
    <3> HIDE DEF Named, Last
    <3>4. \A x \in DOMAIN r[k] : Last(k + 1, x)
      BY <2>5, <3>1, <3>3
    <3>5. QED
      BY <2>1, <3>1, <3>2, <3>4
  <2>7. CASE Is(fs[k + 1], 1, "bytes") /\ e(k + 1).cc # NoName
    <3> DEFINE cc == e(k + 1).cc
    <3>1. r[k + 1] = [x \in DOMAIN r[k] \cup {cc} |-> IF x = cc THEN e(k + 1).domains ELSE r[k][x]]
      BY <2>4, <2>7 DEF GeoSiteListField, Enter, e
    <3>2. /\ DOMAIN r[k + 1] = DOMAIN r[k] \cup {cc} /\ r[k + 1][cc] = e(k + 1).domains
          /\ \A x \in DOMAIN r[k] : x # cc => r[k + 1][x] = r[k][x]
      BY <3>1
    <3>3. NoName \notin DOMAIN r[k + 1]
      BY <1>3, <2>7, <3>2
    <3>4. Last(k + 1, cc)
      BY <2>1, <2>2, <2>7, <3>2
    <3>5. \A x \in DOMAIN r[k] : x # cc => ~Named(k + 1, x)
      OBVIOUS
    <3> HIDE DEF Named, Last, cc
    <3>6. \A x \in DOMAIN r[k + 1] : Last(k + 1, x)
      BY <2>5, <3>2, <3>4, <3>5
    <3>7. QED
      BY <2>1, <3>3, <3>6
  <2>8. QED
    BY <2>6, <2>7
<1>4. \A k \in 0 .. Len(fs) : k \in T
  <2> HIDE DEF T
  <2>1. QED
    BY <1>1, <1>2, <1>3, UpToN
<1>5. Len(fs) \in 0 .. Len(fs)
  BY <1>1
<1>6. Last(Len(fs), c)
  BY <1>1, <1>4, <1>5
<1>7. QED
  BY <1>1, <1>6 DEF e

(* What the table has of a category is what the file says of it.           *)
LEMMA TableSays ==
  ASSUME NEW fs, GeoSiteListMessage(fs), NEW c \in DOMAIN DecodeGeoSiteList(fs)
  PROVE  LET table == DecodeGeoSiteList(fs)[c]
         IN  /\ {<<table[i].typ, table[i].value>> : i \in DOMAIN table} = Written(fs, c)
             /\ \A i \in DOMAIN table : table[i].value \in Seq(STRING)
             /\ table # <<>> => Written(fs, c) # {}
<1> DEFINE table == DecodeGeoSiteList(fs)[c]
           named == {i \in DOMAIN fs : /\ Is(fs[i], 1, "bytes")
                                       /\ LastOf(fs[i].val, 1, "bytes", NoName) = c}
           said(f) == <<LastOf(f.val, 1, "varint", 0), LastOf(f.val, 2, "bytes", <<>>)>>
<1>1. Message(fs) /\ DOMAIN fs = 1 .. Len(fs) /\ Len(fs) \in Nat
  BY DEF GeoSiteListMessage, Message
<1>2. \A i \in DOMAIN fs : Is(fs[i], 1, "bytes") =>
        DecodeGeoSite(fs[i].val).cc = LastOf(fs[i].val, 1, "bytes", NoName)
  BY DecodedGeoSite DEF GeoSiteListMessage, GeoSiteMessage
<1>3. PICK i \in DOMAIN fs : /\ Is(fs[i], 1, "bytes") /\ DecodeGeoSite(fs[i].val).cc = c
                             /\ table = DecodeGeoSite(fs[i].val).domains
                             /\ \A j \in DOMAIN fs :
                                  Is(fs[j], 1, "bytes") /\ DecodeGeoSite(fs[j].val).cc = c => j <= i
  BY <1>1, DecodedList
<1> DEFINE msg == fs[i].val
           at  == {k \in DOMAIN msg : Is(msg[k], 2, "bytes")}
<1>4. Message(msg) /\ \A k \in at : DomainMessage(msg[k].val) /\ Message(msg[k].val)
  BY <1>3 DEF GeoSiteListMessage, GeoSiteMessage, DomainMessage
<1>5. i \in named /\ \A j \in named : j <= i
  BY <1>2, <1>3
<1>6. (CHOOSE k \in named : \A j \in named : j <= k) = i
  <2>1. \A m \in named : (\A j \in named : j <= m) => m = i
    BY <1>1, <1>5
  <2> HIDE DEF named
  <2>2. QED
    BY <1>5, <2>1
<1>7. Written(fs, c) = {said(f) : f \in {g \in {msg[k] : k \in DOMAIN msg} : Is(g, 2, "bytes")}}
  <2>1. named # {}
    BY <1>5
  <2>2. Written(fs, c) =
          IF named = {} THEN {}
          ELSE {said(f) : f \in {g \in {fs[CHOOSE k \in named : \A j \in named : j <= k].val[m] :
                                   m \in DOMAIN fs[CHOOSE k \in named : \A j \in named : j <= k].val} :
                                 Is(g, 2, "bytes")}}
    BY DEF Written
  <2> HIDE DEF named, said
  <2>3. QED
    BY <1>6, <2>1, <2>2
<1>8. Written(fs, c) = {said(msg[k]) : k \in at}
  <2> HIDE DEF said
  <2>1. QED
    BY <1>7
<1>9. {table[j] : j \in DOMAIN table} = {DecodeDomain(msg[k].val) : k \in at}
      /\ (table = <<>> <=> DOMAIN table = {})
  <2> DEFINE dec == DecodeGeoSite(msg).domains
  <2> HIDE DEF table, msg
  <2>1. /\ {dec[j] : j \in DOMAIN dec} = {DecodeDomain(msg[k].val) : k \in at}
        /\ dec = <<>> <=> DOMAIN dec = {}
    BY <1>4, DecodedGeoSite
  <2>2. table = dec
    BY <1>3 DEF msg
  <2>3. QED
    BY <2>1, <2>2
<1>10. \A k \in at : /\ DecodeDomain(msg[k].val).typ = LastOf(msg[k].val, 1, "varint", 0)
                     /\ DecodeDomain(msg[k].val).value = LastOf(msg[k].val, 2, "bytes", <<>>)
                     /\ DecodeDomain(msg[k].val).value \in Seq(STRING)
  BY <1>4, DecodedDomain
<1> DEFINE pair(d) == <<d.typ, d.value>>
<1>11. \A k \in at : pair(DecodeDomain(msg[k].val)) = said(msg[k])
  BY <1>10
<1> HIDE DEF table, at, said, pair
<1>12. {pair(table[j]) : j \in DOMAIN table} = {pair(DecodeDomain(msg[k].val)) : k \in at}
  <2>1. \A j \in DOMAIN table : \E k \in at : table[j] = DecodeDomain(msg[k].val)
    BY <1>9
  <2>2. \A k \in at : \E j \in DOMAIN table : table[j] = DecodeDomain(msg[k].val)
    <3> TAKE k \in at
    <3>1. DecodeDomain(msg[k].val) \in {table[j] : j \in DOMAIN table}
      BY <1>9
    <3>2. QED
      BY <3>1
  <2>3. QED
    BY <2>1, <2>2
<1>13. {pair(table[j]) : j \in DOMAIN table} = Written(fs, c)
  BY <1>8, <1>11, <1>12
<1>14. \A j \in DOMAIN table : table[j].value \in Seq(STRING)
  <2>1. \A j \in DOMAIN table : \E k \in at : table[j] = DecodeDomain(msg[k].val)
    BY <1>9
  <2>2. QED
    BY <1>10, <2>1
<1>15. table # <<>> => Written(fs, c) # {}
  <2> SUFFICES ASSUME table # <<>> PROVE Written(fs, c) # {}
    OBVIOUS
  <2>1. PICK j : j \in DOMAIN table
    BY <1>9
  <2>2. pair(table[j]) \in {pair(table[m]) : m \in DOMAIN table}
    BY <2>1
  <2>3. QED
    BY <1>13, <2>2
<1>16. QED
  BY <1>13, <1>14, <1>15 DEF table, pair

-----------------------------------------------------------------------------
(* What a line says and what its rule matches.                             *)

USE RulesAssumption

(* A host ends in the labels of a domain exactly if it is the domain or    *)
(* has it as a proper suffix.                                              *)
LEMMA SuffixIsWithin ==
  ASSUME NEW h \in Seq(STRING), NEW d \in Seq(STRING), d # <<>>
  PROVE  Within(h, d) <=> h = d \/ HasSuffix(h, d)
<1>0. Len(h) \in Nat /\ Len(d) \in Nat \ {0}
  OBVIOUS
<1>1. ASSUME NEW n \in 0 .. Len(h)
      PROVE  /\ SubSeq(h, 1, n) \in Seq(STRING) /\ Len(SubSeq(h, 1, n)) = n
             /\ SubSeq(h, 1, n) \o d \in Seq(STRING) /\ Len(SubSeq(h, 1, n) \o d) = n + Len(d)
             /\ \A i \in 1 .. n : (SubSeq(h, 1, n) \o d)[i] = h[i]
             /\ \A i \in 1 .. Len(d) : (SubSeq(h, 1, n) \o d)[n + i] = d[i]
  <2>1. SubSeq(h, 1, n) \in Seq(STRING) /\ Len(SubSeq(h, 1, n)) = n
        /\ \A i \in 1 .. n : SubSeq(h, 1, n)[i] = h[i]
    BY <1>0
  <2> DEFINE t == SubSeq(h, 1, n)
  <2> HIDE DEF t
  <2>2. t \in Seq(STRING) /\ Len(t) = n
    BY <2>1 DEF t
  <2>3. t \o d \in Seq(STRING) /\ Len(t \o d) = n + Len(d)
    <3>1. t \o d \in Seq(STRING)
      BY <2>2
    <3>2. Len(t \o d) = n + Len(d)
      BY <1>0, <2>2
    <3>3. QED
      BY <3>1, <3>2
  <2>4. \A i \in 1 .. n : (t \o d)[i] = t[i]
    BY <1>0, <2>2
  <2>5. \A i \in 1 .. Len(d) : (t \o d)[n + i] = d[i]
    BY <1>0, <2>2
  <2>6. QED
    BY <2>1, <2>3, <2>4, <2>5 DEF t
<1>2. ASSUME NEW n \in 0 .. Len(h), h = SubSeq(h, 1, n) \o d PROVE h = d \/ HasSuffix(h, d)
  <2>1. Len(h) = n + Len(d) /\ \A i \in 1 .. Len(d) : h[n + i] = d[i]
    BY <1>1, <1>2
  <2>2. Suffix(h, Len(h) - Len(d) + 1) = d
    <3>1. Len(h) - Len(d) + 1 = n + 1
      BY <1>0, <2>1
    <3>2. SubSeq(h, n + 1, Len(h)) \in Seq(STRING) /\ Len(SubSeq(h, n + 1, Len(h))) = Len(d)
          /\ \A i \in 1 .. Len(d) : SubSeq(h, n + 1, Len(h))[i] = h[n + i]
      BY <1>0, <2>1
    <3> DEFINE t == SubSeq(h, n + 1, Len(h))
    <3>3. t \in Seq(STRING) /\ Len(t) = Len(d) /\ \A i \in 1 .. Len(d) : t[i] = d[i]
      BY <2>1, <3>2
    <3> HIDE DEF t
    <3>4. t = d
      BY <1>0, <3>3
    <3>5. QED
      BY <3>1, <3>4 DEF Suffix, t
  <2>3. CASE n = 0
    <3>1. \A i \in 1 .. Len(d) : 0 + i = i
      BY <1>0
    <3>2. Len(h) = Len(d) /\ \A i \in 1 .. Len(d) : h[i] = d[i]
      BY <1>0, <2>1, <2>3, <3>1
    <3>3. QED
      BY <3>2
  <2>4. CASE n # 0
    BY <1>0, <2>1, <2>2, <2>4 DEF HasSuffix
  <2>5. QED
    BY <2>3, <2>4
<1>3. ASSUME h = d PROVE Within(h, d)
  <2>1. h = SubSeq(h, 1, 0) \o d
    BY <1>3
  <2>2. QED
    BY <1>0, <2>1 DEF Within
<1>4. ASSUME HasSuffix(h, d) PROVE Within(h, d)
  <2> DEFINE n == Len(h) - Len(d)
  <2>1. n \in 0 .. Len(h) /\ Len(h) = n + Len(d)
    BY <1>0, <1>4 DEF HasSuffix
  <2> HIDE DEF n
  <2>2. SubSeq(h, n + 1, Len(h)) = d
    BY <1>4 DEF HasSuffix, Suffix, n
  <2>3. \A i \in 1 .. Len(d) : h[n + i] = d[i]
    <3>1. \A i \in 1 .. Len(d) : SubSeq(h, n + 1, Len(h))[i] = h[n + i]
      BY <1>0, <2>1
    <3>2. QED
      BY <2>2, <3>1
  <2> DEFINE w == SubSeq(h, 1, n) \o d
  <2>4. w \in Seq(STRING) /\ Len(w) = n + Len(d)
        /\ (\A i \in 1 .. n : w[i] = h[i]) /\ \A i \in 1 .. Len(d) : w[n + i] = d[i]
    BY <1>1, <2>1
  <2> HIDE DEF w
  <2>5. ASSUME NEW i \in 1 .. Len(h) PROVE w[i] = h[i]
    <3>1. CASE i <= n
      BY <1>0, <2>1, <2>4, <3>1
    <3>2. CASE i > n
      <4>1. i - n \in 1 .. Len(d) /\ n + (i - n) = i
        BY <1>0, <2>1, <3>2
      <4>2. QED
        BY <2>3, <2>4, <4>1
    <3>3. QED
      BY <1>0, <2>1, <3>1, <3>2
  <2>6. w = h
    BY <2>1, <2>4, <2>5
  <2>7. QED
    BY <2>1, <2>6 DEF Within, w
<1>5. QED
  BY <1>2, <1>3, <1>4 DEF Within

(* Taking labels off its front, a host comes to a domain exactly if it is  *)
(* in it.                                                                  *)
LEMMA SuffixesAreWithin ==
  ASSUME NEW h \in Seq(STRING), NEW d \in Seq(STRING)
  PROVE  (\E i \in DOMAIN h : Suffix(h, i) = d) <=> Within(h, d)
<1>0. Len(h) \in Nat /\ Len(d) \in Nat /\ DOMAIN h = 1 .. Len(h)
  OBVIOUS
<1>1. ASSUME NEW i \in DOMAIN h, Suffix(h, i) = d PROVE Within(h, d)
  <2>1. SubSeq(h, i, Len(h)) = d
    BY <1>1 DEF Suffix
  <2>2. i \in 1 .. Len(h) /\ Len(SubSeq(h, i, Len(h))) = Len(h) - i + 1
    BY <1>0
  <2>3. Len(d) = Len(h) - i + 1
    BY <2>1, <2>2
  <2>4. d # <<>>
    BY <1>0, <2>2, <2>3
  <2>5. CASE i = 1
    <3>1. SubSeq(h, 1, Len(h)) = h
      BY <1>0
    <3>2. h = d
      BY <2>1, <2>5, <3>1
    <3>3. QED
      BY <2>4, <3>2, SuffixIsWithin
  <2>6. CASE i # 1
    <3>1. Len(h) > Len(d) /\ Len(h) - Len(d) + 1 = i
      BY <1>0, <2>2, <2>3, <2>6
    <3>2. HasSuffix(h, d)
      BY <1>1, <2>4, <3>1 DEF HasSuffix
    <3>3. QED
      BY <2>4, <3>2, SuffixIsWithin
  <2>7. QED
    BY <2>5, <2>6
<1>2. ASSUME Within(h, d) PROVE \E i \in DOMAIN h : Suffix(h, i) = d
  <2>1. d # <<>>
    BY <1>2 DEF Within
  <2>2. h = d \/ HasSuffix(h, d)
    BY <1>2, <2>1, SuffixIsWithin
  <2>3. CASE h = d
    <3>1. 1 \in DOMAIN h /\ SubSeq(h, 1, Len(h)) = h
      BY <1>0, <2>1, <2>3
    <3>2. QED
      BY <2>3, <3>1 DEF Suffix
  <2>4. CASE HasSuffix(h, d)
    <3>1. Len(d) # 0
      BY <2>1
    <3>2. Len(h) - Len(d) + 1 \in DOMAIN h
      BY <1>0, <2>4, <3>1 DEF HasSuffix
    <3>3. QED
      BY <2>4, <3>2 DEF HasSuffix
  <2>5. QED
    BY <2>2, <2>3, <2>4
<1>3. QED
  BY <1>1, <1>2

(* A category of the table covers the hosts the file lists under it.       *)
LEMMA CategoryCovers ==
  ASSUME GeoSiteListMessage(file), sites = DecodeGeoSiteList(file),
         NEW c \in DOMAIN sites, NEW h \in Seq(STRING)
  PROVE  Contains(c, h) <=> FileSays(c, h)
<1> DEFINE table == sites[c]
<1>1. /\ {<<table[i].typ, table[i].value>> : i \in DOMAIN table} = Written(file, c)
      /\ \A i \in DOMAIN table : table[i].value \in Seq(STRING)
  BY TableSays
<1>2. \A types, x : x \in Values(c, types) <=>
        \E i \in DOMAIN table : table[i].typ \in types /\ table[i].value = x
  BY DEF Values
<1> DEFINE Covers(i) == EntrySays(table[i].typ, table[i].value, h)
<1>3. FileSays(c, h) <=> h # <<>> /\ \E i \in DOMAIN table : Covers(i)
  <2>1. \A i \in DOMAIN table : <<table[i].typ, table[i].value>> \in Written(file, c)
    BY <1>1
  <2>2. \A w \in Written(file, c) : \E i \in DOMAIN table : w = <<table[i].typ, table[i].value>>
    BY <1>1
  <2> HIDE DEF table
  <2>3. \A i \in DOMAIN table : <<table[i].typ, table[i].value>>[1] = table[i].typ
                              /\ <<table[i].typ, table[i].value>>[2] = table[i].value
    OBVIOUS
  <2>4. (\E w \in Written(file, c) : EntrySays(w[1], w[2], h)) <=> \E i \in DOMAIN table : Covers(i)
    BY <2>1, <2>2, <2>3
  <2>5. QED
    BY <2>4 DEF FileSays
<1> HIDE DEF table
<1>4. h \in Values(c, {1}) <=> \E i \in DOMAIN table : table[i].typ = 1 /\ h = table[i].value
  BY <1>2
<1>5. (\E k \in DOMAIN h : Suffix(h, k) \in Values(c, {0, 3})) <=>
        \E i \in DOMAIN table : table[i].typ \in {0, 3} /\ Within(h, table[i].value)
  <2>1. \A i \in DOMAIN table :
          (\E k \in DOMAIN h : Suffix(h, k) = table[i].value) <=> Within(h, table[i].value)
    BY <1>1, SuffixesAreWithin
  <2>2. QED
    BY <1>2, <2>1
<1>6. (\E re \in Values(c, {2}) \cap DOMAIN RegexHosts : h \in RegexHosts[re]) <=>
        \E i \in DOMAIN table : /\ table[i].typ = 2 /\ table[i].value \in DOMAIN RegexHosts
                               /\ h \in RegexHosts[table[i].value]
  BY <1>2
<1>7. QED
  BY <1>3, <1>4, <1>5, <1>6 DEF Contains, EntrySays

(* A well-formed line whose category is in the file as the table has it    *)
(* applies to the request exactly if its rule matches.                     *)
LEMMA MatchesWhatItSays ==
  ASSUME NEW line \in ConfigLines, req \in Requests, Parses(line),
         line.typ = "GEOSITE" => (Contains(line.arg, req.host) <=> FileSays(line.arg, req.host))
  PROVE  Matches(line, req) <=> Says(line, req)
<1>1. line.ok /\ line.typ \in Supported
  BY DEF Parses
<1>2. CASE line.typ \in {"DOMAIN", "DOMAIN-KEYWORD", "DOMAIN-REGEX", "DST-PORT", "MATCH"}
  BY <1>2 DEF Matches, Says, Cidr
<1>3. CASE line.typ = "DOMAIN-SUFFIX"
  <2>1. line.arg \in Seq(STRING) /\ line.arg # <<>> /\ req.host \in Seq(STRING)
    BY <1>1, <1>3
  <2>2. Within(req.host, line.arg) <=> req.host = line.arg \/ HasSuffix(req.host, line.arg)
    BY <2>1, SuffixIsWithin
  <2>3. QED
    BY <1>3, <2>2 DEF Matches, Says
<1>4. CASE line.typ \in Cidr
  BY <1>1, <1>4 DEF Matches, Says, Cidr
<1>5. CASE line.typ = "GEOSITE"
  BY <1>5 DEF Matches, Says
<1>6. QED
  BY <1>1, <1>2, <1>3, <1>4, <1>5 DEF Supported

-----------------------------------------------------------------------------
(* The engine's rules are the lines that parse, in their order.            *)

Types ==
  /\ lines \in Seq(ConfigLines) /\ engine \in Seq(ConfigLines)
  /\ req \in Requests /\ next \in Nat \ {0}
  /\ pc \in {"load", "exit", "build", "idle", "match", "routed"}
  /\ file \in Files \cup {NoPath}

(* Before the lines are read there is nothing; without a path there is no  *)
(* table of categories.                                                    *)
Loaded ==
  /\ pc \in {"load", "exit"} => engine = <<>> /\ next = 1
  /\ file = NoPath => sites = <<>>

(* The lines before n that parse are the engine's rules: rule k is line    *)
(* src[k].                                                                 *)
Kept(src, n) ==
  /\ \A k \in 1 .. Len(engine) :
       /\ src[k] \in 1 .. n - 1
       /\ engine[k] = lines[src[k]] /\ Parses(lines[src[k]])
  /\ \A k, l \in 1 .. Len(engine) : k < l => src[k] < src[l]
  /\ \A i \in 1 .. n - 1 : Parses(lines[i]) => \E k \in 1 .. Len(engine) : src[k] = i

(* The lines Build has seen.                                               *)
Read == IF pc \in {"load", "exit", "build"} THEN next ELSE Len(lines) + 1

InOrder ==
  /\ Read <= Len(lines) + 1
  /\ \E src \in [1 .. Len(engine) -> Nat] : Kept(src, Read)

(* Match asks rule after rule, and stops at the first that matches.        *)
Asked ==
  /\ pc = "idle" => next = 1
  /\ pc \in {"match", "routed"} =>
       \A k \in 1 .. Len(engine) : k < next => ~Matches(engine[k], req)
  /\ pc = "routed" =>
       \/ /\ next <= Len(engine) /\ Matches(engine[next], req)
          /\ dest = Route(engine[next].adapter)
       \/ next > Len(engine) /\ dest = "direct"

IInv == Types /\ Loaded /\ InOrder /\ Asked

(* The invariant holds at the beginning.                                   *)
LEMMA InitIInv == Init => IInv
<1> SUFFICES ASSUME Init PROVE IInv
  OBVIOUS
<1>1. PICK n \in 0 .. MaxLines : lines \in [1 .. n -> ConfigLines]
  BY DEF Init
<1>2. lines \in Seq(ConfigLines) /\ Len(lines) \in Nat
  BY <1>1
<1>3. Types
  BY <1>2 DEF Init, Types
<1>4. Loaded /\ Asked
  BY DEF Init, Loaded, Asked
<1>5. InOrder
  <2>1. Read = 1 /\ Len(engine) = 0
    BY DEF Init, Read
  <2> DEFINE none == [k \in 1 .. Len(engine) |-> 0]
  <2>2. none \in [1 .. Len(engine) -> Nat]
    OBVIOUS
  <2> HIDE DEF none
  <2>3. Kept(none, Read)
    BY <2>1 DEF Kept
  <2>4. Read <= Len(lines) + 1
    BY <1>2, <2>1
  <2>5. QED
    BY <2>2, <2>3, <2>4 DEF InOrder
<1>6. QED
  BY <1>3, <1>4, <1>5 DEF IInv

(* Every step keeps it.                                                    *)
LEMMA IInvStep == IInv /\ [Next]_vars => IInv'
<1> SUFFICES ASSUME IInv, [Next]_vars PROVE IInv'
  OBVIOUS
<1> USE DEF IInv
<1>0. Len(lines) \in Nat /\ Len(engine) \in Nat /\ next \in Nat
  BY DEF Types
<1>1. ASSUME UNCHANGED <<lines, engine, sites>>, Read' = Read PROVE InOrder'
  BY <1>1 DEF InOrder, Kept, Parses, Known
<1>2. CASE UNCHANGED vars
  <2>1. \A k : (Matches(engine[k], req))' <=> Matches(engine[k], req)
    BY <1>2 DEF vars, Matches, Contains, Values, HasKeyword, HasSuffix
  <2>2. Types' /\ Loaded'
    BY <1>2 DEF vars, Types, Loaded
  <2>3. Asked'
    BY <1>2, <2>1 DEF vars, Asked
  <2>4. Read' = Read
    BY <1>2 DEF vars, Read
  <2>5. InOrder'
    BY <1>1, <1>2, <2>4 DEF vars
  <2>6. QED
    BY <2>2, <2>3, <2>5
<1>3. CASE LoadSites \/ LoadFails
  <2>1. next = 1 /\ engine = <<>> /\ UNCHANGED <<lines, engine, next, req, file>>
        /\ pc = "load" /\ pc' \in {"build", "exit"}
    BY <1>3 DEF LoadSites, LoadFails, Loaded
  <2>2. Types' /\ Asked'
    BY <2>1 DEF Types, Asked
  <2>3. Loaded'
    BY <1>3, <2>1 DEF Loaded, LoadSites, LoadFails
  <2>4. InOrder'
    <3>1. Read' = 1 /\ Len(engine') = 0 /\ Len(lines') = Len(lines)
      BY <2>1 DEF Read
    <3> DEFINE none == [k \in {} |-> 0]
    <3>2. none \in [1 .. Len(engine') -> Nat]
      BY <3>1
    <3> HIDE DEF none
    <3>3. Kept(none, Read)'
      BY <3>1 DEF Kept
    <3>4. (Read <= Len(lines) + 1)'
      BY <1>0, <3>1
    <3>5. QED
      BY <3>2, <3>3, <3>4 DEF InOrder
  <2>5. QED
    BY <2>2, <2>3, <2>4
<1>4. CASE Add
  <2>1. /\ next <= Len(lines) /\ Parses(lines[next]) /\ pc = "build"
        /\ engine' = Append(engine, lines[next]) /\ next' = next + 1
        /\ UNCHANGED <<file, sites, lines, pc, req, dest>>
    BY <1>4 DEF Add
  <2>2. lines[next] \in ConfigLines
    BY <1>0, <2>1 DEF Types
  <2>3. /\ engine' \in Seq(ConfigLines) /\ Len(engine') = Len(engine) + 1
        /\ \A k \in 1 .. Len(engine) : engine'[k] = engine[k]
        /\ engine'[Len(engine) + 1] = lines[next]
    BY <2>1, <2>2 DEF Types
  <2>4. Types' /\ Loaded' /\ Asked'
    BY <1>0, <2>1, <2>3 DEF Types, Loaded, Asked
  <2>5. \A i : Parses(lines[i])' <=> Parses(lines[i])
    BY <2>1 DEF Parses, Known
  <2>6. PICK src \in [1 .. Len(engine) -> Nat] : Kept(src, next)
    BY <2>1 DEF InOrder, Read
  <2>7. PICK new \in [1 .. Len(engine') -> Nat] :
          /\ new[Len(engine) + 1] = next
          /\ \A k \in 1 .. Len(engine) : new[k] = src[k]
    <3> DEFINE longer == [k \in 1 .. Len(engine') |->
                           IF k = Len(engine) + 1 THEN next ELSE src[k]]
    <3>1. longer \in [1 .. Len(engine') -> Nat]
      BY <1>0, <2>3, <2>6
    <3>2. longer[Len(engine) + 1] = next /\ \A k \in 1 .. Len(engine) : longer[k] = src[k]
      BY <1>0, <2>3, <2>6
    <3> HIDE DEF longer
    <3>3. QED
      BY <3>1, <3>2
  <2>8. \A k \in 1 .. Len(engine) : src[k] \in Nat /\ src[k] < next
    BY <1>0, <2>6 DEF Kept
  <2>9. Kept(new, Read)'
    <3>1. Read' = next + 1
      BY <2>1 DEF Read
    <3>2. ASSUME NEW k \in 1 .. Len(engine')
          PROVE  new[k] \in 1 .. next /\ engine'[k] = lines[new[k]] /\ Parses(lines[new[k]])
      <4>1. CASE k = Len(engine) + 1
        <5>1. new[k] = next /\ engine'[k] = lines[next]
          BY <2>3, <2>7, <4>1
        <5>2. next \in 1 .. next
          BY <1>0 DEF Types
        <5>3. QED
          BY <2>1, <5>1, <5>2
      <4>2. CASE k # Len(engine) + 1
        <5>1. k \in 1 .. Len(engine)
          BY <1>0, <2>3, <4>2
        <5>2. QED
          <6>1. /\ src[k] \in 1 .. next - 1
                /\ engine[k] = lines[src[k]] /\ Parses(lines[src[k]])
            BY <2>6, <5>1 DEF Kept
          <6>2. src[k] \in 1 .. next
            BY <1>0, <6>1
          <6>3. QED
            BY <2>3, <2>7, <5>1, <6>1, <6>2
      <4>3. QED
        BY <4>1, <4>2
    <3>3. ASSUME NEW k \in 1 .. Len(engine'), NEW l \in 1 .. Len(engine'), k < l
          PROVE  new[k] < new[l]
      <4>1. k \in 1 .. Len(engine)
        BY <1>0, <2>3, <3>3
      <4>2. CASE l = Len(engine) + 1
        BY <2>7, <2>8, <4>1, <4>2
      <4>3. CASE l # Len(engine) + 1
        <5>1. l \in 1 .. Len(engine)
          BY <1>0, <2>3, <4>3
        <5>2. QED
          BY <2>6, <2>7, <3>3, <4>1, <5>1 DEF Kept
      <4>4. QED
        BY <4>2, <4>3
    <3>4. ASSUME NEW i \in 1 .. next, Parses(lines[i])
          PROVE  \E k \in 1 .. Len(engine') : new[k] = i
      <4>1. CASE i = next
        BY <1>0, <2>3, <2>7, <4>1
      <4>2. CASE i # next
        <5>1. PICK k \in 1 .. Len(engine) : src[k] = i
          BY <1>0, <2>6, <3>4, <4>2 DEF Kept
        <5>2. k \in 1 .. Len(engine')
          BY <1>0, <2>3
        <5>3. QED
          BY <2>7, <5>1, <5>2
      <4>3. QED
        BY <4>1, <4>2
    <3>5. Read' - 1 = next
      BY <1>0, <3>1
    <3>6. /\ \A k \in 1 .. Len(engine') :
               /\ new[k] \in 1 .. Read' - 1
               /\ engine'[k] = lines'[new[k]] /\ Parses(lines[new[k]])'
          /\ \A k, l \in 1 .. Len(engine') : k < l => new[k] < new[l]
      BY <2>1, <2>5, <3>2, <3>3, <3>5
    <3>7. \A i \in 1 .. Read' - 1 :
            Parses(lines[i])' => \E k \in 1 .. Len(engine') : new[k] = i
      BY <2>1, <2>5, <3>4, <3>5
    <3>8. QED
      BY <3>6, <3>7 DEF Kept
  <2>10. InOrder'
    <3>1. (Read <= Len(lines) + 1)'
      BY <1>0, <2>1 DEF Read
    <3>2. QED
      BY <2>7, <2>9, <3>1 DEF InOrder
  <2>11. QED
    BY <2>4, <2>10
<1>5. CASE Skip
  <2>1. /\ next <= Len(lines) /\ ~Parses(lines[next]) /\ pc = "build" /\ next' = next + 1
        /\ UNCHANGED <<file, sites, lines, engine, pc, req, dest>>
    BY <1>5 DEF Skip
  <2>2. Types' /\ Loaded' /\ Asked'
    BY <2>1 DEF Types, Loaded, Asked
  <2>3. PICK src \in [1 .. Len(engine) -> Nat] : Kept(src, next)
    BY <2>1 DEF InOrder, Read
  <2>4. Kept(src, next + 1)
    <3>1. \A k \in 1 .. Len(engine) : src[k] \in 1 .. (next + 1) - 1
      BY <1>0, <2>3 DEF Kept
    <3>2. \A i \in 1 .. (next + 1) - 1 : i \in 1 .. next - 1 \/ i = next
      BY <1>0
    <3>3. QED
      BY <2>1, <2>3, <3>1, <3>2 DEF Kept
  <2>5. Kept(src, Read)'
    BY <2>1, <2>4 DEF Kept, Read, Parses, Known
  <2>6. InOrder'
    BY <1>0, <2>1, <2>3, <2>5 DEF InOrder, Read
  <2>7. QED
    BY <2>2, <2>6
<1>6. CASE Built
  <2>1. /\ next > Len(lines) /\ pc = "build" /\ pc' = "idle" /\ next' = 1
        /\ UNCHANGED <<file, sites, lines, engine, req, dest>>
    BY <1>6 DEF Built
  <2>2. Types' /\ Loaded' /\ Asked'
    BY <2>1 DEF Types, Loaded, Asked
  <2>3. Read' = Read
    BY <1>0, <2>1 DEF Read, InOrder
  <2>4. QED
    BY <1>1, <2>1, <2>2, <2>3
<1>7. CASE Ask
  <2>1. pc = "idle" /\ pc' = "match" /\ UNCHANGED <<file, sites, lines, engine, next, req, dest>>
    BY <1>7 DEF Ask
  <2>2. Types' /\ Loaded' /\ InOrder'
    BY <1>1, <2>1 DEF Types, Loaded, Read
  <2>3. Asked'
    BY <1>0, <2>1 DEF Asked
  <2>4. QED
    BY <2>2, <2>3
<1>8. CASE Match
  <2>1. /\ pc = "match" /\ pc' \in {"match", "routed"} /\ next' \in {next, next + 1}
        /\ UNCHANGED <<file, sites, lines, engine, req>>
    BY <1>8 DEF Match, RuleMatches, RulePasses, NoRuleMatches
  <2>2. Types' /\ Loaded' /\ InOrder'
    BY <1>0, <1>1, <2>1 DEF Types, Loaded, Read
  <2>3. \A k : (Matches(engine[k], req))' <=> Matches(engine[k], req)
    BY <2>1 DEF Matches, Contains, Values, HasKeyword, HasSuffix
  <2> HIDE DEF Matches
  <2>4. Asked'
    <3>1. CASE RuleMatches
      BY <2>1, <2>3, <3>1 DEF RuleMatches, Asked
    <3>2. CASE RulePasses
      <4>1. \A k \in 1 .. Len(engine) : k < next + 1 => k < next \/ k = next
        BY <1>0
      <4>2. QED
        BY <2>1, <2>3, <3>2, <4>1 DEF RulePasses, Asked
    <3>3. CASE NoRuleMatches
      BY <2>1, <2>3, <3>3 DEF NoRuleMatches, Asked, Route
    <3>4. QED
      BY <1>8, <3>1, <3>2, <3>3 DEF Match
  <2>5. QED
    BY <2>2, <2>4
<1>9. QED
  BY <1>2, <1>3, <1>4, <1>5, <1>6, <1>7, <1>8 DEF Next, Build

(* It holds in every reachable state.                                      *)
LEMMA Invariance == Spec => []IInv
BY InitIInv, IInvStep, PTL DEF Spec

-----------------------------------------------------------------------------
(* Once the file has been loaded, the table is what its decoding gives.    *)
Decoded ==
  pc \notin {"load", "exit"} /\ file # NoPath =>
    GeoSiteListOK(file) /\ sites = DecodeGeoSiteList(file)

(* Nobody but LoadSites writes the table.                                  *)
LEMMA DecodedStep == Decoded /\ [Next]_vars => Decoded'
<1> SUFFICES ASSUME Decoded, [Next]_vars PROVE Decoded'
  OBVIOUS
<1>1. CASE LoadSites
  BY <1>1 DEF LoadSites, Decoded
<1>2. CASE LoadFails
  BY <1>2 DEF LoadFails, Decoded
<1>3. CASE Add \/ Skip \/ Built \/ Ask \/ UNCHANGED vars
  BY <1>3 DEF Add, Skip, Built, Ask, vars, Decoded
<1>4. CASE Match
  BY <1>4 DEF Match, RuleMatches, RulePasses, NoRuleMatches, Decoded
<1>5. QED
  BY <1>1, <1>2, <1>3, <1>4 DEF Next, Build

(* It is never changed again.                                              *)
LEMMA Tables == Spec => []Decoded
<1>1. Init => Decoded
  BY DEF Init, Decoded
<1>2. QED
  BY <1>1, DecodedStep, PTL DEF Spec

(* A category the program knows covers exactly the hosts that the last     *)
(* entry of its name lists, for every file: any number of entries, fields  *)
(* in any order, said again or unknown.                                    *)
THEOREM TableRight == Spec => []TableAsWritten
<1>1. IInv /\ Decoded => TableAsWritten
  <2> SUFFICES ASSUME IInv, Decoded PROVE TableAsWritten
    OBVIOUS
  <2>1. req.host \in Seq(STRING) /\ (file # NoPath => GeoSiteListMessage(file))
    BY DEF IInv, Types
  <2>2. ASSUME pc \notin {"load", "exit"}, file # NoPath
        PROVE  /\ GeoSiteListOK(file)
               /\ \A c \in DOMAIN sites : Contains(c, req.host) <=> FileSays(c, req.host)
    BY <2>1, <2>2, CategoryCovers DEF Decoded
  <2>3. ASSUME NEW i \in DOMAIN engine, engine[i].typ = "GEOSITE"
        PROVE  file # NoPath /\ Written(file, engine[i].arg) # {}
    <3>1. DOMAIN engine = 1 .. Len(engine) /\ i \in 1 .. Len(engine)
      BY <2>3 DEF IInv, Types
    <3>2. engine # <<>>
      BY <2>3
    <3>3. pc \notin {"load", "exit"}
      BY <3>2 DEF IInv, Loaded
    <3>4. Parses(engine[i])
      <4>1. PICK src : Kept(src, Read)
        BY DEF IInv, InOrder
      <4>2. QED
        BY <3>1, <4>1 DEF Kept
    <3>5. engine[i].arg \in DOMAIN sites /\ sites[engine[i].arg] # <<>>
      BY <2>3, <3>4 DEF Parses, Known
    <3>6. file # NoPath
      BY <3>5 DEF IInv, Loaded
    <3>7. sites = DecodeGeoSiteList(file)
      BY <3>3, <3>6 DEF Decoded
    <3>8. QED
      BY <2>1, <3>5, <3>6, <3>7, TableSays
  <2>4. QED
    BY <2>2, <2>3 DEF TableAsWritten
<1>2. QED
  BY <1>1, Invariance, Tables, PTL

(* A request goes where the first line that is in force and applies to it  *)
(* says, for every configuration of any length with lines that are skipped *)
(* anywhere in it.                                                         *)
THEOREM FirstLine == Spec => []FirstLineDecides
<1>1. IInv /\ TableAsWritten => FirstLineDecides
  <2> DEFINE hits == {i \in DOMAIN lines : Parses(lines[i]) /\ Says(lines[i], req)}
  <2> SUFFICES ASSUME IInv, TableAsWritten, pc = "routed"
               PROVE  IF hits = {} THEN dest = "direct"
                      ELSE \E i \in hits : /\ \A j \in hits : i <= j
                                           /\ dest = Route(lines[i].adapter)
    BY DEF FirstLineDecides
  <2>0. /\ Len(lines) \in Nat /\ Len(engine) \in Nat /\ next \in Nat \ {0}
        /\ DOMAIN lines = 1 .. Len(lines) /\ req \in Requests
        /\ \A i \in DOMAIN lines : lines[i] \in ConfigLines
    BY DEF IInv, Types
  <2>1. PICK src \in [1 .. Len(engine) -> Nat] : Kept(src, Len(lines) + 1)
    BY DEF IInv, InOrder, Read
  <2>2. /\ \A k \in 1 .. Len(engine) : src[k] \in DOMAIN lines /\ engine[k] = lines[src[k]]
        /\ \A k \in 1 .. Len(engine) : Parses(lines[src[k]])
        /\ \A i \in DOMAIN lines : Parses(lines[i]) => \E k \in 1 .. Len(engine) : src[k] = i
    BY <2>0, <2>1 DEF Kept
  <2>3. ASSUME NEW i \in DOMAIN lines, Parses(lines[i])
        PROVE  Matches(lines[i], req) <=> Says(lines[i], req)
    <3>1. ASSUME lines[i].typ = "GEOSITE"
          PROVE  Contains(lines[i].arg, req.host) <=> FileSays(lines[i].arg, req.host)
      <4>1. lines[i].arg \in DOMAIN sites
        BY <2>3, <3>1 DEF Parses, Known
      <4>2. file # NoPath
        BY <4>1 DEF IInv, Loaded
      <4>3. QED
        BY <4>1, <4>2 DEF TableAsWritten
    <3>2. QED
      BY <2>0, <2>3, <3>1, MatchesWhatItSays
  <2>4. \A j \in hits : \E k \in 1 .. Len(engine) :
          src[k] = j /\ k >= next /\ Matches(engine[k], req)
    <3> TAKE j \in hits
    <3>1. PICK k \in 1 .. Len(engine) : src[k] = j
      BY <2>2
    <3>2. Matches(engine[k], req)
      BY <2>2, <2>3, <3>1
    <3>3. ~(k < next)
      BY <3>2 DEF IInv, Asked
    <3>4. QED
      BY <2>0, <3>1, <3>2, <3>3
  <2>5. CASE next <= Len(engine) /\ Matches(engine[next], req)
             /\ dest = Route(engine[next].adapter)
    <3>1. next \in 1 .. Len(engine)
      BY <2>0, <2>5
    <3>2. src[next] \in hits
      BY <2>2, <2>3, <2>5, <3>1
    <3>3. \A j \in hits : src[next] <= j
      <4> TAKE j \in hits
      <4>1. PICK k \in 1 .. Len(engine) : src[k] = j /\ k >= next
        BY <2>4
      <4>2. k = next \/ (next < k /\ src[next] < src[k])
        BY <2>0, <2>1, <3>1, <4>1 DEF Kept
      <4>3. src[next] \in Nat /\ src[k] \in Nat
        BY <3>1
      <4>4. QED
        BY <4>1, <4>2, <4>3
    <3>4. dest = Route(lines[src[next]].adapter)
      BY <2>2, <2>5, <3>1
    <3>5. QED
      BY <3>2, <3>3, <3>4
  <2>6. CASE next > Len(engine) /\ dest = "direct"
    <3>1. hits = {}
      BY <2>0, <2>4, <2>6
    <3>2. QED
      BY <2>6, <3>1
  <2>7. QED
    BY <2>5, <2>6 DEF IInv, Asked
<1>2. QED
  BY <1>1, Invariance, TableRight, PTL
=============================================================================
