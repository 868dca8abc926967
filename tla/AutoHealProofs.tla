--------------------------- MODULE AutoHealProofs ---------------------------
(***************************************************************************)
(* Theorems about the health tracker and its loop with the tunnel, for any  *)
(* number of observers, any window and any thresholds.                      *)
(***************************************************************************)
EXTENDS AutoHeal, FiniteSetTheorems, WellFoundedInduction, TLAPS

USE HealthAssumption, ProbeAssumption

-----------------------------------------------------------------------------
(* Sorting.                                                                *)

(* A set of natural numbers has a least one.                               *)
LEMMA LeastNat ==
  ASSUME NEW T \in SUBSET Nat, T # {}
  PROVE  \E n \in T : \A m \in T : n <= m
<1> DEFINE Less == OpToRel(<, Nat)
<1>1. IsWellFoundedOn(Less, Nat)
  BY NatLessThanWellFounded
<1>2. \A m, n \in Nat : m < n => <<m, n>> \in Less
  BY DEF OpToRel
<1> HIDE DEF Less
<1>3. \E n \in T : \A m \in T : ~ (<<m, n>> \in Less)
  BY <1>1, WFMin
<1>4. PICK n \in T : \A m \in T : <<m, n>> \notin Less
  BY <1>3
<1>5. \A m \in T : n <= m
  <2> SUFFICES ASSUME NEW m \in T, ~(n <= m) PROVE FALSE
    OBVIOUS
  <2>1. m \in Nat /\ n \in Nat /\ m < n
    OBVIOUS
  <2>2. QED
    BY <1>2, <1>4, <2>1, Zenon
<1>6. QED
  BY <1>5

LEMMA Bijections ==
  ASSUME NEW D, NEW p
  PROVE  p \in Bijection(D, D) <=>
           /\ p \in [D -> D] /\ \A i, j \in D : p[i] = p[j] => i = j
           /\ \A t \in D : \E i \in D : p[i] = t
BY DEF Bijection, Injection, Surjection, IsInjective

(* The first k samples, as p orders them, are ascending and no larger than *)
(* those that follow.                                                      *)
Prefix(w, p, k) ==
  \A i, j \in DOMAIN w : i < j /\ i <= k => w[p[i]] <= w[p[j]]

(* Selecting the least of the rest extends such a prefix by one.           *)
LEMMA PrefixGrows ==
  ASSUME NEW w \in Seq(Nat), NEW k \in Nat, k < Len(w),
         NEW p \in Bijection(DOMAIN w, DOMAIN w), Prefix(w, p, k)
  PROVE  \E q \in Bijection(DOMAIN w, DOMAIN w) : Prefix(w, q, k + 1)
<1> DEFINE D == 1 .. Len(w)
<1>1. DOMAIN w = D /\ k + 1 \in D /\ \A i \in D : w[i] \in Nat
  OBVIOUS
<1>2. /\ p \in [D -> D] /\ \A i, j \in D : p[i] = p[j] => i = j
      /\ \A t \in D : \E i \in D : p[i] = t
  <2>1. p \in Bijection(D, D)
    BY <1>1
  <2>2. QED
    BY <2>1, Bijections
<1>3. PICK m \in D : m >= k + 1 /\ \A i \in D : i >= k + 1 => w[p[m]] <= w[p[i]]
  <2> DEFINE Rest == {w[p[i]] : i \in k + 1 .. Len(w)}
  <2>1. Rest \in SUBSET Nat /\ Rest # {}
    <3>1. \A i \in k + 1 .. Len(w) : w[p[i]] \in Nat
      <4>1. \A i \in k + 1 .. Len(w) : i \in D
        BY <1>1
      <4> HIDE DEF D
      <4>2. QED
        BY <1>1, <1>2, <4>1
    <3>2. w[p[k + 1]] \in Rest
      BY <1>1
    <3>3. QED
      BY <3>1, <3>2
  <2>2. PICK least \in Rest : \A v \in Rest : least <= v
    BY <2>1, LeastNat
  <2>3. QED
    <3>1. PICK m \in k + 1 .. Len(w) : w[p[m]] = least
      BY <2>2
    <3>2. \A i \in k + 1 .. Len(w) : w[p[m]] <= w[p[i]]
      BY <2>2, <3>1
    <3>3. m \in D /\ m >= k + 1 /\ \A i \in D : i >= k + 1 => i \in k + 1 .. Len(w)
      BY <1>1
    <3>4. QED
      BY <3>2, <3>3
<1> DEFINE swap(i) == IF i = k + 1 THEN m ELSE IF i = m THEN k + 1 ELSE i
           q == [i \in D |-> p[swap(i)]]
<1>4. \A i \in D : swap(i) \in D /\ swap(swap(i)) = i
  BY <1>1
<1>5. \A i, j \in D : swap(i) = swap(j) => i = j
  BY <1>4
<1>6. q \in [D -> D] /\ \A i \in D : q[i] = p[swap(i)]
  BY <1>2, <1>4
<1> HIDE DEF q
<1>7. q \in Bijection(DOMAIN w, DOMAIN w)
  <2>1. \A i, j \in D : q[i] = q[j] => i = j
    <3> HIDE DEF swap, D
    <3> TAKE i, j \in D
    <3>1. HAVE q[i] = q[j]
    <3>2. p[swap(i)] = p[swap(j)] /\ swap(i) \in D /\ swap(j) \in D
      BY <1>4, <1>6, <3>1
    <3>3. swap(i) = swap(j)
      BY <1>2, <3>2
    <3>4. QED
      BY <1>5, <3>3
  <2>2. \A t \in D : \E i \in D : q[i] = t
    <3> TAKE t \in D
    <3>1. PICK i \in D : p[i] = t
      BY <1>2
    <3>2. swap(i) \in D /\ q[swap(i)] = t
      BY <1>4, <1>6, <3>1
    <3>3. QED
      BY <3>2
  <2>3. QED
    BY <1>1, <1>6, <2>1, <2>2, Bijections
<1>8. Prefix(w, q, k + 1)
  <2> SUFFICES ASSUME NEW i \in D, NEW j \in D, i < j, i <= k + 1 PROVE w[q[i]] <= w[q[j]]
    BY <1>1 DEF Prefix
  <2>1. CASE i = k + 1
    <3>1. q[i] = p[m] /\ swap(j) \in D /\ swap(j) >= k + 1
      BY <1>1, <1>3, <1>4, <1>6, <2>1
    <3>2. QED
      BY <1>3, <1>6, <3>1
  <2>2. CASE i <= k
    <3>1. swap(i) = i /\ swap(j) \in D /\ i < swap(j)
      BY <1>1, <1>3, <1>4, <2>2
    <3>2. QED
      BY <1>1, <1>6, <2>2, <3>1 DEF Prefix
  <2>3. QED
    BY <2>1, <2>2
<1>9. QED
  BY <1>7, <1>8

(* Every window can be sorted, and Sorted sorts it.                        *)
LEMMA SortedSorts ==
  ASSUME NEW w \in Seq(Nat)
  PROVE  \E p \in Bijection(DOMAIN w, DOMAIN w) :
           /\ Sorted(w) = [i \in DOMAIN w |-> w[p[i]]]
           /\ Ascending(Sorted(w))
<1> DEFINE D == DOMAIN w
           by(p) == [i \in D |-> w[p[i]]]
           Left == {l \in 0 .. Len(w) : \E p \in Bijection(D, D) : Prefix(w, p, Len(w) - l)}
<1>1. D = 1 .. Len(w) /\ Len(w) \in Nat /\ \A i \in D : w[i] \in Nat
  OBVIOUS
<1>2. Left \in SUBSET Nat
  OBVIOUS
<1>3. Len(w) \in Left
  <2> DEFINE id == [i \in D |-> i]
  <2>1. id \in Bijection(D, D)
    BY Bijections
  <2>2. Prefix(w, id, 0)
    BY <1>1 DEF Prefix
  <2>3. QED
    BY <1>1, <2>1, <2>2
<1>4. PICK l \in Left : \A n \in Left : l <= n
  BY <1>2, <1>3, LeastNat
<1>5. PICK p \in Bijection(D, D) : Prefix(w, p, Len(w) - l)
  OBVIOUS
<1>6. l = 0
  <2> SUFFICES ASSUME l # 0 PROVE FALSE
    OBVIOUS
  <2> DEFINE k == Len(w) - l
  <2>1. k \in Nat /\ k < Len(w) /\ l - 1 \in 0 .. Len(w) /\ Len(w) - (l - 1) = k + 1
    BY <1>1
  <2>2. \E q \in Bijection(D, D) : Prefix(w, q, k + 1)
    BY <1>5, <2>1, PrefixGrows
  <2>3. l - 1 \in Left
    BY <2>1, <2>2
  <2>4. QED
    BY <1>4, <2>1, <2>3
<1>7. Ascending(by(p))
  <2>1. Prefix(w, p, Len(w))
    BY <1>1, <1>5, <1>6
  <2>2. QED
    BY <1>1, <2>1 DEF Ascending, Prefix
<1>8. QED
  BY <1>7 DEF Sorted

-----------------------------------------------------------------------------
(* The nearest rank.                                                       *)

LEMMA RankFits ==
  ASSUME NEW n \in Nat \ {0}
  PROVE  /\ Rank(n) \in 1 .. n
         /\ 100 * Rank(n) >= Percent * n
         /\ 100 * (Rank(n) - 1) < Percent * n
<1> DEFINE m == Percent * n
<1>1. m \in Nat /\ m <= 100 * n /\ m > 0
  OBVIOUS
<1>2. Rank(n) = IF (m + 99) \div 100 > n THEN n ELSE (m + 99) \div 100
  BY DEF Rank
<1> HIDE DEF m
<1>3. /\ Rank(n) \in 1 .. n
      /\ 100 * Rank(n) >= m
      /\ 100 * (Rank(n) - 1) < m
  BY <1>1, <1>2
<1>4. QED
  BY <1>3 DEF m

(* In a sorted window the sample at position r has r samples no larger,    *)
(* itself included, and a smaller one has fewer than r.                    *)
LEMMA RankCounts ==
  ASSUME NEW w \in Seq(Nat), NEW r \in DOMAIN w
  PROVE  LET atMost(v) == {i \in DOMAIN w : w[i] <= v} IN
         /\ Sorted(w)[r] \in {w[i] : i \in DOMAIN w}
         /\ Cardinality(atMost(Sorted(w)[r])) \in Nat
         /\ Cardinality(atMost(Sorted(w)[r])) >= r
         /\ \A v \in Nat : v < Sorted(w)[r] =>
              Cardinality(atMost(v)) \in Nat /\ Cardinality(atMost(v)) <= r - 1
<1> DEFINE D == DOMAIN w
           s == Sorted(w)
           atMost(v) == {i \in D : w[i] <= v}
<1>1. PICK p \in Bijection(D, D) : s = [i \in D |-> w[p[i]]] /\ Ascending(s)
  BY SortedSorts
<1>2. /\ p \in [D -> D] /\ \A i, j \in D : p[i] = p[j] => i = j
      /\ \A t \in D : \E i \in D : p[i] = t
  BY Bijections
<1>3. D = 1 .. Len(w) /\ Len(w) \in Nat /\ r \in Nat /\ \A i \in D : w[i] \in Nat
  OBVIOUS
<1>4. \A i \in D : s[i] = w[p[i]] /\ s[i] \in Nat
  BY <1>1, <1>2, <1>3
<1>5. \A i, j \in D : i <= j => s[i] <= s[j]
  BY <1>1, <1>3, <1>4 DEF Ascending
<1> HIDE DEF s
<1>6. \A v : IsFiniteSet(atMost(v)) /\ Cardinality(atMost(v)) \in Nat
  <2> TAKE v
  <2>1. IsFiniteSet(D)
    BY <1>3, FS_Interval
  <2>2. atMost(v) \in SUBSET D
    OBVIOUS
  <2>3. QED
    BY <2>1, <2>2, FS_Subset, FS_CardinalityType
<1>7. Cardinality(atMost(s[r])) >= r
  <2> DEFINE f == [i \in 1 .. r |-> p[i]]
  <2>1. \A i \in 1 .. r : i \in D /\ p[i] \in atMost(s[r])
    <3>1. \A i \in 1 .. r : i \in D /\ i <= r
      BY <1>3
    <3>2. QED
      BY <1>2, <1>4, <1>5, <3>1
  <2>2. f \in Injection(1 .. r, atMost(s[r]))
    BY <1>2, <2>1 DEF Injection, IsInjective
  <2>3. Cardinality(1 .. r) <= Cardinality(atMost(s[r]))
    BY <1>6, <2>2, FS_Injection
  <2>4. Cardinality(1 .. r) = r
    BY <1>3, FS_Interval
  <2>5. QED
    BY <2>3, <2>4
<1>8. ASSUME NEW v \in Nat, v < s[r] PROVE Cardinality(atMost(v)) <= r - 1
  <2> DEFINE at == [i \in atMost(v) |-> CHOOSE j \in D : p[j] = i]
  <2>1. \A i \in atMost(v) : at[i] \in D /\ p[at[i]] = i
    BY <1>2
  <2>2. \A i \in atMost(v) : at[i] \in 1 .. r - 1
    <3> TAKE i \in atMost(v)
    <3>1. at[i] \in D /\ s[at[i]] <= v
      BY <1>4, <2>1
    <3>2. ~(r <= at[i])
      BY <1>3, <1>4, <1>5, <1>8, <3>1
    <3>3. QED
      BY <1>3, <3>1, <3>2
  <2>3. at \in Injection(atMost(v), 1 .. r - 1)
    <3>1. at \in [atMost(v) -> 1 .. r - 1]
      BY <2>2
    <3>2. \A i, j \in atMost(v) : at[i] = at[j] => i = j
      <4> HIDE DEF at
      <4>1. QED
        BY <2>1
    <3> HIDE DEF at
    <3>3. QED
      BY <3>1, <3>2 DEF Injection, IsInjective
  <2>4. Cardinality(atMost(v)) <= Cardinality(1 .. r - 1)
    BY <1>3, <2>3, FS_Interval, FS_Injection
  <2>5. Cardinality(1 .. r - 1) = r - 1
    BY <1>3, FS_Interval
  <2>6. QED
    BY <2>4, <2>5
<1>9. s[r] \in {w[i] : i \in D}
  BY <1>2, <1>4
<1>10. QED
  BY <1>6, <1>7, <1>8, <1>9 DEF s

(* Whatever is in the window, evaluate judges by the least sample that     *)
(* enough of all samples do not exceed.                                    *)
LEMMA NearestRank == window \in Seq(Nat) => PercentileIsNearestRank
<1> SUFFICES ASSUME window \in Seq(Nat), window # <<>>
             PROVE  LET p == Percentile(window)
                        enough(v) == 100 * Cardinality(AtMost(v)) >= Percent * Len(window)
                    IN  /\ p \in Range(window) /\ enough(p)
                        /\ \A v \in Range(window) : v < p => ~enough(v)
  BY DEF PercentileIsNearestRank
<1> DEFINE n == Len(window)
           r == Rank(n)
           p == Sorted(window)[r]
<1>1. n \in Nat \ {0} /\ DOMAIN window = 1 .. n
  OBVIOUS
<1>2. r \in 1 .. n /\ 100 * r >= Percent * n /\ 100 * (r - 1) < Percent * n /\ Percent * n \in Nat
  BY <1>1, RankFits
<1>3. /\ p \in Range(window)
      /\ Cardinality(AtMost(p)) \in Nat /\ Cardinality(AtMost(p)) >= r
      /\ \A v \in Nat : v < p =>
           Cardinality(AtMost(v)) \in Nat /\ Cardinality(AtMost(v)) <= r - 1
  BY <1>1, <1>2, RankCounts DEF AtMost, Range
<1>4. Range(window) \subseteq Nat
  BY DEF Range
<1>5. Percentile(window) = p
  BY DEF Percentile
<1> HIDE DEF n, r, p
<1>6. 100 * Cardinality(AtMost(p)) >= Percent * n
  BY <1>2, <1>3
<1>7. ASSUME NEW v \in Range(window), v < p
      PROVE  ~(100 * Cardinality(AtMost(v)) >= Percent * n)
  BY <1>2, <1>3, <1>4, <1>7
<1>8. QED
  BY <1>3, <1>5, <1>6, <1>7 DEF n

-----------------------------------------------------------------------------
(* The inductive invariant.                                                *)

(* The steps of evaluate and transition.                                   *)
Evaluation(o) ==
  \/ Judge(o) \/ LoadState(o) \/ Worsens(o) \/ StaysHealthy(o) \/ StaysBad(o) \/ GoodAgain(o)
  \/ TransitLoads(o) \/ TransitStores(o) \/ TransitStamps(o) \/ TransitSpawns(o)

(* Calls that have not overlapped: one at a time goes through evaluate,    *)
(* with a verdict on the window as it still is and a state nobody else has *)
(* changed, and leaves a state that agrees with them.                      *)
Now == Judged(window, ewmaErr)

OneAtATime == \A o, q \in Observers : pc[o] # "idle" /\ pc[q] # "idle" => o = q

UpToDate(o) ==
  /\ pc[o] \notin {"idle", "judge"} => verdict[o] = Now
  /\ pc[o] \in {"decide", "transit", "store"} => cur[o] = state
  /\ pc[o] \in {"transit", "store", "stamp", "spawn"} =>
       target[o] = IF Now = "good" THEN "healthy" ELSE Now
  /\ pc[o] \in {"stamp", "spawn"} => state = target[o]

Agrees ==
  /\ state = "healthy" => Now = "good"
  /\ Now = "unhealthy" => state = "unhealthy"

Settled == (\A o \in Observers : pc[o] = "idle") => Agrees

Alone == OneAtATime /\ (\A o \in Observers : UpToDate(o)) /\ Settled

IInv == HealTypeOK /\ (~overlapped => Alone)

LEMMA JudgedType == \A w, e : Judged(w, e) \in Verdicts
BY DEF Judged, Verdicts

LEMMA SamplesTyped == Samples \subseteq Sample /\ Refused \in Sample
<1>1. [ms |-> GoodRTT, failed |-> FALSE] \in Sample /\ Refused \in Sample
  BY DEF Sample, Refused
<1>2. BadSamples \subseteq Sample
  BY DEF Sample
<1>3. QED
  BY <1>1, <1>2 DEF Samples

-----------------------------------------------------------------------------
(* Types.                                                                  *)

LEMMA ObserveTypes ==
  ASSUME TypeOK, NEW o \in Observers, NEW s \in Sample, Observe(o, s), bad' \in 0 .. MaxBad
  PROVE  TypeOK'
<1> USE DEF TypeOK
<1>1. s.ms \in Nat /\ s.failed \in BOOLEAN
  BY DEF Sample
<1>2. window' \in Seq(Nat) /\ Len(window') <= WindowSize
  <2>1. CASE Len(window) < WindowSize
    BY <1>1, <2>1 DEF Observe
  <2>2. CASE ~(Len(window) < WindowSize)
    <3>1. Len(window) = WindowSize /\ window' = [window EXCEPT ![idx] = s.ms]
      BY <2>2 DEF Observe
    <3>2. QED
      BY <1>1, <3>1
  <2>3. QED
    BY <2>1, <2>2
<1>3. idx' \in 1 .. WindowSize
  BY DEF Observe
<1>4. ewmaErr' \in 0 .. 100
  BY DEF Observe, NextErr
<1>5. slow' \in BOOLEAN /\ overlapped' \in BOOLEAN
  BY DEF Observe
<1>6. UNCHANGED <<machine, locals, calm>> /\ pc' = [pc EXCEPT ![o] = "judge"]
  BY DEF Observe
<1>7. QED
  BY <1>2, <1>3, <1>4, <1>5, <1>6 DEF machine, locals

LEMMA EvaluateTypes ==
  ASSUME TypeOK, NEW o \in Observers, Evaluation(o)
  PROVE  TypeOK'
<1> USE DEF TypeOK, metrics, machine, locals, history, Finish, Transit, Stamps, States, Verdicts,
            Calms
<1>1. CASE Judge(o)
  BY <1>1, JudgedType DEF Judge
<1>2. CASE LoadState(o)
  BY <1>2 DEF LoadState
<1>3. CASE Worsens(o)
  BY <1>3 DEF Worsens
<1>4. CASE StaysHealthy(o)
  BY <1>4 DEF StaysHealthy
<1>5. CASE StaysBad(o)
  BY <1>5 DEF StaysBad
<1>6. CASE GoodAgain(o)
  BY <1>6 DEF GoodAgain, Starts
<1>7. CASE TransitLoads(o)
  BY <1>7 DEF TransitLoads
<1>8. CASE TransitStores(o)
  BY <1>8 DEF TransitStores, Stored
<1>9. CASE TransitStamps(o)
  BY <1>9 DEF TransitStamps
<1>10. CASE TransitSpawns(o)
  BY <1>10 DEF TransitSpawns
<1>11. QED
  BY <1>1, <1>2, <1>3, <1>4, <1>5, <1>6, <1>7, <1>8, <1>9, <1>10 DEF Evaluation

(* What the steps of AutoHeal are, seen from the tracker.                  *)
LEMMA StepsOfTracker ==
  ASSUME HealTypeOK, [HealNext]_healVars
  PROVE  \/ UNCHANGED <<window, idx, ewmaErr, machine, pc, locals, history>>
              /\ bad' \in 0 .. MaxBad
         \/ HealHoldPasses \/ DegradedHoldPasses
         \/ \E o \in Observers :
              \/ \E s \in Sample : Observe(o, s) /\ bad' \in 0 .. MaxBad
              \/ Evaluation(o)
<1> USE DEF HealTypeOK, TypeOK, metrics, vars
<1>1. CASE UNCHANGED healVars \/ Heals \/ Reconnects
  BY <1>1 DEF healVars, Heals, Reconnects
<1>2. CASE Breaks
  BY <1>2 DEF Breaks
<1>3. CASE HealHold \/ DegradedHold
  BY <1>3 DEF HealHold, DegradedHold
<1>4. CASE ProbeReports
  <2>1. [again EXCEPT !.ms = IF again.failed THEN 0 ELSE @] \in Sample
    BY <1>4 DEF ProbeReports, Sample
  <2>2. QED
    BY <1>4, <2>1 DEF ProbeReports
<1>5. ASSUME NEW o \in Observers, Calls(o)
      PROVE  \E s \in Sample : Observe(o, s) /\ bad' \in 0 .. MaxBad
  BY <1>5, SamplesTyped DEF Calls, Counted
<1>6. ASSUME NEW o \in Observers, CallRefused(o)
      PROVE  \E s \in Sample : Observe(o, s) /\ bad' \in 0 .. MaxBad
  BY <1>6, SamplesTyped DEF CallRefused
<1>7. ASSUME NEW o \in Observers, Spawns(o) \/ Evaluates(o)
      PROVE  Evaluation(o)
  BY <1>7 DEF Spawns, Evaluates, Evaluation
<1>8. QED
  BY <1>1, <1>2, <1>3, <1>4, <1>5, <1>6, <1>7 DEF HealNext

LEMMA TypeOKStep == HealTypeOK /\ [HealNext]_healVars => TypeOK'
<1> SUFFICES ASSUME HealTypeOK, [HealNext]_healVars PROVE TypeOK'
  OBVIOUS
<1>1. TypeOK
  BY DEF HealTypeOK
<1>2. CASE UNCHANGED <<window, idx, ewmaErr, machine, pc, locals, history>>
             /\ bad' \in 0 .. MaxBad
  BY <1>1, <1>2 DEF TypeOK, machine, locals, history
<1>3. CASE HealHoldPasses \/ DegradedHoldPasses
  BY <1>1, <1>3 DEF HealHoldPasses, DegradedHoldPasses, TypeOK, metrics, locals, history,
                    Stamps, Calms
<1>4. QED
  BY <1>1, <1>2, <1>3, StepsOfTracker, ObserveTypes, EvaluateTypes

(* Tunnel, callbacks, the probe's sample and the callers' count.           *)
LEMMA HealTypeOKStep == HealTypeOK /\ [HealNext]_healVars => HealTypeOK'
<1> SUFFICES ASSUME HealTypeOK, [HealNext]_healVars PROVE HealTypeOK'
  OBVIOUS
<1> DEFINE Rest == /\ tunnel \in {"up", "down"} /\ heals \in Nat
                   /\ again \in Sample \cup {NoSample} /\ probed \in BOOLEAN
                   /\ calls \in 0 .. MaxTrouble
<1>1. Rest /\ bad \in Nat
  BY DEF HealTypeOK, TypeOK
<1>2. CASE UNCHANGED healVars \/ Heals \/ Reconnects \/ Breaks \/ HealHold \/ DegradedHold
  <2>1. Rest'
    BY <1>1, <1>2 DEF healVars, Heals, Reconnects, Breaks, HealHold, DegradedHold
  <2>2. QED
    BY <2>1, TypeOKStep DEF HealTypeOK
<1>3. CASE ProbeReports
  <2>1. Rest'
    BY <1>1, <1>3 DEF ProbeReports
  <2>2. QED
    BY <2>1, TypeOKStep DEF HealTypeOK
<1>4. ASSUME NEW o \in Observers, Calls(o) PROVE HealTypeOK'
  <2>1. PICK s \in Samples : /\ Counted(s) /\ Keeps(o, s) /\ bad' + calls' <= MaxTrouble
                             /\ heals' = IF s.failed THEN heals + 1 ELSE heals
    BY <1>4 DEF Calls
  <2>2. bad' \in Nat /\ calls' \in Nat
    BY <1>1, <2>1 DEF Counted, Keeps
  <2>3. calls' \in 0 .. MaxTrouble
    <3>1. bad' + calls' <= MaxTrouble
      BY <2>1
    <3>2. \A b, c \in Nat : b + c <= MaxTrouble => c \in 0 .. MaxTrouble
      BY ProbeAssumption
    <3>3. QED
      BY <2>2, <3>1, <3>2
  <2>4. heals' \in Nat /\ UNCHANGED tunnel
    BY <1>1, <1>4, <2>1 DEF Calls
  <2>5. again' \in Sample \cup {NoSample} /\ probed' \in BOOLEAN
    BY <1>1, <2>1, SamplesTyped DEF Keeps
  <2>6. QED
    BY <1>1, <2>3, <2>4, <2>5, TypeOKStep DEF HealTypeOK
<1>5. ASSUME NEW o \in Observers, CallRefused(o) PROVE HealTypeOK'
  <2>1. UNCHANGED <<tunnel, heals>>
    BY <1>5 DEF CallRefused
  <2>2. again' \in Sample \cup {NoSample} /\ probed' \in BOOLEAN
    BY <1>1, <1>5, SamplesTyped DEF CallRefused, Keeps
  <2>3. calls' \in 0 .. MaxTrouble
    <3>1. CASE o = Probe
      BY <1>1, <1>5, <3>1 DEF CallRefused, Keeps
    <3>2. CASE o # Probe
      <4>1. bad + calls < MaxTrouble /\ calls' = calls + 1
        BY <1>5, <3>2 DEF CallRefused, Keeps, MayCall
      <4>2. QED
        BY <1>1, <4>1
    <3>3. QED
      BY <3>1, <3>2
  <2>4. QED
    BY <1>1, <2>1, <2>2, <2>3, TypeOKStep DEF HealTypeOK
<1>6. ASSUME NEW o \in Observers, Spawns(o) \/ Evaluates(o) PROVE HealTypeOK'
  <2>1. UNCHANGED <<tunnel, again, calls>> /\ heals' \in Nat
    BY <1>1, <1>6 DEF Spawns, Evaluates
  <2>2. probed' \in BOOLEAN
    BY <1>1, <1>6, Zenon DEF Spawns, Evaluates
  <2>3. QED
    BY <1>1, <2>1, <2>2, TypeOKStep DEF HealTypeOK
<1>7. QED
  BY <1>2, <1>3, <1>4, <1>5, <1>6 DEF HealNext

-----------------------------------------------------------------------------
(* Calls that do not overlap.                                              *)

(* A sample is recorded: had any call been in progress, they overlap.      *)
LEMMA ObserveAlone ==
  ASSUME TypeOK, ~overlapped => Alone, NEW o \in Observers, NEW s, Observe(o, s), ~overlapped'
  PROVE  Alone'
<1>1. \A q \in Observers : pc[q] = "idle"
  BY DEF Observe
<1>2. \A q \in Observers : pc'[q] = IF q = o THEN "judge" ELSE "idle"
  BY <1>1 DEF Observe, TypeOK
<1>3. QED
  BY <1>2 DEF Alone, OneAtATime, UpToDate, Settled

(* A step of evaluate is one of a call in progress, and no other's.        *)
LEMMA EvaluateFrame ==
  ASSUME TypeOK, NEW o \in Observers, Evaluation(o)
  PROVE  /\ UNCHANGED <<window, ewmaErr, slow, overlapped>> /\ pc[o] # "idle"
         /\ \A q \in Observers \ {o} : pc'[q] = pc[q]
<1> USE DEF metrics, history
<1>1. UNCHANGED <<window, ewmaErr, slow, overlapped>> /\ pc[o] # "idle"
  BY DEF Evaluation, Judge, LoadState, Worsens, StaysHealthy, StaysBad, GoodAgain,
         TransitLoads, TransitStores, Stored, TransitStamps, TransitSpawns
<1>2. \E to : pc' = [pc EXCEPT ![o] = to]
  BY DEF Evaluation, Judge, LoadState, Worsens, StaysHealthy, StaysBad, GoodAgain, Starts,
         TransitLoads, TransitStores, Stored, TransitStamps, TransitSpawns, Finish, Transit
<1>3. QED
  BY <1>1, <1>2 DEF TypeOK

(* What such a step does when its call is the only one.                    *)
LEMMA EvaluateAlone ==
  ASSUME Alone, NEW o \in Observers, pc[o] # "idle",
         \A q \in Observers \ {o} : pc'[q] = pc[q],
         UpToDate(o)', pc'[o] = "idle" => Agrees'
  PROVE  Alone'
<1>1. \A q \in Observers \ {o} : pc'[q] = "idle"
  BY DEF Alone, OneAtATime
<1>2. OneAtATime'
  BY <1>1 DEF OneAtATime
<1>3. \A q \in Observers : UpToDate(q)'
  BY <1>1 DEF UpToDate
<1>4. Settled'
  BY <1>1 DEF Settled
<1>5. QED
  BY <1>2, <1>3, <1>4 DEF Alone

LEMMA AloneStep ==
  IInv /\ [HealNext]_healVars => (~overlapped' => Alone')
<1> SUFFICES ASSUME HealTypeOK, ~overlapped => Alone, [HealNext]_healVars, ~overlapped'
             PROVE  Alone'
  BY DEF IInv
<1> USE DEF metrics, machine, locals, history
<1>0. TypeOK
  BY DEF HealTypeOK
<1>1. CASE UNCHANGED <<window, idx, ewmaErr, machine, pc, locals, history>>
  BY <1>1 DEF Alone, OneAtATime, UpToDate, Settled, Agrees, Now
<1>2. CASE HealHoldPasses \/ DegradedHoldPasses
  BY <1>2 DEF HealHoldPasses, DegradedHoldPasses,
              Alone, OneAtATime, UpToDate, Settled, Agrees, Now
<1>3. ASSUME NEW o \in Observers, NEW s \in Sample, Observe(o, s) PROVE Alone'
  BY <1>0, <1>3, ObserveAlone
<1>4. ASSUME NEW o \in Observers, Evaluation(o) PROVE Alone'
  <2>1. /\ UNCHANGED <<window, ewmaErr, overlapped>> /\ pc[o] # "idle"
        /\ \A q \in Observers \ {o} : pc'[q] = pc[q]
    BY <1>0, <1>4, EvaluateFrame
  <2>2. Alone /\ UpToDate(o) /\ Now' = Now /\ Now \in Verdicts
    BY <2>1, JudgedType DEF Alone, Now
  <2> SUFFICES UpToDate(o)' /\ (pc'[o] = "idle" => Agrees')
    BY <2>1, <2>2, EvaluateAlone
  <2> USE <1>0 DEF UpToDate, Agrees, TypeOK, Finish, Transit
  <2> HIDE DEF Now
  <2>3. CASE Judge(o)
    <3>1. verdict'[o] = Now /\ pc'[o] = "load"
      BY <2>3 DEF Judge, Now
    <3>2. QED
      BY <2>2, <3>1
  <2>4. CASE LoadState(o)
    BY <2>2, <2>4 DEF LoadState
  <2>5. CASE Worsens(o)
    BY <2>2, <2>5 DEF Worsens
  <2>6. CASE StaysHealthy(o)
    BY <2>2, <2>6 DEF StaysHealthy
  <2>7. CASE StaysBad(o)
    BY <2>2, <2>7 DEF StaysBad, Verdicts, States
  <2>8. CASE GoodAgain(o)
    BY <2>2, <2>8 DEF GoodAgain, Starts
  <2>9. CASE TransitLoads(o)
    BY <2>2, <2>9 DEF TransitLoads, Verdicts
  <2>10. CASE TransitStores(o)
    BY <2>2, <2>10 DEF TransitStores, Stored
  <2>11. CASE TransitStamps(o)
    BY <2>2, <2>11 DEF TransitStamps, Verdicts
  <2>12. CASE TransitSpawns(o)
    BY <2>2, <2>12 DEF TransitSpawns, Verdicts
  <2>13. QED
    BY <1>4, <2>3, <2>4, <2>5, <2>6, <2>7, <2>8, <2>9, <2>10, <2>11, <2>12 DEF Evaluation
<1>5. QED
  BY <1>1, <1>2, <1>3, <1>4, StepsOfTracker

-----------------------------------------------------------------------------
(* The theorems.                                                           *)

LEMMA InitIInv == HealInit => IInv
<1> SUFFICES ASSUME HealInit PROVE IInv
  OBVIOUS
<1> USE DEF HealInit, Init
<1>1. TypeOK
  <2>1. /\ pc \in [Observers -> {"idle", "judge", "load", "decide", "transit", "store",
                                 "stamp", "spawn"}]
        /\ verdict \in [Observers -> Verdicts]
        /\ cur \in [Observers -> States] /\ target \in [Observers -> States]
    BY DEF Verdicts, States
  <2>2. /\ window \in Seq(Nat) /\ Len(window) <= WindowSize /\ idx \in 1 .. WindowSize
        /\ ewmaErr \in 0 .. 100 /\ bad \in 0 .. MaxBad /\ calm \in Calms
    BY DEF Calms
  <2>3. QED
    BY <2>1, <2>2 DEF TypeOK, States, Stamps
<1>2. HealTypeOK
  <2>1. tunnel = "up" /\ heals = 0 /\ again = NoSample /\ probed = FALSE /\ calls = 0
    OBVIOUS
  <2> HIDE DEF HealInit, Init
  <2>2. calls \in 0 .. MaxTrouble
    BY <2>1
  <2>3. QED
    BY <1>1, <2>1, <2>2 DEF HealTypeOK
<1>3. Alone
  <2>1. Now = "good"
    BY DEF Now, Judged, Percentile
  <2>2. QED
    BY <2>1 DEF Alone, OneAtATime, UpToDate, Settled, Agrees
<1>4. QED
  BY <1>2, <1>3 DEF IInv

THEOREM Invariance == HealSpec => []IInv
<1>1. HealInit => IInv
  BY InitIInv
<1>2. IInv /\ [HealNext]_healVars => IInv'
  BY HealTypeOKStep, AloneStep DEF IInv
<1>3. QED
  BY <1>1, <1>2, PTL DEF HealSpec

(* The window never outgrows its size nor the index leaves it, the average *)
(* stays a percentage; the tunnel, the callbacks that have been spawned,   *)
(* the probe's sample and the count of calls keep their types too.         *)
THEOREM TypeCorrect == HealSpec => []HealTypeOK
<1>1. IInv => HealTypeOK
  BY DEF IInv
<1>2. QED
  BY <1>1, Invariance, PTL

(* The percentile is the nearest rank, whatever the window holds, while it *)
(* fills up and after it has wrapped around.                               *)
THEOREM PercentileRight == HealSpec => []PercentileIsNearestRank
<1>1. IInv => PercentileIsNearestRank
  BY NearestRank DEF IInv, HealTypeOK, TypeOK
<1>2. QED
  BY <1>1, Invariance, PTL

(* As long as no two calls of Observe have overlapped, the state agrees    *)
(* with the metrics between them.                                          *)
THEOREM StateFollows == HealSpec => []StateFollowsMetrics
<1>1. IInv => StateFollowsMetrics
  BY DEF IInv, Alone, Settled, Agrees, Now, StateFollowsMetrics
<1>2. QED
  BY <1>1, Invariance, PTL

-----------------------------------------------------------------------------
(* Healing.                                                                *)

(* What calm says of the stamp: a bad verdict that changed no state has    *)
(* cleared it, and it is held for a good reason or since before the state  *)
(* became worse.                                                           *)
Counts(o) ==
  /\ pc[o] \in {"load", "decide"} => (calm = "bad" <=> verdict[o] # "good")
  /\ pc[o] \in {"transit", "store", "stamp", "spawn"} => calm \in {"held", "worse"}

Counting ==
  /\ calm = "timed" => healthySince = "fresh"
  /\ calm = "good" /\ state # "healthy" => healthySince = "zero"
  /\ calm = "bad" => \/ state = "healthy" \/ healthySince = "zero"
                     \/ \E o \in Observers : pc[o] \in {"load", "decide"}
  /\ \A o \in Observers : Counts(o)

(* Without slow calls: a failure lifts the error average to 20 percent at  *)
(* least, one sample later it is 16 at least; below that threshold for     *)
(* Degraded the verdict after one that made the state worse is bad again.  *)
NotSlow == \A i \in DOMAIN window : window[i] <= DegradedRTT

Unspoilt ==
  /\ NotSlow
  /\ ewmaErr < 20 => Agrees
  /\ calm = "worse" => ewmaErr >= 16
  /\ calm = "worse" /\ ewmaErr < 20 => \E o \in Observers : pc[o] = "judge"

Healing == ~overlapped => Counting /\ (~slow => Unspoilt)

(* Without slow samples the error average alone decides.                   *)
LEMMA ErrorsDecide ==
  ASSUME NEW w \in Seq(Nat), \A i \in DOMAIN w : w[i] <= DegradedRTT, NEW e \in Nat
  PROVE  /\ Judged(w, e) = "good" <=> e <= DegradedErr
         /\ Judged(w, e) = "unhealthy" <=> e > UnhealthyErr
<1>1. Percentile(w) \in Nat /\ Percentile(w) <= DegradedRTT
  <2>1. CASE w = <<>>
    BY <2>1 DEF Percentile
  <2>2. CASE w # <<>>
    <3>1. Len(w) \in Nat \ {0} /\ DOMAIN w = 1 .. Len(w)
      BY <2>2
    <3>2. Rank(Len(w)) \in DOMAIN w
      BY <3>1, RankFits
    <3>3. Percentile(w) \in {w[i] : i \in DOMAIN w}
      BY <2>2, <3>2, RankCounts DEF Percentile
    <3>4. QED
      BY <3>3
  <2>3. QED
    BY <2>1, <2>2
<1>2. QED
  BY <1>1 DEF Judged

LEMMA ErrSteps ==
  ASSUME NEW e \in 0 .. 100
  PROVE  /\ NextErr(e, TRUE) >= 20
         /\ NextErr(e, FALSE) <= e
         /\ e >= 20 => NextErr(e, FALSE) >= 16
         /\ NextErr(e, FALSE) \in Nat /\ NextErr(e, TRUE) \in Nat
BY DEF NextErr

LEMMA ObserveCounting ==
  ASSUME TypeOK, Counting, NEW o \in Observers, NEW s, Observe(o, s), ~overlapped'
  PROVE  Counting'
<1>1. \A q \in Observers : pc[q] = "idle" /\ pc'[q] = IF q = o THEN "judge" ELSE "idle"
  BY DEF Observe, TypeOK
<1>2. UNCHANGED <<state, healthySince, calm>>
  BY DEF Observe, machine
<1>3. QED
  BY <1>1, <1>2 DEF Counting, Counts

LEMMA ObserveUnspoilt ==
  ASSUME DegradedErr < 16, TypeOK, Alone, Unspoilt,
         NEW o \in Observers, NEW s \in Sample, Observe(o, s), ~slow', ~overlapped'
  PROVE  Unspoilt'
<1>1. /\ \A q \in Observers : pc[q] = "idle"
      /\ s.ms \in Nat /\ s.ms <= DegradedRTT
  <2>1. s.ms \in Nat /\ DegradedRTT \in Nat
    BY DEF Sample
  <2>2. ~(s.ms > DegradedRTT) /\ \A q \in Observers : pc[q] = "idle"
    BY DEF Observe
  <2>3. QED
    BY <2>1, <2>2
<1>2. Agrees
  BY <1>1 DEF Alone, Settled
<1>3. UNCHANGED <<state, calm>> /\ pc'[o] = "judge"
  BY DEF Observe, TypeOK, machine
<1>4. NotSlow'
  <2>1. \A i \in DOMAIN window' : window'[i] <= DegradedRTT
    <3>1. CASE Len(window) < WindowSize
      BY <1>1, <3>1 DEF Observe, Unspoilt, NotSlow, TypeOK
    <3>2. CASE ~(Len(window) < WindowSize)
      BY <1>1, <3>2 DEF Observe, Unspoilt, NotSlow, TypeOK
    <3>3. QED
      BY <3>1, <3>2
  <2>2. QED
    BY <2>1 DEF NotSlow
<1>5. window \in Seq(Nat) /\ ewmaErr \in 0 .. 100
  BY DEF TypeOK
<1>6. window' \in Seq(Nat)
  <2>1. CASE Len(window) < WindowSize
    BY <1>1, <1>5, <2>1 DEF Observe
  <2>2. CASE ~(Len(window) < WindowSize)
    <3>1. Len(window) = WindowSize /\ window' = [window EXCEPT ![idx] = s.ms]
      BY <2>2 DEF Observe, TypeOK
    <3>2. QED
      BY <1>1, <1>5, <3>1 DEF TypeOK
  <2>3. QED
    BY <2>1, <2>2
<1>7. /\ ewmaErr' \in Nat
      /\ ewmaErr' >= 20 \/ ewmaErr' <= ewmaErr
      /\ ewmaErr >= 20 => ewmaErr' >= 16
  <2>1. ewmaErr' = NextErr(ewmaErr, s.failed) /\ s.failed \in BOOLEAN
    BY DEF Observe, Sample
  <2>2. CASE s.failed = TRUE
    <3>1. ewmaErr' = NextErr(ewmaErr, TRUE)
      BY <2>1, <2>2
    <3>2. ewmaErr' \in Nat /\ ewmaErr' >= 20
      BY <1>5, <3>1, ErrSteps
    <3>3. QED
      BY <1>5, <3>2
  <2>3. CASE s.failed = FALSE
    BY <1>5, <2>1, <2>3, ErrSteps
  <2>4. QED
    BY <2>1, <2>2, <2>3
<1>8. /\ Now = "good" <=> ewmaErr <= DegradedErr
      /\ Now = "unhealthy" <=> ewmaErr > UnhealthyErr
  BY <1>5, ErrorsDecide DEF Unspoilt, NotSlow, Now
<1>9. /\ Now' = "good" <=> ewmaErr' <= DegradedErr
      /\ Now' = "unhealthy" <=> ewmaErr' > UnhealthyErr
  BY <1>4, <1>6, <1>7, ErrorsDecide DEF NotSlow, Now
<1>10. ewmaErr' < 20 => Agrees'
  BY <1>2, <1>3, <1>5, <1>7, <1>8, <1>9 DEF Agrees
<1>11. calm' = "worse" => ewmaErr' >= 16
  <2>1. calm = "worse" => ewmaErr >= 20
    BY <1>1, <1>5 DEF Unspoilt
  <2>2. QED
    BY <1>3, <1>7, <2>1
<1>12. QED
  BY <1>3, <1>4, <1>10, <1>11 DEF Unspoilt

(* A step of evaluate whose call is the only one.                          *)
LEMMA EvaluateCounting ==
  ASSUME TypeOK, Alone, Counting, NEW o \in Observers, Evaluation(o)
  PROVE  Counting'
<1> USE DEF metrics, machine, locals, history
<1>1. /\ UNCHANGED <<window, ewmaErr>> /\ pc[o] # "idle"
      /\ \A q \in Observers \ {o} : pc'[q] = "idle" /\ pc[q] = "idle"
  BY EvaluateFrame DEF Alone, OneAtATime
<1>2. /\ UpToDate(o) /\ Counts(o) /\ calm \in Calms /\ healthySince \in Stamps
      /\ Now \in Verdicts
  BY JudgedType DEF Alone, Counting, TypeOK, Now
<1>3. /\ calm = "timed" => healthySince = "fresh"
      /\ calm = "good" /\ state # "healthy" => healthySince = "zero"
      /\ calm = "bad" /\ state # "healthy" /\ healthySince # "zero" =>
           pc[o] \in {"load", "decide"}
  BY <1>1 DEF Counting
<1> DEFINE Fits == /\ calm = "timed" => healthySince = "fresh"
                   /\ calm = "good" /\ state # "healthy" => healthySince = "zero"
                   /\ calm = "bad" => \/ state = "healthy" \/ healthySince = "zero"
                                      \/ pc[o] \in {"load", "decide"}
                   /\ Counts(o)
<1>4. SUFFICES Fits'
  BY <1>1 DEF Counting, Counts
<1> USE DEF Counts, UpToDate, TypeOK, Finish, Transit
<1> HIDE DEF Now
<1>5. CASE Judge(o)
  <2>1. /\ calm' = IF Now # "good" THEN "bad" ELSE IF calm = "bad" THEN "good" ELSE calm
        /\ verdict'[o] = Now /\ UNCHANGED <<state, healthySince>>
        /\ pc[o] = "judge" /\ pc'[o] = "load"
    BY <1>5 DEF Judge, Now
  <2>2. QED
    BY <1>2, <1>3, <2>1
<1>6. CASE LoadState(o)
  BY <1>2, <1>3, <1>6 DEF LoadState
<1>7. CASE Worsens(o)
  BY <1>2, <1>3, <1>7 DEF Worsens
<1>8. CASE StaysHealthy(o)
  BY <1>2, <1>3, <1>8 DEF StaysHealthy
<1>9. CASE StaysBad(o)
  BY <1>2, <1>3, <1>9 DEF StaysBad
<1>10. CASE GoodAgain(o)
  <2>1. pc[o] = "decide" /\ cur[o] = state /\ state # "healthy" /\ calm # "bad"
    BY <1>2, <1>10 DEF GoodAgain
  <2>2. CASE healthySince = "held"
    BY <1>2, <1>3, <1>10, <2>1, <2>2 DEF GoodAgain, Calms
  <2>3. CASE healthySince # "held"
    BY <1>2, <1>3, <1>10, <2>1, <2>3 DEF GoodAgain, Starts, Stamps
  <2>4. QED
    BY <2>2, <2>3
<1>11. CASE TransitLoads(o)
  BY <1>2, <1>3, <1>11 DEF TransitLoads
<1>12. CASE TransitStores(o)
  BY <1>2, <1>3, <1>12 DEF TransitStores, Stored
<1>13. CASE TransitStamps(o)
  BY <1>2, <1>3, <1>13 DEF TransitStamps
<1>14. CASE TransitSpawns(o)
  BY <1>2, <1>3, <1>14 DEF TransitSpawns
<1>15. QED
  BY <1>5, <1>6, <1>7, <1>8, <1>9, <1>10, <1>11, <1>12, <1>13, <1>14 DEF Evaluation

LEMMA EvaluateUnspoilt ==
  ASSUME DegradedErr < 16, TypeOK, Alone, Unspoilt, NEW o \in Observers, Evaluation(o)
  PROVE  Unspoilt'
<1> USE DEF metrics, machine, locals, history
<1>1. /\ UNCHANGED <<window, ewmaErr>> /\ pc[o] # "idle"
      /\ \A q \in Observers \ {o} : pc[q] = "idle"
  BY EvaluateFrame DEF Alone, OneAtATime
<1>2. UpToDate(o) /\ Now' = Now /\ NotSlow' /\ Now \in Verdicts /\ ewmaErr \in Nat
  BY <1>1, JudgedType DEF Alone, Unspoilt, Now, NotSlow, TypeOK
<1>3. ewmaErr >= 16 => Now # "good"
  BY <1>2, ErrorsDecide DEF Now, Unspoilt, NotSlow, TypeOK
<1>4. /\ ewmaErr < 20 => Agrees
      /\ calm = "worse" => ewmaErr >= 16
      /\ calm = "worse" /\ ewmaErr < 20 => pc[o] = "judge"
  BY <1>1 DEF Unspoilt
<1>5. SUFFICES /\ ewmaErr < 20 => Agrees'
               /\ calm' = "worse" => ewmaErr >= 20
  BY <1>1, <1>2 DEF Unspoilt
<1> USE DEF Agrees, UpToDate, TypeOK
<1> HIDE DEF Now
<1>6. CASE TransitStores(o)
  BY <1>2, <1>4, <1>6 DEF TransitStores, Stored, Verdicts
<1>7. CASE Judge(o)
  <2>1. /\ calm' = IF Now # "good" THEN "bad" ELSE IF calm = "bad" THEN "good" ELSE calm
        /\ UNCHANGED state
    BY <1>7 DEF Judge, Now
  <2>2. QED
    BY <1>2, <1>3, <1>4, <2>1
<1>8. CASE Worsens(o)
  <2>1. UNCHANGED state /\ ~Agrees
    BY <1>2, <1>8 DEF Worsens, Transit
  <2>2. QED
    BY <1>2, <1>4, <2>1
<1>9. CASE \/ LoadState(o) \/ StaysHealthy(o) \/ StaysBad(o) \/ GoodAgain(o)
           \/ TransitLoads(o) \/ TransitStamps(o) \/ TransitSpawns(o)
  <2>1. UNCHANGED state /\ pc[o] # "judge" /\ (calm' = "worse" => calm = "worse")
    BY <1>9 DEF LoadState, StaysHealthy, StaysBad, GoodAgain, Starts, TransitLoads,
                TransitStamps, TransitSpawns, Finish, Transit
  <2>2. QED
    BY <1>2, <1>4, <2>1
<1>10. QED
  BY <1>6, <1>7, <1>8, <1>9 DEF Evaluation

LEMMA HealingStep ==
  ASSUME DegradedErr < 16
  PROVE  IInv /\ Healing /\ [HealNext]_healVars => Healing'
<1> SUFFICES ASSUME IInv, Healing, [HealNext]_healVars, ~overlapped'
             PROVE  Counting' /\ (~slow' => Unspoilt')
  BY DEF Healing
<1>1. TypeOK /\ HealTypeOK /\ (~overlapped => Alone)
  BY DEF IInv, HealTypeOK
<1>2. CASE UNCHANGED <<window, idx, ewmaErr, machine, pc, locals, history>>
  BY <1>2 DEF Healing, Counting, Counts, Unspoilt, NotSlow, Agrees, Now, machine, locals, history
<1>3. CASE HealHoldPasses \/ DegradedHoldPasses
  BY <1>1, <1>3 DEF Healing, Counting, Counts, Unspoilt, NotSlow, Agrees, Now,
              HealHoldPasses, DegradedHoldPasses, metrics, locals, history, TypeOK, Calms
<1>4. ASSUME NEW o \in Observers, NEW s \in Sample, Observe(o, s)
      PROVE  Counting' /\ (~slow' => Unspoilt')
  <2>1. ~overlapped /\ (~slow' => ~slow)
    BY <1>4 DEF Observe
  <2>2. QED
    BY <1>1, <1>4, <2>1, ObserveCounting, ObserveUnspoilt DEF Healing
<1>5. ASSUME NEW o \in Observers, Evaluation(o)
      PROVE  Counting' /\ (~slow' => Unspoilt')
  <2>1. UNCHANGED <<slow, overlapped>>
    BY <1>1, <1>5, EvaluateFrame
  <2>2. QED
    BY <1>1, <1>5, <2>1, EvaluateCounting, EvaluateUnspoilt DEF Healing
<1>6. QED
  BY <1>1, <1>2, <1>3, <1>4, <1>5, StepsOfTracker

(* Only a transition heals.                                                *)
LEMMA HealsByStore ==
  ASSUME HealTypeOK, [HealNext]_healVars, state # "healthy", state' = "healthy"
  PROVE  \E o \in Observers : pc[o] = "store" /\ target[o] = "healthy"
<1> USE DEF metrics, machine, locals, history
<1>1. PICK o \in Observers : TransitStores(o)
  BY StepsOfTracker DEF HealHoldPasses, DegradedHoldPasses, Observe, Evaluation, Judge,
       LoadState, Worsens, StaysHealthy, StaysBad, GoodAgain, Starts, TransitLoads,
       TransitStamps, TransitSpawns, Finish, Transit
<1>2. QED
  BY <1>1 DEF TransitStores

(* While no calls have overlapped, a worker heals only when HealHold has   *)
(* passed since a good verdict with no bad one after it - or, after slow   *)
(* calls, on the stamp the last worsening left behind.  For any threshold  *)
(* of Degraded below 16 percent (the default is 2): at 16 and above calls  *)
(* that failed at once could leave that stamp behind, too.                 *)
THEOREM HealsAfterHold == DegradedErr < 16 => (HealSpec => HealTakesHold)
<1> SUFFICES ASSUME DegradedErr < 16 PROVE HealSpec => HealTakesHold
  OBVIOUS
<1>1. HealInit => Healing
  <2> SUFFICES ASSUME HealInit PROVE Counting /\ Unspoilt
    BY DEF Healing
  <2>1. Now = "good"
    BY DEF HealInit, Init, Now, Judged, Percentile
  <2>2. QED
    BY <2>1 DEF HealInit, Init, Counting, Counts, Unspoilt, NotSlow, Agrees
<1>2. HealSpec => []Healing
  BY <1>1, HealingStep, Invariance, PTL DEF HealSpec
<1>3. IInv /\ Healing /\ [HealNext]_healVars =>
        [~overlapped /\ state # "healthy" /\ state' = "healthy" =>
           calm = "held" \/ (slow /\ calm = "worse")]_vars
  <2> SUFFICES ASSUME IInv, Healing, [HealNext]_healVars,
                      ~overlapped, state # "healthy", state' = "healthy"
               PROVE  calm = "held" \/ (slow /\ calm = "worse")
    OBVIOUS
  <2>1. PICK o \in Observers : pc[o] = "store" /\ target[o] = "healthy"
    BY HealsByStore DEF IInv
  <2>2. calm \in {"held", "worse"} /\ Now = "good"
    BY <2>1, JudgedType DEF Healing, Counting, Counts, IInv, Alone, UpToDate, Now, Verdicts
  <2>3. ~slow => calm # "worse"
    <3> SUFFICES ASSUME ~slow, calm = "worse" PROVE FALSE
      OBVIOUS
    <3>1. ewmaErr >= 16 /\ NotSlow
      BY DEF Healing, Unspoilt
    <3>2. window \in Seq(Nat) /\ ewmaErr \in Nat
      BY DEF IInv, HealTypeOK, TypeOK
    <3>3. ewmaErr <= DegradedErr
      BY <2>2, <3>1, <3>2, ErrorsDecide DEF NotSlow, Now
    <3>4. QED
      BY <3>1, <3>2, <3>3
  <2>4. QED
    BY <2>2, <2>3
<1>4. QED
  BY <1>2, <1>3, Invariance, PTL DEF HealSpec, HealTakesHold
=============================================================================
