--------------------------- MODULE HealthTracker ----------------------------
(***************************************************************************)
(* health.Tracker: the window of round-trip times, the error average and   *)
(* the state machine Healthy / Degraded / Unhealthy they drive.            *)
(*                                                                         *)
(* The window and the average are guarded by a mutex.  The state is an     *)
(* atomic and the two time stamps are plain fields: evaluate reads the     *)
(* metrics under the lock, gives it up, and only then loads the state,     *)
(* decides, stores, stamps and spawns a callback, so concurrent calls of   *)
(* Observe (one per Dial, plus the probe) act on verdicts and states that  *)
(* may be out of date.  Each access to the state is a step of its own, and *)
(* so are transition's stamp and callback; what evaluate itself does with  *)
(* the stamps (tracker.go:190-220) is one step.                            *)
(*                                                                         *)
(* Times are kept as far as the code tells them apart: a stamp is "zero",  *)
(* "fresh", or "held" when its hold (DegradedHold, HealHold) has passed.   *)
(* The error average is a whole number of percent, each update rounded     *)
(* down.  ewmaRTT and the counters feed the API only and are left out.     *)
(*                                                                         *)
(* AutoHeal says who observes what and when, and runs the callbacks.       *)
(***************************************************************************)
EXTENDS Integers, Sequences, FiniteSets, Functions

CONSTANTS
  Observers,       \* goroutines that call Observe
  WindowSize,
  Percent,         \* the percentile evaluated: 95 in the code
  DegradedRTT, UnhealthyRTT,   \* thresholds, in the unit of RTTs
  DegradedErr, UnhealthyErr,   \* thresholds, in percent
  GoodRTT,         \* a round-trip time below the thresholds
  BadSamples,      \* what a bad call reports: records [ms, failed]
  MaxBad           \* bound: bad samples in a behaviour

ASSUME HealthAssumption ==
  /\ WindowSize \in Nat \ {0} /\ Percent \in 1 .. 100 /\ MaxBad \in Nat
  /\ GoodRTT \in Nat /\ GoodRTT <= DegradedRTT
  /\ DegradedRTT \in Nat /\ UnhealthyRTT \in Nat /\ DegradedRTT <= UnhealthyRTT
  /\ DegradedErr \in 0 .. 100 /\ UnhealthyErr \in 0 .. 100 /\ DegradedErr <= UnhealthyErr
  /\ BadSamples \subseteq [ms : Nat, failed : BOOLEAN]

VARIABLES
  window,        \* Tracker.window[:count], the oldest entries overwritten
  idx,           \* Tracker.idx, the next entry to write
  ewmaErr,       \* Tracker.ewmaErr, in percent
  state,         \* Tracker.state
  degradedSince, \* Tracker.degradedSince
  healthySince,  \* Tracker.healthySince
  pc,            \* per observer: where it is in Observe
  verdict,       \* per observer: what evaluate made of the metrics
  cur,           \* per observer: the state it loaded
  target,        \* per observer: the state it is about to store
  bad,           \* bad samples so far
  calm,          \* history: how long verdicts have been good, see below
  slow,          \* history: some call has taken longer than a good one
  overlapped     \* history: an Observe has begun while another was running

metrics == <<window, idx, ewmaErr, bad>>
machine == <<state, degradedSince, healthySince>>
locals  == <<verdict, cur, target>>
history == <<calm, slow, overlapped>>
vars    == <<metrics, machine, pc, locals, history>>

States   == {"healthy", "degraded", "unhealthy"}   \* Recovering is never entered
Verdicts == {"good", "degraded", "unhealthy"}
Stamps   == {"zero", "fresh", "held"}

(* The last verdict was bad and left the state as it was ("bad") or made   *)
(* it worse ("worse", until a verdict that was bad or a stamp after it);   *)
(* verdicts have been good since, no stamp has been set yet ("good"), one  *)
(* has been set ("timed"), or HealHold has passed since that one ("held"). *)
Calms    == {"bad", "worse", "good", "timed", "held"}

TypeOK ==
  /\ window \in Seq(Nat) /\ Len(window) <= WindowSize
  /\ idx \in 1 .. WindowSize
  /\ ewmaErr \in 0 .. 100
  /\ state \in States
  /\ degradedSince \in Stamps /\ healthySince \in Stamps
  /\ pc \in [Observers -> {"idle", "judge", "load", "decide", "transit", "store", "stamp", "spawn"}]
  /\ verdict \in [Observers -> Verdicts]
  /\ cur \in [Observers -> States] /\ target \in [Observers -> States]
  /\ bad \in 0 .. MaxBad /\ calm \in Calms
  /\ slow \in BOOLEAN /\ overlapped \in BOOLEAN

Init ==
  /\ window = <<>> /\ idx = 1 /\ ewmaErr = 0 /\ bad = 0
  /\ state = "healthy" /\ degradedSince = "zero" /\ healthySince = "fresh"
  /\ pc = [o \in Observers |-> "idle"]
  /\ verdict = [o \in Observers |-> "good"]
  /\ cur = [o \in Observers |-> "healthy"] /\ target = [o \in Observers |-> "healthy"]
  /\ calm = "good" /\ slow = FALSE /\ overlapped = FALSE

-----------------------------------------------------------------------------
(* The metrics.                                                            *)

NextErr(e, failed) == (8 * e + 2 * (IF failed THEN 100 ELSE 0)) \div 10

(* Mutant: the index computed without the -1.                              *)
RankTooHigh(n) == LET i == (Percent * n + 99) \div 100 + 1 IN IF i > n THEN n ELSE i

(* The position, from 1, of the percentile among n sorted samples:         *)
(* ceil(p * n), kept within the samples.                                   *)
Rank(n) == LET i == (Percent * n + 99) \div 100 IN IF i > n THEN n ELSE i

Ascending(s) == \A i, j \in DOMAIN s : i < j => s[i] <= s[j]

(* The insertion sort: the samples in another order, ascending.            *)
Sorted(w) ==
  LET by(p) == [i \in DOMAIN w |-> w[p[i]]]
  IN  by(CHOOSE p \in Bijection(DOMAIN w, DOMAIN w) : Ascending(by(p)))

Percentile(w) == IF w = <<>> THEN 0 ELSE Sorted(w)[Rank(Len(w))]

Judged(w, e) ==
  LET p95 == Percentile(w)
  IN  IF p95 > UnhealthyRTT \/ e > UnhealthyErr THEN "unhealthy"
      ELSE IF p95 > DegradedRTT \/ e > DegradedErr THEN "degraded"
      ELSE "good"

Samples == BadSamples \cup {[ms |-> GoodRTT, failed |-> FALSE]}

(* Observe, first part, under the lock: a sample is recorded.              *)
Observe(o, s) ==
  /\ pc[o] = "idle"
  /\ window' = IF Len(window) < WindowSize THEN Append(window, s.ms)
                                           ELSE [window EXCEPT ![idx] = s.ms]
  /\ idx' = (idx % WindowSize) + 1
  /\ ewmaErr' = NextErr(ewmaErr, s.failed)
  /\ slow' = (slow \/ s.ms > DegradedRTT)
  /\ pc' = [pc EXCEPT ![o] = "judge"]
  /\ overlapped' = (overlapped \/ \E p \in Observers : pc[p] # "idle")
  /\ UNCHANGED <<machine, locals, calm>>

(* The bound on bad samples.                                               *)
Counted(s) == IF s \in BadSamples THEN bad < MaxBad /\ bad' = bad + 1 ELSE UNCHANGED bad

-----------------------------------------------------------------------------
(* evaluate.                                                               *)

Judge(o) == \* under the lock again
  /\ pc[o] = "judge"
  /\ verdict' = [verdict EXCEPT ![o] = Judged(window, ewmaErr)]
  /\ calm' = IF Judged(window, ewmaErr) # "good" THEN "bad"
             ELSE IF calm = "bad" THEN "good" ELSE calm
  /\ pc' = [pc EXCEPT ![o] = "load"]
  /\ UNCHANGED <<metrics, machine, cur, target, slow, overlapped>>

LoadState(o) ==
  /\ pc[o] = "load"
  /\ cur' = [cur EXCEPT ![o] = state]
  /\ pc' = [pc EXCEPT ![o] = "decide"]
  /\ UNCHANGED <<metrics, machine, verdict, target, history>>

Finish(o) == /\ pc' = [pc EXCEPT ![o] = "idle"]
             /\ verdict' = [verdict EXCEPT ![o] = "good"]
             /\ cur' = [cur EXCEPT ![o] = "healthy"]
             /\ target' = [target EXCEPT ![o] = "healthy"]

Transit(o, to) == /\ target' = [target EXCEPT ![o] = to]
                  /\ pc' = [pc EXCEPT ![o] = "transit"]
                  /\ UNCHANGED <<machine, verdict, cur>>

(* A worse verdict than the state: a transition.                           *)
Worsens(o) ==
  /\ pc[o] = "decide"
  /\ \/ cur[o] = "healthy" /\ verdict[o] # "good"
     \/ cur[o] = "degraded" /\ verdict[o] = "unhealthy"
  /\ Transit(o, verdict[o])
  /\ calm' = IF calm = "bad" THEN "worse" ELSE calm
  /\ UNCHANGED <<metrics, slow, overlapped>>

StaysHealthy(o) ==
  /\ pc[o] = "decide" /\ cur[o] = "healthy" /\ verdict[o] = "good"
  /\ Finish(o)
  /\ UNCHANGED <<metrics, machine, history>>

(* A bad verdict that changes nothing but the stamps: the count of good    *)
(* time starts over, and Degraded heals again when it has lasted.          *)
StaysBad(o) ==
  /\ pc[o] = "decide" /\ cur[o] # "healthy"
  /\ verdict[o] # "good" /\ ~(cur[o] = "degraded" /\ verdict[o] = "unhealthy")
  /\ healthySince' = "zero"
  /\ degradedSince' = IF cur[o] = "degraded" /\ degradedSince = "held"
                       THEN "fresh" ELSE degradedSince   \* with onDegrade spawned
  /\ Finish(o)
  /\ UNCHANGED <<metrics, state, history>>

Starts(o) == \* good time is counted from here, if no stamp says since when
  /\ healthySince' = "fresh"
  /\ calm' = IF healthySince = "zero" /\ calm # "bad" THEN "timed" ELSE calm
  /\ Finish(o)
  /\ UNCHANGED <<state, degradedSince>>

GoodAgainSoon(o) == \* mutant: any stamp will do, however fresh
  /\ pc[o] = "decide" /\ cur[o] # "healthy" /\ verdict[o] = "good"
  /\ IF healthySince # "zero" THEN Transit(o, "healthy") /\ UNCHANGED calm
                              ELSE Starts(o)
  /\ UNCHANGED <<metrics, slow, overlapped>>

GoodAgain(o) == \* wait for HealHold, then recover
  /\ pc[o] = "decide" /\ cur[o] # "healthy" /\ verdict[o] = "good"
  /\ IF healthySince = "held" THEN Transit(o, "healthy") /\ UNCHANGED calm
                              ELSE Starts(o)
  /\ UNCHANGED <<metrics, slow, overlapped>>

(* transition: the state is loaded once more, then stored, its stamp set   *)
(* and the callback spawned; Unhealthy has no stamp.  onRecover only logs. *)
TransitLoads(o) ==
  /\ pc[o] = "transit"
  /\ IF state = target[o]
       THEN Finish(o)
       ELSE pc' = [pc EXCEPT ![o] = "store"] /\ UNCHANGED locals
  /\ UNCHANGED <<metrics, machine, history>>

Stored(o) ==
  /\ pc' = [pc EXCEPT ![o] = IF target[o] = "unhealthy" THEN "spawn" ELSE "stamp"]
  /\ UNCHANGED <<metrics, degradedSince, healthySince, locals, history>>

TransitLosesStore(o) == pc[o] = "store" /\ UNCHANGED state /\ Stored(o)   \* mutant

TransitStores(o) == pc[o] = "store" /\ state' = target[o] /\ Stored(o)

TransitStamps(o) ==
  /\ pc[o] = "stamp"
  /\ \/ /\ target[o] = "degraded" /\ degradedSince' = "fresh"
        /\ pc' = [pc EXCEPT ![o] = "spawn"]
        /\ UNCHANGED <<healthySince, locals>>
     \/ /\ target[o] = "healthy" /\ healthySince' = "fresh"
        /\ Finish(o)
        /\ UNCHANGED degradedSince
  /\ UNCHANGED <<metrics, state, history>>

TransitSpawns(o) ==
  /\ pc[o] = "spawn" /\ Finish(o)
  /\ UNCHANGED <<metrics, machine, history>>

(* Time: a hold has passed since its stamp.                                *)
HealHoldPasses ==
  /\ healthySince = "fresh" /\ healthySince' = "held"
  /\ calm' = IF calm = "timed" THEN "held" ELSE calm
  /\ UNCHANGED <<metrics, state, degradedSince, pc, locals, slow, overlapped>>

DegradedHoldPasses ==
  /\ degradedSince = "fresh" /\ degradedSince' = "held"
  /\ UNCHANGED <<metrics, state, healthySince, pc, locals, history>>

-----------------------------------------------------------------------------
(* The percentile is the nearest rank: the least sample such that at least *)
(* Percent of all samples are no larger - also while the window fills up   *)
(* and after it has wrapped around.                                        *)
AtMost(v) == {i \in DOMAIN window : window[i] <= v}
PercentileIsNearestRank ==
  window # <<>> =>
    LET p == Percentile(window)
        enough(v) == 100 * Cardinality(AtMost(v)) >= Percent * Len(window)
    IN  /\ p \in Range(window) /\ enough(p)
        /\ \A v \in Range(window) : v < p => ~enough(v)

(* As long as no two calls of Observe have overlapped, the state never     *)
(* contradicts the metrics between calls: a worker is Healthy only on a    *)
(* good verdict, and an unhealthy verdict has made it Unhealthy.  (Calls   *)
(* that overlap may store a verdict late.)                                 *)
StateFollowsMetrics ==
  ~overlapped /\ (\A o \in Observers : pc[o] = "idle") /\ window # <<>> =>
    /\ state = "healthy" => Judged(window, ewmaErr) = "good"
    /\ Judged(window, ewmaErr) = "unhealthy" => state = "unhealthy"

(* As long as calls have not overlapped, a worker returns to Healthy only  *)
(* when a good verdict has been stamped, HealHold has passed since, and no *)
(* verdict in between was bad (tracker.go:190-195, 213-217).  One case is  *)
(* left open, and only to calls that were slow: the verdict that made the  *)
(* state worse does not clear healthySince (tracker.go:186-189, 237-249),  *)
(* so a good one right after it may count on the stamp of the time before. *)
(* When calls failed at once the error average, on its way down, passes    *)
(* through Degraded first, and that clears the stamp.                      *)
HealTakesHold ==
  [][~overlapped /\ state # "healthy" /\ state' = "healthy" =>
        calm = "held" \/ (slow /\ calm = "worse")]_vars
=============================================================================
