---------------------------- MODULE QLoadProofs -----------------------------
(***************************************************************************)
(* Theorems about QLoad for any number of callers and any configuration.   *)
(***************************************************************************)
EXTENDS QLoad, FiniteSetTheorems, TLAPS

USE CallersAssumption, ConfigAssumption, DurationAssumption

-----------------------------------------------------------------------------
(* adaptTimeout.                                                           *)

(* Dividing by four toward zero moves a number toward zero, not past it.   *)
LEMMA QuarterBounds ==
  ASSUME NEW n \in Int
  PROVE  /\ Quarter(n) \in Int
         /\ n >= 0 => 0 <= Quarter(n) /\ Quarter(n) <= n
         /\ n < 0 => n <= Quarter(n) /\ Quarter(n) <= 0
BY DEF Quarter

(* A success moves the timeout toward a target within the settings.        *)
LEMMA ShortenedBetween ==
  ASSUME NEW t \in Nat, Between(t), NEW d \in Nat
  PROVE  Shortened(t, d) \in Nat /\ Between(Shortened(t, d))
<1> DEFINE target == Clamp(2 * d, MinTarget, Timeout)
           q == Quarter(t - target)
<1>1. target \in Nat /\ Between(target)
  BY DEF Clamp, Between, Settings
<1>2. q \in Int /\ (t >= target => 0 <= q /\ q <= t - target)
                /\ (t < target => t - target <= q /\ q <= 0)
  <2>1. t - target \in Int
    BY <1>1
  <2> HIDE DEF target
  <2>2. QED
    BY <1>1, <2>1, QuarterBounds
<1>3. Shortened(t, d) = t - q
  BY DEF Shortened
<1> HIDE DEF target, q
<1>4. t - q \in Nat /\ (t - q \in t .. target \/ t - q \in target .. t)
  BY <1>1, <1>2
<1>5. ASSUME NEW u \in Nat, u \in t .. target \/ u \in target .. t PROVE Between(u)
  BY <1>1, <1>5 DEF Between, Settings
<1>6. QED
  BY <1>3, <1>4, <1>5

(* A failure lengthens it by a quarter, or sets it to MaxBackoff.          *)
LEMMA LengthenedBetween ==
  ASSUME NEW t \in Nat, Between(t)
  PROVE  Lengthened(t) \in Nat /\ Between(Lengthened(t))
<1>1. Quarter(t) \in Nat
  BY QuarterBounds
<1>2. CASE t + Quarter(t) > MaxBackoff
  BY <1>1, <1>2 DEF Lengthened, Between, Settings
<1>3. CASE t + Quarter(t) <= MaxBackoff
  BY <1>1, <1>3 DEF Lengthened, Between, Settings
<1>4. QED
  BY <1>1, <1>2, <1>3

-----------------------------------------------------------------------------
(* The inductive invariant.                                                *)

Holders == {c \in Callers : pc[c] \in Holding}

(* A call between adaptTimeout's load and its store holds a value in range.*)
LoadedInRange ==
  \A c \in Callers : pc[c] \in {"adaptOK", "adaptFail"} => Between(cur[c])

(* A retry follows only an attempt that was not the last.                  *)
RetriesLeft == \A c \in Callers : pc[c] = "pause" => tries[c] < MaxRetries

SemExact == sem = Cardinality(Holders)

IInv == /\ TypeOK /\ RetriesLeft /\ SemExact
        /\ TimeoutInRange /\ LoadedInRange /\ TripsAtThreshold

(* A caller that takes a slot, gives it back, or does neither.             *)
LEMMA HoldersChange ==
  ASSUME pc \in [Callers -> Steps], NEW c \in Callers, NEW step, GoTo(c, step)
  PROVE  /\ IsFiniteSet(Holders) /\ Cardinality(Holders) \in Nat
         /\ pc[c] \in Holding /\ step \in Holding =>
              Cardinality(Holders') = Cardinality(Holders)
         /\ pc[c] \notin Holding /\ step \notin Holding =>
              Cardinality(Holders') = Cardinality(Holders)
         /\ pc[c] \notin Holding /\ step \in Holding =>
              Cardinality(Holders') = Cardinality(Holders) + 1
         /\ pc[c] \in Holding /\ step \notin Holding =>
              Cardinality(Holders') = Cardinality(Holders) - 1
<1>1. IsFiniteSet(Holders) /\ Cardinality(Holders) \in Nat
  <2>1. Holders \subseteq Callers
    BY DEF Holders
  <2>2. QED
    BY <2>1, FS_Subset, FS_CardinalityType
<1>2. \A e \in Callers : pc'[e] = IF e = c THEN step ELSE pc[e]
  BY DEF GoTo
<1>3. ASSUME pc[c] \in Holding <=> step \in Holding PROVE Holders' = Holders
  BY <1>2, <1>3 DEF Holders
<1>4. ASSUME pc[c] \notin Holding, step \in Holding
      PROVE  Holders' = Holders \cup {c} /\ c \notin Holders
  BY <1>2, <1>4 DEF Holders
<1>5. ASSUME pc[c] \in Holding, step \notin Holding
      PROVE  Holders' = Holders \ {c} /\ c \in Holders
  BY <1>2, <1>5 DEF Holders
<1>6. QED
  BY <1>1, <1>3, <1>4, <1>5, FS_AddElement, FS_RemoveElement

-----------------------------------------------------------------------------
(* Every step preserves the invariant.                                     *)

SemOK == SemExact /\ sem \in 0 .. Concurrency

LEMMA KeepsSlot ==
  ASSUME pc \in [Callers -> Steps], SemOK, NEW c \in Callers, NEW step, GoTo(c, step),
         pc[c] \in Holding <=> step \in Holding, UNCHANGED sem
  PROVE  SemOK'
BY HoldersChange DEF SemOK, SemExact

LEMMA TakesSlot ==
  ASSUME pc \in [Callers -> Steps], SemOK, NEW c \in Callers, NEW step, GoTo(c, step),
         pc[c] \notin Holding, step \in Holding, sem < Concurrency, sem' = sem + 1
  PROVE  SemOK'
BY HoldersChange DEF SemOK, SemExact

LEMMA GivesSlot ==
  ASSUME pc \in [Callers -> Steps], SemOK, NEW c \in Callers, pc[c] \in Holding, Return(c)
  PROVE  SemOK'
<1>1. "idle" \notin Holding
  BY DEF Holding
<1>2. GoTo(c, "idle") /\ sem' = sem - 1
  BY DEF Return
<1>3. Cardinality(Holders') = Cardinality(Holders) - 1 /\ Cardinality(Holders') \in Nat
  <2>1. Cardinality(Holders') = Cardinality(Holders) - 1
    BY <1>1, <1>2, HoldersChange
  <2>2. IsFiniteSet(Holders')
    <3>1. Holders' \subseteq Callers
      BY DEF Holders
    <3>2. QED
      BY <3>1, FS_Subset
  <2>3. QED
    BY <2>1, <2>2, FS_CardinalityType
<1>4. QED
  BY <1>2, <1>3 DEF SemOK, SemExact

LEMMA SemStep ==
  ASSUME IInv, NEW c \in Callers, Dial(c)
  PROVE  SemOK'
<1>1. pc \in [Callers -> Steps] /\ SemOK
  BY DEF IInv, TypeOK, SemOK
<1>2. CASE AllowLoads(c)
  <2>1. PICK step : GoTo(c, step) /\ step \in {"acquire", "allow"}
    BY <1>2 DEF AllowLoads
  <2>2. QED
    BY <1>1, <1>2, <2>1, KeepsSlot DEF AllowLoads, Holding
<1>3. CASE AllowHalfOpens(c)
  BY <1>1, <1>3, KeepsSlot DEF AllowHalfOpens, Holding
<1>4. CASE AllowResets(c)
  BY <1>1, <1>4, KeepsSlot DEF AllowResets, Holding
<1>5. CASE AllowRejects(c)
  BY <1>1, <1>5, KeepsSlot DEF AllowRejects, Holding
<1>6. CASE Acquires(c)
  BY <1>1, <1>6, TakesSlot DEF Acquires, Holding
<1>7. CASE Busy(c)
  BY <1>1, <1>7, KeepsSlot DEF Busy, Holding
<1>8. CASE AttemptOK(c)
  BY <1>1, <1>8, KeepsSlot DEF AttemptOK, Holding
<1>9. CASE AttemptFails(c)
  BY <1>1, <1>9, KeepsSlot DEF AttemptFails, Holding
<1>10. CASE AdaptFail(c)
  <2>1. PICK retryable \in BOOLEAN : GoTo(c, Retries(c, retryable))
    BY <1>10 DEF AdaptFail
  <2>2. Retries(c, retryable) \in Holding /\ pc[c] \in Holding /\ UNCHANGED sem
    BY <1>10 DEF AdaptFail, Retries, Holding
  <2>3. QED
    BY <1>1, <2>1, <2>2, KeepsSlot
<1>11. CASE PauseEnds(c)
  BY <1>1, <1>11, KeepsSlot DEF PauseEnds, Holding
<1>12. CASE PauseCut(c)
  BY <1>1, <1>12, KeepsSlot DEF PauseCut, Holding
<1>13. CASE Succ1(c)
  BY <1>1, <1>13, KeepsSlot DEF Succ1, Holding
<1>14. CASE Succ2(c)
  BY <1>1, <1>14, KeepsSlot DEF Succ2, Holding
<1>15. CASE LoadOK(c)
  BY <1>1, <1>15, KeepsSlot DEF LoadOK, Holding
<1>16. CASE AdaptOK(c)
  BY <1>1, <1>16, GivesSlot DEF AdaptOK, Holding
<1>17. CASE Fail1(c)
  <2>1. CASE failures + 1 >= FailureThreshold
    BY <1>1, <1>17, <2>1, KeepsSlot DEF Fail1, Holding
  <2>2. CASE ~(failures + 1 >= FailureThreshold)
    BY <1>1, <1>17, <2>2, GivesSlot DEF Fail1, Holding
  <2>3. QED
    BY <2>1, <2>2
<1>18. CASE Fail2(c)
  BY <1>1, <1>18, GivesSlot DEF Fail2, Holding
<1>19. QED
  BY <1>2, <1>3, <1>4, <1>5, <1>6, <1>7, <1>8, <1>9, <1>10, <1>11, <1>12, <1>13, <1>14, <1>15, <1>16, <1>17, <1>18
     DEF Dial, Allow, Attempt, Report

LEMMA RestStep ==
  ASSUME IInv, NEW c \in Callers, Dial(c), sem' \in 0 .. Concurrency
  PROVE  (TypeOK /\ RetriesLeft /\ TimeoutInRange /\ LoadedInRange /\ TripsAtThreshold)'
<1> USE DEF IInv, TypeOK, RetriesLeft, TimeoutInRange, LoadedInRange, TripsAtThreshold,
            Steps, Holding, breaker, locals
<1>1. CASE AllowLoads(c)
  <2>1. overlapped' \in BOOLEAN
    BY <1>1 DEF AllowLoads
  <2>2. /\ seen' = [seen EXCEPT ![c] = openedAt]
        /\ pc[c] = "idle" /\ pc' = [pc EXCEPT ![c] = IF openedAt = 0 THEN "acquire" ELSE "allow"]
        /\ UNCHANGED <<failures, openedAt, openings, cooled, swept, sem, currentTimeout,
                       tries, count, cur, faults>>
    BY <1>1 DEF AllowLoads, GoTo
  <2>3. TypeOK'
    BY <2>1, <2>2
  <2>4. RetriesLeft' /\ TimeoutInRange' /\ LoadedInRange' /\ TripsAtThreshold'
    BY <2>2
  <2>5. QED
    BY <2>3, <2>4
<1>2. CASE AllowHalfOpens(c)
  <2>1. pc' = [pc EXCEPT ![c] = "reset"] /\ openedAt' = 0 /\ cooled' = FALSE
    BY <1>2 DEF AllowHalfOpens, GoTo
  <2>2. TypeOK'
    <3>1. openings' \in Nat /\ openedAt' \in 0 .. openings' /\ cooled' \in BOOLEAN
      <4>1. cooled' = FALSE /\ openedAt' = 0 /\ openings' = openings
        BY <1>2, <2>1 DEF AllowHalfOpens
      <4>2. openings \in Nat
        OBVIOUS
      <4>3. openings' \in Nat /\ openedAt' \in 0 .. openings' /\ openedAt' \in Nat
        BY <4>1, <4>2
      <4>4. QED
        BY <4>1, <4>3
    <3>2. pc' \in [Callers -> Steps]
      BY <2>1
    <3>3. UNCHANGED <<failures, swept, overlapped, sem, currentTimeout, locals, faults>>
      BY <1>2 DEF AllowHalfOpens
    <3>4. QED
      BY <3>1, <3>2, <3>3
  <2>3. RetriesLeft' /\ TimeoutInRange' /\ LoadedInRange'
    BY <1>2, <2>1 DEF AllowHalfOpens
  <2>4. TripsAtThreshold'
    BY <2>1
  <2>5. QED
    BY <2>2, <2>3, <2>4
<1>3. CASE AllowResets(c)
  BY <1>3 DEF AllowResets, GoTo
<1>4. CASE AllowRejects(c)
  BY <1>4 DEF AllowRejects, GoTo
<1>5. CASE Acquires(c)
  BY <1>5 DEF Acquires, GoTo
<1>6. CASE Busy(c)
  BY <1>6 DEF Busy, GoTo, Fault
<1>7. CASE AttemptOK(c)
  BY <1>7 DEF AttemptOK, GoTo
<1>8. CASE AttemptFails(c)
  BY <1>8 DEF AttemptFails, GoTo, Fault
<1>9. CASE AdaptFail(c)
  <2>1. PICK retryable \in BOOLEAN : GoTo(c, Retries(c, retryable))
    BY <1>9 DEF AdaptFail
  <2>2. currentTimeout' \in Nat /\ Between(currentTimeout')
    BY <1>9, LengthenedBetween DEF AdaptFail
  <2>3. /\ pc' = [pc EXCEPT ![c] = Retries(c, retryable)]
        /\ Retries(c, retryable) \in {"pause", "fail1"}
        /\ Retries(c, retryable) = "pause" => tries[c] < MaxRetries
    BY <2>1 DEF GoTo, Retries
  <2>4. /\ cur' = [cur EXCEPT ![c] = 0] /\ pc[c] = "adaptFail"
        /\ UNCHANGED <<breaker, sem, seen, tries, count, faults>>
    BY <1>9 DEF AdaptFail
  <2>5. TypeOK' /\ RetriesLeft'
    BY <2>2, <2>3, <2>4
  <2>6. TimeoutInRange' /\ LoadedInRange'
    BY <2>2, <2>3, <2>4 DEF Between
  <2>7. TripsAtThreshold'
    BY <2>3, <2>4
  <2>8. QED
    BY <2>5, <2>6, <2>7
<1>10. CASE PauseEnds(c)
  BY <1>10 DEF PauseEnds, GoTo
<1>11. CASE PauseCut(c)
  BY <1>11 DEF PauseCut, GoTo, Fault
<1>12. CASE Succ1(c)
  BY <1>12 DEF Succ1, GoTo
<1>13. CASE Succ2(c)
  <2>1. /\ pc[c] = "succ2" /\ pc' = [pc EXCEPT ![c] = "loadOK"]
        /\ openedAt' = 0 /\ cooled' = FALSE /\ swept' = (swept \/ openedAt # 0)
        /\ UNCHANGED <<failures, openings, sem, currentTimeout, locals, faults>>
    BY <1>13 DEF Succ2, GoTo
  <2>2. swept' \in BOOLEAN
    BY <2>1
  <2>3. overlapped' \in BOOLEAN
    BY <1>13 DEF Succ2
  <2>4. TypeOK'
    <3>1. openings' \in Nat /\ openedAt' \in 0 .. openings' /\ cooled' \in BOOLEAN
      <4>1. cooled' = FALSE /\ openedAt' = 0 /\ openings' = openings
        BY <2>1
      <4>2. openings \in Nat
        OBVIOUS
      <4>3. openings' \in Nat /\ openedAt' \in 0 .. openings' /\ openedAt' \in Nat
        BY <4>1, <4>2
      <4>4. QED
        BY <4>1, <4>3
    <3>2. pc' \in [Callers -> Steps]
      BY <2>1
    <3>3. UNCHANGED <<failures, sem, currentTimeout, locals, faults>>
      BY <2>1
    <3>4. QED
      BY <2>2, <2>3, <3>1, <3>2, <3>3
  <2>5. RetriesLeft' /\ TimeoutInRange' /\ LoadedInRange'
    BY <2>1
  <2>6. TripsAtThreshold'
    <3>1. CASE openedAt = 0
      BY <2>1, <3>1
    <3>2. CASE openedAt # 0
      BY <2>1, <3>2
    <3>3. QED
      BY <3>1, <3>2
  <2>7. QED
    BY <2>4, <2>5, <2>6
<1>14. CASE LoadOK(c)
  BY <1>14 DEF LoadOK, GoTo
<1>15. CASE AdaptOK(c)
  <2>1. currentTimeout' \in Nat /\ Between(currentTimeout')
    <3>1. Between(cur[c]) /\ cur[c] \in Nat
      BY <1>15 DEF AdaptOK
    <3>2. CASE AdaptiveTimeout
      <4>1. PICK d \in Durations : currentTimeout' = Shortened(cur[c], d)
        BY <1>15, <3>2 DEF AdaptOK
      <4>2. QED
        BY <3>1, <4>1, ShortenedBetween
    <3>3. CASE ~AdaptiveTimeout
      BY <1>15, <3>3 DEF AdaptOK
    <3>4. QED
      BY <3>2, <3>3
  <2>2. /\ pc[c] = "adaptOK" /\ pc' = [pc EXCEPT ![c] = "idle"]
        /\ cur' = [cur EXCEPT ![c] = 0]
        /\ UNCHANGED <<breaker, seen, tries, count, faults>>
    BY <1>15 DEF AdaptOK, Return, GoTo
  <2>3. QED
    BY <2>1, <2>2 DEF Between
<1>16. CASE Fail1(c)
  BY <1>16 DEF Fail1, GoTo, Return
<1>17. CASE Fail2(c)
  <2>1. /\ pc[c] = "fail2" /\ pc' = [pc EXCEPT ![c] = "idle"]
        /\ count' = [count EXCEPT ![c] = 0]
        /\ UNCHANGED <<failures, swept, overlapped, currentTimeout, seen, tries, cur, faults>>
    BY <1>17 DEF Fail2, Return, GoTo
  <2>2. /\ openings' \in Nat /\ openedAt' \in 0 .. openings' /\ openedAt' # 0
        /\ cooled' \in BOOLEAN
    <3>1. CASE openedAt = 0
      <4>1. /\ openings' = openings + 1 /\ openedAt' = openings + 1
            /\ cooled' = FALSE
        BY <1>17, <3>1 DEF Fail2
      <4>2. openings \in Nat
        OBVIOUS
      <4>3. openings' \in Nat /\ openedAt' \in 0 .. openings' /\ openedAt' \in Nat
        BY <4>1, <4>2
      <4>4. openedAt' # 0
        BY <4>1, <4>2
      <4>5. QED
        BY <4>1, <4>3, <4>4
    <3>2. CASE openedAt # 0
      BY <1>17, <3>2 DEF Fail2
    <3>3. QED
      BY <3>1, <3>2
  <2>3. QED
    BY <2>1, <2>2
<1>18. QED
  BY <1>1, <1>2, <1>3, <1>4, <1>5, <1>6, <1>7, <1>8, <1>9, <1>10, <1>11, <1>12, <1>13, <1>14, <1>15, <1>16, <1>17
     DEF Dial, Allow, Attempt, Report

LEMMA IInvStep == IInv /\ [Next]_vars => IInv'
<1> SUFFICES ASSUME IInv, [Next]_vars PROVE IInv'
  OBVIOUS
<1>1. ASSUME NEW c \in Callers, Dial(c) PROVE IInv'
  <2>1. SemOK'
    BY <1>1, SemStep
  <2>2. QED
    BY <1>1, <2>1, RestStep DEF IInv, SemOK
<1>2. CASE CooldownPasses
  <2>1. Holders' = Holders
    BY <1>2 DEF CooldownPasses, Holders
  <2>2. QED
    BY <1>2, <2>1 DEF CooldownPasses, IInv, TypeOK, RetriesLeft, SemExact, TimeoutInRange,
       LoadedInRange, TripsAtThreshold, locals
<1>3. CASE UNCHANGED vars
  <2>1. Holders' = Holders
    BY <1>3 DEF vars, Holders
  <2>2. QED
    BY <1>3, <2>1 DEF vars, breaker, locals, IInv, TypeOK, RetriesLeft, SemExact,
       TimeoutInRange, LoadedInRange, TripsAtThreshold
<1>4. QED
  BY <1>1, <1>2, <1>3 DEF Next

LEMMA InitIInv == Init => IInv
<1> SUFFICES ASSUME Init PROVE IInv
  OBVIOUS
<1>1. Holders = {}
  BY DEF Init, Holders, Holding
<1>2. SemExact
  BY <1>1, FS_EmptySet DEF Init, SemExact
<1>3. TypeOK
  <2>1. /\ pc \in [Callers -> Steps] /\ seen \in [Callers -> Nat]
        /\ tries \in [Callers -> 0 .. MaxRetries] /\ count \in [Callers -> Nat]
        /\ cur \in [Callers -> Nat]
    BY DEF Init, Steps
  <2>2. /\ failures \in Nat /\ openings \in Nat /\ openedAt \in 0 .. openings
        /\ sem \in 0 .. Concurrency /\ currentTimeout \in Nat /\ faults \in 0 .. MaxFaults
    BY DEF Init
  <2>3. QED
    BY <2>1, <2>2 DEF Init, TypeOK
<1>4. TimeoutInRange
  BY DEF Init, TimeoutInRange, Between, Settings
<1>5. RetriesLeft /\ LoadedInRange /\ TripsAtThreshold
  BY DEF Init, RetriesLeft, LoadedInRange, TripsAtThreshold
<1>6. QED
  BY <1>2, <1>3, <1>4, <1>5 DEF IInv

LEMMA IInvAlways == Spec => []IInv
BY InitIInv, IInvStep, PTL DEF Spec

-----------------------------------------------------------------------------
(* The theorems.                                                           *)

(* Every variable keeps its type.                                          *)
THEOREM TypeCorrect == Spec => []TypeOK
<1>1. IInv => TypeOK
  BY DEF IInv
<1>2. QED
  BY IInvAlways, <1>1, PTL

(* Each slot of the semaphore belongs to exactly one call in progress.     *)
THEOREM NoSlotLost == Spec => []SlotsAccounted
<1>1. IInv => SlotsAccounted
  BY DEF IInv, TypeOK, SemExact, Holders, SlotsAccounted
<1>2. QED
  BY IInvAlways, <1>1, PTL

(* A full count of failures opens the breaker, save for a raced success.   *)
THEOREM BreakerTrips == Spec => []TripsAtThreshold
<1>1. IInv => TripsAtThreshold
  BY DEF IInv
<1>2. QED
  BY IInvAlways, <1>1, PTL

(* The adaptive timeout never leaves the range of its settings.            *)
THEOREM TimeoutStaysInRange == Spec => []TimeoutInRange
<1>1. IInv => TimeoutInRange
  BY DEF IInv
<1>2. QED
  BY IInvAlways, <1>1, PTL
-----------------------------------------------------------------------------
(* Called by one goroutine at a time, the breaker closes before an attempt *)
(* begins and stays closed until the call's last step opens it.            *)

OneAtATime ==
  \A c \in Callers, d \in Callers : pc[c] # "idle" /\ pc[d] # "idle" => c = d

ClosedInside ==
  /\ \A c \in Callers : pc[c] \notin {"idle", "allow"} => openedAt = 0
  /\ \A c \in Callers : pc[c] = "fail2" => failures >= FailureThreshold
  /\ openedAt # 0 => failures >= FailureThreshold
  /\ ~swept

Alone == ~overlapped => OneAtATime /\ ClosedInside

LEMMA AloneStep == IInv /\ Alone /\ [Next]_vars => Alone'
<1> SUFFICES ASSUME IInv, Alone, [Next]_vars, ~overlapped' PROVE (OneAtATime /\ ClosedInside)'
  BY DEF Alone
<1>1. TypeOK
  BY DEF IInv
<1>2. CASE UNCHANGED vars
  BY <1>2 DEF Alone, vars, breaker, OneAtATime, ClosedInside
<1>3. CASE CooldownPasses
  BY <1>3 DEF Alone, CooldownPasses, OneAtATime, ClosedInside
<1>4. ASSUME NEW c \in Callers, Dial(c) PROVE (OneAtATime /\ ClosedInside)'
  <2>1. CASE AllowLoads(c)
    <3>1. \A d \in Callers : pc[d] = "idle"
      BY <2>1 DEF AllowLoads
    <3>2. ~overlapped
      BY <2>1 DEF AllowLoads
    <3>3. /\ openedAt' = openedAt /\ failures' = failures /\ swept' = swept
          /\ \A d \in Callers \ {c} : pc'[d] = "idle"
          /\ pc'[c] = IF openedAt = 0 THEN "acquire" ELSE "allow"
      BY <1>1, <2>1, <3>1 DEF AllowLoads, GoTo, TypeOK
    <3>4. QED
      BY <3>2, <3>3 DEF Alone, OneAtATime, ClosedInside
  <2>2. CASE ~AllowLoads(c)
    <3>1. /\ UNCHANGED overlapped /\ pc[c] # "idle"
          /\ \A d \in Callers \ {c} : pc'[d] = pc[d]
      <4>1. CASE Allow(c)
        BY <1>1, <2>2, <4>1 DEF Allow, AllowHalfOpens, AllowResets, AllowRejects, GoTo, TypeOK,
             breaker
      <4>2. CASE Acquires(c) \/ Busy(c) \/ AttemptOK(c) \/ AttemptFails(c)
        BY <1>1, <4>2 DEF Acquires, Busy, AttemptOK, AttemptFails, GoTo, TypeOK, breaker
      <4>3. CASE AdaptFail(c) \/ PauseEnds(c) \/ PauseCut(c)
        BY <1>1, <4>3 DEF AdaptFail, PauseEnds, PauseCut, GoTo, TypeOK, breaker
      <4>4. CASE Report(c)
        BY <1>1, <4>4 DEF Report, Succ1, Succ2, LoadOK, AdaptOK, Fail1, Fail2, Return, GoTo,
             TypeOK, breaker
      <4>5. QED
        BY <1>4, <4>1, <4>2, <4>3, <4>4 DEF Dial, Attempt
    <3>2. OneAtATime /\ ClosedInside
      BY <3>1 DEF Alone
    <3>3. \A d \in Callers \ {c} : pc[d] = "idle" /\ pc'[d] = "idle"
      BY <3>1, <3>2 DEF OneAtATime
    <3>4. OneAtATime'
      BY <3>3 DEF OneAtATime
    <3>5. SUFFICES /\ pc'[c] \notin {"idle", "allow"} => openedAt' = 0
                   /\ pc'[c] = "fail2" => failures' >= FailureThreshold
                   /\ openedAt' # 0 => failures' >= FailureThreshold
                   /\ ~swept'
      BY <3>3, <3>4 DEF ClosedInside
    <3> USE DEF ClosedInside
    <3>6. CASE Allow(c)
      BY <1>1, <2>2, <3>2, <3>6
        DEF Allow, AllowHalfOpens, AllowResets, AllowRejects, GoTo, TypeOK, breaker
    <3>7. CASE Attempt(c)
      <4>1. CASE Acquires(c) \/ Busy(c) \/ AttemptOK(c) \/ AttemptFails(c)
        BY <1>1, <3>2, <4>1 DEF Acquires, Busy, AttemptOK, AttemptFails, GoTo, TypeOK, breaker
      <4>2. CASE AdaptFail(c) \/ PauseEnds(c) \/ PauseCut(c)
        BY <1>1, <3>2, <4>2 DEF AdaptFail, PauseEnds, PauseCut, GoTo, TypeOK, breaker, Retries
      <4>3. QED
        BY <3>7, <4>1, <4>2 DEF Attempt
    <3>8. CASE Report(c)
      <4>1. CASE Succ1(c) \/ Succ2(c) \/ LoadOK(c) \/ AdaptOK(c)
        BY <1>1, <3>2, <4>1
          DEF Succ1, Succ2, LoadOK, AdaptOK, Return, GoTo, TypeOK, breaker
      <4>2. CASE Fail1(c)
        BY <1>1, <3>2, <4>2 DEF Fail1, Return, GoTo, TypeOK
      <4>3. CASE Fail2(c)
        BY <1>1, <3>2, <4>3 DEF Fail2, Return, GoTo, TypeOK
      <4>4. QED
        BY <3>8, <4>1, <4>2, <4>3 DEF Report
    <3>9. QED
      BY <1>4, <3>6, <3>7, <3>8 DEF Dial
  <2>3. QED
    BY <2>1, <2>2
<1>5. QED
  BY <1>2, <1>3, <1>4 DEF Next

(* Calls that never overlap find the breaker open only on a full count of  *)
(* failures, attempt nothing while it is open, and never sweep it shut.    *)
THEOREM OpenOnlyOnFailures == Spec => []OpenMeansFailing
<1>1. Init => Alone
  BY DEF Init, Alone, OneAtATime, ClosedInside
<1>2. Alone => OpenMeansFailing
  BY DEF Alone, ClosedInside, OpenMeansFailing
<1>3. Spec => []Alone
  BY <1>1, AloneStep, IInvAlways, PTL DEF Spec
<1>4. QED
  BY <1>2, <1>3, PTL
=============================================================================
