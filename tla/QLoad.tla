------------------------------- MODULE QLoad --------------------------------
(***************************************************************************)
(* qload.QLoad: the guard in front of the transport dial.  A call passes   *)
(* the circuit breaker, takes a slot of the semaphore, makes up to         *)
(* MaxRetries + 1 attempts and reports the outcome to the breaker.         *)
(*                                                                         *)
(* The breaker is two atomics, failures and openedAt, and every operation  *)
(* on it (allow, onSuccess, onFailure) touches them one after the other    *)
(* without a lock: each access is an action.  openedAt is a number that    *)
(* tells one opening from another (the nanosecond of the CAS in the code), *)
(* 0 when the breaker is closed; whether more than Cooldown has passed     *)
(* since then is the variable cooled.                                      *)
(***************************************************************************)
EXTENDS Integers, FiniteSets

CONSTANTS
  Callers,          \* goroutines that call Dial
  Concurrency,      \* slots of the semaphore
  MaxRetries,
  FailureThreshold,
  AdaptiveTimeout,  \* BOOLEAN
  Timeout,          \* Config.Timeout, in the unit of durations
  MinTarget,        \* the 3 seconds of adaptTimeout
  MaxBackoff,       \* Config.MaxBackoff, also the cap of a raised timeout
  Durations,        \* how long an attempt may take
  MaxFaults         \* bound: failed attempts and expired contexts

ASSUME CallersAssumption == IsFiniteSet(Callers)
ASSUME ConfigAssumption ==
  /\ Concurrency \in Nat \ {0} /\ MaxRetries \in Nat /\ FailureThreshold \in Nat \ {0}
  /\ AdaptiveTimeout \in BOOLEAN /\ MaxFaults \in Nat
ASSUME DurationAssumption ==
  /\ Timeout \in Nat \ {0} /\ MinTarget \in Nat \ {0} /\ MaxBackoff \in Nat \ {0}
  /\ Durations \subseteq Nat

VARIABLES
  failures,       \* QLoad.failures
  openedAt,       \* QLoad.openedAt: 0, or which opening
  openings,       \* openings so far
  cooled,         \* more than Cooldown has passed since the opening openedAt
  sem,            \* elements in the channel QLoad.sem
  currentTimeout, \* QLoad.currentTimeout
  pc,             \* per caller: where it is in Dial
  seen,           \* per caller: what allow loaded from openedAt
  tries,          \* per caller: the attempt i of the loop
  count,          \* per caller: what failures.Add returned
  cur,            \* per caller: what adaptTimeout loaded
  faults,         \* environment failures so far
  swept,          \* history: onSuccess has closed an open breaker
  overlapped      \* history: a call has begun while another was in progress

breaker == <<failures, openedAt, openings, cooled, swept, overlapped>>
locals  == <<seen, tries, count, cur>>
vars == <<breaker, sem, currentTimeout, pc, locals, faults>>

Holding == {"attempt", "adaptOK", "adaptFail", "pause", "succ1", "succ2", "loadOK", "fail1",
            "fail2"}
Steps   == {"idle", "allow", "reset", "acquire"} \cup Holding

Init ==
  /\ failures = 0 /\ openedAt = 0 /\ openings = 0 /\ cooled = FALSE
  /\ sem = 0 /\ currentTimeout = Timeout
  /\ pc = [c \in Callers |-> "idle"]
  /\ seen = [c \in Callers |-> 0] /\ tries = [c \in Callers |-> 0]
  /\ count = [c \in Callers |-> 0] /\ cur = [c \in Callers |-> 0]
  /\ faults = 0 /\ swept = FALSE /\ overlapped = FALSE

Fault == faults < MaxFaults /\ faults' = faults + 1
GoTo(c, step) == pc' = [pc EXCEPT ![c] = step]
Return(c) == GoTo(c, "idle") /\ sem' = sem - 1   \* with the deferred <-q.sem

-----------------------------------------------------------------------------
(* allow.                                                                  *)

CooldownPasses ==
  /\ openedAt # 0 /\ ~cooled
  /\ cooled' = TRUE
  /\ UNCHANGED <<failures, openedAt, openings, swept, overlapped, sem,
                 currentTimeout, pc, locals, faults>>

AllowLoads(c) ==
  /\ pc[c] = "idle"
  /\ seen' = [seen EXCEPT ![c] = openedAt]
  /\ overlapped' = (overlapped \/ \E d \in Callers : pc[d] # "idle")
  /\ GoTo(c, IF openedAt = 0 THEN "acquire" ELSE "allow")
  /\ UNCHANGED <<failures, openedAt, openings, cooled, swept, sem, currentTimeout,
                 tries, count, cur, faults>>

(* Mutants: the call passes but the breaker is left as it is; an expired   *)
(* cooldown makes no difference.                                           *)
AllowLetsThrough(c) ==
  /\ pc[c] = "allow" /\ openedAt = seen[c] /\ cooled
  /\ GoTo(c, "acquire")
  /\ UNCHANGED <<breaker, sem, currentTimeout, locals, faults>>

AllowStaysOpen(c) ==
  /\ pc[c] = "allow" /\ openedAt = seen[c] /\ cooled
  /\ GoTo(c, "idle")
  /\ UNCHANGED <<breaker, sem, currentTimeout, locals, faults>>

AllowHalfOpens(c) == \* the cooldown is over and the CAS to 0 succeeds
  /\ pc[c] = "allow" /\ openedAt = seen[c] /\ cooled
  /\ openedAt' = 0 /\ cooled' = FALSE
  /\ GoTo(c, "reset")
  /\ UNCHANGED <<failures, openings, swept, overlapped, sem, currentTimeout,
                 locals, faults>>

AllowResets(c) ==
  /\ pc[c] = "reset"
  /\ failures' = 0
  /\ GoTo(c, "acquire")
  /\ UNCHANGED <<openedAt, openings, cooled, swept, overlapped, sem,
                 currentTimeout, locals, faults>>

AllowRejects(c) == \* still cooling, or another caller changed openedAt
  /\ pc[c] = "allow" /\ (~cooled \/ openedAt # seen[c])
  /\ GoTo(c, "idle")
  /\ UNCHANGED <<breaker, sem, currentTimeout, locals, faults>>

-----------------------------------------------------------------------------
(* The semaphore and the attempts.                                         *)

AcquiresUnchecked(c) == \* mutant: the slot is taken whether free or not
  /\ pc[c] = "acquire"
  /\ sem' = sem + 1
  /\ tries' = [tries EXCEPT ![c] = 0]
  /\ GoTo(c, "attempt")
  /\ UNCHANGED <<breaker, currentTimeout, seen, count, cur, faults>>

Acquires(c) ==
  /\ pc[c] = "acquire" /\ sem < Concurrency
  /\ sem' = sem + 1
  /\ tries' = [tries EXCEPT ![c] = 0]
  /\ GoTo(c, "attempt")
  /\ UNCHANGED <<breaker, currentTimeout, seen, count, cur, faults>>

BusyOnContextOnly(c) == \* mutant: no SemTimeout
  /\ pc[c] = "acquire" /\ Fault
  /\ GoTo(c, "idle")
  /\ UNCHANGED <<breaker, sem, currentTimeout, locals>>

(* SemTimeout passed with no free slot, or the caller's context is done.   *)
Busy(c) ==
  /\ pc[c] = "acquire"
  /\ IF sem = Concurrency THEN UNCHANGED faults ELSE Fault
  /\ GoTo(c, "idle")
  /\ UNCHANGED <<breaker, sem, currentTimeout, locals>>

AttemptOK(c) ==
  /\ pc[c] = "attempt"
  /\ GoTo(c, "succ1")
  /\ UNCHANGED <<breaker, sem, currentTimeout, locals, faults>>

(* adaptTimeout loads currentTimeout; it does nothing unless configured.   *)
AttemptFails(c) ==
  /\ pc[c] = "attempt" /\ Fault
  /\ cur' = [cur EXCEPT ![c] = currentTimeout]
  /\ GoTo(c, "adaptFail")
  /\ UNCHANGED <<breaker, sem, currentTimeout, seen, tries, count>>

(* Go divides toward zero.                                                 *)
Quarter(n) == IF n < 0 THEN -((-n) \div 4) ELSE n \div 4

Clamp(n, lo, hi) == LET m == IF n < lo THEN lo ELSE n IN IF m > hi THEN hi ELSE m

Shortened(t, last) == t - Quarter(t - Clamp(2 * last, MinTarget, Timeout))
LengthenedUncapped(t) == t + Quarter(t)   \* mutant
Lengthened(t) == LET n == t + Quarter(t) IN IF n > MaxBackoff THEN MaxBackoff ELSE n

Retries(c, retryable) ==
  IF retryable /\ tries[c] < MaxRetries THEN "pause" ELSE "fail1"

AdaptFail(c) ==
  /\ pc[c] = "adaptFail"
  /\ currentTimeout' = IF AdaptiveTimeout THEN Lengthened(cur[c]) ELSE currentTimeout
  /\ cur' = [cur EXCEPT ![c] = 0]
  /\ \E retryable \in BOOLEAN : GoTo(c, Retries(c, retryable))
  /\ UNCHANGED <<breaker, sem, seen, tries, count, faults>>

PauseEnds(c) ==
  /\ pc[c] = "pause"
  /\ tries' = [tries EXCEPT ![c] = @ + 1]
  /\ GoTo(c, "attempt")
  /\ UNCHANGED <<breaker, sem, currentTimeout, seen, count, cur, faults>>

PauseCut(c) == \* the context is done: counted as a failure all the same
  /\ pc[c] = "pause" /\ Fault
  /\ GoTo(c, "fail1")
  /\ UNCHANGED <<breaker, sem, currentTimeout, locals>>

-----------------------------------------------------------------------------
(* onSuccess: failures.Swap(0) > 0 || openedAt.Swap(0) != 0, where the     *)
(* second Swap is not evaluated when the first finds a failure.            *)

Succ1(c) ==
  /\ pc[c] = "succ1"
  /\ failures' = 0
  /\ GoTo(c, IF failures > 0 THEN "loadOK" ELSE "succ2")
  /\ UNCHANGED <<openedAt, openings, cooled, swept, overlapped, sem, currentTimeout, locals,
                 faults>>

Succ2(c) ==
  /\ pc[c] = "succ2"
  /\ openedAt' = 0 /\ cooled' = FALSE
  /\ swept' = (swept \/ openedAt # 0)
  /\ GoTo(c, "loadOK")
  /\ UNCHANGED <<failures, openings, overlapped, sem, currentTimeout, locals, faults>>

(* adaptTimeout after a success: load, then store.                         *)
LoadOK(c) ==
  /\ pc[c] = "loadOK"
  /\ cur' = [cur EXCEPT ![c] = currentTimeout]
  /\ GoTo(c, "adaptOK")
  /\ UNCHANGED <<breaker, sem, currentTimeout, seen, tries, count, faults>>

AdaptOKKeepsSlot(c) == \* mutant: the slot is not given back
  /\ pc[c] = "adaptOK"
  /\ currentTimeout' \in IF AdaptiveTimeout THEN {Shortened(cur[c], d) : d \in Durations}
                                            ELSE {currentTimeout}
  /\ cur' = [cur EXCEPT ![c] = 0]
  /\ GoTo(c, "idle")
  /\ UNCHANGED <<breaker, sem, seen, tries, count, faults>>

AdaptOK(c) ==
  /\ pc[c] = "adaptOK"
  /\ currentTimeout' \in IF AdaptiveTimeout THEN {Shortened(cur[c], d) : d \in Durations}
                                            ELSE {currentTimeout}
  /\ cur' = [cur EXCEPT ![c] = 0]
  /\ Return(c)
  /\ UNCHANGED <<breaker, seen, tries, count, faults>>

-----------------------------------------------------------------------------
(* onFailure.                                                              *)

Fail1(c) ==
  /\ pc[c] = "fail1"
  /\ failures' = failures + 1
  /\ IF failures + 1 >= FailureThreshold
       THEN /\ count' = [count EXCEPT ![c] = failures + 1]
            /\ GoTo(c, "fail2")
            /\ UNCHANGED sem
       ELSE Return(c) /\ UNCHANGED count
  /\ UNCHANGED <<openedAt, openings, cooled, swept, overlapped, currentTimeout,
                 seen, tries, cur, faults>>

Fail2Forgets(c) == \* mutant: the breaker is not opened
  /\ pc[c] = "fail2"
  /\ count' = [count EXCEPT ![c] = 0]
  /\ Return(c)
  /\ UNCHANGED <<breaker, currentTimeout, seen, tries, cur, faults>>

Fail2(c) ==
  /\ pc[c] = "fail2"
  /\ IF openedAt = 0
       THEN /\ openings' = openings + 1 /\ openedAt' = openings + 1
            /\ cooled' = FALSE
       ELSE UNCHANGED <<openings, openedAt, cooled>>
  /\ count' = [count EXCEPT ![c] = 0]
  /\ Return(c)
  /\ UNCHANGED <<failures, swept, overlapped, currentTimeout, seen, tries, cur, faults>>

-----------------------------------------------------------------------------
Allow(c)   == AllowLoads(c) \/ AllowHalfOpens(c) \/ AllowResets(c) \/ AllowRejects(c)
Attempt(c) == Acquires(c) \/ Busy(c) \/ AttemptOK(c) \/ AttemptFails(c)
              \/ AdaptFail(c) \/ PauseEnds(c) \/ PauseCut(c)
Report(c)  == Succ1(c) \/ Succ2(c) \/ LoadOK(c) \/ AdaptOK(c) \/ Fail1(c) \/ Fail2(c)
Dial(c)    == Allow(c) \/ Attempt(c) \/ Report(c)

Next == CooldownPasses \/ \E c \in Callers : Dial(c)

Spec == Init /\ [][Next]_vars

(* Fairness: time passes and a goroutine that can run does.  That a caller *)
(* calls again is the supervisor's retry of connect.                       *)
FairSpec == Spec /\ WF_vars(CooldownPasses) /\ \A c \in Callers : WF_vars(Dial(c))

-----------------------------------------------------------------------------
Settings == {MinTarget, Timeout, MaxBackoff}
Between(t) == (\E s \in Settings : s <= t) /\ (\E s \in Settings : t <= s)

TypeOK ==
  /\ failures \in Nat
  /\ openings \in Nat /\ openedAt \in 0 .. openings
  /\ cooled \in BOOLEAN /\ swept \in BOOLEAN /\ overlapped \in BOOLEAN
  /\ sem \in 0 .. Concurrency
  /\ currentTimeout \in Nat
  /\ pc \in [Callers -> Steps]
  /\ seen \in [Callers -> Nat]
  /\ tries \in [Callers -> 0 .. MaxRetries]
  /\ count \in [Callers -> Nat]
  /\ cur \in [Callers -> Nat]
  /\ faults \in 0 .. MaxFaults

(* Every path out of Dial gives its slot back, and only a path that took   *)
(* one does: the semaphore holds exactly the calls between the two, never  *)
(* more than Concurrency.                                                  *)
SlotsAccounted ==
  /\ sem = Cardinality({c \in Callers : pc[c] \in Holding})
  /\ sem <= Concurrency

(* A breaker that has counted its threshold of failures is open, or some   *)
(* call is about to open it or has just half-opened it - unless a success  *)
(* raced with the failures and swept an open breaker shut.                 *)
TripsAtThreshold ==
  failures >= FailureThreshold /\ openedAt = 0 =>
    swept \/ \E c \in Callers : pc[c] \in {"fail2", "reset"}

(* Called by one goroutine at a time, as connect calls it, the breaker is  *)
(* open only on the strength of a full count of failures, and a success    *)
(* never finds it open.  (Calls that overlap can leave it open: Succ1      *)
(* clears the failures, and the || then skips openedAt.)                   *)
OpenMeansFailing ==
  ~overlapped =>
    /\ openedAt # 0 => failures >= FailureThreshold
    /\ \A c \in Callers : pc[c] \in {"attempt", "succ1", "succ2"} => openedAt = 0
    /\ ~swept

(* However the unsynchronised load and store of several calls interleave,  *)
(* the adaptive timeout stays between the least and the greatest of its    *)
(* three settings: it neither collapses to zero nor grows without bound.   *)
TimeoutInRange == Between(currentTimeout)

(* Once attempts stop failing, the breaker closes for good: the cooldown   *)
(* ends, some call half-opens it, and nothing opens it again.              *)
Recovers == <>[](openedAt = 0)

(* A call that is waiting for a slot comes back.                           *)
DialReturns == \A c \in Callers : pc[c] = "acquire" ~> pc[c] = "idle"
=============================================================================
