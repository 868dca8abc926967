------------------------------ MODULE AutoHeal ------------------------------
(***************************************************************************)
(* The tracker and the tunnel it heals: what HealthTracker judges are calls *)
(* through the tunnel, and its callbacks tear that tunnel down              *)
(* (sshclient/manager.go, health/probe.go).                                  *)
(*                                                                         *)
(* A loop that could feed itself: a callback takes the tunnel down, calls   *)
(* fail until it is back, the failures make the tracker worse, and the      *)
(* window and the averages of the old tunnel go on to judge the new one,    *)
(* since no reconnect resets them.                                          *)
(*                                                                         *)
(* The tunnel is up or down (SSHManager has its inside); a callback that    *)
(* has been spawned is counted until it runs.                               *)
(***************************************************************************)
EXTENDS HealthTracker

CONSTANTS
  Probe,     \* the observer that probes; the others are connections of users
  NoSample,  \* not a sample
  MaxTrouble \* bound: calls of users and bad samples together

ASSUME ProbeAssumption == Probe \in Observers /\ MaxTrouble \in Nat

VARIABLES
  tunnel,    \* "up", or "down" until the supervisor has reconnected
  heals,     \* markDowns spawned by callbacks and failed calls, not yet run
  again,     \* what the probe has just seen, observed by Dial, not yet by itself
  probed,    \* the probe has begun another call since healthySince was set
  calls      \* calls of users so far

healVars == <<vars, tunnel, heals, again, probed, calls>>

Sample == [ms : Nat, failed : BOOLEAN]

\* types of the tracker and of what is around it
HealTypeOK ==
  /\ TypeOK
  /\ tunnel \in {"up", "down"} /\ heals \in Nat
  /\ again \in Sample \cup {NoSample} /\ probed \in BOOLEAN
  /\ calls \in 0 .. MaxTrouble

HealInit == Init /\ tunnel = "up" /\ heals = 0 /\ again = NoSample /\ probed = FALSE
            /\ calls = 0

Refused == [ms |-> 0, failed |-> TRUE]

\* The probe calls every few seconds: a goroutine that has been spawned runs before
\* its next call, and healthySince is not held before it either.
MayCall(o) == IF o = Probe THEN again = NoSample /\ heals = 0 ELSE bad + calls < MaxTrouble

Keeps(o, s) ==
  IF o = Probe THEN again' = s /\ probed' = TRUE /\ UNCHANGED calls
               ELSE calls' = calls + 1 /\ UNCHANGED <<again, probed>>

\* Dial through a tunnel that is up: the call's time and outcome are observed, and
\* one that failed spawns a markDown of its own
Calls(o) ==
  /\ tunnel = "up" /\ MayCall(o)
  /\ \E s \in Samples :
       /\ Observe(o, s) /\ Counted(s)
       /\ heals' = IF s.failed THEN heals + 1 ELSE heals
       /\ Keeps(o, s)
       /\ bad' + calls' <= MaxTrouble
  /\ UNCHANGED tunnel

\* Dial without one: refused at once, and observed as a failure
CallRefused(o) ==
  /\ tunnel = "down" /\ MayCall(o)
  /\ Observe(o, Refused)
  /\ Keeps(o, Refused)
  /\ UNCHANGED <<bad, tunnel, heals>>

\* ProbeOK or ProbeFail: the probe observes a second time what its Dial observed
ProbeReports ==
  /\ again # NoSample
  /\ Observe(Probe, [again EXCEPT !.ms = IF again.failed THEN 0 ELSE @])
  /\ again' = NoSample
  /\ UNCHANGED <<bad, tunnel, heals, probed, calls>>

\* mutant: every bad verdict spawns a callback, until things are good again
SpawnsAlways(o) ==
  /\ \/ TransitSpawns(o)
     \/ StaysBad(o)
  /\ heals' = heals + 1
  /\ UNCHANGED <<tunnel, again, probed, calls>>

\* the steps of evaluate that spawn a callback ...
Spawns(o) ==
  /\ \/ TransitSpawns(o)
     \/ StaysBad(o) /\ cur[o] = "degraded" /\ degradedSince = "held"
  /\ heals' = heals + 1
  /\ UNCHANGED <<tunnel, again, probed, calls>>

\* ... and those that do not
Evaluates(o) ==
  /\ \/ Judge(o) \/ LoadState(o) \/ Worsens(o) \/ StaysHealthy(o) \/ GoodAgain(o)
     \/ TransitLoads(o) \/ TransitStores(o) \/ TransitStamps(o)
     \/ StaysBad(o) /\ ~(cur[o] = "degraded" /\ degradedSince = "held")
  /\ probed' = (probed /\ healthySince' = healthySince)
  /\ UNCHANGED <<tunnel, heals, again, calls>>

\* onDegrade, onUnhealthy, or the markDown after a failed call
Heals ==
  /\ heals > 0
  /\ heals' = heals - 1
  /\ tunnel' = "down"
  /\ UNCHANGED <<vars, again, probed, calls>>

\* the connection is lost for a reason of its own: a fault, like a bad sample
Breaks ==
  /\ tunnel = "up" /\ bad < MaxBad /\ bad + calls < MaxTrouble
  /\ bad' = bad + 1
  /\ tunnel' = "down"
  /\ UNCHANGED <<window, idx, ewmaErr, machine, pc, locals, history, heals, again, probed, calls>>

\* the supervisor connects again
Reconnects ==
  /\ tunnel = "down"
  /\ tunnel' = "up"
  /\ UNCHANGED <<vars, heals, again, probed, calls>>

HealHold == probed /\ HealHoldPasses /\ UNCHANGED <<tunnel, heals, again, probed, calls>>
DegradedHold == heals = 0 /\ DegradedHoldPasses /\ UNCHANGED <<tunnel, heals, again, probed, calls>>

HealNext ==
  \/ Heals \/ Breaks \/ Reconnects \/ HealHold \/ DegradedHold \/ ProbeReports
  \/ \E o \in Observers : Calls(o) \/ CallRefused(o) \/ Spawns(o) \/ Evaluates(o)

(* The probe goes on for good and a call that has begun goes on; spawned   *)
(* goroutines run, the supervisor reconnects (Heals of SSHManager), and    *)
(* HealHold passes.                                                        *)
HealSpec ==
  /\ HealInit /\ [][HealNext]_healVars
  /\ WF_healVars(Heals) /\ WF_healVars(Reconnects) /\ WF_healVars(HealHold)
  /\ WF_healVars(Calls(Probe) \/ CallRefused(Probe) \/ ProbeReports)
  /\ \A o \in Observers : WF_healVars(Spawns(o) \/ Evaluates(o))

-----------------------------------------------------------------------------
(* Once the network has stopped making trouble, the loop of tracker and    *)
(* tunnel comes to rest: the tunnel is up for good and its worker Healthy. *)
(* A reconnect forced by the samples of an old tunnel, or by a callback    *)
(* that came late, does not bring on another without end (manager.go:92,   *)
(* 100, 246).                                                              *)
HealingSettles == <>[](tunnel = "up" /\ state = "healthy")
=============================================================================
