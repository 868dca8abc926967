--------------------------- MODULE WorkersProofs ---------------------------
(***************************************************************************)
(* Theorems about Workers for any set of configurations: every one that     *)
(* Load can return, not the eight of the run.                               *)
(***************************************************************************)
EXTENDS Workers, TLAPS

USE WorkersAssumption

\* what a worker can be doing when its runWorker has not begun
Unstarted == {"boot", "failed"}

\* no two workers are given the same port
PortsApart ==
    \A v \in Started, w \in Started : v # w => Addrs[v].port # Addrs[w].port

Places == {"none", "new", "attempt", "pause", "check", "up", "serve", "closing",
           "append", "done"}
Fates  == {"none", "dialer", "nossh", "cancelled", "nolisten", "served"}

Typed ==
    /\ wpc \in [Ids -> Places] /\ fate \in [Ids -> Fates]
    /\ listens \subseteq Ids \cup {API}

\* The invariant: nothing runs before the configuration has passed validation;
\* then it has a dialer and ports apart; who listens is serving; an API that
\* was not asked for never starts.
Quiet ==
    mainPc \in Unstarted =>
        /\ \A w \in Ids : wpc[w] = "none" /\ fate[w] = "none"
        /\ listens = {} /\ api = "off"

Validated == mainPc \notin Unstarted => HasDialer(cfg) /\ PortsApart

Placed ==
    /\ \A w \in Ids : wpc[w] # "none" => w \in Started
    /\ \A w \in Ids : w \in listens => wpc[w] = "serve"
    /\ API \in listens => api # "off"
    /\ api # "off" => cfg.apiEnable

IInv ==
    /\ Typed /\ Quiet /\ Validated /\ Placed /\ ValidatedRuns
    /\ mainPc = "boot" => cfg \in Configs

-----------------------------------------------------------------------------
(* Configurations *)

\* What passes validation has a dialer, and ListenAddrs counts its ports up.
LEMMA ValidatedConfigs ==
    ASSUME NEW c \in Configuration, ValidateAll(ApplyDefaults(c)) = {}
    PROVE  /\ HasDialer(ApplyDefaults(c))
           /\ LET addrs == ListenAddrs(ApplyDefaults(c)) IN
              \A v, w \in Ids : v <= Len(addrs) /\ w <= Len(addrs) /\ v # w
                                    => addrs[v].port # addrs[w].port
<1> DEFINE d == ApplyDefaults(c)
           start == IF d.startPort = 0 THEN d.port ELSE d.startPort
<1>1. d.networkType \in {"tcp", "ws"}
  BY DEF ValidateAll
<1>2. HasDialer(d)
  BY <1>1 DEF HasDialer
<1>3. d.port \in Int /\ d.startPort \in Int /\ d.workers \in Nat \ {0}
  BY DEF ApplyDefaults, Configuration
<1> HIDE DEF d
<1>4. ASSUME NEW v \in Ids, NEW w \in Ids, v # w,
             v <= Len(ListenAddrs(d)), w <= Len(ListenAddrs(d))
      PROVE  ListenAddrs(d)[v].port # ListenAddrs(d)[w].port
  <2>1. CASE ~d.concurrency \/ d.workers <= 1
    <3>1. Len(ListenAddrs(d)) = 1
      BY <2>1 DEF ListenAddrs
    <3>2. QED
      BY <1>4, <3>1 DEF Ids
  <2>2. CASE d.concurrency /\ d.workers > 1
    <3>1. /\ Len(ListenAddrs(d)) = d.workers
          /\ \A i \in 1..d.workers : ListenAddrs(d)[i].port = start + i - 1
      BY <1>3, <2>2 DEF ListenAddrs
    <3>2. v \in 1..d.workers /\ w \in 1..d.workers
      BY <1>3, <1>4, <3>1 DEF Ids
    <3>3. QED
      BY <1>3, <1>4, <3>1, <3>2
  <2>3. QED
    BY <1>3, <2>1, <2>2
<1>5. QED
  BY <1>2, <1>4 DEF d

\* Two started workers never want the same port.
LEMMA NoConflictAmongWorkers ==
    ASSUME PortsApart, NEW v \in Started, NEW w \in Started, Conflict(Addr(v), Addr(w))
    PROVE  v = w
<1>1. Addr(v) = Addrs[v] /\ Addr(w) = Addrs[w]
  BY DEF Addr, API, Started, Ids
<1>2. QED
  BY <1>1 DEF PortsApart, Conflict

-----------------------------------------------------------------------------
(* Every step preserves the invariant *)

LEMMA InitIInv == Init => IInv
<1> SUFFICES ASSUME Init PROVE IInv
  OBVIOUS
<1>1. Typed
  BY DEF Init, Typed, Places, Fates
<1>2. Quiet /\ Validated /\ Placed
  BY DEF Init, Quiet, Validated, Placed, Unstarted, Ids
<1>3. ValidatedRuns
  BY DEF Init, ValidatedRuns
<1>4. QED
  BY <1>1, <1>2, <1>3 DEF IInv, Init

LEMMA BootStep == IInv /\ (Boots \/ BootFails) => IInv'
<1>1. ASSUME IInv, Boots PROVE IInv'
  <2> DEFINE c == ApplyDefaults(cfg)
  <2>1. /\ \A w \in Ids : fate'[w] = "none"
        /\ listens' = {} /\ api' = "off" /\ mainPc' = "sleep" /\ cfg' = c
    BY <1>1 DEF IInv, Quiet, Unstarted, Boots
  <2>2. wpc' = [w \in Ids |-> IF w <= Len(ListenAddrs(c)) THEN "new" ELSE "none"]
    BY <1>1 DEF Boots
  <2>3. Started' = {w \in Ids : w <= Len(ListenAddrs(c))}
    BY <2>1 DEF Started, Addrs
  <2>4. HasDialer(c) /\ PortsApart'
    <3>1. cfg \in Configuration /\ ValidateAll(c) = {}
      BY <1>1 DEF IInv, Boots
    <3> HIDE DEF c
    <3>2. QED
      BY <2>1, <2>3, <3>1, ValidatedConfigs DEF PortsApart, Addrs, c
  <2>5. Typed'
    <3>1. UNCHANGED fate
      BY <1>1 DEF Boots
    <3> HIDE DEF c
    <3>2. QED
      BY <1>1, <2>1, <2>2, <3>1 DEF IInv, Typed, Places
  <2>6. Placed'
    <3> HIDE DEF c
    <3>1. QED
      BY <2>1, <2>2, <2>3 DEF Placed
  <2>7. Quiet' /\ Validated' /\ ValidatedRuns' /\ mainPc' # "boot"
    BY <2>1, <2>4 DEF Quiet, Validated, ValidatedRuns, Unstarted
  <2>8. QED
    BY <2>5, <2>6, <2>7 DEF IInv
<1>2. ASSUME IInv, BootFails PROVE IInv'
  BY <1>2 DEF IInv, BootFails, Typed, Quiet, Validated, PortsApart, Placed, ValidatedRuns, Unstarted,
     Started, Addrs, Addr
<1>3. QED
  BY <1>1, <1>2

\* What the rest leaves alone: the configuration, and that main has got past it.
LEMMA ConfiguredStays ==
    ASSUME UNCHANGED <<cfg, clash>>,
           mainPc \notin Unstarted, mainPc' \notin Unstarted, IInv
    PROVE  /\ Started' = Started /\ Addrs' = Addrs
           /\ \A x \in Ids \cup {API} : Addr(x)' = Addr(x)
           /\ Quiet' /\ Validated' /\ PortsApart /\ HasDialer(cfg)
           /\ mainPc' # "boot"
BY DEF IInv, Started, Addrs, Addr, Quiet, Validated, PortsApart, Unstarted

LEMMA MainStep == IInv /\ (Copies \/ Exits \/ Signal) => IInv'
<1> SUFFICES ASSUME IInv, Copies \/ Exits \/ Signal PROVE IInv'
  OBVIOUS
<1>1. /\ UNCHANGED <<cfg, clash, wpc, fate, listens>>
      /\ mainPc \notin Unstarted /\ mainPc' \notin Unstarted
  BY DEF Copies, Exits, Signal, Unstarted
<1>2. api' # api => cfg.apiEnable /\ api' # "off"
  BY DEF Copies, Exits, Signal
<1>3. Typed' /\ Placed' /\ ValidatedRuns'
  BY <1>1, <1>2, ConfiguredStays DEF IInv, Typed, Placed, ValidatedRuns
<1>4. QED
  BY <1>1, <1>3, ConfiguredStays DEF IInv

LEMMA APIStep == IInv /\ (APIListens \/ APIFails \/ APIShutdown) => IInv'
<1> SUFFICES ASSUME IInv, APIListens \/ APIFails \/ APIShutdown PROVE IInv'
  OBVIOUS
<1>1. UNCHANGED <<cfg, clash, mainPc, wpc, fate>> /\ api # "off" /\ api' # "off"
  BY DEF APIListens, APIFails, APIShutdown
<1>2. mainPc \notin Unstarted
  BY <1>1 DEF IInv, Quiet
<1>3. listens' \subseteq listens \cup {API}
  BY DEF APIListens, APIFails, APIShutdown
<1>4. Typed' /\ Placed' /\ ValidatedRuns'
  BY <1>1, <1>2, <1>3, ConfiguredStays DEF IInv, Typed, Placed, ValidatedRuns, Ids, API
<1>5. QED
  BY <1>1, <1>2, <1>4, ConfiguredStays DEF IInv

LEMMA WorkerStep ==
    ASSUME IInv, NEW w \in Ids, Steps(w) \/ StartSucceeds(w) \/ StartFails(w) \/ CloseReturns(w)
    PROVE  IInv'
<1> USE DEF At, Goes, Ends, processUnchanged, Running
<1>1. /\ UNCHANGED <<cfg, clash, mainPc, api>> /\ wpc[w] # "none"
      /\ \A v \in Ids \ {w} : wpc'[v] = wpc[v] /\ fate'[v] = fate[v]
      /\ wpc' \in [Ids -> Places] /\ fate' \in [Ids -> Fates]
  <2>1. /\ UNCHANGED <<cfg, clash, mainPc, api>> /\ wpc[w] # "none"
        /\ \E to \in Places : wpc' = [wpc EXCEPT ![w] = to]
    BY DEF Places, Steps, StartSucceeds, StartFails, Begins, PauseEnds, PauseCancelled,
           CheckFails, CheckPasses, Serves, ServeFails, ServeEnds, CloseReturns, Returns
  <2>2. UNCHANGED fate \/ \E how \in Fates : fate' = [fate EXCEPT ![w] = how]
    BY DEF Fates, Steps, StartSucceeds, StartFails, Begins, PauseEnds, PauseCancelled,
           CheckFails, CheckPasses, Serves, ServeFails, ServeEnds, CloseReturns, Returns
  <2>3. QED
    BY <2>1, <2>2 DEF IInv, Typed
<1>2. mainPc \notin Unstarted
  BY <1>1 DEF IInv, Quiet
<1>3. w \in Started
  BY <1>1 DEF IInv, Placed
<1>4. listens' \subseteq listens \cup {w} /\ (w \in listens' => wpc'[w] = "serve")
  BY DEF IInv, Typed, Placed, Steps, StartSucceeds, StartFails, Begins, PauseEnds, PauseCancelled,
         CheckFails, CheckPasses, Serves, ServeFails, ServeEnds, CloseReturns, Returns
<1>5. fate'[w] # "dialer"
  <2>1. HasDialer(cfg) /\ fate[w] # "dialer"
    BY <1>1, <1>2, ConfiguredStays DEF IInv, ValidatedRuns
  <2>2. QED
    BY <2>1 DEF IInv, Typed, Steps, StartSucceeds, StartFails, Begins, PauseEnds, PauseCancelled,
           CheckFails, CheckPasses, Serves, ServeFails, ServeEnds, CloseReturns, Returns
<1>6. ASSUME fate'[w] = "nolisten", Range16(Addr(w))
      PROVE  cfg.apiEnable /\ Conflict(Addr(w), Addr(API))
  <2>1. CASE fate[w] = "nolisten"
    BY <1>6, <2>1 DEF IInv, ValidatedRuns
  <2>2. CASE ServeFails(w)
    <3>1. PICK y \in listens : Conflict(Addr(w), Addr(y))
      BY <1>6, <2>2 DEF ServeFails, CanListen
    <3>2. ASSUME y \in Ids PROVE FALSE
      <4>1. y \in Started /\ wpc[y] = "serve"
        BY <3>2 DEF IInv, Placed
      <4>2. y = w
        BY <1>1, <1>2, <1>3, <3>1, <4>1, ConfiguredStays, NoConflictAmongWorkers
      <4>3. QED
        BY <2>2, <4>1, <4>2 DEF ServeFails
    <3>3. y = API
      BY <3>2 DEF IInv, Typed
    <3>4. QED
      BY <3>1, <3>3 DEF IInv, Placed
  <2>3. QED
    BY <1>6, <2>1, <2>2 DEF IInv, Typed, Steps, StartSucceeds, StartFails, Begins, PauseEnds,
       PauseCancelled, CheckFails, CheckPasses, Serves, ServeEnds, CloseReturns, Returns
<1>7. Typed'
  BY <1>1, <1>4 DEF IInv, Typed
<1>8. Placed'
  BY <1>1, <1>2, <1>3, <1>4, ConfiguredStays DEF IInv, Placed, Ids, API
<1>9. ValidatedRuns'
  BY <1>1, <1>2, <1>5, <1>6, ConfiguredStays DEF IInv, ValidatedRuns
<1>10. QED
  BY <1>1, <1>2, <1>7, <1>8, <1>9, ConfiguredStays DEF IInv

LEMMA IInvStep == IInv /\ [Next]_vars => IInv'
<1>1. IInv /\ Next => IInv'
  BY BootStep, MainStep, APIStep, WorkerStep DEF Next
<1>2. IInv /\ UNCHANGED vars => IInv'
  BY DEF vars, IInv, Typed, Quiet, Validated, PortsApart, Placed, ValidatedRuns, Started, Addrs,
     Addr
<1>3. QED
  BY <1>1, <1>2

-----------------------------------------------------------------------------
(* The theorems *)

\* The invariant holds in every reachable state.
THEOREM Invariance == Spec => []IInv
<1>1. Init => IInv
  BY InitIInv
<1>2. QED
  BY <1>1, IInvStep, PTL DEF Spec

\* Whatever configuration passes validation: no worker lacks a dialer, and one
\* that cannot listen has a port beyond the last or the API in its way.
THEOREM ValidationSuffices == Spec => []ValidatedRuns
<1>1. IInv => ValidatedRuns
  BY DEF IInv
<1>2. QED
  BY <1>1, Invariance, PTL
=============================================================================
