-------------------------- MODULE SSHManagerProofs --------------------------
(***************************************************************************)
(* Theorems about SSHManager for every value of its constants.             *)
(***************************************************************************)
EXTENDS SSHManager, FiniteSetTheorems, TLAPS

USE TasksAssumption, BackoffAssumption, BoundsAssumption

(* The pause never leaves its bounds.                                      *)
LEMMA NextBackoffBounded ==
  ASSUME NEW b \in MinBackoff .. MaxBackoff
  PROVE  NextBackoff(b, MaxBackoff) \in MinBackoff .. MaxBackoff
BY DEF NextBackoff

(* A counted fault keeps the count within its bound.                       *)
LEMMA FaultCounted ==
  ASSUME faults \in 0 .. MaxFaults, NEW n \in Nat, Fault(n)
  PROVE  faults' \in 0 .. MaxFaults
BY DEF Fault

(* Spawning goroutines in idle slots yields a legal md.                    *)
LEMMA SpawnedType ==
  ASSUME md \in [Downers -> {"none", "cas", "clear", "close"}],
         NEW ts, md' = Spawned(ts)
  PROVE  md' \in [Downers -> {"none", "cas", "clear", "close"}]
BY DEF Spawned

(* A call of Observe starts no goroutine or one, in an idle slot.          *)
LEMMA CallbacksCount ==
  ASSUME NEW cb \in Callbacks
  PROVE  cb \subseteq Idle /\ Cardinality(cb) \in {0, 1}
BY FS_EmptySet, FS_Singleton DEF Callbacks

-----------------------------------------------------------------------------
(* The inductive invariant.                                                *)

(* The start loop makes StartAttempts attempts at most.                    *)
TriesBounded == pc["boot"] \in {"cas"} \cup ConnectSteps => tries < StartAttempts

(* Where the two processes may be at the same time: the supervisor starts  *)
(* when the start loop's connect returns, and is gone when Close goes on   *)
(* to markDown; each runs markDown at one point of its code only.          *)
Phases ==
  /\ pc["boot"] \in {"cas", "backoff", "aborted"} \cup ConnectSteps => pc["sup"] = "off"
  /\ pc["boot"] \in {"closing", "done"} => pc["sup"] = "exit"
  /\ md["boot"] # "none" => pc["boot"] = "closing"
  /\ md["sup"] # "none" => pc["sup"] = "backoff"

(* Where the state is known to be Down: before the first connect, from the *)
(* supervisor's markDown to its next connect, and after Close's markDown.  *)
KnownDown ==
  \/ pc["sup"] = "off" /\ pc["boot"] \notin ConnectSteps
  \/ pc["sup"] = "backoff" /\ md["sup"] # "cas"
  \/ pc["sup"] = "cas"
  \/ pc["boot"] = "closing" /\ md["boot"] # "cas"
  \/ pc["boot"] = "done"

StateInv ==
  /\ state = "connecting" <=> \E p \in Procs : pc[p] \in ConnectSteps
  /\ KnownDown => state = "down"

Control == TriesBounded /\ Phases /\ StateInv

(* Who holds a connection; and, unless a connect has overtaken a markDown, *)
(* no markDown stands before clearConn while the tunnel comes up or is Up. *)
HoldInv ==
  /\ \A d \in Downers : held[d] # NoConn => md[d] = "close"
  /\ \A p \in Procs : raw[p] # NoConn => pc[p] \in {"handshake", "install"}
  /\ \A p \in Procs : pc[p] = "install" => raw[p] # NoConn

ClearInv ==
  ~overtaken =>
    /\ state # "down" => \A d \in Downers : md[d] # "clear"
    /\ (state = "up" \/ \E p \in Procs : pc[p] = "publish") => client # NoConn

Conns == HoldInv /\ ClearInv /\ ClientOwned /\ NoOrphan

IInv == TypeOK /\ Control /\ Conns

-----------------------------------------------------------------------------
(* Type correctness.                                                       *)

(* Every transition keeps the variables in their types.                    *)
LEMMA TypeOKStep == TypeOK /\ TriesBounded /\ [Next]_vars => TypeOK'
<1> SUFFICES ASSUME TypeOK, TriesBounded, [Next]_vars PROVE TypeOK'
  OBVIOUS
<1> USE DEF TypeOK, Conn, Conn0, NoConn, Procs, Downers, ConnectSteps, BootSteps,
            SupSteps, tunnel, super, downs, callers
<1>1. ASSUME NEW c \in Conn, PeerBreaks(c) PROVE TypeOK'
  BY <1>1, FaultCounted DEF PeerBreaks
<1>2. CASE Cancel
  BY <1>2 DEF Cancel
<1>3. ASSUME NEW p \in Procs, ConnectCAS(p) PROVE TypeOK'
  <2>1. overtaken' \in BOOLEAN
    BY <1>3 DEF ConnectCAS
  <2>2. CASE state = "down"
    BY <1>3, <2>1, <2>2 DEF ConnectCAS
  <2>3. CASE state # "down"
    <3>1. ConnectReturnsNil(p) /\ UNCHANGED <<state, overtaken>>
      BY <1>3, <2>3 DEF ConnectCAS
    <3>2. UNCHANGED <<client, open, broken, made, raw, downs, callers, cancelled, faults>>
      BY <1>3 DEF ConnectCAS
    <3>3. QED
      BY <3>1, <3>2 DEF ConnectReturnsNil
  <2>4. QED
    BY <2>2, <2>3
<1>4. ASSUME NEW p \in Procs, DialBegins(p) \/ TransportDials(p) PROVE TypeOK'
  <2>1. CASE DialBegins(p)
    BY <2>1 DEF DialBegins
  <2>2. CASE TransportDials(p)
    BY <2>2 DEF TransportDials
  <2>3. QED
    BY <1>4, <2>1, <2>2
<1>5. ASSUME NEW p \in Procs, TransportFails(p) PROVE TypeOK'
  <2>1. faults' \in 0 .. MaxFaults
    BY <1>5, FaultCounted DEF TransportFails
  <2>2. QED
    BY <1>5, <2>1, NextBackoffBounded DEF TransportFails, ConnectReturnsErr, TriesBounded
<1>6. ASSUME NEW p \in Procs, SetConn(p) PROVE TypeOK'
  BY <1>6 DEF SetConn
<1>7. ASSUME NEW p \in Procs, PublishUp(p) PROVE TypeOK'
  BY <1>7 DEF PublishUp, ConnectReturnsNil
<1>8. ASSUME NEW p \in Procs, HandshakeOK(p) PROVE TypeOK'
  BY <1>8 DEF HandshakeOK
<1>9. ASSUME NEW p \in Procs, HandshakeFails(p) PROVE TypeOK'
  <2>1. faults' \in 0 .. MaxFaults
    BY <1>9, FaultCounted DEF HandshakeFails
  <2>2. open' \subseteq Conn /\ raw' \in [Procs -> Conn0]
    BY <1>9 DEF HandshakeFails
  <2>3. pc[p] = "handshake" /\ ConnectReturnsErr(p)
    BY <1>9 DEF HandshakeFails
  <2>4. UNCHANGED <<client, broken, made, downs, callers, cancelled, overtaken>>
    BY <1>9 DEF HandshakeFails
  <2>5. QED
    BY <2>1, <2>2, <2>3, <2>4, NextBackoffBounded DEF ConnectReturnsErr, TriesBounded
<1>10. ASSUME NEW d \in Downers, MarkDown(d) PROVE TypeOK'
  <2>1. CASE MarkDownLoses(d)
    BY <2>1 DEF MarkDownLoses
  <2>2. CASE MarkDownWins(d)
    BY <2>2 DEF MarkDownWins
  <2>3. CASE ClearConn(d)
    BY <2>3 DEF ClearConn
  <2>4. CASE CloseHeld(d)
    <3>1. open' \subseteq Conn
      BY <2>4 DEF CloseHeld
    <3>2. held' \in [Downers -> Conn0] /\ md' \in [Downers -> {"none", "cas", "clear", "close"}]
      BY <2>4 DEF CloseHeld
    <3>3. QED
      BY <2>4, <3>1, <3>2 DEF CloseHeld
  <2>5. QED
    BY <1>10, <2>1, <2>2, <2>3, <2>4 DEF MarkDown
<1>11. CASE Boot
  <2>1. CASE BootRetries
    BY <2>1 DEF BootRetries
  <2>2. CASE BootAborts
    BY <2>2 DEF BootAborts
  <2>3. CASE BootChecks
    BY <2>3 DEF BootChecks
  <2>4. CASE ServeReturns
    BY <2>4 DEF ServeReturns
  <2>5. CASE CloseWaited
    BY <2>5 DEF CloseWaited
  <2>6. CASE CloseReturns
    BY <2>6 DEF CloseReturns
  <2>7. QED
    BY <1>11, <2>1, <2>2, <2>3, <2>4, <2>5, <2>6 DEF Boot
<1>12. CASE Supervise
  <2>1. CASE SupLoop
    BY <2>1 DEF SupLoop, SupTo
  <2>2. CASE KeepaliveStarts
    <3>1. CASE client = NoConn
      <4>1. md' \in [Downers -> {"none", "cas", "clear", "close"}]
        BY <2>2, <3>1 DEF KeepaliveStarts
      <4>2. SupTo("backoff") /\ kaConn' \in Conn0
        BY <2>2, <3>1 DEF KeepaliveStarts
      <4>3. QED
        BY <2>2, <4>1, <4>2 DEF KeepaliveStarts, SupTo
    <3>2. CASE client # NoConn
      BY <2>2, <3>2 DEF KeepaliveStarts, SupTo
    <3>3. QED
      BY <3>1, <3>2
  <2>3. CASE KeepaliveOK
    BY <2>3 DEF KeepaliveOK, SupTo
  <2>4. CASE KeepaliveFails
    <3>1. faults' \in 0 .. MaxFaults
      BY <2>4, FaultCounted DEF KeepaliveFails
    <3>2. QED
      BY <2>4, <3>1 DEF KeepaliveFails, SupTo
  <2>5. CASE KeepaliveCancelled
    BY <2>5 DEF KeepaliveCancelled, SupTo
  <2>6. CASE SleepElapsed
    BY <2>6 DEF SleepElapsed, SupTo
  <2>7. CASE BackoffElapsed
    BY <2>7 DEF BackoffElapsed, SupTo
  <2>8. CASE PauseCancelled
    BY <2>8 DEF PauseCancelled, SupTo
  <2>9. QED
    BY <1>12, <2>1, <2>2, <2>3, <2>4, <2>5, <2>6, <2>7, <2>8 DEF Supervise
<1>13. CASE ProbeObserves
  BY <1>13, FaultCounted, SpawnedType DEF ProbeObserves
<1>14. CASE ProbeExits
  BY <1>14 DEF ProbeExits
<1>15. ASSUME NEW d \in Dialers, Dial(d) PROVE TypeOK'
  <2>1. CASE GetClient(d)
    BY <2>1 DEF GetClient
  <2>2. CASE DialAccepted(d)
    BY <2>2 DEF DialAccepted
  <2>3. CASE DialRejected(d) \/ DialOK(d)
    <3>1. PICK cb \in Callbacks : md' = Spawned(cb) /\ Fault(Cardinality(cb))
      BY <2>3 DEF DialRejected, DialOK
    <3>2. faults' \in 0 .. MaxFaults
      BY <3>1, CallbacksCount, FaultCounted
    <3>3. md' \in [Downers -> {"none", "cas", "clear", "close"}]
      BY <3>1, SpawnedType
    <3>4. QED
      BY <2>3, <3>2, <3>3 DEF DialRejected, DialOK, DialReturned
  <2>4. CASE DialFails(d)
    <3>1. PICK cb \in Callbacks, t \in Idle :
            /\ md' = Spawned(cb \cup {t})
            /\ Fault(Cardinality(cb) + IF Works(dconn[d]) THEN 1 ELSE 0)
      BY <2>4 DEF DialFails
    <3>2. faults' \in 0 .. MaxFaults
      BY <3>1, CallbacksCount, FaultCounted
    <3>3. md' \in [Downers -> {"none", "cas", "clear", "close"}]
      BY <3>1, SpawnedType
    <3>4. DialReturned(d)
      BY <2>4 DEF DialFails
    <3>5. UNCHANGED <<tunnel, pc, raw, tries, super, probe, held, cancelled, overtaken>>
      BY <2>4 DEF DialFails
    <3>6. QED
      BY <3>2, <3>3, <3>4, <3>5 DEF DialReturned
  <2>5. QED
    BY <1>15, <2>1, <2>2, <2>3, <2>4 DEF Dial
<1>16. CASE UNCHANGED vars
  BY <1>16 DEF vars
<1>17. QED
  BY <1>1, <1>2, <1>3, <1>4, <1>5, <1>6, <1>7, <1>8, <1>9, <1>10, <1>11, <1>12,
     <1>13, <1>14, <1>15, <1>16 DEF Next, Connects, Handshake
-----------------------------------------------------------------------------
(* The invariant.                                                          *)

(* A step that only starts goroutines in free slots.                       *)
Spawns(ts) ==
  /\ ts \subseteq Idle /\ md' = Spawned(ts)
  /\ UNCHANGED <<tunnel, pc, raw, tries, held, overtaken>>

LEMMA ProbeSpawns == ASSUME ProbeObserves PROVE \E ts : Spawns(ts)
BY DEF ProbeObserves, Spawns, Idle

(* Dial changes nothing but its own variables and the spawned goroutines.  *)
LEMMA DialSpawns ==
  ASSUME TypeOK, NEW d \in Dialers, Dial(d)
  PROVE  \E ts : Spawns(ts)
<1>1. CASE GetClient(d) \/ DialAccepted(d)
  <2>1. md = Spawned({})
    BY DEF Spawned, TypeOK
  <2>2. Spawns({})
    BY <1>1, <2>1 DEF GetClient, DialAccepted, Spawns, downs
  <2>3. QED
    BY <2>2
<1>2. CASE DialRejected(d) \/ DialOK(d)
  <2>1. PICK cb \in Callbacks : md' = Spawned(cb)
    BY <1>2 DEF DialRejected, DialOK
  <2>2. Spawns(cb)
    BY <1>2, <2>1, CallbacksCount DEF DialRejected, DialOK, Spawns
  <2>3. QED
    BY <2>2
<1>3. CASE DialFails(d)
  <2>1. PICK cb \in Callbacks, t \in Idle : md' = Spawned(cb \cup {t})
    BY <1>3 DEF DialFails
  <2>2. Spawns(cb \cup {t})
    BY <1>3, <2>1, CallbacksCount DEF DialFails, Spawns
  <2>3. QED
    BY <2>2
<1>4. QED
  BY <1>1, <1>2, <1>3 DEF Dial

(* Control: who may be where, and what that says of the state.             *)
LEMMA ControlStep ==
  TypeOK /\ Control /\ [Next]_vars => Control'
<1> SUFFICES ASSUME TypeOK /\ Control, [Next]_vars PROVE Control'
  OBVIOUS
<1> USE DEF TypeOK, Conn, Conn0, NoConn, Procs, Downers, ConnectSteps, BootSteps,
            SupSteps, tunnel, super, downs, callers, Idle, Spawns, Spawned,
            Control, TriesBounded, Phases, StateInv, KnownDown
<1>1. ASSUME NEW c \in Conn, PeerBreaks(c) PROVE Control'
  BY <1>1 DEF PeerBreaks
<1>2. CASE Cancel
  BY <1>2 DEF Cancel
<1>3. ASSUME NEW p \in Procs, ConnectCAS(p) PROVE Control'
  BY <1>3 DEF ConnectCAS
<1>4. ASSUME NEW p \in Procs, DialBegins(p) \/ TransportDials(p) PROVE Control'
  BY <1>4 DEF DialBegins, TransportDials
<1>5. ASSUME NEW p \in Procs, TransportFails(p) PROVE Control'
  BY <1>5 DEF TransportFails, ConnectReturnsErr
<1>6. ASSUME NEW p \in Procs, SetConn(p) PROVE Control'
  BY <1>6 DEF SetConn
<1>7. ASSUME NEW p \in Procs, PublishUp(p) PROVE Control'
  BY <1>7 DEF PublishUp, ConnectReturnsNil
<1>8. ASSUME NEW p \in Procs, HandshakeOK(p) PROVE Control'
  BY <1>8 DEF HandshakeOK
<1>9. ASSUME NEW p \in Procs, HandshakeFails(p) PROVE Control'
  BY <1>9 DEF HandshakeFails, ConnectReturnsErr
<1>10. ASSUME NEW d \in Downers, MarkDownLoses(d) PROVE Control'
  BY <1>10 DEF MarkDownLoses
<1>11. ASSUME NEW d \in Downers, MarkDownWins(d) PROVE Control'
  BY <1>11 DEF MarkDownWins
<1>12. ASSUME NEW d \in Downers, ClearConn(d) PROVE Control'
  BY <1>12 DEF ClearConn
<1>13. ASSUME NEW d \in Downers, CloseHeld(d) PROVE Control'
  BY <1>13 DEF CloseHeld
<1>14. CASE BootRetries
  BY <1>14 DEF BootRetries
<1>15. CASE BootAborts
  BY <1>15 DEF BootAborts
<1>16. CASE BootChecks
  BY <1>16 DEF BootChecks
<1>17. CASE ServeReturns
  BY <1>17 DEF ServeReturns
<1>18. CASE CloseWaited
  BY <1>18 DEF CloseWaited
<1>19. CASE CloseReturns
  BY <1>19 DEF CloseReturns
<1>20. CASE SupLoop
  BY <1>20 DEF SupLoop, SupTo
<1>21. CASE KeepaliveStarts
  BY <1>21 DEF KeepaliveStarts, SupTo
<1>22. CASE KeepaliveOK
  BY <1>22 DEF KeepaliveOK, SupTo
<1>23. CASE KeepaliveFails
  BY <1>23 DEF KeepaliveFails, SupTo
<1>24. CASE KeepaliveCancelled
  BY <1>24 DEF KeepaliveCancelled, SupTo
<1>25. CASE SleepElapsed
  BY <1>25 DEF SleepElapsed, SupTo
<1>26. CASE BackoffElapsed
  BY <1>26 DEF BackoffElapsed, SupTo
<1>27. CASE PauseCancelled
  BY <1>27 DEF PauseCancelled, SupTo
<1>28. CASE ProbeObserves
  BY <1>28, ProbeSpawns
<1>29. CASE ProbeExits
  BY <1>29 DEF ProbeExits
<1>30. ASSUME NEW d \in Dialers, Dial(d) PROVE Control'
  BY <1>30, DialSpawns
<1>31. CASE UNCHANGED vars
  BY <1>31 DEF vars
<1>32. QED
  BY <1>1, <1>2, <1>3, <1>4, <1>5, <1>6, <1>7, <1>8, <1>9, <1>10, <1>11, <1>12,
     <1>13, <1>14, <1>15, <1>16, <1>17, <1>18, <1>19, <1>20, <1>21, <1>22,
     <1>23, <1>24, <1>25, <1>26, <1>27, <1>28, <1>29, <1>30, <1>31
     DEF Next, Connects, Handshake, MarkDown, Boot, Supervise

(* Connections: who holds them, and which markDowns stand before clearConn. *)
LEMMA ConnsStep ==
  TypeOK /\ Control /\ Conns /\ [Next]_vars => Conns'
<1> SUFFICES ASSUME TypeOK /\ Control /\ Conns, [Next]_vars PROVE Conns'
  OBVIOUS
<1> USE DEF TypeOK, Conn, Conn0, NoConn, Procs, Downers, ConnectSteps, BootSteps,
            SupSteps, tunnel, super, downs, callers, Idle, Spawns, Spawned,
            Control, TriesBounded, Phases, StateInv, KnownDown,
            Conns, HoldInv, ClearInv, ClientOwned, NoOrphan
<1>1. ASSUME NEW c \in Conn, PeerBreaks(c) PROVE Conns'
  BY <1>1 DEF PeerBreaks
<1>2. CASE Cancel
  BY <1>2 DEF Cancel
<1>3. ASSUME NEW p \in Procs, ConnectCAS(p) PROVE Conns'
  <2>1. state = "down"
    BY <1>3 DEF ConnectCAS
  <2>2. /\ pc' = [pc EXCEPT ![p] = "dial"]
        /\ overtaken' = (overtaken \/ \E d \in Downers : md[d] = "clear")
        /\ UNCHANGED <<client, open, broken, made, raw, downs>>
    BY <1>3, <2>1 DEF ConnectCAS
  <2>3. HoldInv' /\ NoOrphan'
    BY <1>3, <2>2 DEF ConnectCAS
  <2>4. ClearInv' /\ ClientOwned'
    BY <1>3, <2>1, <2>2 DEF ConnectCAS
  <2>5. QED
    BY <2>3, <2>4
<1>4. ASSUME NEW p \in Procs, DialBegins(p) \/ TransportDials(p) PROVE Conns'
  <2>1. CASE DialBegins(p)
    BY <2>1 DEF DialBegins
  <2>2. CASE TransportDials(p)
    BY <2>2 DEF TransportDials
  <2>3. QED
    BY <1>4, <2>1, <2>2
<1>5. ASSUME NEW p \in Procs, TransportFails(p) PROVE Conns'
  BY <1>5 DEF TransportFails, ConnectReturnsErr
<1>6. ASSUME NEW p \in Procs, SetConn(p) PROVE Conns'
  BY <1>6 DEF SetConn
<1>7. ASSUME NEW p \in Procs, PublishUp(p) PROVE Conns'
  BY <1>7 DEF PublishUp, ConnectReturnsNil
<1>8. ASSUME NEW p \in Procs, HandshakeOK(p) PROVE Conns'
  BY <1>8 DEF HandshakeOK, Works
<1>9. ASSUME NEW p \in Procs, HandshakeFails(p) PROVE Conns'
  BY <1>9 DEF HandshakeFails, ConnectReturnsErr
<1>10. ASSUME NEW d \in Downers, MarkDownLoses(d) PROVE Conns'
  BY <1>10 DEF MarkDownLoses
<1>11. ASSUME NEW d \in Downers, MarkDownWins(d) PROVE Conns'
  BY <1>11 DEF MarkDownWins
<1>12. ASSUME NEW d \in Downers, ClearConn(d) PROVE Conns'
  BY <1>12 DEF ClearConn
<1>13. ASSUME NEW d \in Downers, CloseHeld(d) PROVE Conns'
  BY <1>13 DEF CloseHeld
<1>14. CASE BootRetries
  BY <1>14 DEF BootRetries
<1>15. CASE BootAborts
  BY <1>15 DEF BootAborts
<1>16. CASE BootChecks
  BY <1>16 DEF BootChecks
<1>17. CASE ServeReturns
  BY <1>17 DEF ServeReturns
<1>18. CASE CloseWaited
  BY <1>18 DEF CloseWaited
<1>19. CASE CloseReturns
  BY <1>19 DEF CloseReturns
<1>20. CASE SupLoop
  BY <1>20 DEF SupLoop, SupTo
<1>21. CASE KeepaliveStarts
  BY <1>21 DEF KeepaliveStarts, SupTo
<1>22. CASE KeepaliveOK
  BY <1>22 DEF KeepaliveOK, SupTo
<1>23. CASE KeepaliveFails
  BY <1>23 DEF KeepaliveFails, SupTo
<1>24. CASE KeepaliveCancelled
  BY <1>24 DEF KeepaliveCancelled, SupTo
<1>25. CASE SleepElapsed
  BY <1>25 DEF SleepElapsed, SupTo
<1>26. CASE BackoffElapsed
  BY <1>26 DEF BackoffElapsed, SupTo
<1>27. CASE PauseCancelled
  BY <1>27 DEF PauseCancelled, SupTo
<1>28. CASE ProbeObserves
  <2>1. PICK ts : Spawns(ts)
    BY <1>28, ProbeSpawns
  <2>2. QED
    BY <2>1
<1>29. CASE ProbeExits
  BY <1>29 DEF ProbeExits
<1>30. ASSUME NEW d \in Dialers, Dial(d) PROVE Conns'
  <2>1. PICK ts : Spawns(ts)
    BY <1>30, DialSpawns
  <2>2. QED
    BY <2>1
<1>31. CASE UNCHANGED vars
  BY <1>31 DEF vars
<1>32. QED
  BY <1>1, <1>2, <1>3, <1>4, <1>5, <1>6, <1>7, <1>8, <1>9, <1>10, <1>11, <1>12,
     <1>13, <1>14, <1>15, <1>16, <1>17, <1>18, <1>19, <1>20, <1>21, <1>22,
     <1>23, <1>24, <1>25, <1>26, <1>27, <1>28, <1>29, <1>30, <1>31
     DEF Next, Connects, Handshake, MarkDown, Boot, Supervise

LEMMA InitIInv == Init => IInv
<1> SUFFICES ASSUME Init PROVE IInv
  OBVIOUS
<1> USE DEF Init, Conn0, NoConn, Procs, Downers, ConnectSteps, BootSteps, SupSteps
<1>1. TypeOK
  <2>1. /\ pc \in [Procs -> BootSteps \cup SupSteps]
        /\ pc["boot"] = "cas" /\ pc["sup"] = "off"
    OBVIOUS
  <2>2. /\ raw \in [Procs -> Conn0] /\ held \in [Downers -> Conn0]
        /\ md \in [Downers -> {"none", "cas", "clear", "close"}]
        /\ dpc \in [Dialers -> {"idle", "check", "dialing"}]
        /\ dconn \in [Dialers -> Conn0]
    OBVIOUS
  <2>3. /\ open \subseteq Conn /\ broken \subseteq Conn /\ client \in Conn0
        /\ kaConn \in Conn0
    OBVIOUS
  <2>4. /\ made \in 0 .. MaxConns /\ tries \in 0 .. StartAttempts /\ fails \in Nat
        /\ backoff \in MinBackoff .. MaxBackoff
        /\ faults \in 0 .. MaxFaults /\ dials \in 0 .. MaxDials
    OBVIOUS
  <2>5. QED
    BY <2>1, <2>2, <2>3, <2>4 DEF TypeOK
<1>2. Control
  BY DEF Control, TriesBounded, Phases, StateInv, KnownDown
<1>3. Conns
  BY DEF Conns, HoldInv, ClearInv, ClientOwned, NoOrphan
<1>4. QED
  BY <1>1, <1>2, <1>3 DEF IInv

LEMMA IInvAlways == Spec => []IInv
<1>1. IInv /\ [Next]_vars => IInv'
  BY TypeOKStep, ControlStep, ConnsStep DEF IInv, Control
<1>2. QED
  BY InitIInv, <1>1, PTL DEF Spec

-----------------------------------------------------------------------------
(* The theorems.                                                           *)

(* Every variable keeps its type: in particular the pause stays between    *)
(* minBackoff and maxBackoff, and the start loop within its attempts.      *)
THEOREM TypeCorrect == Spec => []TypeOK
<1>1. IInv => TypeOK
  BY DEF IInv
<1>2. QED
  BY IInvAlways, <1>1, PTL

(* One connect at a time, and its state is Connecting throughout, for any  *)
(* number of callers and spawned markDowns.                                *)
THEOREM ConnectExclusive == Spec => []StateMatchesConnector
<1>1. IInv => StateMatchesConnector
  <2> SUFFICES ASSUME IInv PROVE StateMatchesConnector
    OBVIOUS
  <2>1. ~(pc["boot"] \in ConnectSteps /\ pc["sup"] \in ConnectSteps)
    BY DEF IInv, Control, Phases, ConnectSteps
  <2>2. QED
    BY <2>1 DEF IInv, Control, StateInv, StateMatchesConnector, Procs
<1>2. QED
  BY IInvAlways, <1>1, PTL

(* connect never returns through its "skipped" branch.                     *)
THEOREM ConnectNeverSkipped == Spec => []ConnectFindsDown
<1>1. IInv => ConnectFindsDown
  BY DEF IInv, Control, Phases, StateInv, KnownDown, ConnectFindsDown, Procs, ConnectSteps
<1>2. QED
  BY IInvAlways, <1>1, PTL

(* An installed connection is in use, about to be, or about to be closed.  *)
THEOREM InstalledIsOwned == Spec => []ClientOwned
<1>1. IInv => ClientOwned
  BY DEF IInv, Conns
<1>2. QED
  BY IInvAlways, <1>1, PTL

(* No transport connection is lost unless a connect overtook a markDown.   *)
THEOREM NoConnectionLost == Spec => []NoOrphan
<1>1. IInv => NoOrphan
  BY DEF IInv, Conns
<1>2. QED
  BY IInvAlways, <1>1, PTL

(* Under the same condition the state Up comes with a connection.          *)
THEOREM UpHasConnection == Spec => []UpMeansConn
<1>1. IInv => UpMeansConn
  BY DEF IInv, Conns, ClearInv, UpMeansConn
<1>2. QED
  BY IInvAlways, <1>1, PTL

(* After Manager.Close the tunnel is Down with no supervisor, and nothing  *)
(* is open that a spawned markDown is not about to close.                  *)
THEOREM CloseLeavesNothing == Spec => []CloseReleases
<1>1. IInv => CloseReleases
  <2> SUFFICES ASSUME IInv, pc["boot"] = "done"
               PROVE  /\ state = "down" /\ pc["sup"] = "exit"
                      /\ ~overtaken => \A c \in open :
                           \E d \in Tasks : held[d] = c \/ (client = c /\ md[d] = "clear")
    BY DEF CloseReleases
  <2>1. state = "down" /\ pc["sup"] = "exit"
    BY DEF IInv, Control, Phases, StateInv, KnownDown
  <2>2. md["boot"] = "none" /\ md["sup"] = "none"
    BY <2>1 DEF IInv, Control, Phases
  <2>3. ASSUME ~overtaken, NEW c \in open
        PROVE  \E d \in Tasks : held[d] = c \/ (client = c /\ md[d] = "clear")
    <3>1. c # NoConn
      BY DEF IInv, TypeOK, Conn, NoConn
    <3>2. \A p \in Procs : raw[p] = NoConn
      BY <2>1 DEF IInv, Conns, HoldInv, Procs
    <3>3. CASE c = client
      <4>1. PICK d \in Downers : md[d] = "clear"
        BY <2>1, <3>1, <3>3 DEF IInv, Conns, ClientOwned, Procs
      <4>2. QED
        BY <2>2, <3>3, <4>1 DEF Downers, Procs
    <3>4. CASE c # client
      <4>1. PICK d \in Downers : held[d] = c
        BY <2>3, <3>1, <3>2, <3>4 DEF IInv, Conns, NoOrphan
      <4>2. md[d] = "close"
        BY <3>1, <4>1 DEF IInv, Conns, HoldInv
      <4>3. QED
        BY <2>2, <4>1, <4>2 DEF Downers, Procs
    <3>5. QED
      BY <3>3, <3>4
  <2>4. QED
    BY <2>1, <2>3
<1>2. QED
  BY IInvAlways, <1>1, PTL

-----------------------------------------------------------------------------
(* The supervisor's pause.                                                 *)

(* Powers of two double: a set of one more element has twice the subsets.  *)
LEMMA Powers ==
  ASSUME NEW n \in Nat
  PROVE  2 ^ n \in Nat /\ 2 ^ (n + 1) = 2 * 2 ^ n
<1> DEFINE S == SUBSET (1 .. n)
           T == {s \cup {n + 1} : s \in S}
<1>1. ASSUME NEW m \in Nat
      PROVE  /\ IsFiniteSet(SUBSET (1 .. m)) /\ Cardinality(SUBSET (1 .. m)) = 2 ^ m
             /\ 2 ^ m \in Nat
  <2>1. IsFiniteSet(1 .. m) /\ Cardinality(1 .. m) = m
    BY FS_Interval
  <2>2. IsFiniteSet(SUBSET (1 .. m)) /\ Cardinality(SUBSET (1 .. m)) = 2 ^ m
    BY <2>1, FS_SUBSET, Zenon
  <2>3. QED
    BY <2>2, FS_CardinalityType, Zenon
<1>2. n + 1 \in Nat /\ 1 .. n + 1 = (1 .. n) \cup {n + 1} /\ n + 1 \notin 1 .. n
  OBVIOUS
<1>3. \A s \in S : n + 1 \notin s
  BY <1>2, Zenon
<1>4. S \cap T = {}
  BY <1>3, Zenon
<1>5. SUBSET (1 .. n + 1) = S \cup T
  <2>1. ASSUME NEW s \in SUBSET (1 .. n + 1) PROVE s \in S \cup T
    <3>1. CASE n + 1 \in s
      <4>1. s \ {n + 1} \in S /\ s = (s \ {n + 1}) \cup {n + 1}
        BY <1>2, <3>1
      <4>2. QED
        BY <4>1
    <3>2. CASE n + 1 \notin s
      BY <1>2, <3>2
    <3>3. QED
      BY <3>1, <3>2
  <2>2. ASSUME NEW s \in T PROVE s \in SUBSET (1 .. n + 1)
    <3>1. PICK t \in S : s = t \cup {n + 1}
      OBVIOUS
    <3>2. QED
      BY <1>2, <3>1
  <2>3. ASSUME NEW s \in S PROVE s \in SUBSET (1 .. n + 1)
    BY <1>2
  <2>4. QED
    BY <2>1, <2>2, <2>3
<1>6. IsFiniteSet(T) /\ Cardinality(T) = Cardinality(S)
  <2> DEFINE f == [s \in S |-> s \cup {n + 1}]
  <2>1. \A s, t \in S : s \cup {n + 1} = t \cup {n + 1} => s = t
    BY <1>3
  <2>2. \A s, t \in S : f[s] = f[t] => s = t
    BY <2>1
  <2>3. f \in [S -> T]
    OBVIOUS
  <2>4. \A t \in T : \E s \in S : f[s] = t
    OBVIOUS
  <2>5. DOMAIN f = S
    OBVIOUS
  <2> HIDE DEF f, S, T
  <2>6. f \in Bijection(S, T)
    BY <2>2, <2>3, <2>4, <2>5 DEF Bijection, Injection, Surjection, IsInjective
  <2>7. QED
    BY <1>1, <2>6, FS_Bijection, Zenon DEF ExistsBijection, S
<1>7. IsFiniteSet(S)
  BY <1>1
<1> HIDE DEF S, T
<1>8. Cardinality(S \cup T) = Cardinality(S) + Cardinality(T) - Cardinality(S \cap T)
  BY <1>6, <1>7, FS_Union
<1>9. Cardinality(S) = 2 ^ n /\ Cardinality(S \cup T) = 2 ^ (n + 1) /\ 2 ^ n \in Nat
  BY <1>1, <1>2, <1>5, Zenon DEF S
<1>10. Cardinality(S \cap T) = 0
  BY <1>4, FS_EmptySet
<1>11. QED
  BY <1>6, <1>8, <1>9, <1>10

(* The minimum doubled n times, and what of it the maximum leaves.         *)
Doubled(n) == MinBackoff * 2 ^ n
Capped(n)  == IF Doubled(n) > MaxBackoff THEN MaxBackoff ELSE Doubled(n)

LEMMA DoubledTwice ==
  ASSUME NEW n \in Nat
  PROVE  NextBackoff(Capped(n), MaxBackoff) = Capped(n + 1)
<1>1. Doubled(n) \in Nat /\ Doubled(n + 1) = 2 * Doubled(n)
  <2> DEFINE pow == 2 ^ n
             more == 2 ^ (n + 1)
  <2>1. pow \in Nat /\ more = 2 * pow
    BY Powers
  <2> HIDE DEF pow, more
  <2>2. MinBackoff * pow \in Nat /\ MinBackoff * more = 2 * (MinBackoff * pow)
    BY <2>1
  <2>3. QED
    BY <2>2 DEF Doubled, pow, more
<1> HIDE DEF Doubled
<1>2. QED
  BY <1>1 DEF NextBackoff, Capped

LEMMA NotDoubled == Capped(0) = MinBackoff
<1>1. 2 ^ 0 = 1
  OBVIOUS
<1>2. Doubled(0) = MinBackoff
  BY <1>1 DEF Doubled
<1>3. QED
  BY <1>2 DEF Capped

(* An attempt in progress is counted already.                              *)
Trying == pc["sup"] \in {"cas"} \cup ConnectSteps

Paused ==
  /\ Trying => fails > 0
  /\ backoff = Capped(IF Trying THEN fails - 1 ELSE fails)

LEMMA PausedStep == IInv /\ Paused /\ [Next]_vars => Paused'
<1> SUFFICES ASSUME IInv, Paused, [Next]_vars PROVE Paused'
  OBVIOUS
<1>0. fails \in Nat /\ pc \in [Procs -> BootSteps \cup SupSteps]
  BY DEF IInv, TypeOK
<1>1. ASSUME UNCHANGED <<backoff, fails>>, Trying' <=> Trying PROVE Paused'
  BY <1>1 DEF Paused, Capped, Doubled
<1>2. ASSUME backoff' = MinBackoff, fails' = 0, ~Trying' PROVE Paused'
  BY <1>2, NotDoubled DEF Paused
<1> HIDE DEF Capped
<1> USE DEF Procs, ConnectSteps, super, Trying, SupTo
<1>3. ASSUME NEW p \in Procs, ConnectCAS(p) PROVE Paused'
  <2>1. CASE state = "down"
    BY <1>0, <1>1, <1>3, <2>1 DEF ConnectCAS
  <2>2. CASE state # "down"
    BY <1>0, <1>2, <1>3, <2>2 DEF ConnectCAS, ConnectReturnsNil
  <2>3. QED
    BY <2>1, <2>2
<1>4. ASSUME NEW p \in Procs, PublishUp(p) PROVE Paused'
  BY <1>0, <1>2, <1>4 DEF PublishUp, ConnectReturnsNil
<1>5. ASSUME NEW p \in Procs,
             DialBegins(p) \/ TransportDials(p) \/ SetConn(p) \/ HandshakeOK(p)
      PROVE  Paused'
  BY <1>0, <1>1, <1>5 DEF DialBegins, TransportDials, SetConn, HandshakeOK
<1>6. ASSUME NEW p \in Procs, TransportFails(p) \/ HandshakeFails(p) PROVE Paused'
  <2>1. ConnectReturnsErr(p) /\ pc[p] \in ConnectSteps
    BY <1>6 DEF TransportFails, HandshakeFails
  <2>2. CASE p = "boot"
    BY <1>0, <1>1, <2>1, <2>2 DEF ConnectReturnsErr
  <2>3. CASE p = "sup"
    <3>1. Trying /\ ~Trying' /\ fails' = fails /\ backoff' = NextBackoff(backoff, MaxBackoff)
      BY <1>0, <2>1, <2>3 DEF ConnectReturnsErr
    <3>2. fails - 1 \in Nat /\ backoff = Capped(fails - 1) /\ (fails - 1) + 1 = fails
      BY <1>0, <3>1 DEF Paused
    <3>3. backoff' = Capped(fails)
      BY <3>1, <3>2, DoubledTwice
    <3>4. QED
      BY <3>1, <3>3 DEF Paused
  <2>4. QED
    BY <2>2, <2>3
<1>7. ASSUME NEW d \in Downers, MarkDown(d) PROVE Paused'
  BY <1>1, <1>7 DEF MarkDown, MarkDownLoses, MarkDownWins, ClearConn, CloseHeld
<1>8. CASE Boot
  BY <1>0, <1>1, <1>8 DEF Boot, BootRetries, BootAborts, BootChecks, ServeReturns,
     CloseWaited, CloseReturns
<1>9. CASE KeepaliveOK
  BY <1>0, <1>2, <1>9 DEF KeepaliveOK
<1>10. CASE BackoffElapsed
  <2>1. ~Trying /\ Trying' /\ fails' = fails + 1 /\ backoff' = backoff
    BY <1>0, <1>10 DEF BackoffElapsed
  <2>2. backoff = Capped(fails) /\ fails' - 1 = fails /\ fails' > 0
    BY <1>0, <2>1 DEF Paused
  <2>3. QED
    BY <2>1, <2>2 DEF Paused
<1>11. CASE SupLoop \/ KeepaliveStarts \/ KeepaliveFails \/ KeepaliveCancelled
            \/ SleepElapsed \/ PauseCancelled
  BY <1>0, <1>1, <1>11 DEF SupLoop, KeepaliveStarts, KeepaliveFails, KeepaliveCancelled,
     SleepElapsed, PauseCancelled
<1>12. CASE ProbeObserves \/ ProbeExits \/ Cancel \/ UNCHANGED vars
  BY <1>1, <1>12 DEF ProbeObserves, ProbeExits, Cancel, vars
<1>13. ASSUME NEW d \in Dialers, Dial(d) PROVE Paused'
  BY <1>1, <1>13 DEF Dial, GetClient, DialAccepted, DialRejected, DialOK, DialFails
<1>14. ASSUME NEW c \in Conn, PeerBreaks(c) PROVE Paused'
  BY <1>1, <1>14 DEF PeerBreaks
<1>15. QED
  BY <1>3, <1>4, <1>5, <1>6, <1>7, <1>8, <1>9, <1>10, <1>11, <1>12, <1>13, <1>14
     DEF Next, Connects, Handshake, Supervise

(* The pause before a reconnect is the minimum doubled once for each       *)
(* failure in a row and cut at the maximum, however many failures there    *)
(* are and whoever connected in between.                                   *)
THEOREM PauseGrows == Spec => []BackoffMatchesFails
<1>1. Init => Paused
  BY NotDoubled DEF Init, Paused, Trying, Procs, ConnectSteps
<1>2. Paused => BackoffMatchesFails
  BY DEF Paused, BackoffMatchesFails, Trying, Capped, Doubled
<1>3. QED
  BY IInvAlways, PausedStep, <1>1, <1>2, PTL DEF Spec

-----------------------------------------------------------------------------
(* SSHManager implements Tunnel.                                           *)

(* The connection under construction is the last one made, and a connect   *)
(* about to raise the state has installed that one, or lost it.            *)
FreshInv ==
  /\ \A p \in Procs : pc[p] \in {"handshake", "install"} => raw[p] = made
  /\ \A p \in Procs : pc[p] = "publish" => client \in {made, NoConn}

LEMMA FreshStep ==
  IInv /\ FreshInv /\ [Next]_vars => FreshInv'
<1> SUFFICES ASSUME IInv, FreshInv, [Next]_vars PROVE FreshInv'
  OBVIOUS
<1>0. ~(pc["boot"] \in ConnectSteps /\ pc["sup"] \in ConnectSteps)
  BY DEF IInv, Control, Phases, ConnectSteps
<1> USE <1>0 DEF IInv, TypeOK, NoConn, Procs, Downers, ConnectSteps, BootSteps, SupSteps,
            tunnel, super, downs, callers, Spawns, FreshInv
<1>1. ASSUME NEW p \in Procs, ConnectCAS(p) PROVE FreshInv'
  BY <1>1 DEF ConnectCAS, ConnectReturnsNil
<1>2. ASSUME NEW p \in Procs, DialBegins(p) \/ TransportDials(p) PROVE FreshInv'
  BY <1>2 DEF DialBegins, TransportDials
<1>3. ASSUME NEW p \in Procs, TransportFails(p) PROVE FreshInv'
  BY <1>3 DEF TransportFails, ConnectReturnsErr
<1>4. ASSUME NEW p \in Procs, SetConn(p) PROVE FreshInv'
  BY <1>4 DEF SetConn
<1>5. ASSUME NEW p \in Procs, PublishUp(p) PROVE FreshInv'
  BY <1>5 DEF PublishUp, ConnectReturnsNil
<1>6. ASSUME NEW p \in Procs, HandshakeOK(p) PROVE FreshInv'
  BY <1>6 DEF HandshakeOK
<1>7. ASSUME NEW p \in Procs, HandshakeFails(p) PROVE FreshInv'
  BY <1>7 DEF HandshakeFails, ConnectReturnsErr
<1>8. ASSUME NEW d \in Downers, MarkDown(d) PROVE FreshInv'
  BY <1>8 DEF MarkDown, MarkDownLoses, MarkDownWins, ClearConn, CloseHeld
<1>9. CASE Boot
  BY <1>9 DEF Boot, BootRetries, BootAborts, BootChecks, ServeReturns, CloseWaited,
     CloseReturns
<1>10. CASE Supervise
  BY <1>10 DEF Supervise, SupLoop, KeepaliveStarts, KeepaliveOK, KeepaliveFails,
     KeepaliveCancelled, SleepElapsed, BackoffElapsed, PauseCancelled, SupTo
<1>11. CASE ProbeObserves
  BY <1>11, ProbeSpawns
<1>12. ASSUME NEW d \in Dialers, Dial(d) PROVE FreshInv'
  BY <1>12, DialSpawns
<1>13. CASE Cancel \/ ProbeExits \/ UNCHANGED vars
  BY <1>13 DEF Cancel, ProbeExits, vars
<1>14. ASSUME NEW c \in Conn, PeerBreaks(c) PROVE FreshInv'
  BY <1>14 DEF PeerBreaks
<1>15. QED
  BY <1>1, <1>2, <1>3, <1>4, <1>5, <1>6, <1>7, <1>8, <1>9, <1>10, <1>11, <1>12,
     <1>13, <1>14 DEF Next, Connects, Handshake

(* What Tunnel sees of the variables.                                      *)
Offered == IF state = "up" THEN client ELSE NoConn
Fresh   == \E p \in Procs : pc[p] \in {"handshake", "install", "publish"}
Closed  == pc["boot"] = "done"

(* A step that leaves all of that alone is a stutter of Tunnel.            *)
LEMMA Stutters ==
  ASSUME Offered' = Offered, Fresh' = Fresh, Closed' = Closed,
         UNCHANGED <<state, made, overtaken>>
  PROVE  UNCHANGED Promise!vars
BY DEF Promise!vars, Offered, Fresh, Closed

LEMMA PromiseStep ==
  IInv /\ FreshInv /\ [Next]_vars => [Promise!Next]_(Promise!vars)
<1> SUFFICES ASSUME IInv, FreshInv, [Next]_vars PROVE [Promise!Next]_(Promise!vars)
  OBVIOUS
<1>0. ~(pc["boot"] \in ConnectSteps /\ pc["sup"] \in ConnectSteps)
  BY DEF IInv, Control, Phases, ConnectSteps
<1>d. \A p \in Procs : pc[p] = "cas" => state = "down" /\ ~Fresh /\ ~Closed
  BY <1>0 DEF IInv, Control, Phases, StateInv, KnownDown, Procs, ConnectSteps, Fresh, Closed
<1>c. \A p \in Procs : pc[p] \in ConnectSteps => state = "connecting" /\ ~Closed
  BY DEF IInv, Control, Phases, StateInv, Procs, ConnectSteps, Closed
<1> USE <1>0 DEF IInv, TypeOK, NoConn, Procs, Downers, ConnectSteps, BootSteps, SupSteps,
            tunnel, super, downs, callers
<1>1. ASSUME NEW p \in Procs, ConnectCAS(p) PROVE Promise!Begin
  BY <1>1, <1>d DEF ConnectCAS, Promise!Begin, Fresh, Closed
<1>2. ASSUME NEW p \in Procs, TransportDials(p) PROVE Promise!Make
  BY <1>2, <1>c DEF TransportDials, Promise!Make, Closed
<1>3. ASSUME NEW p \in Procs, TransportFails(p) PROVE Promise!Fail
  BY <1>3, <1>c DEF TransportFails, ConnectReturnsErr, Promise!Fail, Closed
<1>4. ASSUME NEW p \in Procs, SetConn(p) PROVE UNCHANGED Promise!vars
  <2>1. Offered' = Offered
    BY <1>4, <1>c DEF SetConn, Offered
  <2>2. Fresh' = Fresh /\ Closed' = Closed
    BY <1>4 DEF SetConn, Fresh, Closed
  <2>3. QED
    BY <1>4, <2>1, <2>2, Stutters DEF SetConn
<1>5. ASSUME NEW p \in Procs, PublishUp(p) PROVE Promise!Rise
  <2>1. client = made \/ (overtaken /\ client = NoConn)
    BY <1>5 DEF PublishUp, Conns, ClearInv, FreshInv
  <2>2. state = "connecting" /\ Fresh /\ Closed' = Closed /\ ~Fresh'
    BY <1>5, <1>c DEF PublishUp, ConnectReturnsNil, Fresh, Closed
  <2>3. state' = "up" /\ UNCHANGED <<client, made, overtaken>>
    BY <1>5 DEF PublishUp
  <2>4. QED
    BY <2>1, <2>2, <2>3 DEF Promise!Rise, Fresh, Closed, Promise!NoConn
<1>6. ASSUME NEW p \in Procs, DialBegins(p) \/ HandshakeOK(p)
      PROVE  UNCHANGED Promise!vars
  BY <1>6, Stutters DEF DialBegins, HandshakeOK, Offered, Fresh, Closed
<1>7. ASSUME NEW p \in Procs, HandshakeFails(p) PROVE Promise!Fail
  BY <1>7, <1>c DEF HandshakeFails, ConnectReturnsErr, Promise!Fail, Closed
<1>8. ASSUME NEW d \in Downers, MarkDownLoses(d) \/ CloseHeld(d)
      PROVE  UNCHANGED Promise!vars
  BY <1>8, Stutters DEF MarkDownLoses, CloseHeld, Offered, Fresh, Closed
<1>9. ASSUME NEW d \in Downers, MarkDownWins(d) PROVE Promise!Fall
  BY <1>9 DEF MarkDownWins, Promise!Fall, Promise!NoConn
<1>10. ASSUME NEW d \in Downers, ClearConn(d)
       PROVE  Promise!Lose \/ UNCHANGED Promise!vars
  <2>1. CASE state = "up"
    <3>1. overtaken
      BY <1>10, <2>1 DEF ClearConn, Conns, ClearInv
    <3>2. QED
      BY <1>10, <2>1, <3>1 DEF ClearConn, Promise!Lose, Promise!NoConn
  <2>2. CASE state # "up"
    BY <1>10, <2>2, Stutters DEF ClearConn, Offered, Fresh, Closed
  <2>3. QED
    BY <2>1, <2>2
<1>11. ASSUME CloseReturns PROVE Promise!Close
  <2>1. state = "down" /\ ~Closed /\ Closed'
    BY <1>11 DEF CloseReturns, Control, StateInv, KnownDown, Closed
  <2>2. Fresh' = Fresh /\ UNCHANGED <<state, client, made, overtaken>>
    BY <1>11 DEF CloseReturns, Fresh
  <2>3. QED
    BY <2>1, <2>2 DEF Promise!Close, Closed, Fresh
<1>12. CASE BootRetries \/ BootAborts \/ BootChecks \/ ServeReturns \/ CloseWaited
  <2>1. Fresh' = Fresh /\ Closed' = Closed
    BY <1>12 DEF BootRetries, BootAborts, BootChecks, ServeReturns, CloseWaited, Fresh, Closed
  <2>2. UNCHANGED <<state, client, made, overtaken>>
    BY <1>12 DEF BootRetries, BootAborts, BootChecks, ServeReturns, CloseWaited
  <2>3. QED
    BY <2>1, <2>2, Stutters DEF Offered
<1>13. CASE Supervise
  <2>1. Fresh' = Fresh /\ Closed' = Closed
    BY <1>13 DEF Supervise, SupLoop, KeepaliveStarts, KeepaliveOK, KeepaliveFails,
       KeepaliveCancelled, SleepElapsed, BackoffElapsed, PauseCancelled, SupTo, Fresh, Closed
  <2>2. UNCHANGED <<state, client, made, overtaken>>
    BY <1>13 DEF Supervise, SupLoop, KeepaliveStarts, KeepaliveOK, KeepaliveFails,
       KeepaliveCancelled, SleepElapsed, BackoffElapsed, PauseCancelled
  <2>3. QED
    BY <2>1, <2>2, Stutters DEF Offered
<1>14. ASSUME NEW ts, Spawns(ts) PROVE UNCHANGED Promise!vars
  BY <1>14, Stutters DEF Spawns, Offered, Fresh, Closed
<1>15. CASE ProbeObserves
  BY <1>14, <1>15, ProbeSpawns
<1>16. ASSUME NEW d \in Dialers, Dial(d) PROVE UNCHANGED Promise!vars
  BY <1>14, <1>16, DialSpawns
<1>17. CASE Cancel \/ ProbeExits \/ UNCHANGED vars
  BY <1>17, Stutters DEF Cancel, ProbeExits, vars, Offered, Fresh, Closed
<1>18. ASSUME NEW c \in Conn, PeerBreaks(c) PROVE UNCHANGED Promise!vars
  BY <1>18, Stutters DEF PeerBreaks, Offered, Fresh, Closed
<1>19. QED
  BY <1>1, <1>2, <1>3, <1>4, <1>5, <1>6, <1>7, <1>8, <1>9, <1>10, <1>11, <1>12,
     <1>13, <1>15, <1>16, <1>17, <1>18
     DEF Next, Connects, Handshake, MarkDown, Boot, Promise!Next

(* To whoever dials, the manager behaves as Tunnel says, for any number of *)
(* callers, spawned markDowns and connections: every Up period offers one  *)
(* connection of its own, and none comes after Close.                      *)
THEOREM Implementation == Spec => ImplementsTunnel
<1>1. Init => FreshInv
  BY DEF Init, FreshInv, Procs
<1>2. Init => Promise!Init
  BY DEF Init, Promise!Init, Promise!NoConn, Procs, NoConn
<1>3. Spec => []FreshInv
  BY IInvAlways, <1>1, FreshStep, PTL DEF Spec
<1>4. Spec => Promise!Spec
  BY IInvAlways, <1>2, <1>3, PromiseStep, PTL DEF Spec, Promise!Spec
<1>5. QED
  BY <1>4 DEF ImplementsTunnel
=============================================================================
