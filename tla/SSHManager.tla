----------------------------- MODULE SSHManager -----------------------------
(***************************************************************************)
(* One SSH tunnel of a worker: sshclient.Manager, the start loop of        *)
(* runWorker that owns it, the supervisor that keeps it up and the callers *)
(* of Manager.Dial.                                                        *)
(*                                                                         *)
(* Manager.state is an atomic, Manager.client/sshConn are guarded by a     *)
(* mutex of their own, and nothing ties the two together: markDown swings  *)
(* the state and takes the connection out in two steps, connect stores the *)
(* connection and raises the state in two steps, Dial reads one and then   *)
(* the other.  Every such access is an action here, so goroutines          *)
(* interleave between any two of them.                                     *)
(*                                                                         *)
(* client and sshConn are always written together under connMu (setConn,   *)
(* clearConn) and both stand for one transport connection: they are the    *)
(* one variable client.  A transport connection is a number, counted from  *)
(* 1 in the order the transport made them; NoConn is nil.                  *)
(***************************************************************************)
EXTENDS Integers, FiniteSets

CONSTANTS
  Dialers,        \* goroutines that call Dial: SOCKS handlers and probe attempts
  Tasks,          \* slots for the goroutines of "go m.markDown()", "go t.onDegrade()"
  StartAttempts,  \* attempts of runWorker's start loop (5 in main.go)
  MinBackoff,     \* first pause of the supervisor
  MaxBackoff,     \* largest pause of the supervisor
  MaxConns,       \* bound: transport connections made in a behaviour
  MaxFaults,      \* bound: failures and slow answers of the environment
  MaxDials        \* bound: calls of Dial in a behaviour

ASSUME TasksAssumption == "boot" \notin Tasks /\ "sup" \notin Tasks
ASSUME BackoffAssumption ==
  /\ MinBackoff \in Nat \ {0} /\ MaxBackoff \in Nat /\ MinBackoff <= MaxBackoff
ASSUME BoundsAssumption ==
  /\ StartAttempts \in Nat \ {0}
  /\ MaxConns \in Nat /\ MaxFaults \in Nat /\ MaxDials \in Nat

NoConn == 0
Conn   == 1 .. MaxConns
Conn0  == Conn \cup {NoConn}

(* The goroutines that may run connect: runWorker's (Start) and supervise. *)
Procs   == {"boot", "sup"}
(* The goroutines that may run markDown: those two, in Close and after a   *)
(* failed keepalive, and the spawned ones.                                 *)
Downers == Procs \cup Tasks

VARIABLES
  state,      \* Manager.state
  client,     \* Manager.client and Manager.sshConn
  open,       \* transport connections this side has not closed
  broken,     \* transport connections the peer or the network has dropped
  made,       \* transport connections made so far
  pc,         \* what each of Procs is about to do
  raw,        \* the connection a process is building in connect
  tries,      \* failed attempts of the start loop
  backoff,    \* supervise's backoff
  fails,      \* supervise's consecutiveFails
  kaConn,     \* the connection supervise sent its keepalive on
  probe,      \* the health probe goroutine: "off", "run", "exit"
  md,         \* per Downer: where it is in markDown ("none": not in it)
  held,       \* per Downer: what clearConn returned to it
  dpc,        \* per Dialer: where it is in Dial ("idle": not in it)
  dconn,      \* per Dialer: what getClient returned to it
  cancelled,  \* the manager's context is done
  faults,     \* environment failures so far
  dials,      \* calls of Dial so far
  overtaken   \* history: a connect began while a markDown still had to clearConn

tunnel   == <<state, client, open, broken, made>>
super    == <<backoff, fails, kaConn>>
downs    == <<md, held>>
callers  == <<dpc, dconn, dials>>
vars == <<tunnel, pc, raw, tries, super, probe, downs, callers,
          cancelled, faults, overtaken>>

ConnectSteps == {"dial", "dialing", "handshake", "install", "publish"}
BootSteps == {"cas", "backoff", "check", "serve", "wait", "closing",
              "done", "failed", "aborted"} \cup ConnectSteps
SupSteps  == {"off", "loop", "getconn", "keepalive", "sleep", "backoff",
              "cas", "exit"} \cup ConnectSteps

TypeOK ==
  /\ state \in {"down", "connecting", "up"}
  /\ client \in Conn0
  /\ open \subseteq Conn /\ broken \subseteq Conn
  /\ made \in 0 .. MaxConns
  /\ pc \in [Procs -> BootSteps \cup SupSteps]
  /\ pc["boot"] \in BootSteps /\ pc["sup"] \in SupSteps
  /\ raw \in [Procs -> Conn0]
  /\ tries \in 0 .. StartAttempts
  /\ backoff \in MinBackoff .. MaxBackoff
  /\ fails \in Nat
  /\ kaConn \in Conn0
  /\ probe \in {"off", "run", "exit"}
  /\ md \in [Downers -> {"none", "cas", "clear", "close"}]
  /\ held \in [Downers -> Conn0]
  /\ dpc \in [Dialers -> {"idle", "check", "dialing"}]
  /\ dconn \in [Dialers -> Conn0]
  /\ cancelled \in BOOLEAN
  /\ faults \in 0 .. MaxFaults
  /\ dials \in 0 .. MaxDials
  /\ overtaken \in BOOLEAN

Init ==
  /\ state = "down" /\ client = NoConn
  /\ open = {} /\ broken = {} /\ made = 0
  /\ pc = [p \in Procs |-> IF p = "boot" THEN "cas" ELSE "off"]
  /\ raw = [p \in Procs |-> NoConn]
  /\ tries = 0
  /\ backoff = MinBackoff /\ fails = 0 /\ kaConn = NoConn
  /\ probe = "off"
  /\ md = [d \in Downers |-> "none"] /\ held = [d \in Downers |-> NoConn]
  /\ dpc = [d \in Dialers |-> "idle"] /\ dconn = [d \in Dialers |-> NoConn]
  /\ cancelled = FALSE
  /\ faults = 0 /\ dials = 0 /\ overtaken = FALSE

-----------------------------------------------------------------------------
(* The environment: what may go wrong, counted against MaxFaults.          *)

Fault(n) == faults + n <= MaxFaults /\ faults' = faults + n

(* The connection carries requests: nobody on either side has dropped it.  *)
Works(c) == c \in open /\ c \notin broken

PeerBreaks(c) ==
  /\ c \in open \ broken
  /\ broken' = broken \cup {c}
  /\ Fault(1)
  /\ UNCHANGED <<state, client, open, made, pc, raw, tries, super, probe, downs,
                 callers, cancelled, overtaken>>

(* The signal handler of main cancels the root context.                    *)
Cancel ==
  /\ ~cancelled
  /\ cancelled' = TRUE
  /\ UNCHANGED <<tunnel, pc, raw, tries, super, probe, downs, callers,
                 faults, overtaken>>

-----------------------------------------------------------------------------
(* markDown: the CAS from StateUp to StateDown, clearConn, the Closes.     *)

(* The goroutines ts start; each runs markDown.                            *)
Idle == {t \in Tasks : md[t] = "none"}
Spawned(ts) == [d \in Downers |-> IF d \in ts THEN "cas" ELSE md[d]]

(* Tracker.Observe, called with a result: the tracker may answer with one  *)
(* callback in a goroutine (onDegrade, onUnhealthy), which runs markDown.  *)
(* When it does is the tracker's business; here it may at every call.      *)
Callbacks == {{}} \cup {{t} : t \in Idle}

MarkDownLoses(d) == \* the CAS fails: markDown returns
  /\ md[d] = "cas" /\ state # "up"
  /\ md' = [md EXCEPT ![d] = "none"]
  /\ UNCHANGED <<tunnel, pc, raw, tries, super, probe, held, callers,
                 cancelled, faults, overtaken>>

(* Mutants: a Store in place of the CAS; no clearConn after it.            *)
MarkDownForces(d) ==
  /\ md[d] = "cas" /\ state # "down"
  /\ state' = "down"
  /\ md' = [md EXCEPT ![d] = "clear"]
  /\ UNCHANGED <<client, open, broken, made, pc, raw, tries, super, probe, held,
                 callers, cancelled, faults, overtaken>>

MarkDownKeepsConn(d) ==
  /\ md[d] = "cas" /\ state = "up"
  /\ state' = "down"
  /\ md' = [md EXCEPT ![d] = "none"]
  /\ UNCHANGED <<client, open, broken, made, pc, raw, tries, super, probe, held,
                 callers, cancelled, faults, overtaken>>

MarkDownWins(d) ==
  /\ md[d] = "cas" /\ state = "up"
  /\ state' = "down"
  /\ md' = [md EXCEPT ![d] = "clear"]
  /\ UNCHANGED <<client, open, broken, made, pc, raw, tries, super, probe, held,
                 callers, cancelled, faults, overtaken>>

ClearConn(d) ==
  /\ md[d] = "clear"
  /\ held' = [held EXCEPT ![d] = client]
  /\ client' = NoConn
  /\ md' = [md EXCEPT ![d] = "close"]
  /\ UNCHANGED <<state, open, broken, made, pc, raw, tries, super, probe,
                 callers, cancelled, faults, overtaken>>

(* Mutant: clearConn's results are dropped, not closed.                    *)
CloseHeldForgets(d) ==
  /\ md[d] = "close"
  /\ held' = [held EXCEPT ![d] = NoConn]
  /\ md' = [md EXCEPT ![d] = "none"]
  /\ UNCHANGED <<tunnel, pc, raw, tries, super, probe, callers, cancelled, faults,
                 overtaken>>

CloseHeld(d) ==
  /\ md[d] = "close"
  /\ open' = open \ {held[d]}
  /\ held' = [held EXCEPT ![d] = NoConn]
  /\ md' = [md EXCEPT ![d] = "none"]
  /\ UNCHANGED <<state, client, broken, made, pc, raw, tries, super, probe,
                 callers, cancelled, faults, overtaken>>

-----------------------------------------------------------------------------
(* connect, run by the start loop and by the supervisor.                   *)

NextBackoffUncapped(cur, max) == cur * 2  \* mutant

NextBackoff(cur, max) == IF cur * 2 > max THEN max ELSE cur * 2

(* Mutant: the reset of the backoff after a connect is forgotten.          *)
ConnectReturnsNilKeepsBackoff(p) ==
  /\ pc' = IF p = "boot" THEN [pc EXCEPT !["boot"] = "check", !["sup"] = "loop"]
                         ELSE [pc EXCEPT !["sup"] = "loop"]
  /\ probe' = IF p = "boot" THEN "run" ELSE probe
  /\ fails' = 0
  /\ UNCHANGED <<backoff, tries, kaConn>>

(* connect returned nil: Start launches supervise and the probe, supervise *)
(* begins afresh.                                                          *)
ConnectReturnsNil(p) ==
  /\ pc' = IF p = "boot" THEN [pc EXCEPT !["boot"] = "check", !["sup"] = "loop"]
                         ELSE [pc EXCEPT !["sup"] = "loop"]
  /\ probe' = IF p = "boot" THEN "run" ELSE probe
  /\ backoff' = MinBackoff
  /\ fails' = 0
  /\ UNCHANGED <<tries, kaConn>>

(* Mutant: no deferred Store.                                              *)
ConnectReturnsErrKeepsState(p) ==
  /\ IF p = "boot"
       THEN /\ pc' = [pc EXCEPT ![p] = "backoff"]
            /\ tries' = tries + 1
            /\ UNCHANGED backoff
       ELSE /\ pc' = [pc EXCEPT ![p] = "loop"]
            /\ backoff' = NextBackoff(backoff, MaxBackoff)
            /\ UNCHANGED tries
  /\ UNCHANGED <<state, probe, fails, kaConn>>

(* connect returned an error; its deferred Store has put the state Down.   *)
ConnectReturnsErr(p) ==
  /\ state' = "down"
  /\ IF p = "boot"
       THEN /\ pc' = [pc EXCEPT ![p] = "backoff"]
            /\ tries' = tries + 1
            /\ UNCHANGED backoff
       ELSE /\ pc' = [pc EXCEPT ![p] = "loop"]
            /\ backoff' = NextBackoff(backoff, MaxBackoff)
            /\ UNCHANGED tries
  /\ UNCHANGED <<probe, fails, kaConn>>

ConnectCAS(p) ==
  /\ pc[p] = "cas"
  /\ IF state = "down"
       THEN /\ state' = "connecting"
            /\ pc' = [pc EXCEPT ![p] = "dial"]
            /\ overtaken' = (overtaken \/ \E d \in Downers : md[d] = "clear")
            /\ UNCHANGED <<tries, super, probe>>
       ELSE /\ ConnectReturnsNil(p)   \* "connect skipped": no error
            /\ UNCHANGED <<state, overtaken>>
  /\ UNCHANGED <<client, open, broken, made, raw, downs, callers, cancelled, faults>>

(* dialFn: the transport pipeline behind the circuit breaker.  It respects *)
(* the context and its own timeouts, so it returns.  Under a context that  *)
(* is done before the dial begins it fails; one that is cancelled later    *)
(* may come too late for a dial that is succeeding.                        *)
DialBegins(p) ==
  /\ pc[p] = "dial" /\ ~cancelled
  /\ pc' = [pc EXCEPT ![p] = "dialing"]
  /\ UNCHANGED <<tunnel, raw, tries, super, probe, downs, callers, cancelled,
                 faults, overtaken>>

TransportDials(p) ==
  /\ pc[p] = "dialing"
  /\ made < MaxConns
  /\ made' = made + 1
  /\ open' = open \cup {made + 1}
  /\ raw' = [raw EXCEPT ![p] = made + 1]
  /\ pc' = [pc EXCEPT ![p] = "handshake"]
  /\ UNCHANGED <<state, client, broken, tries, super, probe, downs, callers,
                 cancelled, faults, overtaken>>

TransportFails(p) ==
  /\ pc[p] \in {"dial", "dialing"}
  /\ IF cancelled THEN UNCHANGED faults ELSE Fault(1)
  /\ ConnectReturnsErr(p)
  /\ UNCHANGED <<client, open, broken, made, raw, downs, callers, cancelled,
                 overtaken>>

(* buildSSHConfig and ssh.NewClientConn.  Neither takes the context, and   *)
(* ClientConfig.Timeout bounds a TCP dial only: a silent peer keeps the    *)
(* process here.                                                           *)
HandshakeSkipsInstall(p) == \* mutant: the state is raised before setConn
  /\ pc[p] = "handshake" /\ Works(raw[p])
  /\ pc' = [pc EXCEPT ![p] = "publish"]
  /\ UNCHANGED <<tunnel, raw, tries, super, probe, downs, callers, cancelled,
                 faults, overtaken>>

HandshakeOK(p) ==
  /\ pc[p] = "handshake" /\ Works(raw[p])
  /\ pc' = [pc EXCEPT ![p] = "install"]
  /\ UNCHANGED <<tunnel, raw, tries, super, probe, downs, callers, cancelled,
                 faults, overtaken>>

HandshakeFailsLeaks(p) == \* mutant: no raw.Close()
  /\ pc[p] = "handshake"
  /\ IF Works(raw[p]) THEN Fault(1) ELSE UNCHANGED faults
  /\ raw' = [raw EXCEPT ![p] = NoConn]
  /\ ConnectReturnsErr(p)
  /\ UNCHANGED <<client, open, broken, made, downs, callers, cancelled, overtaken>>

HandshakeFails(p) ==
  /\ pc[p] = "handshake"
  /\ IF Works(raw[p]) THEN Fault(1) ELSE UNCHANGED faults
  /\ open' = open \ {raw[p]}
  /\ raw' = [raw EXCEPT ![p] = NoConn]
  /\ ConnectReturnsErr(p)
  /\ UNCHANGED <<client, broken, made, downs, callers, cancelled, overtaken>>

SetConn(p) ==
  /\ pc[p] = "install"
  /\ client' = raw[p]
  /\ raw' = [raw EXCEPT ![p] = NoConn]
  /\ pc' = [pc EXCEPT ![p] = "publish"]
  /\ UNCHANGED <<state, open, broken, made, tries, super, probe, downs, callers,
                 cancelled, faults, overtaken>>

PublishUp(p) ==
  /\ pc[p] = "publish"
  /\ state' = "up"
  /\ ConnectReturnsNil(p)
  /\ UNCHANGED <<client, open, broken, made, raw, downs, callers, cancelled,
                 faults, overtaken>>

-----------------------------------------------------------------------------
(* runWorker: the start loop, the check after it, Serve, Manager.Close.    *)

BootRetries == \* the pause after a failed attempt is over
  /\ pc["boot"] = "backoff"
  /\ pc' = [pc EXCEPT !["boot"] = IF tries < StartAttempts THEN "cas" ELSE "check"]
  /\ UNCHANGED <<tunnel, raw, tries, super, probe, downs, callers, cancelled,
                 faults, overtaken>>

BootAborts == \* ctx.Done() during the pause
  /\ pc["boot"] = "backoff" /\ cancelled
  /\ pc' = [pc EXCEPT !["boot"] = "aborted"]
  /\ UNCHANGED <<tunnel, raw, tries, super, probe, downs, callers, cancelled,
                 faults, overtaken>>

BootChecks == \* mgr.State() != StateUp: "ssh never came up", return
  /\ pc["boot"] = "check"
  /\ pc' = [pc EXCEPT !["boot"] = IF state = "up" THEN "serve" ELSE "failed"]
  /\ UNCHANGED <<tunnel, raw, tries, super, probe, downs, callers, cancelled,
                 faults, overtaken>>

(* socks5 Serve returns once the context is done, or at once when it       *)
(* cannot listen; then Close cancels the manager's context.                *)
ServeReturns ==
  /\ pc["boot"] = "serve"
  /\ cancelled' = TRUE
  /\ pc' = [pc EXCEPT !["boot"] = "wait"]
  /\ UNCHANGED <<tunnel, raw, tries, super, probe, downs, callers, faults,
                 overtaken>>

CloseDoesNotWait == \* mutant: no wg.Wait()
  /\ pc["boot"] = "wait"
  /\ pc' = [pc EXCEPT !["boot"] = "closing"]
  /\ md' = [md EXCEPT !["boot"] = "cas"]
  /\ UNCHANGED <<tunnel, raw, tries, super, probe, held, callers, cancelled,
                 faults, overtaken>>

CloseWaited == \* wg.Wait() returned: supervise and the probe are gone
  /\ pc["boot"] = "wait" /\ pc["sup"] = "exit" /\ probe = "exit"
  /\ pc' = [pc EXCEPT !["boot"] = "closing"]
  /\ md' = [md EXCEPT !["boot"] = "cas"]
  /\ UNCHANGED <<tunnel, raw, tries, super, probe, held, callers, cancelled,
                 faults, overtaken>>

CloseReturns ==
  /\ pc["boot"] = "closing" /\ md["boot"] = "none"
  /\ pc' = [pc EXCEPT !["boot"] = "done"]
  /\ UNCHANGED <<tunnel, raw, tries, super, probe, downs, callers, cancelled,
                 faults, overtaken>>

-----------------------------------------------------------------------------
(* supervise, with keepaliveOnce and the two sleeps.                       *)

SupTo(step) == pc' = [pc EXCEPT !["sup"] = step]

SupLoopIgnoresContext == \* mutant: no check of the context
  /\ pc["sup"] = "loop"
  /\ SupTo(IF state = "up" THEN "getconn" ELSE "backoff")
  /\ UNCHANGED <<tunnel, raw, tries, super, probe, downs, callers, cancelled,
                 faults, overtaken>>

SupLoop ==
  /\ pc["sup"] = "loop"
  /\ SupTo(IF cancelled THEN "exit" ELSE IF state = "up" THEN "getconn" ELSE "backoff")
  /\ UNCHANGED <<tunnel, raw, tries, super, probe, downs, callers, cancelled,
                 faults, overtaken>>

(* getSSHConn; without a connection keepaliveOnce returns ErrNotConnected  *)
(* and supervise calls markDown.                                           *)
KeepaliveStarts ==
  /\ pc["sup"] = "getconn"
  /\ kaConn' = client
  /\ IF client = NoConn
       THEN SupTo("backoff") /\ md' = [md EXCEPT !["sup"] = "cas"]
       ELSE SupTo("keepalive") /\ UNCHANGED md
  /\ UNCHANGED <<tunnel, raw, tries, backoff, fails, probe, held, callers,
                 cancelled, faults, overtaken>>

KeepaliveOK ==
  /\ pc["sup"] = "keepalive" /\ Works(kaConn)
  /\ backoff' = MinBackoff /\ fails' = 0 /\ kaConn' = NoConn
  /\ SupTo("sleep")
  /\ UNCHANGED <<tunnel, raw, tries, probe, downs, callers, cancelled,
                 faults, overtaken>>

KeepaliveFailsQuietly == \* mutant: no markDown
  /\ pc["sup"] = "keepalive"
  /\ IF Works(kaConn) THEN Fault(1) ELSE UNCHANGED faults
  /\ SupTo("backoff")
  /\ kaConn' = NoConn
  /\ UNCHANGED <<tunnel, raw, tries, backoff, fails, probe, downs, callers,
                 cancelled, overtaken>>

(* The request failed or keepTimeout passed: markDown.                     *)
KeepaliveFails ==
  /\ pc["sup"] = "keepalive"
  /\ IF Works(kaConn) THEN Fault(1) ELSE UNCHANGED faults
  /\ SupTo("backoff")
  /\ md' = [md EXCEPT !["sup"] = "cas"]
  /\ kaConn' = NoConn
  /\ UNCHANGED <<tunnel, raw, tries, backoff, fails, probe, held, callers, cancelled,
                 overtaken>>

(* context.Canceled: no markDown, and sleepJitter returns false at once.   *)
KeepaliveCancelled ==
  /\ pc["sup"] = "keepalive" /\ cancelled
  /\ SupTo("exit")
  /\ kaConn' = NoConn
  /\ UNCHANGED <<tunnel, raw, tries, backoff, fails, probe, downs, callers, cancelled,
                 faults, overtaken>>

SleepElapsed ==
  /\ pc["sup"] = "sleep"
  /\ SupTo("loop")
  /\ UNCHANGED <<tunnel, raw, tries, super, probe, downs, callers, cancelled,
                 faults, overtaken>>

(* The pause before a reconnect; md: the markDown before it has returned.  *)
BackoffElapsed ==
  /\ pc["sup"] = "backoff" /\ md["sup"] = "none"
  /\ fails' = fails + 1
  /\ SupTo("cas")
  /\ UNCHANGED <<tunnel, raw, tries, backoff, kaConn, probe, downs, callers,
                 cancelled, faults, overtaken>>

PauseCancelled ==
  /\ pc["sup"] \in {"sleep", "backoff"} /\ md["sup"] = "none" /\ cancelled
  /\ SupTo("exit")
  /\ UNCHANGED <<tunnel, raw, tries, super, probe, downs, callers, cancelled,
                 faults, overtaken>>

-----------------------------------------------------------------------------
(* The probe goroutine and Dial.                                           *)

(* Probe.once ends in ProbeOK or ProbeFail, both of which call Observe.    *)
ProbeObserves ==
  /\ probe = "run"
  /\ \E t \in Idle : md' = Spawned({t})
  /\ Fault(1)
  /\ UNCHANGED <<tunnel, pc, raw, tries, super, probe, held, callers, cancelled,
                 overtaken>>

ProbeExits ==
  /\ probe = "run" /\ cancelled
  /\ probe' = "exit"
  /\ UNCHANGED <<tunnel, pc, raw, tries, super, downs, callers, cancelled, faults,
                 overtaken>>

GetClient(d) ==
  /\ dpc[d] = "idle" /\ probe # "off"
  /\ dials < MaxDials /\ dials' = dials + 1
  /\ dconn' = [dconn EXCEPT ![d] = client]
  /\ dpc' = [dpc EXCEPT ![d] = "check"]
  /\ UNCHANGED <<tunnel, pc, raw, tries, super, probe, downs, cancelled, faults,
                 overtaken>>

DialAccepted(d) == \* c != nil and the state is Up
  /\ dpc[d] = "check" /\ dconn[d] # NoConn /\ state = "up"
  /\ dpc' = [dpc EXCEPT ![d] = "dialing"]
  /\ UNCHANGED <<tunnel, pc, raw, tries, super, probe, downs, dconn, dials,
                 cancelled, faults, overtaken>>

DialReturned(d) ==
  /\ dpc' = [dpc EXCEPT ![d] = "idle"]
  /\ dconn' = [dconn EXCEPT ![d] = NoConn]
  /\ UNCHANGED dials

DialRejected(d) == \* ErrNotConnected, observed
  /\ dpc[d] = "check" /\ (dconn[d] = NoConn \/ state # "up")
  /\ DialReturned(d)
  /\ \E cb \in Callbacks : md' = Spawned(cb) /\ Fault(Cardinality(cb))
  /\ UNCHANGED <<tunnel, pc, raw, tries, super, probe, held, cancelled, overtaken>>

DialOK(d) ==
  /\ dpc[d] = "dialing" /\ Works(dconn[d])
  /\ DialReturned(d)
  /\ \E cb \in Callbacks : md' = Spawned(cb) /\ Fault(Cardinality(cb))
  /\ UNCHANGED <<tunnel, pc, raw, tries, super, probe, held, cancelled, overtaken>>

(* c.Dial failed, on a working connection because the destination refused: *)
(* the failure is observed, and a goroutine is spawned to run markDown.    *)
DialFails(d) ==
  /\ dpc[d] = "dialing"
  /\ DialReturned(d)
  /\ \E cb \in Callbacks, t \in Idle :
       /\ t \notin cb
       /\ md' = Spawned(cb \cup {t})
       /\ Fault(Cardinality(cb) + IF Works(dconn[d]) THEN 1 ELSE 0)
  /\ UNCHANGED <<tunnel, pc, raw, tries, super, probe, held, cancelled, overtaken>>

-----------------------------------------------------------------------------
Connects(p)  == ConnectCAS(p) \/ DialBegins(p) \/ TransportDials(p)
                \/ TransportFails(p) \/ SetConn(p) \/ PublishUp(p)
Handshake(p) == HandshakeOK(p) \/ HandshakeFails(p)
MarkDown(d)  == MarkDownLoses(d) \/ MarkDownWins(d) \/ ClearConn(d) \/ CloseHeld(d)
Boot         == BootRetries \/ BootAborts \/ BootChecks \/ ServeReturns
                \/ CloseWaited \/ CloseReturns
Supervise    == SupLoop \/ KeepaliveStarts \/ KeepaliveOK \/ KeepaliveFails
                \/ KeepaliveCancelled \/ SleepElapsed \/ BackoffElapsed \/ PauseCancelled
Dial(d)      == GetClient(d) \/ DialAccepted(d) \/ DialRejected(d) \/ DialOK(d)
                \/ DialFails(d)

Next ==
  \/ \E c \in Conn : PeerBreaks(c)
  \/ Cancel
  \/ \E p \in Procs : Connects(p) \/ Handshake(p)
  \/ \E d \in Downers : MarkDown(d)
  \/ Boot \/ Supervise
  \/ ProbeObserves \/ ProbeExits
  \/ \E d \in Dialers : Dial(d)

Spec == Init /\ [][Next]_vars

(* Fairness.  A goroutine that can run does: the supervisor, the start loop *)
(* and every markDown.  A call of Dial is answered at once except c.Dial    *)
(* itself, which is sure to return only when its connection is closed on    *)
(* this side (a vanished peer answers nothing).  The handshake with the     *)
(* peer, faults, signals and new calls are left without fairness.           *)
Running ==
  /\ WF_vars(Supervise)
  /\ \A p \in Procs : WF_vars(Connects(p))
  /\ \A d \in Downers : WF_vars(MarkDown(d))
  /\ WF_vars(BootRetries \/ BootAborts \/ BootChecks \/ CloseWaited \/ CloseReturns)
  /\ WF_vars(cancelled /\ ServeReturns)
  /\ WF_vars(ProbeExits)
  /\ \A d \in Dialers : WF_vars(DialAccepted(d) \/ DialRejected(d))
  /\ \A d \in Dialers : WF_vars(dconn[d] \notin open /\ DialFails(d))

FairSpec == Spec /\ Running

-----------------------------------------------------------------------------
(* Safety.                                                                 *)

(* The state is Connecting exactly while one goroutine is inside connect's *)
(* body: markDown never knocks a connect in progress off its state, and no *)
(* second connect starts beside it.                                        *)
StateMatchesConnector ==
  /\ state = "connecting" <=> \E p \in Procs : pc[p] \in ConnectSteps
  /\ \A p, q \in Procs : pc[p] \in ConnectSteps /\ pc[q] \in ConnectSteps => p = q

(* Whoever calls connect finds the state Down, so the silent return of nil *)
(* ("connect skipped", which the start loop takes for a started tunnel and *)
(* the supervisor for a successful reconnect) never happens, whatever the  *)
(* spawned markDowns do between the caller's checks and the CAS.           *)
ConnectFindsDown == \A p \in Procs : pc[p] = "cas" => state = "down"

(* An installed connection is always somebody's business: the tunnel is Up *)
(* with it, a connect is about to raise the state, or a markDown that won  *)
(* its CAS is about to take it out.                                        *)
ClientOwned ==
  client # NoConn =>
    \/ state = "up"
    \/ \E p \in Procs : pc[p] = "publish"
    \/ \E d \in Downers : md[d] = "clear"

(* As long as no reconnect has begun while a markDown still stood between  *)
(* its CAS and clearConn, no transport connection is lost: each open one   *)
(* is the installed one, one under construction or one being closed.       *)
NoOrphan ==
  ~overtaken => \A c \in open :
    \/ c = client
    \/ \E p \in Procs : raw[p] = c
    \/ \E d \in Downers : held[d] = c

(* Under the same condition Up means there is a connection: Dial's check   *)
(* of the client after it saw Up, and the keepalive's, never miss.         *)
UpMeansConn == ~overtaken /\ state = "up" => client # NoConn

(* When Manager.Close has returned the tunnel is Down for good with no     *)
(* supervisor left, and every connection has been closed or is in the      *)
(* hands of a spawned markDown about to close it.                          *)
CloseReleases ==
  pc["boot"] = "done" =>
    /\ state = "down" /\ pc["sup"] = "exit"
    /\ ~overtaken => \A c \in open :
         \E d \in Tasks : held[d] = c \/ (client = c /\ md[d] = "clear")

(* The supervisor's pause is the minimum doubled once for each failed      *)
(* reconnect in a row, up to the maximum; consecutiveFails also counts the *)
(* attempt in progress.                                                    *)
BackoffMatchesFails ==
  LET trying  == pc["sup"] \in {"cas"} \cup ConnectSteps
      doubled == MinBackoff * 2 ^ (IF trying THEN fails - 1 ELSE fails)
  IN  backoff = IF doubled > MaxBackoff THEN MaxBackoff ELSE doubled

(* All of this together: to whoever dials, the manager behaves as Tunnel   *)
(* says.  Each Up period offers one connection, made for it and never      *)
(* offered before, whatever the spawned markDowns of earlier periods do,   *)
(* and after Close the tunnel never comes back.                            *)
Promise == INSTANCE Tunnel WITH
  offered <- IF state = "up" THEN client ELSE NoConn,
  fresh   <- \E p \in Procs : pc[p] \in {"handshake", "install", "publish"},
  late    <- overtaken,
  closed  <- pc["boot"] = "done"

ImplementsTunnel == Promise!Spec

(* "ssh never came up": a worker that gives up with that message, while    *)
(* nothing has been cancelled, leaves no tunnel that comes up after it.    *)
(* (The code does: see the run ghost_worker.)                              *)
GaveUpMeansNeverUp == pc["boot"] = "failed" /\ ~cancelled => state # "up"

-----------------------------------------------------------------------------
(* Liveness.                                                               *)

(* Once faults, calls and cancellation stop, a started tunnel comes up on  *)
(* a working connection and stays, unless the peer leaves it in a          *)
(* handshake: the supervisor notices every broken connection by its        *)
(* keepalive, tears it down and reconnects.                                *)
Heals == <>[]( \/ cancelled \/ pc["sup"] = "off"
               \/ state = "up" /\ Works(client)
               \/ \E p \in Procs : pc[p] = "handshake")

(* After the signal runWorker returns, unless a goroutine is caught in the *)
(* SSH handshake, which has no timeout of its own.                         *)
ShutdownCompletes ==
  cancelled ~> \/ pc["boot"] \in {"done", "failed", "aborted"}
               \/ \E p \in Procs : pc[p] = "handshake"

(* A caller that waits in c.Dial on a connection the peer has abandoned is *)
(* freed: the keepalive fails, markDown closes the connection.  Not so for *)
(* a connection orphaned by an overtaken markDown, nor after runWorker     *)
(* gave up without Close.                                                  *)
StuckDialReturns ==
  \A d \in Dialers :
    dpc[d] = "dialing" /\ dconn[d] \in broken
      ~> dpc[d] = "idle" \/ overtaken \/ pc["boot"] = "failed"
=============================================================================
