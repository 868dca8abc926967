---------------------------- MODULE Socks5Server ----------------------------
(***************************************************************************)
(* The SOCKS5 front of a worker: the accept loop with its connection       *)
(* limit, one handler goroutine per connection, the watcher that kills     *)
(* idle connections, and the drain at shutdown.                            *)
(*                                                                         *)
(* The protocol itself is the library's (armon/go-socks5): a handler reads *)
(* a request, dials through Server.route and relays, one copy each way,    *)
(* until a copy fails or both are over; the library closes the connection  *)
(* it was given when it returns.  A relay is "away" while neither copy is  *)
(* at the client's connection: one is writing to a destination that does   *)
(* not read, or over because the client sends no more, and the other waits *)
(* for the destination to send.  A dial may hang, succeed or fail; which   *)
(* of route's three ways it took is left to the module Rules.  Time passes in Ticks for everyone, and a  *)
(* goroutine may be slow: nothing happens exactly when it falls due.       *)
(* Accept errors other than a closed listener only make the loop turn.     *)
(***************************************************************************)
EXTENDS Integers, FiniteSets

CONSTANTS
  Conns,         \* the connections clients make, each accepted at most once
  NoConn,        \* not a connection
  MaxConns,      \* Options.MaxConns
  HandshakeTO,   \* Options.HandshakeTO, in Ticks
  IdleTimeout    \* Options.IdleTimeout, in Ticks

ASSUME Socks5Assumption ==
  /\ IsFiniteSet(Conns) /\ NoConn \notin Conns
  /\ MaxConns \in Nat \ {0} /\ HandshakeTO \in Nat \ {0} /\ IdleTimeout \in Nat \ {0}

VARIABLES
  done,      \* ctx.Done() is closed
  listening, \* the listener is open
  spc,       \* where Serve is
  taken,     \* the connection Serve has accepted and not yet placed
  active,    \* Server.active
  wg,        \* Server.wg
  drained,   \* how drain ended
  hpc,       \* per connection: where its handler is
  open,      \* per connection: the network connection is open
  left,      \* per connection: Ticks until its deadline; 0 is past it
  idle,      \* per connection: Ticks since idleConn.lastAt, up to IdleTimeout
  watcher,   \* per connection: idleConn.watch
  stop,      \* per connection: idleConn.stop is closed
  ended      \* history, per connection: what ended the handler's I/O

server == <<listening, spc, taken, drained>>
counts == <<active, wg>>
timers == <<left, idle>>
vars   == <<done, server, counts, hpc, open, timers, watcher, stop, ended>>

Running == {"spawned", "handshake", "dialing", "relay", "away", "closing", "leaving",
             "finishing"}
Ends    == {"none", "client", "lateHandshake", "lateRelay"}

TypeOK ==
  /\ done \in BOOLEAN /\ listening \in BOOLEAN
  /\ spc \in {"listen", "accept", "check", "count", "spawn", "drain", "returned"}
  /\ taken \in Conns \cup {NoConn}
  /\ active \in Nat /\ wg \in Nat
  /\ drained \in {"no", "clean", "timeout"}
  /\ hpc \in [Conns -> Running \cup {"new", "taken", "refused", "gone"}]
  /\ open \in [Conns -> BOOLEAN] /\ stop \in [Conns -> BOOLEAN]
  /\ left \in [Conns -> 0 .. HandshakeTO] /\ idle \in [Conns -> 0 .. IdleTimeout]
  /\ watcher \in [Conns -> {"off", "on", "kill", "ended"}]
  /\ ended \in [Conns -> Ends]

Init ==
  /\ done = FALSE /\ listening = FALSE /\ spc = "listen" /\ taken = NoConn
  /\ active = 0 /\ wg = 0 /\ drained = "no"
  /\ hpc = [c \in Conns |-> "new"] /\ open = [c \in Conns |-> FALSE]
  /\ left = [c \in Conns |-> 0] /\ idle = [c \in Conns |-> 0]
  /\ watcher = [c \in Conns |-> "off"] /\ stop = [c \in Conns |-> FALSE]
  /\ ended = [c \in Conns |-> "none"]

-----------------------------------------------------------------------------
(* Serve.                                                                  *)

Cancel == /\ ~done /\ done' = TRUE
          /\ UNCHANGED <<server, counts, hpc, open, timers, watcher, stop, ended>>

CloseListener == \* Close, called by the goroutine that waits for the context
  /\ done /\ listening /\ listening' = FALSE
  /\ UNCHANGED <<done, spc, taken, drained, counts, hpc, open, timers, watcher, stop, ended>>

Listen ==
  /\ spc = "listen"
  /\ \/ listening' = TRUE /\ spc' = "accept"
     \/ UNCHANGED listening /\ spc' = "returned"   \* the address is taken
  /\ UNCHANGED <<done, taken, drained, counts, hpc, open, timers, watcher, stop, ended>>

Accept(c) ==
  /\ spc = "accept" /\ listening /\ hpc[c] = "new"
  /\ spc' = "check" /\ taken' = c
  /\ hpc' = [hpc EXCEPT ![c] = "taken"] /\ open' = [open EXCEPT ![c] = TRUE]
  /\ UNCHANGED <<done, listening, drained, counts, timers, watcher, stop, ended>>

RefuseForgetsClose == \* mutant: the refused connection is not closed
  /\ spc = "check" /\ active >= MaxConns
  /\ hpc' = [hpc EXCEPT ![taken] = "refused"] /\ UNCHANGED open
  /\ spc' = "accept" /\ taken' = NoConn
  /\ UNCHANGED <<done, listening, drained, counts, timers, watcher, stop, ended>>

Refuse ==
  /\ spc = "check" /\ active >= MaxConns
  /\ hpc' = [hpc EXCEPT ![taken] = "refused"] /\ open' = [open EXCEPT ![taken] = FALSE]
  /\ spc' = "accept" /\ taken' = NoConn
  /\ UNCHANGED <<done, listening, drained, counts, timers, watcher, stop, ended>>

AdmitOneMore == \* mutant: > for >= in the limit's test
  /\ spc = "check" /\ active <= MaxConns /\ spc' = "count"
  /\ UNCHANGED <<done, listening, taken, drained, counts, hpc, open, timers, watcher, stop, ended>>

Admit ==
  /\ spc = "check" /\ active < MaxConns /\ spc' = "count"
  /\ UNCHANGED <<done, listening, taken, drained, counts, hpc, open, timers, watcher, stop, ended>>

Count ==
  /\ spc = "count" /\ spc' = "spawn" /\ active' = active + 1
  /\ UNCHANGED <<done, listening, taken, drained, wg, hpc, open, timers, watcher, stop, ended>>

Spawn ==
  /\ spc = "spawn" /\ spc' = "accept" /\ taken' = NoConn
  /\ wg' = wg + 1 /\ hpc' = [hpc EXCEPT ![taken] = "spawned"]
  /\ UNCHANGED <<done, listening, drained, active, open, timers, watcher, stop, ended>>

AcceptFails ==
  /\ spc = "accept" /\ ~listening /\ spc' = "drain"
  /\ UNCHANGED <<done, listening, taken, drained, counts, hpc, open, timers, watcher, stop, ended>>

DrainDoesNotWait == \* mutant: no wg.Wait
  /\ spc = "drain" /\ spc' = "returned" /\ drained' = "clean"
  /\ UNCHANGED <<done, listening, taken, counts, hpc, open, timers, watcher, stop, ended>>

DrainClean == \* every handler has called wg.Done
  /\ spc = "drain" /\ wg = 0 /\ spc' = "returned" /\ drained' = "clean"
  /\ UNCHANGED <<done, listening, taken, counts, hpc, open, timers, watcher, stop, ended>>

DrainWaitsForever == FALSE /\ UNCHANGED vars   \* mutant: no time limit

DrainTimeout == \* ten seconds have passed
  /\ spc = "drain" /\ spc' = "returned" /\ drained' = "timeout"
  /\ UNCHANGED <<done, listening, taken, counts, hpc, open, timers, watcher, stop, ended>>

Serve == Listen \/ Refuse \/ Admit \/ Count \/ Spawn \/ AcceptFails \/ DrainClean \/ DrainTimeout

-----------------------------------------------------------------------------
(* handleConn.  I/O works on an open connection before its deadline; any   *)
(* byte read or written counts as activity (idleConn.touch).               *)

IOWorksForEver(c) == open[c]   \* mutant: no deadline is set
IOWorks(c) == open[c] /\ left[c] > 0
Touch(c)   == idle' = [idle EXCEPT ![c] = 0]

Start(c) == \* SetDeadline, newIdleConn with its watcher, ServeConn
  /\ hpc[c] = "spawned" /\ hpc' = [hpc EXCEPT ![c] = "handshake"]
  /\ left' = [left EXCEPT ![c] = HandshakeTO]
  /\ watcher' = [watcher EXCEPT ![c] = "on"] /\ Touch(c)
  /\ UNCHANGED <<done, server, counts, open, stop, ended>>

Transfers(c) == \* some bytes of the handshake or of the relayed stream
  /\ hpc[c] \in {"handshake", "relay"} /\ IOWorks(c) /\ Touch(c)
  /\ UNCHANGED <<done, server, counts, hpc, open, left, watcher, stop, ended>>

Requests(c) ==
  /\ hpc[c] = "handshake" /\ IOWorks(c) /\ Touch(c)
  /\ hpc' = [hpc EXCEPT ![c] = "dialing"]
  /\ UNCHANGED <<done, server, counts, open, left, watcher, stop, ended>>

DialReturns(c) == \* the answer to the client must still get through
  /\ hpc[c] = "dialing"
  /\ \/ /\ IOWorks(c) /\ Touch(c)
        /\ \E next \in {"relay", "closing"} : hpc' = [hpc EXCEPT ![c] = next]
     \/ /\ ~IOWorks(c) /\ UNCHANGED idle
        /\ hpc' = [hpc EXCEPT ![c] = "closing"]
  /\ UNCHANGED <<done, server, counts, open, left, watcher, stop, ended>>

Stalls(c) == \* the copies are left with the destination
  /\ hpc[c] = "relay" /\ IOWorks(c)
  /\ hpc' = [hpc EXCEPT ![c] = "away"]
  /\ UNCHANGED <<done, server, counts, open, timers, watcher, stop, ended>>

Resumes(c) == \* the destination reads or sends: a copy turns to the client
  /\ hpc[c] = "away" /\ hpc' = [hpc EXCEPT ![c] = "relay"]
  /\ UNCHANGED <<done, server, counts, open, timers, watcher, stop, ended>>

ClientEnds(c) == \* the client or the destination closes, or talks nonsense
  /\ hpc[c] \in {"handshake", "relay", "away"}
  /\ hpc' = [hpc EXCEPT ![c] = "closing"] /\ ended' = [ended EXCEPT ![c] = "client"]
  /\ UNCHANGED <<done, server, counts, open, timers, watcher, stop>>

IOFails(c) == \* on a connection closed by the watcher, or past its deadline
  /\ hpc[c] \in {"handshake", "relay"} /\ ~IOWorks(c)
  /\ hpc' = [hpc EXCEPT ![c] = "closing"]
  /\ ended' = [ended EXCEPT ![c] = CASE ~open[c] -> "none"
                                     [] hpc[c] = "handshake" -> "lateHandshake"
                                     [] OTHER -> "lateRelay"]
  /\ UNCHANGED <<done, server, counts, open, timers, watcher, stop>>

CloseConn(c) == \* idleConn.Close, called by the library, and conn.Close
  /\ hpc[c] = "closing" /\ hpc' = [hpc EXCEPT ![c] = "leaving"]
  /\ stop' = [stop EXCEPT ![c] = TRUE] /\ open' = [open EXCEPT ![c] = FALSE]
  /\ UNCHANGED <<done, server, counts, timers, watcher, ended>>

Uncount(c) == \* defer s.active.Add(-1)
  /\ hpc[c] = "leaving" /\ hpc' = [hpc EXCEPT ![c] = "finishing"]
  /\ active' = active - 1
  /\ UNCHANGED <<done, server, wg, open, timers, watcher, stop, ended>>

Finish(c) == \* defer s.wg.Done
  /\ hpc[c] = "finishing" /\ hpc' = [hpc EXCEPT ![c] = "gone"]
  /\ wg' = wg - 1
  /\ UNCHANGED <<done, server, active, open, timers, watcher, stop, ended>>

HandleConn(c) == Start(c) \/ Requests(c) \/ IOFails(c) \/ CloseConn(c) \/ Uncount(c) \/ Finish(c)

-----------------------------------------------------------------------------
(* idleConn.watch: reads lastAt under the lock, kills after giving it up.  *)

WatchSees(c) ==
  /\ watcher[c] = "on" /\ idle[c] = IdleTimeout
  /\ watcher' = [watcher EXCEPT ![c] = "kill"]
  /\ UNCHANGED <<done, server, counts, hpc, open, timers, stop, ended>>

WatchKills(c) ==
  /\ watcher[c] = "kill"
  /\ watcher' = [watcher EXCEPT ![c] = "ended"] /\ open' = [open EXCEPT ![c] = FALSE]
  /\ UNCHANGED <<done, server, counts, hpc, timers, stop, ended>>

WatchStops(c) ==
  /\ watcher[c] = "on" /\ stop[c]
  /\ watcher' = [watcher EXCEPT ![c] = "ended"]
  /\ UNCHANGED <<done, server, counts, hpc, open, timers, stop, ended>>

Watch(c) == WatchSees(c) \/ WatchKills(c) \/ WatchStops(c)

Tick == \* time passes for every connection being served
  /\ \E c \in Conns : left[c] > 0 \/ (watcher[c] = "on" /\ idle[c] < IdleTimeout)
  /\ left' = [c \in Conns |-> IF left[c] > 0 THEN left[c] - 1 ELSE 0]
  /\ idle' = [c \in Conns |-> IF watcher[c] = "on" /\ idle[c] < IdleTimeout
                              THEN idle[c] + 1 ELSE idle[c]]
  /\ UNCHANGED <<done, server, counts, hpc, open, watcher, stop, ended>>

-----------------------------------------------------------------------------
Next == Cancel \/ CloseListener \/ Serve \/ Tick
        \/ \E c \in Conns : \/ Accept(c) \/ HandleConn(c) \/ Watch(c)
                            \/ Transfers(c) \/ DialReturns(c) \/ ClientEnds(c)
                            \/ Stalls(c) \/ Resumes(c)

Spec == Init /\ [][Next]_vars

(* The server's own goroutines run; clients and destinations owe nothing.  *)
FairSpec == Spec /\ WF_vars(CloseListener) /\ WF_vars(Serve) /\ WF_vars(Tick)
                 /\ \A c \in Conns : WF_vars(HandleConn(c)) /\ WF_vars(Watch(c))

-----------------------------------------------------------------------------
(* The limit holds although it is tested in one step and the connection    *)
(* counted in another, with handlers leaving in between; and what is       *)
(* counted is exactly the handlers that have not left.                     *)
Counted == {c \in Conns : hpc[c] \in Running \ {"finishing"}}
LimitHeld == /\ active <= MaxConns
             /\ active = Cardinality(Counted) + (IF spc = "spawn" THEN 1 ELSE 0)

(* "drained cleanly" is true: no handler is left, none is about to be      *)
(* spawned, nothing is counted and no connection is open.                  *)
CleanDrainIsQuiet ==
  drained = "clean" =>
    /\ active = 0 /\ spc = "returned"
    /\ \A c \in Conns : hpc[c] \notin Running /\ ~open[c]

(* A connection that was refused or whose handler has left is closed: none *)
(* leaks, whoever closes it first.                                         *)
NoneLeaks == \A c \in Conns : hpc[c] \in {"refused", "leaving", "finishing", "gone"} => ~open[c]

(* Serve returns after cancellation, also when a dial hangs for ever.      *)
ServeReturns == done ~> spc = "returned"

(* No client keeps its slot for ever, however it behaves: the deadline or  *)
(* the idle watcher ends its handler.  They act on the client's connection *)
(* only, so the destination can still hold the slot: for ever in the dial, *)
(* or away from the client in a relay that neither of them reaches.        *)
SlotsComeBack ==
  \A c \in Conns : \/ hpc[c] \in Running ~> hpc[c] = "gone"
                   \/ <>[](hpc[c] \in {"dialing", "away"})

(* The handshake timeout is about the handshake.  (The deadline is never   *)
(* cleared, and cuts relays: see the run relay_cut.)                       *)
RelayOutlivesHandshake == \A c \in Conns : ended[c] # "lateRelay"
=============================================================================
