# gosshtunnel, modelled in TLA+

gosshtunnel is a Go program that opens SSH tunnels through a proxy (TCP, TLS,
WebSocket, optional HTTP payload) and offers each as a local SOCKS5 server. One
process runs several *workers*; a worker is one SOCKS5 listener in front of one
SSH tunnel. The repository has no tests and a one-line README; what the code
promises is in its comments and log messages (in Indonesian), and the models
are written from the code.

This directory holds

| module | what it is |
|---|---|
| `SSHManager` | one tunnel: manager, supervisor, start loop of its worker, callers of Dial |
| `Tunnel` | what the manager promises whoever dials; `SSHManager` implements it |
| `QLoad` | the limiter, circuit breaker and adaptive timeout in front of a dial |
| `HealthTracker` | the window, averages and state machine that judge a tunnel |
| `AutoHeal` | the tracker with the calls it observes and the tunnel its callbacks tear down |
| `Socks5Server` | accept loop, connection limit, handlers, idle watchers, drain |
| `Transport` | the dial pipeline and the drain of a proxy's answers |
| `Rules` | loading, building, matching and routing by Clash rules |
| `GeoData` | the decoding of geosite.dat, as operators `Rules` uses |
| `Workers` | the process: main, its workers, the API server, the exit |
| `Config` | defaults, validation and listen addresses, as operators `Workers` uses |
| `ConnFeed`, `LogFeed`, `TrafficFeed` | the API's trackers with the WebSocket handlers that show them |
| `MC*` | model values, bounds and inputs for TLC |
| `SSHManagerProofs`, `QLoadProofs`, `AutoHealProofs`, `Socks5ServerProofs`, `TransportProofs`, `RulesProofs`, `WorkersProofs`, `FeedsProofs` | theorems and their machine-checked proofs |

`PROJECT.json` lists the components, runs, mutants, theorems, hazards and
findings, and maps every definition to its source lines.

## 1. The system

### Parts, their state and how they interact

```
 client --SOCKS5--> socks5.Server --route--> rules.Engine
                         |  ssh / direct / reject
                         v
                  sshclient.Manager.Dial --> ssh.Client.Dial (channel)
                         |  Observe                  ^
                         v                           |
                  health.Tracker --onDegrade, onUnhealthy--> markDown
                  health.Probe  --ProbeOK/ProbeFail--> Tracker
 Manager.connect --> qload.QLoad.Dial --> transport.Dial --> network.Dialer
 runWorker: starts the manager, serves, closes it        clashapi: shows it all
```

| component (source) | state | operations | module |
|---|---|---|---|
| SSH manager (`sshclient/manager.go`) | `state` (atomic), `client`/`sshConn` (mutex), supervisor's pause and counters, WaitGroup | Start, connect, supervise, keepaliveOnce, markDown, Dial, Close, health callbacks | SSHManager |
| process and workers (`main.go`) | context; attempts; list of WorkerRefs; active worker | boot, start loop, check, Serve, Close; list copied for the API; signal; exit | Workers; SSHManager (one worker's loop) |
| QLoad (`qload/qload.go`) | semaphore, `failures`, `openedAt`, `currentTimeout` | Dial, allow, onSuccess, onFailure, adaptTimeout | QLoad |
| health tracker (`health/tracker.go`) | window, EWMA (mutex); state (atomic); two stamps (plain fields) | Observe, evaluate, transition, percentile | HealthTracker, AutoHeal |
| health probe (`health/probe.go`) | ticker | once, ProbeOK/ProbeFail | as steps of SSHManager and AutoHeal |
| SOCKS5 server (`socks5/server.go`) | listener, `active` (atomic), WaitGroup | Serve, handleConn, drain, Close, route | Socks5Server, Rules |
| idle connection (`socks5/idleconn.go`) | `lastAt` (mutex), stop channel | Read, Write, touch, watch, Close | Socks5Server |
| transport (`transport/`) | a connection under construction, read buffer, deadline | Dial, applyPayload, drainResponses, readHTTPHead | Transport |
| network dialers (`network/`) | none | NewDialer, DialContext | Config (NewDialer), a step of Transport |
| rule engine (`internal/rules/`) | ordered rules, geosite tables | Build, Parse, Match | Rules |
| geosite data (`internal/geodata/`) | table loaded once | load, decode | GeoData, Rules |
| API server (`clashapi/server.go`, `handlers.go`) | listener; its copy of the workers | Start, Shutdown, HTTP handlers | Workers |
| API trackers (`clashapi/connections.go`, `logs.go`, `traffic.go`) | connections and totals; subscribers' channels; four atomics | Open, Close, Publish, Add, Snapshot, Subscribe, notify, WebSocket handlers | ConnFeed, LogFeed, TrafficFeed |
| configuration (`config/`, `internal/clashconfig/`) | none after load | defaults, validate, ListenAddrs | Config |
| logger, errs, safe | none | formatting | not modelled |

### What is hard here

* **Goroutines over atomics.** Manager's state and connection, the breaker's two
  atomics and the tracker's state and stamps are each read and written one after
  the other with nothing across them. Each access of Manager's fields, of the breaker's
  atomics and of the tracker's state is an action of its own; what `evaluate` itself does
  with the tracker's two stamps is one step (section 2).
* **Spawned goroutines.** `go m.markDown()` and the tracker's `go cb()` run
  whenever they like, also after the tunnel they were meant for has been rebuilt.
* **Failure.** The peer may drop a connection, answer late or never answer; every
  stage of a dial may fail after earlier stages have opened something.
* **Time.** Keepalive, handshake deadline, idle watcher, breaker cooldown, drain
  deadline, shutdown limit: each may be overtaken by the event it guards against.
* **Shutdown.** Cancellation meets goroutines in dials, handshakes and pauses, an
  API that has not started, workers that have not come up.
* **Feedback.** The tracker judges calls through the tunnel it tears down; its
  verdicts cause failures that it judges next.
* **Subscriptions.** A list, its announcement and the channel it goes to are under
  different locks, channels are bounded, and subscribers leave at any moment.

### What makes each component correct

* SSHManager: one connect at a time; connect never silently skipped; an installed
  connection always belongs to someone; nothing leaks; Close leaves nothing; the
  tunnel heals; shutdown completes; callers stuck on a dead connection are freed.
* QLoad: slots come back; a full count of failures trips the breaker; a tripped
  breaker recovers; the timeout stays in range under lost updates.
* HealthTracker: the percentile is one; a verdict and the state agree between
  calls; recovery takes the hold, but for one stamp the code leaves behind after a slow
  call (`HealTakesHold`); tunnel and tracker together come to rest.
* Socks5Server: the limit holds; a clean drain is clean; every connection is
  closed; Serve returns; no client keeps a slot, unless its destination does: in a dial
  that hangs, or in a relay it neither reads from nor writes to.
* Transport: what follows a 101 answer is handed on intact; a failed dial leaves
  nothing open, a successful one no deadline for reads or writes; Dial returns.
* Rules, GeoData: the first line in force that applies decides; a category covers
  what the file says it covers.
* Workers, Config: what validation lets through runs; a signal ends the process,
  unless a worker is caught in an SSH handshake;
  the API offers the workers there are (it does not).
* Feeds: no wake-up is lost, nothing is sent to a closed channel, logs keep their
  order, departed clients are noticed, amounts of traffic written, and the one a departed
  client missed, add up.

## 2. The modules

### SSHManager

`state`, `client`, `open`, `broken` are the tunnel; a transport connection is a
number. `pc` says what the start loop (`"boot"`, in `runWorker`) and the supervisor
(`"sup"`) do next, `md[g]` where goroutine g is inside `markDown`, `dpc[d]` where
caller d is inside `Dial`.

* `connect` is `ConnectCAS`, `DialBegins`, `TransportDials`/`TransportFails`,
  `HandshakeOK`/`HandshakeFails`, `SetConn`, `PublishUp`: the code's accesses of
  shared state in their order. A dial does not begin under a context that is done, and one
  that has begun may still succeed when it is cancelled late. A connect that is skipped because the state is not
  Down returns nil, as in the code.
* `markDown` is CAS, `clearConn`, close: three steps (`MarkDownWins`/`Loses`,
  `ClearConn`, `CloseHeld`), run by the supervisor, by `Close` and by spawned
  goroutines, of which `Tasks` many may exist at once.
* `Start` that fails returns to the start loop, which pauses and tries again; one
  that succeeds starts supervisor and probe.
* The tracker may spawn a callback at every `Observe`; which call does is the
  tracker's business and left open here (`HealthTracker` has it in detail).
* A call in `c.Dial` on a connection that works returns either way; on one the
  peer has abandoned it hangs until this side closes it.
* `overtaken` is a history variable: a connect has begun while a markDown stood
  between its CAS and `clearConn`. In that window the code can take the *new*
  connection out and leave a state Up without a connection, or drop an old one
  unclosed. The window needs a goroutine to be descheduled between two adjacent
  statements for as long as a reconnect's pause, so `NoOrphan` and `UpMeansConn`
  are stated outside it, `ClientOwned` and liveness inside it as well: the tunnel
  heals even then, because the keepalive finds no connection.

`Tunnel` is the same manager as seen by Dial: Down, Connecting or Up, the connection
on offer while Up, how many were made, whether Close has returned. It says that
every Up period comes on a connection made for that attempt, so that no caller is
ever given one that was offered before, that it keeps that one until it goes Down,
and that nothing happens after Close. Its gap is explicit: once an attempt has
begun before an earlier tear-down was over (`late`), a tunnel may lose its
connection while Up. `Promise` in `SSHManager` is the refinement mapping: `offered`
is `client` in the state Up, `fresh` somebody past the transport's dial, `late` is
`overtaken`, `closed` the end of the start loop's process.

### QLoad

One action per access of an atomic. The instant of an opening is a number, and
"Cooldown has passed" the flag `cooled`. `Succ1` keeps Go's short-circuiting
`||`: with failures counted, `openedAt` is not swapped. `adaptTimeout` is a load
and a store, with an attempt's duration from a set. A context that expires is
counted against `MaxFaults`.

### HealthTracker

Durations are small numbers with the thresholds between them; the percentile and
the EWMA are the code's arithmetic (the error average in whole percent, rounded down). A stamp is
`"zero"`, `"fresh"` or `"held"` (its hold has passed). `Judge` is the part of
`evaluate` under the lock; `LoadState` and the decision are steps of their own, and so
are `transition`'s load, store, stamp and callback (`TransitLoads` to `TransitSpawns`).
The decision reads and writes the stamps, which are plain fields, in one step
(`StaysBad`, `GoodAgain`): finer steps would add that two calls which both find the hold of
Degraded exceeded spawn its callback twice. `calm` is a history variable: how long verdicts have been
good, told from the verdicts and not from the stamp the code decides by. The thresholds are assumed ordered (`DegradedRTT <= UnhealthyRTT`),
which the configuration does not enforce. `Sorted` picks an arrangement of the window in
ascending order, which is what the code's insertion sort leaves. The counters and
the average the API shows are left out.

### AutoHeal

Extends `HealthTracker` by what it observes and what it does. `Calls` and
`CallRefused` are `Manager.Dial`, `ProbeReports` the probe's second observation of
what its Dial has observed already, `Spawns` the steps of `evaluate` that start a
callback and `Evaluates` those that do not, `Heals` a `markDown` that was spawned
(by a callback or a failed call) and runs, `Reconnects` the supervisor. The tunnel is
up or down; `SSHManager` has its inside, and `Heals` of that module is what fairness
of `Reconnects` stands on.

One assumption about time is in the guards of `MayCall`, `HealHold` and
`DegradedHold`: a goroutine that has been spawned runs before the probe's next call,
seconds later, and before another hold has passed. Without it TLC shows a loop in
which every callback comes so late that it tears down the tunnel a later reconnect
has made; the code relies on the scheduler there.

### Socks5Server

Three parties per connection: the server loop, the handler, the watcher. Time is
a global Tick that moves every deadline and idle time; goroutines may be slower
than their timers, never faster. The protocol belongs to armon/go-socks5: a
handler reads a request, dials, relays, and the library closes the connection it
was given. In a relay the handler may be `"away"`: its copies wait for the destination, one to
write and one to read, and do nothing on the client's connection, so that neither the
deadline nor the watcher's close ends it. A destination comes back when it likes
(`Resumes`), or never. The library resolves a host name before it dials, so `route` usually
sees addresses; `Rules` has requests of both kinds.

### Transport

What the server sends is a sequence of lines (a 101 status, another status, a
header, a blank line, the SSH banner); a line is on the wire, with the kernel, or
in the `bufio.Reader`, which takes all that has arrived. A line never arrives in
pieces. The deadlines for reading and for writing are state: `LimitHead`/`LimitTail` set
the one a write goes under, `WriteHead`/`WriteTail` write and clear it. The stages fail or
go on. `broken` is gorilla/websocket's permanent read
error.

### Rules and GeoData

A host is its sequence of labels, a regular expression or a CIDR the set it
matches, a keyword the set of labels that contain it. `LoadSites`/`LoadFails` read
geosite.dat, `Add`/`Skip` are `Build`'s
loop, `RuleMatches`/`RulePasses`/`NoRuleMatches` are `Engine.Match`'s, `Route` is
the SOCKS server's three ways. `Matches` is written from the code's tests and
tables; `Says` is the independent meaning of a line the property compares with.
Left out: splitting and case folding of text, rules with an empty argument
(`DOMAIN,,X` matches requests that have no host), the case of geosite categories.
`RulesAssumption` says what that leaves: a well-formed suffix has labels, a network
holds addresses, and a file is a sequence of fields, of which those that embed messages
hold sequences of fields again.

A protobuf message is the sequence of its fields, and a tag, length or varint that
runs past the end a field that is not `ok`. `DecodeGeoSiteList` and the decoders under it
are recursive functions that follow the code's loops field by field (overwrite, append,
skip); `Written` is the same read off the file by looking for the last field of a kind.

### Workers and Config

A configuration is a record of the settings that decide something. `Boots` applies
defaults and validation and starts one worker per address; a worker goes through
`attempt`, `pause`, `check`, `up`, `serve`, `closing`, `append`, `done` as `runWorker` and
the goroutine around it do. An attempt may hang (a handshake), `mgr.Close` may wait for a
supervisor that hangs in the handshake of a reconnect (`closing`), and the check may fail at
any time (the ghost worker), all of which `SSHManager` shows; that Serve
returns after a cancellation is taken from `Socks5Server`. `CanListen`
is `net.Listen`: a port in range that nobody has on the same host. The API starts
in a goroutine of its own and may meet its Shutdown first.

### ConnFeed, LogFeed, TrafficFeed

Three trackers that share nothing; `MCFeeds` puts them into one state graph in which a
behaviour belongs to one of them. A handler is one request with its subscription. A client
that leaves is noticed by a write that fails only: the server has handed the
connection over (hijacked it), so the request's context is not cancelled. `ConnFeed`
keeps the list and the subscriptions under their two locks: change, announcement and
snapshot are steps of their own, and a channel of capacity one is a flag.
`LogFeed` has publishers overlapping under the read lock, sending to one channel
after the other, and subscribers that need the write lock; Go's lock also
holds new readers back when a writer waits, which the model does not need.
`TrafficFeed` has Snapshot's load and swap as two steps, for one of the two
directions, and keeps what clients were written (`delivered`) apart from what could not be
written to one that had left (`missed`). Nothing in the repository calls `Open`, `Publish` or
`AddUpload` yet: the producers are what these methods allow.

## 3. What is checked

Twelve runs: eight pass, four are expected to find a violation, because the code
disagrees with what one of its own comments or messages says.

| run | question | instance |
|---|---|---|
| `manager` | who owns state and connection in every interleaving; does the manager implement Tunnel; does the tunnel heal, does shutdown complete, are stuck callers freed | one caller, two spawned goroutines, 2 faults, 8 connections (enough that none is ever refused); 0.6 M states |
| `ghost_worker` | can a tunnel come up after its worker gave up, with nothing cancelled (yes) | one fault |
| `breaker` | slots, trip, range of the timeout under races; does the breaker close for good, does a waiting call return | 3 callers, 2 slots, threshold 2, 3 faults |
| `autoheal` | percentile, verdicts, hold before recovery; do tracker and tunnel come to rest | the probe and a caller, window of 3, thresholds 2 % and 10 %, 2 bad samples or calls; 0.8 M states |
| `socks` | limit, drain, leaks; does Serve return, do slots come back | 2 clients, 1 slot, dials that may hang, destinations that may stall |
| `relay_cut` | does the handshake's deadline cut a relay (yes) | the worker's proportion 15 s : 20 s |
| `dial` | what follows a 101, failures, deadlines, termination | all settings, up to two answers, any segmentation |
| `banner_lost` | is the banner there after another answer (no) | one 200 answer over TCP |
| `rules_first` | does the first applicable line decide; is a category what the file says | every configuration of up to 3 of 15 lines, 10 requests, 4 files and none; 1.4 M states |
| `workers` | who can listen; does a signal end the process | up to 2 workers, 8 configurations, 3 Clash files |
| `api_blind` | does the API offer the active worker (no) | 1 worker |
| `feeds` | wake-ups, closed channels, order, departed clients, amounts | 2 producers, 2 clients, 3 changes, 3 messages, a queue of 1; 0.6 M states |

(`ghost_worker`, `relay_cut`, `banner_lost` and `api_blind` are the violations.)

Every property of a passing run has a mutant: a plausible bug in a mapped
definition, under which TLC finds the property violated (`PROJECT.json`). The
mutants stand next to the definitions they change, marked `mutant`.

### Bounds, and why they are enough

* *Goroutines.* Two processes can run connect (fixed by the code). Two spawned
  goroutines are enough for one to be late while another acts; one caller suffices
  because a caller only reads shared state and spawns. A third breaker caller can
  wait while two hold slots; a second tracker caller can be late.
* *Counters.* `MaxConns`, `MaxDials`, `MaxFaults`, `MaxBad` bound how often the
  environment acts, and only that: the program's own steps are never bounded. In
  `manager` `MaxConns` is large enough that no behaviour meets it.
* *Numbers.* Backoff 1..2 has a doubling and a cap; Timeout 6, MinTarget
  2 and MaxBackoff 4 stand in the worker's order (its timeout starts
  above its cap, 15 s over 10 s), and the durations give every target between them. The window of three fills and wraps. Percent 60
  makes the rank differ at each fill.
  `MaxTrouble` bounds bad samples, faults and users' calls together; the probe's
  calls are never bounded.
* *Sockets.* One slot and two clients: the limit is met, and a refused client
  leaves while the admitted one is in any state. One connection in the feed's list
  is enough for a list to be old, current and current again; a log queue of one
  overflows at the second message; three messages give an order that two
  publishers can break.
* *Files.* The four files of geosite data have fields out of order, said twice, unknown, an entry
  of the same name, one without a name, one without domains, an unknown type of domain, a regular
  expression that does not compile, and a field cut short.
* *Configurations.* One and two workers, the API off, on, and on a worker's address;
  first ports 0, 1080 and 65535; one mistake of each kind the start depends on.
* *Deadlock* is checked for QLoad and AutoHeal, which never stop. A worker
  that is done, a server that has returned, a finished dial, a routed request, an
  exited process and a client that has left do stop.

### Fairness, and why the code justifies it

Weak fairness, on what runs on its own:

* SSHManager: the supervisor, the start loop and every markDown (goroutines that
  are never blocked for good there); the exit of Serve after cancellation; a call
  of `c.Dial` only once its connection is closed on this side. The handshake has
  none: `ssh.NewClientConn` is called without a deadline, and the liveness
  properties except a goroutine caught in it. Faults, signals and new calls have none.
* QLoad: time passes for a cooldown; a caller goes on and calls again (the
  supervisor retries for ever).
* AutoHeal: the probe calls for ever and a call that has begun goes on; spawned
  goroutines run; the supervisor reconnects; time passes for `HealHold`. Users' calls
  have none.
* Socks5Server: the server's goroutines and time. Clients, dials and destinations have
  none, and `SlotsComeBack` excepts a handler that stays with its destination.
* Transport: calls into the network return (each has a limit), time passes.
* Workers: main and every worker's steps; an attempt to start SSH and `mgr.Close` have
  none, and `SignalEnds` excepts a worker that stays in one of them.
* Feeds: goroutines that have something to do, the ticker, and the reset that
  answers a write to a departed client. A write to a client that is there has none in
  `ConnFeed` (the client may stop reading); `TrafficFeed` assumes a client that
  stays reads. `LogFeed` has none: nobody need ever log.

## 4. What is proved

For every value of the constants that satisfies the named assumptions, checked by
the TLA+ proof system:

* `SSHManagerProofs`: `TypeOK`, `StateMatchesConnector`, `ConnectFindsDown`,
  `ClientOwned`, `NoOrphan`, `UpMeansConn`, `CloseReleases` are invariants - for
  any number of callers, of spawned goroutines and of connections. `Implementation`:
  SSHManager implements Tunnel (`ImplementsTunnel`), under the same constants.
  `PauseGrows`: `BackoffMatchesFails`, for any bounds of the pause and any number of
  failures.
* `QLoadProofs`: `TypeOK`, `SlotsAccounted`, `TripsAtThreshold`, `TimeoutInRange`,
  `OpenMeansFailing` are invariants - for any number of callers, any threshold,
  concurrency and timeouts.
* `AutoHealProofs`: `HealTypeOK`, `PercentileIsNearestRank` and `StateFollowsMetrics` are
  invariants of tracker and tunnel - for any window, percentile, thresholds and number
  of callers; the second says something of calls that did not overlap. So does
  `HealTakesHold`, an action property, for every error threshold of Degraded below 16
  percent.
* `Socks5ServerProofs`: `TypeOK`, `LimitHeld`, `NoneLeaks`, `CleanDrainIsQuiet` are
  invariants - for any number of clients, any limit and any timers.
* `TransportProofs`: `CleanResult`, of both deadlines, is an invariant for any answers
  whatever;
  `SwitchLosesNothing` for answers of any number and length that are heads as HTTP has
  them (`Headed`).
* `RulesProofs`: `TableAsWritten` and `FirstLineDecides` are invariants - for any
  configuration of any length, any requests and any file with any number of fields.
* `WorkersProofs`: `ValidatedRuns` is an invariant for every set of configurations.
* `FeedsProofs`: `NoWakeupLost`, `NoSendOnClosed` and `LogsInOrder` are invariants of
  the feeds together - for any number of producers and clients and any capacity.

**SSHManager.** None of the properties is inductive alone. The invariant `IInv` is
`TypeOK /\ Control /\ Conns`:

* `Control` says where the two processes can be at once (`Phases`: the supervisor
  starts when Start returns; Close waits for it before its markDown; each process
  runs markDown at one place only), that the start loop counts its attempts, and
  `StateInv`: Connecting exactly while somebody is in connect, and Down in the
  places named by `KnownDown`. The argument for `ConnectFindsDown` is there: the
  supervisor reaches connect only through its own markDown (or having seen the state
  not Up), and nobody but a connector raises the state, so no spawned markDown can
  hurt. Hence the silent "connect skipped" is dead code.
* `Conns` follows connections: who can hold one (`HoldInv`), that outside
  `overtaken` no markDown is before `clearConn` while the tunnel is coming up or Up
  (`ClearInv`), and the two ownership properties themselves.

`TypeOKStep`, the steps for Control and for Conns go through `Next` action by
action; the theorems combine them with PTL.

`Implementation` needs one more invariant, `FreshInv`: the connection under
construction is the last one made, and a connect about to publish Up finds that
one installed, or none. `PromiseStep` maps each action to one of Tunnel's or to a
stutter; that `PublishUp` finds *its* connection rests on `ClearInv`, that nothing
rises after Close on `Phases`.

`BackoffMatchesFails` says that the pause is the base doubled once per failure, up to
the cap. It needs `2^(n+1) = 2 * 2^n`, and exponentiation is not in the provers'
arithmetic: `Powers` gets it from the number of subsets of a set. `DoubledTwice` and
`NotDoubled` are the two cases of the supervisor's `min`.

**QLoad.** `IInv` adds to the properties that a caller before an attempt has retries
left, that a loaded timeout is in range, and that the semaphore's count is the
cardinality of its holders; lemmas about finite sets move one caller in or out.
That the timeout stays in range uses that a quarter of a distance, divided toward
zero, never overshoots (`QuarterBounds`, `ShortenedBetween`, `LengthenedBetween`).
`OpenMeansFailing` has an invariant of its own, `Alone`: as long as no two calls
overlapped, what the one call has read of the two atomics is still there.

**AutoHeal.** `PercentileIsNearestRank` is a theorem about operators: `Prefix` arranges
a window step by step, `SortedSorts` concludes that it can be sorted at all,
`RankCounts` counts the samples below and above a place of the sorted window through a
bijection, `RankFits` is the arithmetic of the rank. They go by induction over the
length of the window, as the least number for which the claim fails (`LeastNat`).
`StateFollowsMetrics` is not inductive: `Alone` says what an observer in each place
of `evaluate` knows (`UpToDate`) and that nothing has changed since, as long as no two
overlapped. `HealTakesHold` rests on two more, under the same condition.
`Counting` relates `calm` to the stamp: a bad verdict that changed no state has cleared it,
the first good one after that sets it anew. `Unspoilt` excludes the remaining case while
no call was slow: errors alone make a verdict bad then (`ErrorsDecide`), a failure lifts
the average to 20 percent at least, and one call later it is 16 at least (`ErrSteps`), so
that below that threshold the verdict after one that made the state worse is bad again and
clears the stamp of the last healthy period. Hence the hypothesis (the default is 2
percent).

**Socks5Server.** `InHand` says which connection the loop has in its hands between
Accept and its decision, `Counts` that the counter and the WaitGroup are the numbers of
handlers in certain places (sets of connections, moved in and out one at a time by
`Moves`), `OpenInUse` who will close an open connection, `Drained` what a finished drain
found. The limit holds although the loop tests the counter and adds to it in two steps,
because nobody else adds.

**Transport.** `Clean` speaks of the places of Dial alone. `Followed` says that there
is a place k of the answer up to which it has been read, that what is left of it lies on
the wire, with the kernel and in the buffer in this order (`Left`), and that k is inside
or between heads (`Reading`); existence of k is what makes the invariant work, since the model
keeps no such counter. The hypothesis that answers are heads is the protocol's: a
server may send anything, but what follows a 101 is defined only by its blank line. TLC
evaluates it on the answers of the run (`HeadedAssumption`).

**Rules.** `InOrder` says that the engine's rules are the lines that parse, by an
increasing function from rules to lines, `Asked` that every rule before the one Match
looks at did not match. `SuffixIsWithin` and `MatchesWhatItSays` relate the code's tests to what a
line says.

For a GEOSITE line that is the table, and `TableAsWritten` is about loops over the fields
of a file. A recursive function is a CHOOSE, so each decoder needs to be shown to be
what its definition says (`DomainRuns`, `GeoSiteRuns`, `ListRuns`, from `Iterates`: for any
step there is the sequence of states a loop goes through). Then the loops' invariants are
inductions over the fields (`UpToN`, from the least number for which a claim fails):
`LastWins` for a value that is overwritten, `DecodedGeoSite` for the list that is appended to, `DecodedList`
for the table in which a later entry replaces an earlier one. `TableSays` puts the
three levels together, and `CategoryCovers` compares the matcher's exact, suffix and
pattern tables with the file's words. `Decoded` says that the table is never changed again.

**Workers.** `ValidatedConfigs` is the theorem about `validate`: a configuration it
accepts, with defaults applied, has a dialer and different ports for its workers. The
invariant carries it from the start to the workers (`Validated`), and says who may be
listening when one tries (`Placed`).

**The feeds.** For the list of connections (`ConnInv`) the invariant says of
a handler in any place what `NoWakeupLost` says of one that waits: what it is about
to write, or has written, is current or followed by a wake-up. It also says who is
registered: `notify` reaches every handler with a snapshot because it subscribed
first. The bound on the changes plays no part. For the logs (`LogInv`) a
message in its round has not returned, and what returned before another began, has
(`Underway`): so appending it to any history keeps the order. Publishers hold the
lock while they have channels to send to (`LogRegistration`), so a channel is neither
unregistered nor closed under them. `EachFeed` takes both from the feeds together:
a behaviour of all is one of each. The theorems about the logs assume only that the
bounds are natural numbers (`Capacity`).

Only model-checked: everything temporal other than invariance, refinement and action
properties (`Heals`, `ShutdownCompletes`, `StuckDialReturns`, `Recovers`, `DialReturns`,
`HealingSettles`, `ServeReturns`, `SlotsComeBack`, `DialEnds`, `SignalEnds`,
`LeaversLeave`, `TrafficSettles`: liveness under fairness is beyond the prover).

## 5. Where the code disagrees with itself

* **A worker that gives up is not gone** (`ghost_worker`, main.go:267). The start
  loop may succeed, the tunnel fail before the check, and runWorker then reports
  that SSH never came up, without `mgr.Close`: supervisor and probe go on. TLC's trace
  ends with the supervisor's reconnect Up, the worker gone and nothing cancelled.
* **The handshake timeout is a connection timeout** (`relay_cut`,
  socks5/server.go:177). The deadline is never cleared, so every relay ends 15 s
  after accept.
* **The drain swallows the SSH banner** (`banner_lost`, payload.go:153) after any
  answer that is not a 101. Over a WebSocket the drain's time-out itself leaves a
  connection that cannot be read (`broken`).
* **The API never sees a running worker** (`api_blind`, main.go:157). The list of
  workers is copied two seconds after start, "to give the workers time to
  initialise", but a worker enters it only when runWorker returns, at shutdown. The
  selector names the active worker and offers none.

Seen while modelling, with no text in the repository to hold the code to:

* `onSuccess` (qload.go:179) skips the second Swap when the first found failures,
  so a success that overlaps failures can log "closed" over an open breaker. The
  tunnel dials from one goroutine, where `OpenMeansFailing` holds.
* onDegrade, logged under the code of an exceeded hold, also runs at the
  transition to Degraded (tracker.go:248).
* A keyword of a geosite category is entered as a suffix (geosite.go:44).
* One destination that refuses its channel tears down the tunnel every other
  connection is using (manager.go:183).
* With the worker's settings the adaptive timeout starts above its cap, so the first
  failure shortens it (qload.go:155); a call cancelled in its pause counts as failed
  (qload.go:129).
* A REJECT line with a mistake in it is skipped with a warning, and what it should
  block goes through (rules/builder.go:37).
* With network `ws` and `transport.tls` both set, TLS is done twice.
* A probe that times out leaves its Dial running (manager.go:84); a late success
  is never closed.
* route dials through SSH when there is no engine (socks5/server.go:70), but Build
  returns an engine without rules, which answers DIRECT, when there is no Clash file
  (rules/builder.go:31): such a worker sends every connection past its tunnel.
* The types of a geosite domain are numbered Domain, Full, Regex, Keyword
  (geodata/loader.go:13); files written with another numbering are read wrongly.
* A probe is observed twice, so one failed probe takes the error average past the
  default for Degraded. Unhealthy asks for a reconnect once, Degraded again and again
  (tracker.go:205, 212).
* A worker cancelled in its start loop enters an empty WorkerRef (main.go:126-132). A
  second signal is swallowed (main.go:91).
* Once a Clash file is given, `clash_api.listen` is never used: the file's controller has a
  default (clashconfig/loader.go:44, main.go:147).
* With several workers, `listen.port` may be 0 and they get the ports 0, 1, ...; ports
  past 65535 are not looked for (config.go:162, 219). A worker that cannot listen
  ends without an error (main.go:292).
* healthySince is not cleared when a state is left for a worse one (tracker.go:237): after
  a slow call a worker may recover at the next good verdict, without the hold.
* A destination that takes nothing and sends nothing holds a relay for good: the idle
  watcher closes the client's connection, which the relay is not using (idleconn.go:87).
* An idle timeout of one nanosecond panics in a ticker (idleconn.go:66).
* `AddBytes` notifies nobody (connections.go:43). Two clients of the traffic feed
  split the traffic between them and may be shown negative amounts; an amount for a
  client that has just left is lost (traffic.go:23, handlers.go:268). The log handler notices a
  departed client only when something is logged (handlers.go:288).
* `PUT /proxies/...` answers 501 always: main sets no SetActiveWorker. A group of the
  Clash file named like the selector replaces it (handlers.go:105).

## 6. Not modelled, and why

Logging, error wrapping, `safe` (no caller), `DialThroughProxy` (no caller), the
health HTTP endpoint (never started): nothing to decide. The text of payloads,
JSON and HTML: rendering. The API's remaining handlers, its secret and its static
files: each renders what is there and changes nothing. Host keys and authentication: outcomes of a handshake.
The network dialers: one library call each. go-socks5, x/crypto/ssh, gorilla and
the operating system: external, as their callers see them.

## 7. Plan

Every component of the plan is modelled, and every invariant and action property that
the runs check is a theorem. To come: the safety part of `TrafficSettles` (what was
written, missed or is about to be written is what was swapped), and invariants that carry the model-checked liveness
properties half way, such as who releases a slot in QLoad and Socks5Server.
