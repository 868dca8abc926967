------------------------------ MODULE Workers ------------------------------
(***************************************************************************)
(* The process: main, its workers and the API server (main.go,              *)
(* clashapi/server.go), from the configuration to the exit.                 *)
(*                                                                         *)
(* A worker is what runWorker does seen from outside: attempts to start the *)
(* SSH manager, a check, serving, closing.  SSHManager and Socks5Server have *)
(* the inside.  That Serve returns after a cancellation is shown there      *)
(* (ServeReturns) and assumed here; Start and Close may never return, as a  *)
(* goroutine of the manager may be caught in an SSH handshake               *)
(* (ShutdownCompletes).                                                     *)
(***************************************************************************)
EXTENDS Config, FiniteSets

CONSTANTS
    Configs,      \* the configurations a user may give
    Clashes,      \* the Clash files, or none, that may come with them
    MaxWorkers,   \* bound: workers of a configuration
    MaxAttempts,  \* attempts to start the SSH manager (5 in the code)
    MaxPort,      \* the largest port number
    NoWorker      \* nobody: the value activeWorker starts with

ASSUME WorkersAssumption ==
    /\ Configs \subseteq Configuration
    /\ MaxWorkers \in Nat /\ NoWorker \notin 0..MaxWorkers

Ids == 1..MaxWorkers

\* the API server, as somebody who listens
API == 0

\* the WorkerRef of a worker that was cancelled: no name, no address
Empty == NoWorker

VARIABLES
    cfg,        \* the configuration, from Init as given, later with defaults
    clash,      \* the Clash file
    mainPc,     \* where main is
    cancelled,  \* the context is cancelled (a signal has been received)
    wpc,        \* wpc[w]: where worker w is
    tries,      \* tries[w]: failed attempts to start its SSH manager
    fate,       \* fate[w]: how its runWorker ended
    listens,    \* who holds its listening address
    active,     \* activeWorker
    refs,       \* workerRefs: workers in the order of their return
    shown,      \* the API's copy of it
    atCopy,     \* history: activeWorker when that copy was made
    api,        \* where the API server is
    shut        \* Shutdown has been called on it

vars == <<cfg, clash, mainPc, cancelled, wpc, tries, fate, listens, active, refs, shown,
          atCopy, api, shut>>

Addrs == ListenAddrs(cfg)
Started == {w \in Ids : w <= Len(Addrs)}
Addr(x) == IF x = API THEN APIListen(cfg, clash) ELSE Addrs[x]

\* two listeners cannot have a port in common on one host; port 0 asks for any
Conflict(a, b) ==
    /\ a.port = b.port /\ a.port # 0
    /\ a.host = b.host \/ "" \in {a.host, b.host}

Range16(a) == a.port \in 0..MaxPort

\* net.Listen succeeds
CanListen(x) ==
    /\ Range16(Addr(x))
    /\ \A y \in listens : ~Conflict(Addr(x), Addr(y))

Running == mainPc \notin {"failed", "exited"}

Init ==
    /\ cfg \in Configs /\ clash \in Clashes
    /\ mainPc = "boot" /\ cancelled = FALSE
    /\ wpc = [w \in Ids |-> "none"]
    /\ tries = [w \in Ids |-> 0]
    /\ fate = [w \in Ids |-> "none"]
    /\ listens = {}
    /\ active = NoWorker /\ atCopy = NoWorker
    /\ refs = <<>> /\ shown = <<>>
    /\ api = "off" /\ shut = FALSE

-----------------------------------------------------------------------------
(* main *)

\* both files are in order and the rules can be built: the workers start
Boots ==
    /\ mainPc = "boot"
    /\ LET c == ApplyDefaults(cfg)
           y == IF clash.given THEN ClashDefaults(clash) ELSE clash
       IN /\ ValidateAll(c) = {}
          /\ clash.given => ClashValid(y)
          /\ cfg' = c
          /\ clash' = y
          /\ wpc' = [w \in Ids |-> IF w <= Len(ListenAddrs(c)) THEN "new" ELSE "none"]
    /\ mainPc' = "sleep"
    /\ UNCHANGED <<cancelled, tries, fate, listens, active, refs, shown, atCopy, api, shut>>

\* a file that cannot be read or is not valid, or a rule engine that cannot be
\* built, ends the process before it starts a worker
BootFails ==
    /\ mainPc = "boot"
    /\ mainPc' = "failed"
    /\ UNCHANGED <<cfg, clash, cancelled, wpc, tries, fate, listens, active, refs, shown,
                   atCopy, api, shut>>

\* two seconds later the list is copied for the API, if there is to be one
Copies ==
    /\ mainPc = "sleep"
    /\ mainPc' = "wait"
    /\ IF cfg.apiEnable
         THEN shown' = refs /\ atCopy' = active /\ api' = "starting"
         ELSE UNCHANGED <<shown, atCopy, api>>
    /\ UNCHANGED <<cfg, clash, cancelled, wpc, tries, fate, listens, active, refs, shut>>

\* wg.Wait; the end of main is the end of every other goroutine
Exits ==
    /\ mainPc = "wait"
    /\ \A w \in Started : wpc[w] = "done"
    /\ mainPc' = "exited"
    /\ UNCHANGED <<cfg, clash, cancelled, wpc, tries, fate, listens, active, refs, shown,
                   atCopy, api, shut>>

\* the first signal; later ones stay in the channel and are ignored
Signal ==
    /\ mainPc \in {"sleep", "wait"}
    /\ ~cancelled
    /\ cancelled' = TRUE
    /\ UNCHANGED <<cfg, clash, mainPc, wpc, tries, fate, listens, active, refs, shown,
                   atCopy, api, shut>>

-----------------------------------------------------------------------------
(* The API server *)

APIListens ==
    /\ Running /\ api = "starting"
    /\ ~shut /\ CanListen(API)
    /\ api' = "listening"
    /\ listens' = listens \cup {API}
    /\ UNCHANGED <<cfg, clash, mainPc, cancelled, wpc, tries, fate, active, refs, shown,
                   atCopy, shut>>

\* ListenAndServe returns: its address is taken, or Shutdown was faster
APIFails ==
    /\ Running /\ api = "starting"
    /\ shut \/ ~CanListen(API)
    /\ api' = "closed"
    /\ UNCHANGED <<cfg, clash, mainPc, cancelled, wpc, tries, fate, listens, active, refs,
                   shown, atCopy, shut>>

\* the goroutine of Start that waits for the context
APIShutdown ==
    /\ Running /\ api # "off"
    /\ cancelled /\ ~shut
    /\ shut' = TRUE
    /\ listens' = listens \ {API}
    /\ api' = IF api = "listening" THEN "closed" ELSE api
    /\ UNCHANGED <<cfg, clash, mainPc, cancelled, wpc, tries, fate, active, refs, shown,
                   atCopy>>

-----------------------------------------------------------------------------
(* A worker *)

At(w, pc) == Running /\ wpc[w] = pc
Goes(w, pc) == wpc' = [wpc EXCEPT ![w] = pc]
Ends(w, how) == fate' = [fate EXCEPT ![w] = how]
processUnchanged == <<cfg, clash, mainPc, cancelled, shown, atCopy, api, shut>>

\* the dialer, which an unknown type of network fails
Begins(w) ==
    /\ At(w, "new")
    /\ \/ HasDialer(cfg) /\ Goes(w, "attempt") /\ UNCHANGED fate
       \/ ~HasDialer(cfg) /\ Goes(w, "done") /\ Ends(w, "dialer")
    /\ UNCHANGED <<processUnchanged, tries, listens, active, refs>>

StartSucceeds(w) ==
    /\ At(w, "attempt")
    /\ Goes(w, "check")
    /\ UNCHANGED <<processUnchanged, tries, fate, listens, active, refs>>

StartFails(w) ==
    /\ At(w, "attempt")
    /\ Goes(w, "pause")
    /\ tries' = [tries EXCEPT ![w] = @ + 1]
    /\ UNCHANGED <<processUnchanged, fate, listens, active, refs>>

\* the pause is over
PauseEnds(w) ==
    /\ At(w, "pause")
    /\ \/ tries[w] < MaxAttempts /\ Goes(w, "attempt") /\ UNCHANGED fate
       \/ tries[w] = MaxAttempts /\ Goes(w, "done") /\ Ends(w, "nossh")
    /\ UNCHANGED <<processUnchanged, tries, listens, active, refs>>

\* a cancellation ends it: main takes this error for none and enters an empty ref
PauseCancelled(w) ==
    /\ At(w, "pause")
    /\ cancelled
    /\ Goes(w, "append")
    /\ Ends(w, "cancelled")
    /\ UNCHANGED <<processUnchanged, tries, listens, active, refs>>

\* mutant: the return on an error skips wg.Done
CheckFailsSilently(w) ==
    /\ At(w, "check")
    /\ Goes(w, "lost")
    /\ Ends(w, "nossh")
    /\ UNCHANGED <<processUnchanged, tries, listens, active, refs>>

\* the state is read once; a tunnel that has fallen meanwhile is given up
CheckFails(w) ==
    /\ At(w, "check")
    /\ Goes(w, "done")
    /\ Ends(w, "nossh")
    /\ UNCHANGED <<processUnchanged, tries, listens, active, refs>>

\* the first worker to come up becomes the active one
CheckPasses(w) ==
    /\ At(w, "check")
    /\ Goes(w, "up")
    /\ active' = IF active = NoWorker THEN w ELSE active
    /\ UNCHANGED <<processUnchanged, tries, fate, listens, refs>>

Serves(w) ==
    /\ At(w, "up")
    /\ CanListen(w)
    /\ listens' = listens \cup {w}
    /\ Goes(w, "serve")
    /\ UNCHANGED <<processUnchanged, tries, fate, active, refs>>

\* the error of Serve is logged; what follows is as after a good end
ServeFails(w) ==
    /\ At(w, "up")
    /\ ~CanListen(w)
    /\ Goes(w, "closing")
    /\ Ends(w, "nolisten")
    /\ UNCHANGED <<processUnchanged, tries, listens, active, refs>>

\* Serve returns after a cancellation
ServeEnds(w) ==
    /\ At(w, "serve")
    /\ cancelled
    /\ listens' = listens \ {w}
    /\ Goes(w, "closing")
    /\ Ends(w, "served")
    /\ UNCHANGED <<processUnchanged, tries, active, refs>>

\* mgr.Close has waited for the supervisor, which may be reconnecting
CloseReturns(w) ==
    /\ At(w, "closing")
    /\ Goes(w, "append")
    /\ UNCHANGED <<processUnchanged, tries, fate, listens, active, refs>>

\* main's goroutine enters the ref, and wg.Done
Returns(w) ==
    /\ At(w, "append")
    /\ refs' = Append(refs, IF fate[w] = "cancelled" THEN Empty ELSE w)
    /\ Goes(w, "done")
    /\ UNCHANGED <<processUnchanged, tries, fate, listens, active>>

\* what a worker does by itself; Start and Close may hang in a handshake
Steps(w) ==
    \/ Begins(w) \/ PauseEnds(w) \/ PauseCancelled(w) \/ CheckFails(w) \/ CheckPasses(w)
    \/ Serves(w) \/ ServeFails(w) \/ ServeEnds(w) \/ Returns(w)

Next ==
    \/ Boots \/ BootFails \/ Copies \/ Exits \/ Signal
    \/ APIListens \/ APIFails \/ APIShutdown
    \/ \E w \in Ids : Steps(w) \/ StartSucceeds(w) \/ StartFails(w) \/ CloseReturns(w)

Fairness ==
    /\ WF_vars(Boots \/ BootFails) /\ WF_vars(Copies) /\ WF_vars(Exits)
    /\ WF_vars(APIListens \/ APIFails) /\ WF_vars(APIShutdown)
    /\ \A w \in Ids : WF_vars(Steps(w))

Spec == Init /\ [][Next]_vars /\ Fairness

-----------------------------------------------------------------------------
(* Properties *)

\* What the API shows of the selector (GET /proxies)
Offered == {shown[i] : i \in DOMAIN shown}
Now == IF active = NoWorker /\ shown # <<>> THEN shown[1] ELSE active

\* A configuration that has passed validation gives each worker a dialer and an
\* address of its own: one that cannot listen has the API in its way, or a port
\* beyond the last one, which validation does not look for (config.go:154-171, 222).
ValidatedRuns ==
    \A w \in Ids :
        /\ fate[w] # "dialer"
        /\ fate[w] = "nolisten" =>
              \/ ~Range16(Addr(w))
              \/ cfg.apiEnable /\ Conflict(Addr(w), Addr(API))

\* After a signal the process ends, whether or not the API has started, unless a
\* worker's manager is caught in an SSH handshake: in an attempt to start, or in a
\* reconnect that Close waits for (main.go:90-95, 123, 192, 252, 261, 295).
SignalEnds ==
    (\A w \in Ids : []<>(wpc[w] \notin {"attempt", "closing"}))
        => (cancelled ~> mainPc = "exited")

\* "Set sebagai active worker pertama (untuk YACD selector)" (main.go:273), after
\* "Beri waktu worker init" (main.go:137): a worker that was up and active when
\* the list was copied is among those the selector offers.
SelectorOffersActive ==
    (api = "listening" /\ atCopy # NoWorker) => Now \in Offered
=============================================================================
