---------------------------- MODULE TrafficFeed ----------------------------
(***************************************************************************)
(* The traffic tracker of the API and the WebSocket handlers that report    *)
(* amounts once a second (clashapi/traffic.go, serveTrafficWS in            *)
(* clashapi/handlers.go).                                                    *)
(*                                                                         *)
(* Snapshot loads a total and swaps it with the one of the snapshot before, *)
(* whoever took that.  Upload and download are treated alike and share      *)
(* nothing; one of them is modelled.                                        *)
(***************************************************************************)
EXTENDS Integers

CONSTANTS
    Handlers,  \* requests of clients for the traffic
    Amounts,   \* what one call of AddUpload may add
    MaxTotal   \* bound: the total counted

VARIABLES
    total,     \* the counter
    last,      \* its value at the last Swap
    hpc,       \* hpc[h]: where handler h is
    loaded,    \* loaded[h]: what h has loaded of total (and last, in a mutant)
    amount,    \* amount[h]: what Snapshot returned to h, not yet written
    delivered, \* history: the sum of the amounts written to clients
    missed,    \* history: the sum of those whose write failed
    client     \* client[h]: "none", "here", or "reset": writes to it fail

vars == <<total, last, hpc, loaded, amount, delivered, missed, client>>
tally == <<delivered, missed>>

Init ==
    /\ total = 0 /\ last = 0 /\ delivered = 0 /\ missed = 0
    /\ hpc = [h \in Handlers |-> "none"]
    /\ loaded = [h \in Handlers |-> [now |-> 0, before |-> 0]]
    /\ amount = [h \in Handlers |-> 0]
    /\ client = [h \in Handlers |-> "none"]

Goes(h, to) == hpc' = [hpc EXCEPT ![h] = to]

Add(n) ==
    /\ total + n <= MaxTotal
    /\ total' = total + n
    /\ UNCHANGED <<last, hpc, loaded, amount, tally, client>>

Connect(h) ==
    /\ hpc[h] = "none"
    /\ Goes(h, "tick")
    /\ client' = [client EXCEPT ![h] = "here"]
    /\ UNCHANGED <<total, last, loaded, amount, tally>>

\* the ticker fires and Snapshot begins
Load(h) ==
    /\ hpc[h] = "tick"
    /\ loaded' = [loaded EXCEPT ![h] = [now |-> total, before |-> last]]
    /\ Goes(h, "swap")
    /\ UNCHANGED <<total, last, amount, tally, client>>

\* mutant: last is loaded with the total and stored, not swapped
SwapByStore(h) ==
    /\ hpc[h] = "swap"
    /\ last' = loaded[h].now
    /\ amount' = [amount EXCEPT ![h] = loaded[h].now - loaded[h].before]
    /\ Goes(h, "write")
    /\ UNCHANGED <<total, loaded, tally, client>>

\* the amount is what the Swap gives: below zero when another handler has
\* swapped in a newer total since this one loaded its own
Swap(h) ==
    /\ hpc[h] = "swap"
    /\ last' = loaded[h].now
    /\ amount' = [amount EXCEPT ![h] = loaded[h].now - last]
    /\ Goes(h, "write")
    /\ UNCHANGED <<total, loaded, tally, client>>

\* an amount whose write fails is in no later report: last has been swapped
Write(h) ==
    /\ hpc[h] = "write"
    /\ amount' = [amount EXCEPT ![h] = 0]
    /\ IF client[h] = "reset"
         THEN Goes(h, "done") /\ missed' = missed + amount[h] /\ UNCHANGED delivered
         ELSE Goes(h, "tick") /\ delivered' = delivered + amount[h] /\ UNCHANGED missed
    /\ UNCHANGED <<total, last, loaded, client>>

ClientLeaves(h) ==
    /\ client[h] = "here"
    /\ client' = [client EXCEPT ![h] = "reset"]
    /\ UNCHANGED <<total, last, hpc, loaded, amount, tally>>

Next ==
    \/ \E n \in Amounts : Add(n)
    \/ \E h \in Handlers :
          Connect(h) \/ Load(h) \/ Swap(h) \/ Write(h) \/ ClientLeaves(h)

\* the ticker ticks and a handler goes on; a client that stays reads
Fairness == \A h \in Handlers : WF_vars(Load(h) \/ Swap(h) \/ Write(h))

Spec == Init /\ [][Next]_vars /\ Fairness

-----------------------------------------------------------------------------
(* Properties *)

TypeOK ==
    /\ total \in 0..MaxTotal /\ last \in 0..MaxTotal
    /\ hpc \in [Handlers -> {"none", "tick", "swap", "write", "done"}]
    /\ loaded \in [Handlers -> [now : 0..MaxTotal, before : 0..MaxTotal]]
    /\ amount \in [Handlers -> Int] /\ delivered \in Int /\ missed \in Int
    /\ client \in [Handlers -> {"none", "here", "reset"}]

\* However snapshots interleave, every byte counted is told to somebody exactly once,
\* or lost in the one report whose write to a departed client fails: once no more is
\* counted, what has been written and what could not be written come to the total and
\* stay there, as long as somebody goes on asking (traffic.go:23-29, handlers.go:268-271).
TrafficSettles ==
    (\E h \in Handlers : <>[](client[h] = "here")) => <>[](delivered + missed = total)
=============================================================================
