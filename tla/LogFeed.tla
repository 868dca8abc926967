------------------------------ MODULE LogFeed ------------------------------
(***************************************************************************)
(* The log broadcaster of the API and the WebSocket handlers that pass its  *)
(* messages on (clashapi/logs.go, serveLogsWS in clashapi/handlers.go).      *)
(*                                                                         *)
(* Publish sends to every channel while it holds the lock for reading, so   *)
(* publishers overlap; subscribing and unsubscribing hold it for writing.   *)
(* A message is its number, in the order in which the calls began.          *)
(***************************************************************************)
EXTENDS Naturals, Sequences, FiniteSets

CONSTANTS
    Publishers,  \* goroutines that call Publish
    Handlers,    \* requests of clients for the logs
    Cap,         \* capacity of a subscriber's channel (64 in the code)
    MaxLogs      \* bound: calls of Publish

VARIABLES
    subs,      \* handlers whose channel is registered
    closed,    \* handlers whose channel is closed
    queue,     \* queue[h]: messages in the channel of h
    sending,   \* sending[p]: the message p publishes; 0 when it does not
    todo,      \* todo[p]: channels of subs that p has still to send to
    logs,      \* messages published so far
    returned,  \* history: messages whose Publish has returned
    prior,     \* history: prior[m]: those that had returned when m began
    hpc,       \* hpc[h]: where handler h is
    got,       \* got[h]: what h has received, in its order
    client     \* client[h]: "none", "here", or "reset": writes to it fail

vars == <<subs, closed, queue, sending, todo, logs, returned, prior, hpc, got, client>>

Init ==
    /\ subs = {} /\ closed = {} /\ logs = 0 /\ returned = {}
    /\ queue = [h \in Handlers |-> <<>>]
    /\ sending = [p \in Publishers |-> 0]
    /\ todo = [p \in Publishers |-> {}]
    /\ prior = [m \in 1..MaxLogs |-> {}]
    /\ hpc = [h \in Handlers |-> "none"]
    /\ got = [h \in Handlers |-> <<>>]
    /\ client = [h \in Handlers |-> "none"]

-----------------------------------------------------------------------------
(* Publishers *)

Publishing == {p \in Publishers : sending[p] # 0}

\* the lock is taken for reading: the map cannot change until p returns
Publish(p) ==
    /\ sending[p] = 0
    /\ logs < MaxLogs
    /\ logs' = logs + 1
    /\ sending' = [sending EXCEPT ![p] = logs + 1]
    /\ todo' = [todo EXCEPT ![p] = subs]
    /\ prior' = [prior EXCEPT ![logs + 1] = returned]
    /\ UNCHANGED <<subs, closed, queue, returned, hpc, got, client>>

\* one send, in any order of the channels; dropped when the channel is full
Send(p, h) ==
    /\ h \in todo[p]
    /\ todo' = [todo EXCEPT ![p] = @ \ {h}]
    /\ queue' = [queue EXCEPT ![h] = IF Len(@) < Cap THEN Append(@, sending[p]) ELSE @]
    /\ UNCHANGED <<subs, closed, sending, logs, returned, prior, hpc, got, client>>

\* mutant: the sends are left to a goroutine that Publish does not wait for
ReturnEarly(p) ==
    /\ sending[p] # 0
    /\ sending' = [sending EXCEPT ![p] = IF todo[p] = {} THEN 0 ELSE @]
    /\ returned' = returned \cup {sending[p]}
    /\ UNCHANGED <<subs, closed, queue, todo, logs, prior, hpc, got, client>>

Return(p) ==
    /\ sending[p] # 0 /\ todo[p] = {}
    /\ sending' = [sending EXCEPT ![p] = 0]
    /\ returned' = returned \cup {sending[p]}
    /\ UNCHANGED <<subs, closed, queue, todo, logs, prior, hpc, got, client>>

-----------------------------------------------------------------------------
(* A handler *)

Goes(h, to) == hpc' = [hpc EXCEPT ![h] = to]

\* mutant: writers need not wait for readers (the map is copied before the sends)
LockIgnored == TRUE

\* the lock can be taken for writing: no publisher is in between
LockFree == Publishing = {}

\* the upgrade and Subscribe; then a greeting, whose error is dropped
Subscribe(h) ==
    /\ hpc[h] = "none"
    /\ LockFree
    /\ subs' = subs \cup {h}
    /\ Goes(h, "loop")
    /\ client' = [client EXCEPT ![h] = "here"]
    /\ UNCHANGED <<closed, queue, sending, todo, logs, returned, prior, got>>

Receive(h) ==
    /\ hpc[h] = "loop"
    /\ queue[h] # <<>>
    /\ got' = [got EXCEPT ![h] = Append(@, Head(queue[h]))]
    /\ queue' = [queue EXCEPT ![h] = Tail(@)]
    /\ Goes(h, "write")
    /\ UNCHANGED <<subs, closed, sending, todo, logs, returned, prior, client>>

Write(h) ==
    /\ hpc[h] = "write"
    /\ Goes(h, IF client[h] = "reset" THEN "leave" ELSE "loop")
    /\ UNCHANGED <<subs, closed, queue, sending, todo, logs, returned, prior, got, client>>

\* the deferred unsubscribe, under the lock ...
Unregister(h) ==
    /\ hpc[h] = "leave"
    /\ LockFree
    /\ subs' = subs \ {h}
    /\ Goes(h, "unregistered")
    /\ UNCHANGED <<closed, queue, sending, todo, logs, returned, prior, got, client>>

\* ... and close, without it
CloseChannel(h) ==
    /\ hpc[h] = "unregistered"
    /\ closed' = closed \cup {h}
    /\ Goes(h, "done")
    /\ UNCHANGED <<subs, queue, sending, todo, logs, returned, prior, got, client>>

\* nothing tells a handler that waits for a log that its client has gone
ClientLeaves(h) ==
    /\ client[h] = "here"
    /\ client' = [client EXCEPT ![h] = "reset"]
    /\ UNCHANGED <<subs, closed, queue, sending, todo, logs, returned, prior, hpc, got>>

Next ==
    \/ \E p \in Publishers : Publish(p) \/ Return(p) \/ \E h \in Handlers : Send(p, h)
    \/ \E h \in Handlers :
          \/ Subscribe(h) \/ Receive(h) \/ Write(h) \/ Unregister(h) \/ CloseChannel(h)
          \/ ClientLeaves(h)

Spec == Init /\ [][Next]_vars

-----------------------------------------------------------------------------
(* Properties *)

Seqs == UNION {[1..n -> 1..MaxLogs] : n \in 0..MaxLogs}

TypeOK ==
    /\ subs \in SUBSET Handlers /\ closed \in SUBSET Handlers
    /\ queue \in [Handlers -> Seqs] /\ got \in [Handlers -> Seqs]
    /\ \A h \in Handlers : Len(queue[h]) <= Cap
    /\ sending \in [Publishers -> 0..MaxLogs]
    /\ todo \in [Publishers -> SUBSET Handlers]
    /\ logs \in 0..MaxLogs /\ returned \in SUBSET (1..logs)
    /\ prior \in [1..MaxLogs -> SUBSET (1..MaxLogs)]
    /\ hpc \in [Handlers -> {"none", "loop", "write", "leave", "unregistered", "done"}]
    /\ client \in [Handlers -> {"none", "here", "reset"}]

\* A publisher in the middle of its round never has a closed channel in front of
\* it, although close is called without the lock (logs.go:14-37): the send
\* would panic in whoever logs.
LogsToOpenOnly == \A p \in Publishers : todo[p] \cap closed = {}

\* Whatever overlaps and whatever is dropped, no client is shown a message after
\* one that began only when the first had been published (logs.go:14-24).
LogsInOrder ==
    \A h \in Handlers :
        LET seen == got[h] \o queue[h] IN
        \A i, j \in DOMAIN seen : i < j => seen[j] \notin prior[seen[i]]
=============================================================================
