------------------------------ MODULE ConnFeed ------------------------------
(***************************************************************************)
(* The connection tracker of the API and the WebSocket handlers that show   *)
(* it (clashapi/connections.go, serveConnectionsWS in clashapi/handlers.go). *)
(*                                                                         *)
(* Producers enter and remove connections and then notify; a handler        *)
(* subscribes, shows a first list and then a new one at every notification. *)
(* The list is guarded by mu, the subscriptions by subMu: they are never    *)
(* held together, so everything below is about the gaps between the two.    *)
(*                                                                         *)
(* AddBytes changes the amounts of a connection that is in the list and     *)
(* notifies nobody: a client sees them with the next list.  The list is kept *)
(* here without amounts, and AddBytes is left out.                           *)
(*                                                                         *)
(* A handler is one request.  Its context is not cancelled while it runs:   *)
(* the server has handed the connection over (hijacked it), so a client     *)
(* that leaves is noticed by a write that fails and by nothing else.        *)
(***************************************************************************)
EXTENDS Naturals, FiniteSets

CONSTANTS
    Conns,       \* connections a producer may enter
    Producers,   \* goroutines that call Open and Close
    Handlers,    \* requests of clients for the list
    MaxChanges,  \* bound: calls of Open and Close
    NoList       \* what a client shows before the first list arrives

VARIABLES
    conns,    \* the tracker's map: the connections in it
    subs,     \* handlers whose channel is registered
    full,     \* handlers whose channel (capacity 1) holds a notification
    closed,   \* handlers whose channel is closed
    notifies, \* producers before notify, the list already changed
    changes,  \* calls made so far
    hpc,      \* hpc[h]: where handler h is
    held,     \* held[h]: the snapshot h is about to write
    shown,    \* shown[h]: the list the client of h has last been sent
    client    \* client[h]: "here", "gone", or "reset": writes to it fail

vars == <<conns, subs, full, closed, notifies, changes, hpc, held, shown, client>>
tracker == <<conns, subs, full, closed, notifies, changes>>

Init ==
    /\ conns = {} /\ subs = {} /\ full = {} /\ closed = {} /\ notifies = {}
    /\ changes = 0
    /\ hpc = [h \in Handlers |-> "none"]
    /\ held = [h \in Handlers |-> NoList]
    /\ shown = [h \in Handlers |-> NoList]
    /\ client = [h \in Handlers |-> "none"]

-----------------------------------------------------------------------------
(* Producers *)

\* Open and Close change the list under mu and notify afterwards, without it
Changes(p, list) ==
    /\ p \notin notifies
    /\ changes < MaxChanges
    /\ changes' = changes + 1
    /\ conns' = list
    /\ notifies' = notifies \cup {p}
    /\ UNCHANGED <<subs, full, closed, hpc, held, shown, client>>

Open(p) == \E c \in Conns \ conns : Changes(p, conns \cup {c})

\* of a connection that is not there, too: the delete does nothing, notify runs
Close(p) == \E c \in Conns : Changes(p, conns \ {c})

\* notify: under subMu, to every registered channel, never waiting
Notify(p) ==
    /\ p \in notifies
    /\ notifies' = notifies \ {p}
    /\ full' = full \cup subs
    /\ UNCHANGED <<conns, subs, closed, changes, hpc, held, shown, client>>

-----------------------------------------------------------------------------
(* A handler *)

Goes(h, to) == hpc' = [hpc EXCEPT ![h] = to]

\* mutant: the first list is taken before the handler is registered
SubscribeLate(h) ==
    /\ \/ /\ hpc[h] = "none"
          /\ Goes(h, "late")
          /\ client' = [client EXCEPT ![h] = "here"]
          /\ held' = [held EXCEPT ![h] = conns]
          /\ UNCHANGED subs
       \/ /\ hpc[h] = "late"
          /\ Goes(h, "write")
          /\ subs' = subs \cup {h}
          /\ UNCHANGED <<client, held>>
    /\ UNCHANGED <<conns, full, closed, notifies, changes, shown>>

\* the upgrade, and Subscribe before the first list is taken
Subscribe(h) ==
    /\ hpc[h] = "none"
    /\ Goes(h, "first")
    /\ subs' = subs \cup {h}
    /\ client' = [client EXCEPT ![h] = "here"]
    /\ UNCHANGED <<conns, full, closed, notifies, changes, held, shown>>

\* Snapshot, under mu; the first one and those after a wake-up
Snapshot(h) ==
    /\ \/ hpc[h] = "first" /\ Goes(h, "firstwrite")
       \/ hpc[h] = "woken" /\ Goes(h, "write")
    /\ held' = [held EXCEPT ![h] = conns]
    /\ UNCHANGED <<tracker, shown, client>>

\* WriteJSON while the client, or the kernel in its place, takes the bytes
Write(h) ==
    /\ hpc[h] \in {"firstwrite", "write"}
    /\ client[h] # "reset"
    /\ Goes(h, "loop")
    /\ shown' = [shown EXCEPT ![h] = held[h]]
    /\ UNCHANGED <<tracker, held, client>>

\* WriteJSON fails: the loop ends, but for the first list, where the error is
\* dropped
WriteFails(h) ==
    /\ hpc[h] \in {"firstwrite", "write"}
    /\ client[h] = "reset"
    /\ Goes(h, IF hpc[h] = "write" THEN "leave" ELSE "loop")
    /\ UNCHANGED <<tracker, held, shown, client>>

\* the notification is received
Wakes(h) ==
    /\ hpc[h] = "loop"
    /\ h \in full
    /\ full' = full \ {h}
    /\ Goes(h, "woken")
    /\ UNCHANGED <<conns, subs, closed, notifies, changes, held, shown, client>>

\* mutant: the error of the ping is dropped like that of the first list
PingDropsError(h) ==
    /\ hpc[h] = "loop"
    /\ client[h] = "reset"
    /\ UNCHANGED vars

\* the ticker's ping (every 30 s) finds the client gone; one that succeeds
\* changes nothing
PingFails(h) ==
    /\ hpc[h] = "loop"
    /\ client[h] = "reset"
    /\ Goes(h, "leave")
    /\ UNCHANGED <<tracker, held, shown, client>>

\* mutant: the channel is closed first and then taken out of the map
UnregisterLast(h) ==
    /\ \/ /\ hpc[h] = "leave"
          /\ closed' = closed \cup {h}
          /\ Goes(h, "closedfirst")
          /\ UNCHANGED subs
       \/ /\ hpc[h] = "closedfirst"
          /\ subs' = subs \ {h}
          /\ Goes(h, "done")
          /\ UNCHANGED closed
    /\ UNCHANGED <<conns, full, notifies, changes, held, shown, client>>

\* the deferred unsubscribe: the channel leaves the map under subMu ...
Unregister(h) ==
    /\ hpc[h] = "leave"
    /\ subs' = subs \ {h}
    /\ Goes(h, "unregistered")
    /\ UNCHANGED <<conns, full, closed, notifies, changes, held, shown, client>>

\* ... and is closed after subMu has been given up
CloseChannel(h) ==
    /\ hpc[h] = "unregistered"
    /\ closed' = closed \cup {h}
    /\ Goes(h, "done")
    /\ UNCHANGED <<conns, subs, full, notifies, changes, held, shown, client>>

\* a client closes its connection; what is written next still goes to the
\* kernel, until the peer answers with a reset
ClientLeaves(h) ==
    /\ client[h] = "here"
    /\ client' = [client EXCEPT ![h] = "gone"]
    /\ UNCHANGED <<tracker, hpc, held, shown>>

PeerResets(h) ==
    /\ client[h] = "gone"
    /\ client' = [client EXCEPT ![h] = "reset"]
    /\ UNCHANGED <<tracker, hpc, held, shown>>

Handles(h) ==
    \/ Subscribe(h) \/ Snapshot(h) \/ Write(h) \/ WriteFails(h) \/ Wakes(h)
    \/ PingFails(h) \/ Unregister(h) \/ CloseChannel(h)

Next ==
    \/ \E p \in Producers : Open(p) \/ Close(p) \/ Notify(p)
    \/ \E h \in Handlers : Handles(h) \/ ClientLeaves(h) \/ PeerResets(h)

\* goroutines run on their own, a departed client's peer answers, the ticker
\* ticks; a client that is here may stop reading, so a write may take for ever
Fairness ==
    /\ \A p \in Producers : WF_vars(Notify(p))
    /\ \A h \in Handlers :
          /\ WF_vars(Snapshot(h) \/ WriteFails(h) \/ Wakes(h) \/ Unregister(h) \/ CloseChannel(h))
          /\ WF_vars(PingFails(h))
          /\ WF_vars(PeerResets(h))

Spec == Init /\ [][Next]_vars /\ Fairness

-----------------------------------------------------------------------------
(* Properties *)

Lists == (SUBSET Conns) \cup {NoList}

TypeOK ==
    /\ conns \in SUBSET Conns
    /\ subs \in SUBSET Handlers /\ full \in SUBSET Handlers /\ closed \in SUBSET Handlers
    /\ notifies \in SUBSET Producers
    /\ changes \in Nat
    /\ hpc \in [Handlers -> {"none", "first", "firstwrite", "loop", "woken", "write",
                             "leave", "unregistered", "done"}]
    /\ held \in [Handlers -> Lists] /\ shown \in [Handlers -> Lists]
    /\ client \in [Handlers -> {"none", "here", "gone", "reset"}]

\* A client that waits in front of an old list will be woken: a notification is
\* in its channel, or a producer is on its way to put one there.  The list and
\* the subscriptions are under different locks, and a notification that finds
\* the channel full is dropped (connections.go:36-39, 91-96).
NoWakeupLost ==
    \A h \in Handlers :
        (hpc[h] = "loop" /\ client[h] = "here" /\ shown[h] # conns)
            => h \in full \/ notifies # {}

\* No channel that notify would send to is closed: a send on a closed channel
\* panics, and it would do so in whoever opened a connection (connections.go:80-96).
NothingToClosed == notifies # {} => subs \cap closed = {}

\* The handler of a client that has left ends and gives its subscription back,
\* even if no connection is ever opened again (handlers.go:245-248).
LeaversLeave ==
    \A h \in Handlers : client[h] = "gone" ~> hpc[h] = "done" /\ h \notin subs
=============================================================================
