------------------------------ MODULE MCFeeds ------------------------------
(* The three feeds of the API in one state graph: they share nothing, so a
   behaviour is one of one feed while the other two rest where they begin. *)
EXTENDS ConnFeed

CONSTANTS Cap, MaxLogs, MaxTotal

VARIABLES
    feed,
    logSubs, logClosed, queue, sending, todo, logs, returned, prior, logPc, got, logClient,
    total, last, trafPc, loaded, amount, delivered, missed, trafClient

Amounts == {1, 2}

L == INSTANCE LogFeed WITH Publishers <- Producers, subs <- logSubs, closed <- logClosed,
                           hpc <- logPc, client <- logClient
T == INSTANCE TrafficFeed WITH hpc <- trafPc, client <- trafClient

logVars == <<logSubs, logClosed, queue, sending, todo, logs, returned, prior, logPc, got, logClient>>
trafVars == <<total, last, trafPc, loaded, amount, delivered, missed, trafClient>>
allVars == <<feed, vars, logVars, trafVars>>

AllInit == feed \in {"connections", "logs", "traffic"} /\ Init /\ L!Init /\ T!Init

AllNext ==
    \/ feed = "connections" /\ Next /\ UNCHANGED <<feed, logVars, trafVars>>
    \/ feed = "logs" /\ L!Next /\ UNCHANGED <<feed, vars, trafVars>>
    \/ feed = "traffic" /\ T!Next /\ UNCHANGED <<feed, vars, logVars>>

\* a feed at rest has nothing enabled that is fair
AllSpec == AllInit /\ [][AllNext]_allVars /\ Fairness /\ T!Fairness

-----------------------------------------------------------------------------
(* The properties of the feeds; NoWakeupLost and LeaversLeave are ConnFeed's *)

\* Nothing is sent to a channel that has been closed: neither by notify
\* (connections.go:80-96) nor by Publish (logs.go:14-37).
NoSendOnClosed == NothingToClosed /\ L!LogsToOpenOnly

\* Logs reach a client in the order of the calls that did not overlap (logs.go:14-24).
LogsInOrder == L!LogsInOrder

\* Amounts of traffic written, and those whose write failed, add up to the traffic
\* (traffic.go:23-29, handlers.go:268-271).
TrafficSettles == T!TrafficSettles
=============================================================================
