----------------------------- MODULE MCWorkers -----------------------------
EXTENDS Workers

Base ==
    [sshHost |-> "ssh", sshPort |-> 0, username |-> "u", password |-> "p", privateKey |-> "",
     proxyEnable |-> FALSE, proxyHost |-> "", proxyType |-> "",
     payloadEnable |-> FALSE, request |-> "", networkType |-> "",
     concurrency |-> FALSE, workers |-> 0, startPort |-> 0, host |-> "", port |-> 1080,
     maxConns |-> 0, apiEnable |-> FALSE, apiListen |-> LocalAPI]

Two == [Base EXCEPT !.concurrency = TRUE, !.workers = 2]
WithAPI(c) == [c EXCEPT !.apiEnable = TRUE]

\* one worker and two, with and without the API, the API on a worker's address,
\* the last port, no port, and mistakes validation finds
AllConfigs ==
    {Base, WithAPI(Two),
     [Two EXCEPT !.startPort = 65535],
     [WithAPI(Two) EXCEPT !.apiListen.port = 1081],
     [Two EXCEPT !.port = 0],
     [Base EXCEPT !.networkType = "udp"],
     [Base EXCEPT !.proxyEnable = TRUE],
     [Base EXCEPT !.port = 0]}

NoClash == [given |-> FALSE, controller |-> NoAddr, lowestPort |-> 0, proxies |-> {},
            groups |-> [g \in {} |-> {}]]
AllClashes ==
    {NoClash,
     [NoClash EXCEPT !.given = TRUE, !.controller = [host |-> "", port |-> 1080]],
     [NoClash EXCEPT !.given = TRUE, !.groups = [g \in {"auto"} |-> {"lost"}]]}

OneConfig == {WithAPI(Base)}
OneClash == {NoClash}
=============================================================================
