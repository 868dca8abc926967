------------------------------ MODULE Config ------------------------------
(***************************************************************************)
(* What the program makes of its two configuration files before anything    *)
(* runs: defaults, validation and the addresses that follow from them       *)
(* (config/config.go, internal/clashconfig/loader.go).                       *)
(*                                                                         *)
(* A configuration is the record Load returns; a text that is not given is  *)
(* "", a number that is not given 0.  An address is a host and a port.      *)
(***************************************************************************)
EXTENDS Integers, Sequences

\* what Load returns, as far as the program's control depends on it
Configuration ==
    [sshHost: STRING, sshPort: Int, username: STRING, password: STRING, privateKey: STRING,
     proxyEnable: BOOLEAN, proxyHost: STRING, proxyType: STRING,
     payloadEnable: BOOLEAN, request: STRING, networkType: STRING,
     concurrency: BOOLEAN, workers: Int, startPort: Int, host: STRING, port: Int,
     maxConns: Int, apiEnable: BOOLEAN, apiListen: [host: STRING, port: Int]]

Or(given, default) == IF given = "" THEN default ELSE given

ApplyDefaults(c) ==
    [c EXCEPT !.networkType = Or(@, "tcp"),
              !.proxyType = Or(@, "http"),
              !.workers = IF @ <= 0 THEN 1 ELSE @,
              !.sshPort = IF @ = 0 THEN 22 ELSE @,
              !.maxConns = IF @ <= 0 THEN 2048 ELSE @]

\* what ValidateAll finds wrong
ValidateAll(c) ==
    {e \in {"ssh.host", "ssh.username", "ssh.secret", "proxy.host", "payload.request",
            "listen.port", "network.type", "proxy.type"} :
        \/ e = "ssh.host" /\ c.sshHost = ""
        \/ e = "ssh.username" /\ c.username = ""
        \/ e = "ssh.secret" /\ c.password = "" /\ c.privateKey = ""
        \/ e = "proxy.host" /\ c.proxyEnable /\ c.proxyHost = ""
        \/ e = "payload.request" /\ c.payloadEnable /\ c.request = ""
        \/ e = "listen.port" /\ c.port = 0 /\ ~c.concurrency
        \/ e = "network.type" /\ c.networkType \notin {"tcp", "ws"}
        \/ e = "proxy.type" /\ c.proxyType \notin {"", "http", "socks5"}}

\* network.NewDialer knows the type
HasDialer(c) == c.networkType \in {"tcp", "", "ws"}

\* mutant: the port is not counted up
ListenAddrsAlike(c) ==
    LET start == IF c.startPort = 0 THEN c.port ELSE c.startPort
    IN [i \in 1..c.workers |-> [host |-> Or(c.host, "127.0.0.1"), port |-> start]]

\* one address, or one for each worker, counting up from a first port
ListenAddrs(c) ==
    LET host == Or(c.host, "127.0.0.1")
        start == IF c.startPort = 0 THEN c.port ELSE c.startPort
    IN IF ~c.concurrency \/ c.workers <= 1
         THEN <<[host |-> host, port |-> c.port]>>
         ELSE [i \in 1..c.workers |-> [host |-> host, port |-> start + i - 1]]

-----------------------------------------------------------------------------
(* The Clash file, which is optional *)

LocalAPI == [host |-> "127.0.0.1", port |-> 9090]
NoAddr == [host |-> "", port |-> 0]

\* applyDefaults, as far as the program uses it
ClashDefaults(y) == [y EXCEPT !.controller = IF @ = NoAddr THEN LocalAPI ELSE @]

\* Validate: a group may refer to proxies, groups and three reserved names
ClashValid(y) ==
    /\ y.lowestPort >= 0
    /\ LET known == {"DIRECT", "REJECT", "GLOBAL"} \cup y.proxies \cup DOMAIN y.groups
       IN \A g \in DOMAIN y.groups : y.groups[g] \subseteq known

\* main: the Clash file's controller goes before the API's own address; with the
\* default above that one counts only when there is no Clash file
APIListen(c, y) == IF y.given /\ y.controller # NoAddr THEN y.controller ELSE c.apiListen
=============================================================================
