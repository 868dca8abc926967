----------------------------- MODULE Transport ------------------------------
(***************************************************************************)
(* transport.Dial: network connection, TLS handshake, and the payload: an  *)
(* HTTP-like request is written, the answers are drained for a few         *)
(* seconds, the rest of the request is written and the connection is       *)
(* handed on for the SSH handshake.                                        *)
(*                                                                         *)
(* What the server sends is a sequence of lines, told apart as far as the  *)
(* code does: the status line of a 101 answer, any other status line, a    *)
(* header, the blank line that ends a head, and the SSH banner.  A line is *)
(* on the wire, then with the kernel, then in the bufio.Reader.  A line    *)
(* that arrives in pieces is not modelled; the expected statuses are only  *)
(* logged about and are left out.                                          *)
(***************************************************************************)
EXTENDS Integers, Sequences

CONSTANTS
  Answers,    \* what servers may send: sequences of lines
  Settings    \* records [tls, payload, tail : BOOLEAN, kind : {"tcp", "ws"}]

Lines == {"101", "status", "header", "blank", "ssh"}

ASSUME TransportAssumption ==
  /\ Answers \subseteq Seq(Lines)
  /\ Settings \subseteq [tls : BOOLEAN, payload : BOOLEAN, tail : BOOLEAN, kind : {"tcp", "ws"}]

VARIABLES
  cfg,       \* the configuration
  answer,    \* all that the server sends
  hangup,    \* the server closes after that
  pc,        \* where Dial is
  open,      \* the network connection is open
  wire, kernel, buf,  \* lines not yet arrived, arrived, and in the bufio.Reader
  part,      \* the part of a head readHTTPHead is reading
  first,     \* the first line of that head
  clock,     \* drainResponses' deadline: "off", "running" or "past"
  limit,     \* a read deadline is set on the connection
  writeLimit, \* a write deadline is set on it
  broken,    \* a WebSocket connection whose read has failed once
  stopped    \* history: what ended the drain

server  == <<cfg, answer, hangup>>
lines   == <<wire, kernel, buf>>
reading == <<part, first>>
limits  == <<limit, writeLimit>>
vars    == <<server, pc, open, lines, reading, clock, limits, broken, stopped>>

TypeOK ==
  /\ cfg \in Settings /\ answer \in Answers /\ hangup \in BOOLEAN
  /\ pc \in {"network", "tls", "payload", "head", "drain", "read", "unlimit", "tail",
            "tailwrite", "done", "failed"}
  /\ open \in BOOLEAN
  /\ wire \in Seq(Lines) /\ kernel \in Seq(Lines) /\ buf \in Seq(Lines)
  /\ Len(wire) + Len(kernel) + Len(buf) <= Len(answer)
  /\ part \in {"status", "headers"} /\ first \in Lines
  /\ clock \in {"off", "running", "past"}
  /\ limit \in BOOLEAN /\ writeLimit \in BOOLEAN /\ broken \in BOOLEAN
  /\ stopped \in {"no", "101", "time", "error"}

Init ==
  /\ cfg \in Settings /\ answer \in Answers /\ hangup \in BOOLEAN
  /\ pc = "network" /\ open = FALSE
  /\ wire = answer /\ kernel = <<>> /\ buf = <<>>
  /\ part = "status" /\ first = "blank"
  /\ clock = "off" /\ limit = FALSE /\ writeLimit = FALSE
  /\ broken = FALSE /\ stopped = "no"

-----------------------------------------------------------------------------
(* The environment: lines arrive, time passes.                             *)

Arrive ==
  /\ open /\ wire # <<>>
  /\ \E n \in 1 .. Len(wire) :
       /\ kernel' = kernel \o SubSeq(wire, 1, n)
       /\ wire' = SubSeq(wire, n + 1, Len(wire))
  /\ UNCHANGED <<server, pc, open, buf, reading, clock, limits, broken, stopped>>

TimePasses ==
  /\ clock = "running" /\ clock' = "past"
  /\ UNCHANGED <<server, pc, open, lines, reading, limits, broken, stopped>>

-----------------------------------------------------------------------------
(* Dial: each stage fails, closing what was opened, or goes on.            *)

Fails == /\ pc' = "failed" /\ open' = FALSE
         /\ UNCHANGED <<server, lines, reading, clock, limits, broken, stopped>>

Network ==
  /\ pc = "network"
  /\ \/ Fails
     \/ /\ pc' = IF cfg.tls THEN "tls" ELSE IF cfg.payload THEN "payload" ELSE "done"
        /\ open' = TRUE
        /\ UNCHANGED <<server, lines, reading, clock, limits, broken, stopped>>

TLS ==
  /\ pc = "tls"
  /\ \/ Fails
     \/ /\ pc' = IF cfg.payload THEN "payload" ELSE "done"
        /\ UNCHANGED <<server, open, lines, reading, clock, limits, broken, stopped>>

(* The writes of the payload: SetWriteDeadline, then the Write, after which *)
(* the deadline is taken off again.                                        *)
LimitWrite(from, to) ==
  /\ pc = from
  /\ pc' = to /\ writeLimit' = TRUE
  /\ UNCHANGED <<server, open, lines, reading, clock, limit, broken, stopped>>

LimitHead == LimitWrite("payload", "head")

WriteHead ==
  /\ pc = "head"
  /\ \/ Fails
     \/ /\ pc' = "drain" /\ writeLimit' = FALSE /\ clock' = "running"
        /\ UNCHANGED <<server, open, lines, reading, limit, broken, stopped>>

-----------------------------------------------------------------------------
(* drainResponses and readHTTPHead.                                        *)

Stop(why) == /\ pc' = "unlimit" /\ stopped' = why
             /\ UNCHANGED <<server, open, clock, limits>>

NextHeadUnlimited == \* mutant: no read deadline
  /\ pc = "drain" /\ clock = "running"
  /\ pc' = "read" /\ UNCHANGED limits /\ part' = "status"
  /\ UNCHANGED <<server, open, lines, first, clock, broken, stopped>>

NextHead == \* the loop's condition, and SetReadDeadline
  /\ pc = "drain" /\ clock = "running"
  /\ pc' = "read" /\ limit' = TRUE /\ part' = "status"
  /\ UNCHANGED <<server, open, lines, first, clock, writeLimit, broken, stopped>>

OutOfTime ==
  /\ pc = "drain" /\ clock = "past" /\ Stop("time")
  /\ UNCHANGED <<lines, reading, broken>>

Expired == limit /\ clock = "past"

Fill == \* the bufio.Reader takes all that has arrived
  /\ pc = "read" /\ buf = <<>> /\ kernel # <<>> /\ ~Expired
  /\ buf' = kernel /\ kernel' = <<>>
  /\ UNCHANGED <<server, pc, open, wire, reading, clock, limits, broken, stopped>>

ReadStatus ==
  /\ pc = "read" /\ part = "status" /\ buf # <<>>
  /\ first' = Head(buf) /\ part' = "headers" /\ buf' = Tail(buf)
  /\ UNCHANGED <<server, pc, open, wire, kernel, clock, limits, broken, stopped>>

ReadHeader ==
  /\ pc = "read" /\ part = "headers" /\ buf # <<>> /\ Head(buf) # "blank"
  /\ buf' = Tail(buf)
  /\ UNCHANGED <<server, pc, open, wire, kernel, reading, clock, limits, broken, stopped>>

HeadEnds == \* a 101 answer ends the drain
  /\ pc = "read" /\ part = "headers" /\ buf # <<>> /\ Head(buf) = "blank"
  /\ buf' = Tail(buf)
  /\ IF first = "101" THEN Stop("101")
     ELSE pc' = "drain" /\ UNCHANGED <<server, open, clock, limits, stopped>>
  /\ UNCHANGED <<wire, kernel, reading, broken>>

ReadFails == \* a time-out, or the end of what the server sends
  /\ pc = "read" /\ buf = <<>>
  /\ Expired \/ (hangup /\ kernel = <<>> /\ wire = <<>>)
  /\ Stop("error") /\ broken' = (cfg.kind = "ws")
  /\ UNCHANGED <<lines, reading>>

Unlimit == \* SetReadDeadline(time.Time{})
  /\ pc = "unlimit" /\ limit' = FALSE
  /\ pc' = IF cfg.tail THEN "tail" ELSE "done"
  /\ UNCHANGED <<server, open, lines, reading, clock, writeLimit, broken, stopped>>

LimitTail == LimitWrite("tail", "tailwrite")

WriteTailKeepsLimit == \* mutant: the write deadline is left on
  /\ pc = "tailwrite"
  /\ \/ Fails
     \/ /\ pc' = "done"
        /\ UNCHANGED <<server, open, lines, reading, clock, limits, broken, stopped>>

WriteTail ==
  /\ pc = "tailwrite"
  /\ \/ Fails
     \/ /\ pc' = "done" /\ writeLimit' = FALSE
        /\ UNCHANGED <<server, open, lines, reading, clock, limit, broken, stopped>>

(* What the caller of Dial will read: the bufferedConn's reader first.     *)
RemainingUnbuffered == kernel \o wire   \* mutant: the plain connection is returned
Remaining == buf \o kernel \o wire

-----------------------------------------------------------------------------
Writes == WriteHead \/ WriteTail
Stages == Network \/ TLS \/ LimitHead \/ NextHead \/ OutOfTime \/ Fill \/ ReadStatus
          \/ ReadHeader \/ HeadEnds \/ ReadFails \/ Unlimit \/ LimitTail

Dial == Stages \/ Writes

Next == Arrive \/ TimePasses \/ Dial

Spec == Init /\ [][Next]_vars

(* The calls of the library underneath return: the network and the TLS     *)
(* handshake have a time limit of their own, the wait for answers that of  *)
(* the drain.  A write to a peer that does not read is sure to end only by *)
(* its deadline.                                                           *)
FairSpec ==
  Spec /\ WF_vars(TimePasses) /\ WF_vars(Stages) /\ WF_vars(writeLimit /\ Writes)

-----------------------------------------------------------------------------
Has(s, line) == \E i \in DOMAIN s : s[i] = line

(* What the server sends behind its first 101 answer: behind the first     *)
(* blank line that follows it.                                             *)
AfterSwitch ==
  LET ends == {j \in DOMAIN answer : answer[j] = "blank" /\ Has(SubSeq(answer, 1, j), "101")}
      end  == CHOOSE j \in ends : \A k \in ends : j <= k
  IN  SubSeq(answer, end + 1, Len(answer))

(* Answers as HTTP has them: a head is not empty, and a 101 begins one.    *)
Headed(a) ==
  \A i \in DOMAIN a :
    /\ a[i] = "101" => i = 1 \/ a[i - 1] = "blank"
    /\ a[i] = "blank" => i # 1 /\ a[i - 1] # "blank"

(* After a 101 answer the connection yields exactly what the server sent   *)
(* behind it, whether that came in the same segment or later.              *)
SwitchLosesNothing == stopped = "101" /\ pc = "done" => Remaining = AfterSwitch

(* A failed Dial leaves no connection open, a successful one no deadline:  *)
(* neither the drain's on reads nor a write's, each of which would cut the *)
(* SSH connection seconds later.                                           *)
CleanResult == /\ pc = "failed" => ~open
               /\ pc = "done" => open /\ ~limit /\ ~writeLimit

(* Dial returns, also when the server never answers and never reads.       *)
DialEnds == <>(pc \in {"done", "failed"})

(* "the connection is ready for the SSH handshake": it can be read from,   *)
(* and the server's banner is still to be read.  (After any other answer   *)
(* than a 101 the banner is drained with the answers: see the run          *)
(* banner_lost.  Over a WebSocket a drain that ends by its time limit      *)
(* leaves a connection whose reads all fail.)                              *)
ReadyForHandshake ==
  pc = "done" /\ Has(answer, "ssh") => Has(Remaining, "ssh") /\ ~broken
=============================================================================
