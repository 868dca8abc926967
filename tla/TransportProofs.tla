-------------------------- MODULE TransportProofs ---------------------------
(***************************************************************************)
(* Theorems about Transport for any settings and any answers of servers.   *)
(***************************************************************************)
EXTENDS Transport, TLAPS

USE TransportAssumption

-----------------------------------------------------------------------------
(* A Dial leaves nothing behind.                                           *)

(* The connection is open from the network's success to a failure, and has *)
(* a read deadline only while answers are drained, a write deadline only   *)
(* during a write.                                                         *)
Clean ==
  /\ pc = "failed" => ~open
  /\ pc \notin {"network", "failed"} => open
  /\ limit => pc \in {"drain", "read", "unlimit"}
  /\ writeLimit => pc \in {"head", "tailwrite", "failed"}

LEMMA CleanStep == Clean /\ [Next]_vars => Clean'
<1> SUFFICES ASSUME Clean, [Next]_vars PROVE Clean'
  OBVIOUS
<1> USE DEF Clean, Fails, Stop, limits, LimitWrite
<1>1. CASE UNCHANGED vars \/ Arrive \/ TimePasses
  BY <1>1 DEF vars, Arrive, TimePasses
<1>2. CASE Network \/ TLS \/ LimitHead \/ WriteHead \/ LimitTail \/ WriteTail
  BY <1>2 DEF Network, TLS, LimitHead, WriteHead, LimitTail, WriteTail
<1>3. CASE NextHead \/ OutOfTime \/ Unlimit
  BY <1>3 DEF NextHead, OutOfTime, Unlimit
<1>4. CASE Fill \/ ReadStatus \/ ReadHeader
  BY <1>4 DEF Fill, ReadStatus, ReadHeader
<1>5. CASE HeadEnds \/ ReadFails
  BY <1>5 DEF HeadEnds, ReadFails
<1>6. QED
  BY <1>1, <1>2, <1>3, <1>4, <1>5 DEF Next, Dial, Stages, Writes

(* A failed Dial has closed what it opened, a successful one has taken the *)
(* drain's read deadline and the deadlines of its writes off again.        *)
THEOREM DialIsClean == Spec => []CleanResult
<1>1. Init => Clean
  BY DEF Init, Clean
<1>2. Clean => CleanResult
  BY DEF Clean, CleanResult
<1>3. QED
  BY <1>1, <1>2, CleanStep, PTL DEF Spec

-----------------------------------------------------------------------------
(* What has been read and what is left.                                    *)

Types ==
  /\ answer \in Answers /\ answer \in Seq(Lines)
  /\ wire \in Seq(Lines) /\ kernel \in Seq(Lines) /\ buf \in Seq(Lines)
  /\ pc \in {"network", "tls", "payload", "head", "drain", "read", "unlimit", "tail",
            "tailwrite", "done", "failed"}
  /\ part \in {"status", "headers"}

(* The first k lines have been read; the others follow one another in the  *)
(* reader, with the kernel and on the wire.                                *)
Left(k) ==
  /\ k + Len(buf) + Len(kernel) + Len(wire) = Len(answer)
  /\ \A i \in 1 .. Len(buf) : buf[i] = answer[k + i]
  /\ \A i \in 1 .. Len(kernel) : kernel[i] = answer[k + Len(buf) + i]
  /\ \A i \in 1 .. Len(wire) : wire[i] = answer[k + Len(buf) + Len(kernel) + i]

(* No 101 answer up to line k, where a head has ended or none has begun.   *)
BetweenHeads(k) ==
  /\ k = 0 \/ answer[k] = "blank"
  /\ \A i \in 1 .. k : answer[i] # "101"

(* The head that line h begins is read up to line k; no 101 before it.     *)
InHead(h, k) ==
  /\ h \in 1 .. k
  /\ \A i \in 1 .. h - 1 : answer[i] # "101"
  /\ \A i \in h .. k : answer[i] # "blank"

Reading(k) ==
  /\ pc \in {"network", "tls", "payload", "head", "drain"} \/ (pc = "read" /\ part = "status")
       => BetweenHeads(k)
  /\ pc = "read" /\ part = "headers" => \E h \in 1 .. k : InHead(h, k) /\ answer[h] = first
  /\ stopped = "101" =>
       /\ pc \in {"unlimit", "tail", "tailwrite", "done", "failed"}
       /\ k > 0 /\ answer[k] = "blank"
       /\ \E h \in 1 .. k - 1 : InHead(h, k - 1) /\ answer[h] = "101"

Followed == Types /\ (Headed(answer) => \E k \in 0 .. Len(answer) : Left(k) /\ Reading(k))

-----------------------------------------------------------------------------
(* The lines move on.                                                      *)

LEMMA TypesStep == Types /\ [Next]_vars => Types'
<1> SUFFICES ASSUME Types, [Next]_vars PROVE Types'
  OBVIOUS
<1> USE DEF Types, Fails, Stop, server, lines, reading, LimitWrite
<1>1. CASE UNCHANGED vars \/ TimePasses
  BY <1>1 DEF vars, TimePasses
<1>2. CASE Arrive
  BY <1>2 DEF Arrive
<1>3. CASE Network \/ TLS \/ LimitHead \/ WriteHead \/ LimitTail \/ WriteTail
  BY <1>3 DEF Network, TLS, LimitHead, WriteHead, LimitTail, WriteTail
<1>4. CASE NextHead \/ OutOfTime \/ Unlimit \/ ReadFails
  BY <1>4 DEF NextHead, OutOfTime, Unlimit, ReadFails
<1>5. CASE Fill
  BY <1>5 DEF Fill
<1>6. CASE ReadStatus \/ ReadHeader \/ HeadEnds
  <2>1. buf # <<>> /\ buf' = Tail(buf) /\ UNCHANGED <<answer, kernel, wire>>
    BY <1>6 DEF ReadStatus, ReadHeader, HeadEnds
  <2>2. buf' \in Seq(Lines)
    BY <2>1
  <2>3. pc' \in {"drain", "read", "unlimit"} /\ part' \in {"status", "headers"}
    BY <1>6 DEF ReadStatus, ReadHeader, HeadEnds
  <2>4. QED
    BY <2>1, <2>2, <2>3
<1>7. QED
  BY <1>1, <1>2, <1>3, <1>4, <1>5, <1>6 DEF Next, Dial, Stages, Writes

(* Arriving and being buffered leave the order of the lines alone.         *)
LEMMA LeftArrives ==
  ASSUME Types, NEW k \in 0 .. Len(answer), Left(k), Arrive
  PROVE  Left(k)'
<1>1. PICK n \in 1 .. Len(wire) :
        /\ kernel' = kernel \o SubSeq(wire, 1, n)
        /\ wire' = SubSeq(wire, n + 1, Len(wire))
  BY DEF Arrive
<1>2. UNCHANGED <<answer, buf>>
  BY DEF Arrive, server
<1>3. /\ Len(kernel) \in Nat /\ Len(wire) \in Nat /\ Len(buf) \in Nat /\ n \in Nat
      /\ Len(answer) \in Nat /\ k \in Nat
  BY <1>1 DEF Types
<1>4. Len(kernel') = Len(kernel) + n /\ Len(wire') = Len(wire) - n
  BY <1>1 DEF Types
<1>5. \A i \in 1 .. Len(kernel') :
        kernel'[i] = IF i <= Len(kernel) THEN kernel[i] ELSE wire[i - Len(kernel)]
  BY <1>1 DEF Types
<1>6. \A i \in 1 .. Len(wire') : wire'[i] = wire[n + i]
  BY <1>1 DEF Types
<1>7. \A i \in 1 .. Len(kernel') : kernel'[i] = answer[k + Len(buf) + i]
  <2> TAKE i \in 1 .. Len(kernel')
  <2>1. CASE i <= Len(kernel)
    <3>1. i \in 1 .. Len(kernel)
      BY <1>3, <1>4, <2>1
    <3>2. kernel'[i] = kernel[i]
      BY <1>5, <2>1
    <3>3. kernel[i] = answer[k + Len(buf) + i]
      BY <3>1 DEF Left
    <3>4. QED
      BY <3>2, <3>3
  <2>2. CASE i > Len(kernel)
    <3>1. i - Len(kernel) \in 1 .. Len(wire)
      BY <1>1, <1>3, <1>4, <2>2
    <3>2. k + Len(buf) + Len(kernel) + (i - Len(kernel)) = k + Len(buf) + i
      BY <1>3
    <3>3. kernel'[i] = wire[i - Len(kernel)]
      BY <1>3, <1>5, <2>2
    <3>4. wire[i - Len(kernel)] = answer[k + Len(buf) + Len(kernel) + (i - Len(kernel))]
      BY <3>1 DEF Left
    <3>5. QED
      BY <3>2, <3>3, <3>4
  <2>3. QED
    BY <1>3, <1>4, <2>1, <2>2
<1>8. \A i \in 1 .. Len(wire') : wire'[i] = answer[k + Len(buf) + Len(kernel') + i]
  <2> TAKE i \in 1 .. Len(wire')
  <2>1. n + i \in 1 .. Len(wire)
    BY <1>1, <1>3, <1>4
  <2>2. k + Len(buf) + Len(kernel) + (n + i) = k + Len(buf) + Len(kernel') + i
    BY <1>3, <1>4
  <2>3. QED
    BY <1>6, <2>1, <2>2 DEF Left
<1>9. k + Len(buf) + Len(kernel') + Len(wire') = Len(answer)
  <2>1. k + Len(buf) + Len(kernel) + Len(wire) = Len(answer)
    BY DEF Left
  <2>2. Len(kernel') + Len(wire') = Len(kernel) + Len(wire)
    BY <1>3, <1>4
  <2>3. Len(kernel') \in Nat /\ Len(wire') \in Nat
    BY <1>1, <1>3, <1>4
  <2>4. QED
    BY <1>3, <2>1, <2>2, <2>3
<1>10. QED
  BY <1>2, <1>7, <1>8, <1>9 DEF Left

LEMMA LeftFills ==
  ASSUME Types, NEW k \in 0 .. Len(answer), Left(k), Fill
  PROVE  Left(k)'
BY DEF Types, Left, Fill, server

(* Reading a line takes the next one off.                                  *)
LEMMA LeftTakes ==
  ASSUME Types, NEW k \in 0 .. Len(answer), Left(k),
         buf # <<>>, buf' = Tail(buf), UNCHANGED <<answer, kernel, wire>>
  PROVE  k + 1 \in 1 .. Len(answer) /\ Left(k + 1)' /\ Head(buf) = answer[k + 1]
<1>1. /\ Len(buf) \in Nat \ {0} /\ Len(buf') = Len(buf) - 1 /\ Head(buf) = buf[1]
      /\ \A i \in 1 .. Len(buf') : buf'[i] = buf[i + 1]
  BY DEF Types
<1>2. Len(answer) \in Nat /\ Len(kernel) \in Nat /\ Len(wire) \in Nat /\ k \in Nat
  BY DEF Types
<1>3. k + Len(buf) + Len(kernel) + Len(wire) = Len(answer)
  BY DEF Left
<1>4. k + 1 \in 1 .. Len(answer) /\ Head(buf) = answer[k + 1]
  BY <1>1, <1>2, <1>3 DEF Left
<1>5. \A i \in 1 .. Len(buf') : buf'[i] = answer[(k + 1) + i]
  <2> TAKE i \in 1 .. Len(buf')
  <2>1. i + 1 \in 1 .. Len(buf) /\ (k + 1) + i = k + (i + 1)
    BY <1>1
  <2>2. QED
    BY <1>1, <2>1 DEF Left
<1>6. \A i \in 1 .. Len(kernel) : kernel[i] = answer[(k + 1) + Len(buf') + i]
  BY <1>1, <1>2 DEF Left
<1>7. \A i \in 1 .. Len(wire) : wire[i] = answer[(k + 1) + Len(buf') + Len(kernel) + i]
  <2> TAKE i \in 1 .. Len(wire)
  <2>1. (k + 1) + Len(buf') + Len(kernel) + i = k + Len(buf) + Len(kernel) + i
    BY <1>1, <1>2
  <2>2. QED
    BY <2>1 DEF Left
<1>8. (k + 1) + Len(buf') + Len(kernel) + Len(wire) = Len(answer)
  BY <1>1, <1>2, <1>3
<1>9. QED
  BY <1>4, <1>5, <1>6, <1>7, <1>8 DEF Left

-----------------------------------------------------------------------------
(* Dial reads head by head.                                                *)

LEMMA ReadingStep ==
  ASSUME Types, Types', Headed(answer), [Next]_vars,
         NEW k \in 0 .. Len(answer), Left(k), Reading(k)
  PROVE  \E l \in 0 .. Len(answer') : Left(l)' /\ Reading(l)'
<1> USE DEF Fails, Stop, server, lines, reading, limits, LimitWrite
<1>1. UNCHANGED answer
  BY DEF Next, Dial, Stages, Writes, vars, Arrive, TimePasses, Network, TLS, LimitHead, WriteHead, LimitTail, WriteTail, NextHead,
         OutOfTime, Fill, ReadStatus, ReadHeader, HeadEnds, ReadFails, Unlimit
<1>2. Len(answer) \in Nat /\ k \in Nat
  BY DEF Types
<1>3. ASSUME Left(k)', Reading(k)' PROVE \E l \in 0 .. Len(answer') : Left(l)' /\ Reading(l)'
  BY <1>1, <1>3
<1>4. CASE UNCHANGED <<pc, part, first, stopped>> /\ (Arrive \/ Fill \/ UNCHANGED lines)
  <2>1. Left(k)'
    BY <1>1, <1>4, LeftArrives, LeftFills DEF Left
  <2>2. Reading(k)'
    BY <1>1, <1>4 DEF Reading, BetweenHeads, InHead
  <2>3. QED
    BY <1>3, <2>1, <2>2
<1>5. CASE UNCHANGED vars \/ Arrive \/ TimePasses \/ Fill
  <2>1. UNCHANGED <<pc, part, first, stopped>> /\ (Arrive \/ Fill \/ UNCHANGED lines)
    BY <1>5 DEF vars, Arrive, TimePasses, Fill
  <2>2. QED
    BY <1>4, <2>1
<1>6. CASE Network \/ TLS \/ LimitHead \/ WriteHead \/ LimitTail \/ WriteTail
  <2>1. Left(k)'
    BY <1>1, <1>6 DEF Left, Network, TLS, LimitHead, WriteHead, LimitTail, WriteTail
  <2>2. Reading(k)'
    BY <1>1, <1>6 DEF Reading, BetweenHeads, InHead, Network, TLS, LimitHead, WriteHead, LimitTail, WriteTail
  <2>3. QED
    BY <1>3, <2>1, <2>2
<1>7. CASE NextHead \/ OutOfTime \/ Unlimit \/ ReadFails
  <2>1. Left(k)'
    BY <1>1, <1>7 DEF Left, NextHead, OutOfTime, Unlimit, ReadFails
  <2>2. Reading(k)'
    BY <1>1, <1>7 DEF Reading, BetweenHeads, InHead, NextHead, OutOfTime, Unlimit, ReadFails
  <2>3. QED
    BY <1>3, <2>1, <2>2
<1>8. ASSUME ReadStatus \/ ReadHeader \/ HeadEnds
      PROVE  /\ k + 1 \in 1 .. Len(answer) /\ Left(k + 1)' /\ Head(buf) = answer[k + 1]
             /\ stopped # "101" /\ pc = "read" /\ DOMAIN answer = 1 .. Len(answer)
  <2>1. buf # <<>> /\ buf' = Tail(buf) /\ UNCHANGED <<answer, kernel, wire>> /\ pc = "read"
    BY <1>8 DEF ReadStatus, ReadHeader, HeadEnds
  <2>2. QED
    BY <2>1, LeftTakes DEF Reading, Types
<1>9. ASSUME ReadStatus \/ ReadHeader \/ HeadEnds, Reading(k + 1)'
      PROVE  \E l \in 0 .. Len(answer') : Left(l)' /\ Reading(l)'
  BY <1>1, <1>8, <1>9
<1>10. CASE ReadStatus
  <2>1. BetweenHeads(k) /\ pc' = "read" /\ part' = "headers" /\ first' = answer[k + 1]
        /\ stopped' # "101"
    BY <1>8, <1>10 DEF ReadStatus, Reading
  <2>2. answer[k + 1] # "blank"
    BY <1>2, <1>8, <1>10, <2>1 DEF Headed, BetweenHeads
  <2>3. InHead(k + 1, k + 1)
    BY <1>2, <2>1, <2>2 DEF InHead, BetweenHeads
  <2>4. Reading(k + 1)'
    BY <1>1, <1>2, <2>1, <2>3 DEF Reading, InHead
  <2>5. QED
    BY <1>9, <1>10, <2>4
<1>11. CASE ReadHeader
  <2>1. pc' = "read" /\ part = "headers" /\ part' = "headers" /\ first' = first
        /\ stopped' # "101" /\ answer[k + 1] # "blank"
    BY <1>8, <1>11 DEF ReadHeader
  <2>2. PICK h \in 1 .. k : InHead(h, k) /\ answer[h] = first
    BY <1>8, <1>11, <2>1 DEF Reading
  <2>3. h \in 1 .. k + 1 /\ InHead(h, k + 1)
    BY <1>2, <2>1, <2>2 DEF InHead
  <2>4. Reading(k + 1)'
    BY <1>1, <1>2, <2>1, <2>2, <2>3 DEF Reading, InHead
  <2>5. QED
    BY <1>9, <1>11, <2>4
<1>12. CASE HeadEnds
  <2>1. part = "headers" /\ answer[k + 1] = "blank"
    BY <1>8, <1>12 DEF HeadEnds
  <2>2. PICK h \in 1 .. k : InHead(h, k) /\ answer[h] = first
    BY <1>8, <1>12, <2>1 DEF Reading
  <2>3. CASE first = "101"
    <3>1. pc' = "unlimit" /\ stopped' = "101"
      BY <1>12, <2>3 DEF HeadEnds
    <3>2. Reading(k + 1)'
      BY <1>1, <1>2, <2>1, <2>2, <2>3, <3>1 DEF Reading, InHead
    <3>3. QED
      BY <1>9, <1>12, <3>2
  <2>4. CASE first # "101"
    <3>1. pc' = "drain" /\ stopped' # "101"
      BY <1>8, <1>12, <2>4 DEF HeadEnds
    <3>2. \A i \in 1 .. k + 1 : answer[i] # "101"
      <4> TAKE i \in 1 .. k + 1
      <4>1. CASE i < h
        BY <2>2, <4>1 DEF InHead
      <4>2. CASE i = h
        BY <2>2, <2>4, <4>2
      <4>3. CASE i > h /\ i <= k
        <5>1. i \in DOMAIN answer /\ i # 1 /\ answer[i - 1] # "blank"
          BY <1>2, <1>8, <1>12, <2>2, <4>3 DEF InHead
        <5>2. QED
          BY <5>1 DEF Headed
      <4>4. CASE i = k + 1
        BY <2>1, <4>4
      <4>5. QED
        BY <1>2, <4>1, <4>2, <4>3, <4>4
    <3>3. Reading(k + 1)'
      BY <1>1, <1>2, <2>1, <3>1, <3>2 DEF Reading, BetweenHeads
    <3>4. QED
      BY <1>9, <1>12, <3>3
  <2>5. QED
    BY <2>3, <2>4
<1>13. QED
  BY <1>5, <1>6, <1>7, <1>10, <1>11, <1>12 DEF Next, Dial, Stages, Writes

-----------------------------------------------------------------------------
(* The connection that is handed on.                                       *)

LEMMA InitFollowed == Init => Followed
<1> SUFFICES ASSUME Init PROVE Followed
  OBVIOUS
<1>1. Types
  BY DEF Init, Types
<1>2. Len(answer) \in Nat /\ 0 \in 0 .. Len(answer)
  BY <1>1 DEF Types
<1>3. Left(0)
  BY <1>1, <1>2 DEF Init, Left
<1>4. Reading(0)
  BY DEF Init, Reading, BetweenHeads
<1>5. QED
  BY <1>1, <1>2, <1>3, <1>4 DEF Followed

LEMMA FollowedStep == Followed /\ [Next]_vars => Followed'
<1> SUFFICES ASSUME Followed, [Next]_vars PROVE Followed'
  OBVIOUS
<1>1. Types /\ Types'
  BY TypesStep DEF Followed
<1>2. UNCHANGED answer
  BY DEF Next, Dial, Stages, Writes, vars, server, Arrive, TimePasses, Network, TLS, LimitHead, WriteHead, LimitTail, WriteTail,
         NextHead, OutOfTime, Fill, ReadStatus, ReadHeader, HeadEnds, ReadFails, Unlimit,
         Fails, Stop, LimitWrite
<1>3. Headed(answer)' => Headed(answer)
  BY <1>2 DEF Headed
<1>4. Headed(answer) => \E k \in 0 .. Len(answer') : Left(k)' /\ Reading(k)'
  BY <1>1, ReadingStep DEF Followed
<1>5. QED
  BY <1>1, <1>3, <1>4 DEF Followed

(* The first blank line behind the first 101 is the last line read.        *)
LEMMA SwitchAt ==
  ASSUME Types, NEW k \in 0 .. Len(answer), Reading(k), stopped = "101"
  PROVE  AfterSwitch = SubSeq(answer, k + 1, Len(answer))
<1> DEFINE ends == {j \in DOMAIN answer : answer[j] = "blank" /\ Has(SubSeq(answer, 1, j), "101")}
<1>1. Len(answer) \in Nat /\ DOMAIN answer = 1 .. Len(answer) /\ k \in Nat \ {0}
  BY DEF Types, Reading
<1>2. PICK h \in 1 .. k - 1 : InHead(h, k - 1) /\ answer[h] = "101"
  BY DEF Reading
<1>3. ASSUME NEW j \in DOMAIN answer
      PROVE  /\ DOMAIN SubSeq(answer, 1, j) = 1 .. j
             /\ \A i \in 1 .. j : SubSeq(answer, 1, j)[i] = answer[i]
  BY <1>1, <1>3 DEF Types
<1>4. k \in ends
  <2>1. k \in DOMAIN answer /\ h \in 1 .. k
    BY <1>1, <1>2
  <2>2. Has(SubSeq(answer, 1, k), "101")
    BY <1>2, <1>3, <2>1 DEF Has
  <2>3. QED
    BY <2>1, <2>2 DEF Reading
<1>5. ASSUME NEW j \in ends PROVE k <= j
  <2>1. PICK i \in 1 .. j : answer[i] = "101"
    BY <1>3 DEF Has
  <2>2. ~(i < h)
    BY <1>1, <1>2, <2>1 DEF InHead
  <2>3. ~(j \in h .. k - 1)
    BY <1>2 DEF InHead
  <2>4. QED
    BY <1>1, <1>2, <2>1, <2>2, <2>3
<1>6. \A e \in ends : (\A j \in ends : e <= j) => e = k
  BY <1>1, <1>4, <1>5
<1>7. (CHOOSE e \in ends : \A j \in ends : e <= j) = k
  <2> HIDE DEF ends
  <2>1. \E e \in ends : \A j \in ends : e <= j
    BY <1>4, <1>5
  <2>2. QED
    BY <1>6, <2>1
<1>8. QED
  BY <1>7 DEF AfterSwitch

(* What is left is what the caller reads.                                  *)
LEMMA LeftRemains ==
  ASSUME Types, NEW k \in 0 .. Len(answer), Left(k)
  PROVE  Remaining = SubSeq(answer, k + 1, Len(answer))
<1> DEFINE rest == SubSeq(answer, k + 1, Len(answer))
<1>1. /\ Len(buf) \in Nat /\ Len(kernel) \in Nat /\ Len(wire) \in Nat
      /\ Len(answer) \in Nat /\ k \in Nat
  BY DEF Types
<1>2. k + Len(buf) + Len(kernel) + Len(wire) = Len(answer)
  BY DEF Left
<1>3. /\ rest \in Seq(Lines) /\ Len(rest) = Len(answer) - k
      /\ \A i \in 1 .. Len(rest) : rest[i] = answer[k + i]
  BY <1>1 DEF Types
<1>4. buf \o kernel \in Seq(Lines) /\ Len(buf \o kernel) = Len(buf) + Len(kernel)
  BY DEF Types
<1>5. Remaining \in Seq(Lines) /\ Len(Remaining) = Len(rest)
  BY <1>1, <1>2, <1>3, <1>4 DEF Remaining, Types
<1>6. ASSUME NEW i \in 1 .. Len(rest) PROVE Remaining[i] = rest[i]
  <2>1. CASE i <= Len(buf)
    <3>1. Remaining[i] = buf[i]
      BY <1>1, <1>4, <2>1 DEF Remaining, Types
    <3>2. QED
      BY <1>1, <1>3, <2>1, <3>1 DEF Left
  <2>2. CASE i > Len(buf) /\ i <= Len(buf) + Len(kernel)
    <3>1. Remaining[i] = kernel[i - Len(buf)]
      BY <1>1, <1>4, <2>2 DEF Remaining, Types
    <3>2. i - Len(buf) \in 1 .. Len(kernel) /\ k + Len(buf) + (i - Len(buf)) = k + i
      BY <1>1, <2>2
    <3>3. QED
      BY <1>3, <3>1, <3>2 DEF Left
  <2>3. CASE i > Len(buf) + Len(kernel)
    <3> DEFINE at == i - Len(buf) - Len(kernel)
    <3>1. at \in 1 .. Len(wire) /\ k + Len(buf) + Len(kernel) + at = k + i
      BY <1>1, <1>2, <1>3, <2>3
    <3>2. Remaining[i] = wire[at]
      BY <1>1, <1>2, <1>3, <1>4, <2>3 DEF Remaining, Types
    <3>3. QED
      BY <1>3, <3>1, <3>2 DEF Left
  <2>4. QED
    BY <1>1, <1>3, <2>1, <2>2, <2>3
<1>7. QED
  BY <1>3, <1>5, <1>6

(* Whatever the segments and delays, a Dial that a 101 answer ends hands   *)
(* on exactly what the server sent behind that answer, for all servers     *)
(* whose answers are heads as HTTP has them.                               *)
THEOREM SwitchIsClean == (\A a \in Answers : Headed(a)) => (Spec => []SwitchLosesNothing)
<1> SUFFICES ASSUME \A a \in Answers : Headed(a) PROVE Spec => []SwitchLosesNothing
  OBVIOUS
<1>1. Followed => SwitchLosesNothing
  <2> SUFFICES ASSUME Followed, stopped = "101" PROVE Remaining = AfterSwitch
    BY DEF SwitchLosesNothing
  <2>1. Types
    BY DEF Followed
  <2>2. PICK k \in 0 .. Len(answer) : Left(k) /\ Reading(k)
    BY <2>1 DEF Followed, Types
  <2>3. QED
    BY <2>1, <2>2, SwitchAt, LeftRemains
<1>2. QED
  BY <1>1, InitFollowed, FollowedStep, PTL DEF Spec
=============================================================================
