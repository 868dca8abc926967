---------------------------- MODULE FeedsProofs -----------------------------
(***************************************************************************)
(* Theorems about the feeds of the API, for any number of producers, of    *)
(* clients and connections, for any capacity of the channels, and for a    *)
(* list of connections that changes without end.                           *)
(***************************************************************************)
EXTENDS MCFeeds, Sequences, TLAPS

-----------------------------------------------------------------------------
(* The feed of the connections.                                            *)

(* A handler is registered from its Subscribe to its unsubscribe, and its  *)
(* channel is closed only after that.                                      *)
Subscribed == {"first", "firstwrite", "loop", "woken", "write", "leave"}

Registration ==
    \A h \in Handlers :
        /\ h \in subs <=> hpc[h] \in Subscribed
        /\ h \in closed => hpc[h] = "done"

(* A wake-up is on its way to h: in its channel, or with a producer.       *)
Coming(h) == h \in full \/ notifies # {}

(* What is about to be written, and what has been, is either current or    *)
(* followed by a wake-up.                                                  *)
WakeUps ==
    \A h \in Handlers :
        /\ hpc[h] \in {"firstwrite", "write"} /\ held[h] # conns => Coming(h)
        /\ hpc[h] = "loop" /\ client[h] # "reset" /\ shown[h] # conns => Coming(h)

ConnInv == TypeOK /\ Registration /\ WakeUps

-----------------------------------------------------------------------------

LEMMA TypeOKStep == TypeOK /\ [Next]_vars => TypeOK'
<1> SUFFICES ASSUME TypeOK, [Next]_vars PROVE TypeOK'
  OBVIOUS
<1> USE DEF TypeOK, Lists, tracker, Goes
<1>1. ASSUME NEW p \in Producers, Open(p) \/ Close(p) PROVE TypeOK'
  <2>1. PICK list \in SUBSET Conns : Changes(p, list)
    BY <1>1 DEF Open, Close
  <2>2. changes' \in Nat /\ conns' \in SUBSET Conns /\ notifies' \in SUBSET Producers
    BY <2>1 DEF Changes
  <2>3. QED
    BY <2>1, <2>2 DEF Changes
<1>2. ASSUME NEW p \in Producers, Notify(p) PROVE TypeOK'
  BY <1>2 DEF Notify
<1>3. ASSUME NEW h \in Handlers, Handles(h) PROVE TypeOK'
  <2>1. CASE Subscribe(h)
    BY <2>1 DEF Subscribe
  <2>2. CASE Snapshot(h)
    BY <2>2 DEF Snapshot
  <2>3. CASE Write(h)
    BY <2>3 DEF Write
  <2>4. CASE WriteFails(h)
    BY <2>4 DEF WriteFails
  <2>5. CASE Wakes(h)
    BY <2>5 DEF Wakes
  <2>6. CASE PingFails(h)
    BY <2>6 DEF PingFails
  <2>7. CASE Unregister(h)
    BY <2>7 DEF Unregister
  <2>8. CASE CloseChannel(h)
    BY <2>8 DEF CloseChannel
  <2>9. QED
    BY <1>3, <2>1, <2>2, <2>3, <2>4, <2>5, <2>6, <2>7, <2>8 DEF Handles
<1>4. ASSUME NEW h \in Handlers, ClientLeaves(h) \/ PeerResets(h) PROVE TypeOK'
  BY <1>4 DEF ClientLeaves, PeerResets
<1>5. CASE UNCHANGED vars
  BY <1>5 DEF vars
<1>6. QED
  BY <1>1, <1>2, <1>3, <1>4, <1>5 DEF Next

LEMMA RegistrationStep == TypeOK /\ Registration /\ [Next]_vars => Registration'
<1> SUFFICES ASSUME TypeOK, Registration, [Next]_vars PROVE Registration'
  OBVIOUS
<1> USE DEF Registration, Subscribed, tracker, Goes
<1>1. ASSUME NEW p \in Producers, Open(p) \/ Close(p) \/ Notify(p) PROVE Registration'
  BY <1>1 DEF Open, Close, Changes, Notify
<1>2. ASSUME NEW h \in Handlers, Handles(h) PROVE Registration'
  <2> USE DEF TypeOK
  <2>1. CASE Subscribe(h)
    BY <2>1 DEF Subscribe
  <2>2. CASE Snapshot(h) \/ Write(h) \/ WriteFails(h)
    BY <2>2 DEF Snapshot, Write, WriteFails
  <2>3. CASE Wakes(h) \/ PingFails(h)
    BY <2>3 DEF Wakes, PingFails
  <2>4. CASE Unregister(h)
    BY <2>4 DEF Unregister
  <2>5. CASE CloseChannel(h)
    BY <2>5 DEF CloseChannel
  <2>6. QED
    BY <1>2, <2>1, <2>2, <2>3, <2>4, <2>5 DEF Handles
<1>3. ASSUME NEW h \in Handlers, ClientLeaves(h) \/ PeerResets(h) PROVE Registration'
  BY <1>3 DEF ClientLeaves, PeerResets
<1>4. CASE UNCHANGED vars
  BY <1>4 DEF vars
<1>5. QED
  BY <1>1, <1>2, <1>3, <1>4 DEF Next

(* The list changes only with a notify to come; a notify reaches every     *)
(* handler that has taken a snapshot, since it subscribed before; and a    *)
(* handler that takes a wake-up takes a new snapshot before it waits again.*)
LEMMA WakeUpsStep == ConnInv /\ [Next]_vars => WakeUps'
<1> SUFFICES ASSUME TypeOK, Registration, WakeUps, [Next]_vars PROVE WakeUps'
  BY DEF ConnInv
<1> USE DEF WakeUps, Coming, tracker, Goes
<1>1. ASSUME NEW p \in Producers, Open(p) \/ Close(p) PROVE WakeUps'
  BY <1>1 DEF Open, Close, Changes
<1>2. ASSUME NEW p \in Producers, Notify(p) PROVE WakeUps'
  BY <1>2 DEF Notify, Registration, Subscribed
<1>3. ASSUME NEW h \in Handlers, Handles(h) PROVE WakeUps'
  <2> USE DEF TypeOK
  <2>1. CASE Subscribe(h)
    BY <2>1 DEF Subscribe
  <2>2. CASE Snapshot(h)
    BY <2>2 DEF Snapshot
  <2>3. CASE Write(h)
    BY <2>3 DEF Write
  <2>4. CASE WriteFails(h)
    BY <2>4 DEF WriteFails
  <2>5. CASE Wakes(h)
    BY <2>5 DEF Wakes
  <2>6. CASE PingFails(h) \/ Unregister(h) \/ CloseChannel(h)
    BY <2>6 DEF PingFails, Unregister, CloseChannel
  <2>7. QED
    BY <1>3, <2>1, <2>2, <2>3, <2>4, <2>5, <2>6 DEF Handles
<1>4. ASSUME NEW h \in Handlers, ClientLeaves(h) \/ PeerResets(h) PROVE WakeUps'
  BY <1>4 DEF ClientLeaves, PeerResets, TypeOK
<1>5. CASE UNCHANGED vars
  BY <1>5 DEF vars
<1>6. QED
  BY <1>1, <1>2, <1>3, <1>4, <1>5 DEF Next

LEMMA ConnInvariance == Spec => []ConnInv
<1>1. Init => ConnInv
  BY DEF Init, ConnInv, TypeOK, Lists, Registration, Subscribed, WakeUps
<1>2. ConnInv /\ [Next]_vars => ConnInv'
  BY TypeOKStep, RegistrationStep, WakeUpsStep DEF ConnInv
<1>3. QED
  BY <1>1, <1>2, PTL DEF Spec

-----------------------------------------------------------------------------
(* The feed of the logs.                                                   *)

(* What a history of any length is made of.                                *)
Shape ==
    /\ logSubs \in SUBSET Handlers /\ logClosed \in SUBSET Handlers
    /\ queue \in [Handlers -> Seq(Nat)] /\ got \in [Handlers -> Seq(Nat)]
    /\ sending \in [Producers -> Nat]
    /\ todo \in [Producers -> SUBSET Handlers]
    /\ logs \in Nat /\ logs <= MaxLogs /\ returned \in SUBSET Nat
    /\ prior \in [1..MaxLogs -> SUBSET Nat]
    /\ logPc \in [Handlers -> {"none", "loop", "write", "leave", "unregistered", "done"}]

(* A publisher holds the lock while it has channels to send to, so they    *)
(* are registered; and a channel is closed only after it has been taken    *)
(* out of the map.                                                         *)
LogRegistration ==
    /\ \A p \in Producers : todo[p] \subseteq logSubs /\ (sending[p] = 0 => todo[p] = {})
    /\ \A h \in Handlers :
          /\ h \in logSubs => logPc[h] \in {"loop", "write", "leave"}
          /\ h \in logClosed => logPc[h] = "done"

(* Each publisher is at a message of its own that has not returned.        *)
Underway ==
    /\ \A p \in Producers : sending[p] <= logs /\ sending[p] \notin returned \ {0}
    /\ \A p, q \in Producers : sending[p] = sending[q] /\ sending[p] # 0 => p = q
    /\ \A m \in returned : 1 <= m /\ m <= logs
    /\ \A m \in 1..MaxLogs : prior[m] \subseteq returned

(* What a client has been sent, and what is waiting in its channel.        *)
Seen(h) == got[h] \o queue[h]

Orderly(s) ==
    /\ \A i \in 1..Len(s) : 1 <= s[i] /\ s[i] <= logs
    /\ \A i, j \in 1..Len(s) : i < j => s[j] \notin prior[s[i]]

LogInv == Shape /\ LogRegistration /\ Underway /\ \A h \in Handlers : Orderly(Seen(h))

Capacity == MaxLogs \in Nat /\ Cap \in Nat

-----------------------------------------------------------------------------
(* Receiving moves a message from the channel to the client and changes    *)
(* neither the messages nor their order.                                   *)
LEMMA ReceivingKeeps ==
    ASSUME NEW s \in Seq(Nat), NEW t \in Seq(Nat), t # <<>>
    PROVE  Append(s, Head(t)) \o Tail(t) = s \o t
  OBVIOUS

LEMMA EarlierAndLater ==
    ASSUME NEW n \in Nat, NEW i \in 1..(n + 1), NEW j \in 1..(n + 1), i < j
    PROVE  i \in 1..n /\ (j \in 1..n \/ j = n + 1)
  OBVIOUS

(* A message that is sent comes behind all the others; it has not returned, *)
(* and whatever had returned before another message began, has.             *)
LEMMA SendingKeepsOrder ==
    ASSUME Capacity, Shape, Underway,
           NEW s \in Seq(Nat), NEW t \in Seq(Nat), NEW m \in (1..logs) \ returned,
           Orderly(s \o t)
    PROVE  Orderly(s \o Append(t, m))
<1> DEFINE u == s \o t
           v == s \o Append(t, m)
<1>0. m \in Nat /\ logs \in Nat /\ 1 <= m /\ m <= logs
  BY DEF Shape
<1>1. u \in Seq(Nat) /\ v \in Seq(Nat) /\ Len(v) = Len(u) + 1
  BY <1>0
<1>2. v[Len(u) + 1] = m
  BY <1>0
<1>3. \A i \in 1..Len(u) : v[i] = u[i]
  BY <1>0
<1>4. Len(u) \in Nat /\ \A i \in 1..Len(u) : u[i] \in Nat
  BY <1>1
<1>5. Orderly(u)
  OBVIOUS
<1> HIDE DEF u, v
<1>6. \A i \in 1..Len(v) : 1 <= v[i] /\ v[i] <= logs
  <2> TAKE i \in 1..Len(v)
  <2>1. i \in 1..Len(u) \/ i = Len(u) + 1
    BY <1>1, <1>4
  <2>2. QED
    BY <1>0, <1>2, <1>3, <1>5, <2>1 DEF Orderly
<1>7. ASSUME NEW i \in 1..Len(v), NEW j \in 1..Len(v), i < j
      PROVE  v[j] \notin prior[v[i]]
  <2>0. i \in 1..(Len(u) + 1) /\ j \in 1..(Len(u) + 1)
    BY <1>1
  <2>1. i \in 1..Len(u) /\ (j \in 1..Len(u) \/ j = Len(u) + 1)
    BY <1>4, <1>7, <2>0, EarlierAndLater
  <2>2. u[i] \in 1..MaxLogs
    BY <1>0, <1>4, <1>5, <2>1 DEF Orderly, Shape, Capacity
  <2>3. CASE j \in 1..Len(u)
    BY <1>3, <1>5, <1>7, <2>1, <2>3 DEF Orderly
  <2>4. CASE j = Len(u) + 1
    BY <1>2, <1>3, <2>1, <2>2, <2>4 DEF Underway
  <2>5. QED
    BY <2>1, <2>3, <2>4
<1>8. QED
  BY <1>6, <1>7 DEF Orderly, v

LEMMA ShapeStep == Capacity /\ Shape /\ [L!Next]_(L!vars) => Shape'
<1> SUFFICES ASSUME Capacity, Shape, [L!Next]_(L!vars) PROVE Shape'
  OBVIOUS
<1> USE DEF Shape, L!Goes, Capacity
<1>1. ASSUME NEW p \in Producers, L!Publish(p) PROVE Shape'
  BY <1>1 DEF L!Publish
<1>2. ASSUME NEW p \in Producers, L!Return(p) PROVE Shape'
  BY <1>2 DEF L!Return
<1>3. ASSUME NEW p \in Producers, NEW h \in Handlers, L!Send(p, h) PROVE Shape'
  BY <1>3 DEF L!Send
<1>4. ASSUME NEW h \in Handlers, L!Receive(h) PROVE Shape'
  BY <1>4 DEF L!Receive
<1>5. ASSUME NEW h \in Handlers,
             \/ L!Subscribe(h) \/ L!Write(h) \/ L!Unregister(h) \/ L!CloseChannel(h)
             \/ L!ClientLeaves(h)
      PROVE  Shape'
  BY <1>5 DEF L!Subscribe, L!Write, L!Unregister, L!CloseChannel, L!ClientLeaves
<1>6. CASE UNCHANGED L!vars
  BY <1>6 DEF L!vars
<1>7. QED
  BY <1>1, <1>2, <1>3, <1>4, <1>5, <1>6 DEF L!Next

LEMMA LogRegistrationStep ==
    Shape /\ LogRegistration /\ [L!Next]_(L!vars) => LogRegistration'
<1> SUFFICES ASSUME Shape, LogRegistration, [L!Next]_(L!vars) PROVE LogRegistration'
  OBVIOUS
<1> USE DEF LogRegistration, L!Goes, Shape
<1>1. ASSUME NEW p \in Producers, L!Publish(p) \/ L!Return(p) PROVE LogRegistration'
  <2>1. CASE L!Publish(p)
    BY <2>1 DEF L!Publish
  <2>2. CASE L!Return(p)
    BY <2>2 DEF L!Return
  <2>3. QED
    BY <1>1, <2>1, <2>2
<1>2. ASSUME NEW p \in Producers, NEW h \in Handlers, L!Send(p, h) PROVE LogRegistration'
  BY <1>2 DEF L!Send
<1>3. ASSUME NEW h \in Handlers, L!Subscribe(h) PROVE LogRegistration'
  BY <1>3 DEF L!Subscribe
<1>4. ASSUME NEW h \in Handlers, L!Receive(h) \/ L!Write(h) PROVE LogRegistration'
  BY <1>4 DEF L!Receive, L!Write
<1>5. ASSUME NEW h \in Handlers, L!Unregister(h) PROVE LogRegistration'
  <2>1. \A p \in Producers : todo[p] = {}
    BY <1>5 DEF L!Unregister, L!LockFree, L!Publishing
  <2>2. QED
    BY <1>5, <2>1 DEF L!Unregister
<1>6. ASSUME NEW h \in Handlers, L!CloseChannel(h) \/ L!ClientLeaves(h) PROVE LogRegistration'
  BY <1>6 DEF L!CloseChannel, L!ClientLeaves
<1>7. CASE UNCHANGED L!vars
  BY <1>7 DEF L!vars
<1>8. QED
  BY <1>1, <1>2, <1>3, <1>4, <1>5, <1>6, <1>7 DEF L!Next

LEMMA UnderwayStep == Capacity /\ Shape /\ Underway /\ [L!Next]_(L!vars) => Underway'
<1> SUFFICES ASSUME Capacity, Shape, Underway, [L!Next]_(L!vars) PROVE Underway'
  OBVIOUS
<1> USE DEF Underway, Shape, Capacity
<1>1. ASSUME NEW p \in Producers, L!Publish(p) PROVE Underway'
  BY <1>1 DEF L!Publish
<1>2. ASSUME NEW p \in Producers, L!Return(p) PROVE Underway'
  BY <1>2 DEF L!Return
<1>3. ASSUME NEW p \in Producers, NEW h \in Handlers, L!Send(p, h) PROVE Underway'
  BY <1>3 DEF L!Send
<1>4. ASSUME NEW h \in Handlers,
             \/ L!Subscribe(h) \/ L!Receive(h) \/ L!Write(h) \/ L!Unregister(h)
             \/ L!CloseChannel(h) \/ L!ClientLeaves(h)
      PROVE  Underway'
  BY <1>4 DEF L!Subscribe, L!Receive, L!Write, L!Unregister, L!CloseChannel, L!ClientLeaves
<1>5. CASE UNCHANGED L!vars
  BY <1>5 DEF L!vars
<1>6. QED
  BY <1>1, <1>2, <1>3, <1>4, <1>5 DEF L!Next

LEMMA OrderStep ==
    Capacity /\ LogInv /\ [L!Next]_(L!vars) => (\A h \in Handlers : Orderly(Seen(h)))'
<1> SUFFICES ASSUME Capacity, LogInv, [L!Next]_(L!vars)
             PROVE  \A k \in Handlers : Orderly(Seen(k))'
  OBVIOUS
<1>0. \A k \in Handlers : /\ got[k] \in Seq(Nat) /\ queue[k] \in Seq(Nat)
                           /\ Seen(k) \in Seq(Nat) /\ Orderly(Seen(k))
  BY DEF LogInv, Shape, Seen
<1>1. ASSUME UNCHANGED <<logs, prior>>, \A k \in Handlers : Seen(k)' = Seen(k)
      PROVE  \A k \in Handlers : Orderly(Seen(k))'
  BY <1>0, <1>1 DEF Orderly
<1>2. ASSUME NEW p \in Producers, L!Publish(p) PROVE \A k \in Handlers : Orderly(Seen(k))'
  <2>1. \A k \in Handlers : Seen(k)' = Seen(k)
    BY <1>2 DEF L!Publish, Seen
  <2>2. logs' = logs + 1 /\ \A m \in 1..logs : prior'[m] = prior[m]
    BY <1>2 DEF L!Publish, LogInv, Shape, Capacity
  <2>3. \A k \in Handlers : Len(Seen(k)) \in Nat /\ \A i \in 1..Len(Seen(k)) : Seen(k)[i] \in Nat
    BY <1>0
  <2>4. SUFFICES ASSUME NEW k \in Handlers
                 PROVE  /\ \A i \in 1..Len(Seen(k)) :
                              1 <= Seen(k)[i] /\ Seen(k)[i] <= logs'
                        /\ \A i, j \in 1..Len(Seen(k)) :
                              i < j => Seen(k)[j] \notin prior'[Seen(k)[i]]
    BY <2>1 DEF Orderly
  <2>5. \A i \in 1..Len(Seen(k)) :
           1 <= Seen(k)[i] /\ Seen(k)[i] <= logs /\ Seen(k)[i] \in 1..logs
    BY <1>0, <2>3 DEF Orderly, LogInv, Shape
  <2>6. \A i, j \in 1..Len(Seen(k)) : i < j => Seen(k)[j] \notin prior[Seen(k)[i]]
    BY <1>0 DEF Orderly
  <2>7. logs \in Nat
    BY DEF LogInv, Shape
  <2>8. \A i \in 1..Len(Seen(k)) : 1 <= Seen(k)[i] /\ Seen(k)[i] <= logs'
    <3> TAKE i \in 1..Len(Seen(k))
    <3>1. Seen(k)[i] \in Nat /\ 1 <= Seen(k)[i] /\ Seen(k)[i] <= logs
      BY <2>3, <2>5
    <3>2. QED
      BY <2>2, <2>7, <3>1
  <2>9. \A i \in 1..Len(Seen(k)) : prior'[Seen(k)[i]] = prior[Seen(k)[i]]
    BY <2>2, <2>5
  <2>10. QED
    BY <2>6, <2>8, <2>9
<1>3. ASSUME NEW p \in Producers, NEW h \in Handlers, L!Send(p, h)
      PROVE  \A k \in Handlers : Orderly(Seen(k))'
  <2>0. UNCHANGED <<logs, prior, got>> /\ \A k \in Handlers \ {h} : Seen(k)' = Seen(k)
    BY <1>3 DEF L!Send, Seen, LogInv, Shape
  <2>1. CASE Len(queue[h]) < Cap
    <3>1. Seen(h)' = got[h] \o Append(queue[h], sending[p])
      BY <1>3, <2>1 DEF L!Send, Seen, LogInv, Shape
    <3>2. sending[p] \in (1..logs) \ returned
      BY <1>3 DEF L!Send, LogInv, Shape, LogRegistration, Underway
    <3>3. Orderly(got[h] \o Append(queue[h], sending[p]))
      BY <1>0, <3>2, SendingKeepsOrder DEF LogInv, Seen
    <3>4. QED
      BY <1>0, <2>0, <3>1, <3>3 DEF Orderly
  <2>2. CASE ~(Len(queue[h]) < Cap)
    <3>1. queue' = queue
      BY <1>3, <2>2 DEF L!Send, LogInv, Shape
    <3>2. QED
      BY <1>1, <2>0, <3>1 DEF Seen
  <2>3. QED
    BY <2>1, <2>2
<1>4. ASSUME NEW h \in Handlers, L!Receive(h) PROVE \A k \in Handlers : Orderly(Seen(k))'
  <2>1. Seen(h)' = Append(got[h], Head(queue[h])) \o Tail(queue[h])
    BY <1>4 DEF L!Receive, Seen, LogInv, Shape
  <2>2. Seen(h)' = Seen(h)
    BY <1>0, <1>4, <2>1, ReceivingKeeps DEF L!Receive, Seen
  <2>3. UNCHANGED <<logs, prior>> /\ \A k \in Handlers \ {h} : Seen(k)' = Seen(k)
    BY <1>4 DEF L!Receive, Seen, LogInv, Shape
  <2>4. QED
    BY <1>1, <2>2, <2>3
<1>5. ASSUME UNCHANGED <<got, queue, logs, prior>> PROVE \A k \in Handlers : Orderly(Seen(k))'
  BY <1>1, <1>5 DEF Seen
<1>6. ASSUME NEW p \in Producers, L!Return(p) PROVE \A k \in Handlers : Orderly(Seen(k))'
  BY <1>5, <1>6 DEF L!Return
<1>7. ASSUME NEW h \in Handlers,
             \/ L!Subscribe(h) \/ L!Write(h) \/ L!Unregister(h) \/ L!CloseChannel(h)
             \/ L!ClientLeaves(h)
      PROVE  \A k \in Handlers : Orderly(Seen(k))'
  BY <1>5, <1>7 DEF L!Subscribe, L!Write, L!Unregister, L!CloseChannel, L!ClientLeaves
<1>8. CASE UNCHANGED L!vars
  BY <1>5, <1>8 DEF L!vars
<1>9. QED
  BY <1>2, <1>3, <1>4, <1>6, <1>7, <1>8 DEF L!Next

LEMMA LogInvariance == ASSUME Capacity PROVE L!Spec => []LogInv
<1>1. L!Init => LogInv
  BY DEF L!Init, LogInv, Shape, LogRegistration, Underway, Orderly, Seen, Capacity
<1>2. LogInv /\ [L!Next]_(L!vars) => LogInv'
  BY Capacity, ShapeStep, LogRegistrationStep, UnderwayStep, OrderStep DEF LogInv
<1>3. QED
  BY <1>1, <1>2, PTL DEF L!Spec

-----------------------------------------------------------------------------
(* The feeds together: what one does leaves the others where they are.     *)

LEMMA EachFeed == AllSpec => Spec /\ L!Spec
<1>1. AllInit => Init /\ L!Init
  BY DEF AllInit
<1>2. [AllNext]_allVars => [Next]_vars /\ [L!Next]_(L!vars)
  BY DEF AllNext, allVars, logVars, L!vars
<1>3. QED
  BY <1>1, <1>2, PTL DEF AllSpec, Spec, L!Spec

(* However producers, clients and handlers interleave, a client in front   *)
(* of an old list of connections will be woken: no announcement is lost    *)
(* between the two locks or in a full channel (connections.go:36-39).      *)
THEOREM NeverLeftWaiting == AllSpec => []NoWakeupLost
<1>1. ConnInv => NoWakeupLost
  BY DEF ConnInv, WakeUps, Coming, NoWakeupLost
<1>2. QED
  BY <1>1, ConnInvariance, EachFeed, PTL

(* Neither notify nor Publish ever sends to a closed channel, although     *)
(* unsubscribe closes it without the lock (connections.go:80-96,           *)
(* logs.go:14-37).                                                         *)
THEOREM SendsToOpenOnly == ASSUME Capacity PROVE AllSpec => []NoSendOnClosed
<1>1. ConnInv => NothingToClosed
  BY DEF ConnInv, TypeOK, Registration, Subscribed, NothingToClosed
<1>2. LogInv => L!LogsToOpenOnly
  BY DEF LogInv, Shape, LogRegistration, L!LogsToOpenOnly
<1>3. ConnInv /\ LogInv => NoSendOnClosed
  BY <1>1, <1>2 DEF NoSendOnClosed
<1>4. QED
  BY <1>3, ConnInvariance, LogInvariance, EachFeed, PTL

(* However the publishers and the handlers interleave and whatever a full  *)
(* channel drops, no client is shown a message after one that began only   *)
(* when the first had been published (logs.go:14-24).                      *)
THEOREM OrderKept == ASSUME Capacity PROVE AllSpec => []LogsInOrder
<1>1. LogInv => LogsInOrder
  <2> SUFFICES ASSUME LogInv, NEW h \in Handlers,
                      NEW i \in DOMAIN Seen(h), NEW j \in DOMAIN Seen(h), i < j
               PROVE  Seen(h)[j] \notin prior[Seen(h)[i]]
    BY DEF LogsInOrder, L!LogsInOrder, Seen
  <2>1. Seen(h) \in Seq(Nat)
    BY DEF LogInv, Shape, Seen
  <2>2. DOMAIN Seen(h) = 1..Len(Seen(h))
    BY <2>1
  <2>3. QED
    BY <2>2 DEF LogInv, Orderly
<1>2. QED
  BY <1>1, LogInvariance, EachFeed, PTL
=============================================================================
