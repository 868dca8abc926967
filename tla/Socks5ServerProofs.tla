------------------------- MODULE Socks5ServerProofs -------------------------
(***************************************************************************)
(* Theorems about Socks5Server for any number of connections, any limit    *)
(* and any time-outs.                                                      *)
(***************************************************************************)
EXTENDS Socks5Server, FiniteSetTheorems, TLAPS

USE Socks5Assumption

States  == Running \cup {"new", "taken", "refused", "gone"}
Working == Running \ {"finishing"}
Using   == {"taken", "spawned", "handshake", "dialing", "relay", "away", "closing"}

(* The connections that a table of places has at some of them.             *)
At(places, at) == {c \in Conns : at[c] \in places}

-----------------------------------------------------------------------------
(* The inductive invariant.                                                *)

(* Between Accept and its decision Serve has one connection in hand.       *)
InHand ==
  /\ taken # NoConn <=> spc \in {"check", "count", "spawn"}
  /\ \A c \in Conns : hpc[c] = "taken" <=> taken = c

(* What is counted, and what was tested before it is.                      *)
Counts ==
  /\ active = Cardinality(At(Working, hpc)) + (IF spc = "spawn" THEN 1 ELSE 0)
  /\ wg = Cardinality(At(Running, hpc))
  /\ active <= MaxConns
  /\ spc = "count" => active < MaxConns

(* A connection is open only from Accept to the end of its handler.        *)
OpenInUse == \A c \in Conns : open[c] => hpc[c] \in Using

(* Serve has returned once the drain has ended, and a clean one left no    *)
(* handler behind.                                                         *)
Drained ==
  /\ drained # "no" => spc = "returned"
  /\ drained = "clean" => \A c \in Conns : hpc[c] \notin Running

IInv == TypeOK /\ InHand /\ Counts /\ OpenInUse /\ Drained

-----------------------------------------------------------------------------
(* Counting handlers.                                                      *)

LEMMA PlacesFinite ==
  ASSUME NEW places, NEW at
  PROVE  IsFiniteSet(At(places, at)) /\ Cardinality(At(places, at)) \in Nat
<1>1. At(places, at) \subseteq Conns
  BY DEF At
<1>2. QED
  BY <1>1, FS_Subset, FS_CardinalityType

(* A handler that moves enters a set of places, leaves it, or neither.     *)
LEMMA Moves ==
  ASSUME NEW at, NEW after, NEW c \in Conns, \A d \in Conns \ {c} : after[d] = at[d], NEW places
  PROVE  /\ (at[c] \in places <=> after[c] \in places) =>
              At(places, after) = At(places, at)
         /\ at[c] \notin places /\ after[c] \in places =>
              Cardinality(At(places, after)) = Cardinality(At(places, at)) + 1
         /\ at[c] \in places /\ after[c] \notin places =>
              Cardinality(At(places, after)) = Cardinality(At(places, at)) - 1
<1>1. ASSUME at[c] \in places <=> after[c] \in places
      PROVE  At(places, after) = At(places, at)
  BY <1>1 DEF At
<1>2. ASSUME at[c] \notin places, after[c] \in places
      PROVE  At(places, after) = At(places, at) \cup {c} /\ c \notin At(places, at)
  BY <1>2 DEF At
<1>3. ASSUME at[c] \in places, after[c] \notin places
      PROVE  At(places, after) = At(places, at) \ {c} /\ c \in At(places, at)
  BY <1>3 DEF At
<1>4. ASSUME at[c] \notin places, after[c] \in places
      PROVE  Cardinality(At(places, after)) = Cardinality(At(places, at)) + 1
  BY <1>2, <1>4, PlacesFinite, FS_AddElement
<1>5. ASSUME at[c] \in places, after[c] \notin places
      PROVE  Cardinality(At(places, after)) = Cardinality(At(places, at)) - 1
  BY <1>3, <1>5, PlacesFinite, FS_RemoveElement
<1>6. QED
  BY <1>1, <1>4, <1>5

-----------------------------------------------------------------------------
(* Every step preserves the invariant.                                     *)

LEMMA TypeOKStep == TypeOK /\ InHand /\ Counts /\ [Next]_vars => TypeOK'
<1> SUFFICES ASSUME TypeOK, InHand, Counts, [Next]_vars PROVE TypeOK'
  OBVIOUS
<1> USE DEF TypeOK, Running, Ends, server, counts, timers, Touch
<1>1. CASE Cancel \/ CloseListener
  BY <1>1 DEF Cancel, CloseListener
<1>2. CASE Serve
  <2>1. CASE Listen \/ Admit \/ AcceptFails \/ DrainClean \/ DrainTimeout
    BY <2>1 DEF Listen, Admit, AcceptFails, DrainClean, DrainTimeout
  <2>2. CASE Refuse
    BY <2>2 DEF Refuse, InHand
  <2>3. CASE Count
    BY <2>3 DEF Count
  <2>4. CASE Spawn
    BY <2>4 DEF Spawn, InHand
  <2>5. QED
    BY <1>2, <2>1, <2>2, <2>3, <2>4 DEF Serve
<1>3. CASE Tick
  BY <1>3 DEF Tick
<1>4. ASSUME NEW c \in Conns, Accept(c) PROVE TypeOK'
  BY <1>4 DEF Accept
<1>5. ASSUME NEW c \in Conns, HandleConn(c) PROVE TypeOK'
  <2>1. CASE Start(c)
    BY <2>1 DEF Start
  <2>2. CASE Requests(c)
    BY <2>2 DEF Requests
  <2>3. CASE CloseConn(c)
    BY <2>3 DEF CloseConn
  <2>4. CASE IOFails(c)
    <3>1. ended' \in [Conns -> Ends]
      BY <2>4 DEF IOFails
    <3>2. QED
      BY <2>4, <3>1 DEF IOFails
  <2>5. CASE Uncount(c)
    <3>1. At(Working, hpc) # {}
      BY <2>5 DEF Uncount, At, Working
    <3>2. active - 1 \in Nat
      BY <3>1, PlacesFinite, FS_EmptySet DEF Counts
    <3>3. QED
      BY <2>5, <3>2 DEF Uncount
  <2>6. CASE Finish(c)
    <3>1. At(Running, hpc) # {}
      BY <2>6 DEF Finish, At
    <3>2. wg - 1 \in Nat
      BY <3>1, PlacesFinite, FS_EmptySet DEF Counts
    <3>3. QED
      BY <2>6, <3>2 DEF Finish
  <2>7. QED
    BY <1>5, <2>1, <2>2, <2>3, <2>4, <2>5, <2>6 DEF HandleConn
<1>6. ASSUME NEW c \in Conns, Watch(c) PROVE TypeOK'
  BY <1>6 DEF Watch, WatchSees, WatchKills, WatchStops
<1>7. ASSUME NEW c \in Conns,
             Transfers(c) \/ DialReturns(c) \/ ClientEnds(c) \/ Stalls(c) \/ Resumes(c)
      PROVE  TypeOK'
  BY <1>7 DEF Transfers, DialReturns, ClientEnds, Stalls, Resumes
<1>8. CASE UNCHANGED vars
  BY <1>8 DEF vars
<1>9. QED
  BY <1>1, <1>2, <1>3, <1>4, <1>5, <1>6, <1>7, <1>8 DEF Next

(* What a step of a handler may do to the table of places and to the       *)
(* counters: nothing, one move within Working, or one of its last two.     *)
LEMMA HandlerMoves ==
  ASSUME TypeOK, NEW c \in Conns,
         \/ HandleConn(c) \/ Watch(c) \/ Transfers(c) \/ DialReturns(c)
         \/ ClientEnds(c) \/ Stalls(c) \/ Resumes(c)
  PROVE  /\ UNCHANGED <<done, server>>
         /\ \/ UNCHANGED <<counts, hpc>>
            \/ /\ UNCHANGED counts /\ hpc[c] \in Working
               /\ \E to \in Working : hpc' = [hpc EXCEPT ![c] = to]
            \/ Uncount(c)
            \/ Finish(c)
<1> USE DEF Working, Running
<1>1. CASE Start(c)
  BY <1>1 DEF Start
<1>2. CASE Requests(c)
  BY <1>2 DEF Requests
<1>3. CASE IOFails(c)
  BY <1>3 DEF IOFails
<1>4. CASE CloseConn(c)
  BY <1>4 DEF CloseConn
<1>5. CASE Uncount(c) \/ Finish(c)
  BY <1>5 DEF Uncount, Finish
<1>6. CASE Watch(c) \/ Transfers(c)
  BY <1>6 DEF Watch, WatchSees, WatchKills, WatchStops, Transfers
<1>7. CASE DialReturns(c)
  BY <1>7 DEF DialReturns
<1>8. CASE ClientEnds(c) \/ Stalls(c) \/ Resumes(c)
  BY <1>8 DEF ClientEnds, Stalls, Resumes
<1>9. QED
  BY <1>1, <1>2, <1>3, <1>4, <1>5, <1>6, <1>7, <1>8 DEF HandleConn

LEMMA InHandStep == TypeOK /\ InHand /\ [Next]_vars => InHand'
<1> SUFFICES ASSUME TypeOK, InHand, [Next]_vars PROVE InHand'
  OBVIOUS
<1> USE DEF TypeOK, InHand, server
<1>1. CASE Cancel \/ CloseListener \/ Tick
  BY <1>1 DEF Cancel, CloseListener, Tick
<1>2. CASE Serve
  <2>1. CASE Listen \/ Admit \/ Count
    BY <2>1 DEF Listen, Admit, Count
  <2>2. CASE AcceptFails \/ DrainClean \/ DrainTimeout
    BY <2>2 DEF AcceptFails, DrainClean, DrainTimeout
  <2>3. CASE Refuse
    BY <2>3 DEF Refuse
  <2>4. CASE Spawn
    BY <2>4 DEF Spawn
  <2>5. QED
    BY <1>2, <2>1, <2>2, <2>3, <2>4 DEF Serve
<1>3. ASSUME NEW c \in Conns, Accept(c) PROVE InHand'
  BY <1>3 DEF Accept
<1>4. ASSUME NEW c \in Conns,
             \/ HandleConn(c) \/ Watch(c) \/ Transfers(c) \/ DialReturns(c)
             \/ ClientEnds(c) \/ Stalls(c) \/ Resumes(c)
      PROVE  InHand'
  <2>1. UNCHANGED <<spc, taken>>
    BY <1>4, HandlerMoves
  <2>2. \A d \in Conns : hpc'[d] = "taken" <=> hpc[d] = "taken"
    BY <1>4, HandlerMoves DEF Working, Running, Uncount, Finish
  <2>3. QED
    BY <2>1, <2>2
<1>5. CASE UNCHANGED vars
  BY <1>5 DEF vars
<1>6. QED
  BY <1>1, <1>2, <1>3, <1>4, <1>5 DEF Next

LEMMA CountsStep == TypeOK /\ InHand /\ Counts /\ [Next]_vars => Counts'
<1> SUFFICES ASSUME TypeOK, InHand, Counts, [Next]_vars PROVE Counts'
  OBVIOUS
<1> USE DEF server, counts
<1>1. hpc \in [Conns -> States] /\ active \in Nat /\ wg \in Nat /\ MaxConns \in Nat
  BY DEF TypeOK, States
<1>2. Cardinality(At(Working, hpc)) \in Nat /\ Cardinality(At(Running, hpc)) \in Nat
  BY PlacesFinite
<1>3. /\ {"new", "taken", "refused", "gone", "finishing"} \cap Working = {}
      /\ {"new", "taken", "refused", "gone"} \cap Running = {}
      /\ {"spawned", "leaving"} \subseteq Working /\ Working \subseteq Running
      /\ "finishing" \in Running
  BY DEF Working, Running
<1>4. ASSUME UNCHANGED <<active, wg, hpc, spc>> PROVE Counts'
  BY <1>4 DEF Counts
<1>5. CASE Cancel \/ CloseListener \/ Tick
  BY <1>4, <1>5 DEF Cancel, CloseListener, Tick
<1>6. CASE Serve
  <2>1. CASE Listen \/ Admit \/ AcceptFails \/ DrainClean \/ DrainTimeout
    BY <2>1 DEF Counts, Listen, Admit, AcceptFails, DrainClean, DrainTimeout
  <2>2. CASE Refuse
    <3>1. taken \in Conns /\ hpc[taken] = "taken"
      BY <2>2 DEF Refuse, InHand, TypeOK
    <3>2. At(Working, hpc') = At(Working, hpc) /\ At(Running, hpc') = At(Running, hpc)
      BY <1>1, <1>3, <2>2, <3>1, Moves DEF Refuse
    <3>3. QED
      BY <2>2, <3>2 DEF Refuse, Counts
  <2>3. CASE Count
    BY <1>1, <1>2, <2>3 DEF Count, Counts
  <2>4. CASE Spawn
    <3>1. taken \in Conns /\ hpc[taken] = "taken"
      BY <2>4 DEF Spawn, InHand, TypeOK
    <3>2. /\ Cardinality(At(Working, hpc')) = Cardinality(At(Working, hpc)) + 1
          /\ Cardinality(At(Running, hpc')) = Cardinality(At(Running, hpc)) + 1
      <4>1. /\ \A d \in Conns \ {taken} : hpc'[d] = hpc[d]
            /\ hpc[taken] \notin Running /\ hpc'[taken] \in Working
        BY <1>1, <1>3, <2>4, <3>1 DEF Spawn
      <4>2. QED
        BY <1>3, <3>1, <4>1, Moves
    <3>3. QED
      BY <1>1, <1>2, <2>4, <3>2 DEF Spawn, Counts
  <2>5. QED
    BY <1>6, <2>1, <2>2, <2>3, <2>4 DEF Serve
<1>7. ASSUME NEW c \in Conns, Accept(c) PROVE Counts'
  <2>1. At(Working, hpc') = At(Working, hpc) /\ At(Running, hpc') = At(Running, hpc)
    BY <1>1, <1>3, <1>7, Moves DEF Accept
  <2>2. QED
    BY <1>7, <2>1 DEF Accept, Counts
<1>8. ASSUME NEW c \in Conns,
             \/ HandleConn(c) \/ Watch(c) \/ Transfers(c) \/ DialReturns(c)
             \/ ClientEnds(c) \/ Stalls(c) \/ Resumes(c)
      PROVE  Counts'
  <2>1. UNCHANGED spc
    BY <1>8, HandlerMoves
  <2>2. CASE UNCHANGED <<counts, hpc>>
    BY <1>4, <2>1, <2>2
  <2>3. ASSUME UNCHANGED counts, hpc[c] \in Working,
               NEW to \in Working, hpc' = [hpc EXCEPT ![c] = to]
        PROVE  Counts'
    <3>1. At(Working, hpc') = At(Working, hpc) /\ At(Running, hpc') = At(Running, hpc)
      BY <1>1, <1>3, <2>3, Moves
    <3>2. QED
      BY <2>1, <2>3, <3>1 DEF Counts
  <2>4. CASE Uncount(c)
    <3>1. /\ Cardinality(At(Working, hpc')) = Cardinality(At(Working, hpc)) - 1
          /\ At(Running, hpc') = At(Running, hpc)
      <4>1. /\ \A d \in Conns \ {c} : hpc'[d] = hpc[d]
            /\ hpc[c] \in Working /\ hpc'[c] \in Running \ Working
        BY <1>1, <1>3, <2>4 DEF Uncount
      <4>2. QED
        BY <1>3, <4>1, Moves
    <3>2. QED
      BY <1>1, <1>2, <2>1, <2>4, <3>1 DEF Uncount, Counts
  <2>5. CASE Finish(c)
    <3>1. /\ At(Working, hpc') = At(Working, hpc)
          /\ Cardinality(At(Running, hpc')) = Cardinality(At(Running, hpc)) - 1
      <4>1. /\ \A d \in Conns \ {c} : hpc'[d] = hpc[d]
            /\ hpc[c] \in Running \ Working /\ hpc'[c] \notin Running
        BY <1>1, <1>3, <2>5 DEF Finish
      <4>2. QED
        BY <1>3, <4>1, Moves
    <3>2. QED
      BY <1>1, <1>2, <2>1, <2>5, <3>1 DEF Finish, Counts
  <2>6. QED
    BY <1>8, <2>2, <2>3, <2>4, <2>5, HandlerMoves
<1>9. CASE UNCHANGED vars
  BY <1>4, <1>9 DEF vars
<1>10. QED
  BY <1>5, <1>6, <1>7, <1>8, <1>9 DEF Next

LEMMA OpenInUseStep == TypeOK /\ InHand /\ OpenInUse /\ [Next]_vars => OpenInUse'
<1> SUFFICES ASSUME TypeOK, InHand, OpenInUse, [Next]_vars PROVE OpenInUse'
  OBVIOUS
<1> USE DEF TypeOK, OpenInUse, Using, counts
<1>1. CASE Cancel \/ CloseListener \/ Tick
  BY <1>1 DEF Cancel, CloseListener, Tick
<1>2. CASE Serve
  <2>1. CASE Listen \/ Admit \/ Count \/ AcceptFails \/ DrainClean \/ DrainTimeout
    BY <2>1 DEF Listen, Admit, Count, AcceptFails, DrainClean, DrainTimeout
  <2>2. CASE Refuse
    BY <2>2 DEF Refuse, InHand
  <2>3. CASE Spawn
    BY <2>3 DEF Spawn, InHand
  <2>4. QED
    BY <1>2, <2>1, <2>2, <2>3 DEF Serve
<1>3. ASSUME NEW c \in Conns, Accept(c) PROVE OpenInUse'
  BY <1>3 DEF Accept
<1>4. ASSUME NEW c \in Conns, HandleConn(c) PROVE OpenInUse'
  <2>1. CASE Start(c) \/ Requests(c)
    BY <2>1 DEF Start, Requests
  <2>2. CASE IOFails(c)
    BY <2>2 DEF IOFails
  <2>3. CASE CloseConn(c)
    BY <2>3 DEF CloseConn
  <2>4. CASE Uncount(c) \/ Finish(c)
    BY <2>4 DEF Uncount, Finish
  <2>5. QED
    BY <1>4, <2>1, <2>2, <2>3, <2>4 DEF HandleConn
<1>5. ASSUME NEW c \in Conns, Watch(c) PROVE OpenInUse'
  BY <1>5 DEF Watch, WatchSees, WatchKills, WatchStops
<1>6. ASSUME NEW c \in Conns,
             Transfers(c) \/ DialReturns(c) \/ ClientEnds(c) \/ Stalls(c) \/ Resumes(c)
      PROVE  OpenInUse'
  BY <1>6 DEF Transfers, DialReturns, ClientEnds, Stalls, Resumes
<1>7. CASE UNCHANGED vars
  BY <1>7 DEF vars
<1>8. QED
  BY <1>1, <1>2, <1>3, <1>4, <1>5, <1>6, <1>7 DEF Next

(* A wait group at zero means that no handler runs, and after the drain    *)
(* Serve spawns none.                                                      *)
LEMMA DrainedStep == TypeOK /\ Counts /\ Drained /\ [Next]_vars => Drained'
<1> SUFFICES ASSUME TypeOK, Counts, Drained, [Next]_vars PROVE Drained'
  OBVIOUS
<1> USE DEF Drained, server
<1>1. CASE Cancel \/ CloseListener \/ Tick
  BY <1>1 DEF Cancel, CloseListener, Tick
<1>2. CASE Serve
  <2>1. CASE Listen \/ Admit \/ Count \/ AcceptFails \/ DrainTimeout
    BY <2>1 DEF Listen, Admit, Count, AcceptFails, DrainTimeout
  <2>2. CASE Refuse \/ Spawn
    BY <2>2 DEF Refuse, Spawn
  <2>3. CASE DrainClean
    <3>1. At(Running, hpc) = {}
      BY <2>3, PlacesFinite, FS_EmptySet DEF DrainClean, Counts
    <3>2. QED
      BY <2>3, <3>1 DEF DrainClean, At
  <2>4. QED
    BY <1>2, <2>1, <2>2, <2>3 DEF Serve
<1>3. ASSUME NEW c \in Conns, Accept(c) PROVE Drained'
  BY <1>3 DEF Accept
<1>4. ASSUME NEW c \in Conns,
             \/ HandleConn(c) \/ Watch(c) \/ Transfers(c) \/ DialReturns(c)
             \/ ClientEnds(c) \/ Stalls(c) \/ Resumes(c)
      PROVE  Drained'
  <2>1. UNCHANGED <<spc, drained>>
    BY <1>4, HandlerMoves
  <2>2. CASE hpc' = hpc
    BY <2>1, <2>2
  <2>3. ASSUME hpc' # hpc PROVE hpc[c] \in Running
    BY <1>4, <2>3, HandlerMoves DEF Working, Running, Uncount, Finish
  <2>4. QED
    BY <2>1, <2>2, <2>3
<1>5. CASE UNCHANGED vars
  BY <1>5 DEF vars
<1>6. QED
  BY <1>1, <1>2, <1>3, <1>4, <1>5 DEF Next

-----------------------------------------------------------------------------
(* The invariant holds throughout, and the properties follow.              *)

LEMMA InitIInv == Init => IInv
<1> SUFFICES ASSUME Init PROVE IInv
  OBVIOUS
<1> USE DEF Init
<1>1. TypeOK
  <2>1. /\ left \in [Conns -> 0 .. HandshakeTO] /\ idle \in [Conns -> 0 .. IdleTimeout]
        /\ open \in [Conns -> BOOLEAN] /\ stop \in [Conns -> BOOLEAN]
    OBVIOUS
  <2>2. hpc \in [Conns -> States] /\ ended \in [Conns -> Ends]
        /\ watcher \in [Conns -> {"off", "on", "kill", "ended"}]
    BY DEF States, Ends
  <2>3. QED
    BY <2>1, <2>2 DEF TypeOK, States
<1>2. InHand /\ OpenInUse /\ Drained
  BY DEF InHand, OpenInUse, Drained, Running
<1>3. At(Working, hpc) = {} /\ At(Running, hpc) = {}
  BY DEF At, Working, Running
<1>4. Counts
  BY <1>3, FS_EmptySet DEF Counts
<1>5. QED
  BY <1>1, <1>2, <1>4 DEF IInv

(* Every reachable state satisfies the inductive invariant.                *)
THEOREM Invariance == Spec => []IInv
<1>1. Init => IInv
  BY InitIInv
<1>2. IInv /\ [Next]_vars => IInv'
  BY TypeOKStep, InHandStep, CountsStep, OpenInUseStep, DrainedStep DEF IInv
<1>3. QED
  BY <1>1, <1>2, PTL DEF Spec

(* Type correctness: neither counter goes below zero, nor a timer out of   *)
(* its range.                                                              *)
THEOREM TypeCorrect == Spec => []TypeOK
<1>1. IInv => TypeOK
  BY DEF IInv
<1>2. QED
  BY <1>1, Invariance, PTL

(* The connection limit holds although the loop tests the counter in one   *)
(* step and adds to it in another, and what is counted is the handlers     *)
(* that have not left.                                                     *)
THEOREM LimitIsHeld == Spec => []LimitHeld
<1>1. IInv => LimitHeld
  BY DEF IInv, Counts, LimitHeld, Counted, At, Working
<1>2. QED
  BY <1>1, Invariance, PTL

(* A refused connection is closed, and so is one whose handler has left.   *)
THEOREM NothingLeaks == Spec => []NoneLeaks
<1>1. IInv => NoneLeaks
  BY DEF IInv, OpenInUse, NoneLeaks, Using
<1>2. QED
  BY <1>1, Invariance, PTL

(* When drain says that the connections ended, they did: none is counted,  *)
(* none is in the loop's hands, none is open.                              *)
THEOREM CleanDrain == Spec => []CleanDrainIsQuiet
<1>1. ASSUME IInv PROVE CleanDrainIsQuiet
  <2> SUFFICES ASSUME drained = "clean"
               PROVE  active = 0 /\ spc = "returned"
                      /\ \A c \in Conns : hpc[c] \notin Running /\ ~open[c]
    BY DEF CleanDrainIsQuiet
  <2>1. spc = "returned" /\ \A c \in Conns : hpc[c] \notin Running
    BY <1>1 DEF IInv, Drained
  <2>2. At(Working, hpc) = {}
    BY <2>1 DEF At, Working
  <2>3. active = 0
    BY <1>1, <2>1, <2>2, FS_EmptySet DEF IInv, Counts
  <2>4. \A c \in Conns : hpc[c] # "taken"
    BY <1>1, <2>1 DEF IInv, InHand
  <2>5. \A c \in Conns : ~open[c]
    BY <1>1, <2>1, <2>4 DEF IInv, OpenInUse, Using, Running
  <2>6. QED
    BY <2>1, <2>3, <2>5
<1>2. QED
  BY <1>1, Invariance, PTL
=============================================================================
