------------------------------- MODULE Tunnel -------------------------------
(***************************************************************************)
(* What a Manager promises whoever dials through it: a tunnel is Down,     *)
(* Connecting or Up; each time it comes Up it does so on a connection made *)
(* for that attempt, never on one it has offered before, and it keeps that *)
(* one until it goes Down; after Close it stays Down.                      *)
(*                                                                         *)
(* The promise has a gap.  The tear-down of an earlier tunnel may still be *)
(* under way when a new attempt begins (late); from then on the tunnel may *)
(* lose its connection while Up.                                           *)
(***************************************************************************)
EXTENDS Naturals

NoConn == 0

VARIABLES
  state,    \* "down", "connecting", "up"
  offered,  \* the connection Dial gets to use; NoConn unless Up
  made,     \* connections made so far
  fresh,    \* the present attempt has made its connection
  late,     \* an attempt has begun before an earlier tear-down was over
  closed    \* Close has returned

vars == <<state, offered, made, fresh, late, closed>>

Init ==
  /\ state = "down" /\ offered = NoConn /\ made = 0
  /\ fresh = FALSE /\ late = FALSE /\ closed = FALSE

Begin ==
  /\ state = "down" /\ ~closed
  /\ state' = "connecting"
  /\ late' \in {late, TRUE}
  /\ UNCHANGED <<offered, made, fresh, closed>>

Make ==
  /\ state = "connecting" /\ ~fresh
  /\ made' = made + 1 /\ fresh' = TRUE
  /\ UNCHANGED <<state, offered, late, closed>>

Fail ==
  /\ state = "connecting"
  /\ state' = "down" /\ fresh' = FALSE
  /\ UNCHANGED <<offered, made, late, closed>>

Rise ==
  /\ state = "connecting" /\ fresh
  /\ state' = "up" /\ fresh' = FALSE
  /\ offered' = made \/ (late /\ offered' = NoConn)
  /\ UNCHANGED <<made, late, closed>>

Lose ==
  /\ state = "up" /\ late
  /\ offered' = NoConn
  /\ UNCHANGED <<state, made, fresh, late, closed>>

Fall ==
  /\ state = "up"
  /\ state' = "down" /\ offered' = NoConn
  /\ UNCHANGED <<made, fresh, late, closed>>

Close ==
  /\ state = "down" /\ ~closed
  /\ closed' = TRUE
  /\ UNCHANGED <<state, offered, made, fresh, late>>

Next == Begin \/ Make \/ Fail \/ Rise \/ Lose \/ Fall \/ Close

Spec == Init /\ [][Next]_vars
=============================================================================
