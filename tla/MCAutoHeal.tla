-------------------------- MODULE MCAutoHeal -----------------------------
(* Instances of AutoHeal for TLC.                                          *)
EXTENDS AutoHeal

CONSTANTS o1, o2

TwoObservers == {o1, o2}

(* A call is degraded or unhealthy by its duration, or it failed, at once  *)
(* or after long.                                                          *)
BadCalls == {[ms |-> 2, failed |-> FALSE], [ms |-> 3, failed |-> FALSE],
             [ms |-> 0, failed |-> TRUE], [ms |-> 3, failed |-> TRUE]}
=============================================================================
