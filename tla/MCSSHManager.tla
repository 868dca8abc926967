---------------------------- MODULE MCSSHManager ----------------------------
(* Instances of SSHManager for TLC: model values for the goroutines.       *)
EXTENDS SSHManager

CONSTANTS d1, t1, t2

OneDialer == {d1}
TwoTasks  == {t1, t2}
=============================================================================
