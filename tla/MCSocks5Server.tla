--------------------------- MODULE MCSocks5Server ---------------------------
(* Instances of Socks5Server for TLC.                                      *)
EXTENDS Socks5Server

CONSTANTS c1, c2

TwoConns == {c1, c2}
=============================================================================
