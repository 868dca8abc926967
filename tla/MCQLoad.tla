------------------------------ MODULE MCQLoad -------------------------------
(* Instances of QLoad for TLC.                                             *)
EXTENDS QLoad, TLC

CONSTANTS c1, c2, c3

ThreeCallers == {c1, c2, c3}

Spans == {0, 2, 3, 7}   \* durations of an attempt: the targets 2, 4, 6 and past the timeout
=============================================================================
