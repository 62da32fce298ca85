------------------------------- MODULE MCBuild -------------------------------
(* Three builds at once; the text of one is flushed once, of two twice.    *)
EXTENDS CBackendBuild, TLC

CONSTANTS p1, p2, p3

BuildProcs == {p1, p2, p3}
TwoProcs   == {p1, p2}
BuildSize  == [p \in Proc |-> IF p = p1 THEN 1 ELSE 2]

\* gcc exits with 1 (where there is none the shell with 127: 127 * 256);
\* it is killed by a signal.
WaitStatus == {256, 9}
=============================================================================
