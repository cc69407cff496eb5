---------------------------- MODULE MCWinSession ---------------------------
EXTENDS WinSession

CONSTANTS c1, c2

\* One screen is turned, the other one keeps the larger size.
Turned == [c \in Conns |-> IF c = c1 THEN Sizes ELSE {2}]
=============================================================================
