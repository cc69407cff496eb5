---------------------------- MODULE MCReconnect -----------------------------
(* Two tickets, two sessions at one address, and two accidents.            *)
EXTENDS Reconnect, TLC

CONSTANTS t1, t2, s1, s2
=============================================================================
