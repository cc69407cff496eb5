---------------------------- MODULE MCPresence ----------------------------
(* Two sockets, so that one viewer may leave while another stays.          *)
EXTENDS Presence, TLC

CONSTANTS s1, k1, k2
===========================================================================
