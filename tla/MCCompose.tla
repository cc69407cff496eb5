----------------------------- MODULE MCCompose -----------------------------
(* Three words and two sends in each life of the tab, so that a text comes *)
(* back, grows and is sent again while another is under way; one death.    *)
EXTENDS Compose
===========================================================================
