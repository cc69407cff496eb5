---------------------------- MODULE MCTmuxPaste ----------------------------
(* Two phones: one pastes twice, types and taps, in any order, so that a   *)
(* paste may be behind one that timed out and the tap passes the queue by; *)
(* the other one pastes at the same time.                                  *)
EXTENDS TmuxPaste, TLC

CONSTANTS a, b, p1, p2, q1, t1, k1

Sender == p1 :> a @@ p2 :> a @@ t1 :> a @@ k1 :> a @@ q1 :> b
Mixes == {{p1, p2, k1}, {p1, p2, t1}, {p1, k1, t1}, {p1, q1}}
===========================================================================
