--------------------------- MODULE MCAttachQueue ---------------------------
(* Three viewers would only add symmetric copies of the two that overlap.  *)
EXTENDS AttachQueue, TLC

CONSTANTS c1, c2
Viewers == {c1, c2}
===========================================================================
