------------------------------- MODULE MCHost -------------------------------
(* Two viewers whose screens differ in both directions: neither is the     *)
(* smaller one, so the smallest size is not the size of any viewer.        *)
EXTENDS Host, TLC

CONSTANTS c1, c2
Viewers == {c1, c2}
Sizes == Columns \X Rows
Large == <<2, 2>>
===========================================================================
