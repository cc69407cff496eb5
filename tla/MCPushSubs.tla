----------------------------- MODULE MCPushSubs -----------------------------
(* One notification in flight is enough to bring a device back.            *)
EXTENDS PushSubs, TLC

CONSTANTS phone, laptop, n1
Devices == {phone, laptop}
Notifications == {n1}
=============================================================================
