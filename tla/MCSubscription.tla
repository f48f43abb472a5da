--------------------------- MODULE MCSubscription ---------------------------
(* pc_server with two viewers of one device, and its jt1078_server with    *)
(* one car.                                                                *)
EXTENDS Subscription

CONSTANTS v1, v2, d1, c1
=============================================================================
