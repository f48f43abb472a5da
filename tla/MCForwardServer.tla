-------------------------- MODULE MCForwardServer --------------------------
(* ForwardServer on a small instance: a pc_server session, a web_server    *)
(* session, two devices and two cars, each of which may serve either.      *)
EXTENDS ForwardServer

CONSTANTS s1, w1, d1, d2, c1, c2
=============================================================================
