---------------------------- MODULE MCWebServer ----------------------------
(* WebServer with two devices, two browsers and a short task queue. *)
EXTENDS WebServer

CONSTANTS d1, d2, b1, b2
=============================================================================
