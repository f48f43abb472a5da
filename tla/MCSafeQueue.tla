---------------------------- MODULE MCSafeQueue ----------------------------
(* SafeQueue with two threads on each side and room for two tasks. *)
EXTENDS SafeQueue

CONSTANTS p1, p2, c1, c2
=============================================================================
