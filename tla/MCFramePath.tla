---------------------------- MODULE MCFramePath ----------------------------
(* FramePath with two viewers of different devices. *)
EXTENDS FramePath

CONSTANTS d1, d2, v1, v2

WatchEach == [v \in Viewers |-> IF v = v1 THEN d1 ELSE d2]
=============================================================================
